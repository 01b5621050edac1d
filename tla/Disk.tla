-------------------------------- MODULE Disk --------------------------------
(***************************************************************************)
(* read_disk and write_disk of kernel/utils/utils.cpp with the ATA drive   *)
(* they poll.  They run with interrupts off, so what interleaves is the    *)
(* drive: it takes commands, is busy, asks for data, is done or fails, in  *)
(* its own time, and the status register follows a little later (400 ns    *)
(* by the standard, which four reads of the register wait out).            *)
(*                                                                         *)
(* A drive is external: it is modelled from what the driver reads and      *)
(* writes.  What it makes of a command it gets in the middle of another is *)
(* not determined: it takes it or ignores it.                              *)
(***************************************************************************)
EXTENDS Naturals, Sequences

CONSTANTS Sectors,      \* the disk has the sectors 0 .. Sectors - 1
          Data,
          Counts,       \* numbers of sectors callers ask for
          TIMEOUT       \* reads of the status before a call gives up

ASSUME SizeAssumption == /\ Sectors \in Nat \ {0} /\ Sectors <= 2^28
                         /\ Counts \subseteq 1 .. 255
                         /\ TIMEOUT \in Nat \ {0}

Sector == 0 .. Sectors - 1

VARIABLES req,      \* the call: where it is, its arguments, s and timeout
          buffer,   \* what a read has stored
          failed,   \* a call has failed
          drive,    \* phase, command, next sector, sectors left
          shown,    \* the phase the status register shows
          content   \* the sectors, cache included

driver == <<req, buffer, failed>>
vars == <<driver, drive, shown, content>>

Phase == {"idle", "busy", "drq", "error"}

NoReq == [pc |-> "idle", kind |-> "none", lba |-> 0, count |-> 0, data |-> <<>>,
          s |-> 0, timeout |-> TIMEOUT]

IdleDrive == [phase |-> "idle", cmd |-> "none", at |-> 0, left |-> 0]

Init == /\ req = NoReq /\ buffer = <<>> /\ failed = FALSE
        /\ drive = IdleDrive /\ shown = "idle"
        /\ content \in [Sector -> Data]

-----------------------------------------------------------------------------
(* The driver.                                                             *)

\* The drive, once a command is written to its command register.
Commanded(cmd) == IF drive.phase \in {"busy", "drq"} THEN {drive, cmd} ELSE {cmd}

\* Select, delay, registers, and the command.
Call ==
  /\ req.pc = "idle"
  /\ \E kind \in {"read", "write"}, lba \in Sector, count \in Counts :
       /\ lba + count <= Sectors
       /\ \E data \in IF kind = "write" THEN [1 .. count -> Data] ELSE {<<>>} :
            req' = [NoReq EXCEPT !.pc = "poll", !.kind = kind, !.lba = lba, !.count = count,
                                 !.data = data]
       /\ drive' \in Commanded([phase |-> "busy", cmd |-> kind, at |-> lba, left |-> count])
  /\ buffer' = <<>>
  /\ UNCHANGED <<failed, shown, content>>

\* The wait for the drive gives up: an error, or as many reads as there are.
GiveUp ==
  /\ req.pc = "poll"
  /\ shown = "error" \/ (shown # "drq" /\ req.timeout = 1)
  /\ req' = NoReq /\ failed' = TRUE
  /\ UNCHANGED <<buffer, drive, shown, content>>

SeeReady ==
  /\ req.pc = "poll"
  /\ shown = "drq"
  /\ req' = [req EXCEPT !.pc = "transfer"]
  /\ UNCHANGED <<buffer, failed, drive, shown, content>>

PollAgain ==
  /\ req.pc = "poll"
  /\ shown \in {"busy", "idle"} /\ req.timeout > 1
  /\ req' = [req EXCEPT !.timeout = @ - 1]
  /\ UNCHANGED <<buffer, failed, drive, shown, content>>

\* A drive that does not ask for data misses what is sent to it.
Asked == drive.phase = "drq"

NoDelay(phase) == shown                             \* mutant: no delay after a sector

\* Four reads of the status: then it shows how things are.
Delayed(phase) == phase

\* The 256 words of sector s, and a delay.
Transfer ==
  /\ req.pc = "transfer"
  /\ drive' = IF ~Asked THEN drive
              ELSE IF req.kind = "read" /\ drive.left = 1 THEN IdleDrive
              ELSE [drive EXCEPT !.phase = "busy", !.at = @ + 1, !.left = @ - 1]
  /\ shown' = Delayed(drive'.phase)
  /\ IF req.kind = "write"
     THEN /\ content' = IF Asked THEN [content EXCEPT ![drive.at] = req.data[req.s + 1]] ELSE content
          /\ UNCHANGED buffer
     ELSE /\ \E d \in IF Asked THEN {content[drive.at]} ELSE Data : buffer' = Append(buffer, d)
          /\ UNCHANGED content
  /\ req' = [req EXCEPT !.s = @ + 1, !.timeout = TIMEOUT,
                        !.pc = IF req.s + 1 < req.count THEN "poll"
                               ELSE IF req.kind = "read" THEN "return" ELSE "flush"]
  /\ UNCHANGED failed

Flush ==
  /\ req.pc = "flush"
  /\ drive' \in Commanded([phase |-> "busy", cmd |-> "flush", at |-> 0, left |-> 0])
  /\ req' = [req EXCEPT !.pc = "flushing"]
  /\ UNCHANGED <<buffer, failed, shown, content>>

UntilBusy == shown = "busy"                         \* mutant: the wait is the wrong way round

NotBusy == shown # "busy"

\* The loop has no limit and looks at BSY alone.
Return ==
  /\ req.pc = "return" \/ (req.pc = "flushing" /\ NotBusy)
  /\ req' = NoReq
  /\ UNCHANGED <<buffer, failed, drive, shown, content>>

Step == GiveUp \/ SeeReady \/ PollAgain \/ Transfer \/ Flush \/ Return

-----------------------------------------------------------------------------
(* The drive.                                                              *)

Settle == /\ shown # drive.phase
          /\ shown' = drive.phase
          /\ UNCHANGED <<driver, drive, content>>

\* It asks for, or offers, the next sector, or the command is done.
Work == /\ drive.phase = "busy"
        /\ drive' = IF drive.left > 0 THEN [drive EXCEPT !.phase = "drq"] ELSE IdleDrive
        /\ UNCHANGED <<driver, shown, content>>

DriveFails == /\ drive.phase = "busy"
              /\ drive' = [IdleDrive EXCEPT !.phase = "error"]
              /\ UNCHANGED <<driver, shown, content>>

Next == Call \/ Step \/ Settle \/ Work \/ DriveFails

\* The processor goes on, and a drive that is busy is not busy for ever.
Fairness == WF_vars(Step) /\ WF_vars(Settle) /\ WF_vars(Work)

Spec == Init /\ [][Next]_vars /\ Fairness

-----------------------------------------------------------------------------
(* Properties.                                                             *)

\* Types; a drive that asks for data asks for a sector of the call.
TypeOK ==
  /\ req.pc \in {"idle", "poll", "transfer", "flush", "flushing", "return"}
  /\ req.s \in 0 .. req.count /\ req.timeout \in 1 .. TIMEOUT
  /\ drive.phase \in Phase /\ shown \in Phase
  /\ content \in [Sector -> Data] /\ buffer \in Seq(Data)
  /\ drive.phase = "drq" /\ ~failed =>
       drive.at \in Sector /\ drive.left = req.count - req.s /\ drive.cmd = req.kind

\* As long as no call has failed, every sector goes to or comes from its
\* own place, however slow the drive and its status
\* register are and whatever a busy drive does with a command (utils.cpp
\* lines 190-217 and 243-275).
Device == INSTANCE BlockDevice WITH
  call <- [kind |-> req.kind, first |-> req.lba, count |-> req.count, data |-> req.data,
           done |-> req.s],
  got <- buffer,
  broken <- failed
BlockDeviceSpec == Device!Spec /\ []TypeOK

\* Every call returns.
EveryCallReturns == req.pc # "idle" ~> req.pc = "idle"
=============================================================================
