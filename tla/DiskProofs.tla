----------------------------- MODULE DiskProofs -----------------------------
(***************************************************************************)
(* What is proved of the disk driver, for a disk of any size, any calls    *)
(* and any limit on the polls: it implements BlockDevice.  What has to be  *)
(* shown is that driver and drive agree: a drive that has sectors to move  *)
(* moves those of the call in progress, and from the sector the call has   *)
(* come to.  The status register lags, so it must never show a request for *)
(* data that the drive does not make.                                      *)
(***************************************************************************)
EXTENDS Disk, TLAPS

ReqOK ==
  /\ req \in [pc : {"idle", "poll", "transfer", "flush", "flushing", "return"},
              kind : {"none", "read", "write"}, lba : Nat, count : Nat, data : Seq(Data),
              s : Nat, timeout : 1 .. TIMEOUT]
  /\ req.pc = "idle" => req = NoReq
  /\ req.pc # "idle" => req.kind # "none" /\ req.lba + req.count <= Sectors /\ req.count > 0
  /\ req.kind = "write" => Len(req.data) = req.count
  /\ req.pc \in {"poll", "transfer"} => req.s < req.count
  /\ req.pc \notin {"poll", "transfer"} => req.s = req.count

\* What a command in the drive has left is on the disk, failed or not.
DriveOK ==
  /\ drive \in [phase : Phase, cmd : {"none", "read", "write", "flush"}, at : Nat, left : Nat]
  /\ drive.at + drive.left <= Sectors
  /\ drive.phase = "drq" => drive.left > 0

DataOK == /\ content \in [Sector -> Data] /\ buffer \in Seq(Data)
          /\ shown \in Phase /\ failed \in BOOLEAN

\* A drive with sectors to move moves those of the call.
Agreed ==
  /\ drive.phase \in {"busy", "drq"} /\ drive.left > 0 =>
        /\ req.pc \in {"poll", "transfer"}
        /\ drive.at = req.lba + req.s
        /\ drive.left = req.count - req.s
        /\ drive.cmd = req.kind
  /\ shown = "drq" \/ req.pc = "transfer" => drive.phase = "drq"

IInv == ReqOK /\ DriveOK /\ DataOK /\ (~failed => Agreed)
-----------------------------------------------------------------------------
(* What the actions have in common.                                        *)

\* A command the drive is given: it takes it, or goes on with its own.
LEMMA CommandedIs ==
  ASSUME NEW cmd, drive' \in Commanded(cmd)
  PROVE  drive' = cmd \/ (drive' = drive /\ drive.phase \in {"busy", "drq"})
BY DEF Commanded

\* What a call brings.
LEMMA DataIs ==
  ASSUME NEW kind \in {"read", "write"}, NEW count \in Nat,
         NEW data \in IF kind = "write" THEN [1 .. count -> Data] ELSE {<<>>}
  PROVE  data \in Seq(Data) /\ (kind = "write" => Len(data) = count)
<1>1. CASE kind = "write"
  <2>1. data \in [1 .. count -> Data]
    BY <1>1
  <2>2. data \in Seq(Data)
    BY <2>1
  <2>. QED
    BY <2>1, <2>2
<1>2. CASE kind = "read"
  BY <1>2
<1>. QED
  BY <1>1, <1>2

\* Once a call has failed one has failed: nothing is claimed of the drive.
LEMMA StaysFailed == ASSUME [Next]_vars, failed PROVE failed'
<1>1. Next \/ UNCHANGED vars
  OBVIOUS
<1>. QED
  BY <1>1 DEF Next, Call, Step, GiveUp, SeeReady, PollAgain, Transfer, Flush, Return, Settle,
              Work, DriveFails, driver, vars

-----------------------------------------------------------------------------
(* The driver.                                                             *)

LEMMA CallKeeps == ASSUME IInv, Call PROVE IInv'
<1>1. PICK kind \in {"read", "write"}, lba \in Sector, count \in Counts :
        /\ lba + count <= Sectors
        /\ \E data \in IF kind = "write" THEN [1 .. count -> Data] ELSE {<<>>} :
             req' = [NoReq EXCEPT !.pc = "poll", !.kind = kind, !.lba = lba, !.count = count,
                                  !.data = data]
        /\ drive' \in Commanded([phase |-> "busy", cmd |-> kind, at |-> lba, left |-> count])
  BY DEF Call
<1>2. PICK data \in IF kind = "write" THEN [1 .. count -> Data] ELSE {<<>>} :
        req' = [NoReq EXCEPT !.pc = "poll", !.kind = kind, !.lba = lba, !.count = count,
                             !.data = data]
  BY <1>1
<1>3. /\ req.pc = "idle" /\ buffer' = <<>>
      /\ failed' = failed /\ shown' = shown /\ content' = content
  BY DEF Call
<1>4. lba \in Nat /\ count \in Nat \ {0} /\ Sectors \in Nat /\ TIMEOUT \in Nat \ {0}
  BY SizeAssumption DEF Sector
<1>5. data \in Seq(Data) /\ (kind = "write" => Len(data) = count)
  BY <1>4, DataIs
<1>6. req' = [pc |-> "poll", kind |-> kind, lba |-> lba, count |-> count, data |-> data,
              s |-> 0, timeout |-> TIMEOUT]
  BY <1>2 DEF NoReq
<1>7. ReqOK'
  <2>1. /\ req'.pc = "poll" /\ req'.kind = kind /\ req'.lba = lba /\ req'.count = count
        /\ req'.data = data /\ req'.s = 0
    BY <1>6
  <2>2. TIMEOUT \in 1 .. TIMEOUT /\ kind \in {"none", "read", "write"} /\ 0 < count
    BY <1>4
  <2>3. req' \in [pc : {"idle", "poll", "transfer", "flush", "flushing", "return"},
                  kind : {"none", "read", "write"}, lba : Nat, count : Nat, data : Seq(Data),
                  s : Nat, timeout : 1 .. TIMEOUT]
    BY <1>4, <1>5, <1>6, <2>2
  <2>. QED
    BY <1>1, <1>4, <1>5, <2>1, <2>2, <2>3 DEF ReqOK
<1>8. \/ drive' = [phase |-> "busy", cmd |-> kind, at |-> lba, left |-> count]
      \/ drive' = drive /\ drive.phase \in {"busy", "drq"}
  BY <1>1, CommandedIs
<1>9. DriveOK'
  BY <1>1, <1>4, <1>8 DEF IInv, DriveOK, Phase
<1>10. DataOK'
  BY <1>3 DEF IInv, DataOK
<1>11. ASSUME ~failed' PROVE Agreed'
  <2>1. Agreed /\ drive.phase # "drq" /\ shown' # "drq"
    BY <1>3, <1>11 DEF IInv, Agreed, DriveOK
  <2>2. drive' = drive => drive'.phase = "busy" /\ ~(drive'.left > 0)
    BY <1>3, <1>8, <2>1 DEF Agreed
  <2>3. drive' # drive => drive' = [phase |-> "busy", cmd |-> kind, at |-> lba, left |-> count]
    BY <1>8
  <2>. QED
    BY <1>4, <1>6, <2>1, <2>2, <2>3 DEF Agreed
<1>. QED
  BY <1>7, <1>9, <1>10, <1>11 DEF IInv

\* The wait ends one way or the other, and nothing else happens.
LEMMA WaitKeeps == ASSUME IInv, GiveUp \/ SeeReady \/ PollAgain PROVE IInv'
<1>1. /\ req.pc = "poll"
      /\ drive' = drive /\ shown' = shown /\ content' = content /\ buffer' = buffer
  BY DEF GiveUp, SeeReady, PollAgain
<1>2. DriveOK'
  BY <1>1 DEF IInv, DriveOK
<1>3. CASE GiveUp
  <2>1. req' = NoReq /\ failed' = TRUE
    BY <1>3 DEF GiveUp
  <2>2. ReqOK'
    BY <2>1, SizeAssumption DEF ReqOK, NoReq
  <2>. QED
    BY <1>1, <1>2, <2>1, <2>2 DEF IInv, DataOK
<1>4. CASE SeeReady
  <2>1. shown = "drq" /\ failed' = failed /\ req' = [req EXCEPT !.pc = "transfer"]
    BY <1>4 DEF SeeReady
  <2>2. ReqOK'
    BY <1>1, <2>1 DEF IInv, ReqOK
  <2>3. ~failed' => Agreed'
    BY <1>1, <2>1 DEF IInv, Agreed, ReqOK
  <2>. QED
    BY <1>1, <1>2, <2>1, <2>2, <2>3 DEF IInv, DataOK
<1>5. CASE PollAgain
  <2>1. req.timeout > 1 /\ failed' = failed /\ req' = [req EXCEPT !.timeout = @ - 1]
    BY <1>5 DEF PollAgain
  <2>2. req.timeout - 1 \in 1 .. TIMEOUT
    BY <2>1, SizeAssumption DEF IInv, ReqOK
  <2>3. ReqOK'
    BY <1>1, <2>1, <2>2 DEF IInv, ReqOK
  <2>4. ~failed' => Agreed'
    BY <1>1, <2>1 DEF IInv, Agreed, ReqOK
  <2>. QED
    BY <1>1, <1>2, <2>1, <2>3, <2>4 DEF IInv, DataOK
<1>. QED
  BY <1>3, <1>4, <1>5

\* Where a call stands after a sector.
LEMMA TransferReq ==
  ASSUME ReqOK, Transfer
  PROVE  /\ ReqOK' /\ req.s \in Nat /\ req.count \in Nat /\ req.s < req.count
         /\ req'.s = req.s + 1 /\ req'.lba = req.lba /\ req'.count = req.count
         /\ req'.kind = req.kind /\ req'.data = req.data
         /\ req'.pc \in {"poll", "return", "flush"}
         /\ req'.pc = "poll" <=> req.s + 1 < req.count
<1>1. /\ req.pc = "transfer"
      /\ req' = [req EXCEPT !.s = @ + 1, !.timeout = TIMEOUT,
                            !.pc = IF req.s + 1 < req.count THEN "poll"
                                   ELSE IF req.kind = "read" THEN "return" ELSE "flush"]
  BY DEF Transfer
<1>2. req.s \in Nat /\ req.count \in Nat /\ req.s < req.count /\ TIMEOUT \in 1 .. TIMEOUT
  BY <1>1, SizeAssumption DEF ReqOK
<1>3. /\ req'.s = req.s + 1 /\ req'.lba = req.lba /\ req'.count = req.count
      /\ req'.kind = req.kind /\ req'.data = req.data
      /\ req'.pc = IF req.s + 1 < req.count THEN "poll"
                   ELSE IF req.kind = "read" THEN "return" ELSE "flush"
      /\ req' \in [pc : {"idle", "poll", "transfer", "flush", "flushing", "return"},
                   kind : {"none", "read", "write"}, lba : Nat, count : Nat, data : Seq(Data),
                   s : Nat, timeout : 1 .. TIMEOUT]
  <2> DEFINE pc == IF req.s + 1 < req.count THEN "poll"
                   ELSE IF req.kind = "read" THEN "return" ELSE "flush"
  <2>1. req' = [pc |-> pc, kind |-> req.kind, lba |-> req.lba, count |-> req.count,
                data |-> req.data, s |-> req.s + 1, timeout |-> TIMEOUT]
    BY <1>1 DEF ReqOK
  <2>2. /\ pc \in {"idle", "poll", "transfer", "flush", "flushing", "return"}
        /\ req.s + 1 \in Nat
    BY <1>2
  <2>3. req.kind \in {"none", "read", "write"} /\ req.lba \in Nat /\ req.data \in Seq(Data)
    BY DEF ReqOK
  <2>. HIDE DEF pc
  <2>4. req' \in [pc : {"idle", "poll", "transfer", "flush", "flushing", "return"},
                   kind : {"none", "read", "write"}, lba : Nat, count : Nat, data : Seq(Data),
                   s : Nat, timeout : 1 .. TIMEOUT]
    BY <1>2, <2>1, <2>2, <2>3
  <2>. QED
    BY <2>1, <2>4 DEF pc
<1>4. /\ req'.pc = "poll" <=> req.s + 1 < req.count
      /\ req'.pc # "idle" /\ req'.pc # "transfer"
      /\ req'.pc # "poll" => req'.s = req'.count
  BY <1>2, <1>3
<1>5. ReqOK'
  BY <1>1, <1>2, <1>3, <1>4 DEF ReqOK
<1>. QED
  BY <1>2, <1>3, <1>4, <1>5

\* The drive after a sector: one less to go, one further.
LEMMA TransferDrive ==
  ASSUME ReqOK, DriveOK, Transfer
  PROVE  /\ DriveOK' /\ shown' = drive'.phase /\ shown' \in Phase
         /\ ~Asked => drive' = drive
         /\ Asked => /\ drive'.phase # "drq"
                     /\ drive'.phase = "busy" =>
                          /\ drive'.at = drive.at + 1 /\ drive'.left = drive.left - 1
                          /\ drive'.cmd = drive.cmd
<1>1. /\ drive' = IF ~Asked THEN drive
                  ELSE IF req.kind = "read" /\ drive.left = 1 THEN IdleDrive
                  ELSE [drive EXCEPT !.phase = "busy", !.at = @ + 1, !.left = @ - 1]
      /\ shown' = drive'.phase
  BY DEF Transfer, Delayed
<1>2. /\ drive.at \in Nat /\ drive.left \in Nat /\ drive.at + drive.left <= Sectors
      /\ Asked => drive.left > 0
      /\ Sectors \in Nat
  BY SizeAssumption DEF DriveOK, Asked
<1>3. CASE ~Asked
  BY <1>1, <1>3 DEF DriveOK
<1>4. CASE Asked /\ req.kind = "read" /\ drive.left = 1
  <2>1. drive' = IdleDrive
    BY <1>1, <1>4
  <2>. QED
    BY <1>1, <1>2, <1>4, <2>1 DEF DriveOK, IdleDrive, Phase
<1>5. CASE Asked /\ ~(req.kind = "read" /\ drive.left = 1)
  <2>1. drive' = [drive EXCEPT !.phase = "busy", !.at = @ + 1, !.left = @ - 1]
    BY <1>1, <1>5
  <2>2. drive.left - 1 \in Nat /\ (drive.at + 1) + (drive.left - 1) <= Sectors
    BY <1>2, <1>5
  <2>3. /\ drive' = [phase |-> "busy", cmd |-> drive.cmd, at |-> drive.at + 1,
                     left |-> drive.left - 1]
        /\ drive.cmd \in {"none", "read", "write", "flush"}
    BY <2>1 DEF DriveOK
  <2>4. /\ drive' \in [phase : Phase, cmd : {"none", "read", "write", "flush"}, at : Nat, left : Nat]
        /\ drive'.phase = "busy" /\ drive'.at = drive.at + 1 /\ drive'.left = drive.left - 1
        /\ drive'.cmd = drive.cmd
    BY <2>2, <2>3, <1>2 DEF Phase
  <2>. QED
    BY <1>1, <1>5, <2>2, <2>4 DEF DriveOK
<1>. QED
  BY <1>3, <1>4, <1>5

\* What a sector that is moved changes.
LEMMA TransferData == ASSUME ReqOK, DriveOK, DataOK, Transfer PROVE DataOK'
<1>1. req.pc = "transfer" /\ failed' = failed /\ shown' = drive'.phase
  BY DEF Transfer, Delayed
<1>2. CASE req.kind = "write"
  <2>1. /\ buffer' = buffer
        /\ content' = content \/ content' = [content EXCEPT ![drive.at] = req.data[req.s + 1]]
    BY <1>2 DEF Transfer
  <2>2. req.s + 1 \in 1 .. Len(req.data)
    BY <1>1, <1>2 DEF ReqOK
  <2>3. req.data[req.s + 1] \in Data
    BY <2>2 DEF ReqOK
  <2>4. content' \in [Sector -> Data]
    BY <2>1, <2>3 DEF DataOK
  <2>. QED
    BY <1>1, <2>1, <2>4, TransferDrive DEF DataOK
<1>3. CASE req.kind # "write"
  <2>1. PICK d \in IF Asked THEN {content[drive.at]} ELSE Data : buffer' = Append(buffer, d)
    BY <1>3 DEF Transfer
  <2>2. content' = content
    BY <1>3 DEF Transfer
  <2>3. Asked => drive.at \in Sector
    BY SizeAssumption DEF Asked, DriveOK, Sector
  <2>4. d \in Data
    BY <2>1, <2>3 DEF DataOK
  <2>. QED
    BY <1>1, <2>1, <2>2, <2>4, TransferDrive DEF DataOK
<1>. QED
  BY <1>2, <1>3

LEMMA TransferKeeps == ASSUME IInv, Transfer PROVE IInv'
<1>1. req.pc = "transfer" /\ failed' = failed
  BY DEF Transfer
<1>2. /\ ReqOK' /\ req.s \in Nat /\ req.count \in Nat /\ req.s < req.count
      /\ req'.s = req.s + 1 /\ req'.lba = req.lba /\ req'.count = req.count
      /\ req'.kind = req.kind
      /\ req'.pc \in {"poll", "return", "flush"}
      /\ req'.pc = "poll" <=> req.s + 1 < req.count
  BY TransferReq DEF IInv
<1>3. /\ DriveOK' /\ shown' = drive'.phase
      /\ Asked => /\ drive'.phase # "drq"
                  /\ drive'.phase = "busy" =>
                       /\ drive'.at = drive.at + 1 /\ drive'.left = drive.left - 1
                       /\ drive'.cmd = drive.cmd
  BY TransferDrive DEF IInv
<1>4. ASSUME ~failed' PROVE Agreed'
  <2>1. /\ Asked /\ drive.at = req.lba + req.s /\ drive.left = req.count - req.s
        /\ drive.cmd = req.kind
    BY <1>1, <1>4 DEF IInv, Agreed, Asked, DriveOK
  <2>2. req.lba \in Nat
    BY DEF IInv, ReqOK
  <2>. QED
    BY <1>2, <1>3, <2>1, <2>2 DEF Agreed
<1>. QED
  BY <1>2, <1>3, <1>4, TransferData DEF IInv

\* The cache is flushed when every sector has gone.
LEMMA FlushKeeps == ASSUME IInv, Flush PROVE IInv'
<1>1. /\ req.pc = "flush" /\ req' = [req EXCEPT !.pc = "flushing"]
      /\ drive' \in Commanded([phase |-> "busy", cmd |-> "flush", at |-> 0, left |-> 0])
      /\ failed' = failed /\ shown' = shown /\ content' = content /\ buffer' = buffer
  BY DEF Flush
<1>2. ReqOK'
  BY <1>1 DEF IInv, ReqOK
<1>3. \/ drive' = [phase |-> "busy", cmd |-> "flush", at |-> 0, left |-> 0]
      \/ drive' = drive
  BY <1>1, CommandedIs
<1>4. DriveOK'
  BY <1>3, SizeAssumption DEF IInv, DriveOK, Phase
<1>5. ~failed' => Agreed'
  BY <1>1, <1>3 DEF IInv, Agreed, DriveOK, ReqOK
<1>. QED
  BY <1>1, <1>2, <1>4, <1>5 DEF IInv, DataOK

\* A call that returns has moved all its sectors.
LEMMA ReturnKeeps == ASSUME IInv, Return PROVE IInv'
<1>1. /\ req.pc \in {"return", "flushing"} /\ req' = NoReq
      /\ failed' = failed /\ drive' = drive /\ shown' = shown /\ content' = content
      /\ buffer' = buffer
  BY DEF Return
<1>2. ReqOK'
  BY <1>1, SizeAssumption DEF ReqOK, NoReq
<1>3. ~failed' => Agreed'
  BY <1>1 DEF IInv, Agreed, NoReq
<1>. QED
  BY <1>1, <1>2, <1>3 DEF IInv, DriveOK, DataOK

-----------------------------------------------------------------------------
(* The drive.                                                              *)

LEMMA DriveKeeps == ASSUME IInv, Settle \/ Work \/ DriveFails PROVE IInv'
<1>1. req' = req /\ buffer' = buffer /\ failed' = failed /\ content' = content
  BY DEF Settle, Work, DriveFails, driver
<1>2. ReqOK'
  BY <1>1 DEF IInv, ReqOK
<1>3. CASE Settle
  <2>1. drive' = drive /\ shown' = drive.phase
    BY <1>3 DEF Settle
  <2>. QED
    BY <1>1, <1>2, <2>1 DEF IInv, DriveOK, DataOK, Agreed
<1>4. CASE Work
  <2>1. /\ drive.phase = "busy" /\ shown' = shown
        /\ drive' = IF drive.left > 0 THEN [drive EXCEPT !.phase = "drq"] ELSE IdleDrive
    BY <1>4 DEF Work
  <2>2. DriveOK'
    BY <2>1, SizeAssumption DEF IInv, DriveOK, IdleDrive, Phase
  <2>3. ~failed' => Agreed'
    BY <1>1, <2>1 DEF IInv, DriveOK, Agreed, IdleDrive
  <2>. QED
    BY <1>1, <1>2, <2>1, <2>2, <2>3 DEF IInv, DataOK
<1>5. CASE DriveFails
  <2>1. /\ drive.phase = "busy" /\ shown' = shown
        /\ drive' = [phase |-> "error", cmd |-> "none", at |-> 0, left |-> 0]
    BY <1>5 DEF DriveFails, IdleDrive
  <2>2. DriveOK'
    BY <2>1, SizeAssumption DEF DriveOK, Phase
  <2>3. ~failed' => Agreed'
    BY <1>1, <2>1 DEF IInv, Agreed
  <2>. QED
    BY <1>1, <1>2, <2>1, <2>2, <2>3 DEF IInv, DataOK
<1>. QED
  BY <1>3, <1>4, <1>5

LEMMA InitIInv == Init => IInv
<1>. SUFFICES ASSUME Init PROVE IInv
  OBVIOUS
<1>1. ReqOK
  <2>1. <<>> \in Seq(Data) /\ TIMEOUT \in 1 .. TIMEOUT
    BY SizeAssumption
  <2>. QED
    BY <2>1 DEF Init, ReqOK, NoReq
<1>2. DriveOK /\ DataOK /\ Agreed
  <2>1. drive = [phase |-> "idle", cmd |-> "none", at |-> 0, left |-> 0]
    BY DEF Init, IdleDrive
  <2>2. DriveOK
    BY <2>1, SizeAssumption DEF DriveOK, Phase
  <2>3. DataOK
    <3>1. content \in [Sector -> Data] /\ failed = FALSE /\ buffer = <<>> /\ shown = "idle"
      BY DEF Init
    <3>2. buffer \in Seq(Data) /\ shown \in Phase
      BY <3>1 DEF Phase
    <3>. QED
      BY <3>1, <3>2 DEF DataOK
  <2>4. Agreed
    BY <2>1 DEF Init, Agreed, NoReq
  <2>. QED
    BY <2>2, <2>3, <2>4
<1>. QED
  BY <1>1, <1>2 DEF IInv

LEMMA StepIInv == IInv /\ [Next]_vars => IInv'
<1>. SUFFICES ASSUME IInv, [Next]_vars PROVE IInv'
  OBVIOUS
<1>1. CASE UNCHANGED vars
  BY <1>1 DEF vars, driver, IInv, ReqOK, DriveOK, DataOK, Agreed
<1>2. CASE Call
  BY <1>2, CallKeeps
<1>3. CASE Step
  BY <1>3, WaitKeeps, TransferKeeps, FlushKeeps, ReturnKeeps DEF Step
<1>4. CASE Settle \/ Work \/ DriveFails
  BY <1>4, DriveKeeps
<1>. QED
  BY <1>1, <1>2, <1>3, <1>4 DEF Next

LEMMA Types == IInv => TypeOK
BY SizeAssumption DEF IInv, ReqOK, DriveOK, DataOK, Agreed, TypeOK, Sector

-----------------------------------------------------------------------------
(* Each step is a step of the promise, or none of its business.            *)

LEMMA InitDevice == Init => Device!Init
BY DEF Init, NoReq, Device!Init, Device!NoCall

\* A sector the drive asks for goes to its place, or comes from there.
LEMMA TransferMoves == ASSUME IInv, ~failed, Transfer PROVE Device!Move
<1>1. req.pc = "transfer" /\ failed' = failed
  BY DEF Transfer
<1>2. Asked /\ drive.at = req.lba + req.s
  BY <1>1 DEF IInv, Agreed, Asked, DriveOK
<1>3. /\ req.s < req.count
      /\ req'.s = req.s + 1 /\ req'.lba = req.lba /\ req'.count = req.count
      /\ req'.kind = req.kind /\ req'.data = req.data
  BY TransferReq DEF IInv
<1>4. CASE req.kind = "write"
  <2>1. content' = [content EXCEPT ![req.lba + req.s] = req.data[req.s + 1]] /\ buffer' = buffer
    BY <1>2, <1>4 DEF Transfer
  <2>. QED
    BY <1>1, <1>3, <1>4, <2>1 DEF Device!Move
<1>5. CASE req.kind = "read"
  <2>1. content' = content /\ buffer' = Append(buffer, content[req.lba + req.s])
    BY <1>2, <1>5 DEF Transfer
  <2>. QED
    BY <1>1, <1>3, <1>5, <2>1 DEF Device!Move
<1>. QED
  BY <1>1, <1>4, <1>5 DEF IInv, ReqOK

LEMMA CallBegins == ASSUME IInv, Call PROVE Device!Begin
<1>1. PICK kind \in {"read", "write"}, lba \in Sector, count \in Counts :
        /\ lba + count <= Sectors
        /\ \E data \in IF kind = "write" THEN [1 .. count -> Data] ELSE {<<>>} :
             req' = [NoReq EXCEPT !.pc = "poll", !.kind = kind, !.lba = lba, !.count = count,
                                  !.data = data]
  BY DEF Call
<1>2. PICK data \in IF kind = "write" THEN [1 .. count -> Data] ELSE {<<>>} :
        req' = [NoReq EXCEPT !.pc = "poll", !.kind = kind, !.lba = lba, !.count = count,
                             !.data = data]
  BY <1>1
<1>3. lba \in Nat /\ count \in Nat \ {0} /\ Sectors \in Nat
  BY SizeAssumption DEF Sector
<1>4. data \in Seq(Data) /\ (kind = "write" => Len(data) = count)
  BY <1>3, DataIs
<1>5. /\ req'.kind = kind /\ req'.lba = lba /\ req'.count = count /\ req'.data = data
      /\ req'.s = 0
  BY <1>2 DEF NoReq
<1>6. req = NoReq /\ buffer' = <<>> /\ content' = content /\ failed' = failed
  BY DEF Call, IInv, ReqOK
<1>7. lba + count - 1 \in Sector
  BY <1>1, <1>3 DEF Sector
<1>. QED
  BY <1>1, <1>3, <1>4, <1>5, <1>6, <1>7 DEF Device!Begin, Device!NoCall, NoReq

LEMMA StepDevice == IInv /\ [Next]_vars => [Device!Next]_(Device!vars)
<1>. SUFFICES ASSUME IInv, [Next]_vars PROVE [Device!Next]_(Device!vars)
  OBVIOUS
<1>1. CASE failed
  BY <1>1, StaysFailed DEF Device!Next
<1>2. CASE UNCHANGED vars
  BY <1>2 DEF vars, driver, Device!vars
<1>3. CASE Call
  BY <1>3, CallBegins DEF Device!Next
<1>4. CASE GiveUp
  BY <1>4 DEF GiveUp, IInv, ReqOK, NoReq, Device!Fail, Device!NoCall, Device!Next
<1>5. CASE SeeReady \/ PollAgain \/ Flush
  <2>1. /\ req'.kind = req.kind /\ req'.lba = req.lba /\ req'.count = req.count
        /\ req'.data = req.data /\ req'.s = req.s
        /\ buffer' = buffer /\ failed' = failed /\ content' = content
    BY <1>5 DEF SeeReady, PollAgain, Flush, IInv, ReqOK
  <2>. QED
    BY <2>1 DEF Device!vars
<1>6. CASE Transfer /\ ~failed
  BY <1>6, TransferMoves DEF Device!Next
<1>7. CASE Return
  BY <1>7 DEF Return, IInv, ReqOK, NoReq, Device!End, Device!NoCall, Device!Next
<1>8. CASE Settle \/ Work \/ DriveFails
  BY <1>8 DEF Settle, Work, DriveFails, driver, Device!vars
<1>. QED
  BY <1>1, <1>2, <1>3, <1>4, <1>5, <1>6, <1>7, <1>8 DEF Next, Step

\* As long as no call has failed, every sector goes to or comes from its
\* own place, whatever the drive does and however its status register lags
\* (utils.cpp lines 190-217 and 243-275), for a disk of any size and calls
\* of any length.
THEOREM MovesItsSectors == Spec => BlockDeviceSpec
<1>1. Spec => []IInv
  BY InitIInv, StepIInv, PTL DEF Spec
<1>2. Spec => Device!Spec
  BY <1>1, InitDevice, StepDevice, PTL DEF Spec, Device!Spec
<1>3. Spec => []TypeOK
  BY <1>1, Types, PTL
<1>. QED
  BY <1>2, <1>3, PTL DEF BlockDeviceSpec
=============================================================================
