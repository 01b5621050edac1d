-------------------------------- MODULE Boot ---------------------------------
(***************************************************************************)
(* The boot loader, bootloader/bootloader.cpp: it looks for a volume,      *)
(* reads the kernel from it piece by piece, leaves the graphics mode and   *)
(* the memory map where the kernel looks for them, and jumps.              *)
(*                                                                         *)
(* The firmware is external.  Of its memory map matters how many           *)
(* descriptors it has and which version it is; a call that takes memory    *)
(* makes a new version, with two descriptors more at the most, and as long *)
(* as its services run the firmware may make others by itself.  Whether a  *)
(* call succeeds is the firmware's choice.  The pages asked for at         *)
(* 0x100000 and 0x9000 are written whether they are given or not.          *)
(***************************************************************************)
EXTENDS Integers

CONSTANTS Handles,              \* how many volumes the firmware names
          FileSize, ChunkSize,  \* of kernel.bin, and of one read
          Descriptors,          \* of the map at the start
          MaxEvents             \* bound: changes by the firmware

BootAssumption == /\ {Handles, FileSize, MaxEvents} \subseteq Nat
                  /\ {ChunkSize, Descriptors} \subseteq Nat \ {0}

VARIABLES step,                         \* what the loader does next
          descriptors, version, services, events,       \* the firmware
          position,                     \* in the file, as the firmware knows it
          handle, root, bytes_loaded,
          image,                        \* the byte of the file at each place
          fb_info,
          map_size, map_key, map,       \* map: [room, version]
          map_copy,                     \* at 0x80000: [size, version]
          grown, late, failed           \* descriptors since the size was asked for,
                                        \* a change since the map was, a bad read
firmware == <<descriptors, version, services, events, position>>
kernel == <<handle, root, bytes_loaded, image>>
mapping == <<map_size, map_key, map, map_copy>>
bootHistory == <<grown, late, failed>>
bootVars == <<step, firmware, kernel, fb_info, mapping, bootHistory>>

Garbage == -1                           \* memory nobody wrote

NULL == [room |-> 0, version |-> Garbage]

BootInit ==
  /\ step = "find"
  /\ descriptors = Descriptors /\ version = 0 /\ services = TRUE /\ events = 0
  /\ position = 0
  /\ handle = 0 /\ root = "none" /\ bytes_loaded = 0 /\ image = <<>>
  /\ fb_info = "garbage"
  /\ map_size = 0 /\ map_key = 0 /\ map = NULL
  /\ map_copy = [size |-> 0, version |-> Garbage]
  /\ grown = 0 /\ late = FALSE /\ failed = FALSE

Goto(from, to) == step = from /\ step' = to

-----------------------------------------------------------------------------
(* The firmware.                                                           *)

\* The map gets a new version with d descriptors more.
Remap(d) == /\ descriptors' = descriptors + d
            /\ version' = version + 1
            /\ grown' = grown + d

FirmwareEvent ==
  /\ services /\ step # "kernel"
  /\ events < MaxEvents /\ events' = events + 1
  /\ \E d \in 0 .. 2 : Remap(d)
  /\ late' = TRUE
  /\ UNCHANGED <<step, services, position, kernel, fb_info, mapping, failed>>

-----------------------------------------------------------------------------
(* The kernel's file.                                                      *)

\* The first volume that opens is taken, whichever it is.
TryHandle ==
  /\ step = "find" /\ handle < Handles
  /\ handle' = handle + 1
  /\ \/ UNCHANGED <<step, root>>
     \/ root' \in {"boot volume", "other volume"} /\ step' = "open"
  /\ UNCHANGED <<firmware, bytes_loaded, image, fb_info, mapping, bootHistory>>

NoVolume ==
  /\ handle = Handles /\ Goto("find", "halted")
  /\ UNCHANGED <<firmware, kernel, fb_info, mapping, bootHistory>>

\* Nobody looks whether the file was opened: without it a null pointer is
\* followed.
OpenKernel ==
  /\ \/ root = "boot volume" /\ Goto("open", "read")
     \/ Goto("open", "lost")
  /\ UNCHANGED <<firmware, kernel, fb_info, mapping, bootHistory>>

\* As much as the firmware likes, up to what was asked for and is left.
ReadChunk ==
  /\ step = "read"
  /\ \E n \in 1 .. ChunkSize :
       /\ position + n <= FileSize
       /\ position' = position + n
       /\ image' = [i \in DOMAIN image \cup (bytes_loaded + 1 .. bytes_loaded + n) |->
                      IF i > bytes_loaded THEN position + i - bytes_loaded ELSE image[i]]
       /\ bytes_loaded' = bytes_loaded + n
  /\ UNCHANGED <<step, descriptors, version, services, events, handle, root, fb_info, mapping,
                 bootHistory>>

\* The end of the file, or an error that is taken for it.
ReadNoMore ==
  /\ Goto("read", "graphics")
  /\ failed' = (position < FileSize)
  /\ UNCHANGED <<firmware, kernel, fb_info, mapping, grown, late>>

-----------------------------------------------------------------------------
(* What the kernel is told.                                                *)

\* Without a graphics protocol the address is 0 and the size stays unwritten.
Graphics ==
  /\ Goto("graphics", "ask")
  /\ fb_info' \in {"mode", "no address"}
  /\ UNCHANGED <<firmware, kernel, mapping, bootHistory>>

NoSlack(n) == n                                         \* mutant: the buffer itself is forgotten

\* Two more: the buffer for the map will change the map.
WithSlack(n) == n + 2

AskSize ==
  /\ Goto("ask", "pool")
  /\ map_size' = WithSlack(descriptors)
  /\ grown' = 0
  /\ UNCHANGED <<firmware, kernel, fb_info, map_key, map, map_copy, late, failed>>

AllocatePool ==
  /\ Goto("pool", "get")
  /\ \/ /\ map' = [room |-> map_size, version |-> Garbage]
        /\ \E d \in 0 .. 2 : Remap(d)
     \/ UNCHANGED <<map, descriptors, version, grown>>
  /\ UNCHANGED <<services, events, position, kernel, fb_info, map_size, map_key, map_copy, late, failed>>

\* Too small a buffer tells the size it should have; then, and without a
\* buffer, services are not left.
GetMemoryMap ==
  /\ late' = FALSE
  /\ map_size' = IF map_size < descriptors \/ map # NULL THEN descriptors ELSE map_size
  /\ IF map # NULL /\ map_size >= descriptors
     THEN /\ Goto("get", "exit")
          /\ map' = [map EXCEPT !.version = version] /\ map_key' = version
     ELSE /\ Goto("get", "copy")
          /\ UNCHANGED <<map, map_key>>
  /\ UNCHANGED <<firmware, kernel, fb_info, map_copy, grown, failed>>

\* It fails if the map has changed; nobody looks.
ExitBootServices ==
  /\ Goto("exit", "copy")
  /\ services' = (map_key # version)
  /\ UNCHANGED <<descriptors, version, events, position, kernel, fb_info, mapping, bootHistory>>

CopyMap ==
  /\ Goto("copy", "jump")
  /\ map_copy' = [size |-> map_size, version |-> map.version]
  /\ UNCHANGED <<firmware, kernel, fb_info, map_size, map_key, map, bootHistory>>

Jump == /\ Goto("jump", "kernel")
        /\ UNCHANGED <<firmware, kernel, fb_info, mapping, bootHistory>>

BootNext ==
  \/ FirmwareEvent
  \/ TryHandle \/ NoVolume \/ OpenKernel \/ ReadChunk \/ ReadNoMore
  \/ Graphics \/ AskSize \/ AllocatePool \/ GetMemoryMap \/ ExitBootServices
  \/ CopyMap \/ Jump

BootSpec == BootInit /\ [][BootNext]_bootVars

-----------------------------------------------------------------------------
(* Properties.                                                             *)

\* However the firmware cuts the file, without a read error the kernel that
\* is jumped to is the whole of it, every byte at its place (lines 64-70).
KernelWhole == step = "kernel" /\ ~failed => image = [i \in 1 .. FileSize |-> i]

\* The kernel finds the map of the machine as it is and the firmware has let
\* go of it, provided that there was memory for a buffer, that the map did
\* not outgrow its slack and that the firmware was quiet between the last
\* two calls.  Where it is not, a kernel starts under running services or
\* without a map (lines 86-114).
HandsOverMap ==
  step = "kernel" /\ map # NULL /\ grown <= 2 /\ ~late =>
    /\ ~services
    /\ map_copy = [size |-> descriptors, version |-> version]

\* What the loader promises: all of the kernel, and all the kernel needs to
\* know of the memory (lines 62-114).
HandsOver == KernelWhole /\ HandsOverMap
=============================================================================
