# SolsticeOS in TLA+

SolsticeOS is a small x86-64 kernel in C++: a UEFI boot loader, a physical and a
slab allocator, paging, pre-emptive tasks, an ATA driver with an ext2 file system,
a shell that lives in the keyboard interrupt, and a window manager with two
applications. This directory models it in TLA+. Line numbers below refer to the
sources under `src/src` and the documents under `src/docs`.

## 1. The system

| part | source | its state | its operations |
|---|---|---|---|
| Physical memory manager | `kernel/memory/memory.cpp` 10–54, 132–142 | `free_list_head`, a link in the first word of every free page, `total_free_pages` | `init_pmm`, `pmm_alloc`, `pmm_free`, `pmm_alloc_pages` |
| Paging | `memory.cpp` 58–130 | the processor's page tables | `init_paging`, `identity_map_range`, `map_page`, `get_or_create_table` |
| Slab allocator | `memory.cpp` 144–196 | `kmem_caches`, a header in every slab page | `init_kmalloc`, `kmalloc`, `kfree` |
| Graphics memory | `wm/gfx.cpp` 24–40, `wm/wm.cpp` 45–54 | `backbuffer`, `wm_heap_next` | `gfx_init`, drawing, `wm_create_window` |
| Tasks | `tasks/task.cpp`, `tasks/switch.s`, `idt/idt.cpp` 208–215 | `tasks[8]`, `current` | `task_create`, `task_exit`, `schedule`, `switch_task` |
| Shell and keyboard | `idt/idt.cpp` 15–67, 217–255, `idt/timer.cpp`, `utils/utils.cpp` 457–594 | `shell_buffer`, `buffer_index`, the PIC masks, `timer_ticks` | IRQ1, `execute_command`, `sleep` |
| ATA driver | `utils.cpp` 169–276 | the drive's registers | `read_disk`, `write_disk` |
| ext2 | `filesystem/ext2.cpp` | two bitmaps, the inode table, directory blocks, `g_current_dir`, `g_current_path` | `ext2_mkdir`, `ext2_touch`, `ext2_rm`, `ext2_cd`, `ext2_ls` |
| Window manager | `wm/wm.cpp`, `wm/gfx.cpp` | `windows[8]`, `window_count`, the dirty rectangle, the drag | `wm_create_window`, `wm_task`, `add_dirty`, the hit test |
| Mouse | `idt.cpp` 69–206 | `mouse_packet`, `mouse_x`, `mouse_y`, `mouse_buttons` | `init_mouse`, IRQ12 |
| Console | `misc/console.cpp` | `g_console`: target and cursor | `console_putc`, `console_backspace`, `console_scroll`, `console_clear` |
| Calculator, XEyes | `applications/*.cpp`, `utils.cpp` 109–126 | the expression and its value; the eyes | their task loops, `on_button`, `int_sqrt` |
| Boot loader | `bootloader/bootloader.cpp` | the kernel's image, the memory map and the graphics mode it leaves behind | `efi_main` |
| Kernel entry, GDT, IDT, PIC, `printf`, `klog` | `kernel.cpp`, `gdt/*`, `idt/idt.s`, `misc/printf.cpp` | descriptor tables | set-up and output |

How they meet:

* **Everything the user types runs in the keyboard interrupt** (`idt.cpp` 217–255),
  with interrupts off: the editor, `execute_command`, the whole file system and disk
  driver, the opening of windows, `task_create`. Only `sleep()` turns interrupts on
  inside the handler (`timer.cpp` 28).
* **The timer interrupt calls `schedule()`** on every tick; the stack of a task that
  was interrupted inside a sleeping keyboard handler holds that handler.
* **The page allocator is shared** by page tables, task stacks and slabs. The
  graphics code does not use it: it takes memory at fixed addresses.
* **One dirty rectangle** is shared by the console (keyboard interrupt), the
  calculator (between `cli` and `sti`), xeyes (interrupts on) and the compositor.
* **Mouse state is global**: written by IRQ12, read by the compositor, the calculator
  and xeyes at their own moments.
* **One font renderer** with one target and one pen (`ssfn_dst`) serves console, windows and
  cursor; whoever borrows it from the console has to put it back.
* **The boot loader hands over by address**: kernel at 0x100000, memory map at 0x80000, graphics
  mode at 0x9000; nothing is checked on either side.
* **ext2 calls the driver**, which returns `void`: a failed transfer looks like a good one.

### What is hard here

Interleaving (a keyboard interrupt between any two instructions of a handler that
slept, a thread switch there, xeyes between other writers of the rectangle); order of
disk writes and loss of power between them; data structures that live inside the
memory they manage; everything at its limit (a full bitmap, a full directory, the last
page, the last slot); the drive's status register running behind the drive; bytes of a
mouse packet that are lost or come too late; numbers at the ends of their types; firmware that
changes the memory map while it is being read. Each such
place is listed with its line in `PROJECT.json` under `hazards`.

### What makes each part correct

* Page allocator: no page has two holders, no free page is lost, the count is exact.
* Paging: the mapped ranges lead to themselves and no mapping ever changes.
* Slab: live objects do not overlap; a cache grows only when it is full.
* Tasks: every thread is in one place, none starves, stacks are private.
* Shell: the line shown is the line run; the masks come back after every sleep.
* Driver: every sector goes to its place; every call returns.
* ext2: names never dangle, also after a power loss; blocks have one owner.
* Windows: what changes is redrawn; a press takes hold of what is seen.
* Mouse: the pointer follows the hand, and after lost bytes does so again.
* Calculator: what is shown is what is computed.
* Eyes: the pupils look at the mouse and stay in their eyes.
* Console: the screen shows the end of the text and the line being typed.
* Commands: a command gets what was typed, and nothing of older lines.
* Boot: the kernel is whole and knows the memory.

## 2. Modules

Abstract specifications say what a part promises; the modules below implement them.

| abstract | promises | implemented by |
|---|---|---|
| `FrameAllocator` | a page is granted to one holder, refused only when none is left | `Pmm` (checked and proved); used by `Slab` and `Tasks` |
| `AddressSpace` | pages are mapped to themselves or not at all, and stay mapped | `Paging` (checked and proved) |
| `Multitasking` | one thread runs, the others wait, a switch exchanges two | `Tasks` (proved, when no entry returns); used by `Shell` |
| `Namespace` | a tree of names that changes atomically | `Ext2` (checked and proved) |
| `BlockDevice` | sectors move one by one, each to its own place | `Disk` (checked and proved) |
| `Pointer` | while the driver is in step the pointer does what the hand does; it never leaves the screen | `Mouse` (checked and proved) |

Three pairs fit together: `Slab` and `Tasks` take their pages from `FrameAllocator`,
which `Pmm` implements; `Shell` takes its threads from `Multitasking`, which `Tasks`
implements; `Paging` extends `Pmm` and `GraphicsHeap` extends `Paging`, so the three
share one memory.

### Pmm
A page is its number, 0 is `nullptr`; `next[p]` is the first word of page `p`, free or
not. `InitReserve`, `InitPush`, `InitNextDescriptor` are the turns of `init_pmm`'s
loops. `Pop` and `Push` are `pmm_alloc` and `pmm_free`. A holder's `OwnerWrite` may put
any word where the link was. `pmm_alloc_pages` takes a step per page and keeps what it
has popped when it fails. `held` is a history variable: pages popped, not pushed back.

### Paging
`map_page` goes down one level per step: `Descend` through a table that is there,
`CreateTable` (popped from `Pmm`, cleared, linked) where one is missing, `AlreadyMapped`
at a huge page, `MapLeaf` at the last level, `GiveUp` when no page is left.
`NextRange` is `init_paging`'s list of calls. The range the firmware put the framebuffer
in is chosen at the start. `Translate` is what the processor makes of the tables.
Assumed: the firmware's tables form a tree, one table to a part of memory, and map memory to
itself, the kernel's own included (`WellPlaced`); they are
not in memory it calls free; addresses have 48 bits (`RangesAssumption`; the code cuts them off); and a page taken for a
table can be written through the current map. Flags beside present and huge, and the
TLB, are left out.

### GraphicsHeap
The memory of the whole kernel in boot order (`GraphicsNext`: `init_pmm`, then
`init_paging`, then `gfx_init`, then everything, `kernel.cpp` 45–62). `GfxInit`
clears the back buffer at 0x1000000, `GfxDraw` stores pixels in it, `CreateWindow` bumps
`wm_heap_next`; all of them write pages without asking `Pmm`. `TablesKept` says that
nobody frees a page table.

### Slab
Caches are lists of pages; each slab page has a bitmap and a counter in its header.
`Kmalloc` is one step (it runs with interrupts off): `KmallocFromSlab`, `KmallocNewSlab`
or `KmallocNoMemory`; `KmallocRejected` is the early return. `__builtin_ctzll(~bits)` of a
full bitmap is undefined and modelled as any bit number or the operand width.
`free_slots` wraps at `CountLimit`. `Kfree` finds the slot by division. `OtherAlloc` is the
rest of the kernel taking pages.

### Tasks
A slot's `rsp` is the thread its stack pointer would resume, `Stale` once that thread has
been resumed. `Tick` is the timer interrupt with the `do … while` search of `schedule()`;
`SwitchTo` is `switch.s`. `Create`, `CreateFails`, `Exit` are `task_create` and `task_exit`;
with `MayReturn = FALSE` (today's kernel: no entry returns) `Exit` is disabled. A page that
was refused leaves a task whose stack is `NULL`.

### Shell
A handler is one step up to its end or to the `sti` of `sleep()`; then every assignment
is a step of its own (`UnmaskMaster`, `UnmaskSlave`, `ResetIndex`, `ResetBuffer`), and
`Tick` or `Keyboard` may come in between. `frames[t]` is the stack of unfinished handlers
on thread `t`, with the masks each saved. `line`, `quiet` and `last` are history: what the
screen shows, whether its keys came with no handler unfinished, the last Enter. How long
a sleep takes is left out, and so is what the other commands do.

### Ext2
An action goes up to and including the next block written, so `Crash` (power off and on)
falls between any two writes. `BeginCreate`/`BeginRemove` look the path up and pass the
error messages; `AllocInode`, `AllocBlock`, `WriteInode`, `WriteNewDir`, `Link` are
`mkdir` (and, without the block, `touch`); `FreeBlock`, `Unlink`, `FreeInode` are `rm`;
`Cd` is `cd`; `Listed` is what `ls` prints. Directory blocks are sequences of entries with
their `rec_len`, in units of four bytes. Assumed: one block group, one-block directories,
a block is written whole, transfers succeed (`Disk` says when).

### Disk
The driver's loops against a drive with its own actions `Work`, `Settle`, `DriveFails`.
`shown` is the status register, which follows the drive a little later; four status reads
(`Delayed`) let it catch up. A drive that gets a command in the middle of another one takes
it or ignores it. LBAs are below 2^28 and counts within 1 .. 255, as the callers have them.

### Desktop
The screen is a set of pixels; of a pixel only matters whether it may have changed since
it was painted (`stale`, and `ghost` for the cursor). `MousePacket` is IRQ12 with its
third byte. `TypeKey`, `StartWm`, `OpenCalculator`, `OpenXEyes` are commands. `ReadMouse`,
`FirstFrame`, `Frame` are `wm_task`; there may be several compositors, since `startwm` may be
typed again. `CalculatorPoll` is the calculator's turn. `XEyesTest`, `XEyesWrite`,
`XEyesMarked` are the single accesses of `add_dirty` as xeyes calls it, interrupts on. Models
stop opening windows at `MAX_WINDOWS`, where the code stores through a null pointer.
Contents are left out; `Calculator`, `Eyes` and `Console` have them.

### Mouse
`init_mouse` sends two commands and waits for each answer a limited time (`mouse_write`,
`ReadAnswer`); the mouse may answer later (`Answer`), and `interrupt_handler` then takes what is
left for the first byte of a packet (`LateAnswer`). `Receive` is IRQ12 with the next byte of the
packet under way, `Lose` a byte that never comes. The packet is made by `ByteOf` the way the
hardware makes it: flags with bit 3 set, then the low eight bits of both movements. `whole` and
`settled` are history. `InStep` says that the driver holds just what was sent of the packet under
way; it is what `Pointer` calls following.

### Calculator
One action, `on_button`, with `Digit`, `Clear`, `Equals` and `Operator`. There are
`2 * Half` numbers (`Half` is 2^31, in the run 8), and they wrap; `apply_op` divides towards zero. `stuck` is the exception that the smallest number divided
by -1 raises inside a section with interrupts off. The text is a sequence of keys, its final 0
left out; `cut` notes that a key had no room.

### Eyes
`EyesFrame` computes both pupils for one place of the mouse with `int_sqrt`, bit by bit as in the
code, and two divisions towards zero. x and y of the mouse are read one after the other with interrupts on, so
any x goes with any y.

### Console
The console as functions of cursor, target and pages, as the code is written: `console_putc` with its wrapping
and scrolling, `console_backspace`, `console_clear`, `console_set_target`. `ssfn_putc` draws on its own
target, which `console_draw_glyph` borrows and restores. Tab and Escape are typed but
draw nothing. `log` is history: the text since the last clear, without what was taken back;
`Layout` is the reference that breaks it into rows.

### Commands
`execute_command` as a dispatch over the characters of `shell_buffer`, in which older lines are
still there behind the NUL of the new one (`Filled`). `CString` and `next_arg` are the pointer
arithmetic of the code. `call` and `arg` record which command runs with what. Numbers go
through `string_to_int`, `read_disk`'s 28 bits and `sleep`'s multiplication.

### Boot
`efi_main` call by call. The firmware may fail any call whose result the loader does not look at, cut the file into
pieces as it likes, and change the memory map by itself (`FirmwareEvent`) as long as its services run.
`grown` and `late` are history: descriptors since the size was asked for, a change since the map was.

## 3. What is checked

| run | module, configuration | question | states |
|---|---|---|---|
| `memory` | `MCMemory`, `Memory.cfg` | Does the in-page list survive everything, are the mapped ranges mapped, are window buffers private? | 112 320 |
| `graphics_reserved` | `MCMemory`, `MemoryReserved.cfg` | Is the back buffer reserved? (no) | |
| `slab` | `MCSlab`, `Slab.cfg` | Are live objects disjoint and the headers exact when a slab fits its bitmap? | 1 674 |
| `slab_small` | `MCSlab`, `SlabSmall.cfg` | And when it has more slots than bits? (no) | |
| `tasks` | `MCTasks`, `Tasks.cfg` | Is every thread in one place, never starved, on a stack of its own? | 97 597 |
| `ext2` | `MCExt2`, `Ext2.cfg` | Does the tree of names stay sound through power losses and full disks? | 116 189 |
| `ext2_short` | `MCExt2`, `Ext2Short.cfg` | Is a new entry always given enough room? (no) | |
| `shell` | `MCShell`, `Shell.cfg` | Do keyboard and mouse come back, do quiet lines run as typed, is every key handled? | 162 542 |
| `shell_reentry` | `MCShell`, `ShellReentry.cfg` | Does every line run as typed? (no) | |
| `shell_mouse` | `MCShell`, `ShellMouse.cfg` | Are both masks back whenever no handler is unfinished? (no) | |
| `desktop` | `MCDesktop`, `Desktop.cfg` | Windows, calculator, eyes, console, commands and boot loader, each by itself: is every change redrawn, does a press take hold of what is seen, does text tell what it should, is the kernel handed over whole? | 346 751 |
| `devices` | `MCDevices`, `Devices.cfg` | Disk and mouse driver, each by itself: does every sector go to its place, does every call return, does the pointer follow? | 128 194 |

### Bounds, and why they are enough

* `memory`: a region across the 2 MB line, a kept one and one above, six pages in all, enough
  for lists of every shape with pages held, freed and used as tables. With three entries to
  a table every level has a present and a missing entry; there is a huge page at each of the two
  levels; the framebuffer lies in one, or starts and ends within a page, or needs more tables
  than there are pages, so that `GiveUp` happens.
* `slab`: slabs of three and two objects, five pointers, three pages: a cache gets a second
  slab, walks past a full one, is refused a page. Sizes keep the proportions of header,
  object and page of the 64-byte to 2048-byte caches. Pages and handles are symmetric; no
  liveness is checked there. `slab_small` has six slots and four bits, like 127 and 64.
* `tasks`: four slots and five threads: the table fills, a creation is refused, an exited
  slot is used again. One creation finds no page.
* `ext2`: four inodes and four blocks run out; the names fit their directory exactly, so a
  directory fills; two power losses, because the second may hit what the first left.
* `shell`: seven keys start the second thread, sleep twice, nested or overlapping, and
  leave one over; the buffer of three overflows; two threads are enough for two overlapping handlers.
* `desktop`: the parts share no state, so `MCDesktop` shows one of them in each behaviour
  (`part`) and their state spaces add up instead of multiplying.
  * Windows: an 8 × 7 screen is the smallest on which windows overlap, leave each other
    partly visible and can be dragged in every direction against an edge; two packets are a
    press and a drag, or a drag and a release; three keystrokes open all windows, or two
    compositors and a window; two task slots make `task_create` fail.
  * Calculator: numbers of four bits, so that sums, products, the negative of the lowest number and
    the trap are a key or two away; six keys, and a text of four, so that it is cut.
  * Eyes: the real sizes, 71 × 36 places of the mouse around and in the eyes and far from them.
  * Console: surfaces of 3 × 2 and 2 × 3 cells, lines of up to three characters and two commands with
    output of two lines: wrapping, scrolling, and backspace across a row's start all happen,
    before and after the console moves to a window.
  * Commands: three lines one over the other in a buffer of six; 73 lines, among them ones that
    fill the buffer. Limits are scaled: words of 7 bits, 32 sectors, 3 ticks to a second.
  * Boot: two volumes, a file of three units read two at a time, two descriptors and two changes by the
    firmware: one more or less than the slack.
* `devices`: again one part (`part`) in each behaviour.
  * Disk: one and two sectors (a block of the file system) of a disk of three; two status
    reads to a time-out, so that both the second and giving up happen.
  * Mouse: no bound on packets or losses. The four movements include a quiet packet, one
    with bit 3 in a later byte, one beyond a signed byte and one with an overflow; a 4 × 4 screen stops
    the pointer at every edge.

### Fairness

* `Tasks`: weak fairness of `Tick`. The PIT runs at 1000 Hz for ever (`timer.cpp` 10–15) and
  every thread has interrupts on or halts waiting for one.
* `Shell`: weak fairness of `Keyboard`: an unmasked pending interrupt is taken; of `Tick`,
  as above; strong fairness of every `Resume(t)`: thread `t` gets the processor again and
  again (`EveryThreadRuns` of the run `tasks`) for a whole tick at least, long enough for an
  instruction. Time passes, so the loop of `sleep()` ends. Keys are bounded, so the user
  eventually stops typing.
* `Disk`: weak fairness of the driver's steps and of the drive's `Settle` and `Work`: a
  drive that is busy is not busy for ever. If it were, `write_disk` would not return
  (`utils.cpp` 275): that loop has no limit.
* Nothing is assumed of the user, of power losses or of failing drives.

`CHECK_DEADLOCK FALSE` is set in the two shell runs in which all keys may have been
handled by the boot flow alone: the machine then halts until the next key.

## 4. What is proved

TLAPS proves the theorems below for every value of the constants that satisfies the named
assumptions.

| module | theorem | statement |
|---|---|---|
| `MemoryProofs` | `TypeCorrect` | `Spec => []TypeOK`, of `Pmm` |
| | `ListCorrect` | `Spec => []FreeListIntact` |
| | `Implements` | `Spec => AllocatorSpec` (`FrameAllocator`) |
| | `AllRangesMapped` | `GraphicsSpec => []RangesMapped` |
| | `ImplementsSpace` | `GraphicsSpec => AddressSpaceSpec` (`AddressSpace`) |
| | `WindowsPrivate` | `GraphicsSpec => []WindowBuffersDisjoint` |
| | `PixelsApart` | `GraphicsSpec => []PixelsPrivate`, when the screen fits below the window heap |
| | `ListUntilGraphics` | `GraphicsSpec => [](backbuffer = NULL => FreeListIntact)` |
| | `ListBesideGraphics` | `GraphicsSpec => []FreeListIntact`, when nothing from 16 MB up is managed |
| | `ImplementsBesideGraphics` | `GraphicsSpec => AllocatorSpec`, likewise |
| `SlabProofs` | `Disjoint` | `Spec => []LiveDisjoint`, when `SizesFit` |
| | `Accounting` | `Spec => []SlotAccounting`, when `SizesFit` |
| | `Grows` | `Spec => GrowsOnlyWhenFull`, when `SizesFit` |
| `TasksProofs` | `TypeCorrect` | `Spec => []TypeOK` |
| | `NeverTwice` | `Spec => []NoThreadTwice` |
| | `Implements` | `Spec => MultitaskingSpec` (`Multitasking`), when no entry returns |
| | `Fair` | `Spec => []BoundedWait` |
| | `OwnStacks` | `Spec => []StacksPrivate`, when `AlmostEnough` |
| `PartsProofs` | `OnScreen` | `MouseSpec => []PointerOnScreen` |
| | `Settles` | `MouseSpec => []QuietPacketSettles` |
| | `KeepsStep` | `MouseSpec => StaysInStep` |
| | `Follows` | `MouseSpec => FollowsHand` (`Pointer`) |
| | `HandedOver` | `BootSpec => []HandsOver`, when `BootAssumption` |
| | `TextOnScreen` | `ConsoleSpec => []ScreenShowsText`, when `ConsoleAssumption` and `LineAssumption` |
| | `OthersUntouched` | `ConsoleSpec => OnlyTargetChanges`, likewise |
| | `WordsReach` | `CommandSpec => []HandedAsTyped`, when `CommandAssumption` |
| | `EyesLook` | `EyesSpec => []PupilsLook`, when `EyesAssumption` |
| | `TextTells` | `CalculatorSpec => []TextTellsValue`, when `CalculatorAssumption` |
| `ShellProofs` | `KeyboardComesBack` | `Spec => []KeyboardMaskedWhileSleeping` |
| | `MouseComesBack` | `Spec => []MouseBackWhenAlone` |
| | `QuietLines` | `Spec => []QuietLineRuns` |
| `DiskProofs` | `MovesItsSectors` | `Spec => BlockDeviceSpec` (`BlockDevice`) |
| `Ext2Proofs` | `TypeCorrect` | `Spec => []TypeOK` |
| | `NeverDangle` | `Spec => []NamesLive` |
| | `AllShown` | `Spec => []LsShowsAll` |
| | `OneOwnerEach` | `Spec => []OwnedOnce` |
| | `TiledWhileFitting` | `Spec => [](DirsWellFormed <=> EntriesFit)` |
| | `AtomicNames` | `Spec => NamespaceSpec` (`Namespace`) |
| | `LeaksCounted` | `Spec => []LeakBound` |
| | `PromptWhilePlain` | `Spec /\ [][Cd => CdPlainly]_vars => []PromptTellsDir`, when `RootLoops` |
| | `PromptRight` | `Spec => []PromptTellsDir`, when `RootLoops` and all paths are `Plain` |
| `DesktopProofs` | `TypeCorrect` | `Spec => []TypeOK`, when `DesktopAssumption` |
| | `PictureIsKept` | `Spec => []PictureKept`, likewise |
| | `SeenIsGrabbed` | `Spec => []GrabsWhatIsSeen`, likewise |
| | `OneKeyEach` | `Spec => []OneKeyPerClick`, likewise |

**Pmm.** From: descriptors have types, no page is described twice, the reserved part is not
empty (so page 0, `nullptr`, is never managed). The inductive invariant is
`TypeOK /\ FreeListIntact`: neither is inductive alone, since a pop follows a link that only the
list says is a free page, and a push needs to know the page is not in the list yet.
`PushList`, `PopList` and `StoreList` give the new list for each way the memory changes (a push, a
pop, a holder's store); `HereIsNew` says that `init_pmm` meets a page once. The refinement
follows: the head of the list is a free page (`HeadIsFree`), an empty list means no page is free
(`EmptyListNoFree`).

**Memory.** From the assumptions of `Pmm`, and: the firmware's tables form a tree and map memory
to itself (`WellPlaced`), no table lies in memory the firmware calls free, ranges stay below 48 bits
(`RangesAssumption`). `RangesMapped` follows from `PagingInv`. Its heart is `PlacesOK`: every
table has one place, a level and the upper indices of the pages it serves, and one entry leads to it.
So `Translate` is read off the number of a page (`TableForIs`, `TranslateIs`), an entry
written for one page is on the way to no page that has something below it (`AddedEntries`,
`WrittenLeaf`), and a new table, being cleared, maps nothing (`TableEffect`).
`TablesOwned` is needed beside it: while paging is set up the allocator's own invariant holds and tables are
the firmware's or pages held, so the page popped for a table is not one yet
(`TableIsNew`); `OnPath` says the walk stands at the table its address leads to, `DoneSoFar` that what
lies before the current address is done. Indices are quotients: `DivisionIs`, `DivideTwice`
and `IndexIs` are the arithmetic.
`HeapInv` (windows lie one after the other up to `wm_heap_next`) gives `WindowsPrivate` for any windows,
and `PixelsApart` where the back buffer ends below the window heap, that is with at most 4 MB. The
list of free pages stays whole until `gfx_init`, and for good when all managed pages lie below 16 MB
(`AllBelow`). A machine with more memory does not satisfy that, and `graphics_reserved`
shows what happens there; the theorem says that nothing but the two fixed regions breaks the list.

**Slab.** From: sizes are positive, a header is smaller than a page, the bitmap has at least one bit,
the counter can hold more than the bitmap has bits, `NULL` is no page and no pointer; and `SizesFit`: a
slab of each cache holds at least one object and no more than its bitmap has bits. The caches of 64 to
2048 bytes satisfy it; that of 32 does not, and `slab_small` shows what follows. The invariant is
`PagesOK /\ ObjectsOK /\ BooksOK`. `LiveDisjoint` is not inductive: that no byte is shared says nothing of
the bitmap the next slot is chosen by. So `ObjectsOK` says that each pointer sits at a slot below the
capacity (`Given`) and that two in one page sit at different ones, and `BooksOK` that the bitmap is
exactly those slots and the counter what is left of the capacity (`Booked`). Then a counter that is not
zero means a clear bit below the capacity (`FreeSlot`): fewer slots are used than there are, and the
lowest clear bit is no higher than that one. That the slot of a pointer can be recovered by division
is `SlotBack`; that a page has one cache only, `OneCache`. `Taken` and `Freed` are the two changes.
For `Grows` the books are read the other way: a cache takes a page only when all its counters are
zero, and then as many objects of each slab are live as it has slots.

**Tasks.** From: at least one slot, the boot flow is a thread and no page, `NULL` is neither a thread
nor a page. The invariant is `TypeOK /\ NoThreadTwice /\ WaitingBorn`: what waits has been created,
which is what makes a new thread differ from every waiting one. For the refinement,
`CurrentReady` is added: without exits the current slot is always a ready one, so the thread
switched from is put where it can be found. With exits it is not, and the refinement does not hold
at the exit: the thread is gone. `BoundedWait` needs to know where a slot stands in the round:
`WaitsInTurn` says that the turns a slot has waited and its distance ahead of the current one make
`MAX_TASKS` at most, since every tick that passes it over comes nearer to it. `StacksPrivate` is
proved where pages are at most two fewer than threads (`AlmostEnough`): then one creation at most is
refused its page, and the page of address 0 it runs on is its own. With two refused it would be false.

**Shell.** From the assumptions of `Shell`. The invariant is
`FramesOK /\ SavedUnmasked /\ KeyboardMaskedWhileSleeping`: whoever saved the masks saw the
keyboard unmasked, or it would not have been called; so a sleep that ends unmasks it. For the
mouse this argument fails (another handler's sleep may have masked it), and with a second
thread the statement is false (`shell_mouse`). With the boot flow alone the handlers form one
stack: `Nested` says that what each saved tells whether one below it still holds the
slave mask. `QuietLineRuns` rests on `LineSpelled`: for a line whose keys came with no handler
unfinished, the buffer spells what the screen shows; while handlers are unfinished the line is empty, and an
index that is not back at 0 has a handler that will still reset it (`Unreset`).

**Ext2.** From the assumptions of `Ext2`: the images to start from are sound, as `mkfs` leaves them. The
invariant `IInv` has five parts. `TreeOK` speaks of every directory block that was ever written, also of
those `mkdir` has not linked yet or a power loss left without a name: entries tile the block, the first two are `.` and
`..`, no name is there twice (`GoodDir`), and each other name leads to an allocated
inode of its type that no other name leads to (`GoodName`). `BlocksOK`: what a name leads to, and
each such directory, owns its blocks alone. `OpOK`: what the command in progress holds before
each of its writes, for instance that the inode `mkdir` has taken is nobody's. `ShellOK` is about
the current directory. `NamesLive` is weaker than this, and not inductive: `mkdir` links an inode that
had no name the step before. `ReachOK` adds that commands work only in directories
that have a name, so a removed tree cannot be written to; the refinement of `Namespace` needs
that. For `LeakBound`, `LeakOK` counts what is allocated but neither named nor
held by the command in progress: only a power loss adds to it, one inode and one block at most. That an
entry fits is no theorem (`ext2_short` is the counterexample); the model leaves out which bytes of the next
block the misfit writes over, so what is proved here says something of the disk up to the first
one, and `TiledWhileFitting` that it is the only thing that can spoil a directory.
`PromptTellsDir` needs a disk whose root is its own `..`, as `mkfs` leaves it (`RootLoops`), and that each
`cd` so far was along names, to `..` or to `.` (`Plain`); other commands may take any path. `PromptOK` then
has a trail of directories, one more than the shown path has names, in which each name leads from one
directory to the next. A directory has one name, and its `..` leads back along it (`LeadsFacts`): so `cd`
goes on along the trail (`WalkTrail`, `TrailOn`) or takes its last step back (`TrailBack`), and walking the
shown path from the root can only follow it (`TrailTarget`). No step of a command takes a directory of the
trail away (`LinksStay`), since `rm` removes files only; a power loss puts the shell back to the root.
The positions of entries in a block come from a recursive function (`Starts`); `Recursion` shows that
it exists, `LowestIs` takes the place of induction.

**Disk.** From: a disk has one to 2^28 sectors, a call moves 1 to 255 of them, a time-out is at least one read. `Agreed` relates drive and driver: a
drive that has sectors left moves those the call in progress still wants, from the same place and in the same
direction, and the status register never shows a request the drive does not make. It holds until a
call gives up (`failed`); after that an old command may be in the drive while the driver counts
sectors of a new one. Every transfer is then a step of `BlockDevice`.

**Mouse.** From: the start is on the screen, movements have nine bits. The invariant is `Stepping`:
beside types, it counts the answers the mouse still owes, says that nothing is settled before the packets
come, and, the part that is not obvious, that after two bytes of a quiet packet the driver does not
hold exactly one byte (`QuietEnds`). A byte without bit 3 cannot begin a packet, so two of them end
whatever the driver had begun, and its third turn is the packet's third. `KeepsStep` and the
refinement need no more than this: in step, the handler reads the bytes of one packet
(`ReceivedInStep`), and the byte of a movement within a signed byte gives it back (`Bytes`).

**Desktop.** From `DesktopAssumption`: sizes are natural numbers, what commands open lies on the screen
with its title bar, the mouse starts on it, a packet moves it by any integers; the clause on windows is
what keeps the compositor's clipping right, and the three commands of `utils.cpp` satisfy it on
screens as large as theirs. Windows, packets, keys and compositors are any number. The invariant is
`Types /\ ClicksOK /\ MarksOK /\ CursorOK /\ NoGhostCursor`.
* `Layered`, in `Types`, is what `GrabsWhatIsSeen` rests on: layers of two windows always differ and lie below
  `window_count`, so of the windows that cover a pixel one is in front (`ShowsIs`), and the hit test chooses by
  the same order (`HitIs`). Without it a new window and a raised one could share a layer; the two
  loops settle ties in opposite ways.
* `NothingLeftStale` is not inductive: it says nothing of the rectangle xeyes is about to mark, nor of what its
  interrupted `add_dirty` has written so far. `StaleOK` adds the first (a change of its body that is not
  marked yet lies in the rectangle it has read), `MarkingOK` the second (each edge written is its own or
  beyond, and `have_dirty` is as it was tested), as long as nobody overtook it. The geometry is below that:
  a pixel of the body, the title bar or the border lies in the rectangle marked for it (`BodyMarked`,
  `TitledMarked`, `BorderMarked`, `CursorMarked`), widening covers both (`WidenedCovers`), clipping loses no
  pixel of the screen (`ClippedCovers`), and a pixel shows something else only where the old or the
  new place of the window is (`ChangedWithin`, `NewInFront`). `FrameEffect` sums up a turn of the
  compositor: what was marked before it and all that changes in it lies in the damage it paints.
* For the cursor, `CursorOK`: the place the compositor remembers is where the cursor was drawn, if there is one
  compositor and the mouse did not move before its first frame.
* For `OneKeyPerClick`, `ClicksOK` counts the press a poll has yet to see as still to come.

**Boot.** From `BootAssumption`: sizes are natural numbers, a read asks for something, the map has a
descriptor. `KernelWhole` follows from `ImageOK`: what is loaded is the file up to the firmware's own
position, whatever the pieces. For `HandsOverMap`, `SizeOK` keeps the sum of what was asked for and what
the map has grown by since, so that a map which has grown by two descriptors at most fits its buffer;
`MapOK` follows the map got from `GetMemoryMap` on: as long as no change is noted its key is
the firmware's, so `ExitBootServices` succeeds, and after that nothing changes any more.

**Console.** From `ConsoleAssumption`: surfaces have at least one cell, letters that can be typed have a
glyph, prompt and outputs are made of glyphs and newlines. And from `LineAssumption`: a line of
`MaxLine` characters that begins in the last column of the first row ends on the screen. In the
kernel that is 79 + 255 (`MAX_COMMAND_LEN`, `idt.cpp` 15 and 250) against the 80 × 25 cells of a terminal, or
the more of the framebuffer; without it Backspace stops in the corner while the line goes on being
shortened, and `ScreenShowsText` is false. `ConsoleInv` has two parts.

* `Shows`: the surface is `Layout` of the log, and the cursor is where the log ends. `Layout` gives a cell what
  the text puts there; as places only move forward in reading order (`PlacesGrow`), no two characters that are
  drawn share a cell, so a character more changes one cell (`CellAppend`), which is what
  `console_putc` draws; scrolling drops a row of both (`PutcShows`, `PutsShows`), and taking the last
  character away blanks the cell `console_backspace` blanks (`BackspaceShows`).
* `Line`: there is a map from the characters of `shell_buffer` to the end of the log, and the line has not
  left the screen at its top. `Index` numbers cells in reading order: each character advances it by one at most,
  whence with `LineAssumption` the line never scrolls out from under its own beginning (`LineGrows`,
  `LineShrinks`).

`Places` and `console_puts` are recursive functions over the text; what they do for every text comes from
their defining step and `UpTo`, which counts to a given length.

**Commands.** From `CommandAssumption`: lines hold no NUL, digits are worth 0 to 9, there is a place in the
buffer, a tick and a sector, and no more sectors than a word counts. What is in the buffer before a line needs
no invariant, and that is the point: `FilledIs` and `CStringIs` show that what a command finds from any place within the
line is the rest of the line, so what was there before is not read; `NextArgIs`, that spaces and no more are
passed over. `NumberTaken`: if a word holds the value of the digits it holds the value of each beginning
of them, so nothing wrapped on the way. `LineHanded` goes through the commands one by one.

**Eyes.** From `EyesAssumption`: sizes of any eyes in which a pupil can move two pixels, and places of the
mouse whose squared distance is an int. A frame keeps nothing of the one before, so the proof is
arithmetic. `RootAt` is the invariant of `int_sqrt`'s loop: the bits above the current one make a root that is
right as far as they go; the root is less than one too small for the real distance (`RootNext`, `Root`). A
pupil whose move is divided by it is thus pulled by less than `max_move + 1` (`Short`), and with its radius
(`Added`, Cauchy-Schwarz) stays in the eye. Along the longer axis it moves at all (`Moves`), which makes it
strictly nearer (`Nears`). With `max_move` 1 that is false: for a mouse three pixels right of and below the
centre, 3 * 1 / 4 is 0.

**Calculator.** From `CalculatorAssumption`: each digit is a number, and the text of any number fits the
buffer. `TextTellsValue` is not inductive: that a text has the right value does not say that it still has
after one more digit, for its last number may have wrapped. `CalculatorOK` says what the text
is made of: a result as `itoa_dec` wrote it or the digits typed (`NumberShown`), or a text with the pending
value, the operator and the digits typed since (`SumShown`), where `display_value` is those digits' value,
wrapped. `WrapDigit` is that wrapping after each digit or at the end is the same; `NumeralsTell`, that a number
has the value of its text, the lowest one included; `JoinTells`, that operator and digits after a text apply
that operator to its value.

Left to TLC: liveness under fairness (`EveryThreadRuns`, `EveryKeyHandled`, `EveryCallReturns`),
which is out of the prover's reach. `DirsWellFormed` has a theorem in the form `TiledWhileFitting`, since
it is false where an entry does not fit. `GraphicsHeapReserved` and its like in section 6 are false.

## 5. What the properties say

* `Pmm`: `FreeListIntact` (walking the list meets each free page exactly once and
  `total_free_pages` is its length), `AllocatorSpec`.
* `Paging`: `RangesMapped` (every address of every range, partial pages included, leads to
  itself unless memory ran out for it), `AddressSpaceSpec` (no step changes what a page of
  another range leads to: the hazard the comment at `memory.cpp` 91–93 describes, and that of a
  table page with its last holder's data in it, `docs/memory.md` 19).
* `GraphicsHeap`: `PixelsPrivate`: windows' pixels are not shared (`WindowBuffersDisjoint`) and not
  the screen's (`WindowsAfterBuffer`). The latter holds because the back
  buffer of the configuration ends below the window heap; at 4 MB and more (1280 × 1024 with
  32 bits) it does not, see section 7.
* `Slab`: `LiveDisjoint`, `SlotAccounting` (types and `SlabsDistinct` included),
  `GrowsOnlyWhenFull`, all under `SizesFit`, which holds for the caches of 64 to 2048 bytes.
* `Tasks`: `NoThreadTwice`, `BoundedWait`, `StacksPrivate`, `EveryThreadRuns`.
* `Shell`: `KeyboardMaskedWhileSleeping`, `MouseBackWhenAlone`, `QuietLineRuns`, `EveryKeyHandled`.
* `Ext2`: `NamesLive`, `LsShowsAll`, `OwnedOnce`, `DirsWellFormed`, `LeakBound`, `PromptTellsDir`,
  `NamespaceSpec`. Power is lost only on the image whose files `touch` made, which have no blocks:
  `rm` frees a file's blocks before it removes the name, so a power loss in between leaves a
  named file whose blocks may be given away. `PromptTellsDir` is for a user who goes one name
  at a time or types an absolute path without `.` and `..`.
* `Disk`: `BlockDeviceSpec` (until the first failed call), `EveryCallReturns`.
* `Desktop`: `PictureKept` (`NothingLeftStale` and `NoGhostCursor`), `GrabsWhatIsSeen`,
  `OneKeyPerClick`, and `TypeOK`, which keeps windows on the screen. `overtaken` and `early` mark
  the two races after which the first says nothing (section 7).
* `Mouse`: `QuietPacketSettles`, `StaysInStep`, `FollowsHand` (the refinement of `Pointer`).
* `Calculator`: `TextTellsValue`: the text, read from left to right, has the value `=` would give. It says
  nothing of a text that was cut until it is replaced, nor after the trap.
* `Eyes`: `PupilsLook`: the root is rounded down (`RootIsFloor`), no pupil leaves its eye
  (`PupilsInEyes`), each is nearer to the mouse than its eye's centre (`PupilsNearer`).
* `Console`: `ScreenShowsText` (with `CursorInside`), `OnlyTargetChanges`.
* `Commands`: `HandedAsTyped`: text (`OnlyTypedText`) and numbers (`NumbersAsTyped`), the latter within the
  limits, the former but for a bare `echo` or `readdisk` (section 7).
* `Boot`: `HandsOver`: `KernelWhole` unless a read failed, `HandsOverMap` where the firmware was quiet at
  the end.

Each property of a passing run has a mutant: a definition with a plausible slip in it
(marked `mutant` where it is defined), under which TLC finds the property violated.

## 6. Where code and documents disagree, shown by a run

1. `graphics_reserved`: `gfx.cpp` 34 calls 0x1000000 the reserved contiguous graphics heap; `init_pmm`
   reserves only what is below 2 MB, so on a machine with more than 16 MB the pages of
   the back buffer are in the free list, and `gfx_init` writes over their links.
2. `slab_small`: `docs/memory.md` 24 has the slab allocator handle anything under 1024 bytes; the
   32-byte cache counts 127 slots in a slab with 64 bits, and the 65th object shares its
   bytes with another.
3. `ext2_short`: `ext2.h` 127 calls `rec_len` the length of the entry; `ext2_link_dir_entry` splits the
   last entry without asking whether the remainder holds the new one (`ext2.cpp` 361–374).
4. `shell_reentry`: `docs/console.md` 10 has Enter run the line; keys that arrive between the
   unmasking in `sleep()` and the reset at `idt.cpp` 240 are appended to the old line, and Enter
   runs that again.
5. `shell_mouse`: `timer.cpp` 20 saves the masks; two overlapping sleeps on two threads save
   each other's, and the mouse stays masked.

## 7. Known disagreements without a run

* `pmm_alloc_pages` returns pages of a stack, which need not be consecutive, and keeps those it
  popped when it fails (`memory.cpp` 132–142; `docs/memory.md` 24 says consecutive).
* The caches of 5096 and 10192 bytes do not fit a page: capacity 0, the counter wraps and
  the object runs past the page; `memory.cpp` 185 calls 1024 the biggest cache.
* A back buffer of more than 4 MB runs into the window heap (`wm.cpp` 45, "after the buffer").
* A task created between `task_exit` and the next tick may get the exited slot; that tick stores the
  old stack over its `rsp`, and the new task never runs (`task.cpp` 7, 13). No entry returns today.
* After `cd a/..` the prompt shows a path that does not lead to the current directory once `cd ..`
  follows (`ext2.cpp` 227).
* The hit test knows title bars only: a press on a window body takes hold of a title bar hidden
  behind it (`wm.cpp` 77, "topmost window"), and the calculator takes clicks through windows
  that cover it.
* xeyes marks with interrupts on (`xeyes.cpp` 103): another mark or a redraw in between can be lost.
* The compositor reads the mouse before `cli` (`wm.cpp` 131): a packet before its first frame leaves
  a cursor image behind. A second `startwm` starts a second compositor with a cursor of its own.
* `write_disk` looks at the status right after the flush command, without the delay (`utils.cpp`
  273–275), so it may return before the flush is done; it then meets the drive busy.
* Failed transfers go unnoticed by the callers. ERR and DF are read while BSY may be set
  (`utils.cpp` 197).
* A movement has nine bits, the ninth in the flags; the handler takes the sign from the byte
  (`idt.cpp` 196), so a fast movement of 200 to the right goes 56 to the left. `init_mouse` reads the
  configuration byte without waiting for it (`idt.cpp` 160).
* `calculator.cpp` 32 says the text is what the user entered; past 31 characters keys are left out of it,
  and a changed operator overwrites a digit. The calculator shows `05` when 5 follows `C`. The smallest number
  divided by -1 traps (line 90), and since nothing handles the exception it traps for ever with
  interrupts off.
* Tab and Escape go into the line but have no glyph: taking one back takes a character away that is seen, then the
  prompt (`console.cpp` 87–108; `docs/console.md` 13 keeps the prompt safe). Keys typed before the
  first prompt are in the line too.
* A bare `echo` or `readdisk` steps over the end of the line and reads what an older one left
  (`utils.cpp` 481, 484). Commands are recognised by how a line begins: `sleepy` sleeps,
  `rmdir x` removes `dir x` or complains of it. `string_to_int` knows bases that `is_number` refuses first.
* Sectors from 2^28 on and sleeps beyond 4294967 seconds wrap to others (`utils.cpp` 178, `timer.cpp` 18).
* A ninth window stores through a null pointer (`utils.cpp` 581); the calculator's window, opened when all
  task slots are taken, stays dead (`utils.cpp` 565).
* `bootloader.cpp` 106 takes the boot services for gone; the result of `ExitBootServices` is not looked at, nor
  are those of `GetMemoryMap`, `Open`, `Read` and `AllocatePages`. The first volume that opens is taken, and without a
  graphics protocol the size of the screen stays unwritten.
* `idt.s` 39 gives vector 18 an error code. `kernel_entry` prints after `sti`, so a key may
  interrupt its output (`kernel.cpp` 64–76).

## 8. Not modelled

* Kernel entry beyond its order, GDT, IDT layout, PIC set-up: straight sequences of set-up; what
  they leave is in the `Init` of the modules.
* `printf`, `klog`, serial output: formatting without state.
* `ssfn.h` beyond where a glyph goes: a vendored font renderer. What glyphs and pictures look like is left
  out everywhere.
* Framebuffers whose height is not a multiple of 16: `Console` counts in whole cells.
* The boot loader's graphics mode search and what the firmware's tables look like (`efi.h`).
* Bytes of names and files, times, ownership, counts in the ext2 headers (which the kernel does
  not update).

## 9. Plan

Done: memory (`Pmm`, `Paging`, `GraphicsHeap`, `Slab`), `Tasks`, `Shell`, `Disk`, `Ext2`, `Desktop`,
`Mouse`, `Calculator`, `Eyes`, `Console`, `Commands`, `Boot`, with the abstract specifications and the
proofs of all of them, liveness excepted. Next: disagreements of section 7 as runs (the hit test, the flush,
`cd a/..`, the bare `echo`).
