# DexprOS in TLA+

DexprOS is a small x86-64 kernel that is loaded by UEFI firmware.  It ends the
firmware's boot phase, switches to a page map of its own, describes physical
memory, sets up interrupts and a PS/2 keyboard, and runs a line-editing shell
on the framebuffer.  This project models the parts of it that keep state or go
through state in a hard order, checks them with TLC on small instances, and
proves some of the results for all parameters with TLAPS.  Paths below are
relative to the repository.

## 1. The system and its parts

| part | state | operations | interacts with | what makes it correct |
|---|---|---|---|---|
| `src/Boot/x86_64-efi/EndBootPhase.c` | memory map buffer, key, page map buffer and its parts | get map, (re)allocate buffer, leave boot services, switch page map | firmware (every allocation changes the map), page map setup | the kernel goes on with the firmware's last map; the page map fits; nothing leaks; the retries end |
| `src/Boot/x86_64-efi/InitialPageMapSetup.c` | page tables in the buffer | count tables, make tables | called by EndBootPhase before and after the end of boot services | tables counted = tables made; every byte to be mapped is mapped |
| `src/Kernel/efi/InitialMemMapGenEfi.c` | the initial memory map, in memory it describes itself | count regions, choose a place, fill | read by everything below | sorted, complete, fits its own region |
| `src/Kernel/Memory/*Gen.c` | tree of free pages, list of ranges | count, place, create, mark, summarise | written into memory the initial map calls free | exactly the free pages are offered; arrays are as large as counted; summaries agree with the pages |
| `src/Drivers/Keyboard/PS2KeyboardDriver.c` | command queue, resend count, decoder, key states, locks, modifiers | one interrupt per byte | keyboard (bytes in both directions), shell (key events) | queue never idles with work; decoder in bounds; keys, locks and LEDs agree |
| `src/Shell.c` | display ring, line, text on the screen | key events (in the interrupt handler), `Puts`, `ActivatePrompt` (in the booting thread) | keyboard driver, graphics driver | indices in the ring; the screen shows the text; commands do what they say |
| `src/Kernel/kstdlib/string.c` | memory | memset, memcpy, memmove, memcmp | everything | exactly the right bytes, overlap included |
| `src/Drivers/PS2ControllerDriver.c` | controller configuration, which ports work | initialise: disable, test, enable the ports | controller and its devices, whose bytes share one buffer with the answers | every answer is the controller's own; the busy loops end; exactly the working ports are on |
| `src/Drivers/PICDriver.c`, `src/Kernel/x86_64/Interrupt*`, `IdtCreator.c`, `KernelPanic*` | masks, in-service bits, gates, the stack and the registers on it | initialise, EOI, dispatch, panic | every driver, the interrupted thread | each interrupt is ended once and its own; handlers do not nest; the thread goes on as it was; a panic is final |
| `src/Drivers/Graphics/CpuGraphicsDriver.c` | back buffer, framebuffer, region to swap | initialise, clear, clear regions, blit, swap | shell, error display, from a handler or the booting thread | what is drawn is what was asked, inside the buffers; no drawing is left out of the swaps |
| GDT, TSS, CPU features, syscalls, font, font generator | little or none | set up once | boot sequence | bit patterns |

Hard behaviours: interrupts in the middle of the booting thread (shell, graphics,
interrupts), answers credited to the wrong command or mixed with the bytes of
devices, and bytes that are asked for again (keyboard, controller),
memory that changes because one asks about it (EndBootPhase), data structures
counted in one pass and filled in another (all of the memory code), unaligned
and boundary sizes (string, page map, tree).  `PROJECT.json` lists these as
hazards with the line where each one bites and the properties that would show
it.  Nothing in DexprOS is persisted, so there is no recovery to model.

## 2. Modules

| module | models | state and actions |
|---|---|---|
| `PS2KeyboardDriver` | the driver under arbitrary bytes | `chan` (queue, waiting, resends, bytes written), `decoder`, `keyStates`, `locks`, `mods`; one action: an interrupt with one byte, which is answer, error, self-test result or scan code. Behind an interrupt gate nothing interrupts it |
| `PS2ScanCodeSet2` | the kernel's scan code tables and US layout | constants; a representative part of the tables: each shape of code (one byte, 0xE0, 0xF0, print screen, pause), all lock and modifier keys |
| `PS2KeyboardSystem` | driver, keyboard, user and both wires | the keyboard is external; it answers command byte and data byte separately and may receive a garbled byte and ask for it again |
| `KeyboardShell` | user, keyboard, driver and shell | composes `PS2KeyboardSystem` with the operations of `Shell`: what an interrupt passes on, the shell handles before it is over; `line` is what the user means to have typed, worked out from the key caps and not from the driver's tables |
| `Shell` | ring, line, screen, builtin commands and the booting thread | an event is one step; of the booting thread's `ActivatePrompt`, each turn of a loop, and each access to shared state outside of a loop, is a step (`boot` holds its locals), so that an event may come between any two. `session` is the console and the bounds of a behaviour |
| `Terminal` | what a user is promised: a log and an editable line | abstract specification |
| `ShellRefinement` | `Shell` implements `Terminal` | refinement mapping: the log is the text in the ring |
| `KernelString` | the three loops of each function | a step is one iteration, reading its word before writing it |
| `InitialMemMapGenEfi` | both passes over the firmware's descriptors | `gen` (range being combined), `alloc`, `imap`; combine, submit, allocate, finish |
| `PhysicalMemStructs` | size computation, placement, tree and ranges | a step is one iteration of a loop over levels, or one call |
| `PhysicalMemoryBoot` | `efi_main` from the firmware's map to the tree | composes the two modules above through `imap` |
| `EndBootPhase` | the end of the boot phase with the firmware | each boot service call is a step, so the firmware's events fall between any two |
| `InitialPageMapSetup` | counting and making of page tables | a step is one memory range |
| `PS2ControllerDriver` | the initialisation of the controller | each access to a port is a step of the driver (`pc`); the controller is external: two buffers, an answer to come, a configuration byte, ports that work, fail or do not exist |
| `PICDriver` | both PICs and the driver's commands to them | `pic`: for each chip what it expects next, offset, mask, requests, in-service bits; the chips are external |
| `Interrupts` | IDT gates, service routines, handlers, EOIs, panic | extends `PICDriver`; `run` is the nest of activations on top of the booting thread, `stack` and `regs` what they save and restore; a request, a withdrawn request or an exception may come between any two steps |
| `CpuGraphicsDriver` | the graphics driver | `drv` (format, region to swap), `back`, `front`; the thread's calls in steps, with the handler's calls in between; `asked` is the picture that was asked for |
| `*_proofs` | theorems | |
| `MC*` | instances for TLC | |

Definitions called "faulty variant" are plausible mistakes; no specification
uses them.  Each property has one (listed in `PROJECT.json`) that breaks it:
putting the variant in the place of the definition makes TLC report the
property.

Data is abstracted to what the properties tell apart: characters and keys are
symbols, a memory map is descriptors or, in `EndBootPhase`, the number of
descriptors with the buffers in it; there the sizes of page maps are constants
(any function of the number of descriptors), and `InitialPageMapSetup` shows
that the sizes the code computes are exact.  Control is kept whole.

## 3. Runs

### Keyboard

* `keyboard_driver`: the driver alone.  A behaviour chooses at its start one of
  three sets of bytes and then takes them in any order: all answers and errors
  with two lock keys' codes (the command queue), the prefixes with a modifier of
  both sides and the bytes of the print screen sequences, or the bytes of the
  pause sequence, so that broken and interleaved sequences occur (the
  decoder).  A queue of 3 is the smallest in which a command can be first, in
  the middle and last while another is dropped; one resend is allowed.
* `keyboard_system`: the kernel's queue of 16 commands, with a keyboard that
  follows the protocol, a user and the shell (`KeyboardShell`).  A behaviour is
  one of five sessions: Caps Lock and Print Screen pressed or repeated twice
  with one byte to the keyboard garbled; Caps Lock once with two; a digit with
  both Shifts and a Control; a letter with Shift and Caps Lock; a letter with
  Backspace, Enter and Pause on a line that is full after two characters.  An
  answer overtakes the bytes that are still in the keyboard, so it falls into
  the middle of scan codes.  The run shows that although the driver takes the
  two answers to a two-byte command for answers to two commands, keyboard and
  driver agree when the wires are idle, that the queue is always worked off, and
  that the shell's line is what was typed.  `KeyboardIsConfigured` claims the
  settings for behaviours without garbled bytes only: a command given up after
  its resends is really lost.  Sixteen commands never fill up here
  (`RoomAssumption`); the full queue is the matter of `keyboard_driver`.

Fairness: the keyboard answers what it receives, and the interrupt of a waiting
byte is taken (the kernel idles in `hlt` with interrupts enabled and all
handlers return).  Nothing is assumed of the user.  A keyboard that does not
answer leaves the driver waiting for ever, since it has no timeout.

### Shell

* `shell`: a ring of nine characters, and three sessions: five events after the
  prompt is up, on three usable lines of four characters; four events there of
  which up to two come during `ActivatePrompt`; and on a single line six events,
  up to three of them during `ActivatePrompt`, with one ordinary key and
  Backspace.  The ring wraps around, overflows and scrolls within those events,
  and the text printed at boot is longer than either console, so that the first
  flush scrolls, by one line or by three.  Checks the indices, what is visible
  (`CommandIsVisible`, of which `TextIsInBounds` and `LineIsInText` are parts),
  the picture (`ScreenShowsText`), and that the shell implements `Terminal`.

What holds when keys come during `ActivatePrompt`, which the code does not guard
against them:

* `TextIsInBounds` holds whatever comes when: no index leaves its array.
* `LineIsInText`: keys that come before the prompt is drawn are overwritten by
  it and can later be erased only at its cost.  The first character shown stays
  in front of the line as long as they are no more than the prompt has characters
  and none of them is Enter.  On the single line that bound is exact: with a
  prompt of two, three early keys and as many Backspaces take the end behind the
  first character.  Keys that come in the counting or the scrolling loop are left
  out (`torn`), since there it fails: a Backspace after the counting loop's test
  at the last character makes the loop go round the whole ring (line 246), and a
  handler's flush after the count scrolls the lines that the thread then scrolls
  again (line 279).
* `ScreenShowsText`: a key that comes before the thread begins to erase, also in
  the middle of its count, leaves nothing wrong on the screen.  One that comes
  later does: what the handler draws while the thread erases or draws is no longer
  described by `onScreenCharacters`, and stays on the screen.  Nothing is claimed
  of that picture, nor of the moments within a turn of a loop.
* `Terminal` promises nothing once a key came early (`Spoil`).

`LineIsInText` assumes a console with room for the prompt and the longest line
(256 characters); on a smaller one the beginning of the line itself scrolls away.
`SizesAssumption` has what is printed at boot fit into the ring (65536
characters).
The shell has no liveness property: all it does is a finite step per event.

### String functions

* `strings`: all four functions, both pointers with every remainder modulo 8,
  all overlaps, lengths around 1, 2, 4, 8 and 16; distinct bytes in the source,
  so any misplaced byte is seen.
* `string_overlap` (violation): backward copies by words.  The finding says
  which line is wrong and why the repository's test passes.

### Memory

* `memory_boot`: from the firmware's map to the tree, for all firmware maps of
  up to three descriptors of five kinds and two sizes with or without gaps,
  the first at page 1.  Three descriptors give a neighbour on either side to be
  combined or kept apart.  A page of 128 bytes holds one entry of the initial
  map (72 bytes) and less than the structures need, so that both may take one
  or several pages, and a region whole or in part.  Larger maps of five
  descriptors of 1 or 130 pages are added, whose trees have up to eleven levels:
  with more than 128 pages below a block its value no longer is exact, and
  `BlocksSummarisePages` says how far off it may be.  `MapDescribesMemory`
  contains that the initial map is sorted, `BuffersAreDisjoint` that it fits its
  region, `CountsAreExact` that the list of ranges has exactly its memory.

The comment at `include/DexprOS/Kernel/Memory/PhysicalMemTree.h:19` ("Each block
splits into two in the next level, except for the last ones") describes less
than the code does: levels are widened downwards too, so the first block of a
level may have a single block below it.  `BlocksCountPages`, a part of
`BlocksSummarisePages`, covers that case.

Firmware maps have no descriptors without pages and none that overlap; the UEFI
specification excludes both and the code does not handle them.

### End of the boot phase

* `end_boot`: up to five descriptors; every allocation and up to two events of
  the firmware change the map by one descriptor.  The first map buffer and the
  first page map buffer are too small for some of the maps, so that all three
  retries happen, also within one another.  AllocatePool and AllocatePages may
  fail once each; after a failure of AllocatePages the code goes on without a
  buffer, so the claims about that buffer are made for behaviours without it
  (`PagesWereAllocated`), the others for all.
* `page_map`: three descriptors with and without gaps, in rising or falling order, a
  framebuffer below, between or above them and not page-aligned, tables of two
  entries so that every range reaches into several tables of each level.
  The framebuffer lies outside the ranges.

Three configurations are kept that belong to no run, to reproduce failures of the
code outside the bounds chosen above; TLC reports a violation for each:

* `MCMemoryAtZero.cfg` (`MCPhysicalMemoryBoot`, `UsableMemoryIsManaged`): with free
  memory at physical address 0 the structures may be placed there
  (`UefiBoot.c:280`), and the address of the tree's first entry is then the NULL
  that ends the list (`PhysicalMemTreeGen.c:300`): nothing is managed.
* `MCEndBoot4G.cfg` (`MCEndBootPhase`, `BufferIsBelow4G`): the result of
  `ReAllocPageMapBuffer` is not kept (`EndBootPhase.c:377`), so after a failed
  AllocatePages the code goes on with an address that is not a buffer of its
  own; the comment at line 561 takes it for guaranteed to be one below 4 GiB.
* `MCPageMapOverlap.cfg` (`MCInitialPageMapSetup`, `CountedTablesSuffice`): a
  framebuffer that begins inside a range to be mapped takes the range's place
  in the counting pass (`InitialPageMapSetup.c:116` compares it with the end of
  the range, not with its base), so tables are made that were not counted.

Fairness: weak fairness of the code's own steps, here and in `memory_boot` (there
is one thread and no other process to starve it).  The firmware's events are bounded: if the map
changed between every GetMemoryMap and ExitBootServices for ever, the loop
would not end, and the code relies on that not happening.

### PS/2 controller

* `controller`: both ports working, failing or (the second) missing in either
  way a missing port shows, a self test that passes or fails and may reset the
  configuration, three configurations left by the firmware, and devices that
  send up to three bytes: one that lies in the buffer, one in the place of an
  answer and one more.  `AnswersAreOwn` and `PortsAreSetUp` are claimed for
  behaviours in which no device's byte arrives while the driver has an answer to
  wait for (`sent.harmful`).  The code does not exclude that case: the read that
  discards old data does not wait until the second port is off (line 165), and
  the ports are on when the configuration is read for the last time.
  `InitialisationEnds` is claimed for all behaviours.

Fairness: the driver runs with interrupts off, so nothing keeps it from its next
step, and the controller handles every byte it is given.  A controller that
never answers hangs the kernel, since the busy loops have no timeout.

### Interrupts

* `interrupts`: the keyboard (line 1), line 7 and the mouse (line 12, on the
  second PIC) make three requests in all, which they may take back so that
  spurious interrupts 7 and 15 arise; up to two exceptions of a handler without
  error code (NMI), one with (page fault, which panics) and one with a code and
  the stub handler, in the middle of anything.  The PICs are set up first, from a state
  in which the firmware has left an interrupt in service.  Three requests are
  the smallest number with one in service, one more urgent and one less.
  The handler of line 7 never sends an EOI.  After a spurious interrupt that is
  right; a device on that line would leave it in service for ever, so
  `InServiceIsHandled` and `RequestsAreServed` except line 7.
* `interrupt_registers` (violation): the service routines save only the
  general registers, while the keyboard's handler also uses the floating point
  ones.  The finding has the lines.

Fairness: the CPU goes on; it stops in the halt loops only, where an interrupt
is accepted.  The calls at `Interrupts.S:84` reserve no home area for the called
function; that compilers do not use it in these handlers is an assumption of
the model.

### Graphics

* `graphics`: a screen of 2 by 2 pixels in rows of 3, so that a row has a part
  that is not shown; both supported orders of colours and both kinds that are
  refused; images with and without transparency and regions that lie on the
  screen, across each of its borders or beside it; two regions in one call.
  Between the steps of the thread's calls the handler draws and swaps; a
  rectangle is drawn in one step, so a handler that draws in the middle of one
  that overlaps its own is not explored.
  `DrawsWhatIsAsked` holds through all of that.  `ScreenCatchesUp` is claimed
  until a handler interrupts a call (`faults.torn`): the mark made before such an
  interrupt is used up by the handler's swap, and an interrupted swap reads
  the number of rows again and may go on with that of the handler's region.
  Positions are small: sums that leave 32 bits are not explored.
  `CpuGrGraphicsClearScreenRegions` takes the size of the first region for all;
  its callers pass regions of one size, which `CallsAssumption` says of all calls.

There is no liveness property of graphics: each call is a finite loop.

`CHECK_DEADLOCK FALSE` is used where the modelled procedure comes to an end.

## 4. Proofs

`PS2KeyboardDriver_proofs` proves for all queue sizes, resend limits, scan code
tables of the shape `TablesAssumption`, layouts and input bytes:
`TypeCorrect`, `ChannelCorrect` (the driver waits exactly while commands are
queued, and what an interrupt writes is the head of the queue),
`DecoderInBounds` and `KeysConsistent`.  Two of these facts, `WritesTheHead` (what
is written is the head of the queue) and `LocksFollowKeys`, are only proved: no
run repeats them.  The inductive invariant `DriverInv` has
three parts, one for each part of the state.  It is stronger than the
properties: for the decoder it has to say that a pending sequence is a proper
prefix of one in the current table, for the locks how `justActivated` depends
on the state of the key; without these a later release could switch a lock
twice.  There are lemmas for each operation on the channel, for the decoder's
functions and for the lock and modifier updates; `NextDriverInv` combines them
by the kind of byte.

Two action properties follow from `DriverInv`: `QueueCorrect` (`QueueIsFifo`) and
`ResendsCorrect` (`EveryResendIsCounted`).  `StepOnQueue` says that an interrupt
queues, writes the head again or goes on to the next command; each property is
then a fact about sequences.

The second half of the module is about `PS2KeyboardSystem`, for every set of
keys, all codes for them that the tables know, every session and both wires of
any length: `KeysAreKnown` (`KeyStatesMatchUser`), `LocksAreKnown`
(`LocksCountPresses`) and `KeyboardGetsConfigured` (`KeyboardIsConfigured` with
`NeverStuck`).  Assumed are `CodesAssumption`, that each code of a key is one the
tables decode to that key (`IsCodeOf`: a path through sub-tables, then a key or
one special sequence; it speaks of the tables only, not of the decoder), and
`RoomAssumption`, that a session has five presses less than the queue has
places: nothing says how fast the keyboard answers, and a full queue drops a
command.  TLC evaluates both in `keyboard_system`, where the queue is the
kernel's.  The properties speak of wires that are empty; the invariant has to
speak of full ones.  `Leads(who, x, q, y)` says that the bytes or commands `q`
take a party from `x` to `y`, each acceptable when its turn comes, and
`SystemInv` that what is under way leads to the right state:

* `UserAt`: the bytes from the keyboard lead the driver from its state to one
  between two codes whose keys and locks are the user's (`Matches`).  `CodeLeads`
  is the step for a key, by the path of its code; `LeadsInserted` says that an
  answer may fall in anywhere, since it does not touch the decoder.
* `ConfigAt`, as long as no byte was garbled: the bytes to the keyboard and then
  the commands still queued behind the first (`Comes`) lead the keyboard to the
  LEDs of the locks and, once the one self test under way is answered, to all
  settings; before, the reset is alone on the wire.  That an acknowledgement is
  taken for the wrong command does no harm, since whichever is taken, the next
  command's bytes go behind those already sent (`NextConfigures`).  The count
  of LED commands the user may still cause keeps the queue from filling up.
* `AnswerComing`: while a command is queued, a byte is under way to the
  keyboard or an acknowledgement or resend request back.

`KernelString_proofs` holds for all memories, addresses and lengths; assumed is
that the arguments are buffers in memory.  `ForwardWritesAreExact`: the
invariant says that the three loops still have exactly the rest of the bytes
before them (`LoopsAddUp`), that the bytes before the offset have their final
value and all others their old one (`PrefixDone`).  The heart is `SourceIntact`:
going forward, the source of a byte still to be copied has not been written
even if the buffers overlap.  `UnitSuits` and `LoopsCover` do the arithmetic on
remainders, by cases on the word size.  `BytewiseCopiesAreExact` is the mirror
image for a backward copy of single bytes (`SuffixDone`: the byte to be read
lies below all that was written); with wider words it is false, as
`string_overlap` shows.  `ComparisonsAreExact`: nothing is written and all
bytes so far are equal (`CompareInv`); `FirstDifference` finds the first
differing byte of a word that differs.

`EndBootPhase_proofs` holds for all page map sizes (three arbitrary functions of
the number of descriptors), page and buffer sizes and any number of firmware
events and failures (`SizesAssumption`: sizes are positive).  Proved are
`TypeCorrect`, `LastMapIsKept`, `PartsFit`, `NoLeak` and `NothingFailsAfterExit`.
What `PartsFit` and `NoLeak` say of the page map buffer holds unless an
allocation of pages has failed (see `MCEndBoot4G.cfg` in section 3).  The
properties speak of the end of the boot services only.  `BootInv` says for every
step before it which buffers the firmware has given out and how large they are
(`PagesInv`, `PoolInv`), that the copy is the firmware's map for as long as its
key is good (`KeyInv`: an event that changes the map also spoils the key) and
that what the exit is tried with was laid out for the map just read
(`LayoutInv`).  That the parts do not overlap rests on `AlignUpBounds`.

`PS2ControllerDriver_proofs` holds for all configuration bytes the controller may
start from or reset itself to, all bytes of devices and any number of them:
`AnswersCorrect` and `InitialisationCorrect`.  Both are, as the properties say, about
devices that do not send while an answer is awaited.  The
invariant follows a question from the input buffer to the answer in the output
buffer (`Asked`) and says of each step what the configuration byte will be once
the controller has worked off its input (`Due`), since the driver goes on
before the controller has; a port that does not exist keeps its bits in its own
way (`Wired`).

`Interrupts_proofs` holds for any lines with devices, any exceptions, any number
of requests and so any depth of nesting: `HandlersRunToTheirEnd`,
`EoisHitTheirOwn`, `RoutinesReturn` and `PanicsAreFinal`.  None of them is inductive,
nor is their conjunction: whether a handler can be interrupted after an
exception on top of it depends on the flag which that exception's frame holds,
and whether `iretq` takes the right frame depends on all that was pushed.
`StackInv` therefore says that there are positions which cut the stack into one
segment for each activation, with its frame, error code and registers in it, and
that no frame above a masked activation (a handler of a line, a panic, the
thread before it enables interrupts) has the interrupt flag set.  `SetupInv` and
`ServiceInv` follow the programming of the PICs and the two EOIs of the slave's
lines.

`CpuGraphicsDriver_proofs` holds for all sizes of the screen and its rows, all
calls and all orders of the thread's steps and the handler's calls:
`DrawingIsExact` and `NoDrawingIsForgotten`.  Assumed are a screen that is not
empty, in rows at least as long as it is wide (`ScreenAssumption`), and calls as
the shell and the font make them (`CallsAssumption`: regions of one size, image
parts inside the image).  The first half of the module is geometry: two
positions never share an address (`AddressInjective`), clipping loses no
position on the screen and adds none (`ClipInterval`, `RegionClipped`,
`BlitClipped`), a marked region lies in the rows that are swapped
(`MarkedIsInRows`).  `GraphicsInv` then says for each step of a call where the
screen may be behind the back buffer: in the region marked before, in the part
now being drawn, or in the rows not yet swapped.

`InitialPageMapSetup_proofs` holds for maps of either depth and the transitional one, all
firmware maps, page sizes and numbers of entries in a table; assumed is that
descriptors begin on a page and are not empty (`RequestsAssumption`).  `CountIsExact` needs one more fact, which it
states: the ranges to be mapped lie apart (`Apart`).  The descriptors of a map
do; a framebuffer may not, see `MCPageMapOverlap.cfg`.  The counting pass goes by address and the making pass
by position in the map, so the two are compared through the set of tables both
must end up with: the tables touched by the ranges passed so far.  The counting
pass knows only the last table of each level, and that it needs no more is the
point of the proof: of the ranges still to come the lowest is taken next (a
least element of a finite set), so a table met before is the last one counted.
`EverythingIsMapped` needs no such assumption.

`PhysicalMemoryBoot_proofs` is about `efi_main` from the firmware's map to the lists,
for all maps of descriptors that are not empty and do not overlap, in any order
and of any number, and all sizes of pages and structures (`EfiMapsAssumption`,
`SizesAssumption`).
* `MapIsRight` (`GenInv`): the range being combined is a run of regions of one
  kind (`IsRun`), what has been written is everything below it, and the entries
  carry the kind of the regions they were made from.  `NextIsRun` and
  `RunIsWhole` show that a range is submitted only when it cannot grow.
* `BuffersNeverMeet` (`PlaceInv`): the map's own region was sized for a count of
  regions made before its own entries existed.  `GenInv` therefore bounds the entries that are
  written by the runs of regions passed, plus the one its own memory may add
  (`AtMost`); the buffer of the structures starts a free entry, and the map's own
  entry is not free.
* `CountsAgree` (`BootInv`): the sizes counted are a sum over the levels of all
  trees, and the creating pass goes over them again with other loops (first
  all levels of a range upwards, then their blocks downwards).  Rather than a
  sum, the invariant keeps the set of all states the counting loop went through
  (`TracedBy`) as a witness: the state of the creating loop always corresponds to a member
  of it, hence never exceeds the last one, and agrees with it at the end.  For
  the blocks of one range, which are handed out from the root down although they were
  counted upwards, `Chain` gives what the levels up to each one took.  The list of ranges is
  followed in the same way (`AllListed`).  That the list has no memory which
  the initial map lacks rests on every entry beginning on a page (`OnPages`).
* `OfferedMemoryIsFree` (`OfferInv`): two more conjuncts follow the trees while
  they are filled.  `CoverInv`: every entry of the initial map that was passed
  and is kept track of lies within one tree.  `MarksInv`: of the blocks of one
  page, exactly those show as unavailable that an entry in use reaches into,
  among the entries gone through so far, and then also those of the buffer
  itself; what is written into the levels above leaves them alone.  The
  hypothesis that the buffer does not lie at address 0 is needed, since the
  list then reads as empty: `MCMemoryAtZero.cfg` shows that case.
* `SummariesAreSound` (`FillInv`): `SummaryInv` adds that every block of the
  levels an entry has been carried up to tells the truth of its pages (`Tells`):
  0 exactly if it has none available, 128 exactly if all are, and of the larger
  blocks a value that is off by at most one 128th for each level above 128 pages.
  `SummaryTells` is the step from two blocks to the one above: exact up to
  128 pages, where the two values are even, and off by at most one more 128th
  beyond.  `LevelsLie` gives where a level starts relative to the one below it
  (from `Chain`), `StateTells` that blocks missing from the level below have no
  pages, and `PagesOfHalves` adds up the pages of both halves.

Integers in the proofs are unbounded, as in the model: sums that leave 32 or 64
bits are outside of what they say.

Only model-checked: all liveness (out of the prover's reach); the refinement of
`Terminal` and the invariants of `Shell` (their operators are defined by
recursion over sequences); `LineIsWhatWasTyped`, which builds on them.

## 5. What is not modelled

CPU tables, features and page map switching assembly are straight-line register
writes: a model would repeat the bit patterns.  Of `efi_main` the steps about
memory, the PICs, interrupts and the prompt are modelled, the calls that set up
those tables in between are not.  The system call handler is a stub.  Font data
and the font generator have no state, tests and gnu-efi are not the kernel's
own code.  Of the error display, the drawing operations are those of the
graphics driver and the message is one step of a panic; its wording is left
out.  Of the scan code tables and the layout, the rows that differ in names only
are left out.  Page table flag bits and attributes' encodings are left out of
the page map; in the memory map they are a set of names.

## 6. Plan

In this order, all but the last done:

1. keyboard driver, its keyboard, its proofs;
2. shell and its abstract specification;
3. string functions and their proof;
4. physical memory, from firmware map to tree;
5. end of the boot phase and page map;
6. PS/2 controller initialisation: ports that fail, stale bytes, the waits;
7. PICs, IDT gates and handlers: in-service bits and EOIs, spurious IRQ 7 and 15;
8. graphics driver: region to swap, clipping, swapping while a handler draws;
9. composition of keyboard, layout and shell: what is typed is what is shown;
10. proofs: done are those of the keyboard driver, the string functions, the end
    of the boot phase, the page map, physical memory, the controller, the
    interrupts, the graphics driver and the keyboard system; left are those that
    need induction over sequences (shell and console).
