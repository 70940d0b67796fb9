# Verification of the tux-os kernel

tux-os (BuffTux) is a small 32-bit x86 kernel: one CPU, up to ten processes
arranged in three terminals, ten system calls, a read-only file system, a
keyboard, a real-time clock and a text screen. Its source is under
`src/tux_os/student-distrib`; paths below are relative to that directory.

The programs that run on it are under `src/tux_os/syscalls` and
`src/tux_os/fish`.

This project models the kernel and these programs, checks the models with TLC on
small instances, and proves the invariants that matter most with TLAPS for all
instances.

- [The system](#the-system): parts, state, operations, interactions, hazards
- [Plan](#plan)
- [Modules](#modules): what is modelled and how it corresponds to the code
- [Runs](#runs): what each run checks, bounds, fairness
- [What the runs found](#what-the-runs-found)
- [Proofs](#proofs)
- [Limits](#limits): what is only model-checked, and what is not modelled

## The system

| component | code | state | operations |
|---|---|---|---|
| processes | `system_call.c`, `id_table.c`, `system_call_linkage.S` | `process_total`, `current_pid`, a PCB per process (parent, saved esp/ebp, exception flag, descriptors, arguments), `tss.esp0`, the page at 128 MB, one 8 KB kernel stack each | `execute`, `halt`, the exception handlers |
| terminals | `terminal.c`, `keyboard.c` | `terminal_active_id`, `terminal_process[3]`, `terminal_flags[3]`, `pit_count`, saved screens | `terminal_switch` (Alt+F1..F3), Ctrl+C |
| line buffers | `keyboard.c`, `terminal.c` | `terminal_line_buffer[3][128]`, `line_buffer_location[3]`, `kbd_buf`, `curr_i`, modifier flags | `keyboard_handler` with `backspace_case` and `tab_case`, `terminal_read` |
| descriptors | `system_call.c` | `fd_array[8]` in each PCB, `temp_args`, the vidmap page | `read`, `write`, `open`, `close`, `getargs`, `vidmap` |
| file system | `file_system.c` | none that changes (an image loaded by the boot loader) | `read_dentry_by_name`, `read_dentry_by_index`, `read_data`, `file_read`, `dir_read` |
| real-time clock | `rtc.c` | `virtual_freq[6]`, `rtc_read_flag`, the device rate | `rtc_irq_handler`, `rtc_open`, `rtc_close`, `rtc_virtual_read`, `rtc_virtual_write` |
| screen | `lib.c`, `terminal.c` | `screen_x`, `screen_y`, video memory and the saved screens behind it, the cursor's registers | `putc`, `delete_c`, `terminal_scroll_up`, `clear`, `terminal_update_location`, `terminal_write` |
| kernel library | `lib.c` | none | `memset`, `memcpy`, `memmove`, string functions, `itoa`, `printf` |
| interrupt controller | `i8259.c` | two masks, and the controllers' request and in-service bits | `i8259_init`, `enable_irq`, `disable_irq`, `send_eoi` |
| paging, tables, boot | `paging.c`, `x86_desc.*`, `boot.S`, `kernel.c` | page directory and tables, IDT | `entry`, once, its second half with interrupts enabled |
| user programs | `syscalls/`, `fish/` | the program's own variables | the shell, `cat`, `grep`, `ls`, `hello`, `counter`, `testprint`, `sigtest`, `syserr`, `pingpong`, `fish` |
| PIT and scheduler | `pit.c`, `scheduler` in `system_call.c` | | dead: `kernel_main` does not call `pit_init`, nothing calls `scheduler` |

How they interact:

- Programs enter the kernel through vector 0x80 (`system_call_linkage`). That
  gate is a trap gate, so **system calls run with interrupts enabled** and the
  keyboard and RTC handlers may run between any two of their instructions. The
  handlers themselves sit behind interrupt gates.
- `execute` and `halt` are not ordinary functions. `execute` saves its own
  esp/ebp in the new process's PCB and leaves with `iret`; its activation stays
  on the parent's kernel stack until `halt` loads that esp/ebp and returns *from
  execute* on the parent's behalf. Entering the kernel from user mode starts at
  the top of the stack named by `tss.esp0`.
- `keyboard_handler` calls `halt(1)` on Ctrl+C and `terminal_switch` on
  Alt+F1..F3, from whatever was interrupted. `terminal_switch` starts a shell in
  a terminal that never had one (with interrupts on again), and otherwise loads
  the esp/ebp saved for the target terminal's process.
- `keyboard_handler` and `terminal_read` share the line buffers without a lock;
  `terminal_read` spins on them. A program's `write` and the echo of keys share
  `putc`, the position and the cursor in the same way.
- `rtc_init` ends with `sti`, so the clock and the keyboard interrupt the rest of
  the start, `set_rate`'s two-step accesses to the clock's registers included.
- `read`, `write`, `open`, `close`, the RTC and the exception handlers find the
  calling process with `helper_pass_pid()`, that is by the *number* of
  processes; `halt` and `terminal_switch` use `current_pid`.

What each component must get right:

- *processes*: programs are called and return like functions, whatever mix of
  calls, exceptions, Ctrl+C and refused calls there is; the globals that say who
  runs agree; the count stays within the limit; the kernel always gets back to
  a program.
- *terminals*: every terminal once entered has a process; reads concern the
  terminal on the screen; a switch resumes the process it maps.
- *line buffers*: a read returns exactly the line that was typed, once, and only
  after Enter; no index leaves its array; Enter always ends the line.
- *descriptors, RTC*: a descriptor belongs to the process that opened it; one
  process's frequency does not change another's; a read waits for as many ticks
  as its frequency says.
- *file system*: `read_data` returns the bytes of the file in the range, however
  range, blocks and end of file fall; lookup by name finds exactly the file.
- *screen*: text goes where a terminal with wrapping and scrolling puts it, on
  the terminal it belongs to; the position returns to the screen; what a
  backspace removes is what was typed.
- *interrupts and devices*: a handler finds its gate and its pages, releases its
  line, and the clock goes on; a key means what the modifiers held say.
- *programs, library*: they print and compute what they are for, however files
  lie in blocks, reads in buffers, and memory at alignments.

`PROJECT.json` lists the hazards at the lines where they bite and the properties
aimed at each.

## Plan

1. **Processes and terminals** (`ProcessControl`), with what they promise on one
   terminal (`ProgramStack`), proofs of type correctness, of the agreement of the
   globals, and of the refinement. *Done.*
2. **Line buffers** (`LineBuffer`), with the line discipline they implement
   (`LineDiscipline`), proofs that indices stay in bounds, that reads need
   Enter, and of the refinement. *Done.*
3. **File system** (`FileSystem`): `open`, `close`, `file_read` and `dir_read` as
   one program sees them, with the plain definition "the bytes of the file in
   order" as the reference for `read_data`; proofs that this is what every
   sequence of reads delivers. *Done.*
4. **Descriptors and RTC** (`Descriptors`): the PCBs' `fd_array` under `open`,
   `close`, `execute` and `halt`, with `virtual_freq` indexed by `process_total`
   and the read loop of the RTC, against a stack of per-program tables
   (`FileTables`); proofs of the refinement and of the three safety properties.
   *Done for one terminal.*
5. **Screen** (`Console`): `putc` step by step against the echo of keys,
   the terminals' screens (`TextScreens`); proofs that the position returns, that
   saved screens are kept, and of the refinement. *Done.*
6. **Devices** (`Interrupts`): boot, controllers, gates, the clock's registers,
   scan codes; proofs that handlers are served, of what spoils the rate, and that
   keys mean what is held. *Done.*
7. **Commands, library and programs** (`Commands`, `Library`, `UserPrograms`,
   `ProgramPromises`): from a typed line to what the program prints. *Done, but
   for the clock loops of `fish` and `pingpong`.*
   Proofs that the library does what its comments say, that a typed line runs
   what it names, and that every program prints what it is for. *Done.*
8. Left: descriptors with several terminals, where the PCB in use is not the
   running program's; the clock loops of `fish` and `pingpong`.

## Modules

### ProcessControl

One CPU. `frame` is the activation that runs: its program counter `pc`, the pid
whose registers (in user mode) or PCB (in `execute` and `halt`) it works with,
the interrupt flag, and why `halt` was called. `stack[p]` is the kernel stack of
process `p` as the sequence of suspended activations on it, oldest first, and
`sp` names the stack in use. The boot stack is process 0's, as in the code (both
start at 8 MB).

The assembly becomes four operators:

- `Enter(handler)`: int 0x80, an exception or an interrupt. From user mode the
  stack named by `esp0` starts over with the interrupted user frame; from the
  kernel the frame is pushed on the current stack.
- `Call`, `Return`: a C call and its `ret`/`iret`.
- `Context(stk)`: esp/ebp as `execute` and `terminal_switch` save them, which is
  the stack and everything on it.
- `LoadContext(ctx, stk)`: loading a saved pair and returning. It works if what
  was saved is still there; if the stack has been reused in between, the return
  address is whatever lies there now: either control is lost (`"wild"`), or, in
  the one layout the committed image has for the boot frame (`BootFrameReused`),
  the return comes out of an interrupt of process 0.

`execute` is cut into `ExecCheck`, `ExecInc`, `ExecMap`, `ExecPcb`,
`ExecCurrent`, `ExecSave`, `ExecFlag`, `ExecEnter`, and `halt` into `HaltBegin` ...
`HaltReturn`, at the writes of what an interrupt handler's code reads: the
globals, and in the PCB esp/ebp (saved together, one after the other) and the
exception flag. Handlers behind interrupt gates
could not be interrupted, but `terminal_switch` calls `sti` before it starts a
shell, and so does `halt`; the interrupt flag is part of the activation. A call
of `execute` that finds no executable of that name, the refusal at the limit,
PCB addresses outside the mapped memory (pid -1) and the return from a refused
call of the kernel's own are all there. When `halt` returns, its value reaches a
program that called it and is dropped by the keyboard handler, whose `popal` and
`iret` restore the interrupted `eax`.

`Exception` is one of the program's. An exception of kernel code that works for
the program marks the same PCB and ends in the same `halt`, which drops the frames
in between, so it has no action of its own; the PCBs of pids beyond the limit do
not exist in the model, and the kernel that would use one is `"wild"`.

### ProgramStack

What `execute` and `halt` promise on one terminal, without any stack: a depth, a
flag whether a program or the kernel runs, and the last answer. `ProcessControl`
implements it (`ImplementsProgramStack`) with the depth read off the activation
at the bottom of the running kernel stack.

### LineBuffer

`keyboard_handler` runs behind an interrupt gate: one action per key.
`terminal_read` is one action per memory access, so that a key may fall between
any two: `WaitIndex` loads the location, `WaitByte` the byte before it, `Copy`
one byte, `ResetLocation`, and `ClearSlot` one slot. Characters are a printable
character, a newline, and the 0 byte that unmapped scan codes have in `kbd`.
`Byte(t, -1)` is what the C array has there: the last byte of the terminal
before. Before terminal 0's line the array ends, and what lies there is up to the
linker: in the committed `bootimg` `line_buffer_location` stands 20 bytes before
the lines, so that the byte is padding and 0, which is what `Byte(0, -1)` is.
`entered` is a history variable: whether Enter was pressed since the last reset,
and if so whether it was the `"last"` key of the line or came `"before"` another.

`curr_i` and `kbd_buf` are copies of the location and the line which the handler
reloads or rewrites whenever it uses them, so they are not variables.

### LineDiscipline

What a terminal promises: keys edit a line, a read takes a line that ends in a
newline, whole or as far as it `asked`, in one step. `ReadNothing` states exactly
how the code departs from that: on any terminal but the first, a read of an empty
line may end with nothing, since the byte before its array belongs to another
line. `SwitchTerminal` gives up the read of the terminal that is left, as far as
this component says (`ProcessControl` says where that read goes on). `LineBuffer`
implements this (`ImplementsDiscipline`) if no key falls between the check that
sees the newline and the end of the clearing.

### FileSystem

One program with the descriptors 2 to `LastFd` on an image that never changes;
one action per call. A byte of the image is named by the block and the offset it
is stored at, so a read that copies from a wrong place is seen. `ReadData` is the
loop of `read_data` over the blocks from the first to the last index as the code
computes them (`CopyBlock` is one iteration, and the loop a recursive function of
the block's index, so that it can be proved about), `LengthCopied` the length it
is cut to. `Matches` is `strncmp` over the longer of the two lengths, at most 32.
Names are C strings (`CStrings`): sequences without a 0, those of the image of 1
to `NameLen` bytes; what lies behind a string that fills its entry is read as
the comparison does.
Sizes are int32, as programs pass them. `read_data` takes a uint32, so a negative
size is a number of nearly 2^32 (`Unsigned`), and `offset + length` may wrap
(`Wraps`): the loop over blocks then ends before it begins and the position moves
back by the size (`ReadBack`), or, within one block, copies nearly 4 GB and faults,
which ends the program (`ReadFaults`). A negative size that does not wrap reads the
rest of the file. `HighBit` is 2^31.
`got` is a history variable: what was read through a descriptor since its open, less
what a negative size took back.
Refused calls (no such name, an empty or long name, no free descriptor, a
descriptor that is not open, no buffer) return -1 and change nothing.

### Descriptors

Programs that start one another on one terminal: `process_total`, the table of
each PCB (what lies behind a descriptor: a file or directory, the clock, or
nothing), `virtual_freq`, and the state of a read of the clock. `execute` and
`halt` are one step each, since `ProcessControl` looks into them; `Halt` keeps
the order that matters here, closing after the count went down. A call that is
refused (no free descriptor, descriptor not open, a write that is no power of
two, the limit) changes nothing and has no action. `rtc_virtual_read` is cut at
its accesses to the flag: `Read` computes the counter, `RtcReadClear` clears the
flag, `RtcReadSeen` leaves the inner loop, and `Tick`, the interrupt, may fall
between any two. A rate of 0 passes the test for a power of two; the read then
divides by 0 and the exception ends the program. `OneBit` stands for -2^31, the
one negative number that passes it too, at which a read does not wait.

`virtual_freq` has 6 entries although `execute` allows 10 programs
(`rtc.c:36`, `system_call.c:257`): the sixth program to open the clock writes
past the array. The module describes the kernel with fewer programs than entries
(`MaxPrograms < Frequencies` in `DescriptorsAssumption`).

### FileTables

What the kernel promises about descriptors: a stack of tables, of which only the
last changes, and a new one starts empty. `Descriptors` implements it
(`ImplementsFileTables`) with the tables of the PCBs 0 to `process_total - 1`.

### Console

A program's `write` is `w`: the characters it has left, and where in the `putc` of
the first it is. The kernel is built without optimisation, so each C statement that
changes `screen_x` or `screen_y` is a load and a store, and each is an action
(`LoadX`, `StoreX`, `Wrap`, ... `CursorHi`); the cursor's two bytes go through an
index and a data port, with a step for each. Merged are the loads of one expression
and the store they go into: the address of a cell and the character stored there
(`PutCell`), the two comparisons and the sum of `terminal_update_location`
(`Compare`, `CursorPosition`), and a cell copied up in a scroll (`ScrollCell`).
`keyboard_handler` runs behind an interrupt gate, so its calls of the same
functions are operators on the whole screen (`Putc`, `DeleteC`, `Located`,
`Scrolled`) and each key is one step. `memory` is the video memory with the saved
screens right behind it, which is where a position below the last row writes.
Ctrl+C abandons a write; Alt+F leaves it behind, and which of the writes left
behind goes on after a switch back is any (`ProcessControl` says which). `plain` is
a history variable: the line of a terminal was typed in one go, without a key that
stores a byte and shows nothing, a tab into a line with fewer than four bytes of
room, Ctrl+L, or a key on a position off the screen, and nothing was shown below
the last row since its terminal was left (`StillPlain`).

### TextScreens

What the screen promises: terminals that each show rows of text with a position,
operations that are single steps, a cursor at the position of the terminal in
front. `Console` implements it (`ImplementsTextScreens`) as long as no key falls
into a `putc` and none has left the position off the screen; the screen during a
`putc` is the one before it. `TerminalTexts` reads the text of every terminal off
the memory: that of the terminal in front off the screen, that of the others off
their saved pages.

### Interrupts

`boot` is where `entry` is, from loading the IDT to its `sti`; `rtc_init`'s and
`set_rate`'s accesses to the clock are a step each once interrupts are enabled
(`select_C`, `read_C`, `select_A`, ...). `handlers` are the handlers on the stack:
the clock's ends with `sti` inside, so the next interrupt can nest before its
`iret`. The devices are external: the two 8259A with request, mask and in-service
bits in fully nested mode (`Delivered`, `InService`), the clock with the flag of
register C, which must be read before the line rises again (`Tick`), and the
keyboard, which queues the codes of presses and releases with the keys held when
each was made. Keys with a prefix send it for their release too (`Made`);
`Modifiers` and `Released` are the codes that set and clear a flag.
`KeyboardHandler` is the `switch` on the code, the flags, and which case the code
then takes (`Does`); the line and the screen it changes are in `LineBuffer` and
`Console`, and in `ProcessControl` what Ctrl+C and Alt+F go on to do: the
condition that spares a lone shell (`keyboard.c:396`), and the calls of `execute`
with interrupts enabled inside the handler (`terminal.c:369`,
`system_call.c:183`), so that here the handler always goes on to its `iret`.
`MapTerminals` takes `terminal_open`, the pages of the saved screens and `entry`'s
own `sti` in one step, although interrupts are enabled already: no handler of this
module looks at these pages. `hit` is a history variable: which steps of `set_rate`
a clock interrupt came before.

### Library

`lib.c` without the screen, as operators: memory is a function from addresses to
bytes, `Units` the sequence of accesses of `memset` and `memcpy` (bytes up to a
boundary, dwords, bytes), `Memmove` the copy from the lower or the upper end,
`Printf` a fold over the format. Every loop is a fold over the numbers of its
iterations, so that it can be proved about; `Modulus` is 2^32 there.

### Commands

What `execute`, `halt`, `getargs`, `vidmap` and the signal calls do besides
switching processes: `ParseArgs` and `ParseArgumentsOfProgram` take the line
apart, `CheckFileValidity` compares the first four bytes, which for a shorter file
are whatever the kernel stack held (`Magic`), `UserLevelProgramLoader` copies the
first `LoadSize` bytes. It extends `FileSystem`, whose `ReadData` the loader uses.

### UserPrograms and ProgramPromises

`UserPrograms` has the shell and the programs as clients of `Commands` and
`FileSystem`, with a step for each system call and each line of the loops that
matter (`GrepLine`, `Paired`). `local` holds the program's variables, `out` what it printed,
`ended` what is known of the one that ended last. Messages are single numbers.
Three more kinds of behaviour share the run: an arbitrary client that makes any
call of `FileSystem` at any time (`AnyClient`), the shell with typed lines, and
single calls of the library (`LibraryCall`). `ProgramPromises` says what the
programs are for, without buffers and pieces: `cat` prints the file, `grep` the
lines that contain the word, `fish` a character for each place where one of its
pictures has something. A program whose `open` fails says so and ends, also `ls`
and `grep` on an image without a directory. Three promises have a condition that
the code does not check. `grep` takes a 0 in a file for the end of a line, a line
longer than its buffer for two, and reads a byte behind the buffer when that is
full, so `BufferServes` asks for texts without zeros, lines that fit, and, if that
byte happens to be a newline, files that fit. The tests of `syserr` try names of no
file and a directory that must be there (`SyserrCan`). `fish` is promised for the
two pictures it opens, when both are there (status 0).

What the library is called with is what its functions are made for (`ValidTask`):
memory that holds all addresses used, strings with an end, formats with one
conversion, numbers of 32 bits. Lines are strings as their readers see them: an
unmapped key stores a 0, where the string ends, so a line has neither 0 nor
newline in it (`Typed`), and no two entries of an image have one name
(`Distinct`). An image is flat: its only directory is `.`, and no other name begins
with a dot, which is how `grep` tells them (`FlatImage`); every byte that an inode
names is stored (`OnDisk`). `UserProgramsAssumption` asks for descriptors beyond
the first three, fewer than the number that stands for all larger ones (`Big`),
and for the three numbers that `counter` accepts (`TestMax`).

### Proof and MC modules

`ProcessControlProofs`, `LineBufferProofs`, `DescriptorsProofs`,
`InterruptsProofs`, `ConsoleProofs`, `LibraryProofs` (of the file system and the
library), `ProgramProofs` and `PrintingProofs` hold the theorems;
`MCProcessControl`, `MCLineBuffer`, `MCDescriptors`, `MCConsole`, `MCInterrupts`
and `MCUserPrograms` name the small sets the configurations use.

## Runs

`ProcessControl`. `FKeys` is the set of terminals whose key is pressed, so
`OneTerminal` means the terminal in front never changes. `MaxMidKernel` bounds
the keys that arrive inside `execute`, `halt` or a terminal's first start; keys
that find a program or a spinning `terminal_read` are unbounded.

| run | instance | shows |
|---|---|---|
| `SingleTerminal` | limit 10 as in the code, one terminal, Ctrl+C | `execute`/`halt` implement `ProgramStack`; the ancestors of a process wait in their calls; count, pid and registers agree; results reach the right program; every kernel entry ends (liveness) |
| `CtrlCAnywhere` | limit 4, one terminal, one Ctrl+C anywhere in the kernel | the globals agree even then, whenever a program runs (of a CPU that is lost it says nothing, see below) |
| `ThreeTerminals` | limit 3, all F keys, Ctrl+C | the globals agree, terminals keep a shell, reads follow the screen |
| `SwitchBack` | limit 4, three terminals, no Ctrl+C | violated, see below |
| `LimitRace` | limit 3, two terminals, no Ctrl+C, one Alt+F anywhere in `execute` | violated, see below |

`LineBuffer`. `BufSize` 6 leaves room for a tab of 4, for a line filled to the
limit by typing or tab, and for the second Enter slot; 128 differs only in how
long it takes to get there, and the bounds are proved for every size.

| run | instance | shows |
|---|---|---|
| `LineEditing` | two terminals, 5 keys, all of them anywhere in the read | types, bounds, that a read on terminal 0 needs Enter, and that a complete line is delivered unless a later key takes its end away (liveness); for the behaviours in which no key fell past a read's last check (`midRead` is 0), refinement of `LineDiscipline` and that Enter ends every line, a full one included (a tab and a key fill the line to its limit) |
| `ForeignNewline`, `LostEnter` | | violated, see below |

`Descriptors`.

| run | instance | shows |
|---|---|---|
| `ProgramTables` | three programs deep, two descriptors each, maximal rate 2, five numbers written, unbounded opens, closes, ticks and ends | tables stay apart (refinement of `FileTables`); the rate of a waiting program changes for one reason only; a read takes the interrupts its rate asks for, and ends (liveness) |

`FileSystem`, `Commands`, `UserPrograms` and `Library`, with blocks of 3 bytes,
names of at most 2, buffers of 3, and 6 bytes of a program loaded.

| run | instance | shows |
|---|---|---|
| `FileReads` | an arbitrary client with two descriptors on 27 images with one or two files of 0 to 7 bytes (and the images of the next row), sizes of 0, 1, 2, 4, 8, -1, -3 and -8 in integers of 6 bits, names that are prefixes of others, fill their entry, or are too long | what was read up to a position is the file up to it, in pieces of any sizes, and again after a negative size moved the position back; a short read means the end; a listing is complete and can start again; a name opens its file and no other |
| | two lines each for the shell: spaces before, between and after words, words that fill a name and more, a text file, the directory, a program that is too long; all texts of 2 and 5 characters for `grep`, pictures of up to 4 for `fish`, every choice for `counter` and `syserr`, 170 frames of `pingpong`, which are a letter and a bit | a line starts what it names with its arguments; the programs print what they are for |
| | `memset`, `memcpy`, `memmove` at all alignments, lengths to 11, all overlaps; strings of up to 3; `printf` of every conversion for all 9-bit numbers, which stand for 32 bits | the library does what its comments say, and touches no other byte |

`Console`, a screen of two rows of two cells with one spare cell in its page.

| run | instance | shows |
|---|---|---|
| `Screens` | two terminals, three texts (newline first, wrap and scroll, a 0 byte), one write besides the welcome of the second terminal, 3 keys of seven kinds, one of them between any two steps of a `putc` | refinement of `TextScreens`; the position returns; the saved screens are kept; what is typed stands before the cursor |

`Interrupts`.

| run | instance | shows |
|---|---|---|
| `Devices` | the whole start, clock interrupts at any time, two handlers deep, 3 presses or releases of two Shift keys, the right Ctrl (whose code has a prefix), Caps Lock, a digit and L | handlers are served; the rate, unless the clock spoiled an access; keys mean what is held; the clock goes on (liveness) |

Why the bounds are enough: in `SingleTerminal` the limit is the code's own and
key presses are unbounded, so it is the whole one-terminal system at the
granularity of the model. In `CtrlCAnywhere` a limit of 4 leaves a shell, two
ancestors and a child; the code has no case that distinguishes more. In
`ThreeTerminals` each of the three terminals has its shell and the limit is then
reached, so refused starts, replaced shells and switches between all pairs
occur; that instance says less about deep stacks on several terminals.
`GlobalsAgree`, `TerminalsKeepAShell` and `ReadsActiveTerminal` are proved for every
limit and number of terminals.

What one terminal leaves out: that `TotalIsPidPlusOne` and `ExceptionReported` fail
once a second terminal has processes, and the refusal of the shell that `halt`
starts, which `KernelReturns` never meets since the last shell of the only terminal
does not end at the limit.

In `LineEditing` five keys reach every slot of a line of 6 by way of the tab. In
`Screens` four cells are wrapped and scrolled by one text and one key; bytes of the
cursor position have two values, so that the position of four cells needs both.
A second key inside a `putc` repeats the damage of the first, and the bound on the
position is proved for any number. In `Devices` three key events are a modifier,
a key and a release, in every order; handlers nest once, since only the clock's
can be interrupted, and any depth is covered by the proof.

In `ProgramTables` three programs are a running one, its parent and one that
neither end touches; a maximal rate of 2 makes reads of two interrupts, of one
and of none. In `FileReads` three bytes to a block and up to seven to a file put
the start and the end of a range inside, at and on both sides of a block
boundary and of the end of the file, in one, two or three blocks; more blocks
repeat the middle iteration. The negative sizes are one byte, a block and more than
a file, so that they wrap within a block, into an earlier one, and not at all.

Deadlock checking is off where the system may stop: a CPU that has gone
`"wild"`, a halted read that nobody answers when the keys of an instance are
used up, a program that has ended when no line is left, a screen with no key or
write left.

Fairness. `WF_vars(KernelStep)`: the CPU keeps executing kernel code that is not
waiting for anything. `WF_vars(ReadStep)`: the CPU runs `terminal_read` whenever
no interrupt handler runs, and handlers return. `WF_vars(RtcReadStep)` is the
same for the loop of the clock's read, and `WF_vars(Tick)` says that the clock
goes on interrupting: the handler reads register C and sends the end of
interrupt each time, which is what the device waits for (`TicksKeepComing` of
`Devices` shows that they do keep it going). In `Interrupts`, `WF_vars(Kernel)` is
the CPU, which goes on in a handler or the start; `WF_vars(Tick)` and
`WF_vars(Present)` are the devices; `WF_vars(Interrupt(irq))` is the CPU taking an
interrupt that the controllers keep delivering. Nothing is assumed about
programs or about the person at the keyboard.

## What the runs found

Each of these four is a counterexample to a sentence in the repository.

- `SwitchBack`: `terminal.c:383` "current_pid is the one next scheduled",
  `terminal.c:395` "context switch". The esp/ebp loaded are those `execute`
  saved for the process, and lead back to the caller of that `execute`: the
  registers of one process return to user mode in the page of another. With two
  terminals a switch back can also find its stack reused, so `NeverWild` holds on
  one terminal only.
- `ForeignNewline`: `terminal.c:104` "block until enter pressed by user". The
  byte before an empty line is the last byte of the previous terminal's line,
  which a full line leaves a newline in.
- `LostEnter`: same sentence. An Enter that arrives while `terminal_read` clears
  the buffer is erased behind the location: no read has taken it and no later key
  has touched the line, and still the next read does not end. (That a Backspace
  takes an Enter away, or that a further key hides it, is not what `EnterUnblocks` is
  about: it asks for an Enter that was the last key.)
- `LimitRace`: `system_call.c:256` "We only allow 6 programs to be running",
  `system_call.c:259` "maximum programs allowed". An Alt+F between the test
  (257) and the increment (267) leaves that `execute` suspended; a program on the other
  terminal takes the last slot, and Alt+F back resumes the increment. From then on
  `==` refuses nothing.

Others follow from the models without a run of their own.

- `execute` writes `current_pid` (`system_call.c:291`) before it saves esp and ebp
  (298, 300). A Ctrl+C in between (`keyboard.c:398` "Ctrl+c to halt process") halts
  the new process through what its PCB held before: nothing, or the stack of a
  process that had the PCB earlier. In the instance of `CtrlCAnywhere` TLC finds
  `NeverWild` violated by it after 20 steps.
- `rtc.c:273` "sets the frequency rate of the rtc for that specific process". `halt`
  counts the program out before it closes its descriptors, so `rtc_close` finds
  the entry of the program below and sets it to 2: any program that ends with the
  clock open does this to the one that started it. `RateKept` says that nothing
  else does.
- `system_call.c:47` says that `helper_pass_pid` is "always (cur_pid + 1)". That is
  true on one terminal (`TotalIsPidPlusOne` in `SingleTerminal`) and false once two
  terminals have processes: back in the first, the count (`system_call.c:52`)
  belongs to the process started last.
- `execute` compares with 10 below a comment that says 6 (`system_call.c:256`), and
  the check for "a printable key" (`keyboard.c:378`) is a range of scan codes that
  lets Caps Lock and the function keys store a 0 byte, which `TypeKey` does.
- A clock interrupt between the select and the read of register A in `set_rate`
  (`rtc.c:105`, after the `sti` of `rtc_init`) makes it write the bits of register C back
  as the divider's, which stops the oscillator; between the select and the
  write, the rate is lost. `RateIsSet` says exactly when. The window is a few
  instructions.
- In the same window keys are handled before the saved screens are mapped
  (`kernel.c:176`): an Alt+F2 there would fault.
- Ctrl+C or Alt+F in the middle of a `putc` leaves the position up to a column and
  a row off the screen and the cursor behind; echo between the increment of
  `screen_y` and the scroll is written below the screen, and there may reach the saved
  screen of terminal 0. `BackOnScreen` and `SavedScreensKept` are stated with these
  cases.
- What is shown below the screen after such a cut can also land in a line typed on
  terminal 0 and saved there, which a backspace then edits although the screen
  shows something else. The attempt to prove `TypedBeforeCursor` found this case,
  which the bounds of `Screens` are too small for (TLC needs four keys and three
  writes); `plain` now says of the line that it is no longer typed in one go.
- One putc that a key falls into leaves the column one too far, and the next one
  may move it on. `SavedScreensKept` is therefore proved for screens with a spare
  cell behind the rows for each of them. A page has 48 (4096 bytes for 80 by 25 cells
  of two bytes), so up to 48 such keys leave the saved screens alone.
- With two Shift keys down the release of either clears the flag (`overlap` in
  `KeysMeanWhatIsHeld`).
- `read` takes any int32 and `file_read` passes it on as a uint32
  (`file_system.c:265-277`, 106, 109): a size of -8192 at offset 8192 of a longer file
  copies nothing, returns -8192, and moves the position back to 0, so that the next
  reads deliver the same bytes again; -1 inside a block faults in the kernel.
  `ReadBack` and `ReadFaults` are these cases.
- A file shorter than four bytes is run or refused by what was on the kernel
  stack (`system_call.c:404`); of a program longer than 8192 bytes, `fish` for one,
  only the beginning is loaded (`system_call.c:491`).
- `grep` looks at the byte behind its full buffer, which nothing has set
  (`ece391grep.c:33`); if it is a newline, a line is cut there.
- `memmove` to higher addresses leaves the direction flag set (`lib.c:477`), and a
  `printf` format that ends in % is read past its end; no caller in the repository
  is affected.

`system_call.c:15` says that the count "will never be -1". `halt` runs with
interrupts enabled, so a Ctrl+C after `process_total--` halts again and the last
of these decrements leaves -1 for a moment; `CtrlCAnywhere` contains such
behaviours and shows that with one such key the globals agree again when a
program runs, if one does. With two keys in the middle of kernel code (`MaxMidKernel` of 2 or
more) a second Ctrl+C can make the last shell replace itself after the count was
decremented twice, and `GlobalsAgree` no longer holds; the run and the theorems
state the bound they need.

## Proofs

All theorems are about `Spec`, or for the programs and the library `UserSpec`, with
the constants' named assumptions (`ProcessAssumption`, `LineBufferAssumption`,
`DescriptorsAssumption`, `FileSystemAssumption`, `CommandsAssumption`,
`InterruptsAssumption`, `RateCodeAssumption`, `ConsoleAssumption`,
`UserProgramsAssumption`, `TasksAssumption`, `SessionsAssumption`) and are checked by
`tlapm`.

`LineBufferProofs` (any buffer size above 1, any number of terminals and keys,
keys anywhere in the read):

- `TypeCorrect`, `LocationStaysInBounds`, `EnterIsNeeded`. None of the three is
  inductive alone. The invariant `IInv` adds that the loop index of a copy
  counts the bytes copied, and how newlines relate to `entered`: on terminal 0
  every newline in the buffer, and a newline the reader has seen, was entered
  since the last reset.
- `EnterAlwaysEnds`, and `ReadsTakeLines`, the refinement `LineBuffer =>
  LineDiscipline`. Both hold while no key has fallen past a read's last check, so
  `QuietInv` is `IInv` with an implication: as long as `midRead` is 0, the reader
  looks at the byte before the location, past the wait the line still ends in a
  newline and what was copied is its beginning, and a full line ends in a
  newline (`FullEnded`), which is what makes Enter on a full line harmless. Each
  step of the reader but the reset then leaves the line of the specification
  alone, and the reset is `FinishRead` or `ReadNothing`.

`LibraryProofs`, first part: the file system (any block size, images, requests and
descriptors):

- `PositionsStayInFile`. Inductive as it stands, because `LengthCopied` never
  exceeds what is left of the file (`CopiesWhatIsLeft`).
- `FilesAreReadInOrder`, with `ReadInv`: what was read through a descriptor is the
  beginning of its file up to the position, whatever int32 sizes were asked for. A
  negative size that wraps takes bytes back and leaves a shorter beginning
  (`ReadBackReads`); no other call goes back. What one call adds is the result of
  the loop over blocks, by induction over its iterations: after each, the bytes
  copied are those of the range up to the block's end. The induction theorems of
  the library take an operator, which the provers cannot instantiate; the proof
  instead cites `Induction`, a lemma about a set `H` of numbers (the least number
  outside `H` exists by `WFMin`), with the iterations a claim holds of for `H`.
- `ReadsStopAtEnd`, `ListingsAreComplete`: action properties from the same
  invariants.
- `OpenFindsByName`, by the lemma `MatchesIsEqual`: comparing over the longer of two
  names is comparing the names.

`DescriptorsProofs` (any number of programs within the array, any descriptors,
any numbers written, any maximal rate that is a power of two):

- `TypeCorrect`; `TablesAreOwn`, the refinement `Descriptors => FileTables`, by
  the lemma that a new table in the running program's PCB is a new last table;
  `RatesAreKept`, by a lemma on which entry of `virtual_freq` a step can write;
  `ReadsWait`, from `Counted`: interrupts so far and those still to count make
  up what the rate asks for, and one that is seen but not counted is one more.

`InterruptsProofs` (any keys, any number of events, handlers nested to any depth):

- `TypeCorrect`, `HandlersAreServed`, `RateGetsSet`, from `IInv`: `Started` says what
  the start has done by each of its steps, `Nested` that only the clock's handler
  is ever interrupted and only at its `iret`, so that `Serving` can say that exactly
  the innermost handler has its line in service; `Rate` follows the selected
  register and `prev` through the steps of `set_rate`. That the loop of `set_rate`
  finds 3 for 8192 is `RateCodeAssumption`, which TLC evaluates.
- `KeysDoWhatIsHeld`. Handlers run long after the keys, so the invariant is about
  the codes on their way: `KeysInv` says that the modifier flags, taken through the
  codes still in the keyboard, lead to the modifiers held now (`Leads`), that each
  queued code carries what was held when it was made, and that while no two keys of one
  kind have been held together each kind is held by one key at most (`Apart`).

`ConsoleProofs` (any screen, texts, terminals, keys anywhere in a `putc`):

- `PositionReturns`. Not inductive: in the middle of a `putc` the position may be a
  column or a row too far, and the registers of the write, also of every write a
  terminal was left in, hold values that are stored later. `Registers` bounds them
  by the step they belong to, `Position` says in which steps the position may be
  off, and the lemmas on `Putc`, `DeleteC` and `Located` that a key brings the
  position no farther off than it was.
- `SavedScreensAreKept`, if a page has as many spare cells as keys fall into a `putc`
  (a hypothesis of the theorem; see above). `PageInv` adds that the memory keeps its
  shape and that a scroll, also one that was left, is at a cell of the screen.
- `BackspaceSeesLine`. `TypedInv` says the same of every terminal, of those behind with
  their saved page and position, and that a `putc` never runs on a line that
  counts as typed.
- `ScreensAreText`, the refinement `Console => TextScreens`. `PutcInv` follows a `putc`
  that no key has fallen into through all its steps: `InPutc` says for each step
  how memory, position and cursor differ from what they were `before`. So each step
  either goes on with the same text on the screen (`GoesOnWith`) or ends having done
  what the operator `Putc` does at once (`EndsAs`). `PutcShows`, `DeleteCShows` and
  `ClearShows` then take the operators to `Put`, `Rub` and `Blank` of the
  specification, through the map from cells to rows and columns, wraps and
  scrolls included; a switch exchanges the screen with a saved page, and the texts
  of all terminals stay.

`ProcessControlProofs` (any limit, any number of terminals, keys anywhere):

- `TypeCorrect`. The invariant says besides the types which activations can
  exist on a stack and in a saved context (`GlobalsTyped`, `RunTyped`,
  `PcbTyped`), because returns take their types from there.

`ProcessControlProofs`, second part (any limit and number of terminals,
`MaxMidKernel = 0`):

- `GlobalsAlwaysAgree`, `ShellsAreReplaced`, `ReadsFollowTheScreen`. The four globals
  agree only at rest; in the middle of `execute`, `halt` and `terminal_switch` they
  are written one by one. `Stages` therefore
  says for every program counter which of them have been written already, and
  `StacksClean` that what lies suspended on a stack is a program, a read, or one
  of the places from which the kernel itself calls `execute`; that makes every
  return land in a stage whose claim holds. `MaxMidKernel = 0` is needed: it is
  the assumption that keys find programs or reads running, and
  the last paragraph of the section above says what happens without it. That the
  limit holds is no theorem: under this assumption nothing can come between its
  test and the increment, and without it `LimitRace` breaks it.

`ProcessControlProofs`, third part (any limit, one terminal, `MaxMidKernel = 0`):

- `KernelStaysInControl`, `PassedPidIsCallers`, `RegistersMatchPage`, `CallersWait`,
  `HaltReturnsToParent`, `ExceptionsAreReported`, and `ProgramsAreCalls`, the
  refinement `ProcessControl => ProgramStack`. All rest on one invariant, the chain
  of programs that wait: for each program above the first, its PCB's parent is
  the one below, its saved esp/ebp name the parent's stack, and that stack still
  holds the call of `execute` that started it (`Waits`, `Ancestry`). `Subject` is the
  program the kernel works for, read off `process_total` past the stretches where
  it already counts the next program or no longer this one; `StackInv` says for
  each program counter what the globals and the stack of the subject are, and in
  `Marked` that the exception flag is what ended it. `halt` then finds exactly the
  call that waits, with the flag to report.
- The hypothesis `OneScreen` (`FKeys` holds terminal 0 at most, `MaxMidKernel` is 0)
  is that of `SingleTerminal`, and it is needed: `SwitchBack` shows what a second
  terminal does, and in the instance of `CtrlCAnywhere`, where a Ctrl+C may count a
  program out twice, TLC finds `TotalIsPidPlusOne` violated. The limit is any number.

`LibraryProofs`, second part: the library (any memory, addresses, lengths, strings,
and numbers of 32 bits):

- `LibraryIsAsDocumented`, and for single functions `MemsetIs`, `MemcpyIs` and
  `ItoaReadsBack`. A fold is a recursive function on sets; that it exists, and what
  it is after each step, is shown by `Induction` once, in `FoldExists` and
  `LevelsFold`, and instantiated for each loop (`StosRuns`, `StrrevRuns`,
  `FormatRuns`). The invariant of the copying loops is that the bytes as far as the
  accesses have come are written and no other (`After`; `UnitsAre` says that the
  accesses of bytes, dwords and bytes follow each other without a gap); of `itoa`
  that what was divided off are the last digits (`DigitsOf`), of `strrev` that the
  outer characters are exchanged (`Turned`), of `printf` which characters of the
  format are printed (`Printing`). A numeral reads back as its number by the same
  divisions. The only hypothesis is that calls are ones the functions are made for
  (`TasksAssumption`).

`ProgramProofs` (any image, lines, words and spaces):

- `LinesAreRun`. `Words` cuts a line at its spaces from the beginning to the end;
  `parse_args` skips spaces, copies a word, and leaves an index behind which the
  arguments are. `FirstWordAndRest` says that the words of a line are what
  `parse_args` found and the words of what the index leaves, because from the end
  of a word on the rest is read like a line of its own (`SameWords`). `LineInv` keeps
  this from `execute` to the shell's next line: no call of a program changes
  the arguments or the directory, a program takes lines from the first on, and it
  ends with a number (`CatGoes` ... `SyserrCounts`), which the shell reads.

`ProgramProofs`, second part, and `PrintingProofs` (any image, block, buffer and name
size, number of descriptors and typed lines):

- `ProgramsPrintIt`. The invariant is `PrintInv`: `LineInv`, the `ReadInv` of the file
  system, `Sound` (the image is one that the sessions may have), and an invariant of
  each program, which says at every step of it that what is printed is what the
  property asks for, as far as the program has come. `CatInv` and `LsInv` measure this
  by the position of the descriptor, `CounterInv` and `PongInv` by a variable of the
  loop, `SyserrInv` by the calls of the test that have failed (`TestState`, with the
  table of descriptors they leave).
- `FishInv` follows two files a character at a time. `FishFile` says which lines of a
  picture were read and how much of the one in this row; `Shown` is what the rows
  above and the columns before show. The picture with the shorter line waits at its
  newline, that with fewer lines at its end (`NextColumn`, `NextRow`).
- `GrepInv` relates the buffer to the text. `ReadPart` and `LinePart` say that the
  buffer holds the text from the beginning of a line on, and `OutTo` that what is
  printed belongs to the lines before it. A line in the buffer is complete at a
  newline, at the end of the file, or when it is as long as the buffer
  (`LineFound`, `LastFound`, `FullFound`); otherwise it moves to the front and is read
  on (`KeptPart`). Where a full line ends, its newline is left over and found as an
  empty line, which holds nothing to look for and is not printed (`LineDone`,
  `NothingHeld`).
- The texts are compared line by line: `LinesOf` is a fold, and `CutsBegin` says that what
  it finds in a beginning of a text are the first of its lines.

## Limits

The theorems state every invariant, action property and refinement of the passing
runs. Only model-checked are:

- the liveness properties `KernelReturns`, `LineIsDelivered`, `RtcReadEnds` and
  `TicksKeepComing`: the prover has neither fairness nor ENABLED;
- `GlobalsAgree` with a Ctrl+C inside the kernel, which `CtrlCAnywhere` checks for
  one such key: the theorems have `MaxMidKernel = 0`.

Abstracted: in `ProcessControl`, what a program computes (it may make any call at
any time); the attribute bytes of the screen and the wording of messages; which of
several wrong addresses a return through a reused stack finds, except for the one
case named above.

Of the file system: images are well formed and files shorter than 2^31 bytes. Of
the programs: one terminal, lines typed in advance; what runs when a program is
only partly loaded is anything (`Wild`).

## Not modelled

- Descriptors with several terminals: `process_total - 1` is then another
  program's pid, and the tables of programs mix. `ProcessControl` shows that it
  happens; `Descriptors` describes one terminal.
- Programs beyond the sixth entry of `virtual_freq`, which write past the array.
- The clock loops of `fish` (with `blink.S`) and `pingpong`, which repeat a read of
  the clock; the emulation of the system calls under Linux.
- `boot.S` and the multiboot header, straight-line code before any interrupt; the
  layout of descriptors and page table entries, which is data.
- Code that never runs: the PIT and the scheduler, `rtc_write`, `test_rtc`,
  `disable_irq`, `tests.c`.
