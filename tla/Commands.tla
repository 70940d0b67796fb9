------------------------------ MODULE Commands ------------------------------
(***************************************************************************)
(* What system_call.c does for a command besides switching processes,      *)
(* which ProcessControl has: it takes the line apart, looks whether the    *)
(* file can be run, loads it and keeps the arguments for getargs.  And the *)
(* checks of the calls that touch no file: vidmap, the signal calls, and   *)
(* the range of call numbers (system_call_linkage.S).                      *)
(***************************************************************************)
EXTENDS FileSystem, SequencesExt

CONSTANT LoadSize    \* the bytes of a program that are loaded, 8192

ASSUME CommandsAssumption == LoadSize \in Nat

VARIABLES
    args,       \* of the PCB of the program that runs
    loaded,     \* the bytes at 0x8048000
    vidmapped   \* the page of page_table_2_vidmap is present

files == <<dir_entries, inode, file_position, got>>

Space == 32
Newline == 10

-----------------------------------------------------------------------------
(* execute *)

\* How many characters of the line come before one that is no space.
Skip(command, idx) == Min({i \in idx .. Len(command) : CharAt(command, i + 1) # Space})

\* Mutant: spaces before the name are not skipped.
ParseArgsNoSkip(command) ==
    LET ends == {i \in 1 .. Len(command) + 1 : CharAt(command, i) \in {Space, 0}}
        length == IF Min(ends) - 1 > NameLen THEN NameLen ELSE Min(ends) - 1 IN
    [real_command |-> SubSeq(command, 1, length), index |-> length]

\* parse_args: a word that fills real_command is cut there, and the rest of it
\* taken for arguments.  (It has no terminator then; read_dentry_by_name looks
\* at no byte behind it.)
ParseArgs(command) ==
    LET first == Skip(command, 0)
        ends == {i \in first + 1 .. Len(command) + 1 : CharAt(command, i) \in {Space, 0}}
        length == IF Min(ends) - 1 - first > NameLen THEN NameLen ELSE Min(ends) - 1 - first IN
    [real_command |-> SubSeq(command, first + 1, first + length), index |-> first + length]

\* Up to a newline, which becomes the end of the string.
ParseArgumentsOfProgram(command, idx) ==
    LET rest == SubSeq(command, Skip(command, idx) + 1, Len(command)) IN
    IF Contains(rest, Newline) THEN SubSeq(rest, 1, SelectInSeq(rest, LAMBDA c : c = Newline) - 1)
                               ELSE rest

\* Whether the first four bytes are the magic number: of a shorter file, a
\* directory for one, they are what the kernel stack held.
Magic(entry) == IF entry.length_in_bytes < 4 THEN BOOLEAN ELSE {entry.holds # "text"}

\* check_file_validity looks at no type.
CheckFileValidity(real_command, f) ==
    /\ real_command # <<>>
    /\ Found(real_command, f)
    /\ TRUE \in Magic(dir_entries[f])

ExecuteRefused(command) ==
    LET name == ParseArgs(command).real_command IN
    /\ \A f \in 1 .. Len(dir_entries) :
          name # <<>> /\ Found(name, f) => FALSE \in Magic(dir_entries[f])
    /\ result' = -1
    /\ UNCHANGED <<files, args, loaded, vidmapped>>

UserLevelProgramLoader(f) == ReadData(dir_entries[f], 0, LoadSize)

ExecuteStarts(command, f) ==
    LET parsed == ParseArgs(command) IN
    /\ CheckFileValidity(parsed.real_command, f)
    /\ args' = ParseArgumentsOfProgram(command, parsed.index)
    /\ loaded' = UserLevelProgramLoader(f)
    /\ ClearTable
    /\ UNCHANGED <<result, vidmapped>>

\* What halt does besides: the vidmap page goes and the descriptors are closed.
HaltCloses ==
    /\ vidmapped' = FALSE
    /\ ClearTable
    /\ UNCHANGED <<args, loaded>>

-----------------------------------------------------------------------------
(* Calls that touch no file *)

\* getargs fails, or copies args and pads them with zeros.
GetargsFails(nbytes) == args = <<>> \/ Len(args) > nbytes

MB == 1048576

\* vidmap wants an address inside the program's own 4MB.
VidmapAccepts(screen_start) == screen_start > 128 * MB /\ screen_start < 132 * MB

Vidmap(screen_start) ==
    /\ IF VidmapAccepts(screen_start)
         THEN vidmapped' = TRUE /\ result' = 208 * MB
         ELSE result' = -1 /\ UNCHANGED vidmapped
    /\ UNCHANGED <<files, args, loaded>>

\* Numbers the linkage finds in its table, signed comparisons both.
ValidNumber(eax) == eax >= 1 /\ eax <= 10

\* set_handler and sigreturn, and numbers out of range.
Fails ==
    /\ result' = -1
    /\ UNCHANGED <<files, args, loaded, vidmapped>>
=============================================================================
