---------------------------- MODULE UserPrograms ----------------------------
(***************************************************************************)
(* The shell and the programs of syscalls/ and fish/ as clients of the     *)
(* file system, one system call at a time, on lines typed in advance; an   *)
(* arbitrary client, which makes every call of FileSystem at any time; and *)
(* calls of the functions of lib.c.  A behaviour is one of these.          *)
(***************************************************************************)
EXTENDS Commands, Library

CONSTANTS
    BufSize,    \* BUFSIZE of the programs, 1024
    Sessions,   \* [image, disk, lines]: a file system, the characters stored in
                \* it, and what is typed to the shell and its programs
    Tasks,      \* the calls of lib.c that are tried
    TestMax,    \* what counter counts to, by its choices 0, 1, 2
    Frames      \* bound: frames of pingpong before Ctrl+C

\* The number that stands for all beyond the descriptors and the call numbers.
Big == 1073741823

ASSUME UserProgramsAssumption ==
    /\ BufSize \in Nat \ {0} /\ Frames \in Nat
    /\ BufSize < HighBit /\ NameLen < HighBit /\ 31 < HighBit
    /\ LastFd \in 3 .. Big - 1
    /\ TestMax \in Seq(Nat) /\ Len(TestMax) = 3
    /\ \A s \in Sessions : s.image \in Images

VARIABLES
    disk,       \* the character at each place of the image
    program,    \* what runs: "shell", "any", "library" or the program of a file
    pc,
    local,      \* its variables
    typed,      \* lines not yet read, without their newlines
    out,        \* what the program printed so far
    ended       \* the line, the arguments, the file, the status and the output of
                \* the program that ended last

user == <<disk, program, pc, local, typed, out, ended>>
kernel == <<vars, args, loaded, vidmapped>>
uvars == <<kernel, user>>

\* Messages stand for their characters.
CouldNotReadArguments == 1001
FileNotFound == 1002
WrongChoice == 1003
Hi == 1004
Hello == 1005
Installing == 1006
Pass == 1007
Fail == 1008
Yay == 1009
Invalid == 1010
Failure == 1011
Choose == 1012
EnterNumber == 1013
DirectoryOpenFailed == 1014
FileOpenFailed == 1015

Dot == <<46>>
RunsWhole(f) == loaded' = Content(dir_entries[f])

UserInit ==
    /\ \/ program = "any" /\ pc = "run" /\ local = <<>> /\ typed = <<>> /\ disk = <<>>
       \/ /\ program = "shell" /\ pc = "read" /\ local = <<>>
          /\ \E s \in Sessions : dir_entries = s.image /\ disk = s.disk /\ typed = s.lines
       \/ /\ program = "library" /\ pc = "call" /\ typed = <<>> /\ disk = <<>>
          /\ dir_entries = CHOOSE image \in Images : TRUE
          /\ local \in Tasks
    /\ Init
    /\ args = <<>> /\ loaded = <<>> /\ vidmapped = FALSE /\ out = <<>>
    /\ ended = [program |-> "none"]

-----------------------------------------------------------------------------
(* Parts of programs *)

At(name, label) ==
    /\ program = name /\ pc = label
    /\ UNCHANGED <<program, disk, ended>>

Go(label, variables) == pc' = label /\ local' = variables
Stay == UNCHANGED <<pc, local>>
Say(text) == out' = out \o text
Return(status) == Go("exit", [status |-> status])
NoCall == UNCHANGED kernel
NoInput == UNCHANGED typed
OnlyFiles == UNCHANGED <<args, loaded, vidmapped>>

Read(fd, nbytes) == FileRead(fd, nbytes) \/ DirRead(fd)

\* The characters the call of read put into the buffer.
Fresh(fd) ==
    IF result' = 0 THEN <<>>
    ELSE IF Directory(fd) THEN got'[fd][Len(got'[fd])]
    ELSE [k \in 1 .. result' |-> disk[got'[fd][Len(got[fd]) + k]]]

\* read of the keyboard: a line with its newline.
Line == Append(Head(typed), Newline)
ReadLine == typed # <<>> /\ typed' = Tail(typed)

-----------------------------------------------------------------------------
(* The shell, and programs coming and going *)

\* ece391_strcmp with "exit".
Exit == <<101, 120, 105, 116>>

Shell ==
    /\ program = "shell" /\ pc = "read"
    /\ typed # <<>> /\ typed' = Tail(typed)
    /\ UNCHANGED disk
    /\ LET command == Head(typed) IN
       \/ /\ command \in {<<>>, Exit}    \* after exit the terminal gets a new shell
          /\ NoCall /\ UNCHANGED <<program, pc, local, out, ended>>
       \/ /\ command \notin {<<>>, Exit}
          /\ ExecuteRefused(command)
          /\ ended' = [program |-> "none", line |-> command, status |-> -1]
          /\ UNCHANGED <<program, pc, local, out>>
       \/ /\ command \notin {<<>>, Exit}
          /\ \E f \in 1 .. Len(dir_entries) :
               /\ ExecuteStarts(command, f)
               /\ ended' = [program |-> "none", line |-> command, file |-> f]
               /\ program' \in IF RunsWhole(f) THEN {dir_entries[f].holds}
                                               ELSE {dir_entries[f].holds, "wild"}
          /\ pc' = "main" /\ local' = <<>> /\ out' = <<>>

Running == program \notin {"shell", "any", "library"}

\* halt, and the status execute returns to the shell.
Halt(status) ==
    /\ Running
    /\ HaltCloses
    /\ result' = status
    /\ program' = "shell" /\ pc' = "read" /\ local' = <<>>
    /\ ended' = [program |-> program, line |-> ended.line, args |-> args, file |-> ended.file,
                 status |-> status, out |-> out, local |-> local]
    /\ UNCHANGED <<disk, typed, out>>

Ends == (pc = "exit" /\ Halt(local.status))

\* An exception halts the program that made it with status 256.
Faults == (pc = "fault" /\ Halt(256))

\* Code that is not the program's, or not all of it, ends anyhow.
Wild == (program = "wild" /\ \E status \in {0, 256} : Halt(status))

-----------------------------------------------------------------------------
(* cat and ls *)

Cat ==
    \/ /\ At("cat", "main") /\ NoInput
       /\ IF GetargsFails(BufSize)
            THEN NoCall /\ Say(<<CouldNotReadArguments>>) /\ Return(3)
            ELSE /\ Open(args) /\ OnlyFiles
                 /\ IF result' = -1 THEN Say(<<FileNotFound>>) /\ Return(2)
                                    ELSE Say(<<>>) /\ Go("read", [fd |-> result'])
    \/ /\ At("cat", "read") /\ NoInput
       /\ Read(local.fd, BufSize) /\ OnlyFiles
       /\ Say(Fresh(local.fd))
       /\ IF result' = 0 THEN Return(0) ELSE Stay

Ls ==
    \/ /\ At("ls", "main") /\ NoInput
       /\ Open(Dot) /\ OnlyFiles
       /\ IF result' = -1 THEN Say(<<DirectoryOpenFailed>>) /\ Return(2)
                          ELSE UNCHANGED out /\ Go("read", [fd |-> result'])
    \/ /\ At("ls", "read") /\ NoInput
       /\ Read(local.fd, NameLen) /\ OnlyFiles
       /\ IF result' = 0 THEN UNCHANGED out /\ Return(0)
                         ELSE Say(Append(Fresh(local.fd), Newline)) /\ Stay

-----------------------------------------------------------------------------
(* grep *)

\* ece391_strcpy(data, data + from), up to the first zero byte.
CopyDown(data, from) ==
    LET n == Min({k \in 0 .. BufSize - from : data[from + k] = 0}) IN
    [i \in DOMAIN data |-> IF i <= n THEN data[from + i] ELSE data[i]]

\* ece391_strncmp at every place of the line.
InLine(s, data, line_start, line_end) ==
    \E check \in line_start .. line_end - 1 :
        \A i \in 1 .. Len(s) : check + i - 1 <= BufSize /\ data[check + i - 1] = s[i]

GrepMain ==
    \/ /\ At("grep", "main") /\ NoInput
       /\ IF GetargsFails(BufSize)
            THEN NoCall /\ Say(<<CouldNotReadArguments>>) /\ Return(3)
            ELSE /\ Open(Dot) /\ OnlyFiles
                 /\ IF result' = -1 THEN Say(<<DirectoryOpenFailed>>) /\ Return(2)
                    ELSE /\ UNCHANGED out
                         /\ \E junk \in {0, Newline} : Go("next", [dir |-> result', junk |-> junk])
    \/ /\ At("grep", "next") /\ NoInput
       /\ Read(local.dir, NameLen) /\ OnlyFiles
       /\ UNCHANGED out
       /\ IF result' = 0 THEN Go("exit", [status |-> 0, junk |-> local.junk])
          ELSE LET name == Fresh(local.dir) IN
               IF name[1] = Dot[1] THEN Stay
               ELSE Go("open", [dir |-> local.dir, junk |-> local.junk, fname |-> name])

\* do_one_file: data starts as what the stack holds, newlines perhaps.
GrepOpen ==
    /\ At("grep", "open") /\ NoInput
    /\ Open(local.fname) /\ OnlyFiles
    /\ IF result' = -1 THEN Say(<<FileOpenFailed>>) /\ Return(3)
       ELSE /\ UNCHANGED out
            /\ Go("read", [dir |-> local.dir, junk |-> local.junk, fname |-> local.fname, fd |-> result',
                           last |-> 0, cnt |-> 0, line_start |-> 0,
                           data |-> [i \in 0 .. BufSize |-> local.junk]])

GrepRead ==
    /\ At("grep", "read") /\ NoInput
    /\ Read(local.fd, BufSize - local.last) /\ OnlyFiles
    /\ UNCHANGED out
    /\ Go("line", [local EXCEPT !.cnt = result', !.last = @ + result', !.line_start = 0,
                                !.data = Put(@, local.last, Fresh(local.fd))])

\* Mutant: what is left of the last line is not moved to the front.
KeepPartDropped(line_end) ==
    Go("read", [local EXCEPT !.last = 0])

\* A line that is not complete moves to the front, to be read on.
KeepPart(line_end) ==
    Go("read", [local EXCEPT !.data = CopyDown([@ EXCEPT ![line_end] = 0], local.line_start),
                             !.last = @ - local.line_start])

GrepLine ==
    /\ At("grep", "line") /\ NoCall /\ NoInput
    /\ LET line_end == Min({e \in local.line_start .. BufSize :
                               e >= local.last \/ local.data[e] = Newline}) IN
       IF local.data[line_end] # Newline /\ local.cnt # 0 /\ local.line_start # 0
         THEN KeepPart(line_end) /\ UNCHANGED out
         ELSE LET ended_line == [local.data EXCEPT ![line_end] = 0] IN
              /\ IF InLine(args, ended_line, local.line_start, line_end)
                   THEN Say(local.fname \o <<58>>
                            \o Get(ended_line, local.line_start, line_end - local.line_start)
                            \o <<Newline>>)
                   ELSE UNCHANGED out
              /\ IF line_end + 1 < local.last
                   THEN Go("line", [local EXCEPT !.data = ended_line, !.line_start = line_end + 1])
                   ELSE Go(IF local.cnt = 0 THEN "close" ELSE "read",
                           [local EXCEPT !.data = ended_line, !.last = 0])

GrepClose ==
    /\ At("grep", "close") /\ NoInput
    /\ Close(local.fd) /\ OnlyFiles
    /\ UNCHANGED out
    /\ Go("next", [dir |-> local.dir, junk |-> local.junk])

Grep == GrepMain \/ GrepOpen \/ GrepRead \/ GrepLine \/ GrepClose

-----------------------------------------------------------------------------
(* Programs that talk to the keyboard *)

HelloProgram ==
    /\ At("hello", "main") /\ NoCall /\ ReadLine
    /\ Say(<<Hi, Hello>> \o Line)
    /\ Return(0)

Testprint == At("testprint", "main") /\ NoCall /\ NoInput /\ Say(<<Yay>>) /\ Return(0)

\* The handlers are refused, so the write to address 0 is an exception.
Sigtest ==
    \/ /\ At("sigtest", "main") /\ NoInput
       /\ IF GetargsFails(BufSize)
            THEN NoCall /\ Say(<<CouldNotReadArguments>>) /\ Return(3)
            ELSE IF args[1] = 49
              THEN Fails /\ Say(<<Installing>>) /\ Go("name", <<>>)
              ELSE NoCall /\ Say(<<>>) /\ Go("name", <<>>)
    \/ /\ At("sigtest", "name") /\ NoCall /\ ReadLine
       /\ Say(<<Hi>>)
       /\ Go("fault", <<>>)

ece391_itoa(value) == Itoa(value, 10)

\* One character and the newline, between 0 and 2, or the newline alone.
Counter ==
    \/ /\ At("counter", "main") /\ NoCall /\ ReadLine
       /\ IF Len(Line) > 2 \/ (Len(Line) = 2 /\ Line[1] \notin 48 .. 50)
            THEN Say(<<EnterNumber, WrongChoice>>) /\ Return(0)
            ELSE /\ Say(<<EnterNumber>>)
                 /\ Go("count", [i |-> 0, max |-> IF Line[1] \in 48 .. 50 THEN TestMax[Line[1] - 47]
                                                                         ELSE 0])
    \/ /\ At("counter", "count") /\ NoCall /\ NoInput
       /\ IF local.i < local.max
            THEN /\ Say(Append(ece391_itoa(local.i + 1), Newline))
                 /\ Go("count", [local EXCEPT !.i = @ + 1])
            ELSE UNCHANGED out /\ Return(0)

\* A letter goes from wall to wall and back, then the next letter; each frame
\* is a line, and the wait on the clock that follows it is left out.
LoopStart == 2
LoopMax == 78

Pingpong ==
    \/ /\ At("pingpong", "main") /\ NoCall /\ NoInput
       /\ UNCHANGED out
       /\ Go("frame", [j |-> LoopStart, back |-> FALSE, curchar |-> 65])
    \/ /\ At("pingpong", "frame") /\ NoCall /\ NoInput
       /\ Len(out) < Frames
       /\ Say(<<[column |-> local.j, char |-> local.curchar]>>)
       /\ pc' = pc
       /\ local' = CASE ~local.back /\ local.j + 1 < LoopMax -> [local EXCEPT !.j = @ + 1]
                     [] ~local.back /\ local.j + 1 >= LoopMax -> [local EXCEPT !.back = TRUE]
                     [] local.back /\ local.j > LoopStart -> [local EXCEPT !.j = @ - 1]
                     [] OTHER -> [local EXCEPT !.back = FALSE,
                                               !.curchar = IF @ = 90 THEN 65 ELSE @ + 1]
    \/ /\ At("pingpong", "frame") /\ NoCall /\ NoInput    \* Ctrl+C
       /\ Len(out) = Frames
       /\ UNCHANGED out /\ Return(0)

-----------------------------------------------------------------------------
(* fish: two pictures become the characters that blink *)

Frame0 == <<70, 48>>
Frame1 == <<70, 49>>

FishMain ==
    /\ At("fish", "main") /\ NoInput
    /\ Vidmap(129 * MB)
    /\ UNCHANGED out
    /\ IF result' = -1 THEN Return(255) ELSE Go("open 0", <<>>)

\* add_frames; the status of ece391_halt(-1) is cut to a byte.
FishOpen ==
    \/ /\ At("fish", "open 0") /\ NoInput
       /\ Open(Frame0) /\ OnlyFiles
       /\ UNCHANGED out
       /\ IF result' = -1 THEN Return(255) ELSE Go("open 1", <<result'>>)
    \/ /\ At("fish", "open 1") /\ NoInput
       /\ Open(Frame1) /\ OnlyFiles
       /\ UNCHANGED out
       /\ IF result' = -1 THEN Return(255)
          ELSE Go("read", [fd |-> <<local[1], result'>>, c |-> <<48, 48>>, eof |-> <<FALSE, FALSE>>,
                           turn |-> 1, row |-> 0, col |-> 0])

\* What add_frames does with a pair of characters.
Blinking(c) == \E n \in {1, 2} : c[n] \notin {Space, Newline}

Blink(c) ==
    [location |-> local.row * 80 + local.col + 40,
     on_char |-> IF c[1] = Newline THEN Space ELSE c[1],
     off_char |-> IF c[2] = Newline THEN Space ELSE c[2]]

\* After a read of each file, unless its line has ended.
Paired(after) ==
    IF local.turn = 1 THEN UNCHANGED out /\ Go("read", [after EXCEPT !.turn = 2])
    ELSE IF after.c = <<Newline, Newline>> THEN UNCHANGED out /\ Go("row", [after EXCEPT !.turn = 1])
    ELSE /\ IF Blinking(after.c) THEN Say(<<Blink(after.c)>>) ELSE UNCHANGED out
         /\ Go("read", [after EXCEPT !.turn = 1, !.col = @ + 1])

FishRead ==
    /\ At("fish", "read") /\ NoInput
    /\ IF local.c[local.turn] = Newline THEN NoCall /\ Paired(local)
       ELSE /\ Read(local.fd[local.turn], 1) /\ OnlyFiles
            /\ Paired([local EXCEPT
                 !.c[local.turn] = IF result' = 0 THEN Newline ELSE Fresh(local.fd[local.turn])[1],
                 !.eof[local.turn] = (result' = 0)])

NextLine(eof) == IF eof THEN Newline ELSE 48

\* A file at its end is closed, after every further row again.
FishRow ==
    /\ At("fish", "row") /\ NoInput
    /\ UNCHANGED out
    /\ IF local.eof[local.turn] THEN Close(local.fd[local.turn]) /\ OnlyFiles ELSE NoCall
    /\ LET after == [local EXCEPT !.c[local.turn] = NextLine(local.eof[local.turn])] IN
       IF local.turn = 1 THEN Go("row", [after EXCEPT !.turn = 2])
       ELSE IF local.eof = <<TRUE, TRUE>> THEN Return(0)
       ELSE Go("read", [after EXCEPT !.turn = 1, !.row = @ + 1, !.col = 0])

Fish == FishMain \/ FishOpen \/ FishRead \/ FishRow

-----------------------------------------------------------------------------
(* syserr: calls that must fail *)

AllFds == 0 .. LastFd
Calls(call, numbers) == [n \in 1 .. Len(numbers) |-> [call |-> call, arg |-> numbers[n]]]
FdsFrom(first) == [n \in 1 .. LastFd + 1 - first |-> first + n - 1]

err_neg_fd == <<[call |-> "read", arg |-> -Big], [call |-> "write", arg |-> -Big],
                [call |-> "close", arg |-> -Big]>>

err_big_fd == <<[call |-> "read", arg |-> Big], [call |-> "write", arg |-> Big],
                [call |-> "close", arg |-> Big]>>

err_open_lots == Calls("open", [n \in 1 .. LastFd |-> Dot]) \o Calls("close", FdsFrom(2))

err_open == Calls("open", << <<7, 7>>, <<8>>, <<>> >>)

err_unopened == Calls("close", FdsFrom(0)) \o Calls("read", FdsFrom(2)) \o Calls("write", FdsFrom(2))

err_vidmap == Calls("vidmap", <<0, 4 * MB>>)

err_stdin_out == <<[call |-> "write", arg |-> 0], [call |-> "read", arg |-> 1]>>

err_syscall_num == Calls("number", <<Big, -Big, 0>>)

Tests == <<err_neg_fd, err_big_fd, err_open_lots, err_open, err_unopened, err_vidmap,
           err_stdin_out, err_syscall_num>>

\* Whether read, write and close turn a descriptor away before they look what
\* is behind it.
Unusable(call, fd) ==
    \/ fd \notin AllFds
    \/ fd \in Fds /\ inode[fd] = 0
    \/ fd = 0 /\ call \in {"write", "close"}
    \/ fd = 1 /\ call \in {"read", "close"}

\* Files and directories refuse to be written.
Call(c) ==
    CASE c.call = "open" -> Open(c.arg) /\ OnlyFiles
      [] c.call = "vidmap" -> Vidmap(c.arg)
      [] c.call = "number" -> IF ValidNumber(c.arg) THEN NoCall ELSE Fails
      [] c.call = "close" /\ ~Unusable("close", c.arg) -> Close(c.arg) /\ OnlyFiles
      [] c.call = "read" /\ ~Unusable("read", c.arg) -> Read(c.arg, 31) /\ OnlyFiles
      [] OTHER -> ReadRefused /\ OnlyFiles

\* The third test counts the opens that fail, the others want every call to.
Passes(test, failed) ==
    IF test = 3 THEN Cardinality({n \in failed : n <= LastFd}) = 1
                ELSE failed = 1 .. Len(Tests[test])

Syserr ==
    \/ /\ At("syserr", "main") /\ NoCall /\ ReadLine
       /\ CASE Line[1] = 48 -> UNCHANGED out /\ Go("test", [all |-> TRUE, test |-> 1, n |-> 1,
                                                            failed |-> {}, fail |-> 0])
            [] Line[1] \in 49 .. 56 -> UNCHANGED out /\ Go("test", [all |-> FALSE, test |-> Line[1] - 48,
                                                            n |-> 1, failed |-> {}, fail |-> 0])
            [] OTHER -> Say(<<Invalid>>) /\ Return(0)
    \/ /\ At("syserr", "test") /\ NoInput
       /\ local.n <= Len(Tests[local.test])
       /\ Call(Tests[local.test][local.n])
       /\ UNCHANGED out
       /\ Go("test", [local EXCEPT !.n = @ + 1,
                                   !.failed = IF result' = -1 THEN @ \cup {local.n} ELSE @])
    \/ /\ At("syserr", "test") /\ NoInput /\ NoCall
       /\ local.n > Len(Tests[local.test])
       /\ LET passed == Passes(local.test, local.failed)
              fail == IF passed THEN local.fail ELSE local.fail + 2 IN
          /\ Say(<<IF passed THEN Pass ELSE Fail>>)
          /\ IF local.all /\ local.test < Len(Tests)
               THEN Go("test", [local EXCEPT !.test = @ + 1, !.n = 1, !.failed = {}, !.fail = fail])
               ELSE Return(fail)

-----------------------------------------------------------------------------
(* Calls of lib.c *)

Value(task) ==
    CASE task.fn = "memset" -> Memset(task.memory, task.dest, task.c, task.n)
      [] task.fn = "memset_word" -> MemsetWord(task.memory, task.dest, task.c, task.n)
      [] task.fn = "memset_dword" -> MemsetDword(task.memory, task.dest, task.c, task.n)
      [] task.fn = "memcpy" -> Memcpy(task.memory, task.dest, task.src, task.n)
      [] task.fn = "memmove" -> Memmove(task.memory, task.dest, task.src, task.n)
      [] task.fn = "strncmp" -> Strncmp(task.memory, task.dest, task.src, task.n)
      [] task.fn = "strcpy" -> Strcpy(task.memory, task.dest, task.src)
      [] task.fn = "strncpy" -> Strncpy(task.memory, task.dest, task.src, task.n)
      [] task.fn = "printf" -> Printf(task.format, task.values, task.modulus)

LibraryCall ==
    /\ program = "library" /\ pc = "call"
    /\ NoCall
    /\ pc' = "returned"
    /\ out' = Value(local)
    /\ UNCHANGED <<disk, program, local, typed, ended>>

AnyClient == program = "any" /\ Next /\ OnlyFiles /\ UNCHANGED user

UserNext ==
    \/ Shell \/ Ends \/ Faults \/ Wild
    \/ Cat \/ Ls \/ Grep \/ HelloProgram \/ Testprint \/ Sigtest \/ Counter \/ Pingpong
    \/ Fish \/ Syserr
    \/ LibraryCall \/ AnyClient

UserSpec == UserInit /\ [][UserNext]_uvars
=============================================================================
