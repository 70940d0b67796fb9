-------------------------- MODULE ProgramPromises ---------------------------
(***************************************************************************)
(* What the programs and the functions of lib.c are for, said without      *)
(* their buffers, loops and pieces.                                        *)
(***************************************************************************)
EXTENDS UserPrograms

\* A line is what its reader takes for a string: it ends before the newline, and
\* before the 0 that an unmapped key leaves in the buffer.  No two entries of a
\* directory have the same name.
Typed == Seq(Nat \ {0, Newline})
Distinct(image) == \A f, g \in 1 .. Len(image) : image[f].name = image[g].name => f = g

\* A file system is flat, and every byte of its files is stored.
FlatImage(image) ==
    \A f \in 1 .. Len(image) :
        /\ image[f].file_type = "directory" <=> image[f].name = Dot
        /\ image[f].name[1] = Dot[1] => image[f].name = Dot

OnDisk(v) ==
    \A f \in 1 .. Len(v.image) :
        \A k \in DOMAIN Content(v.image[f]) : v.disk[Content(v.image[f])[k]] \in Nat

ASSUME SessionsAssumption ==
    \A s \in Sessions : /\ s.lines \in Seq(Typed)
                        /\ Distinct(s.image) /\ FlatImage(s.image) /\ OnDisk(s)

\* The file system, [image, disk] like a session.
Volume == [image |-> dir_entries, disk |-> disk]

TextFiles(v) == {f \in 1 .. Len(v.image) : v.image[f].file_type = "file"}

Text(v, f) ==
    LET content == Content(v.image[f]) IN [k \in DOMAIN content |-> v.disk[content[k]]]

\* A text cut into lines; an end without a newline counts, unless it is empty.
NoLines == [done |-> <<>>, piece |-> <<>>]

LinesStep(s, c) ==
    IF c # Newline THEN [s EXCEPT !.piece = Append(@, c)]
    ELSE [done |-> Append(s.done, s.piece), piece |-> <<>>]

CutUp(text) == FoldLeft(LinesStep, NoLines, text)
LinesOf(text) == IF CutUp(text).piece = <<>> THEN CutUp(text).done
                                           ELSE Append(CutUp(text).done, CutUp(text).piece)

\* What stands between spaces: the characters so far, and the next one.
NoWords == [done |-> <<>>, piece |-> <<>>]

WordsStep(s, c) ==
    IF c # Space THEN [s EXCEPT !.piece = Append(@, c)]
    ELSE [done |-> IF s.piece = <<>> THEN s.done ELSE Append(s.done, s.piece), piece |-> <<>>]

Words(line) == FoldLeft(WordsStep, NoWords, Append(line, Space)).done
Lines(v, f) == LinesOf(Text(v, f))

FileNamed(image, name) == {f \in 1 .. Len(image) : image[f].name = name}
TheFile(v, name) == CHOOSE f \in FileNamed(v.image, name) : TRUE

\* cat: the file, or the names in the directory one after the other.
CatPrints(v, name) ==
    IF name = <<>> \/ Len(name) > BufSize THEN <<CouldNotReadArguments>>
    ELSE IF FileNamed(v.image, name) = {} THEN <<FileNotFound>>
    ELSE IF TheFile(v, name) \in TextFiles(v) THEN Text(v, TheFile(v, name))
    ELSE FlattenSeq([f \in 1 .. Len(v.image) |-> v.image[f].name])

LsPrints(v) ==
    IF FileNamed(v.image, Dot) = {} THEN <<DirectoryOpenFailed>>
    ELSE FlattenSeq([f \in 1 .. Len(v.image) |-> Append(v.image[f].name, Newline)])

\* grep: the lines of each file that contain s, if a line fits its buffer.  And
\* if the buffer is never full, or the byte behind it, which nothing has set, is
\* no newline: do_one_file looks at it and would cut the line (ece391grep.c:33).
Holds(line, s) ==
    \E i \in 0 .. Len(line) - Len(s) : SubSeq(line, i + 1, i + Len(s)) = s

GrepPrintsLine(name, line, s) ==
    IF Holds(line, s) THEN name \o <<58>> \o line \o <<Newline>> ELSE <<>>

GrepPrintsOf(v, f, s) ==
    FlattenSeq([n \in DOMAIN Lines(v, f) |-> GrepPrintsLine(v.image[f].name, Lines(v, f)[n], s)])

GrepPrints(v, s) ==
    FlattenSeq([f \in 1 .. Len(v.image) |-> IF f \in TextFiles(v) THEN GrepPrintsOf(v, f, s)
                                                                ELSE <<>>])

NoZeros(v) == \A f \in TextFiles(v) : \A k \in DOMAIN Text(v, f) : Text(v, f)[k] # 0
LinesFit(v) == \A f \in TextFiles(v) : \A n \in DOMAIN Lines(v, f) : Len(Lines(v, f)[n]) <= BufSize
FilesFit(v) == \A f \in TextFiles(v) : Len(Text(v, f)) < BufSize
BufferServes(v, junk) == NoZeros(v) /\ LinesFit(v) /\ (junk = Newline => FilesFit(v))

\* The number a numeral stands for, with no zero in front.
DigitOf(c) == IF c < 58 THEN c - 48 ELSE c - 55
NumberOf(s, radix) == FoldLeft(LAMBDA n, c : n * radix + DigitOf(c), 0, s)
IsNumeral(s, n, radix) == NumberOf(s, radix) = n /\ s # <<>> /\ (s[1] = 48 => Len(s) = 1)

\* counter: the numerals from 1 up, each on a line.
Counted(text, max) ==
    /\ CutUp(text).piece = <<>> /\ Len(CutUp(text).done) = max
    /\ \A n \in 1 .. max : IsNumeral(CutUp(text).done[n], n, 10)

\* pingpong: from the third column to the 78th and back, and the next letter.
PingpongPrints ==
    [k \in 1 .. Frames |->
        LET p == (k - 1) % 152 IN
        [column |-> IF p < 76 THEN LoopStart + p ELSE LoopMax + 75 - p,
         char |-> 65 + (((k - 1) \div 152) % 26)]]

\* fish: a character blinks where one of the two pictures has something, with
\* what the other has there, or a space.
CharShown(lines, row, col) ==
    IF row <= Len(lines) /\ col <= Len(lines[row]) THEN lines[row][col] ELSE Space

FishPrints(v) ==
    LET zero == Lines(v, TheFile(v, Frame0))
        one == Lines(v, TheFile(v, Frame1))
        rows == Max({Len(zero), Len(one)})
        width(row) == Max({IF row <= Len(l) THEN Len(l[row]) ELSE 0 : l \in {zero, one}})
        row_of(row) ==
            FlattenSeq([col \in 1 .. width(row) |->
                IF CharShown(zero, row, col) = Space /\ CharShown(one, row, col) = Space THEN <<>>
                ELSE <<[location |-> (row - 1) * 80 + (col - 1) + 40,
                        on_char |-> CharShown(zero, row, col),
                        off_char |-> CharShown(one, row, col)]>>])
    IN FlattenSeq([row \in 1 .. rows |-> row_of(row)])

\* syserr: no test fails where there is a directory, and no file of the names
\* that it tries.
SyserrCan(v) ==
    FileNamed(v.image, Dot) # {} /\ \A name \in {<<7, 7>>, <<8>>} : FileNamed(v.image, name) = {}

Prints(v, e) ==
    CASE e.program = "cat" -> e.out = CatPrints(v, e.args)
      [] e.program = "ls" -> e.out = LsPrints(v)
      [] e.program = "grep" /\ e.status = 0 -> BufferServes(v, e.local.junk) => e.out = GrepPrints(v, e.args)
      [] e.program = "syserr" -> SyserrCan(v) => \A n \in DOMAIN e.out : e.out[n] \in {Pass, Invalid}
      [] e.program = "counter" /\ Len(e.out) > 1 /\ e.out[2] # WrongChoice ->
            \E max \in ToSet(TestMax) : Counted(Tail(e.out), max)
      [] e.program = "pingpong" -> e.out = PingpongPrints
      [] e.program = "fish" -> e.status = 0 => e.out = FishPrints(v)
      [] OTHER -> TRUE

\* The programs of syscalls/ and fish/ print what they are for, however their
\* files lie in blocks and their reads in buffers, and leave nothing behind
\* that the next one could see (halt); only a file that is longer than what is
\* loaded, or shorter than the magic number, need not run so.
ProgramsPrint == ended.program # "none" /\ ended.program # "wild" => Prints(Volume, ended)

\* A line starts the file its first word names, with the other words in the
\* arguments: execute's promise to the shell.  A first word that is no file
\* with code in it starts nothing.
LineIsRun ==
    LET words == Words(ended.line) IN
    /\ ended.program # "none" /\ Len(words[1]) <= NameLen =>
          dir_entries[ended.file].name = words[1] /\ Words(ended.args) = Tail(words)
    /\ "status" \in DOMAIN ended /\ ended.status = -1 /\ words # <<>> =>
          \A f \in FileNamed(dir_entries, words[1]) : FALSE \in Magic(dir_entries[f])

\* The memory after, for bytes that may change: from \o at.
Becomes(task, n, byte(_)) ==
    out = [a \in DOMAIN task.memory |-> IF a \in task.dest .. task.dest + n - 1
                                          THEN byte(a - task.dest) ELSE task.memory[a]]

\* The dwords of memset_dword, lowest byte first.
BecomesDwords(task) ==
    Becomes(task, 4 * task.n, LAMBDA k : (task.c \div <<1, 256, 65536, 16777216>>[(k % 4) + 1]) % 256)

\* The string at an address.
Str(memory, s) == Get(memory, s, Min({n \in 0 .. Max(DOMAIN memory) - s : memory[s + n] = 0}))

Cut(s, n) == IF Len(s) > n THEN SubSeq(s, 1, n) ELSE s

\* How a conversion is written in a format, behind the percent sign.
Spelling(conversion) ==
    CASE conversion = "x" -> <<LetterX>>
      [] conversion = "#x" -> <<Alternate, LetterX>>
      [] conversion = "u" -> <<LetterU>>
      [] conversion = "d" -> <<LetterD>>
      [] conversion = "c" -> <<LetterC>>
      [] conversion = "s" -> <<LetterS>>
      [] conversion = "%" -> <<Percent>>

Formatted(first, conversion, last) == <<first, Percent>> \o Spelling(conversion) \o <<last>>

\* The calls lib.c is made for.  Memory is bytes from address 0 on, what is
\* read lies in it, and a string ends in it; only memmove may be given a
\* destination that begins inside the source.
StringAt(memory, s) ==
    s \in Nat /\ \E n \in 0 .. Max(DOMAIN memory) - s : memory[s + n] = 0

ReadsMemory(task, s) == s \in Nat /\ s + task.n <= Max(DOMAIN task.memory) + 1

OnMemory(task) ==
    /\ \E last \in DOMAIN task.memory :
          /\ last \in Nat /\ DOMAIN task.memory = 0 .. last
          /\ task.memory = [a \in 0 .. last |-> task.memory[a]]
          /\ \A a \in 0 .. last : task.memory[a] \in 0 .. 255
    /\ task.dest \in Nat /\ task.src \in Nat /\ task.n \in Nat /\ task.c \in Int

\* One conversion, between two characters; the value is a string, or a number
\* that an int can have.
OneConversion(task) ==
    LET value == task.values[1]
        first == task.format[1]
        last == task.format[Len(task.format)] IN
    /\ task.conversion \in {"x", "#x", "u", "d", "c", "s", "%"}
    /\ first \in Nat \ {Percent} /\ last \in Nat \ {Percent}
    /\ task.format = Formatted(first, task.conversion, last)
    /\ task.modulus \in Nat \ {0} /\ (task.modulus - 1) \div 65536 < 65536
    /\ IF task.conversion = "s" THEN value \in Seq(Nat)
       ELSE value \in -(task.modulus \div 2) .. (task.modulus \div 2) - 1

ValidTask(task) ==
    \/ task.fn \in {"memset", "memset_word", "memset_dword"} /\ OnMemory(task)
    \/ /\ task.fn = "memcpy" /\ OnMemory(task) /\ ReadsMemory(task, task.src)
       /\ task.dest <= task.src \/ task.src + task.n <= task.dest
    \/ task.fn = "memmove" /\ OnMemory(task) /\ ReadsMemory(task, task.src)
    \/ /\ task.fn = "strncmp" /\ OnMemory(task)
       /\ \A s \in {task.dest, task.src} : StringAt(task.memory, s) /\ ReadsMemory(task, s)
    \/ /\ task.fn \in {"strcpy", "strncpy"} /\ OnMemory(task) /\ StringAt(task.memory, task.src)
       /\ task.dest <= task.src \/ task.src + Len(Str(task.memory, task.src)) < task.dest
    \/ task.fn = "printf" /\ OneConversion(task)

ASSUME TasksAssumption == \A task \in Tasks : ValidTask(task)

\* A conversion by itself, between two other characters.
PrintsConversion(task, text) ==
    LET value == task.values[1]
        unsigned == value % task.modulus IN
    CASE task.conversion = "x" -> IsNumeral(text, unsigned, 16)
      [] task.conversion = "#x" -> Len(text) = 8 /\ NumberOf(text, 16) = unsigned
      [] task.conversion = "u" -> IsNumeral(text, unsigned, 10)
      [] task.conversion = "d" -> IF value < 0 THEN text[1] = Minus /\ IsNumeral(Tail(text), -value, 10)
                                               ELSE IsNumeral(text, value, 10)
      [] task.conversion = "c" -> text = <<value % 256>>
      [] task.conversion = "s" -> text = value
      [] task.conversion = "%" -> text = <<Percent>>

\* strncmp returns 0 for strings that are equal as far as n, and only for them.
Compares(task) ==
    (out = 0) = (Cut(Str(task.memory, task.dest), task.n) = Cut(Str(task.memory, task.src), task.n))

Documented(task) ==
    LET from(k) == task.memory[task.src + k]
        length == Len(Str(task.memory, task.src)) IN
    /\ task.fn = "memset" => Becomes(task, task.n, LAMBDA k : task.c % 256)
    /\ task.fn = "memset_word" =>
          Becomes(task, 2 * task.n, LAMBDA k : (task.c \div <<1, 256>>[(k % 2) + 1]) % 256)
    /\ task.fn = "memset_dword" => BecomesDwords(task)
    /\ task.fn \in {"memcpy", "memmove"} => Becomes(task, task.n, from)
    /\ task.fn = "strcpy" => Becomes(task, length + 1, from)
    /\ task.fn = "strncpy" => Becomes(task, task.n, LAMBDA k : IF k < length THEN from(k) ELSE 0)
    /\ task.fn = "strncmp" => Compares(task)
    /\ task.fn = "printf" => PrintsConversion(task, SubSeq(out, 2, Len(out) - 1))

\* The functions of lib.c do what their comments say, byte for byte, and touch
\* no byte besides, at every alignment and length, and for memmove at every
\* overlap; what printf prints reads back as the number it was given.
LibraryAsDocumented == program = "library" /\ pc = "returned" => Documented(local)
=============================================================================
