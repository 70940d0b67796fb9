--------------------------- MODULE MCUserPrograms ---------------------------
(***************************************************************************)
(* Instances of UserPrograms for TLC.  For the arbitrary client images     *)
(* have the directory and one or two files of up to seven bytes in blocks  *)
(* of three, so that ranges start and end inside, at and on both sides of  *)
(* block boundaries, and names that are prefixes of one another or fill    *)
(* their entry; for each program they have its file and what it reads.     *)
(* Texts are all those of a length, over the characters that the program   *)
(* tells apart.                                                            *)
(***************************************************************************)
EXTENDS ProgramPromises

Names3 == {<<1>>, <<1, 1>>, <<1, 2>>}
Queries4 == Names3 \cup {Dot, <<>>, <<2>>, <<1, 1, 1>>}

\* Also sizes that lead back within a block and over one, to the start of the
\* file, and beyond it.
Requests8 == {0, 1, 2, 4, 8, -1, -3, -8}

\* Block numbers of the files, not in order; an inode has a number after its
\* last block too.
Blocks == <<[i \in 0 .. 2 |-> 2 * i], [i \in 0 .. 2 |-> 5 - 2 * i], [i \in 0 .. 2 |-> 6 + i]>>

Entry(n, l, b, h) ==
    [name |-> n, file_type |-> "file", length_in_bytes |-> l, data_block_num |-> b, holds |-> h]
File(n, l, b) == Entry(n, l, b, "text")

Directory0 == [name |-> Dot, file_type |-> "directory", length_in_bytes |-> 0,
               data_block_num |-> <<>>, holds |-> "text"]

SmallImages ==
    {<<Directory0, File(n, l, Blocks[1])>> : n \in Names3, l \in {0, 3, 4, 6, 7}}
    \cup {<<Directory0, File(n[1], l[1], Blocks[1]), File(n[2], l[2], Blocks[2])>> :
             n \in {p \in Names3 \X Names3 : p[1] # p[2]}, l \in {<<7, 3>>, <<4, 6>>}}

\* The place of each character of the texts of the second file and on.
Stored(image, texts) ==
    LET of(f) == Content(image[f + 1])
        places(f) == ToSet(of(f)) IN
    [p \in UNION {places(f) : f \in DOMAIN texts} |->
        LET f == CHOOSE g \in DOMAIN texts : p \in places(g) IN
        texts[f][CHOOSE k \in DOMAIN of(f) : of(f)[k] = p]]

Code == <<90, Newline, 90, 90>>
LongCode == Code \o Code
Session(image, texts, lines) ==
    [image |-> image, disk |-> Stored(image, texts), lines |-> lines]

A == 97
B == 98
Texts(n, chars) == [1 .. n -> chars]

\* Programs without a file to read, with the lines they are given.
Only(holds, code) == <<Directory0, Entry(<<80>>, Len(code), Blocks[3], holds)>>
Alone(holds, lines) == Session(Only(holds, Code), <<Code>>, lines)

P == <<80>>
Digits == {<<48 + d>> : d \in 0 .. 9}
With(text) == <<Directory0, Entry(P, 4, Blocks[3], "grep"), File(<<A, B>>, Len(text), Blocks[1])>>
CatImage == <<Directory0, Entry(P, 4, Blocks[3], "cat"), File(<<A, B>>, 7, Blocks[1]), File(<<B>>, 3, Blocks[2])>>
FishImage(m, n) == <<Directory0, Entry(P, 4, Blocks[3], "fish"), File(Frame0, m, Blocks[1]),
                     File(Frame1, n, Blocks[2])>>

GrepSessions ==
    {Session(With(text), <<Code, text>>, <<P \o <<Space>> \o s>>) :
        text \in Texts(5, {A, B, Newline}) \cup Texts(2, {A, B, Newline}), s \in {<<A>>, <<A, B>>}}
    \cup {Session(With(<<>>), <<Code, <<>>>>, <<P>>)}

CatLines == {P \o <<Space>> \o name : name \in {<<A, B>>, <<B>>, Dot, <<A>>, <<A, B, Space>>}}

CatSessions ==
    {Session(CatImage, <<Code, <<1, 2, 3, 4, 5, 6, 7>>, <<8, 9, Newline>>>>, <<line, P, second>>) :
        line \in CatLines, second \in CatLines}

FishSessions ==
    {Session(FishImage(3, 2), <<Code, zero, one>>, <<P>>) :
        zero \in Texts(3, {A, Space, Newline}), one \in Texts(2, {B, Space, Newline})}
    \cup {Session(FishImage(2, 4), <<Code, zero, one>>, <<P>>) :
        zero \in Texts(2, {A, Newline}), one \in Texts(4, {B, Newline})}

\* Lines with spaces before, between and after, words that fill a name and
\* more, and the lines that start nothing.
ShellLines ==
    {<<>>, <<Space>>, <<Space, 80, Space, Space, A, Space>>, <<80, A>>, <<80, A, B>>, <<80, 80>>, Exit,
     Dot, <<A>>}

ShellSessions ==
    {Session(<<Directory0, Entry(<<80>>, 4, Blocks[3], "ls"), Entry(<<80, 80>>, 8, Blocks[1], "ls"),
               File(<<A>>, 5, Blocks[2])>>, <<Code, LongCode, <<1, 2, 3, 4, 5>>>>, <<one, two>>) :
        one \in ShellLines, two \in ShellLines}

OtherSessions ==
    {Alone("hello", <<P, <<A>>>>), Alone("testprint", <<P>>), Alone("pingpong", <<P>>)}
    \cup {Alone("sigtest", <<P \o a, <<A>>>>) : a \in {<<>>, <<Space, 49>>, <<Space, 50>>}}
    \cup {Alone("counter", <<P, d>>) : d \in Digits \cup {<<>>, <<48, 48>>}}
    \cup {Alone("syserr", <<P, d, P, <<48>>>>) : d \in Digits}
    \cup {Session(<<File(<<A>>, 0, <<>>), Entry(P, 4, Blocks[3], h)>>, <<Code>>, <<P \o <<Space, A>>>>) :
             h \in {"ls", "grep"}}    \* no directory

AllSessions == GrepSessions \cup CatSessions \cup FishSessions \cup ShellSessions \cup OtherSessions
AllImages == SmallImages \cup {s.image : s \in AllSessions}

TwelveThree == <<3, 12, 21>>

-----------------------------------------------------------------------------
(* Tasks: memory in which every byte is different, or strings.             *)

Numbered == [a \in 0 .. 19 |-> a + 1]

\* Two strings, at 0 and at 8.
Strings == {[a \in 0 .. 19 |-> IF a < 3 THEN s[a + 1] ELSE IF a \in 8 .. 10 THEN t[a - 7]
                               ELSE IF a \in {3, 11} THEN 0 ELSE 7] :
              s \in Texts(3, {A, B, 0}), t \in Texts(3, {A, B, 0})}

Task(fn, memory, dest, src, c, n) ==
    [fn |-> fn, memory |-> memory, dest |-> dest, src |-> src, c |-> c, n |-> n]

MemoryTasks ==
    {Task("memset", Numbered, dest, 0, 511, n) : dest \in 0 .. 7, n \in 0 .. 11}
    \cup {Task("memset_word", Numbered, dest, 0, 513, n) : dest \in 0 .. 3, n \in 0 .. 3}
    \cup {Task("memset_dword", Numbered, dest, 0, 67305985, n) : dest \in 0 .. 3, n \in 0 .. 2}
    \cup {Task("memcpy", Numbered, dest, src, 0, n) : dest \in 0 .. 3, src \in 12 .. 13, n \in 0 .. 7}
    \cup {Task("memcpy", Numbered, dest, src, 0, n) : dest \in 11 .. 13, src \in 0 .. 3, n \in 0 .. 7}
    \cup {Task("memmove", Numbered, dest, src, 0, n) : dest \in 0 .. 8, src \in 0 .. 8, n \in 0 .. 8}

StringTasks ==
    {Task("strncmp", m, 0, 8, 0, n) : m \in Strings, n \in {0, 2, 4}}
    \cup {Task("strcpy", m, 0, 8, 0, 0) : m \in Strings}
    \cup {Task("strncpy", m, 0, 8, 0, n) : m \in Strings, n \in {0, 2, 5}}

Printed(conversion, value) ==
    [fn |-> "printf", conversion |-> conversion,
     format |-> Formatted(A, conversion, B), values |-> <<value>>, modulus |-> 512]

PrintfTasks ==
    {Printed(conversion, v) : conversion \in {"x", "#x", "u", "d", "c"}, v \in -256 .. 255}
    \cup {Printed("s", s) : s \in {<<>>, <<Percent, LetterD>>, <<A>>}}
    \cup {Printed("%", 0)}

AllTasks == MemoryTasks \cup StringTasks \cup PrintfTasks
=============================================================================
