--------------------------- MODULE PrintingProofs ---------------------------
(***************************************************************************)
(* fish and grep print what they are for, and so every program does.       *)
(*                                                                         *)
(* fish reads its two pictures a character at a time and shows a pair of   *)
(* characters when it has both. FishFile says what of a picture was read:  *)
(* the lines of its text before the row, and as much of the row as its     *)
(* line has.                                                               *)
(*                                                                         *)
(* grep reads a file in parts, through a buffer, and looks at a line when  *)
(* its newline, or the end of the file, is there; a line that is not       *)
(* complete moves to the front of the buffer and is read on. The buffer    *)
(* holds a part of the text from the beginning of a line on (ReadPart,     *)
(* LinePart), and printed is what the lines before hold (OutTo). A buffer  *)
(* that is full is searched to the byte behind it, which the property says *)
(* is not a newline by chance (TextServes).                                *)
(*                                                                         *)
(* The invariant of all (PrintInv) has one part for each program, which    *)
(* the step of that program keeps; the other programs do not run.          *)
(***************************************************************************)
EXTENDS ProgramProofs

-----------------------------------------------------------------------------
\* fish.  One of its files: what of the line in this row was read.
RowWidth(lines, row) == IF row <= Len(lines) THEN Len(lines[row]) ELSE 0

\* The first p characters of T were read: R lines, and D characters of the
\* next one.
Reading(T, p, R, D) ==
    p \in 0 .. Len(T) /\ Len(Cuts(T, p).done) = R /\ Len(Cuts(T, p).piece) = D

\* Line R + 1 is complete, and is at most C long.
LineRead(T, p, R, C) ==
    /\ p \in 0 .. Len(T) /\ Len(Cuts(T, p).done) = R + 1 /\ Cuts(T, p).piece = <<>>
    /\ RowWidth(LinesOf(T), R + 1) <= C

\* No line is behind line R + 1, which is at most C long.
AllRead(T, R, C) == Len(LinesOf(T)) <= R + 1 /\ RowWidth(LinesOf(T), R + 1) <= C

\* With the entry e behind its descriptor, which should be f, before or after the
\* character of column C was read.
FishFile(T, eof, c, e, f, p, R, C, D) ==
    \/ /\ eof = FALSE /\ c # Newline /\ e = f /\ Reading(T, p, R, D)
       /\ D = C \/ c = Cuts(T, p).piece[D]
    \/ eof = FALSE /\ c = Newline /\ e = f /\ LineRead(T, p, R, C)
    \/ eof = TRUE /\ c = Newline /\ AllRead(T, R, C)

\* The characters of a text are numbers.
LEMMA TextInts ==
    ASSUME NEW T \in Seq(Int), NEW n \in Nat, n <= Len(T)
    PROVE  \A k \in 1 .. n : T[k] \in Int
OBVIOUS

\* What was found in a beginning of a text has lines and a piece.
LEMMA CutsShape ==
    ASSUME NEW T \in Seq(Int), NEW p \in Nat, p <= Len(T)
    PROVE  /\ Cuts(T, p) \in CutStates /\ Cuts(T, p).done \in Seq(Seq(Int)) /\ Cuts(T, p).piece \in Seq(Int)
           /\ Cuts(T, p) = [done |-> Cuts(T, p).done, piece |-> Cuts(T, p).piece]
<1>1. \A k \in 1 .. p : T[k] \in Int
    BY TextInts
<1>2. Cuts(T, p) \in CutStates
    BY <1>1, CutsAreStates
<1> QED BY <1>2 DEF CutStates

\* The next character.
LEMMA CharacterRead ==
    ASSUME NEW T \in Seq(Int), NEW c, c # Newline, NEW f, NEW eof, NEW p, NEW R \in Nat, NEW C \in Nat,
           FishFile(T, eof, c, f, f, p, R, C, C), p < Len(T), NEW x, x = T[p + 1]
    PROVE  FishFile(T, FALSE, x, f, f, p + 1, R, C, C + 1)
<1>1. p \in Nat /\ p <= Len(T) /\ Len(Cuts(T, p).done) = R /\ Len(Cuts(T, p).piece) = C
    BY DEF FishFile, Reading
<1>2. PICK d \in Seq(Seq(Int)), q \in Seq(Int) : Cuts(T, p) = [done |-> d, piece |-> q]
    BY <1>1, CutsShape
<1>3. Len(d) = R /\ Len(q) = C
    BY <1>1, <1>2
<1>4. x \in Int
    BY <1>1
<1>5. Cuts(T, p + 1) = LinesStep(Cuts(T, p), x)
    <2>1. p + 1 \in Nat /\ p + 1 <= Len(T)
        BY <1>1
    <2>2. \A k \in 1 .. p + 1 : T[k] \in Int
        BY <2>1
    <2>3. Cuts(T, p + 1) = LinesStep(Cuts(T, p), T[p + 1])
        BY <1>1, <2>2, CutsMore
    <2> QED BY <2>3
<1>6. p + 1 \in 0 .. Len(T)
    BY <1>1
<1>7. CASE x # Newline
    <2>1. Cuts(T, p + 1) = [done |-> d, piece |-> Append(q, x)]
        <3>1. LinesStep([done |-> d, piece |-> q], x) = [[done |-> d, piece |-> q] EXCEPT !.piece = Append(@, x)]
            BY <1>7 DEF LinesStep
        <3>2. [[done |-> d, piece |-> q] EXCEPT !.piece = Append(@, x)] = [done |-> d, piece |-> Append(q, x)]
            <4>1. PICK y : y = Append(q, x)
                OBVIOUS
            <4>2. [[done |-> d, piece |-> q] EXCEPT !.piece = y] = [done |-> d, piece |-> y]
                OBVIOUS
            <4>3. [[done |-> d, piece |-> q] EXCEPT !.piece = Append(@, x)] = [[done |-> d, piece |-> q] EXCEPT !.piece = y]
                BY <4>1
            <4> QED BY <4>1, <4>2, <4>3
        <3> QED BY <1>2, <1>5, <3>1, <3>2
    <2>2. Len(Append(q, x)) = C + 1 /\ Append(q, x)[C + 1] = x
        BY <1>3, <1>4
    <2>3. Reading(T, p + 1, R, C + 1) /\ Cuts(T, p + 1).piece[C + 1] = x
        BY <1>3, <1>6, <2>1, <2>2 DEF Reading
    <2> QED BY <1>7, <2>3 DEF FishFile
<1>8. CASE x = Newline
    <2>1. Cuts(T, p + 1) = [done |-> Append(d, q), piece |-> <<>>]
        <3>1. LinesStep([done |-> d, piece |-> q], x) = [done |-> Append(d, q), piece |-> <<>>]
            BY <1>8 DEF LinesStep
        <3> QED BY <1>2, <1>5, <3>1
    <2>2. Len(Append(d, q)) = R + 1
        BY <1>3
    <2>3. R + 1 <= Len(LinesOf(T)) /\ LinesOf(T)[R + 1] = q
        <3>1. p + 1 <= Len(T) /\ T[p + 1] = Newline
            BY <1>6, <1>8
        <3>2. /\ Len(Cuts(T, p).done) + 1 <= Len(LinesOf(T))
              /\ LinesOf(T)[Len(Cuts(T, p).done) + 1] = Cuts(T, p).piece
            BY <1>1, <3>1, LineEnds
        <3> QED BY <1>2, <1>3, <3>2
    <2>4. RowWidth(LinesOf(T), R + 1) <= C
        BY <1>3, <2>3 DEF RowWidth
    <2>5. LineRead(T, p + 1, R, C)
        BY <1>6, <2>1, <2>2, <2>4 DEF LineRead
    <2> QED BY <1>8, <2>5 DEF FishFile
<1> QED BY <1>7, <1>8

\* The end of the file.
LEMMA EndRead ==
    ASSUME NEW T \in Seq(Int), NEW c, c # Newline, NEW e, NEW f, NEW eof, NEW p, NEW R \in Nat, NEW C \in Nat,
           FishFile(T, eof, c, f, f, p, R, C, C), p = Len(T), NEW e2, NEW p2
    PROVE  FishFile(T, TRUE, Newline, e2, f, p2, R, C, C + 1)
<1>1. p \in Nat /\ p <= Len(T) /\ Len(Cuts(T, p).done) = R /\ Len(Cuts(T, p).piece) = C
    BY DEF FishFile, Reading
<1>2. PICK s \in CutStates : s = Cuts(T, Len(T)) /\ s.piece \in Seq(Int)
    BY <1>1, CutsShape
<1>3. Len(s.done) = R /\ Len(s.piece) = C
    BY <1>1, <1>2
<1>4. PICK L : L = LinesOf(T)
    OBVIOUS
<1>5. L = EndsLines(s)
    BY <1>2, <1>4, LinesOfIs
<1>6. /\ Len(L) = IF s.piece = <<>> THEN R ELSE R + 1
      /\ s.piece # <<>> => L[R + 1] = s.piece
    BY <1>3, <1>5, EndBegins
<1>7. Len(L) <= R + 1 /\ RowWidth(L, R + 1) <= C
    BY <1>2, <1>3, <1>6 DEF RowWidth
<1> QED BY <1>4, <1>7 DEF FishFile, AllRead

\* Of a line that has ended nothing is read.
LEMMA EndedStays ==
    ASSUME NEW T, NEW e, NEW f, NEW eof, NEW p, NEW R, NEW C, NEW D, NEW D2,
           FishFile(T, eof, Newline, e, f, p, R, C, D)
    PROVE  FishFile(T, eof, Newline, e, f, p, R, C, D2)
BY DEF FishFile

\* What the file shows in the column.
LEMMA ShownIs ==
    ASSUME NEW T \in Seq(Int), NEW c, NEW e, NEW f, NEW eof, NEW p, NEW R \in Nat, NEW C \in Nat,
           FishFile(T, eof, c, e, f, p, R, C, C + 1)
    PROVE  /\ CharShown(LinesOf(T), R + 1, C + 1) = IF c = Newline THEN Space ELSE c
           /\ c # Newline => RowWidth(LinesOf(T), R + 1) >= C + 1
           /\ c = Newline => RowWidth(LinesOf(T), R + 1) <= C
<1>1. PICK L \in Seq(Seq(Int)) : L = LinesOf(T)
    BY LinesOfIs
<1>2. CASE c = Newline
    <2>1. RowWidth(L, R + 1) <= C
        BY <1>1, <1>2 DEF FishFile, LineRead, AllRead
    <2>2. ASSUME R + 1 <= Len(L) PROVE Len(L[R + 1]) \in Nat
        BY <1>1, <2>2
    <2>3. ~(R + 1 <= Len(L) /\ C + 1 <= Len(L[R + 1]))
        BY <2>1, <2>2 DEF RowWidth
    <2> QED BY <1>1, <1>2, <2>1, <2>3 DEF CharShown
<1>3. CASE c # Newline
    <2>1. Reading(T, p, R, C + 1) /\ c = Cuts(T, p).piece[C + 1]
        BY <1>3 DEF FishFile
    <2>2. p \in 0 .. Len(T) /\ p \in Nat
        BY <2>1 DEF Reading
    <2>3. PICK s : s = Cuts(T, p)
        OBVIOUS
    <2>4. Begins(s, L)
        BY <1>1, <2>2, <2>3, CutsBegin
    <2>5. Len(s.done) = R /\ Len(s.piece) = C + 1 /\ s.piece \in Seq(Int) /\ s.piece[C + 1] = c
        BY <2>1, <2>2, <2>3, CutsShape DEF Reading
    <2>6. s.piece # <<>>
        BY <2>5
    <2>7. Len(s.done) < Len(L) /\ Len(s.piece) <= Len(L[Len(s.done) + 1])
        BY <2>4, <2>6 DEF Begins
    <2>8. \A k \in 1 .. Len(s.piece) : L[Len(s.done) + 1][k] = s.piece[k]
        BY <2>4, <2>6 DEF Begins
    <2>9. R + 1 <= Len(L) /\ C + 1 <= Len(L[R + 1])
        BY <2>5, <2>7
    <2>10. L[R + 1][C + 1] = c
        <3>1. C + 1 \in 1 .. Len(s.piece)
            BY <2>5
        <3> QED BY <2>5, <2>8, <3>1
    <2> QED BY <1>1, <1>3, <2>9, <2>10 DEF CharShown, RowWidth
<1> QED BY <1>2, <1>3

\* A column on: what was read for it is behind.
LEMMA NextColumn ==
    ASSUME NEW T \in Seq(Int), NEW c, NEW e, NEW f, NEW eof, NEW p, NEW R \in Nat, NEW C \in Nat,
           FishFile(T, eof, c, e, f, p, R, C, C + 1)
    PROVE  FishFile(T, eof, c, e, f, p, R, C + 1, C + 1)
<1>1. PICK w \in Nat : w = RowWidth(LinesOf(T), R + 1)
    <2>1. PICK L \in Seq(Seq(Int)) : L = LinesOf(T)
        BY LinesOfIs
    <2>2. CASE R + 1 <= Len(L)
        <3>1. L[R + 1] \in Seq(Int)
            BY <2>2
        <3> QED BY <2>1, <2>2, <3>1 DEF RowWidth
    <2> QED BY <2>1, <2>2 DEF RowWidth
<1>2. w <= C => w <= C + 1
    OBVIOUS
<1> QED BY <1>1, <1>2 DEF FishFile, LineRead, AllRead

\* A row on: its first character is read, or there is no more.
LEMMA NextRow ==
    ASSUME NEW T \in Seq(Int), NEW e, NEW f, NEW eof, NEW p, NEW R \in Nat, NEW C \in Nat, NEW D,
           FishFile(T, eof, Newline, e, f, p, R, C, D)
    PROVE  /\ eof = FALSE => FishFile(T, FALSE, 48, e, f, p, R + 1, 0, 0)
           /\ eof # FALSE => /\ eof = TRUE /\ Len(LinesOf(T)) <= R + 1
                             /\ \A e2, p2 : FishFile(T, TRUE, Newline, e2, f, p2, R + 1, 0, 0)
<1>1. CASE eof = FALSE
    <2>1. e = f /\ p \in 0 .. Len(T) /\ Len(Cuts(T, p).done) = R + 1 /\ Cuts(T, p).piece = <<>>
        BY <1>1 DEF FishFile, LineRead
    <2>2. Reading(T, p, R + 1, 0)
        BY <2>1 DEF Reading
    <2>3. FishFile(T, FALSE, 48, e, f, p, R + 1, 0, 0)
        BY <2>1, <2>2 DEF FishFile, Newline
    <2> QED BY <1>1, <2>3
<1>2. CASE eof # FALSE
    <2>1. eof = TRUE /\ Len(LinesOf(T)) <= R + 1
        BY <1>2 DEF FishFile, AllRead
    <2>2. Len(LinesOf(T)) \in Nat
        BY LinesOfIs
    <2>3. AllRead(T, R + 1, 0)
        BY <2>1, <2>2 DEF AllRead, RowWidth
    <2> QED BY <1>2, <2>1, <2>3 DEF FishFile
<1> QED BY <1>1, <1>2

-----------------------------------------------------------------------------
\* What fish shows, row by row.
Cell(L1, L2, row, col) ==
    IF CharShown(L1, row, col) = Space /\ CharShown(L2, row, col) = Space THEN <<>>
    ELSE <<[location |-> (row - 1) * 80 + (col - 1) + 40,
            on_char |-> CharShown(L1, row, col), off_char |-> CharShown(L2, row, col)]>>

\* What row shows, column by column.
Cells(L1, L2, row) == [col \in Nat |-> Cell(L1, L2, row, col)]

\* The length of the longer of its two lines.
Widest(L1, L2, row) == Max({RowWidth(L1, row), RowWidth(L2, row)})

\* What the pictures show, row by row.
Rows(L1, L2) == [row \in Nat |-> Flat(Cells(L1, L2, row), Widest(L1, L2, row))]

\* All of it.
FishShows(L1, L2) == Flat(Rows(L1, L2), Max({Len(L1), Len(L2)}))

\* What is shown when R rows are, and C columns of the next one.
Shown(L1, L2, R, C) == Flat(Rows(L1, L2), R) \o Flat(Cells(L1, L2, R + 1), C)

\* What ece391_blink is given.
Blinks == [location : Int, on_char : Int, off_char : Int]

\* The length of a line is a number.
LEMMA RowWidthIs ==
    ASSUME NEW L \in Seq(Seq(Int)), NEW row \in Nat \ {0}
    PROVE  RowWidth(L, row) \in Nat
<1>1. CASE row <= Len(L)
    <2>1. L[row] \in Seq(Int)
        BY <1>1
    <2> QED BY <1>1, <2>1 DEF RowWidth
<1>2. CASE ~(row <= Len(L))
    BY <1>2 DEF RowWidth
<1> QED BY <1>1, <1>2

\* A character shown is a number.
LEMMA ShownInt ==
    ASSUME NEW L \in Seq(Seq(Int)), NEW row \in Nat \ {0}, NEW col \in Nat \ {0}
    PROVE  CharShown(L, row, col) \in Int
<1>1. CASE row <= Len(L) /\ col <= Len(L[row])
    <2>1. L[row] \in Seq(Int)
        BY <1>1
    <2>2. L[row][col] \in Int
        BY <1>1, <2>1
    <2> QED BY <1>1, <2>2 DEF CharShown
<1>2. CASE ~(row <= Len(L) /\ col <= Len(L[row]))
    BY <1>2 DEF CharShown, Space
<1> QED BY <1>1, <1>2

\* A cell is shown, or is not.
LEMMA CellsAre ==
    ASSUME NEW L1 \in Seq(Seq(Int)), NEW L2 \in Seq(Seq(Int)), NEW row \in Nat \ {0}
    PROVE  \A col \in Nat \ {0} : /\ Cells(L1, L2, row)[col] = Cell(L1, L2, row, col)
                                  /\ Cells(L1, L2, row)[col] \in Seq(Blinks)
<1> SUFFICES ASSUME NEW col \in Nat \ {0}
             PROVE  /\ Cells(L1, L2, row)[col] = Cell(L1, L2, row, col)
                    /\ Cells(L1, L2, row)[col] \in Seq(Blinks)
    OBVIOUS
<1>1. Cells(L1, L2, row)[col] = Cell(L1, L2, row, col)
    BY DEF Cells
<1>2. PICK a \in Int, b \in Int : a = CharShown(L1, row, col) /\ b = CharShown(L2, row, col)
    BY ShownInt
<1>3. PICK l \in Int : l = (row - 1) * 80 + (col - 1) + 40
    OBVIOUS
<1>4. [location |-> l, on_char |-> a, off_char |-> b] \in Blinks
    BY DEF Blinks
<1>5. <<[location |-> l, on_char |-> a, off_char |-> b]>> \in Seq(Blinks)
    BY <1>4
<1>6. <<>> \in Seq(Blinks)
    OBVIOUS
<1> QED BY <1>1, <1>2, <1>3, <1>5, <1>6 DEF Cell

\* The longer line is as long as the columns that were needed.
LEMMA WidestIs ==
    ASSUME NEW L1 \in Seq(Seq(Int)), NEW L2 \in Seq(Seq(Int)), NEW row \in Nat \ {0}
    PROVE  /\ Widest(L1, L2, row) \in Nat
           /\ \A C \in Nat : /\ RowWidth(L1, row) <= C /\ RowWidth(L2, row) <= C
                             /\ C = 0 \/ C <= RowWidth(L1, row) \/ C <= RowWidth(L2, row)
                             => Widest(L1, L2, row) = C
<1>1. PICK a \in Nat, b \in Nat : a = RowWidth(L1, row) /\ b = RowWidth(L2, row)
    BY RowWidthIs
<1>2. PICK m \in {a, b} : \A k \in {a, b} : k <= m
    <2>1. CASE a <= b
        BY <2>1
    <2>2. CASE ~(a <= b)
        BY <2>2
    <2> QED BY <2>1, <2>2
<1>3. {a, b} \subseteq Int
    OBVIOUS
<1>4. Max({a, b}) = m
    BY <1>2, <1>3, MaxIs
<1>5. Widest(L1, L2, row) = m
    BY <1>1, <1>4 DEF Widest
<1> QED BY <1>1, <1>2, <1>5

\* A row is its cells up to its longer line.
LEMMA RowsAre ==
    ASSUME NEW L1 \in Seq(Seq(Int)), NEW L2 \in Seq(Seq(Int))
    PROVE  \A row \in Nat \ {0} :
              /\ Rows(L1, L2)[row] = Flat(Cells(L1, L2, row), Widest(L1, L2, row))
              /\ Rows(L1, L2)[row] \in Seq(Blinks)
<1> SUFFICES ASSUME NEW row \in Nat \ {0}
             PROVE  /\ Rows(L1, L2)[row] = Flat(Cells(L1, L2, row), Widest(L1, L2, row))
                    /\ Rows(L1, L2)[row] \in Seq(Blinks)
    OBVIOUS
<1>1. Rows(L1, L2)[row] = Flat(Cells(L1, L2, row), Widest(L1, L2, row))
    BY DEF Rows
<1>2. PICK w \in Nat : w = Widest(L1, L2, row)
    BY WidestIs
<1>3. \A col \in 1 .. w : Cells(L1, L2, row)[col] \in Seq(Blinks)
    BY CellsAre
<1>4. Flat(Cells(L1, L2, row), w) \in Seq(Blinks)
    BY <1>3, FlatIsSeq
<1> QED BY <1>1, <1>2, <1>4

\* Appending is associative.
LEMMA Regrouped ==
    ASSUME NEW D, NEW a \in Seq(D), NEW b \in Seq(D), NEW c \in Seq(D)
    PROVE  (a \o b) \o c = a \o (b \o c)
BY ConcatAssociative

\* Before its first column a row shows what the rows before it show.
LEMMA RowBegins ==
    ASSUME NEW L1 \in Seq(Seq(Int)), NEW L2 \in Seq(Seq(Int)), NEW R \in Nat
    PROVE  /\ Shown(L1, L2, R, 0) = Flat(Rows(L1, L2), R)
           /\ Flat(Rows(L1, L2), R) \in Seq(Blinks)
<1>1. Flat(Rows(L1, L2), R) \in Seq(Blinks)
    <2>1. \A row \in 1 .. R : Rows(L1, L2)[row] \in Seq(Blinks)
        BY RowsAre
    <2> QED BY <2>1, FlatIsSeq
<1>2. Flat(Cells(L1, L2, R + 1), 0) = <<>>
    BY FlatNone
<1>3. Flat(Rows(L1, L2), R) \o <<>> = Flat(Rows(L1, L2), R)
    BY <1>1, ConcatEmptySeq
<1> QED BY <1>1, <1>2, <1>3 DEF Shown

\* A column on, one cell more is shown.
LEMMA ColumnShown ==
    ASSUME NEW L1 \in Seq(Seq(Int)), NEW L2 \in Seq(Seq(Int)), NEW R \in Nat, NEW C \in Nat
    PROVE  /\ Shown(L1, L2, R, C + 1) = Shown(L1, L2, R, C) \o Cell(L1, L2, R + 1, C + 1)
           /\ Shown(L1, L2, R, C) \in Seq(Blinks)
<1>1. PICK row \in Nat \ {0} : row = R + 1
    OBVIOUS
<1>2. PICK F : F = Cells(L1, L2, row)
    OBVIOUS
<1>3. F[C + 1] = Cell(L1, L2, row, C + 1) /\ F[C + 1] \in Seq(Blinks)
    <2>1. C + 1 \in Nat \ {0}
        OBVIOUS
    <2> QED BY <1>2, <2>1, CellsAre
<1>4. Flat(F, C + 1) = Flat(F, C) \o F[C + 1]
    BY <1>3, FlatMore
<1>5. Flat(F, C) \in Seq(Blinks)
    <2>1. \A col \in 1 .. C : F[col] \in Seq(Blinks)
        BY <1>2, CellsAre
    <2> QED BY <2>1, FlatIsSeq
<1>6. PICK rows \in Seq(Blinks) : rows = Flat(Rows(L1, L2), R)
    BY RowBegins
<1>7. rows \o (Flat(F, C) \o F[C + 1]) = (rows \o Flat(F, C)) \o F[C + 1]
    <2>1. PICK D : D = Blinks
        OBVIOUS
    <2>2. PICK x : x = Flat(F, C)
        OBVIOUS
    <2>3. PICK y : y = F[C + 1]
        OBVIOUS
    <2>4. x \in Seq(D) /\ y \in Seq(D) /\ rows \in Seq(D)
        BY <1>3, <1>5, <1>6, <2>1, <2>2, <2>3
    <2>5. (rows \o x) \o y = rows \o (x \o y)
        BY <2>4, Regrouped
    <2> QED BY <2>2, <2>3, <2>5
<1>8. rows \o Flat(F, C) \in Seq(Blinks)
    BY <1>5, ConcatProperties
<1> QED BY <1>1, <1>2, <1>3, <1>4, <1>6, <1>7, <1>8 DEF Shown

\* Behind its last column, a row is shown.
LEMMA RowShown ==
    ASSUME NEW L1 \in Seq(Seq(Int)), NEW L2 \in Seq(Seq(Int)), NEW R \in Nat, NEW C \in Nat,
           RowWidth(L1, R + 1) <= C, RowWidth(L2, R + 1) <= C,
           C = 0 \/ C <= RowWidth(L1, R + 1) \/ C <= RowWidth(L2, R + 1)
    PROVE  Shown(L1, L2, R, C) = Flat(Rows(L1, L2), R + 1)
<1>1. PICK row \in Nat \ {0} : row = R + 1
    OBVIOUS
<1>2. Widest(L1, L2, row) = C
    BY <1>1, WidestIs
<1>3. Rows(L1, L2)[R + 1] = Flat(Cells(L1, L2, R + 1), C) /\ Rows(L1, L2)[R + 1] \in Seq(Blinks)
    BY <1>1, <1>2, RowsAre
<1>4. Flat(Rows(L1, L2), R + 1) = Flat(Rows(L1, L2), R) \o Rows(L1, L2)[R + 1]
    BY <1>3, FlatMore
<1> QED BY <1>3, <1>4 DEF Shown

\* Behind their last row, the pictures are shown.
LEMMA AllShown ==
    ASSUME NEW L1 \in Seq(Seq(Int)), NEW L2 \in Seq(Seq(Int)), NEW R \in Nat,
           Len(L1) <= R + 1, Len(L2) <= R + 1
    PROVE  Flat(Rows(L1, L2), R + 1) = FishShows(L1, L2)
<1>1. PICK a \in Nat, b \in Nat : a = Len(L1) /\ b = Len(L2)
    OBVIOUS
<1>2. PICK m \in {a, b} : \A k \in {a, b} : k <= m
    <2>1. CASE a <= b
        BY <2>1
    <2>2. CASE ~(a <= b)
        BY <2>2
    <2> QED BY <2>1, <2>2
<1>3. {a, b} \subseteq Int
    OBVIOUS
<1>4. Max({a, b}) = m
    BY <1>2, <1>3, MaxIs
<1>5. PICK n \in Nat : n = R + 1
    OBVIOUS
<1>6. m \in Nat /\ m <= n
    BY <1>1, <1>2, <1>5
<1>7. \A row \in 1 .. m : Rows(L1, L2)[row] \in Seq(Blinks)
    BY <1>6, RowsAre
<1>8. ASSUME NEW row \in m + 1 .. n PROVE Rows(L1, L2)[row] = <<>>
    <2>1. row \in Nat \ {0} /\ ~(row <= a) /\ ~(row <= b)
        BY <1>1, <1>2, <1>6, <1>8
    <2>2. RowWidth(L1, row) = 0 /\ RowWidth(L2, row) = 0
        BY <1>1, <2>1 DEF RowWidth
    <2>3. Widest(L1, L2, row) = 0
        <3>1. PICK C \in Nat : C = 0 /\ RowWidth(L1, row) <= C /\ RowWidth(L2, row) <= C
            BY <2>2
        <3> QED BY <2>1, <3>1, WidestIs
    <2>4. Flat(Cells(L1, L2, row), 0) = <<>>
        BY FlatNone
    <2> QED BY <2>1, <2>3, <2>4, RowsAre
<1>9. Flat(Rows(L1, L2), n) = Flat(Rows(L1, L2), m)
    BY <1>6, <1>7, <1>8, FlatOfNothing
<1> QED BY <1>1, <1>4, <1>5, <1>9 DEF FishShows

\* What the property asks of fish is that.
LEMMA FishPrintsIs ==
    ASSUME NEW v, NEW L1 \in Seq(Seq(Int)), NEW L2 \in Seq(Seq(Int)),
           L1 = Lines(v, TheFile(v, Frame0)), L2 = Lines(v, TheFile(v, Frame1))
    PROVE  FishPrints(v) = FishShows(L1, L2)
<1> DEFINE wide(row) == Max({IF row <= Len(l) THEN Len(l[row]) ELSE 0 : l \in {L1, L2}})
           blink(row, col) ==
                IF CharShown(L1, row, col) = Space /\ CharShown(L2, row, col) = Space THEN <<>>
                ELSE <<[location |-> (row - 1) * 80 + (col - 1) + 40,
                        on_char |-> CharShown(L1, row, col),
                        off_char |-> CharShown(L2, row, col)]>>
           shown(row) == FlattenSeq([col \in 1 .. wide(row) |-> blink(row, col)])
           high == Max({Len(L1), Len(L2)})
<1>1. FishPrints(v) = FlattenSeq([row \in 1 .. high |-> shown(row)])
    BY Zenon DEF FishPrints
<1>2. ASSUME NEW row \in Nat PROVE shown(row) = Rows(L1, L2)[row]
    <2>1. wide(row) = Widest(L1, L2, row)
        <3>1. {IF row <= Len(l) THEN Len(l[row]) ELSE 0 : l \in {L1, L2}}
                 = {RowWidth(L1, row), RowWidth(L2, row)}
            BY DEF RowWidth
        <3> QED BY <3>1 DEF Widest
    <2>2. \A col : blink(row, col) = Cell(L1, L2, row, col)
        BY DEF Cell
    <2> HIDE DEF wide, blink
    <2>3. PICK w : w = Widest(L1, L2, row)
        OBVIOUS
    <2>4. [col \in 1 .. w |-> blink(row, col)] = [col \in 1 .. w |-> Cells(L1, L2, row)[col]]
        <3>1. \A col \in 1 .. w : col \in Nat
            OBVIOUS
        <3>2. \A col \in 1 .. w : Cells(L1, L2, row)[col] = blink(row, col)
            BY <2>2, <3>1 DEF Cells
        <3> QED BY <3>2
    <2>5. shown(row) = Flat(Cells(L1, L2, row), w)
        BY <2>1, <2>3, <2>4 DEF Flat
    <2> QED BY <2>3, <2>5 DEF Rows
<1> HIDE DEF shown, high
<1>3. [row \in 1 .. high |-> shown(row)] = [row \in 1 .. high |-> Rows(L1, L2)[row]]
    <2>1. \A row \in 1 .. high : row \in Nat
        OBVIOUS
    <2> QED BY <1>2, <2>1
<1>4. FishPrints(v) = Flat(Rows(L1, L2), high)
    BY <1>1, <1>3 DEF Flat
<1> QED BY <1>4 DEF FishShows, high

-----------------------------------------------------------------------------
\* fish, step by step.
FishLocal(a, b, x, y, d, e, t, R, C) ==
    [fd |-> <<a, b>>, c |-> <<x, y>>, eof |-> <<d, e>>, turn |-> t, row |-> R, col |-> C]

\* The column is no further than a line of the row goes.
Narrow(T, U, R, C) ==
    C = 0 \/ C <= RowWidth(LinesOf(T), R + 1) \/ C <= RowWidth(LinesOf(U), R + 1)

\* The pictures, with their descriptors.
Pictures(a, b, f, g) ==
    /\ a \in Fds /\ b \in Fds /\ a # b
    /\ f \in FileNamed(dir_entries, Frame0) /\ g \in FileNamed(dir_entries, Frame1)

\* fish reads a character of row R + 1, column C + 1: of picture 1, or, when
\* that one is there, of picture 2.
FishReading(a, b, f, g, x, y, d, e, t, R, C) ==
    LET T == Text(Volume, f)
        U == Text(Volume, g) IN
    /\ local = FishLocal(a, b, x, y, d, e, t, R, C)
    /\ out = Shown(LinesOf(T), LinesOf(U), R, C)
    /\ Narrow(T, U, R, C)
    /\ \/ t = 1 /\ FishFile(T, d, x, inode[a], f, file_position[a], R, C, C)
       \/ t = 2 /\ FishFile(T, d, x, inode[a], f, file_position[a], R, C, C + 1)
    /\ FishFile(U, e, y, inode[b], g, file_position[b], R, C, C)

\* It is at the end of row R + 1, whose lines were both read.
FishRowing(a, b, f, g, x, d, e, t, R, C) ==
    LET T == Text(Volume, f)
        U == Text(Volume, g) IN
    /\ local = FishLocal(a, b, x, Newline, d, e, t, R, C)
    /\ out = Flat(Rows(LinesOf(T), LinesOf(U)), R + 1)
    /\ \/ t = 1 /\ x = Newline /\ FishFile(T, d, x, inode[a], f, file_position[a], R, C, C + 1)
       \/ /\ t = 2 /\ FishFile(T, d, x, inode[a], f, file_position[a], R + 1, 0, 0)
          /\ d # FALSE => d = TRUE /\ Len(LinesOf(T)) <= R + 1
    /\ FishFile(U, e, Newline, inode[b], g, file_position[b], R, C, C + 1)

\* It reads, and has shown what is before.
FishReads ==
    \E a, b, f, g, x, y, d, e, t, R, C :
        /\ Pictures(a, b, f, g) /\ R \in Nat /\ C \in Nat
        /\ FishReading(a, b, f, g, x, y, d, e, t, R, C)

\* It is at the end of a row, and has shown what is before.
FishRows ==
    \E a, b, f, g, x, d, e, t, R, C :
        /\ Pictures(a, b, f, g) /\ R \in Nat /\ C \in Nat
        /\ FishRowing(a, b, f, g, x, d, e, t, R, C)

\* It has opened a picture, and shown nothing.
FishOpened ==
    \E fd \in Fds, f \in FileNamed(dir_entries, Frame0) :
        local = <<fd>> /\ inode[fd] = f /\ file_position[fd] = 0

\* The invariant of fish.
FishInv ==
    \/ Started
    \/ pc = "open 0" /\ out = <<>>
    \/ pc = "open 1" /\ out = <<>> /\ FishOpened
    \/ pc = "read" /\ FishReads
    \/ pc = "row" /\ FishRows
    \/ pc = "exit" /\ (local.status = 0 => out = FishPrints(Volume))

\* A picture before its first character.
LEMMA FishBegins ==
    ASSUME NEW T \in Seq(Int), NEW f
    PROVE  FishFile(T, FALSE, 48, f, f, 0, 0, 0, 0)
<1>1. Cuts(T, 0) = [done |-> <<>>, piece |-> <<>>]
    BY CutsNone DEF NoLines
<1>2. Reading(T, 0, 0, 0)
    BY <1>1 DEF Reading
<1> QED BY <1>2 DEF FishFile, Newline

\* What a pair of characters adds.
BothShown(T, U, R, C, x, y) ==
    /\ x = Newline /\ y = Newline =>
         Shown(LinesOf(T), LinesOf(U), R, C) = Flat(Rows(LinesOf(T), LinesOf(U)), R + 1)
    /\ x \in {Space, Newline} /\ y \in {Space, Newline} =>
         Shown(LinesOf(T), LinesOf(U), R, C + 1) = Shown(LinesOf(T), LinesOf(U), R, C)
    /\ ~(x \in {Space, Newline} /\ y \in {Space, Newline}) =>
         Shown(LinesOf(T), LinesOf(U), R, C + 1)
           = Shown(LinesOf(T), LinesOf(U), R, C)
               \o <<[location |-> R * 80 + C + 40,
                     on_char |-> IF x = Newline THEN Space ELSE x,
                     off_char |-> IF y = Newline THEN Space ELSE y]>>

\* And the next column follows.
BothGoOn(T, U, R, C, d, x, i, f, p, e, y, j, g, q) ==
    ~(x = Newline /\ y = Newline) =>
        /\ FishFile(T, d, x, i, f, p, R, C + 1, C + 1) /\ FishFile(U, e, y, j, g, q, R, C + 1, C + 1)
        /\ Narrow(T, U, R, C + 1)

\* After both of its characters are there.
LEMMA BothRead ==
    ASSUME NEW T \in Seq(Int), NEW U \in Seq(Int), NEW R \in Nat, NEW C \in Nat,
           NEW d, NEW x, NEW i, NEW f, NEW p, NEW e, NEW y, NEW j, NEW g, NEW q,
           FishFile(T, d, x, i, f, p, R, C, C + 1), FishFile(U, e, y, j, g, q, R, C, C + 1),
           Narrow(T, U, R, C)
    PROVE  BothShown(T, U, R, C, x, y) /\ BothGoOn(T, U, R, C, d, x, i, f, p, e, y, j, g, q)
<1>1. PICK L \in Seq(Seq(Int)) : L = LinesOf(T)
    BY LinesOfIs
<1>2. PICK M \in Seq(Seq(Int)) : M = LinesOf(U)
    BY LinesOfIs
<1>3. /\ CharShown(L, R + 1, C + 1) = IF x = Newline THEN Space ELSE x
      /\ x # Newline => RowWidth(L, R + 1) >= C + 1
      /\ x = Newline => RowWidth(L, R + 1) <= C
    BY <1>1, ShownIs
<1>4. /\ CharShown(M, R + 1, C + 1) = IF y = Newline THEN Space ELSE y
      /\ y # Newline => RowWidth(M, R + 1) >= C + 1
      /\ y = Newline => RowWidth(M, R + 1) <= C
    BY <1>2, ShownIs
<1>5. ASSUME x = Newline, y = Newline PROVE Shown(L, M, R, C) = Flat(Rows(L, M), R + 1)
    <2>1. C = 0 \/ C <= RowWidth(L, R + 1) \/ C <= RowWidth(M, R + 1)
        BY <1>1, <1>2 DEF Narrow
    <2> QED BY <1>3, <1>4, <1>5, <2>1, RowShown
<1>6. ASSUME ~(x = Newline /\ y = Newline)
      PROVE  /\ FishFile(T, d, x, i, f, p, R, C + 1, C + 1) /\ FishFile(U, e, y, j, g, q, R, C + 1, C + 1)
             /\ Narrow(T, U, R, C + 1)
    <2>1. FishFile(T, d, x, i, f, p, R, C + 1, C + 1) /\ FishFile(U, e, y, j, g, q, R, C + 1, C + 1)
        BY NextColumn
    <2>2. PICK n \in Nat, m \in Nat : n = RowWidth(L, R + 1) /\ m = RowWidth(M, R + 1)
        <3>1. R + 1 \in Nat \ {0}
            OBVIOUS
        <3> QED BY <3>1, RowWidthIs
    <2>3. C + 1 <= n \/ C + 1 <= m
        BY <1>3, <1>4, <1>6, <2>2
    <2>4. Narrow(T, U, R, C + 1)
        BY <1>1, <1>2, <2>2, <2>3 DEF Narrow
    <2> QED BY <2>1, <2>4
<1>7. /\ Shown(L, M, R, C + 1) = Shown(L, M, R, C) \o Cell(L, M, R + 1, C + 1)
      /\ Shown(L, M, R, C) \in Seq(Blinks)
    BY ColumnShown
<1>8. ASSUME x \in {Space, Newline}, y \in {Space, Newline} PROVE Shown(L, M, R, C + 1) = Shown(L, M, R, C)
    <2>1. Cell(L, M, R + 1, C + 1) = <<>>
        BY <1>3, <1>4, <1>8 DEF Cell
    <2>2. Shown(L, M, R, C) \o <<>> = Shown(L, M, R, C)
        BY <1>7, ConcatEmptySeq
    <2> QED BY <1>7, <2>1, <2>2
<1>9. ASSUME ~(x \in {Space, Newline} /\ y \in {Space, Newline})
      PROVE  Shown(L, M, R, C + 1)
                  = Shown(L, M, R, C)
                      \o <<[location |-> R * 80 + C + 40,
                            on_char |-> IF x = Newline THEN Space ELSE x,
                            off_char |-> IF y = Newline THEN Space ELSE y]>>
    <2>1. ~(CharShown(L, R + 1, C + 1) = Space /\ CharShown(M, R + 1, C + 1) = Space)
        BY <1>3, <1>4, <1>9
    <2>2. (R + 1 - 1) * 80 + (C + 1 - 1) + 40 = R * 80 + C + 40
        OBVIOUS
    <2>3. Cell(L, M, R + 1, C + 1) = <<[location |-> R * 80 + C + 40,
                                       on_char |-> IF x = Newline THEN Space ELSE x,
                                       off_char |-> IF y = Newline THEN Space ELSE y]>>
        BY <1>3, <1>4, <2>1, <2>2 DEF Cell
    <2> QED BY <1>7, <2>3
<1>10. BothShown(T, U, R, C, x, y)
    BY <1>1, <1>2, <1>5, <1>8, <1>9 DEF BothShown
<1>11. BothGoOn(T, U, R, C, d, x, i, f, p, e, y, j, g, q)
    BY <1>6, Zenon DEF BothGoOn
<1> QED BY <1>10, <1>11

\* One of them.
TakesOne(a, c, eof) ==
    c = (IF result' = 0 THEN Newline ELSE Fresh(a)[1]) /\ eof = (result' = 0)

\* What a picture is after a character was read of it.
OneTaken(a, f, c, eof, R, C) ==
    /\ FishFile(Text(Volume, f), eof, c, inode'[a], f, file_position'[a], R, C, C + 1)
    /\ inode' = inode /\ \A h \in Fds : h # a => file_position'[h] = file_position[h]

\* A read of one byte reads one character, or finds the end.
LEMMA OneRead ==
    ASSUME ReadInv, Sound, NEW name, name # Dot, NEW f \in FileNamed(dir_entries, name), NEW a \in Fds,
           Read(a, 1), NEW R \in Nat, NEW C \in Nat, NEW d, NEW c, c # Newline,
           FishFile(Text(Volume, f), d, c, inode[a], f, file_position[a], R, C, C),
           NEW c2, NEW d2, TakesOne(a, c2, d2)
    PROVE  OneTaken(a, f, c2, d2, R, C)
<1>1. f \in 1 .. Len(dir_entries) /\ inode[a] = f
    BY DEF FishFile, FileNamed
<1>2. PICK T \in Seq(Int) : T = Text(Volume, f)
    BY <1>1, TextIs
<1>3. Regular(a)
    <2>1. dir_entries[f].file_type # "directory"
        BY <1>1 DEF Sound, FlatImage, FileNamed
    <2>2. ~Directory(a)
        BY <1>1, <2>1 DEF Directory
    <2> QED BY <2>2, ReadOfWhat
<1>4. PICK p \in Nat, r \in Nat : ReadsText(a, 1, T, p, r)
    <2>1. PICK n \in Nat : n = 1
        OBVIOUS
    <2>2. \E p \in Nat, r \in Nat : ReadsText(a, n, Text(Volume, inode[a]), p, r)
        BY <1>3, <2>1, ReadGivesText
    <2> QED BY <1>1, <1>2, <2>1, <2>2
<1>5. /\ p = file_position[a] /\ result' = r /\ p + r <= Len(T) /\ r <= 1 /\ (r = 1 \/ p + r = Len(T))
      /\ Fresh(a) = SubSeq(T, p + 1, p + r) /\ inode' = inode
      /\ file_position' = [file_position EXCEPT ![a] = p + r]
    BY <1>4 DEF ReadsText
<1>6. file_position'[a] = p + r /\ \A h \in Fds : h # a => file_position'[h] = file_position[h]
    BY <1>5 DEF ReadInv, PositionInFile
<1>7. FishFile(T, d, c, f, f, p, R, C, C)
    BY <1>1, <1>2, <1>5
<1>8. CASE r = 1
    <2>1. p < Len(T) /\ p + 1 \in 1 .. Len(T)
        <3>1. PICK l \in Nat : l = Len(T)
            BY <1>2
        <3>2. p + 1 <= l
            BY <1>5, <1>8, <3>1
        <3>3. p < l /\ p + 1 \in 1 .. l
            BY <1>4, <3>1, <3>2
        <3> QED BY <3>1, <3>3
    <2>2. PICK x : x = T[p + 1]
        OBVIOUS
    <2>3. c2 = x /\ d2 = FALSE
        <3>1. Fresh(a) = SubSeq(T, p + 1, p + 1)
            BY <1>5, <1>8
        <3>2. SubSeq(T, p + 1, p + 1)[1] = T[p + 1]
            <4>1. PICK n \in 1 .. Len(T) : n = p + 1
                BY <2>1
            <4>2. SubSeq(T, n, n)[1] = T[n]
                BY <1>2
            <4> QED BY <4>1, <4>2
        <3>3. result' # 0
            BY <1>5, <1>8
        <3> QED BY <2>2, <3>1, <3>2, <3>3 DEF TakesOne
    <2>4. FishFile(T, FALSE, x, f, f, p + 1, R, C, C + 1)
        BY <1>7, <2>1, <2>2, CharacterRead
    <2> QED BY <1>1, <1>2, <1>5, <1>6, <1>8, <2>3, <2>4 DEF OneTaken
<1>9. CASE r # 1
    <2>1. r = 0 /\ p = Len(T)
        BY <1>5, <1>9
    <2>2. c2 = Newline /\ d2 = TRUE
        <3>1. result' = 0
            BY <1>5, <2>1
        <3> QED BY <3>1 DEF TakesOne
    <2>3. PICK m : m = file_position'[a]
        OBVIOUS
    <2>4. FishFile(T, TRUE, Newline, f, f, m, R, C, C + 1)
        BY <1>7, <2>1, EndRead
    <2> QED BY <1>1, <1>2, <1>5, <1>6, <2>2, <2>3, <2>4 DEF OneTaken
<1> QED BY <1>8, <1>9

-----------------------------------------------------------------------------
\* The steps of fish.

\* Its variables after a change.
LEMMA PairIs ==
    ASSUME NEW x, NEW y, NEW z
    PROVE  [<<x, y>> EXCEPT ![1] = z] = <<z, y>> /\ [<<x, y>> EXCEPT ![2] = z] = <<x, z>>
OBVIOUS

\* What the steps do to the variables of animate.
PutFirst(l, c, i) == [l EXCEPT !.c[1] = c, !.eof[1] = i]
PutSecond(l, c, i) == [l EXCEPT !.c[2] = c, !.eof[2] = i]
PutColumn(l, u, m) == [l EXCEPT !.turn = u, !.col = m]
PutRow(l, u, k, m) == [l EXCEPT !.turn = u, !.row = k, !.col = m]

\* The character of the first picture, and whether it is at its end.
LEMMA FirstChanged ==
    ASSUME NEW a, NEW b, NEW x, NEW y, NEW d, NEW e, NEW t, NEW R, NEW C, NEW c, NEW i
    PROVE  PutFirst(FishLocal(a, b, x, y, d, e, t, R, C), c, i) = FishLocal(a, b, c, y, i, e, t, R, C)
<1>1. PICK k, l : k = [<<x, y>> EXCEPT ![1] = c] /\ l = [<<d, e>> EXCEPT ![1] = i]
    OBVIOUS
<1>2. k = <<c, y>> /\ l = <<i, e>>
    BY <1>1, PairIs
<1>3. [FishLocal(a, b, x, y, d, e, t, R, C) EXCEPT !.c[1] = c, !.eof[1] = i]
        = [FishLocal(a, b, x, y, d, e, t, R, C) EXCEPT !.c = k, !.eof = l]
    BY <1>1 DEF FishLocal
<1>4. [FishLocal(a, b, x, y, d, e, t, R, C) EXCEPT !.c = k, !.eof = l]
        = [[FishLocal(a, b, x, y, d, e, t, R, C) EXCEPT !.c = k] EXCEPT !.eof = l]
    OBVIOUS
<1>5. PICK r : r = [FishLocal(a, b, x, y, d, e, t, R, C) EXCEPT !.c = k]
    OBVIOUS
<1>6. r = [fd |-> <<a, b>>, c |-> k, eof |-> <<d, e>>, turn |-> t, row |-> R, col |-> C]
    BY <1>5 DEF FishLocal
<1>7. [r EXCEPT !.eof = l] = [fd |-> <<a, b>>, c |-> k, eof |-> l, turn |-> t, row |-> R, col |-> C]
    BY <1>6
<1> QED BY <1>2, <1>3, <1>4, <1>5, <1>7 DEF FishLocal, PutFirst

\* Those of the second one.
LEMMA SecondChanged ==
    ASSUME NEW a, NEW b, NEW x, NEW y, NEW d, NEW e, NEW t, NEW R, NEW C, NEW c, NEW i
    PROVE  PutSecond(FishLocal(a, b, x, y, d, e, t, R, C), c, i) = FishLocal(a, b, x, c, d, i, t, R, C)
<1>1. PICK k, l : k = [<<x, y>> EXCEPT ![2] = c] /\ l = [<<d, e>> EXCEPT ![2] = i]
    OBVIOUS
<1>2. k = <<x, c>> /\ l = <<d, i>>
    BY <1>1, PairIs
<1>3. [FishLocal(a, b, x, y, d, e, t, R, C) EXCEPT !.c[2] = c, !.eof[2] = i]
        = [FishLocal(a, b, x, y, d, e, t, R, C) EXCEPT !.c = k, !.eof = l]
    BY <1>1 DEF FishLocal
<1>4. [FishLocal(a, b, x, y, d, e, t, R, C) EXCEPT !.c = k, !.eof = l]
        = [[FishLocal(a, b, x, y, d, e, t, R, C) EXCEPT !.c = k] EXCEPT !.eof = l]
    OBVIOUS
<1>5. PICK r : r = [FishLocal(a, b, x, y, d, e, t, R, C) EXCEPT !.c = k]
    OBVIOUS
<1>6. r = [fd |-> <<a, b>>, c |-> k, eof |-> <<d, e>>, turn |-> t, row |-> R, col |-> C]
    BY <1>5 DEF FishLocal
<1>7. [r EXCEPT !.eof = l] = [fd |-> <<a, b>>, c |-> k, eof |-> l, turn |-> t, row |-> R, col |-> C]
    BY <1>6
<1> QED BY <1>2, <1>3, <1>4, <1>5, <1>7 DEF FishLocal, PutSecond

\* The other picture.
LEMMA TurnChanged ==
    ASSUME NEW a, NEW b, NEW x, NEW y, NEW d, NEW e, NEW t, NEW R, NEW C, NEW u
    PROVE  [FishLocal(a, b, x, y, d, e, t, R, C) EXCEPT !.turn = u] = FishLocal(a, b, x, y, d, e, u, R, C)
BY DEF FishLocal

\* The next column.
LEMMA ColumnChanged ==
    ASSUME NEW a, NEW b, NEW x, NEW y, NEW d, NEW e, NEW t, NEW R, NEW C, NEW u, NEW m
    PROVE  PutColumn(FishLocal(a, b, x, y, d, e, t, R, C), u, m) = FishLocal(a, b, x, y, d, e, u, R, m)
<1>1. [FishLocal(a, b, x, y, d, e, t, R, C) EXCEPT !.turn = u, !.col = m]
        = [[FishLocal(a, b, x, y, d, e, t, R, C) EXCEPT !.turn = u] EXCEPT !.col = m]
    OBVIOUS
<1>2. PICK r : r = [FishLocal(a, b, x, y, d, e, t, R, C) EXCEPT !.turn = u]
    OBVIOUS
<1>3. r = FishLocal(a, b, x, y, d, e, u, R, C)
    BY <1>2, TurnChanged
<1>4. [r EXCEPT !.col = m] = FishLocal(a, b, x, y, d, e, u, R, m)
    BY <1>3 DEF FishLocal
<1> QED BY <1>1, <1>2, <1>4 DEF PutColumn

\* The next row.
LEMMA RowChanged ==
    ASSUME NEW a, NEW b, NEW x, NEW y, NEW d, NEW e, NEW t, NEW R, NEW C, NEW u, NEW k, NEW m
    PROVE  PutRow(FishLocal(a, b, x, y, d, e, t, R, C), u, k, m)
             = FishLocal(a, b, x, y, d, e, u, k, m)
<1>1. [FishLocal(a, b, x, y, d, e, t, R, C) EXCEPT !.turn = u, !.row = k, !.col = m]
        = [[[FishLocal(a, b, x, y, d, e, t, R, C) EXCEPT !.turn = u] EXCEPT !.row = k] EXCEPT !.col = m]
    OBVIOUS
<1>2. PICK r : r = [FishLocal(a, b, x, y, d, e, t, R, C) EXCEPT !.turn = u]
    OBVIOUS
<1>3. r = FishLocal(a, b, x, y, d, e, u, R, C)
    BY <1>2, TurnChanged
<1>4. PICK q : q = [r EXCEPT !.row = k]
    OBVIOUS
<1>5. q = FishLocal(a, b, x, y, d, e, u, k, C)
    BY <1>3, <1>4 DEF FishLocal
<1>6. [q EXCEPT !.col = m] = FishLocal(a, b, x, y, d, e, u, k, m)
    BY <1>5 DEF FishLocal
<1> QED BY <1>1, <1>2, <1>4, <1>6 DEF PutRow

\* A descriptor is no error.
LEMMA NoError ==
    ASSUME NEW n \in Nat
    PROVE  n # -1
OBVIOUS

\* Without its pictures it says nothing.
LEMMA FishFails ==
    ASSUME Return(255)
    PROVE  FishInv'
<1>1. pc' = "exit" /\ local' = [status |-> 255]
    BY DEF Return, Go
<1>2. local'.status # 0
    BY <1>1
<1> QED BY <1>1, <1>2 DEF FishInv

\* The names of the pictures are strings.
LEMMA FrameNames == Frame0 \in CStrings /\ Frame1 \in CStrings
<1>1. PICK a \in Nat \ {0}, b \in Nat \ {0}, c \in Nat \ {0} : a = 70 /\ b = 48 /\ c = 49
    OBVIOUS
<1>2. <<a, b>> \in Seq(Nat \ {0}) /\ <<a, c>> \in Seq(Nat \ {0})
    OBVIOUS
<1> QED BY <1>1, <1>2 DEF Frame0, Frame1, CStrings

\* No file has number 0.
LEMMA NoFileZero ==
    ASSUME NEW name, NEW f \in FileNamed(dir_entries, name)
    PROVE  f # 0
BY DEF FileNamed

\* fish begins with nothing open.
LEMMA FishMainStep ==
    ASSUME Started, FishMain
    PROVE  FishInv'
<1>1. out' = out /\ out = <<>>
    BY DEF Started, FishMain
<1>2. CASE Return(255)
    BY <1>2, FishFails
<1>3. CASE Go("open 0", <<>>)
    BY <1>1, <1>3 DEF Go, FishInv
<1> QED BY <1>2, <1>3 DEF FishMain

\* It opens its first picture, or fails.
LEMMA FirstOpen ==
    ASSUME ReadInv, Sound, FishInv, FishOpen, At("fish", "open 0")
    PROVE  FishInv'
<1>1. Open(Frame0) /\ out' = out /\ IF result' = -1 THEN Return(255) ELSE Go("open 1", <<result'>>)
    BY DEF FishOpen, At
<1>2. out = <<>>
    BY DEF FishInv, At, Started
<1>3. Frame0 \in CStrings
    BY FrameNames
<1>4. UNCHANGED dir_entries
    BY <1>1, <1>3, OpenGives
<1>5. OpenFails(Frame0) \/ \E f \in FileNamed(dir_entries, Frame0), fd \in Fds : OpensAt(Frame0, f, fd)
    BY <1>1, <1>3, OpenGives
<1>6. CASE OpenFails(Frame0)
    <2>1. Return(255)
        BY <1>1, <1>6 DEF OpenFails
    <2> QED BY <2>1, FishFails
<1>7. ASSUME NEW f \in FileNamed(dir_entries, Frame0), NEW fd \in Fds, OpensAt(Frame0, f, fd) PROVE FishInv'
    <2>1. result' = fd /\ fd # -1
        <3>1. result' = fd
            BY <1>7, Zenon DEF OpensAt
        <3>2. fd \in Nat
            BY SomeDescriptor
        <3> QED BY <3>1, <3>2, NoError
    <2>2. pc' = "open 1" /\ local' = <<fd>>
        BY <1>1, <2>1 DEF Go
    <2>3. inode'[fd] = f /\ file_position'[fd] = 0
        BY <1>7 DEF OpensAt, ReadInv, PositionInFile
    <2>4. FishOpened'
        BY <1>4, <2>2, <2>3 DEF FishOpened
    <2> QED BY <1>1, <1>2, <2>2, <2>4 DEF FishInv
<1> QED BY <1>5, <1>6, <1>7

\* It opens the second one, and shows nothing yet.
LEMMA SecondOpen ==
    ASSUME ReadInv, Sound, FishInv, FishOpen, At("fish", "open 1")
    PROVE  FishInv'
<1>1. /\ Open(Frame1) /\ out' = out
      /\ IF result' = -1 THEN Return(255)
          ELSE Go("read", [fd |-> <<local[1], result'>>, c |-> <<48, 48>>, eof |-> <<FALSE, FALSE>>,
                           turn |-> 1, row |-> 0, col |-> 0])
    BY DEF FishOpen, At
<1>2. out = <<>> /\ FishOpened
    BY DEF FishInv, At, Started
<1>3. PICK a \in Fds, f \in FileNamed(dir_entries, Frame0) :
        local = <<a>> /\ inode[a] = f /\ file_position[a] = 0
    BY <1>2 DEF FishOpened
<1>4. Frame1 \in CStrings
    BY FrameNames
<1>5. UNCHANGED <<dir_entries, disk>>
    BY <1>1, <1>4, OpenGives DEF At
<1>6. OpenFails(Frame1) \/ \E g \in FileNamed(dir_entries, Frame1), b \in Fds : OpensAt(Frame1, g, b)
    BY <1>1, <1>4, OpenGives
<1>7. CASE OpenFails(Frame1)
    <2>1. Return(255)
        BY <1>1, <1>7 DEF OpenFails
    <2> QED BY <2>1, FishFails
<1>8. ASSUME NEW g \in FileNamed(dir_entries, Frame1), NEW b \in Fds, OpensAt(Frame1, g, b) PROVE FishInv'
    <2>1. result' = b /\ b # -1
        <3>1. result' = b
            BY <1>8, Zenon DEF OpensAt
        <3>2. b \in Nat
            BY SomeDescriptor
        <3> QED BY <3>1, <3>2, NoError
    <2>2. pc' = "read" /\ local' = FishLocal(a, b, 48, 48, FALSE, FALSE, 1, 0, 0)
        BY <1>1, <1>3, <2>1 DEF Go, FishLocal
    <2>3. a # b
        <3>1. inode[b] = 0 /\ inode[a] # 0
            <4>2. inode[b] = 0
                BY <1>8, Zenon DEF OpensAt
            <4>3. f # 0
                BY NoFileZero
            <4> QED BY <1>3, <4>2, <4>3
        <3> QED BY <3>1
    <2>4. inode'[b] = g /\ file_position'[b] = 0 /\ inode'[a] = f /\ file_position'[a] = 0
        BY <1>3, <1>8, <2>3 DEF OpensAt, ReadInv, PositionInFile
    <2>5. PICK T \in Seq(Int) : T = Text(Volume, f)
        BY TextIs DEF FileNamed
    <2>6. PICK U \in Seq(Int) : U = Text(Volume, g)
        BY TextIs DEF FileNamed
    <2>7. Volume' = Volume
        BY <1>5 DEF Volume
    <2>8. FishFile(T, FALSE, 48, f, f, 0, 0, 0, 0) /\ FishFile(U, FALSE, 48, g, g, 0, 0, 0, 0)
        BY FishBegins
    <2>9. Shown(LinesOf(T), LinesOf(U), 0, 0) = <<>>
        <3>1. PICK L \in Seq(Seq(Int)) : L = LinesOf(T)
            BY LinesOfIs
        <3>2. PICK M \in Seq(Seq(Int)) : M = LinesOf(U)
            BY LinesOfIs
        <3>3. Shown(L, M, 0, 0) = Flat(Rows(L, M), 0)
            <4>1. PICK n \in Nat : n = 0
                OBVIOUS
            <4>2. Shown(L, M, n, 0) = Flat(Rows(L, M), n)
                BY RowBegins
            <4> QED BY <4>1, <4>2
        <3>4. Flat(Rows(L, M), 0) = <<>>
            BY FlatNone
        <3> QED BY <3>1, <3>2, <3>3, <3>4
    <2>10. Narrow(T, U, 0, 0)
        BY DEF Narrow
    <2>11. FishReading(a, b, f, g, 48, 48, FALSE, FALSE, 1, 0, 0)'
        <3>1. out' = Shown(LinesOf(T), LinesOf(U), 0, 0)
            BY <1>1, <1>2, <2>9
        <3>2. FishFile(T, FALSE, 48, inode'[a], f, file_position'[a], 0, 0, 0)
            BY <2>4, <2>8
        <3>3. FishFile(U, FALSE, 48, inode'[b], g, file_position'[b], 0, 0, 0)
            BY <2>4, <2>8
        <3> QED BY <2>2, <2>5, <2>6, <2>7, <2>10, <3>1, <3>2, <3>3, Zenon DEF FishReading
    <2>12. Pictures(a, b, f, g)'
        BY <1>5, <2>3 DEF Pictures
    <2>13. FishReads'
        <3>1. 0 \in Nat
            OBVIOUS
        <3> QED BY <2>11, <2>12, <3>1, Zenon DEF FishReads
    <2> QED BY <2>2, <2>13 DEF FishInv
<1> QED BY <1>6, <1>7, <1>8

\* With the character of the first picture.
LEMMA AfterFirst ==
    ASSUME NEW a, NEW b, NEW f, NEW g, NEW x, NEW y, NEW d, NEW e, NEW R \in Nat, NEW C \in Nat,
           NEW l, l = FishLocal(a, b, x, y, d, e, 1, R, C), Paired(l), local.turn = 1,
           Pictures(a, b, f, g), UNCHANGED <<dir_entries, disk>>, NEW T, T = Text(Volume, f), NEW U, U = Text(Volume, g),
           out = Shown(LinesOf(T), LinesOf(U), R, C), Narrow(T, U, R, C),
           FishFile(T, d, x, inode'[a], f, file_position'[a], R, C, C + 1),
           FishFile(U, e, y, inode'[b], g, file_position'[b], R, C, C)
    PROVE  FishInv'
<1>1. pc' = "read" /\ local' = FishLocal(a, b, x, y, d, e, 2, R, C) /\ out' = out
    <2>1. out' = out /\ Go("read", [l EXCEPT !.turn = 2])
        BY DEF Paired
    <2>2. [l EXCEPT !.turn = 2] = FishLocal(a, b, x, y, d, e, 2, R, C)
        BY DEF FishLocal
    <2> QED BY <2>1, <2>2 DEF Go
<1>2. Volume' = Volume
    BY DEF Volume
<1>3. FishReading(a, b, f, g, x, y, d, e, 2, R, C)'
    BY <1>1, <1>2, Zenon DEF FishReading
<1>4. Pictures(a, b, f, g)'
    BY DEF Pictures
<1>5. FishReads'
    BY <1>3, <1>4, Zenon DEF FishReads
<1> QED BY <1>1, <1>5 DEF FishInv

\* With that of the second.
LEMMA AfterSecond ==
    ASSUME NEW a, NEW b, NEW f, NEW g, NEW x, NEW y, NEW d, NEW e, NEW R \in Nat, NEW C \in Nat,
           NEW l, l = FishLocal(a, b, x, y, d, e, 2, R, C), Paired(l), local.turn = 2, local.row = R, local.col = C,
           Pictures(a, b, f, g), UNCHANGED <<dir_entries, disk>>,
           NEW T \in Seq(Int), T = Text(Volume, f), NEW U \in Seq(Int), U = Text(Volume, g),
           out = Shown(LinesOf(T), LinesOf(U), R, C), Narrow(T, U, R, C),
           FishFile(T, d, x, inode'[a], f, file_position'[a], R, C, C + 1),
           FishFile(U, e, y, inode'[b], g, file_position'[b], R, C, C + 1)
    PROVE  FishInv'
<1>1. /\ IF l.c = <<Newline, Newline>> THEN out' = out /\ Go("row", [l EXCEPT !.turn = 1])
         ELSE /\ IF Blinking(l.c) THEN Say(<<Blink(l.c)>>) ELSE out' = out
              /\ Go("read", [l EXCEPT !.turn = 1, !.col = @ + 1])
    <2>1. local.turn # 1
        OBVIOUS
    <2> QED BY <2>1, Zenon DEF Paired
<1>2. Volume' = Volume
    BY DEF Volume
<1>3. l.c = <<x, y>> /\ l.col = C
    BY DEF FishLocal
<1>4. Pictures(a, b, f, g)'
    BY DEF Pictures
<1>5. PICK i, j, p, q : i = inode'[a] /\ j = inode'[b] /\ p = file_position'[a] /\ q = file_position'[b]
    OBVIOUS
<1>6. FishFile(T, d, x, i, f, p, R, C, C + 1) /\ FishFile(U, e, y, j, g, q, R, C, C + 1)
    BY <1>5
<1>9. BothShown(T, U, R, C, x, y)
    BY <1>6, BothRead, Zenon
<1>10. BothGoOn(T, U, R, C, d, x, i, f, p, e, y, j, g, q)
    BY <1>6, BothRead, Zenon
<1>7. CASE x = Newline /\ y = Newline
    <2>1. l.c = <<Newline, Newline>>
        BY <1>3, <1>7
    <2>2. [l EXCEPT !.turn = 1] = FishLocal(a, b, x, Newline, d, e, 1, R, C)
        BY <1>7, TurnChanged
    <2>3. out' = out /\ pc' = "row" /\ local' = FishLocal(a, b, x, Newline, d, e, 1, R, C)
        BY <1>1, <2>1, <2>2 DEF Go
    <2>4. Shown(LinesOf(T), LinesOf(U), R, C) = Flat(Rows(LinesOf(T), LinesOf(U)), R + 1)
        BY <1>7, <1>9 DEF BothShown
    <2>5. FishRowing(a, b, f, g, x, d, e, 1, R, C)'
        BY <1>2, <1>5, <1>6, <1>7, <2>3, <2>4, Zenon DEF FishRowing
    <2>6. FishRows'
        BY <1>4, <2>5, Zenon DEF FishRows
    <2> QED BY <2>3, <2>6 DEF FishInv
<1>8. CASE ~(x = Newline /\ y = Newline)
    <2>1. l.c # <<Newline, Newline>>
        BY <1>3, <1>8
    <2>2. [l EXCEPT !.turn = 1, !.col = @ + 1] = FishLocal(a, b, x, y, d, e, 1, R, C + 1)
        <3>1. PICK m : m = C + 1
            OBVIOUS
        <3>2. [l EXCEPT !.turn = 1, !.col = @ + 1] = [l EXCEPT !.turn = 1, !.col = m]
            BY <3>1 DEF FishLocal
        <3>3. PICK n, o : n = 1 /\ o = 2
            OBVIOUS
        <3>4. PutColumn(FishLocal(a, b, x, y, d, e, o, R, C), n, m) = FishLocal(a, b, x, y, d, e, n, R, m)
            BY ColumnChanged
        <3> QED BY <3>1, <3>2, <3>3, <3>4 DEF PutColumn
    <2>3. /\ pc' = "read" /\ local' = FishLocal(a, b, x, y, d, e, 1, R, C + 1)
          /\ IF Blinking(l.c) THEN Say(<<Blink(l.c)>>) ELSE out' = out
        BY <1>1, <2>1, <2>2 DEF Go
    <2>4. /\ FishFile(T, d, x, i, f, p, R, C + 1, C + 1) /\ FishFile(U, e, y, j, g, q, R, C + 1, C + 1)
          /\ Narrow(T, U, R, C + 1)
        BY <1>8, <1>10, Zenon DEF BothGoOn
    <2>5. out' = Shown(LinesOf(T), LinesOf(U), R, C + 1)
        <3>1. CASE x \in {Space, Newline} /\ y \in {Space, Newline}
            <4>1. Shown(LinesOf(T), LinesOf(U), R, C + 1) = Shown(LinesOf(T), LinesOf(U), R, C)
                BY <1>9, <3>1 DEF BothShown
            <4>2. ~Blinking(l.c)
                BY <1>3, <3>1 DEF Blinking
            <4> QED BY <2>3, <4>1, <4>2
        <3>2. CASE ~(x \in {Space, Newline} /\ y \in {Space, Newline})
            <4>1. Shown(LinesOf(T), LinesOf(U), R, C + 1)
                  = Shown(LinesOf(T), LinesOf(U), R, C)
                      \o <<[location |-> R * 80 + C + 40,
                            on_char |-> IF x = Newline THEN Space ELSE x,
                            off_char |-> IF y = Newline THEN Space ELSE y]>>
                BY <1>9, <3>2 DEF BothShown
            <4>2. Blinking(l.c)
                BY <1>3, <3>2 DEF Blinking
            <4>3. Blink(l.c) = [location |-> R * 80 + C + 40,
                                on_char |-> IF x = Newline THEN Space ELSE x,
                                off_char |-> IF y = Newline THEN Space ELSE y]
                BY <1>3 DEF Blink
            <4>4. out' = out \o <<Blink(l.c)>>
                BY <2>3, <4>2 DEF Say
            <4> QED BY <4>1, <4>3, <4>4
        <3> QED BY <3>1, <3>2
    <2>6. FishReading(a, b, f, g, x, y, d, e, 1, R, C + 1)'
        BY <1>2, <1>5, <2>3, <2>4, <2>5, Zenon DEF FishReading
    <2>7. C + 1 \in Nat
        OBVIOUS
    <2>8. FishReads'
        BY <1>4, <2>6, <2>7, Zenon DEF FishReads
    <2> QED BY <2>3, <2>8 DEF FishInv
<1> QED BY <1>7, <1>8

\* It reads a character of either picture, and shows the pair when it has
\* both.
LEMMA FishReadStep ==
    ASSUME ReadInv, Sound, FishInv, FishRead
    PROVE  FishInv'
<1>1. FishReads /\ UNCHANGED disk
    BY DEF FishInv, FishRead, At, Started
<1>2. PICK a, b, f, g, x, y, d, e, t, R, C :
        /\ Pictures(a, b, f, g) /\ R \in Nat /\ C \in Nat
        /\ FishReading(a, b, f, g, x, y, d, e, t, R, C)
    BY <1>1, Zenon DEF FishReads
<1>3. PICK T \in Seq(Int) : T = Text(Volume, f)
    BY <1>2, TextIs DEF FileNamed, Pictures
<1>4. PICK U \in Seq(Int) : U = Text(Volume, g)
    BY <1>2, TextIs DEF FileNamed, Pictures
<1>5. PICK l : l = local
    OBVIOUS
<1>6. l = FishLocal(a, b, x, y, d, e, t, R, C)
    BY <1>2, <1>5, Zenon DEF FishReading
<1>7. /\ out = Shown(LinesOf(T), LinesOf(U), R, C) /\ Narrow(T, U, R, C)
      /\ \/ t = 1 /\ FishFile(T, d, x, inode[a], f, file_position[a], R, C, C)
         \/ t = 2 /\ FishFile(T, d, x, inode[a], f, file_position[a], R, C, C + 1)
      /\ FishFile(U, e, y, inode[b], g, file_position[b], R, C, C)
    BY <1>2, <1>3, <1>4, Zenon DEF FishReading
<1>8. a \in Fds /\ b \in Fds /\ a # b /\ f \in FileNamed(dir_entries, Frame0) /\ g \in FileNamed(dir_entries, Frame1)
    BY <1>2 DEF Pictures
<1>9. Frame0 # Dot /\ Frame1 # Dot
    BY DEF Frame0, Frame1, Dot
<1>10. /\ l.fd[1] = a /\ l.fd[2] = b /\ l.c[1] = x /\ l.c[2] = y
       /\ l.turn = t /\ l.row = R /\ l.col = C
    BY <1>6 DEF FishLocal
<1>11. IF l.c[l.turn] = Newline THEN NoCall /\ Paired(l)
       ELSE /\ Read(l.fd[l.turn], 1) /\ OnlyFiles
            /\ Paired([l EXCEPT
                 !.c[l.turn] = IF result' = 0 THEN Newline ELSE Fresh(l.fd[l.turn])[1],
                 !.eof[l.turn] = (result' = 0)])
    BY <1>5, Zenon DEF FishRead
<1>12. CASE t = 1 /\ x = Newline
    <2>1. Paired(l) /\ UNCHANGED <<dir_entries, inode, file_position>>
        BY <1>10, <1>11, <1>12 DEF NoCall, kernel, vars
    <2>2. FishFile(T, d, x, inode[a], f, file_position[a], R, C, C + 1)
        BY <1>7, <1>12, EndedStays
    <2> QED BY <1>1, <1>2, <1>3, <1>4, <1>5, <1>6, <1>7, <1>10, <1>12, <2>1, <2>2, AfterFirst
<1>13. CASE t = 2 /\ y = Newline
    <2>1. Paired(l) /\ UNCHANGED <<dir_entries, inode, file_position>>
        BY <1>10, <1>11, <1>13 DEF NoCall, kernel, vars
    <2>2. FishFile(U, e, y, inode[b], g, file_position[b], R, C, C + 1)
        BY <1>7, <1>13, EndedStays
    <2> QED BY <1>1, <1>2, <1>3, <1>4, <1>5, <1>6, <1>7, <1>10, <1>13, <2>1, <2>2, AfterSecond
<1>14. CASE t = 1 /\ x # Newline
    <2>1. PICK c2 : c2 = IF result' = 0 THEN Newline ELSE Fresh(a)[1]
        OBVIOUS
    <2>2. PICK d2 : d2 = (result' = 0)
        OBVIOUS
    <2>13. TakesOne(a, c2, d2)
        BY <2>1, <2>2 DEF TakesOne
    <2>3. Read(a, 1) /\ Paired([l EXCEPT !.c[1] = c2, !.eof[1] = d2])
        BY <1>10, <1>11, <1>14, <2>1, <2>2
    <2>4. UNCHANGED dir_entries
        BY <2>3 DEF Read, FileRead, Delivers, DirRead
    <2>5. FishFile(Text(Volume, f), d, x, inode[a], f, file_position[a], R, C, C)
        BY <1>3, <1>7, <1>14
    <2>14. OneTaken(a, f, c2, d2, R, C)
        BY <1>2, <1>8, <1>9, <1>14, <2>3, <2>5, <2>13, OneRead, Zenon
    <2>6. /\ FishFile(Text(Volume, f), d2, c2, inode'[a], f, file_position'[a], R, C, C + 1)
          /\ inode' = inode /\ \A h \in Fds : h # a => file_position'[h] = file_position[h]
        BY <2>14, Zenon DEF OneTaken
    <2>7. inode'[b] = inode[b] /\ file_position'[b] = file_position[b]
        BY <1>8, <2>6
    <2>8. PICK k : k = FishLocal(a, b, c2, y, d2, e, 1, R, C)
        OBVIOUS
    <2>9. [l EXCEPT !.c[1] = c2, !.eof[1] = d2] = k
        <3>1. PutFirst(FishLocal(a, b, x, y, d, e, t, R, C), c2, d2) = FishLocal(a, b, c2, y, d2, e, t, R, C)
            BY FirstChanged
        <3> QED BY <1>6, <1>14, <2>8, <3>1 DEF PutFirst
    <2>10. Paired(k) /\ local.turn = 1
        BY <1>5, <1>10, <1>14, <2>3, <2>9
    <2>11. FishFile(T, d2, c2, inode'[a], f, file_position'[a], R, C, C + 1)
        BY <1>3, <2>6
    <2>12. FishFile(U, e, y, inode'[b], g, file_position'[b], R, C, C)
        BY <1>7, <2>7
    <2> QED BY <1>1, <1>2, <1>3, <1>4, <1>7, <2>4, <2>8, <2>10, <2>11, <2>12, AfterFirst
<1>15. CASE t = 2 /\ y # Newline
    <2>1. PICK c2 : c2 = IF result' = 0 THEN Newline ELSE Fresh(b)[1]
        OBVIOUS
    <2>2. PICK d2 : d2 = (result' = 0)
        OBVIOUS
    <2>13. TakesOne(b, c2, d2)
        BY <2>1, <2>2 DEF TakesOne
    <2>3. Read(b, 1) /\ Paired([l EXCEPT !.c[2] = c2, !.eof[2] = d2])
        BY <1>10, <1>11, <1>15, <2>1, <2>2
    <2>4. UNCHANGED dir_entries
        BY <2>3 DEF Read, FileRead, Delivers, DirRead
    <2>5. FishFile(Text(Volume, g), e, y, inode[b], g, file_position[b], R, C, C)
        BY <1>4, <1>7
    <2>14. OneTaken(b, g, c2, d2, R, C)
        BY <1>2, <1>8, <1>9, <1>15, <2>3, <2>5, <2>13, OneRead, Zenon
    <2>6. /\ FishFile(Text(Volume, g), d2, c2, inode'[b], g, file_position'[b], R, C, C + 1)
          /\ inode' = inode /\ \A h \in Fds : h # b => file_position'[h] = file_position[h]
        BY <2>14, Zenon DEF OneTaken
    <2>7. inode'[a] = inode[a] /\ file_position'[a] = file_position[a]
        BY <1>8, <2>6
    <2>8. PICK k : k = FishLocal(a, b, x, c2, d, d2, 2, R, C)
        OBVIOUS
    <2>9. [l EXCEPT !.c[2] = c2, !.eof[2] = d2] = k
        <3>1. PutSecond(FishLocal(a, b, x, y, d, e, t, R, C), c2, d2) = FishLocal(a, b, x, c2, d, d2, t, R, C)
            BY SecondChanged
        <3> QED BY <1>6, <1>15, <2>8, <3>1 DEF PutSecond
    <2>10. Paired(k) /\ local.turn = 2 /\ local.row = R /\ local.col = C
        BY <1>5, <1>10, <1>15, <2>3, <2>9
    <2>11. FishFile(U, d2, c2, inode'[b], g, file_position'[b], R, C, C + 1)
        BY <1>4, <2>6
    <2>12. FishFile(T, d, x, inode'[a], f, file_position'[a], R, C, C + 1)
        BY <1>7, <1>15, <2>7
    <2> QED BY <1>1, <1>2, <1>3, <1>4, <1>7, <2>4, <2>8, <2>10, <2>11, <2>12, AfterSecond
<1> QED BY <1>7, <1>12, <1>13, <1>14, <1>15

-----------------------------------------------------------------------------
\* The end of a row, and of fish.

\* close and no call leave the other descriptor alone.
LEMMA CloseLeaves ==
    ASSUME ReadInv, NEW a \in Fds, NEW b \in Fds, a # b, Close(a)
    PROVE  inode'[b] = inode[b] /\ file_position'[b] = file_position[b] /\ UNCHANGED dir_entries
BY DEF Close, ReadInv, PositionInFile

\* A picture whose file is at its end or not.
LEMMA AtItsEnd ==
    ASSUME NEW T, NEW d, NEW c, NEW i, NEW f, NEW p, NEW R, NEW C, NEW D, FishFile(T, d, c, i, f, p, R, C, D)
    PROVE  d = FALSE \/ d = TRUE
BY DEF FishFile

\* One of the two characters.
PutFirstCharacter(l, c) == [l EXCEPT !.c[1] = c]
PutSecondCharacter(l, c) == [l EXCEPT !.c[2] = c]

\* The first one.
LEMMA FirstPut ==
    ASSUME NEW a, NEW b, NEW x, NEW y, NEW d, NEW e, NEW t, NEW R, NEW C, NEW c
    PROVE  PutFirstCharacter(FishLocal(a, b, x, y, d, e, t, R, C), c) = FishLocal(a, b, c, y, d, e, t, R, C)
<1>1. PICK k : k = [<<x, y>> EXCEPT ![1] = c]
    OBVIOUS
<1>2. k = <<c, y>>
    BY <1>1, PairIs
<1>3. [FishLocal(a, b, x, y, d, e, t, R, C) EXCEPT !.c[1] = c]
        = [FishLocal(a, b, x, y, d, e, t, R, C) EXCEPT !.c = k]
    BY <1>1 DEF FishLocal
<1>4. [FishLocal(a, b, x, y, d, e, t, R, C) EXCEPT !.c = k] = FishLocal(a, b, c, y, d, e, t, R, C)
    BY <1>2 DEF FishLocal
<1> QED BY <1>3, <1>4 DEF PutFirstCharacter

\* The second one.
LEMMA SecondPut ==
    ASSUME NEW a, NEW b, NEW x, NEW y, NEW d, NEW e, NEW t, NEW R, NEW C, NEW c
    PROVE  PutSecondCharacter(FishLocal(a, b, x, y, d, e, t, R, C), c) = FishLocal(a, b, x, c, d, e, t, R, C)
<1>1. PICK k : k = [<<x, y>> EXCEPT ![2] = c]
    OBVIOUS
<1>2. k = <<x, c>>
    BY <1>1, PairIs
<1>3. [FishLocal(a, b, x, y, d, e, t, R, C) EXCEPT !.c[2] = c]
        = [FishLocal(a, b, x, y, d, e, t, R, C) EXCEPT !.c = k]
    BY <1>1 DEF FishLocal
<1>4. [FishLocal(a, b, x, y, d, e, t, R, C) EXCEPT !.c = k] = FishLocal(a, b, x, c, d, e, t, R, C)
    BY <1>2 DEF FishLocal
<1> QED BY <1>3, <1>4 DEF PutSecondCharacter

\* At the end of a row, the first picture is closed if it was read to its
\* end.
LEMMA FirstRow ==
    ASSUME ReadInv, NEW a, NEW b, NEW f, NEW g, NEW x, NEW d, NEW e, NEW R \in Nat, NEW C \in Nat,
           Pictures(a, b, f, g), FishRowing(a, b, f, g, x, d, e, 1, R, C), FishRow,
           NEW T \in Seq(Int), T = Text(Volume, f), NEW U \in Seq(Int), U = Text(Volume, g)
    PROVE  FishInv'
<1>1. PICK l : l = local
    OBVIOUS
<1>2. l = FishLocal(a, b, x, Newline, d, e, 1, R, C)
    BY <1>1, Zenon DEF FishRowing
<1>3. l.fd[1] = a /\ l.eof[1] = d /\ l.turn = 1
    BY <1>2 DEF FishLocal
<1>4. x = Newline /\ FishFile(T, d, Newline, inode[a], f, file_position[a], R, C, C + 1)
    <2>1. 1 # 2
        OBVIOUS
    <2> QED BY <2>1, Zenon DEF FishRowing
<1>5. /\ out = Flat(Rows(LinesOf(T), LinesOf(U)), R + 1)
      /\ FishFile(U, e, Newline, inode[b], g, file_position[b], R, C, C + 1)
    BY Zenon DEF FishRowing
<1>6. PICK c2 : c2 = NextLine(d)
    OBVIOUS
<1>7. /\ out' = out /\ UNCHANGED disk
      /\ IF d THEN Close(a) ELSE NoCall
      /\ pc' = "row" /\ local' = [[l EXCEPT !.c[1] = c2] EXCEPT !.turn = 2]
    BY <1>1, <1>3, <1>6, Zenon DEF FishRow, At, Go
<1>8. local' = FishLocal(a, b, c2, Newline, d, e, 2, R, C)
    <2>1. [l EXCEPT !.c[1] = c2] = FishLocal(a, b, c2, Newline, d, e, 1, R, C)
        <3>1. PICK y, t : y = Newline /\ t = 1
            OBVIOUS
        <3>2. PutFirstCharacter(FishLocal(a, b, x, y, d, e, t, R, C), c2) = FishLocal(a, b, c2, y, d, e, t, R, C)
            BY FirstPut
        <3> QED BY <1>2, <3>1, <3>2 DEF PutFirstCharacter
    <2>2. [FishLocal(a, b, c2, Newline, d, e, 1, R, C) EXCEPT !.turn = 2]
            = FishLocal(a, b, c2, Newline, d, e, 2, R, C)
        BY TurnChanged
    <2> QED BY <1>7, <2>1, <2>2
<1>9. a \in Fds /\ b \in Fds /\ a # b
    BY DEF Pictures
<1>10. ASSUME /\ inode'[b] = inode[b] /\ file_position'[b] = file_position[b] /\ UNCHANGED dir_entries
              /\ FishFile(T, d, c2, inode'[a], f, file_position'[a], R + 1, 0, 0)
              /\ d # FALSE => d = TRUE /\ Len(LinesOf(T)) <= R + 1
       PROVE  FishInv'
    <2>1. Volume' = Volume
        BY <1>7, <1>10 DEF Volume
    <2>2. Pictures(a, b, f, g)'
        BY <1>10 DEF Pictures
    <2>3. FishRowing(a, b, f, g, c2, d, e, 2, R, C)'
        BY <1>5, <1>7, <1>8, <1>10, <2>1, Zenon DEF FishRowing
    <2>4. FishRows'
        BY <2>2, <2>3, Zenon DEF FishRows
    <2> QED BY <1>7, <2>4 DEF FishInv
<1>11. CASE d = FALSE
    <2>1. NoCall /\ c2 = 48
        BY <1>6, <1>7, <1>11 DEF NextLine
    <2>2. UNCHANGED <<dir_entries, inode, file_position>>
        BY <2>1 DEF NoCall, kernel, vars
    <2>3. FishFile(T, FALSE, 48, inode[a], f, file_position[a], R + 1, 0, 0)
        BY <1>4, <1>11, NextRow
    <2> QED BY <1>10, <1>11, <2>1, <2>2, <2>3
<1>12. CASE d = TRUE
    <2>1. Close(a) /\ c2 = Newline
        BY <1>6, <1>7, <1>12 DEF NextLine
    <2>2. inode'[b] = inode[b] /\ file_position'[b] = file_position[b] /\ UNCHANGED dir_entries
        BY <1>9, <2>1, CloseLeaves
    <2>3. PICK i, p : i = inode'[a] /\ p = file_position'[a]
        OBVIOUS
    <2>4. Len(LinesOf(T)) <= R + 1 /\ FishFile(T, TRUE, Newline, i, f, p, R + 1, 0, 0)
        BY <1>4, <1>12, NextRow
    <2> QED BY <1>10, <1>12, <2>1, <2>2, <2>3, <2>4
<1> QED BY <1>4, <1>11, <1>12, AtItsEnd

\* So is the second; the next row begins, or all was shown.
LEMMA SecondRow ==
    ASSUME ReadInv, Sound, NEW a, NEW b, NEW f, NEW g, NEW x, NEW d, NEW e, NEW R \in Nat, NEW C \in Nat,
           Pictures(a, b, f, g), FishRowing(a, b, f, g, x, d, e, 2, R, C), FishRow,
           NEW T \in Seq(Int), T = Text(Volume, f), NEW U \in Seq(Int), U = Text(Volume, g)
    PROVE  FishInv'
<1>1. PICK l : l = local
    OBVIOUS
<1>2. l = FishLocal(a, b, x, Newline, d, e, 2, R, C)
    BY <1>1, Zenon DEF FishRowing
<1>3. l.fd[2] = b /\ l.eof[2] = e /\ l.turn = 2 /\ l.eof = <<d, e>> /\ l.row = R
    BY <1>2 DEF FishLocal
<1>4. /\ FishFile(T, d, x, inode[a], f, file_position[a], R + 1, 0, 0)
      /\ d # FALSE => d = TRUE /\ Len(LinesOf(T)) <= R + 1
    <2>1. 2 # 1
        OBVIOUS
    <2> QED BY <2>1, Zenon DEF FishRowing
<1>5. /\ out = Flat(Rows(LinesOf(T), LinesOf(U)), R + 1)
      /\ FishFile(U, e, Newline, inode[b], g, file_position[b], R, C, C + 1)
    BY Zenon DEF FishRowing
<1>6. PICK c2 : c2 = NextLine(e)
    OBVIOUS
<1>7. /\ out' = out /\ UNCHANGED disk
      /\ IF e THEN Close(b) ELSE NoCall
      /\ IF l.eof = <<TRUE, TRUE>> THEN Return(0)
         ELSE Go("read", [[l EXCEPT !.c[2] = c2] EXCEPT !.turn = 1, !.row = @ + 1, !.col = 0])
    <2>1. l.turn # 1
        BY <1>3
    <2> QED BY <1>1, <1>3, <1>6, <2>1, Zenon DEF FishRow, At
<1>8. a \in Fds /\ b \in Fds /\ a # b
    BY DEF Pictures
<1>9. PICK L \in Seq(Seq(Int)) : L = LinesOf(T)
    BY LinesOfIs
<1>10. PICK M \in Seq(Seq(Int)) : M = LinesOf(U)
    BY LinesOfIs
<1>11. ASSUME /\ inode'[a] = inode[a] /\ file_position'[a] = file_position[a] /\ UNCHANGED dir_entries
              /\ FishFile(U, e, c2, inode'[b], g, file_position'[b], R + 1, 0, 0)
              /\ ~(d = TRUE /\ e = TRUE)
       PROVE  FishInv'
    <2>1. Volume' = Volume
        BY <1>7, <1>11 DEF Volume
    <2>2. Pictures(a, b, f, g)'
        BY <1>11 DEF Pictures
    <2>3. l.eof # <<TRUE, TRUE>>
        <3>1. ASSUME <<d, e>> = <<TRUE, TRUE>> PROVE FALSE
            <4>1. <<d, e>>[1] = TRUE /\ <<d, e>>[2] = TRUE
                BY <3>1
            <4>2. <<d, e>>[1] = d /\ <<d, e>>[2] = e
                OBVIOUS
            <4> QED BY <1>11, <4>1, <4>2
        <3> QED BY <1>3, <3>1
    <2>4. PICK k : k = R + 1
        OBVIOUS
    <2>5. local' = FishLocal(a, b, x, c2, d, e, 1, k, 0) /\ pc' = "read"
        <3>1. PICK r : r = [l EXCEPT !.c[2] = c2]
            OBVIOUS
        <3>2. r = FishLocal(a, b, x, c2, d, e, 2, R, C)
            <4>1. PICK y, t : y = Newline /\ t = 2
                OBVIOUS
            <4>2. PutSecondCharacter(FishLocal(a, b, x, y, d, e, t, R, C), c2) = FishLocal(a, b, x, c2, d, e, t, R, C)
                BY SecondPut
            <4> QED BY <1>2, <3>1, <4>1, <4>2 DEF PutSecondCharacter
        <3>3. [r EXCEPT !.turn = 1, !.row = @ + 1, !.col = 0] = [r EXCEPT !.turn = 1, !.row = k, !.col = 0]
            BY <2>4, <3>2 DEF FishLocal
        <3>4. PICK n, o, z : n = 1 /\ o = 2 /\ z = 0
            OBVIOUS
        <3>5. PutRow(FishLocal(a, b, x, c2, d, e, o, R, C), n, k, z) = FishLocal(a, b, x, c2, d, e, n, k, z)
            BY RowChanged
        <3>6. [r EXCEPT !.turn = 1, !.row = k, !.col = 0] = FishLocal(a, b, x, c2, d, e, 1, k, 0)
            BY <3>2, <3>4, <3>5 DEF PutRow
        <3> QED BY <1>7, <2>3, <3>1, <3>3, <3>6 DEF Go
    <2>6. out' = Shown(LinesOf(T), LinesOf(U), k, 0)
        <3>1. k \in Nat
            BY <2>4
        <3>2. Shown(L, M, k, 0) = Flat(Rows(L, M), k)
            BY <3>1, RowBegins
        <3> QED BY <1>5, <1>7, <1>9, <1>10, <2>4, <3>2
    <2>7. Narrow(T, U, k, 0)
        BY DEF Narrow
    <2>8. FishFile(T, d, x, inode'[a], f, file_position'[a], k, 0, 0)
        BY <1>4, <1>11, <2>4
    <2>9. FishFile(U, e, c2, inode'[b], g, file_position'[b], k, 0, 0)
        BY <1>11, <2>4
    <2>10. FishReading(a, b, f, g, x, c2, d, e, 1, k, 0)'
        BY <2>1, <2>5, <2>6, <2>7, <2>8, <2>9, Zenon DEF FishReading
    <2>11. k \in Nat /\ 0 \in Nat
        BY <2>4
    <2>12. FishReads'
        BY <2>2, <2>10, <2>11, Zenon DEF FishReads
    <2> QED BY <2>5, <2>12 DEF FishInv
<1>12. CASE e = FALSE
    <2>1. NoCall /\ c2 = 48
        BY <1>6, <1>7, <1>12 DEF NextLine
    <2>2. UNCHANGED <<dir_entries, inode, file_position>>
        BY <2>1 DEF NoCall, kernel, vars
    <2>3. FishFile(U, FALSE, 48, inode[b], g, file_position[b], R + 1, 0, 0)
        BY <1>5, <1>12, NextRow
    <2> QED BY <1>11, <1>12, <2>1, <2>2, <2>3
<1>13. CASE e = TRUE
    <2>1. Close(b) /\ c2 = Newline
        BY <1>6, <1>7, <1>13 DEF NextLine
    <2>2. inode'[a] = inode[a] /\ file_position'[a] = file_position[a] /\ UNCHANGED dir_entries
        BY <1>8, <2>1, CloseLeaves
    <2>3. PICK i, p : i = inode'[b] /\ p = file_position'[b]
        OBVIOUS
    <2>4. Len(LinesOf(U)) <= R + 1 /\ FishFile(U, TRUE, Newline, i, g, p, R + 1, 0, 0)
        BY <1>5, <1>13, NextRow
    <2>5. CASE d = TRUE
        <3>1. Return(0)
            BY <1>3, <1>7, <1>13, <2>5
        <3>2. Flat(Rows(L, M), R + 1) = FishShows(L, M)
            BY <1>4, <1>9, <1>10, <2>4, <2>5, AllShown
        <3>3. FishPrints(Volume) = FishShows(L, M)
            <4>1. TheFile(Volume, Frame0) = f /\ TheFile(Volume, Frame1) = g
                BY TheFileIs DEF Pictures
            <4>2. L = Lines(Volume, TheFile(Volume, Frame0)) /\ M = Lines(Volume, TheFile(Volume, Frame1))
                BY <1>9, <1>10, <4>1 DEF Lines
            <4> QED BY <4>2, FishPrintsIs
        <3>4. Volume' = Volume
            BY <1>7, <2>2 DEF Volume
        <3>5. FishPrints(Volume)' = FishPrints(Volume)
            BY <3>4
        <3>6. out' = FishPrints(Volume)'
            BY <1>5, <1>7, <1>9, <1>10, <3>2, <3>3, <3>5
        <3> QED BY <3>1, <3>6 DEF Return, Go, FishInv
    <2>6. CASE d = FALSE
        <3>1. ~(d = TRUE /\ e = TRUE)
            BY <2>6
        <3>2. FishFile(U, e, c2, inode'[b], g, file_position'[b], R + 1, 0, 0)
            BY <1>13, <2>1, <2>3, <2>4
        <3> QED BY <1>11, <2>2, <3>1, <3>2
    <2> QED BY <1>4, <2>5, <2>6
<1> QED BY <1>5, <1>12, <1>13, AtItsEnd

\* At the end of a row.
LEMMA FishRowStep ==
    ASSUME ReadInv, Sound, FishInv, FishRow
    PROVE  FishInv'
<1>1. FishRows
    BY DEF FishInv, FishRow, At, Started
<1>2. PICK a, b, f, g, x, d, e, t, R, C :
        /\ Pictures(a, b, f, g) /\ R \in Nat /\ C \in Nat
        /\ FishRowing(a, b, f, g, x, d, e, t, R, C)
    BY <1>1, Zenon DEF FishRows
<1>3. PICK T \in Seq(Int) : T = Text(Volume, f)
    BY <1>2, TextIs DEF FileNamed, Pictures
<1>4. PICK U \in Seq(Int) : U = Text(Volume, g)
    BY <1>2, TextIs DEF FileNamed, Pictures
<1>5. CASE t = 1
    <2>1. FishRowing(a, b, f, g, x, d, e, 1, R, C)
        BY <1>2, <1>5
    <2> QED BY <1>2, <1>3, <1>4, <2>1, FirstRow
<1>6. CASE t = 2
    <2>1. FishRowing(a, b, f, g, x, d, e, 2, R, C)
        BY <1>2, <1>6
    <2> QED BY <1>2, <1>3, <1>4, <2>1, SecondRow
<1>7. t = 1 \/ t = 2
    BY <1>2, Zenon DEF FishRowing
<1> QED BY <1>5, <1>6, <1>7

\* Every step of fish.
LEMMA FishStep ==
    ASSUME ReadInv, Sound, FishInv, Fish
    PROVE  FishInv'
<1>1. CASE FishMain
    <2>1. Started
        BY <1>1 DEF FishMain, At, FishInv
    <2> QED BY <1>1, <2>1, FishMainStep
<1>2. CASE FishOpen
    <2>1. At("fish", "open 0") \/ At("fish", "open 1")
        BY <1>2 DEF FishOpen
    <2> QED BY <1>2, <2>1, FirstOpen, SecondOpen
<1> QED BY <1>1, <1>2, FishReadStep, FishRowStep DEF Fish

\* When fish exits without an error it has shown its pictures.
LEMMA FishEnds ==
    ASSUME FishInv
    PROVE  pc # "fault" /\ (pc = "exit" => (local.status = 0 => out = FishPrints(Volume)))
BY DEF FishInv, Started

-----------------------------------------------------------------------------
\* grep.  The lines that end up to a character, the one at it included.
DoneTo(T, q) ==
    IF Cuts(T, q).piece = <<>> THEN Len(Cuts(T, q).done) ELSE Len(Cuts(T, q).done) + 1

\* Where a line begins, or nothing or a newline is left of it.
Boundary(T, q) == Cuts(T, q).piece = <<>> \/ q = Len(T) \/ T[q + 1] = Newline

\* No newline is between two places.
NoNewline(T, q, m) == \A k \in q + 1 .. m : T[k] # Newline

\* The line that begins at q and ends at m is the next one, and r is the
\* place behind it.
LineDone(T, q, m, r) ==
    /\ r \in 0 .. Len(T) /\ Boundary(T, r)
    /\ \/ /\ DoneTo(T, r) = DoneTo(T, q) + 1 /\ DoneTo(T, r) <= Len(LinesOf(T))
          /\ LinesOf(T)[DoneTo(T, q) + 1] = SubSeq(T, q + 1, m)
       \/ DoneTo(T, r) = DoneTo(T, q) /\ m = q

\* A character is added to the piece, a newline completes it.
LEMMA OneMore ==
    ASSUME NEW T \in Seq(Int), NEW p \in Nat, p + 1 <= Len(T), NEW d \in Seq(Seq(Int)), NEW q \in Seq(Int),
           Cuts(T, p) = [done |-> d, piece |-> q]
    PROVE  /\ T[p + 1] # Newline => Cuts(T, p + 1) = [done |-> d, piece |-> Append(q, T[p + 1])]
           /\ T[p + 1] = Newline => Cuts(T, p + 1) = [done |-> Append(d, q), piece |-> <<>>]
<1>1. PICK x \in Int : x = T[p + 1]
    OBVIOUS
<1>2. Cuts(T, p + 1) = LinesStep([done |-> d, piece |-> q], x)
    <2>1. p + 1 \in Nat
        OBVIOUS
    <2>2. \A k \in 1 .. p + 1 : T[k] \in Int
        BY <2>1, TextInts
    <2>3. Cuts(T, p + 1) = LinesStep(Cuts(T, p), T[p + 1])
        BY <2>2, CutsMore
    <2> QED BY <1>1, <2>3
<1>3. CASE x # Newline
    <2>1. LinesStep([done |-> d, piece |-> q], x) = [[done |-> d, piece |-> q] EXCEPT !.piece = Append(@, x)]
        BY <1>3 DEF LinesStep
    <2>2. [[done |-> d, piece |-> q] EXCEPT !.piece = Append(@, x)] = [done |-> d, piece |-> Append(q, x)]
        <3>1. PICK y : y = Append(q, x)
            OBVIOUS
        <3>2. [[done |-> d, piece |-> q] EXCEPT !.piece = y] = [done |-> d, piece |-> y]
            OBVIOUS
        <3>3. [[done |-> d, piece |-> q] EXCEPT !.piece = Append(@, x)] = [[done |-> d, piece |-> q] EXCEPT !.piece = y]
            BY <3>1
        <3> QED BY <3>1, <3>2, <3>3
    <2> QED BY <1>1, <1>2, <1>3, <2>1, <2>2
<1>4. CASE x = Newline
    <2>1. LinesStep([done |-> d, piece |-> q], x) = [done |-> Append(d, q), piece |-> <<>>]
        BY <1>4 DEF LinesStep
    <2> QED BY <1>1, <1>2, <1>4, <2>1
<1> QED BY <1>3, <1>4

\* The characters of a part of a text.
LEMMA SubSeqIs ==
    ASSUME NEW T \in Seq(Int), NEW q \in Nat, NEW m \in Nat, q <= m, m <= Len(T)
    PROVE  /\ SubSeq(T, q + 1, m) \in Seq(Int) /\ Len(SubSeq(T, q + 1, m)) = m - q
           /\ \A i \in 1 .. m - q : SubSeq(T, q + 1, m)[i] = T[q + i]
<1>1. PICK a \in Nat, l \in Nat : a = q + 1 /\ l = m - q /\ m - a + 1 = l /\ (~(a <= m) => l = 0)
    <2>1. q + 1 \in Nat /\ m - q \in Nat
        OBVIOUS
    <2> QED BY <2>1
<1>2. \A i \in a .. m : T[i] \in Int
    BY <1>1
<1>3. /\ SubSeq(T, a, m) \in Seq(Int)
      /\ Len(SubSeq(T, a, m)) = IF a <= m THEN m - a + 1 ELSE 0
      /\ \A i \in 1 .. m - a + 1 : SubSeq(T, a, m)[i] = T[a + i - 1]
    BY <1>2, SubSeqProperties
<1>4. \A i \in 1 .. l : a + i - 1 = q + i
    BY <1>1
<1>5. Len(SubSeq(T, a, m)) = l /\ \A i \in 1 .. l : SubSeq(T, a, m)[i] = T[q + i]
    BY <1>1, <1>3, <1>4
<1> QED BY <1>1, <1>3, <1>5

\* Where the next character is no newline, or one.
CutAs(T, p, d, q) == Cuts(T, p) = [done |-> d, piece |-> q]

\* A character is added to the piece: with a name for every part.
LEMMA OneMoreIn ==
    ASSUME NEW T \in Seq(Int), NEW p \in Nat, NEW r, r = p + 1, r <= Len(T), NEW x, x = T[r], x # Newline,
           NEW d \in Seq(Seq(Int)), NEW q \in Seq(Int), CutAs(T, p, d, q), NEW w, w = Append(q, x)
    PROVE  CutAs(T, r, d, w)
BY OneMore DEF CutAs

\* A part of a text, and one character more.
LEMMA OneLonger ==
    ASSUME NEW T \in Seq(Int), NEW q \in Nat, NEW m \in Nat, q <= m, m + 1 <= Len(T)
    PROVE  Append(SubSeq(T, q + 1, m), T[m + 1]) = SubSeq(T, q + 1, m + 1)
<1>1. PICK a \in Nat, b \in Nat, l \in Nat : a = q + 1 /\ b = m + 1 /\ l = m - q /\ b - a = l /\ a + l = b
                                             /\ m - a + 1 = l /\ b - a + 1 = l + 1
    <2>1. q + 1 \in Nat /\ m + 1 \in Nat /\ m - q \in Nat
        OBVIOUS
    <2> QED BY <2>1
<1>2. PICK x \in Int : x = T[b]
    BY <1>1
<1>3. /\ SubSeq(T, a, m) \in Seq(Int) /\ Len(SubSeq(T, a, m)) = l
      /\ \A i \in 1 .. l : SubSeq(T, a, m)[i] = T[a + i - 1]
    <2>1. \A i \in a .. m : T[i] \in Int
        BY <1>1
    <2>2. /\ SubSeq(T, a, m) \in Seq(Int)
          /\ Len(SubSeq(T, a, m)) = IF a <= m THEN m - a + 1 ELSE 0
          /\ \A i \in 1 .. m - a + 1 : SubSeq(T, a, m)[i] = T[a + i - 1]
        BY <2>1, SubSeqProperties
    <2> QED BY <1>1, <2>2
<1>4. /\ SubSeq(T, a, b) \in Seq(Int) /\ Len(SubSeq(T, a, b)) = l + 1
      /\ \A i \in 1 .. l + 1 : SubSeq(T, a, b)[i] = T[a + i - 1]
    <2>1. \A i \in a .. b : T[i] \in Int
        BY <1>1
    <2>2. /\ SubSeq(T, a, b) \in Seq(Int)
          /\ Len(SubSeq(T, a, b)) = IF a <= b THEN b - a + 1 ELSE 0
          /\ \A i \in 1 .. b - a + 1 : SubSeq(T, a, b)[i] = T[a + i - 1]
        BY <2>1, SubSeqProperties
    <2> QED BY <1>1, <2>2
<1>5. PICK s \in Seq(Int), t \in Seq(Int) : s = SubSeq(T, a, m) /\ t = SubSeq(T, a, b)
    BY <1>3, <1>4
<1>6. /\ Append(s, x) \in Seq(Int) /\ Len(Append(s, x)) = l + 1
      /\ Append(s, x)[l + 1] = x /\ \A i \in 1 .. l : Append(s, x)[i] = s[i]
    BY <1>2, <1>3, <1>5, AppendProperties
<1>7. PICK u \in Seq(Int) : u = Append(s, x)
    BY <1>6
<1>8. \A i \in 1 .. l + 1 : u[i] = t[i]
    <2>1. t[l + 1] = x
        <3>1. l + 1 \in 1 .. l + 1 /\ a + (l + 1) - 1 = b
            BY <1>1
        <3> QED BY <1>2, <1>4, <1>5, <3>1
    <2>2. \A i \in 1 .. l : s[i] = t[i]
        BY <1>3, <1>4, <1>5
    <2>3. \A i \in 1 .. l + 1 : i = l + 1 \/ i \in 1 .. l
        OBVIOUS
    <2> QED BY <1>6, <1>7, <2>1, <2>2, <2>3
<1>9. u = t
    BY <1>4, <1>5, <1>6, <1>7, <1>8, SeqEqual
<1> QED BY <1>1, <1>2, <1>5, <1>7, <1>9

\* Without a newline the piece grows.
LEMMA PieceGrows ==
    ASSUME NEW T \in Seq(Int), NEW q \in Nat, NEW m \in Nat, q <= m, m <= Len(T),
           NEW d \in Seq(Seq(Int)), Cuts(T, q) = [done |-> d, piece |-> <<>>], NoNewline(T, q, m)
    PROVE  Cuts(T, m) = [done |-> d, piece |-> SubSeq(T, q + 1, m)]
<1> DEFINE H == {i \in Nat : q + i <= m => Cuts(T, q + i) = [done |-> d, piece |-> SubSeq(T, q + 1, q + i)]}
<1>1. 0 \in H
    <2>1. SubSeq(T, q + 1, q + 0) = <<>> /\ q + 0 = q
        BY SubSeqEmpty
    <2> QED BY <2>1
<1>2. ASSUME NEW i \in Nat, i \in H PROVE i + 1 \in H
    <2> SUFFICES ASSUME q + (i + 1) <= m
                 PROVE Cuts(T, q + (i + 1)) = [done |-> d, piece |-> SubSeq(T, q + 1, q + (i + 1))]
        OBVIOUS
    <2>1. PICK n \in Nat : /\ n = q + i /\ n + 1 = q + (i + 1) /\ q <= n /\ n + 1 <= Len(T)
                           /\ n + 1 \in q + 1 .. m /\ n <= Len(T)
        <3>1. Len(T) \in Nat /\ q + i \in Nat
            OBVIOUS
        <3> QED BY <3>1
    <2>2. Cuts(T, n) = [done |-> d, piece |-> SubSeq(T, q + 1, n)]
        BY <1>2, <2>1
    <2>3. PICK s \in Seq(Int) : s = SubSeq(T, q + 1, n)
        BY <2>1, SubSeqIs
    <2>4. T[n + 1] # Newline
        BY <2>1 DEF NoNewline
    <2>5. Cuts(T, n + 1) = [done |-> d, piece |-> Append(s, T[n + 1])]
        BY <2>1, <2>2, <2>3, <2>4, OneMore, ZenonT(40)
    <2>6. Append(s, T[n + 1]) = SubSeq(T, q + 1, n + 1)
        BY <2>1, <2>3, OneLonger
    <2> QED BY <2>1, <2>5, <2>6
<1> HIDE DEF H
<1>3. Nat \subseteq H
    BY <1>1, <1>2, Induction
<1>4. m - q \in H /\ q + (m - q) = m
    BY <1>3
<1> QED BY <1>4 DEF H

\* At a newline the next line was found.
LEMMA LineFound ==
    ASSUME NEW T \in Seq(Int), NEW q \in Nat, NEW m \in Nat, q <= m, m + 1 <= Len(T),
           Boundary(T, q), NoNewline(T, q, m), T[m + 1] = Newline
    PROVE  LineDone(T, q, m, m + 1)
<1>1. q <= Len(T) /\ m <= Len(T) /\ q # Len(T) /\ m + 1 \in 0 .. Len(T)
    <2>1. Len(T) \in Nat
        OBVIOUS
    <2> QED BY <2>1
<1>2. PICK d \in Seq(Seq(Int)), s \in Seq(Int) : Cuts(T, q) = [done |-> d, piece |-> s]
    BY <1>1, CutsShape
<1>3. CASE s = <<>>
    <2>1. Cuts(T, m) = [done |-> d, piece |-> SubSeq(T, q + 1, m)]
        BY <1>1, <1>2, <1>3, PieceGrows
    <2>2. PICK p \in Seq(Int) : p = SubSeq(T, q + 1, m)
        BY <1>1, SubSeqIs
    <2>3. Cuts(T, m + 1) = [done |-> Append(d, p), piece |-> <<>>]
        BY <2>1, <2>2, OneMore, ZenonT(40)
    <2>4. Len(d) + 1 <= Len(LinesOf(T)) /\ LinesOf(T)[Len(d) + 1] = p
        <3>1. /\ Len(Cuts(T, m).done) + 1 <= Len(LinesOf(T))
              /\ LinesOf(T)[Len(Cuts(T, m).done) + 1] = Cuts(T, m).piece
            BY LineEnds
        <3> QED BY <2>1, <2>2, <3>1
    <2>5. DoneTo(T, q) = Len(d)
        BY <1>2, <1>3 DEF DoneTo
    <2>6. DoneTo(T, m + 1) = Len(d) + 1
        <3>1. Len(Append(d, p)) = Len(d) + 1
            OBVIOUS
        <3> QED BY <2>3, <3>1 DEF DoneTo
    <2>7. Boundary(T, m + 1)
        BY <2>3 DEF Boundary
    <2> QED BY <1>1, <2>2, <2>4, <2>5, <2>6, <2>7 DEF LineDone
<1>4. CASE s # <<>>
    <2>1. T[q + 1] = Newline
        BY <1>1, <1>2, <1>4 DEF Boundary
    <2>2. m = q
        <3>1. ASSUME m # q PROVE FALSE
            <4>1. q + 1 \in q + 1 .. m
                BY <3>1
            <4> QED BY <2>1, <4>1 DEF NoNewline
        <3> QED BY <3>1
    <2>3. Cuts(T, m + 1) = [done |-> Append(d, s), piece |-> <<>>]
        BY <1>2, <2>2, OneMore
    <2>4. DoneTo(T, q) = Len(d) + 1
        BY <1>2, <1>4 DEF DoneTo
    <2>5. DoneTo(T, m + 1) = Len(d) + 1
        <3>1. Len(Append(d, s)) = Len(d) + 1
            OBVIOUS
        <3> QED BY <2>3, <3>1 DEF DoneTo
    <2>6. Boundary(T, m + 1)
        BY <2>3 DEF Boundary
    <2> QED BY <1>1, <2>2, <2>4, <2>5, <2>6 DEF LineDone
<1> QED BY <1>3, <1>4

\* At the end of the text the last one was found.
LEMMA LastFound ==
    ASSUME NEW T \in Seq(Int), NEW q \in Nat, NEW m \in Nat, q <= m, m = Len(T),
           Boundary(T, q), NoNewline(T, q, m)
    PROVE  LineDone(T, q, m, m)
<1>1. q <= Len(T) /\ m <= Len(T) /\ m \in 0 .. Len(T)
    OBVIOUS
<1>2. PICK d \in Seq(Seq(Int)), s \in Seq(Int) : Cuts(T, q) = [done |-> d, piece |-> s]
    BY <1>1, CutsShape
<1>3. Boundary(T, m)
    BY DEF Boundary
<1>4. CASE q = m
    BY <1>1, <1>3, <1>4 DEF LineDone
<1>5. CASE q # m
    <2>1. T[q + 1] # Newline /\ q # Len(T)
        <3>1. q + 1 \in q + 1 .. m
            BY <1>5
        <3> QED BY <1>5, <3>1 DEF NoNewline
    <2>2. s = <<>>
        BY <1>2, <2>1 DEF Boundary
    <2>3. Cuts(T, m) = [done |-> d, piece |-> SubSeq(T, q + 1, m)]
        BY <1>1, <1>2, <2>2, PieceGrows
    <2>4. PICK p \in Seq(Int) : p = SubSeq(T, q + 1, m)
        BY <1>1, SubSeqIs
    <2>5. p # <<>>
        <3>1. Len(p) = m - q
            BY <1>1, <2>4, SubSeqIs
        <3> QED BY <1>5, <3>1
    <2>6. PICK L \in Seq(Seq(Int)) : L = LinesOf(T) /\ L = EndsLines(Cuts(T, m))
        BY LinesOfIs
    <2>7. L = Append(d, p)
        BY <2>3, <2>4, <2>5, <2>6 DEF EndsLines
    <2>8. Len(L) = Len(d) + 1 /\ L[Len(d) + 1] = p
        BY <2>7, AppendProperties
    <2>9. DoneTo(T, q) = Len(d)
        BY <1>2, <2>2 DEF DoneTo
    <2>10. DoneTo(T, m) = Len(d) + 1
        BY <2>3, <2>4, <2>5 DEF DoneTo
    <2> QED BY <1>1, <1>3, <2>4, <2>6, <2>8, <2>9, <2>10 DEF LineDone
<1> QED BY <1>4, <1>5

\* At the end of a text all lines are done.
LEMMA DoneAll ==
    ASSUME NEW T \in Seq(Int)
    PROVE  DoneTo(T, Len(T)) = Len(LinesOf(T))
<1>1. PICK n \in Nat : n = Len(T)
    OBVIOUS
<1>2. Cuts(T, n) \in CutStates
    BY <1>1, CutsShape
<1>3. LinesOf(T) = EndsLines(Cuts(T, n))
    BY <1>1, LinesOfIs
<1> QED BY <1>1, <1>2, <1>3, EndBegins DEF DoneTo

\* At its beginning none is.
LEMMA DoneNone ==
    ASSUME NEW T
    PROVE  DoneTo(T, 0) = 0 /\ Boundary(T, 0)
BY CutsNone DEF NoLines, DoneTo, Boundary

\* A line that goes on is longer than its piece.
LEMMA PieceGoesOn ==
    ASSUME NEW T \in Seq(Int), NEW m \in Nat, m + 1 <= Len(T), NEW d \in Seq(Seq(Int)), NEW w \in Seq(Int),
           Cuts(T, m) = [done |-> d, piece |-> w], T[m + 1] # Newline
    PROVE  Len(d) + 1 <= Len(LinesOf(T)) /\ Len(w) + 1 <= Len(LinesOf(T)[Len(d) + 1])
<1>1. Cuts(T, m + 1) = [done |-> d, piece |-> Append(w, T[m + 1])]
    <2>1. m + 1 <= Len(T) /\ Cuts(T, m) = [done |-> d, piece |-> w]
        OBVIOUS
    <2>2. (T[m + 1] # Newline => Cuts(T, m + 1) = [done |-> d, piece |-> Append(w, T[m + 1])])
        <3>1. PICK r, x, y : r = m + 1 /\ x = T[r] /\ y = Append(w, x)
            OBVIOUS
        <3>2. r <= Len(T) /\ x # Newline /\ CutAs(T, m, d, w)
            BY <3>1 DEF CutAs
        <3>3. CutAs(T, r, d, y)
            BY <3>1, <3>2, OneMoreIn
        <3> QED BY <3>1, <3>3 DEF CutAs
    <2> QED BY <2>2
<1>2. PICK x \in Int : x = T[m + 1]
    OBVIOUS
<1>3. Len(Append(w, x)) = Len(w) + 1 /\ Append(w, x) # <<>>
    BY AppendProperties
<1>4. PICK r : r = Append(w, x)
    OBVIOUS
<1>5. PICK j : j = m + 1 /\ j \in 0 .. Len(T)
    OBVIOUS
<1>6. Begins(Cuts(T, j), LinesOf(T))
    BY <1>5, CutsBegin
<1>7. Begins([done |-> d, piece |-> r], LinesOf(T))
    BY <1>1, <1>2, <1>4, <1>5, <1>6
<1>8. Len(d) + 1 <= Len(LinesOf(T)) /\ Len(r) <= Len(LinesOf(T)[Len(d) + 1])
    BY <1>3, <1>4, <1>7 DEF Begins
<1> QED BY <1>3, <1>4, <1>8

\* A line as long as the buffer.
LEMMA FullFound ==
    ASSUME NEW T \in Seq(Int), NEW q \in Nat, NEW m \in Nat, NEW n \in Nat \ {0}, m = q + n, m < Len(T),
           Boundary(T, q), NoNewline(T, q, m),
           \A k \in DOMAIN LinesOf(T) : Len(LinesOf(T)[k]) <= n
    PROVE  LineDone(T, q, m, m)
<1>1. q <= Len(T) /\ m <= Len(T) /\ m \in 0 .. Len(T) /\ q <= m /\ q # Len(T) /\ m + 1 <= Len(T)
      /\ m + 1 \in 0 .. Len(T)
    <2>1. Len(T) \in Nat
        OBVIOUS
    <2> QED BY <2>1
<1>2. PICK d \in Seq(Seq(Int)), s \in Seq(Int) : Cuts(T, q) = [done |-> d, piece |-> s]
    BY <1>1, CutsShape
<1>3. T[q + 1] # Newline
    <2>1. q + 1 \in q + 1 .. m
        OBVIOUS
    <2> QED BY <2>1 DEF NoNewline
<1>4. s = <<>>
    BY <1>1, <1>2, <1>3 DEF Boundary
<1>5. Cuts(T, m) = [done |-> d, piece |-> SubSeq(T, q + 1, m)]
    BY <1>1, <1>2, <1>4, PieceGrows, ZenonT(40)
<1>6. PICK p \in Seq(Int) : p = SubSeq(T, q + 1, m) /\ Len(p) = n
    <2>1. SubSeq(T, q + 1, m) \in Seq(Int) /\ Len(SubSeq(T, q + 1, m)) = m - q
        BY <1>1, SubSeqIs
    <2>2. m - q = n
        OBVIOUS
    <2>3. Len(SubSeq(T, q + 1, m)) = n
        BY <2>1, <2>2
    <2> QED BY <2>1, <2>3
<1>7. PICK L \in Seq(Seq(Int)) : L = LinesOf(T)
    BY LinesOfIs
<1>8. PICK k \in Nat : k = Len(d) /\ k + 1 \in Nat
    OBVIOUS
<1>9. p # <<>>
    BY <1>6
<1>10. k + 1 <= Len(L) /\ n <= Len(L[k + 1]) /\ \A j \in 1 .. n : L[k + 1][j] = p[j]
    <2>1. Begins(Cuts(T, m), L)
        BY <1>1, <1>7, CutsBegin
    <2>2. Begins([done |-> d, piece |-> p], L)
        BY <1>5, <1>6, <2>1
    <2> QED BY <1>6, <1>8, <1>9, <2>2 DEF Begins
<1>11. L[k + 1] \in Seq(Int) /\ Len(L[k + 1]) <= n
    <2>1. k + 1 \in DOMAIN L
        BY <1>8, <1>10
    <2> QED BY <1>7, <2>1
<1>12. PICK l \in Seq(Int) : l = L[k + 1] /\ Len(l) = n
    BY <1>10, <1>11
<1>13. l = p
    BY <1>6, <1>10, <1>12, SeqEqual
<1>14. T[m + 1] = Newline
    <2>1. ASSUME T[m + 1] # Newline PROVE FALSE
        <3>1. Cuts(T, m) = [done |-> d, piece |-> p]
            BY <1>5, <1>6
        <3>2. Len(p) + 1 <= Len(LinesOf(T)[Len(d) + 1])
            BY <1>1, <2>1, <3>1, PieceGoesOn
        <3> QED BY <1>6, <1>7, <1>8, <1>12, <3>2
    <2> QED BY <2>1
<1>15. Boundary(T, m)
    BY <1>14 DEF Boundary
<1>16. DoneTo(T, q) = k
    BY <1>2, <1>4, <1>8 DEF DoneTo
<1>17. DoneTo(T, m) = k + 1
    BY <1>5, <1>6, <1>8, <1>9 DEF DoneTo
<1> QED BY <1>1, <1>6, <1>7, <1>10, <1>12, <1>13, <1>15, <1>16, <1>17 DEF LineDone

-----------------------------------------------------------------------------
\* What grep prints of a text up to a line.
LinesPrinted(name, T, s) == [k \in DOMAIN LinesOf(T) |-> GrepPrintsLine(name, LinesOf(T)[k], s)]

\* What is printed of the first n lines.
PrintsTo(name, T, s, n) == Flat(LinesPrinted(name, T, s), n)

\* What is printed of a line is a text.
LEMMA PrintsLineIs ==
    ASSUME NEW name \in Seq(Int), NEW line \in Seq(Int), NEW s
    PROVE  GrepPrintsLine(name, line, s) \in Seq(Int)
<1>1. <<58>> \in Seq(Int) /\ <<Newline>> \in Seq(Int)
    BY DEF Newline
<1>2. PICK c, e : c = <<58>> /\ e = <<Newline>>
    OBVIOUS
<1>3. c \in Seq(Int) /\ e \in Seq(Int)
    BY <1>1, <1>2
<1>4. name \o c \o line \o e \in Seq(Int)
    <2>1. name \o c \in Seq(Int)
        BY <1>3, ConcatProperties
    <2>2. PICK a \in Seq(Int) : a = name \o c
        BY <2>1
    <2>3. a \o line \in Seq(Int)
        BY <2>2, ConcatProperties
    <2>4. PICK b \in Seq(Int) : b = a \o line
        BY <2>3
    <2>5. b \o e \in Seq(Int)
        BY <1>3, <2>4, ConcatProperties
    <2> QED BY <2>2, <2>4, <2>5
<1>5. <<>> \in Seq(Int)
    OBVIOUS
<1> QED BY <1>2, <1>4, <1>5 DEF GrepPrintsLine

\* What is printed of the lines of a file.
LEMMA LinesPrintedAre ==
    ASSUME NEW name \in Seq(Int), NEW T \in Seq(Int), NEW s
    PROVE  \A k \in 1 .. Len(LinesOf(T)) :
              /\ LinesPrinted(name, T, s)[k] = GrepPrintsLine(name, LinesOf(T)[k], s)
              /\ LinesPrinted(name, T, s)[k] \in Seq(Int)
<1>1. PICK L \in Seq(Seq(Int)) : L = LinesOf(T)
    BY LinesOfIs
<1>2. \A k \in 1 .. Len(L) : L[k] \in Seq(Int)
    OBVIOUS
<1>3. \A k \in 1 .. Len(L) : LinesPrinted(name, T, s)[k] = GrepPrintsLine(name, L[k], s)
    BY <1>1 DEF LinesPrinted
<1>4. \A k \in 1 .. Len(L) : GrepPrintsLine(name, L[k], s) \in Seq(Int)
    BY <1>2, PrintsLineIs
<1> QED BY <1>1, <1>3, <1>4

\* The number of lines that are done is a number.
LEMMA DoneNat ==
    ASSUME NEW T \in Seq(Int), NEW q \in Nat, q <= Len(T)
    PROVE  DoneTo(T, q) \in Nat
<1>1. PICK d \in Seq(Seq(Int)) : d = Cuts(T, q).done
    BY CutsShape
<1> QED BY <1>1 DEF DoneTo

\* There are not more than the text has.
LEMMA DoneWithin ==
    ASSUME NEW T \in Seq(Int), NEW q \in Nat, q <= Len(T)
    PROVE  DoneTo(T, q) <= Len(LinesOf(T))
<1>1. q \in 0 .. Len(T)
    OBVIOUS
<1>2. Begins(Cuts(T, q), LinesOf(T))
    BY <1>1, CutsBegin
<1> QED BY <1>2 DEF Begins, DoneTo

\* What is printed of them is a text.
LEMMA PrintsToIs ==
    ASSUME NEW name \in Seq(Int), NEW T \in Seq(Int), NEW s, NEW q \in Nat, q <= Len(T)
    PROVE  PrintsTo(name, T, s, DoneTo(T, q)) \in Seq(Int)
<1>1. PICK n \in Nat : n = DoneTo(T, q)
    BY DoneNat
<1>2. n <= Len(LinesOf(T)) /\ Len(LinesOf(T)) \in Nat
    BY <1>1, DoneWithin, LinesOfIs
<1>3. \A k \in 1 .. n : LinesPrinted(name, T, s)[k] \in Seq(Int)
    BY <1>2, LinesPrintedAre
<1>4. Flat(LinesPrinted(name, T, s), n) \in Seq(Int)
    BY <1>3, FlatIsSeq
<1> QED BY <1>1, <1>4 DEF PrintsTo

\* An empty line holds no string but the empty one.
LEMMA NothingHeld ==
    ASSUME NEW s \in Seq(Int), s # <<>>
    PROVE  ~Holds(<<>>, s)
<1>1. PICK n \in Nat : n = Len(s) /\ n > 0
    OBVIOUS
<1>2. Len(<<>>) = 0
    OBVIOUS
<1>3. \A i \in 0 .. 0 - n : FALSE
    BY <1>1
<1> QED BY <1>1, <1>2, <1>3 DEF Holds

\* Behind the line that ends at m, what was printed of it is printed.
PrintsMore(name, T, s, q, m, r) ==
    PrintsTo(name, T, s, DoneTo(T, r))
      = PrintsTo(name, T, s, DoneTo(T, q)) \o GrepPrintsLine(name, SubSeq(T, q + 1, m), s)

\* The next line that was found is printed, or an empty one is not.
LEMMA LinePrinted ==
    ASSUME NEW name \in Seq(Int), NEW T \in Seq(Int), NEW s \in Seq(Int), s # <<>>,
           NEW q \in Nat, q <= Len(T), NEW m, NEW r, LineDone(T, q, m, r)
    PROVE  PrintsMore(name, T, s, q, m, r)
<1>1. PICK n \in Nat : n = DoneTo(T, q)
    BY DoneNat
<1>2. CASE /\ DoneTo(T, r) = n + 1 /\ DoneTo(T, r) <= Len(LinesOf(T))
           /\ LinesOf(T)[n + 1] = SubSeq(T, q + 1, m)
    <2>1. PICK F : F = LinesPrinted(name, T, s)
        OBVIOUS
    <2>2. n + 1 \in 1 .. Len(LinesOf(T))
        BY <1>2, LinesOfIs
    <2>3. F[n + 1] = GrepPrintsLine(name, SubSeq(T, q + 1, m), s) /\ F[n + 1] \in Seq(Int)
        <3>1. PICK k : k = n + 1
            OBVIOUS
        <3>2. F[k] = GrepPrintsLine(name, LinesOf(T)[k], s) /\ F[k] \in Seq(Int)
            BY <2>1, <2>2, <3>1, LinesPrintedAre
        <3> QED BY <1>2, <3>1, <3>2
    <2>4. Flat(F, n + 1) = Flat(F, n) \o F[n + 1]
        BY <2>3, FlatMore
    <2> QED BY <1>1, <1>2, <2>1, <2>3, <2>4 DEF PrintsTo, PrintsMore
<1>3. CASE DoneTo(T, r) = DoneTo(T, q) /\ m = q
    <2>1. SubSeq(T, q + 1, m) = <<>>
        BY <1>3, SubSeqEmpty
    <2>2. GrepPrintsLine(name, <<>>, s) = <<>>
        BY NothingHeld DEF GrepPrintsLine
    <2>3. PICK P \in Seq(Int) : P = PrintsTo(name, T, s, DoneTo(T, q))
        BY PrintsToIs
    <2>4. P \o <<>> = P
        BY ConcatEmptySeq
    <2> QED BY <1>3, <2>1, <2>2, <2>3, <2>4 DEF PrintsMore
<1> QED BY <1>1, <1>2, <1>3 DEF LineDone

-----------------------------------------------------------------------------
\* A line in the buffer, from ls to e, with a 0 behind it.
Buffered(data, ls, e, line) ==
    Len(line) = e - ls /\ \A j \in 1 .. e - ls : data[ls + j - 1] = line[j]

\* do_one_line finds what the line holds.
LEMMA HoldsIsInLine ==
    ASSUME NEW data, NEW ls \in Nat, NEW e \in Nat, ls <= e, e <= BufSize, data[e] = 0,
           NEW line \in Seq(Int), Buffered(data, ls, e, line), NEW s \in CStrings, s # <<>>
    PROVE  InLine(s, data, ls, e) <=> Holds(line, s)
<1>0. BufSize \in Nat
    BY UserProgramsAssumption
<1>1. PICK n \in Nat : n = Len(s) /\ n > 0
    BY DEF CStrings
<1>2. PICK l \in Nat : l = Len(line) /\ l = e - ls
    BY DEF Buffered
<1>3. \A i \in 1 .. n : s[i] # 0 /\ s[i] \in Nat
    BY <1>1 DEF CStrings
<1>4. \A j \in 1 .. l : data[ls + j - 1] = line[j]
    BY <1>2 DEF Buffered
<1>5. ASSUME NEW check \in ls .. e - 1,
             \A i \in 1 .. Len(s) : check + i - 1 <= BufSize /\ data[check + i - 1] = s[i]
      PROVE  Holds(line, s)
    <2>1. check \in Nat /\ check < e
        OBVIOUS
    <2>2. check + n <= e
        <3>1. ASSUME check + n > e PROVE FALSE
            <4>1. PICK i \in 1 .. n : i = e - check + 1 /\ check + i - 1 = e
                <5>1. e - check + 1 \in 1 .. n /\ check + (e - check + 1) - 1 = e
                    BY <2>1, <3>1
                <5> QED BY <5>1
            <4>2. data[check + i - 1] = s[i]
                BY <1>1, <1>5
            <4> QED BY <1>3, <4>1, <4>2
        <3> QED BY <2>1, <3>1
    <2>3. PICK i \in Nat : i = check - ls /\ i + n <= l
        BY <1>2, <2>1, <2>2
    <2>4. PICK t \in Seq(Int) : t = SubSeq(line, i + 1, i + n) /\ Len(t) = n
                                /\ \A j \in 1 .. n : t[j] = line[i + j]
        <3>1. PICK h \in Nat : h = i + n /\ i <= h /\ h <= Len(line) /\ h - i = n
            <4>1. i + n \in Nat
                OBVIOUS
            <4> QED BY <1>2, <2>3, <4>1
        <3>2. /\ SubSeq(line, i + 1, h) \in Seq(Int) /\ Len(SubSeq(line, i + 1, h)) = h - i
              /\ \A j \in 1 .. h - i : SubSeq(line, i + 1, h)[j] = line[i + j]
            BY <3>1, SubSeqIs
        <3> QED BY <3>1, <3>2
    <2>5. \A j \in 1 .. n : t[j] = s[j]
        <3>1. ASSUME NEW j \in 1 .. n PROVE t[j] = s[j]
            <4>1. i + j \in 1 .. l /\ ls + (i + j) - 1 = check + j - 1
                BY <2>1, <2>3
            <4>2. data[ls + (i + j) - 1] = line[i + j]
                BY <1>4, <4>1
            <4>3. data[check + j - 1] = s[j]
                BY <1>1, <1>5
            <4> QED BY <2>4, <4>1, <4>2, <4>3
        <3> QED BY <3>1
    <2>6. s \in Seq(Int)
        BY DEF CStrings
    <2>7. t = s
        BY <1>1, <2>4, <2>5, <2>6, SeqEqual
    <2>8. i \in 0 .. Len(line) - Len(s)
        BY <1>1, <1>2, <2>3
    <2> QED BY <1>1, <2>4, <2>7, <2>8 DEF Holds
<1>6. ASSUME Holds(line, s) PROVE InLine(s, data, ls, e)
    <2>1. PICK i \in Nat : i + n <= l /\ SubSeq(line, i + 1, i + n) = s
        <3>1. PICK i \in 0 .. Len(line) - Len(s) : SubSeq(line, i + 1, i + Len(s)) = s
            BY <1>6 DEF Holds
        <3>2. i \in Nat /\ i + n <= l
            BY <1>1, <1>2, <3>1
        <3> QED BY <1>1, <3>1, <3>2
    <2>2. \A j \in 1 .. n : s[j] = line[i + j]
        <3>1. PICK h \in Nat : h = i + n /\ i <= h /\ h <= Len(line) /\ h - i = n
            <4>1. i + n \in Nat
                OBVIOUS
            <4> QED BY <1>2, <2>1, <4>1
        <3>2. \A j \in 1 .. h - i : SubSeq(line, i + 1, h)[j] = line[i + j]
            BY <3>1, SubSeqIs
        <3> QED BY <2>1, <3>1, <3>2
    <2>3. PICK check \in Nat : check = ls + i /\ check \in ls .. e - 1
        <3>1. ls + i \in Nat /\ ls + i \in ls .. e - 1
            BY <1>1, <1>2, <2>1
        <3> QED BY <3>1
    <2>4. ASSUME NEW j \in 1 .. n PROVE check + j - 1 <= BufSize /\ data[check + j - 1] = s[j]
        <3>1. i + j \in 1 .. l /\ ls + (i + j) - 1 = check + j - 1 /\ check + j - 1 <= BufSize
            BY <1>0, <1>2, <2>1, <2>3
        <3>2. data[ls + (i + j) - 1] = line[i + j]
            BY <1>4, <3>1
        <3> QED BY <2>2, <3>1, <3>2
    <2> QED BY <1>1, <2>3, <2>4 DEF InLine
<1>7. InLine(s, data, ls, e) => Holds(line, s)
    BY <1>5 DEF InLine
<1> QED BY <1>6, <1>7

\* What is printed of it.
LEMMA GetLine ==
    ASSUME NEW data, NEW ls \in Nat, NEW e \in Nat, ls <= e,
           NEW line \in Seq(Int), Buffered(data, ls, e, line)
    PROVE  Get(data, ls, e - ls) = line
<1>1. PICK l \in Nat : l = Len(line) /\ l = e - ls
    BY DEF Buffered
<1>2. \A j \in 1 .. l : data[ls + j - 1] = line[j]
    BY <1>1 DEF Buffered
<1>3. line = [j \in 1 .. l |-> line[j]]
    <2>1. line = [j \in 1 .. Len(line) |-> line[j]]
        OBVIOUS
    <2> QED BY <1>1, <2>1
<1>4. Get(data, ls, l) = [j \in 1 .. l |-> data[ls + j - 1]]
    BY DEF Get
<1>5. [j \in 1 .. l |-> data[ls + j - 1]] = [j \in 1 .. l |-> line[j]]
    BY <1>2
<1> QED BY <1>1, <1>3, <1>4, <1>5

-----------------------------------------------------------------------------
\* The buffer of grep: from place from to before place to it holds the text
\* behind character q.
Filled(T, q, from, to, data) == \A i \in from .. to - 1 : data[i] = T[q + i + 1]

\* A buffer has a byte at each place, and one behind.
IsBuffer(data) == data = [i \in 0 .. BufSize |-> data[i]]

\* The byte behind the buffer is a 0, or what happened to be there.
Stopped(data, junk) == data[BufSize] \in {0, junk}

\* No newline is in a part of the buffer.
NoneIn(data, ls, e) == \A k \in ls .. e - 1 : data[k] # Newline

\* The buffer before it is refilled: the beginning of a line, which begins in
\* the text at q.
ReadPart(T, q, p, last, data, junk) ==
    /\ p = q + last /\ p <= Len(T) /\ last < BufSize
    /\ Boundary(T, q) /\ Filled(T, q, 0, last, data) /\ Stopped(data, junk)

\* The buffer while its lines are looked at, from line_start on.
LinePart(T, q, p, last, cnt, ls, data, junk) ==
    /\ p = q + last /\ p <= Len(T) /\ (ls = 0 \/ ls < last)
    /\ Boundary(T, q + ls) /\ Filled(T, q, ls, last, data) /\ Stopped(data, junk)
    /\ (last < BufSize => p = Len(T)) /\ (cnt = 0 => p = Len(T))

\* What the property asks of a text that is searched.
TextServes(T, junk) ==
    /\ \A k \in DOMAIN T : T[k] # 0
    /\ \A k \in DOMAIN LinesOf(T) : Len(LinesOf(T)[k]) <= BufSize
    /\ junk = Newline => Len(T) < BufSize

\* More of the text behind what is in the buffer.
LEMMA PutIs ==
    ASSUME NEW data, IsBuffer(data), NEW T \in Seq(Int), NEW p \in Nat, NEW h \in Nat, p <= h, h <= Len(T),
           NEW last \in Nat, NEW d, d = Put(data, last, SubSeq(T, p + 1, h))
    PROVE  /\ IsBuffer(d)
           /\ \A a \in 0 .. BufSize :
                /\ a < last \/ a >= last + (h - p) => d[a] = data[a]
                /\ a >= last /\ a < last + (h - p) => d[a] = T[p + (a - last + 1)]
<1>0. BufSize \in Nat
    BY UserProgramsAssumption
<1>1. PICK t \in Seq(Int) : t = SubSeq(T, p + 1, h) /\ Len(t) = h - p /\ \A j \in 1 .. h - p : t[j] = T[p + j]
    BY SubSeqIs
<1>2. DOMAIN data = 0 .. BufSize
    BY DEF IsBuffer
<1>3. DOMAIN t = 1 .. h - p
    BY <1>1
<1>4. d = [a \in 0 .. BufSize |-> IF a - last + 1 \in 1 .. h - p THEN t[a - last + 1] ELSE data[a]]
    BY <1>1, <1>2, <1>3 DEF Put
<1>5. IsBuffer(d)
    BY <1>4 DEF IsBuffer
<1>6. ASSUME NEW a \in 0 .. BufSize
      PROVE  /\ a < last \/ a >= last + (h - p) => d[a] = data[a]
             /\ a >= last /\ a < last + (h - p) => d[a] = T[p + (a - last + 1)]
    <2>1. d[a] = IF a - last + 1 \in 1 .. h - p THEN t[a - last + 1] ELSE data[a]
        BY <1>4
    <2>2. a - last + 1 \in 1 .. h - p <=> a >= last /\ a < last + (h - p)
        OBVIOUS
    <2>3. a - last + 1 \in 1 .. h - p => t[a - last + 1] = T[p + (a - last + 1)]
        BY <1>1
    <2>4. a < last \/ a >= last + (h - p) <=> ~(a >= last /\ a < last + (h - p))
        OBVIOUS
    <2> QED BY <2>1, <2>2, <2>3, <2>4
<1> QED BY <1>5, <1>6

\* After a read the buffer has more of the text, to its end or the end of the
\* buffer.
LEMMA Refilled ==
    ASSUME NEW T \in Seq(Int), NEW q \in Nat, NEW p \in Nat, NEW last \in Nat, NEW data, IsBuffer(data), NEW junk,
           ReadPart(T, q, p, last, data, junk),
           NEW r \in Nat, p + r <= Len(T), r <= BufSize - last, r = BufSize - last \/ p + r = Len(T),
           NEW d, d = Put(data, last, SubSeq(T, p + 1, p + r)), NEW z, z = 0
    PROVE  LinePart(T, q, p + r, last + r, r, z, d, junk)
<1>0. BufSize \in Nat
    BY UserProgramsAssumption
<1>1. PICK h \in Nat : h = p + r /\ p <= h /\ h <= Len(T) /\ h - p = r
    OBVIOUS
<1>2. \A a \in 0 .. BufSize :
        /\ a < last \/ a >= last + r => d[a] = data[a]
        /\ a >= last /\ a < last + r => d[a] = T[p + (a - last + 1)]
    <2>1. \A a \in 0 .. BufSize :
            /\ a < last \/ a >= last + (h - p) => d[a] = data[a]
            /\ a >= last /\ a < last + (h - p) => d[a] = T[p + (a - last + 1)]
        BY <1>1, PutIs
    <2> QED BY <1>1, <2>1
<1>3. p = q + last /\ p <= Len(T) /\ last < BufSize
    BY DEF ReadPart
<1>4. Filled(T, q, 0, last, data) /\ Stopped(data, junk) /\ Boundary(T, q)
    BY DEF ReadPart
<1>5. ASSUME NEW i \in z .. last + r - 1 PROVE d[i] = T[q + i + 1]
    <2>1. i \in 0 .. BufSize
        BY <1>0, <1>3
    <2>2. CASE i < last
        <3>1. i \in 0 .. last - 1
            BY <2>1, <2>2
        <3>2. data[i] = T[q + i + 1]
            BY <1>4, <3>1 DEF Filled
        <3> QED BY <1>2, <2>1, <2>2, <3>2
    <2>3. CASE i >= last
        <3>1. i < last + r /\ p + (i - last + 1) = q + i + 1
            BY <1>3, <2>1
        <3> QED BY <1>2, <2>1, <2>3, <3>1
    <2> QED BY <2>1, <2>2, <2>3
<1>6. Filled(T, q, z, last + r, d)
    <2>1. PICK n : n = last + r
        OBVIOUS
    <2>2. \A i \in z .. n - 1 : d[i] = T[q + i + 1]
        BY <1>5, <2>1
    <2>3. Filled(T, q, z, n, d)
        BY <2>2, Zenon DEF Filled
    <2> QED BY <2>1, <2>3
<1>7. Stopped(d, junk)
    <2>1. BufSize \in 0 .. BufSize /\ BufSize >= last + r
        BY <1>0, <1>3
    <2> QED BY <1>2, <1>4, <2>1 DEF Stopped
<1>8. p + r = q + (last + r) /\ (last + r < BufSize => p + r = Len(T)) /\ (r = 0 => p + r = Len(T))
    BY <1>0, <1>3
<1>9. Boundary(T, q + z)
    <2>1. q + z = q
        OBVIOUS
    <2> QED BY <1>4, <2>1
<1> QED BY <1>6, <1>7, <1>8, <1>9 DEF LinePart

\* Where the line ends, or the buffer does.
LineEnd(last, ls, data) == Min({e \in ls .. BufSize : e >= last \/ data[e] = Newline})

\* At a newline, or where the text in the buffer ends.
LEMMA LineEndIs ==
    ASSUME NEW ls \in Nat, NEW last \in Nat, ls <= last, last <= BufSize, NEW data
    PROVE  /\ LineEnd(last, ls, data) \in ls .. last
           /\ LineEnd(last, ls, data) = last \/ data[LineEnd(last, ls, data)] = Newline
           /\ NoneIn(data, ls, LineEnd(last, ls, data))
<1>0. BufSize \in Nat
    BY UserProgramsAssumption
<1> DEFINE S == {e \in ls .. BufSize : e >= last \/ data[e] = Newline}
<1>1. last \in S /\ S \subseteq Nat
    BY <1>0
<1>2. \A k \in ls .. last : data[k] = Newline => k \in S
    BY <1>0
<1>3. \A k \in S : k >= ls /\ (k >= last \/ data[k] = Newline)
    BY <1>0
<1>4. LineEnd(last, ls, data) = Min(S)
    BY DEF LineEnd
<1> HIDE DEF S
<1>5. Min(S) \in S /\ \A k \in S : Min(S) <= k
    BY <1>1, FirstOf
<1>6. PICK e \in Nat : e = Min(S)
    BY <1>1, <1>5
<1>7. e <= last /\ e >= ls /\ (e >= last \/ data[e] = Newline)
    BY <1>1, <1>3, <1>5, <1>6
<1>8. ASSUME NEW k \in ls .. e - 1, data[k] = Newline PROVE FALSE
    <2>1. k \in ls .. last /\ ~(e <= k)
        BY <1>7
    <2>2. k \in S
        BY <1>2, <1>8, <2>1
    <2> QED BY <1>5, <1>6, <2>1, <2>2
<1>9. NoneIn(data, ls, e)
    BY <1>8 DEF NoneIn
<1> QED BY <1>4, <1>6, <1>7, <1>9

\* Then none is in the text before it.
LEMMA NoneBefore ==
    ASSUME NEW T, NEW q \in Nat, NEW ls \in Nat, NEW e \in Nat, NEW last \in Nat, e <= last, NEW data,
           Filled(T, q, ls, last, data), NoneIn(data, ls, e),
           NEW a, a = q + ls, NEW b, b = q + e
    PROVE  NoNewline(T, a, b)
<1>1. ASSUME NEW k \in a + 1 .. b PROVE T[k] # Newline
    <2>1. PICK i \in Nat : i = k - q - 1 /\ i \in ls .. e - 1 /\ i \in ls .. last - 1 /\ q + i + 1 = k
        <3>1. k - q - 1 \in Nat /\ k - q - 1 \in ls .. e - 1 /\ q + (k - q - 1) + 1 = k
            OBVIOUS
        <3> QED BY <3>1
    <2>2. data[i] = T[q + i + 1]
        BY <2>1 DEF Filled
    <2> QED BY <2>1, <2>2 DEF NoneIn
<1> QED BY <1>1 DEF NoNewline

\* With the end set to 0.
Closed(data, e) == [data EXCEPT ![e] = 0]

\* The other bytes are as they were.
LEMMA ClosedIs ==
    ASSUME NEW data, IsBuffer(data), NEW e \in 0 .. BufSize
    PROVE  /\ IsBuffer(Closed(data, e)) /\ Closed(data, e)[e] = 0
           /\ \A i \in 0 .. BufSize : i # e => Closed(data, e)[i] = data[i]
BY DEF IsBuffer, Closed

\* A line in the buffer is closed by a 0.
LEMMA LineBuffered ==
    ASSUME NEW T \in Seq(Int), NEW q \in Nat, NEW ls \in Nat, NEW e \in Nat, NEW last \in Nat,
           ls <= e, e <= last, last <= BufSize, q + last <= Len(T),
           NEW data, IsBuffer(data), Filled(T, q, ls, last, data)
    PROVE  /\ SubSeq(T, (q + ls) + 1, q + e) \in Seq(Int)
           /\ Buffered(Closed(data, e), ls, e, SubSeq(T, (q + ls) + 1, q + e))
<1>0. BufSize \in Nat
    BY UserProgramsAssumption
<1>1. PICK a \in Nat, b \in Nat : a = q + ls /\ b = q + e /\ a <= b /\ b <= Len(T) /\ b - a = e - ls
    <2>1. Len(T) \in Nat /\ q + ls \in Nat /\ q + e \in Nat
        OBVIOUS
    <2> QED BY <2>1
<1>2. PICK t : /\ t = SubSeq(T, a + 1, b) /\ t \in Seq(Int) /\ Len(t) = b - a
               /\ \A i \in 1 .. b - a : t[i] = T[a + i]
    <2>1. /\ SubSeq(T, a + 1, b) \in Seq(Int) /\ Len(SubSeq(T, a + 1, b)) = b - a
          /\ \A i \in 1 .. b - a : SubSeq(T, a + 1, b)[i] = T[a + i]
        BY <1>1, SubSeqIs
    <2> QED BY <2>1
<1>3. ASSUME NEW j \in 1 .. e - ls PROVE Closed(data, e)[ls + j - 1] = t[j]
    <2>1. PICK i \in Nat : i = ls + j - 1 /\ i \in 0 .. BufSize /\ i # e /\ i \in ls .. last - 1 /\ q + i + 1 = a + j
        <3>1. /\ ls + j - 1 \in Nat /\ ls + j - 1 \in 0 .. BufSize /\ ls + j - 1 # e
              /\ ls + j - 1 \in ls .. last - 1 /\ q + (ls + j - 1) + 1 = a + j
            BY <1>0, <1>1
        <3> QED BY <3>1
    <2>2. e \in 0 .. BufSize
        BY <1>0
    <2>3. Closed(data, e)[i] = data[i]
        BY <2>1, <2>2, ClosedIs
    <2>4. data[i] = T[a + j]
        BY <2>1 DEF Filled
    <2>5. t[j] = T[a + j]
        BY <1>1, <1>2
    <2> QED BY <2>1, <2>3, <2>4, <2>5
<1>4. Buffered(Closed(data, e), ls, e, t)
    BY <1>1, <1>2, <1>3 DEF Buffered
<1> QED BY <1>1, <1>2, <1>4

\* What is there after a line was printed, or not.
AfterLine(T, q, p, last, cnt, ls, e, data, junk, r) ==
    /\ LineDone(T, q + ls, q + e, r)
    /\ e + 1 < last => r = q + e + 1 /\ LinePart(T, q, p, last, cnt, e + 1, data, junk)
    /\ ~(e + 1 < last) => r = p /\ ReadPart(T, p, p, 0, data, junk) /\ (cnt = 0 => p = Len(T))

\* It is still stopped.
LEMMA ClosedStays ==
    ASSUME NEW data, IsBuffer(data), NEW e \in 0 .. BufSize, NEW junk, Stopped(data, junk)
    PROVE  Stopped(Closed(data, e), junk)
<1>1. BufSize \in 0 .. BufSize
    BY UserProgramsAssumption
<1> QED BY <1>1, ClosedIs DEF Stopped

\* A newline was found.
LEMMA AfterNewline ==
    ASSUME NEW T \in Seq(Int), NEW q \in Nat, NEW p \in Nat, NEW last \in Nat, last <= BufSize, NEW cnt,
           NEW ls \in Nat, NEW e \in Nat, ls <= e, e < last, NEW data, IsBuffer(data), NEW junk,
           LinePart(T, q, p, last, cnt, ls, data, junk), data[e] = Newline,
           NoneIn(data, ls, e)
    PROVE  \E r : AfterLine(T, q, p, last, cnt, ls, e, Closed(data, e), junk, r)
<1>0. BufSize \in Nat \ {0}
    BY UserProgramsAssumption
<1>1. p = q + last /\ p <= Len(T)
    BY DEF LinePart
<1>2. /\ Boundary(T, q + ls) /\ Filled(T, q, ls, last, data) /\ Stopped(data, junk)
      /\ (last < BufSize => p = Len(T)) /\ (cnt = 0 => p = Len(T))
    BY DEF LinePart
<1>3. PICK a \in Nat, m \in Nat : /\ a = q + ls /\ m = q + e /\ a <= m /\ m + 1 <= Len(T) /\ m + 1 = q + e + 1
                                  /\ m + 1 <= p
    <2>1. Len(T) \in Nat /\ q + ls \in Nat /\ q + e \in Nat
        OBVIOUS
    <2> QED BY <1>1, <2>1
<1>4. NoNewline(T, a, m)
    <2>1. e <= last
        OBVIOUS
    <2> QED BY <1>2, <1>3, <2>1, NoneBefore
<1>5. T[m + 1] = Newline
    <2>1. e \in ls .. last - 1
        OBVIOUS
    <2> QED BY <1>2, <1>3, <2>1 DEF Filled
<1>6. LineDone(T, a, m, m + 1)
    BY <1>2, <1>3, <1>4, <1>5, LineFound
<1>7. PICK d : d = Closed(data, e)
    OBVIOUS
<1>8. e \in 0 .. BufSize
    BY <1>0
<1>9. Stopped(d, junk)
    BY <1>2, <1>7, <1>8, ClosedStays
<1>10. Boundary(T, m + 1)
    BY <1>6 DEF LineDone
<1>11. CASE e + 1 < last
    <2>1. Filled(T, q, e + 1, last, d)
        <3>1. ASSUME NEW i \in e + 1 .. last - 1 PROVE d[i] = T[q + i + 1]
            <4>1. i \in 0 .. BufSize /\ i # e /\ i \in ls .. last - 1
                BY <1>0
            <4>2. d[i] = data[i]
                BY <1>7, <1>8, <4>1, ClosedIs
            <4>3. data[i] = T[q + i + 1]
                BY <1>2, <4>1 DEF Filled
            <4> QED BY <4>2, <4>3
        <3> QED BY <3>1 DEF Filled
    <2>2. q + (e + 1) = m + 1
        BY <1>3
    <2>3. Boundary(T, q + (e + 1))
        BY <1>10, <2>2
    <2>4. LinePart(T, q, p, last, cnt, e + 1, d, junk)
        BY <1>1, <1>2, <1>9, <1>11, <2>1, <2>3 DEF LinePart
    <2>5. AfterLine(T, q, p, last, cnt, ls, e, d, junk, m + 1)
        BY <1>3, <1>6, <1>11, <2>4 DEF AfterLine
    <2> QED BY <1>7, <2>5
<1>12. CASE ~(e + 1 < last)
    <2>1. m + 1 = p
        BY <1>1, <1>3, <1>12
    <2>2. Filled(T, p, 0, 0, d)
        BY DEF Filled
    <2>3. p = p + 0 /\ 0 < BufSize
        BY <1>0
    <2>4. ReadPart(T, p, p, 0, d, junk)
        BY <1>1, <1>9, <1>10, <2>1, <2>2, <2>3 DEF ReadPart
    <2>5. AfterLine(T, q, p, last, cnt, ls, e, d, junk, m + 1)
        BY <1>2, <1>3, <1>6, <1>12, <2>1, <2>4 DEF AfterLine
    <2> QED BY <1>7, <2>5
<1> QED BY <1>11, <1>12

\* The end of what was read is printed: the file is at its end, or the line
\* fills the buffer.
LEMMA AfterEnd ==
    ASSUME NEW T \in Seq(Int), NEW q \in Nat, NEW p \in Nat, NEW last \in Nat, last <= BufSize, NEW cnt,
           NEW ls \in Nat, ls <= last, NEW data, IsBuffer(data), NEW junk,
           LinePart(T, q, p, last, cnt, ls, data, junk), TextServes(T, junk),
           NoneIn(data, ls, last),
           data[last] = Newline \/ cnt = 0 \/ ls = 0
    PROVE  \E r : AfterLine(T, q, p, last, cnt, ls, last, Closed(data, last), junk, r)
<1>0. BufSize \in Nat \ {0}
    BY UserProgramsAssumption
<1>1. p = q + last /\ p <= Len(T)
    BY DEF LinePart
<1>2. /\ Boundary(T, q + ls) /\ Filled(T, q, ls, last, data) /\ Stopped(data, junk)
      /\ (last < BufSize => p = Len(T)) /\ (cnt = 0 => p = Len(T))
    BY DEF LinePart
<1>3. PICK a \in Nat : a = q + ls /\ a <= p
    <2>1. q + ls \in Nat
        OBVIOUS
    <2> QED BY <1>1, <2>1
<1>4. NoNewline(T, a, p)
    <2>1. last <= last
        OBVIOUS
    <2> QED BY <1>1, <1>2, <1>3, <2>1, NoneBefore
<1>5. LineDone(T, a, p, p)
    <2>1. CASE p = Len(T)
        BY <1>2, <1>3, <1>4, <2>1, LastFound
    <2>2. CASE p # Len(T)
        <3>1. last = BufSize /\ cnt # 0 /\ p < Len(T)
            <4>1. Len(T) \in Nat
                OBVIOUS
            <4> QED BY <1>0, <1>1, <1>2, <2>2, <4>1
        <3>2. data[last] # Newline
            <4>1. ASSUME data[last] = Newline PROVE FALSE
                <5>1. Newline # 0
                    BY DEF Newline
                <5>2. junk = Newline
                    BY <1>2, <3>1, <4>1, <5>1 DEF Stopped
                <5>3. Len(T) < BufSize
                    BY <5>2 DEF TextServes
                <5> QED BY <1>0, <1>1, <3>1, <5>3
            <4> QED BY <4>1
        <3>3. ls = 0
            BY <3>1, <3>2
        <3>4. p = a + BufSize /\ p < Len(T)
            BY <1>0, <1>1, <1>3, <3>1, <3>3
        <3>5. PICK n \in Nat \ {0} : n = BufSize /\ p = a + n
            BY <1>0, <3>4
        <3>6. \A k \in DOMAIN LinesOf(T) : Len(LinesOf(T)[k]) <= n
            BY <3>5 DEF TextServes
        <3>7. Boundary(T, a)
            BY <1>2, <1>3
        <3> QED BY <1>4, <3>4, <3>5, <3>6, <3>7, FullFound
    <2> QED BY <2>1, <2>2
<1>6. PICK d : d = Closed(data, last)
    OBVIOUS
<1>7. last \in 0 .. BufSize
    BY <1>0
<1>8. Stopped(d, junk)
    BY <1>2, <1>6, <1>7, ClosedStays
<1>9. Boundary(T, p)
    BY <1>5 DEF LineDone
<1>10. Filled(T, p, 0, 0, d)
    BY DEF Filled
<1>11. p = p + 0 /\ 0 < BufSize /\ ~(last + 1 < last)
    BY <1>0
<1>12. ReadPart(T, p, p, 0, d, junk)
    BY <1>1, <1>8, <1>9, <1>10, <1>11 DEF ReadPart
<1>13. AfterLine(T, q, p, last, cnt, ls, last, d, junk, p)
    BY <1>1, <1>2, <1>3, <1>5, <1>11, <1>12 DEF AfterLine
<1> QED BY <1>6, <1>13

-----------------------------------------------------------------------------
\* What grep has printed.

\* What is copied to the front.
LEMMA CopiedIs ==
    ASSUME NEW data, IsBuffer(data), NEW ls \in Nat, NEW last \in Nat, ls <= last, last <= BufSize,
           data[last] = 0, \A k \in ls .. last - 1 : data[k] # 0, NEW d, d = CopyDown(data, ls)
    PROVE  /\ IsBuffer(d)
           /\ \A i \in 0 .. BufSize : /\ i <= last - ls => d[i] = data[ls + i]
                                      /\ ~(i <= last - ls) => d[i] = data[i]
<1>0. BufSize \in Nat
    BY UserProgramsAssumption
<1>1. PICK n \in Nat : n = last - ls
    <2>1. last - ls \in Nat
        OBVIOUS
    <2> QED BY <2>1
<1> DEFINE S == {k \in 0 .. BufSize - ls : data[ls + k] = 0}
<1>2. S \subseteq Int
    OBVIOUS
<1>3. n \in S
    <2>1. n \in 0 .. BufSize - ls /\ ls + n = last
        BY <1>0, <1>1
    <2> QED BY <2>1
<1>4. \A k \in S : n <= k
    <2>1. ASSUME NEW k \in S, ~(n <= k) PROVE FALSE
        <3>1. PICK j \in Nat : j = ls + k /\ j \in ls .. last - 1
            <4>1. ls + k \in Nat /\ ls + k \in ls .. last - 1
                BY <1>1, <2>1
            <4> QED BY <4>1
        <3> QED BY <2>1, <3>1
    <2> QED BY <2>1
<1>5. Min(S) = n
    <2> HIDE DEF S
    <2> QED BY <1>2, <1>3, <1>4, MinIs
<1>6. DOMAIN data = 0 .. BufSize
    BY DEF IsBuffer
<1>7. d = [i \in 0 .. BufSize |-> IF i <= n THEN data[ls + i] ELSE data[i]]
    BY <1>5, <1>6 DEF CopyDown
<1>8. IsBuffer(d)
    BY <1>7 DEF IsBuffer
<1>9. \A i \in 0 .. BufSize : /\ i <= n => d[i] = data[ls + i]
                              /\ ~(i <= n) => d[i] = data[i]
    BY <1>7
<1> QED BY <1>1, <1>8, <1>9

\* A line that is not complete goes to the front.
LEMMA KeptPart ==
    ASSUME NEW T \in Seq(Int), NEW q \in Nat, NEW p \in Nat, NEW last \in Nat, last <= BufSize, NEW cnt,
           NEW ls \in Nat, ls <= last, ls # 0, NEW data, IsBuffer(data), NEW junk,
           LinePart(T, q, p, last, cnt, ls, data, junk), TextServes(T, junk),
           NEW d, d = CopyDown(Closed(data, last), ls), NEW a, a = q + ls, NEW l, l = last - ls
    PROVE  ReadPart(T, a, p, l, d, junk)
<1>0. BufSize \in Nat
    BY UserProgramsAssumption
<1>1. p = q + last /\ p <= Len(T)
    BY DEF LinePart
<1>2. Boundary(T, q + ls) /\ Filled(T, q, ls, last, data) /\ Stopped(data, junk)
    BY DEF LinePart
<1>3. PICK c : c = Closed(data, last)
    OBVIOUS
<1>4. last \in 0 .. BufSize
    BY <1>0
<1>5. IsBuffer(c) /\ c[last] = 0 /\ \A i \in 0 .. BufSize : i # last => c[i] = data[i]
    BY <1>3, <1>4, ClosedIs
<1>6. \A k \in ls .. last - 1 : c[k] = T[q + k + 1] /\ c[k] # 0
    <2>1. ASSUME NEW k \in ls .. last - 1 PROVE c[k] = T[q + k + 1] /\ c[k] # 0
        <3>1. k \in 0 .. BufSize /\ k # last
            BY <1>0
        <3>2. data[k] = T[q + k + 1]
            BY <1>2 DEF Filled
        <3>3. PICK j \in Nat : j = q + k + 1 /\ j \in DOMAIN T
            <4>1. q + k + 1 \in Nat /\ q + k + 1 \in 1 .. Len(T)
                BY <1>1
            <4> QED BY <4>1
        <3>4. T[j] # 0
            BY <3>3 DEF TextServes
        <3> QED BY <1>5, <3>1, <3>2, <3>3, <3>4
    <2> QED BY <2>1
<1>7. \A i \in 0 .. BufSize : /\ i <= last - ls => d[i] = c[ls + i]
                              /\ ~(i <= last - ls) => d[i] = c[i]
    <2>1. \A k \in ls .. last - 1 : c[k] # 0
        BY <1>6
    <2>2. d = CopyDown(c, ls)
        BY <1>3
    <2> QED BY <1>5, <2>1, <2>2, CopiedIs, SMTT(30)
<1>8. Stopped(d, junk)
    <2>1. BufSize \in 0 .. BufSize /\ ~(BufSize <= last - ls)
        BY <1>0
    <2>2. Stopped(c, junk)
        BY <1>2, <1>3, <1>4, ClosedStays
    <2> QED BY <1>7, <2>1, <2>2 DEF Stopped
<1>9. Filled(T, a, 0, l, d)
    <2>1. ASSUME NEW i \in 0 .. l - 1 PROVE d[i] = T[a + i + 1]
        <3>1. i \in 0 .. BufSize /\ i <= last - ls
            BY <1>0
        <3>2. PICK k \in Nat : k = ls + i /\ k \in ls .. last - 1 /\ q + k + 1 = a + i + 1
            <4>1. ls + i \in Nat /\ ls + i \in ls .. last - 1 /\ q + (ls + i) + 1 = a + i + 1
                OBVIOUS
            <4> QED BY <4>1
        <3>3. d[i] = c[k]
            BY <1>7, <3>1, <3>2
        <3>4. c[k] = T[q + k + 1]
            BY <1>6, <3>2
        <3> QED BY <3>2, <3>3, <3>4
    <2> QED BY <2>1 DEF Filled
<1>10. p = a + l /\ l < BufSize
    BY <1>0, <1>1
<1>11. Boundary(T, a)
    BY <1>2
<1> QED BY <1>1, <1>8, <1>9, <1>10, <1>11 DEF ReadPart

-----------------------------------------------------------------------------
\* What grep prints of the files, and of one up to a line.
OfFiles(v, s) ==
    [f \in 1 .. Len(v.image) |-> IF f \in TextFiles(v) THEN GrepPrintsOf(v, f, s) ELSE <<>>]

\* What is printed of the first n files.
FilesTo(v, s, n) == Flat(OfFiles(v, s), n)

\* What is printed before file f, and of the first k of its lines.
OutTo(v, s, f, k) == FilesTo(v, s, f - 1) \o PrintsTo(v.image[f].name, Text(v, f), s, k)

\* The names of the image are those of the entries.
LEMMA NameIs ==
    ASSUME ReadInv, NEW f \in 1 .. Len(dir_entries)
    PROVE  Volume.image[f].name = dir_entries[f].name /\ Volume.image[f].name \in Seq(Int)
BY EntriesAre DEF Volume, CStrings

\* What is printed of a file is what is printed of all its lines.
LEMMA PrintsOfIs ==
    ASSUME ReadInv, Sound, NEW f \in 1 .. Len(dir_entries), NEW s, NEW T, T = Text(Volume, f)
    PROVE  /\ GrepPrintsOf(Volume, f, s) = PrintsTo(Volume.image[f].name, T, s, Len(LinesOf(T)))
           /\ GrepPrintsOf(Volume, f, s) \in Seq(Int)
<1>1. T \in Seq(Int)
    BY TextIs
<1>2. PICK L \in Seq(Seq(Int)) : L = LinesOf(T) /\ L = Lines(Volume, f)
    BY <1>1, LinesOfIs DEF Lines
<1>3. PICK name \in Seq(Int) : name = Volume.image[f].name
    BY NameIs
<1>4. GrepPrintsOf(Volume, f, s) = FlattenSeq([n \in DOMAIN L |-> GrepPrintsLine(name, L[n], s)])
    BY <1>2, <1>3 DEF GrepPrintsOf
<1>5. PICK F : F = LinesPrinted(name, T, s)
    OBVIOUS
<1>6. F = [n \in DOMAIN L |-> GrepPrintsLine(name, L[n], s)]
    BY <1>2, <1>5 DEF LinesPrinted
<1>7. F = [k \in 1 .. Len(L) |-> F[k]]
    <2>1. DOMAIN L = 1 .. Len(L)
        OBVIOUS
    <2> QED BY <1>6, <2>1
<1>8. GrepPrintsOf(Volume, f, s) = Flat(F, Len(L))
    BY <1>4, <1>6, <1>7 DEF Flat
<1>9. Flat(F, Len(L)) = PrintsTo(name, T, s, Len(LinesOf(T)))
    BY <1>2, <1>5 DEF PrintsTo
<1>10. PrintsTo(name, T, s, Len(LinesOf(T))) \in Seq(Int)
    <2>1. PICK q \in Nat : q = Len(T) /\ q <= Len(T)
        BY <1>1
    <2>2. PrintsTo(name, T, s, DoneTo(T, q)) \in Seq(Int)
        BY <1>1, <2>1, PrintsToIs
    <2>3. DoneTo(T, q) = Len(LinesOf(T))
        BY <1>1, <2>1, DoneAll
    <2> QED BY <2>2, <2>3
<1> QED BY <1>3, <1>8, <1>9, <1>10

\* What is printed of an entry: of a text its lines, of a directory nothing.
LEMMA OfFilesAre ==
    ASSUME ReadInv, Sound, NEW f \in 1 .. Len(dir_entries), NEW s
    PROVE  /\ OfFiles(Volume, s)[f] \in Seq(Int)
           /\ f \in TextFiles(Volume) => OfFiles(Volume, s)[f] = GrepPrintsOf(Volume, f, s)
           /\ f \notin TextFiles(Volume) => OfFiles(Volume, s)[f] = <<>>
<1>1. OfFiles(Volume, s)[f] = IF f \in TextFiles(Volume) THEN GrepPrintsOf(Volume, f, s) ELSE <<>>
    BY DEF OfFiles, Volume
<1>2. GrepPrintsOf(Volume, f, s) \in Seq(Int) /\ <<>> \in Seq(Int)
    <2>1. <<>> \in Seq(Int)
        OBVIOUS
    <2> QED BY <2>1, PrintsOfIs
<1> QED BY <1>1, <1>2

\* What is printed of the files is a text.
LEMMA FilesToIs ==
    ASSUME ReadInv, Sound, NEW n \in Nat, n <= Len(dir_entries), NEW s
    PROVE  FilesTo(Volume, s, n) \in Seq(Int)
<1>1. \A f \in 1 .. n : f \in 1 .. Len(dir_entries)
    BY EntriesAre
<1>2. \A f \in 1 .. n : OfFiles(Volume, s)[f] \in Seq(Int)
    BY <1>1, OfFilesAre
<1> QED BY <1>2, FlatIsSeq DEF FilesTo

\* A directory adds nothing, a file what is printed of it.
LEMMA FilesMore ==
    ASSUME ReadInv, Sound, NEW f \in 1 .. Len(dir_entries), NEW s
    PROVE  /\ f \notin TextFiles(Volume) => FilesTo(Volume, s, f) = FilesTo(Volume, s, f - 1)
           /\ f \in TextFiles(Volume) =>
                 FilesTo(Volume, s, f) = OutTo(Volume, s, f, Len(LinesOf(Text(Volume, f))))
           /\ OutTo(Volume, s, f, 0) = FilesTo(Volume, s, f - 1)
<1>1. PICK n \in Nat : n = f - 1 /\ n + 1 = f /\ n <= Len(dir_entries)
    <2>1. f - 1 \in Nat /\ f - 1 + 1 = f /\ f - 1 <= Len(dir_entries)
        BY EntriesAre
    <2> QED BY <2>1
<1>2. PICK F : F = OfFiles(Volume, s)
    OBVIOUS
<1>3. F[n + 1] \in Seq(Int)
    BY <1>1, <1>2, OfFilesAre
<1>4. Flat(F, n + 1) = Flat(F, n) \o F[n + 1]
    BY <1>3, FlatMore
<1>5. PICK w \in Seq(Int) : w = FilesTo(Volume, s, n) /\ w = Flat(F, n)
    BY <1>1, <1>2, FilesToIs DEF FilesTo
<1>6. FilesTo(Volume, s, f) = w \o F[f]
    BY <1>1, <1>2, <1>4, <1>5 DEF FilesTo
<1>7. w \o <<>> = w
    BY ConcatEmptySeq
<1>8. ASSUME f \notin TextFiles(Volume) PROVE FilesTo(Volume, s, f) = FilesTo(Volume, s, f - 1)
    BY <1>1, <1>2, <1>5, <1>6, <1>7, <1>8, OfFilesAre
<1>9. ASSUME f \in TextFiles(Volume)
      PROVE  FilesTo(Volume, s, f) = OutTo(Volume, s, f, Len(LinesOf(Text(Volume, f))))
    <2>1. F[f] = PrintsTo(Volume.image[f].name, Text(Volume, f), s, Len(LinesOf(Text(Volume, f))))
        BY <1>2, <1>9, OfFilesAre, PrintsOfIs
    <2> QED BY <1>1, <1>5, <1>6, <2>1 DEF OutTo
<1>10. OutTo(Volume, s, f, 0) = FilesTo(Volume, s, f - 1)
    <2>1. PrintsTo(Volume.image[f].name, Text(Volume, f), s, 0) = <<>>
        BY FlatNone DEF PrintsTo
    <2> QED BY <1>1, <1>5, <1>7, <2>1 DEF OutTo
<1> QED BY <1>8, <1>9, <1>10

\* Appending is associative, of texts.
Together(a, b, c) == (a \o b) \o c = a \o (b \o c)

\* It is.
LEMMA RegroupedInts ==
    ASSUME NEW a \in Seq(Int), NEW b \in Seq(Int), NEW c \in Seq(Int)
    PROVE  Together(a, b, c)
BY Regrouped DEF Together

\* Behind the line that ends at m, the output has what is printed of that
\* line.
OutGrows(v, s, f, T, q, m, r, name) ==
    OutTo(v, s, f, DoneTo(T, r)) = OutTo(v, s, f, DoneTo(T, q)) \o GrepPrintsLine(name, SubSeq(T, q + 1, m), s)

\* A line more.
LEMMA OutMore ==
    ASSUME ReadInv, Sound, NEW f \in 1 .. Len(dir_entries), NEW s \in Seq(Int), s # <<>>,
           NEW T, T = Text(Volume, f), NEW q \in Nat, q <= Len(T), NEW m \in Nat, q <= m, m <= Len(T),
           NEW r, LineDone(T, q, m, r), NEW name, name = dir_entries[f].name
    PROVE  OutGrows(Volume, s, f, T, q, m, r, name)
<1>1. T \in Seq(Int)
    BY TextIs
<1>2. name \in Seq(Int) /\ name = Volume.image[f].name
    BY NameIs
<1>3. PICK a \in Seq(Int) : a = FilesTo(Volume, s, f - 1)
    <2>1. f - 1 \in Nat /\ f - 1 <= Len(dir_entries)
        BY EntriesAre
    <2> QED BY <2>1, FilesToIs
<1>4. PICK b \in Seq(Int) : b = PrintsTo(name, T, s, DoneTo(T, q))
    BY <1>1, <1>2, PrintsToIs
<1>5. SubSeq(T, q + 1, m) \in Seq(Int)
    BY <1>1, SubSeqIs
<1>6. PICK c \in Seq(Int) : c = GrepPrintsLine(name, SubSeq(T, q + 1, m), s)
    BY <1>2, <1>5, PrintsLineIs
<1>7. PrintsTo(name, T, s, DoneTo(T, r)) = b \o c
    <2>1. PrintsMore(name, T, s, q, m, r)
        BY <1>1, <1>2, LinePrinted
    <2> QED BY <1>4, <1>6, <2>1 DEF PrintsMore
<1>8. (a \o b) \o c = a \o (b \o c)
    <2>1. Together(a, b, c)
        BY RegroupedInts
    <2> QED BY <2>1 DEF Together
<1> QED BY <1>2, <1>3, <1>4, <1>6, <1>7, <1>8 DEF OutTo, OutGrows

\* What the property asks of grep is what is printed of all files.
LEMMA GrepPrintsIs == GrepPrints(Volume, args) = FilesTo(Volume, args, Len(dir_entries))
BY DEF GrepPrints, FilesTo, Flat, OfFiles, Volume

-----------------------------------------------------------------------------
\* grep, step by step.
GrepLocal(dir, junk, name, fd, last, cnt, ls, data) ==
    [dir |-> dir, junk |-> junk, fname |-> name, fd |-> fd,
     last |-> last, cnt |-> cnt, line_start |-> ls, data |-> data]

\* grep has the directory open.
GrepDir(dir) == dir \in Fds /\ inode[dir] \in FileNamed(dir_entries, Dot)

\* In the directory it stands before or behind entry f, which is no directory.
GrepAt(dir, name, f) ==
    /\ GrepDir(dir) /\ file_position[dir] = f /\ f \in 1 .. Len(dir_entries)
    /\ name = dir_entries[f].name /\ name[1] # Dot[1]

\* It has file f open, too.
GrepFile(dir, name, f, fd) == GrepAt(dir, name, f) /\ fd \in Fds /\ fd # dir /\ inode[fd] = f

\* It is between two files.
GrepNext(dir, junk) ==
    /\ local = [dir |-> dir, junk |-> junk] /\ GrepDir(dir)
    /\ BufferServes(Volume, junk) => out = FilesTo(Volume, args, file_position[dir])

\* It has read the name of file f.
GrepOpening(dir, junk, name, f) ==
    /\ local = [dir |-> dir, junk |-> junk, fname |-> name] /\ GrepAt(dir, name, f)
    /\ BufferServes(Volume, junk) => out = FilesTo(Volume, args, f - 1)

\* It has read p bytes of f, and printed of the lines before q.
ReadSoFar(f, q, p, last, data, junk) ==
    /\ ReadPart(Text(Volume, f), q, p, last, data, junk)
    /\ out = OutTo(Volume, args, f, DoneTo(Text(Volume, f), q))

\* It reads on.
GrepReading(dir, junk, name, f, fd, last, cnt, ls, data) ==
    /\ local = GrepLocal(dir, junk, name, fd, last, cnt, ls, data) /\ GrepFile(dir, name, f, fd)
    /\ last \in Nat /\ last <= BufSize /\ IsBuffer(data)
    /\ BufferServes(Volume, junk) => \E q \in Nat : ReadSoFar(f, q, file_position[fd], last, data, junk)

\* It has printed of the lines before line_start.
LinedSoFar(f, q, p, last, cnt, ls, data, junk) ==
    /\ LinePart(Text(Volume, f), q, p, last, cnt, ls, data, junk)
    /\ out = OutTo(Volume, args, f, DoneTo(Text(Volume, f), q + ls))

\* It looks at the line that begins there.
GrepLining(dir, junk, name, f, fd, last, cnt, ls, data) ==
    /\ local = GrepLocal(dir, junk, name, fd, last, cnt, ls, data) /\ GrepFile(dir, name, f, fd)
    /\ f \in TextFiles(Volume) /\ file_position[fd] \in Nat
    /\ last \in Nat /\ last <= BufSize /\ ls \in Nat /\ ls <= last /\ IsBuffer(data)
    /\ BufferServes(Volume, junk) =>
          \E q \in Nat : LinedSoFar(f, q, file_position[fd], last, cnt, ls, data, junk)

\* It has printed of all lines of f.
GrepClosing(dir, junk, name, f, fd, last, cnt, ls, data) ==
    /\ local = GrepLocal(dir, junk, name, fd, last, cnt, ls, data) /\ GrepFile(dir, name, f, fd)
    /\ f \in TextFiles(Volume)
    /\ BufferServes(Volume, junk) => out = OutTo(Volume, args, f, Len(LinesOf(Text(Volume, f))))

\* It was started with a string to look for.
GrepArgs == args \in CStrings /\ args # <<>>

\* The invariant of grep.
GrepInv ==
    \/ Started
    \/ pc = "next" /\ GrepArgs /\ \E dir, junk : GrepNext(dir, junk)
    \/ pc = "open" /\ GrepArgs /\ \E dir, junk, name, f : GrepOpening(dir, junk, name, f)
    \/ /\ pc = "read" /\ GrepArgs
       /\ \E dir, junk, name, f, fd, last, cnt, ls, data :
             GrepReading(dir, junk, name, f, fd, last, cnt, ls, data)
    \/ /\ pc = "line" /\ GrepArgs
       /\ \E dir, junk, name, f, fd, last, cnt, ls, data :
             GrepLining(dir, junk, name, f, fd, last, cnt, ls, data)
    \/ /\ pc = "close" /\ GrepArgs
       /\ \E dir, junk, name, f, fd, last, cnt, ls, data :
             GrepClosing(dir, junk, name, f, fd, last, cnt, ls, data)
    \/ /\ pc = "exit"
       /\ local.status = 0 => (BufferServes(Volume, local.junk) => out = GrepPrints(Volume, args))

\* The name of the directory is a string.
LEMMA DotIsString == Dot \in CStrings
BY DEF Dot, CStrings

\* The directory, and where it stands.
LEMMA GrepMainStep ==
    ASSUME ReadInv, Sound, Started, GrepMain, At("grep", "main"), UNCHANGED <<Volume, args, dir_entries>>
    PROVE  GrepInv'
<1>1. out = <<>> /\ inode = [fd \in Fds |-> 0] /\ args \in CStrings
    BY DEF Started
<1>2. CASE GetargsFails(BufSize) /\ Return(3)
    <2>1. pc' = "exit" /\ local' = [status |-> 3]
        BY <1>2 DEF Return, Go
    <2>2. local'.status # 0
        BY <2>1
    <2> QED BY <2>1, <2>2 DEF GrepInv
<1>3. CASE /\ ~GetargsFails(BufSize) /\ Open(Dot)
           /\ IF result' = -1 THEN Say(<<DirectoryOpenFailed>>) /\ Return(2)
              ELSE /\ UNCHANGED out
                   /\ \E junk \in {0, Newline} : Go("next", [dir |-> result', junk |-> junk])
    <2>1. args # <<>>
        BY <1>3 DEF GetargsFails
    <2>2. OpenFails(Dot) \/ \E f \in FileNamed(dir_entries, Dot), fd \in Fds : OpensAt(Dot, f, fd)
        BY <1>3, DotIsString, OpenGives
    <2>3. CASE OpenFails(Dot)
        <3>1. pc' = "exit" /\ local' = [status |-> 2]
            BY <1>3, <2>3 DEF OpenFails, Return, Go
        <3>2. local'.status # 0
            BY <3>1
        <3> QED BY <3>1, <3>2 DEF GrepInv
    <2>4. ASSUME NEW f \in FileNamed(dir_entries, Dot), NEW fd \in Fds, OpensAt(Dot, f, fd) PROVE GrepInv'
        <3>1. result' = fd /\ fd # -1
            BY <2>4, SomeDescriptor DEF OpensAt
        <3>2. PICK junk : pc' = "next" /\ local' = [dir |-> fd, junk |-> junk] /\ out' = <<>>
            BY <1>1, <1>3, <3>1 DEF Go
        <3>3. inode'[fd] = f /\ file_position'[fd] = 0
            BY <2>4 DEF OpensAt, ReadInv, PositionInFile
        <3>4. GrepDir(fd)'
            BY <2>4, <3>3 DEF GrepDir
        <3>5. FilesTo(Volume', args', 0) = <<>>
            BY FlatNone DEF FilesTo
        <3>6. GrepNext(fd, junk)'
            BY <3>2, <3>3, <3>4, <3>5 DEF GrepNext
        <3>7. GrepArgs'
            BY <1>1, <2>1 DEF GrepArgs
        <3> QED BY <3>2, <3>6, <3>7 DEF GrepInv
    <2> QED BY <2>2, <2>3, <2>4
<1>4. ~At("grep", "next")
    BY DEF At
<1>5. \/ GetargsFails(BufSize) /\ Return(3)
      \/ /\ ~GetargsFails(BufSize) /\ Open(Dot)
         /\ IF result' = -1 THEN Say(<<DirectoryOpenFailed>>) /\ Return(2)
              ELSE /\ UNCHANGED out
                   /\ \E junk \in {0, Newline} : Go("next", [dir |-> result', junk |-> junk])
    BY <1>4 DEF GrepMain
<1> QED BY <1>2, <1>3, <1>5

\* What it reads through that descriptor are names.
LEMMA GrepDirReads ==
    ASSUME ReadInv, Sound, NEW dir, GrepDir(dir), Read(dir, NameLen)
    PROVE  Directory(dir)
<1>1. NameLen \in Nat
    BY FileSystemAssumption
<1>2. inode[dir] \in 1 .. Len(dir_entries)
    BY <1>1, ReadOfWhat DEF GrepDir
<1>3. dir_entries[inode[dir]].file_type = "directory"
    BY <1>2 DEF GrepDir, FileNamed, Sound, FlatImage
<1> QED BY <1>2, <1>3, EntriesAre DEF Directory, GrepDir

\* It takes the next name, or ends.
LEMMA GrepNextStep ==
    ASSUME ReadInv, Sound, NEW dir, NEW junk, GrepNext(dir, junk), GrepArgs, GrepMain, At("grep", "next"),
           UNCHANGED <<Volume, args, dir_entries>>
    PROVE  GrepInv'
<1>1. /\ Read(local.dir, NameLen) /\ UNCHANGED out
      /\ IF result' = 0 THEN Go("exit", [status |-> 0, junk |-> local.junk])
         ELSE LET name == Fresh(local.dir) IN
              IF name[1] = Dot[1] THEN Stay
              ELSE Go("open", [dir |-> local.dir, junk |-> local.junk, fname |-> name])
    BY DEF GrepMain, At
<1>2. local.dir = dir /\ local.junk = junk /\ local = [dir |-> dir, junk |-> junk] /\ GrepDir(dir)
    BY DEF GrepNext
<1>3. NameLen \in Nat /\ dir \in Fds
    BY <1>2, FileSystemAssumption DEF GrepDir
<1>4. Directory(dir)
    BY <1>1, <1>2, GrepDirReads
<1>5. PICK p \in Nat : ReadsName(dir, p)
    <2>1. Read(dir, NameLen)
        BY <1>1, <1>2
    <2> QED BY <1>3, <1>4, <2>1, ReadGivesName
<1>6. p = file_position[dir] /\ UNCHANGED <<dir_entries, inode>>
    BY <1>5 DEF ReadsName
<1>7. GrepDir(dir)'
    BY <1>2, <1>6 DEF GrepDir
<1>8. GrepArgs'
    BY DEF GrepArgs
<1>9. CASE result' = 0
    <2>1. p = Len(dir_entries)
        BY <1>5, <1>9 DEF ReadsName
    <2>2. pc' = "exit" /\ local' = [status |-> 0, junk |-> junk]
        BY <1>1, <1>2, <1>9 DEF Go
    <2>3. local'.junk = junk
        BY <2>2
    <2>4. BufferServes(Volume, junk) => out = GrepPrints(Volume, args)
        BY <1>6, <2>1, GrepPrintsIs DEF GrepNext
    <2>5. BufferServes(Volume, junk)' = BufferServes(Volume, junk) /\ GrepPrints(Volume, args)' = GrepPrints(Volume, args)
        BY SMT
    <2>6. (BufferServes(Volume, local.junk) => out = GrepPrints(Volume, args))'
        BY <1>1, <2>3, <2>4, <2>5
    <2> QED BY <2>2, <2>6 DEF GrepInv
<1>10. CASE result' # 0
    <2>1. PICK f \in 1 .. Len(dir_entries) : f = p + 1 /\ f - 1 = p
        <3>1. p + 1 \in 1 .. Len(dir_entries) /\ p + 1 - 1 = p
            BY <1>5, <1>10 DEF ReadsName
        <3> QED BY <3>1
    <2>2. PICK name : name = Fresh(dir)
        OBVIOUS
    <2>3. name = dir_entries[f].name /\ file_position'[dir] = f
        BY <1>3, <1>5, <1>10, <2>1, <2>2 DEF ReadsName, ReadInv, PositionInFile
    <2>4. CASE name[1] = Dot[1]
        <3>1. pc' = "next" /\ local' = local
            BY <1>1, <1>2, <1>10, <2>2, <2>4 DEF Stay, At
        <3>2. f \notin TextFiles(Volume)
            <4>1. dir_entries[f].name = Dot
                BY <2>3, <2>4 DEF Sound, FlatImage
            <4>2. dir_entries[f].file_type = "directory"
                BY <4>1 DEF Sound, FlatImage
            <4> QED BY <4>2 DEF TextFiles, Volume
        <3>3. FilesTo(Volume, args, f) = FilesTo(Volume, args, p)
            BY <2>1, <3>2, FilesMore
        <3>4. BufferServes(Volume, junk) => out' = FilesTo(Volume, args, f)
            BY <1>1, <1>6, <3>3 DEF GrepNext
        <3>5. GrepNext(dir, junk)'
            BY <1>2, <1>7, <2>3, <3>1, <3>4 DEF GrepNext
        <3> QED BY <1>8, <3>1, <3>5 DEF GrepInv
    <2>5. CASE name[1] # Dot[1]
        <3>1. pc' = "open" /\ local' = [dir |-> dir, junk |-> junk, fname |-> name]
            BY <1>1, <1>2, <1>10, <2>2, <2>5 DEF Go
        <3>2. BufferServes(Volume, junk) => out' = FilesTo(Volume, args, f - 1)
            BY <1>1, <1>6, <2>1 DEF GrepNext
        <3>3. GrepAt(dir, name, f)'
            BY <1>6, <1>7, <2>3, <2>5 DEF GrepAt
        <3>4. GrepOpening(dir, junk, name, f)'
            BY <3>1, <3>2, <3>3 DEF GrepOpening
        <3> QED BY <1>8, <3>1, <3>4 DEF GrepInv
    <2> QED BY <2>4, <2>5
<1> QED BY <1>9, <1>10

\* It opens the file of that name.
LEMMA GrepOpenStep ==
    ASSUME ReadInv, Sound, NEW dir, NEW junk, NEW name, NEW f, GrepOpening(dir, junk, name, f), GrepArgs,
           GrepOpen, UNCHANGED <<Volume, args, dir_entries>>
    PROVE  GrepInv'
<1>1. /\ Open(local.fname)
      /\ IF result' = -1 THEN Say(<<FileOpenFailed>>) /\ Return(3)
         ELSE /\ UNCHANGED out
              /\ Go("read", [dir |-> local.dir, junk |-> local.junk, fname |-> local.fname, fd |-> result',
                             last |-> 0, cnt |-> 0, line_start |-> 0,
                             data |-> [i \in 0 .. BufSize |-> local.junk]])
    BY DEF GrepOpen
<1>2. /\ local.dir = dir /\ local.junk = junk /\ local.fname = name /\ GrepAt(dir, name, f)
      /\ BufferServes(Volume, junk) => out = FilesTo(Volume, args, f - 1)
    BY DEF GrepOpening
<1>3. f \in 1 .. Len(dir_entries) /\ name = dir_entries[f].name /\ dir \in Fds /\ file_position[dir] = f
    BY <1>2 DEF GrepAt, GrepDir
<1>4. name \in CStrings
    BY <1>3, EntriesAre
<1>5. OpenFails(name) \/ \E g \in FileNamed(dir_entries, name), fd \in Fds : OpensAt(name, g, fd)
    <2>1. Open(name)
        BY <1>1, <1>2
    <2> QED BY <1>4, <2>1, OpenGives
<1>6. CASE OpenFails(name)
    <2>1. pc' = "exit" /\ local' = [status |-> 3]
        BY <1>1, <1>6 DEF OpenFails, Return, Go
    <2>2. local'.status # 0
        BY <2>1
    <2> QED BY <2>1, <2>2 DEF GrepInv
<1>7. ASSUME NEW g \in FileNamed(dir_entries, name), NEW fd \in Fds, OpensAt(name, g, fd) PROVE GrepInv'
    <2>1. result' = fd /\ fd # -1
        BY <1>7, SomeDescriptor DEF OpensAt
    <2>2. PICK data : data = [i \in 0 .. BufSize |-> junk]
        OBVIOUS
    <2>3. PICK z : z = 0
        OBVIOUS
    <2>4. pc' = "read" /\ local' = GrepLocal(dir, junk, name, fd, z, z, z, data) /\ out' = out
        BY <1>1, <1>2, <2>1, <2>2, <2>3 DEF Go, GrepLocal
    <2>5. g = f
        BY <1>3 DEF Sound, Distinct, FileNamed
    <2>6. fd # dir
        <3>1. inode[fd] = 0
            BY <1>7 DEF OpensAt
        <3>2. inode[dir] # 0
            BY <1>2, EntriesAre DEF GrepAt, GrepDir, FileNamed
        <3> QED BY <3>1, <3>2
    <2>7. /\ inode'[fd] = f /\ file_position'[fd] = 0
          /\ inode'[dir] = inode[dir] /\ file_position'[dir] = file_position[dir]
        BY <1>3, <1>7, <2>5, <2>6 DEF OpensAt, ReadInv, PositionInFile
    <2>8. GrepFile(dir, name, f, fd)'
        BY <1>2, <2>6, <2>7 DEF GrepFile, GrepAt, GrepDir
    <2>9. IsBuffer(data)
        BY <2>2 DEF IsBuffer
    <2>10. BufSize \in Nat \ {0}
        BY UserProgramsAssumption
    <2>11. z \in Nat /\ z <= BufSize
        BY <2>3, <2>10
    <2>12. PICK T \in Seq(Int) : T = Text(Volume, f)
        BY <1>3, TextIs
    <2>13. ReadPart(T, 0, 0, 0, data, junk)
        <3>1. Stopped(data, junk)
            <4>1. BufSize \in 0 .. BufSize
                BY <2>10
            <4> QED BY <2>2, <4>1 DEF Stopped
        <3>2. Filled(T, 0, 0, 0, data)
            BY DEF Filled
        <3>3. Boundary(T, 0)
            BY DoneNone
        <3>4. 0 = 0 + 0 /\ 0 <= Len(T) /\ 0 < BufSize
            BY <2>10
        <3> QED BY <3>1, <3>2, <3>3, <3>4 DEF ReadPart
    <2>14. ASSUME BufferServes(Volume, junk) PROVE ReadSoFar(f, z, z, z, data, junk)'
        <3>1. OutTo(Volume, args, f, 0) = FilesTo(Volume, args, f - 1)
            BY <1>3, FilesMore
        <3>2. out' = OutTo(Volume, args, f, DoneTo(T, 0))
            BY <1>2, <2>4, <2>14, <3>1, DoneNone
        <3>3. Volume' = Volume /\ args' = args
            OBVIOUS
        <3> QED BY <2>3, <2>12, <2>13, <3>2, <3>3 DEF ReadSoFar
    <2>15. BufferServes(Volume, junk)' = BufferServes(Volume, junk)
        BY SMT
    <2>16. GrepReading(dir, junk, name, f, fd, z, z, z, data)'
        <3>1. ReadSoFar(f, z, z, z, data, junk)' =>
              (\E q \in Nat : ReadSoFar(f, q, file_position[fd], z, data, junk))'
            BY <2>3, <2>7
        <3> QED BY <2>4, <2>8, <2>9, <2>11, <2>14, <2>15, <3>1 DEF GrepReading
    <2>17. GrepArgs'
        BY DEF GrepArgs
    <2> QED BY <2>4, <2>16, <2>17 DEF GrepInv
<1> QED BY <1>5, <1>6, <1>7

\* A file of an image that the buffer serves is served by it.
LEMMA Servable ==
    ASSUME NEW v, NEW junk, BufferServes(v, junk), NEW f \in TextFiles(v), NEW T, T = Text(v, f)
    PROVE  TextServes(T, junk)
BY DEF BufferServes, NoZeros, LinesFit, FilesFit, TextServes, Lines

-----------------------------------------------------------------------------
\* The variables of do_one_file.

\* What the steps do to the variables of do_one_file.
LEMMA GrepLocalIs ==
    ASSUME NEW dir, NEW junk, NEW name, NEW fd, NEW last, NEW cnt, NEW ls, NEW data, NEW l,
           l = GrepLocal(dir, junk, name, fd, last, cnt, ls, data)
    PROVE  /\ l.dir = dir /\ l.junk = junk /\ l.fname = name /\ l.fd = fd /\ l.last = last
           /\ l.cnt = cnt /\ l.line_start = ls /\ l.data = data
BY DEF GrepLocal

\* The buffer.
LEMMA DataChanged ==
    ASSUME NEW dir, NEW junk, NEW name, NEW fd, NEW last, NEW cnt, NEW ls, NEW data, NEW d
    PROVE  [GrepLocal(dir, junk, name, fd, last, cnt, ls, data) EXCEPT !.data = d]
             = GrepLocal(dir, junk, name, fd, last, cnt, ls, d)
BY DEF GrepLocal

\* The beginning of the line.
LEMMA StartChanged ==
    ASSUME NEW dir, NEW junk, NEW name, NEW fd, NEW last, NEW cnt, NEW ls, NEW data, NEW x
    PROVE  [GrepLocal(dir, junk, name, fd, last, cnt, ls, data) EXCEPT !.line_start = x]
             = GrepLocal(dir, junk, name, fd, last, cnt, x, data)
BY DEF GrepLocal

\* How much is in the buffer.
LEMMA LastChanged ==
    ASSUME NEW dir, NEW junk, NEW name, NEW fd, NEW last, NEW cnt, NEW ls, NEW data, NEW x
    PROVE  [GrepLocal(dir, junk, name, fd, last, cnt, ls, data) EXCEPT !.last = x]
             = GrepLocal(dir, junk, name, fd, x, cnt, ls, data)
BY DEF GrepLocal

\* What the read returned.
LEMMA CountChanged ==
    ASSUME NEW dir, NEW junk, NEW name, NEW fd, NEW last, NEW cnt, NEW ls, NEW data, NEW x
    PROVE  [GrepLocal(dir, junk, name, fd, last, cnt, ls, data) EXCEPT !.cnt = x]
             = GrepLocal(dir, junk, name, fd, last, x, ls, data)
BY DEF GrepLocal

\* After a read.
ReadMore(l, r, w) == [l EXCEPT !.cnt = r, !.last = @ + r, !.line_start = 0, !.data = Put(@, l.last, w)]

\* The step after a read.
LEMMA ReadMoreIs ==
    ASSUME NEW dir, NEW junk, NEW name, NEW fd, NEW last, NEW cnt, NEW ls, NEW data, NEW l,
           l = GrepLocal(dir, junk, name, fd, last, cnt, ls, data), NEW r, NEW w,
           NEW m, m = last + r, NEW d, d = Put(data, last, w), NEW z, z = 0
    PROVE  ReadMore(l, r, w) = GrepLocal(dir, junk, name, fd, m, r, z, d)
<1>1. l.last = last /\ l.data = data
    BY GrepLocalIs
<1>2. [l EXCEPT !.cnt = r, !.last = @ + r, !.line_start = 0, !.data = Put(@, l.last, w)]
        = [l EXCEPT !.cnt = r, !.last = l.last + r, !.line_start = 0, !.data = Put(l.data, l.last, w)]
    BY DEF GrepLocal
<1>3. [l EXCEPT !.cnt = r, !.last = m, !.line_start = z, !.data = d]
        = [[[[l EXCEPT !.cnt = r] EXCEPT !.last = m] EXCEPT !.line_start = z] EXCEPT !.data = d]
    OBVIOUS
<1>4. PICK a : a = [l EXCEPT !.cnt = r]
    OBVIOUS
<1>5. a = GrepLocal(dir, junk, name, fd, last, r, ls, data)
    BY <1>4, CountChanged
<1>6. PICK b : b = [a EXCEPT !.last = m]
    OBVIOUS
<1>7. b = GrepLocal(dir, junk, name, fd, m, r, ls, data)
    BY <1>5, <1>6, LastChanged
<1>8. PICK c : c = [b EXCEPT !.line_start = z]
    OBVIOUS
<1>9. c = GrepLocal(dir, junk, name, fd, m, r, z, data)
    BY <1>7, <1>8, StartChanged
<1>10. [c EXCEPT !.data = d] = GrepLocal(dir, junk, name, fd, m, r, z, d)
    BY <1>9, DataChanged
<1>11. [l EXCEPT !.cnt = r, !.last = m, !.line_start = z, !.data = d] = GrepLocal(dir, junk, name, fd, m, r, z, d)
    BY <1>3, <1>4, <1>6, <1>8, <1>10
<1> QED BY <1>1, <1>2, <1>11 DEF ReadMore

\* After a line that is kept, a line with others behind it, the last line.
Keeping(l, e) == [l EXCEPT !.data = CopyDown([@ EXCEPT ![e] = 0], l.line_start), !.last = @ - l.line_start]

\* The steps to the next line, and to the next read.
Continued(l, d, x) == [l EXCEPT !.data = d, !.line_start = x]
Emptied(l, d) == [l EXCEPT !.data = d, !.last = 0]

\* The step that moves a line to the front.
LEMMA KeepingIs ==
    ASSUME NEW dir, NEW junk, NEW name, NEW fd, NEW last, NEW cnt, NEW ls, NEW data, NEW l,
           l = GrepLocal(dir, junk, name, fd, last, cnt, ls, data), NEW e,
           NEW m, m = last - ls, NEW d, d = CopyDown(Closed(data, e), ls)
    PROVE  Keeping(l, e) = GrepLocal(dir, junk, name, fd, m, cnt, ls, d)
<1>1. l.last = last /\ l.data = data /\ l.line_start = ls
    BY GrepLocalIs
<1>2. [l EXCEPT !.data = CopyDown([@ EXCEPT ![e] = 0], l.line_start), !.last = @ - l.line_start]
        = [l EXCEPT !.data = CopyDown([l.data EXCEPT ![e] = 0], l.line_start), !.last = l.last - l.line_start]
    BY DEF GrepLocal
<1>3. [l EXCEPT !.data = d, !.last = m] = [[l EXCEPT !.data = d] EXCEPT !.last = m]
    OBVIOUS
<1>4. PICK a : a = [l EXCEPT !.data = d]
    OBVIOUS
<1>5. a = GrepLocal(dir, junk, name, fd, last, cnt, ls, d)
    BY <1>4, DataChanged
<1>6. [a EXCEPT !.last = m] = GrepLocal(dir, junk, name, fd, m, cnt, ls, d)
    BY <1>5, LastChanged
<1>7. [l EXCEPT !.data = d, !.last = m] = GrepLocal(dir, junk, name, fd, m, cnt, ls, d)
    BY <1>3, <1>4, <1>6
<1>8. d = CopyDown([l.data EXCEPT ![e] = 0], l.line_start) /\ m = l.last - l.line_start
    BY <1>1 DEF Closed
<1> QED BY <1>2, <1>7, <1>8 DEF Keeping

\* The step to the next line in the buffer.
LEMMA ContinuedIs ==
    ASSUME NEW dir, NEW junk, NEW name, NEW fd, NEW last, NEW cnt, NEW ls, NEW data, NEW l,
           l = GrepLocal(dir, junk, name, fd, last, cnt, ls, data), NEW d, NEW x
    PROVE  Continued(l, d, x) = GrepLocal(dir, junk, name, fd, last, cnt, x, d)
<1>1. [l EXCEPT !.data = d, !.line_start = x] = [[l EXCEPT !.data = d] EXCEPT !.line_start = x]
    OBVIOUS
<1>2. PICK a : a = [l EXCEPT !.data = d]
    OBVIOUS
<1>3. a = GrepLocal(dir, junk, name, fd, last, cnt, ls, d)
    BY <1>2, DataChanged
<1>4. [a EXCEPT !.line_start = x] = GrepLocal(dir, junk, name, fd, last, cnt, x, d)
    BY <1>3, StartChanged
<1> QED BY <1>1, <1>2, <1>4 DEF Continued

\* The step when no line is left in it.
LEMMA EmptiedIs ==
    ASSUME NEW dir, NEW junk, NEW name, NEW fd, NEW last, NEW cnt, NEW ls, NEW data, NEW l,
           l = GrepLocal(dir, junk, name, fd, last, cnt, ls, data), NEW d, NEW z, z = 0
    PROVE  Emptied(l, d) = GrepLocal(dir, junk, name, fd, z, cnt, ls, d)
<1>1. [l EXCEPT !.data = d, !.last = z] = [[l EXCEPT !.data = d] EXCEPT !.last = z]
    OBVIOUS
<1>2. PICK a : a = [l EXCEPT !.data = d]
    OBVIOUS
<1>3. a = GrepLocal(dir, junk, name, fd, last, cnt, ls, d)
    BY <1>2, DataChanged
<1>4. [a EXCEPT !.last = z] = GrepLocal(dir, junk, name, fd, z, cnt, ls, d)
    BY <1>3, LastChanged
<1> QED BY <1>1, <1>2, <1>4 DEF Emptied

-----------------------------------------------------------------------------
\* The steps of grep.

\* It reads what fits behind the line it has begun.
LEMMA GrepReadStep ==
    ASSUME ReadInv, Sound, NEW dir, NEW junk, NEW name, NEW f, NEW fd, NEW last, NEW cnt, NEW ls, NEW data,
           GrepReading(dir, junk, name, f, fd, last, cnt, ls, data), GrepArgs,
           GrepRead, UNCHANGED <<Volume, args, dir_entries>>
    PROVE  GrepInv'
<1>0. BufSize \in Nat \ {0}
    BY UserProgramsAssumption
<1>1. /\ Read(local.fd, BufSize - local.last) /\ UNCHANGED out
      /\ Go("line", ReadMore(local, result', Fresh(local.fd)))
    BY DEF GrepRead, ReadMore
<1>2. /\ local = GrepLocal(dir, junk, name, fd, last, cnt, ls, data) /\ GrepFile(dir, name, f, fd)
      /\ last \in Nat /\ last <= BufSize /\ IsBuffer(data)
    BY DEF GrepReading
<1>3. local.fd = fd /\ local.last = last
    BY <1>2, GrepLocalIs
<1>4. /\ f \in 1 .. Len(dir_entries) /\ name = dir_entries[f].name /\ dir \in Fds /\ file_position[dir] = f
      /\ name[1] # Dot[1] /\ fd \in Fds /\ fd # dir /\ inode[fd] = f
    BY <1>2 DEF GrepFile, GrepAt, GrepDir
<1>5. PICK n \in Nat : n = BufSize - last /\ Read(fd, n)
    <2>1. BufSize - last \in Nat
        BY <1>0, <1>2
    <2> QED BY <1>1, <1>3, <2>1
<1>6. Regular(fd) /\ f \in TextFiles(Volume)
    <2>1. \/ Regular(fd) /\ inode[fd] \in TextFiles(Volume)
          \/ Directory(fd) /\ inode[fd] \notin TextFiles(Volume)
        BY <1>4, <1>5, ReadOfWhat
    <2>2. dir_entries[f].name # Dot
        BY <1>4
    <2>3. dir_entries[f].file_type # "directory"
        BY <1>4, <2>2 DEF Sound, FlatImage
    <2>4. ~Directory(fd)
        BY <1>4, <2>3 DEF Directory
    <2> QED BY <1>4, <2>1, <2>4
<1>7. PICK T \in Seq(Int) : T = Text(Volume, f)
    BY <1>4, TextIs
<1>8. PICK p \in Nat, r \in Nat : ReadsText(fd, n, T, p, r)
    <2>1. \E p \in Nat, r \in Nat : ReadsText(fd, n, Text(Volume, inode[fd]), p, r)
        BY <1>4, <1>5, <1>6, ReadGivesText
    <2> QED BY <1>4, <1>7, <2>1
<1>9. /\ p = file_position[fd] /\ result' = r /\ p + r <= Len(T) /\ r <= n /\ (r = n \/ p + r = Len(T))
      /\ Fresh(fd) = SubSeq(T, p + 1, p + r)
      /\ file_position' = [file_position EXCEPT ![fd] = p + r] /\ UNCHANGED <<dir_entries, inode>>
    BY <1>8 DEF ReadsText
<1>10. file_position'[fd] = p + r /\ file_position'[dir] = f
    BY <1>4, <1>9 DEF ReadInv, PositionInFile
<1>11. GrepFile(dir, name, f, fd)'
    BY <1>2, <1>4, <1>9, <1>10 DEF GrepFile, GrepAt, GrepDir
<1>12. PICK w, m, d, z : /\ w = SubSeq(T, p + 1, p + r) /\ m = last + r /\ d = Put(data, last, w) /\ z = 0
    OBVIOUS
<1>13. pc' = "line" /\ local' = GrepLocal(dir, junk, name, fd, m, r, z, d)
    <2>1. ReadMore(local, r, w) = GrepLocal(dir, junk, name, fd, m, r, z, d)
        BY <1>2, <1>12, ReadMoreIs
    <2> QED BY <1>1, <1>3, <1>9, <1>12, <2>1 DEF Go
<1>14. m \in Nat /\ m <= BufSize /\ z \in Nat /\ z <= m
    BY <1>0, <1>2, <1>5, <1>9, <1>12
<1>15. IsBuffer(d)
    <2>1. PICK h \in Nat : h = p + r /\ p <= h /\ h <= Len(T)
        BY <1>9
    <2>2. d = Put(data, last, SubSeq(T, p + 1, h))
        BY <1>12, <2>1
    <2> QED BY <1>2, <2>1, <2>2, PutIs
<1>16. ASSUME BufferServes(Volume, junk)
       PROVE  \E q \in Nat : LinedSoFar(f, q, file_position[fd], m, r, z, d, junk)'
    <2>1. PICK q \in Nat : ReadSoFar(f, q, p, last, data, junk)
        BY <1>9, <1>16 DEF GrepReading
    <2>2. ReadPart(T, q, p, last, data, junk) /\ out = OutTo(Volume, args, f, DoneTo(T, q))
        BY <1>7, <2>1 DEF ReadSoFar
    <2>3. r <= BufSize - last /\ (r = BufSize - last \/ p + r = Len(T))
        BY <1>5, <1>9
    <2>4. LinePart(T, q, p + r, last + r, r, z, d, junk)
        BY <1>2, <1>9, <1>12, <2>2, <2>3, Refilled
    <2>5. q + z = q
        BY <1>12
    <2>6. out' = OutTo(Volume, args, f, DoneTo(T, q + z))
        BY <1>1, <2>2, <2>5
    <2>7. LinedSoFar(f, q, file_position[fd], m, r, z, d, junk)'
        BY <1>7, <1>10, <1>12, <2>4, <2>6 DEF LinedSoFar
    <2> QED BY <2>7
<1>17. BufferServes(Volume, junk)' = BufferServes(Volume, junk)
    BY SMT
<1>18. f \in TextFiles(Volume') /\ file_position'[fd] \in Nat
    BY <1>6, <1>10
<1>19. GrepLining(dir, junk, name, f, fd, m, r, z, d)'
    BY <1>11, <1>13, <1>14, <1>15, <1>16, <1>17, <1>18 DEF GrepLining
<1>20. GrepArgs'
    BY DEF GrepArgs
<1> QED BY <1>13, <1>19, <1>20 DEF GrepInv

\* It closes a file of which all lines are done.
LEMMA GrepCloseStep ==
    ASSUME ReadInv, Sound, NEW dir, NEW junk, NEW name, NEW f, NEW fd, NEW last, NEW cnt, NEW ls, NEW data,
           GrepClosing(dir, junk, name, f, fd, last, cnt, ls, data), GrepArgs,
           GrepClose, UNCHANGED <<Volume, args, dir_entries>>
    PROVE  GrepInv'
<1>1. Close(local.fd) /\ UNCHANGED out /\ Go("next", [dir |-> local.dir, junk |-> local.junk])
    BY DEF GrepClose
<1>2. local = GrepLocal(dir, junk, name, fd, last, cnt, ls, data) /\ GrepFile(dir, name, f, fd) /\ f \in TextFiles(Volume)
    BY DEF GrepClosing
<1>3. local.fd = fd /\ local.dir = dir /\ local.junk = junk
    BY <1>2, GrepLocalIs
<1>4. f \in 1 .. Len(dir_entries) /\ dir \in Fds /\ file_position[dir] = f /\ fd \in Fds /\ fd # dir /\ GrepDir(dir)
    BY <1>2 DEF GrepFile, GrepAt, GrepDir
<1>5. inode'[dir] = inode[dir] /\ file_position'[dir] = file_position[dir]
    <2>1. Close(fd)
        BY <1>1, <1>3
    <2> QED BY <1>4, <2>1, CloseLeaves
<1>6. GrepDir(dir)'
    BY <1>4, <1>5 DEF GrepDir
<1>7. pc' = "next" /\ local' = [dir |-> dir, junk |-> junk] /\ out' = out
    BY <1>1, <1>3 DEF Go
<1>8. ASSUME BufferServes(Volume, junk) PROVE out' = FilesTo(Volume', args', file_position'[dir])
    <2>1. out = OutTo(Volume, args, f, Len(LinesOf(Text(Volume, f))))
        BY <1>8 DEF GrepClosing
    <2>2. FilesTo(Volume, args, f) = OutTo(Volume, args, f, Len(LinesOf(Text(Volume, f))))
        BY <1>2, <1>4, FilesMore
    <2> QED BY <1>4, <1>5, <1>7, <2>1, <2>2
<1>9. BufferServes(Volume, junk)' = BufferServes(Volume, junk)
    BY SMT
<1>10. GrepNext(dir, junk)'
    BY <1>6, <1>7, <1>8, <1>9 DEF GrepNext
<1>11. GrepArgs'
    BY DEF GrepArgs
<1> QED BY <1>7, <1>10, <1>11 DEF GrepInv

\* What is printed of a line, and where it goes on.
PrintsIt(name, data, ls, e) ==
    IF InLine(args, Closed(data, e), ls, e)
      THEN Say(name \o <<58>> \o Get(Closed(data, e), ls, e - ls) \o <<Newline>>)
      ELSE UNCHANGED out

\* It looks at a line: one that goes on is kept, another is printed if it
\* should be, and the next one looked at.
LEMMA GrepLineIs ==
    ASSUME NEW dir, NEW junk, NEW name, NEW fd, NEW last, NEW cnt, NEW ls, NEW data,
           local = GrepLocal(dir, junk, name, fd, last, cnt, ls, data), NEW e, e = LineEnd(last, ls, data), GrepLine
    PROVE  \/ data[e] # Newline /\ cnt # 0 /\ ls # 0 /\ Go("read", Keeping(local, e)) /\ UNCHANGED out
           \/ /\ ~(data[e] # Newline /\ cnt # 0 /\ ls # 0) /\ PrintsIt(name, data, ls, e)
              /\ IF e + 1 < last THEN Go("line", Continued(local, Closed(data, e), e + 1))
                 ELSE Go(IF cnt = 0 THEN "close" ELSE "read", Emptied(local, Closed(data, e)))
<1>1. /\ local.last = last /\ local.cnt = cnt /\ local.line_start = ls /\ local.data = data /\ local.fname = name
    BY GrepLocalIs
<1>2. e = Min({x \in local.line_start .. BufSize : x >= local.last \/ local.data[x] = Newline})
    BY <1>1 DEF LineEnd
<1>3. IF local.data[e] # Newline /\ local.cnt # 0 /\ local.line_start # 0
        THEN KeepPart(e) /\ UNCHANGED out
        ELSE LET d == [local.data EXCEPT ![e] = 0] IN
              /\ IF InLine(args, d, local.line_start, e)
                   THEN Say(local.fname \o <<58>> \o Get(d, local.line_start, e - local.line_start) \o <<Newline>>)
                   ELSE UNCHANGED out
              /\ IF e + 1 < local.last
                   THEN Go("line", [local EXCEPT !.data = d, !.line_start = e + 1])
                   ELSE Go(IF local.cnt = 0 THEN "close" ELSE "read", [local EXCEPT !.data = d, !.last = 0])
    BY <1>2, Zenon DEF GrepLine
<1>4. CASE local.data[e] # Newline /\ local.cnt # 0 /\ local.line_start # 0
    <2>1. KeepPart(e) /\ UNCHANGED out
        BY <1>3, <1>4
    <2>2. Go("read", Keeping(local, e))
        BY <2>1, Zenon DEF KeepPart, Keeping
    <2> QED BY <1>1, <1>4, <2>1, <2>2
<1>5. CASE ~(local.data[e] # Newline /\ local.cnt # 0 /\ local.line_start # 0)
    <2>1. PICK d : d = [local.data EXCEPT ![e] = 0] /\ d = Closed(data, e)
        BY <1>1 DEF Closed
    <2>2. /\ IF InLine(args, d, local.line_start, e)
               THEN Say(local.fname \o <<58>> \o Get(d, local.line_start, e - local.line_start) \o <<Newline>>)
               ELSE UNCHANGED out
          /\ IF e + 1 < local.last
               THEN Go("line", [local EXCEPT !.data = d, !.line_start = e + 1])
               ELSE Go(IF local.cnt = 0 THEN "close" ELSE "read", [local EXCEPT !.data = d, !.last = 0])
        BY <1>3, <1>5, <2>1, Zenon
    <2>3. PrintsIt(name, data, ls, e)
        BY <1>1, <2>1, <2>2 DEF PrintsIt
    <2>4. IF e + 1 < last THEN Go("line", Continued(local, d, e + 1))
          ELSE Go(IF cnt = 0 THEN "close" ELSE "read", Emptied(local, d))
        BY <1>1, <2>2, Zenon DEF Continued, Emptied
    <2> QED BY <1>1, <1>5, <2>1, <2>3, <2>4
<1> QED BY <1>4, <1>5

\* What of a file was printed, and what is now.
Printed(f, T, a) == out = OutTo(Volume, args, f, DoneTo(T, a))

\* After the step, that of the lines before r.
NowPrinted(f, T, r) == out' = OutTo(Volume, args, f, DoneTo(T, r))

\* What a line adds to the output.
LEMMA GrepPrinted ==
    ASSUME ReadInv, Sound, GrepArgs, NEW f \in 1 .. Len(dir_entries), NEW T, T = Text(Volume, f),
           NEW name, name = dir_entries[f].name,
           NEW q \in Nat, NEW ls \in Nat, NEW e \in Nat, NEW last \in Nat,
           ls <= e, e <= last, last <= BufSize, NEW p, p = q + last, p <= Len(T),
           NEW data, IsBuffer(data), Filled(T, q, ls, last, data),
           NEW a, a = q + ls, NEW m, m = q + e, NEW r, LineDone(T, a, m, r),
           Printed(f, T, a), PrintsIt(name, data, ls, e)
    PROVE  NowPrinted(f, T, r)
<1>12. out = OutTo(Volume, args, f, DoneTo(T, a))
    BY DEF Printed
<1>0. BufSize \in Nat
    BY UserProgramsAssumption
<1>1. T \in Seq(Int)
    BY TextIs
<1>2. a \in Nat /\ m \in Nat /\ a <= m /\ m <= Len(T) /\ a <= Len(T)
    <2>1. Len(T) \in Nat /\ q + ls \in Nat /\ q + e \in Nat
        BY <1>1
    <2> QED BY <2>1
<1>4. PICK line : line = SubSeq(T, a + 1, m)
    OBVIOUS
<1>5. PICK d : d = Closed(data, e)
    OBVIOUS
<1>6. line \in Seq(Int) /\ Buffered(d, ls, e, line)
    <2>1. /\ SubSeq(T, (q + ls) + 1, q + e) \in Seq(Int)
          /\ Buffered(Closed(data, e), ls, e, SubSeq(T, (q + ls) + 1, q + e))
        BY <1>1, LineBuffered
    <2> QED BY <1>4, <1>5, <2>1
<1>7. e \in 0 .. BufSize
    BY <1>0
<1>8. d[e] = 0
    BY <1>5, <1>7, ClosedIs
<1>9. args \in CStrings /\ args # <<>> /\ args \in Seq(Int)
    BY DEF GrepArgs, CStrings
<1>10. InLine(args, d, ls, e) <=> Holds(line, args)
    <2>1. e <= BufSize
        BY <1>0
    <2> QED BY <1>6, <1>8, <1>9, <2>1, HoldsIsInLine
<1>11. Get(d, ls, e - ls) = line
    BY <1>6, GetLine
<1>13. OutTo(Volume, args, f, DoneTo(T, r)) = out \o GrepPrintsLine(name, line, args)
    <2>1. PICK s : s = args
        OBVIOUS
    <2>2. s \in Seq(Int) /\ s # <<>>
        BY <1>9, <2>1
    <2>3. OutGrows(Volume, s, f, T, a, m, r, name)
        BY <1>2, <2>2, OutMore
    <2> QED BY <1>4, <1>12, <2>1, <2>3 DEF OutGrows
<1>14. CASE InLine(args, d, ls, e)
    <2>1. out' = out \o (name \o <<58>> \o line \o <<Newline>>)
        BY <1>5, <1>11, <1>14 DEF PrintsIt, Say
    <2>2. GrepPrintsLine(name, line, args) = name \o <<58>> \o line \o <<Newline>>
        BY <1>10, <1>14 DEF GrepPrintsLine
    <2> QED BY <1>13, <2>1, <2>2 DEF NowPrinted
<1>15. CASE ~InLine(args, d, ls, e)
    <2>1. out' = out
        BY <1>5, <1>15 DEF PrintsIt
    <2>2. GrepPrintsLine(name, line, args) = <<>>
        BY <1>10, <1>15 DEF GrepPrintsLine
    <2>3. out \in Seq(Int)
        <3>1. f - 1 \in Nat /\ f - 1 <= Len(dir_entries)
            BY EntriesAre
        <3>2. FilesTo(Volume, args, f - 1) \in Seq(Int)
            BY <3>1, FilesToIs
        <3>3. PrintsTo(Volume.image[f].name, T, args, DoneTo(T, a)) \in Seq(Int)
            BY <1>1, <1>2, NameIs, PrintsToIs
        <3> QED BY <1>12, <3>2, <3>3, ConcatProperties DEF OutTo
    <2>4. out \o <<>> = out
        BY <2>3, ConcatEmptySeq
    <2> QED BY <1>13, <2>1, <2>2, <2>4 DEF NowPrinted
<1> QED BY <1>14, <1>15

\* A copy to the front stays in the buffer.
LEMMA CopiedIsBuffer ==
    ASSUME NEW data, IsBuffer(data), NEW ls
    PROVE  IsBuffer(CopyDown(data, ls))
BY DEF IsBuffer, CopyDown

\* A line that goes on moves to the front.
LEMMA GrepKeepStep ==
    ASSUME ReadInv, Sound, NEW dir, NEW junk, NEW name, NEW f, NEW fd, NEW last, NEW cnt, NEW ls, NEW data,
           GrepLining(dir, junk, name, f, fd, last, cnt, ls, data), GrepArgs,
           UNCHANGED <<Volume, args, dir_entries, inode, file_position, out>>,
           NEW e, e = LineEnd(last, ls, data), data[e] # Newline, ls # 0, Go("read", Keeping(local, e))
    PROVE  GrepInv'
<1>0. BufSize \in Nat
    BY UserProgramsAssumption
<1>1. /\ local = GrepLocal(dir, junk, name, fd, last, cnt, ls, data) /\ GrepFile(dir, name, f, fd)
      /\ f \in TextFiles(Volume) /\ file_position[fd] \in Nat
      /\ last \in Nat /\ last <= BufSize /\ ls \in Nat /\ ls <= last /\ IsBuffer(data)
    BY DEF GrepLining
<1>2. e = last
    BY <1>1, LineEndIs
<1>3. PICK m \in Nat : m = last - ls /\ m <= BufSize
    <2>1. last - ls \in Nat /\ last - ls <= BufSize
        BY <1>0, <1>1
    <2> QED BY <2>1
<1>4. PICK d : d = CopyDown(Closed(data, e), ls)
    OBVIOUS
<1>5. pc' = "read" /\ local' = GrepLocal(dir, junk, name, fd, m, cnt, ls, d)
    <2>1. Keeping(local, e) = GrepLocal(dir, junk, name, fd, m, cnt, ls, d)
        BY <1>1, <1>3, <1>4, KeepingIs
    <2> QED BY <2>1 DEF Go
<1>6. IsBuffer(d)
    <2>1. e \in 0 .. BufSize
        BY <1>0, <1>1, <1>2
    <2>2. IsBuffer(Closed(data, e))
        BY <1>1, <2>1, ClosedIs
    <2> QED BY <1>4, <2>2, CopiedIsBuffer
<1>7. GrepFile(dir, name, f, fd)'
    BY <1>1 DEF GrepFile, GrepAt, GrepDir
<1>8. f \in 1 .. Len(dir_entries)
    BY <1>1 DEF GrepFile, GrepAt
<1>9. ASSUME BufferServes(Volume, junk) PROVE \E q \in Nat : ReadSoFar(f, q, file_position[fd], m, d, junk)'
    <2>1. PICK T \in Seq(Int) : T = Text(Volume, f)
        BY <1>8, TextIs
    <2>2. PICK p \in Nat : p = file_position[fd]
        BY <1>1
    <2>3. PICK q \in Nat : LinedSoFar(f, q, p, last, cnt, ls, data, junk)
        BY <1>9, <2>2 DEF GrepLining
    <2>4. LinePart(T, q, p, last, cnt, ls, data, junk) /\ out = OutTo(Volume, args, f, DoneTo(T, q + ls))
        BY <2>1, <2>3 DEF LinedSoFar
    <2>5. PICK a \in Nat : a = q + ls
        <3>1. q + ls \in Nat
            BY <1>1
        <3> QED BY <3>1
    <2>6. TextServes(T, junk)
        BY <1>1, <1>9, <2>1, Servable
    <2>7. d = CopyDown(Closed(data, last), ls)
        BY <1>2, <1>4
    <2>8. ReadPart(T, a, p, m, d, junk)
        BY <1>1, <1>3, <2>4, <2>5, <2>6, <2>7, KeptPart
    <2>9. ReadSoFar(f, a, file_position[fd], m, d, junk)'
        BY <2>1, <2>2, <2>4, <2>5, <2>8 DEF ReadSoFar
    <2> QED BY <2>9
<1>10. BufferServes(Volume, junk)' = BufferServes(Volume, junk)
    BY SMT
<1>11. GrepReading(dir, junk, name, f, fd, m, cnt, ls, d)'
    BY <1>3, <1>5, <1>6, <1>7, <1>9, <1>10 DEF GrepReading
<1>12. GrepArgs'
    BY DEF GrepArgs
<1> QED BY <1>5, <1>11, <1>12 DEF GrepInv

\* What holds after the line if the buffer serves.
Done(f, q, p, last, cnt, ls, e, data, junk, r) ==
    /\ AfterLine(Text(Volume, f), q, p, last, cnt, ls, e, Closed(data, e), junk, r)
    /\ out' = OutTo(Volume, args, f, DoneTo(Text(Volume, f), r))

\* A line was looked at, and what it holds is printed.
LEMMA GrepDone ==
    ASSUME ReadInv, Sound, GrepArgs, NEW f \in 1 .. Len(dir_entries), f \in TextFiles(Volume),
           NEW name, name = dir_entries[f].name, NEW junk, BufferServes(Volume, junk),
           NEW q \in Nat, NEW p \in Nat, NEW last \in Nat, last <= BufSize, NEW ls \in Nat, ls <= last, NEW cnt,
           NEW data, IsBuffer(data), LinedSoFar(f, q, p, last, cnt, ls, data, junk),
           NEW e, e = LineEnd(last, ls, data), ~(data[e] # Newline /\ cnt # 0 /\ ls # 0),
           PrintsIt(name, data, ls, e)
    PROVE  \E r : Done(f, q, p, last, cnt, ls, e, data, junk, r)
<1>1. PICK T \in Seq(Int) : T = Text(Volume, f)
    BY TextIs
<1>2. LinePart(T, q, p, last, cnt, ls, data, junk) /\ out = OutTo(Volume, args, f, DoneTo(T, q + ls))
    BY <1>1 DEF LinedSoFar
<1>3. e \in ls .. last /\ (e = last \/ data[e] = Newline) /\ NoneIn(data, ls, e)
    BY LineEndIs
<1>4. e \in Nat /\ ls <= e /\ e <= last
    BY <1>3
<1>5. TextServes(T, junk)
    BY <1>1, Servable
<1>6. \E r : AfterLine(T, q, p, last, cnt, ls, e, Closed(data, e), junk, r)
    <2>1. CASE e = last
        <3>1. NoneIn(data, ls, last) /\ (data[last] = Newline \/ cnt = 0 \/ ls = 0)
            BY <1>3, <2>1
        <3>2. \E r : AfterLine(T, q, p, last, cnt, ls, last, Closed(data, last), junk, r)
            BY <1>2, <1>5, <3>1, AfterEnd
        <3> QED BY <2>1, <3>2
    <2>2. CASE e # last
        <3>1. data[e] = Newline /\ e < last
            BY <1>3, <1>4, <2>2
        <3> QED BY <1>2, <1>3, <1>4, <3>1, AfterNewline
    <2> QED BY <2>1, <2>2
<1>7. PICK r : AfterLine(T, q, p, last, cnt, ls, e, Closed(data, e), junk, r)
    BY <1>6
<1>12. PICK a, m : a = q + ls /\ m = q + e
    OBVIOUS
<1>8. LineDone(T, a, m, r)
    BY <1>7, <1>12 DEF AfterLine
<1>9. Filled(T, q, ls, last, data) /\ p = q + last /\ p <= Len(T)
    BY <1>2 DEF LinePart
<1>10. Printed(f, T, a)
    BY <1>2, <1>12 DEF Printed
<1>11. NowPrinted(f, T, r)
    BY <1>1, <1>4, <1>8, <1>9, <1>10, <1>12, GrepPrinted
<1> QED BY <1>1, <1>7, <1>11 DEF Done, NowPrinted

\* After a line, the next one, the next read, or the end of the file.
LEMMA GrepPrintStep ==
    ASSUME ReadInv, Sound, NEW dir, NEW junk, NEW name, NEW f, NEW fd, NEW last, NEW cnt, NEW ls, NEW data,
           GrepLining(dir, junk, name, f, fd, last, cnt, ls, data), GrepArgs,
           UNCHANGED <<Volume, args, dir_entries, inode, file_position>>,
           NEW e, e = LineEnd(last, ls, data), ~(data[e] # Newline /\ cnt # 0 /\ ls # 0),
           PrintsIt(name, data, ls, e),
           IF e + 1 < last THEN Go("line", Continued(local, Closed(data, e), e + 1))
           ELSE Go(IF cnt = 0 THEN "close" ELSE "read", Emptied(local, Closed(data, e)))
    PROVE  GrepInv'
<1>0. BufSize \in Nat
    BY UserProgramsAssumption
<1>1. /\ local = GrepLocal(dir, junk, name, fd, last, cnt, ls, data) /\ GrepFile(dir, name, f, fd)
      /\ f \in TextFiles(Volume) /\ file_position[fd] \in Nat
      /\ last \in Nat /\ last <= BufSize /\ ls \in Nat /\ ls <= last /\ IsBuffer(data)
    BY DEF GrepLining
<1>2. e \in Nat /\ e <= last
    <2>1. e \in ls .. last
        BY <1>1, LineEndIs
    <2> QED BY <1>1, <2>1
<1>3. PICK d : d = Closed(data, e)
    OBVIOUS
<1>4. IsBuffer(d)
    <2>1. e \in 0 .. BufSize
        BY <1>0, <1>1, <1>2
    <2> QED BY <1>1, <1>3, <2>1, ClosedIs
<1>5. GrepFile(dir, name, f, fd)'
    BY <1>1 DEF GrepFile, GrepAt, GrepDir
<1>6. f \in 1 .. Len(dir_entries) /\ name = dir_entries[f].name
    BY <1>1 DEF GrepFile, GrepAt
<1>7. GrepArgs'
    BY DEF GrepArgs
<1>8. BufferServes(Volume, junk)' = BufferServes(Volume, junk)
    BY SMT
<1>9. f \in TextFiles(Volume') /\ file_position'[fd] \in Nat
    BY <1>1
<1>10. PICK p \in Nat : p = file_position[fd]
    BY <1>1
<1>11. PICK T : T = Text(Volume, f)
    OBVIOUS
<1>12. ASSUME BufferServes(Volume, junk)
       PROVE  \E q \in Nat : \E r : Done(f, q, p, last, cnt, ls, e, data, junk, r)
    <2>1. PICK q \in Nat : LinedSoFar(f, q, p, last, cnt, ls, data, junk)
        BY <1>10, <1>12 DEF GrepLining
    <2>2. \E r : Done(f, q, p, last, cnt, ls, e, data, junk, r)
        BY <1>1, <1>6, <1>12, <2>1, GrepDone
    <2> QED BY <2>2
<1>13. CASE e + 1 < last
    <2>1. PICK x \in Nat : x = e + 1 /\ x <= last
        <3>1. e + 1 \in Nat /\ e + 1 <= last
            BY <1>1, <1>2, <1>13
        <3> QED BY <3>1
    <2>2. pc' = "line" /\ local' = GrepLocal(dir, junk, name, fd, last, cnt, x, d)
        <3>1. Go("line", Continued(local, d, x))
            BY <1>3, <1>13, <2>1
        <3>2. Continued(local, d, x) = GrepLocal(dir, junk, name, fd, last, cnt, x, d)
            BY <1>1, ContinuedIs
        <3> QED BY <3>1, <3>2 DEF Go
    <2>3. ASSUME BufferServes(Volume, junk)
          PROVE  \E q \in Nat : LinedSoFar(f, q, file_position[fd], last, cnt, x, d, junk)'
        <3>0. PICK q \in Nat : \E r : Done(f, q, p, last, cnt, ls, e, data, junk, r)
            BY <1>12, <2>3
        <3>1. PICK r : Done(f, q, p, last, cnt, ls, e, data, junk, r)
            BY <3>0
        <3>2. r = q + x /\ LinePart(T, q, p, last, cnt, x, d, junk)
            <4>1. AfterLine(T, q, p, last, cnt, ls, e, d, junk, r)
                BY <1>3, <1>11, <3>1 DEF Done
            <4>2. r = q + e + 1 /\ LinePart(T, q, p, last, cnt, e + 1, d, junk)
                BY <1>13, <4>1 DEF AfterLine
            <4>3. q + e + 1 = q + (e + 1)
                BY <1>2
            <4> QED BY <2>1, <4>2, <4>3
        <3>3. out' = OutTo(Volume, args, f, DoneTo(T, r))
            BY <1>11, <3>1 DEF Done
        <3>4. LinedSoFar(f, q, file_position[fd], last, cnt, x, d, junk)'
            BY <1>10, <1>11, <3>2, <3>3 DEF LinedSoFar
        <3> QED BY <3>4
    <2>4. GrepLining(dir, junk, name, f, fd, last, cnt, x, d)'
        BY <1>1, <1>4, <1>5, <1>8, <1>9, <2>1, <2>2, <2>3 DEF GrepLining
    <2> QED BY <1>7, <2>2, <2>4 DEF GrepInv
<1>14. CASE ~(e + 1 < last)
    <2>1. PICK z \in Nat : z = 0 /\ z <= BufSize
        BY <1>0
    <2>2. Emptied(local, d) = GrepLocal(dir, junk, name, fd, z, cnt, ls, d)
        BY <1>1, <2>1, EmptiedIs
    <2>3. ASSUME BufferServes(Volume, junk)
          PROVE  /\ ReadPart(T, p, p, z, d, junk) /\ (cnt = 0 => p = Len(T))
                 /\ out' = OutTo(Volume, args, f, DoneTo(T, p))
        <3>0. PICK q \in Nat : \E r : Done(f, q, p, last, cnt, ls, e, data, junk, r)
            BY <1>12, <2>3
        <3>1. PICK r : Done(f, q, p, last, cnt, ls, e, data, junk, r)
            BY <3>0
        <3>2. r = p /\ ReadPart(T, p, p, z, d, junk) /\ (cnt = 0 => p = Len(T))
            <4>1. AfterLine(T, q, p, last, cnt, ls, e, d, junk, r)
                BY <1>3, <1>11, <3>1 DEF Done
            <4> QED BY <1>14, <2>1, <4>1 DEF AfterLine
        <3>3. out' = OutTo(Volume, args, f, DoneTo(T, r))
            BY <1>11, <3>1 DEF Done
        <3> QED BY <3>2, <3>3
    <2>4. CASE cnt = 0
        <3>1. pc' = "close" /\ local' = GrepLocal(dir, junk, name, fd, z, cnt, ls, d)
            BY <1>3, <1>14, <2>2, <2>4 DEF Go
        <3>2. ASSUME BufferServes(Volume, junk) PROVE out' = OutTo(Volume', args', f, Len(LinesOf(Text(Volume', f))))
            <4>1. T \in Seq(Int)
                BY <1>6, <1>11, TextIs
            <4>2. DoneTo(T, p) = Len(LinesOf(T))
                BY <2>3, <2>4, <3>2, <4>1, DoneAll
            <4> QED BY <1>11, <2>3, <3>2, <4>2
        <3>3. GrepClosing(dir, junk, name, f, fd, z, cnt, ls, d)'
            BY <1>5, <1>8, <1>9, <3>1, <3>2 DEF GrepClosing
        <3> QED BY <1>7, <3>1, <3>3 DEF GrepInv
    <2>5. CASE cnt # 0
        <3>1. pc' = "read" /\ local' = GrepLocal(dir, junk, name, fd, z, cnt, ls, d)
            BY <1>3, <1>14, <2>2, <2>5 DEF Go
        <3>2. ASSUME BufferServes(Volume, junk) PROVE \E q \in Nat : ReadSoFar(f, q, file_position[fd], z, d, junk)'
            <4>1. ReadSoFar(f, p, file_position[fd], z, d, junk)'
                BY <1>10, <1>11, <2>3, <3>2 DEF ReadSoFar
            <4> QED BY <4>1
        <3>3. GrepReading(dir, junk, name, f, fd, z, cnt, ls, d)'
            BY <1>4, <1>5, <1>8, <2>1, <3>1, <3>2 DEF GrepReading
        <3> QED BY <1>7, <3>1, <3>3 DEF GrepInv
    <2> QED BY <2>4, <2>5
<1> QED BY <1>13, <1>14

\* A line that goes on, or one that is complete.
LEMMA GrepLineStep ==
    ASSUME ReadInv, Sound, NEW dir, NEW junk, NEW name, NEW f, NEW fd, NEW last, NEW cnt, NEW ls, NEW data,
           GrepLining(dir, junk, name, f, fd, last, cnt, ls, data), GrepArgs,
           GrepLine, UNCHANGED <<Volume, args, dir_entries>>
    PROVE  GrepInv'
<1>1. UNCHANGED <<inode, file_position>>
    BY DEF GrepLine, NoCall, kernel, vars
<1>2. PICK e : e = LineEnd(last, ls, data)
    OBVIOUS
<1>3. local = GrepLocal(dir, junk, name, fd, last, cnt, ls, data)
    BY DEF GrepLining
<1>4. \/ data[e] # Newline /\ cnt # 0 /\ ls # 0 /\ Go("read", Keeping(local, e)) /\ UNCHANGED out
      \/ /\ ~(data[e] # Newline /\ cnt # 0 /\ ls # 0) /\ PrintsIt(name, data, ls, e)
         /\ IF e + 1 < last THEN Go("line", Continued(local, Closed(data, e), e + 1))
            ELSE Go(IF cnt = 0 THEN "close" ELSE "read", Emptied(local, Closed(data, e)))
    BY <1>2, <1>3, GrepLineIs
<1>5. CASE data[e] # Newline /\ cnt # 0 /\ ls # 0 /\ Go("read", Keeping(local, e)) /\ UNCHANGED out
    BY <1>1, <1>2, <1>5, GrepKeepStep
<1>6. CASE /\ ~(data[e] # Newline /\ cnt # 0 /\ ls # 0) /\ PrintsIt(name, data, ls, e)
           /\ IF e + 1 < last THEN Go("line", Continued(local, Closed(data, e), e + 1))
              ELSE Go(IF cnt = 0 THEN "close" ELSE "read", Emptied(local, Closed(data, e)))
    BY <1>1, <1>2, <1>6, GrepPrintStep
<1> QED BY <1>4, <1>5, <1>6

\* Every step of grep.
LEMMA GrepStep ==
    ASSUME ReadInv, Sound, GrepInv, Grep
    PROVE  GrepInv'
<1>1. UNCHANGED <<Volume, args, dir_entries>>
    BY GrepGoes, KeepsVolume DEF Goes
<1>2. CASE GrepMain /\ At("grep", "main")
    <2>1. Started
        BY <1>2 DEF GrepInv, At
    <2> QED BY <1>1, <1>2, <2>1, GrepMainStep
<1>3. CASE GrepMain /\ At("grep", "next")
    <2>1. pc = "next"
        BY <1>3 DEF At
    <2>2. GrepArgs /\ \E dir, junk : GrepNext(dir, junk)
        BY <2>1 DEF GrepInv, Started
    <2> QED BY <1>1, <1>3, <2>2, GrepNextStep
<1>4. CASE GrepOpen
    <2>1. pc = "open"
        BY <1>4 DEF GrepOpen, At
    <2>2. GrepArgs /\ \E dir, junk, name, f : GrepOpening(dir, junk, name, f)
        BY <2>1 DEF GrepInv, Started
    <2> QED BY <1>1, <1>4, <2>2, GrepOpenStep
<1>5. CASE GrepRead
    <2>1. pc = "read"
        BY <1>5 DEF GrepRead, At
    <2>2. GrepArgs /\ \E dir, junk, name, f, fd, last, cnt, ls, data :
             GrepReading(dir, junk, name, f, fd, last, cnt, ls, data)
        BY <2>1 DEF GrepInv, Started
    <2> QED BY <1>1, <1>5, <2>2, GrepReadStep
<1>6. CASE GrepLine
    <2>1. pc = "line"
        BY <1>6 DEF GrepLine, At
    <2>2. GrepArgs /\ \E dir, junk, name, f, fd, last, cnt, ls, data :
             GrepLining(dir, junk, name, f, fd, last, cnt, ls, data)
        BY <2>1 DEF GrepInv, Started
    <2> QED BY <1>1, <1>6, <2>2, GrepLineStep
<1>7. CASE GrepClose
    <2>1. pc = "close"
        BY <1>7 DEF GrepClose, At
    <2>2. GrepArgs /\ \E dir, junk, name, f, fd, last, cnt, ls, data :
             GrepClosing(dir, junk, name, f, fd, last, cnt, ls, data)
        BY <2>1 DEF GrepInv, Started
    <2> QED BY <1>1, <1>7, <2>2, GrepCloseStep
<1>8. GrepMain => At("grep", "main") \/ At("grep", "next")
    BY DEF GrepMain
<1> QED BY <1>2, <1>3, <1>4, <1>5, <1>6, <1>7, <1>8 DEF Grep

\* When grep exits without an error it has printed what the lines hold, if
\* the buffer serves the files.
LEMMA GrepEnds ==
    ASSUME GrepInv
    PROVE  /\ pc # "fault"
           /\ pc = "exit" => (local.status = 0 =>
                 (BufferServes(Volume, local.junk) => out = GrepPrints(Volume, args)))
BY DEF GrepInv, Started

\* What grep reads into its buffer fits.
LEMMA GrepReads ==
    ASSUME GrepInv, GrepRead
    PROVE  BufSize - local.last \in Nat
<1>0. BufSize \in Nat
    BY UserProgramsAssumption
<1>1. pc = "read"
    BY DEF GrepRead, At
<1>2. PICK dir, junk, name, f, fd, last, cnt, ls, data :
         GrepReading(dir, junk, name, f, fd, last, cnt, ls, data)
    BY <1>1 DEF GrepInv, Started
<1>3. local = GrepLocal(dir, junk, name, fd, last, cnt, ls, data) /\ last \in Nat /\ last <= BufSize
    BY <1>2 DEF GrepReading
<1>4. local.last = last
    BY <1>3, GrepLocalIs
<1> QED BY <1>0, <1>3, <1>4

-----------------------------------------------------------------------------
\* All programs.

\* A call for a file, or none.
FileCall ==
    \/ UNCHANGED <<dir_entries, inode, file_position, got>>
    \/ \E name : Open(name)
    \/ \E fd : Close(fd)
    \/ \E fd, n : n \in Nat /\ Read(fd, n)
    \/ Next

\* Those calls keep what is known of reads.
LEMMA FileCallReads ==
    ASSUME ReadInv, FileCall
    PROVE  ReadInv'
BY StillReads, OpenKeepsReads, CloseKeepsReads, ReadKeepsReads, NextReads DEF FileCall

\* Calls that are not for files are among them.
LEMMA NoFile ==
    ASSUME NoCall \/ Fails \/ ReadRefused \/ \E start : Vidmap(start)
    PROVE  FileCall
BY DEF NoCall, Fails, ReadRefused, Vidmap, FileCall, kernel, vars, files

\* The sizes of the buffers are numbers.
LEMMA Sizes == BufSize \in Nat /\ NameLen \in Nat /\ 31 \in Nat /\ 1 \in Nat
BY UserProgramsAssumption, FileSystemAssumption

\* The calls of the programs that have no invariant to show it.
LEMMA FilesOnlyCall ==
    ASSUME Cat \/ Ls \/ HelloProgram \/ Testprint \/ Sigtest \/ Counter \/ Pingpong
    PROVE  FileCall
<1>1. CASE Cat
    <2>1. NoCall \/ (\E name : Open(name)) \/ Read(local.fd, BufSize)
        BY <1>1 DEF Cat
    <2> QED BY <2>1, NoFile, Sizes DEF FileCall
<1>2. CASE Ls
    <2>1. (\E name : Open(name)) \/ Read(local.fd, NameLen)
        BY <1>2 DEF Ls
    <2> QED BY <2>1, Sizes DEF FileCall
<1>3. CASE HelloProgram \/ Testprint \/ Sigtest \/ Counter \/ Pingpong
    <2>1. NoCall \/ Fails
        BY <1>3 DEF HelloProgram, Testprint, Sigtest, Counter, Pingpong
    <2> QED BY <2>1, NoFile
<1> QED BY <1>1, <1>2, <1>3

\* The calls of grep, whose reads fit its buffer.
LEMMA GrepCalls ==
    ASSUME Grep, GrepInv
    PROVE  FileCall
<1>1. CASE GrepMain
    <2>1. NoCall \/ (\E name : Open(name)) \/ Read(local.dir, NameLen)
        BY <1>1 DEF GrepMain
    <2> QED BY <2>1, NoFile, Sizes DEF FileCall
<1>2. CASE GrepOpen
    BY <1>2 DEF GrepOpen, FileCall
<1>3. CASE GrepRead
    <2>1. BufSize - local.last \in Nat
        BY <1>3, GrepReads
    <2>2. PICK n \in Nat : n = BufSize - local.last
        BY <2>1
    <2>3. Read(local.fd, n)
        BY <1>3, <2>2 DEF GrepRead
    <2> QED BY <2>3 DEF FileCall
<1>4. CASE GrepLine
    BY <1>4, NoFile DEF GrepLine
<1>5. CASE GrepClose
    BY <1>5 DEF GrepClose, FileCall
<1> QED BY <1>1, <1>2, <1>3, <1>4, <1>5 DEF Grep

\* The calls of fish.
LEMMA FishCalls ==
    ASSUME Fish
    PROVE  FileCall
<1>1. CASE FishMain
    BY <1>1, NoFile DEF FishMain
<1>2. CASE FishOpen
    BY <1>2 DEF FishOpen, FileCall
<1>3. CASE FishRead
    <2>1. NoCall \/ Read(local.fd[local.turn], 1)
        BY <1>3 DEF FishRead
    <2> QED BY <2>1, NoFile, Sizes DEF FileCall
<1>4. CASE FishRow
    <2>1. NoCall \/ Close(local.fd[local.turn])
        BY <1>4 DEF FishRow
    <2> QED BY <2>1, NoFile DEF FileCall
<1> QED BY <1>1, <1>2, <1>3, <1>4 DEF Fish

\* The calls of syserr.
LEMMA SyserrFiles ==
    ASSUME Syserr
    PROVE  FileCall
<1>1. NoCall \/ \E c : Call(c)
    <2>1. NoCall \/ Call(Tests[local.test][local.n])
        BY Zenon DEF Syserr
    <2> QED BY <2>1
<1>2. ASSUME NEW c, Call(c) PROVE FileCall
    <2>1. \/ Open(c.arg) \/ Vidmap(c.arg) \/ NoCall \/ Fails \/ Close(c.arg) \/ Read(c.arg, 31) \/ ReadRefused
        BY <1>2 DEF Call
    <2> QED BY <2>1, NoFile, Sizes DEF FileCall
<1> QED BY <1>1, <1>2, NoFile

\* The calls of a program of which nothing else is known.
LEMMA ClientCalls ==
    ASSUME LibraryCall \/ AnyClient
    PROVE  FileCall
<1>1. CASE LibraryCall
    BY <1>1, NoFile DEF LibraryCall
<1>2. CASE AnyClient
    BY <1>2 DEF AnyClient, FileCall
<1> QED BY <1>1, <1>2

-----------------------------------------------------------------------------
\* Every program in its place.
PrintInv ==
    /\ LineInv /\ ReadInv
    /\ program = "shell" \/ Running => Sound
    /\ program = "cat" => CatInv
    /\ program = "ls" => LsInv
    /\ program = "grep" => GrepInv
    /\ program = "fish" => FishInv
    /\ program = "counter" => CounterInv
    /\ program = "pingpong" => PongInv
    /\ program = "syserr" => SyserrInv
    /\ ProgramsPrint

\* The first shell has started no program.
LEMMA InitPrints == UserInit => PrintInv
<1> SUFFICES ASSUME UserInit PROVE PrintInv
    OBVIOUS
<1>1. LineInv
    BY InitLine
<1>2. ReadInv
    BY InitReadInv DEF UserInit
<1>3. program \in {"any", "shell", "library"} /\ ~Running
    BY DEF UserInit, Running
<1>4. program = "shell" => Sound
    <2>1. ASSUME program = "shell" PROVE Sound
        <3>1. PICK s \in Sessions : dir_entries = s.image /\ disk = s.disk
            BY <2>1 DEF UserInit
        <3>2. Distinct(s.image) /\ FlatImage(s.image) /\ OnDisk(s)
            BY SessionsAssumption
        <3>3. Volume.image = s.image /\ Volume.disk = s.disk
            BY <3>1 DEF Volume
        <3> QED BY <3>1, <3>2, <3>3 DEF Sound, OnDisk
    <2> QED BY <2>1
<1>5. ProgramsPrint
    BY DEF UserInit, ProgramsPrint
<1> QED BY <1>1, <1>2, <1>3, <1>4, <1>5 DEF PrintInv

\* A step at which no program ends keeps it.
LEMMA StillPrints ==
    ASSUME ProgramsPrint, UNCHANGED <<Volume, ended>>
    PROVE  ProgramsPrint'
<1>1. Volume' = Volume /\ ended' = ended
    OBVIOUS
<1>2. PICK v, e : v = Volume /\ e = ended
    OBVIOUS
<1>3. v = Volume' /\ e = ended'
    BY <1>1, <1>2
<1>4. e.program # "none" /\ e.program # "wild" => Prints(v, e)
    BY <1>2 DEF ProgramsPrint
<1> QED BY <1>3, <1>4 DEF ProgramsPrint

\* What was said of the files still is.
LEMMA StillSound ==
    ASSUME Sound, UNCHANGED <<Volume, dir_entries>>
    PROVE  Sound'
<1>1. Volume' = Volume /\ dir_entries' = dir_entries
    OBVIOUS
<1>2. PICK v, d : v = Volume /\ d = dir_entries
    OBVIOUS
<1>3. v = Volume' /\ d = dir_entries'
    BY <1>1, <1>2
<1>4. Distinct(d) /\ FlatImage(d) /\ OnDisk(v)
    BY <1>2 DEF Sound
<1> QED BY <1>3, <1>4 DEF Sound

\* A program ends as it should print.
LEMMA HaltPrints ==
    ASSUME PrintInv, LineInv', NEW status, Halt(status),
           (pc = "exit" /\ status = local.status) \/ pc = "fault" \/ program = "wild"
    PROVE  PrintInv'
<1>1. Running /\ program' = "shell" /\ UNCHANGED <<disk, dir_entries>> /\ ClearTable
    BY DEF Halt, HaltCloses, ClearTable
<1>2. PICK e : /\ e = ended' /\ e.program = program /\ e.args = args /\ e.status = status /\ e.out = out
               /\ e.local = local
    <2>1. ended' = [program |-> program, line |-> ended.line, args |-> args, file |-> ended.file,
                    status |-> status, out |-> out, local |-> local]
        BY DEF Halt
    <2> QED BY <2>1
<1>3. UNCHANGED <<Volume, dir_entries>>
    BY <1>1 DEF Volume
<1>4. ReadInv'
    BY <1>1, ClearKeepsReads DEF PrintInv
<1>5. Sound'
    BY <1>1, <1>3, StillSound DEF PrintInv
<1>6. PICK v : v = Volume
    OBVIOUS
<1>7. ASSUME program # "wild" PROVE Prints(v, e)
    <2>1. (pc = "exit" /\ status = local.status) \/ pc = "fault"
        BY <1>7
    <2>2. CASE program = "cat"
        <3>1. pc # "fault" /\ (pc = "exit" => out = CatPrints(Volume, args))
            BY <2>2, CatEnds DEF PrintInv
        <3>2. e.out = CatPrints(v, e.args)
            BY <1>2, <1>6, <2>1, <3>1
        <3> QED BY <1>2, <2>2, <3>2 DEF Prints
    <2>3. CASE program = "ls"
        <3>1. pc # "fault" /\ (pc = "exit" => out = LsPrints(Volume))
            BY <2>3, LsEnds DEF PrintInv
        <3>2. e.out = LsPrints(v)
            BY <1>2, <1>6, <2>1, <3>1
        <3> QED BY <1>2, <2>3, <3>2 DEF Prints
    <2>4. CASE program = "grep"
        <3>1. /\ pc # "fault"
              /\ pc = "exit" => (local.status = 0 =>
                    (BufferServes(Volume, local.junk) => out = GrepPrints(Volume, args)))
            BY <2>4, GrepEnds DEF PrintInv
        <3>2. e.status = 0 => (BufferServes(v, e.local.junk) => e.out = GrepPrints(v, e.args))
            BY <1>2, <1>6, <2>1, <3>1
        <3> QED BY <1>2, <2>4, <3>2 DEF Prints
    <2>5. CASE program = "fish"
        <3>1. pc # "fault" /\ (pc = "exit" => (local.status = 0 => out = FishPrints(Volume)))
            BY <2>5, FishEnds DEF PrintInv
        <3>2. e.status = 0 => e.out = FishPrints(v)
            BY <1>2, <1>6, <2>1, <3>1
        <3> QED BY <1>2, <2>5, <3>2 DEF Prints
    <2>6. CASE program = "counter"
        <3>1. pc # "fault" /\ (pc = "exit" => CounterSays(out))
            BY <2>6, CounterEnds DEF PrintInv
        <3>2. CounterSays(e.out)
            BY <1>2, <2>1, <3>1
        <3> QED BY <1>2, <2>6, <3>2 DEF Prints, CounterSays
    <2>7. CASE program = "pingpong"
        <3>1. pc # "fault" /\ (pc = "exit" => out = PingpongPrints)
            BY <2>7, PongEnds DEF PrintInv
        <3>2. e.out = PingpongPrints
            BY <1>2, <2>1, <3>1
        <3> QED BY <1>2, <2>7, <3>2 DEF Prints
    <2>8. CASE program = "syserr"
        <3>1. /\ pc # "fault"
              /\ pc = "exit" => (SyserrCan(Volume) => \A n \in DOMAIN out : out[n] \in {Pass, Invalid})
            BY <2>8, SyserrEnds DEF PrintInv
        <3>2. SyserrCan(v) => \A n \in DOMAIN e.out : e.out[n] \in {Pass, Invalid}
            BY <1>2, <1>6, <2>1, <3>1
        <3> QED BY <1>2, <2>8, <3>2 DEF Prints
    <2>9. CASE program \notin {"cat", "ls", "grep", "fish", "counter", "pingpong", "syserr"}
        BY <1>2, <2>9 DEF Prints
    <2> QED BY <2>2, <2>3, <2>4, <2>5, <2>6, <2>7, <2>8, <2>9
<1>8. ProgramsPrint'
    <2>1. v = Volume'
        BY <1>3, <1>6
    <2>2. e.program # "wild" => Prints(v, e)
        BY <1>2, <1>7
    <2> QED BY <1>2, <2>1, <2>2 DEF ProgramsPrint
<1> QED BY <1>1, <1>4, <1>5, <1>8 DEF PrintInv, Running

\* The arguments are a string.
LEMMA ArgumentsAreString ==
    ASSUME NEW command \in Typed, NEW f, ExecuteStarts(command, f)
    PROVE  args' \in CStrings
<1>1. PICK a \in Nat, e \in Nat : Parsed(command, a, e)
    BY ParseArgsIs
<1>2. FirstWordAt(command, a, e)
    BY <1>1 DEF Parsed
<1>3. PICK n \in Nat : n = Len(command)
    BY DEF Typed
<1>4. PICK l \in Nat : l = e - 1 - a /\ a + l <= n
    <2>1. e \in a + 1 .. n + 1
        BY <1>2, <1>3 DEF FirstWordAt
    <2>2. e - 1 - a \in Nat /\ a + (e - 1 - a) <= n
        BY <2>1
    <2> QED BY <2>2
<1>5. PICK i \in 0 .. n : i = ParseArgs(command).index
    <2>1. ParseArgs(command).index = a + Shorter(l)
        BY <1>1, <1>4 DEF Parsed
    <2>2. NameLen \in Nat
        BY FileSystemAssumption
    <2>3. a + Shorter(l) \in 0 .. n
        BY <1>3, <1>4, <2>2 DEF Shorter
    <2> QED BY <2>1, <2>3
<1>6. args' = ParseArgumentsOfProgram(command, i)
    BY <1>5 DEF ExecuteStarts
<1>7. PICK j \in 0 .. n : j = Skip(command, i)
    <2>1. SkipsTo(command, i, Skip(command, i))
        BY <1>3, SkipIs
    <2> QED BY <1>3, <2>1 DEF SkipsTo
<1>8. ParseArgumentsOfProgram(command, i) = SubSeq(command, j + 1, n)
    BY <1>3, <1>7, ArgumentsAre
<1>9. SubSeq(command, j + 1, n) \in Typed
    BY <1>3, RestIsLine
<1>10. Typed \subseteq CStrings
    BY DEF Typed, CStrings
<1> QED BY <1>6, <1>8, <1>9, <1>10

\* The shell starts a program as it expects to be started, or waits on.
LEMMA ShellPrints ==
    ASSUME PrintInv, LineInv', Shell
    PROVE  PrintInv'
<1>1. program = "shell" /\ pc = "read" /\ UNCHANGED disk /\ Sound /\ ReadInv /\ ProgramsPrint
    BY DEF Shell, PrintInv
<1>2. PICK command : command = Head(typed)
    OBVIOUS
<1>3. CASE NoCall /\ UNCHANGED <<program, pc, local, out, ended>>
    <2>1. UNCHANGED <<Volume, dir_entries>>
        BY <1>1, <1>3 DEF NoCall, kernel, vars, Volume
    <2>2. ReadInv'
        BY <1>1, <1>3, NoFile, FileCallReads
    <2>3. Sound' /\ ProgramsPrint'
        BY <1>1, <1>3, <2>1, StillSound, StillPrints
    <2> QED BY <1>1, <1>3, <2>2, <2>3 DEF PrintInv
<1>4. CASE /\ ExecuteRefused(command)
           /\ ended' = [program |-> "none", line |-> command, status |-> -1]
           /\ UNCHANGED <<program, pc, local, out>>
    <2>1. UNCHANGED <<Volume, dir_entries, inode, file_position, got>>
        BY <1>1, <1>4 DEF ExecuteRefused, files, Volume
    <2>2. ReadInv'
        BY <1>1, <2>1, StillReads
    <2>3. Sound'
        BY <1>1, <2>1, StillSound
    <2>4. ended'.program = "none"
        BY <1>4
    <2>5. ProgramsPrint'
        BY <2>4 DEF ProgramsPrint
    <2> QED BY <1>1, <1>4, <2>2, <2>3, <2>5 DEF PrintInv
<1>5. CASE \E f \in 1 .. Len(dir_entries) :
               /\ ExecuteStarts(command, f)
               /\ ended' = [program |-> "none", line |-> command, file |-> f]
               /\ pc' = "main" /\ out' = <<>>
    <2>1. PICK f \in 1 .. Len(dir_entries) :
               /\ ExecuteStarts(command, f)
               /\ ended' = [program |-> "none", line |-> command, file |-> f]
               /\ pc' = "main" /\ out' = <<>>
        BY <1>5
    <2>2. ClearTable
        BY <2>1 DEF ExecuteStarts
    <2>3. inode' = [fd \in Fds |-> 0] /\ UNCHANGED <<Volume, dir_entries>>
        BY <1>1, <2>2 DEF ClearTable, Volume
    <2>4. ReadInv'
        BY <1>1, <2>2, ClearKeepsReads
    <2>5. Sound'
        BY <1>1, <2>3, StillSound
    <2>6. ended'.program = "none"
        BY <2>1
    <2>7. ProgramsPrint'
        BY <2>6 DEF ProgramsPrint
    <2>8. args' \in CStrings
        <3>1. command \in Typed
            BY <1>1, <1>2 DEF Shell, PrintInv, LineInv
        <3> QED BY <2>1, <3>1, ArgumentsAreString
    <2>9. Started'
        BY <2>1, <2>3, <2>8 DEF Started
    <2>10. /\ CatInv' /\ LsInv' /\ GrepInv' /\ FishInv' /\ CounterInv' /\ PongInv' /\ SyserrInv'
        BY <2>9 DEF CatInv, LsInv, GrepInv, FishInv, CounterInv, PongInv, SyserrInv
    <2> QED BY <2>4, <2>5, <2>7, <2>10 DEF PrintInv
<1> QED BY <1>2, <1>3, <1>4, <1>5 DEF Shell

\* A program that goes on keeps all but its own invariant.
LEMMA ProgramPrints ==
    ASSUME PrintInv, LineInv', Goes, FileCall,
           program = "cat" => CatInv', program = "ls" => LsInv', program = "grep" => GrepInv',
           program = "fish" => FishInv', program = "counter" => CounterInv',
           program = "pingpong" => PongInv', program = "syserr" => SyserrInv'
    PROVE  PrintInv'
<1>1. UNCHANGED <<program, ended, Volume, dir_entries>>
    BY KeepsVolume DEF Goes
<1>2. ReadInv'
    BY FileCallReads DEF PrintInv
<1>3. (program = "shell" \/ Running)' => Sound'
    <2>1. (program = "shell" \/ Running)' => Sound
        BY <1>1 DEF PrintInv, Running
    <2> QED BY <1>1, <2>1, StillSound
<1>4. ProgramsPrint'
    BY <1>1, StillPrints DEF PrintInv
<1>5. program' = program
    BY <1>1
<1> QED BY <1>2, <1>3, <1>4, <1>5 DEF PrintInv

-----------------------------------------------------------------------------
\* A step that changes nothing.
LEMMA CatStays ==
    ASSUME UNCHANGED uvars, CatInv \/ LsInv
    PROVE  (CatInv => CatInv') /\ (LsInv => LsInv')
<1>1. UNCHANGED <<pc, local, out, args, disk, dir_entries, inode, file_position>>
    BY DEF uvars, user, kernel, vars
<1>2. UNCHANGED Volume
    BY <1>1 DEF Volume
<1>3. Started => Started'
    BY <1>1 DEF Started
<1> QED BY <1>1, <1>2, <1>3 DEF CatInv, LsInv

\* Of counter and pingpong.
LEMMA CounterStays ==
    ASSUME UNCHANGED uvars
    PROVE  (CounterInv => CounterInv') /\ (PongInv => PongInv')
<1>1. UNCHANGED <<pc, local, out, args, inode>>
    BY DEF uvars, user, kernel, vars
<1>2. Started => Started'
    BY <1>1 DEF Started
<1> QED BY <1>1, <1>2 DEF CounterInv, PongInv

\* Of syserr.
LEMMA SyserrStays ==
    ASSUME UNCHANGED uvars
    PROVE  SyserrInv => SyserrInv'
<1>1. UNCHANGED <<pc, local, out, args, disk, dir_entries, inode>>
    BY DEF uvars, user, kernel, vars
<1>2. UNCHANGED Volume
    BY <1>1 DEF Volume
<1>3. Started => Started'
    BY <1>1 DEF Started
<1>4. Testing => Testing'
    BY <1>1 DEF Testing, TestState, Empty, OpenBetween
<1> QED BY <1>1, <1>2, <1>3, <1>4 DEF SyserrInv

\* Of fish.
LEMMA FishStays ==
    ASSUME UNCHANGED uvars
    PROVE  FishInv => FishInv'
<1>1. UNCHANGED <<pc, local, out, args, disk, dir_entries, inode, file_position>>
    BY DEF uvars, user, kernel, vars
<1>2. UNCHANGED Volume
    BY <1>1 DEF Volume
<1>3. Started => Started'
    BY <1>1 DEF Started
<1>4. FishOpened => FishOpened'
    BY <1>1 DEF FishOpened
<1>5. FishReads => FishReads'
    <2>1. ASSUME NEW a, NEW b, NEW f, NEW g, NEW x, NEW y, NEW d, NEW e, NEW t, NEW R, NEW C,
                 FishReading(a, b, f, g, x, y, d, e, t, R, C), Pictures(a, b, f, g)
          PROVE  FishReading(a, b, f, g, x, y, d, e, t, R, C)' /\ Pictures(a, b, f, g)'
        BY <1>1, <1>2, <2>1 DEF FishReading, Pictures
    <2> QED BY <2>1 DEF FishReads
<1>6. FishRows => FishRows'
    <2>1. ASSUME NEW a, NEW b, NEW f, NEW g, NEW x, NEW d, NEW e, NEW t, NEW R, NEW C,
                 FishRowing(a, b, f, g, x, d, e, t, R, C), Pictures(a, b, f, g)
          PROVE  FishRowing(a, b, f, g, x, d, e, t, R, C)' /\ Pictures(a, b, f, g)'
        BY <1>1, <1>2, <2>1 DEF FishRowing, Pictures
    <2> QED BY <2>1 DEF FishRows
<1> QED BY <1>1, <1>2, <1>3, <1>4, <1>5, <1>6 DEF FishInv

\* Of grep.
LEMMA GrepStays ==
    ASSUME UNCHANGED uvars
    PROVE  GrepInv => GrepInv'
<1>1. UNCHANGED <<pc, local, out, args, disk, dir_entries, inode, file_position>>
    BY DEF uvars, user, kernel, vars
<1>2. UNCHANGED Volume
    BY <1>1 DEF Volume
<1>3. Started => Started'
    BY <1>1 DEF Started
<1>4. GrepArgs => GrepArgs'
    BY <1>1 DEF GrepArgs
<1>5. ASSUME NEW dir, NEW junk PROVE GrepNext(dir, junk) => GrepNext(dir, junk)'
    BY <1>1, <1>2 DEF GrepNext, GrepDir
<1>6. ASSUME NEW dir, NEW junk, NEW name, NEW f
      PROVE  GrepOpening(dir, junk, name, f) => GrepOpening(dir, junk, name, f)'
    BY <1>1, <1>2 DEF GrepOpening, GrepAt, GrepDir
<1>7. ASSUME NEW dir, NEW junk, NEW name, NEW f, NEW fd, NEW last, NEW cnt, NEW ls, NEW data
      PROVE  GrepReading(dir, junk, name, f, fd, last, cnt, ls, data)
               => GrepReading(dir, junk, name, f, fd, last, cnt, ls, data)'
    BY <1>1, <1>2 DEF GrepReading, GrepFile, GrepAt, GrepDir, ReadSoFar
<1>8. ASSUME NEW dir, NEW junk, NEW name, NEW f, NEW fd, NEW last, NEW cnt, NEW ls, NEW data
      PROVE  GrepLining(dir, junk, name, f, fd, last, cnt, ls, data)
               => GrepLining(dir, junk, name, f, fd, last, cnt, ls, data)'
    BY <1>1, <1>2 DEF GrepLining, GrepFile, GrepAt, GrepDir, LinedSoFar
<1>9. ASSUME NEW dir, NEW junk, NEW name, NEW f, NEW fd, NEW last, NEW cnt, NEW ls, NEW data
      PROVE  GrepClosing(dir, junk, name, f, fd, last, cnt, ls, data)
               => GrepClosing(dir, junk, name, f, fd, last, cnt, ls, data)'
    BY <1>1, <1>2 DEF GrepClosing, GrepFile, GrepAt, GrepDir
<1>10. pc' = pc
    BY <1>1
<1>11. local.status = 0 /\ BufferServes(Volume, local.junk) /\ pc = "exit" /\ out = GrepPrints(Volume, args)
         => (out = GrepPrints(Volume, args))'
    BY <1>1, <1>2
<1>12. (local.status = 0 => (BufferServes(Volume, local.junk) => out = GrepPrints(Volume, args)))
         => (local.status = 0 => (BufferServes(Volume, local.junk) => out = GrepPrints(Volume, args)))'
    BY <1>1, <1>2
<1> QED BY <1>3, <1>4, <1>5, <1>6, <1>7, <1>8, <1>9, <1>10, <1>12 DEF GrepInv

\* Of all of it.
LEMMA StutterPrints ==
    ASSUME PrintInv, LineInv', UNCHANGED uvars
    PROVE  PrintInv'
<1>1. UNCHANGED <<program, ended, disk, dir_entries, inode, file_position, got>>
    BY DEF uvars, user, kernel, vars
<1>2. UNCHANGED <<Volume, dir_entries>>
    BY <1>1 DEF Volume
<1>3. ReadInv'
    BY <1>1, StillReads DEF PrintInv
<1>4. (program = "shell" \/ Running)' => Sound'
    <2>1. (program = "shell" \/ Running)' => Sound
        BY <1>1 DEF PrintInv, Running
    <2> QED BY <1>2, <2>1, StillSound
<1>5. ProgramsPrint'
    BY <1>1, <1>2, StillPrints DEF PrintInv
<1>6. program' = program
    BY <1>1
<1>7. /\ program = "cat" => CatInv'
      /\ program = "ls" => LsInv'
      /\ program = "counter" => CounterInv'
      /\ program = "pingpong" => PongInv'
      /\ program = "syserr" => SyserrInv'
      /\ program = "fish" => FishInv'
      /\ program = "grep" => GrepInv'
    BY CatStays, CounterStays, SyserrStays, FishStays, GrepStays DEF PrintInv
<1> QED BY <1>3, <1>4, <1>5, <1>6, <1>7 DEF PrintInv

\* Every step.
LEMMA NextPrints == PrintInv /\ [UserNext]_uvars => PrintInv'
<1> SUFFICES ASSUME PrintInv, [UserNext]_uvars PROVE PrintInv'
    OBVIOUS
<1>1. LineInv'
    BY NextLineInv DEF PrintInv
<1>2. CASE UNCHANGED uvars
    BY <1>1, <1>2, StutterPrints
<1>3. CASE Shell
    BY <1>1, <1>3, ShellPrints
<1>4. CASE Ends \/ Faults \/ Wild
    <2>1. \E status : Halt(status) /\ ((pc = "exit" /\ status = local.status) \/ pc = "fault" \/ program = "wild")
        BY <1>4 DEF Ends, Faults, Wild
    <2> QED BY <1>1, <2>1, HaltPrints
<1>5. ReadInv /\ LineInv
    BY DEF PrintInv
<1>6. CASE Cat
    <2>1. program = "cat"
        BY <1>6 DEF Cat, At
    <2>2. CatInv'
        BY <1>5, <1>6, <2>1, CatStep DEF PrintInv, Running
    <2> QED BY <1>1, <1>6, <2>1, <2>2, CatGoes, FilesOnlyCall, ProgramPrints
<1>7. CASE Ls
    <2>1. program = "ls"
        BY <1>7 DEF Ls, At
    <2>2. LsInv'
        BY <1>5, <1>7, <2>1, LsStep DEF PrintInv, Running
    <2> QED BY <1>1, <1>7, <2>1, <2>2, LsGoes, FilesOnlyCall, ProgramPrints
<1>8. CASE Grep
    <2>1. program = "grep"
        BY <1>8 DEF Grep, GrepMain, GrepOpen, GrepRead, GrepLine, GrepClose, At
    <2>2. GrepInv /\ GrepInv'
        BY <1>5, <1>8, <2>1, GrepStep DEF PrintInv, Running
    <2> QED BY <1>1, <1>8, <2>1, <2>2, GrepGoes, GrepCalls, ProgramPrints
<1>9. CASE HelloProgram \/ Testprint \/ Sigtest
    <2>1. program \in {"hello", "testprint", "sigtest"}
        BY <1>9 DEF HelloProgram, Testprint, Sigtest, At
    <2> QED BY <1>1, <1>9, <2>1, TalkersGo, FilesOnlyCall, ProgramPrints
<1>10. CASE Counter
    <2>1. program = "counter"
        BY <1>10 DEF Counter, At
    <2>2. CounterInv'
        BY <1>10, <2>1, CounterStep DEF PrintInv
    <2> QED BY <1>1, <1>10, <2>1, <2>2, TalkersGo, FilesOnlyCall, ProgramPrints
<1>11. CASE Pingpong
    <2>1. program = "pingpong"
        BY <1>11 DEF Pingpong, At
    <2>2. PongInv'
        BY <1>11, <2>1, PongStep DEF PrintInv
    <2> QED BY <1>1, <1>11, <2>1, <2>2, TalkersGo, FilesOnlyCall, ProgramPrints
<1>12. CASE Fish
    <2>1. program = "fish"
        BY <1>12 DEF Fish, FishMain, FishOpen, FishRead, FishRow, At
    <2>2. FishInv'
        BY <1>5, <1>12, <2>1, FishStep DEF PrintInv, Running
    <2> QED BY <1>1, <1>12, <2>1, <2>2, FishGoes, FishCalls, ProgramPrints
<1>13. CASE Syserr
    <2>1. program = "syserr"
        BY <1>13 DEF Syserr, At
    <2>2. Counting
        BY <1>5, <2>1 DEF LineInv
    <2>3. SyserrInv'
        BY <1>5, <1>13, <2>1, <2>2, SyserrStep DEF PrintInv
    <2> QED BY <1>1, <1>13, <2>1, <2>2, <2>3, SyserrCounts, SyserrFiles, ProgramPrints
<1>14. CASE LibraryCall \/ AnyClient
    <2>1. program \in {"library", "any"} /\ Goes
        BY <1>14
        DEF LibraryCall, AnyClient, NoCall, kernel, vars, user, OnlyFiles, Goes, Keeps, Next, Open,
            Close, FileRead, Delivers, ReadBack, ReadFaults, ClearTable, DirRead, ReadRefused
    <2> QED BY <1>1, <1>14, <2>1, ClientCalls, ProgramPrints
<1> QED BY <1>2, <1>3, <1>4, <1>6, <1>7, <1>8, <1>9, <1>10, <1>11, <1>12, <1>13, <1>14 DEF UserNext

\* What the programs print is what they are for, for every file system, every
\* size of block, buffer and name, and every line typed to the shell.
THEOREM ProgramsPrintIt == UserSpec => []ProgramsPrint
<1>1. PrintInv => ProgramsPrint
    BY DEF PrintInv
<1> QED BY <1>1, InitPrints, NextPrints, PTL DEF UserSpec
=============================================================================
