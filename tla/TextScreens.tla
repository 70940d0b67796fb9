----------------------------- MODULE TextScreens -----------------------------
(***************************************************************************)
(* What the screen code promises: terminals that each show rows of text    *)
(* with a position in them, a cursor at the position of the terminal in    *)
(* front, and operations that are single steps.                            *)
(***************************************************************************)
EXTENDS Integers, Sequences

CONSTANTS NumRows, NumCols, NumTerminals, ByteSize, Texts, Welcome

VARIABLES
    term,    \* terminal -> [rows, x, y]
    active,  \* the terminal in front
    fresh,   \* terminal -> it has not been in front yet
    cursor,  \* where the hardware shows it: low and high byte
    out      \* what the running program has still to print

vars == <<term, active, fresh, cursor, out>>

Terminals == 0 .. NumTerminals - 1
BlankRow == [i \in 0 .. NumCols - 1 |-> "blank"]
Blank == [rows |-> [j \in 0 .. NumRows - 1 |-> BlankRow], x |-> 0, y |-> 0]

Position(s) == LET p == s.y * NumCols + s.x IN <<p % ByteSize, (p \div ByteSize) % ByteSize>>

LineFeed(s) ==
    IF s.y < NumRows - 1 THEN [s EXCEPT !.x = 0, !.y = @ + 1]
    ELSE [s EXCEPT !.x = 0,
            !.rows = [j \in DOMAIN @ |-> IF j < NumRows - 1 THEN @[j + 1] ELSE BlankRow]]

\* A character takes a cell, and the last cell of a row starts a new one.
Put(s, c) ==
    IF c = "nl" THEN LineFeed(s) ELSE
    LET there == [s EXCEPT !.rows[s.y][s.x] = c]
    IN  IF s.x = NumCols - 1 THEN LineFeed(there) ELSE [there EXCEPT !.x = @ + 1]

\* One cell back, over the end of a row too; the cells from there on are blank.
Rub(s) ==
    LET back == IF s.x > 0 THEN [s EXCEPT !.x = @ - 1]
                ELSE IF s.y > 0 THEN [s EXCEPT !.x = NumCols - 1, !.y = @ - 1] ELSE s
    IN  [back EXCEPT !.rows[s.y][s.x] = "blank", !.rows[back.y][back.x] = "blank"]

Init ==
    /\ term = [t \in Terminals |-> Blank]
    /\ active = 0
    /\ fresh = [t \in Terminals |-> t # 0]
    /\ cursor = Position(Blank)
    /\ out = <<>>

\* The terminal in front becomes s, and the cursor follows.
Becomes(s) == term' = [term EXCEPT ![active] = s] /\ cursor' = Position(s)

Show ==
    /\ out # <<>>
    /\ IF Head(out) = "nul" THEN UNCHANGED <<term, cursor>>
                            ELSE Becomes(Put(term[active], Head(out)))
    /\ out' = Tail(out)
    /\ UNCHANGED <<active, fresh>>

Start == out = <<>> /\ out' \in Texts /\ UNCHANGED <<term, active, fresh, cursor>>

Stop == out' = <<>> /\ UNCHANGED <<term, active, fresh, cursor>>

Echo ==
    LET s == term[active] IN
    /\ \/ \E c \in {"key", "nl"} : Becomes(Put(s, c))
       \/ Becomes(Put(Put(s, "nl"), "nl"))
       \/ Becomes(Put(Put(Put(Put(s, "tab"), "tab"), "tab"), "tab"))
       \/ Becomes(Rub(s))
       \/ Becomes(Blank)
    /\ UNCHANGED <<active, fresh, out>>

\* A terminal comes to the front as it was left; on its first time it says so.
Switch(t) ==
    /\ active' = t
    /\ fresh' = [fresh EXCEPT ![t] = FALSE]
    /\ cursor' = Position(term[t])
    /\ fresh[t] => out' = Welcome
    /\ UNCHANGED term

Next == Show \/ Start \/ Stop \/ Echo \/ \E t \in Terminals : Switch(t)
=============================================================================
