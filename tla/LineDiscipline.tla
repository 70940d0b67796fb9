--------------------------- MODULE LineDiscipline ---------------------------
(***************************************************************************)
(* What a terminal promises to the programs that read it: keys edit one    *)
(* line, and a read takes the line, in one step, once Enter ended it.      *)
(* LineBuffer implements this as long as no key arrives between the moment *)
(* terminal_read sees the newline and the moment it has cleared the buffer.*)
(***************************************************************************)
EXTENDS Integers, Sequences, SequencesExt

CONSTANTS Limit, Terminals

VARIABLES
    line, active,
    reading, asked,  \* a program waits in a read, for how many bytes
    answer           \* what the last read gave

vars == <<line, active, reading, asked, answer>>

Edit(s) ==
    /\ line' = [line EXCEPT ![active] = s]
    /\ UNCHANGED <<active, reading, asked, answer>>

Init ==
    /\ line = [t \in Terminals |-> <<>>]
    /\ active = 0
    /\ reading = FALSE /\ asked = 0
    /\ answer = <<>>

\* One slot is kept for the newline that ends the line.
TypeKey(c) ==
    Len(line[active]) < Limit - 1 /\ Edit(Append(line[active], c))

TabKey ==
    \E n \in 1 .. 4 :
        /\ Len(line[active]) + n <= Limit - 1
        /\ n = 4 \/ Len(line[active]) + n = Limit - 1
        /\ Edit(line[active] \o [k \in 1 .. n |-> "ch"])

\* Enter always leaves the line ended, in one or two newlines.
EnterKey ==
    \E n \in 0 .. 2 :
        LET ended == line[active] \o [k \in 1 .. n |-> "nl"] IN
        /\ ended # <<>> /\ Last(ended) = "nl" /\ Len(ended) <= Limit
        /\ Edit(ended)

BackspaceKey == line[active] # <<>> /\ Edit(Front(line[active]))

\* A terminal entered for the first time; the read of the other stays behind.
SwitchTerminal ==
    /\ active' \in Terminals \ {active}
    /\ reading' = FALSE /\ asked' = 0
    /\ answer' = <<>>
    /\ UNCHANGED line

StartRead ==
    /\ ~reading
    /\ reading' = TRUE /\ asked' \in Int
    /\ UNCHANGED <<line, active, answer>>

EndRead == reading /\ reading' = FALSE /\ asked' = 0 /\ UNCHANGED active

AbandonRead == EndRead /\ UNCHANGED <<line, answer>>

\* The whole line or as many bytes as were asked for; the rest is dropped.
FinishRead ==
    /\ EndRead
    /\ line[active] # <<>> /\ Last(line[active]) = "nl"
    /\ \E n \in 0 .. Len(line[active]) :
         /\ n < Len(line[active]) => n >= asked
         /\ n > 0 => n <= asked
         /\ answer' = SubSeq(line[active], 1, n)
    /\ line' = [line EXCEPT ![active] = <<>>]

\* Before the line of any terminal but the first lies another line: what it
\* ends with can end an empty one.
ReadNothing ==
    /\ EndRead
    /\ active # 0 /\ line[active] = <<>>
    /\ answer' = <<>>
    /\ UNCHANGED line

Next ==
    \/ \E c \in {"ch", "nul"} : TypeKey(c)
    \/ TabKey \/ EnterKey \/ BackspaceKey \/ SwitchTerminal
    \/ StartRead \/ AbandonRead \/ FinishRead \/ ReadNothing

Spec == Init /\ [][Next]_vars
=============================================================================
