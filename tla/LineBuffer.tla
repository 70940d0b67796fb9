----------------------------- MODULE LineBuffer -----------------------------
(***************************************************************************)
(* The line buffers shared by keyboard_handler (keyboard.c) and            *)
(* terminal_read (terminal.c).  The handler runs behind an interrupt gate, *)
(* so each key is one step; terminal_read runs with interrupts enabled and *)
(* takes no lock, so a key may fall between any two of its memory          *)
(* accesses.                                                               *)
(*                                                                         *)
(* pit_count, which terminal_read indexes the buffers with, equals         *)
(* terminal_active_id whenever a read runs (ReadsActiveTerminal of         *)
(* ProcessControl), so one variable stands for both.  Terminals are only   *)
(* entered for the first time here, where a new shell and thus a new       *)
(* reader starts; going back to one is ProcessControl's subject.           *)
(***************************************************************************)
EXTENDS Integers, Sequences

CONSTANTS
    BufSize,       \* BUF_SIZE and LINE_BUFFER_LEN, 128
    NumTerminals,  \* 3 in the code
    ReadSizes,     \* the nbytes programs ask for
    MaxKeys,       \* bound: number of keys pressed
    MaxMidRead     \* bound: how many of them change a line that terminal_read
                   \* has begun to look at, from its last check to its clear

ASSUME LineBufferAssumption ==
    /\ BufSize \in Nat /\ BufSize > 1
    /\ NumTerminals \in Nat \ {0}
    /\ ReadSizes \subseteq Int
    /\ MaxKeys \in Nat /\ MaxMidRead \in Nat

Terminals == 0 .. NumTerminals - 1
Slots == 0 .. BufSize - 1

\* A printable character, the newline, and the 0 byte: what an empty slot
\* holds and what kbd[][] has for Caps Lock, F-keys and other unmapped codes.
Chars == {"ch", "nl", "nul"}

VARIABLES
    terminal_line_buffer,
    line_buffer_location,
    active,        \* terminal_active_id = pit_count
    started,       \* the terminals that have had their first shell
    pc, i, nbytes, \* terminal_read: where it is, its index, its argument
    passed_buffer, \* what it has copied out so far
    answer,        \* what the last finished read handed to its program
    entered,       \* history: terminal -> was Enter pressed since the last reset,
                   \* "no", "last" (no key of the line came after it), "before"
    keys, midRead  \* how many keys were pressed, and how many past the wait

buffers == <<terminal_line_buffer, line_buffer_location>>
screen == <<active, started>>
reader == <<pc, i, nbytes, passed_buffer, answer>>
vars == <<buffers, screen, reader, entered, keys, midRead>>

Waiting == pc \in {"index", "byte"}
PastWait == pc \in {"copy", "reset"}
Undisturbed == pc \in {"idle", "index"}

\* terminal_line_buffer[t][k] as the C array is laid out: [t][-1] is the last
\* byte of the terminal before t.  What lies before terminal 0 is up to the
\* linker: in the committed bootimg, padding that is 0 (line_buffer_location
\* ends at 0x40b58c, the lines start at 0x40b5a0).
Byte(t, k) == IF k >= 0 THEN terminal_line_buffer[t][k]
              ELSE IF t = 0 THEN "nul" ELSE terminal_line_buffer[t - 1][BufSize - 1]

Init ==
    /\ terminal_line_buffer = [t \in Terminals |-> [k \in Slots |-> "nul"]]
    /\ line_buffer_location = [t \in Terminals |-> 0]
    /\ active = 0 /\ started = {0}
    /\ pc = "idle" /\ i = 0 /\ nbytes = 0
    /\ passed_buffer = <<>> /\ answer = <<>>
    /\ entered = [t \in Terminals |-> "no"]
    /\ keys = 0 /\ midRead = 0

-----------------------------------------------------------------------------
(* keyboard_handler *)

Pressed ==
    /\ keys < MaxKeys
    /\ keys' = keys + 1
    /\ IF Undisturbed THEN UNCHANGED midRead
                      ELSE midRead < MaxMidRead /\ midRead' = midRead + 1
    /\ UNCHANGED <<screen, reader>>

\* A key that edits the line in front, full or not.
AnotherKey == entered' = [entered EXCEPT ![active] = IF @ = "last" THEN "before" ELSE @]

\* Store n times c from the write position on.
Store(c, n) ==
    LET at == line_buffer_location[active] IN
    /\ terminal_line_buffer' = [terminal_line_buffer EXCEPT ![active] =
         [k \in Slots |-> IF k \in at .. at + n - 1 THEN c ELSE @[k]]]
    /\ line_buffer_location' = [line_buffer_location EXCEPT ![active] = at + n]

Room == BufSize - 1 - line_buffer_location[active]

\* A key that is neither Enter nor special; past the limit it is dropped.
TypeKey(c) ==
    /\ c \in {"ch", "nul"}
    /\ Pressed
    /\ IF Room > 0 THEN Store(c, 1) ELSE UNCHANGED buffers
    /\ AnotherKey

\* Mutant: without the second if, Enter is lost on a full line.
EnterOnlyWithRoom == IF Room > 0 THEN 1 ELSE 0

\* The two ifs that store a character both look at Enter: the second has one
\* slot more, and finds the position the first has just advanced.
NewlinesStored == IF Room = 1 THEN 2 ELSE IF Room >= 0 THEN 1 ELSE 0

EnterKey ==
    /\ Pressed
    /\ Store("nl", NewlinesStored)
    /\ entered' = [entered EXCEPT ![active] = "last"]

\* Mutant: backspace_case without its test for an empty line.
BackspaceUnguarded ==
    /\ Pressed
    /\ LET at == line_buffer_location[active] IN
       /\ terminal_line_buffer' = [terminal_line_buffer EXCEPT ![active] =
            [k \in Slots |-> IF k = at - 1 THEN "nul" ELSE @[k]]]
       /\ line_buffer_location' = [line_buffer_location EXCEPT ![active] = at - 1]
    /\ AnotherKey

BackspaceKey ==
    /\ Pressed
    /\ LET at == line_buffer_location[active] IN
       IF at # 0
         THEN /\ terminal_line_buffer' = [terminal_line_buffer EXCEPT ![active][at - 1] = "nul"]
              /\ line_buffer_location' = [line_buffer_location EXCEPT ![active] = at - 1]
         ELSE UNCHANGED buffers
    /\ AnotherKey

\* Mutant: tab_case without the bounds check inside its loop.
TabUnbounded ==
    /\ Pressed
    /\ IF Room > 0 THEN Store("ch", 4) ELSE UNCHANGED buffers
    /\ AnotherKey

TabKey ==
    /\ Pressed
    /\ Store("ch", IF Room < 0 THEN 0 ELSE IF Room < 4 THEN Room ELSE 4)
    /\ AnotherKey

\* Alt+F to a terminal that had no shell yet: the reader stays behind on the
\* old kernel stack and the new shell starts to read.
SwitchTerminal ==
    /\ keys < MaxKeys /\ keys' = keys + 1
    /\ \E t \in Terminals \ started : active' = t /\ started' = started \cup {t}
    /\ pc' = "idle" /\ i' = 0 /\ nbytes' = 0 /\ passed_buffer' = <<>> /\ answer' = <<>>
    /\ UNCHANGED <<buffers, entered, midRead>>

\* Ctrl+C: halt abandons the read, its caller's next read starts over.
CtrlC ==
    /\ keys < MaxKeys /\ keys' = keys + 1
    /\ pc # "idle"
    /\ pc' = "idle" /\ i' = 0 /\ nbytes' = 0 /\ passed_buffer' = <<>>
    /\ UNCHANGED <<buffers, screen, answer, entered, midRead>>

-----------------------------------------------------------------------------
(* terminal_read *)

ReadCall ==
    /\ pc = "idle"
    /\ nbytes' \in ReadSizes
    /\ pc' = "index"
    /\ UNCHANGED <<buffers, screen, i, passed_buffer, answer, entered, keys, midRead>>

\* The loop that waits loads the location, then the byte before it.
WaitIndex ==
    /\ pc = "index"
    /\ i' = line_buffer_location[active] - 1
    /\ pc' = "byte"
    /\ UNCHANGED <<buffers, screen, nbytes, passed_buffer, answer, entered, keys, midRead>>

\* Mutant: the loop reads the same byte again instead of the location.
WaitByteNoReload ==
    /\ pc = "byte"
    /\ IF Byte(active, i) = "nl" THEN pc' = "copy" /\ i' = 0 ELSE UNCHANGED <<pc, i>>
    /\ UNCHANGED <<buffers, screen, nbytes, passed_buffer, answer, entered, keys, midRead>>

WaitByte ==
    /\ pc = "byte"
    /\ pc' = IF Byte(active, i) = "nl" THEN "copy" ELSE "index"
    /\ i' = 0
    /\ UNCHANGED <<buffers, screen, nbytes, passed_buffer, answer, entered, keys, midRead>>

\* Mutant: the loop copies one byte past the location.
CopyOneMore ==
    /\ pc = "copy"
    /\ IF i <= line_buffer_location[active] /\ i < nbytes /\ i \in Slots
         THEN /\ passed_buffer' = Append(passed_buffer, terminal_line_buffer[active][i])
              /\ i' = i + 1
              /\ UNCHANGED pc
         ELSE /\ pc' = "reset"
              /\ UNCHANGED <<i, passed_buffer>>
    /\ UNCHANGED <<buffers, screen, nbytes, answer, entered, keys, midRead>>

Copy ==
    /\ pc = "copy"
    /\ IF i < line_buffer_location[active] /\ i < nbytes
         THEN /\ passed_buffer' = Append(passed_buffer, terminal_line_buffer[active][i])
              /\ i' = i + 1
              /\ UNCHANGED pc
         ELSE /\ pc' = "reset"
              /\ UNCHANGED <<i, passed_buffer>>
    /\ UNCHANGED <<buffers, screen, nbytes, answer, entered, keys, midRead>>

\* Mutant: terminal_read clears the bytes but leaves the location.
ResetForgotten ==
    /\ pc = "reset"
    /\ entered' = [entered EXCEPT ![active] = "no"]
    /\ answer' = passed_buffer
    /\ passed_buffer' = <<>>
    /\ i' = 0
    /\ pc' = "clear"
    /\ UNCHANGED <<buffers, screen, nbytes, keys, midRead>>

ResetLocation ==
    /\ pc = "reset"
    /\ line_buffer_location' = [line_buffer_location EXCEPT ![active] = 0]
    /\ entered' = [entered EXCEPT ![active] = "no"]
    /\ answer' = passed_buffer
    /\ passed_buffer' = <<>>
    /\ i' = 0
    /\ pc' = "clear"
    /\ UNCHANGED <<terminal_line_buffer, screen, nbytes, keys, midRead>>

ClearSlot ==
    /\ pc = "clear"
    /\ IF i < BufSize
         THEN /\ terminal_line_buffer' = [terminal_line_buffer EXCEPT ![active][i] = "nul"]
              /\ i' = i + 1
              /\ UNCHANGED <<pc, nbytes>>
         ELSE /\ pc' = "idle"
              /\ i' = 0 /\ nbytes' = 0
              /\ UNCHANGED terminal_line_buffer
    /\ UNCHANGED <<line_buffer_location, screen, passed_buffer, answer, entered, keys, midRead>>

-----------------------------------------------------------------------------
KeyStep == \/ \E c \in Chars : TypeKey(c)
           \/ EnterKey \/ BackspaceKey \/ TabKey \/ SwitchTerminal \/ CtrlC

ReadStep == WaitIndex \/ WaitByte \/ Copy \/ ResetLocation \/ ClearSlot

Next == KeyStep \/ ReadCall \/ ReadStep

Spec == Init /\ [][Next]_vars

\* The CPU runs terminal_read whenever no interrupt does.
FairSpec == Spec /\ WF_vars(ReadStep)

-----------------------------------------------------------------------------
(* Properties *)

\* The variables of keyboard_handler and terminal_read keep their types; in
\* particular the unsigned location never passes below 0.
TypeOK ==
    /\ terminal_line_buffer \in [Terminals -> [Slots -> Chars]]
    /\ line_buffer_location \in [Terminals -> Nat]
    /\ active \in Terminals /\ started \subseteq Terminals
    /\ pc \in {"idle", "index", "byte", "copy", "reset", "clear"}
    /\ i \in -1 .. BufSize
    /\ nbytes \in Int
    /\ passed_buffer \in Seq(Chars) /\ answer \in Seq(Chars)
    /\ entered \in [Terminals -> {"no", "last", "before"}]
    /\ keys \in 0 .. MaxKeys /\ midRead \in 0 .. MaxMidRead

\* The location is also the index keyboard_handler writes at: no sequence of
\* keys and reads moves it past the end of the array, although Enter is
\* stored under a limit of its own.
LocationInBounds == \A t \in Terminals : line_buffer_location[t] <= BufSize

\* A read on terminal 0 is past its wait only if Enter was pressed there after
\* the reset of the read before it, whatever keys, deletions and abandoned
\* reads came in between: no newline is seen twice or left over.
ReadNeedsEnter == PastWait /\ active = 0 => entered[0] # "no"

\* "block until enter pressed by user" (terminal.c), for every terminal.
EveryReadNeedsEnter == PastWait => entered[active] # "no"

LastEntry == Byte(active, line_buffer_location[active] - 1)

\* Enter ends the line whatever its length, the last slots included, unless
\* terminal_read is clearing the buffer.
EnterEndsLine == [][EnterKey /\ midRead' = 0 => LastEntry' = "nl"]_vars

\* A line that is complete while a read waits for it is handed out, unless a
\* key is pressed first.
LineIsDelivered ==
    (Waiting /\ LastEntry = "nl") ~> (pc = "clear" \/ LastEntry # "nl" \/ pc = "idle")

\* "block until enter pressed by user" (terminal.c:104): when Enter is the last
\* key of a line, and no read has taken it, a waiting read ends, unless a
\* further key of the line is pressed first.
EnterUnblocks ==
    (Waiting /\ entered[active] = "last") ~> (~Waiting \/ entered[active] # "last")

\* The line the user sees is the part of the buffer before the location.
Line(t) == [k \in 1 .. line_buffer_location[t] |-> terminal_line_buffer[t][k - 1]]

Discipline == INSTANCE LineDiscipline WITH
    Limit <- BufSize,
    line <- [t \in Terminals |-> Line(t)],
    reading <- Waiting \/ PastWait,
    asked <- IF Waiting \/ PastWait THEN nbytes ELSE 0

\* As long as no key came between the moment a read saw its line ended and
\* the moment it has cleared the buffer, the keys and reads are those of the
\* line discipline: in particular a read is one atomic step.
ImplementsDiscipline ==
    Discipline!Init /\ [][midRead' = 0 => [Discipline!Next]_(Discipline!vars)]_vars
=============================================================================
