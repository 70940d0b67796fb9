-------------------------- MODULE LineBufferProofs --------------------------
(***************************************************************************)
(* Proofs about LineBuffer, for every buffer size, number of terminals and *)
(* number of keys, wherever those keys fall in terminal_read.              *)
(***************************************************************************)
EXTENDS LineBuffer, SequenceTheorems, TLAPS

(* A line's newlines were typed by the user since the last reset: those    *)
(* before the location, and the one a waiting read is about to look at     *)
(* (that one need not be before the location any more).                    *)
NewlinesEntered ==
    \A t \in Terminals : \A k \in Slots :
        k < line_buffer_location[t] /\ terminal_line_buffer[t][k] = "nl" => entered[t] # "no"

SeenEntered ==
    pc = "byte" => /\ i < BufSize
                   /\ i >= 0 /\ terminal_line_buffer[active][i] = "nl" => entered[active] # "no"

IndexCounts == pc \in {"copy", "clear"} => i >= 0

IInv ==
    /\ TypeOK
    /\ IndexCounts
    /\ LocationInBounds
    /\ NewlinesEntered
    /\ SeenEntered
    /\ ReadNeedsEnter

(* Store only ever puts a character of Chars into the line of the terminal *)
(* in front, within its bounds if the count leaves room.                   *)
LEMMA StoreProperties ==
    ASSUME TypeOK, LocationInBounds, NEW c \in Chars, NEW n \in Nat, Store(c, n),
           line_buffer_location[active] + n <= BufSize
    PROVE  /\ terminal_line_buffer' \in [Terminals -> [Slots -> Chars]]
           /\ line_buffer_location' \in [Terminals -> Nat]
           /\ LocationInBounds'
           /\ \A t \in Terminals \ {active} :
                /\ terminal_line_buffer'[t] = terminal_line_buffer[t]
                /\ line_buffer_location'[t] = line_buffer_location[t]
           /\ \A k \in Slots :
                /\ terminal_line_buffer'[active][k] \in {terminal_line_buffer[active][k], c}
                /\ k < line_buffer_location'[active]
                     => \/ k < line_buffer_location[active]
                           /\ terminal_line_buffer'[active][k] = terminal_line_buffer[active][k]
                        \/ terminal_line_buffer'[active][k] = c
  BY LineBufferAssumption DEF TypeOK, LocationInBounds, Store, Terminals, Slots, Chars

(* A key that is not Enter does not change where Enter was pressed.        *)
LEMMA AnotherKeyProperties ==
    ASSUME TypeOK, AnotherKey
    PROVE  /\ entered' \in [Terminals -> {"no", "last", "before"}]
           /\ \A t \in Terminals : entered'[t] # "no" <=> entered[t] # "no"
  BY DEF TypeOK, AnotherKey

(* The same for a key that stores no newline.                              *)
LEMMA StoreKeepsInv ==
    ASSUME IInv, NEW c \in Chars \ {"nl"}, NEW n \in Nat, Store(c, n), Pressed,
           AnotherKey, line_buffer_location[active] + n <= BufSize
    PROVE  IInv'
  <1>1. TypeOK'
    BY StoreProperties, AnotherKeyProperties, LineBufferAssumption DEF IInv, TypeOK, Pressed, screen, reader
  <1>2. LocationInBounds'
    BY StoreProperties DEF IInv
  <1>3. NewlinesEntered'
    <2>1. TypeOK /\ LocationInBounds
      BY DEF IInv
    <2>2. \A t \in Terminals : entered'[t] # "no" <=> entered[t] # "no"
      BY <2>1, AnotherKeyProperties
    <2> SUFFICES ASSUME NEW t \in Terminals, NEW k \in Slots,
                        k < line_buffer_location'[t], terminal_line_buffer'[t][k] = "nl"
                 PROVE  entered[t] # "no"
      BY <2>2 DEF NewlinesEntered
    <2>3. CASE t = active
      <3>1. k < line_buffer_location[active] /\ terminal_line_buffer[active][k] = "nl"
        BY <2>1, <2>3, StoreProperties
      <3> QED BY <2>3, <3>1 DEF IInv, NewlinesEntered
    <2>4. CASE t # active
      <3>1. /\ terminal_line_buffer'[t] = terminal_line_buffer[t]
            /\ line_buffer_location'[t] = line_buffer_location[t]
        BY <2>1, <2>4, StoreProperties
      <3> QED BY <3>1 DEF IInv, NewlinesEntered
    <2> QED BY <2>3, <2>4
  <1>4. SeenEntered'
    BY StoreProperties, AnotherKeyProperties, LineBufferAssumption
    DEF IInv, TypeOK, SeenEntered, Pressed, screen, reader, Slots
  <1>5. ReadNeedsEnter' /\ IndexCounts'
    BY AnotherKeyProperties DEF IInv, TypeOK, ReadNeedsEnter, IndexCounts, PastWait, Pressed, screen, reader
  <1> QED BY <1>1, <1>2, <1>3, <1>4, <1>5 DEF IInv

LEMMA InitInv == Init => IInv
  BY LineBufferAssumption
  DEF Init, IInv, TypeOK, LocationInBounds, NewlinesEntered, SeenEntered, ReadNeedsEnter,
      IndexCounts, PastWait, Terminals, Slots, Chars

LEMMA TypeKeyInv == ASSUME IInv, NEW c \in Chars, TypeKey(c) PROVE IInv'
  <1> USE LineBufferAssumption
  <1>1. CASE Room > 0
    <2>1. line_buffer_location[active] + 1 <= BufSize
      BY <1>1 DEF IInv, TypeOK, LocationInBounds, Room
    <2> QED BY <1>1, <2>1, StoreKeepsInv DEF TypeKey
  <1>2. CASE ~(Room > 0)
    BY <1>2, AnotherKeyProperties
    DEF TypeKey, Pressed, IInv, TypeOK, LocationInBounds, NewlinesEntered, SeenEntered,
        ReadNeedsEnter, IndexCounts, PastWait, Undisturbed, buffers, screen, reader
  <1> QED BY <1>1, <1>2

LEMMA TabKeyInv == ASSUME IInv, TabKey PROVE IInv'
  <1> DEFINE n == IF Room < 0 THEN 0 ELSE IF Room < 4 THEN Room ELSE 4
  <1>1. Room \in Int /\ n \in Nat /\ "ch" \in Chars \ {"nl"}
    BY LineBufferAssumption DEF IInv, TypeOK, Room, Chars
  <1>2. line_buffer_location[active] + n <= BufSize
    BY LineBufferAssumption DEF IInv, TypeOK, LocationInBounds, Room
  <1>3. Pressed /\ Store("ch", n) /\ AnotherKey
    BY DEF TabKey
  <1> HIDE DEF n
  <1> QED BY <1>1, <1>2, <1>3, StoreKeepsInv

LEMMA EnterKeyInv == ASSUME IInv, EnterKey PROVE IInv'
  <1> USE LineBufferAssumption
  <1>1. NewlinesStored \in Nat /\ "nl" \in Chars
    BY DEF NewlinesStored, Chars
  <1>2. line_buffer_location[active] + NewlinesStored <= BufSize
    BY DEF IInv, TypeOK, LocationInBounds, NewlinesStored, Room
  <1>3. Store("nl", NewlinesStored)
    BY DEF EnterKey
  <1>4. TypeOK'
    BY <1>1, <1>2, <1>3, StoreProperties
    DEF EnterKey, IInv, TypeOK, Pressed, screen, reader
  <1>5. LocationInBounds'
    BY <1>1, <1>2, <1>3, StoreProperties DEF IInv
  <1>6. NewlinesEntered'
    BY <1>1, <1>2, <1>3, StoreProperties
    DEF EnterKey, IInv, TypeOK, NewlinesEntered, Pressed, screen
  <1>7. SeenEntered' /\ ReadNeedsEnter' /\ IndexCounts'
    BY DEF EnterKey, IInv, TypeOK, SeenEntered, ReadNeedsEnter, IndexCounts,
           PastWait, Pressed, screen, reader
  <1> QED BY <1>4, <1>5, <1>6, <1>7 DEF IInv

LEMMA BackspaceKeyInv == ASSUME IInv, BackspaceKey PROVE IInv'
  <1> USE LineBufferAssumption DEF BackspaceKey, Pressed, screen, reader
  <1> DEFINE at == line_buffer_location[active]
  <1>1. /\ at \in 0 .. BufSize
        /\ terminal_line_buffer[active] \in [Slots -> Chars]
    BY DEF IInv, TypeOK, LocationInBounds
  <1>4. /\ entered' \in [Terminals -> {"no", "last", "before"}]
        /\ \A t \in Terminals : entered'[t] # "no" <=> entered[t] # "no"
    BY AnotherKeyProperties DEF IInv
  <1>2. CASE at # 0
    <2>1. at - 1 \in Slots /\ at - 1 \in Nat
      BY <1>1, <1>2 DEF Slots
    <2>2. \A k \in Slots : terminal_line_buffer'[active][k]
                             = IF k = at - 1 THEN "nul" ELSE terminal_line_buffer[active][k]
      BY <1>1, <1>2, <2>1 DEF IInv, TypeOK
    <2>3. \A t \in Terminals \ {active} :
             /\ terminal_line_buffer'[t] = terminal_line_buffer[t]
             /\ line_buffer_location'[t] = line_buffer_location[t]
      BY <1>2 DEF IInv, TypeOK
    <2>4. line_buffer_location'[active] = at - 1
      BY <1>2 DEF IInv, TypeOK
    <2>5. TypeOK'
      <3>1. terminal_line_buffer' \in [Terminals -> [Slots -> Chars]]
        <4>1. [terminal_line_buffer[active] EXCEPT ![at - 1] = "nul"] \in [Slots -> Chars]
          BY <1>1, <2>1 DEF Chars
        <4>2. terminal_line_buffer' = [terminal_line_buffer EXCEPT ![active] =
                                         [terminal_line_buffer[active] EXCEPT ![at - 1] = "nul"]]
          BY <1>2
        <4> QED BY <4>1, <4>2 DEF IInv, TypeOK
      <3>2. line_buffer_location' \in [Terminals -> Nat]
        BY <1>2, <2>1 DEF IInv, TypeOK
      <3> QED BY <1>4, <3>1, <3>2 DEF IInv, TypeOK
    <2>6. LocationInBounds'
      BY <2>3, <2>4, <1>1 DEF IInv, LocationInBounds
    <2>7. NewlinesEntered'
      <3> SUFFICES ASSUME NEW t \in Terminals, NEW k \in Slots,
                          k < line_buffer_location'[t], terminal_line_buffer'[t][k] = "nl"
                   PROVE  entered'[t] # "no"
        BY DEF NewlinesEntered
      <3>1. CASE t = active
        <4>1. k < at /\ k # at - 1
          BY <1>1, <2>4, <3>1 DEF Slots
        <4> QED BY <1>4, <2>2, <3>1, <4>1 DEF IInv, NewlinesEntered
      <3>2. CASE t # active
        BY <1>4, <2>3, <3>2 DEF IInv, NewlinesEntered
      <3> QED BY <3>1, <3>2
    <2>8. SeenEntered' /\ ReadNeedsEnter' /\ IndexCounts'
      <3>1. SeenEntered'
        <4>1. pc' = pc /\ i' = i /\ active' = active /\ active \in Terminals
          BY DEF IInv, TypeOK
        <4>2. ASSUME pc = "byte", i >= 0, terminal_line_buffer'[active][i] = "nl"
              PROVE  entered'[active] # "no"
          <5>1. i \in Slots
            BY <4>2 DEF IInv, TypeOK, SeenEntered, Slots
          <5>2. terminal_line_buffer[active][i] = "nl"
            BY <2>2, <4>2, <5>1
          <5>3. entered[active] # "no"
            BY <4>2, <5>2 DEF IInv, SeenEntered
          <5> QED BY <1>4, <4>1, <5>3
        <4> HIDE DEF BackspaceKey, Pressed
        <4> QED BY <4>1, <4>2 DEF IInv, SeenEntered
      <3>2. ReadNeedsEnter' /\ IndexCounts'
        BY <1>4 DEF IInv, TypeOK, ReadNeedsEnter, IndexCounts, PastWait
      <3> QED BY <3>1, <3>2
    <2> QED BY <2>5, <2>6, <2>7, <2>8 DEF IInv
  <1>3. CASE at = 0
    BY <1>3, <1>4
    DEF IInv, TypeOK, LocationInBounds, NewlinesEntered, SeenEntered, ReadNeedsEnter,
        IndexCounts, PastWait, buffers
  <1> QED BY <1>2, <1>3

(* The keys that abandon a read, and the steps of terminal_read.           *)
LEMMA AbandonInv == ASSUME IInv, SwitchTerminal \/ CtrlC PROVE IInv'
  <1> USE LineBufferAssumption DEF IInv, TypeOK, buffers, screen
  <1>1. CASE SwitchTerminal
    <2>1. TypeOK'
      BY <1>1 DEF SwitchTerminal
    <2> QED BY <1>1, <2>1
        DEF SwitchTerminal, LocationInBounds, NewlinesEntered, SeenEntered,
            ReadNeedsEnter, IndexCounts, PastWait
  <1>2. CASE CtrlC
    <2>1. TypeOK'
      BY <1>2 DEF CtrlC
    <2> QED BY <1>2, <2>1
        DEF CtrlC, LocationInBounds, NewlinesEntered, SeenEntered, ReadNeedsEnter,
            IndexCounts, PastWait
  <1> QED BY <1>1, <1>2

LEMMA WaitInv == ASSUME IInv, ReadCall \/ WaitIndex \/ WaitByte PROVE IInv'
  <1> USE LineBufferAssumption DEF IInv, TypeOK, buffers, screen
  <1>1. CASE ReadCall
    BY <1>1
    DEF ReadCall, LocationInBounds, NewlinesEntered, SeenEntered, ReadNeedsEnter,
        IndexCounts, PastWait
  <1>2. CASE WaitIndex
    <2>1. line_buffer_location[active] - 1 \in -1 .. BufSize - 1
      BY DEF LocationInBounds
    <2>2. TypeOK' /\ LocationInBounds' /\ NewlinesEntered' /\ ReadNeedsEnter' /\ IndexCounts'
      BY <1>2, <2>1
      DEF WaitIndex, LocationInBounds, NewlinesEntered, ReadNeedsEnter, IndexCounts,
          PastWait
    <2>3. SeenEntered'
      BY <1>2, <2>1 DEF WaitIndex, NewlinesEntered, SeenEntered, Slots
    <2> QED BY <2>2, <2>3
  <1>3. CASE WaitByte
    <2>1. TypeOK' /\ LocationInBounds' /\ NewlinesEntered' /\ SeenEntered'
      BY <1>3 DEF WaitByte, LocationInBounds, NewlinesEntered, SeenEntered
    <2>2. ReadNeedsEnter' /\ IndexCounts'
      BY <1>3 DEF WaitByte, Byte, SeenEntered, ReadNeedsEnter, IndexCounts, PastWait
    <2> QED BY <2>1, <2>2
  <1> QED BY <1>1, <1>2, <1>3

LEMMA CopyInv == ASSUME IInv, Copy PROVE IInv'
  <1> USE LineBufferAssumption DEF Copy, IInv, TypeOK, buffers, screen
  <1>1. passed_buffer' \in Seq(Chars) /\ i' \in 0 .. BufSize
    <2>1. CASE i < line_buffer_location[active] /\ i < nbytes
      <3>1. i \in Slots /\ i + 1 \in 0 .. BufSize
        BY <2>1 DEF LocationInBounds, IndexCounts, Slots
      <3>2. terminal_line_buffer[active][i] \in Chars
        BY <3>1
      <3>3. Append(passed_buffer, terminal_line_buffer[active][i]) \in Seq(Chars)
        BY <3>2, AppendProperties
      <3> QED BY <2>1, <3>1, <3>3
    <2>2. CASE ~(i < line_buffer_location[active] /\ i < nbytes)
      BY <2>2 DEF IndexCounts
    <2> QED BY <2>1, <2>2
  <1>2. TypeOK' /\ IndexCounts'
    BY <1>1 DEF IndexCounts
  <1>3. LocationInBounds' /\ NewlinesEntered' /\ SeenEntered' /\ ReadNeedsEnter'
    BY DEF LocationInBounds, NewlinesEntered, SeenEntered, ReadNeedsEnter, PastWait
  <1> QED BY <1>2, <1>3

LEMMA ResetInv == ASSUME IInv, ResetLocation PROVE IInv'
  <1> USE LineBufferAssumption DEF ResetLocation, IInv, TypeOK, screen
  <1>1. TypeOK' /\ LocationInBounds' /\ IndexCounts'
    <2>1. <<>> \in Seq(Chars)
      OBVIOUS
    <2> QED BY <2>1 DEF LocationInBounds, IndexCounts
  <1>2. NewlinesEntered'
    BY DEF NewlinesEntered, Slots
  <1>3. SeenEntered' /\ ReadNeedsEnter'
    BY DEF SeenEntered, ReadNeedsEnter, PastWait
  <1> QED BY <1>1, <1>2, <1>3

LEMMA ClearInv == ASSUME IInv, ClearSlot PROVE IInv'
  <1> USE LineBufferAssumption DEF ClearSlot, IInv, TypeOK, screen
  <1>1. LocationInBounds' /\ IndexCounts' /\ SeenEntered' /\ ReadNeedsEnter'
    BY DEF LocationInBounds, IndexCounts, SeenEntered, ReadNeedsEnter, PastWait
  <1>2. CASE i < BufSize
    <2>1. i \in Slots
      BY <1>2 DEF IndexCounts, Slots
    <2>2. [terminal_line_buffer[active] EXCEPT ![i] = "nul"] \in [Slots -> Chars]
      BY <2>1 DEF Chars
    <2>3. terminal_line_buffer' = [terminal_line_buffer EXCEPT ![active] =
                                     [terminal_line_buffer[active] EXCEPT ![i] = "nul"]]
      BY <1>2
    <2>4. TypeOK'
      BY <1>2, <2>1, <2>2, <2>3 DEF Slots
    <2>5. NewlinesEntered'
      BY <1>2, <2>1, <2>2, <2>3 DEF NewlinesEntered
    <2> QED BY <1>1, <2>4, <2>5
  <1>3. CASE ~(i < BufSize)
    BY <1>1, <1>3 DEF NewlinesEntered
  <1> QED BY <1>2, <1>3

LEMMA NextInv == IInv /\ [Next]_vars => IInv'
  <1> SUFFICES ASSUME IInv, [Next]_vars PROVE IInv'
    OBVIOUS
  <1>1. CASE KeyStep
    BY <1>1, TypeKeyInv, EnterKeyInv, BackspaceKeyInv, TabKeyInv, AbandonInv DEF KeyStep
  <1>2. CASE ReadCall \/ ReadStep
    BY <1>2, WaitInv, CopyInv, ResetInv, ClearInv DEF ReadStep
  <1>3. CASE UNCHANGED vars
    BY <1>3
    DEF vars, buffers, screen, reader, IInv, TypeOK, LocationInBounds, NewlinesEntered,
        SeenEntered, ReadNeedsEnter, IndexCounts, PastWait
  <1> QED BY <1>1, <1>2, <1>3 DEF Next

THEOREM InvHolds == Spec => []IInv
  BY InitInv, NextInv, PTL DEF Spec

(* Type correctness of the line buffers and of terminal_read.              *)
THEOREM TypeCorrect == Spec => []TypeOK
  <1>1. IInv => TypeOK
    BY DEF IInv
  <1> QED BY <1>1, InvHolds, PTL

(* keyboard_handler and terminal_read together never move the location     *)
(* past the end of the array, however they interleave.                     *)
THEOREM LocationStaysInBounds == Spec => []LocationInBounds
  <1>1. IInv => LocationInBounds
    BY DEF IInv
  <1> QED BY <1>1, InvHolds, PTL

(* On terminal 0 a read only goes on after Enter was pressed for it, even  *)
(* though terminal_read tests a byte that keys may change as it looks.     *)
THEOREM EnterIsNeeded == Spec => []ReadNeedsEnter
  <1>1. IInv => ReadNeedsEnter
    BY DEF IInv
  <1> QED BY <1>1, InvHolds, PTL

-----------------------------------------------------------------------------
(* A read that no key disturbs.  Up to its last check it has looked at the *)
(* byte before the location; from there to its reset it holds a beginning  *)
(* of a line that is ended; and it clears a line that is already empty.    *)

Copied ==
    /\ i = Len(passed_buffer) /\ i <= line_buffer_location[active]
    /\ \A k \in 1 .. i : passed_buffer[k] = terminal_line_buffer[active][k - 1]
    /\ i > 0 => i <= nbytes
    /\ pc = "reset" => i = line_buffer_location[active] \/ i >= nbytes

\* The last slot is kept for Enter.
FullEnded ==
    \A t \in Terminals :
        line_buffer_location[t] = BufSize => terminal_line_buffer[t][BufSize - 1] = "nl"

Quiet ==
    /\ pc = "byte" => i = line_buffer_location[active] - 1
    /\ PastWait => LastEntry = "nl" /\ Copied
    /\ pc = "clear" => line_buffer_location[active] = 0
    /\ FullEnded

QuietInv ==
    /\ IInv
    /\ active \in started
    /\ ~PastWait => passed_buffer = <<>>
    /\ midRead = 0 => Quiet

\* What Store does to the line in front.
LEMMA StoreEffect ==
    ASSUME TypeOK, NEW c \in Chars, NEW n \in Nat, Store(c, n),
           line_buffer_location[active] + n <= BufSize
    PROVE  /\ line_buffer_location'[active] = line_buffer_location[active] + n
           /\ \A k \in Slots : terminal_line_buffer'[active][k] =
                IF /\ line_buffer_location[active] <= k
                   /\ k < line_buffer_location[active] + n
                THEN c ELSE terminal_line_buffer[active][k]
           /\ \A t \in Terminals \ {active} :
                /\ line_buffer_location'[t] = line_buffer_location[t]
                /\ terminal_line_buffer'[t] = terminal_line_buffer[t]
  BY LineBufferAssumption DEF TypeOK, Store, Terminals, Slots

\* Keys count as disturbances but where a read has seen nothing yet.
LEMMA KeyUndisturbed ==
    ASSUME IInv, Pressed, midRead' = 0
    PROVE  midRead = 0 /\ Undisturbed /\ ~PastWait /\ UNCHANGED <<screen, reader>>
  BY DEF IInv, TypeOK, Pressed, Undisturbed, PastWait

\* Such a key only has to keep the last slot for Enter.
LEMMA KeyQuiet ==
    ASSUME QuietInv, Pressed, IInv', midRead = 0 => FullEnded'
    PROVE  QuietInv'
  <1>1. (active \in started)' /\ (~PastWait => passed_buffer = <<>>)'
    BY DEF QuietInv, Pressed, screen, reader, PastWait
  <1>2. (midRead = 0 => Quiet)'
    <2> SUFFICES ASSUME midRead' = 0 PROVE Quiet'
      BY DEF QuietInv
    <2>1. midRead = 0 /\ Undisturbed /\ UNCHANGED pc
      BY KeyUndisturbed DEF QuietInv, reader
    <2> QED BY <2>1 DEF Quiet, Undisturbed, PastWait
  <1> QED BY <1>1, <1>2 DEF QuietInv

LEMMA EnterKeyQuiet ==
    ASSUME QuietInv, EnterKey
    PROVE  QuietInv' /\ (midRead' = 0 => LastEntry' = "nl")
  <1> USE LineBufferAssumption DEF IInv, TypeOK, LocationInBounds
  <1> DEFINE at == line_buffer_location[active]
  <1>1. /\ IInv /\ IInv' /\ Pressed /\ Store("nl", NewlinesStored) /\ "nl" \in Chars
        /\ at \in Nat /\ at <= BufSize /\ active' = active
    BY EnterKeyInv DEF QuietInv, EnterKey, Chars, Pressed, screen
  <1>2. NewlinesStored \in Nat /\ at + NewlinesStored <= BufSize
    BY <1>1 DEF NewlinesStored, Room
  <1>3. NewlinesStored = 0 => at = BufSize
    BY <1>1 DEF NewlinesStored, Room
  <1>4. ASSUME midRead = 0
        PROVE  /\ line_buffer_location'[active] > 0
               /\ terminal_line_buffer'[active][line_buffer_location'[active] - 1] = "nl"
    <2>1. line_buffer_location'[active] = at + NewlinesStored
      BY <1>1, <1>2, StoreEffect
    <2>2. at + NewlinesStored - 1 \in Slots
      BY <1>1, <1>2, <1>3, SMTT(30) DEF Slots
    <2>3. CASE NewlinesStored > 0
      <3>1. PICK n \in Nat : n = NewlinesStored /\ n > 0
        BY <1>2, <2>3
      <3>2. \A k \in Slots : at <= k /\ k < at + n => terminal_line_buffer'[active][k] = "nl"
        BY <1>1, <1>2, <3>1, StoreEffect
      <3>3. PICK k \in Slots : k = at + n - 1
        BY <2>2, <3>1
      <3>4. at <= k /\ k < at + n
        BY <1>1, <3>1, <3>3
      <3> QED BY <1>1, <2>1, <3>1, <3>2, <3>3, <3>4, SMTT(30)
    <2>4. CASE NewlinesStored = 0
      <3>1. terminal_line_buffer[active][BufSize - 1] = "nl" /\ BufSize - 1 \in Slots
        BY <1>1, <1>3, <1>4, <2>4 DEF QuietInv, Quiet, FullEnded, Slots
      <3>2. terminal_line_buffer'[active][BufSize - 1] = "nl"
        BY <1>1, <1>2, <1>3, <2>4, <3>1, StoreEffect
      <3> QED BY <1>3, <2>1, <2>4, <3>2
    <2> QED BY <1>2, <2>3, <2>4
  <1>5. midRead = 0 => FullEnded'
    BY <1>1, <1>2, <1>4, StoreEffect DEF QuietInv, Quiet, FullEnded
  <1>6. midRead' = 0 => LastEntry' = "nl"
    <2> SUFFICES ASSUME midRead' = 0 PROVE LastEntry' = "nl"
      OBVIOUS
    <2>1. midRead = 0
      BY <1>1, KeyUndisturbed
    <2> QED BY <1>1, <1>4, <2>1 DEF LastEntry, Byte
  <1> QED BY <1>1, <1>5, <1>6, KeyQuiet

\* The other keys that store leave the last slot free.
LEMMA StoreQuiet ==
    ASSUME QuietInv, Pressed, IInv', NEW c \in Chars, NEW n \in Nat, Store(c, n),
           n > 0 => line_buffer_location[active] + n < BufSize
    PROVE  QuietInv'
  <1>1. line_buffer_location[active] + n <= BufSize /\ TypeOK
    BY LineBufferAssumption DEF QuietInv, IInv, TypeOK, LocationInBounds
  <1>2. midRead = 0 => FullEnded'
    <2> SUFFICES ASSUME midRead = 0, NEW t \in Terminals, line_buffer_location'[t] = BufSize
                 PROVE  terminal_line_buffer'[t][BufSize - 1] = "nl"
      BY DEF FullEnded
    <2>1. line_buffer_location[t] = BufSize => terminal_line_buffer[t][BufSize - 1] = "nl"
      BY DEF QuietInv, Quiet, FullEnded
    <2>2. CASE t # active
      BY <1>1, <2>1, <2>2, StoreEffect
    <2>3. CASE t = active
      <3>1. /\ line_buffer_location[active] \in Nat
            /\ line_buffer_location'[active] = line_buffer_location[active] + n
        BY <1>1, StoreEffect DEF TypeOK
      <3>2. n = 0 /\ BufSize - 1 \in Slots
        BY <2>3, <3>1, LineBufferAssumption DEF Slots
      <3>3. terminal_line_buffer'[active][BufSize - 1] = terminal_line_buffer[active][BufSize - 1]
        BY <1>1, <3>1, <3>2, StoreEffect DEF Slots
      <3> QED BY <2>1, <2>3, <3>1, <3>2, <3>3
    <2> QED BY <2>2, <2>3
  <1> QED BY <1>2, KeyQuiet

LEMMA OtherKeysQuiet ==
    ASSUME QuietInv, BackspaceKey \/ TabKey \/ \E c \in Chars : TypeKey(c)
    PROVE  QuietInv'
  <1> USE LineBufferAssumption
  <1>1. IInv' /\ Pressed
    BY BackspaceKeyInv, TabKeyInv, TypeKeyInv DEF QuietInv, BackspaceKey, TabKey, TypeKey
  <1>2. ASSUME UNCHANGED buffers PROVE QuietInv'
    BY <1>1, <1>2, KeyQuiet DEF buffers, QuietInv, Quiet, FullEnded
  <1>3. CASE TabKey
    <2> DEFINE n == IF Room < 0 THEN 0 ELSE IF Room < 4 THEN Room ELSE 4
    <2>1. /\ "ch" \in Chars /\ n \in Nat /\ Store("ch", n)
          /\ n > 0 => line_buffer_location[active] + n < BufSize
      BY <1>3 DEF TabKey, Chars, Room, QuietInv, IInv, TypeOK, LocationInBounds
    <2> HIDE DEF n
    <2> QED BY <1>1, <2>1, StoreQuiet
  <1>4. CASE \E c \in Chars : TypeKey(c)
    <2>1. PICK c \in Chars : TypeKey(c)
      BY <1>4
    <2>2. CASE Room > 0
      <3>1. Store(c, 1) /\ line_buffer_location[active] + 1 < BufSize /\ 1 \in Nat
        BY <2>1, <2>2 DEF TypeKey, Room, QuietInv, IInv, TypeOK
      <3> QED BY <1>1, <3>1, StoreQuiet
    <2> QED BY <1>2, <2>1, <2>2 DEF TypeKey
  <1>5. CASE BackspaceKey
    <2>1. CASE line_buffer_location[active] = 0
      BY <1>2, <1>5, <2>1 DEF BackspaceKey
    <2>2. CASE line_buffer_location[active] # 0
      <3>1. line_buffer_location[active] \in Nat /\ line_buffer_location[active] <= BufSize
        BY DEF QuietInv, IInv, TypeOK, LocationInBounds
      <3>2. /\ line_buffer_location'[active] # BufSize
            /\ \A t \in Terminals \ {active} :
                 /\ line_buffer_location'[t] = line_buffer_location[t]
                 /\ terminal_line_buffer'[t] = terminal_line_buffer[t]
        BY <1>5, <2>2, <3>1 DEF BackspaceKey, QuietInv, IInv, TypeOK
      <3>3. midRead = 0 => FullEnded'
        BY <3>2 DEF QuietInv, Quiet, FullEnded
      <3> QED BY <1>1, <3>3, KeyQuiet
    <2> QED BY <2>1, <2>2
  <1> QED BY <1>3, <1>4, <1>5

LEMMA AbandonQuiet == ASSUME QuietInv, SwitchTerminal \/ CtrlC PROVE QuietInv'
  <1>1. IInv'
    BY AbandonInv DEF QuietInv
  <1>2. CASE SwitchTerminal
    BY <1>1, <1>2 DEF SwitchTerminal, QuietInv, Quiet, FullEnded, PastWait, buffers
  <1>3. CASE CtrlC
    BY <1>1, <1>3 DEF CtrlC, QuietInv, Quiet, FullEnded, PastWait, buffers, screen
  <1> QED BY <1>2, <1>3

LEMMA WaitQuiet == ASSUME QuietInv, ReadCall \/ WaitIndex \/ WaitByte PROVE QuietInv'
  <1>1. IInv'
    BY WaitInv DEF QuietInv
  <1>2. CASE ReadCall
    BY <1>1, <1>2 DEF ReadCall, QuietInv, Quiet, FullEnded, PastWait, buffers, screen
  <1>3. CASE WaitIndex
    BY <1>1, <1>3 DEF WaitIndex, QuietInv, Quiet, FullEnded, PastWait, buffers, screen
  <1>4. CASE WaitByte
    <2>1. passed_buffer = <<>> /\ Len(passed_buffer) = 0 /\ i' = 0
      BY <1>4 DEF WaitByte, QuietInv, PastWait
    <2>2. (active \in started)' /\ (~PastWait => passed_buffer = <<>>)'
      BY <1>4, <2>1 DEF WaitByte, QuietInv, screen
    <2>3. midRead = 0 /\ Byte(active, i) = "nl" => LastEntry' = "nl" /\ Copied'
      <3>1. line_buffer_location[active] \in Nat
        BY DEF QuietInv, IInv, TypeOK
      <3>2. UNCHANGED <<buffers, active, passed_buffer>> /\ pc = "byte"
        BY <1>4 DEF WaitByte, screen
      <3>3. midRead = 0 => i = line_buffer_location[active] - 1
        BY <3>2 DEF QuietInv, Quiet
      <3>4. midRead = 0 /\ Byte(active, i) = "nl" => LastEntry' = "nl"
        BY <3>2, <3>3 DEF LastEntry, Byte, buffers
      <3>5. Byte(active, i) = "nl" => pc' = "copy"
        BY <1>4 DEF WaitByte
      <3>6. Byte(active, i) = "nl" => Copied'
        BY <2>1, <3>1, <3>2, <3>5 DEF Copied, buffers
      <3> QED BY <3>4, <3>6
    <2>4. (midRead = 0 => Quiet)'
      BY <1>4, <2>3 DEF WaitByte, QuietInv, Quiet, FullEnded, PastWait, buffers
    <2> QED BY <1>1, <2>2, <2>4 DEF QuietInv
  <1> QED BY <1>2, <1>3, <1>4

LEMMA CopyQuiet == ASSUME QuietInv, Copy PROVE QuietInv'
  <1>1. IInv'
    BY CopyInv DEF QuietInv
  <1>2. (active \in started)' /\ (~PastWait => passed_buffer = <<>>)'
    BY DEF Copy, QuietInv, PastWait, screen
  <1>3. ASSUME midRead = 0 PROVE LastEntry' = "nl" /\ Copied'
    <2>1. /\ LastEntry = "nl" /\ Copied
          /\ passed_buffer \in Seq(Chars) /\ i \in Int /\ nbytes \in Int
          /\ line_buffer_location[active] \in Nat /\ line_buffer_location[active] <= BufSize
          /\ terminal_line_buffer[active] \in [Slots -> Chars]
      BY <1>3 DEF Copy, QuietInv, Quiet, PastWait, IInv, TypeOK, LocationInBounds
    <2>2. UNCHANGED <<buffers, active, nbytes>> /\ pc = "copy"
      BY DEF Copy, screen
    <2>3. LastEntry' = "nl"
      BY <2>1, <2>2 DEF LastEntry, Byte, buffers
    <2>4. CASE i < line_buffer_location[active] /\ i < nbytes
      <3>1. i \in Nat /\ i \in Slots /\ i = Len(passed_buffer)
        BY <2>1, <2>4, LenProperties, LineBufferAssumption DEF Copied, Slots
      <3>2. terminal_line_buffer[active][i] \in Chars
        BY <2>1, <3>1
      <3>3. /\ i' = i + 1 /\ pc' = "copy"
            /\ passed_buffer' = Append(passed_buffer, terminal_line_buffer[active][i])
        BY <2>2, <2>4 DEF Copy
      <3>4. /\ Len(passed_buffer') = i + 1
            /\ \A k \in 1 .. i : passed_buffer'[k] = passed_buffer[k]
            /\ passed_buffer'[i + 1] = terminal_line_buffer[active][i]
        BY <2>1, <3>1, <3>2, <3>3, AppendProperties
      <3>5. \A k \in 1 .. i + 1 : passed_buffer'[k] = terminal_line_buffer[active][k - 1]
        BY <2>1, <3>1, <3>4 DEF Copied
      <3> QED BY <2>1, <2>2, <2>3, <2>4, <3>1, <3>3, <3>4, <3>5 DEF Copied, buffers
    <2>5. CASE ~(i < line_buffer_location[active] /\ i < nbytes)
      <3>1. pc' = "reset" /\ UNCHANGED <<i, passed_buffer>>
        BY <2>5 DEF Copy
      <3> QED BY <2>1, <2>2, <2>3, <2>5, <3>1 DEF Copied, buffers
    <2> QED BY <2>4, <2>5
  <1>4. (midRead = 0 => Quiet)'
    BY <1>3 DEF Copy, QuietInv, Quiet, FullEnded, PastWait, buffers
  <1> QED BY <1>1, <1>2, <1>4 DEF QuietInv

LEMMA ResetQuiet == ASSUME QuietInv, ResetLocation PROVE QuietInv'
  <1>1. IInv'
    BY ResetInv DEF QuietInv
  <1>2. (active \in started)' /\ (~PastWait => passed_buffer = <<>>)'
    BY DEF ResetLocation, QuietInv, screen
  <1>3. line_buffer_location'[active] = 0 /\ 0 # BufSize
    BY LineBufferAssumption DEF ResetLocation, QuietInv, IInv, TypeOK
  <1>4. (midRead = 0 => Quiet)'
    BY <1>3 DEF ResetLocation, QuietInv, Quiet, FullEnded, PastWait, IInv, TypeOK, screen
  <1> QED BY <1>1, <1>2, <1>4 DEF QuietInv

LEMMA ClearQuiet == ASSUME QuietInv, ClearSlot PROVE QuietInv'
  <1>1. IInv'
    BY ClearInv DEF QuietInv
  <1>2. (active \in started)' /\ (~PastWait => passed_buffer = <<>>)'
    BY DEF ClearSlot, QuietInv, PastWait, screen
  <1>3. \A t \in Terminals \ {active} : terminal_line_buffer'[t] = terminal_line_buffer[t]
    BY DEF ClearSlot, QuietInv, IInv, TypeOK
  <1>4. (midRead = 0 => Quiet)'
    <2> SUFFICES ASSUME midRead = 0 PROVE Quiet'
      BY DEF ClearSlot
    <2>1. line_buffer_location[active] = 0 /\ 0 # BufSize /\ FullEnded
      BY LineBufferAssumption DEF ClearSlot, QuietInv, Quiet
    <2>2. FullEnded'
      BY <1>3, <2>1 DEF ClearSlot, FullEnded, screen
    <2> QED BY <2>1, <2>2 DEF ClearSlot, Quiet, PastWait, screen
  <1> QED BY <1>1, <1>2, <1>4 DEF QuietInv

LEMMA InitQuiet == Init => QuietInv
  BY InitInv, LineBufferAssumption DEF Init, QuietInv, Quiet, FullEnded, PastWait

LEMMA NextQuiet == QuietInv /\ [Next]_vars => QuietInv'
  <1> SUFFICES ASSUME QuietInv, [Next]_vars PROVE QuietInv'
    OBVIOUS
  <1>1. CASE KeyStep
    BY <1>1, EnterKeyQuiet, OtherKeysQuiet, AbandonQuiet DEF KeyStep
  <1>2. CASE ReadCall \/ ReadStep
    BY <1>2, WaitQuiet, CopyQuiet, ResetQuiet, ClearQuiet DEF ReadStep
  <1>3. CASE UNCHANGED vars
    <2>1. IInv'
      BY <1>3, NextInv DEF QuietInv
    <2> QED BY <1>3, <2>1
        DEF vars, buffers, screen, reader, QuietInv, Quiet, FullEnded, PastWait, LastEntry,
            Byte, Copied
  <1> QED BY <1>1, <1>2, <1>3 DEF Next

LEMMA QuietHolds == Spec => []QuietInv
  BY InitQuiet, NextQuiet, PTL DEF Spec

(* Enter ends the line in front, whatever its length, as long as no key    *)
(* has come between the last check of a read and the end of its clearing.  *)
THEOREM EnterAlwaysEnds == Spec => EnterEndsLine
  <1>1. QuietInv /\ [Next]_vars => [EnterKey /\ midRead' = 0 => LastEntry' = "nl"]_vars
    BY EnterKeyQuiet
  <1> QED BY <1>1, QuietHolds, PTL DEF Spec, EnterEndsLine

-----------------------------------------------------------------------------
(* Refinement: the steps of keys and undisturbed reads are steps of        *)
(* LineDiscipline.                                                         *)

Lines == [t \in Terminals |-> Line(t)]
Reading == Waiting \/ PastWait
Asked == IF Waiting \/ PastWait THEN nbytes ELSE 0
LineVars == <<Lines, active, Reading, Asked, answer>>

\* The line of a terminal as a sequence.
LEMMA LineProperties ==
    ASSUME NEW t \in Terminals
    PROVE  /\ TypeOK /\ LocationInBounds =>
                /\ Line(t) \in Seq(Chars) /\ Len(Line(t)) = line_buffer_location[t]
                /\ \A k \in 1 .. line_buffer_location[t] :
                     Line(t)[k] = terminal_line_buffer[t][k - 1]
           /\ (TypeOK /\ LocationInBounds =>
                /\ Line(t) \in Seq(Chars) /\ Len(Line(t)) = line_buffer_location[t]
                /\ \A k \in 1 .. line_buffer_location[t] :
                     Line(t)[k] = terminal_line_buffer[t][k - 1])'
  <1>1. ASSUME NEW n \in Nat, NEW f \in [1 .. n -> Chars]
        PROVE  f \in Seq(Chars) /\ Len(f) = n
    <2>1. f \in Seq(Chars)
      BY SeqDef
    <2>2. DOMAIN f = 1 .. n /\ DOMAIN f = 1 .. Len(f) /\ Len(f) \in Nat
      BY <2>1, LenProperties
    <2> QED BY <2>1, <2>2
  <1>2. TypeOK /\ LocationInBounds =>
          /\ line_buffer_location[t] \in Nat
          /\ Line(t) \in [1 .. line_buffer_location[t] -> Chars]
    <2> SUFFICES ASSUME TypeOK, LocationInBounds
                 PROVE  /\ line_buffer_location[t] \in Nat
                        /\ Line(t) \in [1 .. line_buffer_location[t] -> Chars]
      OBVIOUS
    <2>1. /\ line_buffer_location[t] \in Nat /\ line_buffer_location[t] <= BufSize
          /\ terminal_line_buffer[t] \in [Slots -> Chars]
      BY DEF TypeOK, LocationInBounds
    <2>2. \A k \in 1 .. line_buffer_location[t] : k - 1 \in Slots
      BY <2>1, LineBufferAssumption DEF Slots
    <2>3. \A k \in 1 .. line_buffer_location[t] : terminal_line_buffer[t][k - 1] \in Chars
      BY <2>1, <2>2
    <2> QED BY <2>1, <2>3 DEF Line
  <1>3. (TypeOK /\ LocationInBounds)' =>
          /\ line_buffer_location'[t] \in Nat
          /\ Line(t)' \in [1 .. line_buffer_location'[t] -> Chars]
    <2> SUFFICES ASSUME TypeOK', LocationInBounds'
                 PROVE  /\ line_buffer_location'[t] \in Nat
                        /\ Line(t)' \in [1 .. line_buffer_location'[t] -> Chars]
      OBVIOUS
    <2>1. /\ line_buffer_location'[t] \in Nat /\ line_buffer_location'[t] <= BufSize
          /\ terminal_line_buffer'[t] \in [Slots -> Chars]
      BY DEF TypeOK, LocationInBounds
    <2>2. \A k \in 1 .. line_buffer_location'[t] : k - 1 \in Slots
      BY <2>1, LineBufferAssumption DEF Slots
    <2>3. \A k \in 1 .. line_buffer_location'[t] : terminal_line_buffer'[t][k - 1] \in Chars
      BY <2>1, <2>2
    <2> QED BY <2>1, <2>3 DEF Line
  <1>4. /\ \A k \in 1 .. line_buffer_location[t] : Line(t)[k] = terminal_line_buffer[t][k - 1]
        /\ \A k \in 1 .. line_buffer_location'[t] : Line(t)'[k] = terminal_line_buffer'[t][k - 1]
    BY DEF Line
  <1> QED BY <1>1, <1>2, <1>3, <1>4

\* A step leaves the lines alone where it leaves their bytes alone.
LEMMA SameLine ==
    ASSUME NEW t \in Terminals, line_buffer_location'[t] = line_buffer_location[t],
           \A k \in 0 .. line_buffer_location[t] - 1 :
             terminal_line_buffer'[t][k] = terminal_line_buffer[t][k],
           line_buffer_location[t] \in Int
    PROVE  Line(t)' = Line(t)
  BY DEF Line

\* An edit of the line in front.
LEMMA EditsLine ==
    ASSUME UNCHANGED <<screen, reader>>, NEW a \in Terminals, a = active,
           NEW s, Line(a)' = s,
           \A t \in Terminals \ {a} :
             /\ line_buffer_location'[t] = line_buffer_location[t]
             /\ terminal_line_buffer'[t] = terminal_line_buffer[t]
    PROVE  Discipline!Edit(s)
  <1>1. \A t \in Terminals \ {a} : Line(t)' = Line(t)
    BY DEF Line
  <1>2. \A t \in Terminals : Line(t)' = IF t = a THEN s ELSE Line(t)
    BY <1>1
  <1>3. Lines' = [Lines EXCEPT ![a] = s]
    BY <1>2 DEF Lines
  <1>4. UNCHANGED <<active, Waiting, PastWait, nbytes, answer>>
    BY DEF screen, reader, Waiting, PastWait
  <1> QED BY <1>3, <1>4 DEF Discipline!Edit, Lines

\* Store appends.
LEMMA StoreAppends ==
    ASSUME TypeOK, LocationInBounds, TypeOK', LocationInBounds', UNCHANGED <<screen, reader>>,
           NEW a \in Terminals, a = active, NEW c \in Chars, NEW n \in Nat,
           Store(c, n), line_buffer_location[a] + n <= BufSize
    PROVE  /\ Discipline!Edit(Line(a) \o [k \in 1 .. n |-> c])
           /\ Len(Line(a) \o [k \in 1 .. n |-> c]) = line_buffer_location[a] + n
           /\ n > 0 => (Line(a) \o [k \in 1 .. n |-> c])[line_buffer_location[a] + n] = c
           /\ Line(a)' = Line(a) \o [k \in 1 .. n |-> c]
  <1> DEFINE tail == [k \in 1 .. n |-> c]
             s == Line(a) \o tail
  <1>1. PICK at \in Nat : at = line_buffer_location[a]
    BY DEF TypeOK
  <1>2. tail \in Seq(Chars) /\ Len(tail) = n /\ \A k \in 1 .. n : tail[k] = c
    <2>1. tail \in [1 .. n -> Chars]
      OBVIOUS
    <2>2. tail \in Seq(Chars)
      BY <2>1, SeqDef
    <2>3. DOMAIN tail = 1 .. Len(tail) /\ Len(tail) \in Nat
      BY <2>2, LenProperties
    <2> QED BY <2>2, <2>3
  <1>3. /\ Line(a) \in Seq(Chars) /\ Len(Line(a)) = at
        /\ \A k \in 1 .. at : Line(a)[k] = terminal_line_buffer[a][k - 1]
    BY <1>1, LineProperties
  <1> HIDE DEF tail
  <1>4. /\ s \in Seq(Chars) /\ Len(s) = at + n
        /\ \A k \in 1 .. at + n : s[k] = IF k <= at THEN Line(a)[k] ELSE tail[k - at]
    <2>1. /\ s \in Seq(Chars) /\ Len(s) = Len(Line(a)) + Len(tail)
          /\ \A k \in 1 .. Len(Line(a)) + Len(tail) :
               s[k] = IF k <= Len(Line(a)) THEN Line(a)[k] ELSE tail[k - Len(Line(a))]
      BY <1>2, <1>3, ConcatProperties, ZenonT(40)
    <2> QED BY <1>2, <1>3, <2>1
  <1>5. /\ line_buffer_location'[a] = at + n
        /\ \A k \in Slots : terminal_line_buffer'[a][k] =
             IF at <= k /\ k < at + n THEN c ELSE terminal_line_buffer[a][k]
        /\ \A t \in Terminals \ {a} :
             /\ line_buffer_location'[t] = line_buffer_location[t]
             /\ terminal_line_buffer'[t] = terminal_line_buffer[t]
    BY <1>1, StoreEffect
  <1>6. /\ Line(a)' \in Seq(Chars) /\ Len(Line(a)') = at + n
        /\ \A k \in 1 .. at + n : Line(a)'[k] = terminal_line_buffer'[a][k - 1]
    BY <1>1, <1>5, LineProperties
  <1> HIDE DEF s
  <1>7. \A k \in 1 .. at + n : s[k] = Line(a)'[k]
    <2> SUFFICES ASSUME NEW k \in 1 .. at + n PROVE s[k] = Line(a)'[k]
      OBVIOUS
    <2>1. k - 1 \in Slots
      BY <1>1, LineBufferAssumption DEF Slots
    <2>2. CASE k <= at
      <3>1. terminal_line_buffer'[a][k - 1] = terminal_line_buffer[a][k - 1]
        BY <1>1, <1>5, <2>1, <2>2
      <3> QED BY <1>1, <1>3, <1>4, <1>6, <2>2, <3>1
    <2>3. CASE k > at
      <3>1. at <= k - 1 /\ k - 1 < at + n /\ k - at \in 1 .. n
        BY <1>1, <2>3
      <3>2. terminal_line_buffer'[a][k - 1] = c
        BY <1>5, <2>1, <3>1
      <3> QED BY <1>1, <1>2, <1>4, <1>6, <2>3, <3>1, <3>2, SMTT(30)
    <2> QED BY <1>1, <2>2, <2>3
  <1>8. Line(a)' = s
    BY <1>4, <1>6, <1>7, SeqEqual
  <1>9. n > 0 => s[at + n] = c
    <2> SUFFICES ASSUME n > 0 PROVE s[at + n] = c
      OBVIOUS
    <2>1. at + n \in 1 .. at + n /\ ~(at + n <= at) /\ at + n - at = n /\ n \in 1 .. n
      BY <1>1
    <2>2. s[at + n] = tail[n]
      BY <1>4, <2>1
    <2> QED BY <1>2, <2>1, <2>2
  <1>10. Discipline!Edit(s)
    BY <1>5, <1>8, EditsLine
  <1> QED BY <1>1, <1>4, <1>8, <1>9, <1>10 DEF s, tail

\* What the refinement needs to know about the line in front.
LEMMA InFront ==
    ASSUME QuietInv
    PROVE  \E a \in Terminals :
             /\ a = active /\ Lines[active] = Line(a)
             /\ Line(a) \in Seq(Chars) /\ Len(Line(a)) = line_buffer_location[a]
             /\ line_buffer_location[a] \in Nat /\ line_buffer_location[a] <= BufSize
             /\ terminal_line_buffer[a] \in [Slots -> Chars]
             /\ \A k \in 1 .. line_buffer_location[a] :
                  Line(a)[k] = terminal_line_buffer[a][k - 1]
  <1>1. PICK a \in Terminals : a = active
    BY DEF QuietInv, IInv, TypeOK
  <1>2. /\ TypeOK /\ LocationInBounds
        /\ line_buffer_location[a] \in Nat /\ line_buffer_location[a] <= BufSize
        /\ terminal_line_buffer[a] \in [Slots -> Chars]
    BY DEF QuietInv, IInv, TypeOK, LocationInBounds
  <1> QED BY <1>1, <1>2, LineProperties DEF Lines

LEMMA TypeKeyEdits ==
    ASSUME QuietInv, NEW c \in Chars, TypeKey(c) PROVE [Discipline!Next]_LineVars
  <1>1. PICK a \in Terminals :
          /\ a = active /\ Lines[active] = Line(a)
          /\ Line(a) \in Seq(Chars) /\ Len(Line(a)) = line_buffer_location[a]
          /\ line_buffer_location[a] \in Nat /\ line_buffer_location[a] <= BufSize
    BY InFront
  <1>2. IInv /\ IInv' /\ UNCHANGED <<screen, reader>> /\ c \in {"ch", "nul"}
    BY TypeKeyInv DEF QuietInv, TypeKey, Pressed
  <1>3. CASE Room > 0
    <2>1. line_buffer_location[a] < BufSize - 1 /\ Store(c, 1)
      BY <1>1, <1>3, LineBufferAssumption DEF Room, TypeKey
    <2>2. Discipline!Edit(Line(a) \o [k \in 1 .. 1 |-> c])
      <3>1. 1 \in Nat /\ line_buffer_location[a] + 1 <= BufSize
        BY <1>1, <2>1, LineBufferAssumption
      <3> QED BY <1>1, <1>2, <2>1, <3>1, StoreAppends DEF IInv
    <2>3. [k \in 1 .. 1 |-> c] = <<c>>
      OBVIOUS
    <2>4. Line(a) \o <<c>> = Append(Line(a), c)
      BY <1>1, AppendIsConcat
    <2>5. Discipline!Edit(Append(Lines[active], c)) /\ Len(Lines[active]) < BufSize - 1
      BY <1>1, <2>1, <2>2, <2>3, <2>4
    <2>6. Discipline!TypeKey(c)
      BY <2>5 DEF Discipline!TypeKey, Lines
    <2> QED BY <1>2, <2>6 DEF Discipline!Next
  <1>4. CASE ~(Room > 0)
    <2>1. UNCHANGED <<buffers, screen, reader>>
      BY <1>2, <1>4 DEF TypeKey
    <2> QED BY <2>1
        DEF LineVars, Lines, Line, Reading, Asked, Waiting, PastWait, buffers, screen, reader
  <1> QED BY <1>3, <1>4

LEMMA TabKeyEdits == ASSUME QuietInv, TabKey PROVE [Discipline!Next]_LineVars
  <1> DEFINE m == IF Room < 0 THEN 0 ELSE IF Room < 4 THEN Room ELSE 4
  <1>1. PICK a \in Terminals :
          /\ a = active /\ Lines[active] = Line(a)
          /\ Line(a) \in Seq(Chars) /\ Len(Line(a)) = line_buffer_location[a]
          /\ line_buffer_location[a] \in Nat /\ line_buffer_location[a] <= BufSize
    BY InFront
  <1>2. IInv /\ IInv' /\ UNCHANGED <<screen, reader>> /\ "ch" \in Chars
    BY TabKeyInv DEF QuietInv, TabKey, Pressed, Chars
  <1>3. PICK n \in Nat :
          /\ Store("ch", n)
          /\ n <= 4 /\ line_buffer_location[a] + n <= BufSize
          /\ n > 0 => /\ line_buffer_location[a] + n <= BufSize - 1
                      /\ n = 4 \/ line_buffer_location[a] + n = BufSize - 1
    <2>1. m \in Nat /\ Store("ch", m) /\ m <= 4 /\ line_buffer_location[a] + m <= BufSize
      BY <1>1, LineBufferAssumption DEF TabKey, Room
    <2>2. m > 0 => /\ line_buffer_location[a] + m <= BufSize - 1
                   /\ m = 4 \/ line_buffer_location[a] + m = BufSize - 1
      BY <1>1, LineBufferAssumption DEF Room
    <2> QED BY <2>1, <2>2
  <1>4. CASE n > 0
    <2>1. Discipline!Edit(Lines[active] \o [k \in 1 .. n |-> "ch"])
      BY <1>1, <1>2, <1>3, StoreAppends DEF IInv
    <2>2. /\ n \in 1 .. 4
          /\ Len(Lines[active]) + n <= BufSize - 1
          /\ n = 4 \/ Len(Lines[active]) + n = BufSize - 1
      BY <1>1, <1>3, <1>4
    <2>3. Discipline!TabKey
      BY <2>1, <2>2 DEF Discipline!TabKey, Lines
    <2> QED BY <2>3 DEF Discipline!Next
  <1>5. CASE n = 0
    <2>1. /\ line_buffer_location'[a] = line_buffer_location[a]
          /\ \A k \in Slots : terminal_line_buffer'[a][k] = terminal_line_buffer[a][k]
          /\ \A t \in Terminals \ {a} :
               /\ line_buffer_location'[t] = line_buffer_location[t]
               /\ terminal_line_buffer'[t] = terminal_line_buffer[t]
      <3>1. /\ line_buffer_location'[a] = line_buffer_location[a] + n
            /\ \A k \in Slots : terminal_line_buffer'[a][k] =
                 IF /\ line_buffer_location[a] <= k
                    /\ k < line_buffer_location[a] + n
                 THEN "ch" ELSE terminal_line_buffer[a][k]
            /\ \A t \in Terminals \ {a} :
                 /\ line_buffer_location'[t] = line_buffer_location[t]
                 /\ terminal_line_buffer'[t] = terminal_line_buffer[t]
        BY <1>1, <1>2, <1>3, StoreEffect DEF IInv
      <3>2. \A k \in Slots : ~(/\ line_buffer_location[a] <= k
                               /\ k < line_buffer_location[a] + n)
        BY <1>1, <1>5, LineBufferAssumption DEF Slots
      <3> QED BY <1>1, <1>5, <3>1, <3>2
    <2>2. Line(a)' = Line(a)
      BY <1>1, <2>1, SameLine, LineBufferAssumption DEF Slots
    <2>3. \A t \in Terminals : Line(t)' = Line(t)
      BY <2>1, <2>2 DEF Line
    <2>4. UNCHANGED Lines
      BY <2>3 DEF Lines
    <2> QED BY <1>2, <2>4 DEF LineVars, Reading, Asked, Waiting, PastWait, screen, reader
  <1> QED BY <1>4, <1>5

LEMMA EnterKeyEdits ==
    ASSUME QuietInv, EnterKey, midRead' = 0 PROVE Discipline!Next
  <1>1. PICK a \in Terminals :
          /\ a = active /\ Lines[active] = Line(a)
          /\ Line(a) \in Seq(Chars) /\ Len(Line(a)) = line_buffer_location[a]
          /\ line_buffer_location[a] \in Nat /\ line_buffer_location[a] <= BufSize
    BY InFront
  <1>2. IInv /\ IInv' /\ UNCHANGED <<screen, reader>> /\ "nl" \in Chars
    BY EnterKeyInv DEF QuietInv, EnterKey, Pressed, Chars
  <1>3. PICK n \in 0 .. 2 :
          /\ n \in Nat /\ Store("nl", n)
          /\ line_buffer_location[a] + n <= BufSize /\ line_buffer_location[a] + n > 0
    BY <1>1, LineBufferAssumption DEF EnterKey, NewlinesStored, Room
  <1> DEFINE ended == Line(a) \o [k \in 1 .. n |-> "nl"]
  <1>4. Discipline!Edit(ended) /\ Len(ended) = line_buffer_location[a] + n /\ Line(a)' = ended
    BY <1>1, <1>2, <1>3, StoreAppends DEF IInv
  <1>5. LastEntry' = "nl" /\ a = active'
    BY <1>1, <1>2, EnterKeyQuiet DEF screen
  <1>6. /\ Line(a)' \in Seq(Chars) /\ Len(Line(a)') = line_buffer_location'[a]
        /\ \A k \in 1 .. line_buffer_location'[a] :
             Line(a)'[k] = terminal_line_buffer'[a][k - 1]
    BY <1>2, LineProperties DEF IInv
  <1> HIDE DEF ended
  <1>7. PICK l \in Nat : l > 0 /\ l = Len(ended) /\ l = line_buffer_location'[a] /\ l <= BufSize
    BY <1>1, <1>3, <1>4, <1>6
  <1>8. ended[l] = "nl"
    <2>1. ended[l] = terminal_line_buffer'[a][l - 1]
      BY <1>4, <1>6, <1>7
    <2> QED BY <1>5, <1>7, <2>1 DEF LastEntry, Byte
  <1>9. ended # <<>> /\ Discipline!Last(ended) = "nl" /\ Len(ended) <= BufSize
    <2>1. ended # <<>>
      <3>1. Len(<<>>) = 0
        OBVIOUS
      <3>2. ended = <<>> => Len(ended) = 0
        BY <3>1
      <3>3. Len(ended) # 0
        BY <1>7
      <3> QED BY <3>2, <3>3
    <2>2. Discipline!Last(ended) = ended[Len(ended)]
      BY DEF Discipline!Last
    <2> QED BY <1>7, <1>8, <2>1, <2>2
  <1>10. Discipline!EnterKey
    BY <1>1, <1>4, <1>9 DEF Discipline!EnterKey, ended, Lines
  <1> QED BY <1>10 DEF Discipline!Next

LEMMA BackspaceEdits == ASSUME QuietInv, BackspaceKey PROVE [Discipline!Next]_LineVars
  <1>1. PICK a \in Terminals :
          /\ a = active /\ Lines[active] = Line(a)
          /\ Line(a) \in Seq(Chars) /\ Len(Line(a)) = line_buffer_location[a]
          /\ line_buffer_location[a] \in Nat /\ line_buffer_location[a] <= BufSize
          /\ terminal_line_buffer[a] \in [Slots -> Chars]
          /\ \A k \in 1 .. line_buffer_location[a] : Line(a)[k] = terminal_line_buffer[a][k - 1]
    BY InFront
  <1>2. IInv /\ IInv' /\ UNCHANGED <<screen, reader>>
    BY BackspaceKeyInv DEF QuietInv, BackspaceKey, Pressed
  <1>3. CASE line_buffer_location[a] # 0
    <2>1. PICK n \in Nat : n = line_buffer_location[a] - 1
      BY <1>1, <1>3
    <2>2. /\ line_buffer_location'[a] = n
          /\ \A k \in 0 .. n - 1 : terminal_line_buffer'[a][k] = terminal_line_buffer[a][k]
          /\ \A t \in Terminals \ {a} :
               /\ line_buffer_location'[t] = line_buffer_location[t]
               /\ terminal_line_buffer'[t] = terminal_line_buffer[t]
      <3>1. /\ terminal_line_buffer' = [terminal_line_buffer EXCEPT ![a][n] = "nul"]
            /\ line_buffer_location' = [line_buffer_location EXCEPT ![a] = n]
            /\ n \in Slots
        BY <1>1, <1>3, <2>1, LineBufferAssumption DEF BackspaceKey, Slots
      <3>2. \A k \in Slots : k # n => terminal_line_buffer'[a][k] = terminal_line_buffer[a][k]
        BY <1>1, <1>2, <3>1 DEF IInv, TypeOK
      <3>3. \A k \in 0 .. n - 1 : k \in Slots /\ k # n
        BY <3>1, LineBufferAssumption DEF Slots
      <3> QED BY <1>2, <3>1, <3>2, <3>3 DEF IInv, TypeOK
    <2>3. /\ Line(a)' \in Seq(Chars) /\ Len(Line(a)') = n
          /\ \A k \in 1 .. n : Line(a)'[k] = terminal_line_buffer'[a][k - 1]
      BY <1>2, <2>2, LineProperties DEF IInv
    <2> DEFINE front == Discipline!Front(Line(a))
    <2>4. front = SubSeq(Line(a), 1, n)
      BY <1>1, <2>1 DEF Discipline!Front
    <2>5. /\ front \in Seq(Chars) /\ Len(front) = n
          /\ \A k \in 1 .. n : front[k] = Line(a)[k]
      <3>1. \A k \in 1 .. n : Line(a)[k] \in Chars
        BY <1>1, <2>1, ElementOfSeq
      <3> QED BY <2>1, <2>4, <3>1, SubSeqProperties
    <2> HIDE DEF front
    <2>6. \A k \in 1 .. n : Line(a)'[k] = front[k]
      <3> SUFFICES ASSUME NEW k \in 1 .. n PROVE Line(a)'[k] = front[k]
        OBVIOUS
      <3>1. k - 1 \in 0 .. n - 1 /\ k \in 1 .. line_buffer_location[a]
        BY <1>1, <2>1
      <3> QED BY <1>1, <2>2, <2>3, <2>5, <3>1
    <2>7. Line(a)' = front
      BY <2>3, <2>5, <2>6, SeqEqual
    <2>8. Discipline!Edit(front)
      BY <1>1, <1>2, <2>2, <2>7, EditsLine
    <2>9. Discipline!BackspaceKey
      BY <1>1, <1>3, <2>8 DEF Discipline!BackspaceKey, Lines, front
    <2> QED BY <2>9 DEF Discipline!Next
  <1>4. CASE line_buffer_location[a] = 0
    <2>1. UNCHANGED <<buffers, screen, reader>>
      BY <1>1, <1>2, <1>4 DEF BackspaceKey
    <2> QED BY <2>1
        DEF LineVars, Lines, Line, Reading, Asked, Waiting, PastWait, buffers, screen, reader
  <1> QED BY <1>3, <1>4


LEMMA AbandonEnds == ASSUME QuietInv, SwitchTerminal \/ CtrlC PROVE [Discipline!Next]_LineVars
  <1>1. UNCHANGED Lines
    <2>1. UNCHANGED buffers
      BY DEF SwitchTerminal, CtrlC
    <2> QED BY <2>1 DEF Lines, Line, buffers
  <1>2. Reading' = FALSE /\ Asked' = 0
    BY DEF SwitchTerminal, CtrlC, Reading, Asked, Waiting, PastWait
  <1>3. CASE SwitchTerminal
    <2>1. active' \in Terminals \ {active} /\ answer' = <<>>
      BY <1>3 DEF SwitchTerminal, QuietInv
    <2>2. Discipline!SwitchTerminal
      BY <1>1, <1>2, <2>1 DEF Discipline!SwitchTerminal, Lines, Reading, Asked
    <2> QED BY <2>2 DEF Discipline!Next
  <1>4. CASE CtrlC
    <2>1. UNCHANGED <<active, answer>>
      BY <1>4 DEF CtrlC, screen
    <2>2. CASE Reading
      <3>1. Discipline!AbandonRead
        BY <1>1, <1>2, <2>1, <2>2
        DEF Discipline!AbandonRead, Discipline!EndRead, Lines, Reading, Asked
      <3> QED BY <3>1 DEF Discipline!Next
    <2>3. CASE ~Reading
      <3>1. Reading = FALSE /\ Asked = 0
        BY <2>3 DEF Reading, Asked
      <3> QED BY <1>1, <1>2, <2>1, <3>1 DEF LineVars
    <2> QED BY <2>2, <2>3
  <1> QED BY <1>3, <1>4

LEMMA ReadCallStarts == ASSUME ReadCall PROVE Discipline!Next
  <1>1. /\ ~Reading /\ Reading' = TRUE /\ Asked' \in Int
        /\ UNCHANGED <<Lines, active, answer>>
    BY LineBufferAssumption
    DEF ReadCall, Reading, Asked, Waiting, PastWait, Lines, Line, buffers, screen
  <1>2. Discipline!StartRead
    BY <1>1 DEF Discipline!StartRead, Lines, Reading, Asked
  <1> QED BY <1>2 DEF Discipline!Next

\* Up to its reset a read changes nothing anybody else can see.
LEMMA ReadStutters == ASSUME WaitIndex \/ WaitByte \/ Copy PROVE UNCHANGED LineVars
  <1>1. UNCHANGED <<buffers, screen, nbytes, answer>>
    BY DEF WaitIndex, WaitByte, Copy
  <1>2. Reading = TRUE /\ Reading' = TRUE
    BY DEF WaitIndex, WaitByte, Copy, Reading, Waiting, PastWait
  <1> QED BY <1>1, <1>2 DEF LineVars, Lines, Line, Reading, Asked, buffers, screen

LEMMA ResetFinishes == ASSUME QuietInv, midRead = 0, ResetLocation PROVE Discipline!Next
  <1>1. PICK a \in Terminals :
          /\ a = active /\ Lines[active] = Line(a)
          /\ Line(a) \in Seq(Chars) /\ Len(Line(a)) = line_buffer_location[a]
          /\ line_buffer_location[a] \in Nat /\ line_buffer_location[a] <= BufSize
          /\ terminal_line_buffer[a] \in [Slots -> Chars]
          /\ \A k \in 1 .. line_buffer_location[a] : Line(a)[k] = terminal_line_buffer[a][k - 1]
    BY InFront
  <1>2. /\ LastEntry = "nl" /\ Copied /\ pc = "reset"
        /\ passed_buffer \in Seq(Chars) /\ i \in Int /\ nbytes \in Int
    BY DEF ResetLocation, QuietInv, Quiet, PastWait, IInv, TypeOK
  <1>3. Reading /\ Asked = nbytes /\ Discipline!EndRead
    BY <1>2
    DEF ResetLocation, Discipline!EndRead, Reading, Asked, Waiting, PastWait, screen
  <1>4. answer' = passed_buffer /\ UNCHANGED terminal_line_buffer
        /\ line_buffer_location' = [line_buffer_location EXCEPT ![a] = 0]
    BY <1>1 DEF ResetLocation
  <1>5. Lines' = [Lines EXCEPT ![a] = <<>>]
    <2>1. Line(a)' = <<>>
      BY <1>1, <1>4 DEF Line, QuietInv, IInv, TypeOK
    <2>2. \A t \in Terminals : Line(t)' = IF t = a THEN <<>> ELSE Line(t)
      BY <1>4, <2>1 DEF Line, QuietInv, IInv, TypeOK
    <2> QED BY <2>2 DEF Lines
  <1>6. CASE line_buffer_location[a] > 0
    <2>1. Line(a) # <<>> /\ Discipline!Last(Line(a)) = "nl"
      <3>1. Line(a)[line_buffer_location[a]] = "nl"
        BY <1>1, <1>2, <1>6 DEF LastEntry, Byte
      <3>2. Discipline!Last(Line(a)) = Line(a)[Len(Line(a))]
        BY DEF Discipline!Last
      <3>3. Line(a) # <<>>
        BY <1>1, <1>6, EmptySeq
      <3> QED BY <1>1, <3>1, <3>2, <3>3
    <2>2. PICK n \in 0 .. Len(Line(a)) :
            /\ n = Len(passed_buffer) /\ n = i
            /\ n < Len(Line(a)) => n >= nbytes
            /\ n > 0 => n <= nbytes
      BY <1>1, <1>2, LenProperties DEF Copied
    <2>3. passed_buffer = SubSeq(Line(a), 1, n)
      <3>1. \A k \in 1 .. n : Line(a)[k] \in Chars
        BY <1>1, <2>2, ElementOfSeq
      <3>2. /\ SubSeq(Line(a), 1, n) \in Seq(Chars)
            /\ Len(SubSeq(Line(a), 1, n)) = n
            /\ \A k \in 1 .. n : SubSeq(Line(a), 1, n)[k] = Line(a)[k]
        BY <1>1, <2>2, <3>1, SubSeqProperties
      <3>3. \A k \in 1 .. n : passed_buffer[k] = Line(a)[k]
        BY <1>1, <1>2, <2>2 DEF Copied
      <3> QED BY <1>2, <2>2, <3>2, <3>3, SeqEqual
    <2>4. Discipline!FinishRead
      BY <1>1, <1>3, <1>4, <1>5, <2>1, <2>2, <2>3
      DEF Discipline!FinishRead, Lines, Reading, Asked
    <2> QED BY <2>4 DEF Discipline!Next
  <1>7. CASE line_buffer_location[a] = 0
    <2>1. a # 0 /\ Line(a) = <<>>
      BY <1>1, <1>2, <1>7 DEF LastEntry, Byte, Line
    <2>2. passed_buffer = <<>>
      BY <1>1, <1>2, <1>7, EmptySeq, LenProperties DEF Copied
    <2>3. UNCHANGED Lines
      BY <1>1, <1>5, <2>1 DEF Lines
    <2>4. Discipline!ReadNothing
      BY <1>1, <1>3, <1>4, <2>1, <2>2, <2>3 DEF Discipline!ReadNothing, Lines
    <2> QED BY <2>4 DEF Discipline!Next
  <1> QED BY <1>1, <1>6, <1>7

LEMMA ClearStutters == ASSUME QuietInv, midRead = 0, ClearSlot PROVE UNCHANGED LineVars
  <1>1. PICK a \in Terminals : a = active
    BY DEF QuietInv, IInv, TypeOK
  <1>2. line_buffer_location[a] = 0 /\ UNCHANGED <<line_buffer_location, active, answer>>
    BY <1>1 DEF ClearSlot, QuietInv, Quiet, screen
  <1>3. \A t \in Terminals \ {a} : terminal_line_buffer'[t] = terminal_line_buffer[t]
    BY <1>1 DEF ClearSlot, QuietInv, IInv, TypeOK
  <1>4. \A t \in Terminals : Line(t)' = Line(t)
    BY <1>2, <1>3 DEF Line
  <1>5. Reading = FALSE /\ Reading' = FALSE /\ Asked = 0 /\ Asked' = 0
    BY DEF ClearSlot, Reading, Asked, Waiting, PastWait
  <1> QED BY <1>2, <1>4, <1>5 DEF LineVars, Lines

(* Keys edit a line and a read takes the line Enter ended, whole or as far *)
(* as it asked, in one step: terminal_read's loops and the keys that come  *)
(* between their steps are not seen, unless a key changes the line between *)
(* the check that ends the wait and the end of the clearing.               *)
THEOREM ReadsTakeLines == Spec => ImplementsDiscipline
  <1>1. Init => Discipline!Init
    <2> SUFFICES ASSUME Init PROVE Discipline!Init
      OBVIOUS
    <2>1. \A t \in Terminals : Line(t) = <<>>
      BY DEF Init, Line
    <2> QED BY <2>1 DEF Init, Discipline!Init, Waiting, PastWait
  <1>2. QuietInv /\ [Next]_vars => [midRead' = 0 => [Discipline!Next]_LineVars]_vars
    <2> SUFFICES ASSUME QuietInv, Next, midRead' = 0 PROVE [Discipline!Next]_LineVars
      OBVIOUS
    <2>1. CASE KeyStep
      BY <2>1, TypeKeyEdits, TabKeyEdits, EnterKeyEdits, BackspaceEdits, AbandonEnds
      DEF KeyStep
    <2>2. CASE ReadCall
      BY <2>2, ReadCallStarts
    <2>3. CASE ReadStep
      <3>1. midRead = 0
        BY <2>3 DEF ReadStep, WaitIndex, WaitByte, Copy, ResetLocation, ClearSlot
      <3> QED BY <2>3, <3>1, ReadStutters, ResetFinishes, ClearStutters DEF ReadStep
    <2> QED BY <2>1, <2>2, <2>3 DEF Next
  <1>3. QuietInv /\ [Next]_vars => [midRead' = 0 => [Discipline!Next]_Discipline!vars]_vars
    BY <1>2 DEF LineVars, Lines, Reading, Asked, Discipline!vars
  <1> QED BY <1>1, <1>3, QuietHolds, PTL DEF Spec, ImplementsDiscipline
=============================================================================
