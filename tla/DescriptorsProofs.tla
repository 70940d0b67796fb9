-------------------------- MODULE DescriptorsProofs -------------------------
(***************************************************************************)
(* Descriptors and rates for any number of programs and descriptors, any   *)
(* numbers written and any maximal rate: the types, how long a read of the *)
(* clock waits, whose rate changes, and that every program has a table of  *)
(* its own (FileTables).                                                   *)
(***************************************************************************)
EXTENDS Descriptors, TLAPS

Rates == {0, OneBit} \cup (PowersOfTwo \cap 1 .. MaxRate)

LEMMA QuotientBounded ==
    ASSUME NEW a \in Nat, NEW b \in Nat \ {0}
    PROVE  a \div b \in 0 .. a
<1>1. a \div b \in Int /\ a = b * (a \div b) + (a % b) /\ a % b \in 0 .. b - 1
    OBVIOUS
<1> DEFINE q == a \div b
           r == a % b
<1> HIDE DEF q, r
<1>2. q \in Int /\ r \in 0 .. b - 1 /\ a = b * q + r
    BY <1>1 DEF q, r
<1>3. q >= 0
    BY <1>2
<1>4. b * q >= q
    BY <1>2, <1>3
<1> QED BY <1>2, <1>3, <1>4 DEF q

\* What a program writes is stored as a rate.
LEMMA CappedIsRate ==
    ASSUME NEW value \in Int, SingleBit(value)
    PROVE  Capped(value) \in Rates
<1>1. CASE value > MaxRate
    BY <1>1, DescriptorsAssumption DEF Capped, Rates
<1>2. CASE ~(value > MaxRate) /\ value \in PowersOfTwo
    <2>1. value \in 1 .. MaxRate \/ value = 0 \/ value < 0
        BY <1>2, DescriptorsAssumption
    <2>2. CASE value < 0
        BY <1>2, <2>2, DescriptorsAssumption, PowersArePositive
    <2> QED BY <1>2, <2>1, <2>2, DescriptorsAssumption DEF Capped, Rates
<1>3. CASE ~(value > MaxRate) /\ value \in {0, OneBit}
    BY <1>3, DescriptorsAssumption DEF Capped, Rates
<1> QED BY <1>1, <1>2, <1>3 DEF SingleBit

LEMMA InterruptsBounded ==
    ASSUME NEW rate \in Rates, rate # 0
    PROVE  Interrupts(rate) \in 0 .. MaxRate
BY QuotientBounded, DescriptorsAssumption DEF Rates, Interrupts

-----------------------------------------------------------------------------
(* Types *)

LEMMA TwoIsRate == 2 \in Rates
<1>1. 2 = 2 ^ 1
    OBVIOUS
<1> QED BY <1>1, DescriptorsAssumption DEF Rates, PowersOfTwo

LEMMA TypeIsRates == TypeOK => virtual_freq \in [0 .. Frequencies - 1 -> Rates]
BY DEF TypeOK, Rates

\* halt is also what a read at rate 0 ends in.
LEMMA HaltTypes ==
    ASSUME TypeOK, Halt
    PROVE  TypeOK'
<1> USE DescriptorsAssumption
<1>1. process_total' \in 1 .. MaxPrograms
    BY DEF TypeOK, Halt
<1>2. fd_array' \in [Pids -> [Fds -> Types \cup {"free"}]]
    BY DEF TypeOK, Halt, pcb, Pids, NoFiles
<1>3. virtual_freq' \in [0 .. Frequencies - 1 -> Rates]
    BY TypeIsRates, TwoIsRate DEF TypeOK, Halt, RtcClose
<1> QED BY <1>1, <1>2, <1>3 DEF TypeOK, Halt, Idle, Rates, Reading

LEMMA InitTypes == Init => TypeOK
BY DescriptorsAssumption DEF Init, TypeOK, NoFiles, Idle, Reading

LEMMA NextTypes == TypeOK /\ [Next]_vars => TypeOK'
<1> SUFFICES ASSUME TypeOK, [Next]_vars PROVE TypeOK'
    OBVIOUS
<1> USE DescriptorsAssumption
<1>1. CASE Execute
    <2>1. process_total \in Pids
        BY <1>1 DEF TypeOK, Execute, Pids
    <2>2. fd_array' \in [Pids -> [Fds -> Types \cup {"free"}]]
        BY <1>1, <2>1 DEF TypeOK, Execute, NoFiles
    <2> QED BY <1>1, <2>2 DEF TypeOK, Execute, Reading
<1>2. CASE Halt
    BY <1>2, HaltTypes
<1>3. ASSUME NEW type \in Types, Open(type) PROVE TypeOK'
    <2>1. fd_array' \in [Pids -> [Fds -> Types \cup {"free"}]]
        <3>1. pcb \in Pids
            BY DEF TypeOK, pcb, Pids
        <3>2. PICK fd \in Fds : fd_array' = [fd_array EXCEPT ![pcb][fd] = type]
            BY <1>3 DEF Open
        <3> QED BY <3>1, <3>2 DEF TypeOK
    <2>2. virtual_freq' \in [0 .. Frequencies - 1 -> Rates]
        BY <1>3, TypeIsRates, TwoIsRate DEF TypeOK, Open, RtcOpen
    <2> QED BY <1>3, <2>1, <2>2 DEF TypeOK, Open, Rates, Reading
<1>4. ASSUME NEW fd \in Fds, Close(fd) PROVE TypeOK'
    <2>1. fd_array' \in [Pids -> [Fds -> Types \cup {"free"}]]
        BY <1>4 DEF TypeOK, Close
    <2>2. virtual_freq' \in [0 .. Frequencies - 1 -> Rates]
        BY <1>4, TypeIsRates, TwoIsRate DEF TypeOK, Close, RtcClose
    <2> QED BY <1>4, <2>1, <2>2 DEF TypeOK, Close, Rates, Reading
<1>5. ASSUME NEW fd \in Fds, Read(fd) PROVE TypeOK'
    <2> DEFINE rate == virtual_freq[process_total]
    <2>1. CASE rate = 0
        BY <1>5, <2>1, HaltTypes DEF Read
    <2>2. CASE rate # 0
        <3>1. rate \in Rates
            BY TypeIsRates DEF TypeOK
        <3>2. Interrupts(rate) \in 0 .. MaxRate
            BY <2>2, <3>1, InterruptsBounded
        <3>3. /\ rtc_read' = [pc |-> "clear", counter |-> Interrupts(rate)]
              /\ ticks' = 0
              /\ UNCHANGED <<process_total, fd_array, virtual_freq, rtc_read_flag>>
            BY <1>5, <2>2 DEF Read
        <3>4. Interrupts(rate) # 0
            BY <1>5, <2>2 DEF Read
        <3> QED BY <3>2, <3>3, <3>4 DEF TypeOK, Reading
    <2> QED BY <2>1, <2>2
<1>6. ASSUME NEW fd \in Fds, NEW value \in Values, Write(fd, value) PROVE TypeOK'
    <2>1. virtual_freq' \in [0 .. Frequencies - 1 -> Rates]
        BY <1>6, TypeIsRates, CappedIsRate DEF Write, RtcVirtualWrite
    <2> QED BY <1>6, <2>1 DEF TypeOK, Write, Rates, Reading
<1>7. CASE RtcReadClear
    BY <1>7 DEF TypeOK, RtcReadClear, Reading
<1>8. CASE RtcReadSeen
    <2>1. /\ rtc_read' \in [pc : {"idle", "clear", "spin"}, counter : 0 .. MaxRate]
          /\ Reading' => rtc_read'.counter > 0
        <3>1. CASE rtc_read.counter = 1
            BY <1>8, <3>1 DEF RtcReadSeen, Idle, Reading
        <3>2. CASE rtc_read.counter # 1
            <4>1. rtc_read.counter \in 2 .. MaxRate
                BY <1>8, <3>2 DEF TypeOK, RtcReadSeen, Reading
            <4> QED BY <1>8, <3>2, <4>1 DEF TypeOK, RtcReadSeen, Reading
        <3> QED BY <3>1, <3>2
    <2> QED BY <1>8, <2>1 DEF TypeOK, RtcReadSeen, Reading
<1>9. CASE Tick
    BY <1>9 DEF TypeOK, Tick, Reading
<1>10. CASE UNCHANGED vars
    BY <1>10 DEF TypeOK, vars, Reading
<1> QED BY <1>1, <1>2, <1>3, <1>4, <1>5, <1>6, <1>7, <1>8, <1>9, <1>10 DEF Next, RtcReadStep
\* The entries of virtual_freq are rates that can be divided by, or 0, and the
\* counter of a read is positive as long as it waits.
THEOREM TypeCorrect == Spec => []TypeOK
BY InitTypes, NextTypes, PTL DEF Spec

-----------------------------------------------------------------------------
(* Whose rate changes *)

\* A step that changes an entry writes the running program's, or its parent's
\* when it ends with the clock open.
LEMMA EntriesWritten ==
    ASSUME TypeOK, [Next]_vars, NEW i \in 0 .. Frequencies - 1,
           virtual_freq'[i] # virtual_freq[i]
    PROVE  \/ i = process_total
           \/ i = process_total - 1 /\ Halt /\ HasRtc(pcb)
<1> USE DescriptorsAssumption
<1> SUFFICES ASSUME i # process_total PROVE i = process_total - 1 /\ Halt /\ HasRtc(pcb)
    OBVIOUS
<1>1. virtual_freq \in [0 .. Frequencies - 1 -> Rates]
    BY TypeIsRates
<1>2. CASE Halt
    BY <1>1, <1>2 DEF Halt, RtcClose
<1>3. ASSUME NEW type \in Types, Open(type) PROVE FALSE
    BY <1>1, <1>3 DEF Open, RtcOpen
<1>4. ASSUME NEW fd \in Fds, Close(fd) PROVE FALSE
    BY <1>1, <1>4 DEF Close, RtcClose
<1>5. ASSUME NEW fd \in Fds, Read(fd), ~Halt PROVE FALSE
    BY <1>5 DEF Read
<1>6. ASSUME NEW fd \in Fds, NEW value \in Values, Write(fd, value) PROVE FALSE
    BY <1>1, <1>6 DEF Write, RtcVirtualWrite
<1>7. CASE Execute \/ RtcReadStep \/ Tick \/ UNCHANGED vars
    BY <1>7 DEF Execute, RtcReadStep, RtcReadClear, RtcReadSeen, Tick, vars
<1> QED BY <1>2, <1>3, <1>4, <1>5, <1>6, <1>7 DEF Next

\* The rate of a program that waits for another changes only when that one
\* ends with its clock open.
THEOREM RatesAreKept == Spec => RateKept
<1>1. ASSUME TypeOK, [Next]_vars, NEW p \in Pids, Waiting(p),
             virtual_freq'[p + 1] # virtual_freq[p + 1]
      PROVE  p = process_total - 2 /\ process_total' = p + 1 /\ HasRtc(p + 1)
    <2>1. p + 1 \in 0 .. Frequencies - 1 /\ p + 1 # process_total
        BY <1>1, DescriptorsAssumption DEF Pids, Waiting, TypeOK
    <2>2. p + 1 = process_total - 1 /\ Halt /\ HasRtc(pcb)
        BY <1>1, <2>1, EntriesWritten
    <2>3. p + 1 = pcb /\ p = process_total - 2
        BY <1>1, <2>2 DEF pcb, Pids, TypeOK
    <2>4. process_total' = process_total - 1
        BY <1>1, <2>2, <2>3 DEF Halt, Pids, TypeOK
    <2> QED BY <1>1, <2>2, <2>3, <2>4 DEF Pids, TypeOK
<1>2. TypeOK /\ [Next]_vars =>
        [\A p \in Pids : Waiting(p) /\ virtual_freq'[p + 1] # virtual_freq[p + 1] =>
           p = process_total - 2 /\ process_total' = p + 1 /\ HasRtc(p + 1)]_vars
    BY <1>1
<1> QED BY <1>2, TypeCorrect, PTL DEF Spec, RateKept

-----------------------------------------------------------------------------
(* How long a read waits *)

Wanted == Interrupts(virtual_freq[process_total])

\* While a read waits, the interrupts so far and those it still counts make up
\* what its rate asks for; an interrupt seen but not counted yet is one more.
Counted ==
    Reading =>
        /\ virtual_freq[process_total] # 0
        /\ ticks + rtc_read.counter >=
              Wanted + IF rtc_read.pc = "spin" /\ rtc_read_flag = 1 THEN 1 ELSE 0

WaitInv == TypeOK /\ Counted

LEMMA InitWait == Init => WaitInv
BY InitTypes DEF Init, WaitInv, Counted, Reading, Idle

LEMMA WantedTyped ==
    ASSUME TypeOK, virtual_freq[process_total] # 0
    PROVE  Wanted \in 0 .. MaxRate
<1>1. virtual_freq[process_total] \in Rates
    BY TypeIsRates, DescriptorsAssumption DEF TypeOK
<1> QED BY <1>1, InterruptsBounded DEF Wanted

LEMMA NextWait == WaitInv /\ [Next]_vars => WaitInv'
<1> SUFFICES ASSUME WaitInv, [Next]_vars PROVE Counted'
    BY NextTypes DEF WaitInv
<1> USE DescriptorsAssumption
<1>1. TypeOK /\ TypeOK'
    BY NextTypes DEF WaitInv
<1>2. CASE Halt
    BY <1>2 DEF Halt, Counted, Reading, Idle
<1>3. ASSUME ~Reading, UNCHANGED rtc_read PROVE Counted'
    BY <1>3 DEF Counted, Reading
<1>4. ASSUME NEW fd \in Fds, Read(fd), ~Halt PROVE Counted'
    <2>1. /\ virtual_freq[process_total] # 0
          /\ rtc_read' = [pc |-> "clear", counter |-> Wanted]
          /\ ticks' = 0
          /\ UNCHANGED <<process_total, virtual_freq>>
        BY <1>4 DEF Read, Wanted
    <2>2. Wanted' = Wanted /\ Wanted \in 0 .. MaxRate
        BY <1>1, <2>1, WantedTyped DEF Wanted
    <2> QED BY <2>1, <2>2 DEF Counted
<1>5. CASE RtcReadClear
    <2>1. Wanted' = Wanted /\ UNCHANGED <<process_total, virtual_freq, ticks>>
        BY <1>5 DEF RtcReadClear, Wanted
    <2>2. Reading /\ rtc_read.pc # "spin" /\ rtc_read_flag' = 0
        BY <1>5 DEF RtcReadClear, Reading
    <2>3. rtc_read'.counter = rtc_read.counter
        BY <1>1, <1>5 DEF RtcReadClear, TypeOK
    <2> QED BY <2>1, <2>2, <2>3 DEF WaitInv, Counted
<1>6. CASE RtcReadSeen
    <2>1. Wanted' = Wanted /\ UNCHANGED <<process_total, virtual_freq>>
        BY <1>6 DEF RtcReadSeen, Wanted
    <2>2. Reading /\ rtc_read.pc = "spin" /\ rtc_read_flag = 1
        BY <1>6 DEF RtcReadSeen, Reading
    <2>3. ticks + rtc_read.counter >= Wanted + 1 /\ virtual_freq[process_total] # 0
        BY <2>2 DEF WaitInv, Counted
    <2>4. Wanted \in 0 .. MaxRate
        BY <1>1, <2>3, WantedTyped
    <2>5. CASE rtc_read.counter = 1
        BY <1>6, <2>5 DEF RtcReadSeen, Counted, Reading, Idle
    <2>6. CASE rtc_read.counter # 1
        <3>1. /\ rtc_read' = [pc |-> "clear", counter |-> rtc_read.counter - 1]
              /\ UNCHANGED ticks
            BY <1>6, <2>6 DEF RtcReadSeen
        <3>2. ticks \in Int /\ rtc_read.counter \in Int
            BY <1>1 DEF TypeOK
        <3> QED BY <2>1, <2>3, <2>4, <3>1, <3>2 DEF Counted
    <2> QED BY <2>5, <2>6
<1>7. CASE Tick
    <2>1. Wanted' = Wanted /\ UNCHANGED <<process_total, virtual_freq, rtc_read>>
        BY <1>7 DEF Tick, Wanted
    <2>2. SUFFICES ASSUME Reading
                   PROVE  /\ virtual_freq[process_total] # 0
                          /\ ticks' + rtc_read.counter >= Wanted + 1
        <3>1. Reading' => Reading
            BY <2>1 DEF Reading
        <3>2. CASE Reading'
            <4>1. virtual_freq[process_total] # 0 /\ ticks' + rtc_read.counter >= Wanted + 1
                BY <2>2, <3>1, <3>2
            <4>2. Wanted \in Int /\ ticks' \in Int /\ rtc_read.counter \in Int
                BY <1>1, <4>1, WantedTyped DEF TypeOK
            <4> QED BY <2>1, <4>1, <4>2 DEF Counted
        <3> QED BY <3>2 DEF Counted
    <2>3. virtual_freq[process_total] # 0 /\ ticks + rtc_read.counter >= Wanted
        <3>1. virtual_freq[process_total] # 0
            BY <2>2 DEF WaitInv, Counted
        <3>2. Wanted \in Int /\ ticks \in Int /\ rtc_read.counter \in Int
            BY <1>1, <3>1, WantedTyped DEF TypeOK
        <3> QED BY <2>2, <3>1, <3>2 DEF WaitInv, Counted
    <2>4. Wanted \in 0 .. MaxRate /\ rtc_read.counter \in 1 .. MaxRate /\ ticks \in 0 .. MaxRate
        BY <1>1, <2>2, <2>3, WantedTyped DEF TypeOK
    <2>5. ticks' = IF ticks < MaxRate THEN ticks + 1 ELSE ticks
        BY <1>7, <2>2 DEF Tick
    <2> QED BY <2>3, <2>4, <2>5
<1>8. CASE UNCHANGED vars
    BY <1>8 DEF WaitInv, Counted, Wanted, Reading, vars
<1>9. ASSUME \/ Execute
             \/ \E type \in Types : Open(type)
             \/ \E fd \in Fds : Close(fd) \/ \E value \in Values : Write(fd, value)
      PROVE  ~Reading /\ UNCHANGED rtc_read
    BY <1>9 DEF Execute, Open, Close, Write
<1> QED BY <1>2, <1>3, <1>4, <1>5, <1>6, <1>7, <1>8, <1>9 DEF Next, RtcReadStep

\* A read of the clock takes at least as many interrupts as its program's rate
\* asks for.
THEOREM ReadsWait == Spec => RtcReadWaits
<1>1. ASSUME WaitInv, RtcReadSeen, ~Reading'
      PROVE  ticks >= Interrupts(virtual_freq[process_total])
    <2>1. Reading /\ rtc_read.pc = "spin" /\ rtc_read_flag = 1
        BY <1>1 DEF RtcReadSeen, Reading
    <2>2. rtc_read.counter = 1
        BY <1>1 DEF RtcReadSeen, Reading
    <2>3. virtual_freq[process_total] # 0 /\ ticks + 1 >= Wanted + 1
        BY <1>1, <2>1, <2>2 DEF WaitInv, Counted
    <2>4. Wanted \in 0 .. MaxRate /\ ticks \in 0 .. MaxRate
        BY <1>1, <2>3, WantedTyped DEF WaitInv, TypeOK
    <2> QED BY <2>3, <2>4, DescriptorsAssumption DEF Wanted
<1> QED BY <1>1, InitWait, NextWait, PTL DEF Spec, RtcReadWaits
-----------------------------------------------------------------------------
(* Every program has a table of its own *)

LEMMA InitTables == Init => Tables!Init
<1> SUFFICES ASSUME Init PROVE Tables!Init
    OBVIOUS
<1>1. process_total = 1 /\ fd_array[0] = NoFiles
    BY DescriptorsAssumption DEF Init, Pids
<1>2. [i \in 1 .. process_total |-> fd_array[i - 1]] = <<NoFiles>>
    BY <1>1
<1> QED BY <1>2 DEF Tables!Init, Tables!EmptyTable, Tables!NoFile, NoFiles

\* What the refinement mapping makes of the PCBs.
TablesOf == [i \in 1 .. process_total |-> fd_array[i - 1]]

LEMMA TablesTyped ==
    ASSUME TypeOK
    PROVE  /\ TablesOf \in Seq([Fds -> Types \cup {"free"}])
           /\ Len(TablesOf) = process_total
           /\ TablesOf[process_total] = fd_array[pcb]
           /\ process_total \in 1 .. MaxPrograms
           /\ pcb \in Pids
<1>1. process_total \in 1 .. MaxPrograms
    BY DEF TypeOK
<1>2. \A i \in 1 .. process_total : i - 1 \in Pids
    BY <1>1, DescriptorsAssumption DEF Pids
<1>3. \A i \in 1 .. process_total : fd_array[i - 1] \in [Fds -> Types \cup {"free"}]
    BY <1>2 DEF TypeOK
<1>4. TablesOf \in [1 .. process_total -> [Fds -> Types \cup {"free"}]]
    BY <1>3 DEF TablesOf
<1> QED BY <1>1, <1>2, <1>4, DescriptorsAssumption DEF TablesOf, pcb

LEMMA AppendedSequence ==
    ASSUME NEW S, NEW seq \in Seq(S), NEW elt \in S
    PROVE  Append(seq, elt) =
             [i \in 1 .. Len(seq) + 1 |-> IF i = Len(seq) + 1 THEN elt ELSE seq[i]]
<1> DEFINE appended == Append(seq, elt)
<1>1. /\ Len(seq) \in Nat
      /\ appended \in Seq(S) /\ Len(appended) = Len(seq) + 1
      /\ \A i \in 1 .. Len(seq) : appended[i] = seq[i]
      /\ appended[Len(seq) + 1] = elt
    OBVIOUS
<1> HIDE DEF appended
<1>2. appended = [i \in 1 .. Len(appended) |-> appended[i]]
    BY <1>1
<1>3. appended = [i \in 1 .. Len(seq) + 1 |-> IF i = Len(seq) + 1 THEN elt ELSE seq[i]]
    BY <1>1, <1>2
<1> QED BY <1>3 DEF appended

\* A new table in the running program's PCB is a new last table.
LEMMA LastTableSet ==
    ASSUME TypeOK, UNCHANGED process_total, NEW table,
           fd_array' = [fd_array EXCEPT ![pcb] = table]
    PROVE  TablesOf' = [TablesOf EXCEPT ![process_total] = table]
<1>1. process_total \in 1 .. MaxPrograms /\ pcb \in Pids /\ pcb = process_total - 1
    BY TablesTyped DEF pcb
<1>2. \A i \in 1 .. process_total :
        fd_array'[i - 1] = IF i = process_total THEN table ELSE fd_array[i - 1]
    BY <1>1, DescriptorsAssumption DEF TypeOK, Pids
<1> QED BY <1>1, <1>2 DEF TablesOf

LEMMA HaltEndsTable == TypeOK /\ Halt => Tables!End
<1> SUFFICES ASSUME TypeOK, Halt PROVE Tables!End
    OBVIOUS
<1>1. /\ Len(TablesOf) = process_total /\ process_total \in 1 .. MaxPrograms
      /\ fd_array' = [fd_array EXCEPT ![pcb] = NoFiles]
    BY TablesTyped DEF Halt
<1>2. CASE process_total = 1
    <2>1. UNCHANGED process_total
        BY <1>2 DEF Halt
    <2>2. TablesOf' = [TablesOf EXCEPT ![1] = NoFiles]
        BY <1>1, <1>2, <2>1, LastTableSet
    <2>3. TablesOf' = <<NoFiles>>
        BY <1>2, <2>2 DEF TablesOf
    <2> QED BY <1>1, <1>2, <2>3
            DEF TablesOf, Tables!End, Tables!EmptyTable, Tables!NoFile, NoFiles
<1>3. CASE process_total > 1
    <2>1. process_total' = process_total - 1
        BY <1>1, <1>3 DEF Halt
    <2>2. \A i \in 1 .. process_total - 1 : fd_array'[i - 1] = fd_array[i - 1]
        BY <1>1, DescriptorsAssumption DEF TypeOK, Pids, pcb
    <2>3. TablesOf' = [i \in 1 .. Len(TablesOf) - 1 |-> TablesOf[i]]
        BY <1>1, <2>1, <2>2 DEF TablesOf
    <2> QED BY <1>1, <1>3, <2>3 DEF TablesOf, Tables!End
<1> QED BY <1>1, <1>2, <1>3

LEMMA NextTables == TypeOK /\ [Next]_vars => [Tables!Next]_TablesOf
<1> SUFFICES ASSUME TypeOK, [Next]_vars PROVE [Tables!Next]_TablesOf
    OBVIOUS
<1> USE DescriptorsAssumption
<1>1. CASE Execute
    <2>1. process_total \in 1 .. MaxPrograms - 1 /\ process_total' = process_total + 1
        BY <1>1 DEF TypeOK, Execute
    <2>2. \A i \in 1 .. process_total + 1 :
            fd_array'[i - 1] = IF i = process_total + 1 THEN NoFiles ELSE fd_array[i - 1]
        BY <1>1, <2>1 DEF TypeOK, Execute, Pids
    <2>3. TablesOf' = [i \in 1 .. process_total + 1 |->
                         IF i = process_total + 1 THEN NoFiles ELSE TablesOf[i]]
        BY <2>1, <2>2 DEF TablesOf
    <2>4. Append(TablesOf, NoFiles) = TablesOf'
        <3>1. NoFiles \in [Fds -> Types \cup {"free"}]
            BY DEF NoFiles
        <3>2. Append(TablesOf, NoFiles) =
                [i \in 1 .. Len(TablesOf) + 1 |->
                   IF i = Len(TablesOf) + 1 THEN NoFiles ELSE TablesOf[i]]
            BY <3>1, TablesTyped, AppendedSequence
        <3> HIDE DEF TablesOf
        <3> QED BY <2>1, <2>3, <3>2, TablesTyped
    <2>5. Len(TablesOf) < MaxPrograms
        BY <2>1, TablesTyped
    <2>6. Tables!Start
        BY <2>4, <2>5 DEF Tables!Start, Tables!EmptyTable, Tables!NoFile, NoFiles, TablesOf
    <2> QED BY <2>6 DEF Tables!Next
<1>2. CASE Halt
    BY <1>2, HaltEndsTable DEF Tables!Next
<1>3. ASSUME NEW type \in Types, Open(type) PROVE Tables!Next
    <2>1. PICK fd \in Fds :
            /\ fd_array[pcb][fd] = "free"
            /\ \A lower \in 2 .. fd - 1 : fd_array[pcb][lower] # "free"
            /\ fd_array' = [fd_array EXCEPT ![pcb] = [fd_array[pcb] EXCEPT ![fd] = type]]
        BY <1>3 DEF Open
    <2>2. UNCHANGED process_total
        BY <1>3 DEF Open
    <2>3. TablesOf' = [TablesOf EXCEPT ![process_total] = [fd_array[pcb] EXCEPT ![fd] = type]]
        BY <2>1, <2>2, LastTableSet
    <2>4. \A lower \in Fds : lower < fd => fd_array[pcb][lower] # "free"
        BY <2>1 DEF Fds
    <2>5. Tables!Open(fd, type)
        BY <2>1, <2>3, <2>4, TablesTyped
           DEF Tables!Open, Tables!Set, Tables!Running, Tables!NoFile, TablesOf
    <2> QED BY <2>5 DEF Tables!Next
<1>4. ASSUME NEW fd \in Fds, Close(fd) PROVE Tables!Next
    <2>1. /\ UNCHANGED process_total
          /\ fd_array' = [fd_array EXCEPT ![pcb] = [fd_array[pcb] EXCEPT ![fd] = "free"]]
        BY <1>4 DEF Close
    <2>2. TablesOf' = [TablesOf EXCEPT ![process_total] = [fd_array[pcb] EXCEPT ![fd] = "free"]]
        BY <2>1, LastTableSet
    <2>3. Tables!Close(fd)
        BY <2>2, TablesTyped DEF Tables!Close, Tables!Set, Tables!Running, Tables!NoFile, TablesOf
    <2> QED BY <2>3 DEF Tables!Next
<1>5. ASSUME NEW fd \in Fds, Read(fd), ~Halt PROVE UNCHANGED <<process_total, fd_array>>
    BY <1>5 DEF Read
<1>6. ASSUME NEW fd \in Fds, NEW value \in Values, Write(fd, value)
      PROVE  UNCHANGED <<process_total, fd_array>>
    BY <1>6 DEF Write
<1>7. CASE RtcReadStep \/ Tick \/ UNCHANGED vars
    BY <1>7 DEF RtcReadStep, RtcReadClear, RtcReadSeen, Tick, vars, TablesOf
<1>8. CASE UNCHANGED <<process_total, fd_array>>
    BY <1>8 DEF TablesOf
<1> QED BY <1>1, <1>2, <1>3, <1>4, <1>5, <1>6, <1>7, <1>8 DEF Next

\* Descriptors implements FileTables: whatever programs do with descriptors
\* and the clock, the tables of the programs that wait stay as they were.
THEOREM TablesAreOwn == Spec => ImplementsFileTables
<1>1. TypeOK /\ [Next]_vars =>
        [Tables!Next]_([i \in 1 .. process_total |-> fd_array[i - 1]])
    BY NextTables DEF TablesOf
<1> QED BY <1>1, InitTables, TypeCorrect, PTL DEF Spec, ImplementsFileTables, Tables!Spec
=============================================================================
