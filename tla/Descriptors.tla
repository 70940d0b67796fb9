---------------------------- MODULE Descriptors -----------------------------
(***************************************************************************)
(* The descriptors of programs that start one another on one terminal      *)
(* (fd_array of the PCBs, system_call.c) and the real-time clock behind    *)
(* some of them (rtc.c): a rate per program, and reads that count          *)
(* interrupts through one flag.                                            *)
(*                                                                         *)
(* execute and halt are one step each here; what may happen in the middle  *)
(* of them is the subject of ProcessControl.  The PCB in use is the one at *)
(* process_total - 1, which on one terminal is the running program's.      *)
(***************************************************************************)
EXTENDS Integers, Sequences

CONSTANTS
    MaxPrograms,   \* the limit of execute
    Frequencies,   \* entries of virtual_freq, 6
    LastFd,        \* the last descriptor, 7; open hands out 2 and up
    MaxRate,       \* 1024
    OneBit,        \* the negative number with a single bit set, -2^31
    Values         \* the numbers programs write to the clock

Fds == 2 .. LastFd
Pids == 0 .. MaxPrograms - 1
Types == {"file", "rtc"}
PowersOfTwo == {2 ^ k : k \in 0 .. 30}

\* The first conjunct is an assumption: the limit in execute is 10, and the
\* sixth program that opens the clock writes past virtual_freq.
ASSUME DescriptorsAssumption ==
    /\ MaxPrograms \in Nat \ {0} /\ Frequencies \in Nat /\ MaxPrograms < Frequencies
    /\ LastFd \in Nat
    /\ MaxRate \in PowersOfTwo /\ MaxRate \in Nat /\ MaxRate > 1
    /\ OneBit \in Int /\ OneBit < -MaxRate
    /\ Values \subseteq Int

\* True whatever the constants; the provers know nothing of exponents.
ASSUME PowersArePositive == PowersOfTwo \subseteq Nat \ {0}

VARIABLES
    process_total,
    fd_array,        \* by pid: what lies behind each descriptor, or "free"
    virtual_freq,    \* indexed with process_total
    rtc_read_flag,
    rtc_read,        \* where rtc_virtual_read is, and its counter
    ticks            \* clock interrupts since the read began, up to MaxRate

vars == <<process_total, fd_array, virtual_freq, rtc_read_flag, rtc_read, ticks>>

pcb == process_total - 1
Idle == [pc |-> "idle", counter |-> 0]
Reading == rtc_read.pc # "idle"
NoFiles == [fd \in Fds |-> "free"]
HasRtc(p) == \E fd \in Fds : fd_array[p][fd] = "rtc"

-----------------------------------------------------------------------------
(* The clock *)

RtcOpen == virtual_freq' = [virtual_freq EXCEPT ![process_total] = 2]
RtcClose(total) == virtual_freq' = [virtual_freq EXCEPT ![total] = 2]

\* (rate & (rate - 1)) == 0 for a 32-bit number, 0 and OneBit included.
SingleBit(rate) == rate \in PowersOfTwo \cup {0, OneBit}

Capped(rate) == IF rate > MaxRate THEN MaxRate ELSE rate

\* Mutant: the table is indexed with the pid.
RtcVirtualWriteByPid(value) ==
    IF SingleBit(value)
      THEN virtual_freq' = [virtual_freq EXCEPT ![process_total - 1] = Capped(value)]
      ELSE UNCHANGED virtual_freq

RtcVirtualWrite(value) ==
    IF SingleBit(value)
      THEN virtual_freq' = [virtual_freq EXCEPT ![process_total] = Capped(value)]
      ELSE UNCHANGED virtual_freq

\* MAX_RTC_FREQ / rate in C, for a rate other than 0.
Interrupts(rate) == IF rate < 0 THEN 0 ELSE MaxRate \div rate

-----------------------------------------------------------------------------
(* Programs *)

Init ==
    /\ process_total = 1
    /\ fd_array = [p \in Pids |-> NoFiles]
    /\ virtual_freq = [i \in 0 .. Frequencies - 1 |-> 0]
    /\ rtc_read_flag = 1
    /\ rtc_read = Idle
    /\ ticks = 0

\* A refused execute changes nothing.
Execute ==
    /\ ~Reading
    /\ process_total < MaxPrograms
    /\ process_total' = process_total + 1
    /\ fd_array' = [fd_array EXCEPT ![process_total] = NoFiles]
    /\ UNCHANGED <<virtual_freq, rtc_read_flag, rtc_read, ticks>>

\* Mutant: the descriptors are cleared in the PCB found by the number of
\* processes, after that number went down.
HaltByCount ==
    /\ IF HasRtc(pcb) THEN RtcClose(process_total - 1) ELSE UNCHANGED virtual_freq
    /\ process_total' = IF process_total = 1 THEN 1 ELSE process_total - 1
    /\ fd_array' = [fd_array EXCEPT ![process_total' - 1] = NoFiles]
    /\ rtc_read' = Idle
    /\ ticks' = 0
    /\ UNCHANGED rtc_read_flag

\* halt, called by the program, by an exception or by Ctrl+C, the last also in
\* the middle of a read.  It closes after it has counted the program out.
Halt ==
    /\ IF HasRtc(pcb) THEN RtcClose(process_total - 1) ELSE UNCHANGED virtual_freq
    /\ fd_array' = [fd_array EXCEPT ![pcb] = NoFiles]
    /\ process_total' = IF process_total = 1 THEN 1 ELSE process_total - 1
    /\ rtc_read' = Idle
    /\ ticks' = 0
    /\ UNCHANGED rtc_read_flag

\* A full table, like an unknown name, is refused without a change.
Open(type) ==
    /\ ~Reading
    /\ \E fd \in Fds :
         /\ fd_array[pcb][fd] = "free"
         /\ \A lower \in 2 .. fd - 1 : fd_array[pcb][lower] # "free"
         /\ fd_array' = [fd_array EXCEPT ![pcb][fd] = type]
    /\ IF type = "rtc" THEN RtcOpen ELSE UNCHANGED virtual_freq
    /\ UNCHANGED <<process_total, rtc_read_flag, rtc_read, ticks>>

Close(fd) ==
    /\ ~Reading
    /\ fd_array[pcb][fd] # "free"
    /\ fd_array' = [fd_array EXCEPT ![pcb][fd] = "free"]
    /\ IF fd_array[pcb][fd] = "rtc" THEN RtcClose(process_total) ELSE UNCHANGED virtual_freq
    /\ UNCHANGED <<process_total, rtc_read_flag, rtc_read, ticks>>

\* Files and directories refuse every write.
Write(fd, value) ==
    /\ ~Reading
    /\ fd_array[pcb][fd] = "rtc"
    /\ RtcVirtualWrite(value)
    /\ UNCHANGED <<process_total, fd_array, rtc_read_flag, rtc_read, ticks>>

\* rtc_virtual_read up to its loop.  At rate 0 it divides by 0, and the
\* exception handler halts the program; a negative rate needs no interrupt.
Read(fd) ==
    /\ ~Reading
    /\ fd_array[pcb][fd] = "rtc"
    /\ LET rate == virtual_freq[process_total] IN
       \/ /\ rate = 0
          /\ Halt
       \/ /\ rate # 0
          /\ Interrupts(rate) # 0
          /\ rtc_read' = [pc |-> "clear", counter |-> Interrupts(rate)]
          /\ ticks' = 0
          /\ UNCHANGED <<process_total, fd_array, virtual_freq, rtc_read_flag>>

-----------------------------------------------------------------------------
(* The loop of rtc_virtual_read and the interrupt it waits for *)

\* Mutant: the flag is not cleared before the wait.
RtcReadNoClear ==
    /\ rtc_read.pc = "clear"
    /\ rtc_read' = [rtc_read EXCEPT !.pc = "spin"]
    /\ UNCHANGED <<process_total, fd_array, virtual_freq, rtc_read_flag, ticks>>

RtcReadClear ==
    /\ rtc_read.pc = "clear"
    /\ rtc_read_flag' = 0
    /\ rtc_read' = [rtc_read EXCEPT !.pc = "spin"]
    /\ UNCHANGED <<process_total, fd_array, virtual_freq, ticks>>

\* Mutant: the counter is not decremented.
RtcReadSeenNoCount ==
    /\ rtc_read.pc = "spin"
    /\ rtc_read_flag = 1
    /\ IF rtc_read.counter = 1
         THEN rtc_read' = Idle /\ ticks' = 0
         ELSE rtc_read' = [rtc_read EXCEPT !.pc = "clear"] /\ UNCHANGED ticks
    /\ UNCHANGED <<process_total, fd_array, virtual_freq, rtc_read_flag>>

RtcReadSeen ==
    /\ rtc_read.pc = "spin"
    /\ rtc_read_flag = 1
    /\ IF rtc_read.counter = 1
         THEN rtc_read' = Idle /\ ticks' = 0
         ELSE /\ rtc_read' = [pc |-> "clear", counter |-> rtc_read.counter - 1]
              /\ UNCHANGED ticks
    /\ UNCHANGED <<process_total, fd_array, virtual_freq, rtc_read_flag>>

\* rtc_irq_handler
Tick ==
    /\ rtc_read_flag' = 1
    /\ ticks' = IF Reading /\ ticks < MaxRate THEN ticks + 1 ELSE ticks
    /\ UNCHANGED <<process_total, fd_array, virtual_freq, rtc_read>>

RtcReadStep == RtcReadClear \/ RtcReadSeen

Next == \/ Execute
        \/ Halt
        \/ \E type \in Types : Open(type)
        \/ \E fd \in Fds : Close(fd) \/ Read(fd) \/ \E value \in Values : Write(fd, value)
        \/ RtcReadStep
        \/ Tick

Spec == Init /\ [][Next]_vars

\* The clock ticks while somebody waits, and the program that waits is run.
FairSpec == Spec /\ WF_vars(Tick) /\ WF_vars(RtcReadStep)

-----------------------------------------------------------------------------
(* Properties *)

\* Type invariant: the rates in virtual_freq are those rtc_virtual_write accepts.
TypeOK ==
    /\ process_total \in 1 .. MaxPrograms
    /\ fd_array \in [Pids -> [Fds -> Types \cup {"free"}]]
    /\ virtual_freq \in [0 .. Frequencies - 1 -> {0, OneBit} \cup (PowersOfTwo \cap 1 .. MaxRate)]
    /\ rtc_read_flag \in 0 .. 1
    /\ rtc_read \in [pc : {"idle", "clear", "spin"}, counter : 0 .. MaxRate]
    /\ Reading => rtc_read.counter > 0
    /\ ticks \in 0 .. MaxRate

\* open, close, execute and halt: a table per program, whatever the programs
\* it starts do with theirs.
Tables == INSTANCE FileTables WITH
    Limit <- MaxPrograms,
    tables <- [i \in 1 .. process_total |-> fd_array[i - 1]]

ImplementsFileTables == Tables!Spec

Waiting(p) == p < process_total - 1 /\ HasRtc(p)

\* The rate of a program that waits for another changes only when that one
\* ends with its clock still open: rtc_close, called by halt after the count
\* went down, writes the wrong entry, but no other step does.
RateKept ==
    [][\A p \in Pids : Waiting(p) /\ virtual_freq'[p + 1] # virtual_freq[p + 1] =>
         p = process_total - 2 /\ process_total' = p + 1 /\ HasRtc(p + 1)]_vars

\* A read takes as many clock interrupts as its program's rate asks for, each
\* seen by the reader only once (rtc_read).
RtcReadWaits ==
    [][RtcReadSeen /\ ~Reading' => ticks >= Interrupts(virtual_freq[process_total])]_vars

\* A read ends.
RtcReadEnds == Reading ~> ~Reading
=============================================================================
