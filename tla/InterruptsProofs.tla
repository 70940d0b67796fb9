--------------------------- MODULE InterruptsProofs ---------------------------
(***************************************************************************)
(* The handlers of the keyboard and the clock for any keys and any depth   *)
(* of nesting: the types, that a handler finds what it needs and leaves no *)
(* line in service (HandlersServe), which accesses of set_rate a clock     *)
(* interrupt spoils (RateIsSet), and that the codes on their way from the  *)
(* keyboard lead from the modifier flags to what is held                   *)
(* (KeysMeanWhatIsHeld).                                                   *)
(***************************************************************************)
EXTENDS Interrupts, SequenceTheorems, TLAPS

Steps == {"idt", "pic", "paging", "keyboard_init", "rtc_init", "select_C", "read_C",
          "select_A", "read_A", "select_A_again", "write_A", "terminals", "run"}

\* The steps of the start that follow the sti of rtc_init.
Live == boot \in Steps \ {"idt", "pic", "paging", "keyboard_init", "rtc_init"}

Handlers == [irq : {KB_IRQ, RTC_IRQ}, pc : {"start", "iret"}]
Top == handlers[Len(handlers)]
Interrupted == [irq |-> RTC_IRQ, pc |-> "iret"]

Typed ==
    /\ TypeOK
    /\ boot \in Steps
    /\ handlers \in Seq(Handlers)
    /\ hit \subseteq {"read_A", "write_A"}
    /\ prev \in BOOLEAN

\* What the start has done by each of its steps.
Started ==
    /\ boot # "idt" => idt_loaded
    /\ boot \notin {"idt", "pic"} => vectors
    /\ boot \notin {"idt", "pic", "paging"} => "video" \in page_table
    /\ eflags_if \/ handlers # <<>> => Live

\* Only the handler of the clock is ever interrupted, and only at its end.
Nested ==
    /\ \A n \in 1 .. Len(handlers) - 1 : handlers[n] = Interrupted
    /\ eflags_if /\ handlers # <<>> => Top = Interrupted

\* Only the handler that runs has a line in service.
Serving == isr = IF handlers # <<>> /\ Top.pc = "start" THEN InService(Top.irq) ELSE {}

\* A clock interrupt between the two steps of an access leaves register C
\* selected, once its handler has run.
Spoils(step) ==
    boot = step =>
        /\ step \notin hit => index = "A" /\ \A n \in 1 .. Len(handlers) : handlers[n].irq # RTC_IRQ
        /\ step \in hit =>
             \/ index = "C"
             \/ handlers # <<>> /\ Top.pc = "start" /\ Top.irq = RTC_IRQ

Rate ==
    /\ Spoils("read_A") /\ Spoils("write_A")
    /\ boot \notin {"terminals", "run"} => rtc.oscillator /\ rtc.rate = 6
    /\ boot \notin {"read_A", "select_A_again", "write_A", "terminals", "run"} => "read_A" \notin hit
    /\ boot \notin {"write_A", "terminals", "run"} => "write_A" \notin hit
    /\ boot \in {"select_A_again", "write_A"} => prev = ("read_A" \notin hit)
    /\ RateIsSet

IInv == Typed /\ Started /\ Nested /\ Serving /\ Rate

-----------------------------------------------------------------------------
(* The stack of handlers *)

LEMMA Lasting ==
    ASSUME handlers \in Seq(Handlers), handlers # <<>>
    PROVE  /\ Len(handlers) \in Nat \ {0}
           /\ Top \in Handlers
           /\ Top = [irq |-> Top.irq, pc |-> Top.pc]
<1>1. Len(handlers) \in Nat \ {0}
  OBVIOUS
<1>2. Top \in Handlers
  BY <1>1 DEF Top
<1> QED
  BY <1>1, <1>2 DEF Handlers

LEMMA Pushed ==
    ASSUME handlers \in Seq(Handlers), NEW irq \in {KB_IRQ, RTC_IRQ},
           handlers' = Append(handlers, [irq |-> irq, pc |-> "start"])
    PROVE  /\ handlers' \in Seq(Handlers)
           /\ handlers' # <<>>
           /\ Len(handlers') = Len(handlers) + 1
           /\ \A n \in 1 .. Len(handlers) : handlers'[n] = handlers[n]
           /\ Top' = [irq |-> irq, pc |-> "start"]
<1>1. [irq |-> irq, pc |-> "start"] \in Handlers
  BY DEF Handlers
<1> QED
  BY <1>1 DEF Top

LEMMA Popped ==
    ASSUME handlers \in Seq(Handlers), handlers # <<>>,
           handlers' = SubSeq(handlers, 1, Len(handlers) - 1)
    PROVE  /\ handlers' \in Seq(Handlers)
           /\ Len(handlers') = Len(handlers) - 1
           /\ \A n \in 1 .. Len(handlers) - 1 : handlers'[n] = handlers[n]
           /\ handlers' # <<>> => Top' = handlers[Len(handlers) - 1] /\ Len(handlers) - 1 > 0
<1>1. Len(handlers) \in Nat \ {0}
  BY Lasting
<1>2. /\ handlers' \in Seq(Handlers) /\ Len(handlers') = Len(handlers) - 1
      /\ \A n \in 1 .. Len(handlers) - 1 : handlers'[n] = handlers[n]
  <2>1. PICK k \in Int : k = Len(handlers) - 1 /\ k \in Nat
    BY <1>1
  <2>2. \A i \in 1 .. k : handlers[i] \in Handlers
    BY <1>1, <2>1
  <2>3. /\ SubSeq(handlers, 1, k) \in Seq(Handlers)
        /\ Len(SubSeq(handlers, 1, k)) = IF 1 <= k THEN k - 1 + 1 ELSE 0
        /\ \A i \in 1 .. k - 1 + 1 : SubSeq(handlers, 1, k)[i] = handlers[1 + i - 1]
    BY <2>1, <2>2, SubSeqProperties
  <2> QED
    BY <2>1, <2>3
<1> QED
  BY <1>1, <1>2 DEF Top

LEMMA Returned ==
    ASSUME handlers \in Seq(Handlers), handlers # <<>>, AtIret
    PROVE  /\ handlers' \in Seq(Handlers)
           /\ handlers' # <<>>
           /\ Len(handlers') = Len(handlers)
           /\ \A n \in 1 .. Len(handlers) - 1 : handlers'[n] = handlers[n]
           /\ Top' = [irq |-> Top.irq, pc |-> "iret"]
<1>1. /\ Len(handlers) \in Nat \ {0} /\ Top \in Handlers
      /\ [Top EXCEPT !.pc = "iret"] = [irq |-> Top.irq, pc |-> "iret"]
      /\ [irq |-> Top.irq, pc |-> "iret"] \in Handlers
  BY Lasting DEF Handlers
<1>2. handlers' = [handlers EXCEPT ![Len(handlers)] = [irq |-> Top.irq, pc |-> "iret"]]
  BY <1>1 DEF AtIret, Top
<1> QED
  BY <1>1, <1>2 DEF Top

\* A handler that has just begun has interrupts disabled and its own line in
\* service; below it are only handlers of the clock at their end.
LEMMA Beginning ==
    ASSUME Typed, Nested, Serving, NEW irq \in {KB_IRQ, RTC_IRQ}, Running(irq, "start")
    PROVE  handlers # <<>> /\ Top = [irq |-> irq, pc |-> "start"] /\ isr = InService(irq) /\ ~eflags_if
<1>1. handlers # <<>> /\ Top = [irq |-> irq, pc |-> "start"]
  BY DEF Running, Top
<1> QED
  BY <1>1 DEF Serving, Nested, Interrupted

LEMMA Ending ==
    ASSUME Typed, Nested, Serving, NEW irq \in {KB_IRQ, RTC_IRQ}, Running(irq, "iret")
    PROVE  handlers # <<>> /\ Top = [irq |-> irq, pc |-> "iret"] /\ isr = {}
<1>1. handlers # <<>> /\ Top = [irq |-> irq, pc |-> "iret"]
  BY DEF Running, Top
<1> QED
  BY <1>1 DEF Serving

\* What interrupts is a handler or the start, with no line in service.
LEMMA Enabled ==
    ASSUME Typed, Nested, Serving, eflags_if
    PROVE  isr = {} /\ \A n \in 1 .. Len(handlers) : handlers[n] = Interrupted
<1>1. CASE handlers = <<>>
  BY <1>1 DEF Serving
<1>2. CASE handlers # <<>>
  <2>1. Top = Interrupted /\ Len(handlers) \in Nat \ {0}
    BY <1>2, Lasting DEF Nested, Typed
  <2> QED
    BY <1>2, <2>1 DEF Serving, Nested, Interrupted, Top
<1> QED
  BY <1>1, <1>2

-----------------------------------------------------------------------------
(* The steps of the start: no handler runs *)

Accesses == ReadC \/ ReadA \/ WriteA \/ Select("select_C", "read_C", "C")
            \/ Select("select_A", "read_A", "A") \/ Select("select_A_again", "write_A", "A")
Setup == LoadIdt \/ InitPic \/ InitPaging \/ KeyboardInit \/ RtcInit \/ MapTerminals

LEMMA ClockRead ==
    ASSUME NEW c \in Clock
    PROVE  [c EXCEPT !.pf = FALSE] \in Clock
BY DEF Clock

LEMMA ClockWritten ==
    ASSUME NEW c \in Clock, NEW on \in BOOLEAN, NEW rate \in 0 .. 15, NEW d,
           d = [c EXCEPT !.oscillator = on, !.rate = rate]
    PROVE  d \in Clock
BY DEF Clock

LEMMA ReadsTyped ==
    ASSUME rtc \in Clock, prev \in BOOLEAN, ReadC \/ ReadA
    PROVE  rtc' \in Clock /\ prev' \in BOOLEAN
<1>1. [rtc EXCEPT !.pf = FALSE] \in Clock
  BY ClockRead
<1>2. rtc' = rtc \/ rtc' = [rtc EXCEPT !.pf = FALSE]
  BY DEF ReadC, ReadA
<1>3. prev' = prev \/ prev' = (index = "A" /\ rtc.oscillator)
  BY DEF ReadC, ReadA
<1>4. prev' \in BOOLEAN
  BY <1>3
<1> QED
  BY <1>1, <1>2, <1>4

LEMMA WriteTyped ==
    ASSUME rtc \in Clock, prev \in BOOLEAN, WriteA
    PROVE  rtc' \in Clock /\ prev' \in BOOLEAN
<1>1. PICK rate \in 0 .. 15 : rate = RateCode(8192)
  BY RateCodeAssumption
<1>2. rtc' = rtc \/ rtc' = [rtc EXCEPT !.oscillator = prev, !.rate = rate]
  BY <1>1 DEF WriteA
<1>3. prev' = prev
  BY DEF WriteA
<1> QED
  BY <1>2, <1>3, ClockWritten

LEMMA EnableIrqTyped ==
    ASSUME TypeOK, NEW irq \in {KB_IRQ, RTC_IRQ}, EnableIrq(irq)
    PROVE  master_mask' \subseteq MasterLines /\ slave_mask' \subseteq Lines \ MasterLines
BY DEF TypeOK, EnableIrq

LEMMA SetupKeeps ==
    ASSUME IInv, Setup
    PROVE  IInv'
<1> USE DEF IInv, Setup
<1>1. handlers = <<>> /\ handlers' = <<>> /\ hit' = hit
  BY DEF LoadIdt, InitPic, InitPaging, KeyboardInit, RtcInit, MapTerminals, At
<1>2. /\ boot' \in Steps
      /\ boot' \notin {"select_A", "read_A", "select_A_again", "write_A"}
      /\ boot \notin {"select_A", "read_A", "select_A_again", "write_A"}
      /\ boot' \in {"terminals", "run"} <=> boot = "terminals"
      /\ boot # "run"
  BY DEF LoadIdt, InitPic, InitPaging, KeyboardInit, RtcInit, MapTerminals, At, Steps
<1>3. /\ rtc' \in Clock /\ rtc'.oscillator = rtc.oscillator /\ rtc'.rate = rtc.rate
      /\ prev' = prev /\ eflags_if' \in BOOLEAN
      /\ irr' \subseteq {KB_IRQ, RTC_IRQ} /\ isr' = isr
  <2>1. isr = {} /\ rtc \in Clock
    BY <1>1 DEF Serving, Typed, TypeOK
  <2> QED
    BY <2>1 DEF Typed, TypeOK, Clock, LoadIdt, InitPic, InitPaging, KeyboardInit, RtcInit,
                MapTerminals, I8259Init, memory, pic, clock
<1>4. master_mask' \subseteq MasterLines /\ slave_mask' \subseteq Lines \ MasterLines
  <2>1. KB_IRQ \in {KB_IRQ, RTC_IRQ} /\ RTC_IRQ \in {KB_IRQ, RTC_IRQ}
    OBVIOUS
  <2>2. CASE KeyboardInit \/ RtcInit
    BY <2>1, <2>2, EnableIrqTyped DEF Typed, KeyboardInit, RtcInit
  <2>3. CASE InitPic
    BY <2>3 DEF InitPic, I8259Init
  <2>4. CASE LoadIdt \/ InitPaging \/ MapTerminals
    BY <2>4 DEF LoadIdt, InitPaging, MapTerminals, pic, Typed, TypeOK
  <2> QED
    BY <2>2, <2>3, <2>4
<1>5. {shift_flag', caps_flag', ctrl_flag', alt_flag'} \subseteq {0, 1}
  BY DEF Typed, TypeOK, LoadIdt, InitPic, InitPaging, KeyboardInit, RtcInit, MapTerminals, flags
<1>6. Typed'
  BY <1>1, <1>2, <1>3, <1>4, <1>5 DEF Typed, TypeOK
<1>7. Started'
  BY <1>1 DEF Started, Live, Steps, LoadIdt, InitPic, InitPaging, KeyboardInit, RtcInit,
              MapTerminals, I8259Init, At, memory, pic
<1>8. Nested' /\ Serving'
  BY <1>1, <1>3 DEF Nested, Serving
<1>9. Rate'
  BY <1>1, <1>2, <1>3 DEF Rate, Spoils, RateIsSet
<1> QED
  BY <1>6, <1>7, <1>8, <1>9

LEMMA AccessesKeep ==
    ASSUME IInv, Accesses
    PROVE  IInv'
<1> USE DEF IInv
<1>1. /\ handlers = <<>> /\ handlers' = <<>> /\ hit' = hit
      /\ UNCHANGED <<eflags_if, memory, pic, flags>>
  BY DEF Accesses, Select, ReadC, ReadA, WriteA, At
<1>2. /\ boot \in {"select_C", "read_C", "select_A", "read_A", "select_A_again", "write_A"}
      /\ boot' \in {"read_C", "select_A", "read_A", "select_A_again", "write_A", "terminals"}
  BY DEF Accesses, Select, ReadC, ReadA, WriteA, At
<1>3. RateCode(8192) = 3 /\ rtc \in Clock /\ prev \in BOOLEAN
  BY RateCodeAssumption DEF Typed, TypeOK
<1>4. rtc' \in Clock /\ prev' \in BOOLEAN
  <2>1. CASE ReadC \/ ReadA
    BY <1>3, <2>1, ReadsTyped
  <2>2. CASE WriteA
    BY <1>3, <2>2, WriteTyped
  <2>3. CASE ~(ReadC \/ ReadA \/ WriteA)
    BY <1>3, <2>3 DEF Accesses, Select
  <2> QED
    BY <2>1, <2>2, <2>3
<1>5. Typed'
  BY <1>1, <1>2, <1>4 DEF Typed, TypeOK, Steps, pic, flags, memory
<1>6. Started' /\ Nested' /\ Serving'
  BY <1>1, <1>2 DEF Started, Live, Steps, Nested, Serving, memory, pic
<1>7. Rate'
  <2>1. CASE ReadC
    BY <1>1, <1>3, <2>1 DEF ReadC, At, Rate, Spoils, RateIsSet, Clock
  <2>2. CASE Select("select_C", "read_C", "C")
    BY <1>1, <2>2 DEF Select, At, Rate, Spoils, RateIsSet
  <2>3. CASE Select("select_A", "read_A", "A")
    BY <1>1, <2>3 DEF Select, At, Rate, Spoils, RateIsSet
  <2>4. CASE Select("select_A_again", "write_A", "A")
    BY <1>1, <2>4 DEF Select, At, Rate, Spoils, RateIsSet
  <2>5. CASE ReadA
    <3>1. (index = "A") = ("read_A" \notin hit)
      BY <1>1, <2>5 DEF ReadA, At, Rate, Spoils
    <3> QED
      BY <1>1, <1>3, <2>5, <3>1 DEF ReadA, At, Rate, Spoils, RateIsSet, Clock
  <2>6. CASE WriteA
    <3>1. (index = "A") = ("write_A" \notin hit)
      BY <1>1, <2>6 DEF WriteA, At, Rate, Spoils
    <3> QED
      BY <1>1, <1>3, <2>6, <3>1 DEF WriteA, At, Rate, Spoils, RateIsSet, Clock
  <2> QED
    BY <2>1, <2>2, <2>3, <2>4, <2>5, <2>6 DEF Accesses
<1> QED
  BY <1>5, <1>6, <1>7

-----------------------------------------------------------------------------
(* The devices, and the handlers *)

Outside == Tick \/ Present \/ \E key \in Keys : Press(key) \/ Release(key)

LEMMA OutsideKeeps ==
    ASSUME IInv, Outside \/ UNCHANGED vars
    PROVE  IInv'
<1>1. /\ UNCHANGED <<boot, eflags_if, handlers, memory, master_mask, slave_mask, vectors, isr,
                      index, prev, flags, hit>>
      /\ rtc' \in {rtc, [rtc EXCEPT !.pf = TRUE]}
      /\ irr' \in {irr, irr \cup {RTC_IRQ}, irr \cup {KB_IRQ}}
  BY DEF Outside, Tick, Present, Press, Release, Sent, pic, clock, vars
<1>2. /\ rtc' \in Clock /\ rtc'.oscillator = rtc.oscillator /\ rtc'.rate = rtc.rate
  BY <1>1 DEF Clock, IInv, Typed, TypeOK
<1> QED
  BY <1>1, <1>2 DEF IInv, Typed, TypeOK, Started, Live, Nested, Top, Serving, Rate, Spoils,
                    RateIsSet, memory, flags

LEMMA FlagTyped ==
    ASSUME NEW flag \in {0, 1}, NEW code, NEW kind
    PROVE  Flag(flag, code, kind) \in {0, 1}
BY Zenon DEF Flag

LEMMA KeyboardHandlerKeeps ==
    ASSUME IInv, KeyboardHandler
    PROVE  IInv'
<1> USE DEF IInv
<1>1. KB_IRQ \in {KB_IRQ, RTC_IRQ} /\ Running(KB_IRQ, "start") /\ AtIret
  BY DEF KeyboardHandler
<1>2. /\ handlers # <<>> /\ Top = [irq |-> KB_IRQ, pc |-> "start"]
      /\ isr = InService(KB_IRQ) /\ ~eflags_if
  BY <1>1, Beginning
<1>3. /\ handlers' \in Seq(Handlers) /\ handlers' # <<>> /\ Len(handlers') = Len(handlers)
      /\ \A n \in 1 .. Len(handlers) - 1 : handlers'[n] = handlers[n]
      /\ Top' = [irq |-> Top.irq, pc |-> "iret"]
  BY <1>1, <1>2, Returned DEF Typed
<1>4. {shift_flag', caps_flag', ctrl_flag', alt_flag'} \subseteq {0, 1}
  <2>1. /\ shift_flag \in {0, 1} /\ ctrl_flag \in {0, 1} /\ alt_flag \in {0, 1}
        /\ caps_flag \in {0, 1} /\ 1 - caps_flag \in {0, 1}
    BY DEF Typed, TypeOK
  <2>2. caps_flag' \in {caps_flag, 1 - caps_flag}
    BY DEF KeyboardHandler
  <2>3. shift_flag' \in {0, 1} /\ ctrl_flag' \in {0, 1} /\ alt_flag' \in {0, 1}
    BY <2>1, FlagTyped, Zenon DEF KeyboardHandler
  <2> QED
    BY <2>1, <2>2, <2>3
<1>5. isr' = {} /\ UNCHANGED <<boot, eflags_if, memory, master_mask, slave_mask, vectors, irr,
                                index, rtc, prev, hit>>
  BY <1>2 DEF KeyboardHandler, InService, SendEoi, MasterLines, clock
<1>6. Typed' /\ Started'
  BY <1>2, <1>3, <1>4, <1>5 DEF Typed, TypeOK, Started, Live, memory
<1>7. Nested' /\ Serving'
  BY <1>2, <1>3, <1>5 DEF Nested, Serving
<1>8. Rate'
  <2>1. \A n \in 1 .. Len(handlers') : handlers'[n].irq = handlers[n].irq
    BY <1>2, <1>3, Lasting DEF Typed, Top
  <2>2. Top.irq # RTC_IRQ
    BY <1>2 DEF KB_IRQ, RTC_IRQ
  <2>3. (Spoils("read_A") => Spoils("read_A")') /\ (Spoils("write_A") => Spoils("write_A")')
    BY <1>3, <1>5, <2>1, <2>2 DEF Spoils
  <2> QED
    BY <1>5, <2>3 DEF Rate, RateIsSet
<1> QED
  BY <1>6, <1>7, <1>8

LEMMA RtcIrqHandlerKeeps ==
    ASSUME IInv, RtcIrqHandler
    PROVE  IInv'
<1> USE DEF IInv
<1>1. RTC_IRQ \in {KB_IRQ, RTC_IRQ} /\ Running(RTC_IRQ, "start") /\ AtIret
  BY DEF RtcIrqHandler
<1>2. /\ handlers # <<>> /\ Top = [irq |-> RTC_IRQ, pc |-> "start"]
      /\ isr = InService(RTC_IRQ)
  BY <1>1, Beginning
<1>3. /\ handlers' \in Seq(Handlers) /\ handlers' # <<>> /\ Len(handlers') = Len(handlers)
      /\ \A n \in 1 .. Len(handlers) - 1 : handlers'[n] = handlers[n]
      /\ Top' = Interrupted
  BY <1>1, <1>2, Returned DEF Typed, Interrupted
<1>4. /\ rtc' \in Clock /\ rtc'.oscillator = rtc.oscillator /\ rtc'.rate = rtc.rate
      /\ isr' = {} /\ index' = "C" /\ eflags_if' = TRUE
      /\ UNCHANGED <<boot, memory, master_mask, slave_mask, vectors, irr, prev, flags, hit>>
  BY <1>2 DEF RtcIrqHandler, InService, SendEoi, MasterLines, Typed, TypeOK, Clock, RTC_IRQ
<1>5. Typed' /\ Started'
  BY <1>2, <1>3, <1>4 DEF Typed, TypeOK, Started, Live, memory, flags
<1>6. Nested' /\ Serving'
  BY <1>2, <1>3, <1>4 DEF Nested, Serving, Interrupted
<1>7. Rate'
  <2>1. \A step \in {"read_A", "write_A"} : Spoils(step) /\ boot = step => step \in hit
    BY <1>2, Lasting DEF Spoils, Typed, Top
  <2>2. Spoils("read_A")' /\ Spoils("write_A")'
    BY <1>4, <2>1 DEF Spoils, Rate
  <2> QED
    BY <1>4, <2>2 DEF Rate, RateIsSet
<1> QED
  BY <1>5, <1>6, <1>7

LEMMA IretKeeps ==
    ASSUME IInv, Iret
    PROVE  IInv'
<1> USE DEF IInv
<1>1. PICK irq \in {KB_IRQ, RTC_IRQ} : Running(irq, "iret")
  BY DEF Iret
<1>2. handlers # <<>> /\ Top = [irq |-> irq, pc |-> "iret"] /\ isr = {}
  BY <1>1, Ending
<1>3. /\ handlers' \in Seq(Handlers) /\ Len(handlers') = Len(handlers) - 1
      /\ \A n \in 1 .. Len(handlers) - 1 : handlers'[n] = handlers[n]
      /\ handlers' # <<>> => Top' = handlers[Len(handlers) - 1] /\ Len(handlers) - 1 > 0
      /\ Len(handlers) \in Nat \ {0}
  BY <1>2, Popped, Lasting DEF Iret, Typed
<1>4. handlers' # <<>> => Top' = Interrupted
  BY <1>3 DEF Nested
<1>5. eflags_if' = TRUE /\ UNCHANGED <<boot, memory, pic, clock, prev, flags, hit>>
  BY DEF Iret
<1>6. Typed' /\ Started'
  BY <1>2, <1>3, <1>5 DEF Typed, TypeOK, Started, Live, memory, flags, pic, clock
<1>7. Nested' /\ Serving'
  <2>1. \A n \in 1 .. Len(handlers') - 1 : handlers'[n] = Interrupted
    BY <1>3 DEF Nested
  <2>2. isr' = {}
    BY <1>2, <1>5 DEF pic
  <2> QED
    BY <1>4, <2>1, <2>2 DEF Nested, Serving, Interrupted
<1>8. Rate'
  <2>1. /\ Top.pc # "start"
        /\ \A n \in 1 .. Len(handlers') : n \in 1 .. Len(handlers) /\ handlers'[n] = handlers[n]
    BY <1>2, <1>3
  <2>2. (Spoils("read_A") => Spoils("read_A")') /\ (Spoils("write_A") => Spoils("write_A")')
    BY <1>5, <2>1 DEF Spoils, clock
  <2> QED
    BY <1>5, <2>2 DEF Rate, RateIsSet, clock
<1> QED
  BY <1>6, <1>7, <1>8

LEMMA InterruptKeeps ==
    ASSUME IInv, NEW irq \in {KB_IRQ, RTC_IRQ}, Interrupt(irq)
    PROVE  IInv'
<1> USE DEF IInv
<1>1. /\ isr = {} /\ \A n \in 1 .. Len(handlers) : handlers[n] = Interrupted
      /\ Live
  BY Enabled DEF Interrupt, Started
<1>2. /\ handlers' \in Seq(Handlers) /\ handlers' # <<>>
      /\ Len(handlers') = Len(handlers) + 1 /\ Len(handlers) \in Nat
      /\ \A n \in 1 .. Len(handlers) : handlers'[n] = handlers[n]
      /\ Top' = [irq |-> irq, pc |-> "start"]
  BY Pushed DEF Interrupt, Typed
<1>3. /\ isr' = InService(irq) /\ isr' \subseteq {KB_IRQ, CASCADE, RTC_IRQ}
      /\ irr' \subseteq {KB_IRQ, RTC_IRQ}
      /\ eflags_if' = FALSE
      /\ UNCHANGED <<boot, memory, master_mask, slave_mask, vectors, index, rtc, prev, flags>>
  BY <1>1 DEF Interrupt, InService, clock, Typed, TypeOK
<1>4. /\ hit \subseteq hit' /\ hit' \subseteq hit \cup {boot}
      /\ hit' # hit => boot \in {"read_A", "write_A"}
      /\ hit' \subseteq {"read_A", "write_A"}
  BY DEF Interrupt, Typed
<1>5. Typed' /\ Started'
  BY <1>1, <1>2, <1>3, <1>4 DEF Typed, TypeOK, Started, Live, memory, flags
<1>6. Nested'
  <2>1. \A n \in 1 .. Len(handlers') - 1 : n \in 1 .. Len(handlers)
    BY <1>2
  <2> QED
    BY <1>1, <1>2, <1>3, <2>1 DEF Nested
<1>7. Serving'
  BY <1>2, <1>3 DEF Serving, InService
<1>8. ASSUME NEW step \in {"read_A", "write_A"}, Spoils(step)
      PROVE  Spoils(step)'
  <2>1. SUFFICES ASSUME boot = step
                 PROVE  Spoils(step)'
    BY <1>3 DEF Spoils
  <2>2. handlers # <<>> => step \in hit
    <3>1. handlers # <<>> => 1 \in 1 .. Len(handlers) /\ handlers[1].irq = RTC_IRQ
      BY <1>1, <1>2 DEF Interrupted, Typed
    <3> QED
      BY <1>8, <2>1, <3>1 DEF Spoils
  <2>3. CASE irq = RTC_IRQ
    <3>1. step \in hit'
      BY <2>1, <2>2, <2>3 DEF Interrupt
    <3> QED
      BY <1>2, <2>3, <3>1 DEF Spoils
  <2>4. CASE irq = KB_IRQ
    <3>1. hit' = hit
      BY <2>4 DEF Interrupt, KB_IRQ, RTC_IRQ
    <3>2. step \in hit => index = "C"
      BY <1>1, <1>2, <1>8, <2>1 DEF Spoils, Top, Interrupted
    <3>3. step \notin hit => index = "A" /\ Len(handlers) = 0
      BY <1>2, <1>8, <2>1, <2>2 DEF Spoils, Typed
    <3>4. step \notin hit => \A n \in 1 .. Len(handlers') : handlers'[n] = [irq |-> KB_IRQ, pc |-> "start"]
      BY <1>2, <2>4, <3>3 DEF Top
    <3> QED
      BY <1>3, <3>1, <3>2, <3>3, <3>4 DEF Spoils, KB_IRQ, RTC_IRQ
  <2> QED
    BY <2>3, <2>4
<1>9. Rate'
  <2>1. boot \notin {"read_A", "write_A"} => hit' = hit
    BY <1>4
  <2>2. Spoils("read_A")' /\ Spoils("write_A")'
    BY <1>8 DEF Rate
  <2> QED
    <3>1. boot # "read_A" => ("read_A" \in hit' <=> "read_A" \in hit)
      BY <1>4
    <3>2. boot # "write_A" => ("write_A" \in hit' <=> "write_A" \in hit)
      BY <1>4
    <3> QED
      BY <1>3, <2>1, <2>2, <3>1, <3>2 DEF Rate, RateIsSet
<1> QED
  BY <1>5, <1>6, <1>7, <1>9

-----------------------------------------------------------------------------
LEMMA Initially == Init => IInv
<1> SUFFICES ASSUME Init PROVE IInv
  OBVIOUS
<1>1. Typed
  <2>1. rtc \in Clock /\ boot \in Steps /\ handlers \in Seq(Handlers) /\ hit = {} /\ prev \in BOOLEAN
    BY DEF Init, Clock, Steps
  <2>2. /\ eflags_if \in BOOLEAN /\ irr = {} /\ isr = {}
        /\ master_mask \subseteq MasterLines /\ slave_mask \subseteq Lines \ MasterLines
    <3>1. KB_IRQ \in MasterLines /\ RTC_IRQ \in Lines \ MasterLines
      BY DEF MasterLines, Lines, KB_IRQ, RTC_IRQ
    <3>2. master_mask \in SUBSET {KB_IRQ} /\ slave_mask = {RTC_IRQ} /\ eflags_if = FALSE
      BY DEF Init
    <3>3. irr = {} /\ isr = {}
      BY DEF Init
    <3> QED
      BY <3>1, <3>2, <3>3
  <2>3. {shift_flag, caps_flag, ctrl_flag, alt_flag} \subseteq {0, 1}
    BY DEF Init
  <2> QED
    BY <2>1, <2>2, <2>3 DEF Typed, TypeOK
<1>2. Started /\ Nested /\ Serving
  BY DEF Init, Started, Nested, Serving
<1>3. Rate
  BY DEF Init, Rate, Spoils, RateIsSet
<1> QED
  BY <1>1, <1>2, <1>3 DEF IInv

LEMMA Inductive == IInv /\ [Next]_vars => IInv'
<1> SUFFICES ASSUME IInv, [Next]_vars PROVE IInv'
  OBVIOUS
<1>1. CASE Boot
  <2>1. Setup \/ Accesses
    BY <1>1 DEF Boot, Setup, Accesses
  <2> QED
    BY <2>1, SetupKeeps, AccessesKeep
<1>2. CASE RtcIrqHandler
  BY <1>2, RtcIrqHandlerKeeps
<1>3. CASE KeyboardHandler
  BY <1>3, KeyboardHandlerKeeps
<1>4. CASE Iret
  BY <1>4, IretKeeps
<1>5. CASE Outside \/ UNCHANGED vars
  BY <1>5, OutsideKeeps
<1>6. CASE \E irq \in {KB_IRQ, RTC_IRQ} : Interrupt(irq)
  BY <1>6, InterruptKeeps
<1> QED
  BY <1>1, <1>2, <1>3, <1>4, <1>5, <1>6 DEF Next, Kernel, Devices, Outside

LEMMA Always == Spec => []IInv
BY Initially, Inductive, PTL DEF Spec

\* The masks name lines of their own controller, only the lines of keyboard
\* and clock are ever requested or in service, and the flags of keyboard.c
\* stay 0 or 1.
THEOREM TypeCorrect == Spec => []TypeOK
<1>1. IInv => TypeOK
  BY DEF IInv, Typed
<1> QED
  BY <1>1, Always, PTL

\* Every handler that runs has its gate, the vectors, the IDT and the screen's
\* page, and a line is in service exactly while its handler has not sent the
\* end of interrupt: for any keys and any depth of nesting.
THEOREM HandlersAreServed == Spec => []HandlersServe
<1>1. ASSUME IInv PROVE HandlersServe
  <2>1. handlers # <<>> => idt_loaded /\ vectors /\ "video" \in page_table
    BY <1>1 DEF IInv, Started, Live
  <2>2. ASSUME NEW n \in DOMAIN handlers
        PROVE  LET gate == Gate(Vector(handlers[n].irq)) IN
               gate.present /\ gate.handler = (IF handlers[n].irq = KB_IRQ THEN "keyboard_handler"
                                                                           ELSE "rtc_irq_handler")
    <3>1. handlers[n] \in Handlers
      BY <1>1, <2>2 DEF IInv, Typed
    <3>2. handlers[n].irq \in {KB_IRQ, RTC_IRQ}
      BY <3>1 DEF Handlers
    <3>3. Vector(KB_IRQ) = 33 /\ Vector(RTC_IRQ) = 40
      BY DEF Vector, KB_IRQ, RTC_IRQ, MasterLines
    <3>4. /\ Gate(33).present /\ Gate(33).handler = "keyboard_handler"
          /\ Gate(40).present /\ Gate(40).handler = "rtc_irq_handler"
      <4>1. Gate(33).present /\ Gate(40).present
        BY DEF Gate
      <4>2. Gate(33).handler = "keyboard_handler"
        BY DEF Gate
      <4>3. Gate(40).handler = "rtc_irq_handler"
        BY DEF Gate
      <4> QED
        BY <4>1, <4>2, <4>3
    <3> QED
      BY <3>2, <3>3, <3>4 DEF KB_IRQ, RTC_IRQ
  <2>3. isr = UNION {InService(irq) : irq \in Starting}
    <3>1. CASE handlers = <<>>
      <4>1. Starting = {}
        BY <3>1 DEF Starting
      <4> QED
        BY <1>1, <3>1, <4>1 DEF IInv, Serving
    <3>2. CASE handlers # <<>>
      <4>1. /\ Len(handlers) \in Nat \ {0} /\ DOMAIN handlers = 1 .. Len(handlers)
            /\ Top \in Handlers
        BY <1>1, <3>2, Lasting DEF IInv, Typed
      <4>2. \A n \in DOMAIN handlers : n # Len(handlers) => handlers[n].pc # "start"
        BY <1>1, <4>1 DEF IInv, Nested, Interrupted
      <4>3. Starting = IF Top.pc = "start" THEN {Top.irq} ELSE {}
        BY <4>1, <4>2 DEF Starting, Top
      <4> QED
        BY <1>1, <3>2, <4>3 DEF IInv, Serving
    <3> QED
      BY <3>1, <3>2
  <2> QED
    BY <2>1, <2>2, <2>3 DEF HandlersServe
<1> QED
  BY <1>1, Always, PTL

\* After rtc_init the clock runs at 8192 Hz, except in the two cases of a
\* clock interrupt between the steps of set_rate's read or of its write.
THEOREM RateGetsSet == Spec => []RateIsSet
<1>1. IInv => RateIsSet
  BY DEF IInv, Rate
<1> QED
  BY <1>1, Always, PTL

-----------------------------------------------------------------------------
(* The modifier flags.  With the codes that the keyboard has not sent yet  *)
(* they make up what is held: each code says which kinds of modifiers were *)
(* held when it was made, and so does the flag after it is handled.  The   *)
(* prefix of an extended key says nothing, its second code follows.        *)

ModifierKeys == {"lshift", "rshift", "lctrl", "rctrl", "lalt", "ralt"}
ModifierKinds == {"shift", "ctrl", "alt"}
Releases == {"shift released", "ctrl released", "alt released"}
Codes == PhysicalKeys \cup {"extended"} \cup Releases
Entries == [code : Codes, held : SUBSET ModifierKeys]

KindsOf(down) == {kind \in ModifierKinds : \E key \in down : Kinds[key] = kind}

Flagged ==
    {kind \in ModifierKinds :
        \/ kind = "shift" /\ shift_flag = 1
        \/ kind = "ctrl" /\ ctrl_flag = 1
        \/ kind = "alt" /\ alt_flag = 1}

After(kinds, code) ==
    {kind \in ModifierKinds :
        code # Released[kind] /\ (kind \in kinds \/ code \in Modifiers(kind))}

\* What was held before code n of q was made, if start was before them all.
Before(q, start, n) ==
    IF n = 1 THEN start
    ELSE IF q[n - 1].code # "extended" THEN KindsOf(q[n - 1].held)
    ELSE IF n = 2 THEN start ELSE KindsOf(q[n - 2].held)

Prefixed(q) ==
    \A n \in 1 .. Len(q) : q[n].code = "extended" => n < Len(q) /\ q[n + 1].code # "extended"

Leads(q, start, end) ==
    /\ Prefixed(q)
    /\ \A n \in 1 .. Len(q) :
         q[n].code # "extended" => KindsOf(q[n].held) = After(Before(q, start, n), q[n].code)
    /\ end = Before(q, start, Len(q) + 1)

\* Of each kind at most one key is held.
Apart == \A one, other \in held : Kinds[one] = Kinds[other] => one = other

\* The line of the keyboard is up, or its handler has begun, for a code.
Pending ==
    /\ KB_IRQ \in irr => full /\ ~Running(KB_IRQ, "start")
    /\ Running(KB_IRQ, "start") => full
    /\ full => queue # <<>>

KeysInv ==
    /\ IInv
    /\ queue \in Seq(Entries) /\ held \subseteq ModifierKeys
    /\ Pending
    /\ ~Live => Flagged = {}
    /\ ~overlap => Apart /\ Leads(queue, Flagged, KindsOf(held)) /\ KeysMeanWhatIsHeld

LEMMA ModifierFacts ==
    /\ DOMAIN Kinds = ModifierKeys /\ \A key \in ModifierKeys : Kinds[key] \in ModifierKinds
    /\ DOMAIN Released = ModifierKinds
    /\ \A kind \in ModifierKinds : Released[kind] \in Releases
    /\ \A one, other \in ModifierKinds : Released[one] = Released[other] => one = other
    /\ \A kind \in ModifierKinds : Modifiers(kind) \subseteq ModifierKeys
    /\ \A key \in ModifierKeys, kind \in ModifierKinds : key \in Modifiers(kind) <=> Kinds[key] = kind
    /\ ModifierKeys \subseteq PhysicalKeys
    /\ "extended" \notin PhysicalKeys \cup Releases /\ PhysicalKeys \cap Releases = {}
<1>1. DOMAIN Kinds = ModifierKeys /\ \A key \in ModifierKeys : Kinds[key] \in ModifierKinds
  BY DEF Kinds, ModifierKeys, ModifierKinds
<1>2. /\ DOMAIN Released = ModifierKinds
      /\ \A kind \in ModifierKinds : Released[kind] \in Releases
      /\ \A one, other \in ModifierKinds : Released[one] = Released[other] => one = other
  BY DEF Released, Releases, ModifierKinds
<1>3. /\ ModifierKeys \subseteq PhysicalKeys
      /\ "extended" \notin PhysicalKeys \cup Releases /\ PhysicalKeys \cap Releases = {}
  BY DEF ModifierKeys, PhysicalKeys, Releases
<1> QED
  BY <1>1, <1>2, <1>3 DEF Modifiers

\* A key without a prefix.
LEMMA LeadsOne ==
    ASSUME NEW q \in Seq(Entries), NEW start, NEW end, Leads(q, start, end),
           NEW e \in Entries, e.code # "extended", KindsOf(e.held) = After(end, e.code)
    PROVE  Leads(Append(q, e), start, KindsOf(e.held))
<1> DEFINE r == Append(q, e)
<1>1. PICK l \in Nat : l = Len(q)
  BY LenProperties
<1>2. /\ Len(r) = l + 1 /\ r[l + 1] = e
      /\ \A n \in 1 .. l : r[n] = q[n]
  BY <1>1, AppendProperties
<1> HIDE DEF r
<1>3. Prefixed(r)
  <2> SUFFICES ASSUME NEW n \in 1 .. l + 1, r[n].code = "extended"
               PROVE  n < l + 1 /\ r[n + 1].code # "extended"
    BY <1>2 DEF Prefixed
  <2>1. n \in 1 .. l
    BY <1>1, <1>2
  <2>2. n < l /\ q[n + 1].code # "extended" /\ n + 1 \in 1 .. l
    BY <1>1, <1>2, <2>1 DEF Leads, Prefixed
  <2> QED
    BY <1>2, <2>2
<1>4. \A n \in 1 .. l + 1 : Before(r, start, n) = Before(q, start, n)
  <2> SUFFICES ASSUME NEW n \in 1 .. l + 1 PROVE Before(r, start, n) = Before(q, start, n)
    OBVIOUS
  <2>1. n # 1 => r[n - 1] = q[n - 1]
    BY <1>1, <1>2
  <2>2. n # 1 /\ n # 2 => r[n - 2] = q[n - 2]
    BY <1>1, <1>2
  <2> QED
    BY <2>1, <2>2 DEF Before
<1>5. \A n \in 1 .. l + 1 :
        r[n].code # "extended" => KindsOf(r[n].held) = After(Before(r, start, n), r[n].code)
  <2> SUFFICES ASSUME NEW n \in 1 .. l + 1, r[n].code # "extended"
               PROVE  KindsOf(r[n].held) = After(Before(r, start, n), r[n].code)
    OBVIOUS
  <2>1. CASE n \in 1 .. l
    BY <1>1, <1>2, <1>4, <2>1 DEF Leads
  <2>2. CASE n = l + 1
    BY <1>1, <1>2, <1>4, <2>2 DEF Leads
  <2> QED
    BY <1>1, <2>1, <2>2
<1>6. Before(r, start, l + 1 + 1) = KindsOf(e.held)
  BY <1>1, <1>2 DEF Before
<1> QED
  BY <1>2, <1>3, <1>5, <1>6 DEF Leads, r

\* A key with a prefix.
LEMMA LeadsTwo ==
    ASSUME NEW q \in Seq(Entries), NEW start, NEW end, Leads(q, start, end),
           NEW p \in Entries, p.code = "extended",
           NEW e \in Entries, e.code # "extended", KindsOf(e.held) = After(end, e.code)
    PROVE  Leads(Append(Append(q, p), e), start, KindsOf(e.held))
<1> DEFINE r == Append(Append(q, p), e)
<1>1. PICK l \in Nat : l = Len(q)
  BY LenProperties
<1>2. /\ Len(r) = l + 2 /\ r[l + 2] = e /\ r[l + 1] = p
      /\ \A n \in 1 .. l : r[n] = q[n]
  <2>1. /\ Append(q, p) \in Seq(Entries) /\ Len(Append(q, p)) = l + 1
        /\ Append(q, p)[l + 1] = p /\ \A n \in 1 .. l : Append(q, p)[n] = q[n]
    BY <1>1, AppendProperties
  <2>2. /\ Len(r) = l + 1 + 1 /\ r[l + 1 + 1] = e
        /\ \A n \in 1 .. l + 1 : r[n] = Append(q, p)[n]
    BY <2>1, AppendProperties
  <2> QED
    BY <1>1, <2>1, <2>2
<1> HIDE DEF r
<1>3. Prefixed(r)
  <2> SUFFICES ASSUME NEW n \in 1 .. l + 2, r[n].code = "extended"
               PROVE  n < l + 2 /\ r[n + 1].code # "extended"
    BY <1>2 DEF Prefixed
  <2>1. CASE n \in 1 .. l
    <3>1. n < l /\ q[n + 1].code # "extended" /\ n + 1 \in 1 .. l
      BY <1>1, <1>2, <2>1 DEF Leads, Prefixed
    <3> QED
      BY <1>2, <3>1
  <2>2. CASE n = l + 1
    BY <1>1, <1>2, <2>2
  <2> QED
    BY <1>1, <1>2, <2>1, <2>2
<1>4. \A n \in 1 .. l + 1 : Before(r, start, n) = Before(q, start, n)
  <2> SUFFICES ASSUME NEW n \in 1 .. l + 1 PROVE Before(r, start, n) = Before(q, start, n)
    OBVIOUS
  <2>1. n # 1 => r[n - 1] = q[n - 1]
    BY <1>1, <1>2
  <2>2. n # 1 /\ n # 2 => r[n - 2] = q[n - 2]
    BY <1>1, <1>2
  <2> QED
    BY <2>1, <2>2 DEF Before
<1>5. Before(r, start, l + 2) = end
  <2>1. l = 0 => Before(r, start, l + 2) = start /\ end = start
    BY <1>1, <1>2 DEF Before, Leads
  <2>2. l # 0 => /\ Before(r, start, l + 2) = KindsOf(q[l].held)
                 /\ q[l].code # "extended"
    BY <1>1, <1>2 DEF Before, Leads, Prefixed
  <2>3. l # 0 /\ q[l].code # "extended" => end = KindsOf(q[l].held)
    BY <1>1 DEF Before, Leads
  <2> QED
    BY <2>1, <2>2, <2>3
<1>6. \A n \in 1 .. l + 2 :
        r[n].code # "extended" => KindsOf(r[n].held) = After(Before(r, start, n), r[n].code)
  <2> SUFFICES ASSUME NEW n \in 1 .. l + 2, r[n].code # "extended"
               PROVE  KindsOf(r[n].held) = After(Before(r, start, n), r[n].code)
    OBVIOUS
  <2>1. CASE n \in 1 .. l
    BY <1>1, <1>2, <1>4, <2>1 DEF Leads
  <2>2. CASE n = l + 2
    BY <1>1, <1>2, <1>5, <2>2
  <2> QED
    BY <1>1, <1>2, <2>1, <2>2
<1>7. Before(r, start, l + 2 + 1) = KindsOf(e.held)
  BY <1>1, <1>2 DEF Before
<1> QED
  BY <1>2, <1>3, <1>6, <1>7 DEF Leads, r

\* The first code is handled.
LEMMA LeadsRest ==
    ASSUME NEW q \in Seq(Entries), q # <<>>, NEW start, NEW end, Leads(q, start, end)
    PROVE  /\ q[1].code # "extended" => /\ Leads(Tail(q), KindsOf(q[1].held), end)
                                        /\ KindsOf(q[1].held) = After(start, q[1].code)
           /\ q[1].code = "extended" => Leads(Tail(q), start, end)
<1> DEFINE r == Tail(q)
           first == IF q[1].code # "extended" THEN KindsOf(q[1].held) ELSE start
<1>1. PICK l \in Nat : l > 0 /\ l = Len(q) /\ 1 \in 1 .. l
  BY LenProperties, EmptySeq
<1>2. Len(r) = l - 1 /\ \A n \in 1 .. l - 1 : r[n] = q[n + 1]
  BY <1>1, HeadTailProperties
<1> HIDE DEF r, first
<1>3. Prefixed(r)
  <2> SUFFICES ASSUME NEW n \in 1 .. l - 1, r[n].code = "extended"
               PROVE  n < l - 1 /\ r[n + 1].code # "extended"
    BY <1>2 DEF Prefixed
  <2>1. n + 1 \in 1 .. l /\ q[n + 1].code = "extended"
    BY <1>1, <1>2
  <2>2. n + 1 < l /\ q[n + 1 + 1].code # "extended" /\ n + 1 \in 1 .. l - 1
    BY <1>1, <2>1 DEF Leads, Prefixed
  <2> QED
    BY <1>1, <1>2, <2>2
<1>4. \A n \in 1 .. l : Before(r, first, n) = Before(q, start, n + 1)
  <2> SUFFICES ASSUME NEW n \in 1 .. l PROVE Before(r, first, n) = Before(q, start, n + 1)
    OBVIOUS
  <2>1. CASE n = 1
    BY <1>1, <2>1 DEF Before, first
  <2>2. CASE n = 2
    <3>1. r[1] = q[2]
      BY <1>1, <1>2, <2>2
    <3>2. q[2].code = "extended" => q[1].code # "extended"
      BY <1>1 DEF Leads, Prefixed
    <3>3. /\ Before(r, first, 2) = IF r[1].code # "extended" THEN KindsOf(r[1].held) ELSE first
          /\ Before(q, start, 3) = IF q[2].code # "extended" THEN KindsOf(q[2].held)
                                                            ELSE KindsOf(q[1].held)
      BY DEF Before
    <3> QED
      BY <2>2, <3>1, <3>2, <3>3 DEF first
  <2>3. CASE n > 2
    <3>1. r[n - 1] = q[n] /\ r[n - 2] = q[n - 1]
      BY <1>1, <1>2, <2>3
    <3>2. n + 1 - 1 = n /\ n + 1 - 2 = n - 1 /\ n # 1 /\ n # 2 /\ n + 1 # 1 /\ n + 1 # 2
      BY <2>3
    <3> QED
      BY <3>1, <3>2 DEF Before
  <2> QED
    BY <1>1, <2>1, <2>2, <2>3
<1>5. \A n \in 1 .. l - 1 :
        r[n].code # "extended" => KindsOf(r[n].held) = After(Before(r, first, n), r[n].code)
  <2> SUFFICES ASSUME NEW n \in 1 .. l - 1, r[n].code # "extended"
               PROVE  KindsOf(r[n].held) = After(Before(r, first, n), r[n].code)
    OBVIOUS
  <2>1. n + 1 \in 1 .. l /\ n \in 1 .. l /\ r[n] = q[n + 1]
    BY <1>1, <1>2
  <2>2. KindsOf(q[n + 1].held) = After(Before(q, start, n + 1), q[n + 1].code)
    BY <1>1, <2>1 DEF Leads
  <2> QED
    BY <1>4, <2>1, <2>2
<1>6. end = Before(r, first, l - 1 + 1)
  <2>1. end = Before(q, start, l + 1) /\ l - 1 + 1 = l /\ l \in 1 .. l
    BY <1>1 DEF Leads
  <2> QED
    BY <1>4, <2>1
<1>7. Leads(r, first, end)
  BY <1>2, <1>3, <1>5, <1>6 DEF Leads
<1>8. q[1].code # "extended" => KindsOf(q[1].held) = After(start, q[1].code)
  BY <1>1 DEF Leads, Before
<1> QED
  BY <1>7, <1>8 DEF first, r

-----------------------------------------------------------------------------
(* What the handler does with a code, its flags being what is held.        *)

LEMMA FlagMeans ==
    ASSUME NEW flag \in {0, 1}, NEW code, NEW kind \in ModifierKinds
    PROVE  Flag(flag, code, kind) = 1 <=>
             code # Released[kind] /\ (flag = 1 \/ code \in Modifiers(kind))
<1>1. code \in Modifiers(kind) => code # Released[kind]
  BY ModifierFacts
<1>2. CASE code \in Modifiers(kind)
  BY <1>1, <1>2 DEF Flag
<1>3. CASE code \notin Modifiers(kind)
  BY <1>3 DEF Flag
<1> QED
  BY <1>2, <1>3

LEMMA Indexed ==
    ASSUME NEW shift \in {0, 1}, NEW caps \in {0, 1}, NEW ctrl \in {0, 1}, NEW alt \in {0, 1},
           NEW code \in {"letter", "L", "C", "digit", "F", "arrow", "caps"},
           ~(code \in {"L", "C"} /\ ctrl = 1), ~(code = "F" /\ alt = 1)
    PROVE  Does(code, shift, caps, ctrl, alt) =
             IF code \in {"letter", "L", "C"} THEN IF shift = caps THEN "small" ELSE "capital"
             ELSE IF code = "digit" THEN IF shift = 1 THEN "symbol" ELSE "digit" ELSE "dead"
<1> DEFINE index_ == CASE shift = 1 /\ caps = 1 -> "SHIFT_CAPS"
                       [] shift = 1 /\ caps = 0 -> "SHIFT"
                       [] shift = 0 /\ caps = 1 -> "CAPS"
                       [] OTHER -> "NORMAL"
<1>1. code \notin DOMAIN Kinds \cup {"extended"}
  BY ModifierFacts DEF ModifierKeys
<1>2. code \notin {Released[kind] : kind \in DOMAIN Released}
  <2>1. code \notin Releases
    BY DEF Releases
  <2>2. DOMAIN Released = ModifierKinds /\ \A kind \in ModifierKinds : Released[kind] \in Releases
    BY ModifierFacts
  <2> QED BY <2>1, <2>2
<1>3. Does(code, shift, caps, ctrl, alt) = Table(index_, code)
  BY <1>1, <1>2 DEF Does
<1>4. /\ index_ \in {"SHIFT", "CAPS"} <=> shift # caps
      /\ index_ \in {"SHIFT", "SHIFT_CAPS"} <=> shift = 1
  OBVIOUS
<1> HIDE DEF index_
<1> QED
  BY <1>3, <1>4 DEF Table

LEMMA Understood ==
    ASSUME NEW shift \in {0, 1}, NEW caps \in {0, 1}, NEW ctrl \in {0, 1}, NEW alt \in {0, 1},
           NEW code \in Codes, NEW down \in SUBSET ModifierKeys,
           code # "extended" =>
             /\ shift = 1 <=> "shift" \in KindsOf(down)
             /\ ctrl = 1 <=> "ctrl" \in KindsOf(down)
             /\ alt = 1 <=> "alt" \in KindsOf(down),
           meant' = [code |-> code, held |-> down, caps |-> caps,
                     does |-> Does(code, shift, caps, ctrl, alt)]
    PROVE  KeysMeanWhatIsHeld'
<1> DEFINE is(kind) == \E key \in down : Kinds[key] = kind
           does == Does(code, shift, caps, ctrl, alt)
           meaning == CASE code = "L" /\ is("ctrl") -> "terminal_clear_and_reset"
                        [] code = "C" /\ is("ctrl") -> "halt"
                        [] code = "letter" \/ (code \in {"L", "C"} /\ ~is("ctrl")) ->
                             IF is("shift") = (caps = 1) THEN "small" ELSE "capital"
                        [] code = "digit" -> IF is("shift") THEN "symbol" ELSE "digit"
                        [] code = "F" /\ is("alt") -> "terminal_switch"
                        [] code \in {"arrow", "caps"} \/ (code = "F" /\ ~is("alt")) -> "dead"
                        [] OTHER -> does
<1>1. code # "extended" => /\ shift = 1 <=> is("shift")
                           /\ ctrl = 1 <=> is("ctrl")
                           /\ alt = 1 <=> is("alt")
  BY DEF KindsOf, ModifierKinds
<1>2. does = meaning => KeysMeanWhatIsHeld'
  <2>1. meant'.does = does /\ meant'.code = code /\ meant'.held = down /\ meant'.caps = caps
    OBVIOUS
  <2> HIDE DEF does
  <2>2. SUFFICES ASSUME does = meaning PROVE KeysMeanWhatIsHeld'
    OBVIOUS
  <2> QED
    BY <2>1, <2>2 DEF KeysMeanWhatIsHeld, Meaning
<1>4. code \in {"L", "C", "F"} =>
        /\ code \notin DOMAIN Kinds \cup {"extended"}
        /\ code \notin {Released[kind] : kind \in DOMAIN Released}
  <2>1. code \in {"L", "C", "F"} => code \notin DOMAIN Kinds \cup {"extended"}
    BY ModifierFacts DEF ModifierKeys
  <2>2. code \in {"L", "C", "F"} => code \notin {Released[kind] : kind \in DOMAIN Released}
    BY ModifierFacts DEF Releases
  <2> QED
    BY <2>1, <2>2
<1>5. CASE code = "L" /\ ctrl = 1
  <2>1. does = "terminal_clear_and_reset"
    BY <1>4, <1>5 DEF Does
  <2>2. meaning = "terminal_clear_and_reset"
    BY <1>1, <1>5
  <2> QED
    BY <1>2, <2>1, <2>2
<1>6. CASE code = "C" /\ ctrl = 1
  <2>1. does = "halt"
    BY <1>4, <1>6 DEF Does
  <2>2. meaning = "halt"
    BY <1>1, <1>6
  <2> QED
    BY <1>2, <2>1, <2>2
<1>7. CASE code = "F" /\ alt = 1
  <2>1. does = "terminal_switch"
    BY <1>4, <1>7 DEF Does
  <2>2. meaning = "terminal_switch"
    BY <1>1, <1>7
  <2> QED
    BY <1>2, <2>1, <2>2
<1>8. CASE /\ code \in {"letter", "L", "C", "digit", "F", "arrow", "caps"}
           /\ ~(code \in {"L", "C"} /\ ctrl = 1) /\ ~(code = "F" /\ alt = 1)
  <2>1. does = IF code \in {"letter", "L", "C"} THEN IF shift = caps THEN "small" ELSE "capital"
               ELSE IF code = "digit" THEN IF shift = 1 THEN "symbol" ELSE "digit" ELSE "dead"
    BY <1>8, Indexed
  <2>2. shift = caps <=> (is("shift") <=> caps = 1)
    BY <1>1, <1>8
  <2> HIDE DEF is, does
  <2>3. CASE code \in {"letter", "L", "C"}
    <3>1. does = IF is("shift") = (caps = 1) THEN "small" ELSE "capital"
      <4>1. is("shift") \in BOOLEAN /\ (caps = 1) \in BOOLEAN
        BY DEF is
      <4>2. shift = caps <=> is("shift") = (caps = 1)
        BY <2>2, <4>1
      <4>3. does = IF shift = caps THEN "small" ELSE "capital"
        BY <2>1, <2>3
      <4> QED
        BY <4>2, <4>3
    <3>2. ~(code = "L" /\ is("ctrl")) /\ ~(code = "C" /\ is("ctrl")) /\ code # "F"
      BY <1>1, <1>8, <2>3
    <3> QED
      BY <1>2, <2>3, <3>1, <3>2
  <2>4. CASE code = "digit"
    <3>1. does = IF is("shift") THEN "symbol" ELSE "digit"
      BY <1>1, <2>1, <2>4
    <3> QED
      BY <1>2, <2>4, <3>1
  <2>5. CASE code \in {"F", "arrow", "caps"}
    <3>1. does = "dead" /\ ~(code = "F" /\ is("alt"))
      BY <1>1, <1>8, <2>1, <2>5
    <3> QED
      BY <1>2, <2>5, <3>1
  <2> QED
    BY <1>8, <2>3, <2>4, <2>5
<1>9. CASE code \notin {"letter", "L", "C", "digit", "F", "arrow", "caps"}
  BY <1>2, <1>9
<1> QED
  BY <1>5, <1>6, <1>7, <1>8, <1>9

-----------------------------------------------------------------------------
(* The steps of the keyboard and of its handler *)

LEMMA FlagsFollow ==
    ASSUME IInv, KeyboardHandler, NEW code, code = Head(queue).code
    PROVE  Flagged' = After(Flagged, code)
<1>1. /\ shift_flag' = Flag(shift_flag, code, "shift")
      /\ ctrl_flag' = Flag(ctrl_flag, code, "ctrl")
      /\ alt_flag' = Flag(alt_flag, code, "alt")
  BY DEF KeyboardHandler
<1>2. shift_flag \in {0, 1} /\ ctrl_flag \in {0, 1} /\ alt_flag \in {0, 1}
  BY DEF IInv, Typed, TypeOK
<1>3. {"shift", "ctrl", "alt"} \subseteq ModifierKinds
  BY DEF ModifierKinds
<1>4. shift_flag' = 1 <=> code # Released["shift"] /\ (shift_flag = 1 \/ code \in Modifiers("shift"))
  BY <1>1, <1>2, <1>3, FlagMeans
<1>5. ctrl_flag' = 1 <=> code # Released["ctrl"] /\ (ctrl_flag = 1 \/ code \in Modifiers("ctrl"))
  BY <1>1, <1>2, <1>3, FlagMeans
<1>6. alt_flag' = 1 <=> code # Released["alt"] /\ (alt_flag = 1 \/ code \in Modifiers("alt"))
  BY <1>1, <1>2, <1>3, FlagMeans
<1>7. /\ Flagged \subseteq ModifierKinds /\ Flagged' \subseteq ModifierKinds
      /\ After(Flagged, code) \subseteq ModifierKinds
      /\ \A kind \in ModifierKinds :
           kind \in After(Flagged, code) <=>
             code # Released[kind] /\ (kind \in Flagged \/ code \in Modifiers(kind))
  BY DEF Flagged, After
<1>8. /\ "shift" \in Flagged <=> shift_flag = 1
      /\ "ctrl" \in Flagged <=> ctrl_flag = 1
      /\ "alt" \in Flagged <=> alt_flag = 1
      /\ "shift" \in Flagged' <=> shift_flag' = 1
      /\ "ctrl" \in Flagged' <=> ctrl_flag' = 1
      /\ "alt" \in Flagged' <=> alt_flag' = 1
  BY DEF Flagged, ModifierKinds
<1>9. \A kind \in ModifierKinds : kind \in Flagged' <=> kind \in After(Flagged, code)
  <2> SUFFICES ASSUME NEW kind \in ModifierKinds
               PROVE  kind \in Flagged' <=> kind \in After(Flagged, code)
    OBVIOUS
  <2>1. kind = "shift" \/ kind = "ctrl" \/ kind = "alt"
    BY DEF ModifierKinds
  <2> QED
    BY <2>1, <1>4, <1>5, <1>6, <1>7, <1>8
<1> QED
  BY <1>7, <1>9

LEMMA KeyboardHandlerKeys ==
    ASSUME KeysInv, KeyboardHandler
    PROVE  KeysInv'
<1>1. IInv /\ IInv'
  BY KeyboardHandlerKeeps DEF KeysInv
<1>2. KB_IRQ \in {KB_IRQ, RTC_IRQ} /\ Running(KB_IRQ, "start") /\ AtIret
  BY DEF KeyboardHandler
<1>3. queue \in Seq(Entries) /\ queue # <<>> /\ KB_IRQ \notin irr
  BY <1>2 DEF KeysInv, Pending
<1>4. PICK e \in Entries : e = queue[1]
  BY <1>3
<1>5. Head(queue) = e
  BY <1>3, <1>4
<1>6. PICK code \in Codes : code = e.code
  BY <1>4 DEF Entries
<1>7. PICK down \in SUBSET ModifierKeys : down = e.held
  BY <1>4 DEF Entries
<1>8. queue' = Tail(queue) /\ queue' \in Seq(Entries) /\ ~full' /\ irr' = irr /\ boot' = boot
      /\ held' = held /\ overlap' = overlap
  BY <1>3 DEF KeyboardHandler, typing
<1>9. Pending'
  <2>1. handlers # <<>> /\ Top = [irq |-> KB_IRQ, pc |-> "start"]
    BY <1>1, <1>2, Beginning DEF IInv
  <2>2. Top' = [irq |-> KB_IRQ, pc |-> "iret"]
    BY <1>1, <1>2, <2>1, Returned DEF IInv, Typed
  <2>3. ~Running(KB_IRQ, "start")'
    BY <2>2 DEF Running, Top
  <2> QED
    BY <1>3, <1>8, <2>3 DEF Pending
<1>10. Live'
  <2>1. Live
    BY <1>1, <1>2 DEF Running, IInv, Started
  <2> QED
    BY <1>8, <2>1 DEF Live
<1>11. Flagged' = After(Flagged, code)
  BY <1>1, <1>5, <1>6, FlagsFollow
<1>12. ASSUME ~overlap
       PROVE  Apart' /\ Leads(queue', Flagged', KindsOf(held')) /\ KeysMeanWhatIsHeld'
  <2>1. Apart /\ Leads(queue, Flagged, KindsOf(held))
    BY <1>12 DEF KeysInv
  <2>2. Apart'
    BY <1>8, <2>1 DEF Apart
  <2>3. PICK start : start = Flagged
    OBVIOUS
  <2>4. PICK end : end = KindsOf(held)
    OBVIOUS
  <2>5. /\ code # "extended" => /\ Leads(Tail(queue), KindsOf(down), end)
                                /\ KindsOf(down) = After(start, code)
        /\ code = "extended" => Leads(Tail(queue), start, end)
    BY <1>3, <1>4, <1>6, <1>7, <2>1, <2>3, <2>4, LeadsRest
  <2>6. code = "extended" => After(start, code) = start
    BY <2>3, ModifierFacts DEF After, Flagged
  <2>7. Leads(queue', Flagged', end)
    BY <1>8, <1>11, <2>3, <2>5, <2>6
  <2>8. end = KindsOf(held')
    BY <1>8, <2>4
  <2>9. PICK shift \in {0, 1}, caps \in {0, 1}, ctrl \in {0, 1}, alt \in {0, 1} :
          shift = shift_flag' /\ caps = caps_flag' /\ ctrl = ctrl_flag' /\ alt = alt_flag'
    BY <1>1 DEF IInv, Typed, TypeOK
  <2>10. code # "extended" => /\ shift = 1 <=> "shift" \in KindsOf(down)
                              /\ ctrl = 1 <=> "ctrl" \in KindsOf(down)
                              /\ alt = 1 <=> "alt" \in KindsOf(down)
    <3>1. /\ shift = 1 <=> "shift" \in Flagged'
          /\ ctrl = 1 <=> "ctrl" \in Flagged'
          /\ alt = 1 <=> "alt" \in Flagged'
      BY <2>9 DEF Flagged, ModifierKinds
    <3> QED
      BY <1>11, <2>3, <2>5, <3>1
  <2>11. meant' = [code |-> code, held |-> down, caps |-> caps,
                   does |-> Does(code, shift, caps, ctrl, alt)]
    BY <1>5, <1>6, <1>7, <2>9 DEF KeyboardHandler
  <2>12. KeysMeanWhatIsHeld'
    BY <2>10, <2>11, Understood
  <2> QED
    BY <2>2, <2>7, <2>8, <2>12
<1> QED
  BY <1>1, <1>8, <1>9, <1>10, <1>12 DEF KeysInv

\* What a key sends comes after what it has sent.
LEMMA SentOne ==
    ASSUME queue \in Seq(Entries), NEW code \in Codes, NEW down \in SUBSET ModifierKeys,
           Sent(<<code>>, down)
    PROVE  queue' = Append(queue, [code |-> code, held |-> down]) /\ queue' \in Seq(Entries)
<1> DEFINE e == [code |-> code, held |-> down]
<1>1. e \in Entries
  BY DEF Entries
<1>2. [n \in 1 .. Len(<<code>>) |-> [code |-> <<code>>[n], held |-> down]] = <<e>>
  OBVIOUS
<1>3. queue' = queue \o <<e>>
  BY <1>2 DEF Sent
<1>4. Append(queue, e) = queue \o <<e>> /\ Append(queue, e) \in Seq(Entries)
  BY <1>1, AppendIsConcat, AppendProperties
<1> QED
  BY <1>3, <1>4

LEMMA SentTwo ==
    ASSUME queue \in Seq(Entries), NEW one \in Codes, NEW two \in Codes,
           NEW down \in SUBSET ModifierKeys, Sent(<<one, two>>, down)
    PROVE  /\ queue' = Append(Append(queue, [code |-> one, held |-> down]),
                              [code |-> two, held |-> down])
           /\ queue' \in Seq(Entries)
<1> DEFINE p == [code |-> one, held |-> down]
           e == [code |-> two, held |-> down]
<1>1. p \in Entries /\ e \in Entries
  BY DEF Entries
<1>2. [n \in 1 .. Len(<<one, two>>) |-> [code |-> <<one, two>>[n], held |-> down]] = <<p, e>>
  OBVIOUS
<1>3. queue' = queue \o <<p, e>>
  BY <1>2 DEF Sent
<1> HIDE DEF p, e
<1>4. /\ Append(queue, p) = queue \o <<p>> /\ Append(queue, p) \in Seq(Entries)
  BY <1>1, AppendIsConcat, AppendProperties
<1>5. /\ Append(Append(queue, p), e) = Append(queue, p) \o <<e>>
      /\ Append(Append(queue, p), e) \in Seq(Entries)
  BY <1>1, <1>4, AppendIsConcat, AppendProperties
<1>6. (queue \o <<p>>) \o <<e>> = queue \o (<<p>> \o <<e>>)
  <2>1. <<p>> \in Seq(Entries) /\ <<e>> \in Seq(Entries)
    BY <1>1
  <2> QED
    BY <2>1, ConcatAssociative
<1>7. <<p>> \o <<e>> = <<p, e>>
  <2>1. /\ <<p>> \in Seq(Entries) /\ Len(<<p>>) = 1 /\ <<p>>[1] = p
        /\ <<e>> \in Seq(Entries) /\ Len(<<e>>) = 1 /\ <<e>>[1] = e
        /\ <<p, e>> \in Seq(Entries) /\ Len(<<p, e>>) = 2
        /\ <<p, e>>[1] = p /\ <<p, e>>[2] = e
    BY <1>1
  <2>2. /\ <<p>> \o <<e>> \in Seq(Entries) /\ Len(<<p>> \o <<e>>) = 2
        /\ (<<p>> \o <<e>>)[1] = p /\ (<<p>> \o <<e>>)[2] = e
    BY <2>1, ConcatProperties
  <2>3. \A n \in 1 .. 2 : n = 1 \/ n = 2
    OBVIOUS
  <2> QED
    BY <2>1, <2>2, <2>3, SeqEqual
<1> QED
  BY <1>3, <1>4, <1>5, <1>6, <1>7 DEF p, e

\* Neither a press nor a release moves anything else.
LEMMA SentAside ==
    ASSUME Pending, NEW codes, NEW down, Sent(codes, down), queue' # <<>>
    PROVE  Pending' /\ Live' = Live /\ Flagged' = Flagged /\ meant' = meant /\ held' = down
BY DEF Pending, Running, Sent, pic, flags, Live, Flagged

LEMMA PressKeys ==
    ASSUME KeysInv, NEW key \in Keys, Press(key)
    PROVE  KeysInv'
<1>1. IInv'
  BY OutsideKeeps DEF KeysInv, Outside
<1>2. key \in PhysicalKeys \ held /\ queue \in Seq(Entries) /\ held \in SUBSET ModifierKeys
  BY InterruptsAssumption DEF Press, KeysInv
<1>3. PICK down \in SUBSET ModifierKeys :
        /\ down = IF key \in ModifierKeys THEN held \cup {key} ELSE held
        /\ Sent(Made(key, key), down)
        /\ ~overlap' =>
             /\ ~overlap
             /\ key \in ModifierKeys => \A other \in held : Kinds[other] # Kinds[key]
  <2>1. CASE key \in ModifierKeys
    <3>1. /\ Sent(Made(key, key), held \cup {key})
          /\ overlap' = (overlap \/ \E other \in held : Kinds[other] = Kinds[key])
      BY <2>1, ModifierFacts DEF Press
    <3>2. held \cup {key} \in SUBSET ModifierKeys
      BY <1>2, <2>1
    <3> QED
      BY <2>1, <3>1, <3>2
  <2>2. CASE key \notin ModifierKeys
    <3>1. Sent(Made(key, key), held) /\ overlap' = overlap
      BY <2>2, ModifierFacts DEF Press
    <3> QED
      BY <1>2, <2>2, <3>1
  <2> QED
    BY <2>1, <2>2
<1>4. key \in Codes /\ "extended" \in Codes /\ key # "extended"
  BY <1>2, ModifierFacts DEF Codes
<1>5. KindsOf(down) = After(KindsOf(held), key)
  <2>1. \A kind \in ModifierKinds : key # Released[kind]
    BY <1>2, ModifierFacts
  <2>2. \A kind \in ModifierKinds : key \in Modifiers(kind) <=> key \in ModifierKeys /\ Kinds[key] = kind
    BY ModifierFacts
  <2> QED
    BY <1>3, <2>1, <2>2 DEF KindsOf, After
<1> DEFINE e == [code |-> key, held |-> down]
           p == [code |-> "extended", held |-> down]
<1>6. e \in Entries /\ e.code = key /\ e.held = down /\ p \in Entries /\ p.code = "extended"
  BY <1>4 DEF Entries
<1>7. \/ queue' = Append(Append(queue, p), e)
      \/ queue' = Append(queue, e)
  <2>1. CASE key \in {"rctrl", "ralt", "arrow"}
    BY <1>2, <1>3, <1>4, <2>1, SentTwo DEF Made
  <2>2. CASE key \notin {"rctrl", "ralt", "arrow"}
    BY <1>2, <1>3, <1>4, <2>2, SentOne DEF Made
  <2> QED
    BY <2>1, <2>2
<1> HIDE DEF e, p
<1>8. queue' \in Seq(Entries) /\ queue' # <<>>
  <2>1. Append(queue, p) \in Seq(Entries)
    BY <1>2, <1>6, AppendProperties
  <2> QED
    BY <1>2, <1>6, <1>7, <2>1, AppendProperties
<1>9. Pending' /\ Live' = Live /\ Flagged' = Flagged /\ meant' = meant /\ held' = down
  BY <1>3, <1>8, SentAside DEF KeysInv
<1>10. ASSUME ~overlap'
       PROVE  Apart' /\ Leads(queue', Flagged', KindsOf(held')) /\ KeysMeanWhatIsHeld'
  <2>1. ~overlap /\ Apart /\ Leads(queue, Flagged, KindsOf(held)) /\ KeysMeanWhatIsHeld
    BY <1>3, <1>10 DEF KeysInv
  <2>2. Apart'
    BY <1>3, <1>9, <1>10, <2>1 DEF Apart
  <2>3. PICK start, end : start = Flagged /\ end = KindsOf(held)
    OBVIOUS
  <2>4. Leads(queue', start, KindsOf(down))
    BY <1>2, <1>4, <1>5, <1>6, <1>7, <2>1, <2>3, LeadsOne, LeadsTwo
  <2>5. KindsOf(held') = KindsOf(down)
    BY <1>9
  <2>6. KeysMeanWhatIsHeld'
    BY <1>9, <2>1 DEF KeysMeanWhatIsHeld, Meaning
  <2> QED
    BY <1>9, <2>2, <2>3, <2>4, <2>5, <2>6
<1> QED
  BY <1>1, <1>8, <1>9, <1>10 DEF KeysInv

LEMMA ReleaseKeys ==
    ASSUME KeysInv, NEW key \in Keys, Release(key)
    PROVE  KeysInv'
<1>1. IInv'
  BY OutsideKeeps DEF KeysInv, Outside
<1>2. key \in held /\ key \in ModifierKeys /\ queue \in Seq(Entries) /\ held \in SUBSET ModifierKeys
  BY DEF Release, KeysInv
<1>3. PICK kind \in ModifierKinds : kind = Kinds[key]
  BY <1>2, ModifierFacts
<1>4. PICK code \in Codes : code = Released[kind] /\ code \in Releases /\ code # "extended"
  BY <1>3, ModifierFacts DEF Codes
<1>5. PICK down \in SUBSET ModifierKeys : down = held \ {key} /\ Sent(Made(key, code), down)
  BY <1>2, <1>3, <1>4 DEF Release
<1> DEFINE e == [code |-> code, held |-> down]
           p == [code |-> "extended", held |-> down]
<1>6. e \in Entries /\ e.code = code /\ e.held = down /\ p \in Entries /\ p.code = "extended"
  BY DEF Entries, Codes
<1>7. queue' = Append(Append(queue, p), e) \/ queue' = Append(queue, e)
  <2>1. "extended" \in Codes
    BY DEF Codes
  <2>2. CASE key \in {"rctrl", "ralt", "arrow"}
    BY <1>2, <1>5, <2>1, <2>2, SentTwo DEF Made
  <2>3. CASE key \notin {"rctrl", "ralt", "arrow"}
    BY <1>2, <1>5, <2>3, SentOne DEF Made
  <2> QED
    BY <2>2, <2>3
<1> HIDE DEF e, p
<1>8. queue' \in Seq(Entries) /\ queue' # <<>>
  <2>1. Append(queue, p) \in Seq(Entries)
    BY <1>2, <1>6, AppendProperties
  <2> QED
    BY <1>2, <1>6, <1>7, <2>1, AppendProperties
<1>9. Pending' /\ Live' = Live /\ Flagged' = Flagged /\ meant' = meant /\ held' = down
  BY <1>5, <1>8, SentAside DEF KeysInv
<1>10. ASSUME ~overlap'
       PROVE  Apart' /\ Leads(queue', Flagged', KindsOf(held')) /\ KeysMeanWhatIsHeld'
  <2>1. ~overlap /\ Apart /\ Leads(queue, Flagged, KindsOf(held)) /\ KeysMeanWhatIsHeld
    BY <1>10 DEF KeysInv, Release
  <2>2. Apart'
    BY <1>5, <1>9, <2>1 DEF Apart
  <2>3. KindsOf(down) = After(KindsOf(held), code)
    <3>1. \A other \in ModifierKinds : code = Released[other] <=> other = kind
      BY <1>4, ModifierFacts
    <3>2. \A other \in ModifierKinds : code \notin Modifiers(other)
      BY <1>4, ModifierFacts
    <3>3. \A other \in down : Kinds[other] # kind
      BY <1>2, <1>3, <1>5, <2>1 DEF Apart
    <3>4. \A other \in held : Kinds[other] # kind => other \in down
      BY <1>3, <1>5
    <3> QED
      BY <1>5, <3>1, <3>2, <3>3, <3>4 DEF KindsOf, After
  <2>4. PICK start, end : start = Flagged /\ end = KindsOf(held)
    OBVIOUS
  <2>5. Leads(queue', start, KindsOf(down))
    BY <1>2, <1>4, <1>6, <1>7, <2>1, <2>3, <2>4, LeadsOne, LeadsTwo
  <2>6. KindsOf(held') = KindsOf(down)
    BY <1>9
  <2>7. KeysMeanWhatIsHeld'
    BY <1>9, <2>1 DEF KeysMeanWhatIsHeld, Meaning
  <2> QED
    BY <1>9, <2>2, <2>4, <2>5, <2>6, <2>7
<1> QED
  BY <1>1, <1>8, <1>9, <1>10 DEF KeysInv

-----------------------------------------------------------------------------
(* The steps that leave the keys and the flags alone *)

LEMMA OthersKeys ==
    ASSUME KeysInv, [Next]_vars, ~KeyboardHandler, ~\E key \in Keys : Press(key) \/ Release(key)
    PROVE  KeysInv'
<1>1. IInv /\ IInv'
  BY Inductive DEF KeysInv
<1>2. UNCHANGED <<queue, held, overlap, meant>>
  BY DEF Next, Kernel, Devices, Boot, LoadIdt, InitPic, InitPaging, KeyboardInit, RtcInit, Select,
         ReadC, ReadA, WriteA, MapTerminals, At, RtcIrqHandler, Iret, Tick, Present, Interrupt,
         keyboard, typing, vars
<1>3. (Live => Live') /\ (Flagged' = Flagged \/ (~Live /\ Flagged' = {}))
  <2>1. CASE Boot
    <3>1. CASE KeyboardInit
      BY <3>1 DEF KeyboardInit, At, Live, Steps, Flagged
    <3>2. CASE ~KeyboardInit
      <4>1. Live => Live'
        BY <2>1, <3>2 DEF Boot, LoadIdt, InitPic, InitPaging, RtcInit, Select,
                     ReadC, ReadA, WriteA, MapTerminals, At, Live, Steps
      <4>2. UNCHANGED flags
        BY <2>1, <3>2 DEF Boot, LoadIdt, InitPic, InitPaging, RtcInit, Select,
                     ReadC, ReadA, WriteA, MapTerminals
      <4> QED
        BY <4>1, <4>2 DEF flags, Flagged
    <3> QED
      BY <3>1, <3>2
  <2>2. CASE ~Boot
    BY <2>2 DEF Next, Kernel, Devices, RtcIrqHandler, Iret, Tick, Present, Interrupt, flags, vars,
                Live, Flagged
  <2> QED
    BY <2>1, <2>2
<1>4. Pending'
  <2>1. CASE Boot
    <3>1. handlers' = <<>> /\ full' = full /\ irr' \subseteq irr \cup {RTC_IRQ}
      BY <2>1 DEF Boot, LoadIdt, InitPic, I8259Init, InitPaging, KeyboardInit, RtcInit, Select,
                  ReadC, ReadA, WriteA, MapTerminals, At, pic, keyboard
    <3> QED
      BY <1>2, <3>1 DEF KeysInv, Pending, Running, KB_IRQ, RTC_IRQ
  <2>2. CASE Tick \/ UNCHANGED vars
    BY <1>2, <2>2 DEF KeysInv, Pending, Running, KB_IRQ, RTC_IRQ, Tick, keyboard, vars, pic
  <2>3. CASE Present
    BY <1>2, <2>3 DEF KeysInv, Pending, Running, Present
  <2>4. CASE RtcIrqHandler
    <3>1. handlers # <<>> /\ Top = [irq |-> RTC_IRQ, pc |-> "start"]
      BY <1>1, <2>4, Beginning DEF RtcIrqHandler, IInv
    <3>2. Top' = [irq |-> RTC_IRQ, pc |-> "iret"]
      BY <1>1, <2>4, <3>1, Returned DEF RtcIrqHandler, IInv, Typed
    <3>3. ~Running(KB_IRQ, "start")'
      BY <3>2 DEF Running, Top
    <3> QED
      BY <1>2, <2>4, <3>3 DEF KeysInv, Pending, RtcIrqHandler, keyboard
  <2>5. CASE Iret
    <3>1. PICK irq \in {KB_IRQ, RTC_IRQ} : Running(irq, "iret")
      BY <2>5 DEF Iret
    <3>2. handlers # <<>>
      BY <3>1 DEF Running
    <3>3. handlers' # <<>> => Top' = Interrupted
      BY <1>1, <2>5, <3>2, Popped, Lasting DEF Iret, IInv, Typed, Nested
    <3>4. ~Running(KB_IRQ, "start")'
      BY <3>3 DEF Running, Top, Interrupted
    <3> QED
      BY <1>2, <2>5, <3>4 DEF KeysInv, Pending, Iret, keyboard, pic
  <2>6. ASSUME NEW irq \in {KB_IRQ, RTC_IRQ}, Interrupt(irq)
        PROVE  Pending'
    <3>1. Top' = [irq |-> irq, pc |-> "start"] /\ handlers' # <<>>
      BY <1>1, <2>6, Pushed DEF Interrupt, IInv, Typed
    <3>2. Running(KB_IRQ, "start")' <=> irq = KB_IRQ
      BY <3>1 DEF Running, Top
    <3>3. irq \in irr /\ irr' = irr \ {irq} /\ full' = full
      BY <2>6 DEF Interrupt, Delivered, keyboard
    <3> QED
      BY <1>2, <3>2, <3>3 DEF KeysInv, Pending
  <2> QED
    BY <2>1, <2>2, <2>3, <2>4, <2>5, <2>6 DEF Next, Kernel, Devices
<1>5. KeysMeanWhatIsHeld => KeysMeanWhatIsHeld'
  BY <1>2 DEF KeysMeanWhatIsHeld, Meaning
<1>6. Flagged' = Flagged
  BY <1>3 DEF KeysInv
<1>7. Leads(queue, Flagged, KindsOf(held)) => Leads(queue', Flagged', KindsOf(held'))
  BY <1>2, <1>6
<1> QED
  BY <1>1, <1>2, <1>3, <1>4, <1>5, <1>6, <1>7 DEF KeysInv, Apart

LEMMA KeysInductive == KeysInv /\ [Next]_vars => KeysInv'
<1> SUFFICES ASSUME KeysInv, [Next]_vars PROVE KeysInv'
  OBVIOUS
<1>1. CASE KeyboardHandler
  BY <1>1, KeyboardHandlerKeys
<1>2. CASE \E key \in Keys : Press(key) \/ Release(key)
  BY <1>2, PressKeys, ReleaseKeys
<1>3. CASE ~KeyboardHandler /\ ~\E key \in Keys : Press(key) \/ Release(key)
  BY <1>3, OthersKeys
<1> QED
  BY <1>1, <1>2, <1>3

LEMMA KeysInitially == Init => KeysInv
<1> SUFFICES ASSUME Init PROVE KeysInv
  OBVIOUS
<1>1. IInv /\ queue = <<>> /\ queue \in Seq(Entries) /\ held = {}
  <2>1. queue = <<>> /\ held = {}
    BY DEF Init
  <2> QED
    BY <2>1, Initially
<1>2. Pending
  BY DEF Init, Pending, Running
<1>3. Flagged = {} /\ KindsOf(held) = {}
  BY <1>1 DEF Init, Flagged, KindsOf
<1>4. Leads(queue, Flagged, KindsOf(held))
  <2>1. Len(queue) = 0 /\ 1 .. Len(queue) = {}
    BY <1>1
  <2> QED
    BY <1>3, <2>1 DEF Leads, Prefixed, Before
<1>5. Apart
  BY <1>1 DEF Apart
<1>6. KeysMeanWhatIsHeld
  BY DEF Init, KeysMeanWhatIsHeld, Meaning
<1> QED
  BY <1>1, <1>2, <1>3, <1>4, <1>5, <1>6 DEF KeysInv

\* A key does what the modifiers make of it that were held when it was
\* pressed, unless two keys of one kind have been held together: however many
\* codes the keyboard still holds back, and at whatever step of the kernel or
\* of the clock's handlers they come in.
THEOREM KeysDoWhatIsHeld == Spec => []KeysMeanWhatIsHeld
<1>1. KeysInv => KeysMeanWhatIsHeld
  BY DEF KeysInv, KeysMeanWhatIsHeld
<1> QED
  BY <1>1, KeysInitially, KeysInductive, PTL DEF Spec
=============================================================================
