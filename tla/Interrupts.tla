------------------------------ MODULE Interrupts ------------------------------
(***************************************************************************)
(* From the devices to their handlers: the start of the kernel (entry in   *)
(* kernel.c), the two interrupt controllers (i8259.c), the gates of the    *)
(* IDT (id_table.c, assembly_linkage.S), the pages the handlers touch      *)
(* (paging.c, terminal.c), the registers of the real-time clock (rtc.c)    *)
(* and what keyboard_handler makes of scan codes (keyboard.c).             *)
(*                                                                         *)
(* rtc_init ends with interrupts enabled, and the rest of the start, with  *)
(* the two-step accesses to the clock's registers, runs under them.        *)
(***************************************************************************)
EXTENDS Integers, Sequences

CONSTANTS
    Keys,      \* the keys that are pressed and released in this instance
    MaxKeys,   \* bound: presses and releases
    MaxNested  \* bound: handlers on the stack

PhysicalKeys == {"lshift", "rshift", "lctrl", "rctrl", "lalt", "ralt", "caps",
                 "letter", "digit", "L", "C", "F", "back", "tab", "enter", "arrow"}

ASSUME InterruptsAssumption ==
    Keys \subseteq PhysicalKeys /\ MaxKeys \in Nat /\ MaxNested \in Nat

VARIABLES
    boot,                    \* where the start is
    eflags_if,
    handlers,                \* running handlers, outermost first
    idt_loaded,
    master_mask, slave_mask, \* the IRQ lines that are masked
    vectors,                 \* whether the controllers have their new vectors
    irr, isr,                \* IRQ lines requested and in service
    page_table,              \* the pages of the first 4MB that are present
    index,                   \* register selected in the clock
    rtc,                     \* its registers: see Clock
    prev,                    \* local variable of set_rate
    rtc_read_flag,
    queue,                   \* codes the keyboard has still to send, with the
                             \* keys held when each was made
    full,                    \* the first of them is in the data port
    held,                    \* the keys that are down
    shift_flag, caps_flag, ctrl_flag, alt_flag,
    meant,                   \* what the handler made of the last code, and that code
    overlap,                 \* two keys of one kind have been down together
    hit,                     \* the accesses of set_rate a clock interrupt came before
    keys

pic == <<master_mask, slave_mask, vectors, irr, isr>>
clock == <<index, rtc, rtc_read_flag>>
keyboard == <<queue, full>>
flags == <<shift_flag, caps_flag, ctrl_flag, alt_flag>>
typing == <<held, overlap, keys>>
memory == <<idt_loaded, page_table>>
vars == <<boot, eflags_if, handlers, memory, pic, clock, prev, keyboard, typing, flags, meant, hit>>

KB_IRQ == 1
CASCADE == 2
RTC_IRQ == 8
Lines == 0 .. 15
MasterLines == 0 .. 7

\* oscillator: whether the divider bits of register A let it run; rate: its
\* low four bits; pie: bit 6 of register B; pf: the flag of register C.
Clock == [oscillator : BOOLEAN, rate : 0 .. 15, pie : BOOLEAN, pf : BOOLEAN]

\* What the firmware leaves: 1024 Hz, no interrupts, perhaps an old flag.
Init ==
    /\ boot = "idt"
    /\ eflags_if = FALSE /\ handlers = <<>>
    /\ idt_loaded = FALSE
    /\ master_mask \in SUBSET {KB_IRQ} /\ slave_mask = {RTC_IRQ} /\ vectors = FALSE
    /\ irr = {} /\ isr = {}
    /\ page_table = {}
    /\ index = "D"
    /\ \E old \in BOOLEAN : rtc = [oscillator |-> TRUE, rate |-> 6, pie |-> FALSE, pf |-> old]
    /\ prev = TRUE
    /\ rtc_read_flag = 1
    /\ queue = <<>> /\ full = FALSE /\ held = {}
    /\ shift_flag = 0 /\ caps_flag = 0 /\ ctrl_flag = 0 /\ alt_flag = 0
    /\ meant = [code |-> "none", held |-> {}, caps |-> 0, does |-> "nothing"]
    /\ overlap = FALSE /\ hit = {} /\ keys = 0

-----------------------------------------------------------------------------
(* The gates and the controllers *)

\* prepare_idt: present are the exceptions, the timer, the keyboard, the clock
\* and system calls; all but the last are interrupt gates of ring 0.
Gate(vector) ==
    [present |-> vector < 32 \/ vector \in {32, 33, 40, 128},
     trap |-> vector = 128,
     dpl |-> IF vector = 128 THEN 3 ELSE 0,
     handler |-> CASE vector = 33 -> "keyboard_handler"
                   [] vector = 40 -> "rtc_irq_handler"
                   [] vector = 32 -> "pit_irq_handler"
                   [] vector = 128 -> "system_call_linkage"
                   [] vector < 32 -> "exception"
                   [] OTHER -> "default_exception_handler"]

\* ICW2 of each controller.
Vector(irq) == IF irq \in MasterLines THEN 32 + irq ELSE 40 + (irq - 8)

\* i8259_init: everything is masked, the controllers start anew, and then the
\* line the second one sits on is opened.
I8259Init ==
    /\ vectors' = TRUE
    /\ irr' = {} /\ isr' = {}
    /\ master_mask' = MasterLines \ {CASCADE}
    /\ slave_mask' = Lines \ MasterLines

EnableIrq(irq) ==
    IF irq \in MasterLines
      THEN master_mask' = master_mask \ {irq} /\ UNCHANGED slave_mask
      ELSE slave_mask' = slave_mask \ {irq} /\ UNCHANGED master_mask

\* Mutant: only the controller the line is on gets its end of interrupt.
EoiOneController(irq) == {irq}

\* send_eoi: the lines whose service ends.
SendEoi(irq) == IF irq \in MasterLines THEN {irq} ELSE {CASCADE, irq}

\* The bits a request sets in service: its own and, for the second controller,
\* that of the line it comes in on.
InService(irq) == IF irq \in MasterLines THEN {irq} ELSE {CASCADE, irq}

\* Fully nested mode: a line waits for those of its priority and above.
Blocking(irq) == IF irq \in MasterLines THEN 0 .. irq ELSE (0 .. CASCADE) \cup (8 .. irq)

Delivered(irq) ==
    /\ irq \in irr
    /\ irq \notin master_mask \cup slave_mask
    /\ irq \notin MasterLines => CASCADE \notin master_mask
    /\ isr \cap Blocking(irq) = {}

Interrupt(irq) ==
    /\ eflags_if
    /\ Delivered(irq)
    /\ Len(handlers) < MaxNested
    /\ irr' = irr \ {irq}
    /\ isr' = isr \cup InService(irq)
    /\ handlers' = Append(handlers, [irq |-> irq, pc |-> "start"])
    /\ eflags_if' = FALSE
    /\ hit' = IF irq = RTC_IRQ /\ handlers = <<>> /\ boot \in {"read_A", "write_A"}
                THEN hit \cup {boot} ELSE hit
    /\ UNCHANGED <<boot, memory, master_mask, slave_mask, vectors, clock, prev, keyboard, typing,
                   flags, meant>>

Running(irq, pc) ==
    /\ handlers # <<>>
    /\ handlers[Len(handlers)] = [irq |-> irq, pc |-> pc]

\* The linkage's return: interrupts were enabled where it came in.
Iret ==
    /\ \E irq \in {KB_IRQ, RTC_IRQ} : Running(irq, "iret")
    /\ handlers' = SubSeq(handlers, 1, Len(handlers) - 1)
    /\ eflags_if' = TRUE
    /\ UNCHANGED <<boot, memory, pic, clock, prev, keyboard, typing, flags, meant, hit>>

AtIret == handlers' = [handlers EXCEPT ![Len(handlers)].pc = "iret"]

-----------------------------------------------------------------------------
(* The clock *)

\* The line goes up when the flag is set and may interrupt; reading register C
\* takes the flag down.
Tick ==
    /\ rtc.oscillator
    /\ rtc' = [rtc EXCEPT !.pf = TRUE]
    /\ irr' = IF rtc.pie /\ ~rtc.pf THEN irr \cup {RTC_IRQ} ELSE irr
    /\ UNCHANGED <<boot, eflags_if, handlers, memory, master_mask, slave_mask, vectors, isr,
                   index, prev, rtc_read_flag, keyboard, typing, flags, meant, hit>>

\* Mutant: register C is not read.
RtcIrqHandlerNoRead ==
    /\ Running(RTC_IRQ, "start")
    /\ rtc_read_flag' = 1
    /\ index' = "C"
    /\ isr' = isr \ SendEoi(RTC_IRQ)
    /\ eflags_if' = TRUE
    /\ AtIret
    /\ UNCHANGED <<boot, memory, master_mask, slave_mask, vectors, irr, rtc, prev, keyboard, typing,
                   flags, meant, hit>>

\* rtc_irq_handler: between cli and sti nothing comes in; after sti the next
\* interrupt may nest.
RtcIrqHandler ==
    /\ Running(RTC_IRQ, "start")
    /\ rtc_read_flag' = 1
    /\ index' = "C"
    /\ rtc' = [rtc EXCEPT !.pf = FALSE]
    /\ isr' = isr \ SendEoi(RTC_IRQ)
    /\ eflags_if' = TRUE
    /\ AtIret
    /\ UNCHANGED <<boot, memory, master_mask, slave_mask, vectors, irr, prev, keyboard, typing,
                   flags, meant, hit>>

\* The start of the kernel goes on when no handler runs.
At(step, next) ==
    /\ boot = step /\ handlers = <<>>
    /\ boot' = next
    /\ UNCHANGED <<handlers, keyboard, typing, meant, hit>>

\* rtc_init up to its sti: register B gets bit 6, with the flag of register C
\* as it is, and the line is opened.
RtcInit ==
    /\ At("rtc_init", "select_C")
    /\ rtc' = [rtc EXCEPT !.pie = TRUE]
    /\ irr' = IF rtc.pf /\ ~rtc.pie THEN irr \cup {RTC_IRQ} ELSE irr
    /\ index' = "none"
    /\ EnableIrq(RTC_IRQ)
    /\ eflags_if' = TRUE
    /\ UNCHANGED <<memory, vectors, isr, prev, rtc_read_flag, flags>>

Select(step, next, register) ==
    /\ At(step, next)
    /\ index' = register
    /\ UNCHANGED <<eflags_if, memory, pic, rtc, prev, rtc_read_flag, flags>>

ReadC ==
    /\ At("read_C", "select_A")
    /\ rtc' = IF index = "C" THEN [rtc EXCEPT !.pf = FALSE] ELSE rtc
    /\ UNCHANGED <<eflags_if, memory, pic, index, prev, rtc_read_flag, flags>>

\* set_rate: the r for which 32768 >> (r - 1) is the rate.
RateCode(rate) ==
    LET codes == {r \in 3 .. 15 : 32768 \div (2 ^ (r - 1)) = rate} IN
    IF codes = {} THEN 0 ELSE CHOOSE r \in codes : TRUE

\* kernel.c never asks for another rate here than rtc_init's 8192, code 3.
ASSUME RateCodeAssumption == RateCode(8192) = 3

\* prev = inb(...): if register C is selected by now its bits are taken for
\* the divider's, which they stop.
ReadA ==
    /\ At("read_A", "select_A_again")
    /\ prev' = (index = "A" /\ rtc.oscillator)
    /\ rtc' = IF index = "C" THEN [rtc EXCEPT !.pf = FALSE] ELSE rtc
    /\ UNCHANGED <<eflags_if, memory, pic, index, rtc_read_flag, flags>>

\* Mutant: the old rate is not masked out of what is written back.
WriteAOldRate ==
    /\ At("write_A", "terminals")
    /\ rtc' = IF index = "A" THEN [rtc EXCEPT !.oscillator = prev, !.rate = 7] ELSE rtc
    /\ UNCHANGED <<eflags_if, memory, pic, index, prev, rtc_read_flag, flags>>

\* Register C cannot be written.
WriteA ==
    /\ At("write_A", "terminals")
    /\ rtc' = IF index = "A" THEN [rtc EXCEPT !.oscillator = prev, !.rate = RateCode(8192)] ELSE rtc
    /\ UNCHANGED <<eflags_if, memory, pic, index, prev, rtc_read_flag, flags>>

-----------------------------------------------------------------------------
(* The rest of the start *)

LoadIdt ==
    /\ At("idt", "pic")
    /\ idt_loaded' = TRUE
    /\ UNCHANGED <<eflags_if, page_table, pic, clock, prev, flags>>

InitPic ==
    /\ At("pic", "paging")
    /\ I8259Init
    /\ UNCHANGED <<eflags_if, memory, clock, prev, flags>>

\* init_paging: of the first 4MB only the screen; the kernel's page lies above.
InitPaging ==
    /\ At("paging", "keyboard_init")
    /\ page_table' = {"video"}
    /\ UNCHANGED <<eflags_if, idt_loaded, pic, clock, prev, flags>>

KeyboardInit ==
    /\ At("keyboard_init", "rtc_init")
    /\ EnableIrq(KB_IRQ)
    /\ shift_flag' = 0 /\ caps_flag' = 0 /\ ctrl_flag' = 0 /\ alt_flag' = 0
    /\ UNCHANGED <<eflags_if, memory, vectors, irr, isr, clock, prev>>

\* terminal_open and terminal_multiple_terminal_init_paging, in one step: the
\* pages of the saved screens are there after it, no handler of this module
\* looks at them, and entry's sti finds interrupts enabled already.
MapTerminals ==
    /\ At("terminals", "run")
    /\ page_table' = page_table \cup {"terminal_0", "terminal_1", "terminal_2"}
    /\ eflags_if' = TRUE
    /\ UNCHANGED <<idt_loaded, pic, clock, prev, flags>>

Boot ==
    \/ LoadIdt \/ InitPic \/ InitPaging \/ KeyboardInit \/ RtcInit
    \/ Select("select_C", "read_C", "C") \/ ReadC
    \/ Select("select_A", "read_A", "A") \/ ReadA
    \/ Select("select_A_again", "write_A", "A") \/ WriteA
    \/ MapTerminals

-----------------------------------------------------------------------------
(* The keyboard *)

Kinds == [lshift |-> "shift", rshift |-> "shift", lctrl |-> "ctrl", rctrl |-> "ctrl",
          lalt |-> "alt", ralt |-> "alt"]
Released == [shift |-> "shift released", ctrl |-> "ctrl released", alt |-> "alt released"]
Modifiers(kind) == {key \in DOMAIN Kinds : Kinds[key] = kind}

\* What a key sends for its press or its release: the right Ctrl and Alt and
\* the arrows put a prefix before the code. Releases of keys that are no
\* modifiers are above MAX_CODE and do nothing.
Made(key, code) == IF key \in {"rctrl", "ralt", "arrow"} THEN <<"extended", code>> ELSE <<code>>

Sent(codes, down) ==
    /\ queue' = queue \o [n \in 1 .. Len(codes) |-> [code |-> codes[n], held |-> down]]
    /\ held' = down
    /\ keys' = keys + 1
    /\ UNCHANGED <<boot, eflags_if, handlers, memory, pic, clock, prev, full, flags, meant, hit>>

Press(key) ==
    /\ keys < MaxKeys
    /\ key \in Keys \ held
    /\ IF key \in DOMAIN Kinds
         THEN /\ Sent(Made(key, key), held \cup {key})
              /\ overlap' = (overlap \/ \E other \in held : Kinds[other] = Kinds[key])
         ELSE Sent(Made(key, key), held) /\ UNCHANGED overlap

Release(key) ==
    /\ keys < MaxKeys
    /\ key \in held
    /\ Sent(Made(key, Released[Kinds[key]]), held \ {key})
    /\ UNCHANGED overlap

\* The next code goes into the data port and the line goes up.
Present ==
    /\ ~full /\ queue # <<>>
    /\ full' = TRUE
    /\ irr' = irr \cup {KB_IRQ}
    /\ UNCHANGED <<boot, eflags_if, handlers, memory, master_mask, slave_mask, vectors, isr, clock,
                   prev, queue, typing, flags, meant, hit>>

\* Mutant: the release of Ctrl leaves its flag as it is.
FlagSticky(flag, code, kind) == IF code \in Modifiers(kind) THEN 1 ELSE flag

\* The cases of keyboard_handler that set and clear a modifier's flag.
Flag(flag, code, kind) ==
    IF code \in Modifiers(kind) THEN 1 ELSE IF code = Released[kind] THEN 0 ELSE flag

\* The table kbd[index]: small or capital letters, digits or their symbols,
\* and 0 for the keys without a character.
Table(index_, code) ==
    CASE code \in {"letter", "L", "C"} -> IF index_ \in {"SHIFT", "CAPS"} THEN "capital" ELSE "small"
      [] code = "digit" -> IF index_ \in {"SHIFT", "SHIFT_CAPS"} THEN "symbol" ELSE "digit"
      [] code = "enter" -> "newline"
      [] OTHER -> "dead"

\* The case taken for a code, with the flags as this code has left them.  That
\* Ctrl+C halts no shell that is alone (helper_pass_pid() > 1) is the guard of
\* ProcessControl's CtrlC.
Does(code, shift, caps, ctrl, alt) ==
    LET index_ == CASE shift = 1 /\ caps = 1 -> "SHIFT_CAPS"
                    [] shift = 1 /\ caps = 0 -> "SHIFT"
                    [] shift = 0 /\ caps = 1 -> "CAPS"
                    [] OTHER -> "NORMAL" IN
    CASE code = "back" -> "backspace_case"
      [] code = "tab" -> "tab_case"
      [] code \in DOMAIN Kinds \cup {"extended"} -> "nothing"
      [] code \in {Released[kind] : kind \in DOMAIN Released} -> "nothing"
      [] ctrl = 1 /\ code = "L" -> "terminal_clear_and_reset"
      [] ctrl = 1 /\ code = "C" -> "halt"
      [] alt = 1 /\ code = "F" -> "terminal_switch"
      [] OTHER -> Table(index_, code)

\* keyboard_handler, behind an interrupt gate: end of interrupt, then the code.
\* Left out is what a key that is taken as Ctrl+C or Alt+F goes on to do in the
\* handler: terminal_switch and halt may enable interrupts and call execute
\* (SwitchShell and HaltFinish of ProcessControl).
KeyboardHandler ==
    /\ Running(KB_IRQ, "start")
    /\ isr' = isr \ SendEoi(KB_IRQ)
    /\ LET code == Head(queue).code IN
       /\ shift_flag' = Flag(shift_flag, code, "shift")
       /\ ctrl_flag' = Flag(ctrl_flag, code, "ctrl")
       /\ alt_flag' = Flag(alt_flag, code, "alt")
       /\ caps_flag' = IF code = "caps" THEN 1 - caps_flag ELSE caps_flag
       /\ meant' = [code |-> code, held |-> Head(queue).held, caps |-> caps_flag',
                    does |-> Does(code, shift_flag', caps_flag', ctrl_flag', alt_flag')]
    /\ queue' = Tail(queue)
    /\ full' = FALSE
    /\ AtIret
    /\ UNCHANGED <<boot, eflags_if, memory, master_mask, slave_mask, vectors, irr, clock, prev,
                   typing, hit>>

-----------------------------------------------------------------------------
Kernel == Boot \/ RtcIrqHandler \/ KeyboardHandler \/ Iret
Devices == Tick \/ Present

Next ==
    \/ Kernel \/ Devices
    \/ \E irq \in {KB_IRQ, RTC_IRQ} : Interrupt(irq)
    \/ \E key \in Keys : Press(key) \/ Release(key)

\* The CPU goes on, takes what is delivered to it, and the clock ticks.
Spec == Init /\ [][Next]_vars
FairSpec == Spec /\ WF_vars(Kernel) /\ WF_vars(Tick) /\ WF_vars(Present)
                 /\ \A irq \in {KB_IRQ, RTC_IRQ} : WF_vars(Interrupt(irq))

-----------------------------------------------------------------------------
\* Type invariant of the CPU, the controllers, the clock and keyboard_handler's flags.
TypeOK ==
    /\ eflags_if \in BOOLEAN
    /\ master_mask \subseteq MasterLines /\ slave_mask \subseteq Lines \ MasterLines
    /\ irr \subseteq {KB_IRQ, RTC_IRQ} /\ isr \subseteq {KB_IRQ, CASCADE, RTC_IRQ}
    /\ rtc \in Clock
    /\ {shift_flag, caps_flag, ctrl_flag, alt_flag} \subseteq {0, 1}

\* A handler only ever runs for a line that has a gate of its own, with the
\* IDT loaded, the vectors moved and the screen mapped; and a line is in
\* service exactly while its handler has not said otherwise, so that none
\* stays blocked.
Starting == {handlers[n].irq : n \in {m \in DOMAIN handlers : handlers[m].pc = "start"}}

HandlersServe ==
    /\ handlers # <<>> => idt_loaded /\ vectors /\ "video" \in page_table
    /\ \A n \in DOMAIN handlers :
         LET gate == Gate(Vector(handlers[n].irq)) IN
         gate.present /\ gate.handler = (IF handlers[n].irq = KB_IRQ THEN "keyboard_handler"
                                                                      ELSE "rtc_irq_handler")
    /\ isr = UNION {InService(irq) : irq \in Starting}

\* rtc.c:76 "rtc rate is now changed", and the oscillator still runs: unless a
\* clock interrupt came before the write (which then goes to register C) or
\* before the read (whose result then stops the oscillator when written back).
RateIsSet ==
    boot \in {"terminals", "run"} =>
        /\ (rtc.rate = RateCode(8192)) = ("write_A" \notin hit)
        /\ rtc.oscillator = ("read_A" \notin hit \/ "write_A" \in hit)

\* rtc.c:128 "to keep getting interrupts": as long as the oscillator runs the
\* clock's handler runs again and again, whatever the keyboard does.
TicksKeepComing == []<>(Running(RTC_IRQ, "start")) \/ <>[](~rtc.oscillator)

\* A key does what the modifiers held when it was pressed make of it, however
\* late its code is handled, unless two keys of one kind were held together.
Meaning(code, down, caps) ==
    LET is(kind) == \E key \in down : Kinds[key] = kind IN
    CASE code = "L" /\ is("ctrl") -> "terminal_clear_and_reset"
      [] code = "C" /\ is("ctrl") -> "halt"
      [] code = "letter" \/ (code \in {"L", "C"} /\ ~is("ctrl")) ->
           IF is("shift") = (caps = 1) THEN "small" ELSE "capital"
      [] code = "digit" -> IF is("shift") THEN "symbol" ELSE "digit"
      [] code = "F" /\ is("alt") -> "terminal_switch"
      [] code \in {"arrow", "caps"} \/ (code = "F" /\ ~is("alt")) -> "dead"
      [] OTHER -> meant.does

KeysMeanWhatIsHeld == ~overlap => meant.does = Meaning(meant.code, meant.held, meant.caps)
=============================================================================
