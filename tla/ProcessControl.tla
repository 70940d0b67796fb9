--------------------------- MODULE ProcessControl ---------------------------
(***************************************************************************)
(* Processes and terminals of the kernel: execute and halt                 *)
(* (system_call.c), the exception handlers (id_table.c), Ctrl+C and        *)
(* Alt+F1..F3 (keyboard.c) and terminal_switch (terminal.c), on one CPU.   *)
(*                                                                         *)
(* System calls run with interrupts enabled (vector 0x80 is a trap gate),  *)
(* so execute and halt are cut into the stretches between the writes of    *)
(* the globals other code reads, and the keyboard interrupt may fall       *)
(* between any two of them.  A kernel stack is the sequence of suspended   *)
(* activations on it; the esp/ebp pair saved in a PCB names a stack and    *)
(* the activations that were there when it was saved.                      *)
(***************************************************************************)
EXTENDS Integers, Sequences, SequencesExt

CONSTANTS
    MaxProcs,      \* the 10 that execute compares process_total with
    NumTerminals,  \* 3 in the code
    FKeys,         \* the terminals whose Alt+F key is pressed in this instance
    CtrlCPressed,  \* whether Ctrl+C is pressed in this instance
    MaxMidKernel   \* bound: how many of the keys arrive in the middle of
                   \* execute, halt or a terminal's first start; all others
                   \* find a program running or terminal_read spinning

Terminals == 0 .. NumTerminals - 1
Pids == 0 .. MaxProcs - 1

ASSUME ProcessAssumption ==
    /\ MaxProcs \in Nat \ {0}
    /\ NumTerminals \in Nat \ {0}
    /\ FKeys \subseteq Terminals
    /\ CtrlCPressed \in BOOLEAN
    /\ MaxMidKernel \in Nat

VARIABLES
    process_total,       \* static counter of system_call.c
    current_pid,
    terminal_process,    \* pid in front of each terminal, -1 for none
    terminal_flags,      \* TRUE: the terminal still needs its first shell
    terminal_active_id,
    pit_count,
    pcb,                 \* parent_pid, exception_flag, and ctx = (esp, ebp)
    esp0,                \* pid whose kernel stack tss.esp0 points to
    mapped,              \* pid whose 4MB page is at virtual 128MB
    stack,               \* pid -> suspended activations, oldest first
    sp,                  \* the kernel stack in use
    frame,               \* the activation that is running
    eax,                 \* what the last return to user code left in eax
    midKernel            \* keys so far that arrived in the middle of kernel code

switching == <<terminal_flags, terminal_active_id, pit_count>>
control == <<process_total, current_pid, terminal_process, switching, pcb, esp0, mapped>>
vars == <<control, stack, sp, frame, eax, midKernel>>

-----------------------------------------------------------------------------
(* Activations.  "user" is a process in ring 3 whose registers belong to   *)
(* process pid; "wild" is a CPU that has left the kernel's control: it     *)
(* returned through overwritten stack or touched a PCB outside memory.     *)

ExecPcs == {"exec_check", "exec_inc", "exec_map", "exec_pcb", "exec_current", "exec_save",
            "exec_flag", "exec_enter"}
HaltPcs == {"halt_begin", "halt_total", "halt_terminal", "halt_current",
            "halt_finish", "halt_return"}
SwitchPcs == {"switch_shell", "switch_save"}
KernelPcs == ExecPcs \cup HaltPcs \cup SwitchPcs \cup {"boot"}
Pcs == KernelPcs \cup {"user", "read", "wild"}

\* Why halt was called; only its argument (0 or 1) reaches the code.
Causes == {"none", "exit", "ctrlC", "exception"}

Activation(pc, pid, intr, why) == [pc |-> pc, pid |-> pid, intr |-> intr, why |-> why]
Boot == Activation("boot", 0, TRUE, "none")
User(pid) == Activation("user", pid, TRUE, "none")
Kernel(pc, intr) == Activation(pc, 0, intr, "none")
Halting(why, intr) == Activation("halt_begin", 0, intr, why)
Wild == Activation("wild", 0, FALSE, "none")

NoContext == [stk |-> 0, frames |-> <<>>]

\* The PCB slots below 8MB; PCB(-1) would lie at 8MB, which is not mapped.
Mapped(p) == p \in Pids

Crash == frame' = Wild /\ UNCHANGED <<stack, sp>>

Goto(pc) == frame' = [frame EXCEPT !.pc = pc] /\ UNCHANGED <<stack, sp>>

\* Entering the kernel: from ring 3 the CPU switches to tss.esp0 and starts
\* over at the top of that stack, otherwise it keeps pushing on the current one.
Enter(handler) ==
    /\ eax' = 0
    /\ IF frame.pc # "user"
         THEN /\ stack' = [stack EXCEPT ![sp] = Append(@, frame)]
              /\ frame' = handler
              /\ UNCHANGED sp
         ELSE IF Mapped(esp0)
         THEN /\ stack' = [stack EXCEPT ![esp0] = <<frame>>]
              /\ frame' = handler
              /\ sp' = esp0
         ELSE Crash

\* A C call: the caller will go on at `after`.
Call(after, callee) ==
    /\ stack' = [stack EXCEPT ![sp] = Append(@, [frame EXCEPT !.pc = after])]
    /\ frame' = callee
    /\ UNCHANGED sp

\* ret does not touch IF, iret restores it: an activation waiting in a call
\* goes on under the IF of the code that returns to it.
Resumed(f) == IF f.pc \in {"switch_save", "halt_return"}
                THEN [f EXCEPT !.intr = frame.intr] ELSE f

ReturnTo(stk, s, under) ==
    /\ sp' = s
    /\ stack' = [stk EXCEPT ![s] = Front(under)]
    /\ frame' = Resumed(Last(under))

Return == ReturnTo(stack, sp, stack[sp])

\* Mutant: esp and ebp of the caller are saved instead of execute's own.
ContextOfCaller(stk) == [stk |-> sp, frames |-> Front(stk[sp])]

\* esp/ebp of the running function: its stack, and all that is on it up to it.
Context(stk) == [stk |-> sp, frames |-> stk[sp]]

\* The frame of a routine lies at one place whatever line it has reached, and
\* a later call of it from there has its frame at the same place.
SameRoutine(f, g) == f = g \/ {f.pc, g.pc} \subseteq ExecPcs \/ {f.pc, g.pc} \subseteq SwitchPcs

Intact(ctx, stk) ==
    LET n == Len(ctx.frames) IN
    /\ n >= 2 /\ Len(stk[ctx.stk]) >= n
    /\ IsPrefix(Front(ctx.frames), stk[ctx.stk])
    /\ SameRoutine(ctx.frames[n], stk[ctx.stk][n])

\* In the committed bootimg the frame of boot's execute (ebp = 0x7FFFC0) is
\* just where keyboard_handler's lies after a key pressed in process 0's user
\* code, so returning "from execute" then returns from that interrupt.
BootFrameReused(ctx, stk) ==
    /\ ctx.stk = 0 /\ Len(ctx.frames) >= 1 /\ ctx.frames[1] = Boot
    /\ Len(stk[0]) >= 2 /\ stk[0][1].pc = "user" /\ stk[0][2].pc \in SwitchPcs

\* mov esp, ebp; leave; ret: returns from the function that saved ctx, to
\* what is under it.  Where the stack was reused the two words popped belong
\* to other activations.
LoadContext(ctx, stk) ==
    \/ /\ Intact(ctx, stk)
       /\ ReturnTo(stk, ctx.stk, Front(ctx.frames))
    \/ /\ ~Intact(ctx, stk)
       /\ frame' = Wild
       /\ stack' = stk
       /\ UNCHANGED sp
    \/ /\ ~Intact(ctx, stk)
       /\ BootFrameReused(ctx, stk)
       /\ ReturnTo(stk, 0, <<stk[0][1]>>)
-----------------------------------------------------------------------------
\* kernel.c calls execute("shell") with interrupts on; the boot stack is the
\* kernel stack of process 0 (both start at 8MB).
Init ==
    /\ process_total = 0
    /\ current_pid = 0
    /\ terminal_process = [t \in Terminals |-> -1]
    /\ terminal_flags = [t \in Terminals |-> t # 0]
    /\ terminal_active_id = 0
    /\ pit_count = 0
    /\ pcb = [p \in Pids |-> [parent_pid |-> 0, exception_flag |-> FALSE, ctx |-> NoContext]]
    /\ esp0 = 0
    /\ mapped = 30     \* init_paging: page_base_addr = 32, not present
    /\ stack = [p \in Pids |-> IF p = 0 THEN <<Boot>> ELSE <<>>]
    /\ sp = 0
    /\ frame = Kernel("exec_check", TRUE)
    /\ eax = 0
    /\ midKernel = 0

-----------------------------------------------------------------------------
(* execute *)

Execute ==
    /\ frame.pc = "user"
    /\ Enter(Kernel("exec_check", TRUE))
    /\ UNCHANGED <<control, midKernel>>

\* Mutant: the limit is tested with > instead of ==.
ExecCheckOffByOne ==
    /\ frame.pc = "exec_check"
    /\ \/ /\ process_total > MaxProcs
          /\ Return
          /\ eax' = 10
       \/ /\ process_total <= MaxProcs
          /\ Goto("exec_inc")
          /\ UNCHANGED eax
    /\ UNCHANGED <<control, midKernel>>

\* Mutant: at the limit execute spins until a program ends.
ExecCheckWaits ==
    /\ frame.pc = "exec_check"
    /\ IF process_total = MaxProcs THEN UNCHANGED <<frame, stack, sp>> ELSE Goto("exec_inc")
    /\ UNCHANGED <<control, eax, midKernel>>

\* A command typed by a user may not be executable; "shell" always is.
ExecCheck ==
    /\ frame.pc = "exec_check"
    /\ \/ /\ Last(stack[sp]).pc = "user"
          /\ Return
          /\ eax' = -1
       \/ /\ process_total = MaxProcs
          /\ Return
          /\ eax' = 10
       \/ /\ process_total # MaxProcs
          /\ Goto("exec_inc")
          /\ UNCHANGED eax
    /\ UNCHANGED <<control, midKernel>>

ExecInc ==
    /\ frame.pc = "exec_inc"
    /\ process_total' = process_total + 1
    /\ Goto("exec_map")
    /\ UNCHANGED <<current_pid, terminal_process, switching, pcb, esp0, mapped, eax, midKernel>>

ExecMap ==
    /\ frame.pc = "exec_map"
    /\ mapped' = process_total - 1
    /\ Goto("exec_pcb")
    /\ UNCHANGED <<process_total, current_pid, terminal_process, switching, pcb, esp0, eax, midKernel>>

\* Mutant: every process is made a child of the first shell.
ExecPcbParentIsShell ==
    /\ frame.pc = "exec_pcb"
    /\ LET new == process_total - 1 IN
       /\ pcb' = [pcb EXCEPT ![new].parent_pid = IF new = 0 THEN -1 ELSE 0]
       /\ terminal_process' = [terminal_process EXCEPT ![terminal_active_id] = new]
       /\ frame' = [frame EXCEPT !.pc = "exec_current", !.pid = new]
    /\ UNCHANGED <<process_total, current_pid, switching, esp0, mapped, stack, sp, eax, midKernel>>

\* Mutant: the new process is always put in front of the first terminal.
ExecPcbFirstTerminal ==
    /\ frame.pc = "exec_pcb"
    /\ LET new == process_total - 1 IN
       IF Mapped(new)
         THEN /\ pcb' = [pcb EXCEPT ![new].parent_pid = terminal_process[terminal_active_id]]
              /\ terminal_process' = [terminal_process EXCEPT ![0] = new]
              /\ frame' = [frame EXCEPT !.pc = "exec_current", !.pid = new]
              /\ UNCHANGED <<stack, sp>>
         ELSE Crash /\ UNCHANGED <<pcb, terminal_process>>
    /\ UNCHANGED <<process_total, current_pid, switching, esp0, mapped, eax, midKernel>>

ExecPcb ==
    /\ frame.pc = "exec_pcb"
    /\ LET new == process_total - 1 IN
       IF Mapped(new)
         THEN /\ pcb' = [pcb EXCEPT ![new].parent_pid = terminal_process[terminal_active_id]]
              /\ terminal_process' = [terminal_process EXCEPT ![terminal_active_id] = new]
              /\ frame' = [frame EXCEPT !.pc = "exec_current", !.pid = new]
              /\ UNCHANGED <<stack, sp>>
         ELSE Crash /\ UNCHANGED <<pcb, terminal_process>>
    /\ UNCHANGED <<process_total, current_pid, switching, esp0, mapped, eax, midKernel>>

ExecCurrent ==
    /\ frame.pc = "exec_current"
    /\ current_pid' = terminal_process[terminal_active_id]
    /\ Goto("exec_save")
    /\ UNCHANGED <<process_total, terminal_process, switching, pcb, esp0, mapped, eax, midKernel>>

\* The saved esp/ebp are those of this very activation of execute, which
\* stays on the stack for halt to return from.
ExecSave ==
    /\ frame.pc = "exec_save"
    /\ LET stk == [stack EXCEPT ![sp] = Append(@, [frame EXCEPT !.pc = "exec_enter"])] IN
       pcb' = [pcb EXCEPT ![frame.pid].ctx = Context(stk)]
    /\ Goto("exec_flag")
    /\ UNCHANGED <<process_total, current_pid, terminal_process, switching, esp0, mapped, eax, midKernel>>

ExecFlag ==
    /\ frame.pc = "exec_flag"
    /\ pcb' = [pcb EXCEPT ![frame.pid].exception_flag = FALSE]
    /\ Goto("exec_enter")
    /\ UNCHANGED <<process_total, current_pid, terminal_process, switching, esp0, mapped, eax, midKernel>>

ExecEnter ==
    /\ frame.pc = "exec_enter"
    /\ esp0' = process_total - 1
    /\ stack' = [stack EXCEPT ![sp] = Append(@, frame)]
    /\ frame' = User(frame.pid)
    /\ eax' = 0
    /\ UNCHANGED <<process_total, current_pid, terminal_process, switching, pcb, mapped, sp, midKernel>>

Exit ==
    /\ frame.pc = "user"
    /\ Enter(Halting("exit", TRUE))
    /\ UNCHANGED <<control, midKernel>>

\* Mutant: the handlers mark PCB(process_total).
ExceptionMarksNext ==
    /\ frame.pc = "user"
    /\ pcb' = [pcb EXCEPT ![process_total % MaxProcs].exception_flag = TRUE]
    /\ Enter(Halting("exception", FALSE))
    /\ UNCHANGED <<process_total, current_pid, terminal_process, switching, esp0, mapped, midKernel>>

\* Every exception handler marks PCB(process_total - 1), then calls halt(0)
\* behind an interrupt gate.  (An exception of kernel code on behalf of the
\* program has the same effect on this state: its frames lie above the
\* program's on the same stack, and halt drops them all.)
Exception ==
    /\ frame.pc = "user"
    /\ IF Mapped(process_total - 1)
         THEN /\ pcb' = [pcb EXCEPT ![process_total - 1].exception_flag = TRUE]
              /\ Enter(Halting("exception", FALSE))
         ELSE Crash /\ UNCHANGED <<pcb, eax>>
    /\ UNCHANGED <<process_total, current_pid, terminal_process, switching, esp0, mapped, midKernel>>

\* The keyboard interrupt is taken whenever IF = 1.
KeyArrives ==
    /\ frame.intr
    /\ \/ frame.pc \in {"user", "read"} /\ UNCHANGED midKernel
       \/ /\ frame.pc \in ExecPcs \cup HaltPcs \cup {"switch_shell"}
          /\ midKernel < MaxMidKernel
          /\ midKernel' = midKernel + 1

CtrlC ==
    /\ CtrlCPressed
    /\ KeyArrives
    /\ process_total > 1
    /\ Enter(Halting("ctrlC", FALSE))
    /\ UNCHANGED control

\* Mutant: halt leaves the child's page mapped.
HaltBeginNoRemap ==
    /\ frame.pc = "halt_begin"
    /\ esp0' = pcb[current_pid].parent_pid
    /\ frame' = [frame EXCEPT !.pc = "halt_total", !.pid = current_pid]
    /\ UNCHANGED <<stack, sp, mapped>>
    /\ UNCHANGED <<process_total, current_pid, terminal_process, switching, pcb, eax, midKernel>>

HaltBegin ==
    /\ frame.pc = "halt_begin"
    /\ IF Mapped(current_pid)
         THEN /\ esp0' = pcb[current_pid].parent_pid
              /\ mapped' = pcb[current_pid].parent_pid
              /\ frame' = [frame EXCEPT !.pc = "halt_total", !.pid = current_pid]
              /\ UNCHANGED <<stack, sp>>
         ELSE Crash /\ UNCHANGED <<esp0, mapped>>
    /\ UNCHANGED <<process_total, current_pid, terminal_process, switching, pcb, eax, midKernel>>

\* Mutant: halt does not give the slot of the ended process back.
HaltTotalKept ==
    /\ frame.pc = "halt_total"
    /\ Goto("halt_terminal")
    /\ UNCHANGED <<control, eax, midKernel>>

HaltTotal ==
    /\ frame.pc = "halt_total"
    /\ process_total' = process_total - 1
    /\ Goto("halt_terminal")
    /\ UNCHANGED <<current_pid, terminal_process, switching, pcb, esp0, mapped, eax, midKernel>>

HaltTerminal ==
    /\ frame.pc = "halt_terminal"
    /\ terminal_process' =
         [terminal_process EXCEPT ![terminal_active_id] = pcb[frame.pid].parent_pid]
    /\ Goto("halt_current")
    /\ UNCHANGED <<process_total, current_pid, switching, pcb, esp0, mapped, eax, midKernel>>

\* Mutant: current_pid keeps naming the process that ends.
HaltCurrentKept ==
    /\ frame.pc = "halt_current"
    /\ Goto("halt_finish")
    /\ UNCHANGED <<control, eax, midKernel>>

HaltCurrent ==
    /\ frame.pc = "halt_current"
    /\ current_pid' = terminal_process[terminal_active_id]
    /\ Goto("halt_finish")
    /\ UNCHANGED <<process_total, terminal_process, switching, pcb, esp0, mapped, eax, midKernel>>

\* Mutant: the status of an exception is cut to the byte halt was given.
StatusInAByte(p, why) == IF pcb[p].exception_flag THEN 255
                         ELSE IF why = "ctrlC" THEN 1 ELSE 0

RealStatus(p, why) == IF pcb[p].exception_flag THEN 256
                      ELSE IF why = "ctrlC" THEN 1 ELSE 0

\* Back into the parent's call of execute, or a new shell over this stack.
HaltFinish ==
    /\ frame.pc = "halt_finish"
    /\ pcb' = [pcb EXCEPT ![frame.pid].exception_flag = FALSE]
    /\ IF terminal_process[terminal_active_id] < 0
         THEN Call("halt_return", Kernel("exec_check", TRUE)) /\ UNCHANGED eax
         ELSE /\ LoadContext(pcb[frame.pid].ctx, stack)
              /\ eax' = RealStatus(frame.pid, frame.why)
    /\ UNCHANGED <<process_total, current_pid, terminal_process, switching, esp0, mapped, midKernel>>

\* Only reached when the new shell could not be started.  The handlers of
\* keys and exceptions drop what halt returns.
HaltReturn ==
    /\ frame.pc = "halt_return"
    /\ Return
    /\ eax' = IF Last(stack[sp]).pc # "user" THEN eax ELSE IF frame.why = "exit" THEN 1 ELSE 0
    /\ UNCHANGED <<control, midKernel>>

-----------------------------------------------------------------------------
(* Alt+F1..F3: the keyboard handler calls terminal_switch (the screen it   *)
(* saves and restores is not part of this module).                         *)

AltF(t) ==
    /\ t \in FKeys
    /\ KeyArrives
    /\ t # terminal_active_id
    /\ terminal_active_id' = t
    /\ terminal_flags' = [terminal_flags EXCEPT ![t] = FALSE]
    /\ Enter(IF terminal_flags[t] THEN Kernel("switch_shell", TRUE)
                                  ELSE Kernel("switch_save", FALSE))
    /\ UNCHANGED <<process_total, current_pid, terminal_process, pit_count, pcb, esp0, mapped>>

\* Mutant: terminal_switch sets pit_count only on its way out.
SwitchShellLate ==
    /\ frame.pc = "switch_shell"
    /\ Call("switch_save", Kernel("exec_check", TRUE))
    /\ UNCHANGED <<control, eax, midKernel>>

SwitchShell ==
    /\ frame.pc = "switch_shell"
    /\ pit_count' = terminal_active_id
    /\ Call("switch_save", Kernel("exec_check", TRUE))
    /\ UNCHANGED <<process_total, current_pid, terminal_process, terminal_flags,
                   terminal_active_id, pcb, esp0, mapped, eax, midKernel>>

\* Mutant: terminal_switch leaves tss.esp0 with the process it leaves.
SwitchSaveKeepsEsp0 ==
    /\ frame.pc = "switch_save"
    /\ pit_count' = terminal_active_id
    /\ LET next == terminal_process[terminal_active_id]
           stk == [stack EXCEPT ![sp] = Append(@, [frame EXCEPT !.intr = FALSE])] IN
       IF Mapped(current_pid) /\ Mapped(next)
         THEN /\ pcb' = [pcb EXCEPT ![current_pid].ctx = Context(stk)]
              /\ current_pid' = next
              /\ mapped' = next
              /\ LoadContext(pcb'[next].ctx, stk)
         ELSE Crash /\ UNCHANGED <<pcb, current_pid, mapped>>
    /\ UNCHANGED <<process_total, terminal_process, terminal_flags, terminal_active_id, esp0, eax, midKernel>>

SwitchSave ==
    /\ frame.pc = "switch_save"
    /\ pit_count' = terminal_active_id
    /\ LET next == terminal_process[terminal_active_id]
           stk == [stack EXCEPT ![sp] = Append(@, [frame EXCEPT !.intr = FALSE])] IN
       IF Mapped(current_pid)
         THEN /\ pcb' = [pcb EXCEPT ![current_pid].ctx = Context(stk)]
              /\ current_pid' = next
              /\ mapped' = next
              /\ esp0' = next
              /\ IF Mapped(next) THEN LoadContext(pcb'[next].ctx, stk) ELSE Crash
         ELSE Crash /\ UNCHANGED <<pcb, current_pid, mapped, esp0>>
    /\ UNCHANGED <<process_total, terminal_process, terminal_flags, terminal_active_id, eax, midKernel>>

-----------------------------------------------------------------------------
(* read on the keyboard: spins in terminal_read until a line is there *)

Read ==
    /\ frame.pc = "user"
    /\ Enter(Kernel("read", TRUE))
    /\ UNCHANGED <<control, midKernel>>

ReadDone ==
    /\ frame.pc = "read"
    /\ Return
    /\ UNCHANGED <<control, eax, midKernel>>

-----------------------------------------------------------------------------
UserCall == Execute \/ Exit \/ Exception \/ Read
Key == CtrlC \/ \E t \in Terminals : AltF(t)

\* The kernel's own steps, which the CPU keeps taking.
KernelStep ==
    \/ ExecCheck \/ ExecInc \/ ExecMap \/ ExecPcb \/ ExecCurrent \/ ExecSave \/ ExecFlag
    \/ ExecEnter
    \/ HaltBegin \/ HaltTotal \/ HaltTerminal \/ HaltCurrent \/ HaltFinish \/ HaltReturn
    \/ SwitchShell \/ SwitchSave

Next == UserCall \/ Key \/ KernelStep \/ ReadDone

Spec == Init /\ [][Next]_vars
FairSpec == Spec /\ WF_vars(KernelStep)

-----------------------------------------------------------------------------
(* What the module promises.  Which instance satisfies what is said in the *)
(* MC modules; InUser restricts a claim to the moments a program runs.     *)

InUser == frame.pc = "user"

Activations == [pc : Pcs, pid : Pids, intr : BOOLEAN, why : Causes]
Contexts == [stk : Pids, frames : Seq(Activations)]

\* Types; execute and halt give user code no result but those listed.
TypeOK ==
    /\ process_total \in Int
    /\ current_pid \in Int
    /\ terminal_process \in [Terminals -> Int]
    /\ terminal_flags \in [Terminals -> BOOLEAN]
    /\ terminal_active_id \in Terminals
    /\ pit_count \in Terminals
    /\ pcb \in [Pids -> [parent_pid : Int, exception_flag : BOOLEAN, ctx : Contexts]]
    /\ esp0 \in Int
    /\ mapped \in Int
    /\ stack \in [Pids -> Seq(Activations)]
    /\ sp \in Pids
    /\ frame \in Activations
    /\ eax \in {-1, 0, 1, 10, 256}
    /\ midKernel \in 0 .. MaxMidKernel

\* The kernel never returns through a stack that was reused, and never
\* touches a PCB that does not exist (halt, terminal_switch, execute).
NeverWild == frame.pc # "wild"

\* helper_pass_pid "always" returns cur_pid + 1: read, write, open, close,
\* the exception handlers and the rtc find the caller's PCB with it.
TotalIsPidPlusOne == InUser => process_total = current_pid + 1

\* The four globals that say who runs agree whenever a program runs: its
\* page, its kernel stack, current_pid and the terminal in front.
GlobalsAgree ==
    InUser => /\ mapped = current_pid
              /\ esp0 = current_pid
              /\ terminal_process[terminal_active_id] = current_pid

\* The registers in the CPU are those of the process whose page is mapped.
RunsCurrentProcess == InUser => frame.pid = current_pid

\* Under a running process every ancestor, down to the shell, still waits in
\* its own execute: halt will find the caller's activation on its stack.
AncestorsWaiting ==
    InUser => \A p \in 1 .. current_pid :
        LET fs == pcb[p].ctx.frames IN
        /\ pcb[p].parent_pid = p - 1
        /\ pcb[p].ctx.stk = p - 1
        /\ IsPrefix(fs, stack[p - 1])
        /\ Len(fs) >= 2 /\ fs[Len(fs) - 1] = User(p - 1)

\* When a process ends and its caller runs again, the caller is its parent,
\* and it is told 256 exactly when an exception ended the child.
HaltResumesParent ==
    [][frame.pc = "halt_finish" /\ frame'.pc = "user"
         => frame'.pid = pcb[frame.pid].parent_pid]_vars

ExceptionReported ==
    [][frame.pc = "halt_finish" /\ frame'.pc = "user"
         => (eax' = 256 <=> frame.why = "exception")]_vars

\* "We only allow 6 programs" (system_call.c:256, the number has become 10):
\* execute tests for the limit with =, and counts some instructions later.
NeverAboveLimit == process_total <= MaxProcs

\* A terminal that has had its shell always has a process while a program
\* runs: the last process of a terminal is replaced by a new shell.
TerminalsKeepAShell ==
    InUser => \A t \in Terminals : ~terminal_flags[t] => terminal_process[t] >= 0

\* terminal_read looks at the line buffer of the terminal in front: pit_count
\* follows terminal_active_id before any program or read runs again.
ReadsActiveTerminal == frame.pc \in {"user", "read"} => pit_count = terminal_active_id

\* On one terminal the processes are the activations of ProgramStack: the one
\* on the CPU, or the one whose call the kernel is working on, is the last.
Programs == IF frame.pc = "wild" THEN -1
            ELSE IF InUser THEN frame.pid + 1
            ELSE IF Head(stack[sp]) = Boot THEN 0 ELSE Head(stack[sp]).pid + 1

Calls == INSTANCE ProgramStack WITH
    Limit <- MaxProcs,
    depth <- Programs,
    running <- InUser,
    result <- IF InUser THEN eax ELSE 0

\* execute and halt are calls and returns of programs.
ImplementsProgramStack == Calls!Spec

\* Every call, exception and key press ends with a program running again or
\* waiting for a line.
KernelReturns == frame.pc \in KernelPcs ~> frame.pc \in {"user", "read"}
=============================================================================
