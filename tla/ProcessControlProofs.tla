------------------------ MODULE ProcessControlProofs ------------------------
(***************************************************************************)
(* Type correctness of ProcessControl, for every number of processes and   *)
(* terminals and wherever in the kernel keys arrive, and with it that no   *)
(* function ever returns from an empty kernel stack.                       *)
(***************************************************************************)
EXTENDS ProcessControl, SequenceTheorems, TLAPS

(* Front and Last of a sequence that is not empty.                         *)
LEMMA FrontLast ==
    ASSUME NEW S, NEW s \in Seq(S), s # <<>>
    PROVE  /\ Front(s) \in Seq(S)
           /\ Len(Front(s)) = Len(s) - 1
           /\ \A k \in 1 .. Len(s) - 1 : Front(s)[k] = s[k]
           /\ Last(s) \in S
           /\ Front(s) = <<>> => Last(s) = s[1]
           /\ Len(s) >= 1
  <1> DEFINE n == Len(s)
  <1>1. n \in Nat \ {0}
    BY EmptySeq, LenProperties
  <1>2. \A k \in 1 .. n - 1 : s[k] \in S
    BY <1>1, ElementOfSeq
  <1>3. /\ Front(s) \in Seq(S)
        /\ Len(Front(s)) = IF 1 <= n - 1 THEN (n - 1) - 1 + 1 ELSE 0
        /\ \A k \in 1 .. (n - 1) - 1 + 1 : Front(s)[k] = s[1 + k - 1]
    <2>1. 1 \in Int /\ n - 1 \in Int
      BY <1>1
    <2> HIDE DEF n
    <2>2. /\ SubSeq(s, 1, n - 1) \in Seq(S)
          /\ Len(SubSeq(s, 1, n - 1)) = IF 1 <= n - 1 THEN (n - 1) - 1 + 1 ELSE 0
          /\ \A k \in 1 .. (n - 1) - 1 + 1 : SubSeq(s, 1, n - 1)[k] = s[1 + k - 1]
      BY <1>2, <2>1, SubSeqProperties
    <2>3. Front(s) = SubSeq(s, 1, n - 1)
      BY DEF Front, n
    <2> QED BY <2>2, <2>3, Zenon
  <1>4. Len(Front(s)) = n - 1
    <2> HIDE DEF n
    <2>1. CASE n = 1
      BY <1>3, <2>1
    <2>2. CASE n > 1
      BY <1>1, <1>3, <2>2
    <2> QED BY <1>1, <2>1, <2>2
  <1>5. \A k \in 1 .. n - 1 : Front(s)[k] = s[k]
    <2> HIDE DEF n
    <2> TAKE k \in 1 .. n - 1
    <2>1. k \in 1 .. (n - 1) - 1 + 1 /\ 1 + k - 1 = k
      BY <1>1
    <2> QED BY <1>3, <2>1
  <1>6. Last(s) \in S
    BY <1>1, ElementOfSeq DEF Last
  <1>7. Front(s) = <<>> => Last(s) = s[1]
    <2>1. Len(<<>>) = 0
      BY EmptySeq
    <2>2. Front(s) = <<>> => n = 1
      BY <1>1, <1>4, <2>1
    <2> QED BY <2>2 DEF Last
  <1> QED BY <1>1, <1>3, <1>4, <1>5, <1>6, <1>7

-----------------------------------------------------------------------------
(* Types.  The oldest activation of a stack is the user code that entered  *)
(* the kernel there, or the boot code; kernel code runs above one of them. *)

Rooted(s) == s # <<>> => s[1].pc \in {"user", "boot"}

InKernel == frame.pc \notin {"user", "boot", "wild"}

RunTyped ==
    /\ stack \in [Pids -> Seq(Activations)]
    /\ \A p \in Pids : Rooted(stack[p])
    /\ sp \in Pids
    /\ frame \in Activations
    /\ InKernel => stack[sp] # <<>>

Pcbs == [parent_pid : Int, exception_flag : BOOLEAN, ctx : Contexts]

PcbTyped == pcb \in [Pids -> Pcbs] /\ \A p \in Pids : Rooted(pcb[p].ctx.frames)

GlobalsTyped ==
    /\ process_total \in Int
    /\ current_pid \in Int
    /\ terminal_process \in [Terminals -> Int]
    /\ terminal_flags \in [Terminals -> BOOLEAN]
    /\ terminal_active_id \in Terminals
    /\ pit_count \in Terminals
    /\ esp0 \in Int
    /\ mapped \in Int
    /\ eax \in {-1, 0, 1, 10, 256}
    /\ midKernel \in 0 .. MaxMidKernel

TypeInv == GlobalsTyped /\ RunTyped /\ PcbTyped

LEMMA TypesFollow == TypeInv => TypeOK
  BY DEF TypeInv, GlobalsTyped, RunTyped, PcbTyped, Pcbs, TypeOK

(* Pushing on a rooted stack that is not empty.                            *)
LEMMA PushRooted ==
    ASSUME NEW s \in Seq(Activations), NEW f \in Activations, Rooted(s),
           s # <<>> \/ f.pc \in {"user", "boot"}
    PROVE  /\ Append(s, f) \in Seq(Activations)
           /\ Append(s, f) # <<>>
           /\ Rooted(Append(s, f))
  <1>1. Len(s) \in Nat /\ (s # <<>> => Len(s) >= 1)
    BY LenProperties, EmptySeq
  <1>2. /\ Append(s, f) \in Seq(Activations)
        /\ Append(s, f) # <<>>
        /\ Len(Append(s, f)) = Len(s) + 1
        /\ \A k \in 1 .. Len(s) : Append(s, f)[k] = s[k]
        /\ Append(s, f)[Len(s) + 1] = f
    BY AppendProperties
  <1>3. CASE s = <<>>
    <2>1. Append(s, f)[1] = f
      BY <1>2, <1>3, EmptySeq
    <2> QED BY <1>2, <1>3, <2>1 DEF Rooted
  <1>4. CASE s # <<>>
    BY <1>1, <1>2, <1>4 DEF Rooted
  <1> QED BY <1>3, <1>4

(* Going back to an activation, with what is under it left on the stack.   *)
LEMMA ReturnTyped ==
    ASSUME TypeInv, NEW stk \in [Pids -> Seq(Activations)], NEW s \in Pids,
           NEW under \in Seq(Activations), under # <<>>, Rooted(under),
           \A p \in Pids : Rooted(stk[p]), ReturnTo(stk, s, under)
    PROVE  RunTyped'
  <1>1. /\ Front(under) \in Seq(Activations)
        /\ Len(Front(under)) = Len(under) - 1
        /\ \A k \in 1 .. Len(under) - 1 : Front(under)[k] = under[k]
        /\ Last(under) \in Activations
        /\ Front(under) = <<>> => Last(under) = under[1]
        /\ Len(under) >= 1
    BY FrontLast
  <1>2. Rooted(Front(under))
    BY <1>1, EmptySeq DEF Rooted
  <1>3. stack' = [stk EXCEPT ![s] = Front(under)] /\ sp' = s /\ frame' = Resumed(Last(under))
    BY DEF ReturnTo
  <1>4. frame' \in Activations /\ frame'.pc = Last(under).pc
    BY <1>1, <1>3 DEF Resumed, Activations, TypeInv, RunTyped
  <1>5. InKernel' => stack'[sp'] # <<>>
    BY <1>1, <1>3, <1>4 DEF InKernel, Rooted
  <1> QED BY <1>1, <1>2, <1>3, <1>4, <1>5 DEF RunTyped

LEMMA WildTyped == Wild \in Activations /\ Wild.pc = "wild"
  BY ProcessAssumption DEF Wild, Activation, Activations, Pcs, Causes, Pids

LEMMA LoadContextTyped ==
    ASSUME TypeInv, NEW stk \in [Pids -> Seq(Activations)], NEW ctx \in Contexts,
           \A p \in Pids : Rooted(stk[p]), Rooted(ctx.frames), LoadContext(ctx, stk)
    PROVE  RunTyped'
  <1>1. CASE Intact(ctx, stk) /\ ReturnTo(stk, ctx.stk, Front(ctx.frames))
    <2>1. ctx.frames \in Seq(Activations) /\ ctx.stk \in Pids /\ Len(ctx.frames) >= 2
      BY <1>1 DEF Intact, Contexts
    <2>2. ctx.frames # <<>>
      BY <2>1, EmptySeq
    <2>3. /\ Front(ctx.frames) \in Seq(Activations)
          /\ Len(Front(ctx.frames)) = Len(ctx.frames) - 1
          /\ \A k \in 1 .. Len(ctx.frames) - 1 : Front(ctx.frames)[k] = ctx.frames[k]
      BY <2>1, <2>2, FrontLast
    <2>4. Front(ctx.frames) # <<>> /\ Rooted(Front(ctx.frames))
      <3>1. Len(ctx.frames) \in Nat /\ Len(<<>>) = 0
        BY <2>1, LenProperties, EmptySeq
      <3>2. Front(ctx.frames) # <<>> /\ Front(ctx.frames)[1] = ctx.frames[1]
        BY <2>1, <2>3, <3>1
      <3> QED BY <2>2, <3>2 DEF Rooted
    <2> QED BY <1>1, <2>1, <2>3, <2>4, ReturnTyped
  <1>2. CASE frame' = Wild /\ stack' = stk /\ UNCHANGED sp
    BY <1>2, WildTyped DEF RunTyped, InKernel, TypeInv
  <1>3. CASE BootFrameReused(ctx, stk) /\ ReturnTo(stk, 0, <<stk[0][1]>>)
    <2>1. 0 \in Pids
      BY ProcessAssumption DEF Pids
    <2>2. stk[0] \in Seq(Activations) /\ Len(stk[0]) >= 2 /\ stk[0][1].pc = "user"
      BY <1>3, <2>1 DEF BootFrameReused
    <2>3. stk[0][1] \in Activations
      BY <2>2, ElementOfSeq, LenProperties
    <2>4. /\ <<stk[0][1]>> \in Seq(Activations)
          /\ <<stk[0][1]>> # <<>>
          /\ Rooted(<<stk[0][1]>>)
      BY <2>2, <2>3 DEF Rooted
    <2> QED BY <1>3, <2>1, <2>4, ReturnTyped
  <1> QED BY <1>1, <1>2, <1>3 DEF LoadContext

LEMMA CrashTyped == ASSUME TypeInv, Crash PROVE RunTyped'
  BY WildTyped DEF Crash, TypeInv, RunTyped, InKernel

LEMMA GotoTyped ==
    ASSUME TypeInv, InKernel, NEW f \in Activations, frame' = f, UNCHANGED <<stack, sp>>
    PROVE  RunTyped'
  BY DEF TypeInv, RunTyped

LEMMA MovesTyped ==
    ASSUME TypeInv, NEW pc \in Pcs
    PROVE  /\ [frame EXCEPT !.pc = pc] \in Activations
           /\ \A p \in Pids : [frame EXCEPT !.pc = pc, !.pid = p] \in Activations
           /\ \A b \in BOOLEAN : [frame EXCEPT !.intr = b] \in Activations
  BY DEF TypeInv, RunTyped, Activations

LEMMA HandlersTyped ==
    /\ \A pc \in Pcs, b \in BOOLEAN : Kernel(pc, b) \in Activations
    /\ \A why \in Causes, b \in BOOLEAN : Halting(why, b) \in Activations
    /\ \A p \in Pids : User(p) \in Activations
    /\ Boot \in Activations
  BY ProcessAssumption
  DEF Kernel, Halting, User, Boot, Activation, Activations, Pcs, KernelPcs, ExecPcs, HaltPcs,
      SwitchPcs, Causes, Pids

LEMMA EnterTyped ==
    ASSUME TypeInv, InKernel \/ frame.pc = "user", NEW handler \in Activations, Enter(handler)
    PROVE  RunTyped' /\ eax' = 0
  <1>1. CASE frame.pc # "user"
    <2>1. /\ Append(stack[sp], frame) \in Seq(Activations)
          /\ Append(stack[sp], frame) # <<>>
          /\ Rooted(Append(stack[sp], frame))
      BY <1>1, PushRooted DEF TypeInv, RunTyped
    <2>2. stack' = [stack EXCEPT ![sp] = Append(stack[sp], frame)]
          /\ frame' = handler /\ sp' = sp /\ eax' = 0
      BY <1>1 DEF Enter
    <2> QED BY <2>1, <2>2 DEF TypeInv, RunTyped
  <1>2. CASE frame.pc = "user" /\ Mapped(esp0)
    <2>1. /\ <<frame>> \in Seq(Activations)
          /\ <<frame>> # <<>>
          /\ Rooted(<<frame>>)
      BY <1>2 DEF Rooted, TypeInv, RunTyped
    <2>2. stack' = [stack EXCEPT ![esp0] = <<frame>>]
          /\ frame' = handler /\ sp' = esp0 /\ eax' = 0 /\ esp0 \in Pids
      BY <1>2 DEF Enter, Mapped
    <2> QED BY <2>1, <2>2 DEF TypeInv, RunTyped
  <1>3. CASE frame.pc = "user" /\ ~Mapped(esp0)
    BY <1>3, CrashTyped DEF Enter
  <1> QED BY <1>1, <1>2, <1>3

LEMMA CallTyped ==
    ASSUME TypeInv, InKernel, NEW after \in Pcs, NEW callee \in Activations, Call(after, callee)
    PROVE  RunTyped'
  <1>1. [frame EXCEPT !.pc = after] \in Activations
    BY MovesTyped
  <1> DEFINE s == Append(stack[sp], [frame EXCEPT !.pc = after])
  <1>2. s \in Seq(Activations) /\ s # <<>> /\ Rooted(s)
    BY <1>1, PushRooted DEF TypeInv, RunTyped
  <1>3. stack' = [stack EXCEPT ![sp] = s] /\ frame' = callee /\ sp' = sp
    BY DEF Call
  <1> QED BY <1>2, <1>3 DEF TypeInv, RunTyped

LEMMA ReturnsTyped == ASSUME TypeInv, InKernel, Return PROVE RunTyped'
  BY ReturnTyped DEF Return, TypeInv, RunTyped

(* One lemma per action.                                                   *)
LEMMA InitTyped == Init => TypeInv
  <1> SUFFICES ASSUME Init PROVE TypeInv
    OBVIOUS
  <1>1. /\ 0 \in Pids /\ 0 \in Terminals
        /\ <<>> \in Seq(Activations) /\ <<Boot>> \in Seq(Activations)
    BY ProcessAssumption, HandlersTyped DEF Pids, Terminals
  <1>2. GlobalsTyped
    BY <1>1, ProcessAssumption DEF Init, GlobalsTyped, Terminals
  <1>3. Kernel("exec_check", TRUE) \in Activations
    BY HandlersTyped DEF Pcs, KernelPcs, ExecPcs
  <1>4. RunTyped
    <2>1. Boot.pc = "boot"
      BY DEF Boot, Activation
    <2> QED BY <1>1, <1>3, <2>1 DEF Init, RunTyped, Rooted
  <1>5. PcbTyped
    <2>1. NoContext \in Contexts /\ NoContext.frames = <<>>
      BY <1>1 DEF NoContext, Contexts
    <2>2. [parent_pid |-> 0, exception_flag |-> FALSE, ctx |-> NoContext] \in Pcbs
      BY <2>1 DEF Pcbs
    <2> QED BY <2>1, <2>2 DEF Init, PcbTyped, Rooted
  <1> QED BY <1>2, <1>4, <1>5 DEF TypeInv

LEMMA UserCallTyped == ASSUME TypeInv, UserCall PROVE TypeInv'
  <1> USE DEF control, switching
  <1>1. CASE Execute \/ Exit \/ Read
    <2>1. /\ Kernel("exec_check", TRUE) \in Activations
          /\ Halting("exit", TRUE) \in Activations
          /\ Kernel("read", TRUE) \in Activations
      BY HandlersTyped DEF Pcs, KernelPcs, ExecPcs, Causes
    <2>2. RunTyped' /\ eax' = 0 /\ UNCHANGED <<control, midKernel>>
      BY <1>1, <2>1, EnterTyped DEF Execute, Exit, Read
    <2> QED BY <2>2 DEF TypeInv, GlobalsTyped, PcbTyped
  <1>2. CASE Exception
    <2>1. CASE Mapped(process_total - 1)
      <3>1. Halting("exception", FALSE) \in Activations
        BY HandlersTyped DEF Causes
      <3>2. RunTyped' /\ eax' = 0
        BY <1>2, <2>1, <3>1, EnterTyped DEF Exception
      <3>3. PcbTyped'
        BY <1>2, <2>1 DEF Exception, TypeInv, PcbTyped, Pcbs, Mapped
      <3> QED BY <1>2, <3>2, <3>3 DEF Exception, TypeInv, GlobalsTyped
    <2>2. CASE ~Mapped(process_total - 1)
      BY <1>2, <2>2, CrashTyped DEF Exception, TypeInv, GlobalsTyped, PcbTyped
    <2> QED BY <2>1, <2>2
  <1> QED BY <1>1, <1>2 DEF UserCall

LEMMA KeyTyped == ASSUME TypeInv, Key PROVE TypeInv'
  <1> USE DEF control, switching
  <1>1. KeyArrives => /\ InKernel \/ frame.pc = "user"
                      /\ midKernel' \in 0 .. MaxMidKernel
    BY ProcessAssumption
    DEF KeyArrives, InKernel, ExecPcs, HaltPcs, TypeInv, GlobalsTyped
  <1>2. CASE CtrlC
    <2>1. Halting("ctrlC", FALSE) \in Activations
      BY HandlersTyped DEF Causes
    <2>2. RunTyped' /\ eax' = 0 /\ KeyArrives /\ UNCHANGED control
      BY <1>1, <1>2, <2>1, EnterTyped DEF CtrlC
    <2> QED BY <1>1, <2>2 DEF TypeInv, GlobalsTyped, PcbTyped
  <1>3. ASSUME NEW t \in Terminals, AltF(t) PROVE TypeInv'
    <2>1. /\ Kernel("switch_shell", TRUE) \in Activations
          /\ Kernel("switch_save", FALSE) \in Activations
      BY HandlersTyped DEF Pcs, KernelPcs, SwitchPcs
    <2>2. RunTyped' /\ eax' = 0 /\ KeyArrives
      BY <1>1, <1>3, <2>1, EnterTyped DEF AltF
    <2> QED BY <1>1, <1>3, <2>2 DEF AltF, TypeInv, GlobalsTyped, PcbTyped
  <1> QED BY <1>2, <1>3 DEF Key

LEMMA ReadDoneTyped == ASSUME TypeInv, ReadDone PROVE TypeInv'
  <1>1. RunTyped'
    BY ReturnsTyped DEF ReadDone, InKernel
  <1> QED BY <1>1 DEF ReadDone, control, switching, TypeInv, GlobalsTyped, PcbTyped

LEMMA KernelPcsTyped == KernelPcs \subseteq Pcs /\ (frame.pc \in KernelPcs \ {"boot"} => InKernel)
  BY DEF Pcs, KernelPcs, ExecPcs, HaltPcs, SwitchPcs, InKernel

(* Moving on to the next stretch of the same function.                     *)
LEMMA StepTyped ==
    ASSUME TypeInv, InKernel, NEW pc \in KernelPcs,
           \/ Goto(pc)
           \/ \E p \in Pids : /\ frame' = [frame EXCEPT !.pc = pc, !.pid = p]
                             /\ UNCHANGED <<stack, sp>>
    PROVE  RunTyped'
  <1>1. pc \in Pcs
    BY KernelPcsTyped
  <1>2. CASE Goto(pc)
    BY <1>1, <1>2, MovesTyped, GotoTyped DEF Goto
  <1>3. CASE \E p \in Pids : /\ frame' = [frame EXCEPT !.pc = pc, !.pid = p]
                            /\ UNCHANGED <<stack, sp>>
    <2>1. PICK p \in Pids : /\ frame' = [frame EXCEPT !.pc = pc, !.pid = p]
                            /\ UNCHANGED <<stack, sp>>
      BY <1>3
    <2>2. [frame EXCEPT !.pc = pc, !.pid = p] \in Activations
      BY <1>1, MovesTyped
    <2> QED BY <2>1, <2>2, GotoTyped
  <1> QED BY <1>2, <1>3

LEMMA ExecTyped ==
    ASSUME TypeInv,
           \/ ExecCheck \/ ExecInc \/ ExecMap \/ ExecPcb
           \/ ExecCurrent \/ ExecSave \/ ExecFlag \/ ExecEnter
    PROVE  TypeInv'
  <1> USE DEF control, switching
  <1>0. ExecPcs \subseteq KernelPcs /\ (frame.pc \in ExecPcs => InKernel)
    BY DEF ExecPcs, KernelPcs, InKernel
  <1>1. CASE ExecCheck
    <2>1. RunTyped'
      BY <1>0, <1>1, ReturnsTyped, StepTyped DEF ExecCheck, ExecPcs
    <2> QED BY <1>1, <2>1 DEF ExecCheck, TypeInv, GlobalsTyped, PcbTyped
  <1>2. CASE ExecInc
    <2>1. RunTyped'
      BY <1>0, <1>2, StepTyped DEF ExecInc, ExecPcs
    <2> QED BY <1>2, <2>1 DEF ExecInc, TypeInv, GlobalsTyped, PcbTyped
  <1>3. CASE ExecMap
    <2>1. RunTyped'
      BY <1>0, <1>3, StepTyped DEF ExecMap, ExecPcs
    <2> QED BY <1>3, <2>1 DEF ExecMap, TypeInv, GlobalsTyped, PcbTyped
  <1>4. CASE ExecPcb
    <2> DEFINE new == process_total - 1
    <2>1. CASE Mapped(new)
      <3>1. RunTyped'
        BY <1>0, <1>4, <2>1, StepTyped DEF ExecPcb, ExecPcs, Mapped
      <3>2. PcbTyped'
        <4>1. terminal_process[terminal_active_id] \in Int
          BY DEF TypeInv, GlobalsTyped
        <4> QED BY <1>4, <2>1, <4>1 DEF ExecPcb, Mapped, TypeInv, PcbTyped, Pcbs
      <3>3. GlobalsTyped'
        BY <1>4, <2>1 DEF ExecPcb, TypeInv, GlobalsTyped
      <3> QED BY <3>1, <3>2, <3>3 DEF TypeInv
    <2>2. CASE ~Mapped(new)
      BY <1>4, <2>2, CrashTyped DEF ExecPcb, TypeInv, GlobalsTyped, PcbTyped
    <2> QED BY <2>1, <2>2
  <1>5. CASE ExecCurrent
    <2>1. RunTyped'
      BY <1>0, <1>5, StepTyped DEF ExecCurrent, ExecPcs
    <2>2. terminal_process[terminal_active_id] \in Int
      BY DEF TypeInv, GlobalsTyped
    <2> QED BY <1>5, <2>1, <2>2 DEF ExecCurrent, TypeInv, GlobalsTyped, PcbTyped
  <1>6. CASE ExecSave
    <2>1. RunTyped'
      BY <1>0, <1>6, StepTyped DEF ExecSave, ExecPcs
    <2> DEFINE f == [frame EXCEPT !.pc = "exec_enter"]
               ctx == [stk |-> sp, frames |-> Append(stack[sp], f)]
    <2>2. f \in Activations
      BY MovesTyped, KernelPcsTyped, <1>0 DEF ExecPcs
    <2>3. frame.pid \in Pids /\ stack[sp] \in Seq(Activations) /\ stack[sp] # <<>>
          /\ Rooted(stack[sp])
      BY <1>0, <1>6 DEF ExecSave, ExecPcs, TypeInv, RunTyped, Activations
    <2>4. ctx \in Contexts /\ Rooted(ctx.frames)
      <3>1. Append(stack[sp], f) \in Seq(Activations) /\ Rooted(Append(stack[sp], f))
        BY <2>2, <2>3, PushRooted
      <3> QED BY <3>1 DEF Contexts, TypeInv, RunTyped
    <2>5. pcb' = [pcb EXCEPT ![frame.pid].ctx = ctx]
      BY <1>6 DEF ExecSave, Context, TypeInv, RunTyped
    <2>6. PcbTyped'
      <3> HIDE DEF ctx
      <3> QED BY <2>3, <2>4, <2>5 DEF PcbTyped, Pcbs, TypeInv
    <2> QED BY <1>6, <2>1, <2>6 DEF ExecSave, TypeInv, GlobalsTyped
  <1>7. CASE ExecFlag
    <2>1. RunTyped'
      BY <1>0, <1>7, StepTyped DEF ExecFlag, ExecPcs
    <2>2. PcbTyped'
      BY <1>7 DEF ExecFlag, TypeInv, PcbTyped, Pcbs
    <2> QED BY <1>7, <2>1, <2>2 DEF ExecFlag, TypeInv, GlobalsTyped
  <1>8. CASE ExecEnter
    <2>1. frame \in Activations /\ frame.pid \in Pids /\ User(frame.pid) \in Activations
      BY HandlersTyped DEF TypeInv, RunTyped, Activations
    <2>2. stack[sp] \in Seq(Activations) /\ stack[sp] # <<>> /\ Rooted(stack[sp])
      BY <1>0, <1>8 DEF ExecEnter, ExecPcs, TypeInv, RunTyped
    <2>3. Append(stack[sp], frame) \in Seq(Activations) /\ Rooted(Append(stack[sp], frame))
      BY <2>1, <2>2, PushRooted
    <2>4. User(frame.pid).pc = "user"
      BY DEF User, Activation
    <2>5. RunTyped'
      BY <1>8, <2>1, <2>3, <2>4 DEF ExecEnter, TypeInv, RunTyped, InKernel
    <2> QED BY <1>8, <2>5 DEF ExecEnter, TypeInv, GlobalsTyped, PcbTyped
  <1> QED BY <1>1, <1>2, <1>3, <1>4, <1>5, <1>6, <1>7, <1>8

LEMMA HaltTyped ==
    ASSUME TypeInv,
           HaltBegin \/ HaltTotal \/ HaltTerminal \/ HaltCurrent \/ HaltFinish \/ HaltReturn
    PROVE  TypeInv'
  <1> USE DEF control, switching
  <1>0. HaltPcs \subseteq KernelPcs /\ (frame.pc \in HaltPcs => InKernel)
    BY DEF HaltPcs, KernelPcs, InKernel
  <1>1. CASE HaltBegin
    <2>1. CASE Mapped(current_pid)
      <3>1. RunTyped'
        BY <1>0, <1>1, <2>1, StepTyped DEF HaltBegin, HaltPcs, Mapped
      <3>2. pcb[current_pid].parent_pid \in Int
        BY <2>1 DEF Mapped, TypeInv, PcbTyped, Pcbs
      <3> QED BY <1>1, <2>1, <3>1, <3>2 DEF HaltBegin, TypeInv, GlobalsTyped, PcbTyped
    <2>2. CASE ~Mapped(current_pid)
      BY <1>1, <2>2, CrashTyped DEF HaltBegin, TypeInv, GlobalsTyped, PcbTyped
    <2> QED BY <2>1, <2>2
  <1>2. CASE HaltTotal
    <2>1. RunTyped'
      BY <1>0, <1>2, StepTyped DEF HaltTotal, HaltPcs
    <2> QED BY <1>2, <2>1 DEF HaltTotal, TypeInv, GlobalsTyped, PcbTyped
  <1>3. CASE HaltTerminal
    <2>1. RunTyped'
      BY <1>0, <1>3, StepTyped DEF HaltTerminal, HaltPcs
    <2>2. pcb[frame.pid].parent_pid \in Int
      BY DEF TypeInv, RunTyped, Activations, PcbTyped, Pcbs
    <2> QED BY <1>3, <2>1, <2>2 DEF HaltTerminal, TypeInv, GlobalsTyped, PcbTyped
  <1>4. CASE HaltCurrent
    <2>1. RunTyped'
      BY <1>0, <1>4, StepTyped DEF HaltCurrent, HaltPcs
    <2> QED BY <1>4, <2>1 DEF HaltCurrent, TypeInv, GlobalsTyped, PcbTyped
  <1>5. CASE HaltFinish
    <2>1. frame.pid \in Pids
      BY DEF TypeInv, RunTyped, Activations
    <2>2. PcbTyped'
      BY <1>5, <2>1 DEF HaltFinish, TypeInv, PcbTyped, Pcbs
    <2>3. RealStatus(frame.pid, frame.why) \in {0, 1, 256}
      BY DEF RealStatus
    <2>4. RunTyped'
      <3>1. CASE terminal_process[terminal_active_id] < 0
        <4>1. Kernel("exec_check", TRUE) \in Activations /\ "halt_return" \in Pcs
          BY HandlersTyped DEF Pcs, KernelPcs, ExecPcs, HaltPcs
        <4> QED BY <1>0, <1>5, <3>1, <4>1, CallTyped DEF HaltFinish, HaltPcs
      <3>2. CASE ~(terminal_process[terminal_active_id] < 0)
        BY <1>5, <2>1, <3>2, LoadContextTyped DEF HaltFinish, TypeInv, RunTyped, PcbTyped, Pcbs
      <3> QED BY <3>1, <3>2
    <2>5. eax' \in {-1, 0, 1, 10, 256}
      BY <1>5, <2>3, ZenonT(40) DEF HaltFinish, TypeInv, GlobalsTyped
    <2>6. GlobalsTyped'
      BY <1>5, <2>5 DEF HaltFinish, TypeInv, GlobalsTyped
    <2> QED BY <2>2, <2>4, <2>6 DEF TypeInv
  <1>6. CASE HaltReturn
    <2>1. RunTyped'
      BY <1>0, <1>6, ReturnsTyped DEF HaltReturn, HaltPcs
    <2> QED BY <1>6, <2>1 DEF HaltReturn, TypeInv, GlobalsTyped, PcbTyped
  <1> QED BY <1>1, <1>2, <1>3, <1>4, <1>5, <1>6

LEMMA SwitchTyped == ASSUME TypeInv, SwitchShell \/ SwitchSave PROVE TypeInv'
  <1> USE DEF control, switching
  <1>0. SwitchPcs \subseteq KernelPcs /\ (frame.pc \in SwitchPcs => InKernel)
    BY DEF SwitchPcs, KernelPcs, InKernel
  <1>1. CASE SwitchShell
    <2>1. Kernel("exec_check", TRUE) \in Activations /\ "switch_save" \in Pcs
      BY HandlersTyped DEF Pcs, KernelPcs, ExecPcs, SwitchPcs
    <2>2. RunTyped'
      BY <1>0, <1>1, <2>1, CallTyped DEF SwitchShell, SwitchPcs
    <2> QED BY <1>1, <2>2 DEF SwitchShell, TypeInv, GlobalsTyped, PcbTyped
  <1>2. CASE SwitchSave
    <2> DEFINE next == terminal_process[terminal_active_id]
               f == [frame EXCEPT !.intr = FALSE]
               stk == [stack EXCEPT ![sp] = Append(@, f)]
    <2>1. next \in Int
      BY DEF TypeInv, GlobalsTyped
    <2>2. Append(stack[sp], f) \in Seq(Activations) /\ Rooted(Append(stack[sp], f))
      <3>1. f \in Activations
        BY DEF TypeInv, RunTyped, Activations
      <3> QED BY <1>0, <1>2, <3>1, PushRooted DEF SwitchSave, SwitchPcs, TypeInv, RunTyped
    <2>3. stk \in [Pids -> Seq(Activations)] /\ \A p \in Pids : Rooted(stk[p])
      BY <2>2 DEF TypeInv, RunTyped
    <2>4. stk[sp] = Append(stack[sp], f)
      BY DEF TypeInv, RunTyped
    <2> HIDE DEF stk
    <2>5. Context(stk) \in Contexts /\ Rooted(Context(stk).frames)
      BY <2>2, <2>3, <2>4 DEF Context, Contexts, TypeInv, RunTyped
    <2>6. CASE Mapped(current_pid)
      <3>1. pcb' = [pcb EXCEPT ![current_pid].ctx = Context(stk)]
        BY <1>2, <2>6 DEF SwitchSave, stk
      <3>2. PcbTyped'
        BY <2>5, <2>6, <3>1 DEF Mapped, TypeInv, PcbTyped, Pcbs
      <3>3. RunTyped'
        <4>1. CASE Mapped(next)
          <5>1. LoadContext(pcb'[next].ctx, stk)
            BY <1>2, <2>6, <4>1 DEF SwitchSave, stk
          <5>2. pcb'[next].ctx \in Contexts /\ Rooted(pcb'[next].ctx.frames)
            BY <3>2, <4>1 DEF PcbTyped, Pcbs, Mapped
          <5> QED BY <2>3, <5>1, <5>2, LoadContextTyped
        <4>2. CASE ~Mapped(next)
          BY <1>2, <2>6, <4>2, CrashTyped DEF SwitchSave
        <4> QED BY <4>1, <4>2
      <3> QED BY <1>2, <2>1, <2>6, <3>2, <3>3 DEF SwitchSave, TypeInv, GlobalsTyped
    <2>7. CASE ~Mapped(current_pid)
      BY <1>2, <2>7, CrashTyped DEF SwitchSave, TypeInv, GlobalsTyped, PcbTyped
    <2> QED BY <2>6, <2>7
  <1> QED BY <1>1, <1>2

LEMMA NextTyped == TypeInv /\ [Next]_vars => TypeInv'
  <1> SUFFICES ASSUME TypeInv, [Next]_vars PROVE TypeInv'
    OBVIOUS
  <1>1. CASE UserCall \/ Key \/ ReadDone
    BY <1>1, UserCallTyped, KeyTyped, ReadDoneTyped
  <1>2. CASE KernelStep
    BY <1>2, ExecTyped, HaltTyped, SwitchTyped DEF KernelStep
  <1>3. CASE UNCHANGED vars
    BY <1>3
    DEF vars, control, switching, TypeInv, GlobalsTyped, RunTyped, InKernel, PcbTyped
  <1> QED BY <1>1, <1>2, <1>3 DEF Next

THEOREM TypeInvariance == Spec => []TypeInv
  BY InitTyped, NextTyped, PTL DEF Spec

(* Type correctness, for keys that arrive anywhere in the kernel too; in   *)
(* particular no return ever pops an empty stack.                          *)
THEOREM TypeCorrect == Spec => []TypeOK
  BY TypesFollow, TypeInvariance, PTL

-----------------------------------------------------------------------------
(***************************************************************************)
(* The globals that say who runs agree, for every number of processes and  *)
(* terminals, as long as keys arrive only while a program runs or a read   *)
(* waits (MaxMidKernel = 0).                                               *)
(*                                                                         *)
(* The invariant says, for every place in execute, halt and                *)
(* terminal_switch, which of the globals have been brought up to date      *)
(* there; and that the activations left on the kernel stacks and in the    *)
(* PCBs wait only at places where nothing is half done, so that a return   *)
(* through any of them, even one to the wrong process, finds all of them   *)
(* up to date.                                                             *)
(***************************************************************************)


\* Where an activation may wait for a return.
Callers == {"user", "read", "boot", "switch_save", "halt_return"}

Clean(s) == \A k \in 1 .. Len(s) : s[k].pc \in Callers

\* A saved context ends with the activation that saved it, which is left for
\* good when the context is loaded: only what is under it counts.
CleanBelow(s) == \A k \in 1 .. Len(s) - 1 : s[k].pc \in Callers

StacksClean ==
    /\ frame.pc \notin {"user", "wild"} => Clean(stack[sp])
    /\ \A p \in Pids : CleanBelow(pcb[p].ctx.frames)

Agree == /\ mapped = current_pid
         /\ esp0 = current_pid
         /\ terminal_process[terminal_active_id] = current_pid

FrontShell == terminal_process[terminal_active_id] >= 0

OtherShells ==
    \A t \in Terminals \ {terminal_active_id} : ~terminal_flags[t] => terminal_process[t] >= 0

Caller == Last(stack[sp]).pc

\* What holds where a program runs, and wherever it is called from.
Settled == frame.pc \in {"user", "read", "halt_return"} => Agree /\ FrontShell

Executing ==
    /\ frame.pc = "exec_check" =>
         /\ Caller \in {"switch_save", "boot"} \/ Agree
         /\ Caller \in {"switch_save", "boot", "halt_return"} \/ FrontShell
         /\ Caller = "halt_return" => process_total < MaxProcs
    /\ frame.pc = "exec_inc" => process_total < MaxProcs
    /\ frame.pc = "exec_pcb" => mapped = process_total - 1
    /\ frame.pc \in {"exec_current", "exec_save", "exec_flag", "exec_enter"} =>
         /\ frame.pid = process_total - 1
         /\ mapped = frame.pid
         /\ terminal_process[terminal_active_id] = frame.pid
    /\ frame.pc \in {"exec_save", "exec_flag", "exec_enter"} => current_pid = frame.pid

Halts ==
    /\ frame.pc \in {"halt_total", "halt_terminal", "halt_current", "halt_finish"} =>
         /\ mapped = pcb[frame.pid].parent_pid
         /\ esp0 = pcb[frame.pid].parent_pid
    /\ frame.pc \in {"halt_terminal", "halt_current", "halt_finish"} => process_total < MaxProcs
    /\ frame.pc \in {"halt_current", "halt_finish"} =>
         terminal_process[terminal_active_id] = mapped
    /\ frame.pc = "halt_finish" => current_pid = mapped

PitFollows ==
    frame.pc \notin {"switch_shell", "switch_save", "wild"} => pit_count = terminal_active_id

Stages == /\ Settled /\ Executing /\ Halts /\ PitFollows /\ OtherShells
          /\ process_total <= MaxProcs

AgreementInv == TypeInv /\ StacksClean /\ Stages

-----------------------------------------------------------------------------
(* What the ways of moving between activations leave on the stack in use.  *)

AtCaller == frame.pc \in Callers /\ Clean(stack[sp])

LEMMA ReturnToCaller ==
    ASSUME NEW stk \in [Pids -> Seq(Activations)], NEW s \in Pids,
           NEW under \in Seq(Activations), under # <<>>, Clean(under), ReturnTo(stk, s, under)
    PROVE  AtCaller'
  <1>1. /\ Front(under) \in Seq(Activations)
        /\ Len(Front(under)) = Len(under) - 1
        /\ \A k \in 1 .. Len(under) - 1 : Front(under)[k] = under[k]
        /\ Last(under) \in Activations
        /\ Len(under) >= 1
    BY FrontLast
  <1>2. Len(under) \in Nat
    BY LenProperties
  <1>3. Clean(Front(under))
    BY <1>1, <1>2 DEF Clean
  <1>4. Last(under).pc \in Callers
    BY <1>1, <1>2 DEF Clean, Last
  <1>5. frame'.pc = Last(under).pc
    BY <1>1 DEF ReturnTo, Resumed, Activations
  <1>6. stack'[sp'] = Front(under)
    BY DEF ReturnTo
  <1> QED BY <1>3, <1>4, <1>5, <1>6 DEF AtCaller

LEMMA ReturnsToCaller ==
    ASSUME TypeInv, InKernel, Clean(stack[sp]), Return
    PROVE  AtCaller'
  BY ReturnToCaller DEF Return, TypeInv, RunTyped

LEMMA LoadsCaller ==
    ASSUME TypeInv, NEW stk \in [Pids -> Seq(Activations)], NEW ctx \in Contexts,
           CleanBelow(ctx.frames), LoadContext(ctx, stk)
    PROVE  frame'.pc = "wild" \/ AtCaller'
  <1>1. CASE Intact(ctx, stk) /\ ReturnTo(stk, ctx.stk, Front(ctx.frames))
    <2>1. ctx.frames \in Seq(Activations) /\ ctx.stk \in Pids /\ Len(ctx.frames) >= 2
      BY <1>1 DEF Intact, Contexts
    <2>2. Len(ctx.frames) \in Nat /\ Len(<<>>) = 0
      BY <2>1, LenProperties, EmptySeq
    <2>3. /\ Front(ctx.frames) \in Seq(Activations)
          /\ Len(Front(ctx.frames)) = Len(ctx.frames) - 1
          /\ \A k \in 1 .. Len(ctx.frames) - 1 : Front(ctx.frames)[k] = ctx.frames[k]
      <3>1. ctx.frames # <<>>
        BY <2>1, <2>2
      <3> QED BY <2>1, <3>1, FrontLast
    <2>4. Front(ctx.frames) # <<>>
      BY <2>1, <2>2, <2>3
    <2>5. Clean(Front(ctx.frames))
      BY <2>2, <2>3 DEF Clean, CleanBelow
    <2> QED BY <1>1, <2>1, <2>3, <2>4, <2>5, ReturnToCaller
  <1>2. CASE frame' = Wild
    BY <1>2, WildTyped
  <1>3. CASE BootFrameReused(ctx, stk) /\ ReturnTo(stk, 0, <<stk[0][1]>>)
    <2>1. 0 \in Pids
      BY ProcessAssumption DEF Pids
    <2>2. stk[0] \in Seq(Activations) /\ Len(stk[0]) >= 2 /\ stk[0][1].pc = "user"
      BY <1>3, <2>1 DEF BootFrameReused
    <2>3. stk[0][1] \in Activations
      BY <2>2, ElementOfSeq, LenProperties
    <2>4. /\ <<stk[0][1]>> \in Seq(Activations)
          /\ <<stk[0][1]>> # <<>>
          /\ Clean(<<stk[0][1]>>)
      BY <2>2, <2>3 DEF Clean, Callers
    <2> QED BY <1>3, <2>1, <2>4, ReturnToCaller
  <1> QED BY <1>1, <1>2, <1>3 DEF LoadContext

LEMMA PushClean ==
    ASSUME NEW s \in Seq(Activations), NEW f \in Activations, Clean(s)
    PROVE  /\ Append(s, f) \in Seq(Activations)
           /\ CleanBelow(Append(s, f))
           /\ f.pc \in Callers => Clean(Append(s, f))
           /\ Last(Append(s, f)) = f
  <1>1. Len(s) \in Nat
    BY LenProperties
  <1>2. /\ Append(s, f) \in Seq(Activations)
        /\ Len(Append(s, f)) = Len(s) + 1
        /\ \A k \in 1 .. Len(s) : Append(s, f)[k] = s[k]
        /\ Append(s, f)[Len(s) + 1] = f
    BY AppendProperties
  <1> QED BY <1>1, <1>2 DEF Clean, CleanBelow, Last

(* A key or a call that enters the kernel from a program or a read.        *)
LEMMA EnterClean ==
    ASSUME TypeInv, StacksClean, frame.pc \in {"user", "read"},
           NEW handler \in Activations, Enter(handler)
    PROVE  \/ frame'.pc = "wild"
           \/ /\ frame' = handler
              /\ Clean(stack'[sp'])
              /\ frame.pc = "user" => Last(stack'[sp']).pc = "user"
  <1>1. CASE frame.pc = "read"
    <2>1. stack[sp] \in Seq(Activations) /\ frame \in Activations /\ Clean(stack[sp])
      BY <1>1 DEF TypeInv, RunTyped, StacksClean
    <2>2. Clean(Append(stack[sp], frame))
      BY <1>1, <2>1, PushClean DEF Callers
    <2>3. stack'[sp'] = Append(stack[sp], frame) /\ frame' = handler
      BY <1>1 DEF Enter, TypeInv, RunTyped
    <2> QED BY <1>1, <2>2, <2>3
  <1>2. CASE frame.pc = "user" /\ Mapped(esp0)
    <2>1. stack'[sp'] = <<frame>> /\ frame' = handler
      BY <1>2 DEF Enter, Mapped, TypeInv, RunTyped
    <2>2. Clean(<<frame>>) /\ Last(<<frame>>) = frame
      BY <1>2 DEF Clean, Last, Callers
    <2> QED BY <1>2, <2>1, <2>2
  <1>3. CASE frame.pc = "user" /\ ~Mapped(esp0)
    BY <1>3, WildTyped DEF Enter, Crash
  <1> QED BY <1>1, <1>2, <1>3

-----------------------------------------------------------------------------
(* Two ways a step can end that need no more than this of its new state.   *)

LEMMA WildStages ==
    ASSUME frame'.pc = "wild", OtherShells', process_total' <= MaxProcs
    PROVE  Stages'
  BY DEF Stages, Settled, Executing, Halts, PitFollows

LEMMA CallerStages ==
    ASSUME AtCaller', Agree', FrontShell', pit_count' = terminal_active_id', OtherShells',
           process_total' <= MaxProcs
    PROVE  Stages'
  BY DEF Stages, Settled, Executing, Halts, PitFollows, AtCaller, Callers

LEMMA InitAgreement == Init => AgreementInv
  <1> SUFFICES ASSUME Init PROVE AgreementInv
    OBVIOUS
  <1>1. /\ 0 \in Pids /\ Len(<<>>) = 0
        /\ Boot \in Activations /\ Boot.pc = "boot"
    BY ProcessAssumption, HandlersTyped, EmptySeq DEF Pids, Boot, Activation
  <1>2. stack[sp] = <<Boot>> /\ frame.pc = "exec_check" /\ Last(stack[sp]) = Boot
    BY <1>1 DEF Init, Kernel, Activation, Last
  <1>3. StacksClean
    BY <1>1, <1>2 DEF Init, StacksClean, Clean, CleanBelow, Callers, NoContext
  <1>4. Stages
    <2>1. Settled /\ Executing /\ Halts
      BY <1>1, <1>2 DEF Settled, Executing, Halts, Caller
    <2>2. PitFollows /\ OtherShells
      BY DEF Init, PitFollows, OtherShells
    <2>3. process_total <= MaxProcs
      BY ProcessAssumption DEF Init
    <2> QED BY <2>1, <2>2, <2>3 DEF Stages
  <1> QED BY <1>3, <1>4, InitTyped DEF AgreementInv

LEMMA UserCallAgreement == ASSUME AgreementInv, UserCall PROVE AgreementInv'
  <1> USE DEF AgreementInv
  <1>0. TypeInv'
    BY UserCallTyped
  <1>1. CASE Execute \/ Exit \/ Read
    <2>1. PICK handler \in {Kernel("exec_check", TRUE), Halting("exit", TRUE), Kernel("read", TRUE)} :
             Enter(handler)
      BY <1>1 DEF Execute, Exit, Read
    <2>2. handler \in Activations /\ handler.pc \in {"exec_check", "halt_begin", "read"}
      <3>1. /\ Kernel("exec_check", TRUE) \in Activations
            /\ Halting("exit", TRUE) \in Activations
            /\ Kernel("read", TRUE) \in Activations
        BY HandlersTyped DEF Pcs, KernelPcs, ExecPcs, Causes
      <3>2. /\ Kernel("exec_check", TRUE).pc = "exec_check"
            /\ Halting("exit", TRUE).pc = "halt_begin"
            /\ Kernel("read", TRUE).pc = "read"
        BY DEF Kernel, Halting, Activation
      <3> QED BY <2>1, <3>1, <3>2
    <2>3. frame.pc = "user" /\ UNCHANGED control
      BY <1>1 DEF Execute, Exit, Read
    <2>4. \/ frame'.pc = "wild"
          \/ frame' = handler /\ Clean(stack'[sp']) /\ Last(stack'[sp']).pc = "user"
      BY <2>1, <2>2, <2>3, EnterClean
    <2>5. Agree /\ FrontShell /\ pit_count = terminal_active_id
      BY <2>3 DEF Stages, Settled, PitFollows
    <2>6. StacksClean'
      BY <2>3, <2>4 DEF StacksClean, control
    <2>7. Agree' /\ FrontShell' /\ OtherShells' /\ pit_count' = terminal_active_id'
          /\ process_total' <= MaxProcs
      BY <2>3, <2>5 DEF Stages, control, switching, Agree, FrontShell, OtherShells
    <2>8. Stages'
      BY <2>2, <2>4, <2>7
      DEF Stages, Settled, Executing, Halts, PitFollows, Caller
    <2> QED BY <1>0, <2>6, <2>8
  <1>2. CASE Exception
    <2>1. frame.pc = "user" /\ OtherShells' /\ process_total' <= MaxProcs
      BY <1>2 DEF Exception, Stages, OtherShells, switching
    <2>2. \/ frame'.pc = "wild"
          \/ frame'.pc = "halt_begin" /\ Clean(stack'[sp'])
      <3>1. /\ Halting("exception", FALSE) \in Activations
            /\ Halting("exception", FALSE).pc = "halt_begin"
        BY HandlersTyped DEF Causes, Halting, Activation
      <3> QED BY <1>2, <2>1, <3>1, EnterClean, WildTyped DEF Exception, Crash
    <2>3. \A p \in Pids : CleanBelow(pcb'[p].ctx.frames)
      BY <1>2 DEF Exception, StacksClean, TypeInv, PcbTyped, Pcbs, Mapped
    <2>4. StacksClean'
      BY <2>2, <2>3 DEF StacksClean
    <2>5. pit_count' = terminal_active_id'
      BY <1>2, <2>1 DEF Exception, switching, Stages, PitFollows
    <2>6. Stages'
      BY <2>1, <2>2, <2>5 DEF Stages, Settled, Executing, Halts, PitFollows
    <2> QED BY <1>0, <2>4, <2>6
  <1> QED BY <1>1, <1>2 DEF UserCall

LEMMA KeyAgreement == ASSUME MaxMidKernel = 0, AgreementInv, Key PROVE AgreementInv'
  <1> USE DEF AgreementInv
  <1>0. TypeInv'
    BY KeyTyped
  <1>1. KeyArrives => frame.pc \in {"user", "read"}
    BY DEF KeyArrives, TypeInv, GlobalsTyped
  <1>2. CASE CtrlC
    <2>1. frame.pc \in {"user", "read"} /\ UNCHANGED control
      BY <1>1, <1>2 DEF CtrlC
    <2>2. \/ frame'.pc = "wild"
          \/ frame'.pc = "halt_begin" /\ Clean(stack'[sp'])
      <3>1. /\ Halting("ctrlC", FALSE) \in Activations
            /\ Halting("ctrlC", FALSE).pc = "halt_begin"
        BY HandlersTyped DEF Causes, Halting, Activation
      <3> QED BY <1>2, <2>1, <3>1, EnterClean DEF CtrlC
    <2>3. StacksClean'
      BY <2>1, <2>2 DEF StacksClean, control
    <2>4. Stages'
      BY <2>1, <2>2
      DEF Stages, Settled, Executing, Halts, PitFollows, OtherShells, control, switching
    <2> QED BY <1>0, <2>3, <2>4
  <1>3. ASSUME NEW t \in Terminals, AltF(t) PROVE AgreementInv'
    <2>1. frame.pc \in {"user", "read"}
      BY <1>1, <1>3 DEF AltF
    <2>2. \/ frame'.pc = "wild"
          \/ frame'.pc \in {"switch_shell", "switch_save"} /\ Clean(stack'[sp'])
      <3>1. /\ Kernel("switch_shell", TRUE) \in Activations
            /\ Kernel("switch_save", FALSE) \in Activations
            /\ Kernel("switch_shell", TRUE).pc = "switch_shell"
            /\ Kernel("switch_save", FALSE).pc = "switch_save"
        BY HandlersTyped DEF Pcs, KernelPcs, SwitchPcs, Kernel, Activation
      <3> QED BY <1>3, <2>1, <3>1, EnterClean DEF AltF
    <2>3. StacksClean'
      BY <1>3, <2>2 DEF AltF, StacksClean
    <2>4. OtherShells'
      BY <1>3, <2>1 DEF AltF, Stages, Settled, FrontShell, OtherShells, TypeInv, GlobalsTyped
    <2>5. Stages'
      BY <1>3, <2>2, <2>4 DEF AltF, Stages, Settled, Executing, Halts, PitFollows
    <2> QED BY <1>0, <2>3, <2>5
  <1> QED BY <1>2, <1>3 DEF Key

LEMMA ReadDoneAgreement == ASSUME AgreementInv, ReadDone PROVE AgreementInv'
  <1> USE DEF AgreementInv
  <1>1. frame.pc = "read" /\ InKernel /\ UNCHANGED control
    BY DEF ReadDone, InKernel
  <1>2. AtCaller'
    BY <1>1, ReturnsToCaller DEF ReadDone, StacksClean
  <1>3. StacksClean'
    BY <1>1, <1>2 DEF AtCaller, StacksClean, control
  <1>4. Stages'
    <2>1. Agree /\ FrontShell /\ pit_count = terminal_active_id
      BY <1>1 DEF Stages, Settled, PitFollows
    <2>2. Agree' /\ FrontShell' /\ OtherShells' /\ pit_count' = terminal_active_id'
          /\ process_total' <= MaxProcs
      BY <1>1, <2>1 DEF Stages, control, switching, Agree, FrontShell, OtherShells
    <2> QED BY <1>2, <2>2, CallerStages
  <1> QED BY <1>3, <1>4, ReadDoneTyped

-----------------------------------------------------------------------------
(* A step inside a function of the kernel: the stacks do not change.       *)
LEMMA StepClean ==
    ASSUME StacksClean, InKernel, UNCHANGED <<stack, sp>>, frame'.pc # "user",
           \A p \in Pids : pcb'[p].ctx = pcb[p].ctx
    PROVE  StacksClean'
  BY DEF StacksClean, InKernel

LEMMA ExecAgreement ==
    ASSUME AgreementInv,
           \/ ExecCheck \/ ExecInc \/ ExecMap \/ ExecPcb
           \/ ExecCurrent \/ ExecSave \/ ExecFlag \/ ExecEnter
    PROVE  AgreementInv'
  <1> USE DEF AgreementInv, control, switching
  <1>0. TypeInv'
    BY ExecTyped
  <1>1. frame.pc \in ExecPcs => InKernel /\ Clean(stack[sp]) /\ pit_count = terminal_active_id
    BY DEF ExecPcs, InKernel, StacksClean, Stages, PitFollows
  <1>2. frame \in Activations /\ frame.pid \in Pids
    BY DEF TypeInv, RunTyped, Activations
  <1>3. CASE ExecCheck
    <2>1. CASE Return
      <3>1. AtCaller' /\ InKernel
        BY <1>1, <1>3, <2>1, ReturnsToCaller DEF ExecCheck, ExecPcs
      <3>2. StacksClean'
        BY <1>3, <3>1 DEF ExecCheck, AtCaller, StacksClean
      <3>3. frame'.pc = Caller /\ UNCHANGED control
        <4>1. Last(stack[sp]) \in Activations
          BY <3>1, FrontLast DEF TypeInv, RunTyped
        <4> QED BY <1>3, <2>1, <4>1
            DEF ExecCheck, Return, ReturnTo, Resumed, Activations, Caller
      <3>4. Caller = "halt_return" => process_total # MaxProcs
        BY <1>3, ProcessAssumption DEF ExecCheck, Stages, Executing, TypeInv, GlobalsTyped
      <3>5. Caller = "halt_return" => process_total = MaxProcs
        <4>1. Goto("exec_inc") => frame'.pc = "exec_inc"
          BY <1>2 DEF Goto, Activations
        <4> QED BY <1>3, <3>3, <4>1 DEF ExecCheck, Caller
      <3>6. Settled'
        BY <1>3, <3>3, <3>4, <3>5
        DEF ExecCheck, Stages, Executing, Settled, Agree, FrontShell
      <3>7. Stages'
        BY <1>1, <1>3, <3>1, <3>3, <3>6
        DEF ExecCheck, ExecPcs, AtCaller, Callers, Stages, Executing, Halts, PitFollows, OtherShells
      <3> QED BY <1>0, <3>2, <3>7
    <2>2. CASE Goto("exec_inc") /\ process_total # MaxProcs
      <3>1. frame'.pc = "exec_inc" /\ InKernel /\ UNCHANGED control
        BY <1>1, <1>2, <1>3, <2>2 DEF ExecCheck, ExecPcs, Goto, Activations
      <3>2. StacksClean'
        BY <2>2, <3>1, StepClean DEF Goto
      <3>3. process_total < MaxProcs
        BY <2>2, ProcessAssumption DEF Stages, TypeInv, GlobalsTyped
      <3>4. Stages'
        BY <1>1, <1>3, <3>1, <3>3
        DEF ExecCheck, ExecPcs, Stages, Settled, Executing, Halts, PitFollows, OtherShells
      <3> QED BY <1>0, <3>2, <3>4
    <2> QED BY <1>3, <2>1, <2>2 DEF ExecCheck
  <1>4. CASE ExecInc
    <2>1. frame'.pc = "exec_map" /\ InKernel
      BY <1>1, <1>2, <1>4 DEF ExecInc, ExecPcs, Goto, Activations
    <2>2. StacksClean'
      BY <1>4, <2>1, StepClean DEF ExecInc, Goto
    <2>3. process_total' <= MaxProcs
      BY <1>4, ProcessAssumption DEF ExecInc, Stages, Executing, TypeInv, GlobalsTyped
    <2>4. Stages'
      BY <1>1, <1>4, <2>1, <2>3
      DEF ExecInc, ExecPcs, Stages, Settled, Executing, Halts, PitFollows, OtherShells
    <2> QED BY <1>0, <2>2, <2>4
  <1>5. CASE ExecMap
    <2>1. frame'.pc = "exec_pcb" /\ InKernel
      BY <1>1, <1>2, <1>5 DEF ExecMap, ExecPcs, Goto, Activations
    <2>2. StacksClean'
      BY <1>5, <2>1, StepClean DEF ExecMap, Goto
    <2>3. Stages'
      BY <1>1, <1>5, <2>1
      DEF ExecMap, ExecPcs, Stages, Settled, Executing, Halts, PitFollows, OtherShells
    <2> QED BY <1>0, <2>2, <2>3
  <1>6. CASE ExecPcb
    <2> DEFINE new == process_total - 1
    <2>1. CASE Mapped(new)
      <3>1. frame'.pc = "exec_current" /\ frame'.pid = new /\ InKernel
        BY <1>1, <1>2, <1>6, <2>1 DEF ExecPcb, ExecPcs, Activations
      <3>2. \A p \in Pids : pcb'[p].ctx = pcb[p].ctx
        BY <1>6, <2>1 DEF ExecPcb, TypeInv, PcbTyped, Pcbs, Mapped
      <3>3. StacksClean'
        BY <1>6, <2>1, <3>1, <3>2, StepClean DEF ExecPcb
      <3>4. /\ terminal_process'[terminal_active_id'] = new
            /\ \A t \in Terminals \ {terminal_active_id} :
                 terminal_process'[t] = terminal_process[t]
        BY <1>6, <2>1 DEF ExecPcb, TypeInv, GlobalsTyped
      <3>5. Executing'
        BY <1>6, <3>1, <3>4 DEF ExecPcb, Stages, Executing
      <3>6. OtherShells'
        BY <1>6, <3>4 DEF ExecPcb, Stages, OtherShells
      <3>7. Stages'
        BY <1>1, <1>6, <3>1, <3>5, <3>6
        DEF ExecPcb, ExecPcs, Stages, Settled, Halts, PitFollows
      <3> QED BY <1>0, <3>3, <3>7
    <2>2. CASE ~Mapped(new)
      <3>1. frame'.pc = "wild" /\ UNCHANGED <<stack, sp, pcb, terminal_process>>
        BY <1>6, <2>2, WildTyped DEF ExecPcb, Crash
      <3>2. StacksClean'
        BY <3>1 DEF StacksClean
      <3>3. Stages'
        BY <1>6, <3>1, WildStages DEF ExecPcb, Stages, OtherShells
      <3> QED BY <1>0, <3>2, <3>3
    <2> QED BY <2>1, <2>2
  <1>7. CASE ExecCurrent
    <2>1. frame'.pc = "exec_save" /\ frame'.pid = frame.pid /\ InKernel
      BY <1>1, <1>2, <1>7 DEF ExecCurrent, ExecPcs, Goto, Activations
    <2>2. StacksClean'
      BY <1>7, <2>1, StepClean DEF ExecCurrent, Goto
    <2>3. Executing' /\ Settled' /\ Halts'
      BY <1>7, <2>1 DEF ExecCurrent, Stages, Executing, Settled, Halts
    <2>4. Stages'
      BY <1>1, <1>7, <2>1, <2>3 DEF ExecCurrent, ExecPcs, Stages, PitFollows, OtherShells
    <2> QED BY <1>0, <2>2, <2>4
  <1>8. CASE ExecSave
    <2>1. frame'.pc = "exec_flag" /\ frame'.pid = frame.pid /\ InKernel
      BY <1>1, <1>2, <1>8 DEF ExecSave, ExecPcs, Goto, Activations
    <2> DEFINE f == [frame EXCEPT !.pc = "exec_enter"]
    <2>2. CleanBelow(Append(stack[sp], f))
      <3>1. f \in Activations
        BY MovesTyped DEF Pcs, KernelPcs, ExecPcs
      <3>2. stack[sp] \in Seq(Activations) /\ Clean(stack[sp])
        BY <1>1, <1>8 DEF ExecSave, ExecPcs, TypeInv, RunTyped
      <3> QED BY <3>1, <3>2, PushClean
    <2>3. \A p \in Pids : \/ pcb'[p].ctx = pcb[p].ctx
                         \/ pcb'[p].ctx.frames = Append(stack[sp], f)
      <3>1. pcb' = [pcb EXCEPT ![frame.pid].ctx = [stk |-> sp, frames |-> Append(stack[sp], f)]]
        BY <1>8 DEF ExecSave, Context, TypeInv, RunTyped
      <3> QED BY <1>2, <3>1 DEF TypeInv, PcbTyped, Pcbs
    <2>4. StacksClean'
      BY <1>1, <1>8, <2>1, <2>2, <2>3 DEF ExecSave, ExecPcs, Goto, StacksClean
    <2>5. Executing' /\ Settled' /\ Halts'
      BY <1>8, <2>1 DEF ExecSave, Stages, Executing, Settled, Halts
    <2>6. Stages'
      BY <1>1, <1>8, <2>1, <2>5 DEF ExecSave, ExecPcs, Stages, PitFollows, OtherShells
    <2> QED BY <1>0, <2>4, <2>6
  <1>9. CASE ExecFlag
    <2>1. frame'.pc = "exec_enter" /\ frame'.pid = frame.pid /\ InKernel
      BY <1>1, <1>2, <1>9 DEF ExecFlag, ExecPcs, Goto, Activations
    <2>2. \A p \in Pids : pcb'[p].ctx = pcb[p].ctx
      BY <1>2, <1>9 DEF ExecFlag, TypeInv, PcbTyped, Pcbs
    <2>3. StacksClean'
      BY <1>9, <2>1, <2>2, StepClean DEF ExecFlag, Goto
    <2>4. Executing' /\ Settled' /\ Halts'
      BY <1>9, <2>1 DEF ExecFlag, Stages, Executing, Settled, Halts
    <2>5. Stages'
      BY <1>1, <1>9, <2>1, <2>4 DEF ExecFlag, ExecPcs, Stages, PitFollows, OtherShells
    <2> QED BY <1>0, <2>3, <2>5
  <1>10. CASE ExecEnter
    <2>1. frame'.pc = "user"
      BY <1>10 DEF ExecEnter, User, Activation
    <2>2. StacksClean'
      BY <1>10, <2>1 DEF ExecEnter, StacksClean
    <2>3. Agree' /\ FrontShell'
      BY <1>2, <1>10 DEF ExecEnter, Stages, Executing, Agree, FrontShell, Pids
    <2>4. Stages'
      BY <1>1, <1>10, <2>1, <2>3
      DEF ExecEnter, ExecPcs, Stages, Settled, Executing, Halts, PitFollows, OtherShells
    <2> QED BY <1>0, <2>2, <2>4
  <1> QED BY <1>3, <1>4, <1>5, <1>6, <1>7, <1>8, <1>9, <1>10

LEMMA HaltAgreement ==
    ASSUME AgreementInv,
           HaltBegin \/ HaltTotal \/ HaltTerminal \/ HaltCurrent \/ HaltFinish \/ HaltReturn
    PROVE  AgreementInv'
  <1> USE DEF AgreementInv, control, switching
  <1>0. TypeInv'
    BY HaltTyped
  <1>1. frame.pc \in HaltPcs => InKernel /\ Clean(stack[sp]) /\ pit_count = terminal_active_id
    BY DEF HaltPcs, InKernel, StacksClean, Stages, PitFollows
  <1>2. frame \in Activations /\ frame.pid \in Pids
    BY DEF TypeInv, RunTyped, Activations
  <1>3. CASE HaltBegin
    <2>1. CASE Mapped(current_pid)
      <3>1. frame'.pc = "halt_total" /\ frame'.pid = current_pid /\ InKernel
        BY <1>1, <1>2, <1>3, <2>1 DEF HaltBegin, HaltPcs, Activations
      <3>2. StacksClean'
        BY <1>3, <2>1, <3>1, StepClean DEF HaltBegin
      <3>3. Stages'
        BY <1>1, <1>3, <2>1, <3>1
        DEF HaltBegin, HaltPcs, Stages, Settled, Executing, Halts, PitFollows, OtherShells
      <3> QED BY <1>0, <3>2, <3>3
    <2>2. CASE ~Mapped(current_pid)
      <3>1. frame'.pc = "wild" /\ UNCHANGED <<stack, sp, pcb>>
        BY <1>3, <2>2, WildTyped DEF HaltBegin, Crash
      <3>2. StacksClean'
        BY <3>1 DEF StacksClean
      <3>3. Stages'
        BY <1>3, <3>1, WildStages DEF HaltBegin, Stages, OtherShells
      <3> QED BY <1>0, <3>2, <3>3
    <2> QED BY <2>1, <2>2
  <1>4. CASE HaltTotal
    <2>1. frame'.pc = "halt_terminal" /\ frame'.pid = frame.pid /\ InKernel
      BY <1>1, <1>2, <1>4 DEF HaltTotal, HaltPcs, Goto, Activations
    <2>2. StacksClean'
      BY <1>4, <2>1, StepClean DEF HaltTotal, Goto
    <2>3. process_total' < MaxProcs
      BY <1>4, ProcessAssumption DEF HaltTotal, Stages, TypeInv, GlobalsTyped
    <2>4. process_total' <= MaxProcs
      BY <2>3, <1>0, ProcessAssumption DEF TypeInv, GlobalsTyped
    <2>5. Stages'
      BY <1>1, <1>4, <2>1, <2>3, <2>4
      DEF HaltTotal, HaltPcs, Stages, Settled, Executing, Halts, PitFollows, OtherShells
    <2> QED BY <1>0, <2>2, <2>5
  <1>5. CASE HaltTerminal
    <2>1. frame'.pc = "halt_current" /\ frame'.pid = frame.pid /\ InKernel
      BY <1>1, <1>2, <1>5 DEF HaltTerminal, HaltPcs, Goto, Activations
    <2>2. StacksClean'
      BY <1>5, <2>1, StepClean DEF HaltTerminal, Goto
    <2>3. /\ terminal_process'[terminal_active_id'] = pcb[frame.pid].parent_pid
          /\ \A t \in Terminals \ {terminal_active_id} :
               terminal_process'[t] = terminal_process[t]
      BY <1>5 DEF HaltTerminal, TypeInv, GlobalsTyped
    <2>4. OtherShells'
      BY <1>5, <2>3 DEF HaltTerminal, Stages, OtherShells
    <2>5. Halts'
      BY <1>5, <2>1, <2>3 DEF HaltTerminal, Stages, Halts
    <2>6. Stages'
      BY <1>1, <1>5, <2>1, <2>4, <2>5
      DEF HaltTerminal, HaltPcs, Stages, Settled, Executing, PitFollows
    <2> QED BY <1>0, <2>2, <2>6
  <1>6. CASE HaltCurrent
    <2>1. frame'.pc = "halt_finish" /\ frame'.pid = frame.pid /\ InKernel
      BY <1>1, <1>2, <1>6 DEF HaltCurrent, HaltPcs, Goto, Activations
    <2>2. StacksClean'
      BY <1>6, <2>1, StepClean DEF HaltCurrent, Goto
    <2>3. Stages'
      BY <1>1, <1>6, <2>1
      DEF HaltCurrent, HaltPcs, Stages, Settled, Executing, Halts, PitFollows, OtherShells
    <2> QED BY <1>0, <2>2, <2>3
  <1>7. CASE HaltFinish
    <2>1. Agree' /\ OtherShells' /\ pit_count' = terminal_active_id' /\ process_total' < MaxProcs
      BY <1>1, <1>7
      DEF HaltFinish, HaltPcs, Stages, Halts, Agree, OtherShells
    <2>2. process_total' <= MaxProcs
      BY <1>7 DEF HaltFinish, Stages
    <2>3. \A p \in Pids : pcb'[p].ctx = pcb[p].ctx
      BY <1>2, <1>7 DEF HaltFinish, TypeInv, PcbTyped, Pcbs
    <2>4. CASE terminal_process[terminal_active_id] < 0
      <3> DEFINE f == [frame EXCEPT !.pc = "halt_return"]
      <3>1. Kernel("exec_check", TRUE).pc = "exec_check"
        BY DEF Kernel, Activation
      <3>2. f \in Activations /\ f.pc = "halt_return"
        BY <1>2, MovesTyped DEF Pcs, KernelPcs, HaltPcs, Activations
      <3>3. stack[sp] \in Seq(Activations) /\ Clean(stack[sp])
        BY <1>1, <1>7 DEF HaltFinish, HaltPcs, TypeInv, RunTyped
      <3>4. Clean(Append(stack[sp], f)) /\ Last(Append(stack[sp], f)) = f
        BY <3>2, <3>3, PushClean DEF Callers
      <3>5. frame'.pc = "exec_check" /\ stack'[sp'] = Append(stack[sp], f)
        BY <1>7, <2>4, <3>1 DEF HaltFinish, Call, TypeInv, RunTyped
      <3>6. StacksClean'
        BY <2>3, <3>4, <3>5 DEF StacksClean
      <3>7. Caller' = "halt_return"
        BY <3>2, <3>4, <3>5 DEF Caller
      <3>8. Stages'
        BY <2>1, <2>2, <3>5, <3>7 DEF Stages, Settled, Executing, Halts, PitFollows
      <3> QED BY <1>0, <3>6, <3>8
    <2>5. CASE ~(terminal_process[terminal_active_id] < 0)
      <3>1. frame'.pc = "wild" \/ AtCaller'
        BY <1>2, <1>7, <2>5, LoadsCaller
        DEF HaltFinish, StacksClean, TypeInv, RunTyped, PcbTyped, Pcbs
      <3>2. FrontShell'
        BY <1>7, <2>5 DEF HaltFinish, FrontShell, TypeInv, GlobalsTyped
      <3>3. StacksClean'
        BY <2>3, <3>1 DEF AtCaller, StacksClean
      <3>4. Stages'
        BY <2>1, <2>2, <3>1, <3>2, WildStages, CallerStages
      <3> QED BY <1>0, <3>3, <3>4
    <2> QED BY <2>4, <2>5
  <1>8. CASE HaltReturn
    <2>1. AtCaller' /\ UNCHANGED control
      BY <1>1, <1>8, ReturnsToCaller DEF HaltReturn, HaltPcs
    <2>2. StacksClean'
      BY <2>1 DEF AtCaller, StacksClean
    <2>3. Agree' /\ FrontShell' /\ OtherShells' /\ pit_count' = terminal_active_id'
          /\ process_total' <= MaxProcs
      BY <1>1, <1>8, <2>1
      DEF HaltReturn, HaltPcs, Stages, Settled, Agree, FrontShell, OtherShells
    <2>4. Stages'
      BY <2>1, <2>3, CallerStages
    <2> QED BY <1>0, <2>2, <2>4
  <1> QED BY <1>3, <1>4, <1>5, <1>6, <1>7, <1>8

LEMMA SwitchAgreement == ASSUME AgreementInv, SwitchShell \/ SwitchSave PROVE AgreementInv'
  <1> USE DEF AgreementInv, control, switching
  <1>0. TypeInv'
    BY SwitchTyped
  <1>1. frame.pc \in SwitchPcs => InKernel /\ Clean(stack[sp])
    BY DEF SwitchPcs, InKernel, StacksClean
  <1>2. frame \in Activations
    BY DEF TypeInv, RunTyped
  <1>3. CASE SwitchShell
    <2> DEFINE f == [frame EXCEPT !.pc = "switch_save"]
    <2>1. Kernel("exec_check", TRUE).pc = "exec_check"
      BY DEF Kernel, Activation
    <2>2. f \in Activations /\ f.pc = "switch_save"
      BY <1>2, MovesTyped DEF Pcs, KernelPcs, SwitchPcs, Activations
    <2>3. stack[sp] \in Seq(Activations) /\ Clean(stack[sp])
      BY <1>1, <1>3 DEF SwitchShell, SwitchPcs, TypeInv, RunTyped
    <2>4. Clean(Append(stack[sp], f)) /\ Last(Append(stack[sp], f)) = f
      BY <2>2, <2>3, PushClean DEF Callers
    <2>5. frame'.pc = "exec_check" /\ stack'[sp'] = Append(stack[sp], f)
      BY <1>3, <2>1 DEF SwitchShell, Call, TypeInv, RunTyped
    <2>6. StacksClean'
      BY <1>3, <2>4, <2>5 DEF SwitchShell, StacksClean
    <2>7. Caller' = "switch_save"
      BY <2>2, <2>4, <2>5 DEF Caller
    <2>8. Stages'
      BY <1>3, <2>5, <2>7
      DEF SwitchShell, Stages, Settled, Executing, Halts, PitFollows, OtherShells
    <2> QED BY <1>0, <2>6, <2>8
  <1>4. CASE SwitchSave
    <2> DEFINE next == terminal_process[terminal_active_id]
               f == [frame EXCEPT !.intr = FALSE]
               stk == [stack EXCEPT ![sp] = Append(@, f)]
    <2>1. OtherShells' /\ process_total' <= MaxProcs
      BY <1>4 DEF SwitchSave, Stages, OtherShells
    <2>2. f \in Activations
      BY <1>2 DEF Activations
    <2>3. stack[sp] \in Seq(Activations) /\ Clean(stack[sp]) /\ stack[sp] # <<>>
          /\ Rooted(stack[sp])
      BY <1>1, <1>4 DEF SwitchSave, SwitchPcs, TypeInv, RunTyped
    <2>4. CleanBelow(Append(stack[sp], f)) /\ Append(stack[sp], f) \in Seq(Activations)
      BY <2>2, <2>3, PushClean
    <2>5. stk \in [Pids -> Seq(Activations)] /\ stk[sp] = Append(stack[sp], f)
      BY <2>4 DEF TypeInv, RunTyped
    <2> HIDE DEF stk
    <2>6. CASE Mapped(current_pid)
      <3>1. pcb' = [pcb EXCEPT ![current_pid].ctx = Context(stk)]
            /\ current_pid' = next /\ mapped' = next /\ esp0' = next
            /\ pit_count' = terminal_active_id
            /\ UNCHANGED <<terminal_process, terminal_active_id>>
        BY <1>4, <2>6 DEF SwitchSave, stk
      <3>2. \A p \in Pids : CleanBelow(pcb'[p].ctx.frames)
        <4>1. Context(stk).frames = Append(stack[sp], f)
          BY <2>5 DEF Context
        <4>2. TAKE p \in Pids
        <4>3. pcb'[p].ctx = pcb[p].ctx \/ pcb'[p].ctx = Context(stk)
          BY <2>6, <3>1 DEF TypeInv, PcbTyped, Pcbs, Mapped
        <4> QED BY <2>4, <4>1, <4>3 DEF StacksClean
      <3>3. CASE Mapped(next)
        <4>1. LoadContext(pcb'[next].ctx, stk)
          BY <1>4, <2>6, <3>3 DEF SwitchSave, stk
        <4>2. pcb'[next].ctx \in Contexts /\ CleanBelow(pcb'[next].ctx.frames)
          BY <1>0, <3>2, <3>3 DEF TypeInv, PcbTyped, Pcbs, Mapped
        <4>3. frame'.pc = "wild" \/ AtCaller'
          BY <2>5, <4>1, <4>2, LoadsCaller
        <4>4. StacksClean'
          BY <3>2, <4>3 DEF AtCaller, StacksClean
        <4>5. Agree' /\ FrontShell' /\ pit_count' = terminal_active_id'
          BY <3>1, <3>3 DEF Agree, FrontShell, Mapped, Pids
        <4> QED BY <1>0, <2>1, <4>3, <4>4, <4>5, WildStages, CallerStages
      <3>4. CASE ~Mapped(next)
        <4>1. frame'.pc = "wild" /\ StacksClean'
          BY <1>4, <2>6, <3>2, <3>4, WildTyped DEF SwitchSave, Crash, StacksClean
        <4> QED BY <1>0, <2>1, <4>1, WildStages
      <3> QED BY <3>3, <3>4
    <2>7. CASE ~Mapped(current_pid)
      <3>1. frame'.pc = "wild" /\ UNCHANGED pcb
        BY <1>4, <2>7, WildTyped DEF SwitchSave, Crash
      <3>2. StacksClean'
        BY <3>1 DEF StacksClean
      <3> QED BY <1>0, <2>1, <3>1, <3>2, WildStages
    <2> QED BY <2>6, <2>7
  <1> QED BY <1>3, <1>4

LEMMA NextAgreement ==
    ASSUME MaxMidKernel = 0
    PROVE  AgreementInv /\ [Next]_vars => AgreementInv'
  <1> SUFFICES ASSUME AgreementInv, [Next]_vars PROVE AgreementInv'
    OBVIOUS
  <1>1. CASE UserCall \/ Key \/ ReadDone
    BY <1>1, UserCallAgreement, KeyAgreement, ReadDoneAgreement
  <1>2. CASE KernelStep
    BY <1>2, ExecAgreement, HaltAgreement, SwitchAgreement DEF KernelStep
  <1>3. CASE UNCHANGED vars
    <2>1. TypeInv'
      BY <1>3, NextTyped DEF AgreementInv
    <2>2. UNCHANGED <<stack, sp, frame, pcb>> /\ UNCHANGED control
      BY <1>3 DEF vars, control
    <2>3. StacksClean'
      BY <2>2 DEF AgreementInv, StacksClean
    <2>4. Stages'
      BY <2>2 DEF AgreementInv, Stages, Settled, Executing, Halts, PitFollows, OtherShells,
                  Agree, FrontShell, Caller, control, switching
    <2> QED BY <2>1, <2>3, <2>4 DEF AgreementInv
  <1> QED BY <1>1, <1>2, <1>3 DEF Next

THEOREM AgreementInvariance ==
    ASSUME MaxMidKernel = 0
    PROVE  Spec => []AgreementInv
  BY InitAgreement, NextAgreement, PTL DEF Spec

(* Whenever a program runs, its page, its kernel stack, current_pid and    *)
(* the terminal in front name the same process, however many processes and *)
(* terminals there are and whatever order they were switched and ended in. *)
THEOREM GlobalsAlwaysAgree ==
    ASSUME MaxMidKernel = 0
    PROVE  Spec => []GlobalsAgree
  <1>1. AgreementInv => GlobalsAgree
    BY DEF AgreementInv, Stages, Settled, Agree, GlobalsAgree, InUser
  <1> QED BY <1>1, AgreementInvariance, PTL

(* halt and execute together never leave a terminal that has had its shell *)
(* without a process.                                                      *)
THEOREM ShellsAreReplaced ==
    ASSUME MaxMidKernel = 0
    PROVE  Spec => []TerminalsKeepAShell
  <1>1. AgreementInv => TerminalsKeepAShell
    BY DEF AgreementInv, Stages, Settled, FrontShell, OtherShells, TerminalsKeepAShell, InUser
  <1> QED BY <1>1, AgreementInvariance, PTL

(* A program that reads finds pit_count at the terminal in front.          *)
THEOREM ReadsFollowTheScreen ==
    ASSUME MaxMidKernel = 0
    PROVE  Spec => []ReadsActiveTerminal
  <1>1. AgreementInv => ReadsActiveTerminal
    BY DEF AgreementInv, Stages, PitFollows, ReadsActiveTerminal
  <1> QED BY <1>1, AgreementInvariance, PTL

-----------------------------------------------------------------------------
(***************************************************************************)
(* On one terminal programs are called like functions: execute and halt    *)
(* implement ProgramStack, for every limit on the number of processes, as  *)
(* long as keys arrive only while a program runs or a read waits.          *)
(*                                                                         *)
(* The invariant follows the chain of programs that wait in execute.  The  *)
(* PCB of each holds the stack pointer of the call that started it, and    *)
(* the stack that pointer names still holds that call: nothing runs on the *)
(* kernel stack of a program that waits.  So halt always finds the caller. *)
(***************************************************************************)


\* The terminal in front never changes, and keys find programs or reads.
OneScreen == FKeys \subseteq {0} /\ MaxMidKernel = 0

\* The activation of execute that started p, and the stack it leaves behind.
Callee(p) == Activation("exec_enter", p, TRUE, "none")
SavedCall(p) == <<User(p - 1), Callee(p)>>

\* The parent of p is the program before it, and waits where it called execute.
Waits(p) ==
    /\ pcb[p].parent_pid = p - 1
    /\ pcb[p].ctx = [stk |-> p - 1, frames |-> SavedCall(p)]
    /\ stack[p - 1] = SavedCall(p)

Ancestry(n) ==
    /\ n >= 0 => pcb[0].parent_pid = -1
    /\ \A p \in 1 .. n : Waits(p)

Unmarked(n) == \A p \in 0 .. n : pcb[p].exception_flag = FALSE

\* The PCB of a program that ends says whether an exception ended it.
Marked(n) ==
    /\ frame.why = "exception" => pcb[n].exception_flag = TRUE
    /\ frame.why # "exception" => pcb[n].exception_flag = FALSE

Globals(n) ==
    /\ mapped = n
    /\ esp0 = n
    /\ current_pid = n
    /\ terminal_process[0] = n

\* What called execute or read: program n, or (n = -1) the boot code or the
\* halt of the last shell.
CalledBy(n) ==
    /\ n >= 0 => sp = n /\ stack[n] = <<User(n)>>
    /\ n < 0  => /\ sp = 0
                 /\ stack[0] # <<>>
                 /\ Last(stack[0]).pc \in {"boot", "halt_return"}
                 /\ stack[0][1] \in {Boot, User(0)}

Started == {"exec_current", "exec_save", "exec_flag", "exec_enter"}
ExecCounted == {"exec_map", "exec_pcb"} \cup Started
HaltCounted == {"halt_terminal", "halt_current", "halt_finish"}
EndPcs == {"halt_begin", "halt_total"} \cup HaltCounted
Places == {"user", "read"} \cup ExecPcs \cup EndPcs

\* The program that runs or that the kernel works for: the last one started,
\* seen past the stretches in which process_total already counts the next one
\* or no longer counts this one.
Subject ==
    IF frame.pc \in ExecCounted THEN process_total - 2
    ELSE IF frame.pc \in HaltCounted THEN process_total
    ELSE process_total - 1

Runs(n) == frame.pc = "user" => n >= 0 /\ frame = User(n) /\ Globals(n) /\ Unmarked(n)

Reads(n) ==
    frame.pc = "read" => n >= 0 /\ CalledBy(n) /\ Globals(n) /\ Unmarked(n) /\ eax = 0

Executes(n) ==
    frame.pc \in ExecPcs =>
        /\ CalledBy(n) /\ Unmarked(n)
        /\ frame.intr = TRUE /\ frame.why = "none"
        /\ frame.pc = "exec_check" /\ n >= 0 => Globals(n)
        /\ frame.pc # "exec_check" => n + 1 \in Pids
        /\ frame.pc \notin Started => terminal_process[0] = n
        /\ frame.pc \in Started \cup {"exec_pcb"} => mapped = n + 1
        /\ frame.pc \in Started =>
             /\ frame.pid = n + 1
             /\ terminal_process[0] = n + 1
             /\ pcb[n + 1].parent_pid = n
        /\ frame.pc \in Started \ {"exec_current"} => current_pid = n + 1
        /\ frame.pc \in {"exec_flag", "exec_enter"} =>
             pcb[n + 1].ctx = [stk |-> sp, frames |-> Append(stack[sp], Callee(n + 1))]
        /\ frame.pc = "exec_enter" => pcb[n + 1].exception_flag = FALSE

Ends(n) ==
    frame.pc \in EndPcs =>
        /\ n >= 0 /\ sp = n /\ stack[n] # <<>> /\ stack[n][1] = User(n)
        /\ Unmarked(n - 1)
        /\ Marked(n)
        /\ frame.pc = "halt_begin" => Globals(n)
        /\ frame.pc # "halt_begin" => frame.pid = n /\ mapped = n - 1 /\ esp0 = n - 1
        /\ frame.pc \in {"halt_total", "halt_terminal"} =>
             current_pid = n /\ terminal_process[0] = n
        /\ frame.pc = "halt_current" => current_pid = n
        /\ frame.pc \in {"halt_current", "halt_finish"} => terminal_process[0] = n - 1
        /\ frame.pc = "halt_finish" => current_pid = n - 1

StackAt(n) ==
    /\ terminal_active_id = 0
    /\ frame.pc \in Places
    /\ Ancestry(n)
    /\ Runs(n) /\ Reads(n) /\ Executes(n) /\ Ends(n)

StackInv == \E n \in -1 .. MaxProcs - 1 : n = Subject /\ StackAt(n)

IInv == TypeInv /\ StackInv

-----------------------------------------------------------------------------
(* Short sequences.                                                        *)

LEMMA OneElement ==
    ASSUME NEW S, NEW x \in S
    PROVE  /\ <<x>> \in Seq(S) /\ <<x>> # <<>> /\ <<x>>[1] = x
           /\ Front(<<x>>) = <<>> /\ Last(<<x>>) = x
  <1> DEFINE s == <<x>>
  <1>1. s \in Seq(S) /\ Len(s) = 1 /\ s # <<>> /\ s[1] = x
    OBVIOUS
  <1> HIDE DEF s
  <1>2. /\ Front(s) \in Seq(S) /\ Len(Front(s)) = Len(s) - 1
        /\ Front(s) = <<>> => Last(s) = s[1]
    BY <1>1, FrontLast
  <1>3. Front(s) = <<>>
    BY <1>1, <1>2, EmptySeq
  <1>4. /\ s \in Seq(S) /\ s # <<>> /\ s[1] = x
        /\ Front(s) = <<>> /\ Last(s) = x
    BY <1>1, <1>2, <1>3
  <1> QED BY <1>4 DEF s

LEMMA TwoElements ==
    ASSUME NEW S, NEW x \in S, NEW y \in S
    PROVE  /\ <<x, y>> \in Seq(S) /\ Len(<<x, y>>) = 2 /\ <<x, y>>[1] = x
           /\ Append(<<x>>, y) = <<x, y>>
           /\ Front(<<x, y>>) = <<x>>
           /\ IsPrefix(<<x>>, <<x, y>>) /\ IsPrefix(<<x, y>>, <<x, y>>)
  <1> DEFINE s == <<x, y>>
  <1>1. s \in Seq(S) /\ Len(s) = 2 /\ s[1] = x /\ s # <<>>
    OBVIOUS
  <1>2. Append(<<x>>, y) = s
    <2> DEFINE one == <<x>>
               t == Append(one, y)
    <2>1. one \in Seq(S) /\ Len(one) = 1 /\ one[1] = x
      OBVIOUS
    <2> HIDE DEF one
    <2>2. /\ t \in Seq(S) /\ Len(t) = Len(one) + 1
          /\ \A k \in 1 .. Len(one) : t[k] = one[k]
          /\ t[Len(one) + 1] = y
      <3>1. one \in Seq(S)
        BY <2>1
      <3> HIDE DEF s
      <3> QED BY <3>1, AppendProperties, SMTT(30)
    <2> HIDE DEF t
    <2>3. t = <<x, y>>
      BY <2>1, <2>2
    <2> QED BY <2>3 DEF s, t, one
  <1> HIDE DEF s
  <1>3. /\ Front(s) \in Seq(S) /\ Len(Front(s)) = 2 - 1
        /\ \A k \in 1 .. 2 - 1 : Front(s)[k] = s[k]
    BY <1>1, FrontLast
  <1>4. Front(s) = <<x>>
    BY <1>1, <1>3
  <1>5. IsPrefix(<<x>>, s) /\ IsPrefix(s, s)
    BY <1>1 DEF IsPrefix
  <1> QED BY <1>1, <1>2, <1>4, <1>5 DEF s

-----------------------------------------------------------------------------
(* What the steps have in common.                                          *)

\* The activations of a program, and that a return resumes it as it was.
LEMMA Activated ==
    ASSUME NEW p \in Pids
    PROVE  /\ User(p) \in Activations /\ Callee(p) \in Activations /\ Boot \in Activations
           /\ User(p).pc = "user" /\ User(p).pid = p
           /\ Callee(p).pc = "exec_enter" /\ Callee(p).pid = p
           /\ Callee(p).intr = TRUE /\ Callee(p).why = "none"
           /\ Boot.pc = "boot" /\ Boot # User(p)
           /\ Resumed(User(p)) = User(p)
  <1>1. /\ User(p).pc = "user" /\ User(p).pid = p
        /\ Callee(p).pc = "exec_enter" /\ Callee(p).pid = p
        /\ Callee(p).intr = TRUE /\ Callee(p).why = "none"
        /\ Boot.pc = "boot"
    BY DEF User, Callee, Boot, Activation
  <1>2. User(p) \in Activations /\ Boot \in Activations
    BY HandlersTyped
  <1>3. Callee(p) \in Activations
    BY DEF Callee, Activation, Activations, Pcs, KernelPcs, ExecPcs, Causes
  <1> QED BY <1>1, <1>2, <1>3 DEF Resumed

(* The chain of waiting programs stays as it is while the PCBs of the      *)
(* programs on it, and the stacks of all but the last, are left alone.     *)
LEMMA AncestryKept ==
    ASSUME NEW n \in Int, Ancestry(n),
           \A p \in 0 .. n : /\ pcb'[p].parent_pid = pcb[p].parent_pid
                             /\ pcb'[p].ctx = pcb[p].ctx,
           \A p \in 0 .. n - 1 : stack'[p] = stack[p]
    PROVE  Ancestry(n)'
  <1>1. n >= 0 => pcb'[0].parent_pid = -1
    BY DEF Ancestry
  <1>2. ASSUME NEW p \in 1 .. n PROVE Waits(p)'
    <2>1. Waits(p) /\ p \in 0 .. n /\ p - 1 \in 0 .. n - 1
      BY <1>2 DEF Ancestry
    <2> QED BY <2>1 DEF Waits
  <1> QED BY <1>1, <1>2 DEF Ancestry

(* Where a step may leave the kernel: in program n, in a call it has made, *)
(* or in its end.                                                          *)
LEMMA ProgramRuns ==
    ASSUME NEW n \in Pids, frame' = User(n), process_total' = n + 1, terminal_active_id' = 0,
           Globals(n)', Unmarked(n)', Ancestry(n)'
    PROVE  StackInv'
  <1>1. frame'.pc = "user" /\ n \in -1 .. MaxProcs - 1
    <2>1. frame'.pc = "user"
      BY Activated
    <2> QED BY <2>1, ProcessAssumption DEF Pids
  <1>2. n = Subject'
    BY <1>1 DEF Subject, ExecCounted, Started, HaltCounted
  <1>3. Runs(n)'
    BY DEF Runs, Pids
  <1>4. Reads(n)' /\ Executes(n)' /\ Ends(n)' /\ (frame.pc \in Places)'
    BY <1>1 DEF Reads, Executes, Started, Ends, ExecPcs, EndPcs, HaltCounted, Places
  <1> QED BY <1>1, <1>2, <1>3, <1>4 DEF StackAt, StackInv

LEMMA ProgramReads ==
    ASSUME NEW n \in Pids, frame'.pc = "read", process_total' = n + 1, terminal_active_id' = 0,
           CalledBy(n)', Globals(n)', Unmarked(n)', Ancestry(n)', eax' = 0
    PROVE  StackInv'
  <1>1. n \in -1 .. MaxProcs - 1
    BY DEF Pids
  <1>2. n = Subject'
    BY DEF Subject, ExecCounted, Started, HaltCounted, Pids
  <1>3. Reads(n)'
    BY DEF Reads, Pids
  <1>4. Runs(n)' /\ Executes(n)' /\ Ends(n)' /\ (frame.pc \in Places)'
    BY DEF Runs, Executes, Started, Ends, ExecPcs, EndPcs, HaltCounted, Places
  <1> QED BY <1>1, <1>2, <1>3, <1>4 DEF StackAt, StackInv

LEMMA ProgramEnds ==
    ASSUME NEW n \in Pids, frame'.pc = "halt_begin", process_total' = n + 1,
           terminal_active_id' = 0, sp' = n, stack'[n] # <<>>, stack'[n][1] = User(n),
           Globals(n)', Unmarked(n - 1)', Ancestry(n)', Marked(n)'
    PROVE  StackInv'
  <1>1. n \in -1 .. MaxProcs - 1
    BY DEF Pids
  <1>2. n = Subject'
    BY DEF Subject, ExecCounted, Started, HaltCounted, Pids
  <1>3. Ends(n)'
    BY DEF Ends, Pids
  <1>4. Runs(n)' /\ Executes(n)' /\ Reads(n)' /\ (frame.pc \in Places)'
    BY DEF Runs, Executes, Started, Reads, ExecPcs, EndPcs, HaltCounted, Places
  <1> QED BY <1>1, <1>2, <1>3, <1>4 DEF StackAt, StackInv

LEMMA ExecuteBegins ==
    ASSUME NEW n \in -1 .. MaxProcs - 1, frame'.pc = "exec_check", frame'.intr = TRUE,
           frame'.why = "none", process_total' = n + 1,
           terminal_active_id' = 0, terminal_process'[0] = n, n >= 0 => Globals(n)',
           CalledBy(n)', Unmarked(n)', Ancestry(n)'
    PROVE  StackInv'
  <1>2. n = Subject'
    BY DEF Subject, ExecCounted, Started, HaltCounted
  <1>3. Executes(n)'
    BY DEF Executes, Started
  <1>4. Runs(n)' /\ Ends(n)' /\ Reads(n)' /\ (frame.pc \in Places)'
    BY DEF Runs, Ends, Reads, ExecPcs, EndPcs, HaltCounted, Places
  <1> QED BY <1>2, <1>3, <1>4 DEF StackAt, StackInv

(* A call, an exception or a key while program n runs.                     *)
LEMMA EntersFromUser ==
    ASSUME TypeInv, NEW n \in Pids, frame = User(n), esp0 = n, NEW handler, Enter(handler)
    PROVE  /\ stack' = [stack EXCEPT ![n] = <<User(n)>>]
           /\ sp' = n /\ frame' = handler /\ eax' = 0
  BY Activated DEF Enter, Mapped

LEMMA UserCallStack == ASSUME IInv, UserCall PROVE StackInv'
  <1> USE DEF control, switching
  <1>1. PICK n \in -1 .. MaxProcs - 1 : n = Subject /\ StackAt(n)
    BY DEF IInv, StackInv
  <1>2. frame.pc = "user"
    BY DEF UserCall, Execute, Exit, Exception, Read
  <1>3. /\ n \in Pids /\ frame = User(n) /\ Globals(n) /\ Unmarked(n)
        /\ n = process_total - 1
    BY <1>1, <1>2, ProcessAssumption DEF StackAt, Runs, Subject, ExecCounted, Started, HaltCounted, Pids
  <1>4. PICK handler \in {Kernel("exec_check", TRUE), Halting("exit", TRUE),
                          Kernel("read", TRUE), Halting("exception", FALSE)} :
          /\ Enter(handler)
          /\ handler # Halting("exception", FALSE) => UNCHANGED control
          /\ handler = Halting("exception", FALSE) =>
               /\ pcb' = [pcb EXCEPT ![n].exception_flag = TRUE]
               /\ UNCHANGED <<process_total, current_pid, terminal_process, switching, esp0, mapped>>
    <2>1. /\ Kernel("exec_check", TRUE) # Halting("exception", FALSE)
          /\ Halting("exit", TRUE) # Halting("exception", FALSE)
          /\ Kernel("read", TRUE) # Halting("exception", FALSE)
      BY DEF Kernel, Halting, Activation
    <2>2. CASE Execute \/ Exit \/ Read
      BY <2>1, <2>2 DEF Execute, Exit, Read
    <2>3. CASE Exception
      BY <1>3, <2>3 DEF Exception, Mapped
    <2> QED BY <2>2, <2>3 DEF UserCall
  <1>5. /\ stack' = [stack EXCEPT ![n] = <<User(n)>>]
        /\ sp' = n /\ frame' = handler /\ eax' = 0
    BY <1>3, <1>4, EntersFromUser DEF IInv, Globals
  <1>6. /\ stack'[n] = <<User(n)>> /\ stack'[n] # <<>> /\ stack'[n][1] = User(n)
        /\ \A p \in Pids \ {n} : stack'[p] = stack[p]
    BY <1>3, <1>5, Activated, OneElement DEF IInv, TypeInv, RunTyped
  <1>7. /\ \A p \in Pids : pcb'[p].parent_pid = pcb[p].parent_pid /\ pcb'[p].ctx = pcb[p].ctx
        /\ \A p \in Pids \ {n} : pcb'[p].exception_flag = pcb[p].exception_flag
        /\ handler # Halting("exception", FALSE) =>
             pcb'[n].exception_flag = pcb[n].exception_flag
        /\ handler = Halting("exception", FALSE) => pcb'[n].exception_flag = TRUE
    <2>1. CASE handler = Halting("exception", FALSE)
      BY <1>3, <1>4, <2>1 DEF IInv, TypeInv, PcbTyped, Pcbs
    <2>2. CASE handler # Halting("exception", FALSE)
      BY <1>3, <1>4, <2>2
    <2> QED BY <2>1, <2>2
  <1>8. Ancestry(n)'
    <2>1. \A p \in 0 .. n : p \in Pids /\ (p < n => p \in Pids \ {n})
      BY <1>3, ProcessAssumption DEF Pids
    <2> QED BY <1>1, <1>6, <1>7, <2>1, AncestryKept DEF StackAt
  <1>9. Globals(n)' /\ terminal_active_id' = 0 /\ process_total' = n + 1
    <2>1. process_total = n + 1
      BY <1>3, ProcessAssumption DEF IInv, TypeInv, GlobalsTyped, Pids
    <2> QED BY <1>1, <1>3, <1>4, <2>1 DEF Globals, StackAt
  <1>10. Unmarked(n - 1)'
    BY <1>3, <1>7, ProcessAssumption DEF Unmarked, Pids
  <1>11. CASE handler = Kernel("exec_check", TRUE) \/ handler = Kernel("read", TRUE)
    <2>1. /\ \/ handler.pc = "exec_check" /\ handler.intr = TRUE /\ handler.why = "none"
             \/ handler.pc = "read"
          /\ handler # Halting("exception", FALSE)
      BY <1>11 DEF Kernel, Halting, Activation
    <2>2. CalledBy(n)'
      BY <1>3, <1>5, <1>6 DEF CalledBy, Pids
    <2>3. Unmarked(n)'
      BY <1>3, <1>7, <2>1, ProcessAssumption DEF Unmarked, Pids
    <2>4. n \in -1 .. MaxProcs - 1 /\ terminal_process'[0] = n
      BY <1>9 DEF Globals
    <2> QED BY <1>3, <1>5, <1>8, <1>9, <2>1, <2>2, <2>3, <2>4, ExecuteBegins, ProgramReads
  <1>12. CASE handler = Halting("exit", TRUE) \/ handler = Halting("exception", FALSE)
    <2>1. /\ handler.pc = "halt_begin"
          /\ handler = Halting("exit", TRUE) => handler.why = "exit"
          /\ handler = Halting("exception", FALSE) => handler.why = "exception"
      BY <1>12 DEF Halting, Activation
    <2>2. Marked(n)'
      <3>1. pcb[n].exception_flag = FALSE
        BY <1>3 DEF Unmarked, Pids
      <3>2. CASE handler = Halting("exception", FALSE)
        BY <1>5, <1>7, <2>1, <3>2 DEF Marked
      <3>3. CASE handler # Halting("exception", FALSE)
        BY <1>5, <1>7, <1>12, <2>1, <3>1, <3>3 DEF Marked
      <3> QED BY <3>2, <3>3
    <2> QED BY <1>3, <1>5, <1>6, <1>8, <1>9, <1>10, <2>1, <2>2, ProgramEnds
  <1> QED BY <1>4, <1>11, <1>12

LEMMA KeyStack == ASSUME OneScreen, IInv, Key PROVE StackInv'
  <1> USE DEF control, switching
  <1>1. PICK n \in -1 .. MaxProcs - 1 : n = Subject /\ StackAt(n)
    BY DEF IInv, StackInv
  <1>2. CtrlC
    BY <1>1 DEF Key, AltF, OneScreen, StackAt
  <1>3. frame.pc \in {"user", "read"} /\ UNCHANGED control /\ Enter(Halting("ctrlC", FALSE))
    <2>1. ~(midKernel < MaxMidKernel)
      BY DEF OneScreen, IInv, TypeInv, GlobalsTyped
    <2> QED BY <1>2, <2>1 DEF CtrlC, KeyArrives
  <1>4. /\ n \in Pids /\ Globals(n) /\ Unmarked(n) /\ n = process_total - 1
        /\ frame.pc = "user" => frame = User(n)
        /\ frame.pc = "read" => CalledBy(n)
    BY <1>1, <1>3, ProcessAssumption
    DEF StackAt, Runs, Reads, Subject, ExecCounted, Started, HaltCounted, Pids
  <1>5. /\ frame' = Halting("ctrlC", FALSE) /\ sp' = n
        /\ stack'[n] # <<>> /\ stack'[n][1] = User(n)
        /\ \A p \in Pids \ {n} : stack'[p] = stack[p]
    <2>1. CASE frame.pc = "user"
      <3>1. stack' = [stack EXCEPT ![n] = <<User(n)>>]
            /\ sp' = n /\ frame' = Halting("ctrlC", FALSE)
        BY <1>3, <1>4, <2>1, EntersFromUser DEF IInv, Globals
      <3> QED BY <1>4, <3>1, Activated, OneElement DEF IInv, TypeInv, RunTyped
    <2>2. CASE frame.pc = "read"
      <3>1. sp = n /\ stack[n] = <<User(n)>> /\ frame \in Activations /\ User(n) \in Activations
        <4>1. n >= 0 /\ CalledBy(n)
          BY <1>4, <2>2 DEF Pids
        <4> QED BY <1>4, <4>1, Activated DEF CalledBy, IInv, TypeInv, RunTyped
      <3>2. /\ Append(<<User(n)>>, frame) = <<User(n), frame>>
            /\ <<User(n), frame>>[1] = User(n) /\ <<User(n), frame>> # <<>>
        BY <3>1, TwoElements
      <3>3. stack' = [stack EXCEPT ![n] = <<User(n), frame>>]
            /\ sp' = n /\ frame' = Halting("ctrlC", FALSE)
        BY <1>3, <2>2, <3>1, <3>2 DEF Enter
      <3> QED BY <1>4, <3>2, <3>3 DEF IInv, TypeInv, RunTyped
    <2> QED BY <1>3, <2>1, <2>2
  <1>6. Ancestry(n)'
    <2>1. \A p \in 0 .. n : p < n => p \in Pids \ {n}
      BY <1>4, ProcessAssumption DEF Pids
    <2> QED BY <1>1, <1>3, <1>5, <2>1, AncestryKept DEF StackAt
  <1>7. Halting("ctrlC", FALSE).pc = "halt_begin" /\ Halting("ctrlC", FALSE).why = "ctrlC"
    BY DEF Halting, Activation
  <1>8. Globals(n)' /\ terminal_active_id' = 0 /\ process_total' = n + 1
    <2>1. process_total = n + 1
      BY <1>4, ProcessAssumption DEF IInv, TypeInv, GlobalsTyped, Pids
    <2> QED BY <1>1, <1>3, <1>4, <2>1 DEF Globals, StackAt
  <1>9. Unmarked(n - 1)' /\ Marked(n)'
    <2>1. pcb' = pcb /\ pcb[n].exception_flag = FALSE
      BY <1>3, <1>4, ProcessAssumption DEF Unmarked, Pids
    <2>2. Unmarked(n - 1)'
      BY <1>4, <2>1 DEF Unmarked, Pids
    <2> QED BY <1>5, <1>7, <2>1, <2>2 DEF Marked
  <1> QED BY <1>4, <1>5, <1>6, <1>7, <1>8, <1>9, ProgramEnds

LEMMA ExecuteGoes ==
    ASSUME NEW n \in -1 .. MaxProcs - 1, n = Subject', Executes(n)', Ancestry(n)',
           frame'.pc \in ExecPcs, terminal_active_id' = 0
    PROVE  StackInv'
  <1>1. Runs(n)' /\ Reads(n)' /\ Ends(n)' /\ (frame.pc \in Places)'
    BY DEF Runs, Reads, Ends, ExecPcs, EndPcs, HaltCounted, Places
  <1> QED BY <1>1 DEF StackAt, StackInv

LEMMA EndGoes ==
    ASSUME NEW n \in -1 .. MaxProcs - 1, n = Subject', Ends(n)', Ancestry(n)',
           frame'.pc \in EndPcs, terminal_active_id' = 0
    PROVE  StackInv'
  <1>1. Runs(n)' /\ Reads(n)' /\ Executes(n)' /\ (frame.pc \in Places)'
    BY DEF Runs, Reads, Executes, Started, ExecPcs, EndPcs, HaltCounted, Places
  <1> QED BY <1>1 DEF StackAt, StackInv

LEMMA ReturnsToProgram ==
    ASSUME TypeInv, NEW n \in Pids, CalledBy(n), Return
    PROVE  /\ frame' = User(n)
           /\ \A p \in Pids \ {n} : stack'[p] = stack[p]
  <1>1. sp = n /\ stack[n] = <<User(n)>>
    BY DEF CalledBy, Pids
  <1>2. Front(<<User(n)>>) = <<>> /\ Last(<<User(n)>>) = User(n)
    BY Activated, OneElement
  <1>3. frame' = User(n)
    <2>1. frame' = Resumed(Last(stack[sp]))
      BY DEF Return, ReturnTo
    <2>2. Last(stack[sp]) = User(n)
      BY <1>1, <1>2
    <2> QED BY <2>1, <2>2, Activated
  <1>4. stack' = [stack EXCEPT ![n] = <<>>]
    BY <1>1, <1>2 DEF Return, ReturnTo
  <1> QED BY <1>3, <1>4 DEF TypeInv, RunTyped

(* The answer of a system call to program n.                               *)
LEMMA AnswerStack ==
    ASSUME TypeInv, NEW n \in Pids, CalledBy(n), Globals(n), Unmarked(n), Ancestry(n),
           process_total = n + 1, terminal_active_id = 0, Return, UNCHANGED control
    PROVE  StackInv'
  <1>1. /\ frame' = User(n)
        /\ \A p \in Pids \ {n} : stack'[p] = stack[p]
    BY ReturnsToProgram
  <1>2. \A p \in 0 .. n - 1 : p \in Pids \ {n}
    BY ProcessAssumption DEF Pids
  <1>3. UNCHANGED <<pcb, process_total, terminal_active_id, mapped, esp0, current_pid, terminal_process>>
    BY DEF control, switching
  <1>4. n \in Int
    BY DEF Pids
  <1>5. Ancestry(n)'
    BY <1>1, <1>2, <1>3, <1>4, AncestryKept
  <1>6. Globals(n)' /\ Unmarked(n)'
    BY <1>3 DEF Globals, Unmarked
  <1> QED BY <1>1, <1>3, <1>5, <1>6, ProgramRuns

LEMMA ReadDoneStack == ASSUME IInv, ReadDone PROVE StackInv'
  <1>1. PICK n \in -1 .. MaxProcs - 1 : n = Subject /\ StackAt(n)
    BY DEF IInv, StackInv
  <1>2. frame.pc = "read" /\ Return /\ UNCHANGED control
    BY DEF ReadDone
  <1>3. n \in Pids /\ CalledBy(n) /\ Globals(n) /\ Unmarked(n)
    BY <1>1, <1>2 DEF StackAt, Reads, Pids
  <1>4. process_total = n + 1
    BY <1>1, <1>2 DEF Subject, ExecCounted, Started, HaltCounted, IInv, TypeInv, GlobalsTyped
  <1> QED BY <1>1, <1>2, <1>3, <1>4, AnswerStack DEF StackAt, IInv

LEMMA ExecCheckStack == ASSUME IInv, ExecCheck PROVE StackInv'
  <1>1. PICK n \in -1 .. MaxProcs - 1 : n = Subject /\ StackAt(n)
    BY DEF IInv, StackInv
  <1>2. frame.pc = "exec_check" /\ UNCHANGED control
    BY DEF ExecCheck
  <1>3. /\ CalledBy(n) /\ Unmarked(n) /\ Ancestry(n) /\ terminal_active_id = 0
        /\ frame.intr = TRUE /\ frame.why = "none"
        /\ terminal_process[0] = n
        /\ n >= 0 => Globals(n)
    BY <1>1, <1>2 DEF StackAt, Executes, Started, ExecPcs
  <1>4. process_total = n + 1
    BY <1>1, <1>2 DEF Subject, ExecCounted, Started, HaltCounted, IInv, TypeInv, GlobalsTyped
  <1>5. CASE (Last(stack[sp]).pc = "user" \/ process_total = MaxProcs) /\ Return
    <2>1. n \in Pids
      <3>1. CASE process_total = MaxProcs
        BY <1>4, <3>1, ProcessAssumption DEF Pids
      <3>2. CASE Last(stack[sp]).pc = "user"
        BY <1>3, <3>2 DEF CalledBy, Pids
      <3> QED BY <1>5, <3>1, <3>2
    <2>2. Globals(n)
      BY <1>3, <2>1 DEF Pids
    <2> QED BY <1>2, <1>3, <1>4, <1>5, <2>1, <2>2, AnswerStack DEF IInv
  <1>6. CASE process_total # MaxProcs /\ Goto("exec_inc")
    <2>1. n + 1 \in Pids
      BY <1>4, <1>6, ProcessAssumption DEF Pids
    <2>2. /\ frame' = [frame EXCEPT !.pc = "exec_inc"] /\ UNCHANGED <<stack, sp>>
          /\ frame'.pc = "exec_inc" /\ frame'.intr = TRUE /\ frame'.why = "none"
      BY <1>3, <1>6 DEF Goto, IInv, TypeInv, RunTyped, Activations
    <2>3. UNCHANGED <<pcb, process_total, terminal_active_id, terminal_process>>
      BY <1>2 DEF control, switching
    <2>4. CalledBy(n)' /\ Unmarked(n)'
      BY <1>3, <2>2, <2>3 DEF CalledBy, Unmarked
    <2>5. Ancestry(n)'
      BY <1>3, <2>2, <2>3, AncestryKept
    <2>6. Executes(n)'
      BY <1>3, <2>1, <2>2, <2>3, <2>4 DEF Executes, Started
    <2>7. n = Subject' /\ frame'.pc \in ExecPcs /\ terminal_active_id' = 0
      BY <1>3, <1>4, <2>2, <2>3 DEF Subject, ExecCounted, Started, HaltCounted, ExecPcs
    <2> QED BY <2>5, <2>6, <2>7, ExecuteGoes
  <1> QED BY <1>5, <1>6 DEF ExecCheck

LEMMA ExecIncMapStack == ASSUME IInv, ExecInc \/ ExecMap PROVE StackInv'
  <1>1. PICK n \in -1 .. MaxProcs - 1 : n = Subject /\ StackAt(n)
    BY DEF IInv, StackInv
  <1>2. PICK next \in {"exec_map", "exec_pcb"} :
          /\ frame.pc = IF next = "exec_map" THEN "exec_inc" ELSE "exec_map"
          /\ Goto(next)
          /\ process_total' = IF next = "exec_map" THEN process_total + 1 ELSE process_total
          /\ next = "exec_pcb" => mapped' = process_total - 1
          /\ UNCHANGED <<pcb, terminal_active_id, terminal_process>>
    BY DEF ExecInc, ExecMap, switching
  <1>3. /\ CalledBy(n) /\ Unmarked(n) /\ Ancestry(n) /\ terminal_active_id = 0
        /\ frame.intr = TRUE /\ frame.why = "none"
        /\ terminal_process[0] = n
        /\ n + 1 \in Pids
    BY <1>1, <1>2 DEF StackAt, Executes, Started, ExecPcs
  <1>4. process_total = IF frame.pc = "exec_inc" THEN n + 1 ELSE n + 2
    BY <1>1, <1>2 DEF Subject, ExecCounted, Started, HaltCounted, IInv, TypeInv, GlobalsTyped
  <1>5. /\ UNCHANGED <<stack, sp>>
        /\ frame'.pc = next /\ frame'.intr = TRUE /\ frame'.why = "none"
    BY <1>2, <1>3 DEF Goto, IInv, TypeInv, RunTyped, Activations
  <1>6. CalledBy(n)' /\ Unmarked(n)'
    BY <1>2, <1>3, <1>5 DEF CalledBy, Unmarked
  <1>7. Ancestry(n)'
    BY <1>2, <1>3, <1>5, AncestryKept
  <1>8. process_total' = n + 2 /\ (next = "exec_pcb" => mapped' = n + 1)
    BY <1>2, <1>4
  <1>9. Executes(n)'
    BY <1>2, <1>3, <1>5, <1>6, <1>8 DEF Executes, Started
  <1>10. n = Subject' /\ frame'.pc \in ExecPcs /\ terminal_active_id' = 0
    BY <1>2, <1>3, <1>5, <1>8 DEF Subject, ExecCounted, Started, HaltCounted, ExecPcs
  <1> QED BY <1>7, <1>9, <1>10, ExecuteGoes

LEMMA ExecPcbStack == ASSUME IInv, ExecPcb PROVE StackInv'
  <1>1. PICK n \in -1 .. MaxProcs - 1 : n = Subject /\ StackAt(n)
    BY DEF IInv, StackInv
  <1>2. /\ CalledBy(n) /\ Unmarked(n) /\ Ancestry(n) /\ terminal_active_id = 0
        /\ frame.pc = "exec_pcb" /\ frame.intr = TRUE /\ frame.why = "none"
        /\ terminal_process[0] = n
        /\ n + 1 \in Pids
        /\ mapped = n + 1
    BY <1>1 DEF ExecPcb, StackAt, Executes, Started, ExecPcs
  <1>3. process_total = n + 2
    BY <1>1, <1>2 DEF Subject, ExecCounted, Started, IInv, TypeInv, GlobalsTyped
  <1>4. /\ pcb' = [pcb EXCEPT ![n + 1].parent_pid = n]
        /\ terminal_process' = [terminal_process EXCEPT ![0] = n + 1]
        /\ frame' = [frame EXCEPT !.pc = "exec_current", !.pid = n + 1]
        /\ UNCHANGED <<stack, sp, process_total, terminal_active_id, mapped>>
    <2>1. process_total - 1 = n + 1
      BY <1>3
    <2> QED BY <1>2, <2>1 DEF ExecPcb, Mapped, switching
  <1>5. /\ frame'.pc = "exec_current" /\ frame'.intr = TRUE /\ frame'.why = "none"
        /\ frame'.pid = n + 1
    BY <1>2, <1>4 DEF IInv, TypeInv, RunTyped, Activations
  <1>6. /\ pcb'[n + 1].parent_pid = n
        /\ \A p \in 0 .. n : pcb'[p] = pcb[p]
    BY <1>2, <1>4 DEF IInv, TypeInv, PcbTyped, Pcbs
  <1>7. terminal_process'[0] = n + 1
    <2>1. 0 \in Terminals
      BY ProcessAssumption DEF Terminals
    <2> QED BY <1>4, <2>1 DEF IInv, TypeInv, GlobalsTyped
  <1>8. CalledBy(n)' /\ Unmarked(n)'
    BY <1>2, <1>4, <1>6 DEF CalledBy, Unmarked
  <1>9. Ancestry(n)'
    BY <1>2, <1>4, <1>6, AncestryKept
  <1>10. Executes(n)'
    BY <1>2, <1>4, <1>5, <1>6, <1>7, <1>8 DEF Executes, Started
  <1>11. n = Subject' /\ frame'.pc \in ExecPcs /\ terminal_active_id' = 0
    BY <1>2, <1>3, <1>4, <1>5 DEF Subject, ExecCounted, Started, ExecPcs
  <1> QED BY <1>9, <1>10, <1>11, ExecuteGoes

LEMMA ExecCurrentStack == ASSUME IInv, ExecCurrent PROVE StackInv'
  <1>1. PICK n \in -1 .. MaxProcs - 1 : n = Subject /\ StackAt(n)
    BY DEF IInv, StackInv
  <1>2. /\ CalledBy(n) /\ Unmarked(n) /\ Ancestry(n) /\ terminal_active_id = 0
        /\ frame.pc = "exec_current" /\ frame.intr = TRUE /\ frame.why = "none"
        /\ frame.pid = n + 1 /\ terminal_process[0] = n + 1 /\ mapped = n + 1
        /\ n + 1 \in Pids
        /\ pcb[n + 1].parent_pid = n
    BY <1>1 DEF ExecCurrent, StackAt, Executes, Started, ExecPcs
  <1>3. process_total = n + 2
    BY <1>1, <1>2 DEF Subject, ExecCounted, Started, IInv, TypeInv, GlobalsTyped
  <1>4. /\ frame' = [frame EXCEPT !.pc = "exec_save"]
        /\ current_pid' = n + 1
        /\ UNCHANGED <<pcb, stack, sp, process_total, terminal_active_id, terminal_process, mapped>>
    BY <1>2 DEF ExecCurrent, Goto, switching
  <1>5. /\ frame'.pc = "exec_save" /\ frame'.intr = TRUE /\ frame'.why = "none"
        /\ frame'.pid = n + 1
    BY <1>2, <1>4 DEF IInv, TypeInv, RunTyped, Activations
  <1>6. CalledBy(n)' /\ Unmarked(n)'
    BY <1>2, <1>4 DEF CalledBy, Unmarked
  <1>7. Ancestry(n)'
    BY <1>2, <1>4, AncestryKept
  <1>8. Executes(n)'
    BY <1>2, <1>4, <1>5, <1>6 DEF Executes, Started
  <1>9. n = Subject' /\ frame'.pc \in ExecPcs /\ terminal_active_id' = 0
    BY <1>2, <1>3, <1>4, <1>5 DEF Subject, ExecCounted, Started, ExecPcs
  <1> QED BY <1>7, <1>8, <1>9, ExecuteGoes

(* The stack pointer saved for halt is the one of this call of execute.    *)
LEMMA ExecSaveStack == ASSUME IInv, ExecSave PROVE StackInv'
  <1>1. PICK n \in -1 .. MaxProcs - 1 : n = Subject /\ StackAt(n)
    BY DEF IInv, StackInv
  <1>2. /\ CalledBy(n) /\ Unmarked(n) /\ Ancestry(n) /\ terminal_active_id = 0
        /\ frame.pc = "exec_save" /\ frame.intr = TRUE /\ frame.why = "none"
        /\ frame.pid = n + 1 /\ terminal_process[0] = n + 1 /\ mapped = n + 1
        /\ current_pid = n + 1
        /\ n + 1 \in Pids
        /\ pcb[n + 1].parent_pid = n
    BY <1>1 DEF ExecSave, StackAt, Executes, Started, ExecPcs
  <1>3. process_total = n + 2
    BY <1>1, <1>2 DEF Subject, ExecCounted, Started, IInv, TypeInv, GlobalsTyped
  <1>4. /\ frame' = [frame EXCEPT !.pc = "exec_flag"]
        /\ UNCHANGED <<stack, sp, process_total, current_pid, terminal_active_id,
                       terminal_process, mapped>>
    BY <1>2 DEF ExecSave, Goto, switching
  <1> DEFINE ctx == [stk |-> sp, frames |-> Append(stack[sp], Callee(n + 1))]
  <1>5. pcb' = [pcb EXCEPT ![n + 1].ctx = ctx]
    <2>1. [frame EXCEPT !.pc = "exec_enter"] = Callee(n + 1)
      <3> DEFINE f == [frame EXCEPT !.pc = "exec_enter"]
      <3>1. /\ f \in Activations /\ f.pc = "exec_enter" /\ f.pid = n + 1
            /\ f.intr = TRUE /\ f.why = "none"
        BY <1>2 DEF IInv, TypeInv, RunTyped, Activations, Pcs, KernelPcs, ExecPcs
      <3> HIDE DEF f
      <3>2. f = Callee(n + 1)
        BY <3>1 DEF Callee, Activation, Activations
      <3> QED BY <3>2 DEF f
    <2> DEFINE under == Append(stack[sp], Callee(n + 1))
    <2>2. [stack EXCEPT ![sp] = under][sp] = under
      BY DEF IInv, TypeInv, RunTyped
    <2>3. pcb' = [pcb EXCEPT ![frame.pid].ctx = Context([stack EXCEPT ![sp] = under])]
      BY <2>1 DEF ExecSave
    <2> HIDE DEF under
    <2>4. pcb' = [pcb EXCEPT ![n + 1].ctx = [stk |-> sp, frames |-> under]]
      BY <1>2, <2>2, <2>3 DEF Context
    <2> QED BY <2>4 DEF under
  <1>6. /\ frame'.pc = "exec_flag" /\ frame'.intr = TRUE /\ frame'.why = "none"
        /\ frame'.pid = n + 1
    BY <1>2, <1>4 DEF IInv, TypeInv, RunTyped, Activations
  <1>7. /\ pcb'[n + 1].ctx = ctx /\ pcb'[n + 1].parent_pid = n
        /\ \A p \in 0 .. n : pcb'[p] = pcb[p]
    <2> HIDE DEF ctx
    <2>1. pcb[n + 1] \in Pcbs
      BY <1>2 DEF IInv, TypeInv, PcbTyped
    <2>2. /\ pcb'[n + 1] = [pcb[n + 1] EXCEPT !.ctx = ctx]
          /\ \A p \in 0 .. n : pcb'[p] = pcb[p]
      <3>1. \A p \in 0 .. n : p \in Pids /\ p # n + 1
        BY <1>2, ProcessAssumption DEF Pids
      <3> QED BY <1>2, <1>5, <3>1 DEF IInv, TypeInv, PcbTyped
    <2> QED BY <1>2, <2>1, <2>2 DEF Pcbs
  <1>8. CalledBy(n)' /\ Unmarked(n)'
    BY <1>2, <1>4, <1>7 DEF CalledBy, Unmarked
  <1>9. Ancestry(n)'
    BY <1>2, <1>4, <1>7, AncestryKept
  <1>10. Executes(n)'
    BY <1>2, <1>4, <1>6, <1>7, <1>8 DEF Executes, Started
  <1>11. n = Subject' /\ frame'.pc \in ExecPcs /\ terminal_active_id' = 0
    BY <1>2, <1>3, <1>4, <1>6 DEF Subject, ExecCounted, Started, ExecPcs
  <1> QED BY <1>9, <1>10, <1>11, ExecuteGoes

LEMMA ExecFlagStack == ASSUME IInv, ExecFlag PROVE StackInv'
  <1>1. PICK n \in -1 .. MaxProcs - 1 : n = Subject /\ StackAt(n)
    BY DEF IInv, StackInv
  <1>2. /\ CalledBy(n) /\ Unmarked(n) /\ Ancestry(n) /\ terminal_active_id = 0
        /\ frame.pc = "exec_flag" /\ frame.intr = TRUE /\ frame.why = "none"
        /\ frame.pid = n + 1 /\ terminal_process[0] = n + 1 /\ mapped = n + 1
        /\ current_pid = n + 1
        /\ n + 1 \in Pids
        /\ pcb[n + 1].parent_pid = n
        /\ pcb[n + 1].ctx = [stk |-> sp, frames |-> Append(stack[sp], Callee(n + 1))]
    BY <1>1 DEF ExecFlag, StackAt, Executes, Started, ExecPcs
  <1>3. process_total = n + 2
    BY <1>1, <1>2 DEF Subject, ExecCounted, Started, IInv, TypeInv, GlobalsTyped
  <1>4. /\ frame' = [frame EXCEPT !.pc = "exec_enter"]
        /\ pcb' = [pcb EXCEPT ![n + 1].exception_flag = FALSE]
        /\ UNCHANGED <<stack, sp, process_total, current_pid, terminal_active_id,
                       terminal_process, mapped>>
    BY <1>2 DEF ExecFlag, Goto, switching
  <1>5. /\ frame'.pc = "exec_enter" /\ frame'.intr = TRUE /\ frame'.why = "none"
        /\ frame'.pid = n + 1
    BY <1>2, <1>4 DEF IInv, TypeInv, RunTyped, Activations
  <1>6. /\ pcb'[n + 1].exception_flag = FALSE
        /\ pcb'[n + 1].ctx = pcb[n + 1].ctx /\ pcb'[n + 1].parent_pid = n
        /\ \A p \in 0 .. n : pcb'[p] = pcb[p]
    <2>1. pcb[n + 1] \in Pcbs
      BY <1>2 DEF IInv, TypeInv, PcbTyped
    <2>2. /\ pcb'[n + 1] = [pcb[n + 1] EXCEPT !.exception_flag = FALSE]
          /\ \A p \in 0 .. n : pcb'[p] = pcb[p]
      <3>1. \A p \in 0 .. n : p \in Pids /\ p # n + 1
        BY <1>2, ProcessAssumption DEF Pids
      <3> QED BY <1>2, <1>4, <3>1 DEF IInv, TypeInv, PcbTyped
    <2> QED BY <1>2, <2>1, <2>2 DEF Pcbs
  <1>7. CalledBy(n)' /\ Unmarked(n)'
    BY <1>2, <1>4, <1>6 DEF CalledBy, Unmarked
  <1>8. Ancestry(n)'
    BY <1>2, <1>4, <1>6, AncestryKept
  <1>9. Executes(n)'
    BY <1>2, <1>4, <1>5, <1>6, <1>7 DEF Executes, Started
  <1>10. n = Subject' /\ frame'.pc \in ExecPcs /\ terminal_active_id' = 0
    BY <1>2, <1>3, <1>4, <1>5 DEF Subject, ExecCounted, Started, ExecPcs
  <1> QED BY <1>8, <1>9, <1>10, ExecuteGoes

(* Before the new program runs its caller is one more waiting program.     *)
LEMMA ExecEnterStack == ASSUME IInv, ExecEnter PROVE StackInv'
  <1>1. PICK n \in -1 .. MaxProcs - 1 : n = Subject /\ StackAt(n)
    BY DEF IInv, StackInv
  <1> DEFINE new == n + 1
  <1>2. /\ CalledBy(n) /\ Unmarked(n) /\ Ancestry(n) /\ terminal_active_id = 0
        /\ frame.pc = "exec_enter" /\ frame.intr = TRUE /\ frame.why = "none"
        /\ frame.pid = new /\ terminal_process[0] = new /\ mapped = new /\ current_pid = new
        /\ new \in Pids
        /\ pcb[new].parent_pid = n /\ pcb[new].exception_flag = FALSE
        /\ pcb[new].ctx = [stk |-> sp, frames |-> Append(stack[sp], Callee(new))]
    BY <1>1 DEF ExecEnter, StackAt, Executes, Started, ExecPcs
  <1>3. process_total = new + 1
    BY <1>1, <1>2 DEF Subject, ExecCounted, Started, IInv, TypeInv, GlobalsTyped
  <1>4. /\ esp0' = new
        /\ stack' = [stack EXCEPT ![sp] = Append(stack[sp], frame)]
        /\ frame' = User(new)
        /\ UNCHANGED <<process_total, current_pid, terminal_process, terminal_active_id, pcb, mapped>>
    BY <1>2, <1>3 DEF ExecEnter, switching
  <1>5. frame = Callee(new)
    BY <1>2 DEF Callee, Activation, IInv, TypeInv, RunTyped, Activations
  <1>6. Ancestry(new)'
    <2>1. pcb'[0].parent_pid = -1
      BY <1>2, <1>4 DEF Ancestry
    <2>2. ASSUME NEW p \in 1 .. new PROVE Waits(p)'
      <3>1. n >= 0 /\ sp = n /\ stack[n] = <<User(n)>> /\ n \in Pids
        BY <1>2 DEF CalledBy, Pids
      <3>2. Append(stack[sp], frame) = SavedCall(new)
        <4>1. Append(<<User(n)>>, Callee(new)) = <<User(n), Callee(new)>>
          <5>1. User(n) \in Activations
            BY <3>1, Activated
          <5>2. Callee(new) \in Activations
            BY <1>2, Activated
          <5> QED BY <5>1, <5>2, TwoElements
        <4> QED BY <1>5, <3>1, <4>1 DEF SavedCall
      <3>3. stack'[n] = SavedCall(new) /\ \A q \in Pids \ {n} : stack'[q] = stack[q]
        BY <1>4, <3>1, <3>2 DEF IInv, TypeInv, RunTyped
      <3>4. CASE p = new
        BY <1>2, <1>4, <1>5, <3>1, <3>2, <3>3, <3>4 DEF Waits
      <3>5. CASE p # new
        <4>1. p \in 1 .. n /\ p - 1 \in Pids \ {n}
          BY <3>1, <3>5, ProcessAssumption DEF Pids
        <4> QED BY <1>2, <1>4, <3>3, <4>1 DEF Ancestry, Waits
      <3> QED BY <3>4, <3>5
    <2> QED BY <2>1, <2>2 DEF Ancestry
  <1>7. Globals(new)' /\ Unmarked(new)'
    BY <1>2, <1>4 DEF Globals, Unmarked
  <1> QED BY <1>2, <1>3, <1>4, <1>6, <1>7, ProgramRuns

LEMMA Parent == ASSUME NEW n \in Pids, Ancestry(n) PROVE pcb[n].parent_pid = n - 1
  <1>1. n = 0 \/ n \in 1 .. n
    BY ProcessAssumption DEF Pids
  <1>2. CASE n = 0
    BY <1>2 DEF Ancestry
  <1>3. CASE n \in 1 .. n
    BY <1>3 DEF Ancestry, Waits
  <1> QED BY <1>1, <1>2, <1>3

LEMMA HaltBeginStack == ASSUME IInv, HaltBegin PROVE StackInv'
  <1>1. PICK n \in -1 .. MaxProcs - 1 : n = Subject /\ StackAt(n)
    BY DEF IInv, StackInv
  <1>2. /\ frame.pc = "halt_begin" /\ n \in Pids
        /\ sp = n /\ stack[n] # <<>> /\ stack[n][1] = User(n)
        /\ Unmarked(n - 1)
        /\ Marked(n)
        /\ Globals(n) /\ Ancestry(n) /\ terminal_active_id = 0
    BY <1>1 DEF HaltBegin, StackAt, Ends, EndPcs, Pids
  <1>3. /\ esp0' = pcb[n].parent_pid /\ mapped' = pcb[n].parent_pid
        /\ frame' = [frame EXCEPT !.pc = "halt_total", !.pid = n]
        /\ UNCHANGED <<stack, sp, process_total, current_pid, terminal_process,
                       terminal_active_id, pcb>>
    BY <1>2 DEF HaltBegin, Mapped, Globals, switching
  <1>4. frame'.pc = "halt_total" /\ frame'.pid = n /\ frame'.why = frame.why
    BY <1>3 DEF IInv, TypeInv, RunTyped, Activations
  <1>5. mapped' = n - 1 /\ esp0' = n - 1
    BY <1>2, <1>3, Parent
  <1>6. Ancestry(n)' /\ Unmarked(n - 1)' /\ Marked(n)'
    BY <1>2, <1>3, <1>4, AncestryKept DEF Unmarked, Marked
  <1>7. Ends(n)'
    BY <1>2, <1>3, <1>4, <1>5, <1>6 DEF Ends, Globals, Pids
  <1>8. n = Subject' /\ frame'.pc \in EndPcs /\ terminal_active_id' = 0
    BY <1>1, <1>2, <1>3, <1>4 DEF Subject, ExecCounted, Started, HaltCounted, EndPcs
  <1> QED BY <1>6, <1>7, <1>8, EndGoes

(* The next three stretches of halt write one global each.                 *)
LEMMA HaltStepStack == ASSUME IInv, HaltTotal \/ HaltTerminal \/ HaltCurrent PROVE StackInv'
  <1>1. PICK n \in -1 .. MaxProcs - 1 : n = Subject /\ StackAt(n)
    BY DEF IInv, StackInv
  <1>2. /\ frame.pc \in {"halt_total", "halt_terminal", "halt_current"} /\ n \in Pids
        /\ sp = n /\ stack[n] # <<>> /\ stack[n][1] = User(n)
        /\ Unmarked(n - 1)
        /\ Marked(n)
        /\ frame.pid = n /\ mapped = n - 1 /\ esp0 = n - 1 /\ current_pid = n
        /\ terminal_process[0] = IF frame.pc = "halt_current" THEN n - 1 ELSE n
        /\ Ancestry(n) /\ terminal_active_id = 0
    BY <1>1 DEF HaltTotal, HaltTerminal, HaltCurrent, StackAt, Ends, EndPcs, HaltCounted, Pids
  <1>3. process_total = IF frame.pc = "halt_total" THEN n + 1 ELSE n
    BY <1>1, <1>2 DEF Subject, ExecCounted, Started, HaltCounted, IInv, TypeInv, GlobalsTyped
  <1>4. UNCHANGED <<stack, sp, pcb, mapped, esp0, terminal_active_id>>
    BY DEF HaltTotal, HaltTerminal, HaltCurrent, Goto, switching
  <1>5. Ancestry(n)' /\ Unmarked(n - 1)'
    BY <1>2, <1>4, AncestryKept DEF Unmarked
  <1>6. CASE HaltTotal
    <2>1. /\ frame'.pc = "halt_terminal" /\ frame'.pid = n /\ frame'.why = frame.why
          /\ frame.pc = "halt_total"
      BY <1>2, <1>6 DEF HaltTotal, Goto, IInv, TypeInv, RunTyped, Activations
    <2>2. process_total' = n /\ UNCHANGED <<current_pid, terminal_process>>
      BY <1>3, <1>6, <2>1 DEF HaltTotal
    <2>3. Ends(n)'
      BY <1>2, <1>4, <1>5, <2>1, <2>2 DEF Ends, Marked, Pids
    <2>4. n = Subject' /\ frame'.pc \in EndPcs /\ terminal_active_id' = 0
      BY <1>2, <1>4, <2>1, <2>2 DEF Subject, ExecCounted, Started, HaltCounted, EndPcs
    <2> QED BY <1>5, <2>3, <2>4, EndGoes
  <1>7. CASE HaltTerminal
    <2>1. /\ frame'.pc = "halt_current" /\ frame'.pid = n /\ frame'.why = frame.why
          /\ frame.pc = "halt_terminal"
      BY <1>2, <1>7 DEF HaltTerminal, Goto, IInv, TypeInv, RunTyped, Activations
    <2>2. process_total' = n /\ current_pid' = n
      BY <1>2, <1>3, <1>7, <2>1 DEF HaltTerminal
    <2>3. terminal_process'[0] = n - 1
      <3>1. 0 \in Terminals
        BY ProcessAssumption DEF Terminals
      <3>2. terminal_process' = [terminal_process EXCEPT ![0] = pcb[n].parent_pid]
        BY <1>2, <1>7 DEF HaltTerminal
      <3> QED BY <1>2, <3>1, <3>2, Parent DEF IInv, TypeInv, GlobalsTyped
    <2>4. Ends(n)'
      BY <1>2, <1>4, <1>5, <2>1, <2>2, <2>3 DEF Ends, Marked, Pids
    <2>5. n = Subject' /\ frame'.pc \in EndPcs /\ terminal_active_id' = 0
      BY <1>2, <1>4, <2>1, <2>2 DEF Subject, ExecCounted, Started, HaltCounted, EndPcs
    <2> QED BY <1>5, <2>4, <2>5, EndGoes
  <1>8. CASE HaltCurrent
    <2>1. /\ frame'.pc = "halt_finish" /\ frame'.pid = n /\ frame'.why = frame.why
          /\ frame.pc = "halt_current"
      BY <1>2, <1>8 DEF HaltCurrent, Goto, IInv, TypeInv, RunTyped, Activations
    <2>2. process_total' = n /\ current_pid' = n - 1 /\ UNCHANGED terminal_process
      BY <1>2, <1>3, <1>8, <2>1 DEF HaltCurrent
    <2>3. Ends(n)'
      BY <1>2, <1>4, <1>5, <2>1, <2>2 DEF Ends, Marked, Pids
    <2>4. n = Subject' /\ frame'.pc \in EndPcs /\ terminal_active_id' = 0
      BY <1>2, <1>4, <2>1, <2>2 DEF Subject, ExecCounted, Started, HaltCounted, EndPcs
    <2> QED BY <1>5, <2>3, <2>4, EndGoes
  <1> QED BY <1>6, <1>7, <1>8

(* The context of a program whose caller still waits leads to the caller.  *)
LEMMA LoadsParent ==
    ASSUME TypeInv, NEW n \in Pids, n # 0, Waits(n), LoadContext(pcb[n].ctx, stack)
    PROVE  /\ frame' = User(n - 1)
           /\ stack' = [stack EXCEPT ![n - 1] = <<>>]
  <1>1. /\ pcb[n].ctx.stk = n - 1 /\ pcb[n].ctx.frames = SavedCall(n)
        /\ stack[n - 1] = SavedCall(n)
        /\ n - 1 \in Pids
    BY ProcessAssumption DEF Waits, Pids
  <1>2. /\ Len(SavedCall(n)) = 2 /\ Front(SavedCall(n)) = <<User(n - 1)>>
        /\ IsPrefix(<<User(n - 1)>>, SavedCall(n))
    <2>1. User(n - 1) \in Activations
      BY <1>1, Activated
    <2>2. Callee(n) \in Activations
      BY Activated
    <2> QED BY <2>1, <2>2, TwoElements DEF SavedCall
  <1>3. Intact(pcb[n].ctx, stack)
    BY <1>1, <1>2 DEF Intact, SameRoutine
  <1>4. ReturnTo(stack, n - 1, <<User(n - 1)>>)
    BY <1>1, <1>2, <1>3 DEF LoadContext
  <1>5. /\ Front(<<User(n - 1)>>) = <<>> /\ Last(<<User(n - 1)>>) = User(n - 1)
        /\ Resumed(User(n - 1)) = User(n - 1)
    BY <1>1, Activated, OneElement
  <1> QED BY <1>4, <1>5 DEF ReturnTo

\* What is known where halt is about to leave program n for good.
LEMMA Finishing ==
    ASSUME IInv, HaltFinish
    PROVE  \E n \in Pids :
             /\ Subject = n /\ process_total = n /\ frame.pc = "halt_finish" /\ frame.pid = n
             /\ sp = n /\ stack[n] # <<>> /\ stack[n][1] = User(n)
             /\ Ancestry(n) /\ Unmarked(n - 1)
             /\ Marked(n)
             /\ mapped = n - 1 /\ esp0 = n - 1 /\ current_pid = n - 1
             /\ terminal_active_id = 0 /\ terminal_process[0] = n - 1
             /\ pcb' = [pcb EXCEPT ![n].exception_flag = FALSE]
             /\ UNCHANGED <<process_total, current_pid, terminal_process, terminal_active_id,
                            esp0, mapped>>
             /\ IF n = 0 THEN Call("halt_return", Kernel("exec_check", TRUE)) /\ UNCHANGED eax
                         ELSE /\ LoadContext(pcb[n].ctx, stack)
                              /\ eax' = RealStatus(n, frame.why)
  <1>1. PICK n \in -1 .. MaxProcs - 1 : n = Subject /\ StackAt(n)
    BY DEF IInv, StackInv
  <1>2. /\ frame.pc = "halt_finish" /\ frame.pid = n /\ n \in Pids
        /\ sp = n /\ stack[n] # <<>> /\ stack[n][1] = User(n)
        /\ Ancestry(n) /\ Unmarked(n - 1)
        /\ Marked(n)
        /\ mapped = n - 1 /\ esp0 = n - 1 /\ current_pid = n - 1
        /\ terminal_active_id = 0 /\ terminal_process[0] = n - 1
    BY <1>1 DEF HaltFinish, StackAt, Ends, EndPcs, HaltCounted, Pids
  <1>3. process_total = n
    BY <1>1, <1>2 DEF Subject, ExecCounted, Started, HaltCounted
  <1>4. /\ pcb' = [pcb EXCEPT ![n].exception_flag = FALSE]
        /\ UNCHANGED <<process_total, current_pid, terminal_process, terminal_active_id,
                       esp0, mapped>>
    BY <1>2 DEF HaltFinish, switching
  <1>5. IF n = 0 THEN Call("halt_return", Kernel("exec_check", TRUE)) /\ UNCHANGED eax
                 ELSE LoadContext(pcb[n].ctx, stack) /\ eax' = RealStatus(n, frame.why)
    <2>1. terminal_process[terminal_active_id] < 0 <=> n = 0
      BY <1>2 DEF Pids
    <2> QED BY <1>2, <2>1 DEF HaltFinish
  <1> QED BY <1>1, <1>2, <1>3, <1>4, <1>5

LEMMA HaltFinishStack == ASSUME IInv, HaltFinish PROVE StackInv'
  <1>1. PICK n \in Pids :
             /\ Subject = n /\ process_total = n /\ frame.pc = "halt_finish" /\ frame.pid = n
             /\ sp = n /\ stack[n] # <<>> /\ stack[n][1] = User(n)
             /\ Ancestry(n) /\ Unmarked(n - 1)
             /\ mapped = n - 1 /\ esp0 = n - 1 /\ current_pid = n - 1
             /\ terminal_active_id = 0 /\ terminal_process[0] = n - 1
             /\ pcb' = [pcb EXCEPT ![n].exception_flag = FALSE]
             /\ UNCHANGED <<process_total, current_pid, terminal_process, terminal_active_id,
                            esp0, mapped>>
             /\ IF n = 0 THEN Call("halt_return", Kernel("exec_check", TRUE)) /\ UNCHANGED eax
                         ELSE /\ LoadContext(pcb[n].ctx, stack)
                              /\ eax' = RealStatus(n, frame.why)
    BY Finishing
  <1>2. \A p \in Pids : /\ pcb'[p].parent_pid = pcb[p].parent_pid
                        /\ pcb'[p].ctx = pcb[p].ctx
                        /\ p # n => pcb'[p] = pcb[p]
    BY <1>1 DEF IInv, TypeInv, PcbTyped, Pcbs
  <1>3. CASE n = 0
    <2> DEFINE f == [frame EXCEPT !.pc = "halt_return"]
    <2>1. /\ stack' = [stack EXCEPT ![0] = Append(stack[0], f)]
          /\ frame' = Kernel("exec_check", TRUE) /\ sp' = 0
      BY <1>1, <1>3 DEF Call
    <2>2. f \in Activations /\ f.pc = "halt_return" /\ stack[0] \in Seq(Activations)
      <3>1. "halt_return" \in Pcs
        BY DEF Pcs, KernelPcs, HaltPcs
      <3> QED BY <1>1, <1>3, <3>1 DEF IInv, TypeInv, RunTyped, Activations
    <2> HIDE DEF f
    <2>3. /\ stack'[0] # <<>> /\ stack'[0][1] = User(0) /\ Last(stack'[0]) = f
      <3> DEFINE s == stack[0]
      <3>1. Len(s) \in Nat /\ Len(s) >= 1
        BY <1>1, <1>3, <2>2, LenProperties, EmptySeq
      <3>2. /\ Append(s, f) \in Seq(Activations) /\ Append(s, f) # <<>>
            /\ Len(Append(s, f)) = Len(s) + 1
            /\ \A k \in 1 .. Len(s) : Append(s, f)[k] = s[k]
            /\ Append(s, f)[Len(s) + 1] = f
        BY <2>2, AppendProperties
      <3>3. Append(s, f)[1] = User(0) /\ Last(Append(s, f)) = f
        BY <1>1, <1>3, <3>1, <3>2 DEF Last
      <3>4. stack'[0] = Append(s, f)
        BY <1>1, <1>3, <2>1 DEF IInv, TypeInv, RunTyped
      <3> QED BY <3>2, <3>3, <3>4
    <2>0. PICK m \in -1 .. MaxProcs - 1 : m = -1
      BY ProcessAssumption
    <2>4. CalledBy(m)'
      BY <2>0, <2>1, <2>2, <2>3 DEF CalledBy
    <2>5. Ancestry(m)' /\ Unmarked(m)'
      BY <2>0 DEF Ancestry, Unmarked
    <2>6. frame'.pc = "exec_check" /\ frame'.intr = TRUE /\ frame'.why = "none"
      BY <2>1 DEF Kernel, Activation
    <2>7. process_total' = m + 1 /\ terminal_active_id' = 0 /\ terminal_process'[0] = m
      BY <1>1, <1>3, <2>0
    <2>8. ~(m >= 0)
      BY <2>0
    <2> QED BY <2>4, <2>5, <2>6, <2>7, <2>8, ExecuteBegins
  <1>4. CASE n # 0
    <2>1. n - 1 \in Pids /\ (\A p \in 0 .. n - 1 : p \in Pids /\ p # n)
      BY <1>1, <1>4, ProcessAssumption DEF Pids
    <2>2. Waits(n)
      BY <1>1, <1>4 DEF Ancestry, Pids
    <2>3. frame' = User(n - 1) /\ stack' = [stack EXCEPT ![n - 1] = <<>>]
      BY <1>1, <1>4, <2>2, LoadsParent DEF IInv
    <2>4. Ancestry(n - 1)
      BY <1>1, <1>4 DEF Ancestry, Pids
    <2>5. Ancestry(n - 1)'
      <3>1. \A p \in 0 .. n - 1 - 1 : stack'[p] = stack[p]
        BY <1>1, <2>1, <2>3 DEF IInv, TypeInv, RunTyped, Pids
      <3>2. n - 1 \in Int
        BY <2>1 DEF Pids
      <3> QED BY <1>2, <2>1, <2>4, <3>1, <3>2, AncestryKept
    <2>6. Unmarked(n - 1)'
      BY <1>1, <1>2, <2>1 DEF Unmarked
    <2>7. Globals(n - 1)' /\ process_total' = n - 1 + 1 /\ terminal_active_id' = 0
      BY <1>1 DEF Globals, Pids
    <2> QED BY <2>1, <2>3, <2>5, <2>6, <2>7, ProgramRuns
  <1> QED BY <1>3, <1>4

LEMMA InitStack == Init => StackInv
  <1> SUFFICES ASSUME Init PROVE StackInv
    OBVIOUS
  <1>1. PICK n \in -1 .. MaxProcs - 1 : n = -1
    BY ProcessAssumption
  <1>2. frame.pc = "exec_check" /\ frame.intr = TRUE /\ frame.why = "none"
    BY DEF Init, Kernel, Activation
  <1>3. CalledBy(n)
    <2>1. 0 \in Pids
      BY ProcessAssumption DEF Pids
    <2>2. <<Boot>> # <<>> /\ <<Boot>>[1] = Boot /\ Last(<<Boot>>) = Boot /\ Boot.pc = "boot"
      BY <2>1, Activated, OneElement
    <2>3. stack[0] = <<Boot>> /\ sp = 0
      BY <2>1 DEF Init
    <2> QED BY <1>1, <2>2, <2>3 DEF CalledBy
  <1>4. Ancestry(n) /\ Unmarked(n)
    BY <1>1 DEF Ancestry, Unmarked
  <1>5. terminal_process[0] = n
    BY <1>1, ProcessAssumption DEF Init, Terminals
  <1>6. Executes(n)
    BY <1>1, <1>2, <1>3, <1>4, <1>5 DEF Executes, Started
  <1>7. n = Subject
    <2>1. process_total = 0
      BY DEF Init
    <2> QED BY <1>1, <1>2, <2>1 DEF Subject, ExecCounted, Started, HaltCounted
  <1>8. StackAt(n)
    BY <1>2, <1>4, <1>6
    DEF Init, StackAt, Runs, Reads, Ends, ExecPcs, EndPcs, HaltCounted, Places
  <1> QED BY <1>7, <1>8 DEF StackInv

\* The terminal_switch and the end of halt behind a failed shell do not occur.
LEMMA NoOtherSteps == IInv => ~(HaltReturn \/ SwitchShell \/ SwitchSave)
  BY DEF IInv, StackInv, StackAt, Places, ExecPcs, EndPcs, HaltCounted,
         HaltReturn, SwitchShell, SwitchSave

LEMMA NextStack == ASSUME OneScreen PROVE IInv /\ [Next]_vars => IInv'
  <1> SUFFICES ASSUME IInv, [Next]_vars PROVE IInv'
    OBVIOUS
  <1>1. TypeInv'
    BY NextTyped DEF IInv
  <1>2. StackInv'
    <2>1. CASE UserCall \/ Key \/ ReadDone
      BY <2>1, UserCallStack, KeyStack, ReadDoneStack
    <2>2. CASE \/ ExecCheck \/ ExecInc \/ ExecMap \/ ExecPcb
               \/ ExecCurrent \/ ExecSave \/ ExecFlag \/ ExecEnter
      BY <2>2, ExecCheckStack, ExecIncMapStack, ExecPcbStack, ExecCurrentStack,
         ExecSaveStack, ExecFlagStack, ExecEnterStack
    <2>3. CASE HaltBegin \/ HaltTotal \/ HaltTerminal \/ HaltCurrent \/ HaltFinish
      BY <2>3, HaltBeginStack, HaltStepStack, HaltFinishStack
    <2>4. CASE UNCHANGED vars
      <3>1. PICK n \in -1 .. MaxProcs - 1 : n = Subject /\ StackAt(n)
        BY DEF IInv, StackInv
      <3>2. /\ UNCHANGED <<frame, stack, sp, eax, pcb, mapped, esp0, current_pid>>
            /\ UNCHANGED <<process_total, terminal_process, terminal_active_id>>
        BY <2>4 DEF vars, control, switching
      <3>3. n = Subject' /\ Ancestry(n)'
        BY <3>1, <3>2 DEF Subject, StackAt, Ancestry, Waits
      <3>4. CalledBy(n)' = CalledBy(n) /\ Globals(n)' = Globals(n) /\ Marked(n)' = Marked(n)
            /\ Unmarked(n)' = Unmarked(n) /\ Unmarked(n - 1)' = Unmarked(n - 1)
        BY <3>2 DEF CalledBy, Globals, Marked, Unmarked
      <3>5. Runs(n)' /\ Reads(n)' /\ Ends(n)'
        BY <3>1, <3>2, <3>4 DEF StackAt, Runs, Reads, Ends
      <3>6. Executes(n)'
        BY <3>1, <3>2, <3>4 DEF StackAt, Executes
      <3> QED BY <3>1, <3>2, <3>3, <3>5, <3>6 DEF StackAt, StackInv
    <2> QED BY <2>1, <2>2, <2>3, <2>4, NoOtherSteps DEF Next, KernelStep
  <1> QED BY <1>1, <1>2 DEF IInv

THEOREM StackInvariance ==
    ASSUME OneScreen
    PROVE  Spec => []IInv
  <1>1. Init => IInv
    BY InitTyped, InitStack DEF IInv
  <1> QED BY <1>1, NextStack, PTL DEF Spec

-----------------------------------------------------------------------------
\* What the invariant says while a program runs.
LEMMA AtUser ==
    ASSUME IInv, InUser
    PROVE  \E n \in Pids : /\ frame = User(n) /\ process_total = n + 1
                           /\ Globals(n) /\ Unmarked(n) /\ Ancestry(n)
  <1>1. PICK n \in -1 .. MaxProcs - 1 : n = Subject /\ StackAt(n)
    BY DEF IInv, StackInv
  <1>2. n \in Pids /\ frame = User(n) /\ Globals(n) /\ Unmarked(n) /\ Ancestry(n)
    BY <1>1 DEF StackAt, Runs, InUser, Pids
  <1>3. process_total = n + 1
    BY <1>1 DEF Subject, ExecCounted, Started, HaltCounted, InUser, IInv, TypeInv, GlobalsTyped
  <1> QED BY <1>2, <1>3

(* On one terminal the kernel never returns through a stack that was used  *)
(* again, and never touches a PCB that does not exist: execute and halt,   *)
(* with Ctrl+C in any program or read, for every limit on processes.       *)
THEOREM KernelStaysInControl ==
    ASSUME OneScreen
    PROVE  Spec => []NeverWild
  <1>1. IInv => NeverWild
    BY DEF IInv, StackInv, StackAt, Places, ExecPcs, EndPcs, HaltCounted, NeverWild
  <1> QED BY <1>1, StackInvariance, PTL

(* helper_pass_pid is the caller's pid plus one whenever a program runs.   *)
THEOREM PassedPidIsCallers ==
    ASSUME OneScreen
    PROVE  Spec => []TotalIsPidPlusOne
  <1>1. IInv => TotalIsPidPlusOne
    BY AtUser DEF TotalIsPidPlusOne, Globals
  <1> QED BY <1>1, StackInvariance, PTL

(* The registers in the CPU belong to current_pid, the process whose page  *)
(* is mapped.                                                              *)
THEOREM RegistersMatchPage ==
    ASSUME OneScreen
    PROVE  Spec => []RunsCurrentProcess
  <1>1. IInv => RunsCurrentProcess
    <2> SUFFICES ASSUME IInv, InUser PROVE frame.pid = current_pid
      BY DEF RunsCurrentProcess
    <2>1. PICK n \in Pids : frame = User(n) /\ Globals(n)
      BY AtUser
    <2> QED BY <2>1, Activated DEF Globals
  <1> QED BY <1>1, StackInvariance, PTL

(* Under a running program each program down to the shell waits in its own *)
(* call of execute, on its own kernel stack, where halt will return to.    *)
THEOREM CallersWait ==
    ASSUME OneScreen
    PROVE  Spec => []AncestorsWaiting
  <1>1. IInv => AncestorsWaiting
    <2> SUFFICES ASSUME IInv, InUser, NEW p \in 1 .. current_pid
                 PROVE  /\ pcb[p].parent_pid = p - 1
                        /\ pcb[p].ctx.stk = p - 1
                        /\ IsPrefix(pcb[p].ctx.frames, stack[p - 1])
                        /\ Len(pcb[p].ctx.frames) >= 2
                        /\ pcb[p].ctx.frames[Len(pcb[p].ctx.frames) - 1] = User(p - 1)
      BY DEF AncestorsWaiting
    <2>1. PICK n \in Pids : n = current_pid /\ Ancestry(n)
      BY AtUser DEF Globals
    <2>2. Waits(p) /\ p \in Pids /\ p - 1 \in Pids
      BY <2>1, ProcessAssumption DEF Ancestry, Pids
    <2>3. /\ Len(SavedCall(p)) = 2 /\ SavedCall(p)[1] = User(p - 1)
          /\ IsPrefix(SavedCall(p), SavedCall(p))
      <3>1. User(p - 1) \in Activations
        BY <2>2, Activated
      <3>2. Callee(p) \in Activations
        BY <2>2, Activated
      <3> QED BY <3>1, <3>2, TwoElements DEF SavedCall
    <2>4. /\ pcb[p].parent_pid = p - 1 /\ pcb[p].ctx.stk = p - 1
          /\ pcb[p].ctx.frames = SavedCall(p) /\ stack[p - 1] = SavedCall(p)
      BY <2>2 DEF Waits
    <2>6. Len(pcb[p].ctx.frames) = 2 /\ pcb[p].ctx.frames[2 - 1] = User(p - 1)
      BY <2>3, <2>4
    <2>7. IsPrefix(pcb[p].ctx.frames, stack[p - 1])
      BY <2>3, <2>4
    <2> QED BY <2>4, <2>6, <2>7
  <1> QED BY <1>1, StackInvariance, PTL

\* From the last stretch of halt only halt itself goes on.
LEMMA OnlyHaltFinishes ==
    ASSUME OneScreen, IInv, Next, frame.pc = "halt_finish"
    PROVE  HaltFinish
  <1>1. ~KeyArrives
    <2>1. ~(midKernel < MaxMidKernel)
      BY DEF OneScreen, IInv, TypeInv, GlobalsTyped
    <2> QED BY <2>1 DEF KeyArrives
  <1> QED BY <1>1
      DEF Next, UserCall, Execute, Exit, Exception, Read, Key, CtrlC, AltF, ReadDone, KernelStep,
          ExecCheck, ExecInc, ExecMap, ExecPcb, ExecCurrent, ExecSave, ExecFlag, ExecEnter,
          HaltBegin, HaltTotal, HaltTerminal, HaltCurrent, HaltReturn, SwitchShell, SwitchSave

\* What halt does as it leaves program n: a new shell, or back to the parent.
LEMMA Leaves ==
    ASSUME IInv, HaltFinish
    PROVE  \E n \in Pids :
             /\ frame.pid = n /\ frame.pc = "halt_finish" /\ sp = n
             /\ stack[n] # <<>> /\ stack[n][1] = User(n) /\ Marked(n)
             /\ pcb[n].parent_pid = n - 1
             /\ n = 0 => Call("halt_return", Kernel("exec_check", TRUE))
             /\ n # 0 => /\ frame' = User(n - 1) /\ n - 1 \in Pids
                         /\ eax' = RealStatus(n, frame.why)
  <1>1. PICK n \in Pids :
             /\ frame.pc = "halt_finish" /\ frame.pid = n
             /\ sp = n /\ stack[n] # <<>> /\ stack[n][1] = User(n)
             /\ Ancestry(n) /\ Marked(n)
             /\ IF n = 0 THEN Call("halt_return", Kernel("exec_check", TRUE)) /\ UNCHANGED eax
                         ELSE /\ LoadContext(pcb[n].ctx, stack)
                              /\ eax' = RealStatus(n, frame.why)
    BY Finishing
  <1>2. pcb[n].parent_pid = n - 1
    BY <1>1, Parent
  <1>3. n # 0 => frame' = User(n - 1) /\ n - 1 \in Pids /\ eax' = RealStatus(n, frame.why)
    <2> SUFFICES ASSUME n # 0
                 PROVE  frame' = User(n - 1) /\ n - 1 \in Pids /\ eax' = RealStatus(n, frame.why)
      OBVIOUS
    <2>1. Waits(n) /\ n - 1 \in Pids
      BY <1>1, ProcessAssumption DEF Ancestry, Pids
    <2> QED BY <1>1, <2>1, LoadsParent DEF IInv
  <1> QED BY <1>1, <1>2, <1>3

(* A program that ends resumes its parent, and only that.                  *)
THEOREM HaltReturnsToParent ==
    ASSUME OneScreen
    PROVE  Spec => HaltResumesParent
  <1>1. IInv /\ [Next]_vars =>
          [frame.pc = "halt_finish" /\ frame'.pc = "user"
             => frame'.pid = pcb[frame.pid].parent_pid]_vars
    <2> SUFFICES ASSUME IInv, Next, frame.pc = "halt_finish", frame'.pc = "user"
                 PROVE  frame'.pid = pcb[frame.pid].parent_pid
      OBVIOUS
    <2>1. HaltFinish
      BY OnlyHaltFinishes
    <2>2. PICK n \in Pids :
            /\ frame.pid = n /\ pcb[n].parent_pid = n - 1
            /\ n = 0 => Call("halt_return", Kernel("exec_check", TRUE))
            /\ n # 0 => frame' = User(n - 1) /\ n - 1 \in Pids
      BY <2>1, Leaves
    <2>3. n # 0
      BY <2>2 DEF Call, Kernel, Activation
    <2> QED BY <2>2, <2>3, Activated, ZenonT(40)
  <1> QED BY <1>1, StackInvariance, PTL DEF Spec, HaltResumesParent

(* The parent is told 256 exactly when an exception ended its child.       *)
THEOREM ExceptionsAreReported ==
    ASSUME OneScreen
    PROVE  Spec => ExceptionReported
  <1>1. IInv /\ [Next]_vars =>
          [frame.pc = "halt_finish" /\ frame'.pc = "user"
             => (eax' = 256 <=> frame.why = "exception")]_vars
    <2> SUFFICES ASSUME IInv, Next, frame.pc = "halt_finish", frame'.pc = "user"
                 PROVE  eax' = 256 <=> frame.why = "exception"
      OBVIOUS
    <2>1. HaltFinish
      BY OnlyHaltFinishes
    <2>2. PICK n \in Pids :
            /\ Marked(n)
            /\ n = 0 => Call("halt_return", Kernel("exec_check", TRUE))
            /\ n # 0 => eax' = RealStatus(n, frame.why)
      BY <2>1, Leaves
    <2>3. n # 0
      BY <2>2 DEF Call, Kernel, Activation
    <2> QED BY <2>2, <2>3 DEF Marked, RealStatus
  <1> QED BY <1>1, StackInvariance, PTL DEF Spec, ExceptionReported

-----------------------------------------------------------------------------
(* Refinement.  The depth of ProgramStack is the number of programs up to  *)
(* the one on the CPU, or the one whose activation is the oldest on the    *)
(* kernel stack in use.                                                    *)

Result == IF InUser THEN eax ELSE 0
CallVars == <<Programs, InUser, Result>>

LEMMA RunningDepth ==
    ASSUME NEW n \in Pids
    PROVE  /\ frame = User(n) => InUser /\ Programs = n + 1 /\ Result = eax
           /\ (frame = User(n) => InUser /\ Programs = n + 1 /\ Result = eax)'
  <1>1. User(n).pc = "user" /\ User(n).pid = n
    BY Activated
  <1>2. frame.pc = "user" /\ frame.pid = n => InUser /\ Programs = n + 1 /\ Result = eax
    <2>1. frame.pc = "user" => Programs = frame.pid + 1
      BY DEF InUser, Programs
    <2>2. frame.pc = "user" => InUser /\ Result = eax
      BY DEF InUser, Result
    <2> QED BY <2>1, <2>2
  <1>3. frame'.pc = "user" /\ frame'.pid = n => InUser' /\ Programs' = n + 1 /\ Result' = eax'
    <2>1. frame'.pc = "user" => Programs' = frame'.pid + 1
      BY DEF InUser, Programs
    <2>2. frame'.pc = "user" => InUser' /\ Result' = eax'
      BY DEF InUser, Result
    <2> QED BY <2>1, <2>2
  <1>4. (frame = User(n))' => frame' = User(n)
    BY DEF User, Activation
  <1> QED BY <1>1, <1>2, <1>3, <1>4

LEMMA KernelDepth ==
    ASSUME NEW n \in Pids
    PROVE  /\ frame.pc \notin {"user", "wild"} /\ stack[sp][1] = User(n) =>
                ~InUser /\ Programs = n + 1 /\ Result = 0
           /\ (frame.pc \notin {"user", "wild"} /\ stack[sp][1] = User(n) =>
                ~InUser /\ Programs = n + 1 /\ Result = 0)'
  <1>1. User(n).pid = n /\ User(n) # Boot
    BY Activated
  <1>2. ASSUME frame.pc \notin {"user", "wild"}, stack[sp][1] = User(n)
        PROVE  ~InUser /\ Programs = n + 1 /\ Result = 0
    <2>1. Head(stack[sp]) = User(n)
      BY <1>2
    <2>2. ~InUser /\ Result = 0
      BY <1>2 DEF InUser, Result
    <2>3. Programs = User(n).pid + 1
      BY <1>1, <1>2, <2>1, <2>2 DEF Programs
    <2> QED BY <1>1, <2>2, <2>3
  <1>3. ASSUME frame'.pc \notin {"user", "wild"}, stack'[sp'][1] = User(n)
        PROVE  ~InUser' /\ Programs' = n + 1 /\ Result' = 0
    <2>1. Head(stack'[sp']) = User(n)
      BY <1>3
    <2>2. ~InUser' /\ Result' = 0
      BY <1>3 DEF InUser, Result
    <2>3. Programs' = User(n).pid + 1
      BY <1>1, <1>3, <2>1, <2>2 DEF Programs
    <2> QED BY <1>1, <2>2, <2>3
  <1>4. (stack[sp][1] = User(n))' => stack'[sp'][1] = User(n)
    BY DEF User, Activation
  <1> QED BY <1>2, <1>3, <1>4

LEMMA BootDepth ==
    frame.pc \notin {"user", "wild"} /\ stack[sp][1] = Boot => Programs = 0
  <1>1. Head(stack[sp]) = stack[sp][1]
    OBVIOUS
  <1> QED BY <1>1 DEF InUser, Programs

\* Kernel code that goes on with the same stack is no step of ProgramStack.
LEMMA SameDepth ==
    ASSUME UNCHANGED <<stack, sp>>, frame.pc \notin {"user", "wild"},
           frame'.pc \notin {"user", "wild"}
    PROVE  UNCHANGED CallVars
  BY DEF CallVars, Programs, InUser, Result

\* What the kernel works for where it was called by n.
LEMMA CallerDepth ==
    ASSUME NEW n \in Pids, CalledBy(n), frame.pc \notin {"user", "wild"}
    PROVE  ~InUser /\ Programs = n + 1 /\ Result = 0
  <1>1. sp = n /\ stack[n] = <<User(n)>>
    BY DEF CalledBy, Pids
  <1>2. stack[sp][1] = User(n)
    BY <1>1, Activated, OneElement
  <1> QED BY <1>2, KernelDepth

LEMMA InitCalls == Init => Calls!Init
  <1> SUFFICES ASSUME Init PROVE Calls!Init
    OBVIOUS
  <1>1. 0 \in Pids
    BY ProcessAssumption DEF Pids
  <1>2. frame.pc = "exec_check" /\ sp = 0 /\ stack[0] = <<Boot>>
    BY <1>1 DEF Init, Kernel, Activation
  <1>3. stack[sp][1] = Boot
    BY <1>1, <1>2, Activated, OneElement
  <1>4. Programs = 0 /\ ~InUser
    BY <1>2, <1>3, BootDepth DEF InUser
  <1> QED BY <1>4 DEF Calls!Init

\* A call or key while a program runs, or Ctrl+C in a read.
LEMMA EntryCalls == ASSUME OneScreen, IInv, UserCall \/ Key PROVE [Calls!Next]_CallVars
  <1>1. CASE frame.pc = "user"
    <2>1. PICK n \in Pids : frame = User(n) /\ process_total = n + 1 /\ Globals(n)
      BY <1>1, AtUser DEF InUser
    <2>2. PICK handler : Enter(handler) /\ handler.pc \in {"exec_check", "read", "halt_begin"}
      <3>1. /\ Kernel("exec_check", TRUE).pc = "exec_check" /\ Kernel("read", TRUE).pc = "read"
            /\ Halting("exit", TRUE).pc = "halt_begin"
            /\ Halting("exception", FALSE).pc = "halt_begin"
            /\ Halting("ctrlC", FALSE).pc = "halt_begin"
        BY DEF Kernel, Halting, Activation
      <3>2. CASE UserCall
        <4>1. process_total - 1 \in Pids
          BY <2>1 DEF Pids
        <4>2. \/ Enter(Kernel("exec_check", TRUE)) \/ Enter(Kernel("read", TRUE))
              \/ Enter(Halting("exit", TRUE)) \/ Enter(Halting("exception", FALSE))
          BY <3>2, <4>1 DEF UserCall, Execute, Exit, Exception, Read, Mapped
        <4> QED BY <3>1, <4>2
      <3>3. CASE Key
        <4>1. CtrlC
          BY <3>3 DEF Key, AltF, OneScreen, IInv, StackInv, StackAt
        <4> QED BY <3>1, <4>1 DEF CtrlC
      <3> QED BY <3>2, <3>3
    <2>3. /\ stack' = [stack EXCEPT ![n] = <<User(n)>>]
          /\ sp' = n /\ frame' = handler
      BY <2>1, <2>2, EntersFromUser DEF IInv, Globals
    <2>4. frame'.pc \notin {"user", "wild"} /\ stack'[sp'][1] = User(n)
      BY <2>2, <2>3, Activated, OneElement DEF IInv, TypeInv, RunTyped
    <2>5. /\ InUser /\ Programs = n + 1
          /\ ~InUser' /\ Programs' = n + 1 /\ Result' = 0
      BY <2>1, <2>4, RunningDepth, KernelDepth
    <2>6. Calls!Call
      BY <2>5 DEF Calls!Call, Result
    <2> QED BY <2>6 DEF Calls!Next
  <1>2. CASE frame.pc # "user"
    <2>1. frame.pc = "read" /\ Enter(Halting("ctrlC", FALSE))
      <3>1. ~(midKernel < MaxMidKernel)
        BY DEF OneScreen, IInv, TypeInv, GlobalsTyped
      <3>2. CtrlC
        BY <1>2 DEF UserCall, Execute, Exit, Exception, Read, Key, AltF, OneScreen, IInv, StackInv,
                    StackAt
      <3> QED BY <1>2, <3>1, <3>2 DEF CtrlC, KeyArrives
    <2>2. PICK n \in Pids : CalledBy(n) /\ sp = n /\ stack[n] = <<User(n)>>
      BY <2>1 DEF IInv, StackInv, StackAt, Reads, CalledBy, Pids
    <2>3. frame \in Activations /\ User(n) \in Activations
      BY Activated DEF IInv, TypeInv, RunTyped
    <2>4. Append(<<User(n)>>, frame) = <<User(n), frame>> /\ <<User(n), frame>>[1] = User(n)
      BY <2>3, TwoElements
    <2>5. stack'[sp'][1] = User(n) /\ frame' = Halting("ctrlC", FALSE)
      BY <2>1, <2>2, <2>4 DEF Enter, IInv, TypeInv, RunTyped
    <2>6. Halting("ctrlC", FALSE).pc = "halt_begin"
      BY DEF Halting, Activation
    <2>7. /\ ~InUser /\ Programs = n + 1 /\ Result = 0
          /\ ~InUser' /\ Programs' = n + 1 /\ Result' = 0
      BY <2>1, <2>2, <2>5, <2>6, CallerDepth, KernelDepth
    <2> QED BY <2>7 DEF CallVars, InUser
  <1> QED BY <1>1, <1>2

LEMMA ReadDoneCalls == ASSUME IInv, ReadDone PROVE Calls!Next
  <1>1. PICK n \in Pids : CalledBy(n) /\ eax = 0
    BY DEF ReadDone, IInv, StackInv, StackAt, Reads, Pids
  <1>2. frame' = User(n) /\ eax' = eax
    BY <1>1, ReturnsToProgram DEF ReadDone, IInv
  <1>3. /\ ~InUser /\ Programs = n + 1
        /\ InUser' /\ Programs' = n + 1 /\ Result' = 0
    BY <1>1, <1>2, CallerDepth, RunningDepth DEF ReadDone
  <1>4. Calls!Resume
    BY <1>3 DEF Calls!Resume, Calls!Answer, Result, Pids
  <1> QED BY <1>4 DEF Calls!Next

LEMMA ExecCheckCalls == ASSUME IInv, ExecCheck PROVE [Calls!Next]_CallVars
  <1>1. PICK n \in -1 .. MaxProcs - 1 : n = Subject /\ CalledBy(n)
    BY DEF ExecCheck, IInv, StackInv, StackAt, Executes, Started, ExecPcs
  <1>2. frame.pc = "exec_check" /\ process_total = n + 1
    BY <1>1 DEF ExecCheck, Subject, ExecCounted, Started, HaltCounted, IInv, TypeInv, GlobalsTyped
  <1>3. CASE /\ Return
             /\ \/ Last(stack[sp]).pc = "user" /\ eax' = -1
                \/ process_total = MaxProcs /\ eax' = 10
    <2>1. n \in Pids
      <3>1. CASE process_total = MaxProcs
        BY <1>2, <3>1, ProcessAssumption DEF Pids
      <3>2. CASE Last(stack[sp]).pc = "user"
        BY <1>1, <3>2 DEF CalledBy, Pids
      <3> QED BY <1>3, <3>1, <3>2
    <2>2. frame' = User(n)
      BY <1>1, <1>3, <2>1, ReturnsToProgram DEF IInv
    <2>3. /\ ~InUser /\ Programs = n + 1
          /\ InUser' /\ Programs' = n + 1 /\ Result' = eax'
      BY <1>1, <1>2, <2>1, <2>2, CallerDepth, RunningDepth
    <2>4. Calls!Refuse
      BY <1>2, <1>3, <2>1, <2>3 DEF Calls!Refuse, Calls!Answer, Result, Pids
    <2> QED BY <2>4 DEF Calls!Next
  <1>4. CASE Goto("exec_inc")
    <2>1. frame'.pc = "exec_inc" /\ UNCHANGED <<stack, sp>>
      BY <1>4 DEF Goto, IInv, TypeInv, RunTyped, Activations
    <2> QED BY <1>2, <2>1, SameDepth
  <1> QED BY <1>3, <1>4 DEF ExecCheck

LEMMA ExecStepCalls ==
    ASSUME IInv, ExecInc \/ ExecMap \/ ExecPcb \/ ExecCurrent \/ ExecSave \/ ExecFlag
    PROVE  UNCHANGED CallVars
  <1>1. CASE ExecInc \/ ExecMap \/ ExecCurrent \/ ExecSave \/ ExecFlag
    <2>1. frame.pc \notin {"user", "wild"} /\ frame'.pc \notin {"user", "wild"}
      BY <1>1
      DEF ExecInc, ExecMap, ExecCurrent, ExecSave, ExecFlag, Goto, IInv, TypeInv, RunTyped,
          Activations
    <2> QED BY <1>1, <2>1, SameDepth
        DEF ExecInc, ExecMap, ExecCurrent, ExecSave, ExecFlag, Goto
  <1>2. CASE ExecPcb
    <2>1. PICK n \in -1 .. MaxProcs - 1 : n = Subject /\ n + 1 \in Pids
      BY <1>2 DEF ExecPcb, IInv, StackInv, StackAt, Executes, Started, ExecPcs
    <2>2. process_total - 1 = n + 1
      BY <1>2, <2>1 DEF ExecPcb, Subject, ExecCounted, Started, IInv, TypeInv, GlobalsTyped
    <2>3. /\ frame.pc = "exec_pcb" /\ UNCHANGED <<stack, sp>>
          /\ frame' = [frame EXCEPT !.pc = "exec_current", !.pid = n + 1]
      BY <1>2, <2>1, <2>2 DEF ExecPcb, Mapped
    <2>4. frame'.pc = "exec_current"
      BY <2>3 DEF IInv, TypeInv, RunTyped, Activations
    <2> QED BY <2>3, <2>4, SameDepth
  <1> QED BY <1>1, <1>2

LEMMA ExecEnterCalls == ASSUME IInv, ExecEnter PROVE Calls!Next
  <1>1. PICK n \in -1 .. MaxProcs - 1 :
          CalledBy(n) /\ n + 1 \in Pids /\ frame.pid = n + 1 /\ frame.pc = "exec_enter"
    BY DEF ExecEnter, IInv, StackInv, StackAt, Executes, Started, ExecPcs
  <1>2. frame' = User(n + 1) /\ eax' = 0
    BY <1>1 DEF ExecEnter
  <1>3. InUser' /\ Programs' = n + 2 /\ Result' = 0
    BY <1>1, <1>2, RunningDepth
  <1>4. CASE n \in Pids
    <2>1. ~InUser /\ Programs = n + 1
      BY <1>1, <1>4, CallerDepth
    <2>2. Calls!Start
      BY <1>1, <1>3, <2>1, ProcessAssumption DEF Calls!Start, Calls!Answer, Result, Pids
    <2> QED BY <2>2 DEF Calls!Next
  <1>5. CASE n \notin Pids
    <2>1. n = -1 /\ sp = 0 /\ stack[0][1] \in {Boot, User(0)} /\ 0 \in Pids
      BY <1>1, <1>5, ProcessAssumption DEF CalledBy, Pids
    <2>2. Programs' = 1 /\ ~InUser
      BY <1>1, <1>3, <2>1 DEF InUser
    <2>3. CASE stack[0][1] = Boot
      <3>1. Programs = 0
        BY <1>1, <2>1, <2>3, BootDepth
      <3>2. Calls!Start
        BY <1>3, <2>2, <3>1, ProcessAssumption DEF Calls!Start, Calls!Answer, Result
      <3> QED BY <3>2 DEF Calls!Next
    <2>4. CASE stack[0][1] = User(0)
      <3>1. Programs = 1
        BY <1>1, <2>1, <2>4, KernelDepth
      <3>2. Calls!Resume
        BY <1>3, <2>2, <3>1 DEF Calls!Resume, Calls!Answer, Result
      <3> QED BY <3>2 DEF Calls!Next
    <2> QED BY <2>1, <2>3, <2>4
  <1> QED BY <1>4, <1>5

LEMMA HaltStepCalls ==
    ASSUME IInv, HaltBegin \/ HaltTotal \/ HaltTerminal \/ HaltCurrent
    PROVE  UNCHANGED CallVars
  <1>1. CASE HaltTotal \/ HaltTerminal \/ HaltCurrent
    <2>1. frame.pc \notin {"user", "wild"} /\ frame'.pc \notin {"user", "wild"}
      BY <1>1 DEF HaltTotal, HaltTerminal, HaltCurrent, Goto, IInv, TypeInv, RunTyped, Activations
    <2> QED BY <1>1, <2>1, SameDepth DEF HaltTotal, HaltTerminal, HaltCurrent, Goto
  <1>2. CASE HaltBegin
    <2>1. current_pid \in Pids
      BY <1>2 DEF HaltBegin, IInv, StackInv, StackAt, Ends, EndPcs, Globals, Pids
    <2>2. /\ frame.pc = "halt_begin" /\ UNCHANGED <<stack, sp>>
          /\ frame' = [frame EXCEPT !.pc = "halt_total", !.pid = current_pid]
      BY <1>2, <2>1 DEF HaltBegin, Mapped
    <2>3. frame'.pc = "halt_total"
      BY <2>2 DEF IInv, TypeInv, RunTyped, Activations
    <2> QED BY <2>2, <2>3, SameDepth
  <1> QED BY <1>1, <1>2

LEMMA HaltFinishCalls == ASSUME IInv, HaltFinish PROVE [Calls!Next]_CallVars
  <1>1. PICK n \in Pids :
          /\ frame.pc = "halt_finish" /\ sp = n
          /\ stack[n] # <<>> /\ stack[n][1] = User(n)
          /\ n = 0 => Call("halt_return", Kernel("exec_check", TRUE))
          /\ n # 0 => /\ frame' = User(n - 1) /\ n - 1 \in Pids
                      /\ eax' = RealStatus(n, frame.why)
    BY Leaves
  <1>2. ~InUser /\ Programs = n + 1 /\ Result = 0
    BY <1>1, KernelDepth
  <1>3. CASE n = 0
    <2> DEFINE f == [frame EXCEPT !.pc = "halt_return"]
               s == stack[0]
    <2>1. stack' = [stack EXCEPT ![0] = Append(s, f)] /\ sp' = 0
          /\ frame' = Kernel("exec_check", TRUE)
      BY <1>1, <1>3 DEF Call
    <2>2. s \in Seq(Activations) /\ f \in Activations
      <3>1. "halt_return" \in Pcs
        BY DEF Pcs, KernelPcs, HaltPcs
      <3> QED BY <1>1, <1>3, <3>1 DEF IInv, TypeInv, RunTyped, Activations
    <2>3. Append(s, f)[1] = s[1]
      <3>1. Len(s) \in Nat /\ Len(s) >= 1
        BY <1>1, <1>3, <2>2, LenProperties, EmptySeq
      <3> QED BY <2>2, <3>1, AppendProperties
    <2>4. stack'[sp'][1] = User(n) /\ frame'.pc = "exec_check"
      <3>1. stack'[sp'] = Append(s, f)
        BY <1>1, <1>3, <2>1 DEF IInv, TypeInv, RunTyped
      <3>2. frame'.pc = "exec_check"
        BY <2>1 DEF Kernel, Activation
      <3> QED BY <1>1, <1>3, <2>3, <3>1, <3>2
    <2>5. ~InUser' /\ Programs' = n + 1 /\ Result' = 0
      BY <2>4, KernelDepth
    <2> QED BY <1>2, <2>5 DEF CallVars, InUser
  <1>4. CASE n # 0
    <2>1. RealStatus(n, frame.why) \in {0, 1, 256}
      BY DEF RealStatus
    <2>2. InUser' /\ Programs' = n - 1 + 1 /\ Result' = eax'
      BY <1>1, <1>4, RunningDepth
    <2>3. Calls!End
      BY <1>1, <1>2, <1>4, <2>1, <2>2 DEF Calls!End, Calls!Answer, Result, Pids
    <2> QED BY <2>3 DEF Calls!Next
  <1> QED BY <1>3, <1>4

(* On one terminal execute and halt are calls and returns of programs: no  *)
(* key and no exception makes the kernel lose or mix up a caller.          *)
THEOREM ProgramsAreCalls ==
    ASSUME OneScreen
    PROVE  Spec => ImplementsProgramStack
  <1>1. IInv /\ [Next]_vars => [Calls!Next]_CallVars
    <2> SUFFICES ASSUME IInv, [Next]_vars PROVE [Calls!Next]_CallVars
      OBVIOUS
    <2>1. CASE UserCall \/ Key \/ ReadDone
      BY <2>1, EntryCalls, ReadDoneCalls
    <2>2. CASE \/ ExecCheck \/ ExecInc \/ ExecMap \/ ExecPcb
               \/ ExecCurrent \/ ExecSave \/ ExecFlag \/ ExecEnter
      BY <2>2, ExecCheckCalls, ExecStepCalls, ExecEnterCalls
    <2>3. CASE HaltBegin \/ HaltTotal \/ HaltTerminal \/ HaltCurrent \/ HaltFinish
      BY <2>3, HaltStepCalls, HaltFinishCalls
    <2>4. CASE UNCHANGED vars
      BY <2>4 DEF vars, CallVars, Programs, InUser, Result
    <2> QED BY <2>1, <2>2, <2>3, <2>4, NoOtherSteps DEF Next, KernelStep
  <1>2. IInv /\ [Next]_vars => [Calls!Next]_Calls!vars
    BY <1>1 DEF CallVars, Result, Calls!vars
  <1> QED BY <1>2, InitCalls, StackInvariance, PTL DEF Spec, ImplementsProgramStack, Calls!Spec
=============================================================================
