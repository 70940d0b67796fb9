---------------------------- MODULE ProgramStack ----------------------------
(***************************************************************************)
(* What execute and halt promise on one terminal: programs are called like *)
(* functions.  A program starts another and waits for it, at most Limit    *)
(* deep; the end of a program resumes the one that started it, with a      *)
(* status; the first one, the shell, is replaced when it ends.             *)
(***************************************************************************)
EXTENDS Integers

CONSTANT Limit

VARIABLES
    depth,    \* how many programs were started and have not ended
    running,  \* the last of them is running, not the kernel
    result    \* what the kernel's last answer to it was

vars == <<depth, running, result>>

Init == depth = 0 /\ running = FALSE /\ result = 0

Answer(d, r) == ~running /\ running' = TRUE /\ depth' = d /\ result' = r

\* A system call, an exception or Ctrl+C.
Call == running /\ running' = FALSE /\ result' = 0 /\ UNCHANGED depth

Start == depth < Limit /\ Answer(depth + 1, 0)

\* -1: no such program; 10: there are Limit programs already.
Refuse ==
    /\ depth > 0
    /\ \/ Answer(depth, -1)
       \/ depth = Limit /\ Answer(depth, 10)

\* 0 to 255 is the program's own status, 256 stands for an exception.
End == depth > 1 /\ \E status \in {0, 1, 256} : Answer(depth - 1, status)

\* A read that is done, or the new shell in place of the one that ended.
Resume == depth > 0 /\ Answer(depth, 0)

Next == Call \/ Start \/ Refuse \/ End \/ Resume

Spec == Init /\ [][Next]_vars
=============================================================================
