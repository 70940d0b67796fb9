----------------------------- MODULE FileTables -----------------------------
(***************************************************************************)
(* What the kernel promises about descriptors on one terminal: every       *)
(* program that was started and has not ended has a table of its own,      *)
(* which begins empty and which only the program itself changes while it   *)
(* is the one that runs.                                                   *)
(***************************************************************************)
EXTENDS Integers, Sequences

CONSTANTS Fds, Types, Limit

VARIABLE tables    \* the tables of the programs, the running one last

NoFile == "free"
EmptyTable == [fd \in Fds |-> NoFile]
Running == tables[Len(tables)]

Init == tables = <<EmptyTable>>

Start == Len(tables) < Limit /\ tables' = Append(tables, EmptyTable)

\* The program that ends takes its table with it; the shell starts over.
End ==
    \/ Len(tables) > 1 /\ tables' = [p \in 1 .. Len(tables) - 1 |-> tables[p]]
    \/ Len(tables) = 1 /\ tables' = <<EmptyTable>>

Set(fd, type) ==
    tables' = [tables EXCEPT ![Len(tables)] = [Running EXCEPT ![fd] = type]]

Open(fd, type) ==
    /\ Running[fd] = NoFile
    /\ \A lower \in Fds : lower < fd => Running[lower] # NoFile
    /\ Set(fd, type)

Close(fd) == Set(fd, NoFile)

Next == \/ Start
        \/ End
        \/ \E fd \in Fds : Close(fd) \/ \E type \in Types : Open(fd, type)

Spec == Init /\ [][Next]_tables
=============================================================================
