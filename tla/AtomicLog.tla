------------------------------ MODULE AtomicLog ------------------------------
(***************************************************************************)
(* What the Datastore trait promises of push_action (datastore.rs:12-18):  *)
(* the log is one sequence that only grows at its end; a call that returns *)
(* a count has its action at that place of the log; a call that fails may  *)
(* have appended its action or may yet append it, but never does so twice. *)
(***************************************************************************)
EXTENDS Naturals, Sequences

CONSTANT Calls      \* the calls of push_action, each with an action of its own

VARIABLES
    log,            \* the actions appended so far, named by their calls
    status,         \* per call: where it is
    returned        \* per call: the count it returned, 0 before

vars == <<log, status, returned>>

InLog(c) == \E i \in 1..Len(log) : log[i] = c

Init == /\ log = <<>>
        /\ status = [c \in Calls |-> "idle"]
        /\ returned = [c \in Calls |-> 0]

Invoke(c) == /\ status[c] = "idle"
             /\ status' = [status EXCEPT ![c] = "pending"]
             /\ UNCHANGED <<log, returned>>

\* At most once, and also after the call has failed.
Commit(c) == /\ status[c] \in {"pending", "failed"}
             /\ ~InLog(c)
             /\ log' = Append(log, c)
             /\ UNCHANGED <<status, returned>>

Return(c, i) == /\ status[c] = "pending"
                /\ log[i] = c
                /\ status' = [status EXCEPT ![c] = "done"]
                /\ returned' = [returned EXCEPT ![c] = i]
                /\ UNCHANGED log

Fail(c) == /\ status[c] = "pending"
           /\ status' = [status EXCEPT ![c] = "failed"]
           /\ UNCHANGED <<log, returned>>

Next == \E c \in Calls :
            \/ Invoke(c) \/ Commit(c) \/ Fail(c)
            \/ \E i \in 1..Len(log) : Return(c, i)

Spec == Init /\ [][Next]_vars
=============================================================================
