---------------------------- MODULE ClientService ----------------------------
(***************************************************************************)
(* What a client of the server sees (the Pictophone service of v0_1.proto):*)
(* a call of one of the four action methods takes effect on the games at   *)
(* one instant between its start and its answer, and its answer is the one *)
(* the rules give at that instant.  A call that fails may have taken       *)
(* effect, or may yet do so, but not twice.                                *)
(***************************************************************************)
EXTENDS GameLogic

CONSTANTS
    Calls,          \* the calls of the action methods
    RequestOf       \* the request of each

VARIABLES
    state,          \* Option<State>
    status,         \* per call: where it is
    effect,         \* per call: the answer it was given, or NoAnswer
    answer          \* per call: the answer the client has, or NoAnswer

vars == <<state, status, effect, answer>>

\* An answer: of the method that was called, with an error or with None.
AnswerOf(st, request) ==
    <<request.method, HandleAction(st, request).error>>

NoAnswer == <<>>

Init == /\ state = None
        /\ status = [c \in Calls |-> "idle"]
        /\ effect = [c \in Calls |-> NoAnswer]
        /\ answer = [c \in Calls |-> NoAnswer]

Invoke(c) == /\ status[c] = "idle"
             /\ status' = [status EXCEPT ![c] = "pending"]
             /\ UNCHANGED <<state, effect, answer>>

TakeEffect(c) ==
    /\ status[c] \in {"pending", "failed"}
    /\ effect[c] = NoAnswer
    /\ state' = NextState(state, RequestOf[c])
    /\ effect' = [effect EXCEPT ![c] = AnswerOf(state, RequestOf[c])]
    /\ UNCHANGED <<status, answer>>

Reply(c) == /\ status[c] = "pending"
            /\ status' = [status EXCEPT ![c] = "done"]
            /\ effect[c] # NoAnswer
            /\ answer' = [answer EXCEPT ![c] = effect[c]]
            /\ UNCHANGED <<state, effect>>

Fail(c) == /\ status[c] = "pending"
           /\ status' = [status EXCEPT ![c] = "failed"]
           /\ UNCHANGED <<state, effect, answer>>

Next == \E c \in Calls : Invoke(c) \/ TakeEffect(c) \/ Reply(c) \/ Fail(c)

Spec == Init /\ [][Next]_vars
=============================================================================
