-------------------------------- MODULE Server --------------------------------
(***************************************************************************)
(* The server (be/server/src/main.rs): the action methods and get_game,    *)
(* over the shared log and the game logic.                                 *)
(*                                                                         *)
(* No call keeps state on the server.  An action is pushed to the log; its *)
(* answer is found by replaying the log from its beginning (state_stream)  *)
(* and taking the response at the place push_action returned.  A query     *)
(* replays the log likewise, and goes on with every action that is added,  *)
(* each time with a new view of the game it asks for.                      *)
(*                                                                         *)
(* The log is AtomicLog, which ActionLog implements.  The stream a replay  *)
(* reads gives the log's actions in order (LogWatch!DeliversPrefix).       *)
(* Any number of server instances: all they share is the log.              *)
(***************************************************************************)
EXTENDS GameLogic

CONSTANTS
    Actions,        \* the calls of the action methods
    RequestOf,      \* the request of each
    Queries,        \* the calls of get_game
    GameAsked,      \* the game each of them asks for
    PlayerAsking    \* and the player

ASSUME CallsAssumption ==
    /\ RequestOf \in [Actions -> ActionRequest]
    /\ GameAsked \in [Queries -> GameIds]
    /\ PlayerAsking \in [Queries -> PlayerIds]
    /\ Actions \cap Queries = {}

Calls == Actions \cup Queries

VARIABLES
    log, status, returned,  \* the log, and push_action of each action: AtomicLog
    pc,             \* per call: the await it is at, or how it ended
    pos,            \* per call: actions of the log its state_stream has folded
    folded,         \* per call: Option<State>, the state of its state_stream
    error_passed,   \* per call: end_after_error has passed an error on
    answer,         \* per action: the response it was answered with
    view,           \* per query: the last response it sent
    states          \* history: the state the first n - 1 actions leave, at n

logVars == <<log, status, returned, states>>

vars == <<log, status, returned, pc, pos, folded, error_passed, answer, view, states>>

Log == INSTANCE AtomicLog WITH Calls <- Actions

NoAnswer == <<>>

Init == /\ Log!Init
        /\ pc = [c \in Calls |-> "idle"]
        /\ pos = [c \in Calls |-> 0]
        /\ folded = [c \in Calls |-> None]
        /\ error_passed = [c \in Calls |-> FALSE]
        /\ answer = [c \in Actions |-> NoAnswer]
        /\ view = [c \in Queries |-> NoAnswer]
        /\ states = <<None>>

-----------------------------------------------------------------------------
\* The stream of a call that ends is dropped, and its local state with it.
Ends(c, how) ==
    /\ pc' = [pc EXCEPT ![c] = how]
    /\ pos' = [pos EXCEPT ![c] = 0]
    /\ folded' = [folded EXCEPT ![c] = None]
    /\ error_passed' = [error_passed EXCEPT ![c] = FALSE]

\* handle_action calls push_action; handle_query goes straight to state_stream.
InvokeAction(c) ==
    /\ pc[c] = "idle" /\ Log!Invoke(c)
    /\ pc' = [pc EXCEPT ![c] = "push"]
    /\ UNCHANGED <<states, pos, folded, error_passed, answer, view>>

InvokeQuery(q) ==
    /\ pc[q] = "idle"
    /\ pc' = [pc EXCEPT ![q] = "fold"]
    /\ UNCHANGED <<logVars, pos, folded, error_passed, answer, view>>

\* The datastore appends the action, when it likes.
CommitAction(c) ==
    /\ Log!Commit(c)
    /\ states' = Append(states, NextState(states[Len(states)], RequestOf[c]))
    /\ UNCHANGED <<pc, pos, folded, error_passed, answer, view>>

\* push_action returns the action's count; state_stream starts its replay, from
\* no state.
Pushed(c, i) ==
    /\ pc[c] = "push" /\ Log!Return(c, i)
    /\ pc' = [pc EXCEPT ![c] = "fold"]
    /\ UNCHANGED <<states, pos, folded, error_passed, answer, view>>

PushFails(c) ==
    /\ pc[c] = "push" /\ Log!Fail(c)
    /\ Ends(c, "failed")
    /\ UNCHANGED <<states, answer, view>>

\* The next action of the log arrives, and fold_state runs it.
CanFold(c) == pc[c] = "fold" /\ pos[c] < Len(log) /\ ~error_passed[c]

CurrentRequest(c) == RequestOf[log[pos[c] + 1]]

Response(c) ==
    <<CurrentRequest(c).method, HandleAction(folded[c], CurrentRequest(c)).error>>

\* (Faulty variant: the state of the response alone, without the `or`, so that
\* an action that is refused leaves no state.)
FoldOneWithoutOr(c) ==
    /\ CanFold(c)
    /\ pos' = [pos EXCEPT ![c] = @ + 1]
    /\ folded' = [folded EXCEPT ![c] = HandleAction(@, CurrentRequest(c)).state]
    /\ UNCHANGED <<pc, error_passed>>

FoldOne(c) == /\ CanFold(c)
              /\ pos' = [pos EXCEPT ![c] = @ + 1]
              /\ folded' = [folded EXCEPT ![c] = NextState(@, CurrentRequest(c))]
              /\ UNCHANGED <<pc, error_passed>>

\* (Faulty variant: skip(count).)
SkipTheCount(c) == /\ pos[c] < returned[c]
                   /\ FoldOne(c)
                   /\ UNCHANGED <<logVars, answer, view>>

\* The responses before the action's own are skipped: skip(count - 1).
Skip(c) == /\ pos[c] < returned[c] - 1
           /\ FoldOne(c)
           /\ UNCHANGED <<logVars, answer, view>>

\* (Faulty variant: the response after the action's own is awaited.)
TakeNext(c) == /\ CanFold(c)
               /\ pos[c] >= returned[c]
               /\ answer' = [answer EXCEPT ![c] = Response(c)]
               /\ Ends(c, "done")
               /\ UNCHANGED <<logVars, view>>

\* The next response is the answer: take(1).
Take(c) == /\ CanFold(c)
           /\ pos[c] >= returned[c] - 1
           /\ answer' = [answer EXCEPT ![c] = Response(c)]
           /\ Ends(c, "done")
           /\ UNCHANGED <<logVars, view>>

\* (Faulty variant: a query is answered once.)
ShowViewOnce(q) ==
    /\ view[q] = NoAnswer
    /\ FoldOne(q)
    /\ view' = [view EXCEPT ![q] = GetGame(folded'[q], GameAsked[q], PlayerAsking[q])]
    /\ UNCHANGED <<logVars, answer>>

\* A query runs its request on each state and sends the view.
ShowView(q) ==
    /\ FoldOne(q)
    /\ view' = [view EXCEPT ![q] = GetGame(folded'[q], GameAsked[q], PlayerAsking[q])]
    /\ UNCHANGED <<logVars, answer>>

\* fold_state fails (the module of the version is missing or cannot be read,
\* wasm traps): state_stream yields the error and is left without a state.
\* handle_action drops the error and polls for the next item.
FoldFails(c) ==
    /\ CanFold(c)
    /\ pos' = [pos EXCEPT ![c] = @ + 1]
    /\ folded' = [folded EXCEPT ![c] = None]
    /\ error_passed' = [error_passed EXCEPT ![c] = TRUE]
    /\ UNCHANGED <<logVars, pc, answer, view>>

\* An error of the log stream: state_stream yields it and keeps its state.
\* handle_action drops this error, too, and polls for the next item.
LogFails(c) ==
    /\ pc[c] = "fold" /\ ~error_passed[c]
    /\ error_passed' = [error_passed EXCEPT ![c] = TRUE]
    /\ UNCHANGED <<logVars, pc, pos, folded, answer, view>>

\* The item after an error: take_while ends the stream there, and handle_action
\* fails with "state stream ended early".  (If the log stream ends instead, so
\* does the call: Fail.)
EndAfterError(c) ==
    /\ pc[c] = "fold" /\ error_passed[c] /\ pos[c] < Len(log)
    /\ Ends(c, "failed")
    /\ UNCHANGED <<logVars, answer, view>>

\* watch_log fails; the log stream ends; an error of any kind under a query,
\* which sends it as its status; or the call is dropped: its client or its server
\* instance is gone.
Fail(c) ==
    /\ pc[c] = "fold"
    /\ Ends(c, "failed")
    /\ UNCHANGED <<logVars, answer, view>>

Next == \/ \E c \in Actions :
              \/ InvokeAction(c) \/ CommitAction(c) \/ PushFails(c)
              \/ \E i \in 1..Len(log) : Pushed(c, i)
              \/ Skip(c) \/ Take(c) \/ FoldFails(c) \/ LogFails(c) \/ EndAfterError(c)
        \/ \E q \in Queries : InvokeQuery(q) \/ ShowView(q)
        \/ \E c \in Calls : Fail(c)

Spec == Init /\ [][Next]_vars

(* Fairness: the runtime polls every task that can go on.  push_action     *)
(* returns (ActionLog!PushReturns), and an action of the log reaches every *)
(* stream (LogWatch!CatchesUp).  No client has to call, and nothing has to *)
(* fail.                                                                   *)
Fairness ==
    /\ \A c \in Actions : /\ WF_vars(pc[c] = "push" /\ CommitAction(c))
                          /\ WF_vars(\E i \in 1..Len(log) : Pushed(c, i))
                          /\ WF_vars(Skip(c) \/ Take(c) \/ EndAfterError(c))
    /\ \A q \in Queries : WF_vars(ShowView(q))

FairSpec == Spec /\ Fairness

-----------------------------------------------------------------------------
TypeOK ==
    /\ log \in Seq(Actions)
    /\ status \in [Actions -> {"idle", "pending", "done", "failed"}]
    /\ returned \in [Actions -> Nat]
    /\ pc \in [Calls -> {"idle", "push", "fold", "done", "failed"}]
    /\ pos \in [Calls -> 0..Len(log)]
    /\ \A c \in Calls : folded[c] \in OptionState
    /\ error_passed \in [Calls -> BOOLEAN]
    /\ \A c \in Actions :
          answer[c] = NoAnswer \/ answer[c] \in {RequestOf[c].method} \X (Errors \cup {None})

\* The state that the first n actions of the log leave.
StateAfter(n) == states[n + 1]

\* What a query shows is what get_game says of the games after a prefix of the
\* log, the one it has replayed: an error on the way (main.rs:133) or an action
\* that changes nothing (main.rs:92) never shows it a state that was not.
ViewIsOfThePrefix ==
    \A q \in Queries : pc[q] = "fold" /\ pos[q] > 0 =>
        /\ pos[q] <= Len(log)
        /\ view[q] = GetGame(StateAfter(pos[q]), GameAsked[q], PlayerAsking[q])

(* Server implements ClientService: an action takes effect when the log    *)
(* gets it, with the answer the rules give on the state of the log before. *)
abstractStatus ==
    [c \in Actions |-> IF pc[c] \in {"push", "fold"} THEN "pending" ELSE pc[c]]

abstractEffect ==
    [c \in Actions |->
        IF Log!InLog(c)
        THEN LET i == CHOOSE j \in 1..Len(log) : log[j] = c
             IN  <<RequestOf[c].method, HandleAction(StateAfter(i - 1), RequestOf[c]).error>>
        ELSE NoAnswer]

Service == INSTANCE ClientService WITH
    Calls <- Actions, state <- StateAfter(Len(log)),
    status <- abstractStatus, effect <- abstractEffect

\* Every client is answered as by one service that handles the actions one at a
\* time: the response a replay picks (main.rs:162-191) is the response to the
\* caller's own action, in the state all the actions before it left.
ImplementsClientService == Service!Spec

\* An action that is called is answered, unless it fails or its replay met an
\* error (and then waits, see StreamEndsAfterError).
Answered ==
    \A c \in Actions :
        pc[c] = "push" ~> pc[c] \in {"done", "failed"} \/ error_passed[c]

\* A query that nothing ends comes to show the games as they are, each time the
\* log has grown.
QueriesCatchUp ==
    \A q \in Queries :
        []<>(\/ pc[q] \in {"idle", "failed"}
             \/ /\ pos[q] = Len(log)
                /\ log # <<>> =>
                     view[q] = GetGame(StateAfter(Len(log)), GameAsked[q], PlayerAsking[q]))

\* What end_after_error is for, and the message "state stream ended early"
\* (main.rs:184) expects: a stream that has yielded an error ends, and the call
\* fails.
StreamEndsAfterError ==
    \A c \in Calls : error_passed[c] ~> pc[c] # "fold"
=============================================================================
