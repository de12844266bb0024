----------------------------- MODULE ServerProofs -----------------------------
(***************************************************************************)
(* Proofs about Server, for any sets of games, players and calls.          *)
(*                                                                         *)
(* The inductive invariant says that the history variable is what a replay *)
(* of the log computes, that the state a stream holds is that of a prefix  *)
(* of the log (until an error is passed on), and that an action whose push *)
(* has returned has its own action at the count it was given, and has not  *)
(* folded it yet.                                                          *)
(***************************************************************************)
EXTENDS Server, GameLogicProofs

\* What TypeOK says of the values, of the functions.
FunctionsOK == /\ folded \in [Calls -> OptionState]
               /\ DOMAIN answer = Actions
               /\ DOMAIN view = Queries

\* AtomicLog!Commit appends the action of a call at most once.
LogOnce == \A i, j \in 1..Len(log) : log[i] = log[j] => i = j

\* The history is the replay of the log.
StatesAreReplays ==
    /\ states \in Seq(OptionState) /\ Len(states) = Len(log) + 1
    /\ StateAfter(0) = None
    /\ \A n \in 1..Len(log) : StateAfter(n) = NextState(StateAfter(n - 1), RequestOf[log[n]])

\* What the await a call is at says of its push.
PcAgreesWithStatus ==
    \A c \in Actions : /\ status[c] = "idle" <=> pc[c] = "idle"
                       /\ status[c] = "pending" <=> pc[c] = "push"
                       /\ status[c] = "failed" => pc[c] = "failed"

ReturnedIsOwnPlace ==
    \A c \in Actions : status[c] = "done" =>
        returned[c] \in 1..Len(log) /\ log[returned[c]] = c

\* A stream that has passed no error on holds the state of the prefix it read.
FoldedIsOfThePrefix ==
    \A c \in Calls : ~error_passed[c] => folded[c] = StateAfter(pos[c])

NothingFoldedYet ==
    \A c \in Calls : pc[c] \in {"idle", "push"} => pos[c] = 0

\* The response to the call's own action is still to come.
OwnPlaceAhead ==
    \A c \in Actions : pc[c] = "fold" /\ ~error_passed[c] => pos[c] < returned[c]

IInv == /\ TypeOK
        /\ FunctionsOK
        /\ LogOnce
        /\ StatesAreReplays
        /\ PcAgreesWithStatus
        /\ ReturnedIsOwnPlace
        /\ FoldedIsOfThePrefix
        /\ NothingFoldedYet
        /\ OwnPlaceAhead
        /\ ViewIsOfThePrefix

-----------------------------------------------------------------------------
LEMMA InitIInv == Init => IInv
<1>. SUFFICES ASSUME Init
              PROVE  IInv
  OBVIOUS
<1>. USE DEF Init, Log!Init
<1>1. None \in OptionState /\ <<None>> \in Seq(OptionState)
  BY DEF OptionState
<1>2. TypeOK /\ FunctionsOK
  BY <1>1 DEF TypeOK, FunctionsOK, Calls
<1>3. LogOnce /\ StatesAreReplays
  BY <1>1 DEF LogOnce, StatesAreReplays, StateAfter
<1>4. PcAgreesWithStatus /\ ReturnedIsOwnPlace /\ OwnPlaceAhead
  BY DEF PcAgreesWithStatus, ReturnedIsOwnPlace, OwnPlaceAhead, Calls
<1>5. FoldedIsOfThePrefix /\ NothingFoldedYet /\ ViewIsOfThePrefix
  BY DEF FoldedIsOfThePrefix, NothingFoldedYet, ViewIsOfThePrefix, StateAfter, Calls
<1>. QED
  BY <1>2, <1>3, <1>4, <1>5 DEF IInv

LEMMA RequestType ==
    ASSUME NEW c \in Actions
    PROVE  RequestOf[c] \in ActionRequest
BY CallsAssumption

\* The next action of a stream's log, and the state it leaves.
LEMMA FoldsTheLog ==
    ASSUME IInv, NEW c \in Calls, CanFold(c)
    PROVE  /\ pos[c] \in Nat /\ pos[c] + 1 \in 1..Len(log)
           /\ log[pos[c] + 1] \in Actions
           /\ folded[c] = StateAfter(pos[c])
           /\ folded[c] \in OptionState
           /\ CurrentRequest(c) \in ActionRequest
           /\ NextState(folded[c], CurrentRequest(c)) = StateAfter(pos[c] + 1)
           /\ NextState(folded[c], CurrentRequest(c)) \in OptionState
<1>1. log \in Seq(Actions) /\ Len(log) \in Nat /\ pos[c] \in Nat /\ pos[c] < Len(log)
  BY LenProperties DEF IInv, TypeOK, CanFold
<1>2. pos[c] + 1 \in 1..Len(log)
  BY <1>1
<1>3. log[pos[c] + 1] \in Actions
  BY <1>1, <1>2, ElementOfSeq
<1>4. folded[c] = StateAfter(pos[c]) /\ folded[c] \in OptionState
  BY DEF IInv, TypeOK, FoldedIsOfThePrefix, CanFold
<1>5. CurrentRequest(c) = RequestOf[log[pos[c] + 1]] /\ CurrentRequest(c) \in ActionRequest
  BY <1>3, RequestType DEF CurrentRequest
<1>6. (pos[c] + 1) - 1 = pos[c]
  BY <1>1
<1>7. StateAfter(pos[c] + 1) = NextState(StateAfter(pos[c]), RequestOf[log[pos[c] + 1]])
  BY <1>2, <1>6 DEF IInv, StatesAreReplays
<1>. QED
  BY <1>1, <1>2, <1>3, <1>4, <1>5, <1>7, NextStateType

\* The response that is taken is the one to the call's own action.
LEMMA TakesItsOwn ==
    ASSUME IInv, NEW c \in Actions, Take(c)
    PROVE  /\ pos[c] + 1 = returned[c]
           /\ log[pos[c] + 1] = c
           /\ CurrentRequest(c) = RequestOf[c]
           /\ Response(c) \in {RequestOf[c].method} \X (Errors \cup {None})
<1>1. c \in Calls /\ CanFold(c) /\ pc[c] = "fold" /\ ~error_passed[c]
  BY DEF Calls, Take, CanFold
<1>2. status[c] = "done"
  BY <1>1 DEF IInv, TypeOK, PcAgreesWithStatus
<1>3. returned[c] \in 1..Len(log) /\ log[returned[c]] = c
  BY <1>2 DEF IInv, ReturnedIsOwnPlace
<1>4. pos[c] < returned[c] /\ pos[c] >= returned[c] - 1
  BY <1>1 DEF IInv, OwnPlaceAhead, Take
<1>5. pos[c] \in Nat /\ returned[c] \in Nat /\ folded[c] \in OptionState
  BY <1>1 DEF IInv, TypeOK
<1>6. pos[c] + 1 = returned[c]
  BY <1>4, <1>5
<1>7. CurrentRequest(c) = RequestOf[c]
  BY <1>3, <1>6 DEF CurrentRequest
<1>8. HandleAction(folded[c], RequestOf[c]).error \in Errors \cup {None}
  BY <1>5, RequestType, HandleActionType
<1>. QED
  BY <1>3, <1>6, <1>7, <1>8 DEF Response

-----------------------------------------------------------------------------
\* What the log and the history keep in a step that does not write them.
LEMMA LogKept ==
    ASSUME IInv, UNCHANGED <<log, states>>
    PROVE  LogOnce' /\ StatesAreReplays' /\ \A n : StateAfter(n)' = StateAfter(n)
BY DEF IInv, LogOnce, StatesAreReplays, StateAfter

LEMMA InvokeStep ==
    ASSUME IInv, NEW c \in Calls, (c \in Actions /\ InvokeAction(c)) \/ (c \in Queries /\ InvokeQuery(c))
    PROVE  IInv'
<1>1. /\ UNCHANGED <<log, states, returned, pos, folded, error_passed, answer, view>>
      /\ pc[c] = "idle"
      /\ \/ c \in Actions /\ pc' = [pc EXCEPT ![c] = "push"] /\ status' = [status EXCEPT ![c] = "pending"]
         \/ c \in Queries /\ pc' = [pc EXCEPT ![c] = "fold"] /\ status' = status
  BY DEF InvokeAction, InvokeQuery, Log!Invoke, logVars
<1>2. LogOnce' /\ StatesAreReplays' /\ \A n : StateAfter(n)' = StateAfter(n)
  BY <1>1, LogKept
<1>3. c \in Queries => c \notin Actions
  BY CallsAssumption
<1>4. pos[c] = 0
  BY <1>1 DEF IInv, NothingFoldedYet
<1>5. TypeOK' /\ FunctionsOK'
  BY <1>1 DEF IInv, TypeOK, FunctionsOK, Calls
<1>6. PcAgreesWithStatus' /\ ReturnedIsOwnPlace' /\ OwnPlaceAhead'
  <2>1. PcAgreesWithStatus'
    BY <1>1, <1>3 DEF IInv, TypeOK, Calls, PcAgreesWithStatus
  <2>2. ReturnedIsOwnPlace'
    BY <1>1, <1>3 DEF IInv, TypeOK, ReturnedIsOwnPlace
  <2>3. OwnPlaceAhead'
    BY <1>1, <1>3 DEF IInv, TypeOK, Calls, OwnPlaceAhead
  <2>. QED
    BY <2>1, <2>2, <2>3
<1>7. FoldedIsOfThePrefix' /\ NothingFoldedYet'
  BY <1>1, <1>2, <1>4 DEF IInv, TypeOK, FoldedIsOfThePrefix, NothingFoldedYet
<1>8. ViewIsOfThePrefix'
  BY <1>1, <1>2, <1>4 DEF IInv, TypeOK, Calls, ViewIsOfThePrefix
<1>. QED
  BY <1>2, <1>5, <1>6, <1>7, <1>8 DEF IInv

LEMMA PushedStep ==
    ASSUME IInv, NEW c \in Actions, NEW i \in 1..Len(log), Pushed(c, i)
    PROVE  IInv'
<1>1. /\ UNCHANGED <<log, states, pos, folded, error_passed, answer, view>>
      /\ pc[c] = "push" /\ pc' = [pc EXCEPT ![c] = "fold"]
      /\ status' = [status EXCEPT ![c] = "done"]
      /\ log[i] = c /\ returned' = [returned EXCEPT ![c] = i]
  BY DEF Pushed, Log!Return
<1>2. LogOnce' /\ StatesAreReplays' /\ \A n : StateAfter(n)' = StateAfter(n)
  BY <1>1, LogKept
<1>3. c \in Calls /\ c \notin Queries /\ pos[c] = 0
  BY <1>1, CallsAssumption DEF Calls, IInv, NothingFoldedYet
<1>4. log \in Seq(Actions) /\ Len(log) \in Nat /\ i \in Nat /\ 0 < i
  BY LenProperties DEF IInv, TypeOK
<1>5. TypeOK' /\ FunctionsOK'
  BY <1>1, <1>3, <1>4 DEF IInv, TypeOK, FunctionsOK, Calls
<1>6. PcAgreesWithStatus' /\ ReturnedIsOwnPlace'
  <2>1. PcAgreesWithStatus'
    BY <1>1, <1>3 DEF IInv, TypeOK, Calls, PcAgreesWithStatus
  <2>2. ReturnedIsOwnPlace'
    BY <1>1 DEF IInv, TypeOK, ReturnedIsOwnPlace
  <2>. QED
    BY <2>1, <2>2
<1>7. OwnPlaceAhead'
  BY <1>1, <1>3, <1>4 DEF IInv, TypeOK, Calls, OwnPlaceAhead
<1>8. FoldedIsOfThePrefix' /\ NothingFoldedYet'
  BY <1>1, <1>2, <1>3 DEF IInv, TypeOK, FoldedIsOfThePrefix, NothingFoldedYet
<1>9. ViewIsOfThePrefix'
  BY <1>1, <1>2, <1>3 DEF IInv, TypeOK, Calls, ViewIsOfThePrefix
<1>. QED
  BY <1>2, <1>5, <1>6, <1>7, <1>8, <1>9 DEF IInv

\* The steps that end a call: its push or its stream fails, or it is answered.
LEMMA EndStep ==
    ASSUME IInv, NEW c \in Calls,
           \/ c \in Actions /\ (PushFails(c) \/ Take(c) \/ EndAfterError(c))
           \/ Fail(c)
    PROVE  IInv'
<1>1. /\ UNCHANGED <<log, states, returned, view>>
      /\ pos' = [pos EXCEPT ![c] = 0] /\ folded' = [folded EXCEPT ![c] = None]
      /\ error_passed' = [error_passed EXCEPT ![c] = FALSE]
  BY DEF PushFails, Log!Fail, Take, EndAfterError, Fail, Ends, logVars
<1>2. \/ /\ c \in Actions /\ pc[c] = "push" /\ pc' = [pc EXCEPT ![c] = "failed"]
         /\ status[c] = "pending" /\ status' = [status EXCEPT ![c] = "failed"]
      \/ /\ pc[c] = "fold" /\ status' = status
         /\ \E how \in {"failed", "done"} : pc' = [pc EXCEPT ![c] = how]
  BY DEF PushFails, Log!Fail, Take, EndAfterError, Fail, Ends, logVars, CanFold
<1>3. \/ answer' = answer
      \/ c \in Actions /\ Take(c) /\ answer' = [answer EXCEPT ![c] = Response(c)]
  BY DEF PushFails, Log!Fail, Take, EndAfterError, Fail, Ends, logVars
<1>4. LogOnce' /\ StatesAreReplays' /\ \A n : StateAfter(n)' = StateAfter(n)
  BY <1>1, LogKept
<1>5. None \in OptionState /\ Len(log) \in Nat /\ 0 \in 0..Len(log)
  BY LenProperties DEF OptionState, IInv, TypeOK
<1>6. \A d \in Actions : answer'[d] = answer[d]
                         \/ answer'[d] \in {RequestOf[d].method} \X (Errors \cup {None})
  BY <1>3, TakesItsOwn DEF IInv, FunctionsOK
<1>7. TypeOK'
  <2>1. /\ log' \in Seq(Actions)
        /\ status' \in [Actions -> {"idle", "pending", "done", "failed"}]
        /\ returned' \in [Actions -> Nat]
        /\ pc' \in [Calls -> {"idle", "push", "fold", "done", "failed"}]
    BY <1>1, <1>2 DEF IInv, TypeOK
  <2>2. /\ pos' \in [Calls -> 0..Len(log')]
        /\ \A d \in Calls : folded'[d] \in OptionState
        /\ error_passed' \in [Calls -> BOOLEAN]
    BY <1>1, <1>5 DEF IInv, TypeOK, FunctionsOK
  <2>3. \A d \in Actions : answer'[d] = NoAnswer
                           \/ answer'[d] \in {RequestOf[d].method} \X (Errors \cup {None})
    BY <1>6 DEF IInv, TypeOK
  <2>. QED
    BY <2>1, <2>2, <2>3 DEF TypeOK, NoAnswer
<1>8. FunctionsOK'
  BY <1>1, <1>3, <1>5 DEF IInv, FunctionsOK
<1>9. PcAgreesWithStatus' /\ ReturnedIsOwnPlace' /\ OwnPlaceAhead'
  <2>1. PcAgreesWithStatus'
    BY <1>2 DEF IInv, TypeOK, Calls, PcAgreesWithStatus
  <2>2. ReturnedIsOwnPlace'
    BY <1>1, <1>2 DEF IInv, TypeOK, ReturnedIsOwnPlace
  <2>3. OwnPlaceAhead'
    BY <1>1, <1>2 DEF IInv, TypeOK, Calls, OwnPlaceAhead
  <2>. QED
    BY <2>1, <2>2, <2>3
<1>10. FoldedIsOfThePrefix'
  BY <1>1, <1>4 DEF IInv, TypeOK, FunctionsOK, FoldedIsOfThePrefix, StatesAreReplays
<1>11. NothingFoldedYet'
  BY <1>1, <1>2 DEF IInv, TypeOK, NothingFoldedYet
<1>12. ViewIsOfThePrefix'
  BY <1>1, <1>2, <1>4 DEF IInv, TypeOK, Calls, ViewIsOfThePrefix
<1>. QED
  BY <1>4, <1>7, <1>8, <1>9, <1>10, <1>11, <1>12 DEF IInv

\* The steps that fold one action: the response is skipped, or the view sent.
LEMMA FoldStep ==
    ASSUME IInv, NEW c \in Calls,
           \/ c \in Actions /\ Skip(c)
           \/ c \in Queries /\ ShowView(c)
    PROVE  IInv'
<1>1. /\ UNCHANGED <<log, states, status, returned, pc, error_passed, answer>>
      /\ CanFold(c)
      /\ pos' = [pos EXCEPT ![c] = @ + 1]
      /\ folded' = [folded EXCEPT ![c] = NextState(@, CurrentRequest(c))]
      /\ \/ c \in Actions /\ pos[c] < returned[c] - 1 /\ view' = view
         \/ /\ c \in Queries
            /\ view' = [view EXCEPT ![c] = GetGame(folded'[c], GameAsked[c], PlayerAsking[c])]
  BY DEF Skip, ShowView, FoldOne, logVars
<1>2. LogOnce' /\ StatesAreReplays' /\ \A n : StateAfter(n)' = StateAfter(n)
  BY <1>1, LogKept
<1>3. /\ pos[c] \in Nat /\ pos[c] + 1 \in 1..Len(log)
      /\ folded[c] = StateAfter(pos[c])
      /\ NextState(folded[c], CurrentRequest(c)) = StateAfter(pos[c] + 1)
      /\ NextState(folded[c], CurrentRequest(c)) \in OptionState
  BY <1>1, FoldsTheLog
<1>4. /\ pc[c] = "fold" /\ Len(log) \in Nat
      /\ pos'[c] = pos[c] + 1 /\ folded'[c] = StateAfter(pos[c] + 1)
      /\ folded'[c] \in OptionState
  BY <1>1, <1>3, LenProperties DEF CanFold, IInv, TypeOK, FunctionsOK
<1>5. TypeOK' /\ FunctionsOK'
  <2>1. pos' \in [Calls -> 0..Len(log')]
    BY <1>1, <1>3, <1>4 DEF IInv, TypeOK
  <2>2. folded' \in [Calls -> OptionState]
    BY <1>1, <1>4 DEF IInv, FunctionsOK
  <2>. QED
    BY <1>1, <2>1, <2>2 DEF IInv, TypeOK, FunctionsOK
<1>6. PcAgreesWithStatus' /\ ReturnedIsOwnPlace' /\ NothingFoldedYet'
  BY <1>1, <1>4 DEF IInv, TypeOK, PcAgreesWithStatus, ReturnedIsOwnPlace, NothingFoldedYet
<1>7. OwnPlaceAhead'
  <2>. SUFFICES ASSUME NEW d \in Actions, pc[d] = "fold", ~error_passed[d]
                PROVE  pos'[d] < returned[d]
    BY <1>1 DEF OwnPlaceAhead
  <2>1. d \in Calls /\ pos[d] \in Nat /\ returned[d] \in Nat /\ pos[d] < returned[d]
    BY DEF Calls, IInv, TypeOK, OwnPlaceAhead
  <2>2. CASE d = c
    BY <1>1, <1>4, <2>1, <2>2, CallsAssumption
  <2>3. CASE d # c
    BY <1>1, <2>1, <2>3 DEF IInv, TypeOK
  <2>. QED
    BY <2>2, <2>3
<1>8. FoldedIsOfThePrefix'
  BY <1>1, <1>2, <1>4 DEF IInv, TypeOK, FunctionsOK, FoldedIsOfThePrefix
<1>9. ViewIsOfThePrefix'
  <2>. SUFFICES ASSUME NEW q \in Queries, pc[q] = "fold", pos'[q] > 0
                PROVE  /\ pos'[q] <= Len(log)
                       /\ view'[q] = GetGame(StateAfter(pos'[q]), GameAsked[q], PlayerAsking[q])
    BY <1>1, <1>2 DEF ViewIsOfThePrefix
  <2>1. q \in Calls
    BY DEF Calls
  <2>2. CASE q = c
    <3>1. view'[c] = GetGame(folded'[c], GameAsked[c], PlayerAsking[c])
      BY <1>1, <2>2, CallsAssumption DEF IInv, FunctionsOK
    <3>. QED  BY <1>3, <1>4, <2>2, <3>1
  <2>3. CASE q # c
    <3>1. pos'[q] = pos[q] /\ view'[q] = view[q]
      BY <1>1, <2>1, <2>3 DEF IInv, TypeOK, FunctionsOK
    <3>. QED  BY <3>1 DEF IInv, ViewIsOfThePrefix
  <2>. QED
    BY <2>2, <2>3
<1>. QED
  BY <1>2, <1>5, <1>6, <1>7, <1>8, <1>9 DEF IInv

LEMMA FoldFailsStep ==
    ASSUME IInv, NEW c \in Actions, FoldFails(c)
    PROVE  IInv'
<1>. USE DEF FoldFails, logVars
<1>1. /\ UNCHANGED <<log, states, status, returned, pc, answer, view>>
      /\ CanFold(c) /\ c \in Calls /\ c \notin Queries
      /\ pos' = [pos EXCEPT ![c] = @ + 1]
      /\ folded' = [folded EXCEPT ![c] = None]
      /\ error_passed' = [error_passed EXCEPT ![c] = TRUE]
  BY CallsAssumption DEF Calls
<1>2. LogOnce' /\ StatesAreReplays' /\ \A n : StateAfter(n)' = StateAfter(n)
  BY <1>1, LogKept
<1>3. /\ pos[c] \in Nat /\ pos[c] + 1 \in 1..Len(log) /\ Len(log) \in Nat
      /\ pc[c] = "fold" /\ None \in OptionState
  BY <1>1, FoldsTheLog, LenProperties DEF CanFold, OptionState, IInv, TypeOK
<1>4. TypeOK' /\ FunctionsOK'
  <2>1. pos' \in [Calls -> 0..Len(log')]
    BY <1>1, <1>3 DEF IInv, TypeOK
  <2>2. folded' \in [Calls -> OptionState]
    BY <1>1, <1>3 DEF IInv, FunctionsOK
  <2>. QED
    BY <1>1, <2>1, <2>2 DEF IInv, TypeOK, FunctionsOK
<1>5. PcAgreesWithStatus' /\ ReturnedIsOwnPlace' /\ NothingFoldedYet'
  BY <1>1, <1>3 DEF IInv, TypeOK, PcAgreesWithStatus, ReturnedIsOwnPlace, NothingFoldedYet
<1>6. OwnPlaceAhead' /\ FoldedIsOfThePrefix'
  BY <1>1, <1>2 DEF IInv, TypeOK, FunctionsOK, Calls, OwnPlaceAhead, FoldedIsOfThePrefix
<1>7. ViewIsOfThePrefix'
  BY <1>1, <1>2 DEF IInv, TypeOK, Calls, ViewIsOfThePrefix
<1>. QED
  BY <1>2, <1>4, <1>5, <1>6, <1>7 DEF IInv

LEMMA LogFailsStep ==
    ASSUME IInv, NEW c \in Actions, LogFails(c)
    PROVE  IInv'
<1>1. /\ UNCHANGED <<log, states, status, returned, pc, pos, folded, answer, view>>
      /\ error_passed' = [error_passed EXCEPT ![c] = TRUE]
  BY DEF LogFails, logVars
<1>2. LogOnce' /\ StatesAreReplays' /\ \A n : StateAfter(n)' = StateAfter(n)
  BY <1>1, LogKept
<1>3. TypeOK' /\ FunctionsOK'
  BY <1>1 DEF IInv, TypeOK, FunctionsOK
<1>4. PcAgreesWithStatus' /\ ReturnedIsOwnPlace' /\ NothingFoldedYet'
  BY <1>1 DEF IInv, PcAgreesWithStatus, ReturnedIsOwnPlace, NothingFoldedYet
<1>5. OwnPlaceAhead' /\ FoldedIsOfThePrefix'
  BY <1>1, <1>2 DEF IInv, TypeOK, Calls, OwnPlaceAhead, FoldedIsOfThePrefix
<1>6. ViewIsOfThePrefix'
  BY <1>1, <1>2 DEF IInv, ViewIsOfThePrefix
<1>. QED
  BY <1>2, <1>3, <1>4, <1>5, <1>6 DEF IInv

\* The log and the history grow together; what they hold stays.
LEMMA CommitAppends ==
    ASSUME IInv, NEW c \in Actions, CommitAction(c)
    PROVE  LET n == Len(log)
           IN  /\ n \in Nat /\ log' \in Seq(Actions) /\ Len(log') = n + 1
               /\ log'[n + 1] = c
               /\ \A i \in 1..n : log'[i] = log[i] /\ log[i] # c
               /\ states' \in Seq(OptionState) /\ Len(states') = n + 2
               /\ states'[n + 2] = NextState(StateAfter(n), RequestOf[c])
               /\ \A i \in 0..n : StateAfter(i)' = StateAfter(i)
<1>. DEFINE n == Len(log)
            after == NextState(states[Len(states)], RequestOf[c])
<1>1. /\ log \in Seq(Actions) /\ n \in Nat
      /\ states \in Seq(OptionState) /\ Len(states) = n + 1
  BY LenProperties DEF IInv, TypeOK, StatesAreReplays
<1>2. /\ log' = Append(log, c) /\ states' = Append(states, after)
      /\ \A i \in 1..n : log[i] # c
  BY DEF CommitAction, Log!Commit, Log!InLog
<1>3. n + 1 \in 1..Len(states) /\ states[n + 1] \in OptionState
  BY <1>1, ElementOfSeq
<1>4. after \in OptionState
  BY <1>1, <1>3, RequestType, NextStateType
<1>. HIDE DEF after
<1>5. /\ log' \in Seq(Actions) /\ Len(log') = n + 1 /\ log'[n + 1] = c
      /\ \A i \in 1..n : log'[i] = log[i]
  BY <1>1, <1>2, AppendProperties
<1>6. /\ states' \in Seq(OptionState) /\ Len(states') = Len(states) + 1
      /\ states'[Len(states) + 1] = after
      /\ \A i \in 1..Len(states) : states'[i] = states[i]
  BY <1>1, <1>2, <1>4, AppendProperties
<1>7. Len(states') = n + 2 /\ states'[n + 2] = after
  BY <1>1, <1>6
<1>8. \A i \in 0..n : states'[i + 1] = states[i + 1]
  BY <1>1, <1>6
<1>9. after = NextState(states[n + 1], RequestOf[c])
  BY <1>1 DEF after
<1>. QED
  BY <1>1, <1>2, <1>5, <1>6, <1>7, <1>8, <1>9 DEF StateAfter

LEMMA CommitStep ==
    ASSUME IInv, NEW c \in Actions, CommitAction(c)
    PROVE  IInv'
<1>. DEFINE n == Len(log)
<1>1. /\ n \in Nat /\ log' \in Seq(Actions) /\ Len(log') = n + 1
      /\ log'[n + 1] = c
      /\ \A i \in 1..n : log'[i] = log[i] /\ log[i] # c
      /\ states' \in Seq(OptionState) /\ Len(states') = n + 2
      /\ states'[n + 2] = NextState(StateAfter(n), RequestOf[c])
      /\ \A i \in 0..n : StateAfter(i)' = StateAfter(i)
  BY CommitAppends
<1>2. /\ UNCHANGED <<status, returned, pc, pos, folded, error_passed, answer, view>>
  BY DEF CommitAction, Log!Commit
<1>3. \A d \in Calls : pos[d] \in 0..n
  BY DEF IInv, TypeOK
<1>4. TypeOK' /\ FunctionsOK'
  <2>1. pos' \in [Calls -> 0..Len(log')]
    BY <1>1, <1>2, <1>3 DEF IInv, TypeOK
  <2>. QED
    BY <1>1, <1>2, <2>1 DEF IInv, TypeOK, FunctionsOK
<1>5. LogOnce'
  BY <1>1 DEF IInv, LogOnce
<1>6. StatesAreReplays'
  <2>1. StateAfter(0)' = None
    BY <1>1 DEF IInv, StatesAreReplays
  <2>2. ASSUME NEW i \in 1..Len(log')
        PROVE  StateAfter(i)' = NextState(StateAfter(i - 1)', RequestOf[log'[i]])
    <3>1. CASE i \in 1..n
      <4>1. StateAfter(i) = NextState(StateAfter(i - 1), RequestOf[log[i]])
        BY <3>1 DEF IInv, StatesAreReplays
      <4>2. i \in 0..n /\ i - 1 \in 0..n
        BY <1>1, <3>1
      <4>3. StateAfter(i)' = StateAfter(i) /\ StateAfter(i - 1)' = StateAfter(i - 1)
        BY <1>1, <4>2
      <4>. QED  BY <1>1, <3>1, <4>1, <4>3
    <3>2. CASE i = n + 1
      <4>1. i - 1 = n /\ n \in 0..n /\ i + 1 = n + 2
        BY <1>1, <3>2
      <4>2. StateAfter(i - 1)' = StateAfter(n)
        BY <1>1, <4>1
      <4>3. StateAfter(i)' = states'[n + 2]
        BY <4>1 DEF StateAfter
      <4>. QED  BY <1>1, <3>2, <4>2, <4>3
    <3>. QED
      BY <1>1, <3>1, <3>2
  <2>3. Len(states') = Len(log') + 1
    BY <1>1
  <2>. QED
    BY <1>1, <2>1, <2>2, <2>3 DEF StatesAreReplays
<1>7. PcAgreesWithStatus' /\ NothingFoldedYet' /\ OwnPlaceAhead'
  BY <1>2 DEF IInv, PcAgreesWithStatus, NothingFoldedYet, OwnPlaceAhead
<1>8. ReturnedIsOwnPlace'
  BY <1>1, <1>2 DEF IInv, ReturnedIsOwnPlace
<1>9. FoldedIsOfThePrefix'
  BY <1>1, <1>2, <1>3 DEF IInv, FoldedIsOfThePrefix
<1>10. ViewIsOfThePrefix'
  <2>. SUFFICES ASSUME NEW q \in Queries, pc[q] = "fold", pos[q] > 0
                PROVE  /\ pos[q] <= Len(log')
                       /\ view[q] = GetGame(StateAfter(pos[q])', GameAsked[q], PlayerAsking[q])
    BY <1>2 DEF ViewIsOfThePrefix
  <2>1. pos[q] \in 0..n
    BY <1>3 DEF Calls
  <2>2. view[q] = GetGame(StateAfter(pos[q]), GameAsked[q], PlayerAsking[q])
    BY DEF IInv, ViewIsOfThePrefix
  <2>3. StateAfter(pos[q])' = StateAfter(pos[q])
    <3>1. \A i \in 0..n : states'[i + 1] = states[i + 1]
      BY <1>1 DEF StateAfter
    <3>. QED  BY <1>2, <2>1, <3>1 DEF StateAfter
  <2>. QED
    BY <1>1, <2>1, <2>2, <2>3
<1>. QED
  BY <1>4, <1>5, <1>6, <1>7, <1>8, <1>9, <1>10 DEF IInv

LEMMA NextIInv == IInv /\ [Next]_vars => IInv'
<1>. SUFFICES ASSUME IInv, [Next]_vars
              PROVE  IInv'
  OBVIOUS
<1>. USE DEF Calls
<1>1. CASE UNCHANGED vars
  <2>. USE <1>1 DEF vars, IInv
  <2>1. TypeOK' /\ FunctionsOK'
    BY DEF TypeOK, FunctionsOK
  <2>2. LogOnce' /\ StatesAreReplays' /\ \A n : StateAfter(n)' = StateAfter(n)
    BY LogKept
  <2>3. PcAgreesWithStatus' /\ ReturnedIsOwnPlace'
    BY DEF PcAgreesWithStatus, ReturnedIsOwnPlace
  <2>4. NothingFoldedYet' /\ OwnPlaceAhead'
    BY DEF NothingFoldedYet, OwnPlaceAhead
  <2>5. FoldedIsOfThePrefix' /\ ViewIsOfThePrefix'
    BY <2>2 DEF FoldedIsOfThePrefix, ViewIsOfThePrefix
  <2>. QED
    BY <2>1, <2>2, <2>3, <2>4, <2>5
<1>2. ASSUME NEW c \in Actions, InvokeAction(c)
      PROVE  IInv'
  BY <1>2, InvokeStep
<1>3. ASSUME NEW c \in Actions, Skip(c) \/ FoldFails(c) \/ LogFails(c)
      PROVE  IInv'
  BY <1>3, FoldStep, FoldFailsStep, LogFailsStep
<1>4. ASSUME NEW c \in Actions, PushFails(c) \/ Take(c) \/ EndAfterError(c)
      PROVE  IInv'
  BY <1>4, EndStep
<1>5. ASSUME NEW q \in Queries, InvokeQuery(q) \/ ShowView(q)
      PROVE  IInv'
  BY <1>5, InvokeStep, FoldStep
<1>6. ASSUME NEW c \in Calls, Fail(c)
      PROVE  IInv'
  BY <1>6, EndStep
<1>. QED
  BY <1>1, <1>2, <1>3, <1>4, <1>5, <1>6, PushedStep, CommitStep DEF Next

LEMMA IInvHolds == Spec => []IInv
BY InitIInv, NextIInv, PTL DEF Spec

-----------------------------------------------------------------------------
\* The calls keep their types: the replay of each stays within the log, and an
\* action is answered with a response of its own method (main.rs:149-194).
THEOREM TypeCorrect == Spec => []TypeOK
<1>1. IInv => TypeOK
  BY DEF IInv
<1>. QED
  BY <1>1, IInvHolds, PTL

\* What a query shows is what get_game says of the games after the prefix of the
\* log it has replayed (main.rs:95-138 and 196-241).
THEOREM ViewsOfPrefixes == Spec => []ViewIsOfThePrefix
<1>1. IInv => ViewIsOfThePrefix
  BY DEF IInv
<1>. QED
  BY <1>1, IInvHolds, PTL

-----------------------------------------------------------------------------
\* The rules that the abstract service applies are the rules of the game logic.
LEMMA SameRules ==
    ASSUME NEW st, NEW r
    PROVE  /\ Service!HandleAction(st, r) = HandleAction(st, r)
           /\ Service!NextState(st, r) = NextState(st, r)
<1>1. /\ \A games, g : Service!GameOf(games, g) = GameOf(games, g)
      /\ \A games, g, game : Service!Put(games, g, game) = Put(games, g, game)
      /\ \A p, players : Service!IsIn(p, players) = IsIn(p, players)
      /\ \A game : Service!IsOver(game) = IsOver(game)
      /\ \A game : Service!ActivePlayer(game) = ActivePlayer(game)
      /\ Service!UnwrapOrDefault(st) = UnwrapOrDefault(st)
      /\ \A x : Service!Ok(x) = Ok(x) /\ Service!Err(x) = Err(x)
      /\ Service!DefaultGame = DefaultGame
  BY DEF Service!GameOf, GameOf, Service!DefaultGame, DefaultGame, Service!Put, Put,
     Service!IsIn, IsIn, Service!IsOver, IsOver, Service!ActivePlayer, ActivePlayer,
     Service!UnwrapOrDefault, UnwrapOrDefault, Service!NoGames, NoGames,
     Service!Ok, Ok, Service!Err, Err
<1>2. Service!CreateGame(st, r) = CreateGame(st, r)
  BY <1>1 DEF Service!CreateGame, CreateGame
<1>3. Service!JoinGame(st, r) = JoinGame(st, r)
  BY <1>1 DEF Service!JoinGame, JoinGame
<1>4. Service!StartGame(st, r) = StartGame(st, r)
  BY <1>1 DEF Service!StartGame, StartGame
<1>5. Service!MakeMove(st, r) = MakeMove(st, r)
  BY <1>1 DEF Service!MakeMove, MakeMove
<1>6. Service!HandleAction(st, r) = HandleAction(st, r)
  BY <1>2, <1>3, <1>4, <1>5 DEF Service!HandleAction, HandleAction
<1>. QED
  BY <1>6 DEF Service!NextState, NextState

\* The abstract effect of an action is the answer at its place of the log.
LEMMA EffectAtPlace ==
    ASSUME IInv, NEW c \in Actions, NEW i \in 1..Len(log), log[i] = c
    PROVE  abstractEffect[c] =
               <<RequestOf[c].method, HandleAction(StateAfter(i - 1), RequestOf[c]).error>>
<1>. DEFINE j == CHOOSE k \in 1..Len(log) : log[k] = c
<1>1. j \in 1..Len(log) /\ log[j] = c
  OBVIOUS
<1>2. j = i
  BY <1>1 DEF IInv, LogOnce
<1>3. Log!InLog(c)
  BY DEF Log!InLog
<1>4. abstractEffect[c] =
          <<RequestOf[c].method, HandleAction(StateAfter(j - 1), RequestOf[c]).error>>
  BY <1>3 DEF abstractEffect
<1>. QED
  BY <1>2, <1>4

\* A step that leaves the log leaves the abstract state and effects.
LEMMA EffectKept ==
    ASSUME UNCHANGED <<log, states>>
    PROVE  abstractEffect' = abstractEffect /\ StateAfter(Len(log))' = StateAfter(Len(log))
BY DEF abstractEffect, StateAfter, Log!InLog

\* The abstract status follows the pc of the actions.
LEMMA StatusKept ==
    ASSUME IInv, NEW c \in Calls, NEW how,
           pc' = [pc EXCEPT ![c] = how]
    PROVE  /\ c \in Queries \/ (pc[c] \in {"push", "fold"} /\ how \in {"push", "fold"}) =>
                  abstractStatus' = abstractStatus
           /\ c \in Actions =>
                  abstractStatus' = [abstractStatus EXCEPT ![c] =
                      IF how \in {"push", "fold"} THEN "pending" ELSE how]
<1>1. pc \in [Calls -> {"idle", "push", "fold", "done", "failed"}]
  BY DEF IInv, TypeOK
<1>2. \A d \in Actions : d \in Calls /\ d \notin Queries
  BY CallsAssumption DEF Calls
<1>. QED
  BY <1>1, <1>2 DEF abstractStatus

LEMMA CommitIsEffect ==
    ASSUME IInv, IInv', NEW c \in Actions, CommitAction(c)
    PROVE  Service!TakeEffect(c)
<1>. DEFINE n == Len(log)
<1>1. /\ n \in Nat /\ log' \in Seq(Actions) /\ Len(log') = n + 1
      /\ log'[n + 1] = c
      /\ \A i \in 1..n : log'[i] = log[i] /\ log[i] # c
      /\ states' \in Seq(OptionState) /\ Len(states') = n + 2
      /\ states'[n + 2] = NextState(StateAfter(n), RequestOf[c])
      /\ \A i \in 0..n : StateAfter(i)' = StateAfter(i)
  BY CommitAppends
<1>2. status[c] \in {"pending", "failed"} /\ UNCHANGED <<status, pc, answer>>
  BY DEF CommitAction, Log!Commit
<1>3. abstractStatus[c] \in {"pending", "failed"} /\ abstractStatus' = abstractStatus
  BY <1>2 DEF IInv, PcAgreesWithStatus, abstractStatus
<1>4. abstractEffect[c] = NoAnswer
  BY <1>1 DEF abstractEffect, Log!InLog
<1>5. StateAfter(Len(log))' = NextState(StateAfter(n), RequestOf[c])
  <2>1. Len(log') + 1 = n + 2
    BY <1>1
  <2>. QED  BY <1>1, <2>1 DEF StateAfter
<1>6. abstractEffect'[c] = <<RequestOf[c].method, HandleAction(StateAfter(n), RequestOf[c]).error>>
  <2>. DEFINE j == CHOOSE k \in 1..Len(log') : log'[k] = c
  <2>1. n + 1 \in 1..Len(log')
    BY <1>1
  <2>2. j \in 1..Len(log') /\ log'[j] = c
    BY <1>1, <2>1
  <2>3. j = n + 1
    BY <1>1, <2>1, <2>2
  <2>4. (\E k \in 1..Len(log') : log'[k] = c)
    BY <1>1, <2>1
  <2>5. abstractEffect'[c] =
            <<RequestOf[c].method, HandleAction(states'[(j - 1) + 1], RequestOf[c]).error>>
    BY <2>4 DEF abstractEffect, StateAfter, Log!InLog
  <2>6. states'[(j - 1) + 1] = StateAfter(n)
    <3>1. (j - 1) + 1 = n + 1 /\ n \in 0..n
      BY <1>1, <2>3
    <3>2. \A i \in 0..n : states'[i + 1] = StateAfter(i)
      BY <1>1 DEF StateAfter
    <3>. QED  BY <3>1, <3>2
  <2>. QED
    BY <2>5, <2>6
<1>7. ASSUME NEW d \in Actions, d # c
      PROVE  abstractEffect'[d] = abstractEffect[d]
  <2>1. CASE \E i \in 1..n : log[i] = d
    <3>1. PICK i \in 1..n : log[i] = d
      BY <2>1
    <3>. DEFINE j == CHOOSE k \in 1..Len(log') : log'[k] = d
    <3>2. i \in 1..Len(log') /\ log'[i] = d /\ i - 1 \in 0..n /\ (i - 1) + 1 = i
      BY <1>1, <3>1
    <3>3. j \in 1..Len(log') /\ log'[j] = d
      BY <3>2
    <3>4. j = i
      BY <3>2, <3>3 DEF IInv, LogOnce
    <3>5. abstractEffect'[d] =
              <<RequestOf[d].method, HandleAction(states'[(j - 1) + 1], RequestOf[d]).error>>
      BY <3>2 DEF abstractEffect, StateAfter, Log!InLog
    <3>6. states'[(j - 1) + 1] = StateAfter(i - 1)
      <4>1. \A m \in 0..n : states'[m + 1] = StateAfter(m)
        BY <1>1 DEF StateAfter
      <4>. QED  BY <3>2, <3>4, <4>1
    <3>7. abstractEffect[d] =
              <<RequestOf[d].method, HandleAction(StateAfter(i - 1), RequestOf[d]).error>>
      BY <3>1, EffectAtPlace
    <3>. QED
      BY <3>5, <3>6, <3>7
  <2>2. CASE ~ \E i \in 1..n : log[i] = d
    <3>1. ~ \E i \in 1..Len(log') : log'[i] = d
      BY <1>1, <1>7, <2>2
    <3>. QED
      BY <2>2, <3>1 DEF abstractEffect, Log!InLog
  <2>. QED
    BY <2>1, <2>2
<1>8. abstractEffect' =
          [abstractEffect EXCEPT ![c] = Service!AnswerOf(StateAfter(Len(log)), RequestOf[c])]
  <2>1. Service!AnswerOf(StateAfter(n), RequestOf[c])
            = <<RequestOf[c].method, HandleAction(StateAfter(n), RequestOf[c]).error>>
    BY SameRules DEF Service!AnswerOf
  <2>2. /\ abstractEffect = [d \in Actions |-> abstractEffect[d]]
        /\ abstractEffect' = [d \in Actions |-> abstractEffect'[d]]
    BY DEF abstractEffect
  <2>. QED
    BY <1>6, <1>7, <2>1, <2>2
<1>. QED
  BY <1>2, <1>3, <1>4, <1>5, <1>8, SameRules DEF Service!TakeEffect, Service!NoAnswer, NoAnswer

LEMMA TakeIsReply ==
    ASSUME IInv, NEW c \in Actions, Take(c)
    PROVE  Service!Reply(c)
<1>1. /\ pos[c] + 1 = returned[c]
      /\ log[pos[c] + 1] = c
      /\ CurrentRequest(c) = RequestOf[c]
  BY TakesItsOwn
<1>2. c \in Calls /\ CanFold(c) /\ pc[c] = "fold"
  BY DEF Calls, Take, CanFold
<1>3. /\ pos[c] \in Nat /\ pos[c] + 1 \in 1..Len(log) /\ folded[c] = StateAfter(pos[c])
  BY <1>2, FoldsTheLog
<1>4. (pos[c] + 1) - 1 = pos[c]
  BY <1>3
<1>5. abstractEffect[c] = Response(c)
  BY <1>1, <1>3, <1>4, EffectAtPlace DEF Response
<1>6. abstractStatus[c] = "pending"
  BY <1>2 DEF abstractStatus
<1>7. /\ UNCHANGED <<log, states>>
      /\ answer' = [answer EXCEPT ![c] = Response(c)] /\ pc' = [pc EXCEPT ![c] = "done"]
  BY DEF Take, Ends, logVars
<1>8. abstractStatus' = [abstractStatus EXCEPT ![c] = "done"]
  BY <1>2, <1>7, StatusKept
<1>9. Response(c) # <<>>
  BY DEF Response
<1>. QED
  BY <1>5, <1>6, <1>7, <1>8, <1>9, EffectKept DEF Service!Reply, Service!NoAnswer

\* The server implements the service its clients see: each of its steps is a
\* step of a service that handles the actions one at a time, or changes nothing
\* that a client sees.
THEOREM Refinement == Spec => ImplementsClientService
<1>1. Init => Service!Init
  BY DEF Init, Log!Init, Service!Init, StateAfter, abstractStatus, abstractEffect,
     Log!InLog, Service!NoAnswer, NoAnswer, Calls
<1>2. IInv /\ IInv' /\ [Next]_vars => [Service!Next]_(Service!vars)
  <2>. SUFFICES ASSUME IInv, IInv', [Next]_vars
                PROVE  Service!Next \/ UNCHANGED Service!vars
    OBVIOUS
  <2>0. Actions \subseteq Calls /\ Queries \subseteq Calls
    BY DEF Calls
  <2>1. CASE UNCHANGED vars
    BY <2>1, EffectKept DEF vars, abstractStatus, Service!vars
  <2>2. ASSUME NEW c \in Actions, InvokeAction(c)
        PROVE  Service!Next
    <3>1. /\ UNCHANGED <<log, states, answer>> /\ pc[c] = "idle"
          /\ pc' = [pc EXCEPT ![c] = "push"]
      BY <2>2 DEF InvokeAction, Log!Invoke
    <3>2. abstractStatus[c] = "idle" /\ abstractStatus' = [abstractStatus EXCEPT ![c] = "pending"]
      BY <2>0, <3>1, StatusKept DEF abstractStatus
    <3>. QED
      BY <3>1, <3>2, EffectKept DEF Service!Next, Service!Invoke
  <2>3. ASSUME NEW c \in Actions, CommitAction(c)
        PROVE  Service!Next
    BY <2>3, CommitIsEffect DEF Service!Next
  <2>4. ASSUME NEW c \in Actions, Take(c)
        PROVE  Service!Next
    BY <2>4, TakeIsReply DEF Service!Next
  <2>5. ASSUME NEW c \in Calls, \/ c \in Actions /\ (PushFails(c) \/ EndAfterError(c))
                                \/ Fail(c)
        PROVE  Service!Next \/ UNCHANGED Service!vars
    <3>1. /\ UNCHANGED <<log, states, answer>> /\ pc[c] \in {"push", "fold"}
          /\ pc' = [pc EXCEPT ![c] = "failed"]
      BY <2>5 DEF PushFails, EndAfterError, Fail, Log!Fail, Ends, logVars
    <3>2. CASE c \in Actions
      <4>1. /\ abstractStatus[c] = "pending"
            /\ abstractStatus' = [abstractStatus EXCEPT ![c] = "failed"]
        BY <3>1, <3>2, StatusKept DEF abstractStatus
      <4>. QED
        BY <3>1, <3>2, <4>1, EffectKept DEF Service!Next, Service!Fail
    <3>3. CASE c \in Queries
      BY <3>1, <3>3, StatusKept, EffectKept DEF Service!vars
    <3>. QED
      BY <3>2, <3>3 DEF Calls
  <2>6. ASSUME NEW c \in Calls,
               \/ c \in Actions /\ \/ \E i \in 1..Len(log) : Pushed(c, i)
                                   \/ Skip(c) \/ FoldFails(c) \/ LogFails(c)
               \/ c \in Queries /\ (InvokeQuery(c) \/ ShowView(c))
        PROVE  UNCHANGED Service!vars
    <3>1. UNCHANGED <<log, states, answer>>
      BY <2>6 DEF Pushed, Log!Return, Skip, FoldFails, LogFails, InvokeQuery, ShowView, logVars
    <3>2. \/ pc' = pc
          \/ /\ c \in Queries \/ pc[c] = "push"
             /\ pc' = [pc EXCEPT ![c] = "fold"]
      BY <2>6 DEF Pushed, Skip, FoldFails, LogFails, InvokeQuery, ShowView, FoldOne
    <3>3. abstractStatus' = abstractStatus
      BY <3>2, StatusKept DEF abstractStatus
    <3>. QED
      BY <3>1, <3>3, EffectKept DEF Service!vars
  <2>. QED
    BY <2>0, <2>1, <2>2, <2>3, <2>4, <2>5, <2>6 DEF Next
<1>. QED
  BY <1>1, <1>2, IInvHolds, PTL DEF Spec, ImplementsClientService, Service!Spec

-----------------------------------------------------------------------------
\* The server uses its log by the interface of the Datastore trait alone
\* (datastore.rs:12-18): whatever implements AtomicLog, as ActionLog does,
\* serves it.
THEOREM UsesAtomicLog == Spec => Log!Spec
<1>1. Init => Log!Init
  BY DEF Init
<1>2. [Next]_vars => [Log!Next]_(Log!vars)
  <2>. SUFFICES ASSUME [Next]_vars
                PROVE  Log!Next \/ UNCHANGED Log!vars
    OBVIOUS
  <2>1. CASE UNCHANGED vars
    BY <2>1 DEF vars, Log!vars
  <2>2. ASSUME NEW c \in Actions, InvokeAction(c) \/ CommitAction(c) \/ PushFails(c)
        PROVE  Log!Next
    BY <2>2 DEF InvokeAction, CommitAction, PushFails, Log!Next
  <2>3. ASSUME NEW c \in Actions, NEW i \in 1..Len(log), Pushed(c, i)
        PROVE  Log!Next
    BY <2>3 DEF Pushed, Log!Next
  <2>4. ASSUME NEW c \in Calls,
               \/ Skip(c) \/ Take(c) \/ FoldFails(c) \/ LogFails(c) \/ EndAfterError(c)
               \/ Fail(c) \/ InvokeQuery(c) \/ ShowView(c)
        PROVE  UNCHANGED Log!vars
    BY <2>4 DEF Skip, Take, FoldFails, LogFails, EndAfterError, Fail, InvokeQuery, ShowView,
       logVars, Log!vars
  <2>. QED
    BY <2>1, <2>2, <2>3, <2>4 DEF Next, Calls
<1>. QED
  BY <1>1, <1>2, PTL DEF Spec, Log!Spec

\* In the state of every stream that goes on, the player whose turn it is in a
\* started game is one of its players.
ReplaysNameAPlayer ==
    \A c \in Calls : \A g \in GameIds :
        LET game == UnwrapOrDefault(folded[c])[g]
        IN  ~error_passed[c] /\ game # None /\ game.status = "Started" =>
                (Len(game.sentences) % Len(game.players)) + 1 \in DOMAIN game.players

\* The same of the history, by rosters.
StatesHaveRosters == \A n \in 0..Len(log) : Rosters(StateAfter(n))

LEMMA RostersHold == Spec => []StatesHaveRosters
<1>1. Init => StatesHaveRosters
  BY DEF Init, Log!Init, StatesHaveRosters, StateAfter, Rosters, RosterOf, UnwrapOrDefault,
     NoGames
<1>2. IInv /\ StatesHaveRosters /\ [Next]_vars => StatesHaveRosters'
  <2>. SUFFICES ASSUME IInv, StatesHaveRosters, [Next]_vars
                PROVE  StatesHaveRosters'
    OBVIOUS
  <2>1. CASE UNCHANGED <<log, states>>
    BY <2>1 DEF StatesHaveRosters, StateAfter
  <2>2. ASSUME NEW c \in Actions, CommitAction(c)
        PROVE  StatesHaveRosters'
    <3>. DEFINE n == Len(log)
    <3>1. /\ n \in Nat /\ Len(log') = n + 1
          /\ states'[n + 2] = NextState(StateAfter(n), RequestOf[c])
          /\ \A i \in 0..n : StateAfter(i)' = StateAfter(i)
      BY <2>2, CommitAppends
    <3>2. StateAfter(n) \in OptionState
      <4>1. states \in Seq(OptionState) /\ Len(states) = n + 1 /\ n + 1 \in 1..Len(states)
        BY <3>1 DEF IInv, StatesAreReplays
      <4>. QED  BY <4>1, ElementOfSeq DEF StateAfter
    <3>3. Rosters(StateAfter(n))
      BY <3>1 DEF StatesHaveRosters
    <3>4. Rosters(states'[n + 2])
      BY <3>1, <3>2, <3>3, RequestType, RostersKept
    <3>5. ASSUME NEW i \in 0..Len(log')
          PROVE  Rosters(states'[i + 1])
      <4>1. CASE i \in 0..n
        <5>1. states'[i + 1] = StateAfter(i)
          BY <3>1, <4>1 DEF StateAfter
        <5>. QED  BY <4>1, <5>1 DEF StatesHaveRosters
      <4>2. CASE i = n + 1
        <5>1. i + 1 = n + 2
          BY <3>1, <4>2
        <5>. QED  BY <3>4, <5>1
      <4>. QED
        BY <3>1, <4>1, <4>2
    <3>. QED
      BY <3>5 DEF StatesHaveRosters, StateAfter
  <2>3. (\E c \in Actions : CommitAction(c)) \/ UNCHANGED <<log, states>>
    BY DEF Next, vars, logVars, InvokeAction, Log!Invoke, PushFails, Log!Fail, Pushed,
       Log!Return, Skip, Take, FoldFails, LogFails, EndAfterError, InvokeQuery, ShowView, Fail
  <2>. QED
    BY <2>1, <2>2, <2>3
<1>. QED
  BY <1>1, <1>2, IInvHolds, PTL DEF Spec

\* fold_state and the query's run (main.rs:71-93, 216-236) give the logic no
\* state on which the index of the active player (be/logic/src/main.rs:71-74,
\* 205-208) is out of range: no action of the log makes the replay trap there.
THEOREM ReplaysCannotTrap == Spec => []ReplaysNameAPlayer
<1>1. IInv /\ StatesHaveRosters => ReplaysNameAPlayer
  <2>. SUFFICES ASSUME IInv, StatesHaveRosters, NEW c \in Calls, NEW g \in GameIds,
                       ~error_passed[c],
                       UnwrapOrDefault(folded[c])[g] # None,
                       UnwrapOrDefault(folded[c])[g].status = "Started"
                PROVE  LET game == UnwrapOrDefault(folded[c])[g]
                       IN  (Len(game.sentences) % Len(game.players)) + 1 \in DOMAIN game.players
    BY DEF ReplaysNameAPlayer
  <2>. DEFINE game == UnwrapOrDefault(folded[c])[g]
              n == Len(game.sentences)
              k == Len(game.players)
  <2>1. folded[c] \in OptionState /\ folded[c] = StateAfter(pos[c]) /\ pos[c] \in 0..Len(log)
    BY DEF IInv, TypeOK, FoldedIsOfThePrefix
  <2>2. RosterOf(game)
    BY <2>1 DEF StatesHaveRosters, Rosters
  <2>3. game \in StartedGame
    BY <2>1, UnwrapType DEF State, Game, UnstartedGame, StartedGame
  <2>4. game.players # <<>>
    BY <2>2 DEF RosterOf
  <2>5. game.players \in Seq(PlayerIds) /\ game.sentences \in Seq(Sentences)
    BY <2>3 DEF StartedGame
  <2>6. n \in Nat /\ k \in Nat \ {0} /\ DOMAIN game.players = 1..k
    BY <2>4, <2>5, EmptySeq, LenProperties
  <2>. HIDE DEF n, k, game
  <2>7. (n % k) + 1 \in 1..k
    BY <2>6, IndexInRotation
  <2>. QED
    BY <2>6, <2>7 DEF n, k, game
<1>. QED
  BY <1>1, IInvHolds, RostersHold, PTL
-----------------------------------------------------------------------------
\* What the stream of a query has shown is never taken back: while it runs, the
\* roster of its game only grows, a game does not go back to be unstarted, and a
\* story that is over stays as it was shown.
ViewsMoveOn ==
    \A q \in Queries : pc[q] = "fold" /\ pos[q] > 0 => ViewMovesOn(view[q], view'[q])

\* Each state of a stream is that of a longer prefix of the log than the one
\* before (main.rs:71-93), and no action of the logic takes anything back
\* (be/logic/src/main.rs:90-174).
THEOREM QueriesMoveOn == Spec => [][ViewsMoveOn]_vars
<1>1. IInv /\ [Next]_vars => [ViewsMoveOn]_vars
  <2>. SUFFICES ASSUME IInv, Next, NEW q \in Queries, pc[q] = "fold", pos[q] > 0
                PROVE  ViewMovesOn(view[q], view'[q])
    BY DEF ViewsMoveOn
  <2>1. /\ q \in Calls /\ folded[q] \in OptionState
        /\ GameAsked[q] \in GameIds /\ PlayerAsking[q] \in PlayerIds
    BY CallsAssumption DEF IInv, TypeOK, Calls
  <2>2. view[q] = GetGame(StateAfter(pos[q]), GameAsked[q], PlayerAsking[q])
    BY DEF IInv, ViewIsOfThePrefix
  <2>3. pos[q] \in 0..Len(log) /\ StateAfter(pos[q]) \in OptionState
    <3>1. /\ states \in Seq(OptionState) /\ Len(states) = Len(log) + 1
          /\ log \in Seq(Actions) /\ pos[q] \in 0..Len(log)
      BY <2>1 DEF IInv, TypeOK, StatesAreReplays
    <3>2. pos[q] + 1 \in 1..Len(states)
      BY <3>1, LenProperties
    <3>. QED
      BY <3>1, <3>2, ElementOfSeq DEF StateAfter
  <2>4. CASE view'[q] = view[q]
    <3>1. UnwrapOrDefault(StateAfter(pos[q])) \in State
      BY <2>3, UnwrapType
    <3>2. LET game == UnwrapOrDefault(StateAfter(pos[q]))[GameAsked[q]]
          IN  GameGrows(game, game)
      BY <2>1, <3>1, SameGrows DEF State
    <3>. QED
      BY <2>1, <2>2, <2>3, <2>4, <3>2, ViewsKept
  <2>5. CASE ShowView(q)
    <3>1. CanFold(q)
      BY <2>5 DEF ShowView, FoldOne
    <3>. DEFINE later == NextState(folded[q], CurrentRequest(q))
    <3>2. /\ folded[q] = StateAfter(pos[q]) /\ CurrentRequest(q) \in ActionRequest
          /\ later \in OptionState
      BY <2>1, <3>1, FoldsTheLog
    <3>3. view'[q] = GetGame(later, GameAsked[q], PlayerAsking[q])
      BY <2>1, <2>5 DEF ShowView, FoldOne, IInv, FunctionsOK
    <3>4. GameGrows(UnwrapOrDefault(folded[q])[GameAsked[q]], UnwrapOrDefault(later)[GameAsked[q]])
      BY <2>1, <3>2, GamesKept
    <3>. HIDE DEF later
    <3>. QED
      BY <2>1, <2>2, <3>2, <3>3, <3>4, ViewsKept
  <2>6. CASE \E r \in Queries \ {q} : ShowView(r)
    BY <2>4, <2>6 DEF ShowView, IInv, FunctionsOK
  <2>7. view' = view \/ \E r \in Queries : ShowView(r)
    BY DEF Next, InvokeAction, CommitAction, PushFails, Pushed, Skip, Take, FoldFails,
       LogFails, EndAfterError, InvokeQuery, Fail
  <2>. QED
    BY <2>4, <2>5, <2>6, <2>7
<1>. QED
  BY <1>1, IInvHolds, PTL DEF Spec
=============================================================================
