------------------------------- MODULE LogWatch -------------------------------
(***************************************************************************)
(* watch_log of the Firestore datastore on one server instance             *)
(* (datastore.rs:131-211, 295-325).  A watcher listens to the metadata     *)
(* document, turns the counts it hears of into the indexes it has not      *)
(* produced yet (fill_in_gaps), and fetches each of them through the cache *)
(* that all the watchers of the instance share.  The cache holds one       *)
(* future per index, shared by every watcher that awaits it.               *)
(*                                                                         *)
(* The log is seen from outside: `length' documents 0..length-1, none of   *)
(* which ever changes (ActionLog!LogContiguous, ActionLog!AppendOnly), so  *)
(* that an action is named by its index.  Firestore is external: it tells  *)
(* a watcher counts that were once true, may repeat or skip some, may even *)
(* go back, and its answer to a fetch may be an error.                     *)
(***************************************************************************)
EXTENDS Naturals, Sequences

CONSTANTS
    Watchers,       \* the calls of watch_log on this instance
    MaxLength,      \* bound: the length the log grows to
    Failures        \* the errors a fetch may end with: {} for none

ASSUME MaxLengthAssumption == MaxLength \in Nat

VARIABLES
    length,         \* documents in the log
    cache,          \* the cached futures: [index, state], in the order pushed
    pc,             \* per watcher: the await or the lock it is at, or its end
    ceil,           \* per watcher: fill_in_gaps has produced the indexes below
    todo,           \* per watcher: the indexes produced and not yet fetched
    delivered       \* per watcher: the actions it has yielded, as indexes

vars == <<length, cache, pc, ceil, todo, delivered>>

\* A future is created unpolled; polling it sends the request; it then has the
\* action, or it has panicked, and so does everyone who polls it from then on.
FutureStates == {"unpolled", "sent", "ready"} \cup Failures

Future == [index : Nat, state : FutureStates]

Init == /\ length \in 0..MaxLength
        /\ cache = <<>>
        /\ pc = [w \in Watchers |-> "idle"]
        /\ ceil = [w \in Watchers |-> 0]
        /\ todo = [w \in Watchers |-> <<>>]
        /\ delivered = [w \in Watchers |-> <<>>]

\* Some push_action of some instance commits.
Grow == /\ length < MaxLength
        /\ length' = length + 1
        /\ UNCHANGED <<cache, pc, ceil, todo, delivered>>

\* watch_log: the Listen call is answered.
Listen(w) == /\ pc[w] = "idle"
             /\ pc' = [pc EXCEPT ![w] = "wait"]
             /\ UNCHANGED <<length, cache, ceil, todo, delivered>>

\* Faulty variants of HearCount: the range includes the count, the count is
\* taken as it comes, and the index at the new count is passed over.
HearCountInclusive(w, n) ==
    /\ pc[w] = "wait" /\ todo[w] = <<>>
    /\ todo' = [todo EXCEPT ![w] = [i \in 1..(IF n >= ceil[w] THEN n + 1 - ceil[w] ELSE 0)
                                       |-> ceil[w] + i - 1]]
    /\ ceil' = [ceil EXCEPT ![w] = IF n >= @ THEN n + 1 ELSE @]
    /\ UNCHANGED <<length, cache, pc, delivered>>

HearCountAsItComes(w, n) ==
    /\ pc[w] = "wait" /\ todo[w] = <<>>
    /\ todo' = [todo EXCEPT ![w] = [i \in 1..(IF n > ceil[w] THEN n - ceil[w] ELSE 0)
                                       |-> ceil[w] + i - 1]]
    /\ ceil' = [ceil EXCEPT ![w] = n]
    /\ UNCHANGED <<length, cache, pc, delivered>>

HearCountPassesOne(w, n) ==
    /\ pc[w] = "wait" /\ todo[w] = <<>>
    /\ todo' = [todo EXCEPT ![w] = [i \in 1..(IF n > ceil[w] THEN n - ceil[w] ELSE 0)
                                       |-> ceil[w] + i - 1]]
    /\ ceil' = [ceil EXCEPT ![w] = IF n > @ THEN n + 1 ELSE @]
    /\ UNCHANGED <<length, cache, pc, delivered>>

\* The next count of the Listen stream; flat_map polls it only when the range
\* of the count before is used up.  The range ceil..n is empty for a count that
\* is not above ceil.
HearCount(w, n) ==
    /\ pc[w] = "wait" /\ todo[w] = <<>>
    /\ todo' = [todo EXCEPT ![w] = [i \in 1..(IF n > ceil[w] THEN n - ceil[w] ELSE 0)
                                       |-> ceil[w] + i - 1]]
    /\ ceil' = [ceil EXCEPT ![w] = IF n > @ THEN n ELSE @]
    /\ UNCHANGED <<length, cache, pc, delivered>>

\* and_then calls fetch_action with the next index: look it up under the read
\* lock.
LookUp(w) ==
    /\ pc[w] = "wait" /\ todo[w] # <<>>
    /\ pc' = [pc EXCEPT ![w] = IF Head(todo[w]) < Len(cache) THEN "fetch" ELSE "fill"]
    /\ UNCHANGED <<length, cache, ceil, todo, delivered>>

\* Faulty variant: off by one.
NewFutureBefore(i) == [index |-> i - 1, state |-> "unpolled"]

NewFuture(i) == [index |-> i, state |-> "unpolled"]

\* Faulty variant: the length is not checked again under the write lock.
FillUnchecked(w) ==
    /\ pc[w] = "fill"
    /\ pc' = [pc EXCEPT ![w] = "fetch"]
    /\ cache' = Append(cache, NewFuture(Head(todo[w])))
    /\ UNCHANGED <<length, ceil, todo, delivered>>

\* A miss: under the write lock, push futures while there is none for the index.
Fill(w) ==
    /\ pc[w] = "fill"
    /\ pc' = [pc EXCEPT ![w] = "fetch"]
    /\ cache' = cache \o
          [k \in 1..(IF Head(todo[w]) < Len(cache) THEN 0 ELSE Head(todo[w]) + 1 - Len(cache))
              |-> NewFuture(Len(cache) + k - 1)]
    /\ UNCHANGED <<length, ceil, todo, delivered>>

\* The future a watcher awaits: cache.get(index).
Awaited(w) == Head(todo[w]) + 1

\* The first poll of a shared future sends its request.
Poll(w) ==
    /\ pc[w] = "fetch" /\ cache[Awaited(w)].state = "unpolled"
    /\ cache' = [cache EXCEPT ![Awaited(w)].state = "sent"]
    /\ UNCHANGED <<length, pc, ceil, todo, delivered>>

\* Firestore answers with the document, which is there, or with an error.
Answer(i) ==
    /\ cache[i].state = "sent"
    /\ cache[i].index < length
    /\ cache' = [cache EXCEPT ![i].state = "ready"]
    /\ UNCHANGED <<length, pc, ceil, todo, delivered>>

AnswerError(i, e) ==
    /\ cache[i].state = "sent"
    /\ cache' = [cache EXCEPT ![i].state = e]
    /\ UNCHANGED <<length, pc, ceil, todo, delivered>>

\* The future is ready: the watcher yields the action and goes on.
Deliver(w) ==
    /\ pc[w] = "fetch" /\ cache[Awaited(w)].state = "ready"
    /\ delivered' = [delivered EXCEPT ![w] = Append(@, cache[Awaited(w)].index)]
    /\ todo' = [todo EXCEPT ![w] = Tail(@)]
    /\ pc' = [pc EXCEPT ![w] = "wait"]
    /\ UNCHANGED <<length, cache, ceil>>

\* fetch_action(..).await.unwrap() inside of the shared future: an error panics
\* the watcher that polls it, and poisons the future for all the others.
Panic(w) ==
    /\ pc[w] = "fetch" /\ cache[Awaited(w)].state \in Failures
    /\ pc' = [pc EXCEPT ![w] = "panicked"]
    /\ UNCHANGED <<length, cache, ceil, todo, delivered>>

\* The Listen stream ends, after an error or without one, or the consumer drops
\* the stream at one of its awaits.  The cache keeps the future the watcher was
\* awaiting.  An error that is not the stream's last item (a metadata document
\* that cannot be read) is yielded and leaves the ceiling as it is: a stutter.
Stop(w) ==
    /\ pc[w] \in {"wait", "fetch"}
    /\ pc' = [pc EXCEPT ![w] = "stopped"]
    /\ UNCHANGED <<length, cache, ceil, todo, delivered>>

Next == \/ Grow
        \/ \E w \in Watchers :
              \/ Listen(w) \/ LookUp(w) \/ Fill(w) \/ Poll(w)
              \/ Deliver(w) \/ Panic(w) \/ Stop(w)
              \/ \E n \in 1..length : HearCount(w, n)
        \/ \E i \in DOMAIN cache : Answer(i) \/ \E e \in Failures : AnswerError(i, e)

Spec == Init /\ [][Next]_vars

(* Fairness: the runtime polls what can go on, Firestore answers a request *)
(* that was sent and eventually tells every listener the current count.    *)
Fairness ==
    /\ \A w \in Watchers :
          /\ WF_vars(LookUp(w) \/ Fill(w) \/ Poll(w) \/ Deliver(w) \/ Panic(w))
          /\ WF_vars(HearCount(w, length) /\ ceil[w] < length)
    /\ \A i \in 1..MaxLength : WF_vars(i \in DOMAIN cache /\ Answer(i))

FairSpec == Spec /\ Fairness

-----------------------------------------------------------------------------
TypeOK ==
    /\ length \in 0..MaxLength
    /\ cache \in Seq(Future)
    /\ pc \in [Watchers -> {"idle", "wait", "fill", "fetch", "panicked", "stopped"}]
    /\ ceil \in [Watchers -> Nat]
    /\ todo \in [Watchers -> Seq(Nat)]
    /\ delivered \in [Watchers -> Seq(Nat)]

\* The shared cache has one future per index, at its index, although watchers
\* decide that one is missing under the read lock and push it under the write
\* lock (datastore.rs:187-205), where others may have been in between.
CacheAligned == \A i \in DOMAIN cache : cache[i].index = i - 1

\* No request is sent for an action that is not in the log yet: such a request
\* fails, and its failure would stay in the cache for ever.
FetchesExisting == \A i \in DOMAIN cache : cache[i].state # "unpolled" => cache[i].index < length

\* Every watcher yields the log from its beginning, each action once and in
\* order, whatever counts Firestore repeats, skips or takes back.
DeliversPrefix ==
    \A w \in Watchers :
        /\ Len(delivered[w]) <= length
        /\ \A i \in 1..Len(delivered[w]) : delivered[w][i] = i - 1

\* A watcher that nothing ends yields every action of the log.
CatchesUp ==
    \A w \in Watchers : \A n \in 1..MaxLength :
        pc[w] = "wait" /\ length >= n ~>
            Len(delivered[w]) >= n \/ pc[w] \in {"stopped", "panicked"}

\* The comment on fetch_action, "Not found => error" (datastore.rs:113, 182),
\* and its type: a fetch that fails is an error of the call, not a panic.
FailedFetchIsAnError == \A w \in Watchers : pc[w] # "panicked"
=============================================================================
