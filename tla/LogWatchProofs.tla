---------------------------- MODULE LogWatchProofs ----------------------------
(***************************************************************************)
(* Proofs about LogWatch, for any number of watchers, logs of any length   *)
(* and whatever errors Firestore answers with.                             *)
(*                                                                         *)
(* That a watcher yields a prefix of the log is not inductive: the next    *)
(* action it yields is the one in the cache at the place of its next       *)
(* index.  IInv says what fill_in_gaps has produced beyond the actions     *)
(* yielded (TodoFollows), and where the watcher's future is                *)
(* (FutureInPlace); with CacheAligned the three give the next action.      *)
(***************************************************************************)
EXTENDS LogWatch, SequenceTheorems, TLAPS

\* What was produced is what was yielded and what is still to be fetched, one
\* index after the other, all of them in the log.
TodoFollows ==
    \A w \in Watchers :
        /\ ceil[w] <= length
        /\ Len(delivered[w]) + Len(todo[w]) = ceil[w]
        /\ \A i \in 1..Len(todo[w]) : todo[w][i] = Len(delivered[w]) + i - 1

\* A watcher in fetch_action has an index to fetch, and awaits a future that is
\* in the cache.
FutureInPlace ==
    \A w \in Watchers :
        /\ pc[w] \in {"fill", "fetch"} => todo[w] # <<>>
        /\ pc[w] = "fetch" => Awaited(w) \in DOMAIN cache

IInv == /\ TypeOK /\ CacheAligned /\ FetchesExisting /\ DeliversPrefix
        /\ TodoFollows /\ FutureInPlace

-----------------------------------------------------------------------------
(* Facts about the sequences that the actions build.                        *)

LEMMA FunctionIsSequence ==
    ASSUME NEW S, NEW n \in Nat, NEW s \in [1..n -> S]
    PROVE  s \in Seq(S) /\ Len(s) = n
<1>1. s \in Seq(S)
  BY SeqDef
<1>2. Len(s) \in Nat /\ DOMAIN s = 1..Len(s) /\ DOMAIN s = 1..n
  BY <1>1, LenProperties
<1>. QED
  BY <1>1, <1>2

\* What is yielded and what is still to be fetched, before and after a delivery.
LEMMA Sums ==
    ASSUME NEW a \in Nat, NEW b \in Nat \ {0}
    PROVE  a < a + b /\ (a + 1) + (b - 1) = a + b
OBVIOUS

\* A watcher with an index to fetch: which index it is, and what is left then.
LEMMA NextIndex ==
    ASSUME TypeOK, TodoFollows, NEW w \in Watchers, todo[w] # <<>>
    PROVE  /\ Len(todo[w]) \in Nat \ {0}
           /\ Head(todo[w]) = Len(delivered[w]) /\ Head(todo[w]) \in Nat
           /\ Head(todo[w]) < ceil[w] /\ Head(todo[w]) < length
           /\ Tail(todo[w]) \in Seq(Nat)
           /\ Len(Tail(todo[w])) = Len(todo[w]) - 1
           /\ \A i \in 1..Len(Tail(todo[w])) : Tail(todo[w])[i] = todo[w][i + 1]
<1>1. todo[w] \in Seq(Nat) /\ delivered[w] \in Seq(Nat) /\ ceil[w] \in Nat /\ length \in Nat
  BY MaxLengthAssumption DEF TypeOK
<1>2. Len(todo[w]) \in Nat \ {0} /\ Len(delivered[w]) \in Nat
  BY <1>1, EmptySeq, LenProperties
<1>3. Head(todo[w]) = todo[w][1]
  BY <1>1, <1>2
<1>4. /\ ceil[w] <= length /\ Len(delivered[w]) + Len(todo[w]) = ceil[w]
      /\ \A i \in 1..Len(todo[w]) : todo[w][i] = Len(delivered[w]) + i - 1
  BY Zenon DEF TodoFollows
<1>5. todo[w][1] = Len(delivered[w])
  <2>1. 1 \in 1..Len(todo[w])
    BY <1>2
  <2>2. todo[w][1] = Len(delivered[w]) + 1 - 1
    BY <1>4, <2>1
  <2>. QED  BY <1>2, <2>2
<1>6. Len(delivered[w]) < ceil[w]
  <2>1. ceil[w] = Len(delivered[w]) + Len(todo[w])
    BY <1>4
  <2>. QED  BY <1>2, <2>1, Sums
<1>7. /\ Tail(todo[w]) \in Seq(Nat) /\ Len(Tail(todo[w])) = Len(todo[w]) - 1
      /\ \A i \in 1..Len(Tail(todo[w])) : Tail(todo[w])[i] = todo[w][i + 1]
  BY <1>1, HeadTailProperties
<1>. QED
  BY <1>1, <1>2, <1>3, <1>4, <1>5, <1>6, <1>7

\* The future that a watcher awaits is the one of its index.
LEMMA AwaitedFuture ==
    ASSUME IInv, NEW w \in Watchers, pc[w] = "fetch"
    PROVE  /\ Awaited(w) \in DOMAIN cache
           /\ cache[Awaited(w)] \in Future
           /\ cache[Awaited(w)].index = Len(delivered[w])
           /\ Len(delivered[w]) < length
<1>1. todo[w] # <<>> /\ Awaited(w) \in DOMAIN cache
  BY DEF IInv, FutureInPlace
<1>2. Head(todo[w]) = Len(delivered[w]) /\ Head(todo[w]) < length /\ Head(todo[w]) \in Nat
  BY <1>1, NextIndex DEF IInv
<1>3. cache[Awaited(w)] \in Future
  BY <1>1, LenProperties, ElementOfSeq DEF IInv, TypeOK
<1>4. cache[Awaited(w)].index = Head(todo[w])
  BY <1>1, <1>2 DEF IInv, CacheAligned, Awaited
<1>. QED
  BY <1>1, <1>2, <1>3, <1>4

-----------------------------------------------------------------------------
LEMMA InitIInv == Init => IInv
<1>. SUFFICES ASSUME Init PROVE IInv
  OBVIOUS
<1>1. \A S : <<>> \in Seq(S) /\ Len(<<>>) = 0
  BY EmptySeq
<1>2. DOMAIN cache = {}
  BY <1>1, LenProperties DEF Init
<1>3. TypeOK
  BY <1>1, MaxLengthAssumption DEF Init, TypeOK
<1>4. CacheAligned /\ FetchesExisting
  BY <1>2 DEF CacheAligned, FetchesExisting
<1>5. DeliversPrefix /\ TodoFollows /\ FutureInPlace
  BY <1>1, MaxLengthAssumption DEF Init, DeliversPrefix, TodoFollows, FutureInPlace
<1>. QED
  BY <1>3, <1>4, <1>5 DEF IInv

LEMMA GrowStep ==
    ASSUME IInv, Grow
    PROVE  IInv'
<1>1. length \in Nat /\ length' \in 0..MaxLength /\ length' = length + 1
  BY MaxLengthAssumption DEF IInv, TypeOK, Grow
<1>2. UNCHANGED <<cache, pc, ceil, todo, delivered>>
  BY DEF Grow
<1>3. TypeOK'
  BY <1>1, <1>2 DEF IInv, TypeOK
<1>4. CacheAligned' /\ FutureInPlace'
  BY <1>2 DEF IInv, CacheAligned, FutureInPlace, Awaited
<1>5. FetchesExisting'
  <2>1. \A i \in DOMAIN cache : cache[i] \in Future
    BY LenProperties, ElementOfSeq DEF IInv, TypeOK
  <2>2. \A i \in DOMAIN cache : cache[i].index \in Nat
    BY <2>1 DEF Future
  <2>. QED  BY <1>1, <1>2, <2>2 DEF IInv, FetchesExisting
<1>6. DeliversPrefix' /\ TodoFollows'
  <2>1. ASSUME NEW w \in Watchers
        PROVE  ceil[w] <= length' /\ Len(delivered[w]) <= length'
    <3>1. ceil[w] \in Nat /\ delivered[w] \in Seq(Nat)
      BY DEF IInv, TypeOK
    <3>2. Len(delivered[w]) \in Nat
      BY <3>1, LenProperties
    <3>3. ceil[w] <= length /\ Len(delivered[w]) <= length
      BY DEF IInv, DeliversPrefix, TodoFollows
    <3>. QED  BY <1>1, <3>1, <3>2, <3>3
  <2>. QED  BY <1>2, <2>1, Zenon DEF IInv, DeliversPrefix, TodoFollows
<1>. QED
  BY <1>3, <1>4, <1>5, <1>6 DEF IInv

\* The steps that move a watcher and nothing else.
LEMMA MoveStep ==
    ASSUME IInv, NEW w \in Watchers, Listen(w) \/ LookUp(w) \/ Panic(w) \/ Stop(w)
    PROVE  IInv'
<1>1. UNCHANGED <<length, cache, ceil, todo, delivered>>
  BY DEF Listen, LookUp, Panic, Stop
<1>2. TypeOK'
  BY <1>1 DEF IInv, TypeOK, Listen, LookUp, Panic, Stop
<1>3. CacheAligned' /\ FetchesExisting' /\ DeliversPrefix' /\ TodoFollows'
  BY <1>1 DEF IInv, CacheAligned, FetchesExisting, DeliversPrefix, TodoFollows
<1>4. FutureInPlace'
  <2>1. CASE LookUp(w)
    <3>1. todo[w] # <<>> /\ Head(todo[w]) \in Nat
      BY <2>1, NextIndex DEF IInv, LookUp
    <3>2. Head(todo[w]) < Len(cache) => Awaited(w) \in DOMAIN cache
      BY <3>1, LenProperties DEF IInv, TypeOK, Awaited
    <3>. QED
      BY <1>1, <2>1, <3>1, <3>2 DEF IInv, TypeOK, FutureInPlace, Awaited, LookUp
  <2>2. CASE Listen(w) \/ Panic(w) \/ Stop(w)
    BY <1>1, <2>2 DEF IInv, TypeOK, FutureInPlace, Awaited, Listen, Panic, Stop
  <2>. QED
    BY <2>1, <2>2
<1>. QED
  BY <1>2, <1>3, <1>4 DEF IInv

\* A count that Firestore tells appends to what is produced the indexes up to it.
LEMMA HearCountStep ==
    ASSUME IInv, NEW w \in Watchers, NEW n \in 1..length, HearCount(w, n)
    PROVE  IInv'
<1>. DEFINE k == IF n > ceil[w] THEN n - ceil[w] ELSE 0
            new == [i \in 1..k |-> ceil[w] + i - 1]
<1>1. ceil[w] \in Nat /\ length \in Nat /\ n \in Nat /\ n <= length
  BY MaxLengthAssumption DEF IInv, TypeOK
<1>2. k \in Nat /\ new \in [1..k -> Nat]
  BY <1>1
<1>3. new \in Seq(Nat) /\ Len(new) = k
  BY <1>2, FunctionIsSequence
<1>4. /\ todo[w] = <<>> /\ todo' = [todo EXCEPT ![w] = new]
      /\ ceil' = [ceil EXCEPT ![w] = IF n > @ THEN n ELSE @]
      /\ UNCHANGED <<length, cache, pc, delivered>> /\ pc[w] = "wait"
  BY DEF HearCount
<1>5. TypeOK'
  BY <1>1, <1>3, <1>4 DEF IInv, TypeOK
<1>6. CacheAligned' /\ FetchesExisting' /\ DeliversPrefix'
  BY <1>4 DEF IInv, CacheAligned, FetchesExisting, DeliversPrefix
<1>7. FutureInPlace'
  BY <1>4 DEF IInv, TypeOK, FutureInPlace, Awaited
<1>8. TodoFollows'
  <2>1. Len(delivered[w]) = ceil[w] /\ ceil[w] <= length
    <3>1. Len(todo[w]) = 0 /\ Len(delivered[w]) \in Nat
      BY <1>4, EmptySeq, LenProperties DEF IInv, TypeOK
    <3>2. Len(delivered[w]) + Len(todo[w]) = ceil[w] /\ ceil[w] <= length
      BY Zenon DEF IInv, TodoFollows
    <3>. QED  BY <3>1, <3>2
  <2>2. /\ todo'[w] = new /\ delivered'[w] = delivered[w] /\ length' = length
        /\ ceil'[w] = ceil[w] + k
    BY <1>1, <1>4 DEF IInv, TypeOK
  <2>3. ASSUME NEW v \in Watchers, v # w
        PROVE  todo'[v] = todo[v] /\ delivered'[v] = delivered[v] /\ ceil'[v] = ceil[v]
    <3>1. todo \in [Watchers -> Seq(Nat)] /\ ceil \in [Watchers -> Nat]
      BY DEF IInv, TypeOK
    <3>2. todo'[v] = todo[v]
      BY <1>4, <2>3, <3>1, Zenon
    <3>3. ceil'[v] = ceil[v] /\ delivered'[v] = delivered[v]
      BY <1>4, <2>3, <3>1
    <3>. QED  BY <3>2, <3>3
  <2>4. ceil'[w] <= length' /\ Len(delivered'[w]) + Len(todo'[w]) = ceil'[w]
    <3>1. ceil[w] + k <= length
      BY <1>1, <2>1
    <3>2. Len(new) = k
      BY <1>3
    <3>. HIDE DEF new, k
    <3>. QED  BY <2>1, <2>2, <3>1, <3>2
  <2>5. \A i \in 1..Len(todo'[w]) : todo'[w][i] = Len(delivered'[w]) + i - 1
    BY <1>3, <2>1, <2>2
  <2>. QED
    <3>. SUFFICES ASSUME NEW v \in Watchers
                  PROVE  /\ ceil'[v] <= length'
                         /\ Len(delivered'[v]) + Len(todo'[v]) = ceil'[v]
                         /\ \A i \in 1..Len(todo'[v]) : todo'[v][i] = Len(delivered'[v]) + i - 1
      BY Zenon DEF TodoFollows
    <3>1. /\ ceil[v] <= length
          /\ Len(delivered[v]) + Len(todo[v]) = ceil[v]
          /\ \A i \in 1..Len(todo[v]) : todo[v][i] = Len(delivered[v]) + i - 1
      BY Zenon DEF IInv, TodoFollows
    <3>2. CASE v = w
      BY <2>4, <2>5, <3>2, Zenon
    <3>3. CASE v # w
      BY <2>2, <2>3, <3>1, <3>3, Zenon
    <3>. QED
      BY <3>2, <3>3
<1>. QED
  BY <1>5, <1>6, <1>7, <1>8 DEF IInv

\* A miss only appends futures that are unpolled, at their indexes, up to the
\* watcher's own.
LEMMA FillStep ==
    ASSUME IInv, NEW w \in Watchers, Fill(w)
    PROVE  IInv'
<1>. DEFINE h == Head(todo[w])
            k == IF h < Len(cache) THEN 0 ELSE h + 1 - Len(cache)
            new == [j \in 1..k |-> NewFuture(Len(cache) + j - 1)]
<1>1. todo[w] # <<>> /\ h \in Nat /\ cache \in Seq(Future) /\ Len(cache) \in Nat
      /\ DOMAIN cache = 1..Len(cache)
  BY NextIndex, LenProperties DEF IInv, TypeOK, FutureInPlace, Fill
<1>2. k \in Nat /\ new \in [1..k -> Future]
  BY <1>1 DEF NewFuture, Future, FutureStates
<1>3. new \in Seq(Future) /\ Len(new) = k
  BY <1>2, FunctionIsSequence
<1>4. cache' = cache \o new /\ pc' = [pc EXCEPT ![w] = "fetch"]
      /\ UNCHANGED <<length, ceil, todo, delivered>>
  BY DEF Fill
<1>5. /\ cache' \in Seq(Future) /\ Len(cache') = Len(cache) + k
      /\ \A i \in 1..(Len(cache) + k) :
            cache'[i] = IF i <= Len(cache) THEN cache[i] ELSE new[i - Len(cache)]
  <2>. HIDE DEF k, new
  <2>1. /\ cache \o new \in Seq(Future) /\ Len(cache \o new) = Len(cache) + Len(new)
        /\ \A i \in 1..Len(cache) + Len(new) : (cache \o new)[i] =
              IF i <= Len(cache) THEN cache[i] ELSE new[i - Len(cache)]
    BY <1>1, <1>3, ConcatProperties
  <2>. QED  BY <1>3, <1>4, <2>1
<1>6. DOMAIN cache' = 1..(Len(cache) + k) /\ h + 1 <= Len(cache) + k
  BY <1>1, <1>2, <1>5, LenProperties
<1>7. \A i \in 1..(Len(cache) + k) :
        cache'[i] = IF i <= Len(cache) THEN cache[i] ELSE NewFuture(i - 1)
  <2>. SUFFICES ASSUME NEW i \in 1..(Len(cache) + k), ~(i <= Len(cache))
                PROVE  new[i - Len(cache)] = NewFuture(i - 1)
    BY <1>5
  <2>1. i - Len(cache) \in 1..k /\ Len(cache) + (i - Len(cache)) - 1 = i - 1
    BY <1>1, <1>2
  <2>. QED  BY <2>1
<1>. HIDE DEF k, new
<1>8. TypeOK'
  BY <1>4, <1>5 DEF IInv, TypeOK
<1>9. CacheAligned' /\ FetchesExisting'
  <2>. SUFFICES ASSUME NEW i \in 1..(Len(cache) + k)
                PROVE  /\ cache'[i].index = i - 1
                       /\ cache'[i].state # "unpolled" => cache'[i].index < length
    BY <1>4, <1>6 DEF CacheAligned, FetchesExisting
  <2>1. CASE i <= Len(cache)
    BY <1>1, <1>2, <1>7, <2>1 DEF IInv, CacheAligned, FetchesExisting
  <2>2. CASE ~(i <= Len(cache))
    <3>1. cache'[i] = NewFuture(i - 1)
      BY <1>7, <2>2
    <3>. QED  BY <3>1 DEF NewFuture
  <2>. QED  BY <2>1, <2>2
<1>10. DeliversPrefix' /\ TodoFollows'
  BY <1>4 DEF IInv, DeliversPrefix, TodoFollows
<1>11. FutureInPlace'
  <2>1. Awaited(w)' \in DOMAIN cache' /\ todo'[w] # <<>>
    BY <1>1, <1>2, <1>4, <1>6 DEF Awaited
  <2>2. DOMAIN cache \subseteq DOMAIN cache'
    BY <1>1, <1>2, <1>6
  <2>3. \A v \in Watchers \ {w} : pc'[v] = pc[v] /\ Awaited(v)' = Awaited(v) /\ todo'[v] = todo[v]
    BY <1>4 DEF IInv, TypeOK, Awaited
  <2>. QED
    BY <2>1, <2>2, <2>3 DEF IInv, FutureInPlace
<1>. QED
  BY <1>8, <1>9, <1>10, <1>11 DEF IInv

\* A future changes its state; if it is a poll, its action is in the log.
LEMMA FutureStep ==
    ASSUME IInv, NEW i \in DOMAIN cache, NEW st \in FutureStates,
           cache' = [cache EXCEPT ![i].state = st],
           cache[i].index < length,
           UNCHANGED <<length, pc, ceil, todo, delivered>>
    PROVE  IInv'
<1>1. cache \in Seq(Future) /\ DOMAIN cache = 1..Len(cache) /\ cache[i] \in Future
  BY LenProperties, ElementOfSeq DEF IInv, TypeOK
<1>. DEFINE f == [cache[i] EXCEPT !.state = st]
<1>2. f \in Future /\ f.index = cache[i].index
  BY <1>1 DEF Future
<1>3. cache' = [cache EXCEPT ![i] = f]
  OBVIOUS
<1>4. /\ cache' \in Seq(Future) /\ Len(cache') = Len(cache)
      /\ \A j \in 1..Len(cache) : cache'[j] = IF j = i THEN f ELSE cache[j]
  BY <1>1, <1>2, <1>3, ExceptSeq
<1>5. DOMAIN cache' = DOMAIN cache
  BY <1>3
<1>. HIDE DEF f
<1>6. TypeOK'
  BY <1>4 DEF IInv, TypeOK
<1>7. CacheAligned' /\ FetchesExisting'
  BY <1>1, <1>2, <1>4, <1>5 DEF IInv, CacheAligned, FetchesExisting
<1>8. DeliversPrefix' /\ TodoFollows' /\ FutureInPlace'
  BY <1>5 DEF IInv, DeliversPrefix, TodoFollows, FutureInPlace, Awaited
<1>. QED
  BY <1>6, <1>7, <1>8 DEF IInv

LEMMA PollStep ==
    ASSUME IInv, NEW w \in Watchers, Poll(w)
    PROVE  IInv'
<1>1. Awaited(w) \in DOMAIN cache /\ cache[Awaited(w)].index < length
  BY AwaitedFuture DEF Poll
<1>2. "sent" \in FutureStates
  BY DEF FutureStates
<1>. QED
  BY <1>1, <1>2, FutureStep DEF Poll

LEMMA AnswerStep ==
    ASSUME IInv, NEW i \in DOMAIN cache,
           Answer(i) \/ \E e \in Failures : AnswerError(i, e)
    PROVE  IInv'
<1>1. CASE Answer(i)
  <2>1. "ready" \in FutureStates
    BY DEF FutureStates
  <2>. QED  BY <1>1, <2>1, FutureStep DEF Answer
<1>2. ASSUME NEW e \in Failures, AnswerError(i, e) PROVE IInv'
  <2>1. e \in FutureStates
    BY DEF FutureStates
  <2>2. cache[i].index < length
    BY <1>2 DEF IInv, FetchesExisting, AnswerError
  <2>. QED  BY <1>2, <2>1, <2>2, FutureStep DEF AnswerError
<1>. QED
  BY <1>1, <1>2

\* The action a watcher yields is the next of the log.
LEMMA DeliverStep ==
    ASSUME IInv, NEW w \in Watchers, Deliver(w)
    PROVE  IInv'
<1>. DEFINE d == Len(delivered[w])
<1>1. /\ pc[w] = "fetch" /\ UNCHANGED <<length, cache, ceil>>
      /\ delivered' = [delivered EXCEPT ![w] = Append(@, cache[Awaited(w)].index)]
      /\ todo' = [todo EXCEPT ![w] = Tail(@)]
      /\ pc' = [pc EXCEPT ![w] = "wait"]
  BY DEF Deliver
<1>2. cache[Awaited(w)].index = d /\ d < length /\ todo[w] # <<>>
  BY <1>1, AwaitedFuture DEF IInv, FutureInPlace
<1>3. delivered[w] \in Seq(Nat) /\ d \in Nat /\ length \in Nat
  BY LenProperties, MaxLengthAssumption DEF IInv, TypeOK
<1>4. delivered'[w] = Append(delivered[w], d) /\ todo'[w] = Tail(todo[w])
  BY <1>1, <1>2 DEF IInv, TypeOK
<1>5. /\ delivered'[w] \in Seq(Nat) /\ Len(delivered'[w]) = d + 1
      /\ \A i \in 1..d : delivered'[w][i] = delivered[w][i]
      /\ delivered'[w][d + 1] = d
  BY <1>3, <1>4
<1>6. /\ todo'[w] \in Seq(Nat) /\ Len(todo'[w]) = Len(todo[w]) - 1
      /\ Len(todo[w]) \in Nat \ {0}
      /\ \A i \in 1..Len(todo'[w]) : todo'[w][i] = todo[w][i + 1]
  BY <1>2, <1>4, NextIndex DEF IInv
<1>7. \A v \in Watchers \ {w} : /\ delivered'[v] = delivered[v] /\ todo'[v] = todo[v]
                                 /\ pc'[v] = pc[v]
  BY <1>1 DEF IInv, TypeOK
<1>8. TypeOK'
  <2>1. delivered' \in [Watchers -> Seq(Nat)] /\ todo' \in [Watchers -> Seq(Nat)]
    BY <1>1, <1>5, <1>6, <1>7 DEF IInv, TypeOK
  <2>. QED  BY <1>1, <2>1 DEF IInv, TypeOK
<1>9. CacheAligned' /\ FetchesExisting'
  BY <1>1 DEF IInv, CacheAligned, FetchesExisting
<1>10. DeliversPrefix'
  <2>1. \A i \in 1..(d + 1) : delivered'[w][i] = i - 1
    <3>1. \A i \in 1..d : delivered[w][i] = i - 1
      BY DEF IInv, DeliversPrefix
    <3>2. ASSUME NEW i \in 1..(d + 1) PROVE delivered'[w][i] = i - 1
      <4>1. CASE i \in 1..d
        BY <1>5, <3>1, <4>1
      <4>2. CASE i = d + 1
        <5>1. delivered'[w][i] = d
          BY <1>5, <4>2
        <5>. QED  BY <1>3, <4>2, <5>1
      <4>. QED  BY <1>3, <4>1, <4>2
    <3>. QED  BY <3>2
  <2>. QED
    BY <1>1, <1>2, <1>3, <1>5, <1>7, <2>1 DEF IInv, DeliversPrefix
<1>11. TodoFollows'
  <2>1. /\ ceil[w] <= length /\ d + Len(todo[w]) = ceil[w]
        /\ \A i \in 1..Len(todo[w]) : todo[w][i] = d + i - 1
    BY DEF IInv, TodoFollows
  <2>2. Len(delivered'[w]) + Len(todo'[w]) = ceil[w]
    <3>1. Len(delivered'[w]) = d + 1 /\ Len(todo'[w]) = Len(todo[w]) - 1
      BY <1>5, <1>6
    <3>2. d + Len(todo[w]) = ceil[w]
      BY <2>1
    <3>3. (d + 1) + (Len(todo[w]) - 1) = d + Len(todo[w])
      BY <1>3, <1>6, Sums
    <3>. QED  BY <3>1, <3>2, <3>3, Zenon
  <2>3. \A i \in 1..Len(todo'[w]) : todo'[w][i] = Len(delivered'[w]) + i - 1
    <3>. SUFFICES ASSUME NEW i \in 1..Len(todo'[w])
                  PROVE  todo'[w][i] = Len(delivered'[w]) + i - 1
      OBVIOUS
    <3>1. i + 1 \in 1..Len(todo[w]) /\ todo'[w][i] = todo[w][i + 1]
      BY <1>6
    <3>2. todo[w][i + 1] = d + (i + 1) - 1
      BY <2>1, <3>1
    <3>. QED  BY <1>3, <1>5, <3>1, <3>2
  <2>4. ASSUME NEW v \in Watchers \ {w}
        PROVE  /\ ceil[v] <= length
               /\ Len(delivered'[v]) + Len(todo'[v]) = ceil[v]
               /\ \A i \in 1..Len(todo'[v]) : todo'[v][i] = Len(delivered'[v]) + i - 1
    <3>1. delivered'[v] = delivered[v] /\ todo'[v] = todo[v]
      BY <1>7
    <3>. QED  BY <3>1 DEF IInv, TodoFollows
  <2>5. ceil' = ceil /\ length' = length
    BY <1>1
  <2>. QED
    BY <2>1, <2>2, <2>3, <2>4, <2>5 DEF TodoFollows
<1>12. FutureInPlace'
  BY <1>1, <1>7 DEF IInv, TypeOK, FutureInPlace, Awaited
<1>. QED
  BY <1>8, <1>9, <1>10, <1>11, <1>12 DEF IInv

LEMMA NextIInv == IInv /\ [Next]_vars => IInv'
<1>. SUFFICES ASSUME IInv, [Next]_vars
              PROVE  IInv'
  OBVIOUS
<1>1. CASE UNCHANGED vars
  BY <1>1 DEF vars, IInv, TypeOK, CacheAligned, FetchesExisting, DeliversPrefix,
              TodoFollows, FutureInPlace, Awaited
<1>2. CASE Next
  BY <1>2, GrowStep, MoveStep, HearCountStep, FillStep, PollStep, AnswerStep, DeliverStep
  DEF Next
<1>. QED
  BY <1>1, <1>2

-----------------------------------------------------------------------------
LEMMA Invariance == Spec => []IInv
BY InitIInv, NextIInv, PTL DEF Spec

\* The watchers and the cache are well-typed.
THEOREM TypeCorrect == Spec => []TypeOK
<1>1. IInv => TypeOK
  BY DEF IInv
<1>. QED
  BY Invariance, <1>1, PTL

\* The shared cache has one future per index, at its place, however many
\* watchers fill it between each other's locks (datastore.rs:187-205).
THEOREM CacheIsAligned == Spec => []CacheAligned
<1>1. IInv => CacheAligned
  BY DEF IInv
<1>. QED
  BY Invariance, <1>1, PTL

\* Nothing is requested that is not in the log, so no fetch fails for it.
THEOREM OnlyExistingFetched == Spec => []FetchesExisting
<1>1. IInv => FetchesExisting
  BY DEF IInv
<1>. QED
  BY Invariance, <1>1, PTL

\* Every watcher yields a prefix of the log, each action once and in order,
\* whatever counts Firestore repeats, skips or takes back.
THEOREM WatchersReadTheLog == Spec => []DeliversPrefix
<1>1. IInv => DeliversPrefix
  BY DEF IInv
<1>. QED
  BY Invariance, <1>1, PTL
=============================================================================
