--------------------------- MODULE TokenCacheProofs ---------------------------
(***************************************************************************)
(* Proofs about TokenCache, for any number of calls and threads and any    *)
(* times.                                                                  *)
(*                                                                         *)
(* TypeOK is inductive: it holds the exclusion of the lock.  The rest      *)
(* needs what a call knows when it stores a token: that the token is at    *)
(* least as late as the cached one, because nobody else has been able to   *)
(* fetch or to store since it was fetched.                                 *)
(***************************************************************************)
EXTENDS TokenCache, TLAPS

\* The clock has not gone back since a call began.
BeganBefore == \A c \in Calls : began[c] <= now

\* Only a call that has been in the source has a token of its own.
FetchedAtStore ==
    \A c \in Calls : /\ pc[c] \notin {"store", "done"} => fetched[c] = NoToken
                     /\ pc[c] = "store" => fetched[c] # NoToken /\ began[c] < fetched[c]

\* Nothing in the cache, or about to be, is later than the last token issued, and
\* what is about to be stored is no earlier than what is cached.
IssuedInOrder ==
    /\ cache # NoToken => cache <= issued
    /\ \A c \in Calls : pc[c] = "store" =>
          /\ fetched[c] <= issued
          /\ cache # NoToken => cache <= fetched[c]

IInv == TypeOK /\ BeganBefore /\ FetchedAtStore /\ IssuedInOrder /\ TokenIsFresh

-----------------------------------------------------------------------------
LEMMA InitIInv == Init => IInv
BY ParametersAssumption
   DEF Init, IInv, TypeOK, BeganBefore, FetchedAtStore, IssuedInOrder, TokenIsFresh

\* The steps from the call to the lock.
LEMMA LockStep ==
    ASSUME IInv, NEW c \in Calls,
           Begin(c) \/ ReadLock(c) \/ Refresh(c) \/ WriteLock(c)
    PROVE  IInv'
<1>1. queue' \in Seq(Calls)
  <2>1. queue \in Seq(Calls)
    BY DEF IInv, TypeOK
  <2>2. CASE queue' = Append(queue, c)
    BY <2>1, <2>2
  <2>3. CASE queue # <<>> /\ queue' = Tail(queue)
    BY <2>1, <2>3
  <2>. QED  BY <2>2, <2>3 DEF AtHead, Begin, ReadLock, Refresh, WriteLock
<1>2. TypeOK'
  <2>1. CASE Begin(c)
    BY <1>1, <2>1 DEF IInv, TypeOK, Begin
  <2>2. CASE ReadLock(c)
    BY <1>1, <2>2 DEF IInv, TypeOK, ReadLock
  <2>3. CASE Refresh(c)
    BY <1>1, <2>3 DEF IInv, TypeOK, Refresh
  <2>4. CASE WriteLock(c)
    BY <1>1, <2>4 DEF IInv, TypeOK, WriteLock
  <2>. QED  BY <2>1, <2>2, <2>3, <2>4
<1>3. BeganBefore'
  BY DEF IInv, TypeOK, BeganBefore, Begin, ReadLock, Refresh, WriteLock
<1>4. /\ UNCHANGED <<cache, fetched, issued, token>>
      /\ \A d \in Calls :
            /\ pc'[d] \in {"store", "done"} => pc'[d] = pc[d] /\ began'[d] = began[d]
            /\ pc[d] \in {"store", "done"} => pc'[d] = pc[d]
  BY DEF IInv, TypeOK, Begin, ReadLock, Refresh, WriteLock
<1>5. FetchedAtStore'
  BY <1>4 DEF IInv, FetchedAtStore
<1>6. IssuedInOrder'
  BY <1>4 DEF IInv, IssuedInOrder
<1>7. TokenIsFresh'
  BY <1>4 DEF IInv, TokenIsFresh
<1>. QED
  BY <1>2, <1>3, <1>5, <1>6, <1>7 DEF IInv

LEMMA UseCachedStep ==
    ASSUME IInv, NEW c \in Calls, UseCached(c)
    PROVE  IInv'
<1>1. cache \in Nat /\ now < cache - Margin
  BY DEF IInv, TypeOK, UseCached, Suitable
<1>2. began[c] < cache - Margin /\ began[c] < cache
  BY <1>1, ParametersAssumption DEF IInv, TypeOK, BeganBefore
<1>3. TypeOK'
  BY <1>1 DEF IInv, TypeOK, UseCached
<1>4. BeganBefore' /\ FetchedAtStore' /\ IssuedInOrder'
  BY DEF IInv, TypeOK, BeganBefore, FetchedAtStore, IssuedInOrder, UseCached
<1>5. TokenIsFresh'
  BY <1>1, <1>2, ParametersAssumption DEF IInv, TypeOK, TokenIsFresh, UseCached
<1>. QED
  BY <1>3, <1>4, <1>5 DEF IInv

LEMMA FetchStep ==
    ASSUME IInv, NEW c \in Calls, Fetch(c)
    PROVE  IInv'
<1>. USE DEF Fetch
\* c holds the lock alone.
<1>1. pc[c] = "fetch" /\ \A d \in Calls : pc[d] \in {"fetch", "store"} => d = c
  BY DEF IInv, TypeOK
<1>2. CASE Granted(c)
  <2>1. PICK e \in Issuable : fetched' = [fetched EXCEPT ![c] = e] /\ issued' = e
    BY <1>2 DEF Granted
  <2>2. e \in Nat /\ issued <= e /\ now < e
    BY ParametersAssumption DEF Issuable, IInv, TypeOK
  <2>3. TypeOK'
    BY <1>1, <1>2, <2>1, <2>2 DEF IInv, TypeOK, Granted
  <2>4. BeganBefore' /\ FetchedAtStore'
    BY <1>1, <1>2, <2>1, <2>2, ParametersAssumption
    DEF IInv, TypeOK, BeganBefore, FetchedAtStore, Granted
  <2>5. IssuedInOrder'
    BY <1>1, <1>2, <2>1, <2>2, ParametersAssumption DEF IInv, TypeOK, IssuedInOrder, Granted
  <2>6. TokenIsFresh'
    BY <1>1, <1>2, <2>1 DEF IInv, TypeOK, TokenIsFresh, Granted
  <2>. QED  BY <2>3, <2>4, <2>5, <2>6 DEF IInv
<1>3. CASE Denied(c)
  <2>1. TypeOK'
    BY <1>1, <1>3 DEF IInv, TypeOK, Denied
  <2>2. BeganBefore' /\ FetchedAtStore' /\ IssuedInOrder' /\ TokenIsFresh'
    BY <1>1, <1>3
    DEF IInv, TypeOK, BeganBefore, FetchedAtStore, IssuedInOrder, TokenIsFresh, Denied
  <2>. QED  BY <2>1, <2>2 DEF IInv
<1>. QED
  BY <1>2, <1>3

LEMMA StoreStep ==
    ASSUME IInv, NEW c \in Calls, Store(c)
    PROVE  IInv'
<1>. USE DEF Store
<1>1. pc[c] = "store" /\ \A d \in Calls : pc[d] \in {"fetch", "store"} => d = c
  BY DEF IInv, TypeOK
<1>2. fetched[c] \in Nat /\ began[c] < fetched[c] /\ fetched[c] <= issued
  BY <1>1 DEF IInv, TypeOK, FetchedAtStore, IssuedInOrder
<1>3. TypeOK'
  BY <1>1, <1>2 DEF IInv, TypeOK
<1>4. BeganBefore' /\ FetchedAtStore'
  BY <1>1 DEF IInv, TypeOK, BeganBefore, FetchedAtStore
<1>5. IssuedInOrder'
  BY <1>1, <1>2 DEF IInv, TypeOK, IssuedInOrder
<1>6. TokenIsFresh'
  BY <1>1, <1>2, ParametersAssumption DEF IInv, TypeOK, TokenIsFresh
<1>. QED
  BY <1>3, <1>4, <1>5, <1>6 DEF IInv

LEMMA NextIInv == IInv /\ [Next]_vars => IInv'
<1>. SUFFICES ASSUME IInv, [Next]_vars
              PROVE  IInv'
  OBVIOUS
<1>1. CASE UNCHANGED vars
  BY <1>1 DEF vars, lockVars, IInv, TypeOK, BeganBefore, FetchedAtStore, IssuedInOrder, TokenIsFresh
<1>2. CASE Tick
  BY <1>2 DEF Tick, lockVars, IInv, TypeOK, BeganBefore, FetchedAtStore, IssuedInOrder, TokenIsFresh
<1>3. CASE Next
  BY <1>2, <1>3, LockStep, UseCachedStep, FetchStep, StoreStep DEF Next
<1>. QED
  BY <1>1, <1>3

-----------------------------------------------------------------------------
LEMMA Invariance == Spec => []IInv
BY InitIInv, NextIInv, PTL DEF Spec

\* Where a call is tells what it holds: a writer has the lock of the cache alone,
\* from the fetch to the store (auth.rs:291-293).
THEOREM LockCorrect == Spec => []TypeOK
<1>1. IInv => TypeOK
  BY DEF IInv
<1>. QED
  BY Invariance, <1>1, PTL

\* No request goes out with a token that was stale when the request began.
THEOREM TokensFresh == Spec => []TokenIsFresh
<1>1. IInv => TokenIsFresh
  BY DEF IInv
<1>. QED
  BY Invariance, <1>1, PTL

\* However many calls refresh the token at once, the cache only moves on.
THEOREM CacheMovesOn == Spec => CacheOnlyRenewed
<1>1. ASSUME IInv, [Next]_vars
      PROVE  [cache' # cache => cache' # NoToken /\ (cache # NoToken => cache < cache')]_vars
  <2>1. CASE \E c \in Calls : Store(c)
    <3>1. PICK c \in Calls : Store(c)
      BY <2>1
    <3>2. cache' = fetched[c] /\ fetched[c] \in Nat
      BY <1>1, <3>1 DEF IInv, TypeOK, FetchedAtStore, Store
    <3>3. cache # NoToken => cache \in Nat /\ cache <= fetched[c]
      BY <1>1, <3>1 DEF IInv, TypeOK, IssuedInOrder, Store
    <3>. QED
      BY <3>2, <3>3, ParametersAssumption
  <2>2. CASE ~ \E c \in Calls : Store(c)
    BY <1>1, <2>2
    DEF Next, Begin, ReadLock, UseCached, Refresh, WriteLock, Fetch, Tick, vars
  <2>. QED
    BY <2>1, <2>2
<1>. QED
  BY Invariance, <1>1, PTL DEF Spec, CacheOnlyRenewed
=============================================================================
