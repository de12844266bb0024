------------------------------ MODULE TokenCache ------------------------------
(***************************************************************************)
(* The access tokens of the server (be/server/src/auth.rs, and the         *)
(* interceptor of main.rs:287-298).  Every request to Firestore passes the *)
(* interceptor, which blocks its thread (block_on) until                   *)
(* CachedTokenSource::token has a token: the cached one, looked at under   *)
(* the read lock, or a new one, fetched and stored under the write lock.   *)
(*                                                                         *)
(* The calls run on the worker threads of tokio; one that waits for a lock *)
(* keeps its thread.  The lock is tokio's RwLock, whose waiters queue:     *)
(* nobody gets it before those who asked earlier.  Time is a clock that    *)
(* never runs back.                                                        *)
(*                                                                         *)
(* A token is its expiration.  The source of tokens is external: the key   *)
(* of a service account, which signs a token of one hour, or the metadata  *)
(* server, which keeps a token and hands it out until it makes a new one.  *)
(* Either way a token expires no earlier than the ones before it (but for  *)
(* the seconds that expires_in is rounded to).                             *)
(***************************************************************************)
EXTENDS Integers, Sequences, FiniteSets

CONSTANTS
    Calls,          \* the requests to Firestore
    Threads,        \* how many worker threads there are
    Margin,         \* the five minutes a cached token must have left
    Lifetime,       \* the longest lifetime of a token, when it is handed out
    MaxTime,        \* bound: the clock stops there
    NoToken         \* Option::None, and a call that has no token

ASSUME ParametersAssumption ==
    /\ Threads \in Nat \ {0}
    /\ Margin \in Nat /\ Lifetime \in Nat /\ MaxTime \in Nat
    /\ NoToken \notin Nat

VARIABLES
    now,            \* SystemTime::now()
    cache,          \* the cached Option<Token>
    readers,        \* calls that hold the read lock
    writer,         \* calls that hold the write lock
    queue,          \* calls that wait for the lock, in order
    pc,             \* per call: where it is
    fetched,        \* per call: what the source gave it, under the write lock
    issued,         \* the last token the source gave to anyone
    token,          \* per call: the token it was given
    began           \* history: when the call began

vars == <<now, cache, readers, writer, queue, pc, fetched, issued, token, began>>

lockVars == <<readers, writer, queue>>

\* A call in the interceptor has a thread, whatever it waits for.
Running == {c \in Calls : pc[c] \in {"read", "look", "write", "fetch", "store"}}

ThreadFree == Cardinality(Running) < Threads

Init == /\ now = 0
        /\ cache = NoToken
        /\ readers = {} /\ writer = {} /\ queue = <<>>
        /\ pc = [c \in Calls |-> "idle"]
        /\ fetched = [c \in Calls |-> NoToken]
        /\ issued = 0
        /\ token = [c \in Calls |-> NoToken]
        /\ began = [c \in Calls |-> 0]

-----------------------------------------------------------------------------
\* A request meets the interceptor, on a free thread: cache.read().await.
Begin(c) ==
    /\ pc[c] = "idle" /\ ThreadFree
    /\ pc' = [pc EXCEPT ![c] = "read"]
    /\ queue' = Append(queue, c)
    /\ began' = [began EXCEPT ![c] = now]
    /\ UNCHANGED <<now, cache, readers, writer, fetched, issued, token>>

AtHead(c) == queue # <<>> /\ Head(queue) = c

ReadLock(c) ==
    /\ pc[c] = "read" /\ AtHead(c) /\ writer = {}
    /\ readers' = readers \cup {c}
    /\ queue' = Tail(queue)
    /\ pc' = [pc EXCEPT ![c] = "look"]
    /\ UNCHANGED <<now, cache, writer, fetched, issued, token, began>>

\* Faulty variant: any token that has not expired is suitable.
SuitableUntilExpired == cache # NoToken /\ now < cache

\* now() < expiration - 5 min.
Suitable == cache # NoToken /\ now < cache - Margin

\* The cached token is returned, or the read lock is given back and the write
\* lock asked for.
UseCached(c) ==
    /\ pc[c] = "look" /\ Suitable
    /\ token' = [token EXCEPT ![c] = cache]
    /\ readers' = readers \ {c}
    /\ pc' = [pc EXCEPT ![c] = "done"]
    /\ UNCHANGED <<now, cache, writer, queue, fetched, issued, began>>

Refresh(c) ==
    /\ pc[c] = "look" /\ ~Suitable
    /\ readers' = readers \ {c}
    /\ queue' = Append(queue, c)
    /\ pc' = [pc EXCEPT ![c] = "write"]
    /\ UNCHANGED <<now, cache, writer, fetched, issued, token, began>>

\* Faulty variant: a writer waits for the readers only.
WriteLockShared(c) ==
    /\ pc[c] = "write" /\ AtHead(c) /\ readers = {}
    /\ writer' = writer \cup {c}
    /\ queue' = Tail(queue)
    /\ pc' = [pc EXCEPT ![c] = "fetch"]
    /\ UNCHANGED <<now, cache, readers, fetched, issued, token, began>>

WriteLock(c) ==
    /\ pc[c] = "write" /\ AtHead(c) /\ readers = {} /\ writer = {}
    /\ writer' = writer \cup {c}
    /\ queue' = Tail(queue)
    /\ pc' = [pc EXCEPT ![c] = "fetch"]
    /\ UNCHANGED <<now, cache, readers, fetched, issued, token, began>>

\* What the source can give now: a token that has not expired.
Issuable == {e \in (now + 1)..(now + Lifetime) : issued <= e}

\* The source gives a token to c.
Granted(c) ==
    /\ \E e \in Issuable : /\ fetched' = [fetched EXCEPT ![c] = e]
                           /\ issued' = e
    /\ pc' = [pc EXCEPT ![c] = "store"]
    /\ UNCHANGED writer

\* The source fails: the cache keeps what it has, the lock is given back, and
\* the interceptor answers the request with an error.
Denied(c) ==
    /\ writer' = writer \ {c}
    /\ pc' = [pc EXCEPT ![c] = "failed"]
    /\ UNCHANGED <<fetched, issued>>

\* Faulty variant: the source needs the runtime, as an asynchronous client of
\* http would, and so a thread that no call holds.
FetchOnRuntime(c) ==
    /\ pc[c] = "fetch" /\ ThreadFree
    /\ Granted(c) \/ Denied(c)
    /\ UNCHANGED <<now, cache, readers, queue, token, began>>

\* source.token(): ureq blocks the thread the call has; a signature needs no
\* request at all.
Fetch(c) ==
    /\ pc[c] = "fetch"
    /\ Granted(c) \/ Denied(c)
    /\ UNCHANGED <<now, cache, readers, queue, token, began>>

Store(c) ==
    /\ pc[c] = "store"
    /\ cache' = fetched[c]
    /\ token' = [token EXCEPT ![c] = fetched[c]]
    /\ writer' = writer \ {c}
    /\ pc' = [pc EXCEPT ![c] = "done"]
    /\ UNCHANGED <<now, readers, queue, fetched, issued, began>>

Tick == /\ now < MaxTime
        /\ now' = now + 1
        /\ UNCHANGED <<cache, lockVars, pc, fetched, issued, token, began>>

Next == \/ \E c \in Calls : \/ Begin(c) \/ ReadLock(c) \/ UseCached(c) \/ Refresh(c)
                            \/ WriteLock(c) \/ Fetch(c) \/ Store(c)
        \/ Tick

Spec == Init /\ [][Next]_vars

(* Fairness: a thread that holds a lock, or is next to get it, goes on, and *)
(* the source answers, with a token or an error.  Requests come as they     *)
(* will, and nothing makes the source fail or the time go by.               *)
Fairness ==
    \A c \in Calls : /\ WF_vars(ReadLock(c) \/ WriteLock(c))
                     /\ WF_vars(UseCached(c) \/ Refresh(c))
                     /\ WF_vars(Fetch(c))
                     /\ WF_vars(Store(c))

FairSpec == Spec /\ Fairness

-----------------------------------------------------------------------------
\* The type invariant, with the lock's: who holds it is where the lock is held in
\* the code, and a writer holds it alone.
TypeOK ==
    /\ now \in Nat /\ issued \in Nat
    /\ cache \in Nat \cup {NoToken}
    /\ readers = {c \in Calls : pc[c] = "look"}
    /\ writer = {c \in Calls : pc[c] \in {"fetch", "store"}}
    /\ \A c \in writer : writer = {c} /\ readers = {}
    /\ queue \in Seq(Calls)
    /\ pc \in [Calls -> {"idle", "read", "look", "write", "fetch", "store", "done", "failed"}]
    /\ fetched \in [Calls -> Nat \cup {NoToken}]
    /\ token \in [Calls -> Nat \cup {NoToken}]
    /\ began \in [Calls -> Nat]

\* A request is never sent with a token that was stale when the request began:
\* it has the margin left then (auth.rs:282), or it is one that this call
\* fetched for itself, however long it waited for the locks (auth.rs:291-295).
TokenIsFresh ==
    \A c \in Calls : pc[c] = "done" =>
        /\ token[c] # NoToken
        /\ began[c] < token[c]
        /\ fetched[c] = NoToken => began[c] < token[c] - Margin

\* Of the calls that find the token stale at the same time each fetches one
\* (the herd of auth.rs:288); none replaces the token of another by one that
\* expires earlier, since the lock is held from the fetch to the store.
CacheOnlyRenewed ==
    [][cache' # cache => cache' # NoToken /\ (cache # NoToken => cache < cache')]_vars

\* No deadlock (the question of main.rs:288): a call that has a thread ends,
\* though all the others may wait for locks, threads in hand.
EveryCallEnds == \A c \in Calls : pc[c] = "read" ~> pc[c] \in {"done", "failed"}
=============================================================================
