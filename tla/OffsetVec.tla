------------------------------- MODULE OffsetVec -------------------------------
(***************************************************************************)
(* AOVec (be/server/src/util/aovec.rs): a vector to which pushes append,   *)
(* and whose watchers hear of its offsets (its length after each push)     *)
(* over a broadcast channel of tokio.  The local datastore keeps its log   *)
(* in one; its watch_log is not written yet (datastore.rs:40).             *)
(*                                                                         *)
(* push sends while it holds the write lock, so that the k-th message of   *)
(* the channel is the offset k.  The channel keeps the last Capacity       *)
(* messages for its receivers.                                             *)
(***************************************************************************)
EXTENDS Naturals

CONSTANTS
    Capacity,       \* of the broadcast channel, 16
    MaxLength       \* bound: how many pushes there are

VARIABLES
    length,         \* of the vector
    pc,             \* the watcher: "idle", "subscribed", "watching"
    initial,        \* initial_offset, until the stream has yielded it
    cursor,         \* the message that the subscription receives next
    seen,           \* the offsets that the stream has yielded
    from            \* history: the length when watch was called

vars == <<length, pc, initial, cursor, seen, from>>

Init == /\ length = 0
        /\ pc = "idle"
        /\ initial = {} /\ cursor = 1 /\ seen = {} /\ from = 0

Push == /\ length < MaxLength
        /\ length' = length + 1
        /\ UNCHANGED <<pc, initial, cursor, seen, from>>

\* watch: the subscription hears of the pushes from here on.
Subscribe ==
    /\ pc = "idle"
    /\ pc' = "subscribed"
    /\ cursor' = length + 1
    /\ from' = length
    /\ UNCHANGED <<length, initial, seen>>

\* watch: the length, under the read lock.
ReadLength ==
    /\ pc = "subscribed"
    /\ pc' = "watching"
    /\ initial' = {length}
    /\ UNCHANGED <<length, cursor, seen, from>>

\* The stream yields the initial offset, and then what the subscription receives.
YieldInitial ==
    /\ pc = "watching" /\ initial # {}
    /\ seen' = seen \cup initial
    /\ initial' = {}
    /\ UNCHANGED <<length, pc, cursor, from>>

Lagging == length >= cursor + Capacity

Yield ==
    /\ pc = "watching" /\ initial = {} /\ cursor <= length /\ ~Lagging
    /\ seen' = seen \cup {cursor}
    /\ cursor' = cursor + 1
    /\ UNCHANGED <<length, pc, initial, from>>

\* The message is gone: the receiver goes on with the oldest that is kept, and the
\* error that says so is dropped (r.ok()).
DropLagged ==
    /\ pc = "watching" /\ initial = {} /\ Lagging
    /\ cursor' = length + 1 - Capacity
    /\ UNCHANGED <<length, pc, initial, seen, from>>

Next == Push \/ Subscribe \/ ReadLength \/ YieldInitial \/ Yield \/ DropLagged

Spec == Init /\ [][Next]_vars

-----------------------------------------------------------------------------
Drained == pc = "watching" /\ initial = {} /\ cursor > length

\* The claim of aovec.rs:27: "All offsets should get covered, but not necessarily
\* exactly once, or in the right order", here once the stream has nothing left.
EveryOffsetCovered == Drained => from..length \subseteq seen \cup {from}
=============================================================================
