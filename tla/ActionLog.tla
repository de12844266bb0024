------------------------------ MODULE ActionLog ------------------------------
(***************************************************************************)
(* push_action of the Firestore datastore (datastore.rs:215-291): the log  *)
(* is one metadata document with a count and one document per action, and  *)
(* a call appends to it with a Firestore transaction that reads the count  *)
(* and writes both documents, retried while Firestore aborts it.           *)
(*                                                                         *)
(* Calls run on any number of server instances: they share Firestore only. *)
(* A call may fail at each of its awaits (an RPC error, a server that is   *)
(* killed, a client that disconnects: the future is dropped), also while   *)
(* its commit is under way, which Firestore may then still apply.          *)
(*                                                                         *)
(* Firestore is external.  It applies the two writes of a commit together, *)
(* and only while every document that the transaction read is still as it  *)
(* was read; it may abort any transaction (contention).                    *)
(***************************************************************************)
EXTENDS Naturals, Sequences, FiniteSets

CONSTANTS
    Calls,          \* the calls of push_action, each with an action of its own
    None            \* no document, no value read

ASSUME NoneAssumption == None \notin Calls /\ None \notin Nat

VARIABLES
    count,          \* Firestore: the count of metadata/actions (0: no document)
    version,        \* Firestore: how often metadata/actions was written
    actions,        \* Firestore: the documents actions/<index>, by index
    pc,             \* per call: the await it is at, or how it ended
    read,           \* per call: the count its transaction read
    readVersion,    \* per call: the version it read, for Firestore's check
    commit,         \* per call: what became of its last commit request
    result,         \* per call: the count it returned, 0 before
    before          \* history, per call: the calls that had returned when it began

vars == <<count, version, actions, pc, read, readVersion, commit, result, before>>

firestore == <<count, version, actions>>

-----------------------------------------------------------------------------
Init == /\ count = 0
        /\ version = 0
        /\ actions = [i \in {} |-> None]
        /\ pc = [c \in Calls |-> "idle"]
        /\ read = [c \in Calls |-> None]
        /\ readVersion = [c \in Calls |-> None]
        /\ commit = [c \in Calls |-> "none"]
        /\ result = [c \in Calls |-> 0]
        /\ before = [c \in Calls |-> {}]

\* handle_action calls push_action: it enters the loop and awaits
\* begin_transaction.
Push(c) ==
    /\ pc[c] = "idle"
    /\ pc' = [pc EXCEPT ![c] = "begin"]
    /\ before' = [before EXCEPT ![c] = {d \in Calls : pc[d] = "done"}]
    /\ UNCHANGED <<firestore, read, readVersion, commit, result>>

\* The answer of begin_transaction: await the metadata, read in it.
BeginTransaction(c) ==
    /\ pc[c] = "begin"
    /\ pc' = [pc EXCEPT ![c] = "read"]
    /\ UNCHANGED <<firestore, read, readVersion, commit, result, before>>

\* Faulty variant: the metadata is read outside of the transaction, which then
\* has nothing to validate.
FetchMetadataOutside(c) ==
    /\ pc[c] = "read"
    /\ pc' = [pc EXCEPT ![c] = "commit"]
    /\ read' = [read EXCEPT ![c] = count]
    /\ readVersion' = [readVersion EXCEPT ![c] = None]
    /\ commit' = [commit EXCEPT ![c] = "sent"]
    /\ UNCHANGED <<firestore, result, before>>

\* Faulty variant: any error of the read counts as a missing document.
FetchMetadataOrZero(c) ==
    /\ pc[c] = "read"
    /\ pc' = [pc EXCEPT ![c] = "commit"]
    /\ \E n \in {0, count} : read' = [read EXCEPT ![c] = n]
    /\ readVersion' = [readVersion EXCEPT ![c] = version]
    /\ commit' = [commit EXCEPT ![c] = "sent"]
    /\ UNCHANGED <<firestore, result, before>>

\* The answer of fetch_action_metadata in the transaction; the commit request
\* is built from it and sent without another await.
FetchMetadata(c) ==
    /\ pc[c] = "read"
    /\ pc' = [pc EXCEPT ![c] = "commit"]
    /\ read' = [read EXCEPT ![c] = count]
    /\ readVersion' = [readVersion EXCEPT ![c] = version]
    /\ commit' = [commit EXCEPT ![c] = "sent"]
    /\ UNCHANGED <<firestore, result, before>>

\* Faulty variant: actions are numbered from one.
ActionDocFromOne(c) == read[c] + 1

\* Faulty variant: the count goes down.
NewCountDown(c) == read[c] - 1

\* The two writes of the commit request: the metadata document with the new
\* count, and the document of the action.
NewCount(c) == read[c] + 1

ActionDoc(c) == read[c]

\* Firestore applies the commit of a transaction whose reads are still valid.
Apply(c) ==
    /\ commit[c] = "sent"
    /\ readVersion[c] \in {None, version}
    /\ count' = NewCount(c)
    /\ version' = version + 1
    /\ actions' = [i \in DOMAIN actions \cup {ActionDoc(c)} |->
                      IF i = ActionDoc(c) THEN c ELSE actions[i]]
    /\ commit' = [commit EXCEPT ![c] = "applied"]
    /\ UNCHANGED <<pc, read, readVersion, result, before>>

\* Firestore aborts the commit: the metadata changed, or contention.
Abort(c) ==
    /\ commit[c] = "sent"
    /\ commit' = [commit EXCEPT ![c] = "aborted"]
    /\ UNCHANGED <<firestore, pc, read, readVersion, result, before>>

\* Faulty variant: return the count that was read.
CommitOkReturnsIndex(c) ==
    /\ pc[c] = "commit" /\ commit[c] = "applied"
    /\ pc' = [pc EXCEPT ![c] = "done"]
    /\ result' = [result EXCEPT ![c] = read[c]]
    /\ UNCHANGED <<firestore, read, readVersion, commit, before>>

\* commit answers Ok: return count + 1.
CommitOk(c) ==
    /\ pc[c] = "commit" /\ commit[c] = "applied"
    /\ pc' = [pc EXCEPT ![c] = "done"]
    /\ result' = [result EXCEPT ![c] = read[c] + 1]
    /\ UNCHANGED <<firestore, read, readVersion, commit, before>>

\* Faulty variant: an aborted commit is sent again, as it was read.
RetrySameRead(c) ==
    /\ pc[c] = "commit" /\ commit[c] = "aborted"
    /\ commit' = [commit EXCEPT ![c] = "sent"]
    /\ UNCHANGED <<firestore, pc, read, readVersion, result, before>>

\* commit answers Aborted: warn, and go round the loop again.
Retry(c) ==
    /\ pc[c] = "commit" /\ commit[c] = "aborted"
    /\ pc' = [pc EXCEPT ![c] = "begin"]
    /\ UNCHANGED <<firestore, read, readVersion, commit, result, before>>

\* Faulty variant: go round the loop on every error, not only on Aborted.
FailRetries(c) ==
    /\ pc[c] \in {"begin", "read", "commit"}
    /\ pc' = [pc EXCEPT ![c] = "begin"]
    /\ UNCHANGED <<firestore, read, readVersion, commit, result, before>>

\* An await ends with any other error, or the call is dropped there.  A commit
\* that was sent stays with Firestore.
Fail(c) ==
    /\ pc[c] \in {"begin", "read", "commit"}
    /\ pc' = [pc EXCEPT ![c] = "failed"]
    /\ UNCHANGED <<firestore, read, readVersion, commit, result, before>>

Next == \E c \in Calls :
            \/ Push(c) \/ BeginTransaction(c) \/ FetchMetadata(c)
            \/ Apply(c) \/ Abort(c)
            \/ CommitOk(c) \/ Retry(c) \/ Fail(c)

Spec == Init /\ [][Next]_vars

(* Fairness.  The runtime polls every task that can go on, and Firestore   *)
(* answers each request (weak fairness).  Firestore promises more about    *)
(* contention: of the transactions that keep conflicting one commits, so a *)
(* call that is retried for ever cannot be aborted for ever (strong        *)
(* fairness of Apply).  Nothing makes a client call, and nothing makes a   *)
(* call fail.                                                              *)
Fairness == \A c \in Calls : /\ WF_vars(BeginTransaction(c) \/ FetchMetadata(c))
                             /\ WF_vars(CommitOk(c) \/ Retry(c))
                             /\ WF_vars(Apply(c) \/ Abort(c))
                             /\ SF_vars(Apply(c))

FairSpec == Spec /\ Fairness

-----------------------------------------------------------------------------
TypeOK ==
    /\ count \in Nat /\ version \in Nat
    /\ DOMAIN actions \subseteq Nat
    /\ \A i \in DOMAIN actions : actions[i] \in Calls
    /\ pc \in [Calls -> {"idle", "begin", "read", "commit", "done", "failed"}]
    /\ read \in [Calls -> Nat \cup {None}]
    /\ readVersion \in [Calls -> Nat \cup {None}]
    /\ commit \in [Calls -> {"none", "sent", "applied", "aborted"}]
    /\ result \in [Calls -> Nat]
    /\ before \in [Calls -> SUBSET Calls]

\* The log has no holes: the documents are exactly those below the count, so
\* that every index a watcher derives from the count can be fetched
\* (datastore.rs:303), whatever calls interleave, fail or commit late.
LogContiguous == DOMAIN actions = 0..(count - 1)

\* No action is in the log twice: the retry loop goes round only after an
\* attempt that wrote nothing (datastore.rs:283-289).
AtMostOnce == \A i, j \in DOMAIN actions : actions[i] = actions[j] => i = j

\* The count a call returns is the place of its own action: handle_action
\* skips count - 1 responses and answers with the next one (main.rs:176).
ResultIsMine ==
    \A c \in Calls : pc[c] = "done" =>
        /\ result[c] \in 1..count
        /\ actions[result[c] - 1] = c

\* Real-time order: what had returned when a call began is before it in the
\* log, so a client that moves after an answer moves after that move.
OrderedAsReturned ==
    \A c, d \in Calls : pc[d] = "done" /\ c \in before[d] => result[c] < result[d]

\* The log is append-only: a commit never overwrites the action of another
\* call and the count never goes back, though commits may be applied after
\* their callers gave up.
AppendOnly ==
    [][ /\ count <= count'
        /\ DOMAIN actions \subseteq DOMAIN actions'
        /\ \A i \in DOMAIN actions : actions'[i] = actions[i] ]_vars

\* Every call that begins returns, however often its transaction is aborted.
PushReturns == \A c \in Calls : pc[c] = "begin" ~> pc[c] \in {"done", "failed"}

-----------------------------------------------------------------------------
(* ActionLog implements AtomicLog: the documents below the count, in the   *)
(* order of their indexes, are the abstract log.                           *)
abstractLog == [i \in 1..count |-> actions[i - 1]]

abstractStatus ==
    [c \in Calls |-> IF pc[c] \in {"begin", "read", "commit"} THEN "pending" ELSE pc[c]]

Atomic == INSTANCE AtomicLog WITH log <- abstractLog, status <- abstractStatus,
                                  returned <- result

\* The transactions and their retries add up to a log that each call appends
\* to at one instant (datastore.rs:14).
ImplementsAtomicLog == Atomic!Spec
=============================================================================
