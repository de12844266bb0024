--------------------------- MODULE ActionLogProofs ---------------------------
(***************************************************************************)
(* Proofs about ActionLog, for any set of calls.                           *)
(*                                                                         *)
(* The inductive invariant says what a commit request in flight means: the *)
(* version that Firestore validates stands for the count that was read     *)
(* (every write of the metadata adds one to both), a call has a document   *)
(* exactly if its commit was applied, at the count it read, and a call     *)
(* before its commit request has none.                                     *)
(***************************************************************************)
EXTENDS ActionLog, SequenceTheorems, TLAPS

\* A version that is validated is a count that is still right.
VersionIsCount ==
    /\ version = count
    /\ \A c \in Calls : readVersion[c] = read[c]
    /\ \A c \in Calls : commit[c] \in {"sent", "applied"} => read[c] \in Nat

\* A call has a document exactly if its commit was applied.
DocumentsAreApplied ==
    /\ \A c \in Calls : commit[c] = "applied" =>
            read[c] \in 0..(count - 1) /\ actions[read[c]] = c
    /\ \A i \in DOMAIN actions : commit[actions[i]] = "applied" /\ read[actions[i]] = i

\* What the program counter says of the commit request.
CommitAgreesWithPc ==
    \A c \in Calls :
        /\ pc[c] \in {"idle", "begin", "read"} => commit[c] \in {"none", "aborted"}
        /\ pc[c] = "done" => commit[c] = "applied" /\ result[c] = read[c] + 1

\* A transaction of a call reads a count above all that had returned before it.
ReadsAfterReturned ==
    \A c, d \in Calls : c \in before[d] =>
        /\ pc[c] = "done"
        /\ commit[d] \in {"sent", "applied"} => read[c] < read[d]

IInv == /\ TypeOK
        /\ LogContiguous
        /\ VersionIsCount
        /\ DocumentsAreApplied
        /\ CommitAgreesWithPc
        /\ ReadsAfterReturned

-----------------------------------------------------------------------------
LEMMA InitIInv == Init => IInv
BY NoneAssumption DEF Init, IInv, TypeOK, LogContiguous, VersionIsCount, DocumentsAreApplied,
   CommitAgreesWithPc, ReadsAfterReturned

\* The steps of a call that leave Firestore and its commit request alone.
LEMMA LocalStep ==
    ASSUME IInv, NEW c \in Calls,
           \/ Push(c) \/ BeginTransaction(c) \/ Retry(c) \/ Fail(c) \/ CommitOk(c)
    PROVE  IInv'
<1>. USE DEF firestore
<1>1. TypeOK' /\ LogContiguous' /\ VersionIsCount' /\ DocumentsAreApplied'
  <2>1. read[c] \in Nat \/ pc'[c] # "done"
    BY DEF IInv, TypeOK, VersionIsCount, Push, BeginTransaction, Retry, Fail, CommitOk
  <2>2. TypeOK'
    BY <2>1 DEF IInv, TypeOK, Push, BeginTransaction, Retry, Fail, CommitOk
  <2>3. LogContiguous' /\ VersionIsCount' /\ DocumentsAreApplied'
    BY DEF IInv, LogContiguous, VersionIsCount, DocumentsAreApplied,
       Push, BeginTransaction, Retry, Fail, CommitOk
  <2>. QED
    BY <2>2, <2>3
<1>2. CommitAgreesWithPc'
  BY DEF IInv, TypeOK, CommitAgreesWithPc, Push, BeginTransaction, Retry, Fail, CommitOk
<1>3. ReadsAfterReturned'
  <2>1. CASE Push(c)
    BY <2>1 DEF IInv, TypeOK, CommitAgreesWithPc, ReadsAfterReturned, Push
  <2>2. CASE BeginTransaction(c) \/ Retry(c) \/ Fail(c) \/ CommitOk(c)
    BY <2>2 DEF IInv, TypeOK, ReadsAfterReturned, BeginTransaction, Retry, Fail, CommitOk
  <2>. QED
    BY <2>1, <2>2
<1>. QED
  BY <1>1, <1>2, <1>3 DEF IInv

LEMMA FetchMetadataStep ==
    ASSUME IInv, NEW c \in Calls, FetchMetadata(c)
    PROVE  IInv'
<1>. USE DEF IInv, FetchMetadata, firestore
<1>1. TypeOK' /\ LogContiguous' /\ VersionIsCount'
  BY DEF TypeOK, LogContiguous, VersionIsCount
<1>2. DocumentsAreApplied'
  \* the document of c is not in the log: its commit was not applied
  BY DEF TypeOK, DocumentsAreApplied, CommitAgreesWithPc
<1>3. CommitAgreesWithPc'
  BY DEF TypeOK, CommitAgreesWithPc
<1>4. ReadsAfterReturned'
  BY DEF TypeOK, ReadsAfterReturned, CommitAgreesWithPc, DocumentsAreApplied
<1>. QED
  BY <1>1, <1>2, <1>3, <1>4

LEMMA AbortStep ==
    ASSUME IInv, NEW c \in Calls, Abort(c)
    PROVE  IInv'
<1>. USE DEF IInv, Abort, firestore
<1>1. TypeOK' /\ LogContiguous' /\ VersionIsCount'
  BY DEF TypeOK, LogContiguous, VersionIsCount
<1>2. DocumentsAreApplied' /\ CommitAgreesWithPc' /\ ReadsAfterReturned'
  BY DEF TypeOK, DocumentsAreApplied, CommitAgreesWithPc, ReadsAfterReturned
<1>. QED
  BY <1>1, <1>2

\* What Firestore writes when it applies a commit: a commit that it finds valid
\* has read the count that still holds.
LEMMA ApplyWrites ==
    ASSUME IInv, NEW c \in Calls, Apply(c)
    PROVE  /\ read[c] = count /\ count' = count + 1 /\ version' = version + 1
           /\ DOMAIN actions' = 0..count
           /\ actions'[count] = c
           /\ \A i \in DOMAIN actions : actions'[i] = actions[i]
<1>1. read[c] = count
  BY NoneAssumption DEF IInv, TypeOK, VersionIsCount, Apply
<1>2. DOMAIN actions = 0..(count - 1) /\ count \in Nat
  BY DEF IInv, TypeOK, LogContiguous
<1>3. actions' = [i \in DOMAIN actions \cup {count} |-> IF i = count THEN c ELSE actions[i]]
  BY <1>1 DEF Apply, ActionDoc
<1>4. count' = count + 1 /\ version' = version + 1
  BY <1>1 DEF Apply, NewCount
<1>5. DOMAIN actions' = (0..(count - 1)) \cup {count} /\ actions'[count] = c
  BY <1>2, <1>3
<1>6. (0..(count - 1)) \cup {count} = 0..count /\ count \notin 0..(count - 1)
  BY <1>2
<1>7. \A i \in DOMAIN actions : actions'[i] = actions[i]
  BY <1>2, <1>3, <1>6
<1>. QED
  BY <1>1, <1>4, <1>5, <1>6, <1>7

LEMMA ApplyStep ==
    ASSUME IInv, NEW c \in Calls, Apply(c)
    PROVE  IInv'
<1>. USE DEF IInv
<1>1. /\ read[c] = count /\ count' = count + 1 /\ version' = version + 1
      /\ DOMAIN actions' = 0..count /\ actions'[count] = c
      /\ \A i \in DOMAIN actions : actions'[i] = actions[i]
      /\ DOMAIN actions = 0..(count - 1) /\ count \in Nat /\ version = count
  BY ApplyWrites DEF LogContiguous, TypeOK, VersionIsCount
<1>2. /\ commit[c] = "sent" /\ commit' = [commit EXCEPT ![c] = "applied"]
      /\ UNCHANGED <<pc, read, readVersion, result, before>>
  BY DEF Apply
<1>3. TypeOK'
  <2>1. \A i \in DOMAIN actions' : i \in DOMAIN actions \/ i = count
    BY <1>1
  <2>2. DOMAIN actions' \subseteq Nat /\ \A i \in DOMAIN actions' : actions'[i] \in Calls
    BY <1>1, <2>1 DEF TypeOK
  <2>3. commit' \in [Calls -> {"none", "sent", "applied", "aborted"}]
    BY <1>2 DEF TypeOK
  <2>4. count' \in Nat /\ version' \in Nat
    BY <1>1
  <2>. QED
    BY <1>2, <2>2, <2>3, <2>4 DEF TypeOK
<1>4. LogContiguous'
  BY <1>1 DEF LogContiguous
<1>5. VersionIsCount'
  BY <1>1, <1>2 DEF VersionIsCount, TypeOK
<1>6. DocumentsAreApplied'
  <2>1. ASSUME NEW d \in Calls, commit'[d] = "applied"
        PROVE  read[d] \in 0..count /\ actions'[read[d]] = d
    BY <1>1, <1>2, <2>1 DEF DocumentsAreApplied, TypeOK
  <2>2. ASSUME NEW i \in 0..count
        PROVE  commit'[actions'[i]] = "applied" /\ read[actions'[i]] = i
    <3>1. CASE i = count
      BY <1>1, <1>2, <3>1 DEF TypeOK
    <3>2. CASE i \in DOMAIN actions
      BY <1>1, <1>2, <3>2 DEF DocumentsAreApplied, TypeOK
    <3>. QED
      BY <1>1, <3>1, <3>2
  <2>. QED
    BY <1>1, <1>2, <2>1, <2>2 DEF DocumentsAreApplied
<1>7. CommitAgreesWithPc' /\ ReadsAfterReturned'
  BY <1>2 DEF CommitAgreesWithPc, ReadsAfterReturned, TypeOK
<1>. QED
  BY <1>3, <1>4, <1>5, <1>6, <1>7

LEMMA NextIInv == IInv /\ [Next]_vars => IInv'
<1>. SUFFICES ASSUME IInv, [Next]_vars
              PROVE  IInv'
  OBVIOUS
<1>1. CASE UNCHANGED vars
  BY <1>1 DEF vars, IInv, TypeOK, LogContiguous, VersionIsCount, DocumentsAreApplied,
     CommitAgreesWithPc, ReadsAfterReturned
<1>2. CASE Next
  BY <1>2, LocalStep, FetchMetadataStep, AbortStep, ApplyStep DEF Next
<1>. QED
  BY <1>1, <1>2

LEMMA IInvHolds == Spec => []IInv
BY InitIInv, NextIInv, PTL DEF Spec

-----------------------------------------------------------------------------
\* The datastore's variables keep their types: the map of documents, the pc
\* and the request of every call (datastore.rs:215-291).
THEOREM TypeCorrect == Spec => []TypeOK
<1>1. IInv => TypeOK
  BY DEF IInv
<1>. QED
  BY <1>1, IInvHolds, PTL

\* The documents are always exactly those below the count.
THEOREM LogIsContiguous == Spec => []LogContiguous
<1>1. IInv => LogContiguous
  BY DEF IInv
<1>. QED
  BY <1>1, IInvHolds, PTL

\* However a call is retried, interrupted or overtaken, its action is in the
\* log at most once.
THEOREM AppendedAtMostOnce == Spec => []AtMostOnce
<1>1. IInv => AtMostOnce
  BY DEF IInv, DocumentsAreApplied, AtMostOnce
<1>. QED
  BY <1>1, IInvHolds, PTL

\* A call that returns a count has its own action at that place.
THEOREM ResultIsOwnPlace == Spec => []ResultIsMine
<1>1. IInv => ResultIsMine
  BY DEF IInv, TypeOK, CommitAgreesWithPc, DocumentsAreApplied, ResultIsMine
<1>. QED
  BY <1>1, IInvHolds, PTL

\* The order of the log extends the real-time order of the calls.
THEOREM OrderedInRealTime == Spec => []OrderedAsReturned
<1>1. IInv => OrderedAsReturned
  BY DEF IInv, TypeOK, CommitAgreesWithPc, VersionIsCount, ReadsAfterReturned,
     OrderedAsReturned
<1>. QED
  BY <1>1, IInvHolds, PTL

\* No step changes or removes what the log holds.
THEOREM LogIsAppendOnly == Spec => AppendOnly
<1>. DEFINE Grows == /\ count <= count'
                     /\ DOMAIN actions \subseteq DOMAIN actions'
                     /\ \A i \in DOMAIN actions : actions'[i] = actions[i]
<1>1. IInv /\ [Next]_vars => [Grows]_vars
  <2>. SUFFICES ASSUME IInv, NEW c \in Calls,
                       \/ Push(c) \/ BeginTransaction(c) \/ FetchMetadata(c)
                       \/ Apply(c) \/ Abort(c)
                       \/ CommitOk(c) \/ Retry(c) \/ Fail(c)
                PROVE  Grows
    BY DEF Next
  <2>1. count \in Nat /\ DOMAIN actions = 0..(count - 1)
    BY DEF IInv, TypeOK, LogContiguous
  <2>2. CASE Apply(c)
    BY <2>1, <2>2, ApplyWrites
  <2>3. CASE UNCHANGED firestore
    BY <2>1, <2>3 DEF firestore
  <2>. QED
    BY <2>2, <2>3 DEF Push, BeginTransaction, FetchMetadata, Abort, CommitOk, Retry, Fail,
       firestore
<1>. QED
  BY <1>1, IInvHolds, PTL DEF Spec, AppendOnly

-----------------------------------------------------------------------------
LEMMA ApplyIsCommit ==
    ASSUME IInv, NEW c \in Calls, Apply(c)
    PROVE  Atomic!Commit(c)
<1>1. /\ count \in Nat /\ count' = count + 1 /\ DOMAIN actions = 0..(count - 1)
      /\ actions'[count] = c
      /\ \A i \in DOMAIN actions : actions'[i] = actions[i] /\ actions[i] \in Calls
  BY ApplyWrites DEF IInv, TypeOK, LogContiguous
<1>2. commit[c] = "sent" /\ UNCHANGED <<pc, result>>
  BY DEF Apply
<1>3. abstractStatus[c] \in {"pending", "failed"}
  BY <1>2 DEF IInv, TypeOK, CommitAgreesWithPc, abstractStatus
<1>4. ~Atomic!InLog(c)
  <2>1. Len(abstractLog) = count /\ \A i \in 1..count : abstractLog[i] = actions[i - 1]
    BY <1>1 DEF abstractLog
  <2>2. \A i \in DOMAIN actions : actions[i] # c
    BY <1>2 DEF IInv, DocumentsAreApplied
  <2>. QED
    BY <1>1, <2>1, <2>2 DEF Atomic!InLog
<1>5. abstractLog' = Append(abstractLog, c)
  <2>1. abstractLog \in Seq(Calls) /\ Len(abstractLog) = count
    BY <1>1 DEF abstractLog
  <2>2. /\ Append(abstractLog, c) \in Seq(Calls)
        /\ Len(Append(abstractLog, c)) = count + 1
        /\ Append(abstractLog, c)[count + 1] = c
        /\ \A i \in 1..count : Append(abstractLog, c)[i] = abstractLog[i]
    BY <2>1, AppendProperties
  <2>3. /\ abstractLog' = [i \in 1..(count + 1) |-> actions'[i - 1]]
        /\ abstractLog' \in Seq(Calls) /\ Len(abstractLog') = count + 1
    BY <1>1 DEF abstractLog
  <2>4. \A i \in 1..(count + 1) : abstractLog'[i] = Append(abstractLog, c)[i]
    BY <1>1, <2>2, <2>3 DEF abstractLog
  <2>. QED
    BY <2>2, <2>3, <2>4, SeqEqual
<1>6. UNCHANGED <<abstractStatus, result>>
  BY <1>2 DEF abstractStatus
<1>. QED
  BY <1>3, <1>4, <1>5, <1>6 DEF Atomic!Commit

LEMMA CommitOkIsReturn ==
    ASSUME IInv, NEW c \in Calls, CommitOk(c)
    PROVE  \E i \in 1..Len(abstractLog) : Atomic!Return(c, i)
<1>1. /\ count \in Nat /\ read[c] \in 0..(count - 1) /\ actions[read[c]] = c
      /\ UNCHANGED <<count, actions>>
  BY DEF IInv, TypeOK, DocumentsAreApplied, CommitOk, firestore
<1>2. Len(abstractLog) = count /\ abstractLog[read[c] + 1] = c
  BY <1>1 DEF abstractLog
<1>3. abstractLog' = abstractLog
  BY <1>1 DEF abstractLog
<1>4. /\ abstractStatus[c] = "pending"
      /\ abstractStatus' = [abstractStatus EXCEPT ![c] = "done"]
  BY DEF CommitOk, IInv, TypeOK, abstractStatus
<1>5. Atomic!Return(c, read[c] + 1)
  BY <1>2, <1>3, <1>4 DEF Atomic!Return, CommitOk
<1>6. read[c] + 1 \in 1..Len(abstractLog)
  BY <1>1, <1>2
<1>. QED
  BY <1>5, <1>6

\* push_action over Firestore transactions implements the atomic log of the
\* Datastore trait: each step of the code and of Firestore is a step of the
\* abstract log or leaves it as it is.
THEOREM Refinement == Spec => ImplementsAtomicLog
<1>1. Init => Atomic!Init
  BY DEF Init, Atomic!Init, abstractLog, abstractStatus
<1>2. IInv /\ [Next]_vars => [Atomic!Next]_(Atomic!vars)
  <2>. SUFFICES ASSUME IInv, [Next]_vars
                PROVE  Atomic!Next \/ UNCHANGED Atomic!vars
    OBVIOUS
  <2>. USE DEF firestore, Atomic!vars
  <2>1. CASE UNCHANGED vars
    BY <2>1 DEF vars, abstractLog, abstractStatus
  <2>2. ASSUME NEW c \in Calls, Push(c)
        PROVE  Atomic!Next
    <3>1. abstractStatus[c] = "idle" /\ abstractStatus' = [abstractStatus EXCEPT ![c] = "pending"]
      BY <2>2 DEF Push, IInv, TypeOK, abstractStatus
    <3>2. UNCHANGED <<abstractLog, result>>
      BY <2>2 DEF Push, abstractLog
    <3>. QED
      BY <3>1, <3>2 DEF Atomic!Next, Atomic!Invoke
  <2>3. ASSUME NEW c \in Calls,
               BeginTransaction(c) \/ FetchMetadata(c) \/ Retry(c) \/ Abort(c)
        PROVE  UNCHANGED Atomic!vars
    <3>1. UNCHANGED <<abstractLog, result>>
      BY <2>3 DEF BeginTransaction, FetchMetadata, Retry, Abort, abstractLog
    <3>2. abstractStatus' = abstractStatus
      BY <2>3 DEF BeginTransaction, FetchMetadata, Retry, Abort, abstractStatus, IInv, TypeOK
    <3>. QED
      BY <3>1, <3>2
  <2>4. ASSUME NEW c \in Calls, Fail(c)
        PROVE  Atomic!Next
    <3>1. abstractStatus[c] = "pending" /\ abstractStatus' = [abstractStatus EXCEPT ![c] = "failed"]
      BY <2>4 DEF Fail, IInv, TypeOK, abstractStatus
    <3>2. UNCHANGED <<abstractLog, result>>
      BY <2>4 DEF Fail, abstractLog
    <3>. QED
      BY <3>1, <3>2 DEF Atomic!Next, Atomic!Fail
  <2>5. ASSUME NEW c \in Calls, Apply(c)
        PROVE  Atomic!Next
    BY <2>5, ApplyIsCommit DEF Atomic!Next
  <2>6. ASSUME NEW c \in Calls, CommitOk(c)
        PROVE  Atomic!Next
    BY <2>6, CommitOkIsReturn DEF Atomic!Next
  <2>. QED
    BY <2>1, <2>2, <2>3, <2>4, <2>5, <2>6 DEF Next
<1>. QED
  BY <1>1, <1>2, IInvHolds, PTL DEF Spec, ImplementsAtomicLog, Atomic!Spec
=============================================================================
