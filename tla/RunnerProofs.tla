----------------------------- MODULE RunnerProofs -----------------------------
(***************************************************************************)
(* Proofs about Runner, for any number of calls, versions and modules.     *)
(*                                                                         *)
(* AnsweredByItsVersion and FailureNotCached are not inductive: what a     *)
(* call will answer is decided when it finds or reads its module.  The     *)
(* inductive invariant says that the cache agrees with the files, that     *)
(* what a call has in hand is its version's file, and that a file that was *)
(* a module when a call began still is that module.                        *)
(***************************************************************************)
EXTENDS Runner, TLAPS

\* A cached module is the one of its version's binary.
CacheIsTheFile == \A v \in Versions : modules[v] \in Modules => modules[v] = file[v]

\* What a call has read, or is to run, is its version's binary, unless it read a
\* broken one.
ModuleIsTheFile ==
    \A c \in Calls :
        /\ pc[c] = "compile" => bin[c] \in Modules \cup {"broken"}
        /\ pc[c] = "compile" /\ bin[c] \in Modules => bin[c] = file[version[c]]
        /\ pc[c] = "run" => module[c] \in Modules /\ module[c] = file[version[c]]

\* A binary that was in place when a call began still is, and is what it reads.
ReleaseStays ==
    \A c \in Calls : atStart[c] \in Modules =>
        /\ file[version[c]] = atStart[c]
        /\ pc[c] = "compile" => bin[c] = atStart[c]

IInv == /\ TypeOK /\ CacheIsTheFile /\ ModuleIsTheFile /\ ReleaseStays
        /\ AnsweredByItsVersion /\ FailureNotCached

-----------------------------------------------------------------------------
LEMMA InitIInv == Init => IInv
BY VersionsAssumption, ModulesAssumption
   DEF Init, IInv, TypeOK, CacheIsTheFile, ModuleIsTheFile, ReleaseStays,
       AnsweredByItsVersion, FailureNotCached, Faults

LEMMA ReleaseStep ==
    ASSUME IInv, NEW v \in Versions, Release(v)
    PROVE  IInv'
<1>1. PICK m \in Modules : file' = [file EXCEPT ![v] = m]
  BY DEF Release
<1>2. \A w \in Versions : file[w] \in Modules => file'[w] = file[w]
  BY <1>1, ModulesAssumption DEF IInv, TypeOK, Release
<1>3. TypeOK'
  BY <1>1 DEF IInv, TypeOK, Release, callVars
<1>4. CacheIsTheFile' /\ ModuleIsTheFile' /\ ReleaseStays'
  BY <1>2 DEF IInv, TypeOK, CacheIsTheFile, ModuleIsTheFile, ReleaseStays, Release, callVars
<1>5. AnsweredByItsVersion' /\ FailureNotCached'
  BY <1>2 DEF IInv, TypeOK, AnsweredByItsVersion, FailureNotCached, Release, callVars
<1>. QED
  BY <1>3, <1>4, <1>5 DEF IInv

\* The steps of a call that touch neither the files nor the cache.
LEMMA CallStep ==
    ASSUME IInv, NEW c \in Calls,
           Run(c) \/ Found(c) \/ NotFound(c) \/ Load(c) \/ Execute(c)
    PROVE  IInv'
<1>1. CASE Run(c)
  <2>1. PICK v \in Versions : /\ version' = [version EXCEPT ![c] = v]
                              /\ atStart' = [atStart EXCEPT ![c] = file[v]]
    BY <1>1, VersionsAssumption DEF Run, VersionRun
  <2>2. TypeOK'
    BY <1>1, <2>1 DEF IInv, TypeOK, Run
  <2>3. CacheIsTheFile' /\ ModuleIsTheFile' /\ ReleaseStays'
    BY <1>1, <2>1 DEF IInv, TypeOK, CacheIsTheFile, ModuleIsTheFile, ReleaseStays, Run
  <2>4. AnsweredByItsVersion' /\ FailureNotCached'
    BY <1>1, <2>1 DEF IInv, TypeOK, AnsweredByItsVersion, FailureNotCached, Run
  <2>. QED  BY <2>2, <2>3, <2>4 DEF IInv
<1>2. CASE Found(c)
  <2>1. modules[version[c]] \in Modules /\ modules[version[c]] = file[version[c]]
    BY <1>2 DEF IInv, TypeOK, CacheIsTheFile, Found, Cached
  <2>2. TypeOK'
    BY <1>2, <2>1 DEF IInv, TypeOK, Found, Cached
  <2>3. CacheIsTheFile' /\ ModuleIsTheFile' /\ ReleaseStays'
    BY <1>2, <2>1 DEF IInv, TypeOK, CacheIsTheFile, ModuleIsTheFile, ReleaseStays, Found, Cached
  <2>4. AnsweredByItsVersion' /\ FailureNotCached'
    BY <1>2 DEF IInv, TypeOK, AnsweredByItsVersion, FailureNotCached, Found
  <2>. QED  BY <2>2, <2>3, <2>4 DEF IInv
<1>3. CASE NotFound(c)
  BY <1>3 DEF IInv, TypeOK, CacheIsTheFile, ModuleIsTheFile, ReleaseStays,
              AnsweredByItsVersion, FailureNotCached, NotFound, callVars
<1>4. CASE Load(c)
  <2>1. TypeOK'
    BY <1>4 DEF IInv, TypeOK, Load, Fails, Read, Faults
  <2>2. CacheIsTheFile' /\ ModuleIsTheFile' /\ ReleaseStays'
    BY <1>4 DEF IInv, TypeOK, CacheIsTheFile, ModuleIsTheFile, ReleaseStays, Load, Fails, Read, Faults
  <2>3. AnsweredByItsVersion' /\ FailureNotCached'
    BY <1>4, ModulesAssumption
    DEF IInv, TypeOK, ReleaseStays, AnsweredByItsVersion, FailureNotCached, Load, Fails, Read, Faults
  <2>. QED  BY <2>1, <2>2, <2>3 DEF IInv
<1>5. CASE Execute(c)
  <2>1. module[c] \in Modules /\ module[c] = file[version[c]]
    BY <1>5 DEF IInv, ModuleIsTheFile, Execute
  <2>2. TypeOK'
    BY <1>5, <2>1 DEF IInv, TypeOK, Execute, callVars
  <2>3. CacheIsTheFile' /\ ModuleIsTheFile' /\ ReleaseStays'
    BY <1>5 DEF IInv, TypeOK, CacheIsTheFile, ModuleIsTheFile, ReleaseStays, Execute, callVars
  <2>4. AnsweredByItsVersion' /\ FailureNotCached'
    BY <1>5, <2>1, ModulesAssumption
    DEF IInv, TypeOK, ReleaseStays, AnsweredByItsVersion, FailureNotCached, Execute, callVars
  <2>. QED  BY <2>2, <2>3, <2>4 DEF IInv
<1>. QED
  BY <1>1, <1>2, <1>3, <1>4, <1>5

\* Whatever other calls have inserted since this one looked, it inserts the same.
LEMMA CompileStep ==
    ASSUME IInv, NEW c \in Calls, Compile(c)
    PROVE  IInv'
<1>1. bin[c] \in Modules \cup {"broken"} /\ (bin[c] \in Modules => bin[c] = file[version[c]])
  BY DEF IInv, ModuleIsTheFile, Compile
<1>2. CASE bin[c] = "broken"
  <2>1. modules' = modules /\ Fails(c, "broken") /\ module' = module
    BY <1>2, ModulesAssumption DEF Compile, Inserted, Faults
  <2>2. atStart[c] \notin Modules
    BY <1>2, ModulesAssumption DEF IInv, ReleaseStays, Compile, Faults
  <2>3. TypeOK' /\ CacheIsTheFile' /\ ModuleIsTheFile' /\ ReleaseStays'
    BY <2>1 DEF IInv, TypeOK, CacheIsTheFile, ModuleIsTheFile, ReleaseStays, Compile, Fails, Faults
  <2>4. AnsweredByItsVersion' /\ FailureNotCached'
    BY <2>1, <2>2, ModulesAssumption
    DEF IInv, TypeOK, AnsweredByItsVersion, FailureNotCached, Compile, Fails, Faults
  <2>. QED  BY <2>3, <2>4 DEF IInv
<1>3. CASE bin[c] \in Modules
  <2>1. /\ modules' = [modules EXCEPT ![version[c]] = bin[c]]
        /\ module' = [module EXCEPT ![c] = bin[c]]
        /\ pc' = [pc EXCEPT ![c] = "run"] /\ outcome' = outcome
    BY <1>3, ModulesAssumption DEF Compile, Inserted, Faults
  <2>2. TypeOK' /\ CacheIsTheFile' /\ ModuleIsTheFile' /\ ReleaseStays'
    BY <1>1, <1>3, <2>1
    DEF IInv, TypeOK, CacheIsTheFile, ModuleIsTheFile, ReleaseStays, Compile
  <2>3. AnsweredByItsVersion' /\ FailureNotCached'
    BY <2>1 DEF IInv, TypeOK, AnsweredByItsVersion, FailureNotCached, Compile
  <2>. QED  BY <2>2, <2>3 DEF IInv
<1>. QED
  BY <1>1, <1>2, <1>3

LEMMA NextIInv == IInv /\ [Next]_vars => IInv'
<1>. SUFFICES ASSUME IInv, [Next]_vars
              PROVE  IInv'
  OBVIOUS
<1>1. CASE UNCHANGED vars
  BY <1>1 DEF vars, callVars, IInv, TypeOK, CacheIsTheFile, ModuleIsTheFile, ReleaseStays,
              AnsweredByItsVersion, FailureNotCached
<1>2. CASE Next
  BY <1>2, ReleaseStep, CallStep, CompileStep DEF Next
<1>. QED
  BY <1>1, <1>2

-----------------------------------------------------------------------------
LEMMA Invariance == Spec => []IInv
BY InitIInv, NextIInv, PTL DEF Spec

\* The files, the cache and the calls of the runner (runner.rs:16-20) are well-typed.
THEOREM TypeCorrect == Spec => []TypeOK
<1>1. IInv => TypeOK
  BY DEF IInv
<1>. QED
  BY Invariance, <1>1, PTL

\* Every answer of Runner::run is the answer of its own version's module, however the
\* calls interleave between the two locks of load_module.
THEOREM VersionsNeverMixed == Spec => []AnsweredByItsVersion
<1>1. IInv => AnsweredByItsVersion
  BY DEF IInv
<1>. QED
  BY Invariance, <1>1, PTL

\* What the cache holds for a version is the module of its binary: no version that
\* is missing, unreadable or broken is ever in it (runner.rs:80-86), and whoever
\* finds a module there could have compiled the same one.
THEOREM CacheHoldsReleases ==
    Spec => [](\A v \in Versions : modules[v] # NoModule =>
                    modules[v] \in Modules /\ modules[v] = file[v])
<1>1. IInv => \A v \in Versions : modules[v] # NoModule =>
                 modules[v] \in Modules /\ modules[v] = file[v]
  BY DEF IInv, TypeOK, CacheIsTheFile
<1>. QED
  BY Invariance, <1>1, PTL

\* A call that began when the binary of its version was in place ends with the
\* answer or a trap of that binary: it never fails for want of it, though calls
\* before it or beside it found none.
THEOREM FailuresForgotten == Spec => []FailureNotCached
<1>1. IInv => FailureNotCached
  BY DEF IInv
<1>. QED
  BY Invariance, <1>1, PTL
=============================================================================
