-------------------------------- MODULE Runner --------------------------------
(***************************************************************************)
(* The runner of the logic (be/server/src/runner.rs) over the directory of *)
(* its binaries (binaries.rs).  Runner::run takes the version that the     *)
(* client named in x-impl, or the default one, finds its module in the     *)
(* cache or reads, compiles and caches it, and runs the module on the      *)
(* request.                                                                *)
(*                                                                         *)
(* The cache is looked at under its read lock and filled under its write   *)
(* lock; in between the file is read, and other threads run.  Versions are *)
(* released while the server runs: a file that is missing, unreadable or   *)
(* not a module may become one.  A release is not changed after that,      *)
(* which is what a version number is for.                                  *)
(***************************************************************************)
CONSTANTS
    Calls,          \* the calls of Runner::run
    Versions,       \* the version numbers a client may name
    Default,        \* Filesystem.default
    Modules,        \* what a file may hold: the compiled modules
    NoModule        \* no module, no version named, no outcome yet

ASSUME VersionsAssumption == Default \in Versions /\ NoModule \notin Versions

\* What load and from_binary make of a file that is no module.
Faults == {"missing", "unreadable", "broken"}

ASSUME ModulesAssumption == /\ NoModule \notin Modules
                            /\ Modules \cap Faults = {} /\ NoModule \notin Faults
                            /\ "trap" \notin Modules /\ NoModule # "trap"

VARIABLES
    file,           \* per version: v<version>.wasm
    modules,        \* Runner.modules: the cache
    pc,             \* per call: where it is
    version,        \* per call: the version it runs
    bin,            \* per call: what it read from the file
    module,         \* per call: the module it runs
    outcome,        \* per call: whose answer it returned, or why it failed
    atStart         \* history: per call, the file when the call began

vars == <<file, modules, pc, version, bin, module, outcome, atStart>>

callVars == <<version, bin, module, atStart>>

Init == /\ file \in [Versions -> Modules \cup Faults]
        /\ modules = [v \in Versions |-> NoModule]
        /\ pc = [c \in Calls |-> "idle"]
        /\ version = [c \in Calls |-> Default]
        /\ bin = [c \in Calls |-> NoModule]
        /\ module = [c \in Calls |-> NoModule]
        /\ outcome = [c \in Calls |-> NoModule]
        /\ atStart = [c \in Calls |-> NoModule]

-----------------------------------------------------------------------------
\* External: somebody puts a binary in place.
Release(v) ==
    /\ file[v] \in Faults
    /\ \E m \in Modules : file' = [file EXCEPT ![v] = m]
    /\ UNCHANGED <<modules, pc, outcome, callVars>>

\* The version of the request's x-impl, or the default one when there is none.
VersionRun(named) == IF named \in Versions THEN named ELSE Default

Run(c) ==
    /\ pc[c] = "idle"
    /\ \E named \in Versions \cup {NoModule} :
          /\ version' = [version EXCEPT ![c] = VersionRun(named)]
          /\ atStart' = [atStart EXCEPT ![c] = file[VersionRun(named)]]
    /\ pc' = [pc EXCEPT ![c] = "lookup"]
    /\ UNCHANGED <<file, modules, bin, module, outcome>>

Cached(c) == modules[version[c]]

Found(c) ==
    /\ pc[c] = "lookup" /\ Cached(c) # NoModule
    /\ module' = [module EXCEPT ![c] = Cached(c)]
    /\ pc' = [pc EXCEPT ![c] = "run"]
    /\ UNCHANGED <<file, modules, version, bin, outcome, atStart>>

NotFound(c) ==
    /\ pc[c] = "lookup" /\ Cached(c) = NoModule
    /\ pc' = [pc EXCEPT ![c] = "load"]
    /\ UNCHANGED <<file, modules, outcome, callVars>>

Fails(c, why) ==
    /\ outcome' = [outcome EXCEPT ![c] = why]
    /\ pc' = [pc EXCEPT ![c] = "done"]

Read(c) == bin' = [bin EXCEPT ![c] = file[version[c]]] /\ pc' = [pc EXCEPT ![c] = "compile"]

\* provider.load(version): Ok(None) and an error of the file system end the call.
Load(c) ==
    /\ pc[c] = "load"
    /\ \/ /\ file[version[c]] \in {"missing", "unreadable"}
          /\ Fails(c, file[version[c]]) /\ UNCHANGED bin
       \/ /\ file[version[c]] \notin {"missing", "unreadable"}
          /\ Read(c) /\ UNCHANGED outcome
    /\ UNCHANGED <<file, modules, version, module, atStart>>

\* Faulty variant: what was read is cached before it is compiled.
InsertedUnchecked(v, b) == [modules EXCEPT ![v] = b]

\* Faulty variant: the module is cached as the default one.
InsertedAsDefault(v, b) == IF b \in Faults THEN modules ELSE [modules EXCEPT ![Default] = b]

\* The cache once Module::from_binary has compiled b, or has failed.
Inserted(v, b) == IF b \in Faults THEN modules ELSE [modules EXCEPT ![v] = b]

\* Under the write lock: from_binary and insert, whatever is in the cache by now.
Compile(c) ==
    /\ pc[c] = "compile"
    /\ modules' = Inserted(version[c], bin[c])
    /\ \/ /\ bin[c] = "broken"
          /\ Fails(c, "broken") /\ UNCHANGED module
       \/ /\ bin[c] # "broken"
          /\ module' = [module EXCEPT ![c] = bin[c]]
          /\ pc' = [pc EXCEPT ![c] = "run"] /\ UNCHANGED outcome
    /\ UNCHANGED <<file, version, bin, atStart>>

\* The module runs in a store of its own, and answers, or traps, or writes what
\* is no Response.
Execute(c) ==
    /\ pc[c] = "run"
    /\ \E o \in {module[c], "trap"} : outcome' = [outcome EXCEPT ![c] = o]
    /\ pc' = [pc EXCEPT ![c] = "done"]
    /\ UNCHANGED <<file, modules, callVars>>

Next == \/ \E v \in Versions : Release(v)
        \/ \E c \in Calls : \/ Run(c) \/ Found(c) \/ NotFound(c)
                            \/ Load(c) \/ Compile(c) \/ Execute(c)

Spec == Init /\ [][Next]_vars

-----------------------------------------------------------------------------
TypeOK ==
    /\ file \in [Versions -> Modules \cup Faults]
    /\ modules \in [Versions -> Modules \cup {NoModule}]
    /\ pc \in [Calls -> {"idle", "lookup", "load", "compile", "run", "done"}]
    /\ version \in [Calls -> Versions]
    /\ bin \in [Calls -> Modules \cup {"broken", NoModule}]
    /\ module \in [Calls -> Modules \cup {NoModule}]
    /\ outcome \in [Calls -> Modules \cup Faults \cup {"trap", NoModule}]
    /\ atStart \in [Calls -> Modules \cup Faults \cup {NoModule}]

\* A call is answered by the module of its own version, whichever call compiled
\* it, and however many did at once (the gap between the locks, runner.rs:76-85):
\* all replays of a log by one version run the same logic.
AnsweredByItsVersion ==
    \A c \in Calls :
        pc[c] = "done" /\ outcome[c] \in Modules => outcome[c] = file[version[c]]

\* A failure is not cached: a call that began when the binary of its version was
\* in place ends with an answer or a trap of that binary, though calls before it,
\* or beside it, found no binary (runner.rs:80-86).
FailureNotCached ==
    \A c \in Calls :
        pc[c] = "done" /\ atStart[c] \in Modules => outcome[c] \in {atStart[c], "trap"}
=============================================================================
