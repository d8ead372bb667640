-------------------------------- MODULE EojServer --------------------------------
(***************************************************************************)
(* The catalogue of the EOJ server (server.py): get_dynamic_catalog with   *)
(* its two unlocked globals, called by run_server once and then by every   *)
(* handler thread, on a machine whose installer may still be running.      *)
(*                                                                         *)
(* What a catalogue holds is Discover of the machine it was made on, so a  *)
(* catalogue is the set of installation steps that were finished then.     *)
(* Time is kept as ages, which stop at Old.                                *)
(***************************************************************************)
EXTENDS Toolchains, FiniteSets

CONSTANTS
    Threads,    \* of ThreadingMixIn; one of them stands for the main thread first
    Main,
    Steps,      \* the steps of the installer that are still to come
    Boots,      \* the sets of steps that may have succeeded before the server starts
    MaxAge,     \* a catalogue older than this is made anew (30 s)
    Probe,      \* what a discovery takes, at most
    Fails       \* whether a discovery may raise

ASSUME TimeAssumption == MaxAge \in Nat /\ Probe \in Nat \ {0} /\ Probe <= MaxAge
ASSUME ThreadsAssumption == Main \in Threads /\ Fails \in BOOLEAN
ASSUME StepsAssumption == \A b \in Boots : b \cap Steps = {}

Old == MaxAge + 2 * Probe + 1
Never == [steps |-> {"none"}, age |-> Old]     \* _CACHED_CATALOG is None

VARIABLES
    done,       \* the steps of the installer that succeeded
    pending,    \* those that were not tried yet
    catalog,    \* _CACHED_CATALOG and the age of what it shows
    stamp,      \* the age of _CACHE_TIME
    serving,    \* run_server listens
    pc,         \* of each thread
    began,      \* the age of the now a refreshing thread has read
    found,      \* what its discovery returned
    shown,      \* the catalogue of the last answer
    failed      \* history: discoveries failed since the last one that was stored

vars == <<done, pending, catalog, stamp, serving, pc, began, found, shown, failed>>

Init ==
    /\ done \in Boots
    /\ pending = Steps
    /\ catalog = Never /\ shown = Never /\ stamp = Old
    /\ serving = FALSE /\ failed = FALSE
    /\ pc = [t \in Threads |-> "idle"]
    /\ began = [t \in Threads |-> 0]
    /\ found = [t \in Threads |-> Never]

Goto(t, place) == pc' = [pc EXCEPT ![t] = place]
Empty == [steps |-> {}, age |-> 0]
-----------------------------------------------------------------------------
\* A step of the installer ends, well or not.
Install(s) ==
    /\ s \in pending
    /\ pending' = pending \ {s}
    /\ done' \in {done, done \cup {s}}
    /\ UNCHANGED <<catalog, stamp, serving, pc, began, found, shown, failed>>

\* _CACHED_CATALOG is None or now - _CACHE_TIME > 30
Expired == catalog = Never \/ stamp > MaxAge

\* A request for the catalogue, or run_server before it listens.
Look(t) ==
    /\ pc[t] = "idle" /\ (serving \/ t = Main)
    /\ IF Expired THEN Goto(t, "probe") ELSE Goto(t, "answer")
    /\ began' = [began EXCEPT ![t] = 0]
    /\ UNCHANGED <<done, pending, catalog, stamp, serving, found, shown, failed>>

\* discover_installed_languages: it reads the machine once, at some moment.
Discovered(t) ==
    /\ pc[t] = "probe"
    /\ found' = [found EXCEPT ![t] = [steps |-> done, age |-> 0]]
    /\ Goto(t, "store")
    /\ UNCHANGED <<done, pending, catalog, stamp, serving, began, shown, failed>>

\* It raised: what was there stays, or becomes empty.
DiscoveryFails(t) ==
    /\ Fails /\ pc[t] = "probe"
    /\ catalog' = IF catalog = Never THEN Empty ELSE catalog
    /\ failed' = TRUE
    /\ Goto(t, "answer")
    /\ UNCHANGED <<done, pending, stamp, serving, began, found, shown>>

StoreCatalog(t) ==
    /\ pc[t] = "store"
    /\ catalog' = found[t] /\ failed' = FALSE
    /\ found' = [found EXCEPT ![t] = Never]
    /\ Goto(t, "stamp")
    /\ UNCHANGED <<done, pending, stamp, serving, began, shown>>

StoreTime_Later(t) ==
    /\ pc[t] = "stamp"
    /\ stamp' = 0
    /\ began' = [began EXCEPT ![t] = 0]
    /\ Goto(t, "answer")
    /\ UNCHANGED <<done, pending, catalog, serving, found, shown, failed>>
\* _CACHE_TIME = now: the time the discovery began at, not when it ended.
StoreTime(t) ==
    /\ pc[t] = "stamp"
    /\ stamp' = began[t]
    /\ began' = [began EXCEPT ![t] = 0]
    /\ Goto(t, "answer")
    /\ UNCHANGED <<done, pending, catalog, serving, found, shown, failed>>

\* return _CACHED_CATALOG: the global as it is now.
Answer(t) ==
    /\ pc[t] = "answer"
    /\ shown' = catalog /\ serving' = TRUE
    /\ Goto(t, "idle")
    /\ UNCHANGED <<done, pending, catalog, stamp, began, found, failed>>

Older(c) == IF c = Never THEN c ELSE [c EXCEPT !.age = IF @ < Old THEN @ + 1 ELSE Old]

\* Time passes, but no thread is in a refresh for longer than Probe.
Tick ==
    /\ \A t \in Threads : pc[t] \in {"probe", "store", "stamp"} => began[t] < Probe
    /\ \A t \in Threads : pc[t] # "answer"
    /\ catalog' = Older(catalog) /\ shown' = Older(shown)
    /\ found' = [t \in Threads |-> Older(found[t])]
    /\ stamp' = IF stamp < Old THEN stamp + 1 ELSE Old
    /\ began' = [t \in Threads |->
                   IF pc[t] \in {"probe", "store", "stamp"} THEN began[t] + 1 ELSE 0]
    /\ UNCHANGED <<done, pending, serving, pc, failed>>

Handler(t) ==
    \/ Look(t) \/ Discovered(t) \/ DiscoveryFails(t)
    \/ StoreCatalog(t) \/ StoreTime(t) \/ Answer(t)

Next == (\E s \in Steps : Install(s)) \/ (\E t \in Threads : Handler(t)) \/ Tick

Spec == Init /\ [][Next]_vars
-----------------------------------------------------------------------------
Places == {"idle", "probe", "store", "stamp", "answer"}
Catalogs == {Never} \cup [steps : SUBSET (Steps \cup UNION Boots), age : 0..Old]

\* The parts of the server's state have their types.
TypeOK ==
    /\ done \subseteq Steps \cup UNION Boots /\ pending \subseteq Steps
    /\ {catalog, shown} \cup {found[t] : t \in Threads} \subseteq Catalogs
    /\ stamp \in 0..Old /\ serving \in BOOLEAN /\ failed \in BOOLEAN
    /\ pc \in [Threads -> Places] /\ began \in [Threads -> 0..Probe]

\* Two threads may refresh at once and interleave their two assignments, an older
\* catalogue over a newer one or with the newer one's time: still no answer shows
\* a machine older than the limit and one discovery, unless discoveries fail.
AnswersFresh ==
    [][\A t \in Threads : Answer(t) => failed \/ shown'.age <= MaxAge + Probe]_vars

\* The offers for which the runner has no branch, a file that the installer puts
\* elsewhere, or another vendor's JDK.
Gap(t) ==
    \/ t.lang \in {"clpp_" \o v : v \in CppVersions}
    \/ t.lang \in {"pas_fpc_smart", "ldc", "llvm_ir", "fs_mono", "vb_mono"}
    \/ t.lang \in {"asm_fasm", "kotlin"}
    \/ t.lang = "java" /\ t.version \in {"25", "26"} /\ t.vendor # "openjdk"

\* And those that half an installation leaves: Objective-C is offered for clang and
\* compiled by gcc, which needs a package of the scripting group; TypeScript is
\* offered for node and needs tsx or npx, which only NodeSource's node brings.
Halved(t, steps) ==
    \/ t.lang = "objc" /\ "scripting" \notin steps
    \/ t.lang = "ts_tsx" /\ "nodesource" \notin steps

\* Whether every offer but those, made on the first machine, compiles with what it
\* names on the second; a table, for the machines there can be.
Machines == {b \cup s : b \in Boots, s \in SUBSET Steps}
Kept(offers, now) ==
    \A t \in offers : Gap(t) \/ Halved(t, now) \/ CompileSource(t, Machine(now)) = "runs"
OffersKept ==
    [offered \in Machines \cup {Never.steps, Empty.steps} |->
       LET offers == Discover(Machine(offered))
       IN [now \in Machines |-> Kept(offers, now)]]

\* Whatever steps of the installer failed and whichever catalogue a client was
\* shown, every offer but the gaps and what half an installation leaves compiles with
\* what it names on the machine of today: discovery and compile_source agree, and a
\* stale catalogue offers nothing the machine does not have.
OffersRun == OffersKept[shown.steps][done]

\* "only 100% available and executable runtimes are returned"
\* (toolchain_discovery.py:6).
OnlyExecutable ==
    \A t \in Discover(Machine(shown.steps)) : CompileSource(t, Machine(done)) = "runs"
=============================================================================
