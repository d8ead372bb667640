---------------------------- MODULE ExecutorProofs ----------------------------
(***************************************************************************)
(* What an executor rests on: the sandboxed process it starts              *)
(* (TracedPopen, with and without a limit), the cache of the compiled ones *)
(* (CompiledCache, for any number of executors, sources and any size), and *)
(* the exchange with the process over its pipes (Communicate, for any      *)
(* sizes of the input, the outputs, the limit, the chunks and the pipes).  *)
(* They share no variable.                                                 *)
(*                                                                         *)
(* The process: Lifecycle ties the place of the worker to the events it    *)
(* sets and to the first process; Users says how far the other threads are *)
(* then; Clock follows the time from the clock of the program through the  *)
(* stop that wait4 reports to is_tle; Faults follows a refused call.       *)
(* Together with the types they are inductive.                             *)
(***************************************************************************)
EXTENDS TracedPopen, CompiledCache, Communicate, TLAPS

Over == {"limits", "died", "ending", "done"}

Lifecycle ==
    /\ pid = 0 <=> worker = "spawn" \/ spawnError
    /\ spawnError => worker \in {"errored", "done"}
    /\ worker = "errored" => spawnError
    /\ spawned <=> worker \notin {"spawn", "spawned", "errored"}
    /\ died <=> worker \in {"errored", "ending", "done"}
    /\ pid = 0 => \A p \in Tracees : st[p] = "none"
    /\ st["main"] = "none" => pid = 0
    /\ st["main"] = "reaped" <=> ~spawnError /\ worker \in Over \cup {"reaped"}
    /\ returncode # "none" <=> ~spawnError /\ worker \in Over
    /\ returncode # "none" => returncode = status
    /\ caught # NoOne => worker = "monitor" /\ st[caught] \in {"stopped", "zombie"}

Users ==
    /\ caller # "constructor" => spawned
    /\ caller \in {"wait", "returned"} => ~spawnError
    /\ caller = "returned" => died
    /\ shocker \notin {"start", "off"} => spawned
    /\ shocker \in {"look", "wake", "kill", "killpg", "mark"} => pid = 1
    /\ killer = "killpg" => pid = 1
    /\ ~ownGroup

Clock ==
    /\ ran \/ execOver \/ wallOver => Limited /\ st["main"] \notin {"none", "forked"}
    /\ shocker \in {"kill", "killpg", "mark"} => execOver \/ wallOver
    /\ \A p \in Tracees : stop[p] = "xcpu" => xcpu
    /\ worker \in {"died", "ending", "done"} /\ execOver => tle
    /\ TimeVerdict

Faults ==
    /\ \A p \in Tracees : stop[p] = "refused" => refused
    /\ fault # "none" => refused
    /\ fault \in {"running", "stopped"} =>
         status = "signal" \/ ("kill" \in sig["main"] /\ st["main"] \in {"running", "stopped"})
    /\ caller = "returned" => seen.code = returncode /\ returncode # "none"
    /\ NoSurvivors

IInv == TypeOK /\ Lifecycle /\ Users /\ Clock /\ Faults

LEMMA InitIInv == Init => IInv
<1> SUFFICES ASSUME Init PROVE IInv  OBVIOUS
<1> USE LimitedAssumption DEF Init
<1>1. TypeOK
  BY DEF TypeOK, TypeObject, TypeThreads, TypeProgram, TypeHistory, Codes, States, Reasons,
         Tracees, NoOne, Pids
<1>2. Lifecycle  BY DEF Lifecycle, Over, Tracees, NoOne
<1>3. Users  BY DEF Users
<1>4. Clock  BY DEF Clock, TimeVerdict, Tracees, NoOne
<1>5. Faults  BY DEF Faults, NoSurvivors, Tracees
<1> QED  BY <1>1, <1>2, <1>3, <1>4, <1>5 DEF IInv
-----------------------------------------------------------------------------
(***************************************************************************)
(* The steps of the program.                                               *)
(***************************************************************************)
LEMMA ProgramTypes ==
    ASSUME TypeOK, Program PROVE TypeOK'
<1> USE DEF TypeOK, TypeObject, TypeThreads, TypeProgram, TypeHistory, object, threads,
            ProgramFrame, Codes, States, Living, Reasons, Tracees, NoOne, Pids
<1>1. CASE Traceme /\ ProgramFrame  BY <1>1 DEF Traceme, End
<1>2. CASE ExecveEnds /\ ProgramFrame  BY <1>2 DEF ExecveEnds, StopFor, Executes
<1>3. CASE Fork /\ ProgramFrame  BY <1>3 DEF Fork
<1>4. CASE WinchStop /\ ProgramFrame  BY <1>4 DEF WinchStop, StopFor, Executes
<1>10. CASE XcpuStop  BY <1>10 DEF XcpuStop, StopFor, Executes
<1>5. CASE RunLong /\ ProgramFrame  BY <1>5 DEF RunLong
<1>6. ASSUME NEW p \in Tracees, EndItself(p), ProgramFrame PROVE TypeOK'
  BY <1>6 DEF EndItself, End
<1>7. ASSUME NEW p \in Tracees, Call(p), ProgramFrame PROVE TypeOK'
  BY <1>7 DEF Call, Trapped, StopFor, Executes
<1>8. ASSUME NEW p \in Tracees, Crash(p), ProgramFrame PROVE TypeOK'
  BY <1>8 DEF Crash, End
<1>9. ASSUME NEW p \in Tracees, BeKilled(p), ProgramFrame PROVE TypeOK'
  BY <1>9 DEF BeKilled, End
<1> QED  BY <1>1, <1>2, <1>3, <1>4, <1>5, <1>6, <1>7, <1>8, <1>9, <1>10 DEF Program

LEMMA ProgramInv ==
    ASSUME IInv, Program PROVE (Lifecycle /\ Users /\ Clock /\ Faults)'
<1> USE DEF IInv, TypeOK, TypeObject, TypeThreads, TypeProgram, TypeHistory, object, threads,
            Lifecycle, Users, Clock, Faults, TimeVerdict, NoSurvivors, Over,
            ProgramFrame, Codes, States, Living, Reasons, Tracees, NoOne, Pids
<1>1. CASE Traceme /\ ProgramFrame  BY <1>1 DEF Traceme, End
<1>2. CASE ExecveEnds /\ ProgramFrame  BY <1>2 DEF ExecveEnds, StopFor, Executes
<1>3. CASE Fork /\ ProgramFrame  BY <1>3 DEF Fork, Executes
<1>4. CASE WinchStop /\ ProgramFrame  BY <1>4 DEF WinchStop, StopFor, Executes
<1>10. CASE XcpuStop  BY <1>10 DEF XcpuStop, StopFor, Executes
<1>5. CASE RunLong /\ ProgramFrame  BY <1>5 DEF RunLong
<1>6. ASSUME NEW p \in Tracees, EndItself(p), ProgramFrame
      PROVE  (Lifecycle /\ Users /\ Clock /\ Faults)'
  BY <1>6 DEF EndItself, End
<1>7. ASSUME NEW p \in Tracees, Call(p), ProgramFrame
      PROVE  (Lifecycle /\ Users /\ Clock /\ Faults)'
  <2>1. PICK reason \in Trapped : StopFor(p, reason) /\ refused' = (refused \/ reason = "refused")
    BY <1>7 DEF Call
  <2>2. (refused => refused') /\ (reason = "refused" => refused')
    BY <2>1, Zenon
  <2> QED  BY <1>7, <2>1, <2>2 DEF Call, Trapped, StopFor, Executes
<1>8. ASSUME NEW p \in Tracees, Crash(p), ProgramFrame
      PROVE  (Lifecycle /\ Users /\ Clock /\ Faults)'
  BY <1>8 DEF Crash, End
<1>9. ASSUME NEW p \in Tracees, BeKilled(p), ProgramFrame
      PROVE  (Lifecycle /\ Users /\ Clock /\ Faults)'
  BY <1>9 DEF BeKilled, End
<1> QED  BY <1>1, <1>2, <1>3, <1>4, <1>5, <1>6, <1>7, <1>8, <1>9, <1>10 DEF Program
-----------------------------------------------------------------------------
(***************************************************************************)
(* The steps of the worker.                                                *)
(***************************************************************************)
LEMMA WorkerTypes ==
    ASSUME TypeOK, Lifecycle, Worker PROVE TypeOK'
<1> USE DEF TypeOK, TypeObject, TypeThreads, TypeProgram, TypeHistory, program,
            WorkerFrame, Codes, States, Living, Reasons, Tracees, NoOne, Pids
<1>1. CASE Spawn /\ WorkerFrame
  BY <1>1 DEF Spawn, ForkMain, MonitorRests, Lifecycle
<1>2. CASE SpawnFails /\ WorkerFrame
  BY <1>2 DEF SpawnFails, MonitorRests
<1>3. CASE Release /\ WorkerFrame
  BY <1>3 DEF Release, MonitorRests
<1>4. CASE Wait4Stop /\ WorkerFrame
  BY <1>4 DEF Wait4Stop, MonitorFrame, CountTime
<1>5. CASE Wait4Exit /\ WorkerFrame
  BY <1>5 DEF Wait4Exit, MonitorFrame, CountTime
<1>6. CASE Handle /\ WorkerFrame
  <2>1. CASE HandleSignal
    BY <1>6, <2>1 DEF Handle, MonitorFrame, HandleSignal, SignalEvent, Handles, Resume, Gone
  <2>2. CASE HandleFork
    BY <1>6, <2>2 DEF Handle, MonitorFrame, HandleFork, Handles, Resume, Gone
  <2>3. CASE HandleExec
    BY <1>6, <2>3 DEF Handle, MonitorFrame, HandleExec, Handles, Resume, Gone
  <2>4. CASE HandleExit
    BY <1>6, <2>4 DEF Handle, MonitorFrame, HandleExit, Handles, Resume, Gone
  <2>5. CASE HandleRefused
    BY <1>6, <2>5 DEF Handle, MonitorFrame, HandleRefused, Handles, ProtectionFault, NoteFault, Group, Sent, Gone
  <2>6. CASE HandleGone
    BY <1>6, <2>6 DEF Handle, MonitorFrame, HandleGone, Handles, SyscallStops, Gone
  <2> QED  BY <1>6, <2>1, <2>2, <2>3, <2>4, <2>5, <2>6 DEF Handle
<1>7. CASE StoreCode /\ WorkerFrame
  BY <1>7 DEF StoreCode, KillChildren, Sent
<1>8. CASE CheckLimits /\ WorkerFrame
  BY <1>8 DEF CheckLimits, CheckTime, MonitorRests
<1>9. CASE Announce /\ WorkerFrame
  BY <1>9 DEF Announce, MonitorRests
<1>10. CASE EndThread /\ WorkerFrame
  BY <1>10 DEF EndThread, MonitorRests, Sent, OnTracerExit
<1> QED  BY <1>1, <1>2, <1>3, <1>4, <1>5, <1>6, <1>7, <1>8, <1>9, <1>10 DEF Worker

LEMMA WorkerInv ==
    ASSUME IInv, Worker PROVE (Lifecycle /\ Users /\ Clock /\ Faults)'
<1> USE DEF IInv, TypeOK, TypeObject, TypeThreads, TypeProgram, TypeHistory, Lifecycle,
            Users, Clock, Faults, TimeVerdict, NoSurvivors, Over, program, WorkerFrame,
            Codes, States, Living, Reasons, Tracees, NoOne, Pids
<1>1. CASE Spawn /\ WorkerFrame
  BY <1>1 DEF Spawn, ForkMain, MonitorRests
<1>2. CASE SpawnFails /\ WorkerFrame
  BY <1>2 DEF SpawnFails, MonitorRests
<1>3. CASE Release /\ WorkerFrame
  BY <1>3 DEF Release, MonitorRests
<1>4. CASE Wait4Stop /\ WorkerFrame
  BY <1>4 DEF Wait4Stop, MonitorFrame, CountTime
<1>5. CASE Wait4Exit /\ WorkerFrame
  BY <1>5 DEF Wait4Exit, MonitorFrame, CountTime
<1>6. CASE Handle /\ WorkerFrame
  <2>1. CASE HandleSignal
    BY <1>6, <2>1 DEF Handle, MonitorFrame, HandleSignal, SignalEvent, Handles, Resume, Gone
  <2>2. CASE HandleFork
    BY <1>6, <2>2 DEF Handle, MonitorFrame, HandleFork, Handles, Resume, Gone
  <2>3. CASE HandleExec
    BY <1>6, <2>3 DEF Handle, MonitorFrame, HandleExec, Handles, Resume, Gone
  <2>4. CASE HandleExit
    BY <1>6, <2>4 DEF Handle, MonitorFrame, HandleExit, Handles, Resume, Gone
  <2>5. CASE HandleRefused
    BY <1>6, <2>5 DEF Handle, MonitorFrame, HandleRefused, Handles, ProtectionFault, NoteFault, Group, Sent, Gone
  <2>6. CASE HandleGone
    BY <1>6, <2>6 DEF Handle, MonitorFrame, HandleGone, Handles, SyscallStops, Gone
  <2> QED  BY <1>6, <2>1, <2>2, <2>3, <2>4, <2>5, <2>6 DEF Handle
<1>7. CASE StoreCode /\ WorkerFrame
  BY <1>7 DEF StoreCode, KillChildren, Sent
<1>8. CASE CheckLimits /\ WorkerFrame
  BY <1>8 DEF CheckLimits, CheckTime, MonitorRests
<1>9. CASE Announce /\ WorkerFrame
  BY <1>9 DEF Announce, MonitorRests
<1>10. CASE EndThread /\ WorkerFrame
  BY <1>10 DEF EndThread, MonitorRests, Sent, OnTracerExit
<1> QED  BY <1>1, <1>2, <1>3, <1>4, <1>5, <1>6, <1>7, <1>8, <1>9, <1>10 DEF Worker
-----------------------------------------------------------------------------
(***************************************************************************)
(* The steps of the shocker, of a killer, of the caller and of the clock.  *)
(***************************************************************************)
LEMMA ShockerTypes ==
    ASSUME TypeOK, Shocker PROVE TypeOK'
<1> USE DEF TypeOK, TypeObject, TypeThreads, TypeProgram, TypeHistory, program,
            ShockerFrame, Codes, States, Living, Reasons, Tracees, NoOne, Pids
<1>1. CASE Start /\ ShockerFrame
  BY <1>1 DEF Start
<1>2. CASE Tick /\ ShockerFrame
  BY <1>2 DEF Tick
<1>3. CASE Look /\ ShockerFrame
  BY <1>3 DEF Look, OverLimit
<1>4. CASE Wake /\ ShockerFrame
  BY <1>4 DEF Wake, Killpg, Group, Sent
<1>5. CASE CheckCode /\ ShockerFrame
  BY <1>5 DEF CheckCode
<1>6. CASE ShockerKills /\ ShockerFrame
  BY <1>6 DEF ShockerKills, ShockerSignal, Killpg, Group, Sent
<1>7. CASE Mark /\ ShockerFrame
  BY <1>7 DEF Mark
<1> QED  BY <1>1, <1>2, <1>3, <1>4, <1>5, <1>6, <1>7 DEF Shocker

LEMMA ShockerInv ==
    ASSUME IInv, Shocker PROVE (Lifecycle /\ Users /\ Clock /\ Faults)'
<1> USE DEF IInv, TypeOK, TypeObject, TypeThreads, TypeProgram, TypeHistory, Lifecycle,
            Users, Clock, Faults, TimeVerdict, NoSurvivors, Over, program,
            ShockerFrame, Codes, States, Living, Reasons, Tracees, NoOne, Pids
<1>1. CASE Start /\ ShockerFrame
  BY <1>1 DEF Start
<1>2. CASE Tick /\ ShockerFrame
  BY <1>2 DEF Tick
<1>3. CASE Look /\ ShockerFrame
  BY <1>3 DEF Look, OverLimit
<1>4. CASE Wake /\ ShockerFrame
  BY <1>4 DEF Wake, Killpg, Group, Sent
<1>5. CASE CheckCode /\ ShockerFrame
  BY <1>5 DEF CheckCode
<1>6. CASE ShockerKills /\ ShockerFrame
  BY <1>6 DEF ShockerKills, ShockerSignal, Killpg, Group, Sent
<1>7. CASE Mark /\ ShockerFrame
  BY <1>7 DEF Mark
<1> QED  BY <1>1, <1>2, <1>3, <1>4, <1>5, <1>6, <1>7 DEF Shocker

LEMMA KillerStep ==
    ASSUME IInv, Killer PROVE (TypeOK /\ Lifecycle /\ Users /\ Clock /\ Faults)'
<1> USE DEF IInv, TypeOK, TypeObject, TypeThreads, TypeProgram, TypeHistory, Lifecycle,
            Users, Clock, Faults, TimeVerdict, NoSurvivors, Over, object, program,
            KillerFrame, Codes, States, Living, Reasons, Tracees, NoOne, Pids
<1>1. CASE KillerChecks /\ KillerFrame
  BY <1>1 DEF KillerChecks
<1>2. CASE KillerKills /\ KillerFrame
  BY <1>2 DEF KillerKills, Killpg, Group, Sent
<1> QED  BY <1>1, <1>2 DEF Killer

LEMMA CallerStep ==
    ASSUME IInv, Caller PROVE (TypeOK /\ Lifecycle /\ Users /\ Clock /\ Faults)'
<1> USE DEF IInv, TypeOK, TypeObject, TypeThreads, TypeProgram, TypeHistory, Lifecycle,
            Users, Clock, Faults, TimeVerdict, NoSurvivors, Over, object, program,
            history, CallerFrame, Codes, States, Living, Reasons, Tracees, NoOne, Pids
<1>1. CASE Construct /\ CallerFrame
  BY <1>1 DEF Construct
<1>2. CASE WaitOver /\ CallerFrame
  BY <1>2 DEF WaitOver
<1> QED  BY <1>1, <1>2 DEF Caller

LEMMA WallTimeStep ==
    ASSUME IInv, WallTime PROVE (TypeOK /\ Lifecycle /\ Users /\ Clock /\ Faults)'
BY DEF WallTime, WallClockRuns, IInv, TypeOK, TypeObject, TypeThreads, TypeProgram, TypeHistory,
       Lifecycle, Users, Clock, Faults, TimeVerdict, NoSurvivors, threads, program, history, Tracees

LEMMA StutterStep ==
    ASSUME IInv, UNCHANGED vars PROVE IInv'
BY DEF IInv, vars, object, threads, program, history, TypeOK, TypeObject, TypeThreads, TypeProgram,
       TypeHistory, Lifecycle, Users, Clock, Faults, TimeVerdict, NoSurvivors
-----------------------------------------------------------------------------
(***************************************************************************)
(* The theorems.                                                           *)
(***************************************************************************)
THEOREM Inductive == Spec => []IInv
<1>1. Init => IInv  BY InitIInv
<1>2. IInv /\ [Next]_vars => IInv'
  <2> SUFFICES ASSUME IInv, [Next]_vars PROVE IInv'  OBVIOUS
  <2>1. CASE Program  BY <2>1, ProgramTypes, ProgramInv DEF IInv
  <2>2. CASE Worker  BY <2>2, WorkerTypes, WorkerInv DEF IInv
  <2>3. CASE Shocker  BY <2>3, ShockerTypes, ShockerInv DEF IInv
  <2>4. CASE Killer  BY <2>4, KillerStep DEF IInv
  <2>5. CASE Caller  BY <2>5, CallerStep DEF IInv
  <2>6. CASE WallTime  BY <2>6, WallTimeStep DEF IInv
  <2>7. CASE UNCHANGED vars  BY <2>7, StutterStep
  <2> QED  BY <2>1, <2>2, <2>3, <2>4, <2>5, <2>6, <2>7 DEF Next
<1> QED  BY <1>1, <1>2, PTL DEF Spec

\* The types, the wait status that exists exactly when the process ended, and the
\* assertion of wait() (tracer.py:212), which never fails.
THEOREM PopenTypeCorrect == Spec => []TypeOK
<1>1. IInv => TypeOK
  BY DEF IInv
<1> QED  BY <1>1, Inductive, PTL

\* kill() and the shocker never signal group 0, and the one SIGKILL of the shocker
\* finds a group (tracer.py:265-278, 367-382).
THEOREM SignalsReach == Spec => []SignalsReachProgram
<1>1. IInv => SignalsReachProgram
  BY DEF IInv, SignalsReachProgram, Users, Clock, Lifecycle, Group, Tracees
<1> QED  BY <1>1, Inductive, PTL

\* Whoever was counted over the limit is over it when wait() returns
\* (tracer.py:361-363), and besides only what passed a limit or got a SIGXCPU, with a
\* limit and without.
THEOREM TimeVerdictHolds == Spec => []TimeVerdict
<1>1. IInv => TimeVerdict
  BY DEF IInv, Clock
<1> QED  BY <1>1, Inductive, PTL

\* A fault means a refused call, and one made while the program ran ends it by a
\* signal (ptproc.cpp:80-95, 226-250).
THEOREM FaultVerdictHolds == Spec => []FaultVerdict
<1>1. IInv => FaultVerdict
  BY DEF IInv, Faults, Lifecycle, FaultVerdict
<1> QED  BY <1>1, Inductive, PTL

\* Whatever monitor() knew of the processes of the program, none of them runs on when
\* the tracer has ended (ptproc.cpp:155-160, 341-348).
THEOREM NothingSurvives == Spec => []NoSurvivors
<1>1. IInv => NoSurvivors
  BY DEF IInv, Faults
<1> QED  BY <1>1, Inductive, PTL

(***************************************************************************)
(* The cache.  An object that does not own its directory was made on a     *)
(* hit: it is cached and stays so, because only entries are ever unmarked  *)
(* and an entry owns its directory.  So the one directory a dying object   *)
(* removes is its own, which no entry has (Sharing).  A directory holds    *)
(* what its owner was compiled from, or nothing, and whoever shares it has *)
(* the key of that (Contents).                                             *)
(***************************************************************************)
CacheTypes ==
    /\ state \in [Objects -> {"unborn", "live", "dead"}]
    /\ source \in [Objects -> Sources \cup {None}]
    /\ dir \in [Objects -> Objects \cup {None}]
    /\ cached \in [Objects -> BOOLEAN]
    /\ files \in [Objects -> Sources \cup {None}]
    /\ held \subseteq Objects /\ entries \subseteq Objects /\ swept \subseteq Objects

BornNow(o) == state[o] \in {"live", "dead"}

Sharing ==
    /\ \A o \in held \cup entries : state[o] = "live"
    /\ \A o \in Objects : BornNow(o) => dir[o] \in Objects /\ BornNow(dir[o])
    /\ \A o \in Objects : BornNow(o) /\ dir[o] # o => cached[o]
    /\ \A e \in entries : dir[e] = e /\ cached[e]

\* A directory may be empty; what it holds has the key of src.
Fits(compiled, src) == compiled = None \/ Key[compiled] = Key[src]

Contents ==
    /\ \A o \in Objects : BornNow(o) => Fits(files[dir[o]], source[o])
    /\ \A o \in Objects : BornNow(o) /\ dir[o] = o => files[o] \in {None, source[o]}
    /\ \A d \in Objects : ~BornNow(d) => files[d] = None

CacheInv == CacheTypes /\ Sharing /\ Contents /\ EntriesKeepFiles /\ CleanedUp

LEMMA CacheInitInv == CacheInit => CacheInv
BY DEF CacheInit, CacheInv, CacheTypes, Sharing, Contents, Fits, EntriesKeepFiles, CleanedUp, BornNow

-----------------------------------------------------------------------------
\* What holds when an operation is done and the objects without a reference have
\* not died yet, of the states and the files it leaves.
Ready(states, fl) ==
    /\ states \in [Objects -> {"unborn", "live", "dead"}]
    /\ fl \in [Objects -> Sources \cup {None}]
    /\ source' \in [Objects -> Sources \cup {None}]
    /\ dir' \in [Objects -> Objects \cup {None}]
    /\ cached' \in [Objects -> BOOLEAN]
    /\ held' \subseteq Objects /\ entries' \subseteq Objects /\ swept' \subseteq Objects
    /\ \A o \in held' \cup entries' : states[o] = "live"
    /\ \A o \in Objects : states[o] # "unborn" => dir'[o] \in Objects /\ states[dir'[o]] # "unborn"
    /\ \A o \in Objects : states[o] # "unborn" /\ dir'[o] # o => cached'[o]
    /\ \A e \in entries' : dir'[e] = e /\ cached'[e]
    /\ \A o \in Objects : states[o] # "unborn" => Fits(fl[dir'[o]], source'[o])
    /\ \A o \in Objects : states[o] # "unborn" /\ dir'[o] = o => fl[o] \in {None, source'[o]}
    /\ \A d \in Objects : states[d] = "unborn" => fl[d] = None
    /\ \A e \in entries' : fl[dir'[e]] = None => dir'[e] \in swept'
    /\ \A o \in Objects : states[o] = "dead" /\ ~cached'[o] => fl[dir'[o]] = None

\* Objects that die take only their own directories with them, and no entry dies.
LEMMA SettleKeeps ==
    ASSUME NEW states, NEW fl, Ready(states, fl), Settle(states, fl) PROVE CacheInv'
<1> DEFINE dying == {o \in Objects : states[o] = "live" /\ o \notin held' \cup entries'}
           removed == {dir'[o] : o \in {p \in dying : CleansUp(p)}}
<1>1. /\ state' = [o \in Objects |-> IF o \in dying THEN "dead" ELSE states[o]]
      /\ files' = [d \in Objects |-> IF d \in removed THEN None ELSE fl[d]]
  BY DEF Settle
<1>2. \A d \in removed : d \in dying /\ dir'[d] = d /\ ~cached'[d]
  BY DEF Ready, CleansUp
<1>3. \A o \in dying : ~cached'[o] => dir'[o] \in removed
  BY DEF CleansUp
<1> HIDE DEF removed
<1>4. CacheTypes'
  BY <1>1 DEF CacheTypes, Ready
<1>5. Sharing'
  BY <1>1 DEF Sharing, BornNow, Ready
<1>6. Contents'
  BY <1>1, <1>2 DEF Contents, Fits, BornNow, Ready
<1>7. EntriesKeepFiles'
  BY <1>1, <1>2 DEF EntriesKeepFiles, Ready
<1>8. CleanedUp'
  BY <1>1, <1>3 DEF CleanedUp, Ready
<1> QED  BY <1>4, <1>5, <1>6, <1>7, <1>8 DEF CacheInv

LEMMA CacheInductive == CacheInv /\ [CacheNext]_cacheVars => CacheInv'
<1> SUFFICES ASSUME CacheInv, [CacheNext]_cacheVars PROVE CacheInv'
  OBVIOUS
<1> USE NoneAssumption
        DEF CacheInv, CacheTypes, Sharing, Contents, Fits, EntriesKeepFiles, CleanedUp, BornNow, Born, cache
<1>1. ASSUME NEW o \in Objects, NEW src \in Sources, NewUncached(o, src) PROVE CacheInv'
  <2>1. Ready(Born(o), [files EXCEPT ![o] = src])
    BY <1>1 DEF NewUncached, Ready
  <2> QED  BY <1>1, <2>1, SettleKeeps DEF NewUncached
<1>2. ASSUME NEW o \in Objects, NEW src \in Sources, Hit(o, src) PROVE CacheInv'
  <2>1. PICK e \in Entry(src) : dir' = [dir EXCEPT ![o] = dir[e]] /\ files[dir[e]] # None
    BY <1>2 DEF Hit
  <2>2. e \in entries /\ Key[source[e]] = Key[src]
    BY DEF Entry
  <2>3. Ready(Born(o), files)
    BY <1>2, <2>1, <2>2 DEF Hit, SharesDirectory, Ready
  <2> QED  BY <1>2, <2>3, SettleKeeps DEF Hit
<1>3. ASSUME NEW o \in Objects, NEW src \in Sources, Miss(o, src) PROVE CacheInv'
  <2>1. Evicted(src) \subseteq entries
    BY DEF Evicted, Oldest
  <2> DEFINE states == Born(o)
             fl == [files EXCEPT ![o] = src]
  <2>2. /\ state[o] = "unborn"
        /\ source' = [source EXCEPT ![o] = src] /\ dir' = [dir EXCEPT ![o] = o]
        /\ held' = held \cup {o} /\ swept' = swept
        /\ entries' \subseteq entries \cup {o} /\ entries' \cap Evicted(src) \subseteq {o}
        /\ cached' = [x \in Objects |-> IF x = o THEN TRUE
                                        ELSE IF x \in Evicted(src) THEN FALSE ELSE cached[x]]
    BY <1>3 DEF Miss
  <2> HIDE DEF Evicted
  <2>3. /\ \A x \in held' \cup entries' : states[x] = "live"
        /\ \A x \in Objects : states[x] # "unborn" => dir'[x] \in Objects /\ states[dir'[x]] # "unborn"
    BY <2>2
  <2>4. \A x \in Objects : states[x] # "unborn" /\ dir'[x] # x => cached'[x]
    BY <2>1, <2>2
  <2>5. \A e \in entries' : dir'[e] = e /\ cached'[e]
    BY <2>2
  <2>6. /\ \A x \in Objects : states[x] # "unborn" => Fits(fl[dir'[x]], source'[x])
        /\ \A x \in Objects : states[x] # "unborn" /\ dir'[x] = x => fl[x] \in {None, source'[x]}
        /\ \A d \in Objects : states[d] = "unborn" => fl[d] = None
    BY <2>2
  <2>7. \A e \in entries' : fl[dir'[e]] = None => dir'[e] \in swept'
    BY <2>2
  <2>8. \A x \in Objects : states[x] = "dead" /\ ~cached'[x] => fl[dir'[x]] = None
    BY <2>1, <2>2
  <2>9. /\ states \in [Objects -> {"unborn", "live", "dead"}]
        /\ fl \in [Objects -> Sources \cup {None}]
        /\ source' \in [Objects -> Sources \cup {None}]
        /\ dir' \in [Objects -> Objects \cup {None}]
        /\ cached' \in [Objects -> BOOLEAN]
        /\ held' \subseteq Objects /\ entries' \subseteq Objects /\ swept' \subseteq Objects
    BY <2>2, ZenonT(40)
  <2>10. Ready(states, fl)
    <3> HIDE DEF states, fl, CacheInv, CacheTypes, Sharing, Contents, EntriesKeepFiles, CleanedUp
    <3> QED  BY <2>3, <2>4, <2>5, <2>6, <2>7, <2>8, <2>9 DEF Ready
  <2> QED  BY <1>3, <2>10, SettleKeeps DEF Miss
<1>4. ASSUME NEW o \in Objects, NEW src \in Sources, NEW c \in BOOLEAN, CompileFails(o, src, c)
      PROVE  CacheInv'
  <2>1. Ready(Born(o), files)
    BY <1>4 DEF CompileFails, Ready
  <2> QED  BY <1>4, <2>1, SettleKeeps DEF CompileFails
<1>5. ASSUME NEW o \in Objects, DropReference(o) PROVE CacheInv'
  <2>1. Ready(state, files)
    BY <1>5 DEF DropReference, Ready
  <2> QED  BY <1>5, <2>1, SettleKeeps DEF DropReference
<1>6. ASSUME NEW d \in Objects, Sweep(d) PROVE CacheInv'
  BY <1>6 DEF Sweep
<1>7. CASE UNCHANGED cacheVars
  BY <1>7 DEF cacheVars
<1> QED  BY <1>1, <1>2, <1>3, <1>4, <1>5, <1>6, <1>7 DEF CacheNext

LEMMA CacheInvariance == CacheSpec => []CacheInv
BY CacheInitInv, CacheInductive, PTL DEF CacheSpec

\* Whatever is made, evicted, dropped or swept away, in any order: an entry of the
\* cache has its executable until a sweep takes it.
THEOREM EntriesAlwaysKeepFiles == CacheSpec => []EntriesKeepFiles
<1>1. CacheInv => EntriesKeepFiles
  BY DEF CacheInv
<1> QED  BY <1>1, CacheInvariance, PTL

\* A held executor's directory holds what was compiled from a source with its key, or
\* nothing at all, and its own source where it is not marked as cached: for every
\* function from sources to keys.
THEOREM BinaryIsRight == CacheSpec => []RightBinary
<1>1. CacheInv => RightBinary
  BY DEF CacheInv, CacheTypes, Sharing, Contents, Fits, BornNow, RightBinary
<1> QED  BY <1>1, CacheInvariance, PTL

\* The directory of an executor that is not cached goes with its last reference.
THEOREM UncachedAreCleanedUp == CacheSpec => []CleanedUp
<1>1. CacheInv => CleanedUp
  BY DEF CacheInv
<1> QED  BY <1>1, CacheInvariance, PTL

(***************************************************************************)
(* The exchange.  What a child wrote is what was collected and what its    *)
(* pipe still holds (Books); a stream is given up only when its writer is  *)
(* gone and its pipe is empty, and so is what poll said of it before       *)
(* (Verdicts).                                                             *)
(***************************************************************************)
Kinds == {"in", "out", "hup", "err"}

\* Everything is accounted for.
Books ==
    /\ \A f \in Outs : got[f] + pipe[f] = wrote[f]
    /\ offset = taken + pipe["stdin"]
    /\ "stdin" \in open /\ "stdin" \notin polled => offset = input
    /\ \A f \in Outs : f \notin polled => f \notin open /\ pipe[f] = 0

\* What poll returned stays true until it is looked at.
Verdicts ==
    /\ \A f \in Outs : <<f, "hup">> \in ready => f \notin open /\ pipe[f] = 0
    /\ \A f \in Outs : <<f, "err">> \notin ready
    /\ <<"stdin", "hup">> \notin ready
    /\ <<"stdin", "err">> \in ready => "stdin" \notin open
    /\ \A f \in Fds, d, e \in Kinds : <<f, d>> \in ready /\ <<f, e>> \in ready => d = e

\* The child does what it is committed to with streams it holds.
Commits ==
    /\ want = "read" => "stdin" \in open /\ ~sawEof
    /\ \A f \in Outs : want = f => f \in open /\ wrote[f] < MaxOutput
    /\ sawEof => pipe["stdin"] = 0 /\ offset = input /\ "stdin" \notin polled

Results ==
    /\ pc \in {"poll", "serve"} => result = "none"
    /\ result = "returned" => polled = {}
    /\ result \in {"none", "returned"} => \A f \in Outs : got[f] <= Limit
    /\ result \in {"ole", "error"} => \E f \in Outs : got[f] > Limit

ExchangeInv == ExchangeTypes /\ Books /\ Verdicts /\ Commits /\ Results

LEMMA Sizes ==
    /\ MaxInput \in Nat /\ MaxOutput \in Nat /\ Limit \in Nat
    /\ Chunk \in Nat /\ Chunk > 0 /\ Cap \in Nat /\ Cap >= Chunk
BY SizesAssumption

USE Sizes

LEMMA SmallerType ==
    ASSUME NEW a \in Nat, NEW b \in Nat
    PROVE  Smaller(a, b) \in Nat /\ Smaller(a, b) <= a /\ Smaller(a, b) <= b
BY DEF Smaller

LEMMA InitExchangeInv == ExchangeInit => ExchangeInv
<1> SUFFICES ASSUME ExchangeInit PROVE ExchangeInv
  OBVIOUS
<1>1. ExchangeTypes
  <2>1. sawEof \in BOOLEAN /\ polled \subseteq Fds /\ ready \subseteq polled \X Kinds
    BY DEF ExchangeInit, Outs, Fds
  <2>2. /\ got \in [Outs -> 0..MaxOutput] /\ wrote \in [Outs -> 0..MaxOutput]
        /\ pipe \in [Fds -> 0..Cap] /\ offset \in 0..input /\ taken \in 0..MaxInput
    BY DEF ExchangeInit
  <2> QED  BY <2>1, <2>2 DEF ExchangeInit, ExchangeTypes, Kinds
<1>2. Books /\ Verdicts /\ Commits /\ Results
  BY DEF ExchangeInit, Books, Verdicts, Commits, Results, Outs, Fds
<1> QED  BY <1>1, <1>2 DEF ExchangeInv

LEMMA PollStep == ASSUME ExchangeInv, Poll PROVE ExchangeInv'
<1> USE DEF ExchangeInv, Poll, child
<1>1. /\ ready' \subseteq polled \X Kinds
      /\ \A f \in Fds, e \in Kinds : <<f, e>> \in ready' => e \in Events(f)
  BY DEF Watched, Kinds
<1>2. ExchangeTypes'
  BY <1>1 DEF ExchangeTypes, Kinds
<1>3. Verdicts'
  BY <1>1 DEF Verdicts, Events, Outs, Fds, ExchangeTypes, Kinds
<1> QED  BY <1>2, <1>3 DEF Books, Commits, Results

LEMMA ServeInputStep == ASSUME ExchangeInv, ServeInput PROVE ExchangeInv'
<1> USE DEF ExchangeInv, ServeInput, Serve, child
<1>1. <<"stdin", "out">> \in ready /\ "stdin" \in polled /\ ready' = ready \ {<<"stdin", "out">>}
  BY DEF ExchangeTypes
<1>2. pc' \in {"poll", "serve"} /\ result' = "none"
  BY DEF PcAfter, Results
<1>0. ready' \subseteq (polled \ {"stdin"}) \X Kinds
  <2> SUFFICES ASSUME NEW w \in ready' PROVE w \in (polled \ {"stdin"}) \X Kinds
    OBVIOUS
  <2>1. PICK g \in polled, d \in Kinds : w = <<g, d>> /\ w \in ready /\ w # <<"stdin", "out">>
    BY <1>1 DEF ExchangeTypes, Kinds
  <2>2. g # "stdin"
    BY <1>1, <2>1 DEF Verdicts, Kinds, Fds
  <2> QED  BY <2>1, <2>2
<1>3. CASE "stdin" \notin open
  <2>1. polled' = polled \ {"stdin"} /\ UNCHANGED <<offset, pipe, got>>
    BY <1>3
  <2>2. ExchangeTypes'
    <3>1. ready' \subseteq polled' \X Kinds
      BY <1>0, <2>1
    <3> QED  BY <1>1, <1>2, <2>1, <3>1 DEF ExchangeTypes, Kinds
  <2> QED
    BY <1>1, <1>2, <1>3, <2>1, <2>2 DEF Books, Verdicts, Commits, Results, ExchangeTypes, Outs, Fds
<1>4. CASE "stdin" \in open
  <2>1. PICK n \in Nat :
           /\ n = Smaller(Chunk, input - offset) /\ n <= input - offset
           /\ Cap - pipe["stdin"] >= n /\ offset' = offset + n
           /\ pipe' = [pipe EXCEPT !["stdin"] = @ + n]
    BY <1>4, SmallerType DEF ExchangeTypes
  <2>2. polled' = IF offset' >= input THEN polled \ {"stdin"} ELSE polled
    BY <1>4 DEF InputOver
  <2>3. offset' \in 0..input /\ (offset' >= input => offset' = input)
    BY <2>1 DEF ExchangeTypes
  <2>4. ExchangeTypes'
    <3>1. ready' \subseteq polled' \X Kinds
      BY <1>0, <2>2
    <3>2. pipe' \in [Fds -> 0..Cap]
      BY <2>1 DEF ExchangeTypes, Fds
    <3>3. polled' \subseteq Fds
      BY <2>2 DEF ExchangeTypes
    <3> QED  BY <1>1, <1>2, <2>3, <3>1, <3>2, <3>3 DEF ExchangeTypes, Kinds
  <2> QED
    BY <1>1, <1>2, <1>4, <2>1, <2>2, <2>3, <2>4
       DEF Books, Verdicts, Commits, Results, ExchangeTypes, Outs, Fds
<1> QED  BY <1>3, <1>4

LEMMA ServeOutputStep == ASSUME ExchangeInv, NEW f \in Outs, ServeOutput(f) PROVE ExchangeInv'
<1> USE DEF ExchangeInv, child
<1>1. /\ <<f, "in">> \in ready /\ f \in polled /\ pc = "serve" /\ result = "none"
      /\ UNCHANGED <<input, polled, offset, child>> /\ ready' \subseteq ready
  BY DEF ServeOutput, ExchangeTypes, Results
<1>2. PICK n \in Nat : /\ n <= pipe[f]
                       /\ got' = [got EXCEPT ![f] = @ + n] /\ pipe' = [pipe EXCEPT ![f] = @ - n]
  <2>1. pipe[f] \in Nat
    BY DEF ExchangeTypes, Outs, Fds
  <2>2. Smaller(Chunk, pipe[f]) \in Nat /\ Smaller(Chunk, pipe[f]) <= pipe[f]
    BY <2>1, SmallerType
  <2> QED  BY <2>2 DEF ServeOutput
<1>3. /\ pc' \in {"poll", "serve", "kill", "wait"} /\ result' \in {"none", "ole", "error"}
      /\ pc' \in {"poll", "serve"} => result' = "none"
      /\ result' = "none" => got'[f] <= Limit
      /\ result' # "none" => got'[f] > Limit
  <2>1. got'[f] \in Int
    BY <1>2 DEF ExchangeTypes, Outs, Fds
  <2> QED  BY <1>1, <2>1 DEF ServeOutput, OverOutputLimit, Raised, PcAfter
<1>4. \A g \in Outs : got'[g] + pipe'[g] = wrote[g] /\ pipe'[g] \in 0..pipe[g] /\ got'[g] \in Nat
  BY <1>2 DEF Books, ExchangeTypes, Outs, Fds
<1>5. pipe'["stdin"] = pipe["stdin"] /\ pipe' \in [Fds -> 0..Cap] /\ got' \in [Outs -> Nat]
  BY <1>2, <1>4 DEF ExchangeTypes, Outs, Fds
<1>6. got' \in [Outs -> 0..MaxOutput]
  BY <1>4, <1>5 DEF ExchangeTypes
<1>7. ExchangeTypes'
  BY <1>1, <1>3, <1>5, <1>6 DEF ExchangeTypes
<1>8. Books'
  BY <1>1, <1>4, <1>5 DEF Books, Outs, Fds
<1>9. Verdicts' /\ Commits'
  BY <1>1, <1>4, <1>5 DEF Verdicts, Commits, Outs, Fds
<1>10. Results'
  BY <1>1, <1>2, <1>3 DEF Results, ExchangeTypes
<1> QED  BY <1>7, <1>8, <1>9, <1>10

LEMMA ServeClosedStep ==
    ASSUME ExchangeInv, NEW f \in Fds, NEW e \in {"hup", "err"}, ServeClosed(f, e) PROVE ExchangeInv'
<1> USE DEF ExchangeInv, ServeClosed, Serve, child
<1>1. /\ <<f, e>> \in ready /\ ready' = ready \ {<<f, e>>} /\ polled' = polled \ {f}
      /\ pc' \in {"poll", "serve"} /\ result' = "none"
      /\ UNCHANGED <<input, offset, got, pipe>>
  BY DEF PcAfter, Results
<1>2. f \notin open /\ (f \in Outs => pipe[f] = 0)
  BY <1>1 DEF Verdicts, Fds
<1>3. \A k \in Kinds : k # e => <<f, k>> \notin ready
  BY <1>1 DEF Verdicts, Kinds
<1>4. ready' \subseteq polled' \X Kinds
  BY <1>1, <1>3 DEF ExchangeTypes, Kinds
<1>5. ExchangeTypes'
  BY <1>1, <1>4 DEF ExchangeTypes, Kinds
<1>6. Books'
  BY <1>1, <1>2 DEF Books, Outs, Fds
<1>7. Verdicts' /\ Commits' /\ Results'
  BY <1>1 DEF Verdicts, Commits, Results
<1> QED  BY <1>5, <1>6, <1>7

LEMMA GraderStep == ASSUME ExchangeInv, Exchanged \/ Kill \/ Wait PROVE ExchangeInv'
<1> USE DEF ExchangeInv, child, grader
<1>1. CASE Exchanged
  BY <1>1 DEF Exchanged, ExchangeTypes, Books, Verdicts, Commits, Results
<1>2. CASE Kill
  BY <1>2 DEF Kill, ExchangeTypes, Books, Verdicts, Commits, Results, Outs, Fds
<1>3. CASE Wait
  BY <1>3 DEF Wait, ExchangeTypes, Books, Verdicts, Commits, Results
<1> QED  BY <1>1, <1>2, <1>3

LEMMA Distinct ==
    /\ \A f \in Fds : Closing[f] \in {"shutin", "shutout", "shuterr"}
    /\ Closing \in [Fds -> {"shutin", "shutout", "shuterr"}]
BY DEF Closing, Fds, Outs

LEMMA ChildStep == ASSUME ExchangeInv, Child PROVE ExchangeInv'
<1> USE DEF ExchangeInv, grader
<1>1. CASE Think
  <2>1. want' \in {"exit", "read"} \cup {f \in Outs \cap open : wrote[f] < MaxOutput}
                  \cup {Closing[f] : f \in Fds}
    BY <1>1 DEF Think, ExchangeTypes
  <2>2. /\ want' = "read" => "stdin" \in open /\ ~sawEof
        /\ \A f \in Outs : want' = f => f \in open /\ wrote[f] < MaxOutput
    BY <1>1, Distinct DEF Think, Outs, Fds, ExchangeTypes
  <2>3. ExchangeTypes'
    BY <1>1, <2>1 DEF Think, ExchangeTypes
  <2> QED  BY <1>1, <2>2, <2>3 DEF Think, Books, Verdicts, Commits, Results
<1>2. CASE Read
  <2>1. "stdin" \in open /\ ~sawEof /\ want' = "think" /\ UNCHANGED <<grader, open, wrote>>
    BY <1>2 DEF Read, Commits
  <2>2. CASE AtEof
    <3>1. pipe["stdin"] = 0 /\ "stdin" \notin polled /\ UNCHANGED <<pipe, taken>>
      BY <1>2, <2>2 DEF Read, AtEof
    <3>2. offset = input
      BY <2>1, <3>1 DEF Books
    <3>3. ExchangeTypes'
      BY <1>2, <2>1, <3>1, <2>2, Zenon DEF Read, ExchangeTypes, AtEof
    <3> QED  BY <2>1, <3>1, <3>2, <3>3 DEF Books, Verdicts, Commits, Results, Outs
  <2>3. CASE ~AtEof
    <3>1. /\ pipe["stdin"] > 0 /\ taken' = taken + 1 /\ ~sawEof'
          /\ pipe' = [pipe EXCEPT !["stdin"] = @ - 1]
      BY <1>2, <2>3 DEF Read
    <3>2. taken' \in 0..MaxInput /\ pipe' \in [Fds -> 0..Cap]
      BY <3>1 DEF Books, ExchangeTypes, Fds, Outs
    <3>3. ExchangeTypes'
      <4>1. sawEof' \in BOOLEAN
        BY <1>2, Zenon DEF Read, AtEof
      <4> QED  BY <2>1, <3>2, <4>1 DEF ExchangeTypes
    <3> QED  BY <2>1, <3>1, <3>2, <3>3 DEF Books, Verdicts, Commits, Results, Outs, Fds, ExchangeTypes
  <2> QED  BY <2>2, <2>3
<1>3. ASSUME NEW f \in Outs, Write(f) PROVE ExchangeInv'
  <2>1. f \in open /\ wrote[f] < MaxOutput /\ f \in polled
    BY <1>3 DEF Write, Commits, Books
  <2>2. ExchangeTypes'
    BY <1>3, <2>1 DEF Write, ExchangeTypes, Outs, Fds
  <2> QED  BY <1>3, <2>1, <2>2 DEF Write, Books, Verdicts, Commits, Results, Outs, Fds, ExchangeTypes
<1>4. CASE Close
  <2>1. PICK f \in Fds : want = Closing[f] /\ open' = open \ {f}
    BY <1>4 DEF Close
  <2>2. ExchangeTypes'
    BY <1>4, <2>1 DEF Close, ExchangeTypes
  <2> QED  BY <1>4, <2>1, <2>2 DEF Close, Books, Verdicts, Commits, Results, Outs
<1>5. CASE Exit
  BY <1>5 DEF Exit, ExchangeTypes, Books, Verdicts, Commits, Results, Outs
<1> QED  BY <1>1, <1>2, <1>3, <1>4, <1>5 DEF Child

LEMMA ExchangeInductive == ExchangeInv /\ [ExchangeNext]_exchangeVars => ExchangeInv'
<1>1. ASSUME ExchangeInv, UNCHANGED exchangeVars PROVE ExchangeInv'
  BY <1>1 DEF exchangeVars, grader, child, ExchangeInv, ExchangeTypes, Books, Verdicts, Commits, Results
<1> QED
  BY <1>1, PollStep, ServeInputStep, ServeOutputStep, ServeClosedStep, GraderStep, ChildStep
     DEF ExchangeNext, Grader

LEMMA ExchangeInvariance == ExchangeSpec => []ExchangeInv
BY InitExchangeInv, ExchangeInductive, PTL DEF ExchangeSpec

\* Every variable of the exchange has its type.
THEOREM ExchangeTypeCorrect == ExchangeSpec => []ExchangeTypes
<1>1. ExchangeInv => ExchangeTypes
  BY DEF ExchangeInv
<1> QED  BY <1>1, ExchangeInvariance, PTL

\* Whatever the child does, nothing it wrote is lost when communicate returns, and who
\* found the end of its input has read it all.
THEOREM NothingIsLost == ExchangeSpec => []NothingLost
<1>1. ExchangeInv => NothingLost
  <2> SUFFICES ASSUME ExchangeInv PROVE NothingLost
    OBVIOUS
  <2>1. result = "returned" => \A f \in Outs : got[f] = wrote[f]
    BY DEF ExchangeInv, Books, Results, ExchangeTypes, Outs, Fds
  <2>2. sawEof => taken = input
    BY DEF ExchangeInv, Books, Commits, ExchangeTypes
  <2> QED  BY <2>1, <2>2 DEF ExchangeInv, ExchangeTypes, NothingLost
<1> QED  BY <1>1, ExchangeInvariance, PTL

\* A process is over the limit exactly when one of its streams is.
THEOREM LimitIsExact == ExchangeSpec => []LimitExact
<1>1. ExchangeInv => LimitExact
  <2> SUFFICES ASSUME ExchangeInv PROVE LimitExact
    OBVIOUS
  <2>1. \A f \in Outs : /\ got[f] <= wrote[f]
                        /\ result = "returned" => got[f] = wrote[f]
    BY DEF ExchangeInv, Books, Results, ExchangeTypes, Outs, Fds
  <2> QED  BY <2>1 DEF ExchangeInv, Results, ExchangeTypes, LimitExact
<1> QED  BY <1>1, ExchangeInvariance, PTL
=============================================================================
