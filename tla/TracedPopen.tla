------------------------------ MODULE TracedPopen ------------------------------
(***************************************************************************)
(* A sandboxed process and the threads around it (TracedPopen of           *)
(* dmoj/cptbox/tracer.py over pt_process of ptproc.cpp).                   *)
(*                                                                         *)
(*   caller    constructs the object and waits for its end;                *)
(*   worker    forks the process, traces it until it is gone and decides   *)
(*             whether it ran for too long (_run_process, monitor);        *)
(*   shocker   wakes the tracer every second, so that the time is counted, *)
(*             and kills a process over its limits (_shocker_thread);      *)
(*   killer    any other thread that calls kill(): an abort, or a grader   *)
(*             that stops an output or an interaction;                     *)
(*   program   the child and one process that it starts: tracees of one    *)
(*             process group.                                              *)
(*                                                                         *)
(* execution_time is what monitor() adds up each time wait4 returns, so it *)
(* lags behind the time the process has run for.  Times are Booleans: over *)
(* the limit or not.  That a pid is reused once the process was reaped     *)
(* (the FIXME in kill) is left out: a signal to it finds nothing.  So are  *)
(* calls that are allowed, the SIGWINCH of the second process and its last *)
(* stop before it ends: monitor() only resumes what they stop.             *)
(***************************************************************************)
EXTENDS Naturals

CONSTANTS
    Limited     \* time is not 0: there are a time limit and a shocker

ASSUME LimitedAssumption == Limited \in BOOLEAN

VARIABLES
  \* the object
    pid,            \* its process was forked; 0 before
    spawned,        \* the event _spawned_or_errored
    died,           \* the event _died
    spawnError,     \* _spawn_error is set
    initialized,    \* was_initialized: the first execve is over
    returncode,     \* "none", "zero", "positive" or "signal"
    tle,            \* _is_tle
    execOver,       \* execution_time > _time
    wallOver,       \* wall_clock_time > _wall_time
    fault,          \* protection_fault: what the process did when it was set
  \* its threads
    worker, shocker, killer, caller,
    seen,           \* the is_tle and returncode that the caller found
    caught,         \* the tracee that wait4 returned in monitor()
    children,       \* the pids in children of monitor()
  \* the program
    st,             \* what each tracee does
    stop,           \* why it stopped
    sig,            \* the signals sent to it
    ran,            \* it has run for longer than the limit
    status,         \* the wait status of its first process, once that ended
  \* history
    ownGroup,       \* killpg(0, ...) was called: the signal hit the judge
    refused,        \* a tracee made a call that the rules refuse
    xcpu            \* its first process was stopped by a SIGXCPU

object == <<pid, spawned, died, spawnError, initialized, returncode, tle, execOver, wallOver, fault>>
threads == <<worker, shocker, killer, caller, seen, caught, children>>
program == <<st, stop, sig, ran, status>>
history == <<ownGroup, refused, xcpu>>
vars == <<object, threads, program, history>>

Codes == {"none", "zero", "positive", "signal"}
Tracees == {"main", "child"}
NoOne == "nobody"

\* Forked but not yet stopped for the tracer; setting itself up before its execve;
\* running; allowed to exit; stopped; ended; waited for.
States == {"none", "forked", "loading", "running", "leaving", "stopped", "zombie", "reaped"}
Living == {"forked", "loading", "running", "leaving", "stopped"}

\* "held" is stopped and never to be resumed, "stray" a pid that was not read.
Reasons == {"none", "attach", "signal", "xcpu", "exec", "exit", "refused", "fork", "clone", "held"}
SyscallStops == {"exec", "exit", "refused"}
Pids == {"child", "stray"}
-----------------------------------------------------------------------------
Init ==
    /\ pid = 0 /\ spawned = FALSE /\ died = FALSE /\ spawnError = FALSE
    /\ initialized = FALSE /\ returncode = "none" /\ tle = FALSE
    /\ execOver = FALSE /\ wallOver = FALSE /\ fault = "none"
    /\ worker = "spawn" /\ killer = "idle" /\ caller = "constructor"
    /\ shocker = IF Limited THEN "start" ELSE "off"
    /\ seen = [tle |-> FALSE, code |-> "none"]
    /\ caught = NoOne /\ children = {}
    /\ st = [p \in Tracees |-> "none"] /\ stop = [p \in Tracees |-> "none"]
    /\ sig = [p \in Tracees |-> {}] /\ ran = FALSE /\ status = "none"
    /\ ownGroup = FALSE /\ refused = FALSE /\ xcpu = FALSE
-----------------------------------------------------------------------------
(***************************************************************************)
(* The program.                                                            *)
(***************************************************************************)
\* A process with a SIGKILL on its way neither stops nor forks any more.
Executes(p) == st[p] \in {"loading", "running"} /\ "kill" \notin sig[p]

StopFor(p, reason) ==
    /\ Executes(p)
    /\ st' = [st EXCEPT ![p] = "stopped"]
    /\ stop' = [stop EXCEPT ![p] = reason]

\* What was not reported yet of a stop or a signal no longer is.
End(p, code) ==
    /\ st' = [st EXCEPT ![p] = "zombie"]
    /\ stop' = IF caught = p THEN stop ELSE [stop EXCEPT ![p] = "none"]
    /\ sig' = [sig EXCEPT ![p] = {}]
    /\ status' = IF p = "main" THEN code ELSE status

\* The child calls setpgid, asks to be traced and stops itself.
Traceme ==
    /\ st["main"] = "forked"
    /\ \/ st' = [st EXCEPT !["main"] = "stopped"] /\ stop' = [stop EXCEPT !["main"] = "attach"]
          /\ UNCHANGED <<sig, status>>
       \/ End("main", "positive")      \* PTBOX_SPAWN_FAIL_TRACEME and its like
    /\ UNCHANGED <<ran, refused>>

\* What it sets up before its execve fails; or it was allowed to exit.
EndItself(p) ==
    /\ \/ st[p] = "loading" /\ End(p, "positive")
       \/ st[p] = "leaving" /\ \E code \in {"zero", "positive"} : End(p, code)
    /\ UNCHANGED <<ran, refused>>

ExecveEnds ==
    /\ st["main"] = "loading" /\ StopFor("main", "exec")
    /\ UNCHANGED <<sig, ran, status, refused>>

\* The filter lets through what the rules allow and answers what they give an errno;
\* exit, and what they do not name or ask a handler about, stops for the tracer.
Trapped == {"exit", "refused"}

Call(p) ==
    /\ st[p] = "running"
    /\ \E reason \in Trapped :
         StopFor(p, reason) /\ refused' = (refused \/ reason = "refused")
    /\ UNCHANGED <<sig, ran, status>>

\* fork() or clone(): parent and child stop, and either may be reported first.
Fork ==
    /\ st["main"] = "running" /\ Executes("main") /\ st["child"] = "none"
    /\ st' = [p \in Tracees |-> "stopped"]
    /\ \E event \in {"fork", "clone"} : stop' = [main |-> event, child |-> "attach"]
    /\ UNCHANGED <<sig, ran, status, refused>>

\* The shocker's signal stops it.
WinchStop ==
    /\ "winch" \in sig["main"] /\ StopFor("main", "signal")
    /\ sig' = [sig EXCEPT !["main"] = @ \ {"winch"}]
    /\ UNCHANGED <<ran, status, refused>>

\* And so does a SIGXCPU, whenever it comes: RLIMIT_CPU counts the time of all its
\* threads, and tgkill lets a program signal itself, with a limit and without.
XcpuStop ==
    /\ StopFor("main", "xcpu") /\ xcpu' = TRUE
    /\ UNCHANGED <<sig, ran, status, refused, object, threads, ownGroup>>

\* A fault of its own, or a kernel short of memory, kills it in any state.
Crash(p) ==
    /\ st[p] \in Living \ {"forked"}
    /\ End(p, "signal")
    /\ UNCHANGED <<ran, refused>>

\* And so does SIGKILL.
BeKilled(p) ==
    /\ st[p] \in Living /\ "kill" \in sig[p]
    /\ End(p, "signal")
    /\ UNCHANGED <<ran, refused>>

RunLong ==
    /\ Limited /\ st["main"] \in {"loading", "running"} /\ ~ran
    /\ ran' = TRUE
    /\ UNCHANGED <<st, stop, sig, status, refused>>

ProgramFrame == UNCHANGED <<object, threads, ownGroup, xcpu>>
Program ==
    \/ XcpuStop
    \/ /\ \/ Traceme \/ ExecveEnds \/ Fork \/ WinchStop \/ RunLong
          \/ \E p \in Tracees : EndItself(p) \/ Call(p) \/ Crash(p) \/ BeKilled(p)
       /\ ProgramFrame

\* start_time is taken at the first stop and end_time when the process is gone.
WallClockRuns == worker = "monitor" /\ st["main"] \notin {"none", "forked"} /\ stop["main"] # "attach"

WallTime ==
    /\ Limited /\ WallClockRuns /\ ~wallOver
    /\ wallOver' = TRUE
    /\ UNCHANGED <<pid, spawned, died, spawnError, initialized, returncode, tle, execOver, fault,
                   threads, program, history>>

Sent(to, signal) ==
    [p \in Tracees |-> IF p \in to /\ st[p] \in Living THEN sig[p] \cup {signal} ELSE sig[p]]

\* os.killpg(self.pid, signal): without a group of that number it raises
\* OSError, which every caller swallows; 0 names the caller's own group.
Group == IF pid # 0 /\ st["main"] \notin {"none", "forked"} THEN Tracees ELSE {}
Killpg(signal) ==
    /\ ownGroup' = (ownGroup \/ pid = 0)
    /\ sig' = Sent(IF signal = "winch" THEN Group \ {"child"} ELSE Group, signal)
    /\ UNCHANGED <<st, stop, ran, status>>
-----------------------------------------------------------------------------
(***************************************************************************)
(* The worker thread: the spawn.                                           *)
(***************************************************************************)
WorkerFrame == UNCHANGED <<shocker, killer, caller, seen, refused, xcpu>>
MonitorRests == UNCHANGED <<initialized, fault, caught, children>>

ForkMain == pid' = 1 /\ st' = [st EXCEPT !["main"] = "forked"]

\* _spawn: the limits and the handlers of the calls are copied for the child first.
Spawn ==
    /\ worker = "spawn"
    /\ ForkMain /\ worker' = "spawned"
    /\ UNCHANGED <<spawned, died, spawnError, returncode, tle, execOver, wallOver,
                   stop, sig, ran, status, ownGroup>>
    /\ MonitorRests

SpawnFails_ReleasesFirst ==
    /\ worker = "spawn"
    /\ spawnError' = TRUE /\ spawned' = TRUE /\ worker' = "died"
    /\ UNCHANGED <<pid, died, returncode, tle, execOver, wallOver, program, ownGroup>>
    /\ MonitorRests

\* _spawn raises: _died is set first, then the finally clause releases the
\* threads that wait for the spawn.
SpawnFails ==
    /\ worker = "spawn"
    /\ spawnError' = TRUE /\ died' = TRUE /\ worker' = "errored"
    /\ UNCHANGED <<pid, spawned, returncode, tle, execOver, wallOver, program, ownGroup>>
    /\ MonitorRests

\* _spawned_or_errored.set()
Release ==
    /\ worker \in {"spawned", "errored"}
    /\ spawned' = TRUE
    /\ worker' = IF worker = "spawned" THEN "monitor" ELSE "done"
    /\ UNCHANGED <<pid, died, spawnError, returncode, tle, execOver, wallOver, program, ownGroup>>
    /\ MonitorRests
-----------------------------------------------------------------------------
(***************************************************************************)
(* The worker thread: monitor().  wait4 reports a tracee, which may be     *)
(* killed before monitor() has dealt with it: then ptrace fails (ESRCH).   *)
(***************************************************************************)
MonitorFrame == UNCHANGED <<pid, spawned, died, spawnError, returncode, wallOver, ran>>

\* Whatever wait4 returns for, the time since the last return is added.
CountTime == execOver' = (execOver \/ ran)

Gone(p) == st[p] # "stopped" \/ "kill" \in sig[p]

Wait4Stop ==
    /\ worker = "monitor" /\ caught = NoOne
    /\ \E p \in Tracees :
         /\ st[p] = "stopped" /\ stop[p] # "held" /\ ~Gone(p)
         /\ caught' = p
    /\ CountTime
    /\ UNCHANGED <<initialized, tle, fault, worker, children, st, stop, sig, status,
                   ownGroup>>
    /\ MonitorFrame

\* The end of another process than the first is only noted.
Wait4Exit ==
    /\ worker = "monitor" /\ caught = NoOne
    /\ \E p \in Tracees :
         /\ st[p] = "zombie"
         /\ st' = [st EXCEPT ![p] = "reaped"]
         /\ worker' = IF p = "main" THEN "reaped" ELSE worker
         /\ children' = children \ {p}
    /\ CountTime
    /\ UNCHANGED <<initialized, tle, fault, caught, stop, sig, status, ownGroup>>
    /\ MonitorFrame

Handles(reasons) == caught # NoOne /\ stop[caught] \in reasons /\ caught' = NoOne

Resume(to) ==
    /\ st' = IF Gone(caught) THEN st ELSE [st EXCEPT ![caught] = to]
    /\ stop' = [stop EXCEPT ![caught] = "none"]

\* PTBOX_EVENT_SIGNAL: _cpu_time_exceeded sets is_tle.
SignalEvent == tle' = (tle \/ stop[caught] = "xcpu")

\* The first stop, SIGWINCH and SIGXCPU, of which only the signals of the first
\* process are looked at.
HandleSignal ==
    /\ Handles({"attach", "signal", "xcpu"})
    /\ SignalEvent
    /\ Resume(IF initialized THEN "running" ELSE "loading")
    /\ UNCHANGED <<initialized, fault, children, sig, ownGroup>>

\* PTRACE_GETEVENTMSG of a tracee that is gone leaves npid as it was: any number.
HandleFork ==
    /\ Handles({"fork", "clone"})
    /\ children' = IF stop[caught] = "clone" THEN children
                   ELSE children \cup {IF Gone(caught) THEN "stray" ELSE "child"}
    /\ Resume("running")
    /\ UNCHANGED <<initialized, tle, fault, sig, ownGroup>>

HandleExec ==
    /\ Handles({"exec"}) /\ ~Gone(caught)
    /\ initialized' = TRUE
    /\ Resume("running")
    /\ UNCHANGED <<tle, fault, children, sig, ownGroup>>

HandleExit ==
    /\ Handles({"exit"}) /\ ~Gone(caught)
    /\ Resume("leaving")
    /\ UNCHANGED <<initialized, tle, fault, children, sig, ownGroup>>

\* The object keeps the call; here, what the first process did meanwhile.
NoteFault == fault' = st["main"]

ProtectionFault_KillsOne ==
    /\ NoteFault
    /\ sig' = Sent({caught}, "kill")
    /\ stop' = [stop EXCEPT ![caught] = "held"]
    /\ UNCHANGED <<st, ownGroup>>

\* protection_fault: the fault is noted, the group killed, the tracee not resumed.
ProtectionFault ==
    /\ NoteFault
    /\ sig' = Sent(Group, "kill")
    /\ stop' = [stop EXCEPT ![caught] = "held"]
    /\ UNCHANGED <<st, ownGroup>>

\* The handler of the call says no, or it has none.
HandleRefused ==
    /\ Handles({"refused"}) /\ ~Gone(caught)
    /\ ProtectionFault
    /\ UNCHANGED <<initialized, tle, children>>

\* "thread disappeared, ignoring": its end is still to be reported.
HandleGone ==
    /\ Handles(SyscallStops) /\ Gone(caught)
    /\ stop' = [stop EXCEPT ![caught] = "none"]
    /\ UNCHANGED <<initialized, tle, fault, children, st, sig, ownGroup>>

Handle ==
    /\ HandleSignal \/ HandleFork \/ HandleExec \/ HandleExit \/ HandleRefused \/ HandleGone
    /\ UNCHANGED <<execOver, worker, status>>
    /\ MonitorFrame

KillChildren == sig' = Sent(children, "kill") /\ children' = {}

\* monitor() kills the children that are left, and _monitor stores the exit code.
StoreCode ==
    /\ worker = "reaped"
    /\ KillChildren
    /\ returncode' = status /\ worker' = "limits"
    /\ UNCHANGED <<pid, spawned, died, spawnError, initialized, tle, execOver, wallOver, fault,
                   caught, st, stop, ran, status, ownGroup>>

CheckTime_Skipped == UNCHANGED tle
CheckTime == tle' = (tle \/ (Limited /\ execOver))

CheckLimits ==
    /\ worker = "limits"
    /\ CheckTime
    /\ worker' = "died"
    /\ UNCHANGED <<pid, spawned, died, spawnError, returncode, execOver, wallOver, program, ownGroup>>
    /\ MonitorRests

Announce ==
    /\ worker = "died"
    /\ died' = TRUE /\ worker' = "ending"
    /\ UNCHANGED <<pid, spawned, spawnError, returncode, tle, execOver, wallOver, program, ownGroup>>
    /\ MonitorRests

\* The tracer is the thread: PTRACE_O_EXITKILL, set at the first stop, kills what
\* it still traces.
OnTracerExit_Unset == "none"
OnTracerExit == "kill"

EndThread ==
    /\ worker = "ending"
    /\ sig' = Sent(Tracees, OnTracerExit)
    /\ worker' = "done"
    /\ UNCHANGED <<pid, spawned, died, spawnError, returncode, tle, execOver, wallOver,
                   st, stop, ran, status, ownGroup>>
    /\ MonitorRests

Worker ==
    /\ \/ Spawn \/ SpawnFails \/ Release \/ Wait4Stop \/ Wait4Exit \/ Handle
       \/ StoreCode \/ CheckLimits \/ Announce \/ EndThread
    /\ WorkerFrame
-----------------------------------------------------------------------------
(***************************************************************************)
(* The shocker thread.                                                     *)
(***************************************************************************)
ShockerFrame == UNCHANGED <<pid, spawned, died, spawnError, initialized, returncode, execOver,
                            wallOver, fault, worker, killer, caller, seen, caught, children, refused,
                            xcpu>>

Start == shocker = "start" /\ spawned /\ shocker' = "wait" /\ UNCHANGED <<tle, program, ownGroup>>

\* _died.wait(1): true at once when the event is set; otherwise a second passes.
Tick ==
    /\ shocker = "wait"
    /\ shocker' = IF died THEN "off" ELSE "look"
    /\ UNCHANGED <<tle, program, ownGroup>>

OverLimit == execOver \/ wallOver

Look ==
    /\ shocker = "look"
    /\ shocker' = IF OverLimit THEN "kill" ELSE "wake"
    /\ UNCHANGED <<tle, program, ownGroup>>

Wake ==
    /\ shocker = "wake"
    /\ Killpg("winch")
    /\ shocker' = "wait"
    /\ UNCHANGED tle

\* kill() looks at returncode, and only then sends the signal.
CheckCode ==
    /\ shocker = "kill"
    /\ shocker' = IF returncode = "none" THEN "killpg" ELSE "mark"
    /\ UNCHANGED <<tle, program, ownGroup>>

ShockerSignal_Forgotten == "winch"
ShockerSignal == "kill"

ShockerKills ==
    /\ shocker = "killpg"
    /\ Killpg(ShockerSignal)
    /\ shocker' = "mark"
    /\ UNCHANGED tle

Mark ==
    /\ shocker = "mark"
    /\ tle' = TRUE /\ shocker' = "off"
    /\ UNCHANGED <<program, ownGroup>>

Shocker ==
    /\ Start \/ Tick \/ Look \/ Wake \/ CheckCode \/ ShockerKills \/ Mark
    /\ ShockerFrame
-----------------------------------------------------------------------------
(***************************************************************************)
(* The threads that use the object.                                        *)
(***************************************************************************)
\* kill(), from a thread that got hold of the object: once.
KillerChecks ==
    /\ killer = "idle" /\ caller \notin {"constructor", "raised"}
    /\ killer' = IF returncode = "none" THEN "killpg" ELSE "done"
    /\ UNCHANGED <<program, ownGroup>>

KillerKills ==
    /\ killer = "killpg"
    /\ Killpg("kill")
    /\ killer' = "done"

KillerFrame == UNCHANGED <<object, worker, shocker, caller, seen, caught, children, refused, xcpu>>
Killer == (KillerChecks \/ KillerKills) /\ KillerFrame

\* The constructor returns, or raises what _spawn raised.
Construct ==
    /\ caller = "constructor" /\ spawned
    /\ caller' = IF spawnError THEN "raised" ELSE "wait"
    /\ UNCHANGED seen

\* wait(): after the assertion, a process that never reached its program is
\* reported by an exception; then the caller looks at is_tle.
WaitOver ==
    /\ caller = "wait" /\ died
    /\ caller' = IF returncode = "none" THEN "assertion"
                 ELSE IF ~initialized /\ returncode # "signal" THEN "raised"
                 ELSE "returned"
    /\ seen' = [tle |-> tle, code |-> returncode]

CallerFrame == UNCHANGED <<object, worker, shocker, killer, caught, children, program, history>>
Caller == (Construct \/ WaitOver) /\ CallerFrame
-----------------------------------------------------------------------------
Next == Worker \/ Shocker \/ Killer \/ Caller \/ Program \/ WallTime

Spec == Init /\ [][Next]_vars

(***************************************************************************)
(* The threads run.  A process that is killed ends, one that is started    *)
(* gets as far as its first stop, one that was allowed to exit exits, and  *)
(* time passes; nothing says that a program ends by itself.                *)
(***************************************************************************)
FairSpec ==
    /\ Spec
    /\ WF_vars(Worker) /\ WF_vars(Shocker) /\ WF_vars(Caller)
    /\ WF_vars(Traceme /\ ProgramFrame) /\ WF_vars(BeKilled("main") /\ ProgramFrame)
    /\ WF_vars(st["main"] = "leaving" /\ EndItself("main") /\ ProgramFrame)
    /\ SF_vars(RunLong /\ ProgramFrame) /\ SF_vars(WinchStop /\ ProgramFrame)
-----------------------------------------------------------------------------
(***************************************************************************)
(* Properties.                                                             *)
(***************************************************************************)
TypeObject ==
    /\ pid \in {0, 1} /\ spawned \in BOOLEAN /\ died \in BOOLEAN /\ spawnError \in BOOLEAN
    /\ initialized \in BOOLEAN /\ returncode \in Codes /\ tle \in BOOLEAN
    /\ execOver \in BOOLEAN /\ wallOver \in BOOLEAN /\ fault \in States
TypeThreads ==
    /\ worker \in {"spawn", "spawned", "errored", "monitor", "reaped", "limits", "died",
                   "ending", "done"}
    /\ shocker \in {"off", "start", "wait", "look", "wake", "kill", "killpg", "mark"}
    /\ killer \in {"idle", "killpg", "done"}
    /\ caller \in {"constructor", "wait", "raised", "returned"}
    /\ seen \in [tle : BOOLEAN, code : Codes]
    /\ caught \in Tracees \cup {NoOne} /\ children \subseteq Pids
TypeProgram ==
    /\ st \in [Tracees -> States] /\ stop \in [Tracees -> Reasons]
    /\ sig \in [Tracees -> SUBSET {"winch", "kill"}]
    /\ ran \in BOOLEAN /\ status \in Codes
    /\ status # "none" <=> st["main"] \in {"zombie", "reaped"}
TypeHistory ==
    /\ ownGroup \in BOOLEAN /\ refused \in BOOLEAN /\ xcpu \in BOOLEAN

\* Every variable holds a value of its type, a wait status exists exactly when the
\* process ended (what monitor() relies on when it leaves its loop), and the
\* assertion in wait() that the exit code is there before _died never fails
\* (tracer.py:212).
TypeOK == TypeObject /\ TypeThreads /\ TypeProgram /\ TypeHistory

\* What the threads signal is the program's group and no other: 0, the pid of a
\* process that was never forked, would be the judge's own group (tracer.py:334-336
\* sets _died before it releases the shocker).  And the one SIGKILL of the shocker
\* is not lost on a child that did not call setpgid yet.
SignalsReachProgram == ~ownGroup /\ (shocker = "killpg" => Group # {})

\* Whoever returns from wait() after the counted execution time passed the limit
\* finds is_tle set, however the process ended and whoever killed it
\* (tracer.py:361-363); and is_tle is set of no process that is within every limit
\* and got no SIGXCPU.  One that got it is over its time whatever the clocks say
\* (tracer.py:327-329).
TimeVerdict ==
    /\ caller = "returned" /\ execOver => seen.tle
    /\ tle => execOver \/ wallOver \/ xcpu

\* A fault is noted only after a refused call, never for a process that was killed
\* while monitor() looked at it, and the program it is noted of ends by a signal
\* unless its first process had left already, whichever of its processes made the
\* call (ptproc.cpp:226-250).
FaultVerdict ==
    /\ fault # "none" => refused
    /\ caller = "returned" /\ fault \in {"running", "stopped"} => seen.code = "signal"

\* "Children are not permitted to outlive parent, by any meaningful measure"
\* (ptproc.cpp:341), also those that monitor() did not come to know.
NoSurvivors == worker = "done" => \A p \in Tracees : st[p] \in Living => "kill" \in sig[p]

\* With a time limit wait() returns although the program never ends.
WaitReturns == caller = "wait" ~> caller \in {"returned", "raised"}
=============================================================================
