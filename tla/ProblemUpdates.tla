---------------------------- MODULE ProblemUpdates ----------------------------
(***************************************************************************)
(* How the site learns which problems the judge has: the file monitor      *)
(* (dmoj/monitor.py), the updater thread (Judge._updater_thread), the      *)
(* pings to other services (RefreshWorker) and the handshake of a          *)
(* connection that was lost and made again (PacketManager._reconnect).     *)
(*                                                                         *)
(* The problem set is a version number.  A scan of the directories reads   *)
(* one version: a change during the scan raises another event anyway.      *)
(***************************************************************************)
EXTENDS Naturals

CONSTANTS
    MaxVersion      \* bound on the changes of the problem files

ASSUME BoundAssumption == MaxVersion \in Nat

VARIABLES
    files,      \* the version of the problem files
    noticed,    \* the observer has file events to deliver
    stopping,   \* how far main's shutdown got
  \* the judge process
    judge,      \* "up" or "exit1"
    signal,     \* updater_signal
    exiting,    \* updater_exit
    updater,    \* what the updater thread does
    scan,       \* the problems it found
    net,        \* what the network thread does about the connection
    netScan,    \* the problems it found before it connected
    sent,       \* the problems the judge sent last
  \* the RefreshWorker
    trigger,    \* _trigger
    terminate,  \* _terminate
    pinger,     \* what its thread does
    tried,      \* the version of the files when the urls were last tried
  \* history
    lost        \* the connection was lost at some time

judgeVars == <<judge, signal, exiting, updater, scan, net, netScan, sent>>
pingVars == <<trigger, terminate, pinger, tried>>
vars == <<files, noticed, stopping, judgeVars, pingVars, lost>>

Init ==
    /\ files = 0 /\ noticed = FALSE /\ stopping = "no"
    /\ judge = "up" /\ signal = FALSE /\ exiting = FALSE
    /\ updater = "wait" /\ scan = 0
    /\ net = "online" /\ netScan = 0 /\ sent = 0
    /\ trigger = FALSE /\ terminate = FALSE /\ pinger = "wait" /\ tried = 0
    /\ lost = FALSE
-----------------------------------------------------------------------------
Change ==
    /\ files < MaxVersion
    /\ files' = files + 1 /\ noticed' = TRUE
    /\ UNCHANGED <<stopping, judgeVars, pingVars, lost>>

\* on_any_event: the callback is update_problems; then the urls are refreshed.
Notify ==
    /\ judge = "up" /\ noticed /\ stopping # "done"
    /\ noticed' = FALSE
    /\ signal' = TRUE /\ trigger' = TRUE
    /\ UNCHANGED <<files, stopping, judge, exiting, updater, scan, net, netScan, sent,
                   terminate, pinger, tried, lost>>

\* SIGUSR2 and POST /update/problems.
RequestUpdate ==
    /\ judge = "up" /\ ~signal
    /\ signal' = TRUE
    /\ UNCHANGED <<files, noticed, stopping, judge, exiting, updater, scan, net, netScan, sent,
                   pingVars, lost>>
-----------------------------------------------------------------------------
(***************************************************************************)
(* The updater thread.                                                     *)
(***************************************************************************)
UpdaterFrame == UNCHANGED <<files, noticed, stopping, exiting, net, netScan, pingVars, lost>>

AwaitSignal ==
    /\ updater = "wait" /\ signal
    /\ updater' = "clear"
    /\ UNCHANGED <<judge, signal, scan, sent>>

ClearSignal ==
    /\ updater = "clear"
    /\ signal' = FALSE
    /\ updater' = "check"
    /\ UNCHANGED <<judge, scan, sent>>

CheckExit ==
    /\ updater = "check"
    /\ updater' = IF exiting THEN "ended" ELSE "scan"
    /\ UNCHANGED <<judge, signal, scan, sent>>

\* clear_problem_dirs_cache, then the directories are read.
Scan ==
    /\ updater = "scan"
    /\ scan' = files /\ updater' = "send"
    /\ UNCHANGED <<judge, signal, sent>>

SendProblems_ThenClear ==
    /\ updater = "send"
    /\ updater' = "wait" /\ signal' = FALSE /\ sent' = scan
    /\ UNCHANGED <<judge, scan>>

\* supported_problems_packet: on a connection that is open the packet is sent,
\* handshake or not; on one that was shut down the send raises and the judge
\* exits; on one that was lost (closed, but input still refers to its socket) it
\* raises or goes nowhere.
SendProblems ==
    /\ updater = "send"
    /\ updater' = "wait"
    /\ \/ net \in {"online", "connected"} /\ sent' = scan /\ UNCHANGED judge
       \/ net \in {"dropped", "scanned", "shutdown"} /\ judge' = "exit1" /\ UNCHANGED sent
       \/ net \in {"dropped", "scanned"} /\ UNCHANGED <<sent, judge>>
    /\ UNCHANGED <<signal, scan>>

Updater ==
    /\ judge = "up"
    /\ AwaitSignal \/ ClearSignal \/ CheckExit \/ Scan \/ SendProblems
    /\ UpdaterFrame
-----------------------------------------------------------------------------
(***************************************************************************)
(* The network thread: a lost connection is closed and, after a while, the *)
(* directories are read, a connection is made and the handshake is sent.   *)
(***************************************************************************)
NetFrame == UNCHANGED <<files, noticed, stopping, judge, signal, exiting, updater, scan, pingVars>>

Drop ==
    /\ net = "online"
    /\ net' = "dropped" /\ lost' = TRUE /\ UNCHANGED <<netScan, sent>>
ScanFirst ==
    /\ net = "dropped"
    /\ netScan' = files /\ net' = "scanned" /\ UNCHANGED <<sent, lost>>
Connect ==
    /\ net = "scanned"
    /\ net' \in {"connected", "dropped"} /\ UNCHANGED <<netScan, sent, lost>>
Handshake ==
    /\ net = "connected"
    /\ \/ net' = "online" /\ sent' = netScan
       \/ net' = "dropped" /\ UNCHANGED sent
    /\ UNCHANGED <<netScan, lost>>

Network ==
    judge = "up" /\ stopping = "no" /\ (Drop \/ ScanFirst \/ Connect \/ Handshake) /\ NetFrame
-----------------------------------------------------------------------------
(***************************************************************************)
(* The RefreshWorker's thread, and the shutdown in main: murder, then      *)
(* Monitor.__exit__.                                                       *)
(***************************************************************************)
PingerSteps_ClearsLast ==
    \/ pinger = "wait" /\ trigger /\ pinger' = "check" /\ UNCHANGED <<trigger, tried>>
    \/ pinger = "check" /\ pinger' = (IF terminate THEN "ended" ELSE "ping")
       /\ UNCHANGED <<trigger, tried>>
    \/ pinger = "ping" /\ pinger' = "clear" /\ tried' = files /\ UNCHANGED trigger
    \/ pinger = "clear" /\ pinger' = "wait" /\ trigger' = FALSE /\ UNCHANGED tried

\* Trying the urls is one step: whatever it raises is caught and logged.
PingerSteps ==
    \/ pinger = "wait" /\ trigger /\ pinger' = "clear" /\ UNCHANGED <<trigger, tried>>
    \/ pinger = "clear" /\ pinger' = "check" /\ trigger' = FALSE /\ UNCHANGED tried
    \/ pinger = "check" /\ pinger' = (IF terminate THEN "ended" ELSE "ping")
       /\ UNCHANGED <<trigger, tried>>
    \/ pinger = "ping" /\ pinger' = "wait" /\ tried' = files /\ UNCHANGED trigger

Pinger ==
    /\ judge = "up"
    /\ PingerSteps
    /\ UNCHANGED <<files, noticed, stopping, judgeVars, terminate, lost>>

BeginStop ==
    /\ stopping = "no" /\ stopping' = "flag"
    /\ UNCHANGED <<signal, exiting, net, trigger, terminate>>
SetExit ==
    /\ stopping = "flag" /\ stopping' = "signal"
    /\ exiting' = TRUE
    /\ UNCHANGED <<signal, net, trigger, terminate>>
WakeUpdater_Forgotten ==
    /\ stopping = "signal" /\ stopping' = "close"
    /\ UNCHANGED <<signal, exiting, net, trigger, terminate>>
WakeUpdater ==
    /\ stopping = "signal" /\ stopping' = "close"
    /\ signal' = TRUE
    /\ UNCHANGED <<exiting, net, trigger, terminate>>
CloseConnection ==
    /\ stopping = "close" /\ stopping' = "refresher"
    /\ net' = "shutdown"
    /\ UNCHANGED <<signal, exiting, trigger, terminate>>
StopRefresher ==
    /\ stopping = "refresher" /\ stopping' = "trigger"
    /\ terminate' = TRUE
    /\ UNCHANGED <<signal, exiting, net, trigger>>
StopMonitor ==
    /\ stopping = "trigger" /\ stopping' = "done"
    /\ trigger' = TRUE
    /\ UNCHANGED <<signal, exiting, net, terminate>>

\* Begun by whatever ends listen() (a KeyboardInterrupt may also end a reconnection),
\* and carried through.
StopSteps == SetExit \/ WakeUpdater \/ CloseConnection \/ StopRefresher \/ StopMonitor
StopFrame == UNCHANGED <<files, noticed, judge, updater, scan, netScan, sent, pinger, tried, lost>>
Stop == judge = "up" /\ (BeginStop \/ StopSteps) /\ StopFrame
-----------------------------------------------------------------------------
Next == Change \/ Notify \/ RequestUpdate \/ Updater \/ Network \/ Pinger \/ Stop

Spec == Init /\ [][Next]_vars

\* Threads run; a shutdown that began is carried through.  Nothing says that files
\* change or that the judge is ever stopped.
FairSpec ==
    /\ Spec
    /\ WF_vars(Notify) /\ WF_vars(Updater) /\ WF_vars(Pinger)
    /\ WF_vars(judge = "up" /\ StopSteps /\ StopFrame)
-----------------------------------------------------------------------------
\* Every variable holds a value of its type, and what a scan found is never newer
\* than the files, nor what was sent newer than the last scans.
TypeOK ==
    /\ files \in 0..MaxVersion /\ noticed \in BOOLEAN
    /\ stopping \in {"no", "flag", "signal", "close", "refresher", "trigger", "done"}
    /\ judge \in {"up", "exit1"} /\ signal \in BOOLEAN /\ exiting \in BOOLEAN
    /\ updater \in {"wait", "clear", "check", "scan", "send", "ended"}
    /\ net \in {"online", "dropped", "scanned", "connected", "shutdown"}
    /\ scan \in 0..files /\ netScan \in 0..files
    /\ sent <= IF scan > netScan THEN scan ELSE netScan
    /\ trigger \in BOOLEAN /\ terminate \in BOOLEAN
    /\ pinger \in {"wait", "clear", "check", "ping", "ended"} /\ tried \in 0..files
    /\ lost \in BOOLEAN

\* No change is lost between the monitor and the site: once the files stop
\* changing, what the site was told last is what there is (update_problems:
\* "Pushes current problem set to server"), unless the judge stops or the
\* connection was lost at some time: _connect sends what it read before it connected,
\* and may replace a newer list by that.
SiteLearnsAll == <>[](sent = files \/ lost \/ stopping # "no" \/ judge # "up")

\* Nor is one lost on the way to the RefreshWorker: once the files stop changing, it
\* tried the urls after the last change.  That a service hears of it is not said:
\* urlopen refuses the str it is given as data, and a ping that fails, for this or any
\* other reason, is logged and not tried again (monitor.py:52-57).
PingsAttempted == <>[](tried = files \/ stopping # "no" \/ judge # "up")

\* The updater is not a daemon thread: after murder it ends, whatever it was doing,
\* or the judge would never exit.
UpdaterEnds == exiting ~> updater = "ended" \/ judge # "up"
=============================================================================
