-------------------------------- MODULE Judge --------------------------------
(***************************************************************************)
(* The judge daemon while it grades (dmoj/judge.py with dmoj/packet.py and *)
(* the abort path of dmoj/graders/base.py).                                *)
(*                                                                         *)
(* Processes and threads, each with its own program counter:               *)
(*   network thread   reads the site's packets, starts and aborts grading; *)
(*   grading thread   one per submission: receives the worker's messages   *)
(*                    and turns them into packets for the site;            *)
(*   flush thread     sends the queued test cases every 0.25 s;            *)
(*   worker process   one per submission, forked: a main thread that       *)
(*                    grades and a receiver thread that takes aborts.      *)
(*                                                                         *)
(* A submission, its JudgeWorker, its grading thread and its worker        *)
(* process are all named by the submission's identifier.  What the site    *)
(* received is kept per submission in the history variable log.            *)
(***************************************************************************)
EXTENDS Integers, Sequences, FiniteSets

CONSTANTS
    Submissions,    \* the identifiers the site may send, each once
    None,           \* Python's None
    Plan,           \* what _grade_cases yields between GRADING-BEGIN and
                    \* GRADING-END: a sequence of "BATCH_BEGIN", "CASE" and
                    \* "BATCH_END"
    SiteSends,      \* the kinds of packet the site uses
    Faults          \* the faults of the environment that are possible

SiteKinds == {"terminate", "query", "disconnect"}

\* crash:  a worker process dies by itself (out of memory, a signal);
\* stall:  a timed wait of the judge for a worker (recv_timeout, IPC_TIMEOUT) expires;
\* linger: a worker's wait for its own receiver thread expires (IPC_TIMEOUT);
\* raise:  the worker's grading code raises an exception;
\* interrupt: the judge gets a SIGINT.
FaultKinds == {"crash", "stall", "linger", "raise", "interrupt"}

ASSUME NoneAssumption == None \notin Submissions
ASSUME PlanAssumption == Plan \in Seq({"BATCH_BEGIN", "CASE", "BATCH_END"})
ASSUME EnvAssumption == SiteSends \subseteq SiteKinds /\ Faults \subseteq FaultKinds

VARIABLES
  \* the judge process
    judge,      \* "up", "exit0" (sys.exit(0)) or "exit1" (os._exit(1))
    closed,     \* PacketManager._closed: the connection was shut down
    flushing,   \* the flush thread found it open and goes round once more
    lock,       \* Judge._grading_lock is held
    current,    \* Judge.current_judge_worker
    queue,      \* PacketManager._testcase_queue
  \* its network thread
    netPc,      \* what the thread does
    netSub,     \* the submission of the last submission-request
    target,     \* the worker abort_grading captured
    after,      \* where the thread goes after abort_grading returns
  \* the grading thread of each submission
    gt,         \* what the thread does
    msg,        \* the message type it handles
    ready,      \* ipc_ready_signal
  \* the worker process of each submission
    main,       \* what its main thread does
    step,       \* its position in Plan
    recv,       \* what its receiver thread does
    abort,      \* JudgeWorker._abort_requested, the worker's copy
    cut,        \* the running test process was killed by an abort
    up, down,   \* the pipe, to and from the judge
  \* history
    log         \* the packets the site received about each submission

judgeVars == <<judge, closed, flushing, lock, current, queue>>
netVars == <<netPc, netSub, target, after>>
threadVars == <<gt, msg, ready>>
workerVars == <<main, step, recv, abort, cut>>
pipeVars == <<up, down>>
vars == <<judgeVars, netVars, threadVars, workerVars, pipeVars, log>>
-----------------------------------------------------------------------------
\* The IPC enumeration, in each direction of the pipe.
UpTypes == {"HELLO", "BYE", "COMPILE_ERROR", "COMPILE_MESSAGE", "RESULT",
            "BATCH_BEGIN", "BATCH_END", "GRADING_BEGIN", "GRADING_END",
            "GRADING_ABORTED", "UNHANDLED_EXCEPTION"}
DownTypes == {"BYE", "REQUEST_ABORT"}

\* A test case's result as the pipe and the queue carry it: the submission
\* that was graded, the case's position and whether an abort killed its process.
\* Every result is taken to be one that json.dumps accepts.
CaseType == [sub : Submissions \cup {None}, pos : Nat, cut : BOOLEAN]

NoCase == [sub |-> None, pos |-> 0, cut |-> FALSE]

\* What the site hears.  A test-case-status packet is recorded as its cases, one
\* entry each, so that it does not matter which of them shared a packet.
Packet(name) == [name |-> name, case |-> NoCase]
Status(cases) == [i \in DOMAIN cases |-> [name |-> "test-case-status", case |-> cases[i]]]

\* The packet an IPC message becomes.
PacketOf ==
    [COMPILE_ERROR   |-> "compile-error",  COMPILE_MESSAGE |-> "compile-message",
     GRADING_BEGIN   |-> "grading-begin",  GRADING_END     |-> "grading-end",
     GRADING_ABORTED |-> "submission-terminated",
     BATCH_BEGIN     |-> "batch-begin",    BATCH_END       |-> "batch-end"]

\* The messages whose packet goes out as soon as they are received, and those
\* whose handler flushes the test case queue first.
DirectTypes == {"COMPILE_ERROR", "COMPILE_MESSAGE", "GRADING_BEGIN"}
FlushTypes == {"GRADING_END", "GRADING_ABORTED", "BATCH_BEGIN", "BATCH_END"}

Terminals == {"compile-error", "grading-end", "submission-terminated", "internal-error"}

\* The case number of the i-th entry of Plan.
CaseNumber(i) == Cardinality({j \in 1..i : Plan[j] = "CASE"})

\* _send_packet of a packet about the current submission: on a connection that
\* was shut down the process exits, whatever the other threads are doing.
Send(packets) ==
    IF closed
    THEN judge' = "exit1" /\ UNCHANGED log
    ELSE /\ log' = [log EXCEPT ![current] = @ \o packets]
         /\ UNCHANGED judge

SendPacket(name) == Send(<<Packet(name)>>)

NoSend == UNCHANGED <<queue, judge, log>>

Flush_Uncleared ==
    Send(Status(queue)) /\ UNCHANGED queue

\* _flush_testcase_queue, which holds _testcase_queue_lock throughout.
Flush ==
    IF queue = <<>>
    THEN NoSend
    ELSE /\ Send(Status(queue))
         /\ queue' = <<>>

Alive(s) == main[s] \notin {"off", "exited"}

\* The worker process ends: its memory and threads, and what it had not read,
\* are gone; what it sent can still be received.  SIGKILL is taken to act at once.
Gone(s) ==
    /\ main' = [main EXCEPT ![s] = "exited"]
    /\ step' = [step EXCEPT ![s] = 1]
    /\ recv' = [recv EXCEPT ![s] = "off"]
    /\ abort' = [abort EXCEPT ![s] = FALSE]
    /\ cut' = [cut EXCEPT ![s] = FALSE]
    /\ down' = [down EXCEPT ![s] = <<>>]
    /\ UNCHANGED up

WaitWithTimeout_NoJoin(w) == UNCHANGED <<workerVars, pipeVars>>

\* JudgeWorker.wait_with_timeout of worker w returns: the process ended, or
\* IPC_TIMEOUT expired and it was sent SIGKILL.
WaitWithTimeout(w) ==
    \/ ~Alive(w) /\ UNCHANGED <<workerVars, pipeVars>>
    \/ "stall" \in Faults /\ Alive(w) /\ Gone(w)
-----------------------------------------------------------------------------
Init ==
    /\ judge = "up" /\ closed = FALSE /\ flushing = TRUE /\ lock = FALSE
    /\ current = None /\ queue = <<>>
    /\ netPc = "read" /\ netSub = None /\ target = None /\ after = "read"
    /\ gt = [s \in Submissions |-> "off"]
    /\ msg = [s \in Submissions |-> "HELLO"]
    /\ ready = [s \in Submissions |-> FALSE]
    /\ main = [s \in Submissions |-> "off"]
    /\ step = [s \in Submissions |-> 1]
    /\ recv = [s \in Submissions |-> "off"]
    /\ abort = [s \in Submissions |-> FALSE]
    /\ cut = [s \in Submissions |-> FALSE]
    /\ up = [s \in Submissions |-> <<>>]
    /\ down = [s \in Submissions |-> <<>>]
    /\ log = [s \in Submissions |-> <<>>]
-----------------------------------------------------------------------------
(***************************************************************************)
(* The network thread.                                                     *)
(***************************************************************************)
\* submission-request: the acknowledgement goes out before begin_grading.
Request(s) ==
    /\ judge = "up" /\ netPc = "read"
    /\ log[s] = <<>> /\ gt[s] = "off"
    /\ log' = [log EXCEPT ![s] = <<Packet("submission-acknowledged")>>]
    /\ netSub' = s /\ netPc' = "acquire"
    /\ UNCHANGED <<judgeVars, target, after, threadVars, workerVars, pipeVars>>

LockFree_Ignored == TRUE
LockFree == ~lock

\* begin_grading waits for the previous submission's teardown.
AcquireLock ==
    /\ judge = "up" /\ netPc = "acquire" /\ LockFree
    /\ lock' = TRUE /\ netPc' = "start"
    /\ UNCHANGED <<judge, closed, flushing, current, queue, netSub, target, after,
                   threadVars, workerVars, pipeVars, log>>

AssignWorker == current' = netSub

\* begin_grading forks the worker and starts its grading thread; a failed
\* assertion ends in _read_forever's handler, which exits.
StartGrading ==
    /\ judge = "up" /\ netPc = "start"
    /\ IF current # None
       THEN judge' = "exit1" /\ UNCHANGED <<current, netPc, gt, main>>
       ELSE /\ AssignWorker
            /\ main' = [main EXCEPT ![netSub] = "hello"]
            /\ gt' = [gt EXCEPT ![netSub] = "recv"]
            /\ netPc' = "ready"
            /\ UNCHANGED judge
    /\ UNCHANGED <<closed, flushing, lock, queue, netSub, target, after, msg, ready,
                   step, recv, abort, cut, pipeVars, log>>

HandshakeDone_Ignored(s) == TRUE
HandshakeDone(s) == ready[s]

\* begin_grading returns once the worker said hello or the attempt is over.
AwaitReady ==
    /\ judge = "up" /\ netPc = "ready" /\ HandshakeDone(netSub)
    /\ netPc' = "read"
    /\ UNCHANGED <<judgeVars, netSub, target, after, threadVars, workerVars, pipeVars, log>>

\* abort_grading(): with no worker there is nothing to do; otherwise the
\* request goes down the pipe (a failure to send is logged only) and the
\* thread joins the worker process.
AbortGrading(next) ==
    /\ after' = next
    /\ IF current = None
       THEN netPc' = next /\ UNCHANGED <<target, down>>
       ELSE /\ target' = current
            /\ netPc' = "join"
            /\ IF Alive(current)
               THEN down' = [down EXCEPT ![current] = Append(@, "REQUEST_ABORT")]
               ELSE UNCHANGED down
    /\ UNCHANGED <<netSub, up>>

Terminate ==
    /\ "terminate" \in SiteSends
    /\ judge = "up" /\ netPc = "read"
    /\ AbortGrading("read")
    /\ UNCHANGED <<judgeVars, threadVars, workerVars, log>>

\* disconnect: close the connection, abort, and raise SystemExit ...
Disconnect ==
    /\ "disconnect" \in SiteSends
    /\ judge = "up" /\ netPc = "read"
    /\ closed' = TRUE
    /\ AbortGrading("murder")
    /\ UNCHANGED <<judge, flushing, lock, current, queue, threadVars, workerVars, log>>

\* SIGINT while the network thread, which is the main one, waits for a packet, the lock,
\* the handshake or a worker: the KeyboardInterrupt ends _read_forever.  On its way out
\* of wait_with_timeout the worker is killed.
Interrupt ==
    /\ "interrupt" \in Faults
    /\ judge = "up"
    /\ netPc \in {"read", "acquire", "ready"} \/ (netPc = "join" /\ after # "close")
    /\ IF netPc = "join" /\ Alive(target)
       THEN Gone(target)
       ELSE UNCHANGED <<workerVars, pipeVars>>
    /\ netPc' = "murder" /\ target' = None
    /\ UNCHANGED <<judgeVars, netSub, after, threadVars, log>>

\* Both reach main's finally clause: murder aborts, once more or before the handshake
\* is over, ...
Murder ==
    /\ judge = "up" /\ netPc = "murder"
    /\ AbortGrading("close")
    /\ UNCHANGED <<judgeVars, threadVars, workerVars, log>>

\* ... and closes the connection.
CloseConnection ==
    /\ judge = "up" /\ netPc = "close"
    /\ closed' = TRUE /\ netPc' = "exit"
    /\ UNCHANGED <<judge, flushing, lock, current, queue, netSub, target, after,
                   threadVars, workerVars, pipeVars, log>>

\* The interpreter joins the flush thread and the worker processes before it exits.
Exit ==
    /\ judge = "up" /\ netPc = "exit" /\ ~flushing
    /\ \A s \in Submissions : ~Alive(s)
    /\ judge' = "exit0"
    /\ UNCHANGED <<closed, flushing, lock, current, queue, netVars, threadVars, workerVars, pipeVars, log>>

NetJoin ==
    /\ judge = "up" /\ netPc = "join"
    /\ WaitWithTimeout(target)
    /\ netPc' = after /\ target' = None
    /\ UNCHANGED <<judgeVars, netSub, after, threadVars, log>>

\* get-current-submission: with no worker, current_submission is None and the
\* AttributeError ends the judge; the reply itself changes nothing here.
Query ==
    /\ "query" \in SiteSends
    /\ judge = "up" /\ netPc = "read"
    /\ current = None
    /\ judge' = "exit1"
    /\ UNCHANGED <<closed, flushing, lock, current, queue, netVars, threadVars, workerVars, pipeVars, log>>
-----------------------------------------------------------------------------
(***************************************************************************)
(* The grading thread of submission s: _grading_thread_main, driven by the *)
(* generator communicate().                                                *)
(***************************************************************************)
\* The thread takes the next message off the pipe, if its type is in types.
Receive(s, types) ==
    /\ judge = "up" /\ gt[s] = "recv" /\ up[s] # <<>>
    /\ Head(up[s]).type \in types
    /\ up' = [up EXCEPT ![s] = Tail(@)]
    /\ UNCHANGED <<closed, flushing, lock, current, netVars, workerVars>>

ReceiveHello(s) ==
    /\ Receive(s, {"HELLO"})
    /\ ready' = [ready EXCEPT ![s] = TRUE]
    /\ UNCHANGED <<judge, queue, gt, msg, down, log>>

\* _ipc_result only queues the case.
ReceiveResult(s) ==
    /\ Receive(s, {"RESULT"})
    /\ queue' = Append(queue, Head(up[s]).case)
    /\ UNCHANGED <<judge, threadVars, down, log>>

ReceiveDirect(s) ==
    /\ Receive(s, DirectTypes)
    /\ SendPacket(PacketOf[Head(up[s]).type])
    /\ UNCHANGED <<queue, threadVars, down>>

ReceiveFlushing(s) ==
    /\ Receive(s, FlushTypes)
    /\ gt' = [gt EXCEPT ![s] = "flush"]
    /\ msg' = [msg EXCEPT ![s] = Head(up[s]).type]
    /\ UNCHANGED <<judge, queue, ready, down, log>>

ReceiveUnhandled(s) ==
    /\ Receive(s, {"UNHANDLED_EXCEPTION"})
    /\ gt' = [gt EXCEPT ![s] = "report"]
    /\ UNCHANGED <<judge, queue, msg, ready, down, log>>

\* BYE is answered with BYE; a worker that is gone makes the send raise.
ReceiveBye(s) ==
    /\ Receive(s, {"BYE"})
    /\ IF Alive(s)
       THEN /\ down' = [down EXCEPT ![s] = Append(@, "BYE")]
            /\ gt' = [gt EXCEPT ![s] = "join"]
       ELSE gt' = [gt EXCEPT ![s] = "error"] /\ UNCHANGED down
    /\ UNCHANGED <<judge, queue, msg, ready, log>>

FlushBefore_NotAtEnd(s) == IF msg[s] = "GRADING_END" THEN NoSend ELSE Flush
FlushBefore(s) == Flush

\* The packet methods that flush first: the flush is one step under the queue
\* lock, the packet itself another.
FlushFirst(s) ==
    /\ judge = "up" /\ gt[s] = "flush"
    /\ FlushBefore(s)
    /\ gt' = [gt EXCEPT ![s] = "send"]
    /\ UNCHANGED <<closed, flushing, lock, current, netVars, msg, ready, workerVars, pipeVars>>

ThenSend(s) ==
    /\ judge = "up" /\ gt[s] = "send"
    /\ SendPacket(PacketOf[msg[s]])
    /\ gt' = [gt EXCEPT ![s] = "recv"]
    /\ UNCHANGED <<closed, flushing, lock, current, queue, netVars, msg, ready, workerVars, pipeVars>>

\* recv raises EOFError once the worker is gone and the pipe is drained.
ReceiveEof(s) ==
    /\ judge = "up" /\ gt[s] = "recv" /\ up[s] = <<>> /\ ~Alive(s)
    /\ gt' = [gt EXCEPT ![s] = "error"]
    /\ UNCHANGED <<judgeVars, netVars, msg, ready, workerVars, pipeVars, log>>

ReceiveTimeout_Never(s) == FALSE

\* Nothing arrives for recv_timeout: the worker is killed.
ReceiveTimeout(s) ==
    /\ "stall" \in Faults
    /\ judge = "up" /\ gt[s] = "recv" /\ up[s] = <<>> /\ Alive(s)
    /\ Gone(s)
    /\ gt' = [gt EXCEPT ![s] = "error"]
    /\ UNCHANGED <<judgeVars, netVars, msg, ready, log>>

\* log_internal_error, from the dispatch of UNHANDLED_EXCEPTION ("report",
\* then back to receiving) or from the except clause ("error", then the
\* finally clause).  It flushes first, and an exception is only logged.
FlushOnError == Flush

ReportError(s) ==
    /\ judge = "up" /\ gt[s] \in {"report", "error"}
    /\ FlushOnError
    /\ gt' = [gt EXCEPT ![s] = IF @ = "report" THEN "report-send" ELSE "error-send"]
    /\ UNCHANGED <<closed, flushing, lock, current, netVars, msg, ready, workerVars, pipeVars>>

ReportSend(s) ==
    /\ judge = "up" /\ gt[s] \in {"report-send", "error-send"}
    /\ SendPacket("internal-error")
    /\ gt' = [gt EXCEPT ![s] = IF @ = "report-send" THEN "recv" ELSE "join"]
    /\ UNCHANGED <<closed, flushing, lock, current, queue, netVars, msg, ready, workerVars, pipeVars>>

\* finally: wait_with_timeout ...
Join(s) ==
    /\ judge = "up" /\ gt[s] = "join"
    /\ WaitWithTimeout(current)
    /\ gt' = [gt EXCEPT ![s] = "clear"]
    /\ UNCHANGED <<judgeVars, netVars, msg, ready, log>>

\* ... then current_judge_worker is cleared ...
Clear(s) ==
    /\ judge = "up" /\ gt[s] = "clear"
    /\ current' = None
    /\ gt' = [gt EXCEPT ![s] = "release"]
    /\ UNCHANGED <<judge, closed, flushing, lock, queue, netVars, msg, ready, workerVars, pipeVars, log>>

SignalReady_Missing(s) == UNCHANGED ready
SignalReady(s) == ready' = [ready EXCEPT ![s] = TRUE]

\* ... before the ready signal is set and the lock released.
Release(s) ==
    /\ judge = "up" /\ gt[s] = "release"
    /\ SignalReady(s)
    /\ lock' = FALSE
    /\ gt' = [gt EXCEPT ![s] = "done"]
    /\ msg' = [msg EXCEPT ![s] = "HELLO"]
    /\ UNCHANGED <<judge, closed, flushing, current, queue, netVars, workerVars, pipeVars, log>>

GradingThread(s) ==
    \/ ReceiveHello(s) \/ ReceiveResult(s) \/ ReceiveDirect(s) \/ ReceiveFlushing(s)
    \/ ReceiveUnhandled(s) \/ ReceiveBye(s) \/ ReceiveEof(s) \/ ReceiveTimeout(s)
    \/ FlushFirst(s) \/ ThenSend(s) \/ ReportError(s) \/ ReportSend(s)
    \/ Join(s) \/ Clear(s) \/ Release(s)

(***************************************************************************)
(* The flush thread: _periodically_flush_testcase_queue.  With no current  *)
(* submission the exception is printed and the queue left as it is.  It    *)
(* looks at _closed before it sleeps: one flush may follow the close.      *)
(***************************************************************************)
PeriodicFlush ==
    /\ judge = "up" /\ flushing
    /\ IF current = None THEN NoSend ELSE Flush
    /\ flushing' = ~closed
    /\ UNCHANGED <<closed, lock, current, netVars, threadVars, workerVars, pipeVars>>
-----------------------------------------------------------------------------
(***************************************************************************)
(* The worker process of submission s: _worker_process_main over the       *)
(* generator _grade_cases.                                                 *)
(***************************************************************************)
Message(type) == [type |-> type, case |-> NoCase]

\* Python's send on the pipe: after the judge died it raises BrokenPipeError,
\* which sends the main thread to its finally clause.
Yield(s, m, next) ==
    IF judge = "up"
    THEN /\ up' = [up EXCEPT ![s] = Append(@, m)]
         /\ main' = [main EXCEPT ![s] = next]
    ELSE main' = [main EXCEPT ![s] = "finally"] /\ UNCHANGED up

\* HELLO is sent before the receiver thread starts.
Hello(s) ==
    /\ main[s] = "hello"
    /\ Yield(s, Message("HELLO"), "compile")
    /\ recv' = [recv EXCEPT ![s] = IF judge = "up" THEN "listen" ELSE "off"]
    /\ UNCHANGED <<step, abort, cut, down>>

\* The grader's constructor compiles: it fails, or there may be a warning.
Compile(s) ==
    /\ main[s] = "compile"
    /\ \/ Yield(s, Message("COMPILE_ERROR"), "bye")
       \/ Yield(s, Message("COMPILE_MESSAGE"), "begin")
       \/ main' = [main EXCEPT ![s] = "begin"] /\ UNCHANGED up
    /\ UNCHANGED <<step, recv, abort, cut, down>>

Begin(s) ==
    /\ main[s] = "begin"
    /\ Yield(s, Message("GRADING_BEGIN"), "grade")
    /\ UNCHANGED <<step, recv, abort, cut, down>>

\* The worker goes on to the next entry of Plan.
Advance(s) == step' = [step EXCEPT ![s] = @ + 1]

\* Between cases: a batch begins or ends, or everything was graded.
Batch(s) ==
    /\ main[s] = "grade" /\ step[s] <= Len(Plan) /\ Plan[step[s]] # "CASE"
    /\ Yield(s, Message(Plan[step[s]]), "grade")
    /\ Advance(s)
    /\ UNCHANGED <<recv, abort, cut, down>>

GradingEnd(s) ==
    /\ main[s] = "grade" /\ step[s] = Len(Plan) + 1
    /\ Yield(s, Message("GRADING_END"), "bye")
    /\ UNCHANGED <<step, recv, abort, cut, down>>

\* The RESULT of the case at the worker's position.
Result(s, isCut) ==
    [type |-> "RESULT",
     case |-> [sub |-> s, pos |-> CaseNumber(step[s]), cut |-> isCut]]

\* A short-circuited case is neither run nor checked for an abort.
ShortCircuit(s) ==
    /\ main[s] = "grade" /\ step[s] <= Len(Plan) /\ Plan[step[s]] = "CASE"
    /\ Yield(s, Result(s, FALSE), "grade")
    /\ Advance(s)
    /\ UNCHANGED <<recv, abort, cut, down>>

\* grade() launches the test process: from here an abort can kill it.
Launch(s) ==
    /\ main[s] = "grade" /\ step[s] <= Len(Plan) /\ Plan[step[s]] = "CASE"
    /\ main' = [main EXCEPT ![s] = "running"]
    /\ cut' = [cut EXCEPT ![s] = FALSE]
    /\ UNCHANGED <<step, recv, abort, pipeVars>>

\* The test process is over, by itself or killed, and grade() returns.
Graded(s) ==
    /\ main[s] = "running"
    /\ main' = [main EXCEPT ![s] = "check"]
    /\ UNCHANGED <<step, recv, abort, cut, pipeVars>>

AbortSeen_Never(s) == FALSE
AbortSeen(s) == abort[s]

\* GRADING_ABORTED is the last thing _grade_cases yields.
AfterAborted == "bye"

\* The result of an aborted submission is dropped.
CheckAbort(s) ==
    /\ main[s] = "check"
    /\ IF AbortSeen(s)
       THEN Yield(s, Message("GRADING_ABORTED"), AfterAborted) /\ UNCHANGED step
       ELSE /\ Yield(s, Result(s, cut[s]), "grade")
            /\ Advance(s)
    /\ UNCHANGED <<recv, abort, cut, down>>

\* Code of the problem, the checker or the judge raises.
Raise(s) ==
    /\ "raise" \in Faults
    /\ main[s] \in {"compile", "grade", "running"}
    /\ Yield(s, Message("UNHANDLED_EXCEPTION"), "bye")
    /\ UNCHANGED <<step, recv, abort, cut, down>>

Bye(s) ==
    /\ main[s] = "bye"
    /\ Yield(s, Message("BYE"), "finally")
    /\ UNCHANGED <<step, recv, abort, cut, down>>

\* finally: join the receiver thread, for at most IPC_TIMEOUT.
Finally(s) ==
    /\ main[s] = "finally"
    /\ \/ recv[s] \in {"off", "stopped"}
       \/ "linger" \in Faults /\ recv[s] \notin {"off", "stopped"}
    /\ Gone(s)

WorkerMain(s) ==
    \/ Hello(s) \/ Compile(s) \/ Begin(s) \/ Batch(s) \/ GradingEnd(s)
    \/ ShortCircuit(s) \/ Launch(s) \/ Graded(s) \/ CheckAbort(s)
    \/ Raise(s) \/ Bye(s) \/ Finally(s)

JudgeHungUp_Ignored == FALSE
JudgeHungUp == judge # "up"

\* _ipc_recv_thread_main: BYE ends it; an abort request, or the end of the
\* judge, starts _do_abort, which sets the flag ...
WorkerReceive(s) ==
    /\ Alive(s) /\ recv[s] = "listen"
    /\ \/ /\ down[s] # <<>> /\ Head(down[s]) = "BYE"
          /\ recv' = [recv EXCEPT ![s] = "stopped"]
          /\ down' = [down EXCEPT ![s] = Tail(@)]
          /\ UNCHANGED abort
       \/ /\ down[s] # <<>> /\ Head(down[s]) = "REQUEST_ABORT"
          /\ recv' = [recv EXCEPT ![s] = "abort"]
          /\ down' = [down EXCEPT ![s] = Tail(@)]
          /\ abort' = [abort EXCEPT ![s] = TRUE]
       \/ /\ down[s] = <<>> /\ JudgeHungUp
          /\ recv' = [recv EXCEPT ![s] = "hangup"]
          /\ abort' = [abort EXCEPT ![s] = TRUE]
          /\ UNCHANGED down
    /\ UNCHANGED <<main, step, cut, up>>

\* ... and then kills the running test process, if there is one.
WorkerAbort(s) ==
    /\ Alive(s) /\ recv[s] \in {"abort", "hangup"}
    /\ cut' = [cut EXCEPT ![s] = @ \/ main[s] = "running"]
    /\ recv' = [recv EXCEPT ![s] = IF @ = "abort" THEN "listen" ELSE "stopped"]
    /\ UNCHANGED <<main, step, abort, pipeVars>>

\* The process ends by itself: a signal, or the out-of-memory killer.
WorkerDies(s) ==
    /\ "crash" \in Faults /\ Alive(s)
    /\ Gone(s)

WorkerFrame == UNCHANGED <<judgeVars, netVars, threadVars, log>>
Worker(s) ==
    /\ WorkerMain(s) \/ WorkerReceive(s) \/ WorkerAbort(s) \/ WorkerDies(s)
    /\ WorkerFrame
-----------------------------------------------------------------------------
NetworkThread ==
    \/ \E s \in Submissions : Request(s)
    \/ AcquireLock \/ StartGrading \/ AwaitReady
    \/ Terminate \/ Disconnect \/ Interrupt \/ Murder \/ CloseConnection \/ Exit
    \/ NetJoin \/ Query

Next ==
    \/ NetworkThread
    \/ \E s \in Submissions : GradingThread(s) \/ Worker(s)
    \/ PeriodicFlush

Spec == Init /\ [][Next]_vars

(***************************************************************************)
(* Fairness.  Every thread of the judge that can run does: the operating   *)
(* system's scheduler.  The site need not send anything.  Nothing is       *)
(* assumed of a worker whose judge is up: it may hang anywhere, and only   *)
(* the judge's own timeouts ("stall" \in Faults) free it.  The threads of  *)
(* a worker that lost its judge run, and a test process ends, because the  *)
(* sandbox enforces its time limit.                                        *)
(***************************************************************************)
NetworkStep ==
    AcquireLock \/ StartGrading \/ AwaitReady \/ Murder \/ CloseConnection \/ Exit \/ NetJoin

OrphanMain(s) == judge # "up" /\ WorkerMain(s) /\ WorkerFrame
OrphanReceiver(s) == judge # "up" /\ (WorkerReceive(s) \/ WorkerAbort(s)) /\ WorkerFrame

FairSpec ==
    /\ Spec
    /\ WF_vars(NetworkStep)
    /\ WF_vars(PeriodicFlush)
    /\ \A s \in Submissions :
         WF_vars(GradingThread(s)) /\ WF_vars(OrphanMain(s)) /\ WF_vars(OrphanReceiver(s))
-----------------------------------------------------------------------------
(***************************************************************************)
(* Properties.                                                             *)
(***************************************************************************)
NetPcs == {"read", "acquire", "start", "ready", "join", "murder", "close", "exit"}
GtPcs == {"off", "recv", "flush", "send", "report", "report-send", "error",
          "error-send", "join", "clear", "release", "done"}
MainPcs == {"off", "hello", "compile", "begin", "grade", "running", "check", "bye",
            "finally", "exited"}
RecvPcs == {"off", "listen", "abort", "hangup", "stopped"}
PacketNames == Terminals \cup {"submission-acknowledged", "compile-message",
    "grading-begin", "batch-begin", "batch-end", "test-case-status"}
PacketType == [name : PacketNames, case : CaseType]
MessageType == [type : UpTypes, case : CaseType]

TypeJudge ==
    /\ judge \in {"up", "exit0", "exit1"}
    /\ closed \in BOOLEAN /\ flushing \in BOOLEAN /\ lock \in BOOLEAN
    /\ current \in Submissions \cup {None}
    /\ queue \in Seq(CaseType)
TypeNet ==
    /\ netPc \in NetPcs
    /\ netSub \in Submissions \cup {None}
    /\ netPc \in {"acquire", "start", "ready"} => netSub # None
    /\ target \in Submissions \cup {None}
    /\ netPc = "join" => target # None
    /\ after \in {"read", "murder", "close"}
TypeThread ==
    /\ gt \in [Submissions -> GtPcs]
    /\ msg \in [Submissions -> UpTypes]
    /\ \A s \in Submissions : gt[s] \in {"flush", "send"} => msg[s] \in FlushTypes
    /\ ready \in [Submissions -> BOOLEAN]
TypeWorker ==
    /\ main \in [Submissions -> MainPcs]
    /\ step \in [Submissions -> 1..Len(Plan) + 1]
    /\ \A s \in Submissions : main[s] \in {"running", "check"} => step[s] <= Len(Plan)
    /\ recv \in [Submissions -> RecvPcs]
    /\ abort \in [Submissions -> BOOLEAN]
    /\ cut \in [Submissions -> BOOLEAN]
TypePipe ==
    /\ up \in [Submissions -> Seq(MessageType)]
    /\ down \in [Submissions -> Seq(DownTypes)]
TypeLog == log \in [Submissions -> Seq(PacketType)]

\* Every variable holds a value of its type, every message and packet is one the
\* protocol knows (judge.py's IPC enumeration, packet.py's packet methods), and a
\* thread that uses a variable finds a value in it.
TypeOK == TypeJudge /\ TypeNet /\ TypeThread /\ TypeWorker /\ TypePipe /\ TypeLog

\* The grading threads between their start and the release of the lock.
Active == {s \in Submissions : gt[s] \notin {"off", "done"}}

\* At most one submission is being graded, and the lock is held while one is:
\* the promise of begin_grading's opening comment (judge.py:126-130).
OneGrading ==
    /\ \A s, t \in Active : s = t
    /\ Active # {} => lock

\* The assertion at judge.py:132 never fails: whoever takes the lock finds the
\* previous worker's teardown complete.
HandoverClean == netPc = "start" => current = None

\* The grading thread of s reads shared state (current_judge_worker, and through
\* it current_submission) at every packet: it always finds its own submission.
GradesItsOwn == \A s \in Active : gt[s] # "release" => current = s

\* No two worker processes run at once: the next is forked only when the last one
\* ended or was killed, whatever path its grading thread took.
OneWorker == \A s, t \in Submissions : Alive(s) /\ Alive(t) => s = t

\* main's finally clause was reached.
ShuttingDown == netPc \in {"murder", "close", "exit"} \/ (netPc = "join" /\ after = "close")

\* Why OneGrading, HandoverClean, GradesItsOwn, OneWorker and AbortAfterHandshake
\* hold together (judge.py:126-152 against :192-199): the lock is held exactly from its acquisition by
\* the network thread to its release by a grading thread, that thread's submission
\* is the current one until it clears it, its worker is gone before that, and the
\* network thread is with it until the handshake is over or a SIGINT ends its wait.
Handover ==
    /\ OneGrading
    /\ lock <=> netPc = "start" \/ Active # {}
    /\ netPc = "start" => Active = {}
    /\ netPc \in {"acquire", "start"} => gt[netSub] = "off"
    /\ \A s \in Submissions :
         /\ current = s <=> gt[s] \notin {"off", "release", "done"}
         /\ Alive(s) => gt[s] \notin {"off", "clear", "release", "done"}
         /\ s \in Active => ready[s] \/ (netSub = s /\ (netPc = "ready" \/ ShuttingDown))

IsCase(packet) == packet.name = "test-case-status"

\* Whichever thread flushes, a test case reaches the site under the identifier of
\* the submission that produced it (the identifier is read at the flush, not when
\* the case is queued).
CasesBelong ==
    \A s \in Submissions : \A i \in DOMAIN log[s] :
        IsCase(log[s][i]) => log[s][i].case.sub = s

\* When nothing is being graded the queue is empty, which is why the flush thread
\* may run at any time (the comment at packet.py:227-228).
NothingQueuedWhenIdle == current = None => queue = <<>>

Has(l, name) == \E i \in DOMAIN l : l[i].name = name
Answered(l) == \E n \in Terminals : Has(l, n)

\* The packet is what the site should hear of the i-th entry of Plan.
Tells(packet, i) ==
    /\ i \in 1..Len(Plan)
    /\ Plan[i] = "BATCH_BEGIN" => packet.name = "batch-begin"
    /\ Plan[i] = "BATCH_END" => packet.name = "batch-end"
    /\ Plan[i] = "CASE" => IsCase(packet) /\ packet.case.pos = CaseNumber(i)

\* The first k packets of l begin a submission: it is acknowledged, its compiler
\* may have said something, and its grading began.
Opens(l, k) ==
    /\ k <= 3
    /\ k >= 1 => l[1].name = "submission-acknowledged"
    /\ k >= 2 => l[2].name \in {"compile-message", "grading-begin"}
    /\ k >= 3 => l[2].name = "compile-message" /\ l[3].name = "grading-begin"
Begun(l, k) == k >= 2 /\ l[k].name = "grading-begin"

\* A packet that may be the first verdict after k packets of opening and n of Plan.
Closes(l, k, n) ==
    LET verdict == l[k + n + 1].name
    IN /\ verdict \in Terminals
       /\ verdict = "compile-error" => ~Begun(l, k)
       /\ verdict \in {"grading-end", "submission-terminated"} => Begun(l, k)
       /\ verdict = "grading-end" => n = Len(Plan)

\* The packets l are what the site should have heard of a submission: k of the
\* opening, the first n entries of Plan in order, then a verdict, which nothing
\* follows but one failure of the judge.
Story(l, k, n) ==
    /\ k + n <= Len(l) /\ Len(l) <= k + n + 2
    /\ l # <<>> => k >= 1
    /\ Opens(l, k)
    /\ n > 0 => Begun(l, k)
    /\ \A i \in 1..n : Tells(l[k + i], i)
    /\ Len(l) > k + n => Closes(l, k, n)
    /\ Len(l) = k + n + 2 => l[k + n + 2].name = "internal-error"

\* The site gets the cases of a submission in order, none twice and none left
\* out, each inside its own batch, and all of them before grading-end, although
\* two threads flush the same queue and batch packets bypass it.  A verdict is
\* final: after it the site only ever hears that the judge failed, and that once.
ResultsInOrder ==
    \A s \in Submissions : \E k \in 0..3, n \in 0..Len(Plan) : Story(log[s], k, n)

\* A case whose process was killed by an abort is never reported as a verdict.
NoCutCaseReported ==
    \A s \in Submissions : \A i \in DOMAIN log[s] :
        IsCase(log[s][i]) => ~log[s][i].case.cut

\* The site's aborts never overtake the handshake, the situation the FIXME at
\* judge.py:141-142 wonders about: an abort request is in the pipe before the worker's
\* HELLO was received only if the judge itself goes down, for the submission it was
\* starting when a SIGINT came.
AbortAfterHandshake ==
    \A s \in Submissions :
        (\E i \in DOMAIN down[s] : down[s][i] = "REQUEST_ABORT") =>
            ready[s] \/ (ShuttingDown /\ netSub = s)

\* The judge process exits on its own only when the site asks for what it
\* cannot answer or a packet is sent after the connection was closed.
ExitExplained == judge = "exit1" => closed \/ "query" \in SiteSends

\* A submission the judge acknowledged gets a terminal packet, unless the judge
\* goes down.
EventuallyAnswered ==
    \A s \in Submissions : log[s] # <<>> ~> Answered(log[s]) \/ judge # "up"

\* The network thread always comes back to its socket, unless the judge exits:
\* neither the lock, the ready signal nor the join of an aborted worker holds it.
NetworkResponsive == netPc # "read" ~> netPc = "read" \/ judge # "up"

\* A worker whose judge died does not outlive it for ever, and needs no timeout of
\* its own for that.
OrphansExit == judge # "up" ~> \A s \in Submissions : ~Alive(s)
-----------------------------------------------------------------------------
(***************************************************************************)
(* The judge implements SubmissionLife: the phase of a submission is read  *)
(* off the packets the site received about it.                             *)
(***************************************************************************)
FirstVerdict(l) ==
    IF Answered(l)
    THEN LET first == CHOOSE i \in DOMAIN l :
                        /\ l[i].name \in Terminals
                        /\ \A j \in 1..i - 1 : l[j].name \notin Terminals
         IN l[first].name
    ELSE "none"

Delivered(l) == {i \in DOMAIN l : IsCase(l[i])}

PhaseOf(l) ==
    IF l = <<>> THEN "unknown"
    ELSE IF Answered(l) THEN "answered"
    ELSE IF Has(l, "grading-begin") THEN "grading"
    ELSE "acknowledged"

Life == INSTANCE SubmissionLife WITH
    NCases <- CaseNumber(Len(Plan)),
    phase <- [s \in Submissions |-> PhaseOf(log[s])],
    verdict <- [s \in Submissions |-> FirstVerdict(log[s])],
    delivered <- [s \in Submissions |-> Cardinality(Delivered(log[s]))]

\* Seen from the site, whatever the threads, the worker and the faults do, the
\* judge follows SubmissionLife.
ImplementsLife == Life!Spec
=============================================================================
