----------------------------- MODULE JudgeProofs -----------------------------
(***************************************************************************)
(* Theorems about Judge, for every set of submissions, every plan and any  *)
(* faults: the types, one submission at a time, what the queue and the     *)
(* pipes hold, and the story the site hears.                               *)
(***************************************************************************)
EXTENDS Judge, FiniteSetTheorems, SequenceTheorems, TLAPS

\* The position of a case is a number.
LEMMA CaseNumberType ==
    ASSUME NEW i \in Nat PROVE CaseNumber(i) \in Nat
<1> DEFINE C == {j \in 1..i : Plan[j] = "CASE"}
<1>1. IsFiniteSet(1..i)  BY FS_Interval
<1>2. IsFiniteSet(C)  BY <1>1, FS_Subset
<1> QED  BY <1>2, FS_CardinalityType DEF CaseNumber

\* Packets about the current submission keep the history well typed.
LEMMA SendType ==
    ASSUME TypeJudge, TypeLog, NEW packets \in Seq(PacketType), Send(packets)
    PROVE  judge' \in {"up", "exit0", "exit1"} /\ TypeLog'
<1> USE DEF TypeLog
<1>1. judge \in {"up", "exit0", "exit1"}  BY DEF TypeJudge
<1>2. CASE closed  BY <1>1, <1>2 DEF Send
<1>3. CASE ~closed /\ current \in Submissions
  <2>1. log' = [log EXCEPT ![current] = log[current] \o packets]  BY <1>3 DEF Send
  <2>2. log[current] \o packets \in Seq(PacketType)  BY <1>3, ConcatProperties
  <2> QED  BY <1>1, <1>3, <2>1, <2>2 DEF Send
<1>4. CASE ~closed /\ current \notin Submissions
  BY <1>1, <1>4 DEF Send
<1> QED  BY <1>2, <1>3, <1>4

LEMMA PacketTyped ==
    ASSUME NEW n \in PacketNames PROVE Packet(n) \in PacketType
BY DEF Packet, NoCase, PacketType, CaseType

LEMMA SendPacketType ==
    ASSUME TypeJudge, TypeLog, NEW n \in PacketNames, SendPacket(n)
    PROVE  judge' \in {"up", "exit0", "exit1"} /\ TypeLog'
<1>1. <<Packet(n)>> \in Seq(PacketType)  BY PacketTyped
<1> QED  BY <1>1, SendType DEF SendPacket

\* The cases of the queue as packets.
LEMMA StatusType ==
    ASSUME NEW q \in Seq(CaseType)
    PROVE  /\ Status(q) \in Seq(PacketType) /\ Len(Status(q)) = Len(q)
           /\ Len(q) \in Nat /\ DOMAIN q = 1..Len(q)
           /\ \A i \in 1..Len(q) : Status(q)[i] = [name |-> "test-case-status", case |-> q[i]]
<1>1. Len(q) \in Nat /\ DOMAIN q = 1..Len(q)  BY LenProperties
<1>2. \A i \in 1..Len(q) :
        [name |-> "test-case-status", case |-> q[i]] \in PacketType
  BY ElementOfSeq DEF PacketType, PacketNames
<1>3. Status(q) = [i \in 1..Len(q) |-> [name |-> "test-case-status", case |-> q[i]]]
  BY <1>1 DEF Status
<1>4. Status(q) \in [1..Len(q) -> PacketType]  BY <1>2, <1>3
<1> QED  BY <1>1, <1>3, <1>4

LEMMA FlushType ==
    ASSUME TypeJudge, TypeLog, Flush
    PROVE  judge' \in {"up", "exit0", "exit1"} /\ queue' \in Seq(CaseType) /\ TypeLog'
<1>1. CASE queue = <<>>  BY <1>1 DEF Flush, NoSend, TypeJudge, TypeLog
<1>2. CASE queue # <<>>
  <2>1. Status(queue) \in Seq(PacketType)  BY StatusType DEF TypeJudge
  <2>2. Send(Status(queue)) /\ queue' = <<>>  BY <1>2 DEF Flush
  <2>3. queue' \in Seq(CaseType)  BY <2>2
  <2> QED  BY <2>1, <2>2, <2>3, SendType
<1> QED  BY <1>1, <1>2

\* What a dying worker leaves behind is well typed.
LEMMA GoneType ==
    ASSUME TypeWorker, TypePipe, NEW s, Gone(s)
    PROVE  TypeWorker' /\ TypePipe'
<1>1. Len(Plan) \in Nat  BY PlanAssumption, LenProperties
<1>2. 1 \in 1..Len(Plan) + 1  BY <1>1
<1>3. step' \in [Submissions -> 1..Len(Plan) + 1]  BY <1>2 DEF TypeWorker, Gone
<1>4. TypePipe'  BY EmptySeq DEF TypePipe, Gone
<1> QED  BY <1>3, <1>4 DEF TypeWorker, Gone, MainPcs, RecvPcs

LEMMA WaitType ==
    ASSUME TypeWorker, TypePipe, NEW s, WaitWithTimeout(s)
    PROVE  TypeWorker' /\ TypePipe'
<1>1. CASE UNCHANGED <<workerVars, pipeVars>>
  BY <1>1 DEF TypeWorker, TypePipe, workerVars, pipeVars
<1>2. CASE Gone(s)  BY <1>2, GoneType
<1> QED  BY <1>1, <1>2 DEF WaitWithTimeout

\* The network thread's steps.
LEMMA TypeNetworkThread ==
    ASSUME TypeOK, NetworkThread PROVE TypeOK'
<1> USE DEF TypeOK
<1>f. UNCHANGED <<threadVars, workerVars>> => TypeThread' /\ TypeWorker'
  BY DEF TypeThread, TypeWorker, threadVars, workerVars
<1>g. UNCHANGED <<pipeVars, log>> => TypePipe' /\ TypeLog'
  BY DEF TypePipe, TypeLog, pipeVars
<1>h. ASSUME NEW next \in {"read", "murder", "close"}, AbortGrading(next)
      PROVE  TypeNet' /\ TypePipe'
  <2>1. TypePipe'
    <3> DEFINE Sent == current # None
                       /\ down' = [down EXCEPT ![current] = Append(@, "REQUEST_ABORT")]
    <3>1. up' = up  BY <1>h DEF AbortGrading
    <3>2. UNCHANGED down \/ Sent  BY <1>h DEF AbortGrading
    <3>3. CASE UNCHANGED down  BY <3>1, <3>3 DEF TypePipe
    <3>4. CASE Sent
      <4>1. current \in Submissions  BY <3>4 DEF TypeJudge
      <4>2. Append(down[current], "REQUEST_ABORT") \in Seq(DownTypes)
        BY <4>1, AppendProperties DEF TypePipe, DownTypes
      <4> QED  BY <3>1, <3>4, <4>1, <4>2 DEF TypePipe
    <3> QED  BY <3>2, <3>3, <3>4
  <2>2. TypeNet'  BY <1>h DEF AbortGrading, TypeNet, TypeJudge, NetPcs
  <2> QED  BY <2>1, <2>2
<1>1. ASSUME NEW s \in Submissions, Request(s) PROVE TypeOK'
  <2>1. TypeLog'
    <3>1. Packet("submission-acknowledged") \in PacketType
      BY PacketTyped DEF PacketNames
    <3>2. <<Packet("submission-acknowledged")>> \in Seq(PacketType)  BY <3>1
    <3> QED  BY <1>1, <3>2 DEF Request, TypeLog
  <2>2. TypeNet' /\ TypeJudge' /\ TypePipe'
    BY <1>1, NoneAssumption DEF Request, TypeNet, TypeJudge, TypePipe, NetPcs, judgeVars, pipeVars
  <2> QED  BY <1>1, <1>f, <2>1, <2>2 DEF Request
<1>2. CASE AcquireLock
  BY <1>2, <1>f, <1>g DEF AcquireLock, TypeNet, TypeJudge, NetPcs
<1>3. CASE StartGrading
  <2>1. TypeJudge' /\ TypeNet' /\ TypePipe' /\ TypeLog'
    BY <1>3, <1>g DEF StartGrading, AssignWorker, TypeJudge, TypeNet, NetPcs
  <2>2. TypeThread' /\ TypeWorker'
    BY <1>3 DEF StartGrading, TypeThread, TypeWorker, GtPcs, MainPcs
  <2> QED  BY <2>1, <2>2
<1>4. CASE AwaitReady
  BY <1>4, <1>f, <1>g DEF AwaitReady, TypeNet, TypeJudge, NetPcs, judgeVars
<1>5. CASE Terminate
  BY <1>5, <1>f, <1>h DEF Terminate, TypeJudge, TypeLog, judgeVars
<1>6. CASE Disconnect
  BY <1>6, <1>f, <1>h DEF Disconnect, TypeJudge, TypeLog
<1>7. CASE Murder
  BY <1>7, <1>f, <1>h DEF Murder, TypeJudge, TypeLog, judgeVars
<1>8. CASE Exit
  BY <1>8, <1>f, <1>g DEF Exit, TypeJudge, TypeNet, netVars
<1>11. CASE Interrupt
  <2>1. TypeWorker' /\ TypePipe'
    BY <1>11, GoneType DEF Interrupt, TypeWorker, TypePipe, workerVars, pipeVars
  <2>2. TypeJudge' /\ TypeNet' /\ TypeThread' /\ TypeLog'
    BY <1>11 DEF Interrupt, TypeJudge, TypeNet, TypeThread, TypeLog, NetPcs, judgeVars, threadVars
  <2> QED  BY <2>1, <2>2
<1>12. CASE CloseConnection
  BY <1>12, <1>f, <1>g DEF CloseConnection, TypeJudge, TypeNet, NetPcs
<1>9. CASE NetJoin
  <2>1. TypeWorker' /\ TypePipe'  BY <1>9, WaitType DEF NetJoin, TypeNet
  <2>2. TypeJudge' /\ TypeNet' /\ TypeThread' /\ TypeLog'
    BY <1>9 DEF NetJoin, TypeJudge, TypeNet, TypeThread, TypeLog, NetPcs, judgeVars, threadVars
  <2> QED  BY <2>1, <2>2
<1>10. CASE Query
  BY <1>10, <1>f, <1>g DEF Query, TypeJudge, TypeNet, netVars
<1> QED
  BY <1>1, <1>2, <1>3, <1>4, <1>5, <1>6, <1>7, <1>8, <1>9, <1>10, <1>11, <1>12
  DEF NetworkThread

\* A received message is well typed, and so is what stays in the pipe.
LEMMA ReceiveType ==
    ASSUME TypePipe, NEW s \in Submissions, NEW T, Receive(s, T)
    PROVE  /\ Head(up[s]) \in MessageType
           /\ up' \in [Submissions -> Seq(MessageType)]
<1>1. up[s] \in Seq(MessageType) /\ up[s] # <<>>  BY DEF TypePipe, Receive
<1>2. Head(up[s]) \in MessageType /\ Tail(up[s]) \in Seq(MessageType)
  BY <1>1, HeadTailProperties
<1> QED  BY <1>2 DEF TypePipe, Receive

\* The steps of a grading thread.
LEMMA TypeGradingThread ==
    ASSUME TypeOK, NEW s \in Submissions, GradingThread(s) PROVE TypeOK'
<1> USE DEF TypeOK
<1>f. UNCHANGED <<netVars, workerVars>> => TypeNet' /\ TypeWorker'
  BY DEF TypeNet, TypeWorker, netVars, workerVars
<1>g. UNCHANGED <<pipeVars, log>> => TypePipe' /\ TypeLog'
  BY DEF TypePipe, TypeLog, pipeVars
<1>h. UNCHANGED threadVars => TypeThread'  BY DEF TypeThread, threadVars
<1>i. UNCHANGED judgeVars => TypeJudge'  BY DEF TypeJudge, judgeVars
<1>r. ASSUME NEW T, Receive(s, T), UNCHANGED down
      PROVE  TypeNet' /\ TypeWorker' /\ TypePipe' /\ Head(up[s]) \in MessageType
  BY <1>f, <1>r, ReceiveType DEF Receive, TypePipe
<1>1. CASE ReceiveHello(s)
  BY <1>1, <1>r DEF ReceiveHello, Receive, TypeJudge, TypeThread, TypeLog
<1>2. CASE ReceiveResult(s)
  <2>1. Head(up[s]).case \in CaseType  BY <1>2, <1>r DEF ReceiveResult, MessageType
  <2>2. Append(queue, Head(up[s]).case) \in Seq(CaseType)
    BY <2>1, AppendProperties DEF TypeJudge
  <2>3. TypeJudge'  BY <1>2, <2>2 DEF ReceiveResult, Receive, TypeJudge
  <2>4. TypeThread' /\ TypeLog'  BY <1>2, <1>h DEF ReceiveResult, TypeLog
  <2> QED  BY <1>2, <1>r, <2>3, <2>4 DEF ReceiveResult
<1>3. CASE ReceiveDirect(s)
  <2>1. PacketOf[Head(up[s]).type] \in PacketNames
    BY <1>3 DEF ReceiveDirect, Receive, DirectTypes, PacketOf, PacketNames, Terminals
  <2>3. SendPacket(PacketOf[Head(up[s]).type])  BY <1>3 DEF ReceiveDirect
  <2>4. judge' \in {"up", "exit0", "exit1"} /\ TypeLog'  BY <2>1, <2>3, SendPacketType
  <2>5. TypeJudge'  BY <1>3, <2>4 DEF ReceiveDirect, Receive, TypeJudge
  <2>6. TypeThread'  BY <1>3, <1>h DEF ReceiveDirect
  <2> QED  BY <1>3, <1>r, <2>4, <2>5, <2>6 DEF ReceiveDirect
<1>4. CASE ReceiveFlushing(s)
  <2>1. Head(up[s]).type \in FlushTypes  BY <1>4 DEF ReceiveFlushing, Receive
  <2>2. TypeThread'
    BY <1>4, <2>1 DEF ReceiveFlushing, TypeThread, GtPcs, FlushTypes, UpTypes
  <2>3. TypeJudge' /\ TypeLog'  BY <1>4 DEF ReceiveFlushing, Receive, TypeJudge, TypeLog
  <2> QED  BY <1>4, <1>r, <2>2, <2>3 DEF ReceiveFlushing
<1>5. CASE ReceiveUnhandled(s)
  <2>1. TypeThread'  BY <1>5 DEF ReceiveUnhandled, TypeThread, GtPcs
  <2>2. TypeJudge' /\ TypeLog'  BY <1>5 DEF ReceiveUnhandled, Receive, TypeJudge, TypeLog
  <2> QED  BY <1>5, <1>r, <2>1, <2>2 DEF ReceiveUnhandled
<1>6. CASE ReceiveBye(s)
  <2>1. TypeThread'  BY <1>6 DEF ReceiveBye, TypeThread, GtPcs
  <2>2. TypeJudge' /\ TypeLog'  BY <1>6 DEF ReceiveBye, Receive, TypeJudge, TypeLog
  <2>3. TypeNet' /\ TypeWorker'  BY <1>6, <1>f DEF ReceiveBye, Receive
  <2>4. Append(down[s], "BYE") \in Seq(DownTypes)
    BY AppendProperties DEF TypePipe, DownTypes
  <2>5. down' \in [Submissions -> Seq(DownTypes)]
    BY <1>6, <2>4 DEF ReceiveBye, TypePipe
  <2>6. up' \in [Submissions -> Seq(MessageType)]  BY <1>6, ReceiveType DEF ReceiveBye
  <2> QED  BY <2>1, <2>2, <2>3, <2>5, <2>6 DEF TypePipe
<1>7. CASE ReceiveEof(s)
  BY <1>7, <1>f, <1>g, <1>i DEF ReceiveEof, TypeThread, GtPcs
<1>8. CASE ReceiveTimeout(s)
  <2>1. TypeWorker' /\ TypePipe'  BY <1>8, GoneType DEF ReceiveTimeout
  <2>2. TypeNet' /\ TypeLog'  BY <1>8 DEF ReceiveTimeout, TypeNet, TypeLog, netVars
  <2> QED  BY <1>8, <1>i, <2>1, <2>2 DEF ReceiveTimeout, TypeThread, GtPcs
<1>9. CASE FlushFirst(s)
  <2>1. TypeNet' /\ TypeWorker' /\ TypePipe'
    BY <1>9, <1>f DEF FlushFirst, TypePipe, pipeVars
  <2>2. TypeThread'  BY <1>9 DEF FlushFirst, TypeThread, GtPcs
  <2>3. Flush  BY <1>9 DEF FlushFirst, FlushBefore
  <2>4. judge' \in {"up", "exit0", "exit1"} /\ queue' \in Seq(CaseType) /\ TypeLog'
    BY <2>3, FlushType
  <2>5. TypeJudge'  BY <1>9, <2>4 DEF FlushFirst, TypeJudge
  <2> QED  BY <2>1, <2>2, <2>4, <2>5
<1>10. CASE ThenSend(s)
  <2>1. TypeNet' /\ TypeWorker' /\ TypePipe'
    BY <1>10, <1>f DEF ThenSend, TypePipe, pipeVars
  <2>2. TypeThread'  BY <1>10 DEF ThenSend, TypeThread, GtPcs
  <2>3. PacketOf[msg[s]] \in PacketNames
    BY <1>10 DEF ThenSend, TypeThread, FlushTypes, PacketOf, PacketNames, Terminals
  <2>4. SendPacket(PacketOf[msg[s]])  BY <1>10 DEF ThenSend
  <2>5. judge' \in {"up", "exit0", "exit1"} /\ TypeLog'  BY <2>3, <2>4, SendPacketType
  <2>6. TypeJudge'  BY <1>10, <2>5 DEF ThenSend, TypeJudge
  <2> QED  BY <2>1, <2>2, <2>5, <2>6
<1>11. CASE ReportError(s)
  <2>1. TypeNet' /\ TypeWorker' /\ TypePipe'
    BY <1>11, <1>f DEF ReportError, TypePipe, pipeVars
  <2>2. TypeThread'
    BY <1>11 DEF ReportError, TypeThread, GtPcs
  <2>3. Flush  BY <1>11 DEF ReportError, FlushOnError
  <2>4. judge' \in {"up", "exit0", "exit1"} /\ queue' \in Seq(CaseType) /\ TypeLog'
    BY <2>3, FlushType
  <2>5. TypeJudge'  BY <1>11, <2>4 DEF ReportError, TypeJudge
  <2> QED  BY <2>1, <2>2, <2>4, <2>5
<1>12. CASE ReportSend(s)
  <2>1. TypeNet' /\ TypeWorker' /\ TypePipe'
    BY <1>12, <1>f DEF ReportSend, TypePipe, pipeVars
  <2>2. TypeThread'  BY <1>12 DEF ReportSend, TypeThread, GtPcs
  <2>3. "internal-error" \in PacketNames  BY DEF PacketNames, Terminals
  <2>4. judge' \in {"up", "exit0", "exit1"} /\ TypeLog'
    BY <1>12, <2>3, SendPacketType DEF ReportSend
  <2>5. TypeJudge'  BY <1>12, <2>4 DEF ReportSend, TypeJudge
  <2> QED  BY <2>1, <2>2, <2>4, <2>5
<1>13. CASE Join(s)
  <2>1. TypeWorker' /\ TypePipe'  BY <1>13, WaitType DEF Join
  <2>2. TypeNet' /\ TypeLog'  BY <1>13 DEF Join, TypeNet, TypeLog, netVars
  <2> QED  BY <1>13, <1>i, <2>1, <2>2 DEF Join, TypeThread, GtPcs
<1>14. CASE Clear(s)
  BY <1>14, <1>f, <1>g DEF Clear, TypeJudge, TypeThread, GtPcs
<1>15. CASE Release(s)
  <2>1. TypeThread'  BY <1>15 DEF Release, SignalReady, TypeThread, GtPcs, UpTypes
  <2> QED  BY <1>15, <1>f, <2>1 DEF Release, TypeJudge, TypePipe, TypeLog, pipeVars
<1> QED
  BY <1>1, <1>2, <1>3, <1>4, <1>5, <1>6, <1>7, <1>8, <1>9, <1>10, <1>11, <1>12,
     <1>13, <1>14, <1>15 DEF GradingThread

\* The steps of the flush thread.
LEMMA TypePeriodicFlush ==
    ASSUME TypeOK, PeriodicFlush PROVE TypeOK'
<1> USE DEF TypeOK
<1>1. judge' \in {"up", "exit0", "exit1"} /\ queue' \in Seq(CaseType) /\ TypeLog'
  <2>1. CASE NoSend  BY <2>1 DEF NoSend, TypeJudge, TypeLog
  <2> QED  BY <2>1, FlushType DEF PeriodicFlush
<1>2. TypeJudge'  BY <1>1 DEF PeriodicFlush, TypeJudge
<1>3. TypeNet' /\ TypeThread'
  BY DEF PeriodicFlush, TypeNet, TypeThread, netVars, threadVars
<1>4. TypeWorker' /\ TypePipe'
  BY DEF PeriodicFlush, TypeWorker, TypePipe, workerVars, pipeVars
<1> QED  BY <1>1, <1>2, <1>3, <1>4

\* The worker's messages.
LEMMA MessageTyped ==
    ASSUME NEW t \in UpTypes PROVE Message(t) \in MessageType
BY DEF Message, NoCase, MessageType, CaseType

LEMMA ResultTyped ==
    ASSUME TypeWorker, NEW s \in Submissions, NEW c \in BOOLEAN
    PROVE  Result(s, c) \in MessageType
<1>1. step[s] \in Nat  BY PlanAssumption, LenProperties DEF TypeWorker
<1>2. CaseNumber(step[s]) \in Nat  BY <1>1, CaseNumberType
<1> QED  BY <1>2 DEF Result, MessageType, CaseType, UpTypes

LEMMA YieldType ==
    ASSUME TypeWorker, TypePipe, NEW s \in Submissions, NEW m \in MessageType,
           NEW next \in MainPcs, Yield(s, m, next)
    PROVE  /\ main' \in [Submissions -> MainPcs]
           /\ up' \in [Submissions -> Seq(MessageType)]
           /\ main'[s] \in {next, "finally"}
           /\ \A t \in Submissions \ {s} : main'[t] = main[t]
<1>1. Append(up[s], m) \in Seq(MessageType)  BY AppendProperties DEF TypePipe
<1>2. up' \in [Submissions -> Seq(MessageType)]  BY <1>1 DEF Yield, TypePipe
<1> QED  BY <1>2 DEF Yield, TypeWorker, MainPcs

\* The steps of a worker's threads.
LEMMA TypeWorkerStep ==
    ASSUME TypeOK, NEW s \in Submissions, Worker(s) PROVE TypeOK'
<1> USE DEF TypeOK
<1>f. TypeJudge' /\ TypeNet' /\ TypeThread' /\ TypeLog'
  BY DEF Worker, WorkerFrame, TypeJudge, TypeNet, TypeThread, TypeLog,
         judgeVars, netVars, threadVars
<1>n. Len(Plan) \in Nat  BY PlanAssumption, LenProperties
\* A step that only says something on the way to a place without conditions.
<1>y. ASSUME NEW m \in MessageType, NEW next \in MainPcs \ {"running", "check"},
             Yield(s, m, next), UNCHANGED <<step, recv, abort, cut, down>>
      PROVE  TypeWorker' /\ TypePipe'
  BY <1>y, YieldType DEF TypeWorker, TypePipe
\* ... and a step that also advances.
<1>a. ASSUME NEW m \in MessageType, Yield(s, m, "grade"), step[s] <= Len(Plan), Advance(s),
             UNCHANGED <<recv, abort, cut, down>>
      PROVE  TypeWorker' /\ TypePipe'
  <2>1. step' \in [Submissions -> 1..Len(Plan) + 1]
    BY <1>a, <1>n DEF Advance, TypeWorker
  <2>2. /\ main' \in [Submissions -> MainPcs]
        /\ up' \in [Submissions -> Seq(MessageType)]
        /\ main'[s] \in {"grade", "finally"}
        /\ \A t \in Submissions \ {s} : main'[t] = main[t]
    BY <1>a, YieldType DEF MainPcs
  <2>3. \A t \in Submissions : main'[t] \in {"running", "check"} => step'[t] <= Len(Plan)
    BY <1>a, <2>2 DEF Advance, TypeWorker
  <2> QED  BY <1>a, <2>1, <2>2, <2>3 DEF TypeWorker, TypePipe
<1>1. CASE Hello(s)
  <2>1. Message("HELLO") \in MessageType  BY MessageTyped DEF UpTypes
  <2>2. /\ main' \in [Submissions -> MainPcs]
        /\ up' \in [Submissions -> Seq(MessageType)]
        /\ main'[s] \in {"compile", "finally"}
        /\ \A t \in Submissions \ {s} : main'[t] = main[t]
    BY <1>1, <2>1, YieldType DEF Hello, MainPcs
  <2>3. TypeWorker' /\ TypePipe'
    BY <1>1, <2>2 DEF Hello, TypeWorker, TypePipe, RecvPcs
  <2> QED  BY <1>f, <2>3
<1>2. CASE Compile(s)
  <2>1. CASE Yield(s, Message("COMPILE_ERROR"), "bye")
    BY <1>2, <1>f, <1>y, <2>1, MessageTyped DEF Compile, UpTypes, MainPcs
  <2>2. CASE Yield(s, Message("COMPILE_MESSAGE"), "begin")
    BY <1>2, <1>f, <1>y, <2>2, MessageTyped DEF Compile, UpTypes, MainPcs
  <2>3. CASE main' = [main EXCEPT ![s] = "begin"] /\ UNCHANGED up
    BY <1>2, <1>f, <2>3 DEF Compile, TypeWorker, TypePipe, MainPcs
  <2> QED  BY <1>2, <2>1, <2>2, <2>3 DEF Compile
<1>3. CASE Begin(s)
  BY <1>3, <1>f, <1>y, MessageTyped DEF Begin, UpTypes, MainPcs
<1>4. CASE Batch(s)
  <2>1. Plan[step[s]] \in {"BATCH_BEGIN", "BATCH_END"}
    BY <1>4, PlanAssumption, ElementOfSeq DEF Batch, TypeWorker
  <2>2. Message(Plan[step[s]]) \in MessageType  BY <2>1, MessageTyped DEF UpTypes
  <2> QED  BY <1>4, <1>f, <1>a, <2>2 DEF Batch
<1>5. CASE GradingEnd(s)
  BY <1>5, <1>f, <1>y, MessageTyped DEF GradingEnd, UpTypes, MainPcs
<1>6. CASE ShortCircuit(s)
  BY <1>6, <1>f, <1>a, ResultTyped DEF ShortCircuit
<1>7. CASE Launch(s)
  BY <1>7, <1>f DEF Launch, TypeWorker, TypePipe, MainPcs, pipeVars
<1>8. CASE Graded(s)
  BY <1>8, <1>f DEF Graded, TypeWorker, TypePipe, MainPcs, pipeVars
<1>9. CASE CheckAbort(s)
  <2>1. CASE AbortSeen(s)
    BY <1>9, <1>f, <1>y, <2>1, MessageTyped DEF CheckAbort, UpTypes, MainPcs, AfterAborted
  <2>2. CASE ~AbortSeen(s)
    <3>1. Result(s, cut[s]) \in MessageType  BY ResultTyped DEF TypeWorker
    <3> QED  BY <1>9, <1>f, <1>a, <2>2, <3>1 DEF CheckAbort, TypeWorker
  <2> QED  BY <2>1, <2>2
<1>10. CASE Raise(s)
  BY <1>10, <1>f, <1>y, MessageTyped DEF Raise, UpTypes, MainPcs
<1>11. CASE Bye(s)
  BY <1>11, <1>f, <1>y, MessageTyped DEF Bye, UpTypes, MainPcs
<1>12. CASE Finally(s)
  BY <1>12, <1>f, GoneType DEF Finally
<1>13. CASE WorkerReceive(s)
  <2>1. down[s] # <<>> => Tail(down[s]) \in Seq(DownTypes)
    BY HeadTailProperties DEF TypePipe
  <2>2. down' \in [Submissions -> Seq(DownTypes)]
    BY <1>13, <2>1 DEF WorkerReceive, TypePipe
  <2>3. TypeWorker'  BY <1>13 DEF WorkerReceive, TypeWorker, RecvPcs
  <2> QED  BY <1>13, <1>f, <2>2, <2>3 DEF WorkerReceive, TypePipe
<1>14. CASE WorkerAbort(s)
  BY <1>14, <1>f DEF WorkerAbort, TypeWorker, TypePipe, RecvPcs, pipeVars
<1>15. CASE WorkerDies(s)
  BY <1>15, <1>f, GoneType DEF WorkerDies
<1> QED
  BY <1>1, <1>2, <1>3, <1>4, <1>5, <1>6, <1>7, <1>8, <1>9, <1>10, <1>11, <1>12,
     <1>13, <1>14, <1>15 DEF Worker, WorkerMain

LEMMA TypeInit == Init => TypeOK
<1>1. 1 \in 1..Len(Plan) + 1  BY PlanAssumption, LenProperties
<1>2. <<>> \in Seq(CaseType) /\ <<>> \in Seq(MessageType) /\ <<>> \in Seq(DownTypes)
      /\ <<>> \in Seq(PacketType)
  BY EmptySeq
<1>3. Init => TypeJudge  BY <1>2 DEF Init, TypeJudge
<1>4. Init => TypeNet  BY DEF Init, TypeNet, NetPcs
<1>5. Init => TypeThread  BY DEF Init, TypeThread, GtPcs, UpTypes
<1>6. Init => TypeWorker  BY <1>1 DEF Init, TypeWorker, MainPcs, RecvPcs
<1>7. Init => TypePipe /\ TypeLog  BY <1>2 DEF Init, TypePipe, TypeLog
<1> QED  BY <1>3, <1>4, <1>5, <1>6, <1>7 DEF TypeOK

LEMMA TypeStep == TypeOK /\ [Next]_vars => TypeOK'
<1> SUFFICES ASSUME TypeOK, [Next]_vars PROVE TypeOK'  OBVIOUS
<1>1. CASE NetworkThread  BY <1>1, TypeNetworkThread
<1>2. ASSUME NEW s \in Submissions, GradingThread(s) PROVE TypeOK'
  BY <1>2, TypeGradingThread
<1>3. ASSUME NEW s \in Submissions, Worker(s) PROVE TypeOK'
  BY <1>3, TypeWorkerStep
<1>4. CASE PeriodicFlush  BY <1>4, TypePeriodicFlush
<1>5. CASE UNCHANGED vars
  <2>1. UNCHANGED <<judgeVars, netVars, threadVars, workerVars, pipeVars, log>>
    BY <1>5 DEF vars
  <2>2. TypeJudge' /\ TypeNet' /\ TypeThread'
    BY <2>1 DEF TypeOK, TypeJudge, TypeNet, TypeThread, judgeVars, netVars, threadVars
  <2>3. TypeWorker' /\ TypePipe' /\ TypeLog'
    BY <2>1 DEF TypeOK, TypeWorker, TypePipe, TypeLog, workerVars, pipeVars
  <2> QED  BY <2>2, <2>3 DEF TypeOK
<1> QED  BY <1>1, <1>2, <1>3, <1>4, <1>5 DEF Next

\* In every reachable state, for every plan, any number of submissions and any
\* faults, the state of the judge is well typed: no thread ever handles a message
\* or a state the code has no case for.
THEOREM TypeCorrect == Spec => []TypeOK
BY TypeInit, TypeStep, PTL DEF Spec
-----------------------------------------------------------------------------
(***************************************************************************)
(* One submission at a time: the grading lock, current_judge_worker and    *)
(* the life of the worker processes, for every set of submissions, every   *)
(* plan and any faults.                                                    *)
(*                                                                         *)
(* Handover is inductive given the types.  Each lemma below takes the      *)
(* steps of one thread; a step that touches none of the variables Handover *)
(* reads is covered by HandoverFrame.                                      *)
(***************************************************************************)
\* The worker processes that live in the next state lived before.
NoNewWorker == \A s \in Submissions : Alive(s)' => Alive(s)

\* A step that changes nothing Handover reads, except that workers may end.
LEMMA HandoverFrame ==
    ASSUME Handover, UNCHANGED <<lock, current, netPc, netSub, after, gt, ready>>, NoNewWorker
    PROVE  Handover'
BY DEF Handover, OneGrading, Active, NoNewWorker, ShuttingDown

LEMMA GoneIsDead ==
    ASSUME TypeWorker, NEW s \in Submissions, Gone(s)
    PROVE  ~Alive(s)' /\ NoNewWorker
BY DEF Gone, Alive, NoNewWorker, TypeWorker

LEMMA WaitIsDead ==
    ASSUME TypeWorker, NEW s \in Submissions, WaitWithTimeout(s)
    PROVE  ~Alive(s)' /\ NoNewWorker
BY GoneIsDead DEF WaitWithTimeout, Alive, NoNewWorker, workerVars

LEMMA HandoverInit == Init => Handover
BY NoneAssumption DEF Init, Handover, OneGrading, Active, Alive

LEMMA HandoverNetwork ==
    ASSUME TypeOK, Handover, NetworkThread PROVE Handover'
<1> USE DEF TypeOK
<1>w. UNCHANGED workerVars => NoNewWorker  BY DEF NoNewWorker, Alive, workerVars
<1>h. ASSUME NEW next \in {"read", "murder", "close"}, netPc \in {"read", "murder"},
             netPc = "murder" => next = "close",
             AbortGrading(next), UNCHANGED <<lock, current, queue, threadVars, workerVars>>
      PROVE  Handover'
  <2>1. /\ netPc' \in {"read", "murder", "close", "join"} /\ netSub' = netSub
        /\ netPc = "murder" => ShuttingDown'
        /\ netPc = "read" => ~ShuttingDown
    BY <1>h DEF AbortGrading, ShuttingDown
  <2>2. UNCHANGED <<lock, current, gt, ready, main>>
    BY <1>h DEF threadVars, workerVars
  <2> QED  BY <1>h, <2>1, <2>2 DEF Handover, OneGrading, Active, Alive
<1>1. ASSUME NEW s \in Submissions, Request(s) PROVE Handover'
  <2>1. netPc = "read" /\ gt[s] = "off" /\ netPc' = "acquire" /\ netSub' = s
    BY <1>1 DEF Request
  <2>2. UNCHANGED <<lock, current, gt, ready, main>>
    BY <1>1 DEF Request, judgeVars, threadVars, workerVars
  <2> QED  BY <2>1, <2>2 DEF Handover, OneGrading, Active, Alive, ShuttingDown
<1>2. CASE AcquireLock
  <2>1. netPc = "acquire" /\ ~lock /\ lock' /\ netPc' = "start"
    BY <1>2 DEF AcquireLock, LockFree
  <2>2. UNCHANGED <<current, netSub, gt, ready, main>>
    BY <1>2 DEF AcquireLock, threadVars, workerVars
  <2> QED  BY <2>1, <2>2 DEF Handover, OneGrading, Active, Alive
<1>3. CASE StartGrading
  <2>1. netPc = "start" /\ Active = {} /\ lock /\ netSub \in Submissions
    BY <1>3 DEF StartGrading, Handover, TypeNet
  <2>2. current = None  BY <2>1 DEF Handover, Active, TypeJudge
  <2>3. /\ current' = netSub /\ netPc' = "ready"
        /\ main' = [main EXCEPT ![netSub] = "hello"]
        /\ gt' = [gt EXCEPT ![netSub] = "recv"]
        /\ UNCHANGED <<lock, netSub, ready>>
    BY <1>3, <2>2 DEF StartGrading, AssignWorker
  <2>4. \A s \in Submissions : gt[s] \in {"off", "done"}  BY <2>1 DEF Active
  <2>5. /\ gt'[netSub] = "recv"
        /\ \A s \in Submissions \ {netSub} : gt'[s] = gt[s] /\ (Alive(s)' <=> Alive(s))
    BY <2>1, <2>3 DEF TypeThread, TypeWorker, Alive
  <2>6. Active' = {netSub}  BY <2>1, <2>4, <2>5 DEF Active
  <2> QED  BY <2>1, <2>3, <2>4, <2>5, <2>6 DEF Handover, OneGrading
<1>4. CASE AwaitReady
  <2>1. netPc = "ready" /\ ready[netSub] /\ netPc' = "read"
    BY <1>4 DEF AwaitReady, HandshakeDone
  <2>2. UNCHANGED <<lock, current, netSub, gt, ready, main>>
    BY <1>4 DEF AwaitReady, judgeVars, threadVars, workerVars
  <2> QED  BY <2>1, <2>2 DEF Handover, OneGrading, Active, Alive
<1>5. CASE Terminate  BY <1>5, <1>h DEF Terminate, judgeVars
<1>6. CASE Disconnect  BY <1>6, <1>h DEF Disconnect
<1>7. CASE Murder  BY <1>7, <1>h DEF Murder, judgeVars
<1>8. CASE Exit
  BY <1>8, <1>w, HandoverFrame DEF Exit, netVars, threadVars
<1>11. CASE Interrupt
  <2>1. NoNewWorker
    <3>1. CASE netPc = "join" /\ Alive(target)
      <4>1. target \in Submissions  BY <3>1 DEF TypeNet
      <4> QED  BY <1>11, <3>1, <4>1, GoneIsDead DEF Interrupt
    <3> QED  BY <1>11, <1>w, <3>1 DEF Interrupt
  <2>2. netPc \in {"read", "acquire", "ready", "join"} /\ netPc' = "murder" /\ ~ShuttingDown
    BY <1>11 DEF Interrupt, ShuttingDown
  <2>3. UNCHANGED <<lock, current, netSub, gt, ready>>
    BY <1>11 DEF Interrupt, judgeVars, threadVars
  <2> QED
    BY <2>1, <2>2, <2>3 DEF Handover, OneGrading, Active, NoNewWorker, ShuttingDown
<1>12. CASE CloseConnection
  <2>1. netPc = "close" /\ netPc' = "exit"  BY <1>12 DEF CloseConnection
  <2>2. UNCHANGED <<lock, current, netSub, gt, ready, main>>
    BY <1>12 DEF CloseConnection, threadVars, workerVars
  <2> QED  BY <2>1, <2>2 DEF Handover, OneGrading, Active, Alive, ShuttingDown
<1>9. CASE NetJoin
  <2>1. target \in Submissions \/ target = None  BY DEF TypeNet
  <2>2. target \in Submissions  BY <1>9, <2>1 DEF NetJoin, TypeNet
  <2>3. NoNewWorker  BY <1>9, <2>2, WaitIsDead DEF NetJoin
  <2>4. /\ netPc = "join" /\ netPc' \in {"read", "murder", "close"}
        /\ ShuttingDown => ShuttingDown'
    BY <1>9 DEF NetJoin, TypeNet, ShuttingDown
  <2>5. UNCHANGED <<lock, current, netSub, gt, ready>>
    BY <1>9 DEF NetJoin, judgeVars, threadVars
  <2> QED  BY <2>3, <2>4, <2>5 DEF Handover, OneGrading, Active, NoNewWorker
<1>10. CASE Query
  BY <1>10, <1>w, HandoverFrame DEF Query, netVars, threadVars
<1> QED
  BY <1>1, <1>2, <1>3, <1>4, <1>5, <1>6, <1>7, <1>8, <1>9, <1>10, <1>11, <1>12
  DEF NetworkThread

\* A grading thread on its way from its first message to its join.
Grading == GtPcs \ {"off", "clear", "release", "done"}

LEMMA HandoverMove ==
    ASSUME TypeOK, Handover, NEW s \in Submissions, gt[s] \in Grading,
           NEW x \in Grading \cup {"clear"}, gt' = [gt EXCEPT ![s] = x],
           UNCHANGED <<lock, current, netPc, netSub, after>>,
           \A t \in Submissions : ready[t] => ready'[t],
           NoNewWorker, x = "clear" => ~Alive(s)'
    PROVE  Handover'
<1>1. gt'[s] = x /\ \A t \in Submissions \ {s} : gt'[t] = gt[t]
  BY DEF TypeOK, TypeThread
<1>2. Active' = Active  BY <1>1 DEF Active, Grading, GtPcs
<1>3. \A t \in Submissions : Alive(t)' => gt'[t] \notin {"off", "clear", "release", "done"}
  BY <1>1 DEF Handover, NoNewWorker, Grading, GtPcs
<1>4. s \in Active  BY DEF Active, Grading
<1>5. netPc \notin {"acquire", "start"} \/ netSub # s  BY <1>4 DEF Handover, Active
<1>6. ShuttingDown' <=> ShuttingDown  BY DEF ShuttingDown
<1> QED  BY <1>1, <1>2, <1>3, <1>5, <1>6 DEF Handover, OneGrading, Grading

LEMMA HandoverGrading ==
    ASSUME TypeOK, Handover, NEW s \in Submissions, GradingThread(s) PROVE Handover'
<1> USE DEF TypeOK
<1>w. UNCHANGED workerVars => NoNewWorker  BY DEF NoNewWorker, Alive, workerVars
<1>t. gt \in [Submissions -> GtPcs] /\ ready \in [Submissions -> BOOLEAN]  BY DEF TypeThread
<1>r. ASSUME NEW T, Receive(s, T)
      PROVE  gt[s] = "recv" /\ NoNewWorker /\ UNCHANGED <<lock, current, netPc, netSub, after>>
  BY <1>r, <1>w DEF Receive, netVars
<1>g. {"recv", "flush", "send", "report", "report-send", "error", "error-send", "join"}
      \subseteq Grading
  BY DEF Grading, GtPcs
<1>1. CASE ReceiveHello(s)
  <2>1. \A t \in Submissions : ready[t] => ready'[t]  BY <1>1, <1>t DEF ReceiveHello
  <2>2. gt' = [gt EXCEPT ![s] = "recv"]  BY <1>1, <1>r, <1>t DEF ReceiveHello
  <2> QED  BY <1>1, <1>r, <1>g, <2>1, <2>2, HandoverMove DEF ReceiveHello
<1>2. CASE ReceiveResult(s)
  BY <1>2, <1>r, HandoverFrame DEF ReceiveResult, threadVars
<1>3. CASE ReceiveDirect(s)
  BY <1>3, <1>r, HandoverFrame DEF ReceiveDirect, threadVars
<1>4. CASE ReceiveFlushing(s)
  BY <1>4, <1>r, <1>g, HandoverMove DEF ReceiveFlushing
<1>5. CASE ReceiveUnhandled(s)
  BY <1>5, <1>r, <1>g, HandoverMove DEF ReceiveUnhandled
<1>6. CASE ReceiveBye(s)
  BY <1>6, <1>r, <1>g, HandoverMove DEF ReceiveBye
<1>7. CASE ReceiveEof(s)
  BY <1>7, <1>w, <1>g, HandoverMove DEF ReceiveEof, judgeVars, netVars
<1>8. CASE ReceiveTimeout(s)
  <2>1. NoNewWorker  BY <1>8, GoneIsDead DEF ReceiveTimeout
  <2> QED  BY <1>8, <2>1, <1>g, HandoverMove DEF ReceiveTimeout, judgeVars, netVars
<1>9. CASE FlushFirst(s)
  BY <1>9, <1>w, <1>g, HandoverMove DEF FlushFirst, netVars
<1>10. CASE ThenSend(s)
  BY <1>10, <1>w, <1>g, HandoverMove DEF ThenSend, netVars
<1>11. CASE ReportError(s)
  <2>1. PICK x \in Grading : gt' = [gt EXCEPT ![s] = x]  BY <1>11, <1>g DEF ReportError
  <2> QED  BY <1>11, <1>w, <1>g, <2>1, HandoverMove DEF ReportError, netVars
<1>12. CASE ReportSend(s)
  <2>1. PICK x \in Grading : gt' = [gt EXCEPT ![s] = x]  BY <1>12, <1>g DEF ReportSend
  <2> QED  BY <1>12, <1>w, <1>g, <2>1, HandoverMove DEF ReportSend, netVars
<1>13. CASE Join(s)
  <2>1. current = s  BY <1>13 DEF Join, Handover
  <2>2. ~Alive(s)' /\ NoNewWorker  BY <1>13, <2>1, WaitIsDead DEF Join
  <2> QED  BY <1>13, <1>g, <2>2, HandoverMove DEF Join, judgeVars, netVars
<1>14. CASE Clear(s)
  <2>1. current = s /\ s \in Active  BY <1>14 DEF Clear, Handover, Active
  <2>2. \A t \in Submissions : Alive(t)' <=> Alive(t)
    BY <1>14 DEF Clear, Alive, workerVars
  <2>3. /\ gt'[s] = "release"
        /\ \A t \in Submissions \ {s} : gt'[t] = gt[t]
        /\ UNCHANGED <<lock, netPc, netSub, after, ready>>
        /\ current' = None
    BY <1>14, <1>t DEF Clear, netVars
  <2>4. ~Alive(s)  BY <1>14 DEF Clear, Handover
  <2>5. Active' = Active  BY <2>1, <2>3 DEF Active
  <2>6. \A t \in Submissions \ {s} : gt[t] \in {"off", "done"}
    BY <2>1 DEF Handover, OneGrading, Active
  <2>7. netPc \in {"acquire", "start"} => netSub \in Submissions \ {s}
    BY <2>1 DEF Handover, Active, TypeNet
  <2> QED
    BY <2>1, <2>2, <2>3, <2>4, <2>5, <2>6, <2>7, NoneAssumption
    DEF Handover, OneGrading, ShuttingDown
<1>15. CASE Release(s)
  <2>1. s \in Active /\ current # s /\ ~Alive(s)
    BY <1>15 DEF Release, Handover, Active
  <2>2. \A t \in Submissions : Alive(t)' <=> Alive(t)
    BY <1>15 DEF Release, Alive, workerVars
  <2>3. /\ gt'[s] = "done"
        /\ \A t \in Submissions \ {s} : gt'[t] = gt[t]
        /\ UNCHANGED <<current, netPc, netSub>>
        /\ lock' = FALSE
    BY <1>15, <1>t DEF Release, netVars
  <2>4. \A t \in Submissions \ {s} : gt[t] \in {"off", "done"}
    BY <2>1 DEF Handover, OneGrading, Active
  <2>5. Active' = {}  BY <2>3, <2>4 DEF Active
  <2>6. netPc # "start" /\ (netPc = "acquire" => netSub \in Submissions \ {s})
    BY <2>1 DEF Handover, Active, TypeNet
  <2>7. \A t \in Submissions : current # t  BY <2>1, <2>4 DEF Handover
  <2> QED  BY <2>1, <2>2, <2>3, <2>4, <2>5, <2>6, <2>7 DEF Handover, OneGrading
<1> QED
  BY <1>1, <1>2, <1>3, <1>4, <1>5, <1>6, <1>7, <1>8, <1>9, <1>10, <1>11, <1>12,
     <1>13, <1>14, <1>15 DEF GradingThread

\* A worker only ends its own process.
LEMMA HandoverWorker ==
    ASSUME TypeOK, Handover, NEW s \in Submissions, Worker(s) PROVE Handover'
<1> USE DEF TypeOK
<1>1. UNCHANGED <<lock, current, netPc, netSub, after, gt, ready>>
  BY DEF Worker, WorkerFrame, judgeVars, netVars, threadVars
<1>2. Alive(s)
  BY DEF Worker, WorkerMain, Hello, Compile, Begin, Batch, GradingEnd, ShortCircuit, Launch,
         Graded, CheckAbort, Raise, Bye, Finally, WorkerReceive, WorkerAbort, WorkerDies, Alive
<1>3. \A t \in Submissions \ {s} : main'[t] = main[t]
  BY DEF Worker, WorkerMain, Hello, Compile, Begin, Batch, GradingEnd, ShortCircuit, Launch,
         Graded, CheckAbort, Raise, Bye, Finally, WorkerReceive, WorkerAbort, WorkerDies,
         Yield, Gone, TypeWorker
<1>4. NoNewWorker  BY <1>2, <1>3 DEF NoNewWorker, Alive
<1> QED  BY <1>1, <1>4, HandoverFrame

LEMMA HandoverStep == TypeOK /\ Handover /\ [Next]_vars => Handover'
<1> SUFFICES ASSUME TypeOK, Handover, [Next]_vars PROVE Handover'  OBVIOUS
<1>1. CASE NetworkThread  BY <1>1, HandoverNetwork
<1>2. ASSUME NEW s \in Submissions, GradingThread(s) PROVE Handover'
  BY <1>2, HandoverGrading
<1>3. ASSUME NEW s \in Submissions, Worker(s) PROVE Handover'
  BY <1>3, HandoverWorker
<1>4. CASE PeriodicFlush
  BY <1>4, HandoverFrame
  DEF PeriodicFlush, NoNewWorker, Alive, netVars, threadVars, workerVars
<1>5. CASE UNCHANGED vars
  BY <1>5, HandoverFrame
  DEF vars, NoNewWorker, Alive, judgeVars, netVars, threadVars, workerVars
<1> QED  BY <1>1, <1>2, <1>3, <1>4, <1>5 DEF Next

-----------------------------------------------------------------------------
\* The lock, the current worker, the worker processes and the network thread
\* are always in one of the combinations begin_grading and _grading_thread_main
\* were written for.
THEOREM HandoverCorrect == Spec => []Handover
BY TypeCorrect, HandoverInit, HandoverStep, PTL DEF Spec

\* At most one submission is graded at a time.
THEOREM OneGradingCorrect == Spec => []OneGrading
<1>1. Handover => OneGrading  BY DEF Handover
<1> QED  BY <1>1, HandoverCorrect, PTL

\* The assertion in begin_grading never fails.
THEOREM HandoverCleanCorrect == Spec => []HandoverClean
<1>1. TypeOK /\ Handover => HandoverClean
  BY DEF TypeOK, TypeJudge, Handover, HandoverClean, Active
<1> QED  BY <1>1, TypeCorrect, HandoverCorrect, PTL

\* A grading thread that reads current_judge_worker finds its own worker there.
THEOREM GradesItsOwnCorrect == Spec => []GradesItsOwn
<1>1. Handover => GradesItsOwn  BY DEF Handover, GradesItsOwn, Active
<1> QED  BY <1>1, HandoverCorrect, PTL

\* Two worker processes never run at once.
THEOREM OneWorkerCorrect == Spec => []OneWorker
<1>1. Handover => OneWorker  BY DEF Handover, OneGrading, Active, OneWorker
<1> QED  BY <1>1, HandoverCorrect, PTL

\* The judge only exits by itself after its connection was closed, or when asked
\* for a submission it does not have.
THEOREM ExitExplainedCorrect == Spec => []ExitExplained
<1>1. Init => ExitExplained  BY DEF Init, ExitExplained
<1>2. TypeOK /\ Handover /\ ExitExplained /\ [Next]_vars => ExitExplained'
  <2> SUFFICES ASSUME TypeOK, Handover, ExitExplained, [Next]_vars PROVE ExitExplained'
    OBVIOUS
  <2>c. ASSUME closed' = closed, judge' = judge PROVE ExitExplained'
    BY <2>c DEF ExitExplained
  <2>u. ASSUME NEW packets, closed' = closed, Send(packets) PROVE ExitExplained'
    BY <2>u DEF Send, ExitExplained
  <2>s. ASSUME NEW n, closed' = closed, SendPacket(n) PROVE ExitExplained'
    BY <2>s, <2>u DEF SendPacket
  <2>f. ASSUME closed' = closed, Flush \/ NoSend PROVE ExitExplained'
    BY <2>f, <2>u, <2>c DEF Flush, NoSend
  <2>1. CASE NetworkThread
    <3>1. ASSUME NEW s \in Submissions, Request(s) PROVE ExitExplained'
      BY <3>1, <2>c DEF Request, judgeVars
    <3>2. CASE StartGrading
      <4>1. current = None  BY <3>2 DEF StartGrading, Handover, Active, TypeOK, TypeJudge
      <4> QED  BY <3>2, <4>1, <2>c DEF StartGrading
    <3>3. CASE AcquireLock \/ AwaitReady \/ Terminate \/ Interrupt \/ Murder \/ NetJoin
      BY <3>3, <2>c DEF AcquireLock, AwaitReady, Terminate, Interrupt, Murder, NetJoin, judgeVars
    <3>4. CASE Disconnect \/ CloseConnection
      BY <3>4 DEF Disconnect, CloseConnection, ExitExplained
    <3>5. CASE Exit  BY <3>5 DEF Exit, ExitExplained
    <3>6. CASE Query  BY <3>6 DEF Query, ExitExplained
    <3> QED  BY <2>1, <3>1, <3>2, <3>3, <3>4, <3>5, <3>6 DEF NetworkThread
  <2>2. ASSUME NEW s \in Submissions, GradingThread(s) PROVE ExitExplained'
    <3>1. CASE ReceiveDirect(s)
      BY <3>1, <2>s DEF ReceiveDirect, Receive
    <3>2. CASE FlushFirst(s)  BY <3>2, <2>f DEF FlushFirst, FlushBefore
    <3>3. CASE ThenSend(s)  BY <3>3, <2>s DEF ThenSend
    <3>4. CASE ReportError(s)  BY <3>4, <2>f DEF ReportError, FlushOnError
    <3>5. CASE ReportSend(s)  BY <3>5, <2>s DEF ReportSend
    <3>6. CASE ReceiveHello(s) \/ ReceiveResult(s) \/ ReceiveFlushing(s)
               \/ ReceiveUnhandled(s) \/ ReceiveBye(s)
      BY <3>6, <2>c DEF ReceiveHello, ReceiveResult, ReceiveFlushing, ReceiveUnhandled,
                        ReceiveBye, Receive
    <3>7. CASE ReceiveEof(s) \/ ReceiveTimeout(s) \/ Join(s) \/ Clear(s) \/ Release(s)
      BY <3>7, <2>c DEF ReceiveEof, ReceiveTimeout, Join, Clear, Release, judgeVars
    <3> QED
      BY <2>2, <3>1, <3>2, <3>3, <3>4, <3>5, <3>6, <3>7 DEF GradingThread
  <2>3. ASSUME NEW s \in Submissions, Worker(s) PROVE ExitExplained'
    BY <2>3, <2>c DEF Worker, WorkerFrame, judgeVars
  <2>4. CASE PeriodicFlush  BY <2>4, <2>f DEF PeriodicFlush
  <2>5. CASE UNCHANGED vars  BY <2>5, <2>c DEF vars, judgeVars
  <2> QED  BY <2>1, <2>2, <2>3, <2>4, <2>5 DEF Next
<1> QED  BY <1>1, <1>2, TypeCorrect, HandoverCorrect, PTL DEF Spec

-----------------------------------------------------------------------------
Asked(q) == \E i \in DOMAIN q : q[i] = "REQUEST_ABORT"

LEMMA AskedAppend ==
    ASSUME NEW q \in Seq(DownTypes), NEW x \in DownTypes, Asked(Append(q, x))
    PROVE  Asked(q) \/ x = "REQUEST_ABORT"
<1>1. PICK i \in DOMAIN Append(q, x) : Append(q, x)[i] = "REQUEST_ABORT"  BY DEF Asked
<1>2. i \in 1..Len(q) + 1  BY <1>1, AppendProperties, LenProperties
<1>3. CASE i = Len(q) + 1  BY <1>1, <1>3, AppendProperties
<1>4. CASE i \in 1..Len(q)
  BY <1>1, <1>4, AppendProperties, LenProperties DEF Asked
<1> QED  BY <1>2, <1>3, <1>4, LenProperties

LEMMA AskedTail ==
    ASSUME NEW q \in Seq(DownTypes), q # <<>>, Asked(Tail(q)) PROVE Asked(q)
<1>1. PICK i \in DOMAIN Tail(q) : Tail(q)[i] = "REQUEST_ABORT"  BY DEF Asked
<1>2. i \in 1..Len(q) - 1 /\ Tail(q)[i] = q[i + 1]
  BY <1>1, HeadTailProperties, LenProperties
<1>3. i + 1 \in DOMAIN q  BY <1>2, LenProperties
<1> QED  BY <1>1, <1>2, <1>3 DEF Asked

\* Whatever the site sends, a worker's receiver never finds an abort request before the
\* judge received its HELLO; only a SIGINT can put one there, and then for the submission
\* the judge was starting (begin_grading, judge.py:141-152, and murder, :665-679).
THEOREM AbortAfterHandshakeCorrect == Spec => []AbortAfterHandshake
<1>1. Init => AbortAfterHandshake
  BY DEF Init, AbortAfterHandshake
<1>2. TypeOK /\ Handover /\ AbortAfterHandshake /\ [Next]_vars => AbortAfterHandshake'
  <2> SUFFICES ASSUME TypeOK, Handover, AbortAfterHandshake, [Next]_vars
               PROVE  AbortAfterHandshake'
    OBVIOUS
  <2> DEFINE Late(t) == ready[t] \/ (ShuttingDown /\ netSub = t)
  <2>a. \A t \in Submissions : Asked(down[t]) => Late(t)
    BY DEF AbortAfterHandshake, Asked
  <2>b. ASSUME \A t \in Submissions : Asked(down'[t]) => Late(t)'
        PROVE  AbortAfterHandshake'
    BY <2>b DEF AbortAfterHandshake, Asked
  \* What is late enough stays so: the judge that goes down takes no other submission.
  <2>n. ASSUME UNCHANGED netVars, NEW t \in Submissions, ready[t] => ready'[t], Late(t)
        PROVE  Late(t)'
    BY <2>n DEF netVars, ShuttingDown
  <2>o. ASSUME NetworkThread, NEW t \in Submissions, Late(t) PROVE Late(t)'
    <3>1. ready' = ready
      BY <2>o DEF NetworkThread, Request, AcquireLock, StartGrading, AwaitReady, Terminate,
                  Disconnect, Interrupt, Murder, CloseConnection, Exit, NetJoin, Query, threadVars
    <3>2. ShuttingDown => ShuttingDown' /\ netSub' = netSub
      BY <2>o DEF NetworkThread, Request, AcquireLock, StartGrading, AwaitReady, Terminate,
                  Disconnect, Interrupt, Murder, CloseConnection, Exit, NetJoin, Query,
                  AbortGrading, netVars, ShuttingDown
    <3> QED  BY <2>o, <3>1, <3>2
  <2>t. down \in [Submissions -> Seq(DownTypes)] /\ ready \in [Submissions -> BOOLEAN]
    BY DEF TypeOK, TypePipe, TypeThread
  <2> DEFINE Kept == NetworkThread \/ (UNCHANGED netVars /\ ready' = ready)
  <2>k. ASSUME Kept, NEW t \in Submissions, Late(t) PROVE Late(t)'
    <3>1. CASE NetworkThread  BY <2>k, <2>o, <3>1
    <3>2. CASE UNCHANGED netVars /\ ready' = ready
      <4>1. ready[t] => ready'[t]  BY <3>2
      <4> QED  BY <2>k, <2>n, <3>2, <4>1
    <3> QED  BY <2>k, <3>1, <3>2
  <2>c. ASSUME down' = down, Kept PROVE AbortAfterHandshake'
    <3>1. \A t \in Submissions : Asked(down'[t]) => Late(t)'  BY <2>a, <2>c, <2>k
    <3> QED  BY <2>b, <3>1
  <2>g. ASSUME NEW w, Gone(w), Kept PROVE AbortAfterHandshake'
    <3>1. ~Asked(<<>>)  BY DEF Asked
    <3>2. \A t \in Submissions : Asked(down'[t]) => Asked(down[t])
      BY <2>g, <2>t, <3>1 DEF Gone
    <3>3. \A t \in Submissions : Asked(down'[t]) => Late(t)'  BY <2>a, <2>g, <2>k, <3>2
    <3> QED  BY <2>b, <3>3
  <2>w. ASSUME NEW w, WaitWithTimeout(w), Kept PROVE AbortAfterHandshake'
    BY <2>w, <2>c, <2>g DEF WaitWithTimeout, pipeVars
  <2>h. ASSUME NEW next, netPc = "read" \/ (netPc = "murder" /\ next = "close"),
               AbortGrading(next), NetworkThread, ready' = ready
        PROVE  AbortAfterHandshake'
    <3>1. CASE down' = down  BY <2>c, <2>h, <3>1
    <3>2. CASE current # None /\ down' = [down EXCEPT ![current] = Append(@, "REQUEST_ABORT")]
      <4>1. PICK c \in Submissions : c = current  BY <3>2 DEF TypeOK, TypeJudge
      <4>2. Late(c)
        <5>1. c \in Active  BY <4>1 DEF Handover, Active
        <5>2. ready[c] \/ (netSub = c /\ (netPc = "ready" \/ ShuttingDown))
          BY <5>1 DEF Handover
        <5>3. netPc = "read" => ~ShuttingDown  BY DEF ShuttingDown
        <5> QED  BY <2>h, <5>2, <5>3
      <4>3. \A t \in Submissions \ {c} : down'[t] = down[t]  BY <2>t, <3>2, <4>1
      <4>4. \A t \in Submissions : Asked(down'[t]) => Late(t)  BY <2>a, <4>2, <4>3
      <4>5. \A t \in Submissions : Asked(down'[t]) => Late(t)'  BY <2>h, <2>o, <4>4
      <4> QED  BY <2>b, <4>5
    <3> QED  BY <2>h, <3>1, <3>2 DEF AbortGrading
  <2>1. CASE NetworkThread
    <3>1. ASSUME NEW s \in Submissions, Request(s) PROVE AbortAfterHandshake'
      BY <2>1, <3>1, <2>c DEF Request, pipeVars
    <3>2. CASE AcquireLock \/ StartGrading \/ AwaitReady \/ CloseConnection \/ Exit \/ Query
      BY <2>1, <3>2, <2>c DEF AcquireLock, StartGrading, AwaitReady, CloseConnection, Exit, Query,
                              pipeVars
    <3>3. CASE Terminate \/ Disconnect \/ Murder
      BY <2>1, <3>3, <2>h DEF Terminate, Disconnect, Murder, threadVars
    <3>4. CASE NetJoin  BY <2>1, <3>4, <2>w DEF NetJoin
    <3>5. CASE Interrupt  BY <2>1, <3>5, <2>c, <2>g DEF Interrupt, pipeVars
    <3> QED  BY <2>1, <3>1, <3>2, <3>3, <3>4, <3>5 DEF NetworkThread
  <2>2. ASSUME NEW s \in Submissions, GradingThread(s) PROVE AbortAfterHandshake'
    <3>n. UNCHANGED netVars
      BY <2>2 DEF GradingThread, ReceiveHello, ReceiveResult, ReceiveDirect, ReceiveFlushing,
                  ReceiveUnhandled, ReceiveBye, Receive, ReceiveEof, ReceiveTimeout, FlushFirst,
                  ThenSend, ReportError, ReportSend, Join, Clear, Release
    <3>1. CASE ReceiveHello(s) \/ Release(s)
      <4>1. down' = down /\ ready' = [ready EXCEPT ![s] = TRUE]
        BY <3>1 DEF ReceiveHello, Release, SignalReady, pipeVars
      <4>2. \A t \in Submissions : ready[t] => ready'[t]  BY <2>t, <4>1
      <4>3. \A t \in Submissions : Asked(down'[t]) => Late(t)'
        BY <2>a, <2>n, <3>n, <4>1, <4>2
      <4> QED  BY <2>b, <4>3
    <3>2. CASE ReceiveBye(s)
      <4>1. CASE down' = down  BY <2>c, <3>n, <3>2, <4>1 DEF ReceiveBye
      <4>2. CASE down' = [down EXCEPT ![s] = Append(@, "BYE")]
        <5>1. Asked(Append(down[s], "BYE")) => Asked(down[s])
          BY <2>t, AskedAppend DEF DownTypes
        <5>2. Kept  BY <3>n, <3>2 DEF ReceiveBye
        <5>3. \A t \in Submissions : Asked(down'[t]) => Asked(down[t])
          BY <2>t, <4>2, <5>1
        <5>4. \A t \in Submissions : Asked(down'[t]) => Late(t)'  BY <2>a, <2>k, <5>2, <5>3
        <5> QED  BY <2>b, <5>4
      <4> QED  BY <3>2, <4>1, <4>2 DEF ReceiveBye
    <3>3. CASE ReceiveTimeout(s)  BY <3>n, <3>3, <2>g DEF ReceiveTimeout
    <3>4. CASE Join(s)  BY <3>n, <3>4, <2>w DEF Join
    <3>5. CASE ReceiveResult(s) \/ ReceiveDirect(s) \/ ReceiveFlushing(s) \/ ReceiveUnhandled(s)
      BY <3>n, <3>5, <2>c DEF ReceiveResult, ReceiveDirect, ReceiveFlushing, ReceiveUnhandled, threadVars
    <3>6. CASE ReceiveEof(s) \/ FlushFirst(s) \/ ThenSend(s) \/ ReportError(s)
               \/ ReportSend(s) \/ Clear(s)
      BY <3>n, <3>6, <2>c
      DEF ReceiveEof, FlushFirst, ThenSend, ReportError, ReportSend, Clear, pipeVars
    <3> QED  BY <2>2, <3>1, <3>2, <3>3, <3>4, <3>5, <3>6 DEF GradingThread
  <2>3. ASSUME NEW s \in Submissions, Worker(s) PROVE AbortAfterHandshake'
    <3>1. Kept  BY <2>3 DEF Worker, WorkerFrame, threadVars
    <3>2. CASE down' = down  BY <2>c, <3>1, <3>2
    <3>3. CASE Gone(s)  BY <2>g, <3>1, <3>3
    <3>4. CASE down[s] # <<>> /\ down' = [down EXCEPT ![s] = Tail(@)]
      <4>1. Asked(Tail(down[s])) => Asked(down[s])  BY <2>t, <3>4, AskedTail
      <4>2. \A t \in Submissions : Asked(down'[t]) => Asked(down[t])
        BY <2>t, <3>4, <4>1
      <4>3. \A t \in Submissions : Asked(down'[t]) => Late(t)'  BY <2>a, <2>k, <3>1, <4>2
      <4> QED  BY <2>b, <4>3
    <3>5. CASE WorkerMain(s)
      BY <3>2, <3>3, <3>5
      DEF WorkerMain, Hello, Compile, Begin, Batch, GradingEnd, ShortCircuit, Launch, Graded,
          CheckAbort, Raise, Bye, Finally, pipeVars
    <3>6. CASE WorkerReceive(s)  BY <3>2, <3>4, <3>6 DEF WorkerReceive
    <3>7. CASE WorkerAbort(s) \/ WorkerDies(s)
      BY <3>2, <3>3, <3>7 DEF WorkerAbort, WorkerDies, pipeVars
    <3> QED  BY <2>3, <3>5, <3>6, <3>7 DEF Worker
  <2>4. CASE PeriodicFlush  BY <2>4, <2>c DEF PeriodicFlush, threadVars, pipeVars
  <2>5. CASE UNCHANGED vars  BY <2>5, <2>c DEF vars, threadVars, pipeVars
  <2> QED  BY <2>1, <2>2, <2>3, <2>4, <2>5 DEF Next
<1> QED  BY <1>1, <1>2, TypeCorrect, HandoverCorrect, PTL DEF Spec

-----------------------------------------------------------------------------
(***************************************************************************)
(* What reaches the site: every case under the submission that was graded, *)
(* none whose process an abort killed, and none left in the queue when     *)
(* nothing is being graded.                                                *)
(*                                                                         *)
(* Delivery is inductive given Handover.  Its heart is FlusherFollows: the *)
(* queue is empty when a grading thread meets BYE because the worker's     *)
(* last message before BYE is one whose handler flushes, or there was no   *)
(* case at all.                                                            *)
(***************************************************************************)
\* A case submission s may hear of.
Proper(s, case) == case.sub = s /\ ~case.cut

\* The messages whose handler empties the queue.
Flusher(m) == m.type \in FlushTypes \cup {"UNHANDLED_EXCEPTION"}

\* The worker has nothing but BYE left to send, or has sent it.
Ending(s) == main[s] = "bye" \/ \E i \in DOMAIN up[s] : up[s][i].type = "BYE"

\* The worker that killed its test process knows of the abort.
AbortKnown ==
    \A s \in Submissions : cut[s] \/ recv[s] \in {"abort", "hangup"} => abort[s]

PipeProper ==
    \A s \in Submissions : \A i \in DOMAIN up[s] :
        /\ up[s][i].type = "RESULT" => Proper(s, up[s][i].case)
        /\ up[s][i].type = "BYE" => i = Len(up[s]) /\ main[s] \in {"finally", "exited"}

\* No case comes before the worker grades.
NothingEarly ==
    \A s \in Submissions :
        /\ gt[s] = "off" => up[s] = <<>>
        /\ main[s] \in {"hello", "compile"} =>
             /\ \A i \in DOMAIN up[s] : up[s][i].type # "RESULT"
             /\ current = s => queue = <<>>

FlusherFollows ==
    \A s \in Submissions : Ending(s) =>
        /\ \A i \in DOMAIN up[s] : up[s][i].type = "RESULT" =>
             \E k \in DOMAIN up[s] : k > i /\ Flusher(up[s][k])
        /\ queue # <<>> /\ gt[s] = "recv" => \E k \in DOMAIN up[s] : Flusher(up[s][k])

QueueProper ==
    queue # <<>> =>
        /\ current # None /\ gt[current] \in {"recv", "flush", "report", "error"}
        /\ \A k \in DOMAIN queue : Proper(current, queue[k])

Delivery == AbortKnown /\ PipeProper /\ NothingEarly /\ FlusherFollows /\ QueueProper

\* A worker whose process ends, or moves on among the states Delivery does not tell
\* apart.
Harmless(s) ==
    main'[s] = main[s] \/ main'[s] = "exited"

LEMMA GoneHarmless ==
    ASSUME TypeWorker, AbortKnown, NEW s \in Submissions, Gone(s)
    PROVE  AbortKnown' /\ \A t \in Submissions : Harmless(t)
BY DEF Gone, Harmless, AbortKnown, TypeWorker

LEMMA WaitHarmless ==
    ASSUME TypeWorker, AbortKnown, NEW s \in Submissions, WaitWithTimeout(s)
    PROVE  AbortKnown' /\ (\A t \in Submissions : Harmless(t)) /\ up' = up
<1>1. CASE UNCHANGED <<workerVars, pipeVars>>
  BY <1>1 DEF Harmless, AbortKnown, workerVars, pipeVars
<1>2. CASE Gone(s)  BY <1>2, GoneHarmless DEF Gone
<1> QED  BY <1>1, <1>2 DEF WaitWithTimeout

\* Steps that leave the queue and the pipes to the judge alone.
LEMMA DeliveryFrame ==
    ASSUME Delivery, AbortKnown', UNCHANGED <<queue, current, up>>,
           \A t \in Submissions : Harmless(t),
           \A t \in Submissions : \/ gt'[t] = gt[t]
                                  \/ gt[t] = "recv" /\ gt'[t] \in {"flush", "report", "error"},
           queue # <<>> => current \in Submissions
    PROVE  Delivery'
<1>1. PipeProper'  BY DEF Delivery, PipeProper, Harmless
<1>2. NothingEarly'  BY DEF Delivery, NothingEarly, Harmless
<1>3. FlusherFollows'  BY DEF Delivery, FlusherFollows, Ending, Harmless
<1>4. QueueProper'  BY DEF Delivery, QueueProper
<1> QED  BY <1>1, <1>2, <1>3, <1>4 DEF Delivery

\* Steps after which the queue is empty.
LEMMA DeliveryDrained ==
    ASSUME Delivery, AbortKnown', queue' = <<>>, up' = up,
           \A t \in Submissions : Harmless(t),
           \A t \in Submissions : gt'[t] = "off" => gt[t] = "off"
    PROVE  Delivery'
<1>1. PipeProper'  BY DEF Delivery, PipeProper, Harmless
<1>2. NothingEarly'  BY DEF Delivery, NothingEarly, Harmless
<1>3. FlusherFollows'  BY DEF Delivery, FlusherFollows, Ending, Harmless
<1>4. QueueProper'  BY DEF QueueProper
<1> QED  BY <1>1, <1>2, <1>3, <1>4 DEF Delivery

LEMMA AppendElements ==
    ASSUME NEW S, NEW q \in Seq(S), NEW x \in S
    PROVE  /\ DOMAIN Append(q, x) = 1..Len(q) + 1 /\ DOMAIN q = 1..Len(q) /\ Len(q) \in Nat
           /\ Len(Append(q, x)) = Len(q) + 1
           /\ Append(q, x)[Len(q) + 1] = x
           /\ \A i \in 1..Len(q) : Append(q, x)[i] = q[i]
BY AppendProperties, LenProperties

LEMMA TailElements ==
    ASSUME NEW S, NEW q \in Seq(S), q # <<>>
    PROVE  /\ DOMAIN Tail(q) = 1..Len(q) - 1 /\ DOMAIN q = 1..Len(q)
           /\ Len(q) \in Nat \ {0} /\ Len(Tail(q)) = Len(q) - 1
           /\ Head(q) = q[1]
           /\ \A i \in 1..Len(q) - 1 : Tail(q)[i] = q[i + 1]
BY HeadTailProperties, LenProperties, EmptySeq

\* What taking a message off the pipe keeps, whatever the thread does with it.
LEMMA ReceiveKeeps ==
    ASSUME TypeOK, Handover, Delivery, NEW s \in Submissions, NEW T, Receive(s, T)
    PROVE  /\ AbortKnown' /\ PipeProper'
           /\ current = s /\ main' = main
           /\ \A t \in Submissions \ {s} : up'[t] = up[t]
           /\ \A i \in DOMAIN up'[s] : i + 1 \in DOMAIN up[s] /\ up'[s][i] = up[s][i + 1]
           /\ \A k \in DOMAIN up[s] : k > 1 => k - 1 \in DOMAIN up'[s] /\ up'[s][k - 1] = up[s][k]
           /\ 1 \in DOMAIN up[s] /\ Head(up[s]) = up[s][1]
           /\ DOMAIN up[s] \subseteq Nat \ {0} /\ DOMAIN up'[s] \subseteq Nat \ {0}
<1>1. /\ up[s] \in Seq(MessageType) /\ up[s] # <<>> /\ gt[s] = "recv"
      /\ up' = [up EXCEPT ![s] = Tail(@)] /\ UNCHANGED workerVars
      /\ up \in [Submissions -> Seq(MessageType)]
  BY DEF Receive, TypeOK, TypePipe
<1>2. up'[s] = Tail(up[s]) /\ \A t \in Submissions \ {s} : up'[t] = up[t]  BY <1>1
<1>3. current = s  BY <1>1 DEF Handover
<1>4. AbortKnown' /\ main' = main  BY <1>1 DEF Delivery, AbortKnown, workerVars
<1>5. /\ \A i \in DOMAIN up'[s] : i + 1 \in DOMAIN up[s] /\ up'[s][i] = up[s][i + 1]
      /\ \A k \in DOMAIN up[s] : k > 1 => k - 1 \in DOMAIN up'[s] /\ up'[s][k - 1] = up[s][k]
      /\ 1 \in DOMAIN up[s] /\ Head(up[s]) = up[s][1]
      /\ DOMAIN up[s] \subseteq Nat \ {0} /\ DOMAIN up'[s] \subseteq Nat \ {0}
      /\ Len(up'[s]) = Len(up[s]) - 1 /\ Len(up[s]) \in Nat
  BY <1>1, <1>2, TailElements
<1>6. PipeProper'
  <2> SUFFICES ASSUME NEW t \in Submissions, NEW i \in DOMAIN up'[t]
               PROVE  /\ up'[t][i].type = "RESULT" => Proper(t, up'[t][i].case)
                      /\ up'[t][i].type = "BYE" =>
                           i = Len(up'[t]) /\ main'[t] \in {"finally", "exited"}
    BY DEF PipeProper
  <2>1. CASE t = s  BY <1>4, <1>5, <2>1 DEF Delivery, PipeProper
  <2>2. CASE t # s  BY <1>2, <1>4, <2>2 DEF Delivery, PipeProper
  <2> QED  BY <2>1, <2>2
<1> QED  BY <1>2, <1>3, <1>4, <1>5, <1>6

LEMMA DeliveryReceive ==
    ASSUME TypeOK, Handover, Delivery, NEW s \in Submissions,
           \/ ReceiveHello(s) \/ ReceiveResult(s) \/ ReceiveDirect(s) \/ ReceiveFlushing(s)
           \/ ReceiveUnhandled(s) \/ ReceiveBye(s)
    PROVE  Delivery'
<1> DEFINE type == up[s][1].type
<1>r. PICK T : Receive(s, T)
  BY DEF ReceiveHello, ReceiveResult, ReceiveDirect, ReceiveFlushing, ReceiveUnhandled, ReceiveBye
<1>1. /\ AbortKnown' /\ PipeProper'
      /\ current = s /\ main' = main
      /\ \A t \in Submissions \ {s} : up'[t] = up[t]
      /\ \A i \in DOMAIN up'[s] : i + 1 \in DOMAIN up[s] /\ up'[s][i] = up[s][i + 1]
      /\ \A k \in DOMAIN up[s] : k > 1 => k - 1 \in DOMAIN up'[s] /\ up'[s][k - 1] = up[s][k]
      /\ 1 \in DOMAIN up[s] /\ Head(up[s]) = up[s][1]
      /\ DOMAIN up[s] \subseteq Nat \ {0} /\ DOMAIN up'[s] \subseteq Nat \ {0}
  BY <1>r, ReceiveKeeps
<1>2. /\ up[s] # <<>> /\ gt[s] = "recv" /\ current' = current
      /\ gt \in [Submissions -> GtPcs]
      /\ queue \in Seq(CaseType)
  BY <1>r DEF Receive, TypeOK, TypeThread, TypeJudge
<1>e. \A t \in Submissions : Ending(t)' => Ending(t)
  BY <1>1 DEF Ending
\* What is left in the pipe when it holds a flushing message behind a case.
<1>f. Ending(s)' => \A i \in DOMAIN up'[s] : up'[s][i].type = "RESULT" =>
                      \E k \in DOMAIN up'[s] : k > i /\ Flusher(up'[s][k])
  <2> SUFFICES ASSUME Ending(s)', NEW i \in DOMAIN up'[s], up'[s][i].type = "RESULT"
               PROVE  \E k \in DOMAIN up'[s] : k > i /\ Flusher(up'[s][k])
    OBVIOUS
  <2>1. i + 1 \in DOMAIN up[s] /\ up[s][i + 1].type = "RESULT"  BY <1>1
  <2>2. PICK k \in DOMAIN up[s] : k > i + 1 /\ Flusher(up[s][k])
    BY <1>e, <2>1 DEF Delivery, FlusherFollows
  <2>3. k - 1 \in DOMAIN up'[s] /\ k - 1 > i /\ Flusher(up'[s][k - 1])  BY <1>1, <2>2
  <2> QED  BY <2>3
<1>g. ASSUME gt' = gt \/ (\E x \in {"flush", "report", "error", "join"} : gt' = [gt EXCEPT ![s] = x])
      PROVE  /\ \A t \in Submissions \ {s} : gt'[t] = gt[t]
             /\ gt'[s] \in {"recv", "flush", "report", "error", "join"}
             /\ gt'[s] = "recv" => gt' = gt
  BY <1>2, <1>g
<1>h. CASE gt' = gt /\ queue' = queue /\ type \in DirectTypes \cup {"HELLO"}
  <2>1. NothingEarly'  BY <1>1, <1>2, <1>h DEF Delivery, NothingEarly
  <2>2. FlusherFollows'
    <3>1. ASSUME Ending(s)', queue # <<>>
          PROVE  \E k \in DOMAIN up'[s] : Flusher(up'[s][k])
      <4>1. PICK k \in DOMAIN up[s] : Flusher(up[s][k])
        BY <1>2, <1>e, <3>1 DEF Delivery, FlusherFollows
      <4>2. k > 1  BY <1>1, <1>h, <4>1 DEF Flusher, FlushTypes, DirectTypes
      <4> QED  BY <1>1, <4>1, <4>2
    <3>2. ASSUME NEW t \in Submissions \ {s} PROVE queue = <<>> \/ gt[t] # "recv"
      BY <1>1, <1>2 DEF Handover
    <3> QED  BY <1>1, <1>2, <1>e, <1>f, <1>h, <3>1, <3>2 DEF Delivery, FlusherFollows
  <2>3. QueueProper'  BY <1>1, <1>2, <1>h DEF Delivery, QueueProper
  <2> QED  BY <1>1, <2>1, <2>2, <2>3 DEF Delivery
<1>3. CASE ReceiveHello(s) \/ ReceiveDirect(s)
  BY <1>1, <1>h, <1>3 DEF ReceiveHello, ReceiveDirect, Receive, threadVars
<1>4. CASE ReceiveResult(s)
  <2>1. /\ type = "RESULT" /\ gt' = gt /\ queue' = Append(queue, up[s][1].case)
        /\ up[s][1] \in MessageType
    BY <1>1, <1>4 DEF ReceiveResult, Receive, threadVars, TypeOK, TypePipe
  <2>2. NothingEarly'
    <3>1. main[s] \notin {"hello", "compile"}  BY <1>1, <2>1 DEF Delivery, NothingEarly
    <3> QED  BY <1>1, <1>2, <2>1, <3>1, NoneAssumption DEF Delivery, NothingEarly
  <2>3. FlusherFollows'
    <3>1. ASSUME Ending(s)' PROVE \E k \in DOMAIN up'[s] : Flusher(up'[s][k])
      <4>1. PICK k \in DOMAIN up[s] : k > 1 /\ Flusher(up[s][k])
        BY <1>1, <1>e, <2>1, <3>1 DEF Delivery, FlusherFollows
      <4> QED  BY <1>1, <4>1
    <3>2. ASSUME NEW t \in Submissions \ {s} PROVE gt'[t] # "recv"
      BY <1>1, <1>2, <2>1 DEF Handover
    <3> QED  BY <1>1, <1>2, <1>e, <1>f, <2>1, <3>1, <3>2, SMTT(40) DEF Delivery, FlusherFollows
  <2>4. QueueProper'
    <3> DEFINE c == up[s][1].case
    <3>1. c \in CaseType /\ Proper(s, c)
      BY <1>1, <2>1 DEF Delivery, PipeProper, MessageType
    <3>2. \A k \in DOMAIN queue' : queue'[k] = c \/ (k \in DOMAIN queue /\ queue'[k] = queue[k])
      <4> HIDE DEF c
      <4>1. /\ DOMAIN Append(queue, c) = 1..Len(queue) + 1 /\ DOMAIN queue = 1..Len(queue)
            /\ Len(queue) \in Nat
            /\ Append(queue, c)[Len(queue) + 1] = c
            /\ \A i \in 1..Len(queue) : Append(queue, c)[i] = queue[i]
        BY <1>2, <3>1, AppendElements
      <4>2. queue' = Append(queue, c)  BY <2>1 DEF c
      <4> QED  BY <4>1, <4>2
    <3>3. \A k \in DOMAIN queue : Proper(s, queue[k])
      BY <1>1, <1>2 DEF Delivery, QueueProper
    <3>4. \A k \in DOMAIN queue' : Proper(s, queue'[k])  BY <3>1, <3>2, <3>3
    <3> QED  BY <1>1, <1>2, <2>1, <3>4, NoneAssumption DEF QueueProper
  <2> QED  BY <1>1, <2>2, <2>3, <2>4 DEF Delivery
<1>5. CASE ReceiveFlushing(s) \/ ReceiveUnhandled(s)
  <2>1. /\ queue' = queue
        /\ \E x \in {"flush", "report", "error", "join"} : gt' = [gt EXCEPT ![s] = x]
        /\ gt'[s] \in {"flush", "report"}
    BY <1>2, <1>5 DEF ReceiveFlushing, ReceiveUnhandled
  <2>2. NothingEarly'  BY <1>1, <1>2, <1>g, <2>1 DEF Delivery, NothingEarly
  <2>3. FlusherFollows'  BY <1>1, <1>e, <1>f, <1>g, <2>1 DEF Delivery, FlusherFollows
  <2>4. QueueProper'  BY <1>1, <1>2, <2>1 DEF Delivery, QueueProper
  <2> QED  BY <1>1, <2>2, <2>3, <2>4 DEF Delivery
\* The last message of a worker finds the queue empty.
<1>6. CASE ReceiveBye(s)
  <2>1. /\ type = "BYE" /\ queue' = queue
        /\ \E x \in {"flush", "report", "error", "join"} : gt' = [gt EXCEPT ![s] = x]
    BY <1>1, <1>6 DEF ReceiveBye, Receive
  <2>2. Len(up[s]) = 1  BY <1>1, <2>1 DEF Delivery, PipeProper
  <2>3. DOMAIN up[s] = 1..Len(up[s])  BY <1>2, LenProperties DEF TypeOK, TypePipe
  <2>4. ~Flusher(up[s][1])  BY <2>1 DEF Flusher, FlushTypes
  <2>5. queue = <<>>
    BY <1>1, <1>2, <2>1, <2>2, <2>3, <2>4 DEF Delivery, FlusherFollows, Ending
  <2>6. NothingEarly'  BY <1>1, <1>2, <1>g, <2>1, <2>5 DEF Delivery, NothingEarly
  <2>7. FlusherFollows'  BY <1>1, <1>e, <1>f, <2>1, <2>5 DEF Delivery, FlusherFollows
  <2>8. QueueProper'  BY <2>1, <2>5 DEF QueueProper
  <2> QED  BY <1>1, <2>6, <2>7, <2>8 DEF Delivery
<1> QED  BY <1>3, <1>4, <1>5, <1>6

\* What the worker sends.
LEMMA DeliveryYield ==
    ASSUME TypeOK, Handover, Delivery, NEW s \in Submissions, Alive(s),
           NEW m \in MessageType, NEW next \in MainPcs \ {"off", "hello", "exited"},
           judge = "up", up' = [up EXCEPT ![s] = Append(@, m)],
           main' = [main EXCEPT ![s] = next],
           UNCHANGED <<queue, current, gt>>, AbortKnown',
           main[s] \notin {"finally", "exited"},
           m.type = "RESULT" => Proper(s, m.case) /\ main[s] \notin {"hello", "compile"}
                                /\ next = "grade",
           m.type = "BYE" => main[s] = "bye" /\ next = "finally",
           next = "compile" => main[s] = "hello",
           next = "bye" => Flusher(m) \/ main[s] = "compile"
    PROVE  Delivery'
<1>1. /\ up[s] \in Seq(MessageType) /\ up'[s] = Append(up[s], m)
      /\ main'[s] = next
      /\ \A t \in Submissions \ {s} : up'[t] = up[t] /\ main'[t] = main[t]
  BY DEF TypeOK, TypePipe, TypeWorker
<1>2. /\ DOMAIN up'[s] = 1..Len(up[s]) + 1 /\ DOMAIN up[s] = 1..Len(up[s]) /\ Len(up[s]) \in Nat
      /\ Len(up'[s]) = Len(up[s]) + 1
      /\ up'[s][Len(up[s]) + 1] = m
      /\ \A i \in 1..Len(up[s]) : up'[s][i] = up[s][i]
  BY <1>1, AppendElements
<1> DEFINE n == Len(up[s]) + 1
<1>3. current = s /\ gt[s] # "off"  BY NoneAssumption DEF Handover
<1>4. \A i \in DOMAIN up[s] : up[s][i].type # "BYE"
  BY DEF Delivery, PipeProper
<1>5. PipeProper'
  <2> SUFFICES ASSUME NEW t \in Submissions, NEW i \in DOMAIN up'[t]
               PROVE  /\ up'[t][i].type = "RESULT" => Proper(t, up'[t][i].case)
                      /\ up'[t][i].type = "BYE" =>
                           i = Len(up'[t]) /\ main'[t] \in {"finally", "exited"}
    BY DEF PipeProper
  <2>1. CASE t = s /\ i = n  BY <1>1, <1>2, <2>1
  <2>2. CASE t = s /\ i # n  BY <1>1, <1>2, <1>4, <2>2 DEF Delivery, PipeProper
  <2>3. CASE t # s  BY <1>1, <2>3 DEF Delivery, PipeProper
  <2> QED  BY <2>1, <2>2, <2>3
<1>6. NothingEarly'
  <2>1. next = "compile" => \A i \in DOMAIN up'[s] : up'[s][i].type # "RESULT"
    BY <1>1, <1>2 DEF Delivery, NothingEarly
  <2> QED  BY <1>1, <1>3, <2>1 DEF Delivery, NothingEarly
<1>7. FlusherFollows'
  <2>1. ASSUME Ending(s)'
        PROVE  /\ \A i \in DOMAIN up'[s] : up'[s][i].type = "RESULT" =>
                    \E k \in DOMAIN up'[s] : k > i /\ Flusher(up'[s][k])
               /\ queue # <<>> /\ gt'[s] = "recv" => \E k \in DOMAIN up'[s] : Flusher(up'[s][k])
    <3>1. next = "bye" \/ (m.type = "BYE" /\ main[s] = "bye")
      <4>1. CASE main'[s] = "bye"  BY <1>1, <4>1
      <4>2. CASE main'[s] # "bye"
        <5>1. PICK i \in DOMAIN up'[s] : up'[s][i].type = "BYE"  BY <2>1, <4>2 DEF Ending
        <5>2. i = n  BY <1>2, <1>4, <5>1
        <5> QED  BY <1>2, <5>1, <5>2
      <4> QED  BY <4>1, <4>2
    <3>2. CASE Flusher(m)
      <4>1. n \in DOMAIN up'[s] /\ Flusher(up'[s][n])  BY <1>2, <3>2
      <4>2. m.type # "RESULT"  BY <3>2 DEF Flusher, FlushTypes
      <4>3. \A i \in DOMAIN up'[s] : up'[s][i].type = "RESULT" => n > i  BY <1>2, <4>2
      <4> QED  BY <4>1, <4>3
    <3>3. CASE next = "bye" /\ main[s] = "compile"
      <4>1. queue = <<>> /\ \A i \in DOMAIN up[s] : up[s][i].type # "RESULT"
        BY <1>3, <3>3 DEF Delivery, NothingEarly
      <4>2. m.type # "RESULT"  BY <3>3
      <4> QED  BY <1>2, <4>1, <4>2
    <3>4. CASE m.type = "BYE" /\ main[s] = "bye"
      <4>1. /\ \A i \in DOMAIN up[s] : up[s][i].type = "RESULT" =>
                 \E k \in DOMAIN up[s] : k > i /\ Flusher(up[s][k])
            /\ queue # <<>> /\ gt[s] = "recv" => \E k \in DOMAIN up[s] : Flusher(up[s][k])
        BY <3>4 DEF Delivery, FlusherFollows, Ending
      <4>2. DOMAIN up[s] \subseteq DOMAIN up'[s] /\ \A k \in DOMAIN up[s] : up'[s][k] = up[s][k]
        BY <1>2
      <4>3. \A i \in DOMAIN up'[s] : up'[s][i].type = "RESULT" => i \in DOMAIN up[s]
        BY <1>2, <3>4
      <4> QED  BY <4>1, <4>2, <4>3
    <3> QED  BY <3>1, <3>2, <3>3, <3>4
  <2> QED  BY <1>1, <2>1 DEF Delivery, FlusherFollows, Ending
<1>8. QueueProper'  BY DEF Delivery, QueueProper
<1> QED  BY <1>5, <1>6, <1>7, <1>8 DEF Delivery

LEMMA DeliveryWorker ==
    ASSUME TypeOK, Handover, Delivery, NEW s \in Submissions, Worker(s) PROVE Delivery'
<1>1. /\ UNCHANGED <<queue, current, gt, judge, log>>
      /\ queue # <<>> => current \in Submissions
  BY DEF Worker, WorkerFrame, judgeVars, threadVars, TypeOK, TypeJudge, Delivery, QueueProper
<1>2. /\ main \in [Submissions -> MainPcs] /\ abort \in [Submissions -> BOOLEAN]
      /\ step \in [Submissions -> 1..Len(Plan) + 1]
      /\ cut \in [Submissions -> BOOLEAN] /\ recv \in [Submissions -> RecvPcs]
  BY DEF TypeOK, TypeWorker
<1>p. Len(Plan) \in Nat  BY PlanAssumption, LenProperties
<1>q. Plan \in [1..Len(Plan) -> {"BATCH_BEGIN", "CASE", "BATCH_END"}]
  BY PlanAssumption, LenProperties
<1>a. ASSUME up' = up, AbortKnown', \A t \in Submissions : Harmless(t) PROVE Delivery'
  BY <1>1, <1>a, DeliveryFrame
\* A step of the main thread that sends nothing and stays among the states that
\* Delivery does not tell apart.
<1>m. ASSUME NEW next \in {"begin", "grade", "running", "check", "finally"},
             main[s] \notin {"finally", "exited"},
             main' = [main EXCEPT ![s] = next], up' = up, AbortKnown'
      PROVE  Delivery'
  <2>1. \A t \in Submissions : main'[t] = main[t] \/ (t = s /\ main'[t] = next)
    BY <1>2, <1>m
  <2>2. PipeProper'  BY <1>m, <2>1 DEF Delivery, PipeProper
  <2>3. NothingEarly'  BY <1>1, <1>m, <2>1 DEF Delivery, NothingEarly
  <2>4. FlusherFollows'  BY <1>1, <1>m, <2>1 DEF Delivery, FlusherFollows, Ending
  <2>5. QueueProper'  BY <1>1 DEF Delivery, QueueProper
  <2> QED  BY <1>m, <2>2, <2>3, <2>4, <2>5 DEF Delivery
<1>y. ASSUME NEW m \in MessageType, NEW next \in MainPcs \ {"off", "hello", "exited"},
             Yield(s, m, next), Alive(s), AbortKnown', main[s] # "finally",
             m.type = "RESULT" => Proper(s, m.case) /\ main[s] \notin {"hello", "compile"}
                                  /\ next = "grade",
             m.type = "BYE" => main[s] = "bye" /\ next = "finally",
             next = "compile" => main[s] = "hello",
             next = "bye" => Flusher(m) \/ main[s] = "compile"
      PROVE  Delivery'
  <2>1. CASE judge = "up"  BY <1>1, <1>y, <2>1, DeliveryYield DEF Yield, Alive
  <2>2. CASE judge # "up"  BY <1>m, <1>y, <2>2 DEF Yield, Alive
  <2> QED  BY <2>1, <2>2
<1>t. ASSUME NEW type \in UpTypes
      PROVE  Message(type) \in MessageType /\ Message(type).type = type
  BY <1>t DEF Message, MessageType, NoCase, CaseType
<1>k. UNCHANGED <<recv, abort, cut>> => AbortKnown'  BY DEF Delivery, AbortKnown
<1>3. CASE Hello(s)
  <2>1. AbortKnown'  BY <1>2, <1>3 DEF Hello, Delivery, AbortKnown
  <2>2. Message("HELLO") \in MessageType /\ Message("HELLO").type = "HELLO"
    BY <1>t DEF UpTypes
  <2> QED  BY <1>3, <1>y, <2>1, <2>2 DEF Hello, Alive, MainPcs
<1>4. CASE Compile(s)
  <2>1. main[s] = "compile" /\ AbortKnown'  BY <1>4, <1>k DEF Compile
  <2>2. CASE Yield(s, Message("COMPILE_ERROR"), "bye")
    <3>1. Message("COMPILE_ERROR") \in MessageType /\ Message("COMPILE_ERROR").type = "COMPILE_ERROR"
      BY <1>t DEF UpTypes
    <3> QED  BY <1>y, <2>1, <2>2, <3>1 DEF Alive, MainPcs
  <2>3. CASE Yield(s, Message("COMPILE_MESSAGE"), "begin")
    <3>1. Message("COMPILE_MESSAGE") \in MessageType /\ Message("COMPILE_MESSAGE").type = "COMPILE_MESSAGE"
      BY <1>t DEF UpTypes
    <3> QED  BY <1>y, <2>1, <2>3, <3>1 DEF Alive, MainPcs
  <2>4. CASE main' = [main EXCEPT ![s] = "begin"] /\ UNCHANGED up
    BY <1>m, <2>1, <2>4
  <2> QED  BY <1>4, <2>2, <2>3, <2>4 DEF Compile
<1>5. CASE Begin(s)
  <2>1. Message("GRADING_BEGIN") \in MessageType /\ Message("GRADING_BEGIN").type = "GRADING_BEGIN"
    BY <1>t DEF UpTypes
  <2> QED  BY <1>5, <1>k, <1>y, <2>1 DEF Begin, Alive, MainPcs
<1>6. CASE Batch(s)
  <2>1. Plan[step[s]] \in {"BATCH_BEGIN", "BATCH_END"}  BY <1>2, <1>6, <1>p, <1>q DEF Batch
  <2>2. /\ Message(Plan[step[s]]) \in MessageType
        /\ Message(Plan[step[s]]).type \in {"BATCH_BEGIN", "BATCH_END"}
    BY <1>t, <2>1 DEF UpTypes
  <2> QED  BY <1>6, <1>k, <1>y, <2>2 DEF Batch, Alive, MainPcs
<1>7. CASE GradingEnd(s)
  <2>1. Message("GRADING_END") \in MessageType /\ Message("GRADING_END").type = "GRADING_END"
    BY <1>t DEF UpTypes
  <2> QED  BY <1>7, <1>k, <1>y, <2>1 DEF GradingEnd, Alive, MainPcs, Flusher, FlushTypes
<1>r. ASSUME NEW isCut \in BOOLEAN
      PROVE  /\ Result(s, isCut) \in MessageType /\ Result(s, isCut).type = "RESULT"
             /\ ~isCut => Proper(s, Result(s, isCut).case)
  <2>1. step[s] \in Nat  BY <1>2, <1>p
  <2>2. CaseNumber(step[s]) \in Nat  BY <2>1, CaseNumberType
  <2> QED  BY <1>r, <2>2 DEF Result, MessageType, UpTypes, CaseType, Proper
<1>8. CASE ShortCircuit(s)
  BY <1>8, <1>k, <1>y, <1>r DEF ShortCircuit, Alive, MainPcs
<1>9. CASE Launch(s)
  <2>1. AbortKnown'  BY <1>2, <1>9 DEF Launch, Delivery, AbortKnown
  <2> QED  BY <1>9, <1>m, <2>1 DEF Launch, pipeVars
<1>10. CASE Graded(s)
  BY <1>10, <1>k, <1>m DEF Graded, pipeVars
<1>11. CASE CheckAbort(s)
  <2>1. CASE abort[s]
    <3>1. Message("GRADING_ABORTED") \in MessageType /\ Message("GRADING_ABORTED").type = "GRADING_ABORTED"
      BY <1>t DEF UpTypes
    <3> QED
      BY <1>11, <1>k, <1>y, <2>1, <3>1
      DEF CheckAbort, AbortSeen, AfterAborted, Alive, MainPcs, Flusher, FlushTypes
  <2>2. CASE ~abort[s]
    <3>1. ~cut[s] /\ cut[s] \in BOOLEAN  BY <1>2, <2>2 DEF Delivery, AbortKnown
    <3> QED
      BY <1>11, <1>k, <1>y, <1>r, <2>2, <3>1 DEF CheckAbort, AbortSeen, Alive, MainPcs
  <2> QED  BY <2>1, <2>2
<1>12. CASE Raise(s)
  <2>1. /\ Message("UNHANDLED_EXCEPTION") \in MessageType
        /\ Message("UNHANDLED_EXCEPTION").type = "UNHANDLED_EXCEPTION"
    BY <1>t DEF UpTypes
  <2> QED  BY <1>12, <1>k, <1>y, <2>1 DEF Raise, Alive, MainPcs, Flusher
<1>13. CASE Bye(s)
  <2>1. Message("BYE") \in MessageType /\ Message("BYE").type = "BYE"  BY <1>t DEF UpTypes
  <2> QED  BY <1>13, <1>k, <1>y, <2>1 DEF Bye, Alive, MainPcs
<1>14. CASE Finally(s) \/ WorkerDies(s)
  <2>1. Gone(s)  BY <1>14 DEF Finally, WorkerDies
  <2>2. AbortKnown' /\ \A t \in Submissions : Harmless(t)
    BY <2>1, GoneHarmless DEF TypeOK, Delivery
  <2> QED  BY <1>a, <2>1, <2>2 DEF Gone
<1>15. CASE WorkerReceive(s) \/ WorkerAbort(s)
  <2>1. UNCHANGED <<main, up>> /\ AbortKnown'
    BY <1>2, <1>15 DEF WorkerReceive, WorkerAbort, pipeVars, Delivery, AbortKnown
  <2> QED  BY <1>a, <2>1 DEF Harmless
<1> QED
  BY <1>3, <1>4, <1>5, <1>6, <1>7, <1>8, <1>9, <1>10, <1>11, <1>12, <1>13, <1>14, <1>15
  DEF Worker, WorkerMain

LEMMA DeliveryNetwork ==
    ASSUME TypeOK, Handover, Delivery, NetworkThread PROVE Delivery'
<1>0. queue # <<>> => current \in Submissions
  BY DEF TypeOK, TypeJudge, Delivery, QueueProper
<1>f. ASSUME UNCHANGED <<queue, current, up, gt>>, UNCHANGED workerVars PROVE Delivery'
  <2>1. AbortKnown' /\ \A t \in Submissions : Harmless(t)
    BY <1>f DEF workerVars, Delivery, AbortKnown, Harmless
  <2> QED  BY <1>0, <1>f, <2>1, DeliveryFrame
<1>1. ASSUME NEW s \in Submissions, Request(s) PROVE Delivery'
  BY <1>1, <1>f DEF Request, judgeVars, threadVars, pipeVars
<1>2. CASE AcquireLock \/ AwaitReady \/ CloseConnection \/ Exit \/ Query
  BY <1>2, <1>f
  DEF AcquireLock, AwaitReady, CloseConnection, Exit, Query, judgeVars, threadVars, pipeVars
<1>3. CASE Terminate \/ Disconnect \/ Murder
  BY <1>3, <1>f DEF Terminate, Disconnect, Murder, AbortGrading, judgeVars, threadVars
<1>4. CASE NetJoin
  <2>1. target \in Submissions  BY <1>4 DEF NetJoin, TypeOK, TypeNet
  <2>2. AbortKnown' /\ (\A t \in Submissions : Harmless(t)) /\ up' = up
    BY <1>4, <2>1, WaitHarmless DEF NetJoin, TypeOK, Delivery
  <2> QED  BY <1>0, <1>4, <2>2, DeliveryFrame DEF NetJoin, judgeVars, threadVars
<1>6. CASE Interrupt
  <2>1. CASE UNCHANGED <<workerVars, pipeVars>>
    BY <1>6, <1>f, <2>1 DEF Interrupt, judgeVars, threadVars, pipeVars
  <2>2. CASE netPc = "join" /\ Gone(target)
    <3>1. target \in Submissions  BY <2>2 DEF TypeOK, TypeNet
    <3>2. AbortKnown' /\ (\A t \in Submissions : Harmless(t)) /\ up' = up
      BY <2>2, <3>1, GoneHarmless DEF TypeOK, Delivery, Gone
    <3> QED  BY <1>0, <1>6, <3>2, DeliveryFrame DEF Interrupt, judgeVars, threadVars
  <2> QED  BY <1>6, <2>1, <2>2 DEF Interrupt
<1>5. CASE StartGrading
  <2>1. current = None  BY <1>5 DEF StartGrading, Handover, Active, TypeOK, TypeJudge
  <2>2. /\ netSub \in Submissions /\ gt[netSub] = "off" /\ up[netSub] = <<>> /\ queue = <<>>
    BY <1>5, <2>1
    DEF StartGrading, Handover, TypeOK, TypeNet, Delivery, NothingEarly, QueueProper
  <2>3. /\ main' = [main EXCEPT ![netSub] = "hello"] /\ gt' = [gt EXCEPT ![netSub] = "recv"]
        /\ current' = netSub /\ UNCHANGED <<up, queue, recv, abort, cut>>
    BY <1>5, <2>1 DEF StartGrading, AssignWorker, pipeVars
  <2>4. AbortKnown'  BY <2>3 DEF Delivery, AbortKnown
  <2>5. DOMAIN up[netSub] = {}  BY <2>2
  <2>6. PipeProper'  BY <2>2, <2>3, <2>5 DEF Delivery, PipeProper, TypeOK, TypeWorker
  <2>7. NothingEarly'  BY <2>2, <2>3, <2>5 DEF Delivery, NothingEarly, TypeOK, TypeWorker, TypeThread
  <2>8. FlusherFollows'
    BY <2>2, <2>3, <2>5 DEF Delivery, FlusherFollows, Ending, TypeOK, TypeWorker
  <2>9. QueueProper'  BY <2>2, <2>3 DEF QueueProper
  <2> QED  BY <2>4, <2>6, <2>7, <2>8, <2>9 DEF Delivery
<1> QED  BY <1>1, <1>2, <1>3, <1>4, <1>5, <1>6 DEF NetworkThread

LEMMA FlushDrains == Flush => queue' = <<>>
BY DEF Flush, NoSend

LEMMA DeliveryGrading ==
    ASSUME TypeOK, Handover, Delivery, NEW s \in Submissions, GradingThread(s) PROVE Delivery'
<1>0. queue # <<>> => current \in Submissions
  BY DEF TypeOK, TypeJudge, Delivery, QueueProper
<1>g. gt \in [Submissions -> GtPcs]  BY DEF TypeOK, TypeThread
<1>w. UNCHANGED workerVars => AbortKnown' /\ \A t \in Submissions : Harmless(t)
  BY DEF workerVars, Delivery, AbortKnown, Harmless
\* Only a thread that receives or is about to flush leaves cases in the queue.
<1>q. gt[s] \notin {"off", "done", "recv", "flush", "report", "error"} => queue = <<>>
  BY <1>0, <1>g DEF Delivery, QueueProper, Handover, OneGrading, Active
<1>d. ASSUME NEW x \in GtPcs \ {"off"}, gt' = [gt EXCEPT ![s] = x], queue' = <<>>, up' = up,
             AbortKnown', \A t \in Submissions : Harmless(t)
      PROVE  Delivery'
  <2>1. \A t \in Submissions : gt'[t] = "off" => gt[t] = "off"  BY <1>d, <1>g
  <2> QED  BY <1>d, <2>1, DeliveryDrained
<1> USE DEF GtPcs
<1>1. CASE \/ ReceiveHello(s) \/ ReceiveResult(s) \/ ReceiveDirect(s) \/ ReceiveFlushing(s)
           \/ ReceiveUnhandled(s) \/ ReceiveBye(s)
  BY <1>1, DeliveryReceive
<1>2. CASE ReceiveEof(s) \/ ReceiveTimeout(s)
  <2>1. AbortKnown' /\ (\A t \in Submissions : Harmless(t)) /\ up' = up
    BY <1>2, <1>w, GoneHarmless
    DEF ReceiveEof, ReceiveTimeout, Gone, pipeVars, TypeOK, Delivery
  <2>2. /\ UNCHANGED <<queue, current>>
        /\ gt[s] = "recv" /\ gt' = [gt EXCEPT ![s] = "error"]
    BY <1>2 DEF ReceiveEof, ReceiveTimeout, judgeVars
  <2>3. \A t \in Submissions : \/ gt'[t] = gt[t]
                               \/ gt[t] = "recv" /\ gt'[t] \in {"flush", "report", "error"}
    BY <1>g, <2>2
  <2> QED  BY <1>0, <2>1, <2>2, <2>3, DeliveryFrame
<1>3. CASE FlushFirst(s)
  BY <1>3, <1>d, <1>w, FlushDrains DEF FlushFirst, FlushBefore, pipeVars
<1>4. CASE ThenSend(s)
  BY <1>4, <1>d, <1>q, <1>w DEF ThenSend, pipeVars
<1>5. CASE ReportError(s)
  <2>1. PICK x \in {"report-send", "error-send"} : gt' = [gt EXCEPT ![s] = x]
    BY <1>5 DEF ReportError
  <2> QED  BY <1>5, <1>d, <1>w, <2>1, FlushDrains DEF ReportError, FlushOnError, pipeVars
<1>6. CASE ReportSend(s)
  <2>1. PICK x \in {"recv", "join"} : gt' = [gt EXCEPT ![s] = x]  BY <1>6 DEF ReportSend
  <2> QED  BY <1>6, <1>d, <1>q, <1>w, <2>1 DEF ReportSend, pipeVars
<1>7. CASE Join(s)
  <2>1. current = s  BY <1>7 DEF Join, Handover
  <2>2. AbortKnown' /\ (\A t \in Submissions : Harmless(t)) /\ up' = up
    BY <1>7, <2>1, WaitHarmless DEF Join, TypeOK, Delivery
  <2> QED  BY <1>7, <1>d, <1>q, <2>2 DEF Join, judgeVars
<1>8. CASE Clear(s) \/ Release(s)
  <2>1. PICK x \in {"release", "done"} : gt' = [gt EXCEPT ![s] = x]
    BY <1>8 DEF Clear, Release
  <2> QED  BY <1>8, <1>d, <1>q, <1>w, <2>1 DEF Clear, Release, pipeVars
<1> QED
  BY <1>1, <1>2, <1>3, <1>4, <1>5, <1>6, <1>7, <1>8 DEF GradingThread

LEMMA DeliveryInit == Init => Delivery
BY DEF Init, Delivery, AbortKnown, PipeProper, NothingEarly, FlusherFollows, Ending, QueueProper

LEMMA DeliveryStep == TypeOK /\ Handover /\ Delivery /\ [Next]_vars => Delivery'
<1> SUFFICES ASSUME TypeOK, Handover, Delivery, [Next]_vars PROVE Delivery'  OBVIOUS
<1>1. CASE NetworkThread  BY <1>1, DeliveryNetwork
<1>2. ASSUME NEW s \in Submissions, GradingThread(s) PROVE Delivery'
  BY <1>2, DeliveryGrading
<1>3. ASSUME NEW s \in Submissions, Worker(s) PROVE Delivery'
  BY <1>3, DeliveryWorker
<1>4. CASE PeriodicFlush
  <2>1. AbortKnown' /\ \A t \in Submissions : Harmless(t)
    BY <1>4 DEF PeriodicFlush, workerVars, Delivery, AbortKnown, Harmless
  <2>2. queue' = <<>>
    <3>1. CASE current = None
      BY <1>4, <3>1, NoneAssumption DEF PeriodicFlush, NoSend, Delivery, QueueProper
    <3> QED  BY <1>4, <3>1, FlushDrains DEF PeriodicFlush
  <2> QED
    BY <1>4, <2>1, <2>2, DeliveryDrained DEF PeriodicFlush, threadVars, pipeVars
<1>5. CASE UNCHANGED vars
  BY <1>5 DEF vars, judgeVars, threadVars, workerVars, pipeVars, Delivery, AbortKnown,
              PipeProper, NothingEarly, FlusherFollows, Ending, QueueProper
<1> QED  BY <1>1, <1>2, <1>3, <1>4, <1>5 DEF Next

\* Every case the site heard of is a proper one of its submission.
LogProper ==
    \A s \in Submissions : \A i \in DOMAIN log[s] :
        IsCase(log[s][i]) => Proper(s, log[s][i].case)

LEMMA ConcatElements ==
    ASSUME NEW S, NEW p \in Seq(S), NEW q \in Seq(S)
    PROVE  /\ p \o q \in Seq(S) /\ Len(p) \in Nat /\ Len(q) \in Nat
           /\ Len(p \o q) = Len(p) + Len(q)
           /\ DOMAIN (p \o q) = 1..Len(p) + Len(q)
           /\ DOMAIN p = 1..Len(p) /\ DOMAIN q = 1..Len(q)
           /\ \A i \in 1..Len(p) : (p \o q)[i] = p[i]
           /\ \A i \in 1..Len(q) : (p \o q)[Len(p) + i] = q[i]
<1>1. Len(p) \in Nat /\ Len(q) \in Nat /\ DOMAIN p = 1..Len(p) /\ DOMAIN q = 1..Len(q)
  BY LenProperties
<1>2. /\ p \o q \in Seq(S) /\ Len(p \o q) = Len(p) + Len(q)
      /\ \A i \in 1..Len(p) + Len(q) :
           (p \o q)[i] = IF i <= Len(p) THEN p[i] ELSE q[i - Len(p)]
  BY ConcatProperties
<1>3. DOMAIN (p \o q) = 1..Len(p) + Len(q)  BY <1>2, LenProperties
<1>4. \A i \in 1..Len(p) : (p \o q)[i] = p[i]  BY <1>1, <1>2
<1>5. ASSUME NEW i \in 1..Len(q) PROVE (p \o q)[Len(p) + i] = q[i]
  <2>1. Len(p) + i \in 1..Len(p) + Len(q) /\ ~(Len(p) + i <= Len(p)) /\ Len(p) + i - Len(p) = i
    BY <1>1
  <2> QED  BY <1>2, <2>1
<1> QED  BY <1>1, <1>2, <1>3, <1>4, <1>5

LEMMA LogStep ==
    TypeOK /\ Handover /\ Delivery /\ LogProper /\ [Next]_vars => LogProper'
<1> SUFFICES ASSUME TypeOK, Handover, Delivery, LogProper, [Next]_vars PROVE LogProper'
  OBVIOUS
<1>c. log' = log => LogProper'  BY DEF LogProper
<1>l. log \in [Submissions -> Seq(PacketType)]  BY DEF TypeOK, TypeLog
<1>s. ASSUME NEW packets \in Seq(PacketType), current \in Submissions, Send(packets),
             \A j \in DOMAIN packets : IsCase(packets[j]) => Proper(current, packets[j].case)
      PROVE  LogProper'
  <2>1. CASE closed  BY <1>c, <1>s, <2>1 DEF Send
  <2>2. CASE ~closed
    <3> DEFINE old == log[current]
    <3>1. /\ log' = [log EXCEPT ![current] = old \o packets] /\ old \in Seq(PacketType)
      BY <1>l, <1>s, <2>2 DEF Send
    <3>2. log'[current] = old \o packets /\ \A t \in Submissions \ {current} : log'[t] = log[t]
      BY <1>l, <1>s, <3>1
    <3> HIDE DEF old
    <3>3. /\ Len(old) \in Nat /\ Len(packets) \in Nat
          /\ DOMAIN (old \o packets) = 1..Len(old) + Len(packets)
          /\ DOMAIN old = 1..Len(old) /\ DOMAIN packets = 1..Len(packets)
          /\ \A i \in 1..Len(old) : (old \o packets)[i] = old[i]
          /\ \A i \in 1..Len(packets) : (old \o packets)[Len(old) + i] = packets[i]
      BY <1>s, <3>1, ConcatElements
    <3>4. ASSUME NEW t \in Submissions, NEW i \in DOMAIN log'[t], IsCase(log'[t][i])
          PROVE  Proper(t, log'[t][i].case)
      <4>1. CASE t # current  BY <3>2, <3>4, <4>1 DEF LogProper
      <4>2. CASE t = current /\ i \in 1..Len(old)
        BY <3>2, <3>3, <3>4, <4>2 DEF LogProper, old
      <4>3. CASE t = current /\ i \in Len(old) + 1..Len(old) + Len(packets)
        <5>1. i - Len(old) \in 1..Len(packets) /\ Len(old) + (i - Len(old)) = i  BY <3>3, <4>3
        <5>2. log'[t][i] = packets[i - Len(old)]  BY <3>2, <3>3, <4>3, <5>1
        <5> QED  BY <1>s, <3>3, <3>4, <4>3, <5>1, <5>2
      <4> QED  BY <3>2, <3>3, <3>4, <4>1, <4>2, <4>3
    <3> QED  BY <3>4 DEF LogProper
  <2> QED  BY <2>1, <2>2
<1>b. ASSUME NEW name \in PacketNames, name # "test-case-status", current \in Submissions,
             SendPacket(name)
      PROVE  LogProper'
  <2>1. <<Packet(name)>> \in Seq(PacketType)  BY PacketTyped
  <2>2. \A j \in DOMAIN <<Packet(name)>> : ~IsCase(<<Packet(name)>>[j])
    BY <1>b DEF Packet, IsCase
  <2> QED  BY <1>b, <1>s, <2>1, <2>2 DEF SendPacket
<1>f. ASSUME Flush PROVE LogProper'
  <2>1. CASE queue = <<>>  BY <1>c, <1>f, <2>1 DEF Flush, NoSend
  <2>2. CASE queue # <<>>
    <3>0. queue \in Seq(CaseType)  BY DEF TypeOK, TypeJudge
    <3>1. /\ Status(queue) \in Seq(PacketType) /\ DOMAIN Status(queue) = DOMAIN queue
          /\ \A j \in DOMAIN queue : Status(queue)[j].case = queue[j]
      BY <3>0, StatusType DEF Status
    <3>2. current \in Submissions /\ \A j \in DOMAIN queue : Proper(current, queue[j])
      BY <2>2 DEF TypeOK, TypeJudge, Delivery, QueueProper
    <3>3. Send(Status(queue))  BY <1>f, <2>2 DEF Flush
    <3> QED  BY <1>s, <3>1, <3>2, <3>3
  <2> QED  BY <2>1, <2>2
<1>1. CASE NetworkThread
  <2>1. ASSUME NEW s \in Submissions, Request(s) PROVE LogProper'
    <3>1. /\ \A t \in Submissions \ {s} : log'[t] = log[t]
          /\ log'[s] = <<Packet("submission-acknowledged")>>
      BY <1>l, <2>1 DEF Request
    <3>2. DOMAIN log'[s] = {1} /\ ~IsCase(log'[s][1])  BY <3>1 DEF Packet, IsCase
    <3> QED  BY <3>1, <3>2 DEF LogProper
  <2>2. CASE \/ AcquireLock \/ StartGrading \/ AwaitReady \/ Terminate \/ Disconnect
             \/ Interrupt \/ Murder \/ CloseConnection \/ Exit \/ NetJoin \/ Query
    BY <1>c, <2>2
    DEF AcquireLock, StartGrading, AwaitReady, Terminate, Disconnect, Interrupt, Murder,
        CloseConnection, Exit, NetJoin, Query
  <2> QED  BY <1>1, <2>1, <2>2 DEF NetworkThread
<1>2. ASSUME NEW s \in Submissions, GradingThread(s) PROVE LogProper'
  <2>1. gt[s] \notin {"off", "release", "done"} => current \in Submissions
    BY DEF Handover
  <2>2. CASE ReceiveDirect(s)
    <3>1. PacketOf[Head(up[s]).type] \in PacketNames \ {"test-case-status"}
      BY <2>2 DEF ReceiveDirect, Receive, DirectTypes, PacketOf, PacketNames, Terminals
    <3> QED  BY <1>b, <2>1, <2>2, <3>1 DEF ReceiveDirect, Receive
  <2>3. CASE FlushFirst(s)  BY <1>f, <2>3 DEF FlushFirst, FlushBefore
  <2>4. CASE ThenSend(s)
    <3>1. PacketOf[msg[s]] \in PacketNames \ {"test-case-status"}
      BY <2>4 DEF ThenSend, TypeOK, TypeThread, FlushTypes, PacketOf, PacketNames, Terminals
    <3> QED  BY <1>b, <2>1, <2>4, <3>1 DEF ThenSend
  <2>5. CASE ReportError(s)  BY <1>f, <2>5 DEF ReportError, FlushOnError
  <2>6. CASE ReportSend(s)
    BY <1>b, <2>1, <2>6 DEF ReportSend, PacketNames, Terminals
  <2>7. CASE \/ ReceiveHello(s) \/ ReceiveResult(s) \/ ReceiveFlushing(s) \/ ReceiveUnhandled(s)
             \/ ReceiveBye(s) \/ ReceiveEof(s) \/ ReceiveTimeout(s)
             \/ Join(s) \/ Clear(s) \/ Release(s)
    BY <1>c, <2>7
    DEF ReceiveHello, ReceiveResult, ReceiveFlushing, ReceiveUnhandled, ReceiveBye, ReceiveEof,
        ReceiveTimeout, Join, Clear, Release
  <2> QED  BY <1>2, <2>2, <2>3, <2>4, <2>5, <2>6, <2>7 DEF GradingThread
<1>3. ASSUME NEW s \in Submissions, Worker(s) PROVE LogProper'
  BY <1>3, <1>c DEF Worker, WorkerFrame
<1>4. CASE PeriodicFlush  BY <1>4, <1>c, <1>f DEF PeriodicFlush, NoSend
<1>5. CASE UNCHANGED vars  BY <1>5, <1>c DEF vars
<1> QED  BY <1>1, <1>2, <1>3, <1>4, <1>5 DEF Next

\* The queue, the pipes and the abort flag are always in one of the combinations
\* the two flushing threads rely on, and so is what the site heard.
THEOREM DeliveryCorrect == Spec => [](Delivery /\ LogProper)
<1>1. Init => LogProper
  <2>1. DOMAIN <<>> = {}  OBVIOUS
  <2> QED  BY <2>1 DEF Init, LogProper
<1> QED
  BY <1>1, TypeCorrect, HandoverCorrect, DeliveryInit, DeliveryStep, LogStep, PTL DEF Spec

\* A case reaches the site under the identifier of the submission that produced it.
THEOREM CasesBelongCorrect == Spec => []CasesBelong
<1>1. LogProper => CasesBelong  BY DEF LogProper, CasesBelong, Proper
<1> QED  BY <1>1, DeliveryCorrect, PTL

\* A case whose process was killed by an abort is never reported.
THEOREM NoCutCaseReportedCorrect == Spec => []NoCutCaseReported
<1>1. LogProper => NoCutCaseReported  BY DEF LogProper, NoCutCaseReported, Proper
<1> QED  BY <1>1, DeliveryCorrect, PTL

\* When nothing is being graded the queue is empty.
THEOREM NothingQueuedWhenIdleCorrect == Spec => []NothingQueuedWhenIdle
<1>1. Delivery => NothingQueuedWhenIdle  BY DEF Delivery, QueueProper, NothingQueuedWhenIdle
<1> QED  BY <1>1, DeliveryCorrect, PTL

-----------------------------------------------------------------------------
(***************************************************************************)
(* What the site hears of each submission is a Story, and the judge        *)
(* implements SubmissionLife.                                              *)
(*                                                                         *)
(* The argument follows what was said of a submission rather than where it *)
(* is: the packets the site received, the queued cases, the packet the     *)
(* grading thread is about to send and the messages in the pipe, in this   *)
(* order, are one sequence F.  A step of the judge moves entries of F from *)
(* one place to the next and leaves F alone, unless the judge itself fails *)
(* and adds an internal error; a step of the worker adds at most one entry *)
(* to F.  So it is enough that the worker continues a Story, and that the  *)
(* site always heard a beginning of one.                                   *)
(***************************************************************************)

\* What concerns one submission.
View(s) ==
    [log |-> log[s], queue |-> IF current = s THEN queue ELSE <<>>, gt |-> gt[s],
     msg |-> msg[s], up |-> up[s], main |-> main[s], step |-> step[s]]
ViewType ==
    [log : Seq(PacketType), queue : Seq(CaseType), gt : GtPcs, msg : UpTypes,
     up : Seq(MessageType), main : MainPcs, step : Nat]

\* The packet a message becomes.
NameOf(type) ==
    IF type = "UNHANDLED_EXCEPTION" THEN "internal-error"
    ELSE IF type = "RESULT" THEN "test-case-status"
    ELSE PacketOf[type]
PacketFor(m) ==
    IF m.type = "RESULT" THEN [name |-> "test-case-status", case |-> m.case]
    ELSE Packet(NameOf(m.type))

\* Where the grading thread is about to send a packet, and which.
Holding == {"flush", "send", "report", "report-send", "error", "error-send"}
InHand(v) ==
    IF v.gt \in {"flush", "send"} THEN Packet(NameOf(v.msg)) ELSE Packet("internal-error")

\* How much of F left the pipe, and whether HELLO or BYE is in it: they are no
\* packets.
Held(v) == IF v.gt \in Holding THEN 1 ELSE 0
Taken(v) == Len(v.log) + Len(v.queue) + Held(v)
Greets(v) == IF v.up # <<>> /\ v.up[1].type = "HELLO" THEN 1 ELSE 0
Leaves(v) == IF v.up # <<>> /\ v.up[Len(v.up)].type = "BYE" THEN 1 ELSE 0

\* F begins with what left the pipe ...
Written(v, F) ==
    /\ \A i \in 1..Len(v.log) : F[i] = v.log[i]
    /\ \A i \in 1..Len(v.queue) : F[Len(v.log) + i] = Status(v.queue)[i]
    /\ v.gt \in Holding => F[Taken(v)] = InHand(v)

\* ... and ends with what is in it.
Pending(v, F) ==
    /\ Len(F) = Taken(v) + Len(v.up) - Greets(v) - Leaves(v)
    /\ \A j \in 1..Len(v.up) :
         /\ v.up[j].type = "HELLO" => j = 1
         /\ v.up[j].type = "BYE" => j = Len(v.up)
         /\ v.up[j].type \notin {"HELLO", "BYE"} =>
              F[Taken(v) - Greets(v) + j] = PacketFor(v.up[j])

\* The worker is where it must be to continue the story F.
WorkerAt(v, F, k, n) ==
    /\ v.main = "hello" => v.up = <<>>
    /\ v.main \in {"off", "hello", "compile", "begin"} => v.step = 1
    /\ v.main \in {"running", "check"} => Plan[v.step] = "CASE"
    /\ v.main \in {"hello", "compile"} => k = 1 /\ Len(F) = 1
    /\ v.main = "begin" => Len(F) = k /\ ~Begun(F, k)
    /\ v.main \in {"grade", "running", "check"} =>
         Begun(F, k) /\ Len(F) = k + n /\ v.step = n + 1
    /\ v.main = "bye" => Len(F) = k + n + 1
    /\ v.main \notin {"finally", "exited"} => Leaves(v) = 0
    /\ Leaves(v) = 1 => Len(F) > k + n

\* The grading thread meets the end of the pipe after the verdict, or provides one.
Stage(v, F, k, n) ==
    /\ v.gt = "off" => v.up = <<>> /\ v.main = "off" /\ k <= 1 /\ Len(v.log) = k /\ n = 0
    /\ v.gt # "off" => k >= 1 /\ v.main # "off"
    /\ v.gt \in {"recv", "flush", "send", "report", "report-send"} => Len(F) <= k + n + 1
    /\ v.gt \in {"error", "error-send", "join", "clear", "release", "done"} =>
         v.up = <<>> /\ v.main \in {"finally", "exited"} /\ Len(F) > k + n

Told(v, F, k, n) ==
    Story(F, k, n) /\ Written(v, F) /\ Pending(v, F) /\ WorkerAt(v, F, k, n) /\ Stage(v, F, k, n)

Tale(s) ==
    IF judge = "up"
    THEN \E F \in Seq(PacketType), k, n \in Nat : Told(View(s), F, k, n)
    ELSE \E k, n \in Nat : Story(log[s], k, n)

\* A submission that waits for its turn was acknowledged.
Acknowledged == netPc \in {"acquire", "start"} => log[netSub] # <<>>

Narrated == Acknowledged /\ \A s \in Submissions : Tale(s)
-----------------------------------------------------------------------------
(***************************************************************************)
(* Stories.                                                                *)
(***************************************************************************)
LEMMA PlanEntry ==
    ASSUME NEW i \in 1..Len(Plan) PROVE Plan[i] \in {"BATCH_BEGIN", "CASE", "BATCH_END"}
BY PlanAssumption, ElementOfSeq

LEMMA LengthsNat ==
    ASSUME NEW S, NEW q \in Seq(S) PROVE Len(q) \in Nat /\ DOMAIN q = 1..Len(q)
BY LenProperties

LEMMA BegunEarly ==
    ASSUME NEW l, NEW k \in Nat, NEW n \in Nat, Story(l, k, n)
    PROVE  k <= 3 /\ (Begun(l, k) => k >= 2)
BY DEF Story, Opens, Begun

\* What stands where in a story.
LEMMA Places ==
    ASSUME NEW F \in Seq(PacketType), NEW k \in Nat, NEW n \in Nat, Story(F, k, n),
           NEW i \in 1..Len(F)
    PROVE  /\ i <= k => F[i].name \in {"submission-acknowledged", "compile-message", "grading-begin"}
           /\ i > k /\ i <= k + n =>
                F[i].name \in {"batch-begin", "batch-end", "test-case-status"} /\ Begun(F, k)
           /\ i > k + n => F[i].name \in Terminals
           /\ i > k + n /\ F[i].name = "compile-error" => ~Begun(F, k)
<1>1. Len(F) \in Nat  BY LengthsNat
<1>2. CASE i <= k
  <2>0. k <= 3  BY BegunEarly
  <2>1. k \in 1..3 /\ i \in 1..3  BY <1>1, <1>2, <2>0
  <2> QED  BY <1>2, <2>1 DEF Story, Opens
<1>3. CASE i > k /\ i <= k + n
  <2>1. i - k \in 1..n /\ k + (i - k) = i  BY <1>1, <1>3
  <2>2. Tells(F[i], i - k)  BY <2>1 DEF Story
  <2>3. i - k \in 1..Len(Plan)  BY <2>2 DEF Tells
  <2>4. Plan[i - k] \in {"BATCH_BEGIN", "CASE", "BATCH_END"}  BY <2>3, PlanEntry
  <2> QED  BY <1>3, <2>1, <2>2, <2>4 DEF Story, Tells, IsCase
<1>4. CASE i = k + n + 1
  <2>1. Closes(F, k, n)  BY <1>1, <1>4 DEF Story
  <2> QED  BY <1>4, <2>1 DEF Closes
<1>5. CASE i = k + n + 2
  <2>1. F[i].name = "internal-error"  BY <1>1, <1>5 DEF Story
  <2> QED  BY <1>5, <2>1 DEF Terminals
<1>6. i <= k + n + 2  BY <1>1 DEF Story
<1> QED  BY <1>2, <1>3, <1>4, <1>5, <1>6

\* The beginning of a story is a story.
LEMMA StoryPrefix ==
    ASSUME NEW F \in Seq(PacketType), NEW l \in Seq(PacketType), NEW k \in Nat, NEW n \in Nat,
           Story(F, k, n), Len(l) <= Len(F), \A i \in 1..Len(l) : F[i] = l[i]
    PROVE  \E a, b \in Nat : Story(l, a, b)
<1>1. Len(F) \in Nat /\ Len(l) \in Nat  BY LengthsNat
<1>2. l # <<>> => Len(l) >= 1  BY <1>1, EmptySeq
<1>3. CASE Len(l) >= k + n
  <2>1. k \in Nat /\ k <= 3 /\ (l # <<>> => k >= 1)  BY <1>1, <1>3, BegunEarly DEF Story
  <2>2. (k >= 1 => F[1] = l[1]) /\ (k >= 2 => F[2] = l[2]) /\ (k >= 3 => F[3] = l[3])
    BY <1>1, <1>3
  <2>3. k >= 1 => F[k] = l[k]  BY <1>1, <1>3
  <2>4. Opens(l, k) /\ (Begun(l, k) <=> Begun(F, k))  BY <2>2, <2>3 DEF Story, Opens, Begun
  <2>5. \A i \in 1..n : F[k + i] = l[k + i]  BY <1>1, <1>3
  <2>6. \A i \in 1..n : Tells(l[k + i], i)  BY <2>5 DEF Story
  <2>7. Len(l) > k + n => Closes(l, k, n)
    <3>1. Len(l) > k + n => F[k + n + 1] = l[k + n + 1] /\ Closes(F, k, n)
      BY <1>1 DEF Story
    <3> QED  BY <2>4, <3>1 DEF Closes
  <2>8. Len(l) = k + n + 2 => l[k + n + 2].name = "internal-error"
    <3>1. Len(l) = k + n + 2 => F[k + n + 2] = l[k + n + 2] /\ Len(F) = k + n + 2
      BY <1>1 DEF Story
    <3> QED  BY <3>1 DEF Story
  <2>9. Len(l) <= k + n + 2  BY <1>1 DEF Story
  <2>10. n > 0 => Begun(l, k)  BY <2>4 DEF Story
  <2> QED  BY <1>3, <2>1, <2>4, <2>6, <2>7, <2>8, <2>9, <2>10 DEF Story
<1>4. CASE k <= Len(l) /\ Len(l) < k + n
  <2> DEFINE d == Len(l) - k
  <2>1. d \in Nat /\ d < n /\ Len(l) = k + d  BY <1>1, <1>4
  <2> HIDE DEF d
  <2>2. (k >= 1 => F[1] = l[1]) /\ (k >= 2 => F[2] = l[2]) /\ (k >= 3 => F[3] = l[3])
    BY <1>1, <1>4
  <2>3. k >= 1 => F[k] = l[k]  BY <1>1, <1>4
  <2>4. Opens(l, k) /\ (Begun(l, k) <=> Begun(F, k))  BY <2>2, <2>3 DEF Story, Opens, Begun
  <2>5. \A i \in 1..d : F[k + i] = l[k + i] /\ i \in 1..n  BY <1>1, <2>1
  <2>6. \A i \in 1..d : Tells(l[k + i], i)  BY <2>5 DEF Story
  <2>7. Begun(F, k)  BY <2>1 DEF Story
  <2>8. k >= 1  BY <2>7, BegunEarly
  <2>9. Story(l, k, d)
    <3>1. k + d <= Len(l) /\ Len(l) <= k + d + 2 /\ ~(Len(l) > k + d) /\ Len(l) # k + d + 2
      BY <2>1
    <3> QED  BY <2>4, <2>6, <2>7, <2>8, <3>1 DEF Story
  <2> QED  BY <2>1, <2>9
<1>5. CASE Len(l) < k
  <2>1. k <= 3  BY BegunEarly
  <2>2. (Len(l) >= 1 => F[1] = l[1]) /\ (Len(l) >= 2 => F[2] = l[2])  BY <1>1
  <2>3. Opens(l, Len(l))  BY <1>1, <1>5, <2>1, <2>2, SMTT(40) DEF Story, Opens
  <2>4. Story(l, Len(l), 0)
    <3>1. /\ Len(l) + 0 <= Len(l) /\ Len(l) <= Len(l) + 0 + 2
          /\ ~(Len(l) > Len(l) + 0) /\ Len(l) # Len(l) + 0 + 2
          /\ ~(0 > 0) /\ \A i \in 1..0 : FALSE
      BY <1>1
    <3> QED  BY <1>2, <2>3, <3>1 DEF Story
  <2> QED  BY <1>1, <2>4
<1> QED  BY <1>1, <1>3, <1>4, <1>5

\* One more packet.
LEMMA OneMore ==
    ASSUME NEW F \in Seq(PacketType), NEW p \in PacketType, NEW k \in Nat, k <= Len(F)
    PROVE  /\ Append(F, p) \in Seq(PacketType)
           /\ Len(F) \in Nat /\ Len(Append(F, p)) = Len(F) + 1 /\ Append(F, p)[Len(F) + 1] = p
           /\ \A i \in 1..Len(F) : Append(F, p)[i] = F[i]
           /\ Append(F, p) # <<>>
           /\ Opens(Append(F, p), k) <=> Opens(F, k)
           /\ Begun(Append(F, p), k) <=> Begun(F, k)
<1> DEFINE G == Append(F, p)
<1>1. /\ G \in Seq(PacketType) /\ Len(F) \in Nat /\ Len(G) = Len(F) + 1 /\ G[Len(F) + 1] = p
      /\ \A i \in 1..Len(F) : G[i] = F[i]
  BY LengthsNat, AppendProperties
<1>2. G # <<>>  BY <1>1
<1> HIDE DEF G
<1>3. /\ k >= 1 => G[1] = F[1] /\ G[k] = F[k]
      /\ k >= 2 => G[2] = F[2]
      /\ k >= 3 => G[3] = F[3]
  BY <1>1
<1>4. (Opens(G, k) <=> Opens(F, k)) /\ (Begun(G, k) <=> Begun(F, k))
  BY <1>3 DEF Opens, Begun
<1> QED  BY <1>1, <1>2, <1>4 DEF G

\* The compiler's message, or the beginning of the grading.
LEMMA StoryOpening ==
    ASSUME NEW F \in Seq(PacketType), NEW k \in Nat, NEW n \in Nat, Story(F, k, n),
           Len(F) = k, NEW p \in PacketType,
           \/ k = 1 /\ p.name \in {"compile-message", "grading-begin"}
           \/ k = 2 /\ ~Begun(F, k) /\ p.name = "grading-begin"
    PROVE  /\ Story(Append(F, p), k + 1, 0)
           /\ Begun(Append(F, p), k + 1) <=> p.name = "grading-begin"
<1> DEFINE G == Append(F, p)
<1>1. /\ Len(F) \in Nat /\ Len(G) = k + 1 /\ G[k + 1] = p /\ G # <<>>
      /\ \A i \in 1..k : G[i] = F[i]
  BY OneMore
<1> HIDE DEF G
<1>2. Opens(F, k)  BY DEF Story
<1>3. CASE k = 1
  <2>1. G[1] = F[1] /\ G[2] = p  BY <1>1, <1>3
  <2>2. Opens(G, 2) /\ (Begun(G, 2) <=> p.name = "grading-begin")
    BY <1>2, <1>3, <2>1 DEF Opens, Begun
  <2>3. Len(G) = 2 /\ \A i \in 1..0 : FALSE  BY <1>1, <1>3
  <2>4. Story(G, 2, 0)  BY <2>2, <2>3 DEF Story
  <2> QED  BY <1>3, <2>2, <2>4 DEF G
<1>4. CASE k = 2 /\ ~Begun(F, k) /\ p.name = "grading-begin"
  <2>1. G[1] = F[1] /\ G[2] = F[2] /\ G[3] = p  BY <1>1, <1>4
  <2>2. Opens(G, 3) /\ Begun(G, 3)
    BY <1>2, <1>4, <2>1 DEF Opens, Begun
  <2>3. Len(G) = 3 /\ \A i \in 1..0 : FALSE  BY <1>1, <1>4
  <2>4. Story(G, 3, 0)  BY <2>2, <2>3 DEF Story
  <2> QED  BY <1>4, <2>2, <2>4 DEF G
<1> QED  BY <1>3, <1>4

\* The next entry of Plan.
LEMMA StoryItem ==
    ASSUME NEW F \in Seq(PacketType), NEW k \in Nat, NEW n \in Nat, Story(F, k, n),
           Len(F) = k + n, Begun(F, k), NEW p \in PacketType, Tells(p, n + 1)
    PROVE  Story(Append(F, p), k, n + 1) /\ Begun(Append(F, p), k)
<1> DEFINE G == Append(F, p)
<1>1. k <= Len(F)  OBVIOUS
<1>2. /\ Len(G) = k + n + 1 /\ G[k + n + 1] = p /\ G # <<>>
      /\ \A i \in 1..k + n : G[i] = F[i]
      /\ Opens(G, k) /\ Begun(G, k)
  BY <1>1, OneMore DEF Story
<1> HIDE DEF G
<1>3. ASSUME NEW i \in 1..n + 1 PROVE Tells(G[k + i], i)
  <2>1. CASE i = n + 1  BY <1>2, <2>1
  <2>2. CASE i \in 1..n
    <3>1. G[k + i] = F[k + i]  BY <1>2, <2>2
    <3> QED  BY <2>2, <3>1 DEF Story
  <2> QED  BY <2>1, <2>2
<1>4. k >= 1  BY DEF Begun
<1>5. /\ k + (n + 1) <= Len(G) /\ Len(G) <= k + (n + 1) + 2
      /\ ~(Len(G) > k + (n + 1)) /\ Len(G) # k + (n + 1) + 2
  BY <1>2
<1>6. Story(G, k, n + 1)  BY <1>2, <1>3, <1>4, <1>5 DEF Story
<1> QED  BY <1>2, <1>6 DEF G

\* The first verdict.
LEMMA StoryVerdict ==
    ASSUME NEW F \in Seq(PacketType), NEW k \in Nat, NEW n \in Nat, Story(F, k, n),
           Len(F) = k + n, k >= 1, NEW p \in PacketType, p.name \in Terminals,
           p.name = "compile-error" => ~Begun(F, k),
           p.name \in {"grading-end", "submission-terminated"} => Begun(F, k),
           p.name = "grading-end" => n = Len(Plan)
    PROVE  Story(Append(F, p), k, n) /\ (Begun(Append(F, p), k) <=> Begun(F, k))
<1> DEFINE G == Append(F, p)
<1>1. k <= Len(F)  OBVIOUS
<1>2. /\ Len(G) = k + n + 1 /\ G[k + n + 1] = p /\ G # <<>>
      /\ \A i \in 1..k + n : G[i] = F[i]
      /\ Opens(G, k) /\ (Begun(G, k) <=> Begun(F, k))
  BY <1>1, OneMore DEF Story
<1> HIDE DEF G
<1>3. \A i \in 1..n : G[k + i] = F[k + i]  BY <1>2
<1>4. \A i \in 1..n : Tells(G[k + i], i)  BY <1>3 DEF Story
<1>5. Closes(G, k, n)  BY <1>2 DEF Closes
<1>6. n > 0 => Begun(G, k)  BY <1>2 DEF Story
<1>7. k + n <= Len(G) /\ Len(G) <= k + n + 2 /\ Len(G) # k + n + 2  BY <1>2
<1>8. Story(G, k, n)  BY <1>2, <1>4, <1>5, <1>6, <1>7 DEF Story
<1> QED  BY <1>2, <1>8 DEF G

\* The failure of the judge, before or after a verdict.
LEMMA StoryFailure ==
    ASSUME NEW F \in Seq(PacketType), NEW k \in Nat, NEW n \in Nat, Story(F, k, n),
           Len(F) <= k + n + 1, k >= 1, NEW p \in PacketType, p.name = "internal-error"
    PROVE  Story(Append(F, p), k, n) /\ (Begun(Append(F, p), k) <=> Begun(F, k))
<1> DEFINE G == Append(F, p)
<1>0. Len(F) \in Nat /\ k + n <= Len(F)  BY LengthsNat DEF Story
<1>1. CASE Len(F) = k + n  BY <1>1, StoryVerdict DEF Terminals
<1>2. CASE Len(F) = k + n + 1
  <2>1. k <= Len(F)  BY <1>2
  <2>2. /\ Len(G) = k + n + 2 /\ G[k + n + 2] = p /\ G # <<>>
        /\ \A i \in 1..k + n + 1 : G[i] = F[i]
        /\ Opens(G, k) /\ (Begun(G, k) <=> Begun(F, k))
    <3>1. Opens(F, k)  BY DEF Story
    <3> QED  BY <1>2, <2>1, <3>1, OneMore
  <2> HIDE DEF G
  <2>3. \A i \in 1..n : G[k + i] = F[k + i]  BY <2>2
  <2>4. \A i \in 1..n : Tells(G[k + i], i)  BY <2>3 DEF Story
  <2>5. Closes(G, k, n)
    <3>1. G[k + n + 1] = F[k + n + 1] /\ Closes(F, k, n)  BY <1>2, <2>2 DEF Story
    <3> QED  BY <2>2, <3>1 DEF Closes
  <2>6. n > 0 => Begun(G, k)  BY <2>2 DEF Story
  <2>7. k + n <= Len(G) /\ Len(G) <= k + n + 2  BY <2>2
  <2>8. Story(G, k, n)  BY <2>2, <2>4, <2>5, <2>6, <2>7 DEF Story
  <2> QED  BY <2>2, <2>8 DEF G
<1> QED  BY <1>0, <1>1, <1>2
-----------------------------------------------------------------------------
(***************************************************************************)
(* Views.                                                                  *)
(***************************************************************************)
LEMMA ViewTyped ==
    ASSUME NEW s \in Submissions
    PROVE  (TypeOK => View(s) \in ViewType) /\ (TypeOK' => View(s)' \in ViewType)
<1>1. Len(Plan) \in Nat  BY PlanAssumption, LengthsNat
<1>2. 1..Len(Plan) + 1 \subseteq Nat  BY <1>1
<1>3. TypeOK => View(s) \in ViewType
  BY <1>2, EmptySeq DEF TypeOK, TypeJudge, TypeThread, TypeWorker, TypePipe, TypeLog, View, ViewType
<1>4. TypeOK' => View(s)' \in ViewType
  BY <1>2, EmptySeq DEF TypeOK, TypeJudge, TypeThread, TypeWorker, TypePipe, TypeLog, View, ViewType
<1> QED  BY <1>3, <1>4

LEMMA ViewLengths ==
    ASSUME NEW v \in ViewType
    PROVE  /\ Len(v.log) \in Nat /\ Len(v.queue) \in Nat /\ Len(v.up) \in Nat
           /\ Held(v) \in 0..1 /\ Taken(v) \in Nat /\ Greets(v) \in 0..1 /\ Leaves(v) \in 0..1
           /\ v.log \in Seq(PacketType) /\ v.queue \in Seq(CaseType) /\ v.up \in Seq(MessageType)
           /\ v.up # <<>> <=> Len(v.up) > 0
           /\ v.queue # <<>> <=> Len(v.queue) > 0
<1>1. v.log \in Seq(PacketType) /\ v.queue \in Seq(CaseType) /\ v.up \in Seq(MessageType)
  BY DEF ViewType
<1>2. Len(v.log) \in Nat /\ Len(v.queue) \in Nat /\ Len(v.up) \in Nat  BY <1>1, LengthsNat
<1>3. (v.up # <<>> <=> Len(v.up) > 0) /\ (v.queue # <<>> <=> Len(v.queue) > 0)
  BY <1>1, <1>2, EmptySeq
<1>h. Held(v) \in 0..1  BY DEF Held
<1>4. Taken(v) \in Nat
  <2> DEFINE a == Len(v.log)  b == Len(v.queue)
  <2>1. a \in Nat /\ b \in Nat /\ Taken(v) = a + b + Held(v)  BY <1>2 DEF Taken
  <2> HIDE DEF a, b
  <2> QED  BY <1>h, <2>1
<1>5. Greets(v) \in 0..1 /\ Leaves(v) \in 0..1  BY DEF Greets, Leaves
<1> QED  BY <1>1, <1>2, <1>3, <1>h, <1>4, <1>5

LEMMA NameTyped ==
    ASSUME NEW t \in UpTypes, t \notin {"HELLO", "BYE"}
    PROVE  /\ NameOf(t) \in PacketNames
           /\ NameOf(t) = "test-case-status" <=> t = "RESULT"
           /\ Packet(NameOf(t)) \in PacketType /\ Packet(NameOf(t)).name = NameOf(t)
<1>1. NameOf(t) \in PacketNames /\ (NameOf(t) = "test-case-status" <=> t = "RESULT")
  BY DEF NameOf, UpTypes, PacketOf, PacketNames, Terminals
<1> QED  BY <1>1, PacketTyped DEF Packet

LEMMA PacketForTyped ==
    ASSUME NEW m \in MessageType, m.type \notin {"HELLO", "BYE"}
    PROVE  PacketFor(m) \in PacketType /\ PacketFor(m).name = NameOf(m.type)
           /\ (m.type = "RESULT" => PacketFor(m).case = m.case)
<1>1. m.type \in UpTypes /\ m.case \in CaseType  BY DEF MessageType
<1>2. m.type # "RESULT" => PacketFor(m) = Packet(NameOf(m.type))  BY DEF PacketFor
<1>3. m.type = "RESULT" => PacketFor(m) = [name |-> "test-case-status", case |-> m.case]
  BY DEF PacketFor
<1> QED  BY <1>1, <1>2, <1>3, NameTyped DEF PacketType, PacketNames, NameOf

\* The log of w is the log of v with q after it.
Longer(v, w, q) ==
    /\ Len(w.log) = Len(v.log) + Len(q)
    /\ \A i \in 1..Len(v.log) : w.log[i] = v.log[i]
    /\ \A i \in 1..Len(q) : w.log[Len(v.log) + i] = q[i]

LEMMA ConcatLonger ==
    ASSUME NEW v \in ViewType, NEW w \in ViewType, NEW q \in Seq(PacketType), w.log = v.log \o q
    PROVE  Longer(v, w, q)
<1>1. v.log \in Seq(PacketType)  BY DEF ViewType
<1>2. /\ Len(v.log \o q) = Len(v.log) + Len(q)
      /\ \A i \in 1..Len(v.log) : (v.log \o q)[i] = v.log[i]
      /\ \A i \in 1..Len(q) : (v.log \o q)[Len(v.log) + i] = q[i]
  BY <1>1, ConcatElements
<1> QED  BY <1>2 DEF Longer

\* F still describes a log that grew by entries F has at that place.
LEMMA WrittenLonger ==
    ASSUME NEW v \in ViewType, NEW w \in ViewType, NEW F, NEW q, Len(q) \in Nat, Longer(v, w, q),
           \A i \in 1..Len(v.log) : F[i] = v.log[i],
           \A i \in 1..Len(q) : F[Len(v.log) + i] = q[i]
    PROVE  \A i \in 1..Len(w.log) : F[i] = w.log[i]
<1>1. Len(v.log) \in Nat /\ Len(w.log) \in Nat  BY ViewLengths
<1> SUFFICES ASSUME NEW i \in 1..Len(w.log) PROVE F[i] = w.log[i]  OBVIOUS
<1>2. CASE i <= Len(v.log)  BY <1>1, <1>2 DEF Longer
<1>3. CASE i > Len(v.log)
  <2>1. i - Len(v.log) \in 1..Len(q) /\ Len(v.log) + (i - Len(v.log)) = i
    BY <1>1, <1>3 DEF Longer
  <2>2. F[Len(v.log) + (i - Len(v.log))] = q[i - Len(v.log)]  BY <2>1
  <2>3. w.log[Len(v.log) + (i - Len(v.log))] = q[i - Len(v.log)]  BY <2>1 DEF Longer
  <2> QED  BY <2>1, <2>2, <2>3
<1> QED  BY <1>1, <1>2, <1>3

\* The queue goes to the site.
LEMMA WrittenFlush ==
    ASSUME NEW v \in ViewType, NEW w \in ViewType, NEW F, Written(v, F),
           Longer(v, w, Status(v.queue)), w.queue = <<>>,
           w.gt \in Holding <=> v.gt \in Holding, InHand(w) = InHand(v)
    PROVE  Written(w, F) /\ Taken(w) = Taken(v)
<1>1. Len(v.log) \in Nat /\ Len(v.queue) \in Nat /\ v.queue \in Seq(CaseType)
  BY ViewLengths
<1>2. Len(Status(v.queue)) = Len(v.queue)  BY <1>1, StatusType
<1>3. Len(w.queue) = 0 /\ \A i \in 1..0 : FALSE  BY EmptySeq
<1>4. Len(w.log) = Len(v.log) + Len(v.queue)  BY <1>2 DEF Longer
<1>h. Held(w) = Held(v) /\ Held(v) \in 0..1  BY DEF Held
<1>5. Taken(w) = Taken(v)  BY <1>1, <1>3, <1>4, <1>h DEF Taken
<1>6. \A i \in 1..Len(w.log) : F[i] = w.log[i]
  <2> DEFINE q == Status(v.queue)
  <2>1. /\ \A i \in 1..Len(v.log) : F[i] = v.log[i]
        /\ \A i \in 1..Len(q) : F[Len(v.log) + i] = q[i]
        /\ Len(q) \in Nat /\ Longer(v, w, q)
    BY <1>1, <1>2 DEF Written
  <2> HIDE DEF q
  <2> QED  BY <2>1, WrittenLonger
<1> QED  BY <1>3, <1>5, <1>6 DEF Written

\* A packet goes to the site while no case waits.
LEMMA WrittenSend ==
    ASSUME NEW v \in ViewType, NEW w \in ViewType, NEW F, Written(v, F), NEW p \in PacketType,
           v.queue = <<>>, w.queue = <<>>, Longer(v, w, <<p>>), w.gt \notin Holding,
           F[Len(v.log) + 1] = p
    PROVE  Written(w, F) /\ Taken(w) = Len(v.log) + 1
<1>1. Len(v.log) \in Nat  BY ViewLengths
<1>2. Len(<<p>>) = 1 /\ <<p>>[1] = p  OBVIOUS
<1>3. Len(w.queue) = 0 /\ \A i \in 1..0 : FALSE  BY EmptySeq
<1>4. Len(w.log) = Len(v.log) + 1  BY <1>2 DEF Longer
<1>5. Taken(w) = Len(v.log) + 1  BY <1>1, <1>3, <1>4 DEF Taken, Held
<1>7. \A i \in 1..Len(w.log) : F[i] = w.log[i]
  <2> DEFINE q == <<p>>
  <2>1. /\ \A i \in 1..Len(v.log) : F[i] = v.log[i]
        /\ \A i \in 1..Len(q) : F[Len(v.log) + i] = q[i]
        /\ Len(q) \in Nat /\ Longer(v, w, q)
    BY <1>2 DEF Written
  <2> HIDE DEF q
  <2> QED  BY <2>1, WrittenLonger
<1> QED  BY <1>3, <1>5, <1>7 DEF Written

LEMMA TailPlaces ==
    ASSUME NEW S, NEW q \in Seq(S), q # <<>>
    PROVE  /\ Len(Tail(q)) = Len(q) - 1 /\ Len(q) \in Nat \ {0} /\ Head(q) = q[1] /\ q[1] \in S
           /\ \A j \in 1..Len(q) - 1 : Tail(q)[j] = q[j + 1]
<1>1. Len(q) \in Nat \ {0} /\ Head(q) = q[1] /\ Len(Tail(q)) = Len(q) - 1
      /\ \A j \in 1..Len(q) - 1 : Tail(q)[j] = q[j + 1]
  BY HeadTailProperties, LenProperties, EmptySeq
<1>2. q[1] \in S  BY <1>1, ElementOfSeq
<1> QED  BY <1>1, <1>2

\* The grading thread takes the next message: what is left in the pipe still ends F.
LEMMA PendingReceive ==
    ASSUME NEW v \in ViewType, NEW w \in ViewType, NEW F \in Seq(PacketType), Pending(v, F),
           v.up # <<>>, w.up = Tail(v.up),
           v.up[1].type \in {"HELLO", "BYE"} => Taken(w) = Taken(v),
           v.up[1].type \notin {"HELLO", "BYE"} => Taken(w) = Taken(v) + 1
    PROVE  /\ Pending(w, F)
           /\ v.up[1].type \notin {"HELLO", "BYE"} =>
                /\ Taken(v) + 1 \in 1..Len(F)
                /\ F[Taken(v) + 1] = PacketFor(v.up[1])
           /\ Leaves(w) = 1 => Leaves(v) = 1
           /\ v.up[1].type = "BYE" => w.up = <<>> /\ Leaves(v) = 1
<1> DEFINE L == Len(v.up)
           t == v.up[1].type
           x == Taken(v)
<1>1. /\ L \in Nat \ {0} /\ x \in Nat /\ Taken(w) \in Nat /\ Len(w.up) = L - 1
      /\ \A j \in 1..L - 1 : w.up[j] = v.up[j + 1]
      /\ w.up # <<>> <=> L > 1
  <2>1. v.up \in Seq(MessageType) /\ L \in Nat /\ x \in Nat /\ Taken(w) \in Nat
        /\ (w.up # <<>> <=> Len(w.up) > 0)
    BY ViewLengths
  <2>2. /\ Len(Tail(v.up)) = L - 1 /\ L \in Nat \ {0}
        /\ \A j \in 1..L - 1 : Tail(v.up)[j] = v.up[j + 1]
    BY <2>1, TailPlaces
  <2> HIDE DEF L, x
  <2> QED  BY <2>1, <2>2
<1>2. /\ Len(F) = x + L - Greets(v) - Leaves(v)
      /\ \A j \in 1..L :
           /\ v.up[j].type = "HELLO" => j = 1
           /\ v.up[j].type = "BYE" => j = L
           /\ v.up[j].type \notin {"HELLO", "BYE"} => F[x - Greets(v) + j] = PacketFor(v.up[j])
  BY DEF Pending
<1>t. /\ t \in {"HELLO", "BYE"} => Taken(w) = x
      /\ t \notin {"HELLO", "BYE"} => Taken(w) = x + 1
  OBVIOUS
<1> HIDE DEF L, t, x
<1>3. (t = "HELLO" => Greets(v) = 1) /\ (t # "HELLO" => Greets(v) = 0)  BY DEF Greets, t
<1>4. Leaves(v) \in 0..1 /\ Leaves(w) \in 0..1 /\ Greets(v) \in 0..1  BY ViewLengths
<1>5. L > 1 => w.up[1] = v.up[2] /\ 2 \in 1..L /\ w.up[L - 1] = v.up[L]
  <2>1. L > 1 => 1 \in 1..L - 1 /\ L - 1 \in 1..L - 1 /\ (L - 1) + 1 = L /\ 1 + 1 = 2
    BY <1>1
  <2> QED  BY <1>1, <2>1
<1>6. Greets(w) = 0
  <2>1. L > 1 => w.up[1].type # "HELLO"
    <3>1. v.up[2].type = "HELLO" /\ 2 \in 1..L => FALSE  BY <1>2
    <3> QED  BY <1>5, <3>1
  <2> QED  BY <1>1, <2>1 DEF Greets
<1>7. L > 1 => Leaves(w) = Leaves(v)  BY <1>1, <1>5 DEF Leaves, L
<1>8. L = 1 => Leaves(w) = 0  BY <1>1 DEF Leaves
<1>9. t = "BYE" => L = 1 /\ Leaves(v) = 1
  <2>1. 1 \in 1..L /\ v.up # <<>>  BY <1>1
  <2>2. t = "BYE" => L = 1  BY <1>2, <2>1 DEF t
  <2> QED  BY <2>1, <2>2 DEF Leaves, L, t
<1>10. L = 1 /\ t # "BYE" => Leaves(v) = 0  BY DEF Leaves, L, t
<1>11. Len(F) = Taken(w) + (L - 1) - 0 - Leaves(w)
  <2>1. CASE t = "HELLO"  BY <1>1, <1>2, <1>3, <1>4, <1>7, <1>8, <1>10, <1>t, <2>1
  <2>2. CASE t = "BYE"  BY <1>1, <1>2, <1>3, <1>4, <1>8, <1>9, <1>t, <2>2
  <2>3. CASE t \notin {"HELLO", "BYE"}
    BY <1>1, <1>2, <1>3, <1>4, <1>7, <1>8, <1>10, <1>t, <2>3
  <2> QED  BY <2>1, <2>2, <2>3
<1>12. ASSUME NEW j \in 1..L - 1
       PROVE  /\ w.up[j].type # "HELLO"
              /\ w.up[j].type = "BYE" => j = L - 1
              /\ w.up[j].type \notin {"HELLO", "BYE"} => F[Taken(w) - 0 + j] = PacketFor(w.up[j])
  <2>1. w.up[j] = v.up[j + 1] /\ j + 1 \in 1..L /\ j + 1 # 1  BY <1>1
  <2>2. t # "BYE"  BY <1>1, <1>9
  <2>3. Taken(w) - 0 + j = x - Greets(v) + (j + 1)
    <3>1. CASE t = "HELLO"  BY <1>1, <1>3, <1>t, <3>1
    <3>2. CASE t \notin {"HELLO", "BYE"}  BY <1>1, <1>3, <1>t, <3>2
    <3> QED  BY <2>2, <3>1, <3>2
  <2> QED  BY <1>1, <1>2, <2>1, <2>3, SMTT(40)
<1>13. Pending(w, F)
  <2>1. Len(w.up) = L - 1  BY <1>1
  <2> QED  BY <1>6, <1>11, <1>12, <2>1 DEF Pending
<1>14. t \notin {"HELLO", "BYE"} => x + 1 \in 1..Len(F) /\ F[x + 1] = PacketFor(v.up[1])
  <2>1. 1 \in 1..L  BY <1>1
  <2>2. t \notin {"HELLO", "BYE"} => Greets(v) = 0  BY <1>3
  <2>3. t \notin {"HELLO", "BYE"} => Len(F) >= x + 1  BY <1>1, <1>4, <1>11, <1>7, <1>8, <1>t
  <2>4. t \notin {"HELLO", "BYE"} => x - Greets(v) + 1 = x + 1  BY <1>1, <2>2
  <2> QED  BY <1>1, <1>2, <2>1, <2>3, <2>4 DEF t
<1>15. Leaves(w) = 1 => Leaves(v) = 1  BY <1>1, <1>7, <1>8
<1>16. t = "BYE" => w.up = <<>>  BY <1>1, <1>9
<1> QED  BY <1>9, <1>13, <1>14, <1>15, <1>16 DEF t, x

LEMMA AppendPlaces ==
    ASSUME NEW S, NEW q \in Seq(S), NEW x \in S
    PROVE  /\ Len(q) \in Nat /\ Len(Append(q, x)) = Len(q) + 1 /\ Append(q, x)[Len(q) + 1] = x
           /\ \A i \in 1..Len(q) : Append(q, x)[i] = q[i]
           /\ Append(q, x) # <<>>
<1>1. /\ Append(q, x) \in Seq(S) /\ Len(q) \in Nat /\ Len(Append(q, x)) = Len(q) + 1
      /\ Append(q, x)[Len(q) + 1] = x /\ \A i \in 1..Len(q) : Append(q, x)[i] = q[i]
  BY AppendProperties, LengthsNat
<1>2. Append(q, x) # <<>>  BY <1>1, EmptySeq
<1> QED  BY <1>1, <1>2

LEMMA UpAppend ==
    ASSUME NEW v \in ViewType, NEW w, NEW m \in MessageType, w.up = Append(v.up, m)
    PROVE  /\ Len(w.up) = Len(v.up) + 1 /\ w.up[Len(v.up) + 1] = m /\ w.up # <<>>
           /\ \A j \in 1..Len(v.up) : w.up[j] = v.up[j]
<1> DEFINE q == v.up
<1>1. q \in Seq(MessageType) /\ w.up = Append(q, m)  BY DEF ViewType
<1> HIDE DEF q
<1>2. /\ Len(Append(q, m)) = Len(q) + 1 /\ Append(q, m)[Len(q) + 1] = m /\ Append(q, m) # <<>>
      /\ \A j \in 1..Len(q) : Append(q, m)[j] = q[j]
  BY <1>1, AppendPlaces
<1> QED  BY <1>1, <1>2 DEF q

\* F is at least as long as what was taken off the pipe.
LEMMA TakenIn ==
    ASSUME NEW v \in ViewType, NEW F \in Seq(PacketType), Pending(v, F)
    PROVE  /\ Taken(v) \in Nat /\ Taken(v) <= Len(F)
           /\ v.up = <<>> => Taken(v) = Len(F)
<1> DEFINE L == Len(v.up)
<1>1. /\ L \in Nat /\ (v.up # <<>> <=> L > 0) /\ Taken(v) \in Nat
      /\ Greets(v) \in 0..1 /\ Leaves(v) \in 0..1
  BY ViewLengths
<1>2. Len(F) = Taken(v) + L - Greets(v) - Leaves(v)  BY DEF Pending
<1>3. Greets(v) = 1 => L >= 1 /\ v.up[1].type = "HELLO"  BY <1>1 DEF Greets
<1>4. Leaves(v) = 1 => L >= 1 /\ v.up[L].type = "BYE"  BY <1>1 DEF Leaves
<1>5. Greets(v) = 1 /\ Leaves(v) = 1 => L # 1  BY <1>3, <1>4
<1>6. Greets(v) + Leaves(v) <= L
  <2> HIDE DEF L
  <2>1. CASE Greets(v) = 0 /\ Leaves(v) = 0  BY <1>1, <2>1
  <2>2. CASE Greets(v) = 1 /\ Leaves(v) = 0  BY <1>1, <1>3, <2>2
  <2>3. CASE Greets(v) = 0 /\ Leaves(v) = 1  BY <1>1, <1>4, <2>3
  <2>4. CASE Greets(v) = 1 /\ Leaves(v) = 1  BY <1>1, <1>3, <1>5, <2>4
  <2> QED  BY <1>1, <2>1, <2>2, <2>3, <2>4
<1>7. v.up = <<>> => Greets(v) = 0 /\ Leaves(v) = 0  BY DEF Greets, Leaves
<1> HIDE DEF L
<1> QED  BY <1>1, <1>2, <1>6, <1>7

\* Nothing left the pipe, and F may have grown at its end.
LEMMA WrittenKept ==
    ASSUME NEW v \in ViewType, NEW w \in ViewType, NEW F \in Seq(PacketType), NEW G,
           Written(v, F), Pending(v, F), \A i \in 1..Len(F) : G[i] = F[i],
           w.log = v.log, w.queue = v.queue,
           w.gt \in Holding <=> v.gt \in Holding, InHand(w) = InHand(v)
    PROVE  Written(w, G) /\ Taken(w) = Taken(v)
<1>1. Held(w) = Held(v)  BY DEF Held
<1>2. Taken(w) = Taken(v)  BY <1>1 DEF Taken
<1> DEFINE a == Len(v.log)
           b == Len(v.queue)
<1>3. /\ a \in Nat /\ b \in Nat /\ Held(v) \in 0..1 /\ Len(F) \in Nat
      /\ Taken(v) = a + b + Held(v) /\ Taken(v) <= Len(F)
  BY ViewLengths, TakenIn, LengthsNat DEF Taken
<1>4. v.gt \in Holding => Held(v) = 1  BY DEF Held
<1>5. /\ \A i \in 1..a : F[i] = v.log[i]
      /\ \A i \in 1..b : F[a + i] = Status(v.queue)[i]
      /\ v.gt \in Holding => F[Taken(v)] = InHand(v)
  BY DEF Written
<1>w. (/\ \A i \in 1..a : G[i] = v.log[i]
       /\ \A i \in 1..b : G[a + i] = Status(v.queue)[i]
       /\ v.gt \in Holding => G[Taken(v)] = InHand(v))
      => Written(w, G)
  BY <1>2 DEF Written
<1> HIDE DEF a, b
<1>6. \A i \in 1..a : G[i] = v.log[i]
  <2>1. \A i \in 1..a : i \in 1..Len(F)  BY <1>3
  <2> QED  BY <1>5, <2>1
<1>7. \A i \in 1..b : G[a + i] = Status(v.queue)[i]
  <2>1. \A i \in 1..b : a + i \in 1..Len(F)  BY <1>3
  <2> QED  BY <1>5, <2>1
<1>8. v.gt \in Holding => G[Taken(v)] = InHand(v)
  <2>1. v.gt \in Holding => Taken(v) \in 1..Len(F)  BY <1>3, <1>4
  <2> QED  BY <1>5, <2>1
<1> QED  BY <1>2, <1>6, <1>7, <1>8, <1>w

\* The worker says something the site is to hear.
LEMMA PendingSay ==
    ASSUME NEW v \in ViewType, NEW w \in ViewType, NEW F \in Seq(PacketType), Pending(v, F),
           NEW m \in MessageType, m.type \notin {"HELLO", "BYE"}, Leaves(v) = 0,
           w.up = Append(v.up, m), Taken(w) = Taken(v)
    PROVE  Pending(w, Append(F, PacketFor(m))) /\ Leaves(w) = 0
<1> DEFINE L == Len(v.up)
           x == Taken(v)
           g == Greets(v)
           p == PacketFor(m)
           G == Append(F, p)
<1>1. /\ L \in Nat /\ x \in Nat /\ g \in 0..1 /\ (v.up # <<>> <=> L > 0)
      /\ v.up \in Seq(MessageType)
  BY ViewLengths
<1>2. /\ Len(w.up) = L + 1 /\ w.up[L + 1] = m /\ w.up # <<>>
      /\ \A j \in 1..L : w.up[j] = v.up[j]
  BY UpAppend
<1>3. /\ Len(F) = x + L - g
      /\ \A j \in 1..L :
           /\ v.up[j].type = "HELLO" => j = 1
           /\ v.up[j].type = "BYE" => j = L
           /\ v.up[j].type \notin {"HELLO", "BYE"} => F[x - g + j] = PacketFor(v.up[j])
  <2>1. /\ Len(F) = x + L - g - Leaves(v)
        /\ \A j \in 1..L :
             /\ v.up[j].type = "HELLO" => j = 1
             /\ v.up[j].type = "BYE" => j = L
             /\ v.up[j].type \notin {"HELLO", "BYE"} => F[x - g + j] = PacketFor(v.up[j])
    BY DEF Pending
  <2> HIDE DEF L, x, g
  <2> QED  BY <1>1, <2>1
<1>4. /\ Len(F) \in Nat /\ Len(G) = Len(F) + 1 /\ G[Len(F) + 1] = p
      /\ \A i \in 1..Len(F) : G[i] = F[i]
  BY PacketForTyped, AppendPlaces
<1>5. L > 0 => v.up[L].type # "BYE"  BY <1>1 DEF Leaves
<1>6. g = 1 => L > 0 /\ v.up[1].type = "HELLO"  BY <1>1 DEF Greets
<1>7. Greets(w) = g
  <2>1. L > 0 => w.up[1] = v.up[1]  BY <1>1, <1>2
  <2>2. L = 0 => w.up[1] = m  BY <1>2
  <2> QED  BY <1>1, <1>2, <2>1, <2>2 DEF Greets
<1>8. Leaves(w) = 0
  <2>1. w.up[Len(w.up)] = m  BY <1>2
  <2> QED  BY <2>1 DEF Leaves
<1>w. (/\ Len(G) = x + (L + 1) - g - 0
       /\ \A j \in 1..L + 1 :
           /\ w.up[j].type = "HELLO" => j = 1
           /\ w.up[j].type = "BYE" => j = L + 1
           /\ w.up[j].type \notin {"HELLO", "BYE"} => G[x - g + j] = PacketFor(w.up[j]))
      => Pending(w, G)
  BY <1>2, <1>7, <1>8 DEF Pending
<1> HIDE DEF L, x, g, p, G
<1>9. Len(G) = x + (L + 1) - g - 0  BY <1>1, <1>3, <1>4
<1>10. ASSUME NEW j \in 1..L + 1
       PROVE  /\ w.up[j].type = "HELLO" => j = 1
              /\ w.up[j].type = "BYE" => j = L + 1
              /\ w.up[j].type \notin {"HELLO", "BYE"} => G[x - g + j] = PacketFor(w.up[j])
  <2>1. CASE j = L + 1
    <3>1. x - g + j = Len(F) + 1  BY <1>1, <1>3, <2>1
    <3> QED  BY <1>2, <1>4, <2>1, <3>1 DEF p
  <2>2. CASE j \in 1..L
    <3>1. w.up[j] = v.up[j] /\ v.up[j].type # "BYE"  BY <1>1, <1>2, <1>3, <1>5, <2>2
    <3>2. v.up[j].type # "HELLO" => x - g + j \in 1..Len(F)
      <4>1. v.up[j].type # "HELLO" /\ g = 1 => j > 1  BY <1>1, <1>6, <2>2
      <4>2. CASE g = 0  BY <1>1, <1>3, <2>2, <4>2
      <4>3. CASE g = 1  BY <1>1, <1>3, <2>2, <4>1, <4>3
      <4> QED  BY <1>1, <4>2, <4>3
    <3> QED  BY <1>3, <1>4, <2>2, <3>1, <3>2
  <2>3. j = L + 1 \/ j \in 1..L  BY <1>1
  <2> QED  BY <2>1, <2>2, <2>3
<1> QED  BY <1>8, <1>9, <1>10, <1>w DEF G, p

\* The worker says BYE.
LEMMA PendingBye ==
    ASSUME NEW v \in ViewType, NEW w \in ViewType, NEW F \in Seq(PacketType), Pending(v, F),
           NEW m \in MessageType, m.type = "BYE", Leaves(v) = 0,
           w.up = Append(v.up, m), Taken(w) = Taken(v)
    PROVE  Pending(w, F) /\ Leaves(w) = 1
<1> DEFINE L == Len(v.up)
           x == Taken(v)
           g == Greets(v)
<1>1. /\ L \in Nat /\ x \in Nat /\ g \in 0..1 /\ (v.up # <<>> <=> L > 0)
      /\ v.up \in Seq(MessageType)
  BY ViewLengths
<1>2. /\ Len(w.up) = L + 1 /\ w.up[L + 1] = m /\ w.up # <<>>
      /\ \A j \in 1..L : w.up[j] = v.up[j]
  <2>1. /\ Len(w.up) = Len(v.up) + 1 /\ w.up[Len(v.up) + 1] = m /\ w.up # <<>>
        /\ \A j \in 1..Len(v.up) : w.up[j] = v.up[j]
    BY UpAppend
  <2> QED  BY <2>1
<1>3. /\ Len(F) = x + L - g - 0
      /\ \A j \in 1..L :
           /\ v.up[j].type = "HELLO" => j = 1
           /\ v.up[j].type = "BYE" => j = L
           /\ v.up[j].type \notin {"HELLO", "BYE"} => F[x - g + j] = PacketFor(v.up[j])
  BY DEF Pending
<1>5. L > 0 => v.up[L].type # "BYE"  BY <1>1 DEF Leaves
<1>7. Greets(w) = g
  <2>1. L > 0 => w.up[1] = v.up[1]  BY <1>1, <1>2
  <2>2. L = 0 => w.up[1] = m  BY <1>2
  <2> QED  BY <1>1, <1>2, <2>1, <2>2 DEF Greets
<1>8. Leaves(w) = 1
  <2>1. w.up[Len(w.up)] = m  BY <1>2
  <2> QED  BY <1>2, <2>1 DEF Leaves
<1>w. (/\ Len(F) = x + (L + 1) - g - 1
       /\ \A j \in 1..L + 1 :
           /\ w.up[j].type = "HELLO" => j = 1
           /\ w.up[j].type = "BYE" => j = L + 1
           /\ w.up[j].type \notin {"HELLO", "BYE"} => F[x - g + j] = PacketFor(w.up[j]))
      => Pending(w, F)
  BY <1>2, <1>7, <1>8 DEF Pending
<1> HIDE DEF L, x, g
<1>9. Len(F) = x + (L + 1) - g - 1  BY <1>1, <1>3
<1>10. ASSUME NEW j \in 1..L + 1
       PROVE  /\ w.up[j].type = "HELLO" => j = 1
              /\ w.up[j].type = "BYE" => j = L + 1
              /\ w.up[j].type \notin {"HELLO", "BYE"} => F[x - g + j] = PacketFor(w.up[j])
  <2>1. CASE j = L + 1  BY <1>2, <2>1
  <2>2. CASE j \in 1..L
    <3>1. w.up[j] = v.up[j] /\ v.up[j].type # "BYE"  BY <1>1, <1>2, <1>3, <1>5, <2>2
    <3> QED  BY <1>3, <2>2, <3>1
  <2>3. j = L + 1 \/ j \in 1..L  BY <1>1
  <2> QED  BY <2>1, <2>2, <2>3
<1> QED  BY <1>8, <1>9, <1>10, <1>w
-----------------------------------------------------------------------------
(***************************************************************************)
(* What the steps do to a view: first the worker's.                        *)
(***************************************************************************)
\* The judge's part of the view is the same.
JudgeSame(v, w) == w.log = v.log /\ w.queue = v.queue /\ w.gt = v.gt /\ w.msg = v.msg

LEMMA SameWritten ==
    ASSUME NEW v \in ViewType, NEW w \in ViewType, NEW F \in Seq(PacketType), NEW G,
           Written(v, F), Pending(v, F), \A i \in 1..Len(F) : G[i] = F[i], JudgeSame(v, w)
    PROVE  Written(w, G) /\ Taken(w) = Taken(v)
<1>1. /\ w.log = v.log /\ w.queue = v.queue /\ (w.gt \in Holding <=> v.gt \in Holding)
      /\ InHand(w) = InHand(v)
  BY DEF JudgeSame, InHand
<1> QED  BY <1>1, WrittenKept

\* A worker ends, or goes on without a word.
LEMMA ToldQuiet ==
    ASSUME NEW v \in ViewType, NEW w \in ViewType, NEW F \in Seq(PacketType),
           NEW k \in Nat, NEW n \in Nat, Told(v, F, k, n), JudgeSame(v, w), w.up = v.up,
           \/ w.main = v.main /\ w.step = v.step
           \/ w.main = "exited" /\ v.main # "off"
           \/ /\ v.main \in {"grade", "running", "check"} /\ w.step = v.step
              /\ w.main \in {"grade", "running", "check"}
              /\ v.main = "grade" => Plan[v.step] = "CASE"
           \/ v.main = "compile" /\ w.main = "begin" /\ w.step = v.step
    PROVE  Told(w, F, k, n)
<1>1. Written(w, F) /\ Taken(w) = Taken(v)  BY SameWritten DEF Told
<1>2. Greets(w) = Greets(v) /\ Leaves(w) = Leaves(v)  BY DEF Greets, Leaves
<1>3. Pending(w, F)  BY <1>1, <1>2 DEF Told, Pending
<1>4. WorkerAt(w, F, k, n)
  <2>1. k = 1 => ~Begun(F, k)  BY DEF Begun
  <2> QED  BY <1>2, <2>1 DEF Told, WorkerAt
<1>5. Stage(w, F, k, n)
  <2>1. v.main = "off" => w.main = "off"  OBVIOUS
  <2>2. v.main # "off" => w.main # "off"  OBVIOUS
  <2>3. v.main \in {"finally", "exited"} => w.main \in {"finally", "exited"}  OBVIOUS
  <2> QED  BY <2>1, <2>2, <2>3 DEF Told, Stage, JudgeSame
<1> QED  BY <1>1, <1>3, <1>4, <1>5 DEF Told

Working == {"compile", "begin", "grade", "running", "check"}

\* A worker that still works stands in front of an open pipe.
LEMMA WorkingStage ==
    ASSUME NEW v \in ViewType, NEW F, NEW k \in Nat, NEW n \in Nat, Told(v, F, k, n),
           v.main \in Working \cup {"hello", "bye"}
    PROVE  /\ v.gt \in {"recv", "flush", "send", "report", "report-send"}
           /\ Leaves(v) = 0 /\ k >= 1
<1>1. v.gt \in GtPcs  BY DEF ViewType
<1>2. v.gt \notin {"off", "error", "error-send", "join", "clear", "release", "done"}
  BY DEF Told, Stage, Working
<1>3. v.main \notin {"finally", "exited"}  BY DEF Working
<1> QED  BY <1>1, <1>2, <1>3 DEF Told, Stage, WorkerAt, GtPcs

\* The worker continues the story.
LEMMA ToldSay ==
    ASSUME NEW v \in ViewType, NEW w \in ViewType, NEW F \in Seq(PacketType),
           NEW k \in Nat, NEW n \in Nat, Told(v, F, k, n), JudgeSame(v, w),
           v.main \in Working, NEW m \in MessageType, m.type \notin {"HELLO", "BYE"},
           w.up = Append(v.up, m), NEW a \in Nat, NEW b \in Nat, a >= 1,
           Story(Append(F, PacketFor(m)), a, b),
           \/ /\ w.main = "begin" /\ w.step = v.step
              /\ Len(F) + 1 = a /\ ~Begun(Append(F, PacketFor(m)), a) /\ v.main = "compile"
           \/ /\ w.main = "grade" /\ Begun(Append(F, PacketFor(m)), a)
              /\ Len(F) + 1 = a + b /\ w.step = b + 1
           \/ w.main = "bye" /\ Len(F) + 1 = a + b + 1
    PROVE  Append(F, PacketFor(m)) \in Seq(PacketType) /\ Told(w, Append(F, PacketFor(m)), a, b)
<1> DEFINE G == Append(F, PacketFor(m))
<1>1. /\ G \in Seq(PacketType) /\ Len(F) \in Nat /\ Len(G) = Len(F) + 1
      /\ \A i \in 1..Len(F) : G[i] = F[i]
  BY PacketForTyped, AppendPlaces, AppendProperties
<1>2. Leaves(v) = 0 /\ v.gt \in {"recv", "flush", "send", "report", "report-send"}
  BY WorkingStage
<1>3. Written(v, F) /\ Pending(v, F)  BY DEF Told
<1>4. Written(w, G) /\ Taken(w) = Taken(v)  BY <1>1, <1>3, SameWritten
<1>5. Pending(w, G) /\ Leaves(w) = 0  BY <1>2, <1>3, <1>4, PendingSay
<1> HIDE DEF G
<1>6. w.main \in {"begin", "grade", "bye"}  OBVIOUS
<1>7. WorkerAt(w, G, a, b)
  <2>1. w.main = "begin" => w.step = 1  BY DEF Told, WorkerAt
  <2> QED  BY <1>1, <1>5, <2>1 DEF WorkerAt, G
<1>8. Stage(w, G, a, b)
  <2>1. Len(G) <= a + b + 1  BY <1>1
  <2>2. w.gt = v.gt  BY DEF JudgeSame
  <2> QED  BY <1>2, <1>6, <2>1, <2>2 DEF Stage
<1>9. Story(G, a, b)  BY DEF G
<1> QED  BY <1>1, <1>4, <1>5, <1>7, <1>8, <1>9 DEF Told, G

\* HELLO and BYE add nothing to the story.
LEMMA ToldHello ==
    ASSUME NEW v \in ViewType, NEW w \in ViewType, NEW F \in Seq(PacketType),
           NEW k \in Nat, NEW n \in Nat, Told(v, F, k, n), JudgeSame(v, w), v.main = "hello",
           NEW m \in MessageType, m.type = "HELLO", w.up = Append(v.up, m), w.main = "compile",
           w.step = v.step
    PROVE  Told(w, F, k, n)
<1>1. v.up = <<>> /\ k = 1 /\ Len(F) = 1 /\ Written(v, F) /\ Pending(v, F) /\ Story(F, k, n)
  BY DEF Told, WorkerAt
<1>2. Written(w, F) /\ Taken(w) = Taken(v)  BY <1>1, SameWritten
<1>3. Taken(v) = Len(F) /\ Taken(v) \in Nat  BY <1>1, TakenIn
<1>4. Len(w.up) = 1 /\ w.up[1] = m /\ w.up # <<>>
  <2>1. Len(v.up) = 0  BY <1>1, EmptySeq
  <2> QED  BY <2>1, UpAppend
<1>5. Greets(w) = 1 /\ Leaves(w) = 0  BY <1>4 DEF Greets, Leaves
<1>6. Pending(w, F)  BY <1>2, <1>3, <1>4, <1>5 DEF Pending
<1>7. WorkerAt(w, F, k, n)
  <2>1. w.step = 1  BY DEF Told, WorkerAt
  <2> QED  BY <1>1, <1>5, <2>1 DEF WorkerAt
<1>8. Stage(w, F, k, n)
  <2>1. v.gt \in {"recv", "flush", "send", "report", "report-send"} /\ w.gt = v.gt
    BY WorkingStage DEF JudgeSame
  <2> QED  BY <2>1 DEF Told, Stage
<1> QED  BY <1>1, <1>2, <1>6, <1>7, <1>8 DEF Told

LEMMA ToldBye ==
    ASSUME NEW v \in ViewType, NEW w \in ViewType, NEW F \in Seq(PacketType),
           NEW k \in Nat, NEW n \in Nat, Told(v, F, k, n), JudgeSame(v, w), v.main = "bye",
           NEW m \in MessageType, m.type = "BYE", w.up = Append(v.up, m), w.main = "finally"
    PROVE  Told(w, F, k, n)
<1>1. Len(F) = k + n + 1 /\ Written(v, F) /\ Pending(v, F) /\ Story(F, k, n)
  BY DEF Told, WorkerAt
<1>2. /\ v.gt \in {"recv", "flush", "send", "report", "report-send"} /\ w.gt = v.gt
      /\ Leaves(v) = 0
  BY WorkingStage DEF JudgeSame
<1>3. Written(w, F) /\ Taken(w) = Taken(v)  BY <1>1, SameWritten
<1>4. Pending(w, F) /\ Leaves(w) = 1  BY <1>1, <1>2, <1>3, PendingBye
<1>5. WorkerAt(w, F, k, n)  BY <1>1, <1>4 DEF WorkerAt
<1>6. Stage(w, F, k, n)  BY <1>2 DEF Told, Stage
<1> QED  BY <1>1, <1>3, <1>4, <1>5, <1>6 DEF Told
-----------------------------------------------------------------------------
(***************************************************************************)
(* The judge's steps.                                                      *)
(***************************************************************************)
WorkerSame(v, w) == w.main = v.main /\ w.step = v.step

\* The worker is where it was, and the pipe loses messages only.
LEMMA WorkerStays ==
    ASSUME NEW v \in ViewType, NEW w \in ViewType, NEW F, NEW k, NEW n, Told(v, F, k, n),
           WorkerSame(v, w), v.up = <<>> => w.up = <<>>, Leaves(w) = 1 => Leaves(v) = 1
    PROVE  WorkerAt(w, F, k, n)
<1>1. Leaves(v) \in 0..1 /\ Leaves(w) \in 0..1  BY ViewLengths
<1>2. Leaves(v) = 0 => Leaves(w) = 0  BY <1>1
<1> QED  BY <1>2 DEF Told, WorkerAt, WorkerSame

\* The queue goes to the site, from the flush thread or before a packet of its own.
LEMMA ToldFlush ==
    ASSUME NEW v \in ViewType, NEW w \in ViewType, NEW F \in Seq(PacketType),
           NEW k \in Nat, NEW n \in Nat, Told(v, F, k, n), v.gt # "off",
           Longer(v, w, Status(v.queue)), w.queue = <<>>, w.msg = v.msg, w.up = v.up,
           WorkerSame(v, w),
           \/ w.gt = v.gt
           \/ v.gt = "flush" /\ w.gt = "send"
           \/ v.gt = "report" /\ w.gt = "report-send"
           \/ v.gt = "error" /\ w.gt = "error-send"
    PROVE  Told(w, F, k, n)
<1>1. (w.gt \in Holding <=> v.gt \in Holding) /\ InHand(w) = InHand(v)
  BY DEF Holding, InHand
<1>2. Written(w, F) /\ Taken(w) = Taken(v)  BY <1>1, WrittenFlush DEF Told
<1>3. Greets(w) = Greets(v) /\ Leaves(w) = Leaves(v)  BY DEF Greets, Leaves
<1>4. Pending(w, F)  BY <1>2, <1>3 DEF Told, Pending
<1>5. WorkerAt(w, F, k, n)  BY <1>3, WorkerStays
<1>6. Stage(w, F, k, n)
  <2>1. w.gt # "off"  OBVIOUS
  <2> QED  BY <2>1 DEF Told, Stage, WorkerSame
<1> QED  BY <1>2, <1>4, <1>5, <1>6 DEF Told

\* The packet in hand goes to the site.
LEMMA ToldSend ==
    ASSUME NEW v \in ViewType, NEW w \in ViewType, NEW F \in Seq(PacketType),
           NEW k \in Nat, NEW n \in Nat, Told(v, F, k, n),
           InHand(v) \in PacketType, v.queue = <<>>, w.queue = <<>>,
           Longer(v, w, <<InHand(v)>>), w.up = v.up, WorkerSame(v, w),
           \/ v.gt \in {"send", "report-send"} /\ w.gt = "recv"
           \/ v.gt = "error-send" /\ w.gt = "join"
    PROVE  Told(w, F, k, n)
<1>1. v.gt \in Holding /\ w.gt \notin Holding /\ Held(v) = 1  BY DEF Holding, Held
<1>2. Taken(v) = Len(v.log) + 1
  <2> DEFINE a == Len(v.log)
  <2>1. a \in Nat /\ Len(v.queue) = 0  BY ViewLengths, EmptySeq
  <2>2. Taken(v) = a + Len(v.queue) + Held(v)  BY DEF Taken
  <2> HIDE DEF a
  <2>3. Taken(v) = a + 1  BY <1>1, <2>1, <2>2
  <2> QED  BY <2>3 DEF a
<1>3. F[Len(v.log) + 1] = InHand(v)  BY <1>1, <1>2 DEF Told, Written
<1>4. Written(v, F)  BY DEF Told
<1>5. Written(w, F) /\ Taken(w) = Taken(v)  BY <1>1, <1>2, <1>3, <1>4, WrittenSend
<1>6. Greets(w) = Greets(v) /\ Leaves(w) = Leaves(v)  BY DEF Greets, Leaves
<1>7. Pending(w, F)  BY <1>5, <1>6 DEF Told, Pending
<1>8. WorkerAt(w, F, k, n)  BY <1>6, WorkerStays
<1>9. Stage(w, F, k, n)  BY DEF Told, Stage, WorkerSame
<1> QED  BY <1>5, <1>7, <1>8, <1>9 DEF Told

\* The thread puts its affairs in order.
LEMMA ToldAfter ==
    ASSUME NEW v \in ViewType, NEW w \in ViewType, NEW F \in Seq(PacketType),
           NEW k \in Nat, NEW n \in Nat, Told(v, F, k, n),
           w.log = v.log, v.queue = <<>>, w.queue = <<>>, w.up = v.up,
           v.gt \in {"join", "clear", "release"}, w.gt \in {"clear", "release", "done"},
           w.main \in {v.main, "exited"}
    PROVE  Told(w, F, k, n)
<1>1. /\ (w.gt \in Holding <=> v.gt \in Holding) /\ InHand(w) = InHand(v)
      /\ w.queue = v.queue /\ Written(v, F) /\ Pending(v, F)
  BY DEF Holding, InHand, Told
<1>2. Written(w, F) /\ Taken(w) = Taken(v)  BY <1>1, WrittenKept
<1>3. Greets(w) = Greets(v) /\ Leaves(w) = Leaves(v)  BY DEF Greets, Leaves
<1>4. Pending(w, F)  BY <1>2, <1>3 DEF Told, Pending
<1>5. Stage(w, F, k, n)  BY DEF Told, Stage
<1>6. WorkerAt(w, F, k, n)
  <2>1. w.main \in {"finally", "exited"}  BY DEF Told, Stage
  <2> QED  BY <1>3, <2>1 DEF Told, WorkerAt
<1> QED  BY <1>2, <1>4, <1>5, <1>6 DEF Told

\* The judge fails: it is about to say so.
LEMMA ToldFail ==
    ASSUME NEW v \in ViewType, NEW w \in ViewType, NEW F \in Seq(PacketType),
           NEW k \in Nat, NEW n \in Nat, Told(v, F, k, n),
           w.log = v.log, w.queue = v.queue, v.up = <<>>, w.up = <<>>,
           v.gt = "recv", w.gt = "error", w.main \in {"finally", "exited"}
    PROVE  /\ Append(F, Packet("internal-error")) \in Seq(PacketType)
           /\ Told(w, Append(F, Packet("internal-error")), k, n)
<1> DEFINE p == Packet("internal-error")
           G == Append(F, p)
<1>1. p \in PacketType /\ p.name = "internal-error"
  BY PacketTyped DEF Packet, PacketNames, Terminals
<1> HIDE DEF p
<1>2. /\ G \in Seq(PacketType) /\ Len(F) \in Nat /\ Len(G) = Len(F) + 1 /\ G[Len(F) + 1] = p
      /\ \A i \in 1..Len(F) : G[i] = F[i]
  BY <1>1, AppendPlaces, AppendProperties
<1>3. Story(F, k, n) /\ k >= 1 /\ Len(F) <= k + n + 1  BY DEF Told, Stage
<1>4. Story(G, k, n)  BY <1>1, <1>3, StoryFailure
<1> HIDE DEF G
<1>5. Taken(v) = Len(F) /\ Written(v, F)  BY TakenIn DEF Told
<1>6. Taken(w) = Len(G)
  <2> DEFINE c == Len(v.log) + Len(v.queue)
  <2>1. Held(v) = 0 /\ Held(w) = 1  BY DEF Held, Holding
  <2>2. c \in Nat
    <3> DEFINE a == Len(v.log)
               b == Len(v.queue)
    <3>1. a \in Nat /\ b \in Nat  BY ViewLengths
    <3> HIDE DEF a, b
    <3>2. a + b \in Nat  BY <3>1
    <3> QED  BY <3>2 DEF a, b
  <2>3. Taken(v) = c + Held(v) /\ Taken(w) = c + Held(w)  BY DEF Taken
  <2> HIDE DEF c
  <2> QED  BY <1>2, <1>5, <2>1, <2>2, <2>3
<1>7. Written(w, G)
  <2> DEFINE a == Len(v.log)
             b == Len(v.queue)
  <2>1. a \in Nat /\ b \in Nat /\ Len(F) = a + b
    <3>1. Held(v) = 0  BY DEF Held, Holding
    <3>2. Len(F) = a + b + Held(v)  BY <1>5 DEF Taken
    <3>3. a \in Nat /\ b \in Nat  BY ViewLengths
    <3> HIDE DEF a, b
    <3> QED  BY <3>1, <3>2, <3>3
  <2>2. /\ \A i \in 1..a : F[i] = v.log[i]
        /\ \A i \in 1..b : F[a + i] = Status(v.queue)[i]
    BY <1>5 DEF Written
  <2>3. InHand(w) = p  BY DEF InHand, p
  <2>4. (/\ \A i \in 1..a : G[i] = v.log[i]
         /\ \A i \in 1..b : G[a + i] = Status(v.queue)[i]
         /\ G[Len(G)] = p)
        => Written(w, G)
    BY <1>6, <2>3 DEF Written
  <2> HIDE DEF a, b
  <2>5. \A i \in 1..a : G[i] = v.log[i]
    <3>1. \A i \in 1..a : i \in 1..Len(F)  BY <2>1
    <3> QED  BY <1>2, <2>2, <3>1
  <2>6. \A i \in 1..b : G[a + i] = Status(v.queue)[i]
    <3>1. \A i \in 1..b : a + i \in 1..Len(F)  BY <2>1
    <3> QED  BY <1>2, <2>2, <3>1
  <2>7. G[Len(G)] = p  BY <1>2
  <2> QED  BY <2>4, <2>5, <2>6, <2>7
<1>8. Greets(w) = 0 /\ Leaves(w) = 0 /\ Len(w.up) = 0  BY EmptySeq DEF Greets, Leaves
<1>9. Pending(w, G)
  <2>1. Len(G) = Taken(w) + 0 - 0 - 0 /\ \A j \in 1..0 : FALSE  BY <1>2, <1>6
  <2> QED  BY <1>8, <2>1 DEF Pending
<1>10. WorkerAt(w, G, k, n)  BY <1>8 DEF WorkerAt
<1>11. Len(G) > k + n  BY <1>2, <1>3 DEF Story
<1>12. Stage(w, G, k, n)  BY <1>3, <1>11 DEF Stage
<1> QED  BY <1>2, <1>4, <1>7, <1>9, <1>10, <1>12 DEF Told, G, p

\* A request, and the start of its grading.
LEMMA ToldRequest ==
    ASSUME NEW v \in ViewType, NEW w \in ViewType, NEW F \in Seq(PacketType),
           NEW k \in Nat, NEW n \in Nat, Told(v, F, k, n), v.gt = "off", w.gt = "off",
           w.log = <<Packet("submission-acknowledged")>>, v.queue = <<>>, w.queue = <<>>,
           w.up = v.up, WorkerSame(v, w)
    PROVE  Told(w, w.log, 1, 0)
<1> DEFINE p == Packet("submission-acknowledged")
           G == w.log
<1>1. G = <<p>> /\ Len(G) = 1 /\ G[1].name = "submission-acknowledged" /\ G # <<>>
  BY DEF Packet
<1>2. w.up = <<>> /\ w.main = "off" /\ w.step = 1  BY DEF Told, Stage, WorkerAt, WorkerSame
<1>3. Len(w.queue) = 0 /\ Held(w) = 0 /\ Len(w.up) = 0  BY <1>2, EmptySeq DEF Held, Holding
<1>4. Taken(w) = 1  BY <1>1, <1>3 DEF Taken
<1>5. \A i \in 1..0 : FALSE  OBVIOUS
<1>6. Greets(w) = 0 /\ Leaves(w) = 0  BY <1>2 DEF Greets, Leaves
<1> HIDE DEF p, G
<1>7. Story(G, 1, 0)
  <2>1. Opens(G, 1)  BY <1>1 DEF Opens
  <2> QED  BY <1>1, <1>5, <2>1 DEF Story
<1>8. Written(w, G)  BY <1>3, <1>5 DEF Written, Holding, G
<1>9. Pending(w, G)  BY <1>1, <1>3, <1>4, <1>5, <1>6 DEF Pending
<1>10. WorkerAt(w, G, 1, 0)  BY <1>2, <1>6 DEF WorkerAt
<1>11. Stage(w, G, 1, 0)  BY <1>1, <1>2 DEF Stage, G
<1> QED  BY <1>7, <1>8, <1>9, <1>10, <1>11 DEF Told, G

LEMMA ToldStart ==
    ASSUME NEW v \in ViewType, NEW w \in ViewType, NEW F \in Seq(PacketType),
           NEW k \in Nat, NEW n \in Nat, Told(v, F, k, n), v.gt = "off", w.gt = "recv",
           v.log # <<>>, w.log = v.log, v.queue = <<>>, w.queue = <<>>, w.up = v.up, w.main = "hello",
           w.step = v.step
    PROVE  Told(w, F, k, n)
<1>1. v.up = <<>> /\ k <= 1 /\ Len(v.log) = k /\ n = 0 /\ Written(v, F) /\ Pending(v, F)
  BY DEF Told, Stage
<1>2. k = 1
  <2>1. Len(v.log) # 0  BY EmptySeq DEF ViewType
  <2> QED  BY <1>1, <2>1
<1>3. /\ (w.gt \in Holding <=> v.gt \in Holding) /\ InHand(w) = InHand(v) /\ w.queue = v.queue
  BY DEF Holding, InHand
<1>4. Written(w, F) /\ Taken(w) = Taken(v)  BY <1>1, <1>3, WrittenKept
<1>5. Greets(w) = Greets(v) /\ Leaves(w) = Leaves(v) /\ Leaves(w) = 0  BY <1>1 DEF Greets, Leaves
<1>6. Pending(w, F)  BY <1>4, <1>5 DEF Told, Pending
<1>7. Len(F) = 1
  <2>1. Len(v.queue) = 0 /\ Held(v) = 0  BY EmptySeq DEF Held, Holding
  <2>2. Taken(v) = 1  BY <1>1, <1>2, <2>1 DEF Taken
  <2> QED  BY <1>1, <2>2, TakenIn
<1>8. WorkerAt(w, F, k, n)
  <2>1. v.step = 1  BY DEF Told, Stage, WorkerAt
  <2> QED  BY <1>1, <1>2, <1>5, <1>7, <2>1 DEF WorkerAt
<1>9. Stage(w, F, k, n)  BY <1>2, <1>7 DEF Stage
<1> QED  BY <1>4, <1>6, <1>8, <1>9 DEF Told

\* The thread takes a message.
Takes(v, w) == v.gt = "recv" /\ v.up # <<>> /\ w.up = Tail(v.up) /\ WorkerSame(v, w)

\* HELLO and BYE change nothing but the pipe; after BYE there was a verdict, and
\* the worker is in its finally clause or gone.
LEMMA ToldSkip ==
    ASSUME NEW v \in ViewType, NEW w \in ViewType, NEW F \in Seq(PacketType),
           NEW k \in Nat, NEW n \in Nat, Told(v, F, k, n), Takes(v, w), JudgeSame(v, w),
           v.up[1].type \in {"HELLO", "BYE"}
    PROVE  /\ Told(w, F, k, n)
           /\ v.up[1].type = "BYE" =>
                w.up = <<>> /\ Len(F) > k + n /\ w.main \in {"finally", "exited"}
<1>1. Written(v, F) /\ Pending(v, F) /\ v.up # <<>> /\ w.up = Tail(v.up)
  BY DEF Told, Takes
<1>2. Written(w, F) /\ Taken(w) = Taken(v)  BY <1>1, SameWritten
<1>3. /\ Pending(w, F) /\ (Leaves(w) = 1 => Leaves(v) = 1)
      /\ v.up[1].type = "BYE" => w.up = <<>> /\ Leaves(v) = 1
  BY <1>1, <1>2, PendingReceive
<1>4. WorkerAt(w, F, k, n)  BY <1>1, <1>3, WorkerStays DEF Takes
<1>5. Stage(w, F, k, n)  BY DEF Told, Stage, Takes, JudgeSame, WorkerSame
<1>6. Leaves(v) = 1 => Len(F) > k + n /\ v.main \in {"finally", "exited"}
  BY DEF Told, WorkerAt
<1> QED  BY <1>1, <1>2, <1>3, <1>4, <1>5, <1>6 DEF Told, Takes, WorkerSame

\* After BYE the thread waits for the worker's end.
LEMMA ToldJoin ==
    ASSUME NEW v \in ViewType, NEW w \in ViewType, NEW F \in Seq(PacketType),
           NEW k \in Nat, NEW n \in Nat, Told(v, F, k, n),
           w.log = v.log, w.queue = v.queue, v.up = <<>>, w.up = <<>>, WorkerSame(v, w),
           v.gt = "recv", w.gt = "join", Len(F) > k + n, w.main \in {"finally", "exited"}
    PROVE  Told(w, F, k, n)
<1>1. /\ (w.gt \in Holding <=> v.gt \in Holding) /\ InHand(w) = InHand(v)
      /\ Written(v, F) /\ Pending(v, F)
  BY DEF Holding, InHand, Told
<1>2. Written(w, F) /\ Taken(w) = Taken(v)  BY <1>1, WrittenKept
<1>3. Greets(w) = Greets(v) /\ Leaves(w) = Leaves(v)  BY DEF Greets, Leaves
<1>4. Pending(w, F)  BY <1>2, <1>3 DEF Told, Pending
<1>5. WorkerAt(w, F, k, n)  BY <1>3, WorkerStays
<1>6. Stage(w, F, k, n)  BY DEF Told, Stage
<1> QED  BY <1>2, <1>4, <1>5, <1>6 DEF Told

\* Every other message is the entry of F that follows what was taken.
LEMMA NextEntry ==
    ASSUME NEW v \in ViewType, NEW w \in ViewType, NEW F \in Seq(PacketType),
           NEW k \in Nat, NEW n \in Nat, Told(v, F, k, n), Takes(v, w),
           v.up[1].type \notin {"HELLO", "BYE"}
    PROVE  /\ v.up[1] \in MessageType
           /\ Taken(v) = Len(v.log) + Len(v.queue) /\ Taken(v) \in Nat
           /\ Taken(v) + 1 \in 1..Len(F) /\ F[Taken(v) + 1] = PacketFor(v.up[1])
           /\ Taken(w) = Taken(v) + 1 =>
                Pending(w, F) /\ WorkerAt(w, F, k, n)
<1>1. /\ v.gt = "recv" /\ v.up # <<>> /\ w.up = Tail(v.up) /\ WorkerSame(v, w)
      /\ Pending(v, F) /\ v.up \in Seq(MessageType)
  BY DEF Takes, Told, ViewType
<1>2. v.up[1] \in MessageType  BY <1>1, TailPlaces
<1>3. Taken(v) = Len(v.log) + Len(v.queue) /\ Taken(v) \in Nat
  <2> DEFINE a == Len(v.log)
             b == Len(v.queue)
  <2>1. Held(v) = 0 /\ a \in Nat /\ b \in Nat /\ Taken(v) = a + b + Held(v)
    BY <1>1, ViewLengths DEF Held, Holding, Taken
  <2> HIDE DEF a, b
  <2>2. Taken(v) = a + b /\ Taken(v) \in Nat  BY <2>1
  <2> QED  BY <2>2 DEF a, b
<1>4. Taken(v) + 1 \in 1..Len(F) /\ F[Taken(v) + 1] = PacketFor(v.up[1])
  <2> DEFINE L == Len(v.up)
             x == Taken(v)
  <2>1. L \in Nat \ {0}  BY <1>1, ViewLengths
  <2>2. /\ Len(F) = x + L - Greets(v) - Leaves(v)
        /\ F[x - Greets(v) + 1] = PacketFor(v.up[1])
    BY <1>1, <2>1 DEF Pending
  <2>3. Greets(v) = 0 /\ Leaves(v) \in 0..1 /\ (L = 1 => Leaves(v) = 0)
    BY ViewLengths DEF Greets, Leaves
  <2>4. x \in Nat  BY <1>3
  <2> HIDE DEF L, x
  <2>7. x + 1 \in 1..Len(F)
    <3>1. CASE L = 1  BY <2>2, <2>3, <2>4, <3>1
    <3>2. CASE L > 1  BY <2>1, <2>2, <2>3, <2>4, <3>2
    <3> QED  BY <2>1, <3>1, <3>2
  <2>8. x - Greets(v) + 1 = x + 1  BY <2>3, <2>4
  <2> QED  BY <2>2, <2>7, <2>8 DEF x
<1>5. ASSUME Taken(w) = Taken(v) + 1 PROVE Pending(w, F) /\ WorkerAt(w, F, k, n)
  <2>1. Pending(w, F) /\ (Leaves(w) = 1 => Leaves(v) = 1)  BY <1>1, <1>5, PendingReceive
  <2> QED  BY <1>1, <2>1, WorkerStays
<1> QED  BY <1>2, <1>3, <1>4, <1>5

LEMMA ToldResult ==
    ASSUME NEW v \in ViewType, NEW w \in ViewType, NEW F \in Seq(PacketType),
           NEW k \in Nat, NEW n \in Nat, Told(v, F, k, n), Takes(v, w),
           v.up[1].type = "RESULT", w.log = v.log, w.gt = v.gt,
           w.queue = Append(v.queue, v.up[1].case)
    PROVE  Told(w, F, k, n)
<1>1. /\ v.up[1] \in MessageType
      /\ Taken(v) = Len(v.log) + Len(v.queue) /\ Taken(v) \in Nat
      /\ F[Taken(v) + 1] = PacketFor(v.up[1])
      /\ Taken(w) = Taken(v) + 1 => Pending(w, F) /\ WorkerAt(w, F, k, n)
  BY NextEntry
<1> DEFINE a == Len(v.log)
           b == Len(v.queue)
           c == v.up[1].case
           q == v.queue
<1>2. a \in Nat /\ b \in Nat /\ q \in Seq(CaseType) /\ w.queue \in Seq(CaseType)
  BY ViewLengths
<1>3. c \in CaseType /\ PacketFor(v.up[1]) = [name |-> "test-case-status", case |-> c]
  BY <1>1 DEF MessageType, PacketFor
<1>4. w.queue = Append(q, c)  OBVIOUS
<1> HIDE DEF c, q
<1>5. Len(w.queue) = Len(q) + 1 /\ w.queue[Len(q) + 1] = c /\ \A i \in 1..Len(q) : w.queue[i] = q[i]
  BY <1>2, <1>3, <1>4, AppendPlaces
<1>6. /\ \A i \in 1..Len(q) :
           Status(q)[i] = [name |-> "test-case-status", case |-> q[i]]
      /\ \A i \in 1..Len(w.queue) :
           Status(w.queue)[i] = [name |-> "test-case-status", case |-> w.queue[i]]
  BY <1>2, StatusType
<1>7. Held(w) = 0 /\ w.gt \notin Holding  BY DEF Takes, Held, Holding
<1>8. Taken(w) = Taken(v) + 1
  <2>1. Taken(w) = a + Len(w.queue) + Held(w) /\ Len(w.queue) = b + 1
    BY <1>5 DEF Taken, q
  <2> HIDE DEF a, b
  <2>2. Taken(w) = a + b + 1  BY <1>2, <1>7, <2>1
  <2>3. Taken(v) = a + b  BY <1>1 DEF a, b
  <2> QED  BY <2>2, <2>3
<1>9. /\ \A i \in 1..a : F[i] = v.log[i]
      /\ \A i \in 1..b : F[a + i] = Status(q)[i]
  BY DEF Told, Written, q
<1>10. F[a + (b + 1)] = [name |-> "test-case-status", case |-> c]
  <2>1. Taken(v) = a + b  BY <1>1
  <2> HIDE DEF a, b
  <2>2. Taken(v) + 1 = a + (b + 1)  BY <1>2, <2>1
  <2> QED  BY <1>1, <1>3, <2>2
<1>11. Len(q) = b  BY DEF q
<1>w. ((\A i \in 1..a : F[i] = v.log[i])
       /\ \A i \in 1..b + 1 : F[a + i] = Status(w.queue)[i])
      => Written(w, F)
  BY <1>5, <1>7, <1>11 DEF Written
<1> HIDE DEF a, b
<1>12. ASSUME NEW i \in 1..b + 1 PROVE F[a + i] = Status(w.queue)[i]
  <2>1. CASE i = b + 1
    <3>1. i \in 1..Len(w.queue)  BY <1>2, <1>5, <1>11, <2>1
    <3> QED  BY <1>5, <1>6, <1>10, <1>11, <2>1, <3>1
  <2>2. CASE i \in 1..b
    <3>1. i \in 1..Len(w.queue) /\ i \in 1..Len(q)  BY <1>2, <1>5, <1>11, <2>2
    <3>2. F[a + i] = Status(q)[i]  BY <1>9, <2>2
    <3>3. Status(w.queue)[i] = [name |-> "test-case-status", case |-> w.queue[i]]  BY <1>6, <3>1
    <3>4. Status(q)[i] = [name |-> "test-case-status", case |-> q[i]]  BY <1>6, <3>1
    <3>5. w.queue[i] = q[i]  BY <1>5, <3>1
    <3> QED  BY <3>2, <3>3, <3>4, <3>5
  <2>3. i = b + 1 \/ i \in 1..b  BY <1>2
  <2> QED  BY <2>1, <2>2, <2>3
<1>13. Written(w, F)  BY <1>9, <1>12, <1>w
<1>14. Stage(w, F, k, n)  BY DEF Told, Stage, Takes, WorkerSame
<1> QED  BY <1>1, <1>8, <1>13, <1>14 DEF Told

\* No case is queued when a packet arrives that is not sent after a flush: cases
\* follow the compiler's words and the beginning, and exclude a compile error.
LEMMA DirectAlone ==
    ASSUME NEW v \in ViewType, NEW w \in ViewType, NEW F \in Seq(PacketType),
           NEW k \in Nat, NEW n \in Nat, Told(v, F, k, n), Takes(v, w),
           v.up[1].type \in DirectTypes
    PROVE  v.queue = <<>>
<1>1. v.up[1].type \notin {"HELLO", "BYE", "RESULT"}  BY DEF DirectTypes
<1>2. /\ v.up[1] \in MessageType
      /\ Taken(v) = Len(v.log) + Len(v.queue) /\ Taken(v) \in Nat
      /\ Taken(v) + 1 \in 1..Len(F) /\ F[Taken(v) + 1] = PacketFor(v.up[1])
  BY <1>1, NextEntry
<1>3. PacketFor(v.up[1]).name \in {"compile-error", "compile-message", "grading-begin"}
  BY <1>1, <1>2, PacketForTyped DEF DirectTypes, NameOf, PacketOf
<1> DEFINE a == Len(v.log)
           b == Len(v.queue)
           x == Taken(v)
<1>4. SUFFICES ASSUME v.queue # <<>> PROVE FALSE  OBVIOUS
<1>5. /\ a \in Nat /\ b \in Nat /\ b >= 1 /\ x = a + b /\ x + 1 \in 1..Len(F) /\ Len(F) \in Nat
      /\ v.queue \in Seq(CaseType)
  <2>1. a \in Nat /\ b \in Nat /\ (v.queue # <<>> <=> b > 0) /\ v.queue \in Seq(CaseType)
    BY ViewLengths
  <2>2. Len(F) \in Nat  BY LengthsNat
  <2>3. x = a + b /\ x + 1 \in 1..Len(F)  BY <1>2
  <2> HIDE DEF a, b, x
  <2> QED  BY <1>4, <2>1, <2>2, <2>3
<1>6. F[a + 1].name = "test-case-status"
  <2>1. 1 \in 1..b  BY <1>5
  <2>2. F[a + 1] = Status(v.queue)[1]  BY <2>1 DEF Told, Written
  <2>3. \A i \in 1..Len(v.queue) :
          Status(v.queue)[i] = [name |-> "test-case-status", case |-> v.queue[i]]
    BY <1>5, StatusType
  <2>4. Status(v.queue)[1] = [name |-> "test-case-status", case |-> v.queue[1]]
    <3> DEFINE q == Status(v.queue)
    <3>1. \A i \in 1..b : q[i] = [name |-> "test-case-status", case |-> v.queue[i]]  BY <2>3
    <3> HIDE DEF q, b
    <3>2. q[1] = [name |-> "test-case-status", case |-> v.queue[1]]  BY <2>1, <3>1
    <3> QED  BY <3>2 DEF q
  <2>5. Status(v.queue)[1].name = "test-case-status"  BY <2>4
  <2> QED  BY <2>2, <2>5
<1>s. Story(F, k, n)  BY DEF Told
<1> HIDE DEF a, b, x
<1>7. a + 1 \in 1..Len(F)  BY <1>5
<1>8. a + 1 > k /\ a + 1 <= k + n /\ Begun(F, k)
  BY <1>5, <1>6, <1>7, <1>s, Places DEF Terminals
<1>9. x + 1 > k  BY <1>5, <1>8
<1>10. F[x + 1].name \in {"compile-error", "compile-message", "grading-begin"}
  BY <1>2, <1>3 DEF x
<1>11. F[x + 1].name = "compile-error" /\ x + 1 > k + n
  BY <1>5, <1>9, <1>10, <1>s, Places DEF Terminals
<1> QED  BY <1>5, <1>8, <1>11, <1>s, Places

LEMMA ToldDirect ==
    ASSUME NEW v \in ViewType, NEW w \in ViewType, NEW F \in Seq(PacketType),
           NEW k \in Nat, NEW n \in Nat, Told(v, F, k, n), Takes(v, w),
           v.up[1].type \in DirectTypes, w.gt = v.gt, w.queue = v.queue,
           Longer(v, w, <<Packet(PacketOf[v.up[1].type])>>)
    PROVE  Told(w, F, k, n)
<1> DEFINE p == Packet(PacketOf[v.up[1].type])
<1>1. v.up[1].type \notin {"HELLO", "BYE", "RESULT"}  BY DEF DirectTypes
<1>2. /\ v.up[1] \in MessageType
      /\ Taken(v) = Len(v.log) + Len(v.queue) /\ Taken(v) \in Nat
      /\ F[Taken(v) + 1] = PacketFor(v.up[1])
      /\ Taken(w) = Taken(v) + 1 => Pending(w, F) /\ WorkerAt(w, F, k, n)
  BY <1>1, NextEntry
<1>3. PacketFor(v.up[1]) = p /\ p \in PacketType
  <2>1. NameOf(v.up[1].type) = PacketOf[v.up[1].type]  BY DEF DirectTypes, NameOf
  <2>2. PacketFor(v.up[1]) = p  BY <1>1, <2>1 DEF PacketFor
  <2> QED  BY <1>1, <1>2, <2>2, PacketForTyped
<1> HIDE DEF p
<1>4. v.queue = <<>> /\ Len(v.queue) = 0  BY DirectAlone, EmptySeq
<1>5. Taken(v) = Len(v.log)
  <2> DEFINE a == Len(v.log)
  <2>1. a \in Nat /\ Taken(v) = a + 0  BY <1>2, <1>4, ViewLengths
  <2> HIDE DEF a
  <2>2. Taken(v) = a  BY <2>1
  <2> QED  BY <2>2 DEF a
<1>6. w.gt \notin Holding /\ Written(v, F)  BY DEF Takes, Holding, Told
<1>7. F[Len(v.log) + 1] = p  BY <1>2, <1>3, <1>5
<1>8. Longer(v, w, <<p>>)  BY DEF p
<1>9. Written(w, F) /\ Taken(w) = Len(v.log) + 1
  BY <1>3, <1>4, <1>6, <1>7, <1>8, WrittenSend
<1>10. Stage(w, F, k, n)  BY DEF Told, Stage, Takes, WorkerSame
<1> QED  BY <1>2, <1>5, <1>9, <1>10 DEF Told

\* A message whose packet waits for a flush is now in hand.
LEMMA ToldHold ==
    ASSUME NEW v \in ViewType, NEW w \in ViewType, NEW F \in Seq(PacketType),
           NEW k \in Nat, NEW n \in Nat, Told(v, F, k, n), Takes(v, w),
           w.log = v.log, w.queue = v.queue,
           \/ v.up[1].type \in FlushTypes /\ w.gt = "flush" /\ w.msg = v.up[1].type
           \/ v.up[1].type = "UNHANDLED_EXCEPTION" /\ w.gt = "report"
    PROVE  Told(w, F, k, n)
<1>1. v.up[1].type \notin {"HELLO", "BYE", "RESULT"}  BY DEF FlushTypes
<1>2. /\ v.up[1] \in MessageType
      /\ Taken(v) = Len(v.log) + Len(v.queue) /\ Taken(v) \in Nat
      /\ F[Taken(v) + 1] = PacketFor(v.up[1])
      /\ Taken(w) = Taken(v) + 1 => Pending(w, F) /\ WorkerAt(w, F, k, n)
  BY <1>1, NextEntry
<1>3. InHand(w) = PacketFor(v.up[1])
  <2>1. PacketFor(v.up[1]) = Packet(NameOf(v.up[1].type))  BY <1>1 DEF PacketFor
  <2>2. CASE v.up[1].type \in FlushTypes /\ w.gt = "flush" /\ w.msg = v.up[1].type
    BY <2>1, <2>2 DEF InHand
  <2>3. CASE v.up[1].type = "UNHANDLED_EXCEPTION" /\ w.gt = "report"
    BY <2>1, <2>3 DEF InHand, NameOf
  <2> QED  BY <2>2, <2>3
<1>4. w.gt \in Holding /\ Held(w) = 1  BY DEF Holding, Held
<1>5. Taken(w) = Taken(v) + 1
  <2>1. Taken(w) = Len(v.log) + Len(v.queue) + Held(w)  BY DEF Taken
  <2> QED  BY <1>2, <1>4, <2>1
<1>6. Written(w, F)  BY <1>2, <1>3, <1>5 DEF Told, Written
<1>7. Stage(w, F, k, n)  BY DEF Told, Stage, Takes, WorkerSame
<1> QED  BY <1>2, <1>5, <1>6, <1>7 DEF Told
-----------------------------------------------------------------------------
(***************************************************************************)
(* The steps of the threads.                                               *)
(***************************************************************************)
\* The site always heard a story.
LEMMA TaleHeard ==
    ASSUME TypeOK, NEW s \in Submissions, Tale(s)
    PROVE  \E k, n \in Nat : Story(log[s], k, n)
<1>1. CASE judge # "up"  BY <1>1 DEF Tale
<1>2. CASE judge = "up"
  <2> DEFINE v == View(s)
  <2>1. PICK F \in Seq(PacketType), k \in Nat, n \in Nat : Told(v, F, k, n)
    BY <1>2 DEF Tale
  <2>2. v \in ViewType /\ v.log = log[s]  BY ViewTyped DEF View
  <2> HIDE DEF v
  <2>3. /\ Story(F, k, n) /\ Pending(v, F) /\ \A i \in 1..Len(v.log) : F[i] = v.log[i]
        /\ v.log \in Seq(PacketType)
    BY <2>1, <2>2, ViewLengths DEF Told, Written
  <2>4. Len(v.log) <= Len(F)
    <3> DEFINE a == Len(v.log)
               b == Len(v.queue)
    <3>1. a \in Nat /\ b \in Nat /\ Held(v) \in 0..1 /\ Taken(v) = a + b + Held(v)
      BY <2>2, ViewLengths DEF Taken
    <3>2. Taken(v) <= Len(F) /\ Len(F) \in Nat  BY <2>2, <2>3, TakenIn, LengthsNat
    <3> HIDE DEF a, b
    <3>3. a <= Len(F)  BY <3>1, <3>2
    <3> QED  BY <3>3 DEF a
  <2> QED  BY <2>2, <2>3, <2>4, StoryPrefix
<1> QED  BY <1>1, <1>2

\* A judge that exits sends nothing any more.
LEMMA TaleDown ==
    ASSUME TypeOK, NEW s \in Submissions, Tale(s), log'[s] = log[s], judge' # "up"
    PROVE  Tale(s)'
BY TaleHeard DEF Tale

\* A step that leaves submission s alone, except that its worker may end.
LEMMA TaleFrame ==
    ASSUME TypeOK, TypeOK', NEW s \in Submissions, Tale(s), judge' = "up" => judge = "up",
           log'[s] = log[s], up'[s] = up[s], gt'[s] = gt[s], msg'[s] = msg[s],
           (IF current = s THEN queue ELSE <<>>)' = (IF current = s THEN queue ELSE <<>>),
           \/ main'[s] = main[s] /\ step'[s] = step[s]
           \/ main'[s] = "exited" /\ main[s] # "off"
    PROVE  Tale(s)'
<1>1. CASE judge' # "up"  BY <1>1, TaleDown
<1>2. CASE judge' = "up"
  <2> DEFINE v == View(s)
             w == View(s)'
  <2>1. PICK F \in Seq(PacketType), k \in Nat, n \in Nat : Told(v, F, k, n)
    BY <1>2 DEF Tale
  <2>2. v \in ViewType /\ w \in ViewType  BY ViewTyped
  <2>3. /\ JudgeSame(v, w) /\ w.up = v.up
        /\ v.main = main[s] /\ w.main = main'[s] /\ v.step = step[s] /\ w.step = step'[s]
    BY DEF View, JudgeSame
  <2> HIDE DEF v, w
  <2>4. Told(w, F, k, n)  BY <2>1, <2>2, <2>3, ToldQuiet
  <2> QED  BY <1>2, <2>4 DEF Tale, w
<1> QED  BY <1>1, <1>2

\* The other submissions are not concerned by the steps of a grading thread.
LEMMA GradingLocal ==
    ASSUME TypeOK, Handover, NEW s \in Submissions, GradingThread(s),
           NEW t \in Submissions, t # s
    PROVE  /\ log'[t] = log[t] /\ up'[t] = up[t] /\ gt'[t] = gt[t] /\ msg'[t] = msg[t]
           /\ main'[t] = main[t] /\ step'[t] = step[t]
<1>t. /\ gt \in [Submissions -> GtPcs] /\ msg \in [Submissions -> UpTypes]
      /\ main \in [Submissions -> MainPcs] /\ log \in [Submissions -> Seq(PacketType)]
      /\ up \in [Submissions -> Seq(MessageType)] /\ step \in [Submissions -> 1..Len(Plan) + 1]
  BY DEF TypeOK, TypeThread, TypeWorker, TypePipe, TypeLog
<1>c. gt[s] \notin {"off", "release", "done"} => current = s  BY DEF Handover
<1>g. Gone(s) => main'[t] = main[t] /\ step'[t] = step[t] /\ up'[t] = up[t]
  BY <1>t DEF Gone
<1>s. ASSUME NEW packets, Send(packets), current = s PROVE log'[t] = log[t]
  BY <1>s, <1>t DEF Send
<1>f. ASSUME Flush, current = s PROVE log'[t] = log[t]
  BY <1>f, <1>s DEF Flush, NoSend
<1>r. ASSUME NEW T, Receive(s, T)
      PROVE  up'[t] = up[t] /\ main'[t] = main[t] /\ step'[t] = step[t] /\ current = s
  BY <1>r, <1>t, <1>c DEF Receive, workerVars
<1>1. CASE ReceiveHello(s) \/ ReceiveResult(s) \/ ReceiveFlushing(s) \/ ReceiveUnhandled(s)
  BY <1>1, <1>r, <1>t
  DEF ReceiveHello, ReceiveResult, ReceiveFlushing, ReceiveUnhandled, threadVars
<1>2. CASE ReceiveDirect(s)
  BY <1>2, <1>r, <1>s DEF ReceiveDirect, SendPacket, threadVars
<1>3. CASE ReceiveBye(s)
  BY <1>3, <1>r, <1>t DEF ReceiveBye
<1>4. CASE ReceiveEof(s) \/ ReceiveTimeout(s)
  BY <1>4, <1>g, <1>t DEF ReceiveEof, ReceiveTimeout, workerVars, pipeVars
<1>5. CASE FlushFirst(s) \/ ReportError(s)
  BY <1>5, <1>c, <1>f, <1>t
  DEF FlushFirst, FlushBefore, ReportError, FlushOnError, workerVars, pipeVars
<1>6. CASE ThenSend(s) \/ ReportSend(s)
  BY <1>6, <1>c, <1>s, <1>t DEF ThenSend, ReportSend, SendPacket, workerVars, pipeVars
<1>7. CASE Join(s)
  BY <1>7, <1>c, <1>g, <1>t DEF Join, WaitWithTimeout, workerVars, pipeVars
<1>8. CASE Clear(s) \/ Release(s)
  BY <1>8, <1>t DEF Clear, Release, workerVars, pipeVars
<1> QED
  BY <1>1, <1>2, <1>3, <1>4, <1>5, <1>6, <1>7, <1>8 DEF GradingThread

LEMMA TaleOthers ==
    ASSUME TypeOK, TypeOK', Handover, Handover', NEW s \in Submissions, GradingThread(s),
           NEW t \in Submissions, t # s, Tale(t), judge' = "up" => judge = "up"
    PROVE  Tale(t)'
<1>1. s \in Active
  BY DEF Active, GradingThread, ReceiveHello, ReceiveResult, ReceiveDirect, ReceiveFlushing,
         ReceiveUnhandled, ReceiveBye, Receive, ReceiveEof, ReceiveTimeout, FlushFirst, ThenSend,
         ReportError, ReportSend, Join, Clear, Release
<1>2. gt[t] \in {"off", "done"}  BY <1>1 DEF Handover, OneGrading, Active
<1>3. /\ log'[t] = log[t] /\ up'[t] = up[t] /\ gt'[t] = gt[t] /\ msg'[t] = msg[t]
      /\ main'[t] = main[t] /\ step'[t] = step[t]
  BY GradingLocal
<1>4. current # t /\ current' # t  BY <1>2, <1>3 DEF Handover
<1> QED  BY <1>3, <1>4, TaleFrame

\* A packet of the current submission goes out.
LEMMA SendLonger ==
    ASSUME TypeOK, NEW s \in Submissions, current = s, NEW packets \in Seq(PacketType),
           Send(packets), judge' = "up"
    PROVE  /\ log'[s] = log[s] \o packets
           /\ \A t \in Submissions \ {s} : log'[t] = log[t]
BY DEF TypeOK, TypeLog, Send

LEMMA FlushLonger ==
    ASSUME TypeOK, NEW s \in Submissions, current = s, Flush, judge' = "up"
    PROVE  log'[s] = log[s] \o Status(queue) /\ queue' = <<>>
<1>0. queue \in Seq(CaseType)  BY DEF TypeOK, TypeJudge
<1>1. CASE queue # <<>>
  <2>1. Status(queue) \in Seq(PacketType)  BY <1>0, StatusType
  <2> QED  BY <1>1, <2>1, SendLonger DEF Flush
<1>2. CASE queue = <<>>
  <2>1. Status(queue) \in Seq(PacketType) /\ Len(Status(queue)) = 0
    BY <1>0, <1>2, StatusType, EmptySeq
  <2>2. Status(queue) = <<>>  BY <2>1, EmptySeq
  <2>3. log[s] \in Seq(PacketType)  BY DEF TypeOK, TypeLog
  <2>4. log[s] \o <<>> = log[s]  BY <2>3, ConcatEmptySeq
  <2> QED  BY <1>2, <2>2, <2>4 DEF Flush, NoSend
<1> QED  BY <1>1, <1>2

\* The thread's own submission.
LEMMA TaleOwn ==
    ASSUME TypeOK, TypeOK', Handover, Delivery, NEW s \in Submissions, GradingThread(s), Tale(s)
    PROVE  Tale(s)'
<1> DEFINE v == View(s)
           w == View(s)'
<1>u. judge = "up"
  BY DEF GradingThread, ReceiveHello, ReceiveResult, ReceiveDirect, ReceiveFlushing,
         ReceiveUnhandled, ReceiveBye, Receive, ReceiveEof, ReceiveTimeout, FlushFirst, ThenSend,
         ReportError, ReportSend, Join, Clear, Release
<1>0. PICK F \in Seq(PacketType), k \in Nat, n \in Nat : Told(v, F, k, n)
  BY <1>u DEF Tale
<1>v. v \in ViewType /\ w \in ViewType  BY ViewTyped
<1>t. /\ gt \in [Submissions -> GtPcs] /\ msg \in [Submissions -> UpTypes]
      /\ main \in [Submissions -> MainPcs] /\ log \in [Submissions -> Seq(PacketType)]
      /\ up \in [Submissions -> Seq(MessageType)]
  BY DEF TypeOK, TypeThread, TypeWorker, TypePipe, TypeLog
<1>e. /\ v.log = log[s] /\ v.gt = gt[s] /\ v.msg = msg[s] /\ v.up = up[s] /\ v.main = main[s]
      /\ v.step = step[s] /\ v.queue = (IF current = s THEN queue ELSE <<>>)
      /\ w.log = log'[s] /\ w.gt = gt'[s] /\ w.msg = msg'[s] /\ w.up = up'[s]
      /\ w.main = main'[s] /\ w.step = step'[s]
      /\ w.queue = (IF current' = s THEN queue' ELSE <<>>)
  BY DEF View
<1>c. gt[s] \notin {"off", "release", "done"} => current = s  BY DEF Handover
<1>q. gt[s] \notin {"off", "done", "recv", "flush", "report", "error"} => v.queue = <<>>
  BY <1>c, <1>e, <1>t DEF Delivery, QueueProper, GtPcs
<1>w. ASSUME judge' = "up", NEW G \in Seq(PacketType), NEW a \in Nat, NEW b \in Nat, Told(w, G, a, b)
      PROVE  Tale(s)'
  BY <1>w DEF Tale
<1>d. judge' # "up" => log'[s] = log[s]
  <2>s. ASSUME NEW packets, Send(packets), judge' # "up" PROVE log' = log
    BY <1>u, <2>s DEF Send
  <2>f. ASSUME Flush, judge' # "up" PROVE log' = log
    BY <2>f, <2>s DEF Flush, NoSend
  <2> QED
    BY <2>s, <2>f
    DEF GradingThread, ReceiveHello, ReceiveResult, ReceiveDirect, ReceiveFlushing,
        ReceiveUnhandled, ReceiveBye, ReceiveEof, ReceiveTimeout, FlushFirst, FlushBefore, ThenSend,
        ReportError, FlushOnError, ReportSend, SendPacket, Join, Clear, Release
<1>x. CASE judge' # "up"  BY <1>d, <1>x, TaleDown
<1>y. SUFFICES ASSUME judge' = "up" PROVE Tale(s)'  BY <1>x
<1> HIDE DEF v, w
<1>f. ASSUME Flush, current = s, current' = s, UNCHANGED <<msg, workerVars, pipeVars>>, gt[s] # "off",
             \/ w.gt = v.gt
             \/ v.gt = "flush" /\ w.gt = "send"
             \/ v.gt = "report" /\ w.gt = "report-send"
             \/ v.gt = "error" /\ w.gt = "error-send"
      PROVE  Tale(s)'
  <2>1. log'[s] = log[s] \o Status(queue) /\ queue' = <<>>  BY <1>f, <1>y, FlushLonger
  <2>2. queue \in Seq(CaseType)  BY DEF TypeOK, TypeJudge
  <2>3. Status(v.queue) \in Seq(PacketType) /\ w.log = v.log \o Status(v.queue)
    BY <1>e, <1>f, <2>1, <2>2, StatusType
  <2>4. Longer(v, w, Status(v.queue))  BY <1>v, <2>3, ConcatLonger
  <2>5. w.queue = <<>> /\ w.msg = v.msg /\ w.up = v.up /\ WorkerSame(v, w) /\ v.gt # "off"
    BY <1>e, <1>f, <2>1 DEF workerVars, pipeVars, WorkerSame
  <2>6. Told(w, F, k, n)  BY <1>0, <1>v, <1>f, <2>4, <2>5, ToldFlush
  <2> QED  BY <1>w, <1>y, <2>6
<1>r. ASSUME NEW T, Receive(s, T)
      PROVE  /\ Takes(v, w) /\ current = s /\ current' = s /\ v.up[1].type \in T
             /\ Head(up[s]) = v.up[1] /\ v.queue = queue /\ w.queue = queue'
  <2>1. /\ gt[s] = "recv" /\ up[s] # <<>> /\ up'[s] = Tail(up[s]) /\ Head(up[s]).type \in T
        /\ current' = current /\ main' = main /\ step' = step
    BY <1>r, <1>t DEF Receive, workerVars
  <2>2. Head(up[s]) = up[s][1]  BY <1>t, <2>1, TailPlaces
  <2> QED  BY <1>c, <1>e, <2>1, <2>2 DEF Takes, WorkerSame
<1>1. CASE ReceiveHello(s)
  <2>1. Receive(s, {"HELLO"}) /\ UNCHANGED <<queue, gt, msg, log>>  BY <1>1 DEF ReceiveHello
  <2>2. Takes(v, w) /\ JudgeSame(v, w) /\ v.up[1].type = "HELLO"
    BY <1>r, <1>e, <2>1 DEF JudgeSame
  <2>3. Told(w, F, k, n)  BY <1>0, <1>v, <2>2, ToldSkip
  <2> QED  BY <1>w, <1>y, <2>3
<1>2. CASE ReceiveResult(s)
  <2>1. /\ Receive(s, {"RESULT"}) /\ UNCHANGED <<gt, log>>
        /\ queue' = Append(queue, Head(up[s]).case)
    BY <1>2 DEF ReceiveResult, threadVars
  <2>2. /\ Takes(v, w) /\ v.up[1].type = "RESULT" /\ w.log = v.log /\ w.gt = v.gt
        /\ w.queue = Append(v.queue, v.up[1].case)
    BY <1>r, <1>e, <2>1
  <2>3. Told(w, F, k, n)  BY <1>0, <1>v, <2>2, ToldResult
  <2> QED  BY <1>w, <1>y, <2>3
<1>3. CASE ReceiveDirect(s)
  <2>1. /\ Receive(s, DirectTypes) /\ UNCHANGED <<queue, gt>>
        /\ Send(<<Packet(PacketOf[Head(up[s]).type])>>)
    BY <1>3 DEF ReceiveDirect, SendPacket, threadVars
  <2>2. /\ Takes(v, w) /\ v.up[1].type \in DirectTypes /\ current = s
        /\ Head(up[s]) = v.up[1] /\ w.gt = v.gt /\ w.queue = v.queue
    BY <1>r, <1>e, <2>1
  <2>3. <<Packet(PacketOf[v.up[1].type])>> \in Seq(PacketType)
    <3>1. PacketOf[v.up[1].type] \in PacketNames
      BY <2>2 DEF DirectTypes, PacketOf, PacketNames, Terminals
    <3> QED  BY <3>1, PacketTyped
  <2>4. w.log = v.log \o <<Packet(PacketOf[v.up[1].type])>>
    BY <1>e, <1>y, <2>1, <2>2, <2>3, SendLonger
  <2>5. Longer(v, w, <<Packet(PacketOf[v.up[1].type])>>)  BY <1>v, <2>3, <2>4, ConcatLonger
  <2>6. Told(w, F, k, n)  BY <1>0, <1>v, <2>2, <2>5, ToldDirect
  <2> QED  BY <1>w, <1>y, <2>6
<1>4. CASE ReceiveFlushing(s)
  <2>1. /\ Receive(s, FlushTypes) /\ UNCHANGED <<queue, log>>
        /\ gt'[s] = "flush" /\ msg'[s] = Head(up[s]).type
    BY <1>4, <1>t DEF ReceiveFlushing
  <2>2. /\ Takes(v, w) /\ v.up[1].type \in FlushTypes /\ w.gt = "flush" /\ w.msg = v.up[1].type
        /\ w.log = v.log /\ w.queue = v.queue
    BY <1>r, <1>e, <2>1
  <2>3. Told(w, F, k, n)  BY <1>0, <1>v, <2>2, ToldHold
  <2> QED  BY <1>w, <1>y, <2>3
<1>5. CASE ReceiveUnhandled(s)
  <2>1. /\ Receive(s, {"UNHANDLED_EXCEPTION"}) /\ UNCHANGED <<queue, log>> /\ gt'[s] = "report"
    BY <1>5, <1>t DEF ReceiveUnhandled
  <2>2. /\ Takes(v, w) /\ v.up[1].type = "UNHANDLED_EXCEPTION" /\ w.gt = "report"
        /\ w.log = v.log /\ w.queue = v.queue
    BY <1>r, <1>e, <2>1
  <2>3. Told(w, F, k, n)  BY <1>0, <1>v, <2>2, ToldHold
  <2> QED  BY <1>w, <1>y, <2>3
<1>6. CASE ReceiveBye(s)
  \* The view after the message is taken and before it is answered.
  <2> DEFINE z == [v EXCEPT !.up = w.up]
  <2>1. /\ Receive(s, {"BYE"}) /\ UNCHANGED <<queue, msg, log>>
        /\ gt'[s] \in {"join", "error"}
    <3>1. CASE Alive(s)
      <4>1. gt' = [gt EXCEPT ![s] = "join"]  BY <1>6, <3>1 DEF ReceiveBye
      <4> QED  BY <1>6, <1>t, <4>1 DEF ReceiveBye
    <3>2. CASE ~Alive(s)
      <4>1. gt' = [gt EXCEPT ![s] = "error"]  BY <1>6, <3>2 DEF ReceiveBye
      <4> QED  BY <1>6, <1>t, <4>1 DEF ReceiveBye
    <3> QED  BY <3>1, <3>2
  <2>2. Takes(v, w) /\ v.up[1].type = "BYE" /\ w.log = v.log /\ w.queue = v.queue
    BY <1>r, <1>e, <2>1
  <2>3. /\ z \in ViewType /\ Takes(v, z) /\ JudgeSame(v, z) /\ z.up = w.up
        /\ z.main = w.main /\ z.step = w.step /\ z.gt = "recv" /\ z.log = w.log /\ z.queue = w.queue
    BY <1>v, <2>2 DEF Takes, JudgeSame, WorkerSame, ViewType
  <2> HIDE DEF z
  <2>4. Told(z, F, k, n) /\ z.up = <<>> /\ Len(F) > k + n /\ z.main \in {"finally", "exited"}
    BY <1>0, <1>v, <2>2, <2>3, ToldSkip
  <2>5. CASE gt'[s] = "join"
    <3>1. Told(w, F, k, n)  BY <1>e, <1>v, <2>3, <2>4, <2>5, ToldJoin DEF WorkerSame
    <3> QED  BY <1>w, <1>y, <3>1
  <2>6. CASE gt'[s] = "error"
    <3>1. /\ Append(F, Packet("internal-error")) \in Seq(PacketType)
          /\ Told(w, Append(F, Packet("internal-error")), k, n)
      BY <1>e, <1>v, <2>3, <2>4, <2>6, ToldFail
    <3> QED  BY <1>w, <1>y, <3>1
  <2> QED  BY <2>1, <2>5, <2>6
<1>7. CASE ReceiveEof(s) \/ ReceiveTimeout(s)
  <2>1. /\ UNCHANGED <<queue, log, current>> /\ gt[s] = "recv" /\ gt'[s] = "error" /\ up[s] = <<>>
        /\ up'[s] = <<>> /\ main'[s] \in {"off", "exited"} /\ (main[s] = "off" => main'[s] = "off")
        /\ main'[s] = "off" => main[s] = "off"
    BY <1>7, <1>t DEF ReceiveEof, ReceiveTimeout, Gone, Alive, judgeVars, workerVars, pipeVars
  <2>2. main[s] # "off"  BY <1>0, <1>e, <2>1 DEF Told, Stage
  <2>3. /\ Append(F, Packet("internal-error")) \in Seq(PacketType)
        /\ Told(w, Append(F, Packet("internal-error")), k, n)
    BY <1>0, <1>e, <1>v, <2>1, <2>2, ToldFail
  <2> QED  BY <1>w, <1>y, <2>3
<1>8. CASE FlushFirst(s)
  <2>1. Flush /\ gt[s] = "flush" /\ gt'[s] = "send" /\ UNCHANGED <<current, msg, workerVars, pipeVars>>
    BY <1>8, <1>t DEF FlushFirst, FlushBefore
  <2> QED  BY <1>c, <1>e, <1>f, <2>1
<1>9. CASE ReportError(s)
  <2>1. /\ Flush /\ UNCHANGED <<current, msg, workerVars, pipeVars>>
        /\ \/ gt[s] = "report" /\ gt'[s] = "report-send"
           \/ gt[s] = "error" /\ gt'[s] = "error-send"
    BY <1>9, <1>t DEF ReportError, FlushOnError
  <2> QED  BY <1>c, <1>e, <1>f, <2>1
<1>10. CASE ThenSend(s) \/ ReportSend(s)
  <2>1. /\ UNCHANGED <<queue, current, workerVars, pipeVars>> /\ current = s
        /\ \/ gt[s] \in {"send", "report-send"} /\ gt'[s] = "recv"
           \/ gt[s] = "error-send" /\ gt'[s] = "join"
    BY <1>10, <1>c, <1>t DEF ThenSend, ReportSend
  <2>2. InHand(v) \in PacketType /\ Send(<<InHand(v)>>)
    <3>1. CASE ThenSend(s)
      <4>1. gt[s] = "send" /\ msg[s] \in FlushTypes /\ Send(<<Packet(PacketOf[msg[s]])>>)
        BY <3>1 DEF ThenSend, SendPacket, TypeOK, TypeThread
      <4>2. NameOf(msg[s]) = PacketOf[msg[s]] /\ msg[s] \notin {"HELLO", "BYE"}
        BY <4>1 DEF NameOf, FlushTypes
      <4>3. InHand(v) = Packet(NameOf(msg[s]))  BY <1>e, <4>1 DEF InHand
      <4>4. Packet(NameOf(msg[s])) \in PacketType  BY <1>t, <4>2, NameTyped
      <4> QED  BY <4>1, <4>2, <4>3, <4>4
    <3>2. CASE ReportSend(s)
      <4>1. InHand(v) = Packet("internal-error")  BY <1>e, <3>2 DEF InHand, ReportSend
      <4> QED  BY <3>2, <4>1, PacketTyped DEF ReportSend, SendPacket, PacketNames, Terminals
    <3> QED  BY <1>10, <3>1, <3>2
  <2>3. v.queue = <<>> /\ w.queue = <<>> /\ w.up = v.up /\ WorkerSame(v, w)
    BY <1>e, <1>q, <2>1 DEF workerVars, pipeVars, WorkerSame
  <2>4. <<InHand(v)>> \in Seq(PacketType)  BY <2>2
  <2>5. w.log = v.log \o <<InHand(v)>>  BY <1>e, <1>y, <2>1, <2>2, <2>4, SendLonger
  <2>6. Longer(v, w, <<InHand(v)>>)  BY <1>v, <2>4, <2>5, ConcatLonger
  <2>7. Told(w, F, k, n)  BY <1>0, <1>e, <1>v, <2>1, <2>2, <2>3, <2>6, ToldSend
  <2> QED  BY <1>w, <1>y, <2>7
<1>11. CASE Join(s) \/ Clear(s) \/ Release(s)
  <2>1. /\ UNCHANGED <<log, queue>> /\ up' = up
        /\ gt[s] \in {"join", "clear", "release"} /\ gt'[s] \in {"clear", "release", "done"}
        /\ current' \in {current, None}
        /\ main'[s] \in {main[s], "exited"}
    BY <1>11, <1>c, <1>t
    DEF Join, Clear, Release, WaitWithTimeout, Gone, judgeVars, workerVars, pipeVars
  <2>2. v.queue = <<>> /\ w.queue = <<>>
    BY <1>e, <1>q, <2>1, NoneAssumption
  <2>3. Told(w, F, k, n)  BY <1>0, <1>e, <1>v, <2>1, <2>2, ToldAfter
  <2> QED  BY <1>w, <1>y, <2>3
<1> QED
  BY <1>1, <1>2, <1>3, <1>4, <1>5, <1>6, <1>7, <1>8, <1>9, <1>10, <1>11 DEF GradingThread

\* A step of the worker of s that the site does not hear of.
LEMMA TaleSilent ==
    ASSUME TypeOK, TypeOK', NEW s \in Submissions, WorkerFrame,
           UNCHANGED up, \A t \in Submissions \ {s} : main'[t] = main[t] /\ step'[t] = step[t],
           \/ main'[s] = main[s] /\ step'[s] = step[s]
           \/ main'[s] = "exited" /\ main[s] # "off"
           \/ /\ main[s] \in {"grade", "running", "check"} /\ step'[s] = step[s]
              /\ main'[s] \in {"grade", "running", "check"}
              /\ main[s] = "grade" => Plan[step[s]] = "CASE"
           \/ main[s] = "compile" /\ main'[s] = "begin" /\ step'[s] = step[s],
           NEW t \in Submissions, Tale(t)
    PROVE  Tale(t)'
<1>0. /\ judge' = judge /\ queue' = queue /\ current' = current /\ gt' = gt /\ msg' = msg
      /\ log' = log /\ up' = up
  BY DEF WorkerFrame, judgeVars, threadVars
<1>1. CASE t # s  BY <1>0, <1>1, TaleFrame
<1>2. CASE t = s /\ judge # "up"  BY <1>0, <1>2, TaleDown
<1>3. CASE t = s /\ judge = "up"
  <2> DEFINE v == View(s)
             w == View(s)'
  <2>1. PICK F \in Seq(PacketType), k \in Nat, n \in Nat : Told(v, F, k, n)
    BY <1>3 DEF Tale
  <2>2. v \in ViewType /\ w \in ViewType  BY ViewTyped
  <2>3. /\ JudgeSame(v, w) /\ w.up = v.up
        /\ v.main = main[s] /\ w.main = main'[s] /\ v.step = step[s] /\ w.step = step'[s]
    BY <1>0 DEF View, JudgeSame
  <2> HIDE DEF v, w
  <2>4. Told(w, F, k, n)  BY <2>1, <2>2, <2>3, ToldQuiet
  <2> QED  BY <1>0, <1>3, <2>4 DEF Tale, w
<1> QED  BY <1>1, <1>2, <1>3

\* The worker of s says m: what it says must continue every story it may be in.
LEMMA TaleSay ==
    ASSUME TypeOK, TypeOK', NEW s \in Submissions, WorkerFrame,
           NEW m \in MessageType, NEW next \in MainPcs, Yield(s, m, next),
           \A t \in Submissions \ {s} : step'[t] = step[t],
           \/ m.type = "HELLO" /\ main[s] = "hello" /\ next = "compile" /\ step'[s] = step[s]
           \/ m.type = "BYE" /\ main[s] = "bye" /\ next = "finally"
           \/ /\ m.type \notin {"HELLO", "BYE"} /\ main[s] \in Working
              /\ \A F \in Seq(PacketType), k \in Nat, n \in Nat :
                   Story(F, k, n) /\ WorkerAt(View(s), F, k, n) /\ k >= 1 =>
                     \E a, b \in Nat :
                       /\ a >= 1 /\ Story(Append(F, PacketFor(m)), a, b)
                       /\ \/ /\ next = "begin" /\ main[s] = "compile" /\ step'[s] = step[s]
                             /\ Len(F) + 1 = a /\ ~Begun(Append(F, PacketFor(m)), a)
                          \/ /\ next = "grade" /\ Begun(Append(F, PacketFor(m)), a)
                             /\ Len(F) + 1 = a + b /\ step'[s] = b + 1
                          \/ next = "bye" /\ Len(F) + 1 = a + b + 1,
           NEW t \in Submissions, Tale(t)
    PROVE  Tale(t)'
<1>0. /\ judge' = judge /\ queue' = queue /\ current' = current /\ gt' = gt /\ msg' = msg
      /\ log' = log
  BY DEF WorkerFrame, judgeVars, threadVars
<1>t. main \in [Submissions -> MainPcs] /\ up \in [Submissions -> Seq(MessageType)]
  BY DEF TypeOK, TypeWorker, TypePipe
<1>1. CASE t # s
  <2>1. up'[t] = up[t] /\ main'[t] = main[t]  BY <1>1, <1>t DEF Yield
  <2> QED  BY <1>0, <1>1, <2>1, TaleFrame
<1>2. CASE t = s /\ judge # "up"  BY <1>0, <1>2, TaleDown
<1>3. CASE t = s /\ judge = "up"
  <2> DEFINE v == View(s)
             w == View(s)'
  <2>1. PICK F \in Seq(PacketType), k \in Nat, n \in Nat : Told(v, F, k, n)
    BY <1>3 DEF Tale
  <2>2. v \in ViewType /\ w \in ViewType  BY ViewTyped
  <2>3. up'[s] = Append(up[s], m) /\ main'[s] = next  BY <1>3, <1>t DEF Yield
  <2>4. /\ JudgeSame(v, w) /\ w.up = Append(v.up, m) /\ v.main = main[s] /\ w.main = next
        /\ v.step = step[s] /\ w.step = step'[s]
    BY <1>0, <2>3 DEF View, JudgeSame
  <2>5. ASSUME NEW G \in Seq(PacketType), NEW a \in Nat, NEW b \in Nat, Told(w, G, a, b)
        PROVE  Tale(t)'
    BY <1>0, <1>3, <2>5 DEF Tale
  <2> HIDE DEF w
  <2>6. CASE m.type = "HELLO" /\ main[s] = "hello" /\ next = "compile" /\ step'[s] = step[s]
    <3> HIDE DEF v
    <3>1. Told(w, F, k, n)  BY <2>1, <2>2, <2>4, <2>6, ToldHello
    <3> QED  BY <2>5, <3>1
  <2>7. CASE m.type = "BYE" /\ main[s] = "bye" /\ next = "finally"
    <3> HIDE DEF v
    <3>1. Told(w, F, k, n)  BY <2>1, <2>2, <2>4, <2>7, ToldBye
    <3> QED  BY <2>5, <3>1
  <2>8. CASE m.type \notin {"HELLO", "BYE"} /\ main[s] \in Working
    <3>1. k >= 1  BY <2>1, <2>2, <2>4, <2>8, WorkingStage
    <3>2. Story(F, k, n) /\ WorkerAt(v, F, k, n)  BY <2>1 DEF Told
    <3>3. PICK a \in Nat, b \in Nat :
            /\ a >= 1 /\ Story(Append(F, PacketFor(m)), a, b)
            /\ \/ /\ next = "begin" /\ main[s] = "compile" /\ step'[s] = step[s]
                  /\ Len(F) + 1 = a /\ ~Begun(Append(F, PacketFor(m)), a)
               \/ /\ next = "grade" /\ Begun(Append(F, PacketFor(m)), a)
                  /\ Len(F) + 1 = a + b /\ step'[s] = b + 1
               \/ next = "bye" /\ Len(F) + 1 = a + b + 1
      BY <2>8, <3>1, <3>2
    <3> HIDE DEF v
    <3> DEFINE G == Append(F, PacketFor(m))
    <3>4. G \in Seq(PacketType) /\ Told(w, G, a, b)
      BY <2>1, <2>2, <2>4, <2>8, <3>3, ToldSay
    <3> HIDE DEF G
    <3> QED  BY <2>5, <3>4
  <2> QED  BY <2>6, <2>7, <2>8
<1> QED  BY <1>1, <1>2, <1>3

\* The packets the worker's messages become.
LEMMA PacketNamed ==
    ASSUME NEW type \in UpTypes \ {"HELLO", "BYE", "RESULT"}
    PROVE  /\ Message(type) \in MessageType /\ Message(type).type = type
           /\ PacketFor(Message(type)) \in PacketType
           /\ PacketFor(Message(type)).name = NameOf(type)
<1>1. Message(type) \in MessageType /\ Message(type).type = type  BY MessageTyped DEF Message
<1> QED  BY <1>1, PacketForTyped

LEMMA TaleWorkerMain ==
    ASSUME TypeOK, TypeOK', NEW s \in Submissions, WorkerMain(s), WorkerFrame,
           NEW t \in Submissions, Tale(t)
    PROVE  Tale(t)'
<1>t. /\ main \in [Submissions -> MainPcs] /\ up \in [Submissions -> Seq(MessageType)]
      /\ step \in [Submissions -> 1..Len(Plan) + 1] /\ Len(Plan) \in Nat
  BY PlanAssumption, LengthsNat DEF TypeOK, TypeWorker, TypePipe
<1>v. View(s).main = main[s] /\ View(s).step = step[s]  BY DEF View
\* The worker's last message but BYE.
<1>e. ASSUME NEW type \in UpTypes \ {"HELLO", "BYE", "RESULT"}, Yield(s, Message(type), "bye"),
             UNCHANGED step, main[s] \in Working, NameOf(type) \in Terminals,
             \/ type = "COMPILE_ERROR" /\ main[s] = "compile"
             \/ type = "GRADING_END" /\ main[s] = "grade" /\ step[s] = Len(Plan) + 1
             \/ type = "GRADING_ABORTED" /\ main[s] = "check"
             \/ type = "UNHANDLED_EXCEPTION" /\ main[s] \in {"compile", "grade", "running"}
      PROVE  Tale(t)'
  <2> DEFINE m == Message(type)
             p == PacketFor(m)
  <2>1. m \in MessageType /\ m.type = type /\ p \in PacketType /\ p.name = NameOf(type)
    BY <1>e, PacketNamed
  <2>2. /\ NameOf(type) = "compile-error" => type = "COMPILE_ERROR"
        /\ NameOf(type) \in {"grading-end", "submission-terminated"} =>
             main[s] \in {"grade", "check"}
        /\ NameOf(type) = "grading-end" => main[s] = "grade" /\ step[s] = Len(Plan) + 1
    BY <1>e DEF NameOf, PacketOf
  <2> HIDE DEF m, p
  <2>3. ASSUME NEW F \in Seq(PacketType), NEW k \in Nat, NEW n \in Nat,
               Story(F, k, n), WorkerAt(View(s), F, k, n), k >= 1
        PROVE  \E a, b \in Nat : a >= 1 /\ Story(Append(F, p), a, b) /\ Len(F) + 1 = a + b + 1
    <3>0. Len(F) \in Nat  BY LengthsNat
    <3>1. CASE main[s] = "compile"
      <4>1. k = 1 /\ Len(F) = 1 /\ n = 0 /\ ~Begun(F, k)
        BY <1>v, <2>3, <3>1 DEF WorkerAt, Begun, Story
      <4>2. p.name \in Terminals /\ p.name \notin {"grading-end", "submission-terminated"}
        BY <1>e, <2>1, <2>2, <3>1
      <4>3. Len(F) = k + n  BY <4>1
      <4>4. Story(Append(F, p), k, n)
        BY <2>1, <2>3, <4>1, <4>2, <4>3, StoryVerdict
      <4> QED  BY <2>3, <3>0, <4>3, <4>4
    <3>2. CASE main[s] \in {"grade", "running", "check"}
      <4>1. Begun(F, k) /\ Len(F) = k + n /\ step[s] = n + 1
        BY <1>v, <2>3, <3>2 DEF WorkerAt
      <4>2. p.name # "compile-error"  BY <1>e, <2>1, <2>2, <3>2
      <4>3. p.name = "grading-end" => n = Len(Plan)  BY <1>t, <2>1, <2>2, <4>1
      <4>4. Story(Append(F, p), k, n)
        BY <1>e, <2>1, <2>3, <4>1, <4>2, <4>3, StoryVerdict
      <4> QED  BY <2>3, <3>0, <4>1, <4>4
    <3> QED  BY <1>e, <3>1, <3>2
  <2> QED  BY <1>e, <2>1, <2>3, TaleSay DEF m, p, MainPcs
\* The next entry of Plan.
<1>i. ASSUME NEW m \in MessageType, Yield(s, m, "grade"), Advance(s), step[s] <= Len(Plan),
             main[s] \in {"grade", "check"}, m.type \notin {"HELLO", "BYE"},
             \A F \in Seq(PacketType), k \in Nat, n \in Nat :
               WorkerAt(View(s), F, k, n) => Tells(PacketFor(m), step[s])
      PROVE  Tale(t)'
  <2> DEFINE p == PacketFor(m)
  <2>1. p \in PacketType  BY <1>i, PacketForTyped
  <2>2. step'[s] = step[s] + 1 /\ \A r \in Submissions \ {s} : step'[r] = step[r]
    BY <1>i, <1>t DEF Advance
  <2>t. \A F \in Seq(PacketType), k \in Nat, n \in Nat :
          WorkerAt(View(s), F, k, n) => Tells(p, step[s])
    BY <1>i
  <2> HIDE DEF p
  <2>3. ASSUME NEW F \in Seq(PacketType), NEW k \in Nat, NEW n \in Nat,
               Story(F, k, n), WorkerAt(View(s), F, k, n), k >= 1
        PROVE  \E a, b \in Nat : /\ a >= 1 /\ Story(Append(F, p), a, b)
                                 /\ Begun(Append(F, p), a)
                                 /\ Len(F) + 1 = a + b /\ step'[s] = b + 1
    <3>1. Begun(F, k) /\ Len(F) = k + n /\ step[s] = n + 1
      BY <1>i, <1>v, <2>3 DEF WorkerAt
    <3>t. Tells(p, n + 1)  BY <2>3, <2>t, <3>1
    <3>2. Story(Append(F, p), k, n + 1) /\ Begun(Append(F, p), k)
      BY <2>1, <2>3, <3>1, <3>t, StoryItem
    <3>3. n + 1 \in Nat /\ Len(F) + 1 = k + (n + 1) /\ step'[s] = (n + 1) + 1
      BY <2>2, <3>1
    <3> QED  BY <2>3, <3>2, <3>3
  <2>4. main[s] \in Working  BY <1>i DEF Working
  <2> QED  BY <1>i, <2>2, <2>3, <2>4, TaleSay DEF p, MainPcs
\* The opening.
<1>o. ASSUME NEW type \in {"COMPILE_MESSAGE", "GRADING_BEGIN"}, NEW next,
             \/ type = "COMPILE_MESSAGE" /\ main[s] = "compile" /\ next = "begin"
             \/ type = "GRADING_BEGIN" /\ main[s] = "begin" /\ next = "grade",
             Yield(s, Message(type), next), UNCHANGED step
      PROVE  Tale(t)'
  <2> DEFINE m == Message(type)
             p == PacketFor(m)
  <2>1. m \in MessageType /\ m.type = type /\ p \in PacketType /\ p.name = NameOf(type)
    BY <1>o, PacketNamed DEF UpTypes
  <2>2. /\ type = "COMPILE_MESSAGE" => NameOf(type) = "compile-message"
        /\ type = "GRADING_BEGIN" => NameOf(type) = "grading-begin"
    BY <1>o DEF NameOf, PacketOf
  <2> HIDE DEF m, p
  <2>3. ASSUME NEW F \in Seq(PacketType), NEW k \in Nat, NEW n \in Nat,
               Story(F, k, n), WorkerAt(View(s), F, k, n), k >= 1
        PROVE  \E a, b \in Nat :
                 /\ a >= 1 /\ Story(Append(F, p), a, b)
                 /\ \/ /\ next = "begin" /\ main[s] = "compile" /\ step'[s] = step[s]
                       /\ Len(F) + 1 = a /\ ~Begun(Append(F, p), a)
                    \/ /\ next = "grade" /\ Begun(Append(F, p), a)
                       /\ Len(F) + 1 = a + b /\ step'[s] = b + 1
    <3>1. CASE type = "COMPILE_MESSAGE"
      <4>1. k = 1 /\ Len(F) = k  BY <1>o, <1>v, <2>3, <3>1 DEF WorkerAt
      <4>2. p.name = "compile-message"  BY <2>1, <2>2, <3>1
      <4>3. Story(Append(F, p), k + 1, 0) /\ ~Begun(Append(F, p), k + 1)
        BY <2>1, <2>3, <4>1, <4>2, StoryOpening
      <4> QED  BY <1>o, <3>1, <4>1, <4>3
    <3>2. CASE type = "GRADING_BEGIN"
      <4>1. Len(F) = k /\ ~Begun(F, k)
        BY <1>o, <1>v, <2>3, <3>2 DEF WorkerAt
      <4>2. p.name = "grading-begin"  BY <2>1, <2>2, <3>2
      <4>3. k \in 1..2
        <5>1. k <= 3 /\ (k >= 3 => F[3].name = "grading-begin")  BY <2>3 DEF Story, Opens
        <5>2. k # 3  BY <4>1, <5>1 DEF Begun
        <5> QED  BY <2>3, <5>1, <5>2
      <4>4. Story(Append(F, p), k + 1, 0) /\ Begun(Append(F, p), k + 1)
        BY <2>1, <2>3, <4>1, <4>2, <4>3, StoryOpening
      <4>5. step'[s] = 1  BY <1>o, <1>v, <2>3, <3>2 DEF WorkerAt
      <4> QED  BY <1>o, <2>3, <3>2, <4>1, <4>4, <4>5
    <3> QED  BY <1>o, <3>1, <3>2
  <2>4. main[s] \in Working  BY <1>o DEF Working
  <2>5. next \in MainPcs  BY <1>o DEF MainPcs
  <2> QED  BY <1>o, <2>1, <2>3, <2>4, <2>5, TaleSay DEF m, p
<1>1. CASE Hello(s)
  BY <1>1, <1>t, TaleSay, MessageTyped DEF Hello, Message, UpTypes, MainPcs
<1>2. CASE Compile(s)
  <2>1. CASE Yield(s, Message("COMPILE_ERROR"), "bye")
    BY <1>2, <1>e, <2>1 DEF Compile, UpTypes, Working, NameOf, PacketOf, Terminals
  <2>2. CASE Yield(s, Message("COMPILE_MESSAGE"), "begin")
    BY <1>2, <1>o, <2>2 DEF Compile
  <2>3. CASE main' = [main EXCEPT ![s] = "begin"] /\ UNCHANGED up
    BY <1>2, <1>t, <2>3, TaleSilent DEF Compile
  <2> QED  BY <1>2, <2>1, <2>2, <2>3 DEF Compile
<1>3. CASE Begin(s)
  BY <1>3, <1>o DEF Begin
<1>4. CASE Batch(s)
  <2>1. step[s] \in 1..Len(Plan) /\ Plan[step[s]] \in {"BATCH_BEGIN", "BATCH_END"}
    BY <1>4, <1>t, PlanEntry DEF Batch
  <2>2. PICK type \in {"BATCH_BEGIN", "BATCH_END"} : type = Plan[step[s]]  BY <2>1
  <2>3. NameOf(type) = (IF type = "BATCH_BEGIN" THEN "batch-begin" ELSE "batch-end")
    BY DEF NameOf, PacketOf
  <2>4. /\ Message(type) \in MessageType /\ Message(type).type = type
        /\ PacketFor(Message(type)).name = NameOf(type)
    BY PacketNamed DEF UpTypes
  <2>5. Tells(PacketFor(Message(type)), step[s])  BY <2>1, <2>2, <2>3, <2>4 DEF Tells
  <2> QED  BY <1>4, <1>i, <2>2, <2>4, <2>5 DEF Batch
<1>5. CASE GradingEnd(s)
  BY <1>5, <1>e DEF GradingEnd, UpTypes, Working, NameOf, PacketOf, Terminals
\* The result of the case the worker is at.
<1>r. ASSUME NEW c \in BOOLEAN, step[s] <= Len(Plan),
             main[s] = "grade" => Plan[step[s]] = "CASE",
             Yield(s, Result(s, c), "grade"), Advance(s), main[s] \in {"grade", "check"}
      PROVE  Tale(t)'
  <2>1. Result(s, c) \in MessageType  BY ResultTyped DEF TypeOK
  <2>2. /\ Result(s, c).type = "RESULT"
        /\ PacketFor(Result(s, c)).name = "test-case-status"
        /\ PacketFor(Result(s, c)).case.pos = CaseNumber(step[s])
    BY DEF Result, PacketFor
  <2> DEFINE m == Result(s, c)
  <2> HIDE DEF m
  <2>3. ASSUME NEW F, NEW k, NEW n, WorkerAt(View(s), F, k, n)
        PROVE  Tells(PacketFor(m), step[s])
    <3>1. Plan[step[s]] = "CASE"  BY <1>r, <1>v, <2>3 DEF WorkerAt
    <3> QED  BY <1>r, <1>t, <2>2, <3>1 DEF Tells, IsCase, m
  <2> QED  BY <1>i, <1>r, <2>1, <2>2, <2>3 DEF m
<1>6. CASE ShortCircuit(s)
  BY <1>6, <1>r DEF ShortCircuit
<1>7. CASE Launch(s)
  BY <1>7, <1>t, TaleSilent DEF Launch, pipeVars
<1>8. CASE Graded(s)
  BY <1>8, <1>t, TaleSilent DEF Graded, pipeVars
<1>9. CASE CheckAbort(s)
  <2>1. CASE AbortSeen(s)
    BY <1>9, <1>e, <2>1
    DEF CheckAbort, AfterAborted, UpTypes, Working, NameOf, PacketOf, Terminals
  <2>2. CASE ~AbortSeen(s)
    <3>1. step[s] <= Len(Plan) /\ cut[s] \in BOOLEAN  BY <1>9 DEF CheckAbort, TypeOK, TypeWorker
    <3> QED  BY <1>9, <1>r, <2>2, <3>1 DEF CheckAbort
  <2> QED  BY <2>1, <2>2
<1>10. CASE Raise(s)
  BY <1>10, <1>e DEF Raise, UpTypes, Working, NameOf, PacketOf, Terminals
<1>11. CASE Bye(s)
  BY <1>11, <1>t, TaleSay, MessageTyped DEF Bye, Message, UpTypes, MainPcs
<1>12. CASE Finally(s)
  BY <1>12, <1>t, TaleSilent DEF Finally, Gone
<1> QED
  BY <1>1, <1>2, <1>3, <1>4, <1>5, <1>6, <1>7, <1>8, <1>9, <1>10, <1>11, <1>12 DEF WorkerMain

LEMMA TaleWorker ==
    ASSUME TypeOK, TypeOK', NEW s \in Submissions, Worker(s), NEW t \in Submissions, Tale(t)
    PROVE  Tale(t)'
<1>t. main \in [Submissions -> MainPcs] /\ step \in [Submissions -> 1..Len(Plan) + 1]
  BY DEF TypeOK, TypeWorker
<1>f. WorkerFrame  BY DEF Worker
<1>1. CASE WorkerMain(s)  BY <1>1, <1>f, TaleWorkerMain
<1>2. CASE WorkerReceive(s)  BY <1>2, <1>f, TaleSilent DEF WorkerReceive
<1>3. CASE WorkerAbort(s)  BY <1>3, <1>f, TaleSilent DEF WorkerAbort, pipeVars
<1>4. CASE WorkerDies(s)  BY <1>4, <1>f, <1>t, TaleSilent DEF WorkerDies, Gone, Alive
<1> QED  BY <1>1, <1>2, <1>3, <1>4 DEF Worker

LEMMA TaleNetwork ==
    ASSUME TypeOK, TypeOK', Handover, Delivery, Acknowledged, NetworkThread,
           NEW t \in Submissions, Tale(t)
    PROVE  Tale(t)'
<1>t. /\ gt \in [Submissions -> GtPcs] /\ main \in [Submissions -> MainPcs]
      /\ step \in [Submissions -> 1..Len(Plan) + 1] /\ log \in [Submissions -> Seq(PacketType)]
  BY DEF TypeOK, TypeThread, TypeWorker, TypeLog
<1>u. judge = "up"
  BY DEF NetworkThread, Request, AcquireLock, StartGrading, AwaitReady, Terminate, Disconnect,
         Interrupt, Murder, CloseConnection, Exit, NetJoin, Query
<1>f. ASSUME UNCHANGED <<queue, current, log, up, gt, msg, main, step>> PROVE Tale(t)'
  BY <1>f, <1>u, TaleFrame
<1> DEFINE v == View(t)
           w == View(t)'
<1>v. v \in ViewType /\ w \in ViewType  BY ViewTyped
<1>e. /\ v.log = log[t] /\ v.gt = gt[t] /\ v.msg = msg[t] /\ v.up = up[t] /\ v.main = main[t]
      /\ v.step = step[t] /\ v.queue = (IF current = t THEN queue ELSE <<>>)
      /\ w.log = log'[t] /\ w.gt = gt'[t] /\ w.msg = msg'[t] /\ w.up = up'[t]
      /\ w.main = main'[t] /\ w.step = step'[t]
      /\ w.queue = (IF current' = t THEN queue' ELSE <<>>)
  BY DEF View
<1>0. PICK F \in Seq(PacketType), k \in Nat, n \in Nat : Told(v, F, k, n)
  BY <1>u DEF Tale
<1>w. ASSUME judge' = "up", NEW G \in Seq(PacketType), NEW a \in Nat, NEW b \in Nat, Told(w, G, a, b)
      PROVE  Tale(t)'
  BY <1>w DEF Tale
<1> HIDE DEF v, w
<1>1. ASSUME NEW s \in Submissions, Request(s) PROVE Tale(t)'
  <2>1. /\ judge' = judge /\ UNCHANGED <<queue, current, up, gt, msg, main, step>>
        /\ gt[s] = "off" /\ log' = [log EXCEPT ![s] = <<Packet("submission-acknowledged")>>]
    BY <1>1 DEF Request, judgeVars, threadVars, workerVars, pipeVars
  <2>2. CASE t # s
    <3>1. log'[t] = log[t]  BY <1>t, <2>1, <2>2
    <3> QED  BY <1>u, <2>1, <3>1, TaleFrame
  <2>3. CASE t = s
    <3>1. current # t  BY <2>1, <2>3 DEF Handover
    <3>2. log'[t] = <<Packet("submission-acknowledged")>>  BY <1>t, <2>1, <2>3
    <3>3. Told(w, w.log, 1, 0)
      BY <1>0, <1>e, <1>v, <2>1, <2>3, <3>1, <3>2, ToldRequest DEF WorkerSame
    <3>4. w.log \in Seq(PacketType)  BY <1>v DEF ViewType
    <3> QED  BY <1>u, <1>w, <2>1, <3>3, <3>4
  <2> QED  BY <2>2, <2>3
<1>2. CASE AcquireLock \/ AwaitReady \/ CloseConnection \/ Exit \/ Query
  BY <1>2, <1>f
  DEF AcquireLock, AwaitReady, CloseConnection, Exit, Query, judgeVars, threadVars, workerVars,
      pipeVars
<1>3. CASE Terminate \/ Disconnect \/ Murder
  BY <1>3, <1>f DEF Terminate, Disconnect, Murder, AbortGrading, judgeVars, threadVars, workerVars
<1>4. CASE NetJoin \/ Interrupt
  <2>1. /\ UNCHANGED <<queue, current, log, up, gt, msg>>
        /\ \/ main'[t] = main[t] /\ step'[t] = step[t]
           \/ main'[t] = "exited" /\ main[t] # "off"
    BY <1>4, <1>t
    DEF NetJoin, Interrupt, WaitWithTimeout, Gone, Alive, judgeVars, threadVars, workerVars, pipeVars
  <2> QED  BY <1>u, <2>1, TaleFrame
<1>5. CASE StartGrading
  <2>1. current = None  BY <1>5 DEF StartGrading, Handover, Active, TypeOK, TypeJudge
  <2>2. /\ netSub \in Submissions /\ gt[netSub] = "off" /\ queue = <<>> /\ log[netSub] # <<>>
    BY <1>5, <2>1
    DEF StartGrading, Handover, TypeOK, TypeNet, Delivery, QueueProper, Acknowledged
  <2>3. /\ main' = [main EXCEPT ![netSub] = "hello"] /\ gt' = [gt EXCEPT ![netSub] = "recv"]
        /\ judge' = judge /\ UNCHANGED <<queue, up, log, msg, step>>
    BY <1>5, <2>1 DEF StartGrading, pipeVars
  <2>4. CASE t # netSub
    <3>1. main'[t] = main[t] /\ gt'[t] = gt[t]  BY <1>t, <2>3, <2>4
    <3>2. (IF current = t THEN queue ELSE <<>>)' = <<>> /\ (IF current = t THEN queue ELSE <<>>) = <<>>
      BY <2>2, <2>3
    <3> QED  BY <1>u, <2>3, <3>1, <3>2, TaleFrame
  <2>5. CASE t = netSub
    <3>1. main'[t] = "hello" /\ gt'[t] = "recv"  BY <1>t, <2>3, <2>5
    <3>2. Told(w, F, k, n)
      BY <1>0, <1>e, <1>v, <2>2, <2>3, <2>5, <3>1, ToldStart
    <3> QED  BY <1>u, <1>w, <2>3, <3>2
  <2> QED  BY <2>4, <2>5
<1> QED  BY <1>1, <1>2, <1>3, <1>4, <1>5 DEF NetworkThread

LEMMA TalePeriodicFlush ==
    ASSUME TypeOK, TypeOK', Handover, PeriodicFlush, NEW t \in Submissions, Tale(t)
    PROVE  Tale(t)'
<1> DEFINE v == View(t)
           w == View(t)'
<1>u. /\ judge = "up" /\ IF current = None THEN NoSend ELSE Flush
      /\ UNCHANGED <<current, msg, gt, up, main, step>>
  BY DEF PeriodicFlush, threadVars, workerVars, pipeVars
<1>c. t = current => Flush  BY <1>u, NoneAssumption
<1>1. CASE t # current
  <2>1. log'[t] = log[t]  BY <1>1, <1>u DEF Flush, Send, NoSend, TypeOK, TypeLog
  <2> QED  BY <1>1, <1>u, <2>1, TaleFrame
<1>2. CASE judge' # "up"
  <2>1. log'[t] = log[t]  BY <1>2, <1>u DEF Flush, Send, NoSend
  <2> QED  BY <1>2, <2>1, TaleDown
<1>3. CASE t = current /\ judge' = "up"
  <2>1. log'[t] = log[t] \o Status(queue) /\ queue' = <<>>  BY <1>3, <1>u, <1>c, FlushLonger
  <2>2. PICK F \in Seq(PacketType), k \in Nat, n \in Nat : Told(v, F, k, n)
    BY <1>u DEF Tale
  <2>3. queue \in Seq(CaseType)  BY DEF TypeOK, TypeJudge
  <2>4. v \in ViewType /\ w \in ViewType  BY ViewTyped
  <2>5. gt[t] # "off"  BY <1>3 DEF Handover
  <2>6. /\ v.gt # "off" /\ w.gt = v.gt /\ w.msg = v.msg /\ w.up = v.up /\ WorkerSame(v, w)
        /\ w.queue = <<>> /\ v.queue = queue /\ w.log = v.log \o Status(queue)
    BY <1>3, <1>u, <2>1, <2>5 DEF View, WorkerSame
  <2> HIDE DEF v, w
  <2>7. Status(v.queue) \in Seq(PacketType)  BY <2>3, <2>6, StatusType
  <2>8. Longer(v, w, Status(v.queue))  BY <2>4, <2>6, <2>7, ConcatLonger
  <2>9. Told(w, F, k, n)  BY <2>2, <2>4, <2>6, <2>8, ToldFlush
  <2> QED  BY <1>3, <2>9 DEF Tale, w
<1> QED  BY <1>1, <1>2, <1>3

\* A judge that went down stays down.
LEMMA NeverBack ==
    ASSUME [Next]_vars, judge' = "up" PROVE judge = "up"
<1>1. CASE UNCHANGED vars  BY <1>1 DEF vars, judgeVars
<1>2. CASE NetworkThread
  BY <1>2 DEF NetworkThread, Request, AcquireLock, StartGrading, AwaitReady, Terminate, Disconnect,
              Interrupt, Murder, CloseConnection, Exit, NetJoin, Query
<1>3. ASSUME NEW s \in Submissions, GradingThread(s) PROVE judge = "up"
  BY <1>3 DEF GradingThread, ReceiveHello, ReceiveResult, ReceiveDirect, ReceiveFlushing,
              ReceiveUnhandled, ReceiveBye, Receive, ReceiveEof, ReceiveTimeout, FlushFirst,
              ThenSend, ReportError, ReportSend, Join, Clear, Release
<1>4. ASSUME NEW s \in Submissions, Worker(s) PROVE judge = "up"
  BY <1>4 DEF Worker, WorkerFrame, judgeVars
<1>5. CASE PeriodicFlush  BY <1>5 DEF PeriodicFlush
<1> QED  BY <1>1, <1>2, <1>3, <1>4, <1>5 DEF Next

LEMMA AcknowledgedStep ==
    ASSUME TypeOK, Handover, Acknowledged, [Next]_vars PROVE Acknowledged'
<1>l. log \in [Submissions -> Seq(PacketType)]  BY DEF TypeOK, TypeLog
<1>0. netPc \in {"acquire", "start"} => netSub \in Submissions /\ gt[netSub] = "off" /\ current # netSub
  BY DEF TypeOK, TypeNet, Handover
<1>f. ASSUME UNCHANGED netVars,
             netPc \in {"acquire", "start"} => log'[netSub] = log[netSub]
      PROVE  Acknowledged'
  BY <1>f DEF Acknowledged, netVars
<1>1. CASE UNCHANGED vars  BY <1>1, <1>f DEF vars
<1>2. CASE NetworkThread
  <2>1. ASSUME NEW s \in Submissions, Request(s) PROVE Acknowledged'
    <3>1. netSub' = s /\ log'[s] = <<Packet("submission-acknowledged")>>
      BY <1>l, <2>1 DEF Request
    <3>2. log'[netSub'] # <<>>  BY <3>1
    <3> QED  BY <3>2 DEF Acknowledged
  <2>2. CASE AcquireLock  BY <2>2 DEF AcquireLock, Acknowledged
  <2>3. CASE StartGrading  BY <2>3 DEF StartGrading, Acknowledged
  <2>4. CASE AwaitReady  BY <2>4 DEF AwaitReady, Acknowledged
  <2>5. CASE Terminate \/ Disconnect \/ Interrupt \/ Murder \/ CloseConnection
    BY <2>5
    DEF Terminate, Disconnect, Interrupt, Murder, CloseConnection, AbortGrading, Acknowledged
  <2>6. CASE Exit \/ Query  BY <2>6, <1>f DEF Exit, Query
  <2>7. CASE NetJoin
    <3>1. netPc' = after /\ after \in {"read", "murder", "close"}
      BY <2>7 DEF NetJoin, TypeOK, TypeNet
    <3> QED  BY <3>1 DEF Acknowledged
  <2> QED  BY <1>2, <2>1, <2>2, <2>3, <2>4, <2>5, <2>6, <2>7 DEF NetworkThread
<1>3. ASSUME NEW s \in Submissions, GradingThread(s) PROVE Acknowledged'
  <2>1. gt[s] # "off" /\ UNCHANGED netVars
    BY <1>3 DEF GradingThread, ReceiveHello, ReceiveResult, ReceiveDirect, ReceiveFlushing,
                ReceiveUnhandled, ReceiveBye, Receive, ReceiveEof, ReceiveTimeout, FlushFirst,
                ThenSend, ReportError, ReportSend, Join, Clear, Release
  <2>2. netPc \in {"acquire", "start"} => log'[netSub] = log[netSub]
    BY <1>0, <1>3, <2>1, GradingLocal
  <2> QED  BY <1>f, <2>1, <2>2
<1>4. ASSUME NEW s \in Submissions, Worker(s) PROVE Acknowledged'
  BY <1>4, <1>f DEF Worker, WorkerFrame
<1>5. CASE PeriodicFlush
  BY <1>0, <1>5, <1>f, <1>l DEF PeriodicFlush, Flush, Send, NoSend
<1> QED  BY <1>1, <1>2, <1>3, <1>4, <1>5 DEF Next

LEMMA NarratedInit == Init => Narrated
<1> SUFFICES ASSUME Init PROVE Narrated  OBVIOUS
<1>1. Acknowledged  BY DEF Init, Acknowledged
<1>2. ASSUME NEW s \in Submissions PROVE Tale(s)
  <2> DEFINE v == View(s)
  <2>1. /\ v.log = <<>> /\ v.queue = <<>> /\ v.gt = "off" /\ v.up = <<>> /\ v.main = "off"
        /\ v.step = 1
    BY <1>2 DEF Init, View
  <2> HIDE DEF v
  <2>2. Len(v.log) = 0 /\ Len(v.queue) = 0 /\ Len(v.up) = 0 /\ Held(v) = 0
    BY <2>1, EmptySeq DEF Held, Holding
  <2>3. Taken(v) = 0 /\ Greets(v) = 0 /\ Leaves(v) = 0  BY <2>1, <2>2 DEF Taken, Greets, Leaves
  <2> DEFINE F == <<>>
  <2>4. F \in Seq(PacketType) /\ Len(F) = 0 /\ \A i \in 1..0 : FALSE  BY EmptySeq
  <2>5. F = <<>>  OBVIOUS
  <2> HIDE DEF F
  <2>6. Story(F, 0, 0)  BY <2>4, <2>5 DEF Story, Opens
  <2>7. Written(v, F) /\ Pending(v, F)
    BY <2>1, <2>2, <2>3, <2>4 DEF Written, Pending, Holding
  <2>8. WorkerAt(v, F, 0, 0) /\ Stage(v, F, 0, 0)  BY <2>1, <2>2, <2>3 DEF WorkerAt, Stage
  <2>9. Told(v, F, 0, 0)  BY <2>6, <2>7, <2>8 DEF Told
  <2>10. judge = "up" /\ 0 \in Nat  BY DEF Init
  <2> QED  BY <2>4, <2>9, <2>10 DEF Tale, v
<1> QED  BY <1>1, <1>2 DEF Narrated

LEMMA NarratedStep ==
    /\ TypeOK /\ TypeOK' /\ Handover /\ Handover' /\ Delivery /\ Narrated /\ [Next]_vars
    => Narrated'
<1> SUFFICES ASSUME TypeOK, TypeOK', Handover, Handover', Delivery, Narrated, [Next]_vars
             PROVE  Narrated'
  OBVIOUS
<1>a. Acknowledged'  BY AcknowledgedStep DEF Narrated
<1>b. judge' = "up" => judge = "up"  BY NeverBack
<1>t. ASSUME NEW t \in Submissions PROVE Tale(t)'
  <2>0. Tale(t) /\ Acknowledged  BY <1>t DEF Narrated
  <2>1. CASE UNCHANGED vars
    BY <1>b, <2>0, <2>1, TaleFrame
    DEF vars, judgeVars, threadVars, workerVars, pipeVars
  <2>2. CASE NetworkThread  BY <2>0, <2>2, TaleNetwork
  <2>3. ASSUME NEW s \in Submissions, GradingThread(s) PROVE Tale(t)'
    <3>1. CASE t = s  BY <2>0, <2>3, <3>1, TaleOwn
    <3>2. CASE t # s  BY <1>b, <2>0, <2>3, <3>2, TaleOthers
    <3> QED  BY <3>1, <3>2
  <2>4. ASSUME NEW s \in Submissions, Worker(s) PROVE Tale(t)'
    BY <2>0, <2>4, TaleWorker
  <2>5. CASE PeriodicFlush  BY <2>0, <2>5, TalePeriodicFlush
  <2> QED  BY <2>1, <2>2, <2>3, <2>4, <2>5 DEF Next
<1> QED  BY <1>a, <1>t DEF Narrated

\* What was said of every submission, received or on its way, is a Story, in every
\* reachable state (the threads of judge.py and packet.py and the worker together).
THEOREM NarratedCorrect == Spec => []Narrated
<1>1. TypeOK /\ Handover /\ Delivery /\ [Next]_vars => TypeOK' /\ Handover'
  BY TypeStep, HandoverStep
<1>2. Init => Narrated  BY NarratedInit
<1>3. TypeOK /\ TypeOK' /\ Handover /\ Handover' /\ Delivery /\ Narrated /\ [Next]_vars => Narrated'
  BY NarratedStep
<1> QED
  BY <1>2, <1>3, TypeCorrect, HandoverCorrect, DeliveryCorrect, PTL DEF Spec

\* The site hears of each submission in order, each case once and before the
\* grading-end, and a verdict is final (packet.py's packet methods, the flush
\* thread and _grading_thread_main, judge.py:300-380).
THEOREM ResultsInOrderCorrect == Spec => []ResultsInOrder
<1>1. ASSUME TypeOK, Narrated PROVE ResultsInOrder
  <2> SUFFICES ASSUME NEW s \in Submissions
               PROVE  \E k \in 0..3, n \in 0..Len(Plan) : Story(log[s], k, n)
    BY DEF ResultsInOrder
  <2>1. PICK k \in Nat, n \in Nat : Story(log[s], k, n)
    BY <1>1, TaleHeard DEF Narrated
  <2>2. k \in 0..3  BY <2>1, BegunEarly
  <2>3. n \in 0..Len(Plan)
    <3>1. Len(Plan) \in Nat  BY PlanAssumption, LengthsNat
    <3>2. CASE n > 0
      <4>1. Tells(log[s][k + n], n)  BY <2>1, <3>2 DEF Story
      <4> QED  BY <3>1, <3>2, <4>1 DEF Tells
    <3> QED  BY <3>1, <3>2
  <2> QED  BY <2>1, <2>2, <2>3
<1> QED  BY <1>1, TypeCorrect, NarratedCorrect, PTL
-----------------------------------------------------------------------------
(***************************************************************************)
(* The judge implements SubmissionLife.  A step adds packets to the log of *)
(* at most one submission: a packet, or cases.  Both the log before and    *)
(* the longer one are stories, and where the first new packet stands in    *)
(* the longer one tells which action of SubmissionLife the step is.        *)
(***************************************************************************)
LEMMA FirstVerdictIs ==
    ASSUME NEW l \in Seq(PacketType), NEW x \in 1..Len(l), l[x].name \in Terminals,
           \A j \in 1..x - 1 : l[j].name \notin Terminals
    PROVE  Answered(l) /\ FirstVerdict(l) = l[x].name
<1>0. Len(l) \in Nat /\ DOMAIN l = 1..Len(l)  BY LengthsNat
<1>1. Answered(l)  BY <1>0 DEF Answered, Has
<1> DEFINE First(i) == l[i].name \in Terminals /\ \A j \in 1..i - 1 : l[j].name \notin Terminals
<1>2. First(x)  OBVIOUS
<1>3. ASSUME NEW y \in 1..Len(l), First(y) PROVE y = x
  <2>1. ~(y < x)  BY <1>0, <1>3
  <2>2. ~(x < y)  BY <1>0, <1>3
  <2> QED  BY <1>0, <2>1, <2>2
<1>4. FirstVerdict(l) = l[CHOOSE i \in DOMAIN l : First(i)].name  BY <1>1 DEF FirstVerdict
<1> HIDE DEF First
<1>5. (CHOOSE i \in DOMAIN l : First(i)) = x  BY <1>0, <1>2, <1>3
<1> QED  BY <1>1, <1>4, <1>5

LEMMA OpenPhase ==
    ASSUME NEW l \in Seq(PacketType), \A i \in 1..Len(l) : l[i].name \notin Terminals
    PROVE  /\ ~Answered(l) /\ FirstVerdict(l) = "none"
           /\ l # <<>> => PhaseOf(l) \in {"acknowledged", "grading"}
           /\ (\E i \in 1..Len(l) : l[i].name = "grading-begin") <=> PhaseOf(l) = "grading"
<1>0. Len(l) \in Nat /\ DOMAIN l = 1..Len(l)  BY LengthsNat
<1>1. ~Answered(l)  BY <1>0 DEF Answered, Has
<1>2. (\E i \in 1..Len(l) : l[i].name = "grading-begin") <=> Has(l, "grading-begin")
  BY <1>0 DEF Has
<1>3. l = <<>> => ~Has(l, "grading-begin")  BY <1>0, EmptySeq DEF Has
<1> QED  BY <1>1, <1>2, <1>3 DEF FirstVerdict, PhaseOf

\* The cases a story tells are those of the part of Plan it covers.
LEMMA DeliveredCount ==
    ASSUME NEW l \in Seq(PacketType), NEW k \in Nat, NEW n \in Nat, Story(l, k, n)
    PROVE  Cardinality(Delivered(l)) = CaseNumber(n) /\ IsFiniteSet(Delivered(l))
<1> DEFINE C == {j \in 1..n : Plan[j] = "CASE"}
           D == Delivered(l)
<1>0. Len(l) \in Nat /\ DOMAIN l = 1..Len(l) /\ k + n <= Len(l)  BY LengthsNat DEF Story
<1>1. IsFiniteSet(C)
  <2>1. IsFiniteSet(1..n)  BY FS_Interval
  <2> QED  BY <2>1, FS_Subset
<1>2. ASSUME NEW j \in 1..n PROVE k + j \in D <=> j \in C
  <2>0. k + j \in 1..Len(l)  BY <1>0
  <2>1. Tells(l[k + j], j) /\ k + j \in DOMAIN l  BY <1>0, <2>0 DEF Story
  <2>2. Plan[j] \in {"BATCH_BEGIN", "CASE", "BATCH_END"}  BY <2>1, PlanEntry DEF Tells
  <2> QED  BY <2>1, <2>2 DEF Tells, Delivered, IsCase
<1>3. ASSUME NEW i \in D PROVE i - k \in C /\ i = k + (i - k)
  <2>1. i \in 1..Len(l) /\ l[i].name = "test-case-status"  BY <1>0, <1>3 DEF Delivered, IsCase
  <2>2. i > k /\ i <= k + n  BY <1>0, <2>1, Places DEF Terminals
  <2>3. i - k \in 1..n /\ k + (i - k) = i  BY <2>1, <2>2
  <2> QED  BY <1>2, <1>3, <2>3
<1>4. \A j \in C : j \in 1..n /\ k + j \in D  BY <1>2
<1> DEFINE f == [j \in C |-> k + j]
<1>5. C \subseteq Nat  OBVIOUS
<1>d. D \subseteq Nat  BY <1>0 DEF Delivered
<1> HIDE DEF C, D
<1>6. f \in [C -> D]  BY <1>4
<1>7. \A a, b \in C : f[a] = f[b] => a = b  BY <1>5
<1>8. \A i \in D : i - k \in C /\ f[i - k] = i  BY <1>3
<1>9. f \in Bijection(C, D)
  <2>1. f \in Injection(C, D)  BY <1>6, <1>7 DEF Injection, IsInjective
  <2>2. f \in Surjection(C, D)
    <3>1. \A i \in D : \E j \in C : f[j] = i  BY <1>8
    <3> QED  BY <1>6, <3>1 DEF Surjection
  <2> QED  BY <2>1, <2>2 DEF Bijection
<1>10. ExistsBijection(C, D)  BY <1>9 DEF ExistsBijection
<1> QED  BY <1>1, <1>10, FS_Bijection DEF CaseNumber, C, D

LEMMA CaseNumberBound ==
    ASSUME NEW n \in Nat, n <= Len(Plan)
    PROVE  CaseNumber(n) <= CaseNumber(Len(Plan)) /\ CaseNumber(n) \in Nat
<1>0. Len(Plan) \in Nat  BY PlanAssumption, LengthsNat
<1> DEFINE C(m) == {j \in 1..m : Plan[j] = "CASE"}
<1>1. IsFiniteSet(1..Len(Plan))  BY <1>0, FS_Interval
<1>2. IsFiniteSet(C(Len(Plan)))  BY <1>1, FS_Subset
<1>3. C(n) \subseteq C(Len(Plan))  BY <1>0
<1>4. Cardinality(C(n)) <= Cardinality(C(Len(Plan)))  BY <1>2, <1>3, FS_Subset
<1> QED  BY <1>4, CaseNumberType DEF CaseNumber

Count(l) == Cardinality(Delivered(l))

\* What SubmissionLife lets the log l of a submission become, as seen from it alone.
SameSaid(l, m) == FirstVerdict(m) = FirstVerdict(l) /\ Count(m) = Count(l)
MayBegin(l, m) == PhaseOf(l) = "acknowledged" /\ PhaseOf(m) = "grading" /\ SameSaid(l, m)
MayMove(l, m) ==
    \/ PhaseOf(m) = PhaseOf(l) /\ SameSaid(l, m)
    \/ PhaseOf(l) = "unknown" /\ PhaseOf(m) = "acknowledged" /\ SameSaid(l, m)
    \/ MayBegin(l, m)
    \/ /\ PhaseOf(l) = "grading" /\ PhaseOf(m) = "grading" /\ FirstVerdict(m) = FirstVerdict(l)
       /\ Count(m) \in 1..CaseNumber(Len(Plan)) /\ Count(m) > Count(l)
    \/ /\ PhaseOf(m) = "answered" /\ Count(m) = Count(l)
       /\ FirstVerdict(m) \in Terminals
       /\ FirstVerdict(m) = "grading-end" => Count(l) = CaseNumber(Len(Plan))
       /\ FirstVerdict(m) = "compile-error" => PhaseOf(l) = "acknowledged"
       /\ FirstVerdict(m) # "compile-error" =>
            \/ PhaseOf(l) = "grading"
            \/ PhaseOf(l) = "acknowledged" /\ FirstVerdict(m) = "internal-error"

LEMMA MovePacket ==
    ASSUME NEW l \in Seq(PacketType), NEW p \in PacketType, ~IsCase(p),
           NEW k \in Nat, NEW n \in Nat, Story(Append(l, p), k, n)
    PROVE  /\ MayMove(l, Append(l, p))
           /\ PhaseOf(l) = "acknowledged" /\ PhaseOf(Append(l, p)) = "grading" =>
                p.name = "grading-begin"
<1> DEFINE m == Append(l, p)
           x == Len(m)
<1>1. /\ m \in Seq(PacketType) /\ Len(l) \in Nat /\ x \in Nat \ {0} /\ Len(l) = x - 1 /\ m[x] = p
      /\ m # <<>> /\ \A i \in 1..x - 1 : m[i] = l[i]
  BY AppendProperties, EmptySeq
<1>2. DOMAIN l = 1..x - 1 /\ DOMAIN m = 1..x  BY <1>1, LengthsNat
<1>3. Delivered(m) = Delivered(l)
  <2>1. \A i : i \in Delivered(m) <=> i \in Delivered(l)
    BY <1>1, <1>2 DEF Delivered
  <2> QED  BY <2>1
<1>c. Count(m) = Count(l)  BY <1>3 DEF Count
<1>s. Story(m, k, n)  OBVIOUS
<1>l. l = <<>> <=> x = 1  BY <1>1, EmptySeq
<1> HIDE DEF m, x
<1>p. ASSUME NEW i \in 1..x
      PROVE  /\ i <= k => m[i].name \in {"submission-acknowledged", "compile-message", "grading-begin"}
             /\ i > k /\ i <= k + n =>
                  m[i].name \in {"batch-begin", "batch-end", "test-case-status"} /\ Begun(m, k)
             /\ i > k + n => m[i].name \in Terminals
             /\ i > k + n /\ m[i].name = "compile-error" => ~Begun(m, k)
  BY <1>1, <1>s, Places DEF x
<1>o. /\ k <= 3 /\ k >= 1 /\ m[1].name = "submission-acknowledged"
      /\ k >= 2 => m[2].name \in {"compile-message", "grading-begin"}
      /\ k >= 3 => m[2].name = "compile-message" /\ m[3].name = "grading-begin"
      /\ x <= k + n + 2 /\ k + n <= x
  BY <1>1, <1>s DEF Story, Opens, x
<1>b. ASSUME NEW i \in 1..x, m[i].name = "grading-begin" PROVE i = k /\ Begun(m, k)
  <2>1. i <= k  BY <1>b, <1>p DEF Terminals
  <2>2. i = k
    <3>1. i \in 1..3 /\ k \in 1..3  BY <1>o, <2>1
    <3>2. i # 1  BY <1>b, <1>o
    <3> QED  BY <1>b, <1>o, <2>1, <3>1, <3>2
  <2>3. k # 1  BY <1>b, <1>o, <2>2
  <2> QED  BY <1>b, <1>o, <2>2, <2>3 DEF Begun
\* What stands before x is the log l.
<1>i. ASSUME \A i \in 1..x - 1 : m[i].name \notin Terminals
      PROVE  /\ ~Answered(l) /\ FirstVerdict(l) = "none"
             /\ l # <<>> => PhaseOf(l) \in {"acknowledged", "grading"}
             /\ (\E i \in 1..x - 1 : m[i].name = "grading-begin") <=> PhaseOf(l) = "grading"
  <2>1. \A i \in 1..Len(l) : l[i].name \notin Terminals  BY <1>1, <1>i
  <2>2. (\E i \in 1..x - 1 : m[i].name = "grading-begin")
        <=> (\E i \in 1..Len(l) : l[i].name = "grading-begin")
    BY <1>1
  <2> QED  BY <2>1, <2>2, OpenPhase
<1>m. ASSUME \A i \in 1..x : m[i].name \notin Terminals
      PROVE  /\ ~Answered(m) /\ FirstVerdict(m) = "none"
             /\ PhaseOf(m) \in {"acknowledged", "grading"}
             /\ (\E i \in 1..x : m[i].name = "grading-begin") <=> PhaseOf(m) = "grading"
  BY <1>1, <1>m, OpenPhase DEF x
<1>5. CASE x <= k + n
  <2>1. \A i \in 1..x : m[i].name \notin Terminals
    <3>1. \A i \in 1..x : i <= k \/ (i > k /\ i <= k + n)  BY <1>1, <1>5
    <3> QED  BY <1>p, <3>1 DEF Terminals
  <2>2. \A i \in 1..x - 1 : m[i].name \notin Terminals  BY <1>1, <2>1
  <2>3. SameSaid(l, m)  BY <1>c, <1>i, <1>m, <2>1, <2>2 DEF SameSaid
  <2>4. CASE x = 1
    <3>1. PhaseOf(l) = "unknown"  BY <1>l, <2>4 DEF PhaseOf
    <3>2. ~(\E i \in 1..x : m[i].name = "grading-begin")
      BY <1>o, <2>4
    <3>3. PhaseOf(m) = "acknowledged"  BY <1>m, <2>1, <3>2
    <3> QED  BY <2>3, <3>1, <3>3 DEF MayMove, m
  <2>5. CASE x # 1 /\ p.name = "grading-begin"
    <3>1. x \in 1..x  BY <1>1
    <3>2. x = k  BY <1>1, <1>b, <2>5, <3>1
    <3>3. PhaseOf(m) = "grading"  BY <1>1, <1>m, <2>1, <2>5, <3>1
    <3>4. ~(\E i \in 1..x - 1 : m[i].name = "grading-begin")
      <4> SUFFICES ASSUME NEW i \in 1..x - 1, m[i].name = "grading-begin" PROVE FALSE  OBVIOUS
      <4>1. i \in 1..x /\ i # x  BY <1>1
      <4> QED  BY <1>b, <3>2, <4>1
    <3>5. PhaseOf(l) = "acknowledged"  BY <1>i, <1>l, <2>2, <2>5, <3>4
    <3> QED  BY <2>3, <2>5, <3>3, <3>5 DEF MayMove, MayBegin, m
  <2>6. CASE x # 1 /\ p.name # "grading-begin"
    <3>1. (\E i \in 1..x - 1 : m[i].name = "grading-begin")
          <=> (\E i \in 1..x : m[i].name = "grading-begin")
      <4>1. \A i \in 1..x : i = x \/ i \in 1..x - 1  BY <1>1
      <4>2. \A i \in 1..x - 1 : i \in 1..x  BY <1>1
      <4> QED  BY <1>1, <2>6, <4>1, <4>2
    <3>2. PhaseOf(l) = PhaseOf(m)  BY <1>i, <1>l, <1>m, <2>1, <2>2, <2>6, <3>1
    <3> QED  BY <2>3, <3>2 DEF MayMove, m
  <2> QED  BY <2>4, <2>5, <2>6
<1>6. CASE x = k + n + 1
  <2>1. \A i \in 1..x - 1 : m[i].name \notin Terminals
    <3>1. \A i \in 1..x - 1 : i \in 1..x /\ (i <= k \/ (i > k /\ i <= k + n))  BY <1>1, <1>6
    <3> QED  BY <1>p, <3>1 DEF Terminals
  <2>2. x \in 1..x /\ x > k + n  BY <1>1, <1>6
  <2>3. p.name \in Terminals  BY <1>1, <1>p, <2>2
  <2>4. Answered(m) /\ FirstVerdict(m) = p.name
    BY <1>1, <2>1, <2>2, <2>3, FirstVerdictIs DEF x
  <2>5. PhaseOf(m) = "answered"  BY <1>1, <2>4 DEF PhaseOf
  <2>6. Closes(m, k, n)  BY <1>1, <1>6, <1>s DEF Story, x
  <2>7. l # <<>>  BY <1>6, <1>l, <1>o
  <2>8. Begun(m, k) <=> PhaseOf(l) = "grading"
    <3>1. ASSUME Begun(m, k) PROVE \E i \in 1..x - 1 : m[i].name = "grading-begin"
      <4>1. k \in 1..x - 1  BY <1>6, <1>o
      <4> QED  BY <3>1, <4>1 DEF Begun
    <3>2. ASSUME NEW i \in 1..x - 1, m[i].name = "grading-begin" PROVE Begun(m, k)
      <4>1. i \in 1..x  BY <1>1
      <4> QED  BY <1>b, <3>2, <4>1
    <3> QED  BY <1>i, <2>1, <3>1, <3>2
  <2>9. PhaseOf(l) \in {"acknowledged", "grading"}  BY <1>i, <2>1, <2>7
  <2>10. p.name = "grading-end" => Count(l) = CaseNumber(Len(Plan))
    <3>1. p.name = "grading-end" => n = Len(Plan)  BY <1>1, <1>6, <2>6 DEF Closes
    <3>2. Count(m) = CaseNumber(n)  BY <1>1, <1>s, DeliveredCount DEF Count
    <3> QED  BY <1>c, <3>1, <3>2
  <2>11. /\ p.name = "compile-error" => ~Begun(m, k)
         /\ p.name \in {"grading-end", "submission-terminated"} => Begun(m, k)
    BY <1>1, <1>6, <2>6 DEF Closes
  <2> QED  BY <1>c, <2>3, <2>4, <2>5, <2>8, <2>9, <2>10, <2>11 DEF MayMove, Terminals, m
<1>7. CASE x = k + n + 2
  <2> DEFINE y == k + n + 1
  <2>1. y \in 1..x - 1 /\ y \in 1..x /\ y > k + n  BY <1>1, <1>7
  <2>2. m[y].name \in Terminals /\ l[y] = m[y]  BY <1>1, <1>p, <2>1
  <2>3. \A i \in 1..y - 1 : i \in 1..x - 1 /\ m[i].name \notin Terminals
    <3>1. \A i \in 1..y - 1 : i \in 1..x /\ i \in 1..x - 1 /\ (i <= k \/ (i > k /\ i <= k + n))
      BY <1>1, <1>7
    <3> QED  BY <1>p, <3>1 DEF Terminals
  <2> HIDE DEF y
  <2>4. Answered(m) /\ FirstVerdict(m) = m[y].name
    BY <1>1, <2>1, <2>2, <2>3, FirstVerdictIs DEF x
  <2>5. Answered(l) /\ FirstVerdict(l) = l[y].name
    <3>1. \A i \in 1..y - 1 : l[i].name \notin Terminals  BY <1>1, <2>3
    <3>2. y \in 1..Len(l)  BY <1>1, <2>1
    <3> QED  BY <2>2, <3>1, <3>2, FirstVerdictIs
  <2>6. PhaseOf(m) = "answered" /\ PhaseOf(l) = "answered"
    <3>1. l # <<>>  BY <1>7, <1>l, <1>o
    <3> QED  BY <1>1, <2>4, <2>5, <3>1 DEF PhaseOf
  <2>7. SameSaid(l, m)  BY <1>c, <2>2, <2>4, <2>5 DEF SameSaid
  <2> QED  BY <2>6, <2>7 DEF MayMove, m
<1>8. x <= k + n \/ x = k + n + 1 \/ x = k + n + 2  BY <1>1, <1>o
<1> QED  BY <1>5, <1>6, <1>7, <1>8

LEMMA MoveCases ==
    ASSUME NEW l \in Seq(PacketType), NEW q \in Seq(PacketType), q # <<>>,
           \A i \in DOMAIN q : IsCase(q[i]),
           NEW k \in Nat, NEW n \in Nat, Story(l \o q, k, n)
    PROVE  /\ MayMove(l, l \o q)
           /\ PhaseOf(l) = "grading" /\ PhaseOf(l \o q) = "grading"
<1> DEFINE m == l \o q
           a == Len(l)
           x == Len(m)
<1>1. /\ m \in Seq(PacketType) /\ a \in Nat /\ Len(q) \in Nat \ {0} /\ x = a + Len(q)
      /\ DOMAIN m = 1..x /\ DOMAIN l = 1..a
      /\ \A i \in 1..a : m[i] = l[i]
      /\ \A i \in 1..Len(q) : IsCase(m[a + i])
  BY ConcatElements, EmptySeq
<1>s. Story(m, k, n)  OBVIOUS
<1>x. x = Len(m)  OBVIOUS
<1> HIDE DEF m, x
<1>p. ASSUME NEW i \in 1..x
      PROVE  /\ i <= k => m[i].name \in {"submission-acknowledged", "compile-message", "grading-begin"}
             /\ i > k /\ i <= k + n =>
                  m[i].name \in {"batch-begin", "batch-end", "test-case-status"} /\ Begun(m, k)
             /\ i > k + n => m[i].name \in Terminals
  BY <1>1, <1>s, <1>x, Places
\* The first new case is after the opening and the last one before any verdict.
<1>2. a + 1 \in 1..x /\ m[a + 1].name = "test-case-status" /\ m[x].name = "test-case-status" /\ x \in 1..x
  <2>1. 1 \in 1..Len(q) /\ Len(q) \in 1..Len(q) /\ a + 1 \in 1..x /\ x \in 1..x  BY <1>1
  <2>2. IsCase(m[a + 1]) /\ IsCase(m[a + Len(q)])  BY <1>1, <2>1
  <2> QED  BY <1>1, <2>1, <2>2 DEF IsCase
<1>3. k <= a /\ x <= k + n /\ Begun(m, k)
  <2>1. ~(a + 1 <= k)  BY <1>2, <1>p
  <2>2. ~(x > k + n)  BY <1>2, <1>p DEF Terminals
  <2>3. k <= a /\ x <= k + n  BY <1>1, <2>1, <2>2
  <2>4. a + 1 > k /\ a + 1 <= k + n  BY <1>1, <2>3
  <2> QED  BY <1>2, <1>p, <2>3, <2>4
<1>4. \A i \in 1..x : m[i].name \notin Terminals
  <2>1. \A i \in 1..x : i <= k \/ (i > k /\ i <= k + n)  BY <1>1, <1>3
  <2> QED  BY <1>p, <2>1 DEF Terminals
<1>5. \A i \in 1..a : i \in 1..x /\ l[i].name \notin Terminals  BY <1>1, <1>4
<1>6. k \in 1..a /\ m[k].name = "grading-begin" /\ l[k].name = "grading-begin"
  <2>1. k \in 1..a  BY <1>1, <1>3 DEF Begun
  <2> QED  BY <1>1, <1>3, <2>1 DEF Begun
<1>7. PhaseOf(l) = "grading" /\ FirstVerdict(l) = "none"  BY <1>5, <1>6, OpenPhase
<1>8. PhaseOf(m) = "grading" /\ FirstVerdict(m) = "none"
  BY <1>1, <1>4, <1>5, <1>6, <1>x, OpenPhase
<1>9. Count(m) = CaseNumber(n) /\ IsFiniteSet(Delivered(m))
  BY <1>1, <1>s, DeliveredCount DEF Count
<1>10. n <= Len(Plan)
  <2>1. n > 0  BY <1>1, <1>3
  <2>2. Tells(m[k + n], n)  BY <1>s, <2>1 DEF Story
  <2> QED  BY <2>2 DEF Tells
<1>11. Delivered(l) \subseteq Delivered(m) /\ a + 1 \in Delivered(m) /\ a + 1 \notin Delivered(l)
  BY <1>1, <1>2, <1>5 DEF Delivered, IsCase
<1>12. Count(l) \in Nat /\ Count(m) \in Nat /\ Count(l) < Count(m)
  <2>1. IsFiniteSet(Delivered(l)) /\ Count(l) <= Count(m) /\ Count(l) # Count(m)
    BY <1>9, <1>11, FS_Subset DEF Count
  <2> QED  BY <1>9, <2>1, FS_CardinalityType DEF Count
<1>13. Count(m) <= CaseNumber(Len(Plan)) /\ CaseNumber(Len(Plan)) \in Nat
  <2>1. Len(Plan) \in Nat  BY PlanAssumption, LengthsNat
  <2> QED  BY <1>9, <1>10, <2>1, CaseNumberBound, CaseNumberType
<1> QED  BY <1>7, <1>8, <1>12, <1>13 DEF MayMove, m

\* How the history changes in a step: packets about a submission, and that its
\* grading begins is said of a submission that is being graded.
Says(c, q) ==
    /\ judge = "up" /\ q # <<>>
    /\ Len(q) = 1 \/ \A i \in DOMAIN q : IsCase(q[i])
    /\ q[1].name = "grading-begin" => gt[c] \notin {"off", "done"}
    /\ log'[c] = log[c] \o q
    /\ \A t \in Submissions \ {c} : log'[t] = log[t]

LEMMA HistoryStep ==
    ASSUME TypeOK, Handover, [Next]_vars
    PROVE  log' = log \/ \E c \in Submissions, q \in Seq(PacketType) : Says(c, q)
<1>l. log \in [Submissions -> Seq(PacketType)]  BY DEF TypeOK, TypeLog
<1>c. current \in Submissions => gt[current] \notin {"off", "done"}  BY DEF Handover
<1>s. ASSUME NEW q \in Seq(PacketType), Send(q), q # <<>>, judge = "up", current \in Submissions,
             Len(q) = 1 \/ \A i \in DOMAIN q : IsCase(q[i])
      PROVE  log' = log \/ Says(current, q)
  BY <1>c, <1>l, <1>s DEF Send, Says
<1>p. ASSUME NEW name \in PacketNames, SendPacket(name), judge = "up", current \in Submissions
      PROVE  log' = log \/ \E c \in Submissions, q \in Seq(PacketType) : Says(c, q)
  <2> DEFINE q == <<Packet(name)>>
  <2>1. q \in Seq(PacketType) /\ q # <<>> /\ Len(q) = 1 /\ Send(q)
    BY <1>p, PacketTyped DEF SendPacket
  <2> HIDE DEF q
  <2> QED  BY <1>p, <1>s, <2>1
<1>f. ASSUME Flush, judge = "up", current \in Submissions
      PROVE  log' = log \/ \E c \in Submissions, q \in Seq(PacketType) : Says(c, q)
  <2>1. CASE queue = <<>>  BY <1>f, <2>1 DEF Flush, NoSend
  <2>2. CASE queue # <<>>
    <3> DEFINE q == Status(queue)
    <3>1. queue \in Seq(CaseType)  BY DEF TypeOK, TypeJudge
    <3>2. q \in Seq(PacketType) /\ Len(q) = Len(queue) /\ Len(queue) # 0
      BY <2>2, <3>1, StatusType, EmptySeq
    <3>3. \A i \in DOMAIN q : IsCase(q[i])  BY DEF Status, IsCase
    <3>4. q # <<>>  BY <3>2, EmptySeq
    <3>5. Send(q)  BY <1>f, <2>2 DEF Flush
    <3> HIDE DEF q
    <3> QED  BY <1>f, <1>s, <3>2, <3>3, <3>4, <3>5
  <2> QED  BY <2>1, <2>2
<1>1. CASE UNCHANGED vars  BY <1>1 DEF vars
<1>2. CASE NetworkThread
  <2>1. ASSUME NEW s \in Submissions, Request(s)
        PROVE  \E c \in Submissions, q \in Seq(PacketType) : Says(c, q)
    <3> DEFINE p == Packet("submission-acknowledged")
    <3>1. p \in PacketType /\ p.name = "submission-acknowledged"
      BY PacketTyped DEF Packet, PacketNames
    <3>2. log' = [log EXCEPT ![s] = <<p>>] /\ log[s] = <<>> /\ judge = "up"
      BY <2>1 DEF Request
    <3> HIDE DEF p
    <3>3. /\ <<p>> \in Seq(PacketType) /\ <<p>> # <<>> /\ Len(<<p>>) = 1
          /\ <<p>>[1].name = "submission-acknowledged"
      BY <3>1
    <3>4. <<>> \o <<p>> = <<p>>  BY <3>3, ConcatEmptySeq
    <3>5. Says(s, <<p>>)  BY <1>l, <3>2, <3>3, <3>4 DEF Says
    <3> QED  BY <3>3, <3>5
  <2>2. CASE AcquireLock \/ StartGrading \/ AwaitReady \/ Terminate \/ Disconnect \/ Interrupt
             \/ Murder \/ CloseConnection \/ Exit \/ NetJoin \/ Query
    BY <2>2 DEF AcquireLock, StartGrading, AwaitReady, Terminate, Disconnect, Interrupt, Murder,
                CloseConnection, Exit, NetJoin, Query
  <2> QED  BY <1>2, <2>1, <2>2 DEF NetworkThread
<1>3. ASSUME NEW s \in Submissions, GradingThread(s)
      PROVE  log' = log \/ \E c \in Submissions, q \in Seq(PacketType) : Says(c, q)
  <2>1. CASE ReceiveHello(s) \/ ReceiveResult(s) \/ ReceiveFlushing(s) \/ ReceiveUnhandled(s)
             \/ ReceiveBye(s) \/ ReceiveEof(s) \/ ReceiveTimeout(s) \/ Join(s) \/ Clear(s) \/ Release(s)
    BY <2>1 DEF ReceiveHello, ReceiveResult, ReceiveFlushing, ReceiveUnhandled, ReceiveBye,
                ReceiveEof, ReceiveTimeout, Join, Clear, Release
  <2>c. gt[s] \notin {"off", "release", "done"} => current = s  BY DEF Handover
  <2>2. CASE ReceiveDirect(s)
    <3>1. judge = "up" /\ current = s  BY <2>2, <2>c DEF ReceiveDirect, Receive
    <3>2. PacketOf[Head(up[s]).type] \in PacketNames
      BY <2>2 DEF ReceiveDirect, Receive, DirectTypes, PacketOf, PacketNames, Terminals
    <3> QED  BY <1>p, <2>2, <3>1, <3>2 DEF ReceiveDirect
  <2>3. CASE FlushFirst(s) \/ ReportError(s)
    <3>1. judge = "up" /\ current = s /\ Flush
      BY <2>3, <2>c DEF FlushFirst, FlushBefore, ReportError, FlushOnError
    <3> QED  BY <1>f, <3>1
  <2>4. CASE ThenSend(s)
    <3>1. judge = "up" /\ current = s  BY <2>4, <2>c DEF ThenSend
    <3>2. PacketOf[msg[s]] \in PacketNames
      BY <2>4 DEF ThenSend, TypeOK, TypeThread, FlushTypes, PacketOf, PacketNames, Terminals
    <3> QED  BY <1>p, <2>4, <3>1, <3>2 DEF ThenSend
  <2>5. CASE ReportSend(s)
    <3>1. judge = "up" /\ current = s  BY <2>5, <2>c DEF ReportSend
    <3> QED  BY <1>p, <2>5, <3>1 DEF ReportSend, PacketNames, Terminals
  <2> QED  BY <1>3, <2>1, <2>2, <2>3, <2>4, <2>5 DEF GradingThread
<1>4. ASSUME NEW s \in Submissions, Worker(s) PROVE log' = log
  BY <1>4 DEF Worker, WorkerFrame
<1>5. CASE PeriodicFlush
  <2>1. CASE current = None  BY <1>5, <2>1 DEF PeriodicFlush, NoSend
  <2>2. CASE current # None
    <3>1. judge = "up" /\ current \in Submissions /\ Flush
      BY <1>5, <2>2 DEF PeriodicFlush, TypeOK, TypeJudge
    <3> QED  BY <1>f, <3>1
  <2> QED  BY <2>1, <2>2
<1> QED  BY <1>1, <1>2, <1>3, <1>4, <1>5 DEF Next

\* A submission whose grading has not started or is over is not in the phase
\* "grading" for the site either.
LEMMA Settled ==
    ASSUME TypeOK, judge = "up", NEW t \in Submissions, Tale(t), gt[t] \in {"off", "done"}, Handover
    PROVE  PhaseOf(log[t]) # "grading"
<1> DEFINE v == View(t)
<1>1. PICK F \in Seq(PacketType), k \in Nat, n \in Nat : Told(v, F, k, n)  BY DEF Tale
<1>2. v \in ViewType  BY ViewTyped
<1>3. current # t  BY DEF Handover
<1>4. v.log = log[t] /\ v.queue = <<>> /\ v.gt = gt[t]  BY <1>3 DEF View
<1> HIDE DEF v
<1>5. /\ Story(F, k, n) /\ Written(v, F) /\ Pending(v, F) /\ Stage(v, F, k, n) /\ v.up = <<>>
      /\ v.log \in Seq(PacketType)
  BY <1>1, <1>2, <1>4, ViewLengths DEF Told, Stage
<1>6. Taken(v) = Len(v.log) /\ Len(v.log) \in Nat
  <2>1. Len(v.queue) = 0 /\ Held(v) = 0  BY <1>4, EmptySeq DEF Held, Holding
  <2>2. Len(v.log) \in Nat  BY <1>5, LengthsNat
  <2> QED  BY <2>1, <2>2 DEF Taken
<1>7. Len(F) = Len(v.log) /\ Len(F) \in Nat
  BY <1>2, <1>5, <1>6, TakenIn
<1>8. \A i \in 1..Len(F) : F[i] = v.log[i]  BY <1>5, <1>7 DEF Written
<1>9. DOMAIN v.log = 1..Len(F)  BY <1>5, <1>7, LengthsNat
<1>10. CASE gt[t] = "off"
  <2>1. k <= 1 /\ Len(F) = k  BY <1>4, <1>5, <1>7, <1>10 DEF Stage
  <2>2. ~Has(v.log, "grading-begin")
    <3> SUFFICES ASSUME NEW i \in 1..Len(F), F[i].name = "grading-begin" PROVE FALSE
      BY <1>8, <1>9 DEF Has
    <3>1. i = 1 /\ k = 1  BY <2>1
    <3> QED  BY <1>5, <3>1 DEF Story, Opens
  <2> QED  BY <1>4, <2>2 DEF PhaseOf
<1>11. CASE gt[t] = "done"
  <2>1. Len(F) > k + n  BY <1>4, <1>5, <1>11 DEF Stage
  <2>2. Closes(F, k, n) /\ k + n + 1 \in 1..Len(F)  BY <1>5, <1>7, <2>1 DEF Story
  <2>3. F[k + n + 1].name \in Terminals  BY <2>2 DEF Closes
  <2>4. Answered(v.log)  BY <1>8, <1>9, <2>2, <2>3 DEF Answered, Has
  <2> QED  BY <1>4, <2>4 DEF PhaseOf
<1> QED  BY <1>10, <1>11

\* One submission moves as SubmissionLife lets it.
LEMMA LifeMove ==
    ASSUME NEW c \in Submissions, MayMove(log[c], log'[c]),
           \A t \in Submissions \ {c} : log'[t] = log[t],
           MayBegin(log[c], log'[c]) => \A t \in Submissions : PhaseOf(log[t]) # "grading"
    PROVE  [Life!Next]_(Life!vars)
<1> DEFINE P == [s \in Submissions |-> PhaseOf(log[s])]
           V == [s \in Submissions |-> FirstVerdict(log[s])]
           D == [s \in Submissions |-> Count(log[s])]
<1>1. /\ P' = [P EXCEPT ![c] = PhaseOf(log'[c])]
      /\ V' = [V EXCEPT ![c] = FirstVerdict(log'[c])]
      /\ D' = [D EXCEPT ![c] = Count(log'[c])]
      /\ P[c] = PhaseOf(log[c]) /\ V[c] = FirstVerdict(log[c]) /\ D[c] = Count(log[c])
      /\ \A t \in Submissions : P[t] = PhaseOf(log[t])
  OBVIOUS
<1>2. /\ [P EXCEPT ![c] = P[c]] = P /\ [V EXCEPT ![c] = V[c]] = V /\ [D EXCEPT ![c] = D[c]] = D
  OBVIOUS
<1>3. /\ D = [s \in Submissions |-> Cardinality(Delivered(log[s]))]
      /\ D' = [s \in Submissions |-> Cardinality(Delivered(log'[s]))]
  BY DEF Count
<1> HIDE DEF P, V, D
<1> DEFINE l == log[c]
           m == log'[c]
<1>m. MayMove(l, m)  OBVIOUS
<1>b. MayBegin(l, m) => \A t \in Submissions : P[t] # "grading"  BY <1>1
<1> HIDE DEF l, m
<1>v. ASSUME SameSaid(l, m) PROVE V' = V /\ D' = D  BY <1>1, <1>2, <1>v DEF SameSaid, l, m
<1>4. CASE PhaseOf(m) = PhaseOf(l) /\ SameSaid(l, m)
  <2>1. P' = P /\ V' = V /\ D' = D  BY <1>1, <1>2, <1>4, <1>v DEF l, m
  <2> QED  BY <1>3, <2>1 DEF Life!vars, P, V, D
<1>5. CASE PhaseOf(l) = "unknown" /\ PhaseOf(m) = "acknowledged" /\ SameSaid(l, m)
  <2>1. P[c] = "unknown" /\ P' = [P EXCEPT ![c] = "acknowledged"] /\ V' = V /\ D' = D
    BY <1>1, <1>5, <1>v DEF l, m
  <2>2. Life!Acknowledge(c)  BY <1>3, <2>1 DEF Life!Acknowledge, P, V, D
  <2> QED  BY <2>2 DEF Life!Next
<1>6. CASE MayBegin(l, m)
  <2>1. /\ P[c] = "acknowledged" /\ P' = [P EXCEPT ![c] = "grading"] /\ V' = V /\ D' = D
        /\ \A t \in Submissions : P[t] # "grading"
    BY <1>1, <1>6, <1>b, <1>v DEF MayBegin, l, m
  <2>2. Life!Begin(c)  BY <1>3, <2>1 DEF Life!Begin, P, V, D
  <2> QED  BY <2>2 DEF Life!Next
<1>7. CASE /\ PhaseOf(l) = "grading" /\ PhaseOf(m) = "grading" /\ FirstVerdict(m) = FirstVerdict(l)
           /\ Count(m) \in 1..CaseNumber(Len(Plan)) /\ Count(m) > Count(l)
  <2>1. /\ P[c] = "grading" /\ P' = P /\ V' = V
        /\ \E n \in 1..CaseNumber(Len(Plan)) : n > D[c] /\ D' = [D EXCEPT ![c] = n]
    BY <1>1, <1>2, <1>7 DEF l, m
  <2>2. Life!Report(c)  BY <1>3, <2>1 DEF Life!Report, P, V, D
  <2> QED  BY <2>2 DEF Life!Next
<1>8. CASE /\ PhaseOf(m) = "answered" /\ Count(m) = Count(l)
           /\ FirstVerdict(m) \in Terminals
           /\ FirstVerdict(m) = "grading-end" => Count(l) = CaseNumber(Len(Plan))
           /\ FirstVerdict(m) = "compile-error" => PhaseOf(l) = "acknowledged"
           /\ FirstVerdict(m) # "compile-error" =>
                \/ PhaseOf(l) = "grading"
                \/ PhaseOf(l) = "acknowledged" /\ FirstVerdict(m) = "internal-error"
  <2> DEFINE x == FirstVerdict(m)
  <2>1. /\ P' = [P EXCEPT ![c] = "answered"] /\ V' = [V EXCEPT ![c] = x] /\ D' = D
        /\ x \in Terminals
        /\ x = "grading-end" => D[c] = CaseNumber(Len(Plan))
        /\ x = "compile-error" => P[c] = "acknowledged"
        /\ x # "compile-error" =>
             P[c] = "grading" \/ (P[c] = "acknowledged" /\ x = "internal-error")
    BY <1>1, <1>2, <1>8 DEF l, m
  <2> HIDE DEF x
  <2>2. Life!Answer(c, x)  BY <1>3, <2>1 DEF Life!Answer, P, V, D
  <2>3. x \in Life!Verdicts \ {"none"}  BY <2>1 DEF Life!Verdicts, Terminals
  <2> QED  BY <2>2, <2>3 DEF Life!Next
<1> QED  BY <1>m, <1>4, <1>5, <1>6, <1>7, <1>8 DEF MayMove

LEMMA LifeInit == Init => Life!Init
<1> SUFFICES ASSUME Init PROVE Life!Init  OBVIOUS
<1>1. \A s \in Submissions : log[s] = <<>>  BY DEF Init
<1>2. PhaseOf(<<>>) = "unknown"  BY DEF PhaseOf
<1>3. FirstVerdict(<<>>) = "none"  BY DEF FirstVerdict, Answered, Has
<1>4. Cardinality(Delivered(<<>>)) = 0
  <2>1. Delivered(<<>>) = {}  BY DEF Delivered
  <2> QED  BY <2>1, FS_EmptySet
<1> QED  BY <1>1, <1>2, <1>3, <1>4 DEF Life!Init

LEMMA LifeStep ==
    /\ TypeOK /\ TypeOK' /\ Handover /\ Narrated /\ ResultsInOrder' /\ [Next]_vars
    => [Life!Next]_(Life!vars)
<1> SUFFICES ASSUME TypeOK, TypeOK', Handover, Narrated, ResultsInOrder', [Next]_vars
             PROVE  [Life!Next]_(Life!vars)
  OBVIOUS
<1>l. log \in [Submissions -> Seq(PacketType)]  BY DEF TypeOK, TypeLog
<1>1. CASE log' = log
  BY <1>1 DEF Life!vars
<1>2. ASSUME NEW c \in Submissions, NEW q \in Seq(PacketType), Says(c, q)
      PROVE  [Life!Next]_(Life!vars)
  <2> DEFINE l == log[c]
             m == log'[c]
  <2>1. l \in Seq(PacketType) /\ m = l \o q  BY <1>2, <1>l DEF Says
  <2>2. PICK k \in Nat, n \in Nat : Story(m, k, n)
    BY DEF ResultsInOrder
  <2>3. MayMove(l, m) /\ (MayBegin(l, m) => q[1].name = "grading-begin")
    <3>1. CASE \A i \in DOMAIN q : IsCase(q[i])
      <4>1. q # <<>>  BY <1>2 DEF Says
      <4>2. MayMove(l, m) /\ PhaseOf(l) = "grading"  BY <2>1, <2>2, <3>1, <4>1, MoveCases
      <4> QED  BY <4>2 DEF MayBegin
    <3>2. CASE Len(q) = 1 /\ ~IsCase(q[1])
      <4>1. q = <<q[1]>> /\ q[1] \in PacketType
        <5>1. q[1] \in PacketType /\ <<q[1]>> \in Seq(PacketType)  BY <3>2, ElementOfSeq
        <5>2. Len(<<q[1]>>) = Len(q) /\ <<q[1]>>[1] = q[1]  BY <3>2
        <5>3. \A i \in 1..Len(q) : q[i] = <<q[1]>>[i]  BY <3>2, <5>2
        <5> QED  BY <5>1, <5>2, <5>3, SeqEqual
      <4>2. m = Append(l, q[1])  BY <2>1, <4>1, AppendIsConcat
      <4> QED  BY <2>1, <2>2, <3>2, <4>1, <4>2, MovePacket DEF MayBegin
    <3>3. Len(q) = 1 => DOMAIN q = {1}  BY LengthsNat
    <3> QED  BY <1>2, <3>1, <3>2, <3>3 DEF Says
  <2>4. ASSUME MayBegin(l, m) PROVE \A t \in Submissions : PhaseOf(log[t]) # "grading"
    <3>1. judge = "up" /\ gt[c] \notin {"off", "done"}  BY <1>2, <2>3, <2>4 DEF Says
    <3> SUFFICES ASSUME NEW t \in Submissions PROVE PhaseOf(log[t]) # "grading"  OBVIOUS
    <3>2. CASE t = c  BY <2>4, <3>2 DEF MayBegin
    <3>3. CASE t # c
      <4>1. gt[t] \in {"off", "done"}  BY <3>1, <3>3 DEF Handover, OneGrading, Active
      <4> QED  BY <3>1, <4>1, Settled DEF Narrated
    <3> QED  BY <3>2, <3>3
  <2>5. \A t \in Submissions \ {c} : log'[t] = log[t]  BY <1>2 DEF Says
  <2> QED  BY <2>3, <2>4, <2>5, LifeMove
<1> QED  BY <1>1, <1>2, HistoryStep

\* The judge, whatever its threads, the worker and the faults do, follows
\* SubmissionLife: the refinement the run judge_safety checks on an instance.
THEOREM LifeCorrect == Spec => ImplementsLife
<1>1. Init => Life!Init  BY LifeInit
<1>2. /\ TypeOK /\ TypeOK' /\ Handover /\ Narrated /\ ResultsInOrder' /\ [Next]_vars
      => [Life!Next]_(Life!vars)
  BY LifeStep
<1>3. Spec => Life!Spec
  BY <1>1, <1>2, TypeCorrect, HandoverCorrect, NarratedCorrect, ResultsInOrderCorrect, PTL
  DEF Spec, Life!Spec
<1> QED  BY <1>3 DEF ImplementsLife
=============================================================================
