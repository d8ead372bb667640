------------------------ MODULE InteractiveRunnerProofs ------------------------
(***************************************************************************)
(* A session of the interactive runner, for any limits, any room in the    *)
(* terminal and any number of lines and outputs.                           *)
(*                                                                         *)
(* Phases ties the messages sent so far to the place of the runner, and    *)
(* Clocks ties the three clocks: what is charged is what the program       *)
(* computed, but for one tick each time it began to wait.  Input follows   *)
(* the lines: what is on its way, hidden or in the pipe, stands in order   *)
(* and after all that was fed, and no line is in neither.                  *)
(***************************************************************************)
EXTENDS InteractiveRunner, SequenceTheorems, TLAPS

Parts == {"whole", "head", "tail", "stop", "odd"}
LineT == [line : 1..Lines, part : Parts]

Places ==
    /\ pc \in {"request", "compile", "poll", "select", "drain", "wait", "done", "killed"}
    /\ prog \in {"none", "run", "reading", "writing", "dead"}
    /\ flags \subseteq {"tle", "mle", "stop"} /\ lost \subseteq 1..Lines

Queues ==
    /\ sent \in 0..Lines /\ (owed => sent > 0 /\ kind = "terminal")
    /\ kernel \in Seq(LineT) /\ hidden \in Seq(LineT) /\ tty \in Seq(1..Lines)

Numbers ==
    /\ pty \in 0..OutRoom /\ wrote \in 0..Writes /\ shown \in Nat /\ shown + pty = wrote
    /\ compute \in 0..CpuLimit /\ charged \in 0..Limit /\ waits \in 0..(Lines + 1)
    /\ prog = "writing" => wrote < Writes
    /\ cut \subseteq Wide /\ cut \subseteq 1..Writes

Typed == Places /\ Queues /\ Numbers

\* What the client was told, and what there is, at each place of the runner.
Phases ==
    /\ pc \in {"request", "compile"} =>
         /\ prog = "none" /\ view = "silent" /\ flags = {} /\ ~waiting
         /\ charged = 0 /\ compute = 0 /\ wrote = 0 /\ pty = 0
    /\ InLoop => /\ view = IF waiting THEN "waiting" ELSE "running"
                 /\ prog # "none" /\ flags = {}
    /\ pc \in {"drain", "wait"} => view \in {"running", "waiting"}
    /\ pc = "done" => view \in {"silent", "running", "waiting"} \/ (view = "over" /\ temp # "there")
    /\ pc = "killed" => view \in {"silent", "running", "waiting"}

\* Who is not stopped is drained only when the program is dead, and has shown all.
Drained ==
    "stop" \notin flags =>
        /\ pc \in {"drain", "wait"} => prog = "dead"
        /\ pc = "wait" => pty = 0
        /\ pc = "done" /\ view = "over" => pty = 0 /\ prog \in {"none", "dead"}

Clocks ==
    /\ InLoop /\ main # "pipe" => compute <= charged
    /\ main = "pipe" => (InLoop => charged = 0) /\ "tle" \notin flags
    /\ pc = "select" /\ main = "pipe" => waiting
    /\ pc = "select" /\ ~ticked => charged < Limit
    /\ pc = "select" /\ waiting => Blocked
    /\ main = "terminal" =>
         /\ InLoop /\ prog # "dead" => charged <= compute + waits
         /\ pc = "select" /\ ~ticked /\ Waits /\ ~waiting => charged + 1 <= compute + waits
         /\ OnlyComputingCharged

IInv == Typed /\ Phases /\ Drained /\ Clocks

LEMMA Bounds ==
    /\ Lines \in Nat /\ Writes \in Nat /\ InRoom \in Nat /\ OutRoom \in Nat
    /\ Limit \in Nat /\ CpuLimit \in Nat /\ HttpLimit \in Nat
    /\ InRoom > 0 /\ OutRoom > 0 /\ Limit > 0 /\ Limit < CpuLimit
BY BoundsAssumption, LimitsAssumption

USE Bounds
-----------------------------------------------------------------------------
LEMMA LineType ==
    ASSUME NEW n \in 1..Lines, NEW part \in Parts PROVE Line(n, part) \in LineT
BY DEF Line, LineT

LEMMA ArriveType ==
    ASSUME NEW p \in Seq(LineT), NEW x \in LineT PROVE Arrive(p, x) \in Seq(LineT)
<1>1. CASE x.part = "tail" /\ p # <<>> /\ p[Len(p)].part = "head"
  <2>1. Line(x.line, "whole") \in LineT
    BY LineType DEF LineT, Parts
  <2>2. SubSeq(p, 1, Len(p) - 1) \in Seq(LineT)
    OBVIOUS
  <2> QED  BY <1>1, <2>1, <2>2 DEF Arrive
<1>2. CASE ~(x.part = "tail" /\ p # <<>> /\ p[Len(p)].part = "head")
  BY <1>2 DEF Arrive
<1> QED  BY <1>1, <1>2

LEMMA ChunkType == ASSUME Typed PROVE Chunk \in Seq(LineT)
<1>1. CASE kernel = <<>>
  BY <1>1 DEF Chunk, Join, Typed, Places, Queues, Numbers
<1>2. CASE kernel # <<>>
  <2>1. Head(kernel) \in LineT /\ Tail(kernel) \in Seq(LineT)
    BY <1>2 DEF Typed, Places, Queues, Numbers
  <2>2. Arrive(hidden, Head(kernel)) \in Seq(LineT)
    BY <2>1, ArriveType DEF Typed, Places, Queues, Numbers
  <2> QED  BY <1>2, <2>1, <2>2 DEF Chunk, Join
<1> QED  BY <1>1, <1>2

LEMMA TailType == ASSUME NEW q \in Seq(LineT), q # <<>> PROVE Tail(q) \in Seq(LineT)
OBVIOUS

LEMMA ReadlineType ==
    ASSUME Typed, NEW x, Readline(x) PROVE kernel' \in Seq(LineT) /\ hidden' \in Seq(LineT)
<1>1. Chunk \in Seq(LineT) /\ hidden \in Seq(LineT) /\ kernel \in Seq(LineT)
  BY ChunkType DEF Typed, Queues
<1>2. CASE Buffered
  <2>1. hidden # <<>> /\ hidden' = Tail(hidden) /\ kernel' = kernel
    BY <1>2 DEF Readline, Buffered
  <2> QED  BY <1>1, <2>1, TailType
<1>3. CASE ~Buffered
  <2>1. Chunk # <<>> /\ hidden' = Tail(Chunk) /\ kernel' = <<>>
    BY <1>3 DEF Readline
  <2> QED  BY <1>1, <2>1, TailType
<1> QED  BY <1>2, <1>3

LEMMA InitIInv == Init => IInv
<1> SUFFICES ASSUME Init PROVE IInv
  OBVIOUS
<1>1. Places /\ Numbers
  BY DEF Init, Places, Numbers
<1>2. Typed
  BY <1>1 DEF Init, Typed, Queues
<1>3. Phases /\ Drained /\ Clocks
  BY DEF Init, Phases, Drained, Clocks, InLoop, OnlyComputingCharged
<1> QED  BY <1>2, <1>3 DEF IInv

\* What the other actors do leaves the runner where it is.
LEMMA ClientStep == ASSUME IInv, SendLine \/ SendRest \/ Close \/ SendBody PROVE IInv'
<1> USE DEF IInv, client, loop, told, program
<1>1. CASE SendLine
  <2>1. PICK x \in {Line(sent + 1, part) : part \in {"whole", "head", "stop", "odd"}} :
           kernel' = Append(kernel, x) /\ owed' = (x.part = "head")
    BY <1>1 DEF SendLine
  <2>2. sent + 1 \in 1..Lines
    BY <1>1 DEF SendLine, Typed, Places, Queues, Numbers
  <2>3. x \in LineT
    BY <2>2, LineType DEF Parts
  <2>4. Typed'
    BY <1>1, <2>1, <2>2, <2>3 DEF SendLine, Typed, Places, Queues, Numbers
  <2> QED  BY <1>1, <2>4 DEF SendLine, Phases, Drained, Clocks, InLoop, Blocked, Waits, OnlyComputingCharged
<1>2. CASE SendRest
  <2>1. Line(sent, "tail") \in LineT
    BY <1>2, LineType DEF SendRest, Typed, Places, Queues, Numbers, Parts
  <2>2. Typed'
    BY <1>2, <2>1, ArriveType DEF SendRest, Typed, Places, Queues, Numbers
  <2> QED  BY <1>2, <2>2 DEF SendRest, Phases, Drained, Clocks, InLoop, Blocked, Waits, OnlyComputingCharged
<1>3. CASE Close
  BY <1>3 DEF Close, Typed, Places, Queues, Numbers, Phases, Drained, Clocks, InLoop, Blocked, Waits, OnlyComputingCharged
<1>4. CASE SendBody
  <2>1. PICK n \in 0..Lines, parts \in [1..Lines -> {"whole", "odd", "stop"}] :
           sent' = n /\ kernel' = [i \in 1..n |-> Line(i, parts[i])]
    BY <1>4 DEF SendBody
  <2>2. kernel' \in Seq(LineT)
    <3>1. \A i \in 1..n : Line(i, parts[i]) \in LineT
      BY LineType DEF Parts
    <3> QED  BY <2>1, <3>1
  <2>3. ~owed
    BY <1>4 DEF SendBody, Typed, Places, Queues, Numbers
  <2>4. Typed'
    BY <1>4, <2>1, <2>2, <2>3 DEF SendBody, Typed, Places, Queues, Numbers
  <2> QED  BY <1>4, <2>4 DEF SendBody, Phases, Drained, Clocks, InLoop, Blocked, Waits, OnlyComputingCharged
<1> QED  BY <1>1, <1>2, <1>3, <1>4

LEMMA PostStep == ASSUME IInv, PostEnds PROVE IInv'
BY DEF IInv, PostEnds, Alive, Typed, Places, Queues, Numbers, Phases, Drained, Clocks, InLoop,
       Blocked, Waits, OnlyComputingCharged, loop, told, program

LEMMA ProgramStep == ASSUME IInv, Program PROVE IInv'
<1> USE DEF IInv, Phases, Drained, Clocks, InLoop, Blocked, Waits, OnlyComputingCharged, Others, client, loop, told
<1>1. CASE WriteOutput
  <2>1. /\ pty' \in 0..OutRoom /\ wrote' \in 0..Writes /\ shown' + pty' = wrote'
        /\ prog' \in {"run", "writing"} /\ (prog' = "writing" => wrote' < Writes)
    <3>1. CASE pty < OutRoom
      BY <1>1, <3>1 DEF WriteOutput, Typed, Numbers
    <3>2. CASE ~(pty < OutRoom)
      BY <1>1, <3>2 DEF WriteOutput, Typed, Numbers
    <3> QED  BY <3>1, <3>2
  <2>2. Typed'
    BY <1>1, <2>1 DEF WriteOutput, Typed, Places, Queues, Numbers
  <2> QED  BY <1>1, <2>2 DEF WriteOutput
<1>2. CASE WantInput
  BY <1>2 DEF WantInput, Typed, Places, Queues, Numbers
<1>3. CASE GetInput
  BY <1>3 DEF GetInput, Typed, Places, Queues, Numbers
<1>4. CASE HangUp
  BY <1>4 DEF HangUp, Alive, Typed, Places, Queues, Numbers
<1>5. CASE Grow
  BY <1>5 DEF Grow, Typed, Places, Queues, Numbers
<1>6. CASE Exit
  BY <1>6 DEF Exit, Typed, Places, Queues, Numbers
<1>7. CASE Dies
  BY <1>7 DEF Dies, Typed, Places, Queues, Numbers
<1> QED  BY <1>1, <1>2, <1>3, <1>4, <1>5, <1>6, <1>7 DEF Program

LEMMA TickStep == ASSUME IInv, Tick PROVE IInv'
<1> USE DEF Tick, IInv, client, told
<1>1. /\ compute' \in {compute, compute + 1} /\ charged' \in {charged, charged + 1}
      /\ compute' \in 0..CpuLimit /\ charged' \in 0..Limit /\ ticked' = TRUE
  BY DEF Typed, Places, Queues, Numbers, Charge, Clocks
<1>2. Typed'
  BY <1>1 DEF Typed, Places, Queues, Numbers
<1>3. Phases'
  BY <1>1 DEF Typed, Places, Queues, Numbers, Phases, InLoop, Blocked, Waits, OnlyComputingCharged
<1>4. Drained'
  BY <1>1 DEF Drained
<1>5. Clocks'
  BY <1>1 DEF Typed, Places, Queues, Numbers, Phases, Clocks, InLoop, Blocked, Waits, OnlyComputingCharged, Charge
<1> QED  BY <1>2, <1>3, <1>4, <1>5

\* The runner: a turn, and the line it serves.
LEMMA BeginStep ==
    ASSUME IInv, ReadRequest \/ CompileFails \/ CompileRaises \/ Started PROVE IInv'
<1> USE DEF IInv, Typed, Places, Queues, Numbers, Phases, Drained, Clocks, InLoop, Blocked, Waits, OnlyComputingCharged, Follow,
            client, loop, told, program
<1>1. CASE ReadRequest
  BY <1>1 DEF ReadRequest
<1>2. CASE CompileFails
  BY <1>2 DEF CompileFails
<1>3. CASE CompileRaises
  BY <1>3 DEF CompileRaises
<1>4. CASE Started
  BY <1>4 DEF Started
<1> QED  BY <1>1, <1>2, <1>3, <1>4

LEMMA TurnStep == ASSUME IInv, Turn PROVE IInv'
<1> USE DEF Turn, IInv, client
<1>1. pc = "poll" /\ prog # "dead" /\ flags = {} /\ waiting' = Blocked /\ ticked' = FALSE
  BY DEF Phases, InLoop
<1>2. Noticed(view) = IF Blocked THEN "waiting" ELSE "running"
  BY DEF Phases, InLoop, Noticed, Follow
<1>3. CASE OverTime \/ big
  <2>1. /\ pc' = "drain" /\ prog' = "dead" /\ view' \in {"running", "waiting"}
        /\ flags' \in {{"tle"}, {"mle"}} /\ ("tle" \in flags' => charged >= Limit)
    BY <1>1, <1>2, <1>3 DEF Follow, OverTime
  <2> QED
    BY <1>1, <1>3, <2>1 DEF Typed, Places, Queues, Numbers, Phases, Drained, Clocks, InLoop, OnlyComputingCharged
<1>4. CASE ~(OverTime \/ big)
  <2>1. charged < Limit
    BY <1>4 DEF OverTime, Typed, Numbers
  <2>2. /\ pc' = "select" /\ view' = (IF Blocked THEN "waiting" ELSE "running")
        /\ flags' = flags /\ prog' = prog
    BY <1>2, <1>4
  <2>3. Typed' /\ Phases' /\ Drained'
    BY <1>1, <2>1, <2>2 DEF Typed, Places, Queues, Numbers, Phases, Drained, InLoop
  <2> QED  BY <1>1, <2>1, <2>2, <2>3 DEF Clocks, InLoop, Blocked, Waits, OnlyComputingCharged, Phases
<1> QED  BY <1>3, <1>4

LEMMA OutputCut ==
    ASSUME Typed, Output, wrote' = wrote
    PROVE  /\ pty' \in 0..OutRoom /\ shown' \in Nat /\ shown' + pty' = wrote'
           /\ cut' \subseteq Wide /\ cut' \subseteq 1..Writes
           /\ pty = 0 => pty' = 0
<1>1. PICK n \in IF pty = 0 THEN {0} ELSE 1..pty :
         /\ pty' = pty - n /\ shown' = shown + n
         /\ cut' = cut \cup (IF n > 0 THEN {shown + n} \cap Wide ELSE {})
  BY DEF Output
<1>2. n \in 0..pty /\ (pty = 0 => n = 0)
  BY DEF Typed, Numbers
<1> QED  BY <1>1, <1>2 DEF Typed, Numbers

LEMMA ServeStep == ASSUME IInv, Serve PROVE IInv'
<1> USE DEF Serve, IInv, client
<1>1. /\ pc = "select" /\ flags = {} /\ prog # "none"
      /\ view = (IF waiting THEN "waiting" ELSE "running")
  BY DEF Phases, InLoop
<1>2. /\ pty' \in 0..OutRoom /\ shown' \in Nat /\ shown' + pty' = wrote'
      /\ cut' \subseteq Wide /\ cut' \subseteq 1..Writes
  BY OutputCut DEF Typed, Numbers
<1>3. CASE NoLine
  BY <1>1, <1>2, <1>3 DEF NoLine, Typed, Places, Queues, Numbers, Phases, Drained, Clocks, InLoop, Blocked, Waits, OnlyComputingCharged
<1>4. ASSUME NEW x \in {Head(q) : q \in {hidden, Chunk} \ {<<>>}},
             Readline(x), TakeInput(x) \/ TakeStop(x) \/ TakeHalf(x) \/ TakeOdd(x)
      PROVE  IInv'
  <2>1. x \in LineT
    BY ChunkType DEF Typed, Queues
  <2>2. kernel' \in Seq(LineT) /\ hidden' \in Seq(LineT)
    BY <1>4, ReadlineType DEF Typed
  <2>3. x.line \in 1..Lines
    BY <2>1 DEF LineT
  <2>4. CASE TakeInput(x)
    <3>1. tty' \in Seq(1..Lines) /\ (tty' = tty \/ tty' # <<>>) /\ lost' \subseteq 1..Lines
      <4>1. tty \in Seq(1..Lines) /\ lost \subseteq 1..Lines
        BY DEF Typed, Queues, Places
      <4>2. CASE Len(tty) < InRoom
        <5>1. tty' = Append(tty, x.line) /\ lost' = lost
          BY <2>4, <4>2 DEF TakeInput
        <5> QED  BY <2>3, <4>1, <5>1
      <4>3. CASE ~(Len(tty) < InRoom)
        <5>1. tty' = tty /\ lost' = lost \cup {x.line}
          BY <2>4, <4>3 DEF TakeInput
        <5> QED  BY <2>3, <4>1, <5>1
      <4> QED  BY <4>2, <4>3
    <3>2. pc' = "poll" /\ ~waiting' /\ view' = "running" /\ flags' = {}
      BY <1>1, <2>4 DEF TakeInput, Follow
    <3> QED
      BY <1>1, <1>2, <2>2, <3>1, <3>2
         DEF Typed, Places, Queues, Numbers, Phases, Drained, Clocks, InLoop, OnlyComputingCharged
  <2>5. CASE TakeStop(x)
    <3>1. pc' = "drain" /\ flags' = {"stop"} /\ view' = view /\ tty' = tty /\ lost' = lost
      BY <1>1, <2>5 DEF TakeStop
    <3> QED
      BY <1>1, <1>2, <2>2, <3>1
         DEF Typed, Places, Queues, Numbers, Phases, Drained, Clocks, InLoop, OnlyComputingCharged
  <2>6. CASE TakeHalf(x)
    <3>1. pc' = "poll" /\ UNCHANGED <<waiting, flags, view, tty>> /\ lost' \subseteq 1..Lines
      BY <2>3, <2>6 DEF TakeHalf, Typed, Places
    <3> QED
      BY <1>1, <1>2, <2>2, <3>1
         DEF Typed, Places, Queues, Numbers, Phases, Drained, Clocks, InLoop, OnlyComputingCharged
  <2>7. CASE TakeOdd(x)
    <3>1. /\ pc' = "done" /\ UNCHANGED <<flags, lost, tty>>
          /\ view' \in {"running", "waiting"}
      BY <1>1, <2>7 DEF TakeOdd, Follow
    <3> QED
      BY <1>1, <1>2, <2>2, <3>1
         DEF Typed, Places, Queues, Numbers, Phases, Drained, Clocks, InLoop, OnlyComputingCharged
  <2> QED  BY <1>4, <2>4, <2>5, <2>6, <2>7
<1> QED  BY <1>3, <1>4

LEMMA EndStep == ASSUME IInv, ProgramEnded \/ Drain \/ Finish PROVE IInv'
<1> USE DEF IInv, Typed, Places, Queues, Numbers, Phases, Drained, Clocks, InLoop, Blocked, Waits, OnlyComputingCharged, Follow,
            client, loop, told, program
<1>1. CASE ProgramEnded
  BY <1>1 DEF ProgramEnded
<1>2. CASE Drain
  BY <1>2 DEF Drain, Output
<1>3. CASE Finish
  BY <1>3 DEF Finish
<1> QED  BY <1>1, <1>2, <1>3

LEMMA Inductive == IInv /\ [Next]_vars => IInv'
<1>1. ASSUME IInv, UNCHANGED vars PROVE IInv'
  BY <1>1 DEF vars, IInv, Typed, Places, Queues, Numbers, Phases, Drained, Clocks, InLoop, Blocked, Waits, OnlyComputingCharged,
              client, loop, told, program
<1> QED
  BY <1>1, ClientStep, PostStep, ProgramStep, TickStep, BeginStep, TurnStep, ServeStep, EndStep
     DEF Next, Client, Runner

LEMMA Invariance == Spec => []IInv
BY InitIInv, Inductive, PTL DEF Spec

\* Every variable of a session has its type.
THEOREM SessionTypeCorrect == Spec => []TypeOK
<1>1. IInv => TypeOK
  BY DEF IInv, Typed, Places, Queues, Numbers, TypeOK
<1> QED  BY <1>1, Invariance, PTL

\* A client never sees messages out of order, and exit means that the directory is gone.
THEOREM ProtocolAlwaysKept == Spec => []ProtocolKept
<1>1. IInv => ProtocolKept
  BY DEF IInv, Typed, Places, Phases, InLoop, ProtocolKept
<1> QED  BY <1>1, Invariance, PTL

\* A program whose main thread reads the terminal computes for the limit and no longer,
\* and is stopped only when what it computed and the ticks lost at its waits reach the
\* limit; the limit holds for one that reads in another thread, and behind the read of
\* a pipe there is none.
THEOREM TimeLimitIsExact == Spec => []TimeLimitExact
<1>1. IInv => TimeLimitExact
  BY DEF IInv, Typed, Numbers, Clocks, InLoop, OnlyComputingCharged, TimeLimitExact
<1> QED  BY <1>1, Invariance, PTL

-----------------------------------------------------------------------------
(***************************************************************************)
(* The input.  What is ahead of the program lies in readline's buffer and  *)
(* in the pipe, what it was given in got and tty; lines only move from the *)
(* front of the one to the end of the other, cut ones excepted.            *)
(***************************************************************************)
Fed == got \o tty
Ahead == hidden \o kernel

\* A queue of the lines up to s, of which the last is half sent if o: every line is whole
\* or a head that its tail follows; only the tail in front may miss its head.
Straight(q, s, o) ==
    /\ \A i \in DOMAIN q : q[i].line <= s
    /\ \A i, j \in DOMAIN q : i < j =>
          \/ q[i].line < q[j].line
          \/ q[i].line = q[j].line /\ q[i].part = "head" /\ q[j].part = "tail"
    /\ \A i \in DOMAIN q : i > 1 /\ q[i].part = "tail" => q[i - 1].line = q[i].line
    /\ o /\ q # <<>> => q[Len(q)].line = s /\ q[Len(q)].part = "head"

Increasing == \A i, j \in DOMAIN Fed : i < j => Fed[i] < Fed[j]
Behind == \A i \in DOMAIN Fed :
    Fed[i] <= sent /\ (owed => Fed[i] < sent) /\ \A j \in DOMAIN Ahead : Fed[i] < Ahead[j].line

Early ==
    /\ request = "unsent" => /\ kind = "http" /\ pc = "request" /\ ~closed
                             /\ sent = 0 /\ ~owed /\ kernel = <<>>
    /\ pc \in {"request", "compile"} => got = <<>> /\ tty = <<>>
    /\ pc = "request" => hidden = <<>>

LinesOf(q) == {q[i].line : i \in DOMAIN q}
Covered ==
    pc \in {"request", "compile", "poll", "select"} =>
        \A n \in 1..sent : n \in Elements(Fed) \cup lost \cup LinesOf(Ahead)

Input ==
    /\ got \in Seq(1..Lines) /\ Straight(Ahead, sent, owed)
    /\ Increasing /\ Behind /\ Early /\ Covered

\* The queues as sequences.
LEMMA PutLast ==
    ASSUME NEW S, NEW p \in Seq(S), NEW q \in Seq(S), NEW x \in S
    PROVE  p \o Append(q, x) = Append(p \o q, x)
<1>1. p \o Append(q, x) \in Seq(S) /\ Append(p \o q, x) \in Seq(S)  OBVIOUS
<1>2. Len(p \o Append(q, x)) = Len(Append(p \o q, x))  OBVIOUS
<1>3. \A i \in 1..Len(p \o Append(q, x)) : (p \o Append(q, x))[i] = Append(p \o q, x)[i]  OBVIOUS
<1> QED  BY <1>1, <1>2, <1>3, SeqEqual

LEMMA HandOver ==
    ASSUME NEW S, NEW p \in Seq(S), NEW q \in Seq(S), q # <<>>
    PROVE  Append(p, Head(q)) \o Tail(q) = p \o q
<1>1. Head(q) \in S /\ Tail(q) \in Seq(S) /\ Len(Tail(q)) = Len(q) - 1 /\ Len(q) > 0  OBVIOUS
<1>2. Append(p, Head(q)) \in Seq(S) /\ p \o q \in Seq(S)  BY <1>1
<1>3. Append(p, Head(q)) \o Tail(q) \in Seq(S)  BY <1>1, <1>2
<1>4. Len(Append(p, Head(q)) \o Tail(q)) = Len(p \o q)  BY <1>1, <1>2
<1>5. \A i \in 1..Len(p \o q) : (Append(p, Head(q)) \o Tail(q))[i] = (p \o q)[i]  BY <1>1
<1> QED  BY <1>2, <1>3, <1>4, <1>5, SeqEqual

LEMMA TakeFirst ==
    ASSUME NEW S, NEW p \in Seq(S), NEW q \in Seq(S), p # <<>>
    PROVE  Tail(p) \o q = Tail(p \o q) /\ Head(p) = (p \o q)[1] /\ p \o q # <<>>
<1>1. Tail(p) \in Seq(S) /\ Len(Tail(p)) = Len(p) - 1 /\ Len(p) > 0  OBVIOUS
<1>2. p \o q \in Seq(S) /\ Len(p \o q) = Len(p) + Len(q) /\ p \o q # <<>>  BY <1>1
<1>3. Tail(p) \o q \in Seq(S) /\ Tail(p \o q) \in Seq(S)  BY <1>1, <1>2
<1>4. Len(Tail(p) \o q) = Len(Tail(p \o q))  BY <1>1, <1>2
<1>5. \A i \in 1..Len(Tail(p) \o q) : (Tail(p) \o q)[i] = Tail(p \o q)[i]  BY <1>1, <1>2
<1> QED  BY <1>1, <1>2, <1>3, <1>4, <1>5, SeqEqual, SMTT(40)

LEMMA LastReplaced ==
    ASSUME NEW S, NEW p \in Seq(S), p # <<>>, NEW w \in S
    PROVE  LET g == Append(SubSeq(p, 1, Len(p) - 1), w) IN
           /\ g \in Seq(S) /\ Len(g) = Len(p) /\ g[Len(p)] = w
           /\ \A i \in 1..(Len(p) - 1) : g[i] = p[i]
<1> DEFINE n == Len(p) - 1
           f == SubSeq(p, 1, n)
<1>1. n \in Nat /\ n \in Int /\ 1 \in Int /\ Len(p) = n + 1 /\ \A i \in 1..n : p[i] \in S  OBVIOUS
<1> HIDE DEF n
<1>2. f \in Seq(S) /\ Len(f) = n /\ \A i \in 1..n : f[i] = p[i]
  <2>1. /\ f \in Seq(S) /\ Len(f) = IF 1 <= n THEN n - 1 + 1 ELSE 0
        /\ \A i \in 1..(n - 1 + 1) : f[i] = p[1 + i - 1]
    BY <1>1, SubSeqProperties
  <2> HIDE DEF f
  <2>2. n - 1 + 1 = n /\ \A i \in 1..n : 1 + i - 1 = i  BY <1>1
  <2> QED  BY <1>1, <2>1, <2>2
<1> HIDE DEF f
<1>3. /\ Append(f, w) \in Seq(S) /\ Len(Append(f, w)) = n + 1 /\ Append(f, w)[n + 1] = w
      /\ \A i \in 1..n : Append(f, w)[i] = f[i]
  BY <1>1, <1>2
<1>4. Len(p) - 1 = n  BY <1>1
<1> QED  BY <1>1, <1>2, <1>3, <1>4 DEF f

LEMMA StraightPush ==
    ASSUME NEW q \in Seq(LineT), NEW s \in Nat, Straight(q, s, FALSE),
           NEW x \in LineT, x.line = s + 1, x.part # "tail"
    PROVE  Straight(Append(q, x), s + 1, x.part = "head")
<1> DEFINE r == Append(q, x)
<1>1. /\ r \in Seq(LineT) /\ DOMAIN r = 1..(Len(q) + 1) /\ Len(r) = Len(q) + 1 /\ Len(q) \in Nat
      /\ r[Len(q) + 1] = x /\ \A i \in 1..Len(q) : r[i] = q[i]
      /\ DOMAIN q = 1..Len(q)
  OBVIOUS
<1>2. \A i \in 1..Len(q) : q[i].line \in Nat
  <2>1. \A i \in 1..Len(q) : q[i] \in LineT  OBVIOUS
  <2> QED  BY <2>1 DEF LineT
<1> HIDE DEF r
<1>3. \A i \in DOMAIN r : i \in 1..Len(q) \/ i = Len(q) + 1  BY <1>1
<1>4. \A i \in DOMAIN r : r[i].line <= s + 1  BY <1>1, <1>2, <1>3 DEF Straight
<1>5. \A i, j \in DOMAIN r : i < j =>
          \/ r[i].line < r[j].line
          \/ r[i].line = r[j].line /\ r[i].part = "head" /\ r[j].part = "tail"
  <2> SUFFICES ASSUME NEW i \in DOMAIN r, NEW j \in DOMAIN r, i < j
               PROVE  \/ r[i].line < r[j].line
                      \/ r[i].line = r[j].line /\ r[i].part = "head" /\ r[j].part = "tail"
    OBVIOUS
  <2>1. i \in 1..Len(q)  BY <1>1, <1>3
  <2>2. CASE j \in 1..Len(q)  BY <1>1, <2>1, <2>2 DEF Straight
  <2>3. CASE j = Len(q) + 1
    <3>1. q[i].line <= s /\ q[i].line \in Nat  BY <1>1, <1>2, <2>1 DEF Straight
    <3> QED  BY <1>1, <2>1, <2>3, <3>1
  <2> QED  BY <1>3, <2>2, <2>3
<1>6. \A i \in DOMAIN r : i > 1 /\ r[i].part = "tail" => r[i - 1].line = r[i].line
  <2> SUFFICES ASSUME NEW i \in DOMAIN r, i > 1, r[i].part = "tail" PROVE r[i - 1].line = r[i].line
    OBVIOUS
  <2>1. i \in 1..Len(q) /\ i - 1 \in 1..Len(q)  BY <1>1, <1>3
  <2> QED  BY <1>1, <2>1 DEF Straight
<1> QED  BY <1>1, <1>4, <1>5, <1>6 DEF Straight

LEMMA StraightRest ==
    ASSUME NEW q \in Seq(LineT), NEW s \in Nat, Straight(q, s, TRUE),
           NEW x \in LineT, x.line = s, x.part = "tail"
    PROVE  Straight(Append(q, x), s, FALSE)
<1> DEFINE r == Append(q, x)
<1>1. /\ r \in Seq(LineT) /\ DOMAIN r = 1..(Len(q) + 1) /\ Len(r) = Len(q) + 1 /\ Len(q) \in Nat
      /\ r[Len(q) + 1] = x /\ \A i \in 1..Len(q) : r[i] = q[i]
      /\ DOMAIN q = 1..Len(q) /\ (Len(q) > 0 => q # <<>>)
  OBVIOUS
<1>2. \A i \in 1..Len(q) : q[i].line \in Nat
  <2>1. \A i \in 1..Len(q) : q[i] \in LineT  OBVIOUS
  <2> QED  BY <2>1 DEF LineT
<1> HIDE DEF r
<1>3. \A i \in DOMAIN r : i \in 1..Len(q) \/ i = Len(q) + 1  BY <1>1
<1>4. Len(q) > 0 => q[Len(q)].line = s /\ q[Len(q)].part = "head"  BY <1>1 DEF Straight
<1>5. \A i \in DOMAIN r : r[i].line <= s  BY <1>1, <1>2, <1>3 DEF Straight
<1>6. \A i, j \in DOMAIN r : i < j =>
          \/ r[i].line < r[j].line
          \/ r[i].line = r[j].line /\ r[i].part = "head" /\ r[j].part = "tail"
  <2> SUFFICES ASSUME NEW i \in DOMAIN r, NEW j \in DOMAIN r, i < j
               PROVE  \/ r[i].line < r[j].line
                      \/ r[i].line = r[j].line /\ r[i].part = "head" /\ r[j].part = "tail"
    OBVIOUS
  <2>1. i \in 1..Len(q)  BY <1>1, <1>3
  <2>2. CASE j \in 1..Len(q)  BY <1>1, <2>1, <2>2 DEF Straight
  <2>3. CASE j = Len(q) + 1
    <3>1. CASE i = Len(q)  BY <1>1, <1>4, <2>1, <2>3, <3>1
    <3>2. CASE i < Len(q)
      <4>1. Len(q) \in DOMAIN q /\ i \in DOMAIN q  BY <1>1, <2>1
      <4>2. q[i].line < q[Len(q)].line  BY <1>4, <2>1, <3>2, <4>1 DEF Straight
      <4> QED  BY <1>1, <1>4, <2>1, <2>3, <4>2
    <3> QED  BY <1>1, <2>1, <3>1, <3>2
  <2> QED  BY <1>3, <2>2, <2>3
<1>7. \A i \in DOMAIN r : i > 1 /\ r[i].part = "tail" => r[i - 1].line = r[i].line
  <2> SUFFICES ASSUME NEW i \in DOMAIN r, i > 1, r[i].part = "tail" PROVE r[i - 1].line = r[i].line
    OBVIOUS
  <2>1. i - 1 \in 1..Len(q)  BY <1>1, <1>3
  <2>2. CASE i \in 1..Len(q)  BY <1>1, <2>1, <2>2 DEF Straight
  <2>3. CASE i = Len(q) + 1  BY <1>1, <1>4, <2>1, <2>3
  <2> QED  BY <1>3, <2>2, <2>3
<1> QED  BY <1>1, <1>5, <1>6, <1>7 DEF Straight

LEMMA StraightTail ==
    ASSUME NEW q \in Seq(LineT), NEW s, NEW o, Straight(q, s, o), q # <<>>
    PROVE  /\ Straight(Tail(q), s, o) /\ Tail(q) \in Seq(LineT)
           /\ LinesOf(q) = {q[1].line} \cup LinesOf(Tail(q))
           /\ q[1].part = "whole" =>
                 /\ \A i \in DOMAIN Tail(q) : q[1].line < Tail(q)[i].line
                 /\ o => q[1].line < s
<1> DEFINE r == Tail(q)
<1>1. /\ r \in Seq(LineT) /\ Len(r) = Len(q) - 1 /\ Len(q) \in Nat /\ Len(q) > 0
      /\ DOMAIN r = 1..(Len(q) - 1) /\ DOMAIN q = 1..Len(q)
      /\ \A i \in DOMAIN r : r[i] = q[i + 1]
  OBVIOUS
<1> HIDE DEF r
<1>2. \A i \in DOMAIN r : i + 1 \in DOMAIN q /\ i \in Nat  BY <1>1
<1>3. \A i, j \in DOMAIN r : i < j => i + 1 < j + 1  BY <1>1
<1>4. \A i \in DOMAIN r : r[i].line <= s  BY <1>1, <1>2 DEF Straight
<1>5. \A i, j \in DOMAIN r : i < j =>
          \/ r[i].line < r[j].line
          \/ r[i].line = r[j].line /\ r[i].part = "head" /\ r[j].part = "tail"
  BY <1>1, <1>2, <1>3 DEF Straight
<1>6. \A i \in DOMAIN r : i > 1 /\ r[i].part = "tail" => r[i - 1].line = r[i].line
  <2> SUFFICES ASSUME NEW i \in DOMAIN r, i > 1, r[i].part = "tail" PROVE r[i - 1].line = r[i].line
    OBVIOUS
  <2>1. i - 1 \in DOMAIN r /\ i + 1 > 1 /\ (i - 1) + 1 = i /\ (i + 1) - 1 = i  BY <1>1
  <2>2. q[(i + 1) - 1].line = q[i + 1].line  BY <1>1, <1>2, <2>1 DEF Straight
  <2> QED  BY <1>1, <2>1, <2>2
<1>7. o /\ r # <<>> => r[Len(r)].line = s /\ r[Len(r)].part = "head"
  <2> SUFFICES ASSUME o, r # <<>> PROVE r[Len(r)].line = s /\ r[Len(r)].part = "head"  OBVIOUS
  <2>1. Len(r) \in DOMAIN r /\ Len(r) + 1 = Len(q)  BY <1>1
  <2> QED  BY <1>1, <2>1 DEF Straight
<1>8. Straight(r, s, o)  BY <1>4, <1>5, <1>6, <1>7 DEF Straight
<1>9. LinesOf(q) = {q[1].line} \cup LinesOf(r)
  <2>1. \A i \in DOMAIN q : i = 1 \/ (i - 1 \in DOMAIN r /\ (i - 1) + 1 = i)  BY <1>1
  <2>2. 1 \in DOMAIN q  BY <1>1
  <2>3. \A i \in DOMAIN q : q[i].line \in {q[1].line} \cup LinesOf(r)
    <3> SUFFICES ASSUME NEW i \in DOMAIN q, i # 1 PROVE q[i].line \in LinesOf(r)  OBVIOUS
    <3>1. i - 1 \in DOMAIN r /\ r[i - 1] = q[i]  BY <1>1, <2>1
    <3> QED  BY <3>1 DEF LinesOf
  <2>4. \A i \in DOMAIN r : r[i].line \in LinesOf(q)  BY <1>1, <1>2 DEF LinesOf
  <2> QED  BY <2>2, <2>3, <2>4 DEF LinesOf
<1>10. ASSUME q[1].part = "whole"
       PROVE  (\A i \in DOMAIN r : q[1].line < r[i].line) /\ (o => q[1].line < s)
  <2>1. \A i \in DOMAIN q : i > 1 => q[1].line < q[i].line
    <3>1. 1 \in DOMAIN q  BY <1>1
    <3> QED  BY <1>10, <3>1 DEF Straight
  <2>2. \A i \in DOMAIN r : i + 1 > 1  BY <1>1
  <2>3. \A i \in DOMAIN r : q[1].line < r[i].line  BY <1>1, <1>2, <2>1, <2>2
  <2>4. ASSUME o PROVE q[1].line < s
    <3>1. q[Len(q)].line = s /\ q[Len(q)].part = "head"  BY <2>4 DEF Straight
    <3>2. Len(q) \in DOMAIN q /\ Len(q) # 1 /\ Len(q) > 1  BY <1>1, <1>10, <3>1
    <3> QED  BY <2>1, <3>1, <3>2
  <2> QED  BY <2>3, <2>4
<1> QED  BY <1>1, <1>8, <1>9, <1>10 DEF r

\* z is q with the head at k and the tail behind it made one line.
Mended(z, q, k) ==
    /\ k \in 1..(Len(q) - 1) /\ q[k].part = "head" /\ q[k + 1].part = "tail"
    /\ z \in Seq(LineT) /\ Len(z) = Len(q) - 1
    /\ \A i \in 1..(k - 1) : z[i] = q[i]
    /\ z[k] = Line(q[k + 1].line, "whole")
    /\ \A i \in (k + 1)..(Len(q) - 1) : z[i] = q[i + 1]

LEMMA StraightMend ==
    ASSUME NEW q \in Seq(LineT), NEW s \in Nat, NEW o, Straight(q, s, o),
           NEW z, NEW k, Mended(z, q, k)
    PROVE  Straight(z, s, o) /\ LinesOf(z) = LinesOf(q)
<1> DEFINE n == Len(q)
           from(i) == IF i < k THEN i ELSE i + 1
<1>1. /\ n \in Nat /\ DOMAIN q = 1..n /\ k \in 1..(n - 1) /\ k + 1 \in 1..n /\ k \in 1..n /\ k \in Nat
      /\ q[k].part = "head" /\ q[k + 1].part = "tail"
      /\ z \in Seq(LineT) /\ DOMAIN z = 1..(n - 1) /\ Len(z) = n - 1
      /\ \A i \in 1..(k - 1) : z[i] = q[i]
      /\ z[k] = Line(q[k + 1].line, "whole")
      /\ \A i \in (k + 1)..(n - 1) : z[i] = q[i + 1]
  BY DEF Mended
<1>2. /\ \A i \in DOMAIN q : q[i].line <= s
      /\ \A i, j \in DOMAIN q : i < j =>
            \/ q[i].line < q[j].line
            \/ q[i].line = q[j].line /\ q[i].part = "head" /\ q[j].part = "tail"
      /\ \A i \in DOMAIN q : i > 1 /\ q[i].part = "tail" => q[i - 1].line = q[i].line
      /\ o /\ q # <<>> => q[n].line = s /\ q[n].part = "head"
  BY DEF Straight
<1>3. \A i \in 1..n : q[i].line \in Nat
  <2>1. \A i \in 1..n : q[i] \in LineT  BY <1>1
  <2> QED  BY <2>1 DEF LineT
<1>4. q[k].line = q[k + 1].line
  <2>1. k + 1 \in DOMAIN q /\ k + 1 > 1 /\ (k + 1) - 1 = k  BY <1>1
  <2> QED  BY <1>1, <1>2, <2>1
<1>5. z[k].line = q[k + 1].line /\ z[k].part = "whole"  BY <1>1 DEF Line
<1> HIDE DEF n
\* Where a line of z was in q.
<1>6. ASSUME NEW i \in 1..(n - 1)
      PROVE  /\ from(i) \in 1..n /\ i \in Nat /\ from(i) \in Nat
             /\ z[i].line = q[from(i)].line
             /\ i # k => z[i] = q[from(i)]
  <2>1. CASE i < k
    <3>1. i \in 1..(k - 1) /\ from(i) = i  BY <1>1, <2>1
    <3> QED  BY <1>1, <2>1, <3>1
  <2>2. CASE i = k  BY <1>1, <1>5, <2>2
  <2>3. CASE i > k
    <3>1. i \in (k + 1)..(n - 1) /\ from(i) = i + 1 /\ i + 1 \in 1..n  BY <1>1, <2>3
    <3> QED  BY <1>1, <3>1
  <2> QED  BY <1>1, <2>1, <2>2, <2>3
<1>7. \A i, j \in 1..(n - 1) : i < j => from(i) < from(j)  BY <1>1
<1>8. from(k) = k + 1  BY <1>1
<1>9. \A i \in 1..(n - 1) : i # k => from(i) # k + 1 /\ from(i) # k  BY <1>1
<1>10. \A i \in 1..(n - 1) : i > 1 /\ i # k /\ i # k + 1 => from(i - 1) = from(i) - 1 /\ from(i) > 1
  <2> SUFFICES ASSUME NEW i \in 1..(n - 1), i > 1, i # k, i # k + 1
               PROVE  from(i - 1) = from(i) - 1 /\ from(i) > 1
    OBVIOUS
  <2>1. CASE i < k  BY <1>1, <2>1
  <2>2. CASE i > k + 1  BY <1>1, <2>2
  <2> QED  BY <1>1, <2>1, <2>2
<1> HIDE DEF from
<1>12. \A i \in DOMAIN z : z[i].line <= s  BY <1>1, <1>2, <1>6
<1>13. \A i, j \in DOMAIN z : i < j =>
          \/ z[i].line < z[j].line
          \/ z[i].line = z[j].line /\ z[i].part = "head" /\ z[j].part = "tail"
  <2> SUFFICES ASSUME NEW i \in 1..(n - 1), NEW j \in 1..(n - 1), i < j, ~(z[i].line < z[j].line)
               PROVE  z[i].line = z[j].line /\ z[i].part = "head" /\ z[j].part = "tail"
    BY <1>1
  <2>1. /\ from(i) \in DOMAIN q /\ from(j) \in DOMAIN q /\ from(i) < from(j)
        /\ z[i].line = q[from(i)].line /\ z[j].line = q[from(j)].line
    BY <1>1, <1>6, <1>7
  <2>2. q[from(i)].line = q[from(j)].line /\ q[from(i)].part = "head" /\ q[from(j)].part = "tail"
    BY <1>2, <2>1
  <2>3. i # k  BY <1>1, <1>8, <2>2
  <2>4. j # k
    <3> SUFFICES ASSUME j = k PROVE FALSE  OBVIOUS
    <3>1. from(i) < k
      <4>1. from(i) < k + 1 /\ from(i) # k  BY <1>8, <1>9, <2>1, <2>3
      <4> QED  BY <1>1, <1>6, <4>1
    <3>2. q[from(i)].line < q[k].line  BY <1>1, <1>2, <2>1, <3>1
    <3>3. q[from(i)].line = q[k].line  BY <1>4, <1>8, <2>2
    <3> QED  BY <1>1, <1>3, <3>2, <3>3
  <2> QED  BY <1>6, <2>1, <2>2, <2>3, <2>4
<1>14. \A i \in DOMAIN z : i > 1 /\ z[i].part = "tail" => z[i - 1].line = z[i].line
  <2> SUFFICES ASSUME NEW i \in 1..(n - 1), i > 1, z[i].part = "tail" PROVE z[i - 1].line = z[i].line
    BY <1>1
  <2>1. i # k  BY <1>5
  <2>2. z[i] = q[from(i)] /\ from(i) \in 1..n  BY <1>6, <2>1
  <2>5. i - 1 \in 1..(n - 1)  BY <1>1
  <2>3. CASE i = k + 1
    <3>1. from(i) = k + 2 /\ i - 1 = k  BY <1>1, <2>3 DEF from
    <3>2. q[(k + 2) - 1].line = q[k + 2].line  BY <1>1, <1>2, <2>2, <3>1
    <3>3. (k + 2) - 1 = k + 1  BY <1>1
    <3> QED  BY <1>5, <2>2, <3>1, <3>2, <3>3
  <2>4. CASE i # k + 1
    <3>1. from(i - 1) = from(i) - 1 /\ from(i) > 1  BY <1>10, <2>1, <2>4
    <3>2. q[from(i) - 1].line = q[from(i)].line  BY <1>1, <1>2, <2>2, <3>1
    <3> QED  BY <1>6, <2>2, <2>5, <3>1, <3>2
  <2> QED  BY <2>3, <2>4
<1>15. o /\ z # <<>> => z[Len(z)].line = s /\ z[Len(z)].part = "head"
  <2> SUFFICES ASSUME o PROVE z[n - 1].line = s /\ z[n - 1].part = "head"  BY <1>1
  <2>1. q # <<>>  BY <1>1
  <2>2. q[n].line = s /\ q[n].part = "head"  BY <1>2, <2>1
  <2>3. k + 1 # n /\ n - 1 \in 1..(n - 1) /\ n - 1 # k /\ n - 1 > k  BY <1>1, <2>2
  <2>4. from(n - 1) = n  BY <1>1, <2>3 DEF from
  <2> QED  BY <1>6, <2>2, <2>3, <2>4
<1>16. LinesOf(z) = LinesOf(q)
  <2>1. \A i \in DOMAIN z : z[i].line \in LinesOf(q)  BY <1>1, <1>6, SMTT(40) DEF LinesOf
  <2>2. \A i \in DOMAIN q : q[i].line \in LinesOf(z)
    <3> SUFFICES ASSUME NEW i \in 1..n PROVE q[i].line \in LinesOf(z)
      BY <1>1
    <3>0. \A j \in 1..(n - 1) : z[j].line \in LinesOf(z)  BY <1>1 DEF LinesOf
    <3> USE <3>0
    <3>1. CASE i < k
      <4>1. i \in 1..(n - 1)  BY <1>1, <3>1
      <4>2. from(i) = i  BY <1>1, <3>1 DEF from
      <4> QED  BY <1>6, <4>1, <4>2
    <3>2. CASE i = k  BY <1>1, <1>4, <1>5, <3>2
    <3>3. CASE i > k
      <4>1. i - 1 \in 1..(n - 1)  BY <1>1, <3>3
      <4>2. from(i - 1) = i  BY <1>1, <3>3 DEF from
      <4> QED  BY <1>6, <4>1, <4>2
    <3> QED  BY <1>1, <3>1, <3>2, <3>3
  <2> QED  BY <2>1, <2>2 DEF LinesOf
<1> QED  BY <1>12, <1>13, <1>14, <1>15, <1>16 DEF Straight


\* The pieces that Arrive and Join put together.
LEMMA MendSeam ==
    ASSUME NEW p \in Seq(LineT), NEW q \in Seq(LineT), p # <<>>, q # <<>>,
           p[Len(p)].part = "head", Head(q).part = "tail"
    PROVE  Mended(Append(SubSeq(p, 1, Len(p) - 1), Line(Head(q).line, "whole")) \o Tail(q),
                  p \o q, Len(p))
<1> DEFINE f == SubSeq(p, 1, Len(p) - 1)
           w == Line(Head(q).line, "whole")
           g == Append(f, w)
           z == g \o Tail(q)
           a == p \o q
           k == Len(p)
           n == Len(q)
<1>1. /\ k \in Nat /\ k > 0 /\ n \in Nat /\ n > 0
      /\ Head(q) = q[1] /\ Head(q) \in LineT /\ Tail(q) \in Seq(LineT) /\ Len(Tail(q)) = n - 1
      /\ \A i \in 1..(n - 1) : Tail(q)[i] = q[i + 1]
  OBVIOUS
<1>2. w \in LineT
  BY <1>1, LineType DEF LineT, Parts
<1> HIDE DEF w
<1>4. g \in Seq(LineT) /\ Len(g) = k /\ g[k] = w /\ \A i \in 1..(k - 1) : g[i] = p[i]
  BY <1>2, LastReplaced
<1> HIDE DEF f, g
<1>5. /\ z \in Seq(LineT) /\ Len(z) = k + (n - 1)
      /\ \A i \in 1..k : z[i] = g[i]
      /\ \A i \in 1..(n - 1) : z[k + i] = q[i + 1]
  <2> DEFINE u == Tail(q)
  <2>1. u \in Seq(LineT) /\ Len(u) = n - 1 /\ \A i \in 1..(n - 1) : u[i] = q[i + 1]  BY <1>1
  <2> HIDE DEF u, n, k
  <2>2. /\ g \o u \in Seq(LineT) /\ Len(g \o u) = k + (n - 1)
        /\ \A i \in 1..k : (g \o u)[i] = g[i]
        /\ \A i \in 1..(n - 1) : (g \o u)[k + i] = u[i]
    <3>1. /\ g \o u \in Seq(LineT) /\ Len(g \o u) = Len(g) + Len(u)
          /\ \A i \in 1..(Len(g) + Len(u)) : (g \o u)[i] = IF i <= Len(g) THEN g[i] ELSE u[i - Len(g)]
      BY <1>4, <2>1, ConcatProperties
    <3>2. /\ Len(g) = k /\ Len(u) = n - 1 /\ \A i \in 1..k : i \in 1..(k + (n - 1)) /\ i <= k
          /\ \A i \in 1..(n - 1) : k + i \in 1..(k + (n - 1)) /\ ~(k + i <= k) /\ (k + i) - k = i
      BY <1>1, <1>4, <2>1
    <3> HIDE DEF z, a
    <3> QED  BY <3>1, <3>2, SMTT(40)
  <2> QED  BY <2>1, <2>2 DEF u
<1>6. /\ a \in Seq(LineT) /\ Len(a) = k + n
      /\ \A i \in 1..k : a[i] = p[i]
      /\ \A i \in 1..n : a[k + i] = q[i]
  BY <1>1
<1> HIDE DEF z, a, k, n
<1>7. k \in 1..(Len(a) - 1) /\ a[k].part = "head" /\ a[k + 1].part = "tail" /\ a[k + 1] = Head(q)
  <2>1. k \in 1..k /\ 1 \in 1..n  BY <1>1
  <2>2. a[k] = p[k] /\ a[k + 1] = q[1]  BY <1>6, <2>1
  <2>3. p[k].part = "head"  BY DEF k
  <2> QED  BY <1>1, <1>6, <2>2, <2>3
<1>8. Len(z) = Len(a) - 1 /\ \A i \in 1..(k - 1) : z[i] = a[i]
  BY <1>1, <1>4, <1>5, <1>6
<1>9. z[k] = Line(a[k + 1].line, "whole")
  <2>1. z[k] = w  BY <1>1, <1>4, <1>5
  <2> QED  BY <1>7, <2>1 DEF w
<1>10. ASSUME NEW i \in (k + 1)..(Len(a) - 1) PROVE z[i] = a[i + 1]
  <2>1. i - k \in 1..(n - 1) /\ k + (i - k) = i /\ (i - k) + 1 \in 1..n /\ k + ((i - k) + 1) = i + 1
    BY <1>1, <1>6
  <2>2. z[k + (i - k)] = q[(i - k) + 1]  BY <1>5, <2>1
  <2>3. a[k + ((i - k) + 1)] = q[(i - k) + 1]  BY <1>6, <2>1
  <2> QED  BY <2>1, <2>2, <2>3
<1>11. Mended(z, a, k)  BY <1>5, <1>7, <1>8, <1>9, <1>10 DEF Mended
<1> QED  BY <1>11 DEF z, a, k, g, f, w

\* What readline finds is what is ahead, a line whose halves met being whole.
LEMMA ChunkStraight ==
    ASSUME Typed, Straight(Ahead, sent, owed)
    PROVE  Straight(Chunk, sent, owed) /\ LinesOf(Chunk) = LinesOf(Ahead) /\ Ahead \in Seq(LineT)
<1>1. hidden \in Seq(LineT) /\ kernel \in Seq(LineT) /\ sent \in Nat /\ Ahead \in Seq(LineT)
  BY DEF Typed, Queues, Ahead
<1>2. CASE kernel = <<>>
  <2>1. Ahead = hidden  BY <1>1, <1>2, ConcatEmptySeq DEF Ahead
  <2> QED  BY <1>1, <1>2, <2>1 DEF Chunk, Join
<1>3. CASE kernel # <<>>
  <2>1. Chunk = Arrive(hidden, Head(kernel)) \o Tail(kernel)  BY <1>3 DEF Chunk, Join
  <2>2. CASE Head(kernel).part = "tail" /\ hidden # <<>> /\ hidden[Len(hidden)].part = "head"
    <3>1. Chunk = Append(SubSeq(hidden, 1, Len(hidden) - 1), Line(Head(kernel).line, "whole")) \o Tail(kernel)
      BY <2>1, <2>2 DEF Arrive
    <3>2. Mended(Chunk, Ahead, Len(hidden))  BY <1>1, <1>3, <2>2, <3>1, MendSeam DEF Ahead
    <3> QED  BY <1>1, <3>2, StraightMend
  <2>3. CASE ~(Head(kernel).part = "tail" /\ hidden # <<>> /\ hidden[Len(hidden)].part = "head")
    <3>1. Chunk = Append(hidden, Head(kernel)) \o Tail(kernel)  BY <2>1, <2>3 DEF Arrive
    <3>2. Chunk = Ahead  BY <1>1, <1>3, <3>1, HandOver DEF Ahead
    <3> QED  BY <1>1, <3>2
  <2> QED  BY <2>2, <2>3
<1> QED  BY <1>2, <1>3

LEMMA ReadlineTakes ==
    ASSUME Typed, Straight(Ahead, sent, owed), NEW x, Readline(x)
    PROVE  \E q \in Seq(LineT) :
              /\ q # <<>> /\ Straight(q, sent, owed) /\ LinesOf(q) = LinesOf(Ahead)
              /\ x = q[1] /\ Ahead' = Tail(q)
<1>1. /\ hidden \in Seq(LineT) /\ kernel \in Seq(LineT) /\ Chunk \in Seq(LineT)
      /\ Straight(Chunk, sent, owed) /\ LinesOf(Chunk) = LinesOf(Ahead) /\ Ahead \in Seq(LineT)
  BY ChunkType, ChunkStraight DEF Typed, Queues
<1>2. CASE Buffered
  <2>1. hidden # <<>> /\ x = Head(hidden) /\ hidden' = Tail(hidden) /\ kernel' = kernel
    BY <1>2 DEF Readline, Buffered
  <2>2. Ahead' = Tail(Ahead) /\ x = Ahead[1] /\ Ahead # <<>>
    BY <1>1, <2>1, TakeFirst DEF Ahead
  <2> QED  BY <1>1, <2>2
<1>3. CASE ~Buffered
  <2>1. Chunk # <<>> /\ x = Head(Chunk) /\ hidden' = Tail(Chunk) /\ kernel' = <<>>
    BY <1>3 DEF Readline
  <2>2. Tail(Chunk) \in Seq(LineT) /\ Head(Chunk) = Chunk[1]  BY <1>1, <2>1
  <2>3. Ahead' = Tail(Chunk)  BY <2>1, <2>2, ConcatEmptySeq DEF Ahead
  <2> QED  BY <1>1, <2>1, <2>2, <2>3
<1> QED  BY <1>2, <1>3

LEMMA RestStraight ==
    ASSUME Typed, Straight(Ahead, sent, TRUE), sent \in 1..Lines,
           kernel' = Arrive(kernel, Line(sent, "tail")), hidden' = hidden
    PROVE  Straight(Ahead', sent, FALSE) /\ LinesOf(Ahead') = LinesOf(Ahead) \cup {sent}
<1> DEFINE t == Line(sent, "tail")
           r == Append(Ahead, t)
<1>1. /\ hidden \in Seq(LineT) /\ kernel \in Seq(LineT) /\ sent \in Nat /\ Ahead \in Seq(LineT)
      /\ t \in LineT /\ t.line = sent /\ t.part = "tail"
  <2>1. hidden \in Seq(LineT) /\ kernel \in Seq(LineT) /\ sent \in Nat  BY DEF Typed, Queues
  <2>2. Ahead \in Seq(LineT)  BY <2>1 DEF Ahead
  <2>3. t \in LineT  BY LineType DEF Parts
  <2>4. t.line = sent /\ t.part = "tail"  BY DEF Line
  <2> QED  BY <2>1, <2>2, <2>3, <2>4
<1> HIDE DEF t
<1>2. Straight(r, sent, FALSE) /\ r \in Seq(LineT)
  <2>1. r \in Seq(LineT)  BY <1>1
  <2>2. Straight(Ahead, sent, TRUE)  OBVIOUS
  <2> QED  BY <1>1, <2>1, <2>2, StraightRest
<1>3. LinesOf(r) = LinesOf(Ahead) \cup {sent}
  <2>1. /\ DOMAIN r = 1..(Len(Ahead) + 1) /\ DOMAIN Ahead = 1..Len(Ahead) /\ Len(Ahead) \in Nat
        /\ r[Len(Ahead) + 1] = t /\ \A i \in 1..Len(Ahead) : r[i] = Ahead[i]
    BY <1>1
  <2>2. \A i \in DOMAIN r : i \in DOMAIN Ahead \/ i = Len(Ahead) + 1  BY <2>1
  <2>3. \A i \in DOMAIN Ahead : i \in DOMAIN r  BY <2>1
  <2>4. Len(Ahead) + 1 \in DOMAIN r  BY <2>1
  <2> HIDE DEF r
  <2> QED  BY <1>1, <2>1, <2>2, <2>3, <2>4 DEF LinesOf
<1>4. CASE kernel # <<>> /\ kernel[Len(kernel)].part = "head"
  <2> DEFINE h == Append(SubSeq(kernel, 1, Len(kernel) - 1), Line(sent, "whole"))
  <2>1. kernel' = h  BY <1>1, <1>4 DEF Arrive, t
  <2>2. Ahead # <<>> /\ Len(Ahead) = Len(hidden) + Len(kernel) /\ Ahead[Len(Ahead)].part = "head"
        /\ Len(kernel) > 0 /\ Len(kernel) \in Nat /\ Len(hidden) \in Nat
    BY <1>1, <1>4 DEF Ahead
  <2>3. Line(sent, "whole") \in LineT  BY LineType DEF Parts
  <2>4. /\ h \in Seq(LineT) /\ Len(h) = Len(kernel) /\ h[Len(kernel)] = Line(sent, "whole")
        /\ \A i \in 1..(Len(kernel) - 1) : h[i] = kernel[i]
    BY <1>1, <1>4, <2>3, LastReplaced
  <2> HIDE DEF h
  <2>5. /\ Ahead' \in Seq(LineT) /\ Len(Ahead') = Len(Ahead)
        /\ \A i \in 1..Len(hidden) : Ahead'[i] = hidden[i]
        /\ \A i \in 1..Len(kernel) : Ahead'[Len(hidden) + i] = h[i]
    <3>1. Ahead' = hidden \o h  BY <2>1 DEF Ahead
    <3>2. hidden \o h \in Seq(LineT) /\ Len(hidden \o h) = Len(hidden) + Len(h)
      BY <1>1, <2>4, ConcatProperties
    <3>3. /\ \A i \in 1..Len(hidden) : (hidden \o h)[i] = hidden[i]
          /\ \A i \in 1..Len(kernel) : (hidden \o h)[Len(hidden) + i] = h[i]
      BY <1>1, <2>2, <2>4
    <3> QED  BY <2>2, <2>4, <3>1, <3>2, <3>3
  <2>6. /\ \A i \in 1..Len(hidden) : Ahead[i] = hidden[i]
        /\ \A i \in 1..Len(kernel) : Ahead[Len(hidden) + i] = kernel[i]
    BY <1>1 DEF Ahead
  <2>7. Ahead'[Len(Ahead)] = Line(sent, "whole")
    <3>1. Len(kernel) \in 1..Len(kernel)  BY <2>2
    <3> QED  BY <2>2, <2>4, <2>5, <3>1
  <2>8. ASSUME NEW i \in 1..(Len(Ahead) - 1) PROVE Ahead'[i] = Ahead[i]
    <3>1. CASE i <= Len(hidden)  BY <2>2, <2>5, <2>6, <3>1
    <3>2. CASE i > Len(hidden)
      <4>1. i - Len(hidden) \in 1..(Len(kernel) - 1) /\ i - Len(hidden) \in 1..Len(kernel)
            /\ Len(hidden) + (i - Len(hidden)) = i
        BY <2>2, <3>2
      <4>2. Ahead'[i] = h[i - Len(hidden)] /\ Ahead[i] = kernel[i - Len(hidden)]  BY <2>5, <2>6, <4>1
      <4> QED  BY <2>4, <4>1, <4>2
    <3> QED  BY <2>2, <3>1, <3>2
  <2>9. Mended(Ahead', r, Len(Ahead))
    <3>1. /\ Len(r) = Len(Ahead) + 1 /\ Len(Ahead) \in 1..(Len(r) - 1)
          /\ r[Len(Ahead)] = Ahead[Len(Ahead)] /\ r[Len(Ahead) + 1] = t
          /\ \A i \in 1..(Len(Ahead) - 1) : r[i] = Ahead[i]
          /\ Len(Ahead) \in Nat
      <4> DEFINE m == Len(Ahead)
      <4>1. m \in Nat /\ m > 0 /\ Ahead \in Seq(LineT)  BY <1>1, <2>2
      <4>2. Len(r) = m + 1 /\ r[m + 1] = t /\ \A i \in 1..m : r[i] = Ahead[i]  BY <1>1
      <4> HIDE DEF m, r
      <4>3. m \in 1..m /\ m \in 1..(Len(r) - 1) /\ \A i \in 1..(m - 1) : i \in 1..m  BY <4>1, <4>2
      <4> QED  BY <4>1, <4>2, <4>3 DEF m
    <3>2. (Len(Ahead) + 1)..(Len(r) - 1) = {}  BY <3>1
    <3> HIDE DEF r
    <3> QED  BY <1>1, <2>2, <2>5, <2>7, <2>8, <3>1, <3>2 DEF Mended

  <2> HIDE DEF r
  <2>11. Straight(Ahead', sent, FALSE) /\ LinesOf(Ahead') = LinesOf(r)
    BY <1>1, <1>2, <2>9, StraightMend
  <2> QED  BY <1>3, <2>11
<1>5. CASE ~(kernel # <<>> /\ kernel[Len(kernel)].part = "head")
  <2>1. kernel' = Append(kernel, t)  BY <1>5 DEF Arrive, t
  <2>2. hidden \o Append(kernel, t) = Append(hidden \o kernel, t)  BY <1>1, PutLast
  <2>3. Ahead' = r  BY <2>1, <2>2 DEF Ahead
  <2> HIDE DEF r
  <2> QED  BY <1>2, <1>3, <2>3
<1> QED  BY <1>4, <1>5


LEMMA InitInput == Init => Input
<1> SUFFICES ASSUME Init PROVE Input  OBVIOUS
<1>1. hidden = <<>> /\ kernel = <<>> /\ got = <<>> /\ tty = <<>> /\ sent = 0 /\ ~owed /\ ~closed
      /\ pc = "request" /\ (request = "unsent" => kind = "http")
  BY DEF Init
<1>2. Ahead = <<>> /\ Fed = <<>>  BY <1>1 DEF Ahead, Fed
<1>3. got \in Seq(1..Lines)  BY <1>1
<1>4. Straight(<<>>, sent, owed)  BY <1>1 DEF Straight
<1>5. Increasing /\ Behind  BY <1>2 DEF Increasing, Behind
<1>6. Early /\ Covered  BY <1>1 DEF Early, Covered
<1> QED  BY <1>2, <1>3, <1>4, <1>5, <1>6 DEF Input

\* The steps that leave the queues alone.
LEMMA InputSame ==
    ASSUME Input, UNCHANGED <<kind, request, sent, owed, kernel, hidden, got, tty, lost>>,
           pc' # pc => /\ request # "unsent" /\ pc' \notin {"request", "compile"}
                       /\ pc' \in {"poll", "select"} => pc \in {"compile", "poll", "select"},
           request = "unsent" => UNCHANGED closed
    PROVE  Input'
<1>1. Ahead' = Ahead /\ Fed' = Fed  BY DEF Ahead, Fed
<1>2. got' \in Seq(1..Lines) /\ Straight(Ahead', sent', owed')  BY <1>1 DEF Input
<1>3. Increasing' /\ Behind'  BY <1>1 DEF Input, Increasing, Behind
<1>4. Early'  BY DEF Input, Early
<1>5. Covered'  BY <1>1 DEF Input, Covered, Elements, LinesOf
<1> QED  BY <1>2, <1>3, <1>4, <1>5 DEF Input

LEMMA FedType == ASSUME Typed, Input PROVE Fed \in Seq(1..Lines) /\ Ahead \in Seq(LineT)
  BY DEF Typed, Queues, Input, Fed, Ahead

LEMMA SendLineInput == ASSUME Typed, Input, SendLine PROVE Input'
<1> DEFINE n == Len(Ahead)
<1>1. PICK x \in {Line(sent + 1, part) : part \in {"whole", "head", "stop", "odd"}} :
         kernel' = Append(kernel, x) /\ owed' = (x.part = "head")
  BY DEF SendLine
<1>2. sent \in Nat /\ sent + 1 \in 1..Lines /\ hidden \in Seq(LineT) /\ kernel \in Seq(LineT)
  BY DEF SendLine, Typed, Queues
<1>3. x \in LineT /\ x.line = sent + 1 /\ x.part # "tail"
  <2>1. x \in LineT  BY <1>2, LineType DEF Parts
  <2> QED  BY <2>1 DEF Line
<1>4. /\ UNCHANGED <<kind, request, closed, pc, hidden, lost, got, tty>> /\ sent' = sent + 1
      /\ kind = "terminal" /\ ~owed
  BY DEF SendLine, loop, program
<1>5. Ahead' = Append(Ahead, x)
  <2>1. hidden \o Append(kernel, x) = Append(hidden \o kernel, x)  BY <1>2, <1>3, PutLast
  <2> QED  BY <1>1, <1>4, <2>1 DEF Ahead
<1>6. Fed' = Fed /\ Fed \in Seq(1..Lines) /\ Ahead \in Seq(LineT)  BY <1>4, FedType DEF Fed
<1>7. /\ n \in Nat /\ DOMAIN Ahead = 1..n /\ DOMAIN Ahead' = 1..(n + 1) /\ Ahead'[n + 1] = x
      /\ \A i \in 1..n : Ahead'[i] = Ahead[i]
  <2> DEFINE a == Ahead
  <2>1. a \in Seq(LineT) /\ n = Len(a)  BY <1>6
  <2> HIDE DEF a, n
  <2>2. /\ n \in Nat /\ DOMAIN a = 1..n /\ DOMAIN Append(a, x) = 1..(n + 1) /\ Append(a, x)[n + 1] = x
        /\ \A i \in 1..n : Append(a, x)[i] = a[i]
    BY <2>1, <1>3
  <2> QED  BY <1>5, <2>2 DEF a
<1>8. Straight(Ahead', sent', owed')
  <2>1. Straight(Ahead, sent, FALSE)
    <3>1. owed = FALSE \/ owed \notin BOOLEAN  BY <1>4
    <3>2. Straight(Ahead, sent, owed)  BY DEF Input
    <3> QED  BY <1>4, <3>2 DEF Straight
  <2>2. Straight(Append(Ahead, x), sent + 1, x.part = "head")  BY <1>2, <1>3, <1>6, <2>1, StraightPush
  <2> QED  BY <1>1, <1>4, <1>5, <2>2 DEF Straight
<1> HIDE DEF n
<1>9. Increasing'  BY <1>6 DEF Input, Increasing
<1>10. Behind'
  <2> SUFFICES ASSUME NEW i \in DOMAIN Fed
               PROVE  /\ Fed[i] <= sent + 1 /\ Fed[i] < sent + 1
                      /\ \A j \in DOMAIN Ahead' : Fed[i] < Ahead'[j].line
    BY <1>4, <1>6 DEF Behind
  <2>1. Fed[i] <= sent /\ Fed[i] \in Nat /\ \A j \in DOMAIN Ahead : Fed[i] < Ahead[j].line
    BY <1>6 DEF Input, Behind
  <2>2. \A j \in DOMAIN Ahead' : j \in DOMAIN Ahead \/ j = n + 1  BY <1>7
  <2> QED  BY <1>2, <1>3, <1>7, <2>1, <2>2
<1>11. Early'  BY <1>4 DEF Input, Early
<1>12. Covered'
  <2>1. \A m \in LinesOf(Ahead) : m \in LinesOf(Ahead')
    BY <1>7 DEF LinesOf
  <2>2. sent + 1 \in LinesOf(Ahead')
    <3>1. n + 1 \in DOMAIN Ahead' /\ Ahead'[n + 1].line = sent + 1  BY <1>3, <1>7
    <3> QED  BY <3>1 DEF LinesOf
  <2>3. \A m \in 1..(sent + 1) : m \in 1..sent \/ m = sent + 1  BY <1>2
  <2>4. Covered  BY DEF Input
  <2> QED  BY <1>4, <1>6, <2>1, <2>2, <2>3, <2>4 DEF Covered, Elements
<1> QED  BY <1>4, <1>8, <1>9, <1>10, <1>11, <1>12 DEF Input

LEMMA SendRestInput == ASSUME Typed, Input, SendRest PROVE Input'
<1>1. /\ UNCHANGED <<kind, request, closed, pc, hidden, lost, got, tty, sent>> /\ owed /\ ~owed'
      /\ kernel' = Arrive(kernel, Line(sent, "tail")) /\ owed' = FALSE
  BY DEF SendRest, loop, program
<1>2. sent \in 1..Lines /\ sent \in Nat  BY <1>1, Bounds DEF Typed, Queues
<1>3. Straight(Ahead, sent, TRUE)  BY <1>1 DEF Input, Straight
<1>4. Straight(Ahead', sent, FALSE) /\ LinesOf(Ahead') = LinesOf(Ahead) \cup {sent}
  BY <1>1, <1>2, <1>3, RestStraight
<1>5. Fed' = Fed /\ Fed \in Seq(1..Lines)  BY <1>1, FedType DEF Fed
<1>6. Increasing'  BY <1>5 DEF Input, Increasing
<1>7. Behind'
  <2> SUFFICES ASSUME NEW i \in DOMAIN Fed
               PROVE  Fed[i] <= sent /\ \A j \in DOMAIN Ahead' : Fed[i] < Ahead'[j].line
    BY <1>1, <1>5 DEF Behind
  <2>1. Fed[i] <= sent /\ Fed[i] < sent /\ \A m \in LinesOf(Ahead) : Fed[i] < m
    BY <1>1 DEF Input, Behind, LinesOf
  <2>2. \A j \in DOMAIN Ahead' : Ahead'[j].line \in LinesOf(Ahead')  BY DEF LinesOf
  <2> QED  BY <1>4, <2>1, <2>2
<1>8. Early'  BY <1>1 DEF Input, Early
<1>9. Covered'  BY <1>1, <1>4, <1>5 DEF Input, Covered, Elements
<1> QED  BY <1>1, <1>4, <1>6, <1>7, <1>8, <1>9 DEF Input

LEMMA SendBodyInput == ASSUME IInv, Input, SendBody PROVE Input'
<1>1. PICK n \in 0..Lines, parts \in [1..Lines -> {"whole", "odd", "stop"}] :
         sent' = n /\ kernel' = [i \in 1..n |-> Line(i, parts[i])]
  BY DEF SendBody
<1>2. /\ pc = "request" /\ hidden = <<>> /\ got = <<>> /\ tty = <<>> /\ ~owed
      /\ UNCHANGED <<pc, hidden, got, tty, owed, lost>> /\ request' # "unsent"
  BY DEF SendBody, Input, Early, loop, program
<1>3. n \in Nat /\ kernel' \in Seq(LineT) /\ DOMAIN kernel' = 1..n
  <2>1. \A i \in 1..n : Line(i, parts[i]) \in LineT  BY LineType DEF Parts
  <2>2. n \in Nat  OBVIOUS
  <2> QED  BY <1>1, <2>1, <2>2
<1>4. Ahead' = kernel' /\ Fed' = <<>>
  BY <1>2, <1>3, ConcatEmptySeq DEF Ahead, Fed
<1>5. \A i \in 1..n : kernel'[i].line = i /\ kernel'[i].part \in {"whole", "odd", "stop"}
  BY <1>1 DEF Line
<1>6. Straight(kernel', sent', owed')  BY <1>1, <1>2, <1>3, <1>5 DEF Straight
<1>7. Increasing' /\ Behind'  BY <1>4 DEF Increasing, Behind
<1>8. Early'  BY <1>2 DEF Early
<1>9. Covered'
  <2>1. \A i \in 1..n : i \in LinesOf(kernel')  BY <1>3, <1>5 DEF LinesOf
  <2> QED  BY <1>1, <1>4, <2>1 DEF Covered
<1> QED  BY <1>2, <1>4, <1>6, <1>7, <1>8, <1>9 DEF Input

LEMMA GetInputInput == ASSUME Typed, Input, GetInput PROVE Input'
<1>1. /\ tty # <<>> /\ got' = Append(got, Head(tty)) /\ tty' = Tail(tty)
      /\ UNCHANGED <<kind, request, closed, pc, hidden, kernel, lost, sent, owed>>
  BY DEF GetInput, Others, client, loop
<1>2. got \in Seq(1..Lines) /\ tty \in Seq(1..Lines)  BY DEF Typed, Queues, Input
<1>3. Fed' = Fed  BY <1>1, <1>2, HandOver DEF Fed
<1>4. Ahead' = Ahead  BY <1>1 DEF Ahead
<1>5. got' \in Seq(1..Lines)  BY <1>1, <1>2
<1>6. Straight(Ahead', sent', owed')  BY <1>1, <1>4 DEF Input
<1>7. Increasing' /\ Behind'  BY <1>1, <1>3, <1>4 DEF Input, Increasing, Behind
<1>8. Early'
  <2>1. pc \notin {"request", "compile"}  BY <1>1 DEF Input, Early
  <2> QED  BY <1>1, <2>1 DEF Input, Early
<1>9. Covered'  BY <1>1, <1>3, <1>4 DEF Input, Covered, Elements, LinesOf
<1> QED  BY <1>5, <1>6, <1>7, <1>8, <1>9 DEF Input

LEMMA ReadRequestInput == ASSUME Typed, Input, ReadRequest PROVE Input'
<1>1. /\ pc = "request" /\ request # "unsent" /\ pc' \in {"compile", "done"}
      /\ hidden' = kernel /\ kernel' = <<>> /\ hidden = <<>>
      /\ UNCHANGED <<kind, request, closed, lost, sent, owed, got, tty>>
  BY DEF ReadRequest, client, loop, program, Input, Early
<1>2. kernel \in Seq(LineT)  BY DEF Typed, Queues
<1>3. Ahead' = Ahead  BY <1>1, <1>2, ConcatEmptySeq DEF Ahead
<1>4. Fed' = Fed  BY <1>1 DEF Fed
<1>5. got' \in Seq(1..Lines) /\ Straight(Ahead', sent', owed')  BY <1>1, <1>3 DEF Input
<1>6. Increasing' /\ Behind'  BY <1>1, <1>3, <1>4 DEF Input, Increasing, Behind
<1>7. Early'  BY <1>1 DEF Input, Early
<1>8. Covered'  BY <1>1, <1>3, <1>4 DEF Input, Covered, Elements, LinesOf
<1> QED  BY <1>5, <1>6, <1>7, <1>8 DEF Input

LEMMA ServeInput == ASSUME IInv, Input, Serve PROVE Input'
<1>1. /\ pc = "select" /\ UNCHANGED <<kind, request, sent, owed, closed, got>>
      /\ request # "unsent" /\ sent \in Nat
  BY DEF Serve, client, Input, Early, IInv, Typed, Queues
<1>2. Typed /\ Straight(Ahead, sent, owed)  BY DEF IInv, Input
<1>3. CASE NoLine  BY <1>1, <1>3, InputSame DEF NoLine
<1>4. ASSUME NEW x, Readline(x), TakeInput(x) \/ TakeStop(x) \/ TakeHalf(x) \/ TakeOdd(x) PROVE Input'
  <2>1. PICK q \in Seq(LineT) :
           /\ q # <<>> /\ Straight(q, sent, owed) /\ LinesOf(q) = LinesOf(Ahead)
           /\ x = q[1] /\ Ahead' = Tail(q)
    BY <1>2, <1>4, ReadlineTakes
  <2>2. /\ Straight(Ahead', sent, owed) /\ Ahead' \in Seq(LineT)
        /\ LinesOf(Ahead) = {x.line} \cup LinesOf(Ahead')
        /\ x.part = "whole" => /\ \A i \in DOMAIN Ahead' : x.line < Ahead'[i].line
                               /\ owed => x.line < sent
    BY <2>1, StraightTail
  <2>3. x.line \in 1..Lines /\ x.line <= sent
    <3>1. x \in LineT /\ 1 \in DOMAIN q  BY <2>1
    <3> QED  BY <2>1, <3>1 DEF LineT, Straight
  <2>4. Fed \in Seq(1..Lines) /\ Ahead \in Seq(LineT)  BY <1>2, FedType
  <2>5. /\ \A i \in DOMAIN Fed : Fed[i] <= sent /\ (owed => Fed[i] < sent) /\ Fed[i] < x.line
        /\ \A i \in DOMAIN Fed : \A j \in DOMAIN Ahead' : Fed[i] < Ahead'[j].line
    <3>1. \A i \in DOMAIN Fed : \A m \in LinesOf(Ahead) : Fed[i] < m  BY DEF Input, Behind, LinesOf
    <3>2. x.line \in LinesOf(Ahead)  BY <2>2
    <3>3. \A j \in DOMAIN Ahead' : Ahead'[j].line \in LinesOf(Ahead)  BY <2>2 DEF LinesOf
    <3> QED  BY <3>1, <3>2, <3>3 DEF Input, Behind
  <2>6. \A n \in 1..sent : n \in Elements(Fed) \cup lost \cup {x.line} \cup LinesOf(Ahead')
    BY <1>1, <2>2 DEF Input, Covered
  <2>7. Early'
    <3>1. pc' \in {"poll", "drain", "done"}
      BY <1>4 DEF TakeInput, TakeStop, TakeHalf, TakeOdd
    <3> QED  BY <1>1, <3>1 DEF Early
  <2>8. got' \in Seq(1..Lines) /\ Straight(Ahead', sent', owed')  BY <1>1, <2>2 DEF Input
\* A line that is not given to the program.
  <2>9. ASSUME tty' = tty, pc' \in {"drain", "done"} \/ lost' = lost \cup {x.line} PROVE Input'
    <3>1. Fed' = Fed  BY <1>1, <2>9 DEF Fed
    <3>2. Increasing' /\ Behind'  BY <1>1, <2>5, <3>1 DEF Input, Increasing, Behind
    <3>3. Covered'  BY <1>1, <2>6, <2>9, <3>1 DEF Covered, Elements
    <3> QED  BY <2>7, <2>8, <3>2, <3>3 DEF Input
  <2>10. CASE TakeStop(x) \/ TakeHalf(x) \/ TakeOdd(x)
    BY <2>9, <2>10 DEF TakeStop, TakeHalf, TakeOdd
  <2>11. CASE TakeInput(x)
    <3>1. CASE ~(Len(tty) < InRoom)  BY <2>9, <2>11, <3>1 DEF TakeInput
    <3>2. CASE Len(tty) < InRoom
      <4>1. x.part = "whole" /\ tty' = Append(tty, x.line) /\ lost' = lost
        BY <2>11, <3>2 DEF TakeInput
      <4>2. Fed' = Append(Fed, x.line)
        <5>1. got \in Seq(1..Lines) /\ tty \in Seq(1..Lines)  BY <1>2 DEF Typed, Queues, Input
        <5>2. got \o Append(tty, x.line) = Append(got \o tty, x.line)  BY <2>3, <5>1, PutLast, SMTT(40)
        <5> QED  BY <1>1, <4>1, <5>2 DEF Fed
      <4>3. PICK n : n = Len(Fed)  OBVIOUS
      <4>4. /\ n \in Nat /\ DOMAIN Fed = 1..n /\ DOMAIN Fed' = 1..(n + 1) /\ Fed'[n + 1] = x.line
            /\ \A i \in 1..n : Fed'[i] = Fed[i]
        <5> DEFINE f == Fed
        <5>1. f \in Seq(1..Lines) /\ n = Len(f)  BY <2>4, <4>3
        <5> HIDE DEF f
        <5>2. /\ n \in Nat /\ DOMAIN f = 1..n /\ DOMAIN Append(f, x.line) = 1..(n + 1)
              /\ Append(f, x.line)[n + 1] = x.line /\ \A i \in 1..n : Append(f, x.line)[i] = f[i]
          BY <2>3, <5>1
        <5> QED  BY <4>2, <5>2 DEF f
      <4>5. \A i \in DOMAIN Fed' : i \in 1..n \/ i = n + 1  BY <4>4
      <4>6. Increasing'
        <5> SUFFICES ASSUME NEW i \in DOMAIN Fed', NEW j \in DOMAIN Fed', i < j PROVE Fed'[i] < Fed'[j]
          BY DEF Increasing
        <5>1. i \in 1..n  BY <4>4, <4>5
        <5>2. CASE j \in 1..n  BY <4>4, <5>1, <5>2 DEF Input, Increasing
        <5>3. CASE j = n + 1  BY <2>5, <4>4, <5>1, <5>3
        <5> QED  BY <4>5, <5>2, <5>3
      <4>7. Behind'
        <5> SUFFICES ASSUME NEW i \in DOMAIN Fed'
                     PROVE  /\ Fed'[i] <= sent /\ (owed => Fed'[i] < sent)
                            /\ \A j \in DOMAIN Ahead' : Fed'[i] < Ahead'[j].line
          BY <1>1 DEF Behind
        <5>1. CASE i \in 1..n  BY <2>5, <4>4, <5>1
        <5>2. CASE i = n + 1  BY <2>2, <2>3, <4>1, <4>4, <5>2
        <5> QED  BY <4>5, <5>1, <5>2
      <4>8. Covered'
        <5>1. \A m \in Elements(Fed) : m \in Elements(Fed')  BY <4>4 DEF Elements
        <5>2. x.line \in Elements(Fed')
          <6>1. n + 1 \in DOMAIN Fed'  BY <4>4
          <6> QED  BY <4>4, <6>1 DEF Elements
        <5> QED  BY <1>1, <2>6, <4>1, <5>1, <5>2 DEF Covered
      <4> QED  BY <2>7, <2>8, <4>6, <4>7, <4>8 DEF Input
    <3> QED  BY <3>1, <3>2
  <2> QED  BY <1>4, <2>10, <2>11
<1> QED  BY <1>3, <1>4 DEF Serve

LEMMA InputStep == IInv /\ Input /\ [Next]_vars => Input'
<1> SUFFICES ASSUME IInv, Input, [Next]_vars PROVE Input'  OBVIOUS
<1>0. Typed  BY DEF IInv
<1>1. CASE SendLine \/ SendRest \/ SendBody
  BY <1>0, <1>1, SendLineInput, SendRestInput, SendBodyInput
<1>2. CASE GetInput \/ ReadRequest \/ Serve
  BY <1>0, <1>2, GetInputInput, ReadRequestInput, ServeInput
<1>3. request = "unsent" => kind = "http" /\ ~closed /\ pc = "request"  BY DEF Input, Early
<1>4. CASE Close \/ PostEnds \/ Tick \/ UNCHANGED vars
  BY <1>3, <1>4, InputSame DEF Close, PostEnds, Tick, vars, client, loop, told, program
<1>5. CASE CompileFails \/ CompileRaises \/ Started \/ ProgramEnded \/ Turn \/ Drain \/ Finish
  <2>1. /\ UNCHANGED <<kind, request, sent, owed, closed, kernel, hidden, got, tty, lost>>
        /\ pc \in {"compile", "poll", "drain", "wait"}
        /\ pc' # pc => pc' \in {"done", "poll", "drain", "select", "wait"}
        /\ pc' \in {"poll", "select"} => pc \in {"compile", "poll"}
    BY <1>5 DEF CompileFails, CompileRaises, Started, ProgramEnded, Turn, Drain, Finish,
                client, loop, told, program
  <2> QED  BY <1>3, <2>1, InputSame
<1>6. CASE WriteOutput \/ WantInput \/ HangUp \/ Grow \/ Exit \/ Dies
  <2>1. UNCHANGED <<kind, request, sent, owed, closed, kernel, hidden, got, tty, lost, pc>>
    BY <1>6 DEF WriteOutput, WantInput, HangUp, Grow, Exit, Dies, Others, client, loop, told
  <2> QED  BY <2>1, InputSame
<1> QED
  BY <1>1, <1>2, <1>4, <1>5, <1>6 DEF Next, Client, Runner, Program

LEMMA InputInvariance == Spec => [](IInv /\ Input)
BY InitIInv, InitInput, Inductive, InputStep, PTL DEF Spec

\* A session that nobody stopped and no odd line ended sends all of the program's
\* output before exit, and only characters that two reads shared cannot be read: the
\* first part of DataKept, for any number of outputs and any size of a read.
THEOREM OutputAllShown ==
    Spec => [](pc = "done" /\ view = "over" /\ "stop" \notin flags
                 => shown = wrote /\ cut \subseteq Wide)
<1>1. IInv => (pc = "done" /\ view = "over" /\ "stop" \notin flags
                 => shown = wrote /\ cut \subseteq Wide)
  BY DEF IInv, Typed, Numbers, Drained
<1> QED  BY <1>1, Invariance, PTL

\* Input reaches the program in the order it was sent, in whole lines; while the loop runs no
\* line is gone that was not cut in two or dropped at a full terminal; and who was not stopped
\* has sent all the output before exit (the loop and the end of run_interactive).
THEOREM DataIsKept == Spec => []DataKept
<1>1. IInv /\ Input => DataKept
  <2> SUFFICES ASSUME IInv, Input PROVE DataKept  OBVIOUS
  <2>1. pc = "done" /\ view = "over" /\ "stop" \notin flags => shown = wrote /\ cut \subseteq Wide
    BY DEF IInv, Typed, Numbers, Drained
  <2>2. \A i, j \in DOMAIN (got \o tty) : i < j => (got \o tty)[i] < (got \o tty)[j]
    BY DEF Input, Increasing, Fed
  <2>3. InLoop => \A n \in 1..sent :
           n \in Elements(got \o tty) \cup lost \cup {x.line : x \in Elements(hidden \o kernel)}
    <3>1. LinesOf(Ahead) = {x.line : x \in Elements(hidden \o kernel)}
      BY DEF LinesOf, Elements, Ahead
    <3> QED  BY <3>1 DEF Input, Covered, InLoop, Fed
  <2> QED  BY <2>1, <2>2, <2>3 DEF DataKept
<1> QED  BY <1>1, InputInvariance, PTL
=============================================================================
