---------------------------- MODULE InteractiveRunner ----------------------------
(***************************************************************************)
(* A session of interactive_runner.py: run_interactive between a client,   *)
(* that sends lines over a pipe, and a program on a pseudo-terminal.  The  *)
(* client is the site's terminal, which sends lines as they are typed, or  *)
(* POST /run of server.py, which sends all of them at once, closes the     *)
(* pipe and waits for ten seconds.                                         *)
(*                                                                         *)
(* A tick is the 20 ms of a select.  The runner keeps wall and waiting     *)
(* time; only their difference, charged, decides anything.                 *)
(***************************************************************************)
EXTENDS Naturals, Sequences

CONSTANTS
    Kinds,      \* of clients: "terminal", "http"
    Stubborn,   \* the clients whose programs ignore SIGTERM
    Mains,      \* what main threads do, whose /proc entry alone is looked at
    Wide,       \* the outputs that end within a character, which the next one goes on with
    Lines,      \* the lines a client sends, at most
    Writes,     \* the outputs of a program, at most
    InRoom, OutRoom,    \* what the terminal holds in each direction
    Limit,      \* TIMEOUT_LIMIT
    CpuLimit,   \* RLIMIT_CPU
    HttpLimit   \* the timeout of POST /run

ASSUME BoundsAssumption ==
    {Lines, Writes, InRoom, OutRoom, Limit, CpuLimit, HttpLimit} \subseteq Nat
ASSUME KindsAssumption ==
    /\ Kinds \subseteq {"terminal", "http"}
    /\ Mains \subseteq {"terminal", "futex", "pipe"} /\ Wide \subseteq Nat
ASSUME LimitsAssumption == InRoom > 0 /\ OutRoom > 0 /\ Limit > 0 /\ Limit < CpuLimit

VARIABLES
    kind,
    main,       \* the main thread: it reads the terminal itself, sleeps in a futex
                \* while another thread reads (a JVM, Node), or in the read of a pipe
    request,    \* the first line: "unsent", "empty", "junk" or "proper"
    sent, owed, \* lines begun; the second half of the last one is still to come
    kernel,     \* the pipe: lines, whole or in halves
    closed,     \* the client closed it
    reply, age, \* POST /run: "none", "result" or "timeout"; ticks since the request
    pc,         \* of the runner
    hidden,     \* what readline took from the pipe and has not returned
    waiting,    \* waiting_for_input
    charged,    \* wall time less the time waiting
    ticked,     \* time passed in this select
    flags,      \* of {"tle", "mle", "stop"}
    lost,       \* history: input lines that were dropped
    temp,       \* the directory: "none", "there" or "removed"
    view,       \* what the client makes of the messages
    shown,      \* outputs of the program it was sent
    cut,        \* history: outputs after which a read ended within a character
    prog,       \* the program: "none", "run", "reading", "writing" or "dead"
    tty, pty,   \* input it has not read; outputs the runner has not read
    wrote, got, compute, waits, big

client == <<kind, main, request, sent, owed, closed, reply>>
loop == <<waiting, charged, ticked, flags, lost>>
told == <<temp, view, shown, cut>>
program == <<prog, tty, pty, wrote, got, compute, waits, big>>
vars == <<client, kernel, age, pc, hidden, loop, told, program>>

Init ==
    /\ kind \in Kinds /\ main \in Mains
    /\ request = IF kind = "http" THEN "unsent" ELSE "proper"
    /\ sent = 0 /\ owed = FALSE /\ kernel = <<>> /\ closed = FALSE
    /\ reply = "none" /\ age = 0
    /\ pc = "request" /\ hidden = <<>> /\ waiting = FALSE
    /\ charged = 0 /\ ticked = FALSE /\ flags = {} /\ lost = {}
    /\ temp = "none" /\ view = "silent" /\ shown = 0 /\ cut = {}
    /\ prog = "none" /\ tty = <<>> /\ got = <<>>
    /\ pty = 0 /\ wrote = 0 /\ compute = 0 /\ waits = 0 /\ big = FALSE

Alive == pc \notin {"done", "killed"}
-----------------------------------------------------------------------------
(***************************************************************************)
(* The client.  A line is written whole, or in two halves that may arrive  *)
(* apart.  An odd one is JSON, but no object, or its data is no text.       *)
(***************************************************************************)
Line(n, part) == [line |-> n, part |-> part]

\* Two halves side by side are a line again.
Arrive(pipe, x) ==
    IF x.part = "tail" /\ pipe # <<>> /\ pipe[Len(pipe)].part = "head"
    THEN Append(SubSeq(pipe, 1, Len(pipe) - 1), Line(x.line, "whole"))
    ELSE Append(pipe, x)

SendLine ==
    /\ kind = "terminal" /\ ~closed /\ ~owed /\ Alive /\ sent < Lines
    /\ \E x \in {Line(sent + 1, "whole"), Line(sent + 1, "head"),
                Line(sent + 1, "stop"), Line(sent + 1, "odd")} :
         kernel' = Append(kernel, x) /\ owed' = (x.part = "head")
    /\ sent' = sent + 1
    /\ UNCHANGED <<kind, main, request, closed, reply, age, pc, hidden, loop, told,
                   program>>

SendRest ==
    /\ owed /\ Alive
    /\ kernel' = Arrive(kernel, Line(sent, "tail")) /\ owed' = FALSE
    /\ UNCHANGED <<kind, main, request, sent, closed, reply, age, pc, hidden, loop,
                   told, program>>

Close ==
    /\ kind = "terminal" /\ ~closed /\ ~owed /\ Alive
    /\ closed' = TRUE
    /\ UNCHANGED <<kind, main, request, sent, owed, reply, kernel, age, pc, hidden, loop,
                   told, program>>

\* POST /run: proc.communicate(input=stdin).  The request is the first line of
\* stdin, not the language and the code that are the runner's arguments.
SendBody ==
    /\ kind = "http" /\ request = "unsent"
    /\ request' \in {"empty", "junk", "proper"}
    /\ \E n \in 0..Lines, parts \in [1..Lines -> {"whole", "odd", "stop"}] :
         sent' = n /\ kernel' = [i \in 1..n |-> Line(i, parts[i])]
    /\ closed' = TRUE
    /\ UNCHANGED <<kind, main, owed, reply, age, pc, hidden, loop, told, program>>

PostEnds_NoTimeout ==
    /\ kind = "http" /\ reply = "none" /\ closed
    /\ ~Alive /\ reply' = "result" /\ pc' = pc
    /\ UNCHANGED <<kind, main, request, sent, owed, closed, kernel, age, hidden, loop,
                   told, program>>
\* The runner ended, or ten seconds are over: only the runner is killed.
PostEnds ==
    /\ kind = "http" /\ reply = "none" /\ closed
    /\ \/ ~Alive /\ reply' = "result" /\ pc' = pc
       \/ Alive /\ age = HttpLimit /\ reply' = "timeout" /\ pc' = "killed"
    /\ UNCHANGED <<kind, main, request, sent, owed, closed, kernel, age, hidden, loop,
                   told, program>>
-----------------------------------------------------------------------------
(***************************************************************************)
(* The runner.  Follow is the protocol of its messages as a client has to  *)
(* understand them.                                                        *)
(***************************************************************************)
Follow(v, message) ==
    CASE v = "silent" /\ message = "started" -> "running"
      [] v = "silent" /\ message = "compile_error" -> "over"
      [] v \in {"running", "waiting"} /\ message = "output" -> v
      [] v = "running" /\ message = "waiting_input" -> "waiting"
      [] v = "waiting" /\ message = "resumed" -> "running"
      [] v \in {"running", "waiting"} /\ message = "exit" -> "over"
      [] OTHER -> "broken"

\* stdin is still blocking: the readline of the request may take more than its line.
ReadRequest ==
    /\ pc = "request" /\ request # "unsent"
    /\ pc' = IF request = "proper" THEN "compile" ELSE "done"
    /\ hidden' = kernel /\ kernel' = <<>>
    /\ UNCHANGED <<client, age, loop, told, program>>

\* Rejected before there is a directory, or the compiler says no.
CompileFails ==
    /\ pc = "compile"
    /\ temp' \in {"none", "removed"}
    /\ view' = Follow(view, "compile_error") /\ pc' = "done"
    /\ UNCHANGED <<client, kernel, age, hidden, loop, shown, cut, program>>

\* A compiler or an interpreter that is not there: nothing catches it.
CompileRaises ==
    /\ pc = "compile"
    /\ temp' = "there" /\ pc' = "done"
    /\ view' \in {view, Follow(view, "started")}
    /\ UNCHANGED <<client, kernel, age, hidden, loop, shown, cut, program>>

Started ==
    /\ pc = "compile"
    /\ temp' = "there" /\ view' = Follow(view, "started")
    /\ pc' = "poll" /\ prog' = "run"
    /\ UNCHANGED <<client, kernel, age, hidden, loop, shown, cut, tty, pty, wrote, got,
                   compute, waits, big>>

ProgramEnded ==
    /\ pc = "poll" /\ prog = "dead" /\ pc' = "drain"
    /\ UNCHANGED <<client, kernel, age, hidden, loop, told, program>>

\* The program waits for input, and what is_process_waiting_for_input makes of the
\* state of its main thread: a read of any pipe looks like one of the terminal.
Waits == prog = "reading" /\ tty = <<>>
Blocked == main = "pipe" \/ (main = "terminal" /\ Waits)

Noticed_Repeats(v) == IF Blocked THEN Follow(v, "waiting_input") ELSE v
Noticed(v) ==
    CASE Blocked /\ ~waiting -> Follow(v, "waiting_input")
      [] ~Blocked /\ waiting -> Follow(v, "resumed")
      [] OTHER -> v

OverTime == charged >= Limit

\* One turn up to the select.
Turn ==
    /\ pc = "poll" /\ prog # "dead"
    /\ waiting' = Blocked
    /\ IF OverTime \/ big
       THEN /\ flags' = flags \cup {IF OverTime THEN "tle" ELSE "mle"}
            /\ view' = Follow(Noticed(view), "output")
            /\ prog' = "dead" /\ pc' = "drain"
       ELSE /\ view' = Noticed(view)
            /\ pc' = "select"
            /\ UNCHANGED <<flags, prog>>
    /\ ticked' = FALSE
    /\ UNCHANGED <<client, kernel, age, hidden, charged, lost, temp, shown, cut, tty, pty,
                   wrote, got, compute, waits, big>>

\* os.read returns some of what there is.  It is decoded by itself: a character that
\* goes on after it becomes two replacement characters.
Output ==
    \E n \in IF pty = 0 THEN {0} ELSE 1..pty :
      /\ pty' = pty - n /\ shown' = shown + n
      /\ cut' = cut \cup (IF n > 0 THEN {shown + n} \cap Wide ELSE {})

\* sys.stdin.readline: a line it took earlier, or the first of all there is; the
\* half of a line that is not followed by the other one counts as a line.
Buffered == hidden # <<>> /\ Head(hidden).part # "head"
Join(x, y) == IF y = <<>> THEN x ELSE Arrive(x, Head(y)) \o Tail(y)
Chunk == Join(hidden, kernel)
InputReady == kernel # <<>> \/ closed
Readline(x) ==
    IF Buffered THEN x = Head(hidden) /\ hidden' = Tail(hidden) /\ kernel' = kernel
    ELSE Chunk # <<>> /\ x = Head(Chunk) /\ hidden' = Tail(Chunk) /\ kernel' = <<>>

\* An input goes to the terminal, which may be full: then it is dropped.
TakeInput(x) ==
    /\ x.part = "whole"
    /\ view' = IF waiting THEN Follow(view, "resumed") ELSE view
    /\ waiting' = FALSE
    /\ IF Len(tty) < InRoom THEN tty' = Append(tty, x.line) /\ lost' = lost
       ELSE tty' = tty /\ lost' = lost \cup {x.line}
    /\ pc' = "poll" /\ UNCHANGED <<flags, temp>>

\* SIGTERM to the group, and no more turns.
TakeStop(x) ==
    /\ x.part = "stop"
    /\ flags' = flags \cup {"stop"} /\ pc' = "drain"
    /\ UNCHANGED <<waiting, lost, view, tty, temp>>

\* A half is no JSON.
TakeHalf(x) ==
    /\ x.part \in {"head", "tail"}
    /\ lost' = lost \cup {x.line} /\ pc' = "poll"
    /\ UNCHANGED <<waiting, flags, view, tty, temp>>

\* Nothing catches what msg.get or encode raise: the directory goes, and that is all.
TakeOdd(x) ==
    /\ x.part = "odd"
    /\ \/ UNCHANGED <<view, waiting>>
       \/ waiting /\ view' = Follow(view, "resumed") /\ waiting' = FALSE
    /\ temp' = "removed" /\ pc' = "done"
    /\ UNCHANGED <<flags, lost, tty>>

NoLine ==
    /\ ~InputReady \/ (~Buffered /\ Chunk = <<>>)
    /\ pc' = "poll"
    /\ UNCHANGED <<kernel, hidden, waiting, flags, lost, view, tty, temp>>

\* The select returned: output first, then one line.
Serve ==
    /\ pc = "select" /\ (ticked \/ pty > 0 \/ InputReady)
    /\ Output
    /\ \/ NoLine
       \/ /\ InputReady
          /\ \E x \in {Head(q) : q \in {hidden, Chunk} \ {<<>>}} :
               Readline(x) /\ (TakeInput(x) \/ TakeStop(x) \/ TakeHalf(x) \/ TakeOdd(x))
    /\ UNCHANGED <<client, age, charged, ticked, prog, wrote, got, compute, waits, big>>

Drain_Once ==
    /\ pc = "drain"
    /\ Output /\ pc' = "wait"
    /\ UNCHANGED <<client, kernel, age, hidden, loop, temp, view, prog, tty, wrote, got,
                   compute, waits, big>>
\* After the loop: until the terminal is silent for 20 ms.
Drain ==
    /\ pc = "drain"
    /\ Output /\ pc' = IF pty = 0 THEN "wait" ELSE "drain"
    /\ UNCHANGED <<client, kernel, age, hidden, loop, temp, view, prog, tty, wrote, got,
                   compute, waits, big>>

\* proc.wait has no limit; the files of the program are listed, then exit is sent.
Finish ==
    /\ pc = "wait" /\ prog = "dead"
    /\ view' = Follow(view, "exit") /\ temp' = "removed"
    /\ pc' = "done"
    /\ UNCHANGED <<client, kernel, age, hidden, loop, shown, cut, program>>
-----------------------------------------------------------------------------
(***************************************************************************)
(* The program and the clock.                                              *)
(***************************************************************************)
Others == <<client, kernel, age, pc, hidden, loop, told>>

WriteOutput ==
    /\ prog \in {"run", "writing"}
    /\ IF pty < OutRoom
       THEN prog' = "run" /\ pty' = pty + 1 /\ wrote' = wrote + 1
       ELSE prog' = "writing" /\ UNCHANGED <<pty, wrote>>
    /\ prog = "run" => wrote < Writes
    /\ UNCHANGED <<Others, tty, got, compute, waits, big>>

WantInput ==
    /\ prog = "run" /\ waits <= Lines
    /\ prog' = "reading" /\ waits' = waits + 1
    /\ UNCHANGED <<Others, tty, pty, wrote, got, compute, big>>

GetInput ==
    /\ prog = "reading" /\ tty # <<>>
    /\ prog' = "run" /\ got' = Append(got, Head(tty)) /\ tty' = Tail(tty)
    /\ UNCHANGED <<Others, pty, wrote, compute, waits, big>>

\* The runner is gone and with it the terminal.
HangUp ==
    /\ ~Alive /\ prog \in {"reading", "writing"} /\ prog' = "run"
    /\ UNCHANGED <<Others, tty, pty, wrote, got, compute, waits, big>>

Grow ==
    /\ prog = "run" /\ big' = TRUE
    /\ UNCHANGED <<Others, prog, tty, pty, wrote, got, compute, waits>>

Exit ==
    /\ prog = "run" /\ prog' = "dead"
    /\ UNCHANGED <<Others, tty, pty, wrote, got, compute, waits, big>>

\* SIGTERM takes its time, or the kernel's own limit is reached.
Dies ==
    /\ prog \in {"run", "reading", "writing"} /\ prog' = "dead"
    /\ ("stop" \in flags /\ kind \notin Stubborn) \/ (compute = CpuLimit /\ prog = "run")
    /\ UNCHANGED <<Others, tty, pty, wrote, got, compute, waits, big>>

\* What a tick adds to current_compute_time.
Charge_Always == 1
Charge == IF waiting THEN 0 ELSE 1

\* The turns of the runner are shorter than a tick.
Tick ==
    /\ pc # "poll" /\ (pc = "select" => ~ticked)
    /\ (prog = "run" => compute < CpuLimit)
    /\ ticked' = TRUE
    /\ charged' = IF pc = "select" THEN charged + Charge ELSE charged
    /\ compute' = IF prog \in {"run", "reading", "writing"} /\ ~Waits /\ compute < CpuLimit
                  THEN compute + 1 ELSE compute
    /\ age' = IF kind = "http" /\ closed /\ age < HttpLimit THEN age + 1 ELSE age
    /\ UNCHANGED <<client, kernel, pc, hidden, waiting, flags, lost, told, prog, tty, pty,
                   wrote, got, waits, big>>
-----------------------------------------------------------------------------
Client == SendLine \/ SendRest \/ Close \/ SendBody \/ PostEnds
Runner ==
    \/ ReadRequest \/ CompileFails \/ CompileRaises \/ Started
    \/ ProgramEnded \/ Turn \/ Serve \/ Drain \/ Finish
Program == WriteOutput \/ WantInput \/ GetInput \/ HangUp \/ Grow \/ Exit \/ Dies

Next == Client \/ Runner \/ Program \/ Tick

\* The runner takes its turns, the server's thread and the clock go on, a signal that
\* is not ignored arrives; the program and the user do what they like.
Spec ==
    /\ Init /\ [][Next]_vars
    /\ WF_vars(Runner) /\ WF_vars(SendBody) /\ WF_vars(PostEnds)
    /\ SF_vars(Tick) /\ WF_vars(Dies)
-----------------------------------------------------------------------------
InLoop == pc \in {"poll", "select"}
Elements(q) == {q[i] : i \in DOMAIN q}

\* The parts of a session have their types.
TypeOK ==
    /\ pc \in {"request", "compile", "poll", "select", "drain", "wait", "done", "killed"}
    /\ prog \in {"none", "run", "reading", "writing", "dead"}
    /\ flags \subseteq {"tle", "mle", "stop"} /\ lost \subseteq 1..Lines
    /\ sent \in 0..Lines /\ pty \in 0..OutRoom /\ wrote \in 0..Writes /\ shown \in 0..Writes
    /\ cut \subseteq 1..Writes
    /\ compute \in 0..CpuLimit /\ charged \in 0..Limit /\ waits \in 0..(Lines + 1)

\* Whatever the program and the client do in between, the messages alternate as a
\* client expects, exit is the last one and comes once, and who got it finds no
\* directory left behind.
ProtocolKept ==
    /\ view # "broken"
    /\ pc = "done" /\ view = "over" => temp # "there"

\* Unless the user stopped it, all that a program wrote before it ended or was
\* killed was sent before exit, and all of it can be read but the characters that two
\* reads shared (a session that an odd line ends sends no exit).  Input reaches the
\* program in the order it was sent; a line that is not on its way was cut in two or
\* found the terminal full.
DataKept ==
    /\ pc = "done" /\ view = "over" /\ "stop" \notin flags =>
         shown = wrote /\ cut \subseteq Wide
    /\ \A i, j \in DOMAIN (got \o tty) : i < j => (got \o tty)[i] < (got \o tty)[j]
    /\ InLoop => \A n \in 1..sent :
         n \in Elements(got \o tty) \cup lost \cup {x.line : x \in Elements(hidden \o kernel)}

\* Whoever is killed for its time computed for the limit, but for the time it takes
\* the runner to notice that it waits, at most a turn each time.
OnlyComputingCharged == "tle" \in flags => compute + waits >= Limit

\* Of a program whose main thread reads the terminal, the time it waits is free and no
\* other: it computes for the limit and no longer.  One that reads in another thread
\* has both charged and never computes for longer; behind the read of a pipe all
\* time is free, and only RLIMIT_CPU is left.
TimeLimitExact ==
    /\ InLoop /\ main # "pipe" => compute <= Limit
    /\ main = "terminal" => OnlyComputingCharged
    /\ main = "pipe" => "tle" \notin flags

\* A stop that can be seen ends the session: one that comes alone, or one after
\* which the pipe is closed.  (Behind another line it stays in readline's buffer.)
StopInSight ==
    /\ kind \notin Stubborn
    /\ \/ closed /\ \E x \in Elements(hidden \o kernel) : x.part = "stop"
       \/ InLoop /\ hidden = <<>> /\ kernel # <<>> /\ Head(kernel).part = "stop"

\* And POST /run is answered, also for a program that waits for input for ever.
SessionsEnd ==
    /\ StopInSight ~> ~Alive
    /\ (kind = "http") ~> (reply # "none")
=============================================================================
