------------------------------ MODULE Communicate ------------------------------
(***************************************************************************)
(* safe_communicate (dmoj/utils/communicate.py) feeds a process its input  *)
(* and collects what it writes, within limits, through three pipes, and    *)
(* StandardGrader._interact_with_process kills a process that is over one. *)
(*                                                                         *)
(* Data is counted in units; what a stream holds is a number.  The child   *)
(* is any program: it commits to an operation (want), which may block, and *)
(* only then goes on.                                                      *)
(***************************************************************************)
EXTENDS Integers

CONSTANTS
    MaxInput,   \* the longest input tried
    MaxOutput,  \* bound on what the child writes to one stream
    Limit,      \* outlimit and errlimit
    Chunk,      \* PIPE_BUF, and the size of a read
    Cap         \* the capacity of a pipe

ASSUME SizesAssumption ==
    /\ MaxInput \in Nat /\ MaxOutput \in Nat /\ Limit \in Nat
    /\ Chunk \in Nat \ {0} /\ Cap \in Nat /\ Cap >= Chunk

Outs == {"stdout", "stderr"}
Fds == Outs \cup {"stdin"}

VARIABLES
    input,      \* the length of the input
    polled,     \* the files of fd2file: registered and still open
    offset,     \* input_offset
    got,        \* fd2length
    ready,      \* what poll returned and the loop did not look at yet
    pc,         \* what the caller does
    result,     \* how communicate ends
    pipe,       \* what each pipe holds
    open,       \* the ends the child holds open
    want,       \* the operation the child is committed to
    taken,      \* what the child read
    wrote,      \* what it wrote to each stream
    sawEof      \* it found the end of its input

grader == <<input, polled, offset, got, ready, pc, result>>
child == <<open, want, taken, wrote, sawEof>>
exchangeVars == <<grader, pipe, child>>

Smaller(a, b) == IF a < b THEN a ELSE b

ExchangeInit ==
    /\ input \in 0..MaxInput
    /\ polled = Outs \cup (IF input > 0 THEN {"stdin"} ELSE {})
    /\ offset = 0 /\ got = [f \in Outs |-> 0]
    /\ ready = {} /\ pc = "poll" /\ result = "none"
    /\ pipe = [f \in Fds |-> 0]
    /\ open = Fds /\ want = "think"
    /\ taken = 0 /\ wrote = [f \in Outs |-> 0] /\ sawEof = FALSE
-----------------------------------------------------------------------------
(***************************************************************************)
(* poll: a pipe with data is readable, also after a hang-up; a pipe with   *)
(* room is writable, also without a reader.                                *)
(***************************************************************************)

Events_HupFirst(f) ==
    IF f = "stdin" THEN (IF Cap - pipe[f] >= Chunk THEN {"out"} ELSE IF f \notin open THEN {"err"} ELSE {})
    ELSE IF f \notin open THEN {"hup"} ELSE IF pipe[f] > 0 THEN {"in"} ELSE {}

Events(f) ==
    IF f = "stdin" THEN
        IF Cap - pipe[f] >= Chunk THEN {"out"} ELSE IF f \notin open THEN {"err"} ELSE {}
    ELSE
        IF pipe[f] > 0 THEN {"in"} ELSE IF f \notin open THEN {"hup"} ELSE {}

Watched_InputFirst == IF "stdin" \in polled THEN {"stdin"} ELSE polled
Watched == polled

Poll ==
    /\ pc = "poll" /\ polled # {}
    /\ ready' = {w \in Watched \X {"in", "out", "hup", "err"} : w[2] \in Events(w[1])}
    /\ ready' # {}
    /\ pc' = "serve"
    /\ UNCHANGED <<input, polled, offset, got, result, pipe, child>>

\* The loop takes the next pair that poll returned; after the last it polls again.
Serve(f, e) ==
    /\ pc = "serve" /\ <<f, e>> \in ready
    /\ ready' = ready \ {<<f, e>>}
    /\ UNCHANGED <<input, result, child>>

PcAfter == IF ready' = {} THEN "poll" ELSE "serve"

InputOver == offset' >= input

\* os.write of the next chunk; EPIPE when the child closed its end.
ServeInput ==
    /\ Serve("stdin", "out")
    /\ IF "stdin" \in open
       THEN LET n == Smaller(Chunk, input - offset)
            IN /\ Cap - pipe["stdin"] >= n
               /\ offset' = offset + n
               /\ pipe' = [pipe EXCEPT !["stdin"] = @ + n]
               /\ polled' = IF InputOver THEN polled \ {"stdin"} ELSE polled
       ELSE polled' = polled \ {"stdin"} /\ UNCHANGED <<offset, pipe>>
    /\ pc' = PcAfter
    /\ UNCHANGED got

OverOutputLimit_Reached(f) == got'[f] >= Limit
OverOutputLimit(f) == got'[f] > Limit

\* What a stream over its limit raises.  The message needs proc.stdout.fileno(),
\* which raises ValueError when stdout was closed.
Raised == IF "stdout" \in polled THEN "ole" ELSE "error"

\* os.read of at most a chunk; the grader kills the process only when it gets
\* OutputLimitExceeded, and waits for it in any case.
ServeOutput(f) ==
    /\ pc = "serve" /\ <<f, "in">> \in ready
    /\ LET n == Smaller(Chunk, pipe[f])
       IN /\ got' = [got EXCEPT ![f] = @ + n]
          /\ pipe' = [pipe EXCEPT ![f] = @ - n]
    /\ IF OverOutputLimit(f)
       THEN /\ result' = Raised
            /\ pc' = IF result' = "ole" THEN "kill" ELSE "wait"
            /\ ready' = {}
       ELSE /\ ready' = ready \ {<<f, "in">>}
            /\ pc' = PcAfter
            /\ UNCHANGED result
    /\ UNCHANGED <<input, polled, offset, child>>

ServeClosed(f, e) ==
    /\ e \in {"hup", "err"}
    /\ Serve(f, e)
    /\ polled' = polled \ {f}
    /\ pc' = PcAfter
    /\ UNCHANGED <<offset, got, pipe>>

\* Everything was closed: communicate waits for the process and returns.
Exchanged ==
    /\ pc = "poll" /\ polled = {}
    /\ pc' = "wait" /\ result' = "returned"
    /\ UNCHANGED <<input, polled, offset, got, ready, pipe, child>>

\* The grader's handler of OutputLimitExceeded.
Kill ==
    /\ pc = "kill"
    /\ want' = "exited" /\ open' = {}
    /\ pc' = "wait"
    /\ UNCHANGED <<input, polled, offset, got, ready, result, pipe, taken, wrote, sawEof>>

Wait ==
    /\ pc = "wait" /\ want = "exited"
    /\ pc' = "done"
    /\ UNCHANGED <<input, polled, offset, got, ready, result, pipe, child>>

Grader ==
    \/ Poll \/ ServeInput \/ Exchanged \/ Kill \/ Wait
    \/ \E f \in Outs : ServeOutput(f)
    \/ \E f \in Fds, e \in {"hup", "err"} : ServeClosed(f, e)
-----------------------------------------------------------------------------
(***************************************************************************)
(* The child.                                                              *)
(***************************************************************************)
\* Closing a stream, as an operation to commit to.
Closing == [stdin |-> "shutin", stdout |-> "shutout", stderr |-> "shuterr"]

Think ==
    /\ want = "think"
    /\ want' \in {"exit"}
                 \cup (IF "stdin" \in open /\ ~sawEof THEN {"read"} ELSE {})
                 \cup {f \in Outs \cap open : wrote[f] < MaxOutput}
                 \cup {Closing[f] : f \in IF sawEof THEN open \ {"stdin"} ELSE open}
    /\ UNCHANGED <<grader, pipe, open, taken, wrote, sawEof>>

\* The write end of its input is closed and nothing is left in it.
AtEof == pipe["stdin"] = 0 /\ "stdin" \notin polled

Read ==
    /\ want = "read" /\ (pipe["stdin"] > 0 \/ AtEof)
    /\ sawEof' = AtEof
    /\ taken' = IF AtEof THEN taken ELSE taken + 1
    /\ pipe' = IF AtEof THEN pipe ELSE [pipe EXCEPT !["stdin"] = @ - 1]
    /\ want' = "think"
    /\ UNCHANGED <<grader, open, wrote>>

Write(f) ==
    /\ want = f /\ pipe[f] < Cap
    /\ pipe' = [pipe EXCEPT ![f] = @ + 1]
    /\ wrote' = [wrote EXCEPT ![f] = @ + 1]
    /\ want' = "think"
    /\ UNCHANGED <<grader, open, taken, sawEof>>

Close ==
    /\ \E f \in Fds : want = Closing[f] /\ open' = open \ {f}
    /\ want' = "think"
    /\ UNCHANGED <<grader, pipe, taken, wrote, sawEof>>

Exit ==
    /\ want = "exit"
    /\ open' = {} /\ want' = "exited"
    /\ UNCHANGED <<grader, pipe, taken, wrote, sawEof>>

Child == Think \/ Read \/ (\E f \in Outs : Write(f)) \/ Close \/ Exit

ExchangeNext == Grader \/ Child

\* The caller runs, and so does the child: bounded as it is, it ends unless it
\* is blocked for ever.
ExchangeSpec == ExchangeInit /\ [][ExchangeNext]_exchangeVars /\ WF_exchangeVars(Grader) /\ WF_exchangeVars(Child)
-----------------------------------------------------------------------------
\* Counters stay in their ranges, a pipe within its capacity, and only files that
\* are still registered are waiting to be served.
ExchangeTypes ==
    /\ input \in 0..MaxInput /\ offset \in 0..input
    /\ polled \subseteq Fds /\ open \subseteq Fds
    /\ got \in [Outs -> 0..MaxOutput] /\ wrote \in [Outs -> 0..MaxOutput]
    /\ ready \subseteq polled \X {"in", "out", "hup", "err"}
    /\ pc \in {"poll", "serve", "kill", "wait", "done"}
    /\ result \in {"none", "returned", "ole", "error"}
    /\ pipe \in [Fds -> 0..Cap]
    /\ want \in Outs \cup {Closing[f] : f \in Fds} \cup {"think", "read", "exit", "exited"}
    /\ taken \in 0..MaxInput /\ sawEof \in BOOLEAN

\* When communicate returns it holds everything the child wrote, although the
\* child may close a stream or exit right after its last write; and a child that
\* reads to the end of its input got all of it.
NothingLost ==
    /\ result = "returned" => got = wrote
    /\ sawEof => taken = input

\* A process is over the limit exactly when one of its streams is: what is within
\* the limits is returned, whatever the order in which it arrived.
LimitExact ==
    /\ result = "returned" => \A f \in Outs : wrote[f] <= Limit
    /\ result \in {"ole", "error"} => \E f \in Outs : wrote[f] > Limit

\* The caller and the child never wait for each other for ever, in whatever order
\* the child reads, writes and closes: the grader gets back control.  (After an
\* error the grader waits for a process nobody kills: only the time limit ends it.)
GraderReturns == <>(pc = "done" \/ result = "error")
=============================================================================
