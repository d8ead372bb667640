---------------------------- MODULE InteractiveGraders ----------------------------
(***************************************************************************)
(* The graders that let a submission talk to an interactor: Interactive-   *)
(* Grader, whose interactor is code of the problem on the judge's thread,  *)
(* and BridgedInteractiveGrader, whose interactor is a second sandboxed    *)
(* process, joined to the submission by two pipes.  Then the verdict: the  *)
(* exit code of the interactor as one of the contrib modules reads it, and *)
(* what StandardGrader.grade makes of that.                                *)
(*                                                                         *)
(* Of what is said only the number of messages in a pipe is kept.          *)
(***************************************************************************)
EXTENDS Integers, FiniteSets

CONSTANTS
    Graders,    \* of {"interactive", "bridged"}
    Contribs,   \* of {"default", "testlib", "coci", "peg"}
    Points,     \* of the case
    TL,         \* the time limit of the problem
    WallFactor, \* wall_time_factor of the case
    Extra,      \* preprocessing_time of the interactor, 2 s by default
    Room,       \* messages a pipe holds
    ErrRoom     \* of a pipe for stderr, which nobody reads before both ended

ASSUME ChoicesAssumption ==
    /\ Graders \subseteq {"interactive", "bridged"}
    /\ Contribs \subseteq {"default", "testlib", "coci", "peg"}
ASSUME PointsAssumption == {Points, TL, Extra, WallFactor} \subseteq Nat
ASSUME RoomAssumption == {Room, ErrRoom} \subseteq Nat \ {0}

Both == {"sub", "int"}
Peer(p) == IF p = "sub" THEN "int" ELSE "sub"
Killed == -9        \* the code of a process that a signal ended
None == -1          \* no number in the interactor's stderr
Pending == [flags |-> {"pending"}, points |-> 0]
Internal == [flags |-> {"IE"}, points |-> 0]

VARIABLES
    grader,
    contrib,    \* its module, and the number the interactor's stderr holds: read at
    said,       \* the end
    pc,         \* of the judge's thread
    st,         \* of each process: "none", "run", "read", "write", "err", "dead"
    in,         \* messages on their way to it
    open,       \* the judge has not closed its input
    err,        \* what its stderr holds
    cpu, wall,
    code,       \* its exit code
    over,       \* the is_tle of each
    fat,        \* the is_mle of each
    check,      \* InteractiveGrader.check: TRUE, FALSE
    aborted,
    outcome     \* the flags and points of the Result

judge == <<grader, contrib, said, pc, check, outcome>>
procs == <<st, in, err, cpu, wall, code, over, fat, open>>
vars == <<judge, procs, aborted>>

Init ==
    /\ grader \in Graders /\ contrib = "unread" /\ said = None
    /\ pc = "launch"
    /\ st = [p \in Both |-> "none"] /\ in = [p \in Both |-> 0] /\ err = [p \in Both |-> 0]
    /\ open = TRUE
    /\ cpu = [p \in Both |-> 0] /\ wall = [p \in Both |-> 0]
    /\ code = [p \in Both |-> 0]
    /\ over = [p \in Both |-> FALSE] /\ fat = [p \in Both |-> FALSE]
    /\ check = FALSE /\ aborted = FALSE /\ outcome = Pending

Lives(p) == st[p] \in {"run", "read", "write", "err"}
Is(p, state) == st' = [st EXCEPT ![p] = state]
\* Gone: what was on its way to it is lost, its clocks stop.
Dies(p) ==
    /\ Is(p, "dead")
    /\ in' = [in EXCEPT ![p] = 0]
    /\ cpu' = [cpu EXCEPT ![p] = 0] /\ wall' = [wall EXCEPT ![p] = 0]
-----------------------------------------------------------------------------
(***************************************************************************)
(* Limits.  The interactor of a bridged grader has the default wall limit  *)
(* of TracedPopen; the judge's own thread has none.                        *)
(***************************************************************************)
Limit_NoExtra(p) == TL
Limit(p) == IF p = "sub" THEN TL ELSE TL + Extra
WallLimit(p) == IF p = "sub" THEN WallFactor * TL ELSE 3 * Limit(p)

Traced(p) == p = "sub" \/ grader = "bridged"
OverLimit_CpuOnly(p) == Traced(p) /\ Lives(p) /\ cpu[p] > Limit(p)
OverLimit(p) == Traced(p) /\ Lives(p) /\ (cpu[p] > Limit(p) \/ wall[p] > WallLimit(p))

Shock(p) ==
    /\ OverLimit(p)
    /\ Dies(p) /\ over' = [over EXCEPT ![p] = TRUE] /\ code' = [code EXCEPT ![p] = Killed]
    /\ UNCHANGED <<judge, err, fat, open, aborted>>

\* A tick of both clocks; the limits are looked at in time.  Beyond them nothing counts.
Tick ==
    /\ \E p \in Both : Lives(p)
    /\ \A p \in Both : ~OverLimit(p)
    /\ wall' = [p \in Both |-> IF Lives(p) /\ wall[p] <= WallLimit(p) THEN wall[p] + 1 ELSE wall[p]]
    /\ cpu' = [p \in Both |-> IF st[p] = "run" /\ cpu[p] <= Limit(p) THEN cpu[p] + 1 ELSE cpu[p]]
    /\ UNCHANGED <<judge, st, in, err, code, over, fat, open, aborted>>
-----------------------------------------------------------------------------
(***************************************************************************)
(* The two sides.  SIGPIPE is ignored in both, as Python leaves it.        *)
(***************************************************************************)
Write(p) ==
    /\ st[p] \in {"run", "write"} /\ st[Peer(p)] # "none"
    /\ CASE st[Peer(p)] = "dead" -> Is(p, "run") /\ in' = in
         [] st[Peer(p)] # "dead" /\ in[Peer(p)] < Room ->
                Is(p, "run") /\ in' = [in EXCEPT ![Peer(p)] = @ + 1]
         [] OTHER -> Is(p, "write") /\ in' = in
    /\ UNCHANGED <<judge, err, cpu, wall, code, over, fat, open, aborted>>

\* End of file once the other side is gone, or the judge closed the input.
AtEnd(p) == IF p = "sub" /\ grader = "interactive" THEN ~open ELSE st[Peer(p)] = "dead"

Read(p) ==
    /\ st[p] \in {"run", "read"}
    /\ CASE in[p] > 0 -> Is(p, "run") /\ in' = [in EXCEPT ![p] = @ - 1]
         [] in[p] = 0 /\ AtEnd(p) -> Is(p, "run") /\ in' = in
         [] OTHER -> Is(p, "read") /\ in' = in
    /\ UNCHANGED <<judge, err, cpu, wall, code, over, fat, open, aborted>>

WriteErr(p) ==
    /\ Traced(p) /\ st[p] \in {"run", "err"}
    /\ IF err[p] < ErrRoom THEN Is(p, "run") /\ err' = [err EXCEPT ![p] = @ + 1]
       ELSE Is(p, "err") /\ err' = err
    /\ UNCHANGED <<judge, in, cpu, wall, code, over, fat, open, aborted>>

Codes(p) == IF p = "sub" THEN {0, 1, Killed} ELSE {0, 1, 2, 3, 7, 9, Killed}

\* It exits, or a signal or the sandbox ends it; the memory limit is looked at afterwards.
Exit(p) ==
    /\ Traced(p) /\ st[p] = "run"
    /\ Dies(p)
    /\ \E c \in Codes(p) : code' = [code EXCEPT ![p] = c]
    /\ \E m \in BOOLEAN : fat' = [fat EXCEPT ![p] = m]
    /\ over' = [over EXCEPT ![p] = cpu[p] > Limit(p)]
    /\ UNCHANGED <<judge, err, open, aborted>>

\* InteractiveGrader.interact: a verdict, after which the submission's input is
\* closed; a WrongAnswer or an IOError, after which it is not.
Interact ==
    /\ grader = "interactive" /\ st["int"] = "run"
    /\ Dies("int")
    /\ \/ check' \in BOOLEAN /\ open' = FALSE
       \/ check' = FALSE /\ open' = open
    /\ UNCHANGED <<grader, contrib, said, pc, outcome, err, code, over, fat, aborted>>

\* terminate-submission: only the submission is killed.
Abort ==
    /\ ~aborted /\ Lives("sub") /\ pc # "done"
    /\ aborted' = TRUE
    /\ Dies("sub") /\ code' = [code EXCEPT !["sub"] = Killed]
    /\ UNCHANGED <<judge, err, over, fat, open>>
-----------------------------------------------------------------------------
(***************************************************************************)
(* The judge's thread.                                                     *)
(***************************************************************************)
\* _launch_process
LaunchSubmission ==
    /\ pc = "launch" /\ pc' = "prepare"
    /\ Is("sub", "run")
    /\ UNCHANGED <<grader, contrib, said, check, outcome, in, err, cpu, wall, code, over, fat,
                   open, aborted>>

\* The first half of _interact_with_process; the judge closes its ends of the pipes.
LaunchInteractor ==
    /\ pc = "prepare" /\ pc' = "sub"
    /\ Is("int", "run")
    /\ UNCHANGED <<grader, contrib, said, check, outcome, in, err, cpu, wall, code, over, fat,
                   open, aborted>>

\* The files of the case or the arguments are wrong: the submission is left alone.
PrepareFails ==
    /\ pc = "prepare" /\ grader = "bridged"
    /\ pc' = "done" /\ outcome' = Internal
    /\ UNCHANGED <<grader, contrib, said, check, procs, aborted>>

\* wait for the one, then for the other; InteractiveGrader is its own interactor.
WaitSubmission ==
    /\ pc = "sub" /\ st["sub"] = "dead" /\ (grader = "interactive" => st["int"] = "dead")
    /\ pc' = "int"
    /\ UNCHANGED <<grader, contrib, said, check, outcome, procs, aborted>>

\* populate_result
Flags ==
    {f \in {"IR", "RTE", "TLE", "MLE"} :
        CASE f = "IR" -> code["sub"] > 0   [] f = "RTE" -> code["sub"] < 0
          [] f = "TLE" -> over["sub"]      [] f = "MLE" -> fat["sub"]}

Verdict(passed, points) == [passed |-> passed, points |-> points]
InternalError == [passed |-> FALSE, points |-> None]

Full == Verdict(TRUE, Points)
Nothing == Verdict(FALSE, 0)

\* parse_helper_file_error: a process that timed out, ran out of memory or whose code
\* is not zero is an error; it is asked about codes that are not zero only.
HelperError == IF over["int"] \/ fat["int"] \/ code["int"] # 0 THEN InternalError ELSE Nothing

\* ContribModule.parse_return_code of each module, with the number in stderr: points,
\* or the part of Points that a fraction stands for.
ParseDefault(number) ==
    CASE code["int"] = 0 -> Full
      [] code["int"] = 1 -> Nothing
      [] OTHER -> HelperError

Partial(number) ==
    IF number = None \/ number > Points THEN InternalError ELSE Verdict(TRUE, number)

ParseTestlib(number) ==
    CASE code["int"] = 3 -> InternalError
      [] code["int"] = 0 -> Full
      [] code["int"] = 7 -> Partial(number)
      [] code["int"] \in {1, 2} -> Nothing
      [] OTHER -> HelperError

ParseCoci(number) == IF code["int"] = 7 THEN Partial(number) ELSE ParseTestlib(number)

\* A fraction may be more than one.
ParsePeg(number) ==
    CASE code["int"] \in {0, 1} /\ number > 0 -> Verdict(TRUE, number)
      [] code["int"] = 0 /\ number <= 0 -> Full
      [] code["int"] = 1 /\ number <= 0 -> Nothing
      [] OTHER -> HelperError

ParseReturnCode(module, number) ==
    CASE module = "default" -> ParseDefault(number)   [] module = "testlib" -> ParseTestlib(number)
      [] module = "coci" -> ParseCoci(number)         [] module = "peg" -> ParsePeg(number)

CheckBridged_FlagsFirst(parsed) == IF Flags = {} THEN parsed ELSE Verdict(FALSE, 0)
\* BridgedInteractiveGrader.check_result: the interactor's failure comes first.
CheckBridged(parsed) ==
    IF parsed = InternalError \/ Flags = {} THEN parsed ELSE Verdict(FALSE, 0)

\* InteractiveGrader.check_result
CheckInteractive ==
    IF Flags # {} THEN Verdict(FALSE, 0) ELSE Verdict(check, IF check THEN Points ELSE 0)

\* The rest of grade: WA is added unless the check passed.
Conclude ==
    LET v == IF grader = "bridged" THEN CheckBridged(ParseReturnCode(contrib', said'))
             ELSE CheckInteractive
    IN outcome' = IF v = InternalError THEN Internal
                  ELSE [flags |-> Flags \cup (IF v.passed THEN {} ELSE {"WA"}), points |-> v.points]

Grade ==
    /\ pc = "int" /\ st["int"] = "dead"
    /\ contrib' \in IF grader = "bridged" THEN Contribs ELSE {"unread"}
    /\ said' \in IF grader = "bridged" THEN None..(Points + 1) ELSE {None}
    /\ Conclude /\ pc' = "done"
    /\ UNCHANGED <<grader, check, procs, aborted>>

Grading == LaunchSubmission \/ LaunchInteractor \/ WaitSubmission \/ Grade
Side(p) == Write(p) \/ Read(p) \/ WriteErr(p) \/ Exit(p)

Next ==
    \/ Grading \/ PrepareFails \/ Abort \/ Interact \/ Tick
    \/ \E p \in Both : Side(p) \/ Shock(p)

\* The interactor of an InteractiveGrader reads until the submission is gone and then
\* returns; nothing is assumed of the processes.
Spec ==
    /\ Init /\ [][Next]_vars
    /\ WF_vars(Grading) /\ WF_vars(Tick) /\ \A p \in Both : WF_vars(Shock(p))
    /\ WF_vars(Interact /\ st["sub"] = "dead") /\ WF_vars(Read("int") /\ AtEnd("int"))
    /\ WF_vars(Write("int") /\ AtEnd("int"))
-----------------------------------------------------------------------------
\* The parts of the grader's state have their types.
TypeOK ==
    /\ pc \in {"launch", "prepare", "sub", "int", "done"}
    /\ st \in [Both -> {"none", "run", "read", "write", "err", "dead"}]
    /\ in \in [Both -> 0..Room] /\ err \in [Both -> 0..ErrRoom]
    /\ \A p \in Both : cpu[p] \in 0..(Limit(p) + 1) /\ wall[p] \in 0..(WallLimit(p) + 1)
    /\ said \in None..(Points + 1)

\* "so we do not race (and incorrectly throw IE) if submission gets TLE": an
\* interactor that only waited for the submission is never killed before it.
WaitingInteractorSpared ==
    [][Shock("int") /\ cpu["int"] <= Limit("int") => st["sub"] = "dead"]_vars

\* Full or partial points need a submission that ended well within its limits and an
\* interactor that accepted it; a failed interactor is an internal error whatever
\* became of the submission, and a flag of the submission is never lost.
VerdictEarned ==
    pc = "done" /\ outcome # Internal =>
        /\ outcome.points > 0 => /\ outcome.flags = {} /\ ~aborted
                                 /\ \A p \in Both : Traced(p) => code[p] # Killed
        /\ Flags \subseteq outcome.flags
        /\ contrib # "peg" => outcome.points <= Points
        /\ grader = "bridged" => code["int"] \in {0, 1, 2, 7}

\* A case is graded, whoever of the two hangs, floods its stderr or is killed.
GradingEnds == <>(pc = "done")
=============================================================================
