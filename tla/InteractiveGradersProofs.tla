------------------------ MODULE InteractiveGradersProofs ------------------------
(***************************************************************************)
(* The interactive graders, for any points, limits and room in the pipes.  *)
(*                                                                         *)
(* A verdict is given when both sides are dead, so that nothing it depends *)
(* on changes afterwards (Settled); and the submission, started first, has *)
(* the larger wall clock of the two (Clocks).                              *)
(***************************************************************************)
EXTENDS InteractiveGraders, TLAPS

States == {"none", "run", "read", "write", "err", "dead"}
Modules == {"unread", "default", "testlib", "coci", "peg"}

Typed ==
    /\ pc \in {"launch", "prepare", "sub", "int", "done"}
    /\ grader \in {"interactive", "bridged"} /\ contrib \in Modules
    /\ said \in None..(Points + 1)
    /\ st \in [Both -> States]
    /\ in \in [Both -> 0..Room] /\ err \in [Both -> 0..ErrRoom]
    /\ code \in [Both -> Int]
    /\ cpu \in [Both -> Nat] /\ wall \in [Both -> Nat]
    /\ DOMAIN over = Both /\ DOMAIN fat = Both

Started ==
    /\ pc = "launch" <=> st["sub"] = "none"
    /\ pc \in {"launch", "prepare"} => st["int"] = "none"
    /\ pc = "int" => st["sub"] = "dead"

Settled == pc = "done" /\ outcome # Internal => st["sub"] = "dead" /\ st["int"] = "dead"

\* An abort that came in time killed the submission, which stays dead.
Aborts == aborted => st["sub"] = "dead" /\ code["sub"] = Killed

Clocks ==
    /\ \A p \in Both : cpu[p] <= Limit(p) + 1 /\ wall[p] <= WallLimit(p) + 1
    /\ \A p \in Both : ~Lives(p) => cpu[p] = 0 /\ wall[p] = 0
    /\ Lives("sub") => wall["int"] <= wall["sub"]

IInv == Typed /\ Started /\ Settled /\ Aborts /\ Clocks /\ VerdictEarned

LEMMA Bounds ==
    /\ Points \in Nat /\ TL \in Nat /\ Extra \in Nat /\ WallFactor \in Nat
    /\ Room \in Nat \ {0} /\ ErrRoom \in Nat \ {0}
BY PointsAssumption, RoomAssumption

USE Bounds

LEMMA Limits ==
    /\ \A p \in Both : Limit(p) \in Nat /\ WallLimit(p) \in Nat
    /\ Limit("sub") = TL /\ Limit("int") = TL + Extra
    /\ WallLimit("sub") = WallFactor * TL /\ WallLimit("int") = 3 * (TL + Extra)
BY DEF Limit, WallLimit, Both

LEMMA InitIInv == Init => IInv
<1> SUFFICES ASSUME Init PROVE IInv
  OBVIOUS
<1>1. Typed
  BY ChoicesAssumption DEF Init, Typed, States, Modules, None
<1>2. Clocks
  BY Limits DEF Init, Clocks, Lives, Both
<1>3. Started /\ Settled /\ Aborts /\ VerdictEarned
  BY DEF Init, Started, Settled, Aborts, VerdictEarned, Both
<1> QED  BY <1>1, <1>2, <1>3 DEF IInv

\* Each side and the clock.
LEMMA TypedStep == ASSUME IInv, Next PROVE Typed'
<1> USE DEF IInv, Typed, States, Both, judge, procs, Is, Dies
<1>1. CASE Grading \/ PrepareFails
  <2>1. CASE LaunchSubmission
    BY <2>1 DEF LaunchSubmission
  <2>2. CASE LaunchInteractor
    BY <2>2 DEF LaunchInteractor
  <2>3. CASE WaitSubmission
    BY <2>3 DEF WaitSubmission
  <2>4. CASE Grade
    <3>1. contrib' \in Modules /\ said' \in None..(Points + 1)
      BY <2>4, ChoicesAssumption DEF Grade, Modules, None
    <3> QED  BY <2>4, <3>1 DEF Grade
  <2>5. CASE PrepareFails
    BY <2>5 DEF PrepareFails
  <2> QED  BY <1>1, <2>1, <2>2, <2>3, <2>4, <2>5 DEF Grading
<1>2. CASE Abort
  BY <1>2 DEF Abort, Killed
<1>3. CASE Interact
  BY <1>3 DEF Interact
<1>4. CASE Tick
  BY <1>4 DEF Tick
<1>5. ASSUME NEW p \in Both, Write(p) PROVE Typed'
  BY <1>5 DEF Write, Peer
<1>6. ASSUME NEW p \in Both, Read(p) PROVE Typed'
  BY <1>6 DEF Read
<1>7. ASSUME NEW p \in Both, WriteErr(p) PROVE Typed'
  BY <1>7 DEF WriteErr
<1>8. ASSUME NEW p \in Both, Exit(p) PROVE Typed'
  BY <1>8 DEF Exit, Codes, Killed
<1>9. ASSUME NEW p \in Both, Shock(p) PROVE Typed'
  BY <1>9 DEF Shock, Killed
<1> QED  BY <1>1, <1>2, <1>3, <1>4, <1>5, <1>6, <1>7, <1>8, <1>9 DEF Next, Side

LEMMA ClocksStep == ASSUME IInv, Next PROVE Clocks'
<1>0. /\ \A p \in Both : Limit(p) \in Nat /\ WallLimit(p) \in Nat
      /\ st \in [Both -> States] /\ cpu \in [Both -> Nat] /\ wall \in [Both -> Nat]
      /\ Clocks /\ Started
  BY Limits DEF IInv, Typed
<1> DEFINE Same(p) == cpu'[p] = cpu[p] /\ wall'[p] = wall[p] /\ (Lives(p)' <=> Lives(p))
           Off(p) == cpu'[p] = 0 /\ wall'[p] = 0 /\ ~Lives(p)'
           On(p) == cpu'[p] = cpu[p] /\ wall'[p] = wall[p] /\ ~Lives(p)
<1>1. ASSUME \A p \in Both : Same(p) \/ Off(p) PROVE Clocks'
  BY <1>0, <1>1 DEF Clocks, Both, States
<1>2. ASSUME NEW p \in Both, Dies(p) PROVE \A q \in Both : Same(q) \/ Off(q)
  BY <1>0, <1>2 DEF Dies, Is, Lives
<1>3. CASE LaunchSubmission
  BY <1>0, <1>3 DEF LaunchSubmission, Is, Clocks, Lives, Both, Started
<1>4. CASE LaunchInteractor
  BY <1>0, <1>4 DEF LaunchInteractor, Is, Clocks, Lives, Both, Started
<1>5. CASE WaitSubmission \/ Grade \/ PrepareFails
  <2>1. UNCHANGED <<st, cpu, wall>>
    BY <1>5 DEF WaitSubmission, Grade, PrepareFails, procs
  <2> QED  BY <1>1, <2>1 DEF Lives
<1>6. CASE Abort
  BY <1>1, <1>2, <1>6 DEF Abort, Both
<1>7. CASE Interact
  BY <1>1, <1>2, <1>7 DEF Interact, Both
<1>8. CASE Tick
  <2>1. \A p \in Both : wall'[p] = (IF Lives(p) /\ wall[p] <= WallLimit(p) THEN wall[p] + 1 ELSE wall[p])
    BY <1>8, <1>0 DEF Tick
  <2>2. \A p \in Both : cpu'[p] = (IF st[p] = "run" /\ cpu[p] <= Limit(p) THEN cpu[p] + 1 ELSE cpu[p])
    BY <1>8, <1>0 DEF Tick
  <2>3. st' = st /\ (Lives("sub") => wall["sub"] <= WallLimit("sub"))
    BY <1>8, <1>0 DEF Tick, OverLimit, Traced, Both
  <2> QED  BY <1>0, <2>1, <2>2, <2>3 DEF Clocks, Lives, Both
<1>9. ASSUME NEW p \in Both, Write(p) \/ Read(p) \/ WriteErr(p) PROVE Clocks'
  <2>1. Lives(p) /\ cpu' = cpu /\ wall' = wall
    BY <1>9 DEF Write, Read, WriteErr, Lives
  <2>2. \E s \in {"run", "read", "write", "err"} : Is(p, s)
    BY <1>9 DEF Write, Read, WriteErr
  <2>3. \A q \in Both : Same(q)
    BY <1>0, <2>1, <2>2 DEF Is, Lives
  <2> QED  BY <1>1, <2>3
<1>10. ASSUME NEW p \in Both, Exit(p) \/ Shock(p) PROVE Clocks'
  BY <1>1, <1>2, <1>10 DEF Exit, Shock
<1> QED
  BY <1>3, <1>4, <1>5, <1>6, <1>7, <1>8, <1>9, <1>10 DEF Next, Grading, Side

\* Dead processes take no step, and everything else waits for them.
LEMMA PlacesStep == ASSUME IInv, Next PROVE Started' /\ Settled' /\ Aborts'
<1> USE DEF IInv, Typed, Started, Settled, Aborts, Both, judge, procs, Is, Dies
<1>1. CASE LaunchSubmission
  BY <1>1 DEF LaunchSubmission
<1>2. CASE LaunchInteractor
  BY <1>2 DEF LaunchInteractor
<1>3. CASE WaitSubmission
  BY <1>3 DEF WaitSubmission
<1>4. CASE Grade
  BY <1>4 DEF Grade
<1>5. CASE PrepareFails
  BY <1>5 DEF PrepareFails
<1>6. CASE Abort
  <2>1. /\ pc # "done" /\ UNCHANGED <<pc, outcome>>
        /\ st' = [st EXCEPT !["sub"] = "dead"] /\ code' = [code EXCEPT !["sub"] = Killed]
    BY <1>6 DEF Abort
  <2>2. st["sub"] # "none"
    BY <1>6 DEF Abort, Lives
  <2> QED  BY <2>1, <2>2
<1>7. CASE Interact
  BY <1>7 DEF Interact
<1>8. CASE Tick
  BY <1>8 DEF Tick
<1>9. ASSUME NEW p \in Both, Write(p) \/ Read(p) \/ WriteErr(p)
      PROVE  Started' /\ Settled' /\ Aborts'
  <2>1. st[p] \notin {"none", "dead"} /\ UNCHANGED <<pc, outcome, code, aborted>>
    BY <1>9 DEF Write, Read, WriteErr
  <2>2. \E s \in {"run", "read", "write", "err"} : st' = [st EXCEPT ![p] = s]
    BY <1>9 DEF Write, Read, WriteErr
  <2> QED  BY <2>1, <2>2
<1>10. ASSUME NEW p \in Both, Exit(p) PROVE Started' /\ Settled' /\ Aborts'
  BY <1>10 DEF Exit
<1>11. ASSUME NEW p \in Both, Shock(p) PROVE Started' /\ Settled' /\ Aborts'
  BY <1>11 DEF Shock, OverLimit, Lives
<1> QED
  BY <1>1, <1>2, <1>3, <1>4, <1>5, <1>6, <1>7, <1>8, <1>9, <1>10, <1>11 DEF Next, Grading, Side

\* What the modules make of an exit code: full points or fewer, and none for a
\* code that is not theirs.
LEMMA Parsed ==
    ASSUME Typed, NEW m \in {"default", "testlib", "coci", "peg"}, NEW n \in None..(Points + 1)
    PROVE  LET v == ParseReturnCode(m, n) IN
           /\ v \in [passed : BOOLEAN, points : Int]
           /\ v # InternalError => code["int"] \in {0, 1, 2, 7}
           /\ v # InternalError /\ m # "peg" => v.points <= Points
           /\ v # InternalError => v.points >= 0 /\ (v.points > 0 => v.passed)
<1>0. code["int"] \in Int /\ n \in Int
  BY DEF Typed, Both, None
<1> DEFINE Fair(v) == /\ v \in [passed : BOOLEAN, points : Int]
                      /\ v # InternalError => v.points >= 0 /\ (v.points > 0 => v.passed)
           Whole(v) == Fair(v) /\ (v # InternalError => v.points <= Points)
<1>1. Whole(Full) /\ Whole(Nothing) /\ Whole(InternalError)
  BY DEF Full, Nothing, InternalError, Verdict, None
<1>2. code["int"] # 0 => HelperError = InternalError
  BY DEF HelperError
<1>3. Whole(Partial(n))
  BY <1>0 DEF Partial, InternalError, Verdict, None
<1>4. n > 0 => Fair(Verdict(TRUE, n))
  BY <1>0 DEF Verdict, InternalError
<1> HIDE DEF Fair, Whole
<1>5. Whole(ParseDefault(n)) /\ (ParseDefault(n) # InternalError => code["int"] \in {0, 1})
  BY <1>0, <1>1, <1>2 DEF ParseDefault
<1>6. /\ Whole(ParseTestlib(n))
      /\ ParseTestlib(n) # InternalError => code["int"] \in {0, 1, 2, 7}
  BY <1>0, <1>1, <1>2, <1>3 DEF ParseTestlib
<1>7. Whole(ParseCoci(n)) /\ (ParseCoci(n) # InternalError => code["int"] \in {0, 1, 2, 7})
  BY <1>0, <1>3, <1>6 DEF ParseCoci
<1>8. Fair(ParsePeg(n)) /\ (ParsePeg(n) # InternalError => code["int"] \in {0, 1})
  <2>1. Fair(Full) /\ Fair(Nothing) /\ Fair(InternalError)
    BY <1>1 DEF Whole
  <2>2. CASE code["int"] \in {0, 1}
    <3>1. CASE n > 0
      <4>1. ParsePeg(n) = Verdict(TRUE, n)
        BY <1>0, <2>2, <3>1 DEF ParsePeg, Verdict
      <4> QED  BY <1>4, <2>2, <3>1, <4>1
    <3>2. CASE ~(n > 0)
      <4>1. ParsePeg(n) \in {Full, Nothing}
        BY <1>0, <2>2, <3>2 DEF ParsePeg
      <4> QED  BY <2>1, <2>2, <4>1
    <3> QED  BY <3>1, <3>2
  <2>3. CASE code["int"] \notin {0, 1}
    <3>1. ParsePeg(n) = InternalError
      BY <1>0, <1>2, <2>3 DEF ParsePeg
    <3> QED  BY <2>1, <3>1
  <2> QED  BY <2>2, <2>3
<1> USE DEF Fair, Whole
<1>9. CASE m = "default"
  BY <1>5, <1>9 DEF ParseReturnCode
<1>10. CASE m = "testlib"
  BY <1>6, <1>10 DEF ParseReturnCode
<1>11. CASE m = "coci"
  BY <1>7, <1>11 DEF ParseReturnCode
<1>12. CASE m = "peg"
  BY <1>8, <1>12 DEF ParseReturnCode
<1> QED  BY <1>9, <1>10, <1>11, <1>12

LEMMA GradeEarned == ASSUME IInv, Grade PROVE VerdictEarned'
<1> USE DEF IInv, Grade
<1>1. pc' = "done" /\ UNCHANGED <<grader, procs, aborted>>
  OBVIOUS
<1>2. Flags' = Flags /\ code' = code
  BY <1>1 DEF Flags, procs
<1>3. aborted => "RTE" \in Flags
  BY DEF Aborts, Flags, Killed
<1> DEFINE v == IF grader = "bridged" THEN CheckBridged(ParseReturnCode(contrib', said'))
                ELSE CheckInteractive
<1>4. outcome' = IF v = InternalError THEN Internal
                 ELSE [flags |-> Flags \cup (IF v.passed THEN {} ELSE {"WA"}), points |-> v.points]
  BY DEF Conclude
<1>5. Flags = {} => code["sub"] # Killed
  <2>1. code["sub"] = Killed => "RTE" \in Flags
    BY DEF Flags, Killed
  <2> QED  BY <2>1
<1>6. CASE grader = "bridged"
  <2> DEFINE w == ParseReturnCode(contrib', said')
  <2>1. contrib' \in {"default", "testlib", "coci", "peg"} /\ said' \in None..(Points + 1)
    BY <1>6, ChoicesAssumption
  <2>2. /\ w # InternalError => code["int"] \in {0, 1, 2, 7}
        /\ w # InternalError /\ contrib' # "peg" => w.points <= Points
        /\ w # InternalError => w.points >= 0 /\ (w.points > 0 => w.passed)
    BY <2>1, Parsed
  <2>3. v = IF w = InternalError \/ Flags = {} THEN w ELSE Verdict(FALSE, 0)
    BY <1>6 DEF CheckBridged
  <2> HIDE DEF v, w
  <2>4. CASE w = InternalError
    BY <1>1, <1>4, <2>3, <2>4 DEF VerdictEarned
  <2>5. CASE w # InternalError
    <3>1. /\ v.points > 0 => Flags = {} /\ v.passed
          /\ contrib' # "peg" => v.points <= Points
      BY <2>2, <2>3, <2>5 DEF Verdict
    <3>2. code["int"] \in {0, 1, 2, 7}
      BY <2>2, <2>5
    <3>3. v # InternalError => /\ outcome'.points = v.points /\ Flags \subseteq outcome'.flags
                               /\ v.points > 0 => outcome'.flags = {}
      BY <1>4, <3>1
    <3>4. v = InternalError => outcome' = Internal
      BY <1>4
    <3> QED
      BY <1>1, <1>2, <1>3, <1>5, <3>1, <3>2, <3>3, <3>4 DEF VerdictEarned, Killed, Both
  <2> QED  BY <2>4, <2>5
<1>7. CASE grader # "bridged"
  <2>1. v = IF Flags # {} THEN Verdict(FALSE, 0) ELSE Verdict(check, IF check THEN Points ELSE 0)
    BY <1>7 DEF CheckInteractive
  <2>2. /\ v.points > 0 => Flags = {} /\ v.passed
        /\ v.points <= Points
    BY <2>1 DEF Verdict
  <2>3. v # InternalError => /\ outcome'.points = v.points /\ Flags \subseteq outcome'.flags
                             /\ v.points > 0 => outcome'.flags = {}
    BY <1>4, <2>2
  <2>4. v = InternalError => outcome' = Internal
    BY <1>4
  <2>5. ~Traced("int")
    BY <1>7 DEF Traced
  <2> HIDE DEF v
  <2> QED
    BY <1>1, <1>2, <1>3, <1>5, <1>7, <2>2, <2>3, <2>4, <2>5 DEF VerdictEarned, Killed, Both, Traced
<1> QED  BY <1>6, <1>7

LEMMA VerdictStep == ASSUME IInv, Next PROVE VerdictEarned'
<1>1. CASE Grade
  BY <1>1, GradeEarned
<1>2. CASE PrepareFails
  BY <1>2 DEF PrepareFails, VerdictEarned
<1>3. CASE pc' # "done"
  BY <1>3 DEF VerdictEarned
<1>4. ASSUME pc' = "done", ~Grade, ~PrepareFails PROVE VerdictEarned'
  <2>1. pc = "done" /\ UNCHANGED <<grader, contrib, outcome>>
    BY <1>4 DEF Next, Grading, LaunchSubmission, LaunchInteractor, WaitSubmission, Abort, Interact,
       Tick, Side, Write, Read, WriteErr, Exit, Shock, judge
  <2>2. CASE outcome = Internal
    BY <2>1, <2>2 DEF VerdictEarned
  <2>3. CASE outcome # Internal
    <3>1. st["sub"] = "dead" /\ st["int"] = "dead"
      BY <2>1, <2>3 DEF IInv, Settled
    <3>2. FALSE
      BY <1>4, <2>1, <3>1
         DEF Next, Grading, LaunchSubmission, LaunchInteractor, WaitSubmission, Abort, Interact, Tick,
             Side, Write, Read, WriteErr, Exit, Shock, OverLimit, Lives, Both
    <3> QED  BY <3>2
  <2> QED  BY <2>2, <2>3
<1> QED  BY <1>1, <1>2, <1>3, <1>4

LEMMA Inductive == IInv /\ [Next]_vars => IInv'
<1>1. ASSUME IInv, Next PROVE IInv'
  BY <1>1, TypedStep, ClocksStep, PlacesStep, VerdictStep DEF IInv
<1>2. ASSUME IInv, UNCHANGED vars PROVE IInv'
  <2>1. Typed' /\ Started' /\ Settled' /\ Aborts' /\ Clocks'
    BY <1>2 DEF vars, judge, procs, IInv, Typed, Started, Settled, Aborts, Clocks, Lives
  <2>2. VerdictEarned'
    <3>1. Flags' = Flags
      BY <1>2 DEF vars, procs, Flags
    <3> QED  BY <1>2, <3>1 DEF vars, judge, procs, IInv, VerdictEarned, Traced
  <2> QED  BY <2>1, <2>2 DEF IInv
<1> QED  BY <1>1, <1>2

LEMMA Invariance == Spec => []IInv
BY InitIInv, Inductive, PTL DEF Spec

\* Points are earned by a submission within its limits that the interactor accepted;
\* a failed interactor is an internal error, and no flag of the submission is lost.
THEOREM VerdictsAreEarned == Spec => []VerdictEarned
<1>1. IInv => VerdictEarned
  BY DEF IInv
<1> QED  BY <1>1, Invariance, PTL

\* Where the submission's wall limit comes before the interactor's, an interactor
\* that only waited is not killed before the submission: the factor that makes the
\* comment in bridged.py true.
THEOREM WaitingIsSpared ==
    ASSUME WallFactor * TL < 3 * (TL + Extra)
    PROVE  Spec => WaitingInteractorSpared
<1>1. IInv /\ [Next]_vars =>
        [Shock("int") /\ cpu["int"] <= Limit("int") => st["sub"] = "dead"]_vars
  <2> SUFFICES ASSUME IInv, Shock("int"), cpu["int"] <= Limit("int"), st["sub"] # "dead"
               PROVE  FALSE
    OBVIOUS
  <2>1. Lives("int") /\ wall["int"] > WallLimit("int")
    BY Limits DEF Shock, OverLimit, IInv, Typed, Both
  <2>2. Lives("sub")
    BY <2>1 DEF IInv, Typed, Started, States, Lives, Both, Settled
  <2>3. wall["int"] <= wall["sub"] /\ wall["sub"] <= WallLimit("sub") + 1
    BY <2>2 DEF IInv, Clocks, Both
  <2>4. WallLimit("sub") < WallLimit("int")
    BY Limits
  <2>5. wall["int"] \in Nat /\ wall["sub"] \in Nat /\ WallLimit("sub") \in Nat /\ WallLimit("int") \in Nat
    BY Limits DEF IInv, Typed, Both
  <2> QED  BY <2>1, <2>3, <2>4, <2>5
<1> QED  BY <1>1, Invariance, PTL DEF Spec, WaitingInteractorSpared
=============================================================================
