---------------------------- MODULE EojServerProofs ----------------------------
(***************************************************************************)
(* The freshness of the EOJ server's catalogue and what it shows, for any  *)
(* number of threads and any interleaving of their assignments.            *)
(*                                                                         *)
(* The two globals may belong to different refreshes, but the catalogue is *)
(* never older than the recorded time by more than one discovery: whoever  *)
(* sets the time has seen a catalogue stored during its own refresh, and   *)
(* what is stored is at most one discovery old.                            *)
(***************************************************************************)
EXTENDS EojServer, TLAPS

\* What is found is a function; TypeOK says the rest.
Typed == TypeOK /\ found \in [Threads -> Catalogs]

\* The global time may be another refresh's, but never too late by more than Probe.
TimeTells == catalog = Never \/ catalog.age <= stamp + Probe

\* A thread that discovered holds what is no older than its refresh; one that is to
\* set the time finds a catalogue that was stored meanwhile.
RefreshTells == \A t \in Threads :
    /\ pc[t] = "store" => found[t].age <= began[t]
    /\ pc[t] = "stamp" => catalog.age <= began[t] + Probe

\* What a thread is about to return.
AnswerTells == \A t \in Threads :
    pc[t] = "answer" => failed \/ catalog.age <= MaxAge + Probe

IInv == Typed /\ TimeTells /\ RefreshTells /\ AnswerTells

USE TimeAssumption, ThreadsAssumption

LEMMA NeverAge ==
    /\ Never.age = Old /\ Old \in Nat /\ Old > MaxAge + Probe
    /\ Empty.age = 0 /\ Empty \in Catalogs /\ Never \in Catalogs
BY DEF Never, Old, Empty, Catalogs

LEMMA CatalogAge == ASSUME NEW c \in Catalogs PROVE c.age \in 0..Old
BY NeverAge DEF Catalogs

LEMMA Aging ==
    ASSUME NEW c \in Catalogs
    PROVE  /\ Older(c) \in Catalogs
           /\ Older(c).age <= c.age + 1
           /\ c = Never => Older(c) = Never
<1>1. CASE c = Never
  BY <1>1, NeverAge, CatalogAge DEF Older
<1>2. CASE c # Never
  <2>1. c \in [steps : SUBSET (Steps \cup UNION Boots), age : 0..Old]
    BY <1>2 DEF Catalogs
  <2>2. Older(c) = [c EXCEPT !.age = IF c.age < Old THEN c.age + 1 ELSE Old]
    BY <1>2 DEF Older
  <2> QED  BY <1>2, <2>1, <2>2, NeverAge DEF Catalogs
<1> QED  BY <1>1, <1>2

LEMMA InitIInv == Init => IInv
<1> SUFFICES ASSUME Init PROVE IInv
  OBVIOUS
<1>1. stamp \in 0..Old /\ Never \in Catalogs /\ 0 \in 0..Probe
  BY NeverAge DEF Init
<1>2. done \subseteq Steps \cup UNION Boots
  BY DEF Init
<1>3. Typed
  BY <1>1, <1>2 DEF Init, Typed, TypeOK, Places
<1> QED  BY <1>3 DEF Init, IInv, TimeTells, RefreshTells, AnswerTells

LEMMA TypedStep == IInv /\ Next => Typed'
<1> SUFFICES ASSUME IInv, Next PROVE Typed'
  OBVIOUS
<1> USE DEF IInv, Typed, TypeOK
<1>1. ASSUME NEW s \in Steps, Install(s) PROVE Typed'
  BY <1>1 DEF Install
<1>2. ASSUME NEW t \in Threads, Look(t) PROVE Typed'
  BY <1>2 DEF Look, Goto, Places
<1>3. ASSUME NEW t \in Threads, Discovered(t) PROVE Typed'
  <2>1. [steps |-> done, age |-> 0] \in Catalogs
    BY NeverAge DEF Catalogs
  <2> QED  BY <1>3, <2>1 DEF Discovered, Goto, Places
<1>4. ASSUME NEW t \in Threads, DiscoveryFails(t) PROVE Typed'
  BY <1>4, NeverAge DEF DiscoveryFails, Goto, Places
<1>5. ASSUME NEW t \in Threads, StoreCatalog(t) PROVE Typed'
  BY <1>5, NeverAge DEF StoreCatalog, Goto, Places
<1>6. ASSUME NEW t \in Threads, StoreTime(t) PROVE Typed'
  BY <1>6, NeverAge DEF StoreTime, Goto, Places
<1>7. ASSUME NEW t \in Threads, Answer(t) PROVE Typed'
  BY <1>7 DEF Answer, Goto, Places
<1>8. CASE Tick
  <2>1. /\ stamp' \in 0..Old /\ began' \in [Threads -> 0..Probe]
    BY <1>8, NeverAge DEF Tick
  <2>2. /\ catalog' \in Catalogs /\ shown' \in Catalogs
        /\ found' \in [Threads -> Catalogs]
    BY <1>8, Aging DEF Tick
  <2> QED  BY <1>8, <2>1, <2>2 DEF Tick
<1> QED  BY <1>1, <1>2, <1>3, <1>4, <1>5, <1>6, <1>7, <1>8 DEF Next, Handler

LEMMA AgesStep == IInv /\ Next => TimeTells' /\ RefreshTells' /\ AnswerTells'
<1> SUFFICES ASSUME IInv, Next PROVE TimeTells' /\ RefreshTells' /\ AnswerTells'
  OBVIOUS
<1>0. /\ stamp \in 0..Old /\ pc \in [Threads -> Places] /\ began \in [Threads -> 0..Probe]
      /\ catalog \in Catalogs /\ found \in [Threads -> Catalogs] /\ catalog.age \in 0..Old
      /\ \A t \in Threads : found[t].age \in 0..Old
  BY CatalogAge DEF IInv, Typed, TypeOK
<1> USE <1>0, NeverAge DEF IInv, TimeTells, RefreshTells, AnswerTells
<1>1. ASSUME NEW s \in Steps, Install(s) PROVE TimeTells' /\ RefreshTells' /\ AnswerTells'
  BY <1>1 DEF Install
<1>2. ASSUME NEW t \in Threads, Look(t) PROVE TimeTells' /\ RefreshTells' /\ AnswerTells'
  BY <1>2 DEF Look, Goto, Expired
<1>3. ASSUME NEW t \in Threads, Discovered(t)
      PROVE  TimeTells' /\ RefreshTells' /\ AnswerTells'
  BY <1>3 DEF Discovered, Goto
<1>4. ASSUME NEW t \in Threads, DiscoveryFails(t)
      PROVE  TimeTells' /\ RefreshTells' /\ AnswerTells'
  BY <1>4 DEF DiscoveryFails, Goto
<1>5. ASSUME NEW t \in Threads, StoreCatalog(t)
      PROVE  TimeTells' /\ RefreshTells' /\ AnswerTells'
  BY <1>5 DEF StoreCatalog, Goto
<1>6. ASSUME NEW t \in Threads, StoreTime(t)
      PROVE  TimeTells' /\ RefreshTells' /\ AnswerTells'
  BY <1>6 DEF StoreTime, Goto
<1>7. ASSUME NEW t \in Threads, Answer(t) PROVE TimeTells' /\ RefreshTells' /\ AnswerTells'
  BY <1>7 DEF Answer, Goto
<1>8. CASE Tick
  <2>1. /\ catalog' \in Catalogs /\ catalog'.age \in 0..Old /\ catalog'.age <= catalog.age + 1
        /\ catalog = Never => catalog' = Never
        /\ \A t \in Threads : found'[t].age <= found[t].age + 1 /\ found'[t].age \in 0..Old
    BY <1>8, Aging, CatalogAge DEF Tick
  <2> QED  BY <1>8, <2>1 DEF Tick
<1> QED  BY <1>1, <1>2, <1>3, <1>4, <1>5, <1>6, <1>7, <1>8 DEF Next, Handler

LEMMA Inductive == IInv /\ [Next]_vars => IInv'
<1>1. CASE Next
  BY <1>1, TypedStep, AgesStep DEF IInv
<1>2. CASE UNCHANGED vars
  BY <1>2 DEF vars, IInv, Typed, TypeOK, TimeTells, RefreshTells, AnswerTells
<1> QED  BY <1>1, <1>2

LEMMA Invariance == Spec => []IInv
BY InitIInv, Inductive, PTL DEF Spec

\* Every variable of the server has its type.
THEOREM ServerTypeCorrect == Spec => []TypeOK
<1>1. IInv => TypeOK
  BY DEF IInv, Typed
<1> QED  BY <1>1, Invariance, PTL

\* However many threads refresh the catalogue and however they interleave, no answer
\* shows a machine older than the limit and one discovery unless discoveries fail.
THEOREM AnswersAreFresh == Spec => AnswersFresh
<1>1. IInv /\ [Next]_vars => [\A t \in Threads : Answer(t) => failed \/ shown'.age <= MaxAge + Probe]_vars
  BY DEF IInv, AnswerTells, Answer
<1> QED  BY <1>1, Invariance, PTL DEF Spec, AnswersFresh
-----------------------------------------------------------------------------
\* What a catalogue shows was found: nothing is in it that the machine lacks.
OnMachine(c) == c = Never \/ c.steps = {} \/ (c.steps \in Machines /\ c.steps \subseteq done)

\* Every catalogue, wherever it is, is one of today's machine or of an earlier one.
Shows ==
    /\ done \in Machines
    /\ OnMachine(catalog) /\ OnMachine(shown)
    /\ \A t \in Threads : OnMachine(found[t])

LEMMA OlderShows ==
    ASSUME NEW c \in Catalogs
    PROVE  c # Never => Older(c).steps = c.steps
<1>1. c # Never => c \in [steps : SUBSET (Steps \cup UNION Boots), age : 0..Old]
  BY DEF Catalogs
<1> QED  BY <1>1 DEF Older

LEMMA MachineGrows ==
    ASSUME done \in Machines, NEW s \in Steps, done' \in {done, done \cup {s}}
    PROVE  done' \in Machines /\ done \subseteq done'
<1>1. PICK b \in Boots, r \in SUBSET Steps : done = b \cup r
  BY DEF Machines
<1>2. done \cup {s} = b \cup (r \cup {s}) /\ r \cup {s} \in SUBSET Steps
  BY <1>1
<1>3. \E a \in Boots, q \in SUBSET Steps : done \cup {s} = a \cup q
  BY <1>2
<1>4. done \cup {s} \in Machines
  BY <1>3 DEF Machines
<1> QED  BY <1>4

LEMMA ShowsInit == Init => Shows
<1> SUFFICES ASSUME Init PROVE Shows
  OBVIOUS
<1>1. \E b \in Boots, r \in SUBSET Steps : done = b \cup r
  <2>1. done \in Boots /\ done = done \cup {} /\ {} \in SUBSET Steps
    BY DEF Init
  <2> QED  BY <2>1
<1>2. done \in Machines
  BY <1>1 DEF Machines
<1> QED  BY <1>2 DEF Init, Shows, OnMachine

LEMMA ShowsStep == Typed /\ Shows /\ Next => Shows'
<1> SUFFICES ASSUME Typed, Shows, Next PROVE Shows'
  OBVIOUS
<1> USE DEF Shows, OnMachine
<1>0. found \in [Threads -> Catalogs] /\ catalog \in Catalogs /\ shown \in Catalogs
  BY DEF Typed, TypeOK
<1>1. ASSUME NEW s \in Steps, Install(s) PROVE Shows'
  <2>1. done' \in Machines /\ done \subseteq done'
    BY <1>1, MachineGrows DEF Install
  <2> QED  BY <1>1, <2>1 DEF Install
<1>2. ASSUME NEW t \in Threads, Look(t) PROVE Shows'
  BY <1>2 DEF Look
<1>3. ASSUME NEW t \in Threads, Discovered(t) PROVE Shows'
  BY <1>0, <1>3 DEF Discovered
<1>4. ASSUME NEW t \in Threads, DiscoveryFails(t) PROVE Shows'
  BY <1>4 DEF DiscoveryFails, Empty
<1>5. ASSUME NEW t \in Threads, StoreCatalog(t) PROVE Shows'
  BY <1>0, <1>5 DEF StoreCatalog
<1>6. ASSUME NEW t \in Threads, StoreTime(t) PROVE Shows'
  BY <1>6 DEF StoreTime
<1>7. ASSUME NEW t \in Threads, Answer(t) PROVE Shows'
  BY <1>7 DEF Answer
<1>8. CASE Tick
  <2>1. ASSUME NEW c \in Catalogs, OnMachine(c)
        PROVE  Older(c) = Never \/ Older(c).steps = {}
                 \/ (Older(c).steps \in Machines /\ Older(c).steps \subseteq done)
    BY <2>1, OlderShows, Aging
  <2>2. /\ OnMachine(catalog)' /\ OnMachine(shown)' /\ done' = done
        /\ \A t \in Threads : OnMachine(found[t])'
    BY <1>0, <1>8, <2>1 DEF Tick
  <2> QED  BY <2>2
<1> QED  BY <1>1, <1>2, <1>3, <1>4, <1>5, <1>6, <1>7, <1>8 DEF Next, Handler

LEMMA ShowsInvariance == Spec => []Shows
<1>1. IInv => Typed
  BY DEF IInv
<1>2. Typed /\ Shows /\ [Next]_vars => Shows'
  <2>1. CASE UNCHANGED vars
    BY <2>1 DEF vars, Shows, OnMachine
  <2> QED  BY <2>1, ShowsStep
<1> QED  BY <1>1, <1>2, ShowsInit, Invariance, PTL DEF Spec

\* No client is shown what the machine does not have: whichever threads refreshed and
\* in whatever order they stored, a catalogue comes from the machine of today or from
\* the machine before some of its steps.
THEOREM ShownIsInstalled ==
    Spec => [](shown = Never \/ shown.steps \subseteq done)
<1>1. Shows => shown = Never \/ shown.steps \subseteq done
  BY DEF Shows, OnMachine
<1> QED  BY <1>1, ShowsInvariance, PTL
=============================================================================
