--------------------------- MODULE GradeCasesProofs ---------------------------
(***************************************************************************)
(* The short-circuiting of _grade_cases for every problem and every        *)
(* verdict: its flags compute the rule SkipRule states, and nothing is     *)
(* graded before what it waits for has passed.                             *)
(*                                                                         *)
(* The rule looks back at all the results, the code only at four flags, so *)
(* the invariant says what each flag remembers of the results.  The cases  *)
(* of a batch stand together, hence between two batches no batch is half   *)
(* graded, and within one only its own.                                    *)
(***************************************************************************)
EXTENDS GradeCases, FiniteSetTheorems, SequenceTheorems, TLAPS

(***************************************************************************)
(* What problem.cases() returns.                                           *)
(***************************************************************************)
ResolvedItem ==
    [batched : BOOLEAN, zeros : Seq(BOOLEAN), dependencies : SUBSET (Nat \ {0}),
     number : Nat, pretest : BOOLEAN]

Proper(items) ==
    /\ items \in Seq(ResolvedItem)
    /\ \A k \in DOMAIN items :
          /\ ~items[k].batched => items[k].number = 0 /\ items[k].dependencies = {}
          /\ items[k].pretest /\ ~items[k].batched => items[k].zeros = <<TRUE>>
    /\ \A k, m \in DOMAIN items : items[k].pretest /\ ~items[m].pretest => k < m

\* Without batches among the pretests a batch has the same number in problem.cases() and
\* in _grade_cases.
NumbersAgree(items) ==
    (\A k \in DOMAIN items : ~(items[k].pretest /\ items[k].batched)) =>
        \A k \in DOMAIN items : items[k].batched => items[k].number = Number(items, 0, k)

LayoutProper == Proper(layout) /\ NumbersAgree(layout)

(***************************************************************************)
(* What the flattening leaves.                                             *)
(***************************************************************************)
CaseOf == [batch : Nat, zero : BOOLEAN, item : Nat]

FlatType == flat \in 0..Len(layout) /\ cases \in Seq(CaseOf) /\ dependencies \in Seq(SUBSET (Nat \ {0}))

ItemsKept == \A j \in DOMAIN cases :
    LET c == cases[j] IN
    /\ c.item \in 1..flat
    /\ layout[c.item].batched => /\ c.batch \in DOMAIN dependencies
                                 /\ c.batch = Number(layout, 0, c.item)
                                 /\ dependencies[c.batch] = layout[c.item].dependencies
    /\ ~layout[c.item].batched => c.batch = 0
    /\ layout[c.item].pretest /\ ~layout[c.item].batched => c.zero

InItemOrder == \A j, m \in DOMAIN cases : j <= m => cases[j].item <= cases[m].item

OneItemPerBatch == \A j, m \in DOMAIN cases :
    cases[j].batch = cases[m].batch /\ cases[j].batch # 0 => cases[j].item = cases[m].item

Flat ==
    /\ FlatType /\ ItemsKept /\ InItemOrder /\ OneItemPerBatch
    /\ Len(dependencies) = Number(layout, 0, flat)

(***************************************************************************)
(* What the flags remember.                                                *)
(***************************************************************************)
GradeType ==
    /\ requested \in BOOLEAN /\ enabled \in BOOLEAN /\ skipping \in BOOLEAN
    /\ passed \subseteq Nat /\ batch \in {0} \cup DOMAIN dependencies
    /\ results \in Seq({"AC", "WA", "SC"}) /\ Len(results) <= Len(cases)

NotBegun == ~Ready => results = <<>> /\ batch = 0 /\ passed = {} /\ ~skipping

\* Only the batch being graded is graded in part.
OneSplit == \A j \in DOMAIN results, m \in DOMAIN cases :
    m > Len(results) /\ cases[j].batch = cases[m].batch /\ cases[j].batch # 0 => cases[j].batch = batch

\* The batch being graded is the one of the next case or of the last.
AtBatch == batch # 0 =>
    \/ More /\ cases[next].batch = batch
    \/ Len(results) > 0 /\ cases[Len(results)].batch = batch

PassedRight == \A d \in Nat : d \in passed <=> d # batch /\ d # 0 /\ PassedBefore(d, next)

EnabledRight == enabled <=> OnAfter(Len(results))

\* Something has been short-circuiting everything since.
Sticky ==
    \/ \E j \in DOMAIN results : Unmet(j) /\ OnAfter(j)
    \/ \E j \in Failed : OnAfter(j)

DoneHere == {j \in DOMAIN results : cases[j].batch = batch}

SkippingHere == skipping <=> Sticky \/ MissesDependency(batch) \/ DoneHere \cap Failed # {}

InBatch == batch # 0 =>
    /\ SkippingHere
    /\ \A j \in DoneHere : Unmet(j) <=> MissesDependency(batch)
    /\ \A j \in DoneHere \cap Failed : \A m \in Failed : m <= j
    /\ DoneHere # {} /\ skipping => \E j \in DoneHere : results[j] # "AC"
    /\ ~skipping => \A j \in DoneHere : results[j] = "AC"

BetweenBatches == batch = 0 => (skipping <=> Sticky)

Flags ==
    /\ GradeType /\ NotBegun /\ OneSplit /\ AtBatch
    /\ PassedRight /\ EnabledRight /\ InBatch /\ BetweenBatches

IInv == LayoutProper /\ Flat /\ Flags /\ SkipRule
-----------------------------------------------------------------------------
(***************************************************************************)
(* The layout.                                                             *)
(***************************************************************************)
\* The batches up to an item are counted one by one.
LEMMA NumberSteps ==
    ASSUME NEW items, NEW n \in Nat, DOMAIN items = 1..n, NEW c \in Nat,
           \A k \in 1..n : items[k].batched \in BOOLEAN
    PROVE  /\ Number(items, c, 0) = c
           /\ \A k \in 0..n : Number(items, c, k) \in Nat /\ Number(items, c, k) >= c
           /\ \A k \in 1..n : Number(items, c, k) =
                 Number(items, c, k - 1) + IF items[k].batched THEN 1 ELSE 0
<1> DEFINE B(k) == {j \in Batches(items) : j <= k}
<1>1. ASSUME NEW k \in 0..n PROVE IsFiniteSet(B(k)) /\ Cardinality(B(k)) \in Nat
  <2>1. B(k) \subseteq 1..n  BY DEF Batches
  <2>2. IsFiniteSet(1..n)  BY FS_Interval
  <2> QED  BY <2>1, <2>2, FS_Subset, FS_CardinalityType
<1>2. B(0) = {}  BY DEF Batches
<1>3. ASSUME NEW k \in 1..n
      PROVE  Cardinality(B(k)) = Cardinality(B(k - 1)) + IF items[k].batched THEN 1 ELSE 0
  <2>1. k \notin B(k - 1)  OBVIOUS
  <2>2. CASE items[k].batched
    <3>1. B(k) = B(k - 1) \cup {k}  BY <2>2 DEF Batches
    <3>2. k - 1 \in 0..n  OBVIOUS
    <3> HIDE DEF B
    <3> QED  BY <1>1, <2>1, <2>2, <3>1, <3>2, FS_AddElement
  <2>3. CASE ~items[k].batched
    <3>1. B(k) = B(k - 1)  BY <2>3 DEF Batches
    <3>2. k - 1 \in 0..n  OBVIOUS
    <3> HIDE DEF B
    <3> QED  BY <1>1, <2>3, <3>1, <3>2
  <2> QED  BY <2>2, <2>3
<1>4. \A k : Number(items, c, k) = c + Cardinality(B(k))  BY DEF Number
<1>5. Cardinality(B(0)) = 0  BY <1>2, FS_EmptySet
<1> HIDE DEF B
<1>6. \A k \in 0..n : Number(items, c, k) \in Nat /\ Number(items, c, k) >= c  BY <1>1, <1>4
<1>7. Number(items, c, 0) = c  BY <1>4, <1>5
<1>8. ASSUME NEW k \in 1..n
      PROVE  Number(items, c, k) = Number(items, c, k - 1) + IF items[k].batched THEN 1 ELSE 0
  <2>1. k \in 0..n /\ k - 1 \in 0..n  OBVIOUS
  <2> QED  BY <1>1, <1>3, <1>4, <2>1
<1> QED  BY <1>6, <1>7, <1>8

\* Items in front that are no batches do not count.
Behind(all, l, items, n) ==
    /\ l \in Nat /\ n \in Nat /\ DOMAIN items = 1..n /\ DOMAIN all = 1..(l + n)
    /\ \A k \in 1..l : ~all[k].batched
    /\ \A k \in 1..n : all[l + k].batched = items[k].batched

LEMMA NumberShifts ==
    ASSUME NEW all, NEW l, NEW items, NEW n, Behind(all, l, items, n), NEW i \in 1..n
    PROVE  Number(all, 0, l + i) = Number(items, 0, i)
<1>0. /\ l \in Nat /\ n \in Nat /\ DOMAIN items = 1..n /\ DOMAIN all = 1..(l + n)
      /\ \A k \in 1..l : ~all[k].batched
      /\ \A k \in 1..n : all[l + k].batched = items[k].batched
  BY DEF Behind
<1> USE <1>0
<1> DEFINE S == {j \in Batches(items) : j <= i}
           T == {j \in Batches(all) : j <= l + i}
           f == [j \in S |-> l + j]
<1>1. IsFiniteSet(S)
  <2>1. S \subseteq 1..n  BY DEF Batches
  <2>2. IsFiniteSet(1..n)  BY FS_Interval
  <2> QED  BY <2>1, <2>2, FS_Subset
<1>2. f \in Bijection(S, T)
  <2>1. ASSUME NEW j \in S PROVE l + j \in T
    <3>1. j \in 1..n /\ items[j].batched /\ j <= i  BY DEF Batches
    <3>2. l + j \in 1..(l + n) /\ all[l + j].batched /\ l + j <= l + i  BY <3>1
    <3> QED  BY <3>2 DEF Batches
  <2>2. ASSUME NEW t \in T PROVE \E j \in S : l + j = t
    <3>1. t \in 1..(l + n) /\ all[t].batched /\ t <= l + i  BY DEF Batches
    <3>2. t - l \in 1..n /\ t - l <= i /\ l + (t - l) = t  BY <3>1
    <3>3. items[t - l].batched  BY <3>1, <3>2
    <3> QED  BY <3>2, <3>3 DEF Batches
  <2>3. \A j, k \in S : l + j = l + k => j = k  BY DEF Batches
  <2> HIDE DEF S, T
  <2> QED  BY <2>1, <2>2, <2>3 DEF Bijection, Injection, Surjection, IsInjective
<1>3. Cardinality(T) = Cardinality(S)
  <2>1. ExistsBijection(S, T)  BY <1>2 DEF ExistsBijection
  <2> QED  BY <1>1, <2>1, FS_Bijection
<1> QED  BY <1>3 DEF Number

LEMMA ResolveProper ==
    ASSUME NEW items \in Seq(Items), \A i \in DOMAIN items : ItemOK(items[i]), NEW c \in Nat
    PROVE  LET r == Resolve(items, c) IN
           /\ r \in Seq(ResolvedItem) /\ Len(r) = Len(items)
           /\ \A k \in DOMAIN r :
                 /\ r[k].batched = items[k].batched /\ r[k].zeros = items[k].zeros
                 /\ r[k].number = IF items[k].batched THEN Number(items, c, k) ELSE 0
                 /\ ~r[k].batched => r[k].dependencies = {}
                 /\ ~r[k].pretest
<1> DEFINE r == Resolve(items, c)
<1>0. DOMAIN items = 1..Len(items) /\ Len(items) \in Nat  OBVIOUS
<1>1. ASSUME NEW k \in 1..Len(items)
      PROVE  /\ items[k].batched \in BOOLEAN /\ items[k].zeros \in Seq(BOOLEAN)
             /\ items[k].dependencies \in SUBSET (Nat \ {0})
  <2>1. items[k] \in Items  BY <1>0
  <2> QED  BY <2>1 DEF Items
<1>2. \A k \in 1..Len(items) : Number(items, c, k) \in Nat
  <2>1. \A k \in 1..Len(items) : items[k].batched \in BOOLEAN  BY <1>1
  <2>2. \A k \in 0..Len(items) : Number(items, c, k) \in Nat  BY <1>0, <2>1, NumberSteps
  <2> QED  BY <1>0, <2>2
<1>3. \A k \in 1..Len(items) :
        r[k] = [batched |-> items[k].batched, zeros |-> items[k].zeros,
                dependencies |-> items[k].dependencies,
                number |-> IF items[k].batched THEN Number(items, c, k) ELSE 0,
                pretest |-> FALSE]
  BY <1>0 DEF Resolve
<1>4. DOMAIN r = 1..Len(items) /\ r = [k \in 1..Len(items) |-> r[k]]  BY <1>0 DEF Resolve
<1>5. \A k \in 1..Len(items) : r[k] \in ResolvedItem
  <2> SUFFICES ASSUME NEW k \in 1..Len(items) PROVE r[k] \in ResolvedItem  OBVIOUS
  <2> DEFINE num == IF items[k].batched THEN Number(items, c, k) ELSE 0
  <2>1. num \in Nat  BY <1>2
  <2>2. r[k] = [batched |-> items[k].batched, zeros |-> items[k].zeros,
                dependencies |-> items[k].dependencies, number |-> num, pretest |-> FALSE]
    BY <1>3
  <2> HIDE DEF r, num
  <2> QED  BY <1>1, <2>1, <2>2 DEF ResolvedItem
<1>6. r \in Seq(ResolvedItem) /\ Len(r) = Len(items)
  <2> HIDE DEF r
  <2>1. Len(items) \in Nat  OBVIOUS
  <2>2. [k \in 1..Len(items) |-> r[k]] \in Seq(ResolvedItem)  BY <1>5, <2>1
  <2> QED  BY <1>4, <2>1, <2>2
<1>7. ASSUME NEW k \in DOMAIN r
      PROVE  /\ r[k].batched = items[k].batched /\ r[k].zeros = items[k].zeros
             /\ r[k].number = IF items[k].batched THEN Number(items, c, k) ELSE 0
             /\ ~r[k].batched => r[k].dependencies = {}
             /\ ~r[k].pretest
  <2>1. k \in 1..Len(items) /\ ItemOK(items[k])  BY <1>4
  <2>2. r[k] = [batched |-> items[k].batched, zeros |-> items[k].zeros,
                dependencies |-> items[k].dependencies,
                number |-> IF items[k].batched THEN Number(items, c, k) ELSE 0,
                pretest |-> FALSE]
    BY <1>3, <2>1
  <2> HIDE DEF r
  <2>3. r[k].batched = items[k].batched /\ r[k].zeros = items[k].zeros /\ r[k].pretest = FALSE
        /\ r[k].dependencies = items[k].dependencies
    BY <2>2
  <2>4. r[k].number = IF items[k].batched THEN Number(items, c, k) ELSE 0  BY <2>2
  <2>5. ~items[k].batched => items[k].dependencies = {}  BY <2>1 DEF ItemOK
  <2> QED  BY <2>3, <2>4, <2>5
<1> QED  BY <1>6, <1>7

LEMMA ForcePointsProper ==
    ASSUME NEW r \in Seq(ResolvedItem)
    PROVE  LET f == ForcePoints(r) IN
           /\ f \in Seq(ResolvedItem) /\ Len(f) = Len(r)
           /\ \A k \in DOMAIN f :
                 /\ f[k].batched = r[k].batched /\ f[k].number = r[k].number
                 /\ f[k].dependencies = r[k].dependencies /\ f[k].pretest
                 /\ ~f[k].batched => f[k].zeros = <<TRUE>>
<1> DEFINE f == ForcePoints(r)
<1>0. DOMAIN r = 1..Len(r)  OBVIOUS
<1>1. DOMAIN f = 1..Len(r) /\ f = [k \in 1..Len(r) |-> f[k]] /\ Len(r) \in Nat  BY DEF ForcePoints
<1>2. ASSUME NEW k \in 1..Len(r)
      PROVE  /\ f[k] = [r[k] EXCEPT !.zeros = IF r[k].batched THEN r[k].zeros ELSE <<TRUE>>, !.pretest = TRUE]
             /\ r[k] \in ResolvedItem
  BY <1>0 DEF ForcePoints
<1>3. ASSUME NEW k \in 1..Len(r)
      PROVE  /\ f[k] \in ResolvedItem
             /\ f[k].batched = r[k].batched /\ f[k].number = r[k].number
             /\ f[k].dependencies = r[k].dependencies /\ f[k].pretest
             /\ ~f[k].batched => f[k].zeros = <<TRUE>>
  <2> HIDE DEF f
  <2>1. <<TRUE>> \in Seq(BOOLEAN)  OBVIOUS
  <2> QED  BY <1>2, <2>1, ZenonT(40) DEF ResolvedItem
<1> HIDE DEF f
<1>4. [k \in 1..Len(r) |-> f[k]] \in Seq(ResolvedItem)
  <2>1. \A k \in 1..Len(r) : f[k] \in ResolvedItem  BY <1>3
  <2> QED  BY <1>1, <2>1
<1>5. f \in Seq(ResolvedItem) /\ Len(f) = Len(r)  BY <1>1, <1>4
<1> QED  BY <1>1, <1>3, <1>5 DEF f

LEMMA CasesOfProper ==
    ASSUME NEW p \in Problems
    PROVE  Proper(CasesOf(p)) /\ NumbersAgree(CasesOf(p))
<1>1. /\ p.tests \in Seq(Items) /\ \A i \in DOMAIN p.tests : ItemOK(p.tests[i])
      /\ p.pretests \in Seq(Items) /\ \A i \in DOMAIN p.pretests : ItemOK(p.pretests[i])
  BY ProblemsAssumption
<1>2. CASE p.pretestsOnly /\ p.pretests # <<>>
  <2> DEFINE r == Resolve(p.pretests, 0)
  <2>1. CasesOf(p) = r  BY <1>2 DEF CasesOf
  <2>2. /\ r \in Seq(ResolvedItem) /\ Len(r) = Len(p.pretests)
        /\ \A k \in DOMAIN r :
              /\ r[k].batched = p.pretests[k].batched
              /\ r[k].number = IF p.pretests[k].batched THEN Number(p.pretests, 0, k) ELSE 0
              /\ ~r[k].batched => r[k].dependencies = {}
              /\ ~r[k].pretest
    BY <1>1, ResolveProper
  <2> HIDE DEF r
  <2>3. DOMAIN r = DOMAIN p.pretests  BY <1>1, <2>2
  <2>4. Batches(r) = Batches(p.pretests)  BY <2>2, <2>3 DEF Batches
  <2>5. \A k : Number(r, 0, k) = Number(p.pretests, 0, k)  BY <2>4 DEF Number
  <2> QED  BY <2>1, <2>2, <2>5 DEF Proper, NumbersAgree
<1>3. CASE ~(p.pretestsOnly /\ p.pretests # <<>>)
  <2> DEFINE tests == Resolve(p.tests, 0)
             counter == Cardinality(Batches(p.tests))
             q == Resolve(p.pretests, counter)
             pre == ForcePoints(q)
             all == pre \o tests
  <2>1. CasesOf(p) = all  BY <1>3 DEF CasesOf
  <2>2. /\ tests \in Seq(ResolvedItem) /\ Len(tests) = Len(p.tests)
        /\ \A k \in DOMAIN tests :
              /\ tests[k].batched = p.tests[k].batched
              /\ tests[k].number = IF p.tests[k].batched THEN Number(p.tests, 0, k) ELSE 0
              /\ ~tests[k].batched => tests[k].dependencies = {}
              /\ ~tests[k].pretest
    BY <1>1, ResolveProper
  <2>3. counter \in Nat
    <3>1. Batches(p.tests) \subseteq 1..Len(p.tests)  BY <1>1 DEF Batches
    <3>2. IsFiniteSet(1..Len(p.tests))  BY FS_Interval, <1>1
    <3> QED  BY <3>1, <3>2, FS_Subset, FS_CardinalityType
  <2>4. /\ pre \in Seq(ResolvedItem)
        /\ \A k \in DOMAIN pre :
              /\ ~pre[k].batched => pre[k].number = 0 /\ pre[k].dependencies = {} /\ pre[k].zeros = <<TRUE>>
              /\ pre[k].pretest
    <3>1. /\ q \in Seq(ResolvedItem)
          /\ \A k \in DOMAIN q :
                /\ q[k].batched = p.pretests[k].batched
                /\ q[k].number = IF p.pretests[k].batched THEN Number(p.pretests, counter, k) ELSE 0
                /\ ~q[k].batched => q[k].dependencies = {}
      <4> HIDE DEF counter
      <4> QED  BY <1>1, <2>3, ResolveProper
    <3>2. /\ pre \in Seq(ResolvedItem) /\ Len(pre) = Len(q)
          /\ \A k \in DOMAIN pre :
                /\ pre[k].batched = q[k].batched /\ pre[k].number = q[k].number
                /\ pre[k].dependencies = q[k].dependencies /\ pre[k].pretest
                /\ ~pre[k].batched => pre[k].zeros = <<TRUE>>
      <4> HIDE DEF q
      <4>1. q \in Seq(ResolvedItem)  BY <3>1
      <4> QED  BY <4>1, ForcePointsProper
    <3> HIDE DEF q, pre
    <3>3. DOMAIN pre = DOMAIN q  BY <3>1, <3>2
    <3> QED  BY <3>1, <3>2, <3>3
  <2> HIDE DEF tests, counter, q, pre
  <2> DEFINE l == Len(pre)
             n == Len(tests)
  <2>5. l \in Nat /\ n \in Nat /\ DOMAIN all = 1..(l + n) /\ all \in Seq(ResolvedItem)
        /\ DOMAIN pre = 1..l /\ DOMAIN tests = 1..n
    <3>1. l \in Nat /\ n \in Nat /\ DOMAIN pre = 1..l /\ DOMAIN tests = 1..n  BY <2>2, <2>4
    <3>2. all \in Seq(ResolvedItem) /\ Len(all) = l + n
      <4>1. pre \in Seq(ResolvedItem) /\ tests \in Seq(ResolvedItem)  BY <2>2, <2>4
      <4> QED  BY <4>1, ConcatProperties
    <3> HIDE DEF l, n, all
    <3> QED  BY <3>1, <3>2
  <2>6. (\A k \in 1..l : all[k] = pre[k]) /\ \A k \in 1..n : all[l + k] = tests[k]
    BY <2>2, <2>4, ConcatProperties
  <2>7. \A k \in DOMAIN all : k \in 1..l \/ (k - l \in 1..n /\ l + (k - l) = k)
    BY <2>5
  <2> HIDE DEF all, l, n
  <2>8. ASSUME NEW k \in DOMAIN all PROVE (k \in 1..l /\ all[k] = pre[k]) \/ (k - l \in 1..n /\ all[k] = tests[k - l])
    BY <2>6, <2>7
  <2>9. Proper(all)
    <3>1. \A k \in DOMAIN all :
             /\ ~all[k].batched => all[k].number = 0 /\ all[k].dependencies = {}
             /\ all[k].pretest /\ ~all[k].batched => all[k].zeros = <<TRUE>>
      <4> SUFFICES ASSUME NEW k \in DOMAIN all
                   PROVE /\ ~all[k].batched => all[k].number = 0 /\ all[k].dependencies = {}
                         /\ all[k].pretest /\ ~all[k].batched => all[k].zeros = <<TRUE>>
        OBVIOUS
      <4>1. CASE k \in 1..l /\ all[k] = pre[k]  BY <4>1, <2>4, <2>5
      <4>2. CASE k - l \in 1..n /\ all[k] = tests[k - l]  BY <4>2, <2>2, <2>5
      <4> QED  BY <2>8, <4>1, <4>2
    <3>2. ASSUME NEW k \in DOMAIN all, NEW m \in DOMAIN all, all[k].pretest, ~all[m].pretest PROVE k < m
      <4>1. k \in 1..l  BY <2>8, <2>2, <2>5, <3>2
      <4>2. m - l \in 1..n /\ m \in Nat
        <5>1. ~(m \in 1..l /\ all[m] = pre[m])  BY <2>4, <2>5, <3>2
        <5>2. m \in Nat  BY <2>5
        <5> QED  BY <2>8, <5>1, <5>2
      <4> QED  BY <4>1, <4>2, <2>5
    <3> QED  BY <2>5, <3>1, <3>2 DEF Proper
  <2>10. NumbersAgree(all)
    <3> SUFFICES ASSUME \A k \in DOMAIN all : ~(all[k].pretest /\ all[k].batched),
                        NEW k \in DOMAIN all, all[k].batched
                 PROVE  all[k].number = Number(all, 0, k)
      BY DEF NumbersAgree
    <3>1. \A i \in 1..l : ~all[i].batched
      <4>1. \A i \in 1..l : i \in DOMAIN all  BY <2>5
      <4> QED  BY <2>4, <2>5, <2>6, <4>1
    <3>2. PICK i \in 1..n : k = l + i /\ all[k] = tests[i]
      <4>1. k - l \in 1..n /\ all[k] = tests[k - l] /\ k = l + (k - l)  BY <2>5, <2>7, <2>8, <3>1
      <4> QED  BY <4>1
    <3>3. DOMAIN p.tests = 1..n  BY <1>1, <2>2 DEF n
    <3>4. \A j \in 1..n : all[l + j].batched = p.tests[j].batched  BY <2>2, <2>5, <2>6
    <3>5. Number(all, 0, l + i) = Number(p.tests, 0, i)
      <4>1. l \in Nat /\ n \in Nat /\ DOMAIN all = 1..(l + n)  BY <2>5
      <4>2. Behind(all, l, p.tests, n)  BY <3>1, <3>3, <3>4, <4>1 DEF Behind
      <4> QED  BY <3>2, <4>2, NumberShifts
    <3> QED  BY <2>2, <2>5, <3>2, <3>5
  <2> QED  BY <2>1, <2>9, <2>10
<1> QED  BY <1>2, <1>3
-----------------------------------------------------------------------------
(***************************************************************************)
(* The start, and the flattening.                                          *)
(***************************************************************************)
\* Nothing has been graded.
Fresh ==
    /\ cases \in Seq(CaseOf)
    /\ requested \in BOOLEAN /\ enabled = requested /\ skipping = FALSE
    /\ passed = {} /\ batch = 0 /\ results = <<>>

LEMMA FreshFlags == Fresh => Flags /\ SkipRule
<1> SUFFICES ASSUME Fresh PROVE Flags /\ SkipRule  OBVIOUS
<1> USE DEF Fresh
<1>0. DOMAIN results = {} /\ Len(results) = 0 /\ Failed = {}  BY DEF Failed
<1>1. Len(cases) \in Nat  OBVIOUS
<1>2. GradeType
  <2>1. results \in Seq({"AC", "WA", "SC"}) /\ Len(results) <= Len(cases)  BY <1>0, <1>1
  <2>2. enabled \in BOOLEAN /\ skipping \in BOOLEAN /\ passed \subseteq Nat /\ batch \in {0} \cup DOMAIN dependencies
    BY Zenon
  <2> QED  BY <2>1, <2>2 DEF GradeType
<1>3. NotBegun /\ OneSplit /\ AtBatch  BY <1>0 DEF NotBegun, OneSplit, AtBatch
<1>4. PassedRight
  <2>1. next = 1  BY <1>0 DEF next
  <2>2. \A d : ~PassedBefore(d, 1)  BY <1>1 DEF PassedBefore, CasesIn
  <2> QED  BY <2>1, <2>2 DEF PassedRight
<1>5. EnabledRight  BY <1>0 DEF EnabledRight, OnAfter
<1>6. InBatch /\ BetweenBatches  BY <1>0 DEF InBatch, BetweenBatches, Sticky
<1>7. SkipRule  BY <1>0 DEF SkipRule
<1> QED  BY <1>2, <1>3, <1>4, <1>5, <1>6, <1>7 DEF Flags

LEMMA FreshFlagsNext == Fresh' => Flags' /\ SkipRule'
  BY FreshFlags, PTL

LEMMA LayoutNumbers ==
    ASSUME Proper(layout)
    PROVE  /\ DOMAIN layout = 1..Len(layout) /\ Len(layout) \in Nat
           /\ Number(layout, 0, 0) = 0
           /\ \A k \in 1..Len(layout) :
                 /\ layout[k] \in ResolvedItem
                 /\ Number(layout, 0, k - 1) \in Nat
                 /\ Number(layout, 0, k) =
                       Number(layout, 0, k - 1) + IF layout[k].batched THEN 1 ELSE 0
<1>1. DOMAIN layout = 1..Len(layout) /\ Len(layout) \in Nat /\ \A k \in 1..Len(layout) : layout[k] \in ResolvedItem
  BY DEF Proper
<1>2. \A k \in 1..Len(layout) : layout[k].batched \in BOOLEAN  BY <1>1 DEF ResolvedItem
<1>3. /\ Number(layout, 0, 0) = 0
      /\ \A k \in 0..Len(layout) : Number(layout, 0, k) \in Nat
      /\ \A k \in 1..Len(layout) : Number(layout, 0, k) =
             Number(layout, 0, k - 1) + IF layout[k].batched THEN 1 ELSE 0
  <2> DEFINE n == Len(layout)
  <2>1. n \in Nat /\ DOMAIN layout = 1..n /\ 0 \in Nat /\ \A k \in 1..n : layout[k].batched \in BOOLEAN
    BY <1>1, <1>2
  <2> HIDE DEF n
  <2>2. /\ Number(layout, 0, 0) = 0
        /\ \A k \in 0..n : Number(layout, 0, k) \in Nat /\ Number(layout, 0, k) >= 0
        /\ \A k \in 1..n : Number(layout, 0, k) =
              Number(layout, 0, k - 1) + IF layout[k].batched THEN 1 ELSE 0
    BY <2>1, NumberSteps
  <2> QED  BY <2>2 DEF n
<1>4. \A k \in 1..Len(layout) : k - 1 \in 0..Len(layout)  BY <1>1
<1> QED  BY <1>1, <1>3, <1>4

LEMMA InitInv == Init => IInv
<1> SUFFICES ASSUME Init PROVE IInv  OBVIOUS
<1>1. LayoutProper  BY CasesOfProper DEF Init, LayoutProper
<1>2. Flat
  <2>1. flat = 0 /\ cases = <<>> /\ dependencies = <<>>  BY DEF Init
  <2>2. Len(layout) \in Nat /\ Number(layout, 0, 0) = 0  BY <1>1, LayoutNumbers DEF LayoutProper
  <2> QED
    BY <2>1, <2>2 DEF Flat, FlatType, ItemsKept, InItemOrder, OneItemPerBatch
<1>3. Fresh  BY DEF Init, Fresh
<1> QED  BY <1>1, <1>2, <1>3, FreshFlags DEF IInv

LEMMA FlattenKeepsFlat ==
    ASSUME LayoutProper, Flat, FlattenItem
    PROVE  Flat'
<1> DEFINE k == flat + 1
           item == layout[k]
           num == IF item.batched THEN Len(dependencies) + 1 ELSE 0
           new == FlatCases(k, num)
           l == Len(cases)
<1>1. /\ flat \in Nat /\ k \in 1..Len(layout) /\ flat' = k /\ layout' = layout
      /\ cases \in Seq(CaseOf) /\ dependencies \in Seq(SUBSET (Nat \ {0}))
      /\ Len(dependencies) \in Nat /\ l \in Nat
      /\ Len(dependencies) = Number(layout, 0, flat)
  BY DEF FlattenItem, Flat, FlatType
<1>2. /\ item \in ResolvedItem /\ k - 1 = flat /\ Len(layout) \in Nat
      /\ Number(layout, 0, k) = Len(dependencies) + IF item.batched THEN 1 ELSE 0
  BY <1>1, LayoutNumbers DEF LayoutProper
<1>3. dependencies' = IF item.batched THEN Append(dependencies, item.dependencies) ELSE dependencies
  BY <1>1 DEF FlattenItem
<1>4. /\ dependencies' \in Seq(SUBSET (Nat \ {0})) /\ Len(dependencies') = Number(layout, 0, k)
      /\ \A b \in DOMAIN dependencies : b \in DOMAIN dependencies' /\ dependencies'[b] = dependencies[b]
      /\ item.batched => num \in DOMAIN dependencies' /\ dependencies'[num] = item.dependencies
  <2>1. item.dependencies \in SUBSET (Nat \ {0})  BY <1>2 DEF ResolvedItem
  <2>2. CASE item.batched
    <3> HIDE DEF item
    <3> QED  BY <1>1, <1>2, <1>3, <2>1, <2>2
  <2>3. CASE ~item.batched
    <3> HIDE DEF item
    <3> QED  BY <1>1, <1>2, <1>3, <2>3
  <2> QED  BY <2>2, <2>3
<1>5. cases' = cases \o new
  <2>1. Len(dependencies') = Len(dependencies) + 1 \/ ~item.batched  BY <1>1, <1>2, <1>4
  <2> QED  BY <1>1, <2>1 DEF FlattenItem
<1>6. /\ new \in Seq(CaseOf) /\ Len(new) = Len(item.zeros)
      /\ \A j \in 1..Len(new) : new[j] = FlatCase(k, num, item.zeros[j])
  <2>1. item.zeros \in Seq(BOOLEAN) /\ Len(item.zeros) \in Nat  BY <1>2 DEF ResolvedItem
  <2>2. new = [j \in 1..Len(item.zeros) |-> FlatCase(k, num, item.zeros[j])]  BY DEF FlatCases
  <2>3. \A j \in 1..Len(item.zeros) : FlatCase(k, num, item.zeros[j]) \in CaseOf
    <3>1. num \in Nat /\ k \in Nat  BY <1>1
    <3>2. \A j \in 1..Len(item.zeros) : item.zeros[j] \in BOOLEAN  BY <2>1
    <3> HIDE DEF num, k, item
    <3> QED  BY <3>1, <3>2 DEF FlatCase, CaseOf
  <2> HIDE DEF new, item, num, k
  <2> QED  BY <2>1, <2>2, <2>3
<1>7. /\ cases' \in Seq(CaseOf) /\ DOMAIN cases' = 1..(l + Len(new)) /\ Len(new) \in Nat
      /\ \A j \in 1..l : cases'[j] = cases[j]
      /\ \A j \in 1..Len(new) : cases'[l + j] = new[j]
  <2> HIDE DEF new
  <2>1. Len(new) \in Nat /\ new \in Seq(CaseOf) /\ cases \in Seq(CaseOf)  BY <1>1, <1>6
  <2>2. cases' \in Seq(CaseOf) /\ Len(cases') = l + Len(new)  BY <1>5, <2>1, ConcatProperties
  <2>3. DOMAIN cases' = 1..(l + Len(new))  BY <2>2
  <2>4. \A j \in 1..l : cases'[j] = cases[j]  BY <1>5, <2>1
  <2>5. \A j \in 1..Len(new) : cases'[l + j] = new[j]  BY <1>5, <2>1
  <2> QED  BY <2>1, <2>2, <2>3, <2>4, <2>5
<1>8. ASSUME NEW j \in DOMAIN cases'
      PROVE  \/ j \in DOMAIN cases /\ cases'[j] = cases[j]
             \/ /\ j > l /\ cases'[j].item = k /\ cases'[j].batch = num
                /\ \E i \in 1..Len(item.zeros) : cases'[j].zero = item.zeros[i]
  <2>1. CASE j \in 1..l  BY <1>1, <1>7, <2>1
  <2>2. CASE j \notin 1..l
    <3>1. j - l \in 1..Len(new) /\ l + (j - l) = j /\ j > l  BY <1>1, <1>7, <2>2
    <3>2. cases'[j] = FlatCase(k, num, item.zeros[j - l])  BY <1>6, <1>7, <3>1
    <3> HIDE DEF k, num, item, l
    <3>3. cases'[j].item = k /\ cases'[j].batch = num /\ cases'[j].zero = item.zeros[j - l]
      BY <3>2 DEF FlatCase
    <3> QED  BY <1>6, <3>1, <3>3
  <2> QED  BY <2>1, <2>2
<1>9. ASSUME NEW j \in DOMAIN cases
      PROVE  /\ cases[j].item \in 1..flat /\ cases[j].item < k /\ j <= l
             /\ cases[j].batch \in 0..Len(dependencies)
  <2>1. cases[j].item \in 1..flat /\ j <= l /\ cases[j].batch \in Nat
    <3>1. cases[j] \in CaseOf /\ j <= l  BY <1>1
    <3>2. cases[j].item \in 1..flat  BY DEF Flat, ItemsKept
    <3> QED  BY <3>1, <3>2 DEF CaseOf
  <2>2. layout[cases[j].item].batched => cases[j].batch \in DOMAIN dependencies
    BY DEF Flat, ItemsKept
  <2>3. ~layout[cases[j].item].batched => cases[j].batch = 0
    BY DEF Flat, ItemsKept
  <2> QED  BY <1>1, <2>1, <2>2, <2>3
<1>10. item.pretest /\ ~item.batched => item.zeros = <<TRUE>>
  BY <1>1, LayoutNumbers DEF LayoutProper, Proper
<1>11. FlatType'  BY <1>1, <1>2, <1>4, <1>7 DEF FlatType
<1>12. ItemsKept'
  <2> SUFFICES ASSUME NEW j \in DOMAIN cases'
               PROVE /\ cases'[j].item \in 1..k
                     /\ layout[cases'[j].item].batched =>
                           /\ cases'[j].batch \in DOMAIN dependencies'
                           /\ cases'[j].batch = Number(layout, 0, cases'[j].item)
                           /\ dependencies'[cases'[j].batch] = layout[cases'[j].item].dependencies
                     /\ ~layout[cases'[j].item].batched => cases'[j].batch = 0
                     /\ layout[cases'[j].item].pretest /\ ~layout[cases'[j].item].batched => cases'[j].zero
    BY <1>1 DEF ItemsKept, Number, Batches
  <2>1. CASE j \in DOMAIN cases /\ cases'[j] = cases[j]
    <3>1. cases[j].item \in 1..k  BY <1>1, <1>9, <2>1
    <3>2. /\ layout[cases[j].item].batched =>
                /\ cases[j].batch \in DOMAIN dependencies
                /\ cases[j].batch = Number(layout, 0, cases[j].item)
                /\ dependencies[cases[j].batch] = layout[cases[j].item].dependencies
          /\ ~layout[cases[j].item].batched => cases[j].batch = 0
          /\ layout[cases[j].item].pretest /\ ~layout[cases[j].item].batched => cases[j].zero
      BY <2>1 DEF Flat, ItemsKept
    <3> QED  BY <1>4, <2>1, <3>1, <3>2
  <2>2. CASE /\ j > l /\ cases'[j].item = k /\ cases'[j].batch = num
             /\ \E i \in 1..Len(item.zeros) : cases'[j].zero = item.zeros[i]
    <3>1. k \in 1..k  BY <1>1
    <3>2. item.batched => num = Number(layout, 0, k)  BY <1>2
    <3>3. ASSUME item.pretest /\ ~item.batched PROVE cases'[j].zero
      <4>1. PICK i \in 1..Len(item.zeros) : cases'[j].zero = item.zeros[i]  BY <2>2
      <4>2. item.zeros = <<TRUE>>  BY <1>10, <3>3
      <4>3. Len(item.zeros) = 1 /\ item.zeros[1] = TRUE
        <5>1. Len(<<TRUE>>) = 1 /\ <<TRUE>>[1] = TRUE  OBVIOUS
        <5> QED  BY <4>2, <5>1, Zenon
      <4> HIDE DEF item
      <4>4. i = 1  BY <4>1, <4>3
      <4> QED  BY <4>1, <4>3, <4>4, Zenon
    <3> QED  BY <1>4, <2>2, <3>1, <3>2, <3>3
  <2> QED  BY <1>8, <2>1, <2>2
<1> HIDE DEF k, l, num, item
<1>13. InItemOrder'
  <2> SUFFICES ASSUME NEW j \in DOMAIN cases', NEW m \in DOMAIN cases', j <= m
               PROVE  cases'[j].item <= cases'[m].item
    BY DEF InItemOrder
  <2>1. j \in Nat /\ m \in Nat /\ k \in Nat /\ l \in Nat  BY <1>1, <1>7
  <2>2. j \in DOMAIN cases /\ m \in DOMAIN cases => cases[j].item <= cases[m].item
    BY DEF Flat, InItemOrder
  <2>3. j \in DOMAIN cases => cases[j].item < k /\ cases[j].item \in Nat /\ j <= l  BY <1>9
  <2>4. m \in DOMAIN cases => m <= l  BY <1>9
  <2> QED  BY <1>8, <2>1, <2>2, <2>3, <2>4
<1>14. OneItemPerBatch'
  <2> SUFFICES ASSUME NEW j \in DOMAIN cases', NEW m \in DOMAIN cases',
                      cases'[j].batch = cases'[m].batch, cases'[j].batch # 0
               PROVE  cases'[j].item = cases'[m].item
    BY DEF OneItemPerBatch
  <2>1. num = 0 \/ num = Len(dependencies) + 1  BY DEF num
  <2>2. \A i \in DOMAIN cases : cases[i].batch # 0 => cases[i].batch # num
    BY <1>1, <1>9, <2>1
  <2>3. j \in DOMAIN cases /\ m \in DOMAIN cases /\ cases[j].batch = cases[m].batch /\ cases[j].batch # 0
           => cases[j].item = cases[m].item
    BY DEF Flat, OneItemPerBatch
  <2> QED  BY <1>8, <2>2, <2>3
<1>15. Len(dependencies') = Number(layout', 0, flat')  BY <1>1, <1>4
<1>16. Number(layout, 0, flat)' = Number(layout', 0, flat')  BY DEF Number, Batches
<1> QED  BY <1>11, <1>12, <1>13, <1>14, <1>15, <1>16 DEF Flat

LEMMA FlattenKeeps == IInv /\ FlattenItem => IInv'
<1> SUFFICES ASSUME IInv, FlattenItem PROVE IInv'  OBVIOUS
<1>1. LayoutProper /\ Flat /\ Flags  BY DEF IInv
<1>2. layout' = layout /\ ~Ready  BY <1>1 DEF FlattenItem, Flat, FlatType, Ready
<1>3. LayoutProper'
  BY <1>1, <1>2 DEF LayoutProper, Proper, NumbersAgree, Number, Batches
<1>4. Flat'  BY <1>1, FlattenKeepsFlat
<1>5. Fresh'
  <2>1. results = <<>> /\ batch = 0 /\ passed = {} /\ ~skipping /\ skipping \in BOOLEAN
    BY <1>1, <1>2 DEF Flags, NotBegun, GradeType
  <2>2. requested \in BOOLEAN /\ enabled \in BOOLEAN /\ (enabled <=> requested)
    <3>1. Failed = {}  BY <2>1 DEF Failed
    <3>2. enabled <=> requested  BY <1>1, <3>1 DEF Flags, EnabledRight, OnAfter
    <3> QED  BY <1>1, <3>2 DEF Flags, GradeType
  <2>3. cases' \in Seq(CaseOf)  BY <1>4 DEF Flat, FlatType
  <2>4. UNCHANGED <<requested, enabled, skipping, passed, batch, results>>  BY DEF FlattenItem
  <2>5. enabled = requested /\ skipping = FALSE  BY <2>1, <2>2, Zenon
  <2> QED  BY <2>1, <2>2, <2>3, <2>4, <2>5, Zenon DEF Fresh
<1> QED  BY <1>3, <1>4, <1>5, FreshFlagsNext DEF IInv
-----------------------------------------------------------------------------
(***************************************************************************)
(* The grading.  Only results and the flags change.                        *)
(***************************************************************************)
Flattened == UNCHANGED <<layout, flat, cases, dependencies, requested>>

LEMMA FlattenedKeeps ==
    ASSUME LayoutProper, Flat, Flattened
    PROVE  LayoutProper' /\ Flat'
<1>1. LayoutProper'
  BY DEF Flattened, LayoutProper, Proper, NumbersAgree, Number, Batches
<1>2. FlatType' /\ ItemsKept' /\ InItemOrder' /\ OneItemPerBatch'
  BY ZenonT(40) DEF Flattened, Flat, FlatType, ItemsKept, InItemOrder, OneItemPerBatch, Number, Batches
<1>3. Len(dependencies') = Number(layout, 0, flat)'  BY DEF Flattened, Flat, Number, Batches
<1> QED  BY <1>1, <1>2, <1>3 DEF Flat

\* The cases of a batch stand together.
LEMMA Together ==
    ASSUME Flat, NEW j \in DOMAIN cases, NEW m \in DOMAIN cases, NEW i \in DOMAIN cases,
           j <= m, m <= i, cases[j].batch = cases[i].batch, cases[j].batch # 0
    PROVE  cases[m].batch = cases[j].batch
<1>1. cases[j].item = cases[i].item  BY DEF Flat, OneItemPerBatch
<1>2. cases[j].item <= cases[m].item /\ cases[m].item <= cases[i].item  BY DEF Flat, InItemOrder
<1>3. cases[j].item \in Nat /\ cases[m].item \in Nat
  <2>1. cases[j] \in CaseOf /\ cases[m] \in CaseOf  BY DEF Flat, FlatType
  <2> QED  BY <2>1 DEF CaseOf
<1>4. cases[m].item = cases[j].item  BY <1>1, <1>2, <1>3
<1>5. layout[cases[j].item].batched  BY DEF Flat, ItemsKept
<1> QED  BY <1>4, <1>5 DEF Flat, ItemsKept

\* A verdict more changes nothing that looks back from it.
LEMMA VerdictAdded ==
    ASSUME Flat, GradeType, Flattened, More,
           NEW v \in {"AC", "WA", "SC"}, results' = Append(results, v)
    PROVE  /\ next \in DOMAIN cases /\ next = Len(results) + 1 /\ Len(results) \in Nat
           /\ results' \in Seq({"AC", "WA", "SC"}) /\ next' = next + 1
           /\ DOMAIN results = 1..Len(results) /\ DOMAIN results' = 1..next /\ Len(results') = next
           /\ results'[next] = v /\ \A j \in 1..Len(results) : results'[j] = results[j]
           /\ Failed' = Failed \cup (IF v = "WA" THEN {next} ELSE {})
           /\ \A d, i : i \in 1..next => (PassedBefore(d, i)' <=> PassedBefore(d, i))
           /\ \A d, i : cases[next].batch # d /\ i = next + 1 => (PassedBefore(d, i)' <=> PassedBefore(d, next))
           /\ \A i \in 1..next : Unmet(i)' <=> Unmet(i)
           /\ \A i \in 1..Len(results) : OnAfter(i)' <=> OnAfter(i)
           /\ \A i : i = next => (OnAfter(i)' <=> OnAfter(Len(results)) \/ (v = "WA" /\ cases[next].zero))
           /\ \A i \in 1..next : Skipped(i)' <=> Skipped(i)
<1> DEFINE n == Len(results)
<1>1. /\ n \in Nat /\ next = n + 1 /\ DOMAIN results = 1..n /\ Len(cases) \in Nat
      /\ DOMAIN cases = 1..Len(cases) /\ next \in 1..Len(cases)
  BY DEF GradeType, Flat, FlatType, More, next
<1>2. /\ results' \in Seq({"AC", "WA", "SC"}) /\ DOMAIN results' = 1..next /\ Len(results') = next
      /\ results'[next] = v /\ \A j \in 1..n : results'[j] = results[j]
      /\ next' = next + 1
  <2>1. results \in Seq({"AC", "WA", "SC"})  BY DEF GradeType
  <2>2. results' \in Seq({"AC", "WA", "SC"}) /\ Len(results') = n + 1
        /\ results'[n + 1] = v /\ \A j \in 1..n : results'[j] = results[j]
    BY <2>1
  <2>3. DOMAIN results' = 1..(n + 1)  BY <1>1, <2>2
  <2> QED  BY <1>1, <2>2, <2>3 DEF next
<1>3. UNCHANGED <<cases, dependencies, requested>>  BY DEF Flattened
<1> HIDE DEF n
<1>4. Failed' = Failed \cup (IF v = "WA" THEN {next} ELSE {})
  BY <1>1, <1>2 DEF Failed
<1>5. ASSUME NEW d, NEW i \in 1..next PROVE PassedBefore(d, i)' <=> PassedBefore(d, i)
  <2>1. CasesIn(d)' = CasesIn(d)  BY <1>3 DEF CasesIn
  <2>2. \A j \in CasesIn(d) : j < i => results'[j] = results[j]
    BY <1>1, <1>2 DEF CasesIn
  <2> QED  BY <2>1, <2>2 DEF PassedBefore
<1>6. ASSUME NEW d, NEW i, cases[next].batch # d, i = next + 1
      PROVE PassedBefore(d, i)' <=> PassedBefore(d, next)
  <2>1. CasesIn(d)' = CasesIn(d)  BY <1>3 DEF CasesIn
  <2>2. \A j \in CasesIn(d) : j < next <=> j < i  BY <1>1, <1>6 DEF CasesIn
  <2>3. \A j \in CasesIn(d) : j < next => results'[j] = results[j]  BY <1>1, <1>2 DEF CasesIn
  <2> QED  BY <2>1, <2>2, <2>3 DEF PassedBefore
<1>7. \A i \in 1..next : Unmet(i)' <=> Unmet(i)  BY <1>3, <1>5 DEF Unmet
<1>8. \A i \in 1..n : OnAfter(i)' <=> OnAfter(i)  BY <1>1, <1>3, <1>4 DEF OnAfter
<1>9. ASSUME NEW i, i = next PROVE OnAfter(i)' <=> OnAfter(n) \/ (v = "WA" /\ cases[next].zero)
  <2>1. \A j \in Failed : j <= n /\ j <= i  BY <1>1, <1>9 DEF Failed
  <2>2. i <= i  BY <1>1, <1>9
  <2> QED  BY <1>3, <1>4, <1>9, <2>1, <2>2 DEF OnAfter
<1>10. ASSUME NEW i \in 1..next PROVE Skipped(i)' <=> Skipped(i)
  <2>1. \A j \in 1..i - 1 : j \in 1..n /\ j \in 1..next  BY <1>1
  <2>2. \A j \in Failed' : j < i => j \in Failed /\ j \in 1..n  BY <1>1, <1>4 DEF Failed
  <2>3. \A j \in Failed : j \in Failed' /\ j \in 1..n  BY <1>1, <1>4 DEF Failed
  <2>4. Unmet(i)' <=> Unmet(i)  BY <1>7
  <2>5. (\E j \in 1..i - 1 : Unmet(j) /\ OnAfter(j))' <=> \E j \in 1..i - 1 : Unmet(j) /\ OnAfter(j)
    BY <1>7, <1>8, <2>1
  <2>6. (\E j \in Failed : j < i /\ (OnAfter(j) \/ (cases[j].batch # 0 /\ cases[j].batch = cases[i].batch)))'
          <=> \E j \in Failed : j < i /\ (OnAfter(j) \/ (cases[j].batch # 0 /\ cases[j].batch = cases[i].batch))
    BY <1>3, <1>8, <2>2, <2>3
  <2> QED  BY <2>4, <2>5, <2>6 DEF Skipped
<1> QED  BY <1>1, <1>2, <1>4, <1>5, <1>6, <1>7, <1>8, <1>9, <1>10 DEF n

\* The flags say what the rule says of the next case.
LEMMA SkippedNext ==
    ASSUME Flat, Flags, InGroup
    PROVE  /\ skipping <=> Skipped(next)
           /\ batch = 0 => ~Unmet(next)
           /\ batch # 0 => (Unmet(next) <=> MissesDependency(batch))
<1>1. /\ Len(results) \in Nat /\ next = Len(results) + 1 /\ DOMAIN results = 1..Len(results)
      /\ next \in DOMAIN cases /\ cases[next].batch = batch
      /\ dependencies \in Seq(SUBSET (Nat \ {0})) /\ batch \in {0} \cup DOMAIN dependencies
  BY DEF Flat, FlatType, Flags, GradeType, InGroup, More, next
<1>2. batch = 0 => ~Unmet(next)  BY <1>1 DEF Unmet
<1>3. ASSUME batch # 0 PROVE Unmet(next) <=> MissesDependency(batch)
  <2>1. dependencies[batch] \subseteq Nat \ {0}  BY <1>1, <1>3
  <2>2. ~PassedBefore(batch, next)  BY <1>1 DEF PassedBefore, CasesIn
  <2>3. batch \notin passed  BY <1>1, <1>3 DEF Flags, PassedRight
  <2>4. \A d \in dependencies[batch] : d \in passed <=> PassedBefore(d, next)
    BY <2>1, <2>2, <2>3 DEF Flags, PassedRight
  <2> QED  BY <1>1, <1>3, <2>4 DEF Unmet, MissesDependency
<1>4. Skipped(next) <=> \/ Unmet(next) \/ Sticky
                        \/ \E j \in Failed : cases[j].batch # 0 /\ cases[j].batch = batch
  <2>1. 1..next - 1 = DOMAIN results /\ \A j \in Failed : j < next  BY <1>1 DEF Failed
  <2> QED  BY <1>1, <2>1 DEF Skipped, Sticky
<1>5. CASE batch = 0  BY <1>2, <1>4, <1>5 DEF Flags, BetweenBatches
<1>6. CASE batch # 0
  <2>1. skipping <=> Sticky \/ MissesDependency(batch) \/ DoneHere \cap Failed # {}
    BY <1>6 DEF Flags, InBatch, SkippingHere
  <2>2. DoneHere \cap Failed # {} <=> \E j \in Failed : cases[j].batch # 0 /\ cases[j].batch = batch
    BY <1>6 DEF DoneHere, Failed
  <2> QED  BY <1>3, <1>4, <1>6, <2>1, <2>2
<1> QED  BY <1>2, <1>3, <1>5, <1>6

\* The next case gets its verdict, as the three actions give it.
Verdict(v) ==
    /\ Flattened /\ InGroup /\ results' = Append(results, v)
    /\ UNCHANGED <<passed, batch>>
    /\ v = "SC" <=> skipping
    /\ v # "WA" => UNCHANGED <<enabled, skipping>>
    /\ v = "WA" => /\ enabled' = (enabled \/ cases[next].zero)
                   /\ skipping' = (batch # 0 \/ enabled')

LEMMA VerdictKeeps ==
    ASSUME IInv, NEW v \in {"AC", "WA", "SC"}, Verdict(v)
    PROVE  IInv'
<1>1. LayoutProper /\ Flat /\ Flags /\ SkipRule  BY DEF IInv
<1>2. LayoutProper' /\ Flat'  BY <1>1, FlattenedKeeps DEF Verdict
<1>3. GradeType /\ More /\ Ready /\ InGroup /\ Flattened /\ results' = Append(results, v)
  BY <1>1 DEF Verdict, InGroup, Flags
<1>4. PICK k : k = next  OBVIOUS
<1>5. /\ k \in DOMAIN cases /\ k = Len(results) + 1 /\ Len(results) \in Nat
      /\ results' \in Seq({"AC", "WA", "SC"}) /\ next' = k + 1
      /\ DOMAIN results = 1..Len(results) /\ DOMAIN results' = 1..k /\ Len(results') = k
      /\ results'[k] = v /\ \A j \in 1..Len(results) : results'[j] = results[j]
      /\ Failed' = Failed \cup (IF v = "WA" THEN {k} ELSE {})
      /\ \A d : cases[k].batch # d => (PassedBefore(d, k + 1)' <=> PassedBefore(d, k))
      /\ \A i \in 1..k : Unmet(i)' <=> Unmet(i)
      /\ \A i \in 1..Len(results) : OnAfter(i)' <=> OnAfter(i)
      /\ OnAfter(k)' <=> OnAfter(Len(results)) \/ (v = "WA" /\ cases[k].zero)
      /\ \A i \in 1..k : Skipped(i)' <=> Skipped(i)
  BY <1>1, <1>3, <1>4, VerdictAdded
<1>6. /\ skipping <=> Skipped(k)
      /\ batch = 0 => ~Unmet(k)
      /\ batch # 0 => (Unmet(k) <=> MissesDependency(batch))
      /\ cases[k].batch = batch
  BY <1>1, <1>3, <1>4, SkippedNext DEF InGroup
<1>7. UNCHANGED <<layout, flat, cases, dependencies, requested, passed, batch>>
  BY <1>3 DEF Verdict, Flattened
<1>8. enabled \in BOOLEAN /\ skipping \in BOOLEAN /\ batch \in {0} \cup DOMAIN dependencies /\ batch \in Nat
      /\ cases \in Seq(CaseOf) /\ Len(cases) \in Nat
  BY <1>1 DEF Flags, GradeType, Flat, FlatType
<1>9. (v = "SC" <=> skipping) /\ (v # "WA" => (enabled' <=> enabled) /\ (skipping' <=> skipping))
      /\ (v = "WA" => (enabled' <=> enabled \/ cases[k].zero) /\ (skipping' <=> batch # 0 \/ enabled'))
  <2>1. v = "SC" <=> skipping  BY DEF Verdict
  <2>2. v # "WA" => (enabled' <=> enabled) /\ (skipping' <=> skipping)  BY Zenon DEF Verdict
  <2>3. v = "WA" => (enabled' <=> enabled \/ cases[next].zero) /\ (skipping' <=> batch # 0 \/ enabled')
    BY Zenon DEF Verdict
  <2> QED  BY <1>4, <2>1, <2>2, <2>3
<1>10. SkipRule'
  <2> SUFFICES ASSUME NEW i \in 1..k PROVE results'[i] = "SC" <=> Skipped(i)'
    BY <1>5 DEF SkipRule
  <2>1. CASE i = k  BY <1>5, <1>6, <1>9, <2>1
  <2>2. CASE i \in 1..Len(results)  BY <1>1, <1>5, <2>2 DEF SkipRule
  <2> QED  BY <1>5, <2>1, <2>2
<1>11. GradeType'
  <2>1. enabled' \in BOOLEAN /\ skipping' \in BOOLEAN
    <3>1. CASE v = "WA"  BY <3>1 DEF Verdict
    <3>2. CASE v # "WA"  BY <1>8, <3>2 DEF Verdict
    <3> QED  BY <3>1, <3>2
  <2>2. requested' \in BOOLEAN /\ passed' \subseteq Nat /\ batch' \in {0} \cup DOMAIN dependencies'
    BY <1>1, <1>7 DEF Flags, GradeType
  <2>3. Len(results') <= Len(cases')  BY <1>5, <1>7, <1>8
  <2> QED  BY <1>5, <2>1, <2>2, <2>3 DEF GradeType
<1>12. NotBegun'  BY <1>3, <1>7 DEF NotBegun, Ready
<1>13. OneSplit'
  <2> SUFFICES ASSUME NEW j \in 1..k, NEW m \in DOMAIN cases, m > k,
                      cases[j].batch = cases[m].batch, cases[j].batch # 0
               PROVE  cases[j].batch = batch
    BY <1>5, <1>7 DEF OneSplit
  <2>1. CASE j = k  BY <1>6, <2>1
  <2>2. CASE j \in 1..Len(results)
    <3>1. m \in Nat  BY <1>8
    <3> QED  BY <1>1, <1>5, <2>2, <3>1 DEF Flags, OneSplit
  <2> QED  BY <1>5, <2>1, <2>2
<1>14. AtBatch'  BY <1>5, <1>6, <1>7 DEF AtBatch
<1>15. PassedRight'
  <2> SUFFICES ASSUME NEW d \in Nat PROVE d \in passed <=> d # batch /\ d # 0 /\ PassedBefore(d, k + 1)'
    BY <1>5, <1>7 DEF PassedRight
  <2>1. d \in passed <=> d # batch /\ d # 0 /\ PassedBefore(d, k)
    BY <1>1, <1>4 DEF Flags, PassedRight
  <2> QED  BY <1>5, <1>6, <2>1
<1>16. EnabledRight'
  <2>1. enabled <=> OnAfter(Len(results))  BY <1>1 DEF Flags, EnabledRight
  <2>2. enabled' <=> OnAfter(k)'
    <3>1. CASE v = "WA"  BY <1>5, <1>9, <2>1, <3>1
    <3>2. CASE v # "WA"  BY <1>5, <1>9, <2>1, <3>2
    <3> QED  BY <3>1, <3>2
  <2> QED  BY <1>5, <2>2 DEF EnabledRight
<1>17. Sticky' <=> \/ Sticky
                   \/ Unmet(k) /\ OnAfter(k)'
                   \/ v = "WA" /\ OnAfter(k)'
  <2>1. (\E j \in DOMAIN results : Unmet(j) /\ OnAfter(j))'
           <=> (\E j \in DOMAIN results : Unmet(j) /\ OnAfter(j)) \/ (Unmet(k) /\ OnAfter(k)')
    <3>1. \A j \in 1..k : j = k \/ j \in 1..Len(results)  BY <1>5
    <3>2. \A j \in 1..Len(results) : j \in 1..k  BY <1>5
    <3>3. k \in 1..k  BY <1>5
    <3> QED  BY <1>5, <3>1, <3>2, <3>3
  <2>2. (\E j \in Failed : OnAfter(j))' <=> (\E j \in Failed : OnAfter(j)) \/ (v = "WA" /\ OnAfter(k)')
    <3>1. \A j \in Failed : j \in 1..Len(results)  BY <1>5 DEF Failed
    <3>2. \A j : j \in Failed' <=> j \in Failed \/ (v = "WA" /\ j = k)  BY <1>5
    <3> QED  BY <1>5, <3>1, <3>2
  <2> QED  BY <2>1, <2>2 DEF Sticky
<1>18. BetweenBatches'
  <2> SUFFICES ASSUME batch = 0 PROVE skipping' <=> Sticky'  BY <1>7 DEF BetweenBatches
  <2>1. (skipping <=> Sticky) /\ ~Unmet(k)  BY <1>1, <1>6 DEF Flags, BetweenBatches
  <2>2. enabled' <=> OnAfter(k)'  BY <1>5, <1>16 DEF EnabledRight
  <2>3. CASE v = "WA"  BY <1>9, <1>17, <2>1, <2>2, <2>3
  <2>4. CASE v # "WA"  BY <1>9, <1>17, <2>1, <2>4
  <2> QED  BY <2>3, <2>4
<1>19. InBatch'
  <2> SUFFICES ASSUME batch # 0
               PROVE  /\ SkippingHere'
                      /\ (\A j \in DoneHere : Unmet(j) <=> MissesDependency(batch))'
                      /\ (\A j \in DoneHere \cap Failed : \A m \in Failed : m <= j)'
                      /\ (DoneHere # {} /\ skipping => \E j \in DoneHere : results[j] # "AC")'
                      /\ (~skipping => \A j \in DoneHere : results[j] = "AC")'
    BY <1>7 DEF InBatch
  <2>1. /\ skipping <=> Sticky \/ MissesDependency(batch) \/ DoneHere \cap Failed # {}
        /\ \A j \in DoneHere : Unmet(j) <=> MissesDependency(batch)
        /\ \A j \in DoneHere \cap Failed : \A m \in Failed : m <= j
        /\ ~skipping => \A j \in DoneHere : results[j] = "AC"
    BY <1>1 DEF Flags, InBatch, SkippingHere
  <2>2. DoneHere' = DoneHere \cup {k} /\ DoneHere \subseteq 1..Len(results)
    <3>1. \A j \in 1..k : j = k \/ j \in 1..Len(results)  BY <1>5
    <3>2. \A j \in 1..Len(results) : j \in 1..k  BY <1>5
    <3> QED  BY <1>5, <1>6, <1>7, <3>1, <3>2 DEF DoneHere
  <2>3. MissesDependency(batch)' <=> MissesDependency(batch)  BY <1>7 DEF MissesDependency
  <2>4. \A m \in Failed : m \in 1..Len(results) /\ m <= k  BY <1>5 DEF Failed
  <2>5. Unmet(k) <=> MissesDependency(batch)  BY <1>6
  <2>6. \A m : m \in Failed' <=> m \in Failed \/ (v = "WA" /\ m = k)  BY <1>5
  <2>7. SkippingHere'
    <3>1. skipping' <=> Sticky' \/ MissesDependency(batch) \/ (DoneHere' \cap Failed') # {}
      <4>1. CASE v = "SC"
        <5>1. DoneHere \cap Failed # {} => (DoneHere' \cap Failed') # {}  BY <2>2, <2>6
        <5> QED  BY <1>9, <1>17, <2>1, <4>1, <5>1
      <4>2. CASE v = "WA"
        <5>1. k \in DoneHere' \cap Failed'  BY <2>2, <2>6, <4>2
        <5> QED  BY <1>9, <4>2, <5>1
      <4>3. CASE v = "AC"
        <5>1. Failed' = Failed /\ k \notin Failed  BY <1>5, <2>4, <4>3
        <5>2. DoneHere' \cap Failed' = DoneHere \cap Failed  BY <2>2, <5>1
        <5> QED  BY <1>9, <1>17, <2>1, <2>5, <4>3, <5>2
      <4> QED  BY <4>1, <4>2, <4>3
    <3> QED  BY <2>3, <3>1 DEF SkippingHere
  <2>8. (\A j \in DoneHere : Unmet(j) <=> MissesDependency(batch))'
    <3> SUFFICES ASSUME NEW j \in DoneHere' PROVE Unmet(j)' <=> MissesDependency(batch)
      BY <2>3
    <3>1. j \in 1..k /\ (Unmet(j)' <=> Unmet(j))  BY <1>5, <2>2
    <3> QED  BY <2>1, <2>2, <2>5, <3>1
  <2>9. (\A j \in DoneHere \cap Failed : \A m \in Failed : m <= j)'
    <3> SUFFICES ASSUME NEW j \in DoneHere' \cap Failed', NEW m \in Failed' PROVE m <= j  OBVIOUS
    <3>1. CASE v = "WA"
      <4>1. DoneHere \cap Failed = {}  BY <1>9, <2>1, <3>1
      <4>2. j = k  BY <1>5, <2>2, <2>6, <2>4, <4>1
      <4> QED  BY <1>5, <2>4, <2>6, <4>2
    <3>2. CASE v # "WA"
      <4>1. j \in Failed /\ m \in Failed  BY <2>6, <3>2
      <4>2. j \in DoneHere  BY <1>5, <2>2, <2>4, <4>1
      <4> QED  BY <2>1, <4>1, <4>2
    <3> QED  BY <3>1, <3>2
  <2>10. (DoneHere # {} /\ skipping => \E j \in DoneHere : results[j] # "AC")'
    <3>1. CASE v = "AC"  BY <1>9, <3>1
    <3>2. CASE v # "AC"
      <4>1. k \in DoneHere' /\ results'[k] # "AC"  BY <1>5, <2>2, <3>2
      <4> QED  BY <4>1
    <3> QED  BY <3>1, <3>2
  <2>11. (~skipping => \A j \in DoneHere : results[j] = "AC")'
    <3> SUFFICES ASSUME ~skipping', NEW j \in DoneHere' PROVE results'[j] = "AC"  OBVIOUS
    <3>1. v = "AC" /\ ~skipping  BY <1>9
    <3> QED  BY <1>5, <2>1, <2>2, <3>1
  <2> QED  BY <2>7, <2>8, <2>9, <2>10, <2>11
<1> QED  BY <1>2, <1>10, <1>11, <1>12, <1>13, <1>14, <1>15, <1>16, <1>18, <1>19 DEF IInv, Flags

\* Between cases the results say what they said.
LEMMA NoVerdict ==
    ASSUME Flattened, UNCHANGED <<enabled, results>>
    PROVE  /\ next' = next /\ Failed' = Failed
           /\ \A d, i : PassedBefore(d, i)' <=> PassedBefore(d, i)
           /\ \A i : (Unmet(i)' <=> Unmet(i)) /\ (OnAfter(i)' <=> OnAfter(i))
           /\ Sticky' <=> Sticky
           /\ SkipRule' <=> SkipRule
           /\ EnabledRight' <=> EnabledRight
<1>1. next' = next /\ Failed' = Failed  BY DEF Flattened, next, Failed
<1>2. \A d, i : PassedBefore(d, i)' <=> PassedBefore(d, i)
  BY DEF Flattened, PassedBefore, CasesIn
<1>3. \A i : Unmet(i)' <=> Unmet(i)  BY <1>2 DEF Flattened, Unmet
<1>4. \A i : OnAfter(i)' <=> OnAfter(i)  BY <1>1 DEF Flattened, OnAfter
<1>5. Sticky' <=> Sticky  BY <1>1, <1>3, <1>4 DEF Sticky
<1>6. \A i : Skipped(i)' <=> Skipped(i)  BY <1>1, <1>3, <1>4 DEF Flattened, Skipped
<1>7. SkipRule' <=> SkipRule  BY <1>6 DEF SkipRule
<1>8. EnabledRight' <=> EnabledRight
  <2>1. PICK n : n = Len(results)  OBVIOUS
  <2>2. EnabledRight <=> (enabled <=> OnAfter(n))  BY <2>1 DEF EnabledRight
  <2>3. EnabledRight' <=> (enabled' <=> OnAfter(n)')  BY <2>1 DEF EnabledRight
  <2>4. enabled' <=> enabled  BY Zenon
  <2> QED  BY <1>4, <2>2, <2>3, <2>4
<1> QED  BY <1>1, <1>2, <1>3, <1>4, <1>5, <1>7, <1>8

LEMMA BatchBeginKeeps == IInv /\ BatchBegin => IInv'
<1> SUFFICES ASSUME IInv, BatchBegin PROVE IInv'  OBVIOUS
<1> DEFINE b == cases[next].batch
<1>1. LayoutProper /\ Flat /\ Flags /\ SkipRule  BY DEF IInv
<1>2. /\ Flattened /\ UNCHANGED <<enabled, results>> /\ Ready /\ More /\ batch = 0 /\ b # 0
      /\ UNCHANGED <<layout, flat, cases, dependencies, requested, passed>> /\ batch' = b
      /\ skipping' = (skipping \/ MissesDependency(b))
  BY DEF BatchBegin, Flattened
<1>3. LayoutProper' /\ Flat'  BY <1>1, <1>2, FlattenedKeeps
<1>4. /\ next' = next /\ Failed' = Failed
      /\ \A d, i : PassedBefore(d, i)' <=> PassedBefore(d, i)
      /\ Sticky' <=> Sticky
      /\ SkipRule' <=> SkipRule
      /\ EnabledRight' <=> EnabledRight
  BY <1>2, NoVerdict
<1>5. /\ next \in DOMAIN cases /\ next = Len(results) + 1 /\ Len(results) \in Nat
      /\ DOMAIN results = 1..Len(results)
  BY <1>1, <1>2 DEF Flags, GradeType, Flat, FlatType, More, next
<1>6. b \in DOMAIN dependencies  BY <1>1, <1>2, <1>5 DEF Flat, ItemsKept
<1>7. \A j \in DOMAIN results, m \in DOMAIN cases :
         m > Len(results) /\ cases[j].batch = cases[m].batch => cases[j].batch = 0
  BY <1>1, <1>2 DEF Flags, OneSplit
<1>8. DoneHere' = {}
  <2>1. \A j \in DOMAIN results : cases[j].batch # b  BY <1>2, <1>5, <1>7
  <2> QED  BY <1>2, <2>1 DEF DoneHere
<1>9. GradeType'
  <2>1. skipping' \in BOOLEAN  BY <1>2
  <2>2. batch' \in DOMAIN dependencies  BY <1>2, <1>6
  <2>3. /\ requested' \in BOOLEAN /\ enabled' \in BOOLEAN /\ passed' \subseteq Nat
        /\ results' \in Seq({"AC", "WA", "SC"}) /\ Len(results') <= Len(cases')
    BY <1>1, <1>2 DEF Flags, GradeType
  <2> QED  BY <1>2, <2>1, <2>2, <2>3 DEF GradeType
<1>10. NotBegun'  BY <1>2 DEF NotBegun, Ready
<1>11. OneSplit'  BY <1>2, <1>7 DEF OneSplit
<1>12. AtBatch'  BY <1>2, <1>4 DEF AtBatch, More
<1>13. PassedRight'
  <2> SUFFICES ASSUME NEW d \in Nat PROVE d \in passed <=> d # b /\ d # 0 /\ PassedBefore(d, next)
    <3>1. PICK n : n = next  OBVIOUS
    <3>2. \A d \in Nat : d \in passed <=> d # b /\ d # 0 /\ PassedBefore(d, n)'  BY <1>4, <3>1
    <3>3. n = next'  BY <1>4, <3>1
    <3> HIDE DEF b
    <3> QED  BY <1>2, <3>2, <3>3 DEF PassedRight
  <2>1. d \in passed <=> d # 0 /\ PassedBefore(d, next)  BY <1>1, <1>2 DEF Flags, PassedRight
  <2>2. ~PassedBefore(b, next)  BY <1>5 DEF PassedBefore, CasesIn
  <2> QED  BY <2>1, <2>2
<1>14. InBatch'
  <2>1. skipping' <=> Sticky' \/ MissesDependency(batch)'
    <3>1. skipping <=> Sticky  BY <1>1, <1>2 DEF Flags, BetweenBatches
    <3>2. MissesDependency(batch)' <=> MissesDependency(b)  BY <1>2 DEF MissesDependency
    <3>3. skipping' <=> skipping \/ MissesDependency(b)  BY <1>2, Zenon
    <3> QED  BY <1>4, <3>1, <3>2, <3>3
  <2> QED  BY <1>8, <2>1 DEF InBatch, SkippingHere
<1>15. BetweenBatches'  BY <1>2 DEF BetweenBatches
<1> QED  BY <1>1, <1>3, <1>4, <1>9, <1>10, <1>11, <1>12, <1>13, <1>14, <1>15 DEF IInv, Flags

LEMMA BatchEndKeeps == IInv /\ BatchEnd => IInv'
<1> SUFFICES ASSUME IInv, BatchEnd PROVE IInv'  OBVIOUS
<1> DEFINE n == Len(results)
<1>1. LayoutProper /\ Flat /\ Flags /\ SkipRule  BY DEF IInv
<1>2. /\ Flattened /\ UNCHANGED <<enabled, results>> /\ batch # 0 /\ (More => cases[next].batch # batch)
      /\ UNCHANGED <<layout, flat, cases, dependencies, requested>> /\ batch' = 0
      /\ passed' = PassedAfter /\ skipping' = KeepsSkipping
  BY DEF BatchEnd, Flattened
<1>3. LayoutProper' /\ Flat'  BY <1>1, <1>2, FlattenedKeeps
<1>4. /\ next' = next /\ Failed' = Failed
      /\ \A d, i : PassedBefore(d, i)' <=> PassedBefore(d, i)
      /\ Sticky' <=> Sticky
      /\ SkipRule' <=> SkipRule
      /\ EnabledRight' <=> EnabledRight
  BY <1>2, NoVerdict
<1>5. /\ next = n + 1 /\ n \in Nat /\ DOMAIN results = 1..n /\ n <= Len(cases) /\ Len(cases) \in Nat
      /\ DOMAIN cases = 1..Len(cases) /\ batch \in Nat
      /\ enabled \in BOOLEAN /\ skipping \in BOOLEAN /\ passed \subseteq Nat
  BY <1>1 DEF Flags, GradeType, Flat, FlatType, next
<1>6. n \in DOMAIN results /\ n \in DOMAIN cases /\ cases[n].batch = batch /\ n \in DoneHere
  <2>1. n > 0 /\ cases[n].batch = batch  BY <1>1, <1>2 DEF Flags, AtBatch
  <2> QED  BY <1>5, <2>1 DEF DoneHere
\* The batch is done.
<1>7. ASSUME NEW m \in DOMAIN cases, cases[m].batch = batch PROVE m <= n
  <2> SUFFICES ASSUME m > n PROVE FALSE  BY <1>5
  <2>1. next \in DOMAIN cases /\ n <= next /\ next <= m /\ More  BY <1>5 DEF More
  <2>2. cases[next].batch = batch  BY <1>1, <1>2, <1>6, <1>7, <2>1, Together
  <2> QED  BY <1>2, <2>1, <2>2
<1>8. CasesIn(batch) = DoneHere
  <2>1. \A j \in DOMAIN results : j \in DOMAIN cases  BY <1>5
  <2>2. \A m \in DOMAIN cases : cases[m].batch = batch => m \in DOMAIN results  BY <1>5, <1>7
  <2> QED  BY <2>1, <2>2 DEF CasesIn, DoneHere
<1>9. /\ skipping <=> Sticky \/ MissesDependency(batch) \/ DoneHere \cap Failed # {}
      /\ \A j \in DoneHere : Unmet(j) <=> MissesDependency(batch)
      /\ \A j \in DoneHere \cap Failed : \A m \in Failed : m <= j
      /\ skipping => \E j \in DoneHere : results[j] # "AC"
      /\ ~skipping => \A j \in DoneHere : results[j] = "AC"
  BY <1>1, <1>2, <1>6 DEF Flags, InBatch, SkippingHere
<1>10. GradeType'
  <2>1. skipping' \in BOOLEAN  BY <1>2, <1>5 DEF KeepsSkipping
  <2>2. passed' \subseteq Nat  BY <1>2, <1>5 DEF PassedAfter
  <2>3. /\ requested' \in BOOLEAN /\ enabled' \in BOOLEAN
        /\ results' \in Seq({"AC", "WA", "SC"}) /\ Len(results') <= Len(cases')
    BY <1>1, <1>2 DEF Flags, GradeType
  <2> QED  BY <1>2, <2>1, <2>2, <2>3 DEF GradeType
<1>11. NotBegun'
  <2>1. Ready /\ (Ready' <=> Ready)  BY <1>1, <1>2 DEF Flags, NotBegun, Ready
  <2> QED  BY <2>1 DEF NotBegun
<1>12. OneSplit'
  <2> SUFFICES ASSUME NEW j \in DOMAIN results, NEW m \in DOMAIN cases, m > n,
                      cases[j].batch = cases[m].batch, cases[j].batch # 0
               PROVE  FALSE
    BY <1>2 DEF OneSplit
  <2>1. cases[m].batch = batch  BY <1>1 DEF Flags, OneSplit
  <2> QED  BY <1>5, <1>7, <2>1
<1>13. AtBatch'  BY <1>2 DEF AtBatch
<1>14. PassedRight'
  <2> SUFFICES ASSUME NEW d \in Nat PROVE d \in passed' <=> d # 0 /\ PassedBefore(d, next)
    <3>1. PICK i : i = next  OBVIOUS
    <3>2. \A d \in Nat : d \in passed' <=> d # 0 /\ PassedBefore(d, i)'  BY <1>4, <3>1
    <3>3. i = next'  BY <1>4, <3>1
    <3> QED  BY <1>2, <3>2, <3>3 DEF PassedRight
  <2>1. d \in passed <=> d # batch /\ d # 0 /\ PassedBefore(d, next)
    BY <1>1 DEF Flags, PassedRight
  <2>2. d \in passed' <=> d \in passed \/ (~skipping /\ d = batch)  BY <1>2 DEF PassedAfter
  <2>3. PassedBefore(batch, next) <=> ~skipping
    <3>1. CasesIn(batch) # {} /\ \A j \in CasesIn(batch) : j < next
      BY <1>5, <1>6, <1>8 DEF DoneHere
    <3> QED  BY <1>8, <1>9, <3>1 DEF PassedBefore
  <2> QED  BY <1>2, <2>1, <2>2, <2>3
<1>15. BetweenBatches'
  <2>1. skipping' <=> skipping /\ enabled  BY <1>2, Zenon DEF KeepsSkipping
  <2>2. enabled <=> OnAfter(n)  BY <1>1 DEF Flags, EnabledRight
  <2>3. \A j \in DOMAIN results : OnAfter(j) => OnAfter(n)
    <3>1. \A j \in DOMAIN results, m \in Failed : m <= j => m <= n  BY <1>5 DEF Failed
    <3> QED  BY <3>1 DEF OnAfter
  <2>4. Sticky => enabled  BY <2>2, <2>3 DEF Sticky, Failed
  <2>5. enabled /\ MissesDependency(batch) => Sticky
    BY <1>6, <1>9, <2>2 DEF Sticky
  <2>6. enabled /\ DoneHere \cap Failed # {} => Sticky
    <3> SUFFICES ASSUME enabled, NEW j \in DoneHere \cap Failed PROVE OnAfter(j)
      BY DEF Sticky
    <3> QED  BY <1>9, <2>2 DEF OnAfter
  <2>7. skipping /\ enabled <=> Sticky  BY <1>9, <2>4, <2>5, <2>6
  <2> QED  BY <1>4, <2>1, <2>7 DEF BetweenBatches
<1>16. InBatch'  BY <1>2 DEF InBatch
<1> QED  BY <1>1, <1>3, <1>4, <1>10, <1>11, <1>12, <1>13, <1>14, <1>15, <1>16 DEF IInv, Flags
-----------------------------------------------------------------------------
(***************************************************************************)
(* The theorems.                                                           *)
(***************************************************************************)
LEMMA StepInv == IInv /\ [Next]_vars => IInv'
<1> SUFFICES ASSUME IInv, [Next]_vars PROVE IInv'  OBVIOUS
<1>1. CASE FlattenItem  BY <1>1, FlattenKeeps
<1>2. CASE BatchBegin  BY <1>2, BatchBeginKeeps
<1>3. CASE BatchEnd  BY <1>3, BatchEndKeeps
<1>4. CASE ShortCircuit
  <2>1. Verdict("SC")  BY <1>4 DEF ShortCircuit, Verdict, Flattened
  <2> QED  BY <2>1, VerdictKeeps
<1>5. CASE Pass
  <2>1. Verdict("AC")  BY <1>5 DEF Pass, Verdict, Flattened
  <2> QED  BY <2>1, VerdictKeeps
<1>6. CASE Fail
  <2>1. skipping' = (batch # 0 \/ enabled')  BY <1>6, Zenon DEF Fail, SkipsRest
  <2>2. enabled' = (enabled \/ cases[next].zero)  BY <1>6, Zenon DEF Fail
  <2>3. /\ Flattened /\ InGroup /\ ~skipping /\ results' = Append(results, "WA")
        /\ UNCHANGED <<passed, batch>>
    BY <1>6 DEF Fail, Flattened
  <2>4. Verdict("WA")  BY <2>1, <2>2, <2>3, Zenon DEF Verdict
  <2> QED  BY <2>4, VerdictKeeps
<1>7. CASE UNCHANGED vars
  <2>1. Flattened /\ UNCHANGED <<enabled, results, skipping, passed, batch>>
    BY <1>7 DEF vars, Flattened
  <2>2. LayoutProper' /\ Flat'  BY <2>1, FlattenedKeeps DEF IInv
  <2>3. UNCHANGED <<layout, flat, cases, dependencies, requested>>  BY <2>1 DEF Flattened
  <2>4. /\ next' = next /\ Failed' = Failed
        /\ \A d, i : PassedBefore(d, i)' <=> PassedBefore(d, i)
        /\ \A i : Unmet(i)' <=> Unmet(i)
        /\ Sticky' <=> Sticky
        /\ SkipRule' <=> SkipRule
        /\ EnabledRight' <=> EnabledRight
    BY <2>1, NoVerdict
  <2>5. GradeType' /\ NotBegun' /\ OneSplit' /\ AtBatch'
    BY <2>1, <2>3, <2>4 DEF IInv, Flags, GradeType, NotBegun, Ready, OneSplit, AtBatch, More
  <2>6. PassedRight'
    <3>1. PICK i : i = next  OBVIOUS
    <3>2. \A d \in Nat : d \in passed <=> d # batch /\ d # 0 /\ PassedBefore(d, i)'
      BY <2>4, <3>1 DEF IInv, Flags, PassedRight
    <3>3. i = next'  BY <2>4, <3>1
    <3> QED  BY <2>1, <3>2, <3>3 DEF PassedRight
  <2>7. skipping' <=> skipping  BY <2>1, Zenon
  <2>8. DoneHere' = DoneHere /\ (MissesDependency(batch)' <=> MissesDependency(batch))
    BY <2>1, <2>3 DEF DoneHere, MissesDependency
  <2>9. SkippingHere' <=> SkippingHere  BY <2>4, <2>7, <2>8 DEF SkippingHere
  <2>10. InBatch' /\ BetweenBatches'
    BY <2>1, <2>4, <2>7, <2>8, <2>9 DEF IInv, Flags, InBatch, BetweenBatches
  <2> QED  BY <2>2, <2>4, <2>5, <2>6, <2>10 DEF IInv, Flags
<1> QED  BY <1>1, <1>2, <1>3, <1>4, <1>5, <1>6, <1>7 DEF Next

\* The variables keep their types, a batch that passed being one that exists (_grade_cases).
THEOREM TypeCorrect == Spec => []TypeOK
<1>1. IInv => TypeOK
  <2> SUFFICES ASSUME IInv PROVE TypeOK  OBVIOUS
  <2>1. Flat /\ GradeType /\ PassedRight  BY DEF IInv, Flags
  <2>2. passed \subseteq DOMAIN dependencies
    <3> SUFFICES ASSUME NEW d \in passed PROVE d \in DOMAIN dependencies  OBVIOUS
    <3>1. d \in Nat /\ d # 0 /\ PassedBefore(d, next)  BY <2>1 DEF GradeType, PassedRight
    <3>2. PICK j \in DOMAIN cases : cases[j].batch = d  BY <3>1 DEF PassedBefore, CasesIn
    <3> QED  BY <2>1, <3>1, <3>2 DEF Flat, ItemsKept
  <2>3. dependencies \in Seq(SUBSET Nat)
    <3>1. dependencies \in Seq(SUBSET (Nat \ {0}))  BY <2>1 DEF Flat, FlatType
    <3> QED  BY <3>1
  <2> QED  BY <2>1, <2>2, <2>3 DEF TypeOK, Flat, FlatType, GradeType, CaseOf
<1> QED  BY InitInv, StepInv, <1>1, PTL DEF Spec

\* Every verdict is the rule's: a case is short-circuited exactly when an earlier failure in
\* its batch, an unmet dependency or an earlier stop says so (_grade_cases' four flags,
\* judge.py:498-546, are enough to know it).
THEOREM SkipRuleCorrect == Spec => []SkipRule
<1>1. IInv => SkipRule  BY DEF IInv
<1> QED  BY InitInv, StepInv, <1>1, PTL DEF Spec

LEMMA Respected == IInv => DependenciesRespected
<1> SUFFICES ASSUME IInv, ~BatchedPretests, NEW i \in Graded, ~ItemOf(i).pretest,
                    NEW k \in DOMAIN layout,
                    layout[k].pretest \/ layout[k].number \in ItemOf(i).dependencies,
                    NEW j \in DOMAIN cases, cases[j].item = k
             PROVE  j < i /\ results[j] = "AC"
  BY DEF DependenciesRespected, PassedFirst
<1> DEFINE m == cases[i].item
<1>1. LayoutProper /\ Flat /\ GradeType /\ SkipRule  BY DEF IInv, Flags
<1>2. /\ DOMAIN results = 1..Len(results) /\ DOMAIN cases = 1..Len(cases) /\ Len(results) \in Nat
      /\ Len(cases) \in Nat /\ Len(results) <= Len(cases)
      /\ results \in Seq({"AC", "WA", "SC"})
  BY <1>1 DEF GradeType, Flat, FlatType
<1>3. i \in DOMAIN results /\ i \in DOMAIN cases /\ results[i] # "SC"  BY <1>2 DEF Graded
<1>4. ~Skipped(i)  BY <1>1, <1>3 DEF SkipRule
<1>5. m \in DOMAIN layout /\ layout[m] \in ResolvedItem /\ layout[k] \in ResolvedItem
  <2>1. m \in 1..flat /\ flat \in 0..Len(layout)  BY <1>1, <1>3 DEF Flat, ItemsKept, FlatType
  <2>2. DOMAIN layout = 1..Len(layout) /\ Len(layout) \in Nat  BY <1>1 DEF LayoutProper, Proper
  <2>3. m \in DOMAIN layout  BY <2>1, <2>2
  <2> QED  BY <1>1, <2>3 DEF LayoutProper, Proper
<1>6. ItemOf(i) = layout[m]  BY DEF ItemOf
<1>7. CASE layout[k].number \in layout[m].dependencies
  <2>1. layout[k].number # 0  BY <1>5, <1>7 DEF ResolvedItem
  <2>2. layout[k].batched /\ layout[m].batched
    BY <1>1, <1>5, <1>7, <2>1 DEF LayoutProper, Proper
  <2>3. layout[k].number = Number(layout, 0, k)
    BY <1>1, <2>2 DEF LayoutProper, NumbersAgree, BatchedPretests
  <2>4. cases[j].batch = layout[k].number  BY <1>1, <2>2, <2>3 DEF Flat, ItemsKept
  <2>5. cases[i].batch \in DOMAIN dependencies /\ dependencies[cases[i].batch] = layout[m].dependencies
    BY <1>1, <1>3, <2>2 DEF Flat, ItemsKept
  <2>6. cases[i].batch # 0  BY <1>1, <2>5 DEF Flat, FlatType
  <2>7. ~Unmet(i)  BY <1>4 DEF Skipped
  <2>8. PassedBefore(layout[k].number, i)  BY <1>7, <2>5, <2>6, <2>7 DEF Unmet
  <2> QED  BY <2>4, <2>8 DEF PassedBefore, CasesIn
<1>8. CASE layout[k].pretest
  <2>1. ~layout[k].batched  BY <1>8 DEF BatchedPretests
  <2>2. cases[j].zero /\ cases[j].batch = 0  BY <1>1, <1>8, <2>1 DEF Flat, ItemsKept
  <2>3. k < m  BY <1>1, <1>5, <1>6, <1>8 DEF LayoutProper, Proper
  <2>4. j < i
    <3> SUFFICES ASSUME i <= j PROVE FALSE  BY <1>2, <1>3
    <3>1. m <= k  BY <1>1, <1>3 DEF Flat, InItemOrder
    <3>2. m \in Nat /\ k \in Nat  BY <1>5, <1>1 DEF LayoutProper, Proper
    <3> QED  BY <2>3, <3>1, <3>2
  <2>5. j \in DOMAIN results  BY <1>2, <1>3, <2>4
  <2>6. results[j] # "WA"
    <3> SUFFICES ASSUME results[j] = "WA" PROVE FALSE  OBVIOUS
    <3>1. j \in Failed /\ j <= j  BY <1>2, <2>5 DEF Failed
    <3>2. OnAfter(j)  BY <2>2, <3>1 DEF OnAfter
    <3> QED  BY <1>4, <2>4, <3>1, <3>2 DEF Skipped
  <2>7. results[j] # "SC"
    <3> SUFFICES ASSUME results[j] = "SC" PROVE FALSE  OBVIOUS
    <3>1. Skipped(j)  BY <1>1, <2>5 DEF SkipRule
    <3>2. ~Unmet(j)  BY <2>2 DEF Unmet
    <3>3. CASE \E h \in 1..j - 1 : Unmet(h) /\ OnAfter(h)
      <4>1. \A h \in 1..j - 1 : h \in 1..i - 1  BY <1>2, <1>3, <2>4, <2>5
      <4> QED  BY <1>4, <3>3, <4>1 DEF Skipped
    <3>4. CASE \E h \in Failed : h < j /\ (OnAfter(h) \/ (cases[h].batch # 0 /\ cases[h].batch = cases[j].batch))
      <4>1. PICK h \in Failed : h < j /\ OnAfter(h)  BY <2>2, <3>4
      <4>2. h < i  BY <1>2, <1>3, <2>4, <2>5, <4>1 DEF Failed
      <4> QED  BY <1>4, <4>1, <4>2 DEF Skipped
    <3> QED  BY <3>1, <3>2, <3>3, <3>4 DEF Skipped
  <2>8. results[j] \in {"AC", "WA", "SC"}  BY <1>2, <2>5
  <2> QED  BY <2>4, <2>6, <2>7, <2>8
<1> QED  BY <1>6, <1>7, <1>8

\* What a case waits for, the batches it depends on and the single pretests, has passed when
\* the case is graded (judge.py:503-507, problem.py:251 and 330-333), whatever the problem.
THEOREM DependenciesRespectedCorrect == Spec => []DependenciesRespected
  BY InitInv, StepInv, Respected, PTL DEF Spec

\* A batch passes by its cases being accepted and by nothing else: passed_batches holds no batch
\* that was skipped, failed or is still being graded (judge.py:538-546).
THEOREM PassedBatchesCorrect == Spec => []PassedRight
<1>1. IInv => PassedRight  BY DEF IInv, Flags
<1> QED  BY InitInv, StepInv, <1>1, PTL DEF Spec
=============================================================================
