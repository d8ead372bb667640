-------------------------- MODULE AlgorithmsProofs --------------------------
(***************************************************************************)
(* Theorems about the algorithms, for all file systems, rules, threads,    *)
(* calls, configurations, archives, cases and outputs.  The recursive      *)
(* functions are worked out by induction over sets of numbers              *)
(* (CheckersProofs): what a walk along a path finds (normpath, realpath),  *)
(* what a tree of rules holds after each rule (_add_rule) and where a      *)
(* descent in it ends (check).  From these follow what a policy answers,   *)
(* and what _access_check then lets through and does not refuse.           *)
(***************************************************************************)
EXTENDS Algorithms, CheckersProofs

(***************************************************************************)
(* Paths.                                                                  *)
(***************************************************************************)
LEMMA PathIs ==
    ASSUME NEW p \in Path
    PROVE  Len(p) \in Nat /\ DOMAIN p = 1..Len(p) /\ \A i \in 1..Len(p) : p[i] \in STRING
BY LenProperties, ElementOfSeq DEF Path

LEMMA PathEqual ==
    ASSUME NEW p \in Path, NEW q \in Path, Len(p) = Len(q), \A i \in 1..Len(p) : p[i] = q[i]
    PROVE  p = q
<1>1. p \in Seq(STRING) /\ q \in Seq(STRING)
  BY DEF Path
<1> QED  BY <1>1, SeqEqual, Zenon

\* Append, seen through an operator.
Longer(S, s, e) ==
    /\ Append(s, e) \in Seq(S) /\ Append(s, e) # <<>> /\ Len(Append(s, e)) = Len(s) + 1
    /\ \A i \in 1..Len(s) : Append(s, e)[i] = s[i]
    /\ Append(s, e)[Len(s) + 1] = e

LEMMA AppendIs == ASSUME NEW S, NEW s \in Seq(S), NEW e \in S PROVE Longer(S, s, e)
BY DEF Longer

LEMMA AppendPath ==
    ASSUME NEW p \in Path, NEW name \in STRING
    PROVE  /\ Append(p, name) \in Path /\ Append(p, name) # <<>> /\ Len(Append(p, name)) = Len(p) + 1
           /\ \A i \in 1..Len(p) : Append(p, name)[i] = p[i]
           /\ Append(p, name)[Len(p) + 1] = name
<1>1. Longer(STRING, p, name)
  BY AppendIs, Zenon DEF Path
<1> QED  BY <1>1, Zenon DEF Longer, Path

LEMMA ConcatPath ==
    ASSUME NEW p \in Path, NEW q \in Path
    PROVE  /\ p \o q \in Path /\ Len(p \o q) = Len(p) + Len(q)
           /\ \A i \in 1..(Len(p) + Len(q)) : (p \o q)[i] = IF i <= Len(p) THEN p[i] ELSE q[i - Len(p)]
BY ConcatProperties DEF Path

LEMMA EmptyPath == <<>> \in Path /\ Len(<<>>) = 0 /\ \A p \in Path : Len(p) = 0 <=> p = <<>>
BY EmptySeq, PathIs DEF Path

LEMMA SubPath ==
    ASSUME NEW p \in Path, NEW m \in 1..(Len(p) + 1), NEW n \in 0..Len(p), m <= n + 1
    PROVE  /\ SubSeq(p, m, n) \in Path /\ Len(SubSeq(p, m, n)) = n - m + 1
           /\ \A i \in 1..(n - m + 1) : SubSeq(p, m, n)[i] = p[m + i - 1]
<1>1. m \in Int /\ n \in Int /\ \A i \in m..n : p[i] \in STRING
  BY PathIs
<1>2. /\ SubSeq(p, m, n) \in Seq(STRING)
      /\ Len(SubSeq(p, m, n)) = IF m <= n THEN n - m + 1 ELSE 0
      /\ \A i \in 1..(n - m + 1) : SubSeq(p, m, n)[i] = p[m + i - 1]
  BY <1>1, SubSeqProperties
<1> QED  BY <1>1, <1>2, PathIs DEF Path

LEMMA PrefixOf ==
    ASSUME NEW p \in Path, NEW n \in 0..Len(p)
    PROVE  /\ SubSeq(p, 1, n) \in Path /\ Len(SubSeq(p, 1, n)) = n
           /\ \A i \in 1..n : SubSeq(p, 1, n)[i] = p[i]
<1>1. 1 \in 1..(Len(p) + 1) /\ 1 <= n + 1
  BY PathIs
<1> QED  BY <1>1, SubPath, PathIs

LEMMA PrefixEnds ==
    ASSUME NEW p \in Path PROVE SubSeq(p, 1, 0) = <<>> /\ SubSeq(p, 1, Len(p)) = p
<1>1. Len(p) \in Nat /\ 0 \in 0..Len(p) /\ Len(p) \in 0..Len(p)
  BY PathIs
<1>2. SubSeq(p, 1, 0) \in Path /\ Len(SubSeq(p, 1, 0)) = 0
  BY <1>1, PrefixOf
<1>3. /\ SubSeq(p, 1, Len(p)) \in Path /\ Len(SubSeq(p, 1, Len(p))) = Len(p)
      /\ \A i \in 1..Len(p) : SubSeq(p, 1, Len(p))[i] = p[i]
  BY <1>1, PrefixOf
<1>4. SubSeq(p, 1, Len(p)) = p
  BY <1>3, PathEqual
<1> QED  BY <1>2, <1>4, EmptyPath

LEMMA PrefixNext ==
    ASSUME NEW p \in Path, NEW n \in 1..Len(p)
    PROVE  /\ Append(SubSeq(p, 1, n - 1), p[n]) = SubSeq(p, 1, n)
           /\ Front(SubSeq(p, 1, n)) = SubSeq(p, 1, n - 1)
<1>1. n - 1 \in 0..Len(p) /\ n \in 0..Len(p) /\ p[n] \in STRING
  BY PathIs
<1> DEFINE a == SubSeq(p, 1, n - 1)
           b == SubSeq(p, 1, n)
<1>2. /\ a \in Path /\ Len(a) = n - 1 /\ \A i \in 1..(n - 1) : a[i] = p[i]
      /\ b \in Path /\ Len(b) = n /\ \A i \in 1..n : b[i] = p[i]
  BY <1>1, PrefixOf
<1> HIDE DEF a, b
<1>3. Append(a, p[n]) = b
  <2>0. Len(a) + 1 = n
    BY <1>1, <1>2
  <2>1. /\ Append(a, p[n]) \in Path /\ Len(Append(a, p[n])) = n
        /\ \A i \in 1..(n - 1) : Append(a, p[n])[i] = a[i]
        /\ Append(a, p[n])[n] = p[n]
    <3>1. /\ Append(a, p[n]) \in Path /\ Len(Append(a, p[n])) = Len(a) + 1
          /\ \A i \in 1..Len(a) : Append(a, p[n])[i] = a[i]
          /\ Append(a, p[n])[Len(a) + 1] = p[n]
      BY <1>1, <1>2, AppendPath
    <3> QED  BY <1>2, <2>0, <3>1
  <2>2. \A i \in 1..n : Append(a, p[n])[i] = b[i]
    BY <1>1, <1>2, <2>1
  <2> QED  BY <1>2, <2>1, <2>2, PathEqual
<1>4. n - 1 \in 0..Len(b)
  BY <1>1, <1>2
<1>5. SubSeq(b, 1, n - 1) \in Path /\ Len(SubSeq(b, 1, n - 1)) = n - 1
      /\ \A i \in 1..(n - 1) : SubSeq(b, 1, n - 1)[i] = b[i]
  BY <1>2, <1>4, PrefixOf
<1>6. SubSeq(b, 1, n - 1) = a
  <2>1. \A i \in 1..Len(a) : SubSeq(b, 1, n - 1)[i] = a[i]
    BY <1>1, <1>2, <1>5
  <2> QED  BY <1>2, <1>5, <2>1, PathEqual
<1> QED  BY <1>2, <1>3, <1>6 DEF a, b, Front

LEMMA PrefixIs ==
    ASSUME NEW p \in Path, NEW q \in Path
    PROVE  /\ IsPrefix(p, q) <=> Len(p) <= Len(q) /\ SubSeq(q, 1, Len(p)) = p
           /\ IsPrefix(p, q) <=> Len(p) <= Len(q) /\ \A i \in 1..Len(p) : p[i] = q[i]
<1>1. Len(p) \in Nat /\ Len(q) \in Nat
  BY PathIs
<1>2. SubSeq(p, 1, Len(p)) = p
  BY PrefixEnds
<1>3. ASSUME Len(p) <= Len(q)
      PROVE  SubSeq(q, 1, Len(p)) = p <=> \A i \in 1..Len(p) : p[i] = q[i]
  <2>1. Len(p) \in 0..Len(q)
    BY <1>1, <1>3
  <2>2. /\ SubSeq(q, 1, Len(p)) \in Path /\ Len(SubSeq(q, 1, Len(p))) = Len(p)
        /\ \A i \in 1..Len(p) : SubSeq(q, 1, Len(p))[i] = q[i]
    BY <2>1, PrefixOf
  <2> QED  BY <2>2, PathEqual
<1> QED  BY <1>2, <1>3 DEF IsPrefix

(***************************************************************************)
(* Where a path leads.                                                     *)
(***************************************************************************)
LinksTyped(fs) == \A p \in DOMAIN fs : fs[p].to \in Path

NoDots(p) == \A i \in 1..Len(p) : p[i] # ".."

LEMMA DotsAre == ASSUME NEW p \in Path PROVE ".." \notin ToSet(p) <=> NoDots(p)
BY PathIs DEF ToSet, NoDots

LEMMA FrontOf ==
    ASSUME NEW p \in Path, p # <<>>
    PROVE  /\ Front(p) \in Path /\ Len(Front(p)) = Len(p) - 1 /\ Len(p) \in Nat \ {0}
           /\ Front(p) = SubSeq(p, 1, Len(p) - 1)
           /\ \A i \in 1..(Len(p) - 1) : Front(p)[i] = p[i]
<1>1. Len(p) \in Nat /\ Len(p) # 0
  BY PathIs, EmptyPath
<1>2. Len(p) - 1 \in 0..Len(p)
  BY <1>1
<1> QED  BY <1>1, <1>2, PrefixOf DEF Front

LEMMA FrontOfAppend ==
    ASSUME NEW p \in Path, NEW name \in STRING PROVE Front(Append(p, name)) = p
<1> DEFINE a == Append(p, name)
<1>1. a \in Path /\ a # <<>> /\ Len(a) = Len(p) + 1 /\ \A i \in 1..Len(p) : a[i] = p[i]
  BY AppendPath
<1> HIDE DEF a
<1>2. Len(a) - 1 = Len(p)
  BY <1>1, PathIs
<1>3. Front(a) \in Path /\ Len(Front(a)) = Len(a) - 1 /\ \A i \in 1..(Len(a) - 1) : Front(a)[i] = a[i]
  BY <1>1, FrontOf
<1>4. Len(Front(a)) = Len(p) /\ \A i \in 1..Len(p) : Front(a)[i] = p[i]
  BY <1>1, <1>2, <1>3
<1> QED  BY <1>3, <1>4, PathEqual DEF a

LEMMA StepType ==
    ASSUME NEW fs, LinksTyped(fs), NEW at \in Path, NEW name \in STRING
    PROVE  StepTo(fs, at, name) \in Path
BY AppendPath, FrontOf, EmptyPath DEF StepTo, Parent, Follow, IsLink, LinksTyped

LEMMA WalkIs ==
    ASSUME NEW fs, LinksTyped(fs), NEW p \in Path
    PROVE  /\ Walk(fs, p) \in [0..Len(p) -> Path]
           /\ Walk(fs, p)[0] = <<>>
           /\ \A n \in 1..Len(p) : Walk(fs, p)[n] = StepTo(fs, Walk(fs, p)[n - 1], p[n])
           /\ RealPath(fs, p) = Walk(fs, p)[Len(p)] /\ RealPath(fs, p) \in Path
<1> DEFINE k == Len(p)
           step == [n \in 1..k |-> [x \in Path |-> StepTo(fs, x, p[n])]]
           Is(g) == g = [n \in 0..k |-> IF n = 0 THEN <<>> ELSE StepTo(fs, g[n - 1], p[n])]
           w == Walk(fs, p)
<1>1. k \in Nat /\ <<>> \in Path
  BY PathIs, EmptyPath
<1>2. step \in [1..k -> [Path -> Path]]
  <2> SUFFICES ASSUME NEW n \in 1..k, NEW x \in Path PROVE StepTo(fs, x, p[n]) \in Path
    OBVIOUS
  <2>1. p[n] \in STRING
    BY PathIs
  <2> QED  BY <2>1, StepType
<1>3. PICK g \in [0..k -> Path] : Recursion(g, <<>>, k, step)
  <2> HIDE DEF step, k
  <2> QED  BY <1>1, <1>2, RecursionExists
<1>4. g[0] = <<>> /\ \A n \in 1..k : g[n] = StepTo(fs, g[n - 1], p[n])
  <2> SUFFICES ASSUME NEW n \in 1..k PROVE step[n][g[n - 1]] = StepTo(fs, g[n - 1], p[n])
    BY <1>3 DEF Recursion
  <2>1. g[n - 1] \in Path
    BY <1>1
  <2> QED  BY <2>1
<1>5. Is(g)
  BY <1>4
<1>6. Is(w)
  BY <1>5 DEF Walk
<1>7. w = g
  <2> DEFINE T == {n \in Nat : n <= k => w[n] = g[n]}
  <2> HIDE DEF w
  <2>1. 0 \in T
    BY <1>1, <1>5, <1>6
  <2>2. \A n \in Nat : n \in T => n + 1 \in T
    BY <1>1, <1>5, <1>6
  <2>3. Nat \subseteq T
    BY <2>1, <2>2, NatUpto
  <2> QED  BY <2>3, <1>5, <1>6
<1>8. w \in [0..k -> Path]
  BY <1>7
<1>9. w[0] = <<>> /\ \A n \in 1..k : w[n] = StepTo(fs, w[n - 1], p[n])
  BY <1>1, <1>4, <1>7
<1> QED  BY <1>1, <1>8, <1>9 DEF RealPath

\* Two walks that meet and take the same steps go to the same places.
Together(fs, gs, p, q, i, k) ==
    /\ i \in Nat /\ k \in Nat /\ k <= Len(p) /\ k <= Len(q) /\ i <= k
    /\ Walk(fs, p)[i] = Walk(gs, q)[i]
    /\ \A n \in (i + 1)..k :
          StepTo(fs, Walk(fs, p)[n - 1], p[n]) = StepTo(gs, Walk(fs, p)[n - 1], q[n])

LEMMA SameWalk ==
    ASSUME NEW fs, LinksTyped(fs), NEW gs, LinksTyped(gs), NEW p \in Path, NEW q \in Path,
           NEW i, NEW k, Together(fs, gs, p, q, i, k)
    PROVE  Walk(fs, p)[k] = Walk(gs, q)[k]
<1> DEFINE v == Walk(fs, p)
           w == Walk(gs, q)
           T == {n \in Nat : i <= n /\ n <= k => v[n] = w[n]}
<1>1. \A n \in 1..Len(p) : v[n] = StepTo(fs, v[n - 1], p[n])
  BY WalkIs
<1>2. \A n \in 1..Len(q) : w[n] = StepTo(gs, w[n - 1], q[n])
  BY WalkIs
<1>3. v[i] = w[i] /\ \A n \in (i + 1)..k : StepTo(fs, v[n - 1], p[n]) = StepTo(gs, v[n - 1], q[n])
  BY DEF Together
<1>4. /\ Len(p) \in Nat /\ Len(q) \in Nat
      /\ i \in Nat /\ k \in Nat /\ k <= Len(p) /\ k <= Len(q) /\ i <= k
  BY PathIs DEF Together
<1> HIDE DEF v, w
<1>5. 0 \in T
  BY <1>3, <1>4
<1>6. ASSUME NEW n \in Nat, n \in T PROVE n + 1 \in T
  <2> SUFFICES ASSUME i <= n + 1, n + 1 <= k PROVE v[n + 1] = w[n + 1]
    OBVIOUS
  <2>1. CASE i = n + 1
    BY <1>3, <2>1
  <2>2. CASE i <= n
    <3>1. n + 1 \in 1..Len(p) /\ n + 1 \in 1..Len(q) /\ n + 1 \in (i + 1)..k /\ (n + 1) - 1 = n
      BY <1>4, <2>2
    <3>2. v[n + 1] = StepTo(fs, v[n], p[n + 1])
      BY <1>1, <3>1
    <3>3. w[n + 1] = StepTo(gs, w[n], q[n + 1])
      BY <1>2, <3>1
    <3>4. StepTo(fs, v[n], p[n + 1]) = StepTo(gs, v[n], q[n + 1])
      BY <1>3, <3>1
    <3>5. v[n] = w[n]
      BY <1>4, <1>6, <2>2
    <3> QED  BY <3>2, <3>3, <3>4, <3>5
  <2> QED  BY <1>4, <2>1, <2>2
<1>7. Nat \subseteq T
  <2> HIDE DEF T
  <2> QED  BY <1>5, <1>6, NatUpto
<1> QED  BY <1>4, <1>7 DEF v, w

\* The way to the end of a path leads through the ends of its beginnings.
LEMMA WalkPrefix ==
    ASSUME NEW fs, LinksTyped(fs), NEW p \in Path, NEW n \in 0..Len(p)
    PROVE  RealPath(fs, SubSeq(p, 1, n)) = Walk(fs, p)[n]
<1> DEFINE q == SubSeq(p, 1, n)
<1>1. q \in Path /\ Len(q) = n /\ \A i \in 1..n : q[i] = p[i]
  BY PrefixOf
<1>2. n \in Nat /\ Len(p) \in Nat /\ 0 \in Nat /\ n <= Len(p) /\ 0 <= n
  BY PathIs
<1> HIDE DEF q
<1>3. n <= Len(q)
  BY <1>1, <1>2
<1>4. Walk(fs, p)[0] = Walk(fs, q)[0]
  BY <1>1, WalkIs
<1>5. \A m \in (0 + 1)..n : StepTo(fs, Walk(fs, p)[m - 1], p[m]) = StepTo(fs, Walk(fs, p)[m - 1], q[m])
  BY <1>1, <1>2
<1>6. Together(fs, fs, p, q, 0, n)
  BY <1>2, <1>3, <1>4, <1>5 DEF Together
<1>7. Walk(fs, p)[n] = Walk(fs, q)[n]
  BY <1>1, <1>6, SameWalk
<1> QED  BY <1>1, <1>7, WalkIs DEF q

(***************************************************************************)
(* os.path.normpath and os.path.realpath.                                  *)
(***************************************************************************)
LEMMA AppendNoDots ==
    ASSUME NEW p \in Path, NoDots(p), NEW name \in STRING, name # ".."
    PROVE  NoDots(Append(p, name))
BY AppendPath, PathIs DEF NoDots

LEMMA PrefixNoDots ==
    ASSUME NEW p \in Path, NoDots(p), NEW n \in 0..Len(p) PROVE NoDots(SubSeq(p, 1, n))
BY PrefixOf, PathIs DEF NoDots

LEMMA ParentOf ==
    ASSUME NEW p \in Path
    PROVE  \E n \in 0..Len(p) : Parent(p) = SubSeq(p, 1, n)
<1>1. Len(p) \in Nat
  BY PathIs
<1>2. CASE p = <<>>
  BY <1>1, <1>2, PrefixEnds DEF Parent
<1>3. CASE p # <<>>
  BY <1>1, <1>3, FrontOf DEF Parent
<1> QED  BY <1>2, <1>3

LEMMA NoFilesIs == LinksTyped(NoFiles) /\ \A p : ~IsLink(NoFiles, p)
BY DEF LinksTyped, NoFiles, IsLink

\* A normalized path has no .., and a path without .. is normalized.
LEMMA NormHasNoDots ==
    ASSUME NEW p \in Path PROVE NormPath(p) \in Path /\ NoDots(NormPath(p))
<1> DEFINE w == Walk(NoFiles, p)
           T == {n \in 0..Len(p) : NoDots(w[n])}
<1>1. /\ Len(p) \in Nat /\ w \in [0..Len(p) -> Path] /\ w[0] = <<>>
      /\ \A n \in 1..Len(p) : w[n] = StepTo(NoFiles, w[n - 1], p[n])
      /\ NormPath(p) = w[Len(p)]
  BY PathIs, NoFilesIs, WalkIs DEF NormPath
<1> HIDE DEF w
<1>2. 0 \in T
  BY <1>1, EmptyPath DEF NoDots
<1>3. ASSUME NEW n \in 0..(Len(p) - 1), n \in T PROVE n + 1 \in T
  <2>1. n + 1 \in 1..Len(p) /\ n + 1 \in 0..Len(p) /\ (n + 1) - 1 = n /\ w[n] \in Path /\ NoDots(w[n])
    BY <1>1, <1>3
  <2>2. w[n + 1] = StepTo(NoFiles, w[n], p[n + 1]) /\ p[n + 1] \in STRING
    BY <1>1, <2>1, PathIs
  <2>3. CASE p[n + 1] = ".."
    <3>1. w[n + 1] = Parent(w[n])
      BY <2>2, <2>3 DEF StepTo
    <3> QED  BY <2>1, <3>1, ParentOf, PrefixNoDots
  <2>4. CASE p[n + 1] # ".."
    <3>1. w[n + 1] = Append(w[n], p[n + 1])
      BY <2>2, <2>4, NoFilesIs DEF StepTo, Follow
    <3> QED  BY <2>1, <2>2, <2>4, <3>1, AppendNoDots
  <2> QED  BY <2>3, <2>4
<1>4. Len(p) \in T
  <2> HIDE DEF T
  <2>1. 0..Len(p) \subseteq T
    BY <1>1, <1>2, <1>3, UptoInduction
  <2> QED  BY <1>1, <2>1
<1> QED  BY <1>1, <1>4

\* A path without .. and links leads to itself.
LEMMA WalkOfCanonical ==
    ASSUME NEW fs, LinksTyped(fs), NEW p \in Path, NEW k \in 0..Len(p),
           \A n \in 1..k : p[n] # ".." /\ ~IsLink(fs, SubSeq(p, 1, n))
    PROVE  Walk(fs, p)[k] = SubSeq(p, 1, k)
<1> DEFINE w == Walk(fs, p)
           T == {n \in 0..k : w[n] = SubSeq(p, 1, n)}
<1>1. /\ Len(p) \in Nat /\ k \in Nat /\ w[0] = <<>>
      /\ \A n \in 1..Len(p) : w[n] = StepTo(fs, w[n - 1], p[n])
  BY PathIs, WalkIs
<1> HIDE DEF w
<1>2. 0 \in T
  <2>1. SubSeq(p, 1, 0) = <<>> /\ 0 \in 0..k
    BY <1>1, PrefixEnds
  <2> QED  BY <1>1, <2>1
<1>3. ASSUME NEW n \in 0..(k - 1), n \in T PROVE n + 1 \in T
  <2>1. n + 1 \in 1..Len(p) /\ n + 1 \in 1..k /\ n + 1 \in 0..k /\ (n + 1) - 1 = n /\ w[n] = SubSeq(p, 1, n)
    BY <1>1, <1>3
  <2>2. w[n + 1] = StepTo(fs, SubSeq(p, 1, n), p[n + 1])
    BY <1>1, <2>1
  <2>3. Append(SubSeq(p, 1, n), p[n + 1]) = SubSeq(p, 1, n + 1)
    BY <2>1, PrefixNext
  <2>4. p[n + 1] # ".." /\ ~IsLink(fs, SubSeq(p, 1, n + 1))
    BY <2>1
  <2>5. w[n + 1] = SubSeq(p, 1, n + 1)
    BY <2>2, <2>3, <2>4 DEF StepTo, Follow
  <2> QED  BY <2>1, <2>5
<1>4. k \in T
  <2> HIDE DEF T
  <2>1. 0..k \subseteq T
    BY <1>1, <1>2, <1>3, UptoInduction
  <2> QED  BY <1>1, <2>1
<1> QED  BY <1>4 DEF w

LEMMA NormOfNoDots ==
    ASSUME NEW p \in Path, NoDots(p) PROVE NormPath(p) = p
<1>1. Len(p) \in 0..Len(p)
  BY PathIs
<1>2. Walk(NoFiles, p)[Len(p)] = SubSeq(p, 1, Len(p))
  BY <1>1, NoFilesIs, WalkOfCanonical DEF NoDots
<1> QED  BY <1>2, PrefixEnds DEF NormPath, RealPath

LEMMA RealOfCanonical ==
    ASSUME NEW fs, LinksTyped(fs), NEW p, Canonical(fs, p) PROVE RealPath(fs, p) = p
<1>1. p \in Path /\ NoDots(p) /\ \A n \in 1..Len(p) : ~IsLink(fs, SubSeq(p, 1, n))
  BY DotsAre DEF Canonical
<1>2. Len(p) \in 0..Len(p)
  BY <1>1, PathIs
<1>3. Walk(fs, p)[Len(p)] = SubSeq(p, 1, Len(p))
  BY <1>1, <1>2, WalkOfCanonical DEF NoDots
<1> QED  BY <1>1, <1>3, PrefixEnds DEF RealPath

LEMMA WellFormedTyped == ASSUME NEW fs, WellFormed(fs) PROVE LinksTyped(fs)
BY DEF WellFormed, LinksTyped

LEMMA PrefixCanonical ==
    ASSUME NEW fs, NEW p, Canonical(fs, p), NEW k \in 0..Len(p) PROVE Canonical(fs, SubSeq(p, 1, k))
<1>1. p \in Path /\ NoDots(p) /\ \A n \in 1..Len(p) : ~IsLink(fs, SubSeq(p, 1, n))
  BY DotsAre DEF Canonical
<1> DEFINE q == SubSeq(p, 1, k)
<1>2. q \in Path /\ Len(q) = k /\ NoDots(q) /\ Len(p) \in Nat /\ k \in Nat /\ \A i \in 1..k : q[i] = p[i]
  BY <1>1, PrefixOf, PrefixNoDots, PathIs
<1>3. ASSUME NEW n \in 1..k PROVE SubSeq(q, 1, n) = SubSeq(p, 1, n)
  <2>1. n \in 0..Len(p) /\ n \in 0..Len(q)
    BY <1>2
  <2> HIDE DEF q
  <2>2. /\ SubSeq(q, 1, n) \in Path /\ Len(SubSeq(q, 1, n)) = n /\ \A i \in 1..n : SubSeq(q, 1, n)[i] = q[i]
        /\ SubSeq(p, 1, n) \in Path /\ Len(SubSeq(p, 1, n)) = n /\ \A i \in 1..n : SubSeq(p, 1, n)[i] = p[i]
    BY <1>1, <1>2, <2>1, PrefixOf
  <2>3. \A i \in 1..n : q[i] = p[i]
    BY <1>2
  <2> QED  BY <2>2, <2>3, PathEqual
<1>4. \A n \in 1..Len(q) : ~IsLink(fs, SubSeq(q, 1, n))
  <2> SUFFICES ASSUME NEW n \in 1..k PROVE ~IsLink(fs, SubSeq(q, 1, n))
    BY <1>2
  <2>1. n \in 1..Len(p)
    BY <1>2
  <2> QED  BY <1>1, <1>3, <2>1
<1> QED  BY <1>2, <1>4, DotsAre DEF Canonical

LEMMA AppendCanonical ==
    ASSUME NEW fs, NEW p, Canonical(fs, p), NEW name \in STRING, name # "..", ~IsLink(fs, Append(p, name))
    PROVE  Canonical(fs, Append(p, name))
<1> DEFINE q == Append(p, name)
<1>1. p \in Path /\ NoDots(p) /\ Len(p) \in Nat /\ \A n \in 1..Len(p) : ~IsLink(fs, SubSeq(p, 1, n))
  BY DotsAre, PathIs DEF Canonical
<1>2. q \in Path /\ NoDots(q) /\ Len(q) = Len(p) + 1 /\ \A i \in 1..Len(p) : q[i] = p[i]
  BY <1>1, AppendPath, AppendNoDots
<1>3. ~IsLink(fs, q)
  OBVIOUS
<1> HIDE DEF q
<1>4. ASSUME NEW n \in 1..Len(q) PROVE ~IsLink(fs, SubSeq(q, 1, n))
  <2>1. CASE n = Len(q)
    BY <1>2, <1>3, <2>1, PrefixEnds
  <2>2. CASE n # Len(q)
    <3>1. n \in 1..Len(p) /\ n \in 0..Len(p) /\ n \in 0..Len(q)
      BY <1>1, <1>2, <2>2
    <3>2. /\ SubSeq(q, 1, n) \in Path /\ Len(SubSeq(q, 1, n)) = n /\ \A i \in 1..n : SubSeq(q, 1, n)[i] = q[i]
          /\ SubSeq(p, 1, n) \in Path /\ Len(SubSeq(p, 1, n)) = n /\ \A i \in 1..n : SubSeq(p, 1, n)[i] = p[i]
      BY <1>1, <1>2, <3>1, PrefixOf
    <3>3. \A i \in 1..n : q[i] = p[i]
      BY <1>1, <1>2, <3>1
    <3>4. SubSeq(q, 1, n) = SubSeq(p, 1, n)
      BY <3>2, <3>3, PathEqual
    <3> QED  BY <1>1, <3>1, <3>4
  <2> QED  BY <2>1, <2>2
<1> QED  BY <1>2, <1>4, DotsAre DEF Canonical, q

\* Where a path leads is written without links.
LEMMA RealIsCanonical ==
    ASSUME NEW fs, WellFormed(fs), NEW p \in Path
    PROVE  \A n \in 0..Len(p) : Canonical(fs, Walk(fs, p)[n])
<1> DEFINE w == Walk(fs, p)
           T == {n \in 0..Len(p) : Canonical(fs, w[n])}
<1>1. /\ Len(p) \in Nat /\ w[0] = <<>> /\ w \in [0..Len(p) -> Path]
      /\ \A n \in 1..Len(p) : w[n] = StepTo(fs, w[n - 1], p[n])
  BY PathIs, WalkIs, WellFormedTyped
<1> HIDE DEF w
<1>2. 0 \in T
  BY <1>1, EmptyPath, DotsAre DEF Canonical, NoDots
<1>3. ASSUME NEW n \in 0..(Len(p) - 1), n \in T PROVE n + 1 \in T
  <2>1. n + 1 \in 1..Len(p) /\ n + 1 \in 0..Len(p) /\ (n + 1) - 1 = n /\ w[n] \in Path /\ Canonical(fs, w[n])
    BY <1>1, <1>3
  <2>2. w[n + 1] = StepTo(fs, w[n], p[n + 1]) /\ p[n + 1] \in STRING
    BY <1>1, <2>1, PathIs
  <2>3. CASE p[n + 1] = ".."
    BY <2>1, <2>2, <2>3, ParentOf, PrefixCanonical DEF StepTo
  <2>4. CASE p[n + 1] # ".." /\ IsLink(fs, Append(w[n], p[n + 1]))
    BY <2>1, <2>2, <2>4 DEF StepTo, Follow, IsLink, WellFormed
  <2>5. CASE p[n + 1] # ".." /\ ~IsLink(fs, Append(w[n], p[n + 1]))
    BY <2>1, <2>2, <2>5, AppendCanonical DEF StepTo, Follow
  <2> QED  BY <2>3, <2>4, <2>5
<1>4. 0..Len(p) \subseteq T
  <2> HIDE DEF T
  <2> QED  BY <1>1, <1>2, <1>3, UptoInduction
<1> QED  BY <1>4 DEF w

LEMMA RealOfReal ==
    ASSUME NEW fs, WellFormed(fs), NEW p \in Path
    PROVE  /\ RealPath(fs, p) \in Path /\ Canonical(fs, RealPath(fs, p)) /\ NoDots(RealPath(fs, p))
           /\ RealPath(fs, RealPath(fs, p)) = RealPath(fs, p)
<1>1. LinksTyped(fs) /\ Len(p) \in 0..Len(p)
  BY WellFormedTyped, PathIs
<1>2. RealPath(fs, p) = Walk(fs, p)[Len(p)] /\ RealPath(fs, p) \in Path
  BY <1>1, WalkIs
<1>3. Canonical(fs, RealPath(fs, p))
  BY <1>1, <1>2, RealIsCanonical
<1> QED  BY <1>1, <1>2, <1>3, RealOfCanonical, DotsAre DEF Canonical

\* What is above a file that exists is a directory.
LEMMA AboveIsDir ==
    ASSUME NEW fs, WellFormed(fs), NEW p \in Path, NoDots(p), Exists(fs, p), NEW k \in 0..Len(p)
    PROVE  Exists(fs, SubSeq(p, 1, k)) /\ (k # Len(p) => IsDir(fs, SubSeq(p, 1, k)))
<1> DEFINE w == Walk(fs, p)
           l == Len(p)
           T == {n \in Nat : n <= l => w[l - n] \in DOMAIN fs /\ (n # 0 => fs[w[l - n]].kind = "dir")}
<1>1. /\ l \in Nat /\ w \in [0..l -> Path] /\ \A n \in 1..l : w[n] = StepTo(fs, w[n - 1], p[n])
      /\ w[l] \in DOMAIN fs
  BY PathIs, WalkIs, WellFormedTyped DEF Exists
<1>2. \A n \in 0..l : RealPath(fs, SubSeq(p, 1, n)) = w[n]
  BY WalkPrefix, WellFormedTyped
<1>3. \A n \in 1..l : p[n] # ".." /\ p[n] \in STRING
  BY PathIs DEF NoDots
<1> HIDE DEF w, l
<1>4. 0 \in T
  BY <1>1
<1>5. ASSUME NEW n \in Nat, n \in T PROVE n + 1 \in T
  <2> SUFFICES ASSUME n + 1 <= l PROVE w[l - (n + 1)] \in DOMAIN fs /\ fs[w[l - (n + 1)]].kind = "dir"
    OBVIOUS
  <2> DEFINE m == l - n
  <2>1. m \in 1..l /\ m - 1 \in 0..l /\ m - 1 = l - (n + 1) /\ w[m] \in DOMAIN fs
    BY <1>1, <1>5
  <2> HIDE DEF m
  <2>2. w[m] = StepTo(fs, w[m - 1], p[m]) /\ w[m - 1] \in Path /\ p[m] # ".." /\ p[m] \in STRING
    BY <1>1, <1>3, <2>1
  <2>3. Append(w[m - 1], p[m]) \in DOMAIN fs
    BY <2>1, <2>2 DEF StepTo, Follow, IsLink
  <2>4. Append(w[m - 1], p[m]) # <<>> /\ Front(Append(w[m - 1], p[m])) = w[m - 1]
    BY <2>2, AppendPath, FrontOfAppend
  <2>5. w[m - 1] \in DOMAIN fs /\ fs[w[m - 1]].kind = "dir"
    BY <2>3, <2>4 DEF WellFormed
  <2> QED  BY <2>1, <2>5
<1>6. Nat \subseteq T
  <2> HIDE DEF T
  <2> QED  BY <1>4, <1>5, NatUpto
<1>7. l - k \in Nat /\ l - k <= l /\ l - (l - k) = k /\ (k # l => l - k # 0) /\ k \in 0..l
  BY <1>1 DEF l
<1>8. w[k] \in DOMAIN fs /\ (k # l => fs[w[k]].kind = "dir")
  BY <1>6, <1>7
<1> QED  BY <1>2, <1>7, <1>8 DEF Exists, IsDir, l

(***************************************************************************)
(* The tree of a policy.                                                   *)
(***************************************************************************)
Entries == {"file", "none", "exact", "recursive"}
AllTrees == UNION {[D -> Entries] : D \in SUBSET Path}

\* A rule with a normalized path, and one that its constructor lets pass and that counts.
RuleTyped(r) ==
    /\ r = Rule(r.type, r.path) /\ r.type \in {"file", "exact", "recursive"}
    /\ r.path \in Path /\ NoDots(r.path)

Counts(fs, r) == RuleTyped(r) /\ Exists(fs, r.path) /\ RuleStands(fs, r)

\* The nodes are files and directories that exist, each below a directory of the tree.
TreeShape(fs, tree) ==
    /\ <<>> \in DOMAIN tree /\ tree \in AllTrees
    /\ \A p \in DOMAIN tree : NoDots(p) /\ Exists(fs, p) /\ (tree[p] = "file" <=> ~IsDir(fs, p))
    /\ \A p \in DOMAIN tree : p # <<>> => Front(p) \in DOMAIN tree

\* The tree says what the rules say.
TreeSays(force, tree) ==
    /\ \A r \in force :
          /\ r.path \in DOMAIN tree /\ tree[r.path] # "none"
          /\ r.type = "recursive" => tree[r.path] = "recursive"
    /\ \A p \in DOMAIN tree :
          tree[p] # "none" => \E r \in force : r.path = p /\ (tree[p] = "recursive" => r.type = "recursive")

LEMMA TreeType ==
    ASSUME NEW tree \in AllTrees
    PROVE  DOMAIN tree \subseteq Path /\ \A p \in DOMAIN tree : tree[p] \in Entries
BY DEF AllTrees

LEMMA MorePermissiveIs ==
    ASSUME NEW m \in {"none", "exact", "recursive"}, NEW n \in {"exact", "recursive"}
    PROVE  /\ MorePermissive(m, n) \in {"exact", "recursive"}
           /\ MorePermissive(m, n) = "recursive" <=> m = "recursive" \/ n = "recursive"
<1>1. Modes[1] = "none" /\ Modes[2] = "exact" /\ Modes[3] = "recursive"
  BY DEF Modes
<1>2. CASE m = "none"
  BY <1>1, <1>2 DEF MorePermissive
<1>3. CASE m = "exact"
  BY <1>1, <1>3 DEF MorePermissive
<1>4. CASE m = "recursive"
  BY <1>1, <1>4 DEF MorePermissive
<1> QED  BY <1>2, <1>3, <1>4

\* What Insert makes of a tree.
NodeAfter(tree, r) ==
    IF r.type = "file" THEN "file" ELSE MorePermissive(Get(tree, r.path, "none"), r.type)

AboveOf(p) == {SubSeq(p, 1, n) : n \in 0..(Len(p) - 1)}

Joined(tree, r, new) ==
    /\ DOMAIN new = {r.path} \cup DOMAIN tree \cup AboveOf(r.path)
    /\ new[r.path] = NodeAfter(tree, r)
    /\ \A p \in DOMAIN tree : p # r.path => new[p] = tree[p]
    /\ \A p \in AboveOf(r.path) : p # r.path /\ p \notin DOMAIN tree => new[p] = "none"

Inserted(tree, r) ==
    [p \in {r.path} \cup DOMAIN tree \cup AboveOf(r.path) |->
        IF p # r.path THEN Get(tree, p, "none") ELSE NodeAfter(tree, r)]

LEMMA InsertMakes ==
    ASSUME NEW tree, NEW r, Insert(tree, r) # NoTree PROVE Insert(tree, r) = Inserted(tree, r)
BY DEF Insert, Inserted, NodeAfter, AboveOf, Get

LEMMA InsertIs ==
    ASSUME NEW tree, NEW r, Insert(tree, r) # NoTree
    PROVE  Joined(tree, r, Insert(tree, r))
<1> DEFINE new == Insert(tree, r)
<1>1. new = Inserted(tree, r)
  BY InsertMakes, Zenon
<1> HIDE DEF new
<1>2. /\ DOMAIN new = {r.path} \cup DOMAIN tree \cup AboveOf(r.path)
      /\ new[r.path] = NodeAfter(tree, r)
      /\ \A p \in DOMAIN new : p # r.path => new[p] = Get(tree, p, "none")
  BY <1>1 DEF Inserted
<1> QED  BY <1>2 DEF new, Get, Joined

LEMMA InsertType ==
    ASSUME NEW tree \in AllTrees, NEW r, RuleTyped(r)
    PROVE  Insert(tree, r) \in AllTrees
<1>1. NoTree \in AllTrees
  BY DEF NoTree, AllTrees, Entries
<1>2. ASSUME Insert(tree, r) # NoTree PROVE Insert(tree, r) \in AllTrees
  <2> DEFINE new == Insert(tree, r)
  <2>1. AboveOf(r.path) \subseteq Path
    <3> SUFFICES ASSUME NEW n \in 0..(Len(r.path) - 1) PROVE SubSeq(r.path, 1, n) \in Path
      BY DEF AboveOf
    <3>1. n \in 0..Len(r.path)
      BY PathIs DEF RuleTyped
    <3> QED  BY <3>1, PrefixOf DEF RuleTyped
  <2>0. Joined(tree, r, new)
    BY <1>2, InsertIs
  <2> HIDE DEF new
  <2>2. DOMAIN new \in SUBSET Path
    BY <2>0, <2>1, TreeType DEF RuleTyped, Joined
  <2>3. NodeAfter(tree, r) \in Entries
    <3>1. CASE r.type = "file"
      BY <3>1 DEF NodeAfter, Entries
    <3>2. CASE r.type # "file" /\ Get(tree, r.path, "none") = "file"
      BY <1>2, <3>2 DEF Insert, Get, NodeAfter
    <3>3. CASE r.type # "file" /\ Get(tree, r.path, "none") # "file"
      <4>1. Get(tree, r.path, "none") \in {"none", "exact", "recursive"}
        BY <3>3, TreeType DEF Get, Entries
      <4>2. r.type \in {"exact", "recursive"}
        BY <3>3 DEF RuleTyped
      <4> QED  BY <3>3, <4>1, <4>2, MorePermissiveIs DEF NodeAfter, Entries
    <3> QED  BY <3>1, <3>2, <3>3
  <2>4. \A p \in DOMAIN new : new[p] \in Entries
    BY <2>0, <2>3, TreeType DEF Entries, Joined
  <2>5. new = [p \in DOMAIN new |-> new[p]]
    BY <1>2, InsertMakes DEF new, Inserted
  <2>6. new \in [DOMAIN new -> Entries]
    BY <2>4, <2>5
  <2>7. new \in AllTrees
    BY <2>2, <2>6 DEF AllTrees
  <2> QED  BY <2>7 DEF new
<1> QED  BY <1>1, <1>2

\* A rule that counts joins the others, without a clash.
LEMMA InsertFollows ==
    ASSUME NEW fs, WellFormed(fs), NEW force, NEW tree, TreeShape(fs, tree), TreeSays(force, tree),
           NEW r, Counts(fs, r)
    PROVE  TreeShape(fs, Insert(tree, r)) /\ TreeSays(force \cup {r}, Insert(tree, r))
<1> DEFINE new == Insert(tree, r)
           path == r.path
<1>1. tree \in AllTrees /\ RuleTyped(r) /\ path \in Path /\ NoDots(path) /\ Len(path) \in Nat /\ Exists(fs, path)
  BY PathIs DEF TreeShape, Counts, RuleTyped
<1>2. \A n \in 0..(Len(path) - 1) : IsDir(fs, SubSeq(path, 1, n)) /\ Exists(fs, SubSeq(path, 1, n)) /\ NoDots(SubSeq(path, 1, n))
  <2> SUFFICES ASSUME NEW n \in 0..(Len(path) - 1)
               PROVE  IsDir(fs, SubSeq(path, 1, n)) /\ Exists(fs, SubSeq(path, 1, n)) /\ NoDots(SubSeq(path, 1, n))
    OBVIOUS
  <2>1. n \in 0..Len(path) /\ n # Len(path)
    BY <1>1
  <2> HIDE DEF path
  <2> QED  BY <1>1, <2>1, AboveIsDir, PrefixNoDots
<1>3. \A p \in AboveOf(path) : IsDir(fs, p) /\ Exists(fs, p) /\ NoDots(p)
  BY <1>2 DEF AboveOf
<1>4. ~\E p \in AboveOf(path) : Get(tree, p, "none") = "file"
  BY <1>3 DEF Get, TreeShape
<1>5. IsDir(fs, path) <=> r.type # "file"
  BY <1>1 DEF Counts, RuleStands
<1>6. (Get(tree, path, IF r.type = "file" THEN "file" ELSE "none") = "file") <=> r.type = "file"
  BY <1>5 DEF Get, TreeShape
<1>7. new # NoTree
  <2> DEFINE node(p) == IF p # path THEN Get(tree, p, "none")
                        ELSE IF r.type = "file" THEN "file"
                        ELSE MorePermissive(Get(tree, path, IF r.type = "file" THEN "file" ELSE "none"), r.type)
  <2> HIDE DEF node
  <2>1. new = [p \in {path} \cup DOMAIN tree \cup AboveOf(path) |-> node(p)]
    BY <1>4, <1>6 DEF Insert, AboveOf, node
  <2>2. path \in DOMAIN new
    <3> HIDE DEF new
    <3> QED  BY <2>1
  <2> QED  BY <2>2 DEF NoTree
<1>8. /\ DOMAIN new = {path} \cup DOMAIN tree \cup AboveOf(path)
      /\ new[path] = NodeAfter(tree, r)
      /\ \A p \in DOMAIN tree : p # path => new[p] = tree[p]
      /\ \A p \in AboveOf(path) : p # path /\ p \notin DOMAIN tree => new[p] = "none"
      /\ new \in AllTrees
  <2>1. Insert(tree, r) # NoTree
    BY <1>7
  <2>2. Insert(tree, r) \in AllTrees
    BY <1>1, InsertType
  <2>3. Joined(tree, r, Insert(tree, r))
    BY <2>1, InsertIs
  <2> QED  BY <2>2, <2>3 DEF Joined
<1>9. /\ r.type = "file" => NodeAfter(tree, r) = "file"
      /\ r.type # "file" => /\ NodeAfter(tree, r) \in {"exact", "recursive"}
                            /\ NodeAfter(tree, r) = "recursive"
                                 <=> r.type = "recursive" \/ (path \in DOMAIN tree /\ tree[path] = "recursive")
  <2>1. r.type \in {"file", "exact", "recursive"}
    BY <1>1 DEF RuleTyped
  <2>2. Get(tree, path, "none") \in Entries
    BY <1>1, TreeType DEF Get, Entries
  <2>3. r.type # "file" => Get(tree, path, "none") # "file"
    BY <1>6
  <2>4. r.type # "file" => /\ Get(tree, path, "none") \in {"none", "exact", "recursive"}
                           /\ r.type \in {"exact", "recursive"}
    BY <2>1, <2>2, <2>3 DEF Entries
  <2>5. Get(tree, path, "none") = "recursive" <=> path \in DOMAIN tree /\ tree[path] = "recursive"
    BY DEF Get
  <2> QED  BY <2>4, <2>5, MorePermissiveIs DEF NodeAfter
<1> HIDE DEF new, path
<1>10. TreeShape(fs, new)
  <2>1. <<>> \in DOMAIN new
    BY <1>8 DEF TreeShape
  <2>2. ASSUME NEW p \in DOMAIN new PROVE NoDots(p) /\ Exists(fs, p) /\ (new[p] = "file" <=> ~IsDir(fs, p))
    <3>1. CASE p = path
      BY <1>1, <1>5, <1>8, <1>9, <3>1
    <3>2. CASE p # path /\ p \in DOMAIN tree
      BY <1>8, <3>2 DEF TreeShape
    <3>3. CASE p # path /\ p \notin DOMAIN tree
      BY <1>3, <1>8, <2>2, <3>3
    <3> QED  BY <3>1, <3>2, <3>3
  <2>3. ASSUME NEW p \in DOMAIN new, p # <<>> PROVE Front(p) \in DOMAIN new
    <3>1. CASE p \in DOMAIN tree
      BY <1>8, <2>3, <3>1 DEF TreeShape
    <3>2. CASE p = path
      <4>1. Front(path) = SubSeq(path, 1, Len(path) - 1) /\ Len(path) - 1 \in 0..(Len(path) - 1)
        BY <1>1, <2>3, <3>2, FrontOf
      <4> QED  BY <1>8, <3>2, <4>1 DEF AboveOf
    <3>3. CASE p \in AboveOf(path)
      <4>1. PICK n \in 0..(Len(path) - 1) : p = SubSeq(path, 1, n)
        BY <3>3 DEF AboveOf
      <4>2. n # 0
        BY <1>1, <2>3, <4>1, PrefixEnds
      <4>3. n \in 1..Len(path) /\ n - 1 \in 0..(Len(path) - 1)
        BY <1>1, <4>2
      <4>4. Front(p) = SubSeq(path, 1, n - 1)
        BY <1>1, <4>1, <4>3, PrefixNext
      <4> QED  BY <1>8, <4>3, <4>4 DEF AboveOf
    <3> QED  BY <1>8, <2>3, <3>1, <3>2, <3>3
  <2> QED  BY <1>8, <2>1, <2>2, <2>3 DEF TreeShape
<1>11. TreeSays(force \cup {r}, new)
  <2>1. ASSUME NEW q \in force \cup {r}
        PROVE  /\ q.path \in DOMAIN new /\ new[q.path] # "none"
               /\ q.type = "recursive" => new[q.path] = "recursive"
    <3>1. CASE q.path = path
      <4>1. path \in DOMAIN tree => (tree[path] = "file" <=> r.type = "file")
        BY <1>6 DEF Get
      <4>2. q \in force => path \in DOMAIN tree /\ (q.type = "recursive" => tree[path] = "recursive")
        BY <3>1 DEF TreeSays
      <4> QED  BY <1>8, <1>9, <2>1, <3>1, <4>1, <4>2
    <3>2. CASE q.path # path
      BY <1>8, <2>1, <3>2 DEF TreeSays, path
    <3> QED  BY <3>1, <3>2
  <2>2. ASSUME NEW p \in DOMAIN new, new[p] # "none"
        PROVE  \E q \in force \cup {r} : q.path = p /\ (new[p] = "recursive" => q.type = "recursive")
    <3>1. CASE p = path
      BY <1>8, <1>9, <2>2, <3>1 DEF TreeSays, path
    <3>2. CASE p # path
      BY <1>8, <2>2, <3>2 DEF TreeSays
    <3> QED  BY <3>1, <3>2
  <2> QED  BY <2>1, <2>2 DEF TreeSays
<1> QED  BY <1>10, <1>11 DEF new

\* The rules of a policy, and what one rule and the first rules say.
PolicyRules(fs, rules) ==
    /\ Len(rules) \in Nat /\ DOMAIN rules = 1..Len(rules)
    /\ \A i \in 1..Len(rules) : RuleTyped(rules[i]) /\ RuleStands(fs, rules[i])

TargetRule(fs, r) == Rule(r.type, IF IsRealpath(fs, r.path) THEN r.path ELSE RealPath(fs, r.path))
SaidBy(fs, r) == IF Exists(fs, r.path) THEN {r, TargetRule(fs, r)} ELSE {}
SaidUpto(fs, rules, n) == UNION {SaidBy(fs, rules[i]) : i \in 1..n}

Follows(fs, force, tree) == TreeShape(fs, tree) /\ TreeSays(force, tree)

LEMMA ShapeIsTree == ASSUME NEW fs, NEW tree, TreeShape(fs, tree) PROVE tree # NoTree
BY DEF TreeShape, NoTree

LEMMA TargetCounts ==
    ASSUME NEW fs, WellFormed(fs), NEW r, RuleTyped(r)
    PROVE  /\ RuleTyped(Rule(r.type, RealPath(fs, r.path)))
           /\ Exists(fs, r.path) => Exists(fs, RealPath(fs, r.path))
           /\ RuleStands(fs, r) => RuleStands(fs, Rule(r.type, RealPath(fs, r.path)))
<1> DEFINE real == RealPath(fs, r.path)
<1>1. real \in Path /\ NoDots(real) /\ RealPath(fs, real) = real
  BY RealOfReal DEF RuleTyped
<1>2. Exists(fs, real) <=> Exists(fs, r.path)
  BY <1>1 DEF Exists
<1>3. IsDir(fs, real) <=> IsDir(fs, r.path)
  BY <1>1, <1>2 DEF IsDir
<1> HIDE DEF real
<1>4. Rule(r.type, real).type = r.type /\ Rule(r.type, real).path = real
  BY DEF Rule
<1>5. RuleTyped(Rule(r.type, real))
  BY <1>1, <1>4 DEF RuleTyped
<1>6. RuleStands(fs, r) => RuleStands(fs, Rule(r.type, real))
  BY <1>2, <1>3, <1>4 DEF RuleStands
<1> QED  BY <1>2, <1>5, <1>6 DEF real

LEMMA AddRuleType ==
    ASSUME NEW fs, WellFormed(fs), NEW tree \in AllTrees, NEW r, RuleTyped(r)
    PROVE  AddRule(fs, tree, r) \in AllTrees
<1>1. Insert(tree, r) \in AllTrees
  BY InsertType
<1>2. Insert(Insert(tree, r), Rule(r.type, RealPath(fs, r.path))) \in AllTrees
  BY <1>1, TargetCounts, InsertType
<1> QED  BY <1>1, <1>2 DEF AddRule

LEMMA AddRuleFollows ==
    ASSUME NEW fs, WellFormed(fs), NEW force, NEW tree, Follows(fs, force, tree),
           NEW r, RuleTyped(r), RuleStands(fs, r)
    PROVE  Follows(fs, force \cup SaidBy(fs, r), AddRule(fs, tree, r))
<1>1. tree # NoTree
  BY ShapeIsTree DEF Follows
<1>2. CASE ~Exists(fs, r.path)
  <2>1. AddRule(fs, tree, r) = tree /\ force \cup SaidBy(fs, r) = force
    BY <1>2 DEF AddRule, SaidBy
  <2> QED  BY <2>1
<1>3. CASE Exists(fs, r.path)
  <2> DEFINE named == Insert(tree, r)
             target == Rule(r.type, RealPath(fs, r.path))
  <2>1. Follows(fs, force \cup {r}, named)
    BY <1>3, InsertFollows DEF Follows, Counts
  <2>2. named # NoTree
    BY <2>1, ShapeIsTree DEF Follows
  <2>3. CASE IsRealpath(fs, r.path)
    <3>1. AddRule(fs, tree, r) = named
      BY <1>1, <1>3, <2>3 DEF AddRule
    <3>2. SaidBy(fs, r) = {r}
      BY <1>3, <2>3 DEF SaidBy, TargetRule, RuleTyped
    <3> QED  BY <2>1, <3>1, <3>2
  <2>4. CASE ~IsRealpath(fs, r.path)
    <3>1. AddRule(fs, tree, r) = Insert(named, target)
      BY <1>1, <1>3, <2>2, <2>4 DEF AddRule
    <3>2. force \cup SaidBy(fs, r) = (force \cup {r}) \cup {target}
      BY <1>3, <2>4 DEF SaidBy, TargetRule
    <3>3. Counts(fs, target)
      <4>1. RuleTyped(target) /\ Exists(fs, RealPath(fs, r.path)) /\ RuleStands(fs, target)
        BY <1>3, TargetCounts
      <4> QED  BY <4>1 DEF Counts, Rule
    <3> HIDE DEF named, target
    <3>4. Follows(fs, (force \cup {r}) \cup {target}, Insert(named, target))
      BY <2>1, <3>3, InsertFollows DEF Follows
    <3> QED  BY <3>1, <3>2, <3>4
  <2> QED  BY <2>3, <2>4
<1> QED  BY <1>2, <1>3

LEMMA EmptyTreeFollows ==
    ASSUME NEW fs, WellFormed(fs) PROVE Follows(fs, {}, EmptyTree) /\ EmptyTree \in AllTrees
<1>1. <<>> \in Path /\ NoDots(<<>>) /\ Len(<<>>) = 0
  BY EmptyPath DEF NoDots
<1>2. RealPath(fs, <<>>) = <<>>
  BY <1>1, WellFormedTyped, WalkIs
<1>3. IsDir(fs, <<>>) /\ Exists(fs, <<>>)
  BY <1>2 DEF WellFormed, Exists, IsDir
<1>4. EmptyTree \in [{<<>>} -> Entries] /\ {<<>>} \in SUBSET Path
  BY <1>1 DEF EmptyTree, Entries
<1>5. EmptyTree \in AllTrees
  BY <1>4 DEF AllTrees
<1>6. DOMAIN EmptyTree = {<<>>} /\ EmptyTree[<<>>] = "none"
  BY DEF EmptyTree
<1>7. TreeShape(fs, EmptyTree)
  BY <1>1, <1>3, <1>5, <1>6 DEF TreeShape
<1>8. TreeSays({}, EmptyTree)
  BY <1>6 DEF TreeSays
<1> QED  BY <1>5, <1>7, <1>8 DEF Follows

LEMMA TreesIs ==
    ASSUME NEW fs, WellFormed(fs), NEW rules, PolicyRules(fs, rules)
    PROVE  /\ Trees(fs, rules)[0] = EmptyTree
           /\ \A n \in 1..Len(rules) : Trees(fs, rules)[n] = AddRule(fs, Trees(fs, rules)[n - 1], rules[n])
<1> DEFINE k == Len(rules)
           step == [n \in 1..k |-> [t \in AllTrees |-> AddRule(fs, t, rules[n])]]
           Is(g) == g = [n \in 0..k |-> IF n = 0 THEN EmptyTree ELSE AddRule(fs, g[n - 1], rules[n])]
           w == Trees(fs, rules)
<1>1. k \in Nat /\ EmptyTree \in AllTrees
  BY EmptyTreeFollows DEF PolicyRules
<1>2. step \in [1..k -> [AllTrees -> AllTrees]]
  <2> SUFFICES ASSUME NEW n \in 1..k, NEW t \in AllTrees PROVE AddRule(fs, t, rules[n]) \in AllTrees
    OBVIOUS
  <2>1. RuleTyped(rules[n])
    BY DEF PolicyRules
  <2> QED  BY <2>1, AddRuleType
<1>3. PICK g \in [0..k -> AllTrees] : Recursion(g, EmptyTree, k, step)
  <2> HIDE DEF step, k
  <2> QED  BY <1>1, <1>2, RecursionExists
<1>4. g[0] = EmptyTree /\ \A n \in 1..k : g[n] = AddRule(fs, g[n - 1], rules[n])
  <2> SUFFICES ASSUME NEW n \in 1..k PROVE step[n][g[n - 1]] = AddRule(fs, g[n - 1], rules[n])
    BY <1>3 DEF Recursion
  <2>1. g[n - 1] \in AllTrees
    BY <1>1
  <2> QED  BY <2>1
<1>5. Is(g)
  BY <1>4
<1>6. Is(w)
  BY <1>5 DEF Trees
<1> HIDE DEF w
<1>7. w[0] = EmptyTree /\ \A n \in 1..k : w[n] = AddRule(fs, w[n - 1], rules[n])
  BY <1>1, <1>6
<1> QED  BY <1>7 DEF w

\* _add_rule: the tree says what all the rules say.
LEMMA PolicyFollows ==
    ASSUME NEW fs, WellFormed(fs), NEW rules, PolicyRules(fs, rules)
    PROVE  Follows(fs, InForce(fs, rules), FilesystemPolicy(fs, rules))
<1> DEFINE k == Len(rules)
           w == Trees(fs, rules)
           T == {n \in 0..k : Follows(fs, SaidUpto(fs, rules, n), w[n])}
<1>1. k \in Nat /\ w[0] = EmptyTree /\ \A n \in 1..k : w[n] = AddRule(fs, w[n - 1], rules[n])
  BY TreesIs DEF PolicyRules
<1>2. \A n \in 1..k : RuleTyped(rules[n]) /\ RuleStands(fs, rules[n])
  BY DEF PolicyRules
<1>3. InForce(fs, rules) = SaidUpto(fs, rules, k)
  BY DEF InForce, SaidUpto, SaidBy, TargetRule, ToSet, PolicyRules
<1> HIDE DEF w, k
<1>4. 0 \in T
  <2>1. SaidUpto(fs, rules, 0) = {}
    BY DEF SaidUpto
  <2> QED  BY <1>1, <2>1, EmptyTreeFollows
<1>5. ASSUME NEW n \in 0..(k - 1), n \in T PROVE n + 1 \in T
  <2>1. n + 1 \in 1..k /\ n + 1 \in 0..k /\ (n + 1) - 1 = n /\ Follows(fs, SaidUpto(fs, rules, n), w[n])
    BY <1>1, <1>5
  <2>2. SaidUpto(fs, rules, n + 1) = SaidUpto(fs, rules, n) \cup SaidBy(fs, rules[n + 1])
    <3>1. 1..(n + 1) = (1..n) \cup {n + 1}
      BY <2>1
    <3> QED  BY <3>1 DEF SaidUpto
  <2>3. w[n + 1] = AddRule(fs, w[n], rules[n + 1])
    BY <1>1, <2>1
  <2>4. Follows(fs, SaidUpto(fs, rules, n) \cup SaidBy(fs, rules[n + 1]), AddRule(fs, w[n], rules[n + 1]))
    BY <1>2, <2>1, AddRuleFollows
  <2> QED  BY <2>1, <2>2, <2>3, <2>4
<1>6. k \in T
  <2> HIDE DEF T
  <2>1. 0..k \subseteq T
    BY <1>1, <1>4, <1>5, UptoInduction
  <2> QED  BY <1>1, <2>1
<1> QED  BY <1>3, <1>6 DEF FilesystemPolicy, w, k

(***************************************************************************)
(* check: the walk down the tree.                                          *)
(***************************************************************************)
Answers == [at : Path, answer : {"open", "yes", "no"}]
Begin == [at |-> <<>>, answer |-> "open"]

\* One step of the walk.
Descended(tree, walk, name, new) ==
    /\ walk.answer # "open" => new = walk
    /\ walk.answer = "open" =>
          /\ tree[walk.at] = "file" => new.answer = "no"
          /\ tree[walk.at] = "recursive" => new.answer = "yes"
          /\ tree[walk.at] \notin {"file", "recursive"} =>
                IF Append(walk.at, name) \notin DOMAIN tree THEN new.answer = "no"
                ELSE new.answer = "open" /\ new.at = Append(walk.at, name)

LEMMA DescendIs ==
    ASSUME NEW tree, NEW walk \in Answers, NEW name \in STRING
    PROVE  /\ Descend(tree, walk, name) \in Answers
           /\ Descended(tree, walk, name, Descend(tree, walk, name))
<1>1. Append(walk.at, name) \in Path /\ walk.at \in Path /\ walk.answer \in {"open", "yes", "no"}
  BY AppendPath DEF Answers
<1>2. CASE walk.answer # "open"
  BY <1>2 DEF Descend, Descended
<1>3. CASE walk.answer = "open" /\ tree[walk.at] = "file"
  <2>1. Descend(tree, walk, name) = [walk EXCEPT !.answer = "no"]
    BY <1>3 DEF Descend
  <2> QED  BY <1>1, <1>3, <2>1 DEF Answers, Descended
<1>4. CASE walk.answer = "open" /\ tree[walk.at] = "recursive"
  <2>1. Descend(tree, walk, name) = [walk EXCEPT !.answer = "yes"]
    BY <1>4 DEF Descend
  <2> QED  BY <1>1, <1>4, <2>1 DEF Answers, Descended
<1>5. CASE walk.answer = "open" /\ tree[walk.at] \notin {"file", "recursive"} /\ Append(walk.at, name) \notin DOMAIN tree
  <2>1. Descend(tree, walk, name) = [walk EXCEPT !.answer = "no"]
    BY <1>5 DEF Descend
  <2> QED  BY <1>1, <1>5, <2>1 DEF Answers, Descended
<1>6. CASE walk.answer = "open" /\ tree[walk.at] \notin {"file", "recursive"} /\ Append(walk.at, name) \in DOMAIN tree
  <2>1. Descend(tree, walk, name) = [walk EXCEPT !.at = Append(walk.at, name)]
    BY <1>6 DEF Descend
  <2> QED  BY <1>1, <1>6, <2>1 DEF Answers, Descended
<1> QED  BY <1>2, <1>3, <1>4, <1>5, <1>6

LEMMA DescentIs ==
    ASSUME NEW tree, NEW p \in Path
    PROVE  /\ Descent(tree, p) \in [0..Len(p) -> Answers]
           /\ Descent(tree, p)[0] = Begin
           /\ \A n \in 1..Len(p) : Descent(tree, p)[n] = Descend(tree, Descent(tree, p)[n - 1], p[n])
<1> DEFINE k == Len(p)
           step == [n \in 1..k |-> [a \in Answers |-> Descend(tree, a, p[n])]]
           Is(g) == g = [n \in 0..k |-> IF n = 0 THEN [at |-> <<>>, answer |-> "open"]
                                        ELSE Descend(tree, g[n - 1], p[n])]
           w == Descent(tree, p)
<1>1. k \in Nat /\ Begin \in Answers
  BY PathIs, EmptyPath DEF Begin, Answers
<1>2. \A n \in 1..k : \A a \in Answers : Descend(tree, a, p[n]) \in Answers
  BY PathIs, DescendIs
<1>3. step \in [1..k -> [Answers -> Answers]]
  BY <1>2
<1>4. PICK g \in [0..k -> Answers] : Recursion(g, Begin, k, step)
  <2> HIDE DEF step, k
  <2> QED  BY <1>1, <1>3, RecursionExists
<1>5. g[0] = Begin /\ \A n \in 1..k : g[n] = Descend(tree, g[n - 1], p[n])
  <2> SUFFICES ASSUME NEW n \in 1..k PROVE step[n][g[n - 1]] = Descend(tree, g[n - 1], p[n])
    BY <1>4 DEF Recursion
  <2>1. g[n - 1] \in Answers
    BY <1>1
  <2> QED  BY <2>1
<1>6. Is(g)
  BY <1>5 DEF Begin
<1>7. Is(w)
  BY <1>6 DEF Descent
<1> HIDE DEF w
<1>8. w[0] = Begin /\ \A n \in 1..k : w[n] = Descend(tree, w[n - 1], p[n])
  BY <1>1, <1>7 DEF Begin
<1>9. w \in [0..k -> Answers]
  <2> DEFINE T == {n \in 0..k : w[n] \in Answers}
  <2>1. 0 \in T
    BY <1>1, <1>8
  <2>2. ASSUME NEW n \in 0..(k - 1), n \in T PROVE n + 1 \in T
    <3>1. n + 1 \in 1..k /\ (n + 1) - 1 = n
      BY <1>1
    <3> QED  BY <1>1, <1>2, <1>8, <2>2, <3>1
  <2>3. 0..k \subseteq T
    <3> HIDE DEF T, k
    <3> QED  BY <1>1, <2>1, <2>2, UptoInduction
  <2> QED  BY <1>7, <2>3
<1> QED  BY <1>8, <1>9 DEF w

LEMMA PrefixOfPrefix ==
    ASSUME NEW p \in Path, NEW k \in 0..Len(p), NEW n \in 0..k
    PROVE  SubSeq(SubSeq(p, 1, k), 1, n) = SubSeq(p, 1, n)
<1> DEFINE q == SubSeq(p, 1, k)
<1>1. q \in Path /\ Len(q) = k /\ Len(p) \in Nat /\ \A i \in 1..k : q[i] = p[i]
  BY PrefixOf, PathIs
<1> HIDE DEF q
<1>2. n \in 0..Len(p) /\ n \in 0..Len(q) /\ \A i \in 1..n : q[i] = p[i]
  BY <1>1
<1>3. /\ SubSeq(q, 1, n) \in Path /\ Len(SubSeq(q, 1, n)) = n /\ \A i \in 1..n : SubSeq(q, 1, n)[i] = q[i]
      /\ SubSeq(p, 1, n) \in Path /\ Len(SubSeq(p, 1, n)) = n /\ \A i \in 1..n : SubSeq(p, 1, n)[i] = p[i]
  BY <1>1, <1>2, PrefixOf
<1>4. SubSeq(q, 1, n) = SubSeq(p, 1, n)
  BY <1>2, <1>3, PathEqual
<1> QED  BY <1>4 DEF q

\* A tree has everything that is above a node, and only directories there.
LEMMA AboveInTree ==
    ASSUME NEW fs, WellFormed(fs), NEW tree, TreeShape(fs, tree), NEW q \in DOMAIN tree, NEW m \in 0..Len(q)
    PROVE  SubSeq(q, 1, m) \in DOMAIN tree /\ (m # Len(q) => tree[SubSeq(q, 1, m)] # "file")
<1> DEFINE l == Len(q)
           T == {n \in Nat : n <= l => SubSeq(q, 1, l - n) \in DOMAIN tree}
<1>1. q \in Path /\ NoDots(q) /\ Exists(fs, q) /\ l \in Nat /\ SubSeq(q, 1, l) = q
  BY TreeType, PathIs, PrefixEnds DEF TreeShape
<1> HIDE DEF l
<1>2. 0 \in T
  <2>1. SubSeq(q, 1, l - 0) \in DOMAIN tree
    <3>1. l - 0 = l
      BY <1>1
    <3> QED  BY <1>1, <3>1
  <2> QED  BY <2>1
<1>3. ASSUME NEW n \in Nat, n \in T PROVE n + 1 \in T
  <2> SUFFICES ASSUME n + 1 <= l PROVE SubSeq(q, 1, l - (n + 1)) \in DOMAIN tree
    OBVIOUS
  <2> DEFINE i == l - n
  <2>1. i \in 1..l /\ i - 1 = l - (n + 1) /\ SubSeq(q, 1, i) \in DOMAIN tree /\ i \in 0..l
    <3>1. n <= l /\ SubSeq(q, 1, l - n) \in DOMAIN tree
      BY <1>1, <1>3
    <3> QED  BY <1>1, <3>1
  <2> HIDE DEF i
  <2>2. Front(SubSeq(q, 1, i)) = SubSeq(q, 1, i - 1)
    BY <1>1, <2>1, PrefixNext DEF l
  <2>3. SubSeq(q, 1, i) # <<>>
    <3>1. Len(SubSeq(q, 1, i)) = i /\ SubSeq(q, 1, i) \in Path
      BY <1>1, <2>1, PrefixOf DEF l
    <3>2. i # 0
      BY <1>1, <2>1
    <3> QED  BY <3>1, <3>2, EmptyPath
  <2>4. SubSeq(q, 1, i - 1) \in DOMAIN tree
    BY <2>1, <2>2, <2>3 DEF TreeShape
  <2> QED  BY <2>1, <2>4
<1>4. Nat \subseteq T
  <2> HIDE DEF T
  <2> QED  BY <1>2, <1>3, NatUpto
<1>5. l - m \in Nat /\ l - m <= l /\ l - (l - m) = m
  BY <1>1 DEF l
<1>6. SubSeq(q, 1, m) \in DOMAIN tree
  BY <1>4, <1>5, SMTT(40)
<1>7. m # l => IsDir(fs, SubSeq(q, 1, m))
  BY <1>1, AboveIsDir DEF l
<1> QED  BY <1>6, <1>7 DEF TreeShape, l

\* What the walk of check tells of the nodes it came by.
Passed(tree, p, n) ==
    \A m \in 0..n : SubSeq(p, 1, m) \in DOMAIN tree /\ tree[SubSeq(p, 1, m)] # "recursive"

Told(tree, p, n, a) ==
    /\ a.answer = "open" => a.at = SubSeq(p, 1, n) /\ a.at \in DOMAIN tree /\ Passed(tree, p, n - 1)
    /\ a.answer = "yes" =>
          \E m \in 0..(n - 1) : SubSeq(p, 1, m) \in DOMAIN tree /\ tree[SubSeq(p, 1, m)] = "recursive"
    /\ a.answer = "no" =>
          \E m \in 0..(n - 1) :
              /\ Passed(tree, p, m)
              /\ tree[SubSeq(p, 1, m)] = "file" \/ SubSeq(p, 1, m + 1) \notin DOMAIN tree

LEMMA DescentTells ==
    ASSUME NEW fs, NEW tree, TreeShape(fs, tree), NEW p \in Path
    PROVE  Told(tree, p, Len(p), Descent(tree, p)[Len(p)])
<1> DEFINE k == Len(p)
           w == Descent(tree, p)
           T == {n \in 0..k : Told(tree, p, n, w[n])}
<1>1. /\ k \in Nat /\ w \in [0..k -> Answers] /\ w[0] = Begin
      /\ \A n \in 1..k : w[n] = Descend(tree, w[n - 1], p[n])
  BY PathIs, DescentIs
<1> HIDE DEF w
<1>2. 0 \in T
  <2>1. SubSeq(p, 1, 0) = <<>> /\ <<>> \in DOMAIN tree
    BY PrefixEnds DEF TreeShape
  <2>2. Passed(tree, p, 0 - 1)
    BY DEF Passed
  <2>3. w[0].answer = "open" /\ w[0].at = <<>>
    BY <1>1 DEF Begin
  <2>4. Told(tree, p, 0, w[0])
    BY <2>1, <2>2, <2>3 DEF Told
  <2> QED  BY <1>1, <2>4
<1>3. ASSUME NEW n \in 0..(k - 1), n \in T PROVE n + 1 \in T
  <2> DEFINE a == w[n]
             b == w[n + 1]
             at == SubSeq(p, 1, n)
             next == SubSeq(p, 1, n + 1)
  <2>1. n + 1 \in 1..k /\ n + 1 \in 0..k /\ (n + 1) - 1 = n /\ n \in Nat /\ a \in Answers /\ Told(tree, p, n, a)
    BY <1>1, <1>3
  <2>2. b = Descend(tree, a, p[n + 1]) /\ p[n + 1] \in STRING /\ Append(at, p[n + 1]) = next
    BY <1>1, <2>1, PathIs, PrefixNext
  <2> HIDE DEF a, b, at, next
  <2>b. Descended(tree, a, p[n + 1], b)
    BY <2>1, <2>2, DescendIs
  <2>3. CASE a.answer # "open"
    <3>1. b = a
      BY <2>3, <2>b DEF Descended
    <3>2. \A m \in 0..(n - 1) : m \in 0..n
      BY <2>1
    <3>3. Told(tree, p, n + 1, a)
      BY <2>1, <2>3, <3>2 DEF Told
    <3> QED  BY <2>1, <3>1, <3>3 DEF b
  <2>4. CASE a.answer = "open"
    <3>1. a.at = at /\ at \in DOMAIN tree /\ Passed(tree, p, n - 1)
      BY <2>1, <2>4 DEF Told, at
    <3>2. tree[at] # "recursive" => Passed(tree, p, n)
      <4>1. \A m \in 0..n : m = n \/ m \in 0..(n - 1)
        BY <2>1
      <4> QED  BY <3>1, <4>1 DEF Passed, at
    <3>3. n \in 0..n /\ n \in 0..((n + 1) - 1)
      BY <2>1
    <3>4. Told(tree, p, n + 1, b)
      <4>1. CASE tree[at] = "file"
        <5>1. b.answer = "no" /\ Passed(tree, p, n)
          BY <2>2, <2>4, <2>b, <3>1, <3>2, <4>1 DEF Descended
        <5> QED  BY <3>3, <4>1, <5>1 DEF Told, at
      <4>2. CASE tree[at] = "recursive"
        <5>1. b.answer = "yes"
          BY <2>2, <2>4, <2>b, <3>1, <4>2 DEF Descended
        <5> QED  BY <3>1, <3>3, <4>2, <5>1 DEF Told, at
      <4>3. CASE tree[at] \notin {"file", "recursive"} /\ next \notin DOMAIN tree
        <5>1. b.answer = "no" /\ Passed(tree, p, n)
          BY <2>2, <2>4, <2>b, <3>1, <3>2, <4>3 DEF Descended
        <5> QED  BY <3>3, <4>3, <5>1 DEF Told, next
      <4>4. CASE tree[at] \notin {"file", "recursive"} /\ next \in DOMAIN tree
        <5>1. b.answer = "open" /\ b.at = next /\ Passed(tree, p, n)
          BY <2>2, <2>4, <2>b, <3>1, <3>2, <4>4 DEF Descended
        <5> QED  BY <2>1, <4>4, <5>1 DEF Told, next
      <4> QED  BY <4>1, <4>2, <4>3, <4>4
    <3> QED  BY <2>1, <3>4 DEF b
  <2> QED  BY <2>3, <2>4
<1>4. k \in T
  <2> HIDE DEF T
  <2>1. 0..k \subseteq T
    BY <1>1, <1>2, <1>3, UptoInduction
  <2> QED  BY <1>1, <2>1
<1> QED  BY <1>4 DEF w

\* check answers what the rules say, for every path.
LEMMA CheckFollows ==
    ASSUME NEW fs, WellFormed(fs), NEW force, NEW tree, Follows(fs, force, tree), NEW p \in Path,
           \A r \in force : RuleTyped(r)
    PROVE  CheckPath(tree, p) <=> Covered(force, p)
<1> DEFINE end == Descent(tree, p)[Len(p)]
<1>1. /\ TreeShape(fs, tree) /\ TreeSays(force, tree) /\ Len(p) \in Nat /\ Len(p) \in 0..Len(p)
      /\ SubSeq(p, 1, Len(p)) = p
  BY PathIs, PrefixEnds DEF Follows
<1>2. Told(tree, p, Len(p), end) /\ end.answer \in {"open", "yes", "no"}
  BY <1>1, DescentTells, DescentIs DEF Answers
<1>3. CheckPath(tree, p) <=> end.answer = "yes" \/ (end.answer = "open" /\ tree[end.at] # "none")
  BY DEF CheckPath
<1> HIDE DEF end
<1>4. ASSUME end.answer = "yes" PROVE Covered(force, p)
  <2>1. PICK m \in 0..(Len(p) - 1) : SubSeq(p, 1, m) \in DOMAIN tree /\ tree[SubSeq(p, 1, m)] = "recursive"
    BY <1>2, <1>4 DEF Told
  <2>2. PICK r \in force : r.path = SubSeq(p, 1, m) /\ r.type = "recursive"
    BY <1>1, <2>1 DEF TreeSays
  <2>3. m \in 0..Len(p)
    BY <1>1
  <2>4. r.path \in Path /\ Len(r.path) = m /\ m <= Len(p)
    BY <1>1, <2>2, <2>3, PrefixOf
  <2>5. IsPrefix(r.path, p)
    BY <2>2, <2>4, PrefixIs
  <2> QED  BY <2>2, <2>5 DEF Covered
<1>5. ASSUME end.answer = "open", tree[end.at] # "none" PROVE Covered(force, p)
  <2>1. end.at = p /\ p \in DOMAIN tree
    BY <1>1, <1>2, <1>5 DEF Told
  <2> QED  BY <1>1, <1>5, <2>1 DEF TreeSays, Covered
<1>6. ASSUME Covered(force, p) PROVE end.answer = "yes" \/ (end.answer = "open" /\ tree[end.at] # "none")
  <2>1. PICK r \in force : p = r.path \/ (r.type = "recursive" /\ IsPrefix(r.path, p))
    BY <1>6 DEF Covered
  <2> DEFINE q == r.path
             j == Len(q)
  <2>2. /\ q \in Path /\ j \in Nat /\ q \in DOMAIN tree /\ tree[q] # "none"
        /\ r.type = "recursive" => tree[q] = "recursive"
    BY <1>1, PathIs DEF TreeSays, RuleTyped
  <2>3. j \in 0..Len(p) /\ q = SubSeq(p, 1, j) /\ (q = p \/ tree[q] = "recursive")
    BY <1>1, <2>1, <2>2, PrefixIs
  <2> HIDE DEF q, j
  <2>4. \A m \in 0..j : SubSeq(q, 1, m) = SubSeq(p, 1, m)
    BY <2>3, PrefixOfPrefix
  <2>5. \A m \in 0..j : SubSeq(p, 1, m) \in DOMAIN tree /\ (m # j => tree[SubSeq(p, 1, m)] # "file")
    BY <1>1, <2>2, <2>4, AboveInTree DEF j
  <2>6. end.answer # "no"
    <3> SUFFICES ASSUME end.answer = "no" PROVE FALSE
      OBVIOUS
    <3>1. PICK m \in 0..(Len(p) - 1) :
              /\ Passed(tree, p, m)
              /\ tree[SubSeq(p, 1, m)] = "file" \/ SubSeq(p, 1, m + 1) \notin DOMAIN tree
      BY <1>2 DEF Told
    <3>2. CASE j <= m
      <4>0. j \in Nat /\ Len(p) \in Nat
        BY <1>1, <2>2
      <4>1. j \in 0..m /\ j # Len(p)
        BY <3>2, <4>0
      <4>2. tree[q] # "recursive"
        BY <2>3, <3>1, <4>1 DEF Passed
      <4>3. q # p
        BY <4>1 DEF j
      <4> QED  BY <2>3, <4>2, <4>3
    <3>3. CASE m < j
      <4>1. m \in 0..j /\ m + 1 \in 0..j /\ m # j
        BY <1>1, <2>2, <3>3
      <4> QED  BY <2>5, <3>1, <4>1
    <3> QED  BY <1>1, <2>2, <3>2, <3>3
  <2>7. ASSUME end.answer = "open" PROVE tree[end.at] # "none"
    <3>1. end.at = p /\ Passed(tree, p, Len(p) - 1)
      BY <1>1, <1>2, <2>7 DEF Told
    <3>2. CASE q = p
      BY <2>2, <3>1, <3>2
    <3>3. CASE q # p
      <4>1. j # Len(p)
        BY <1>1, <2>3, <3>3, ZenonT(40)
      <4>0. j \in 0..Len(p) /\ Len(p) \in Nat
        BY <1>1, <2>3
      <4>2. j \in 0..(Len(p) - 1)
        BY <4>0, <4>1
      <4> QED  BY <2>3, <3>1, <3>3, <4>2, SMTT(40) DEF Passed
    <3> QED  BY <3>2, <3>3
  <2> QED  BY <1>2, <2>6, <2>7
<1> QED  BY <1>3, <1>4, <1>5, <1>6

LEMMA InForceTyped ==
    ASSUME NEW fs, WellFormed(fs), NEW rules, PolicyRules(fs, rules)
    PROVE  \A r \in InForce(fs, rules) : RuleTyped(r)
<1>1. \A r \in ToSet(rules) : RuleTyped(r)
  BY DEF PolicyRules, ToSet
<1>2. ASSUME NEW r \in ToSet(rules) PROVE RuleTyped(r) /\ RuleTyped(TargetRule(fs, r))
  <2>1. RuleTyped(r) /\ RuleTyped(Rule(r.type, RealPath(fs, r.path)))
    BY <1>1, TargetCounts
  <2>2. r = Rule(r.type, r.path)
    BY <2>1 DEF RuleTyped
  <2> QED  BY <2>1, <2>2 DEF TargetRule
<1> QED  BY <1>2 DEF InForce, TargetRule

\* What a policy answers, whatever the order of its rules.
LEMMA PolicyAnswers ==
    ASSUME NEW fs, WellFormed(fs), NEW rules, PolicyRules(fs, rules), NEW p \in Path
    PROVE  /\ FilesystemPolicy(fs, rules) # NoTree
           /\ CheckPath(FilesystemPolicy(fs, rules), p) <=> Covered(InForce(fs, rules), p)
<1>1. Follows(fs, InForce(fs, rules), FilesystemPolicy(fs, rules))
  BY PolicyFollows
<1>2. FilesystemPolicy(fs, rules) # NoTree
  BY <1>1, ShapeIsTree DEF Follows
<1>3. \A r \in InForce(fs, rules) : RuleTyped(r)
  BY InForceTyped
<1> QED  BY <1>1, <1>2, <1>3, CheckFollows

(***************************************************************************)
(* What the machine works on: a policy is a file system there is, with     *)
(* rules there are whose constructors let them pass.                       *)
(***************************************************************************)
StandingRules(fs) == {q \in Rules : RuleStands(fs, q)}

PolicyInv ==
    /\ "about" \in DOMAIN sample
    /\ sample.about = "policy" =>
          /\ {"fs", "rules"} \subseteq DOMAIN sample
          /\ sample.fs \in FileSystems /\ sample.rules \in Seq(StandingRules(sample.fs))

StillAbout == DOMAIN sample' = DOMAIN sample /\ sample'.about = sample.about

LEMMA PolicyInit == Init => PolicyInv
<1> SUFFICES ASSUME Init PROVE PolicyInv
  OBVIOUS
<1>1. ASSUME NEW fs \in FileSystems, sample = [about |-> "policy", fs |-> fs, rules |-> <<>>] PROVE PolicyInv
  <2>1. DOMAIN sample = {"about", "fs", "rules"} /\ sample.fs = fs /\ sample.rules = <<>>
    BY <1>1
  <2>2. <<>> \in Seq(StandingRules(fs))
    BY EmptySeq
  <2> QED  BY <2>1, <2>2 DEF PolicyInv
<1>2. ASSUME "about" \in DOMAIN sample, sample.about # "policy" PROVE PolicyInv
  BY <1>2 DEF PolicyInv
<1>3. CASE \E a \in Alphabets : sample = [about |-> "outputs", alphabet |-> a, judge |-> <<>>, process |-> <<>>]
  BY <1>2, <1>3
<1>4. CASE sample = [about |-> "archive", files |-> <<>>]
  BY <1>2, <1>4
<1>5. CASE sample = [about |-> "data", data |-> <<>>]
  BY <1>2, <1>5
<1>6. CASE \E c \in Cases, d \in Disks :
              sample = [about |-> "case", case |-> c, disk |-> d, tc |-> Fresh, told |-> {}]
  BY <1>2, <1>6
<1>7. CASE \E d \in SUBSET ProblemDirs, g \in PatternLists :
              sample = [about |-> "roots", disk |-> d, globs |-> g,
                        judge |-> Roots([id \in Ids |-> NoRoot], FindRoots(d, g))]
  BY <1>2, <1>7
<1>8. CASE \E n \in Nodes :
              sample = [about |-> "config", first |-> n, node |-> n, told |-> [i \in DOMAIN Dashed |-> {}]]
  BY <1>2, <1>8
<1> QED  BY <1>1, <1>3, <1>4, <1>5, <1>6, <1>7, <1>8 DEF Init

LEMMA OtherSteps ==
    ASSUME "about" \in DOMAIN sample,
           WriteOutput \/ AddFile \/ WriteData \/ GradeCase \/ FindProblem \/ ReadConfig
    PROVE  StillAbout /\ sample.about # "policy"
<1>1. CASE WriteOutput
  BY <1>1 DEF WriteOutput, Extend, StillAbout
<1>2. CASE AddFile
  BY <1>2 DEF AddFile, Extend, StillAbout
<1>3. CASE WriteData
  BY <1>3 DEF WriteData, Extend, StillAbout
<1>4. CASE GradeCase
  <2>1. sample.about = "case"
    BY <1>4, ZenonT(40) DEF GradeCase
  <2>2. \/ \E tc, told : sample' = [sample EXCEPT !.tc = tc, !.told = told]
        \/ \E tc : sample' = [sample EXCEPT !.tc = tc]
    BY <1>4 DEF GradeCase
  <2> QED  BY <2>1, <2>2, ZenonT(40) DEF StillAbout
<1>5. CASE FindProblem
  <2>1. sample.about = "roots"
    BY <1>5 DEF FindProblem
  <2>2. \/ \E d : sample' = [sample EXCEPT !.disk = d]
        \/ \E j : sample' = [sample EXCEPT !.judge = j]
    BY <1>5 DEF FindProblem
  <2> QED  BY <2>1, <2>2 DEF StillAbout
<1>6. CASE ReadConfig
  <2>1. sample.about = "config"
    BY <1>6, ZenonT(40) DEF ReadConfig
  <2>2. \E n, told : sample' = [sample EXCEPT !.node = n, !.told = told]
    BY <1>6 DEF ReadConfig
  <2> QED  BY <2>1, <2>2, SMTT(40) DEF StillAbout
<1> QED  BY <1>1, <1>2, <1>3, <1>4, <1>5, <1>6

LEMMA PolicyStep == PolicyInv /\ [Next]_sample => PolicyInv'
<1> SUFFICES ASSUME PolicyInv, [Next]_sample PROVE PolicyInv'
  OBVIOUS
<1>1. CASE AddPolicyRule
  <2>1. PICK r \in StandingRules(sample.fs) : sample' = [sample EXCEPT !.rules = Append(@, r)]
    BY <1>1 DEF AddPolicyRule, Extend, StandingRules
  <2>2. sample.about = "policy" /\ {"about", "fs", "rules"} \subseteq DOMAIN sample
    BY <1>1 DEF AddPolicyRule, PolicyInv
  <2>3. /\ DOMAIN sample' = DOMAIN sample /\ sample'.about = "policy" /\ sample'.fs = sample.fs
        /\ sample'.rules = Append(sample.rules, r)
    BY <2>1, <2>2
  <2>4. Append(sample.rules, r) \in Seq(StandingRules(sample.fs))
    BY <2>2, AppendProperties DEF PolicyInv
  <2> QED  BY <2>2, <2>3, <2>4 DEF PolicyInv
<1>2. CASE WriteOutput \/ AddFile \/ WriteData \/ GradeCase \/ FindProblem \/ ReadConfig
  BY <1>2, OtherSteps DEF PolicyInv, StillAbout
<1>3. CASE UNCHANGED sample
  BY <1>3 DEF PolicyInv
<1> QED  BY <1>1, <1>2, <1>3 DEF Next

\* While a policy is made, every rule it got stands: it is a rule that the constructor
\* does not refuse on this file system.
THEOREM PoliciesStand == Spec => []PolicyInv
BY PolicyInit, PolicyStep, PTL DEF Spec

LEMMA RulesStand ==
    ASSUME PolicyInv, sample.about = "policy", NEW rules \in Seq(StandingRules(sample.fs))
    PROVE  WellFormed(sample.fs) /\ IsLink(sample.fs, Self) /\ PolicyRules(sample.fs, rules)
<1>1. WellFormed(sample.fs) /\ IsLink(sample.fs, Self)
  BY FileSystemsAssumption DEF PolicyInv
<1>2. ASSUME NEW r \in StandingRules(sample.fs) PROVE RuleTyped(r) /\ RuleStands(sample.fs, r)
  BY RulesAssumption, DotsAre DEF StandingRules, RuleTyped
<1>3. Len(rules) \in Nat /\ DOMAIN rules = 1..Len(rules) /\ \A i \in 1..Len(rules) : rules[i] \in StandingRules(sample.fs)
  BY LenProperties, ElementOfSeq
<1> QED  BY <1>1, <1>2, <1>3 DEF PolicyRules

LEMMA JailsStand ==
    ASSUME PolicyInv, sample.about = "policy"
    PROVE  \A j \in {"read", "write"} : Jails[j] \in Seq(StandingRules(sample.fs))
<1>1. sample.rules \in Seq(StandingRules(sample.fs))
  BY DEF PolicyInv
<1>2. sample.rules # <<>> => Tail(sample.rules) \in Seq(StandingRules(sample.fs))
  BY <1>1, HeadTailProperties
<1>3. <<>> \in Seq(StandingRules(sample.fs))
  BY EmptySeq
<1>4. Jails["read"] = sample.rules /\ Jails["write"] = IF sample.rules = <<>> THEN <<>> ELSE Tail(sample.rules)
  BY DEF Jails
<1>5. Jails["write"] \in Seq(StandingRules(sample.fs))
  BY <1>2, <1>3, <1>4
<1> QED  BY <1>1, <1>4, <1>5

\* _add_rule and check: in whatever order the rules come, there is a tree and it answers for
\* every path, not only for Files, what the rules say together.
THEOREM TreesFollowRules ==
    Spec => [](sample.about = "policy" => TreeFollowsRules(sample.fs, sample.rules, Path))
<1>1. PolicyInv => (sample.about = "policy" => TreeFollowsRules(sample.fs, sample.rules, Path))
  <2> SUFFICES ASSUME PolicyInv, sample.about = "policy"
               PROVE  TreeFollowsRules(sample.fs, sample.rules, Path)
    OBVIOUS
  <2>1. sample.rules \in Seq(StandingRules(sample.fs))
    BY DEF PolicyInv
  <2>2. WellFormed(sample.fs) /\ PolicyRules(sample.fs, sample.rules)
    BY <2>1, RulesStand
  <2>3. FilesystemPolicy(sample.fs, sample.rules) # NoTree
    BY <2>2, PolicyAnswers, EmptyPath
  <2>4. ASSUME NEW p \in Path
        PROVE  CheckPath(FilesystemPolicy(sample.fs, sample.rules), NormPath(p))
                 <=> Covered(InForce(sample.fs, sample.rules), NormPath(p))
    BY <2>2, NormHasNoDots, PolicyAnswers
  <2> QED  BY <2>3, <2>4 DEF TreeFollowsRules
<1> QED  BY <1>1, PoliciesStand, PTL

(***************************************************************************)
(* _access_check: names of processes.                                      *)
(***************************************************************************)
LEMMA PairIs == ASSUME NEW S, NEW a \in S, NEW b \in S PROVE <<a>> \in Seq(S) /\ <<a, b>> \in Seq(S)
<1>1. [i \in 1..1 |-> a] \in Seq(S) /\ [i \in 1..2 |-> IF i = 1 THEN a ELSE b] \in Seq(S)
  BY SeqDef
<1>2. <<a>> = [i \in 1..1 |-> a] /\ <<a, b>> = [i \in 1..2 |-> IF i = 1 THEN a ELSE b]
  OBVIOUS
<1> QED  BY <1>1, <1>2

LEMMA SelfIs ==
    ASSUME NEW fs, WellFormed(fs), IsLink(fs, Self)
    PROVE  /\ Self \in Path /\ Len(Self) = 2 /\ Self[1] = "proc" /\ Self[2] = "self" /\ NoDots(Self)
           /\ "proc" \in STRING /\ "self" \in STRING
<1>1. Self \in Path
  BY DEF IsLink, WellFormed
<1>2. Len(Self) = 2 /\ Self[1] = "proc" /\ Self[2] = "self"
  BY DEF Self
<1>3. Self[1] \in STRING /\ Self[2] \in STRING
  BY <1>1, <1>2, PathIs
<1> QED  BY <1>1, <1>2, <1>3 DEF NoDots

\* What is below a directory of two names, taken below another.
MovedTo(from, to, p, q) ==
    /\ q \in Path /\ Len(q) = Len(p)
    /\ \A i \in 1..Len(p) : q[i] = IF i <= 2 THEN to[i] ELSE p[i]

LEMMA MoveIs ==
    ASSUME NEW from \in Path, NEW to \in Path, Len(from) = 2, Len(to) = 2,
           NEW p \in Path, IsPrefix(from, p)
    PROVE  MovedTo(from, to, p, Move(from, to, p))
<1> DEFINE rest == SubSeq(p, Len(from) + 1, Len(p))
           l == Len(p)
<1>1. l \in Nat /\ 2 <= l
  BY PathIs, PrefixIs
<1>2. rest \in Path /\ Len(rest) = l - 2 /\ \A i \in 1..(l - 2) : rest[i] = p[i + 2]
  <2>1. 3 \in 1..(l + 1) /\ l \in 0..l /\ 3 <= l + 1
    BY <1>1
  <2>2. /\ SubSeq(p, 3, l) \in Path /\ Len(SubSeq(p, 3, l)) = l - 3 + 1
        /\ \A i \in 1..(l - 3 + 1) : SubSeq(p, 3, l)[i] = p[3 + i - 1]
    BY <2>1, SubPath
  <2>3. rest = SubSeq(p, 3, l)
    OBVIOUS
  <2> HIDE DEF rest, l
  <2>4. l - 3 + 1 = l - 2
    BY <1>1
  <2>5. \A i \in 1..(l - 2) : 3 + i - 1 = i + 2
    BY <1>1
  <2> QED  BY <2>2, <2>3, <2>4, <2>5
<1>3. Move(from, to, p) = to \o rest
  BY DEF Move
<1> HIDE DEF rest, l
<1>4. /\ to \o rest \in Path /\ Len(to \o rest) = 2 + (l - 2)
      /\ \A i \in 1..(2 + (l - 2)) : (to \o rest)[i] = IF i <= 2 THEN to[i] ELSE rest[i - 2]
  <2>1. /\ to \o rest \in Path /\ Len(to \o rest) = Len(to) + Len(rest)
        /\ \A i \in 1..(Len(to) + Len(rest)) : (to \o rest)[i] = IF i <= Len(to) THEN to[i] ELSE rest[i - Len(to)]
    BY <1>2, ConcatPath
  <2>2. Len(to) = 2 /\ Len(rest) = l - 2
    BY <1>2
  <2> QED  BY <2>1, <2>2
<1>5. 2 + (l - 2) = l
  BY <1>1
<1>6. \A i \in 1..l : ~(i <= 2) => rest[i - 2] = p[i]
  <2> SUFFICES ASSUME NEW i \in 1..l, ~(i <= 2) PROVE rest[i - 2] = p[i]
    OBVIOUS
  <2>1. i - 2 \in 1..(l - 2) /\ (i - 2) + 2 = i
    BY <1>1
  <2> QED  BY <1>2, <2>1
<1> QED  BY <1>3, <1>4, <1>5, <1>6 DEF MovedTo, l

LEMMA MovedBegins ==
    ASSUME NEW from \in Path, NEW to \in Path, Len(from) = 2, Len(to) = 2,
           NEW p \in Path, IsPrefix(from, p), NEW q, MovedTo(from, to, p, q)
    PROVE  IsPrefix(to, q) /\ Move(to, from, q) = p
<1>1. q \in Path /\ Len(q) = Len(p) /\ Len(p) \in Nat /\ 2 <= Len(p)
  BY PathIs, PrefixIs, SMTT(40) DEF MovedTo
<1>2. \A i \in 1..2 : to[i] = q[i] /\ from[i] = p[i]
  <2> SUFFICES ASSUME NEW i \in 1..2 PROVE to[i] = q[i] /\ from[i] = p[i]
    OBVIOUS
  <2>1. i \in 1..Len(p) /\ i <= 2 /\ i \in 1..Len(from)
    BY <1>1
  <2>2. \A j \in 1..Len(from) : from[j] = p[j]
    BY PrefixIs
  <2> QED  BY <2>1, <2>2 DEF MovedTo
<1>3. IsPrefix(to, q)
  BY <1>1, <1>2, PrefixIs
<1>4. MovedTo(to, from, q, Move(to, from, q))
  BY <1>1, <1>3, MoveIs
<1>5. \A i \in 1..Len(p) : Move(to, from, q)[i] = p[i]
  <2> SUFFICES ASSUME NEW i \in 1..Len(p) PROVE Move(to, from, q)[i] = p[i]
    OBVIOUS
  <2>1. CASE i <= 2
    <3>1. i \in 1..2
      BY <1>1, <2>1
    <3> QED  BY <1>1, <1>2, <1>4, <2>1, <3>1 DEF MovedTo
  <2>2. CASE ~(i <= 2)
    BY <1>1, <1>4, <2>2 DEF MovedTo
  <2> QED  BY <2>1, <2>2
<1>6. Move(to, from, q) \in Path /\ Len(Move(to, from, q)) = Len(p)
  BY <1>1, <1>4 DEF MovedTo
<1>7. Move(to, from, q) = p
  BY <1>5, <1>6, PathEqual
<1> QED  BY <1>3, <1>7

LEMMA OwnTyped ==
    ASSUME NEW fs, WellFormed(fs), IsLink(fs, Self), NEW tid, ProcessDir(tid), NEW p \in Path
    PROVE  Own(tid, p) \in Path
<1>1. tid \in Path /\ Len(tid) = 2 /\ Self \in Path /\ Len(Self) = 2
  BY SelfIs DEF ProcessDir
<1>2. IsPrefix(tid, p) => Move(tid, Self, p) \in Path
  BY <1>1, MoveIs DEF MovedTo
<1> QED  BY <1>2 DEF Own

(***************************************************************************)
(* The file that the judge looks at is the one the program would reach.    *)
(***************************************************************************)
GivenTo(tid, file) == IF IsPrefix(Self, NormPath(file)) THEN Move(Self, tid, NormPath(file)) ELSE file

SeenBy(fs, tid) == [fs EXCEPT ![Self] = Node("link", tid)]

LEMMA SeenIs ==
    ASSUME NEW fs, WellFormed(fs), IsLink(fs, Self), NEW tid \in Path
    PROVE  /\ LinksTyped(SeenBy(fs, tid))
           /\ \A p : p # Self => Follow(SeenBy(fs, tid), p) = Follow(fs, p)
           /\ Follow(SeenBy(fs, tid), Self) = tid
<1> DEFINE gs == SeenBy(fs, tid)
<1>1. /\ DOMAIN gs = DOMAIN fs /\ \A p \in DOMAIN fs : p # Self => gs[p] = fs[p]
      /\ gs[Self] = Node("link", tid) /\ Self \in DOMAIN fs
  BY DEF SeenBy, IsLink
<1>2. Node("link", tid).kind = "link" /\ Node("link", tid).to = tid
  BY DEF Node
<1> HIDE DEF gs
<1>3. LinksTyped(gs)
  BY <1>1, <1>2 DEF LinksTyped, WellFormed
<1>4. \A p : p # Self => Follow(gs, p) = Follow(fs, p)
  BY <1>1 DEF Follow, IsLink
<1>5. Follow(gs, Self) = tid
  BY <1>1, <1>2 DEF Follow, IsLink
<1> QED  BY <1>3, <1>4, <1>5 DEF gs

LEMMA StepSeen ==
    ASSUME NEW fs, WellFormed(fs), IsLink(fs, Self), NEW tid \in Path, NEW at \in Path, NEW name \in STRING,
           name = ".." \/ Append(at, name) # Self
    PROVE  StepTo(fs, at, name) = StepTo(SeenBy(fs, tid), at, name)
BY SeenIs DEF StepTo

LEMMA ReachedIsReal ==
    ASSUME NEW fs, WellFormed(fs), IsLink(fs, Self), NEW tid, ProcessDir(tid), Canonical(fs, tid),
           NEW file \in Path, Direct(fs, tid, file)
    PROVE  Reached(fs, tid, file) = RealPath(fs, GivenTo(tid, file)) /\ GivenTo(tid, file) \in Path
<1> DEFINE gs == SeenBy(fs, tid)
           norm == NormPath(file)
<1>1. /\ tid \in Path /\ Len(tid) = 2 /\ Self \in Path /\ Len(Self) = 2 /\ Self[1] = "proc" /\ Self[2] = "self"
      /\ norm \in Path /\ NoDots(norm)
  BY SelfIs, NormHasNoDots DEF ProcessDir
<1>2. LinksTyped(fs) /\ LinksTyped(gs)
  BY <1>1, WellFormedTyped, SeenIs
<1>3. Reached(fs, tid, file) = RealPath(gs, file)
  BY DEF Reached, SeenBy
<1> HIDE DEF gs, norm
<1>4. ASSUME NEW q \in Path, ~PassesSelf(fs, q), NEW n \in 1..Len(q)
      PROVE  StepTo(fs, Walk(fs, q)[n - 1], q[n]) = StepTo(gs, Walk(fs, q)[n - 1], q[n])
  <2>1. q[n] = ".." \/ Append(Walk(fs, q)[n - 1], q[n]) # Self
    BY <1>4 DEF PassesSelf
  <2>2. Len(q) \in Nat /\ n - 1 \in 0..Len(q) /\ q[n] \in STRING
    BY <1>4, PathIs
  <2>3. Walk(fs, q)[n - 1] \in Path
    BY <1>2, <2>2, WalkIs
  <2> QED  BY <1>1, <2>1, <2>2, <2>3, StepSeen, ZenonT(40) DEF gs
<1>5. CASE ~IsPrefix(Self, norm)
  <2>1. ~PassesSelf(fs, file) /\ GivenTo(tid, file) = file
    BY <1>5 DEF Direct, GivenTo, norm
  <2> DEFINE k == Len(file)
  <2>2. k \in Nat /\ 0 <= k /\ k <= Len(file) /\ 0 \in Nat
    BY PathIs
  <2>3. Walk(fs, file)[0] = Walk(gs, file)[0]
    BY <1>2, WalkIs
  <2>4. \A n \in (0 + 1)..k : StepTo(fs, Walk(fs, file)[n - 1], file[n]) = StepTo(gs, Walk(fs, file)[n - 1], file[n])
    <3>1. (0 + 1)..k = 1..Len(file)
      OBVIOUS
    <3> QED  BY <1>4, <2>1, <3>1
  <2> HIDE DEF k
  <2>5. Walk(fs, file)[k] = Walk(gs, file)[k]
    <3>1. Together(fs, gs, file, file, 0, k)
      BY <2>2, <2>3, <2>4 DEF Together
    <3> QED  BY <1>2, <3>1, SameWalk
  <2> QED  BY <1>2, <1>3, <2>1, <2>5, WalkIs DEF k
<1>6. CASE IsPrefix(Self, norm)
  <2> DEFINE q == Move(Self, tid, norm)
             l == Len(norm)
  <2>1. file = norm /\ ~PassesSelf(fs, q) /\ GivenTo(tid, file) = q
    BY <1>6 DEF Direct, GivenTo, norm
  <2>2. MovedTo(Self, tid, norm, q)
    BY <1>1, <1>6, MoveIs
  <2>3. /\ l \in Nat /\ 2 <= l /\ q \in Path /\ Len(q) = l
        /\ \A i \in 1..l : q[i] = IF i <= 2 THEN tid[i] ELSE norm[i]
        /\ norm[1] = "proc" /\ norm[2] = "self" /\ 1 \in 1..l /\ 2 \in 1..l
    <3>1. l \in Nat /\ 2 <= l /\ \A i \in 1..2 : Self[i] = norm[i]
      BY <1>1, <1>6, PathIs, PrefixIs
    <3> QED  BY <1>1, <2>2, <3>1 DEF MovedTo
  <2> HIDE DEF q, l
  <2>4. Walk(fs, q)[2] = tid
    <3>1. IsPrefix(tid, q)
      BY <1>1, <1>6, <2>2, MovedBegins
    <3>2. SubSeq(q, 1, 2) = tid
      BY <1>1, <2>3, <3>1, PrefixIs
    <3>3. 2 \in 0..Len(q)
      BY <2>3
    <3>4. ASSUME NEW n \in 1..2 PROVE q[n] # ".." /\ ~IsLink(fs, SubSeq(q, 1, n))
      <4>1. n \in 0..2 /\ n \in 1..Len(tid) /\ n \in 1..l /\ n <= 2
        BY <1>1, <2>3
      <4>2. SubSeq(SubSeq(q, 1, 2), 1, n) = SubSeq(q, 1, n)
        BY <2>3, <3>3, <4>1, PrefixOfPrefix
      <4>3. SubSeq(q, 1, n) = SubSeq(tid, 1, n) /\ q[n] = tid[n]
        BY <2>3, <3>2, <4>1, <4>2
      <4>4. NoDots(tid) /\ ~IsLink(fs, SubSeq(tid, 1, n))
        BY <1>1, <4>1, DotsAre DEF Canonical
      <4> QED  BY <4>1, <4>3, <4>4 DEF NoDots
    <3> QED  BY <1>2, <2>3, <3>2, <3>3, <3>4, WalkOfCanonical
  <2>5. Walk(gs, norm)[2] = tid
    <3>1. /\ Walk(gs, norm)[0] = <<>>
          /\ \A n \in 1..l : Walk(gs, norm)[n] = StepTo(gs, Walk(gs, norm)[n - 1], norm[n])
      BY <1>1, <1>2, WalkIs DEF l
    <3>2. /\ <<"proc">> \in Path /\ <<>> \in Path /\ <<"proc">> # Self
          /\ Append(<<>>, "proc") = <<"proc">> /\ Append(<<"proc">>, "self") = Self
      <4>1. "proc" \in STRING /\ "self" \in STRING
        BY SelfIs
      <4>2. <<"proc">> \in Path /\ Len(<<"proc">>) = 1 /\ <<"proc">>[1] = "proc"
        BY <4>1, PairIs DEF Path
      <4>3. Append(<<>>, "proc") \in Path /\ Len(Append(<<>>, "proc")) = 1 /\ Append(<<>>, "proc")[1] = "proc"
        <5>1. <<>> \in Path /\ Len(<<>>) + 1 = 1
          BY EmptyPath
        <5>2. /\ Append(<<>>, "proc") \in Path /\ Len(Append(<<>>, "proc")) = Len(<<>>) + 1
              /\ Append(<<>>, "proc")[Len(<<>>) + 1] = "proc"
          BY <4>1, <5>1, AppendPath
        <5> QED  BY <5>1, <5>2
      <4>4. Append(<<>>, "proc") = <<"proc">>
        BY <4>2, <4>3, PathEqual
      <4>5. /\ Append(<<"proc">>, "self") \in Path /\ Len(Append(<<"proc">>, "self")) = 2
            /\ Append(<<"proc">>, "self")[1] = "proc" /\ Append(<<"proc">>, "self")[2] = "self"
        <5> DEFINE top == <<"proc">>
        <5>1. top \in Path /\ Len(top) = 1 /\ top[1] = "proc"
          BY <4>2
        <5> HIDE DEF top
        <5>2. /\ Append(top, "self") \in Path /\ Len(Append(top, "self")) = Len(top) + 1
              /\ \A i \in 1..Len(top) : Append(top, "self")[i] = top[i]
              /\ Append(top, "self")[Len(top) + 1] = "self"
          BY <4>1, <5>1, AppendPath
        <5>3. /\ Append(top, "self") \in Path /\ Len(Append(top, "self")) = 2
              /\ Append(top, "self")[1] = "proc" /\ Append(top, "self")[2] = "self"
          BY <5>1, <5>2
        <5> QED  BY <5>3 DEF top
      <4>6. Append(<<"proc">>, "self") = Self
        <5> DEFINE a == Append(<<"proc">>, "self")
        <5>1. a \in Path /\ Len(a) = 2 /\ a[1] = "proc" /\ a[2] = "self"
          BY <4>5
        <5> HIDE DEF a
        <5>2. \A i \in 1..Len(a) : a[i] = Self[i]
          BY <1>1, <5>1
        <5>3. a = Self
          BY <1>1, <5>1, <5>2, PathEqual
        <5> QED  BY <5>3 DEF a
      <4> QED  BY <1>1, <4>2, <4>4, <4>6, EmptyPath
    <3>3. ~IsLink(fs, <<"proc">>)
      <4>1. Front(Self) = <<"proc">>
        BY <3>2, SelfIs, FrontOfAppend
      <4>2. Self # <<>> /\ Self \in DOMAIN fs
        BY <1>1, EmptyPath DEF IsLink
      <4>3. fs[<<"proc">>].kind = "dir"
        BY <4>1, <4>2 DEF WellFormed
      <4> QED  BY <4>3 DEF IsLink
    <3>4. Follow(gs, <<"proc">>) = <<"proc">> /\ Follow(gs, Self) = tid
      BY <1>1, <3>2, <3>3, SeenIs DEF gs, Follow
    <3>5. Walk(gs, norm)[1] = StepTo(gs, Walk(gs, norm)[0], norm[1])
      BY <2>3, <3>1
    <3>6. Walk(gs, norm)[1] = <<"proc">>
      BY <2>3, <3>1, <3>2, <3>4, <3>5 DEF StepTo
    <3>7. Walk(gs, norm)[2] = StepTo(gs, Walk(gs, norm)[1], norm[2])
      BY <2>3, <3>1
    <3> QED  BY <2>3, <3>2, <3>4, <3>6, <3>7 DEF StepTo
  <2>6. \A n \in (2 + 1)..l : StepTo(fs, Walk(fs, q)[n - 1], q[n]) = StepTo(gs, Walk(fs, q)[n - 1], norm[n])
    <3> SUFFICES ASSUME NEW n \in (2 + 1)..l
                 PROVE  StepTo(fs, Walk(fs, q)[n - 1], q[n]) = StepTo(gs, Walk(fs, q)[n - 1], norm[n])
      OBVIOUS
    <3>1. n \in 1..Len(q) /\ ~(n <= 2) /\ n \in 1..l
      BY <2>3
    <3>2. q[n] = norm[n]
      BY <2>3, <3>1
    <3>3. StepTo(fs, Walk(fs, q)[n - 1], q[n]) = StepTo(gs, Walk(fs, q)[n - 1], q[n])
      BY <1>4, <2>1, <2>3, <3>1 DEF q
    <3> QED  BY <3>2, <3>3
  <2>7. l <= Len(q) /\ l <= Len(norm) /\ 2 \in Nat
    BY <2>3 DEF l
  <2>8. Walk(fs, q)[2] = Walk(gs, norm)[2]
    BY <2>4, <2>5
  <2>9. Walk(fs, q)[l] = Walk(gs, norm)[l]
    <3>1. Together(fs, gs, q, norm, 2, l)
      BY <2>3, <2>6, <2>7, <2>8 DEF Together
    <3>2. q \in Path
      BY <2>3
    <3> QED  BY <1>1, <1>2, <3>1, <3>2, SameWalk
  <2>10. RealPath(fs, q) = Walk(fs, q)[l] /\ RealPath(gs, norm) = Walk(gs, norm)[l]
    BY <1>1, <1>2, <2>3, WalkIs DEF l
  <2> QED  BY <1>3, <2>1, <2>3, <2>9, <2>10 DEF q
<1> QED  BY <1>5, <1>6

\* What AccessCheck lets through is covered where it really is.
LEMMA AccessIsCovered ==
    ASSUME NEW fs, WellFormed(fs), IsLink(fs, Self), NEW tid, ProcessDir(tid), Canonical(fs, tid), NEW pid,
           NEW tree, NEW force, \A p \in Path : CheckPath(tree, p) <=> Covered(force, p),
           NEW file \in Path, Direct(fs, tid, file), AccessCheck(fs, tid, pid, tree, file) = "allow"
    PROVE  \/ Covered(force, Reached(fs, tid, file))
           \/ Covered(force, Own(tid, Reached(fs, tid, file)))
<1> DEFINE norm == NormPath(file)
           ofSelf == IsPrefix(Self, norm)
           passed == GivenTo(tid, file)
           projected == IF ofSelf THEN passed ELSE norm
           name == CASE ofSelf -> norm
                     [] ~ofSelf /\ Below(tid, norm) -> Move(tid, Self, norm)
                     [] ~ofSelf /\ ~Below(tid, norm) /\ Below(pid, norm) -> Move(pid, Self, norm)
                     [] OTHER -> norm
           real == RealPath(fs, passed)
<1>1. Reached(fs, tid, file) = real /\ passed \in Path
  BY ReachedIsReal
<1>2. AccessCheck(fs, tid, pid, tree, file) =
        IF name # real /\ (~Exists(fs, projected) \/ ~Exists(fs, real)) THEN "ENOENT"
        ELSE IF \/ name # real /\ RealPath(fs, projected) # real
                \/ ~CheckPath(tree, name)
                \/ name # real /\ ~CheckPath(tree, Own(tid, real))
        THEN "EACCES" ELSE "allow"
  BY DEF AccessCheck, GivenTo, Own
<1> HIDE DEF name, projected, passed, real
<1>3. CheckPath(tree, name) /\ (name # real => CheckPath(tree, Own(tid, real)))
  BY <1>2
<1>4. real \in Path
  BY <1>1, WellFormedTyped, WalkIs DEF real
<1>5. Own(tid, real) \in Path
  BY <1>4, OwnTyped
<1> QED  BY <1>1, <1>3, <1>4, <1>5

\* A call that is let through and looks at files looked at each in a jail of its own.
Judged(t, call) == IF Writes(call) THEN {"write"} ELSE {"read", "write"}

LEMMA WritesIsWrite ==
    ASSUME NEW call, call.kind = "open", Writes(call), "TMPFILE" \in call.flags => "DIRECTORY" \in call.flags
    PROVE  JailOf(call.flags) = "write"
<1>1. PICK f \in {"WRONLY", "RDWR", "TRUNC", "CREAT", "TMPFILE"} : f \in call.flags
  BY DEF Writes
<1>2. CASE f # "TMPFILE"
  <2>1. {f} \in OpenWriteFlags /\ {f} \subseteq call.flags
    BY <1>1, <1>2 DEF OpenWriteFlags
  <2> QED  BY <2>1 DEF JailOf
<1>3. CASE f = "TMPFILE"
  <2>1. {"TMPFILE", "DIRECTORY"} \in OpenWriteFlags /\ {"TMPFILE", "DIRECTORY"} \subseteq call.flags
    BY <1>1, <1>3 DEF OpenWriteFlags
  <2> QED  BY <2>1 DEF JailOf
<1> QED  BY <1>2, <1>3

LEMMA LookAllowed ==
    ASSUME NEW fs, NEW t, NEW tree, NEW dirfd, NEW text, Look(fs, t, tree, dirfd, text) = "allow"
    PROVE  AccessCheck(fs, t.tid, t.pid, tree, FullPath(t, dirfd, text)) = "allow"
BY DEF Look

LEMMA VerdictLooked ==
    ASSUME NEW fs, NEW t, NEW jails, NEW call, Looks(call),
           call.kind = "open" => ("TMPFILE" \in call.flags => "DIRECTORY" \in call.flags),
           Verdict(fs, "compiler", t, jails, call) = "allow", NEW f \in Examined(t, call)
    PROVE  \E j \in Judged(t, call) : AccessCheck(fs, t.tid, t.pid, jails[j], f) = "allow"
<1> DEFINE file == FullPath(t, call.dirfd, call.text)
           Good(j) == AccessCheck(fs, t.tid, t.pid, jails[j], file) = "allow"
<1>1. call.kind \in Handled("compiler")
  BY DEF Verdict
<1>2. \A j : LookAt(fs, t, jails[j], call) = "allow" => Good(j)
  BY LookAllowed DEF LookAt
<1>3. (f = file /\ call.kind # "link") \/ call.kind \in {"rename", "link"}
  BY DEF Examined
<1> HIDE DEF file, Good
<1>4. CASE call.kind = "open"
  <2>1. LookAt(fs, t, jails[JailOf(call.flags)], call) = "allow"
    BY <1>1, <1>4 DEF Verdict
  <2>2. JailOf(call.flags) \in Judged(t, call)
    BY <1>4, WritesIsWrite DEF Judged, JailOf
  <2> QED  BY <1>2, <1>3, <1>4, <2>1, <2>2 DEF Good
<1>5. CASE call.kind = "look"
  <2>1. LookAt(fs, t, jails["read"], call) = "allow"
    BY <1>1, <1>5 DEF Verdict
  <2>2. "read" \in Judged(t, call)
    BY <1>5 DEF Judged, Writes
  <2> QED  BY <1>2, <1>3, <1>5, <2>1, <2>2 DEF Good
<1>6. CASE call.kind = "change"
  <2>1. LookAt(fs, t, jails["write"], call) = "allow"
    BY <1>1, <1>6 DEF Verdict
  <2> QED  BY <1>2, <1>3, <1>6, <2>1 DEF Good, Judged
<1>7. CASE call.kind = "fstatat"
  <2>1. HandleFstat(fs, t, jails, call) = "allow" /\ "EMPTY_PATH" \notin call.flags
    BY <1>1, <1>7 DEF Verdict, Looks
  <2>2. LookAt(fs, t, jails["read"], call) = "allow"
    BY <2>1 DEF HandleFstat
  <2>3. "read" \in Judged(t, call)
    BY <1>7 DEF Judged, Writes
  <2> QED  BY <1>2, <1>3, <1>7, <2>2, <2>3 DEF Good
<1>8. CASE call.kind = "rename"
  <2>1. HandleRename(fs, t, jails, call) = "allow"
    BY <1>1, <1>8 DEF Verdict
  <2>2. /\ LookAt(fs, t, jails["write"], call) = "allow"
        /\ Look(fs, t, jails["write"], call.newdirfd, call.new) = "allow"
    BY <2>1 DEF HandleRename
  <2>3. AccessCheck(fs, t.tid, t.pid, jails["write"], FullPath(t, call.newdirfd, call.new)) = "allow"
    BY <2>2, LookAllowed
  <2>4. f = file \/ f = FullPath(t, call.newdirfd, call.new)
    BY <1>8 DEF Examined, file
  <2>5. "write" \in Judged(t, call)
    BY DEF Judged
  <2> QED  BY <1>2, <2>2, <2>3, <2>4, <2>5 DEF Good
<1>9. CASE call.kind = "utimensat"
  <2>1. HandleUtimensat(fs, t, jails, call) = "allow" /\ call.times = "now" /\ call.text.is = "path"
    BY <1>1, <1>9 DEF Verdict, Looks
  <2>2. call.text # Unreadable("null")
    BY <2>1 DEF Unreadable
  <2>3. LookAt(fs, t, jails["write"], call) = "allow"
    BY <2>1, <2>2 DEF HandleUtimensat
  <2> QED  BY <1>2, <1>3, <1>9, <2>3 DEF Good, Judged
<1>10. CASE call.kind = "link"
  <2>1. HandleLink(fs, t, jails, call) = "allow"
    BY <1>1, <1>10 DEF Verdict
  <2>2. AccessCheck(fs, t.tid, t.pid, jails["write"], FullPath(t, call.newdirfd, call.new)) = "allow"
    BY <2>1, LookAllowed DEF HandleLink
  <2>3. f = FullPath(t, call.newdirfd, call.new)
    BY <1>10 DEF Examined
  <2> QED  BY <2>2, <2>3 DEF Judged
<1> QED  BY <1>4, <1>5, <1>6, <1>7, <1>8, <1>9, <1>10 DEF Looks

LEMMA ExaminedTyped ==
    ASSUME NEW t \in Threads, NEW call \in Calls, Looks(call), NEW f \in Examined(t, call)
    PROVE  f \in Path
<1>1. ASSUME NEW dirfd, NEW text, text.path \in Path, dirfd \in DOMAIN t.fds \cup {"AT_FDCWD"}
      PROVE  FullPath(t, dirfd, text) \in Path
  <2>1. DirOf(t, dirfd) \in Path
    BY <1>1, ThreadsAssumption DEF DirOf
  <2> QED  BY <1>1, <2>1, ConcatPath DEF FullPath
<1>2. /\ call.kind # "link" => call.text.path \in Path /\ call.dirfd \in DOMAIN t.fds \cup {"AT_FDCWD"}
      /\ call.kind \in {"rename", "link"} =>
            call.new.path \in Path /\ call.newdirfd \in DOMAIN t.fds \cup {"AT_FDCWD"}
  BY CallsAssumption
<1>3. CASE call.kind # "link" /\ f = FullPath(t, call.dirfd, call.text)
  BY <1>1, <1>2, <1>3
<1>4. CASE call.kind \in {"rename", "link"} /\ f = FullPath(t, call.newdirfd, call.new)
  BY <1>1, <1>2, <1>4
<1> QED  BY <1>3, <1>4 DEF Examined

\* Every name that a handler of a compiler's tracer examined and let through is of a file
\* that the rules cover where it really is, in every file system, for all rules, threads
\* and calls: _access_check looks at the name and at what is behind it.  The old name of
\* link and linkat, which no handler examines, is not among them.
THEOREM AllowedFilesAreCovered == Spec => []FilesAllowed
<1>1. PolicyInv => FilesAllowed
  <2> SUFFICES ASSUME PolicyInv, sample.about = "policy", NEW t \in Threads
               PROVE  AllowedIsCovered(sample.fs, "compiler", t, Jails, Calls)
    BY DEF FilesAllowed
  <2> DEFINE fs == sample.fs
             jails == [j \in {"read", "write"} |-> FilesystemPolicy(fs, Jails[j])]
             force == [j \in {"read", "write"} |-> InForce(fs, Jails[j])]
  <2>1. fs \in FileSystems /\ WellFormed(fs) /\ IsLink(fs, Self)
    BY FileSystemsAssumption DEF PolicyInv
  <2>2. ProcessDir(t.tid) /\ Canonical(fs, t.tid)
    BY <2>1, ThreadsAssumption
  <2>3. ASSUME NEW j \in {"read", "write"}, NEW p \in Path PROVE CheckPath(jails[j], p) <=> Covered(force[j], p)
    <3>1. PolicyRules(fs, Jails[j])
      BY JailsStand, RulesStand
    <3> QED  BY <2>1, <3>1, PolicyAnswers
  <2> HIDE DEF fs, jails, force
  <2>4. ASSUME NEW call \in Calls, Looks(call), Verdict(fs, "compiler", t, jails, call) = "allow",
               NEW f \in Examined(t, call), Direct(fs, t.tid, f)
        PROVE  \E j \in Judged(t, call) :
                  Covered(force[j], Reached(fs, t.tid, f)) \/ Covered(force[j], Own(t.tid, Reached(fs, t.tid, f)))
    <3>1. f \in Path
      BY <2>4, ExaminedTyped
    <3>2. call.kind = "open" => ("TMPFILE" \in call.flags => "DIRECTORY" \in call.flags)
      BY <2>4, CallsAssumption
    <3>3. PICK j \in Judged(t, call) : AccessCheck(fs, t.tid, t.pid, jails[j], f) = "allow"
      BY <2>4, <3>2, VerdictLooked
    <3>4. j \in {"read", "write"}
      BY <3>3 DEF Judged
    <3>5. \A p \in Path : CheckPath(jails[j], p) <=> Covered(force[j], p)
      BY <2>3, <3>4
    <3> QED  BY <2>1, <2>2, <2>4, <3>1, <3>3, <3>5, AccessIsCovered
  <2> QED  BY <2>4 DEF AllowedIsCovered, Judged, fs, jails, force
<1> QED  BY <1>1, PoliciesStand, PTL

(***************************************************************************)
(* What a rule names can be opened: the name, also the one below the       *)
(* directory of a process, and what is behind it are covered.              *)
(***************************************************************************)
LEMMA PrefixFacts ==
    ASSUME NEW p \in Path, NEW q \in Path, IsPrefix(p, q)
    PROVE  /\ Len(p) \in Nat /\ Len(q) \in Nat /\ Len(p) <= Len(q)
           /\ \A i \in 1..Len(p) : p[i] = q[i]
           /\ p = q <=> Len(p) = Len(q)
<1>1. /\ Len(p) \in Nat /\ Len(q) \in Nat /\ Len(p) <= Len(q)
      /\ \A i \in 1..Len(p) : p[i] = q[i]
  BY PathIs, PrefixIs
<1>2. Len(p) = Len(q) => p = q
  BY <1>1, PathEqual
<1> QED  BY <1>1, <1>2

LEMMA PrefixTransitive ==
    ASSUME NEW p \in Path, NEW q \in Path, NEW f \in Path, IsPrefix(p, q), IsPrefix(q, f)
    PROVE  IsPrefix(p, f)
<1>1. /\ Len(p) \in Nat /\ Len(q) \in Nat /\ Len(f) \in Nat /\ Len(p) <= Len(q) /\ Len(q) <= Len(f)
      /\ \A i \in 1..Len(p) : p[i] = q[i]
      /\ \A i \in 1..Len(q) : q[i] = f[i]
  BY PrefixFacts
<1>2. Len(p) <= Len(f) /\ \A i \in 1..Len(p) : i \in 1..Len(q)
  BY <1>1
<1> QED  BY <1>1, <1>2, PrefixIs

\* A directory above a process that is not the process is above /proc/self as well.
LEMMA AboveProcess ==
    ASSUME NEW fs, WellFormed(fs), IsLink(fs, Self), NEW dir, ProcessDir(dir),
           NEW q \in Path, IsPrefix(dir, q), NEW p \in Path, IsPrefix(p, q), ~IsPrefix(dir, p)
    PROVE  Move(dir, Self, q) \in Path /\ IsPrefix(p, Move(dir, Self, q)) /\ p # q
<1>1. /\ dir \in Path /\ Len(dir) = 2 /\ dir[1] = "proc"
      /\ Self \in Path /\ Len(Self) = 2 /\ Self[1] = "proc"
  BY SelfIs DEF ProcessDir
<1>2. MovedTo(dir, Self, q, Move(dir, Self, q))
  BY <1>1, MoveIs
<1> DEFINE m == Move(dir, Self, q)
<1>3. /\ m \in Path /\ Len(m) = Len(q)
      /\ \A i \in 1..Len(q) : m[i] = IF i <= 2 THEN Self[i] ELSE q[i]
  BY <1>2 DEF MovedTo
<1> HIDE DEF m
<1>4. /\ Len(p) \in Nat /\ Len(q) \in Nat /\ Len(p) <= Len(q) /\ \A i \in 1..Len(p) : p[i] = q[i]
  BY PrefixFacts
<1>5. \A i \in 1..2 : dir[i] = q[i]
  <2>1. \A i \in 1..Len(dir) : dir[i] = q[i]
    BY <1>1, PrefixFacts
  <2> QED  BY <1>1, <2>1
<1>6. Len(p) < 2
  <2> SUFFICES ASSUME ~(Len(p) < 2) PROVE FALSE
    OBVIOUS
  <2>1. Len(dir) <= Len(p) /\ \A i \in 1..Len(dir) : i \in 1..2 /\ i \in 1..Len(p)
    BY <1>1, <1>4
  <2>2. \A i \in 1..Len(dir) : dir[i] = p[i]
    BY <1>4, <1>5, <2>1
  <2> QED  BY <1>1, <2>1, <2>2, PrefixIs
<1>7. 2 <= Len(q)
  BY <1>1, PrefixFacts
<1>8. \A i \in 1..Len(p) : p[i] = m[i]
  <2> SUFFICES ASSUME NEW i \in 1..Len(p) PROVE p[i] = m[i]
    OBVIOUS
  <2>1. i = 1 /\ i \in 1..2 /\ i \in 1..Len(q) /\ i <= 2
    BY <1>4, <1>6, <1>7
  <2>2. p[i] = q[i] /\ q[i] = "proc" /\ m[i] = Self[i]
    BY <1>1, <1>3, <1>4, <1>5, <2>1
  <2> QED  BY <1>1, <2>1, <2>2
<1>9. IsPrefix(p, m)
  BY <1>3, <1>4, <1>8, PrefixIs
<1>10. p # q
  BY <1>4, <1>6, <1>7
<1> QED  BY <1>3, <1>9, <1>10 DEF m

\* Below the path of a rule the names lead where they say.
LEMMA BelowRule ==
    ASSUME NEW fs, WellFormed(fs), NEW p \in Path, NEW f \in Path, IsPrefix(p, f),
           \A n \in (Len(p) + 1)..Len(f) :
              RealPath(fs, SubSeq(f, 1, n)) = Append(RealPath(fs, Front(SubSeq(f, 1, n))), f[n])
    PROVE  IsPrefix(RealPath(fs, p), RealPath(fs, f))
<1> DEFINE real == RealPath(fs, p)
           end(n) == RealPath(fs, SubSeq(f, 1, n))
           T == {k \in Nat : Len(p) + k <= Len(f) => IsPrefix(real, end(Len(p) + k))}
<1>1. Len(p) \in Nat /\ Len(f) \in Nat /\ Len(p) <= Len(f)
  BY PrefixFacts
<1>2. \A n \in 0..Len(f) : end(n) \in Path
  <2> SUFFICES ASSUME NEW n \in 0..Len(f) PROVE RealPath(fs, SubSeq(f, 1, n)) \in Path
    OBVIOUS
  <2>1. SubSeq(f, 1, n) \in Path
    BY PrefixOf
  <2> QED  BY <2>1, RealOfReal
<1>3. real \in Path /\ SubSeq(f, 1, Len(p)) = p
  BY RealOfReal, PrefixIs
<1>4. \A n \in (Len(p) + 1)..Len(f) : end(n) = Append(end(n - 1), f[n])
  <2> SUFFICES ASSUME NEW n \in (Len(p) + 1)..Len(f) PROVE end(n) = Append(end(n - 1), f[n])
    OBVIOUS
  <2>1. n \in 1..Len(f)
    BY <1>1
  <2>2. Front(SubSeq(f, 1, n)) = SubSeq(f, 1, n - 1)
    BY <2>1, PrefixNext
  <2> QED  BY <2>2
<1> HIDE DEF end, real
<1>5. 0 \in T
  <2>1. Len(p) + 0 = Len(p)
    BY <1>1
  <2>2. end(Len(p)) = real
    BY <1>3 DEF end, real
  <2>3. IsPrefix(real, real)
    BY <1>3, PathIs, PrefixIs
  <2> QED  BY <2>1, <2>2, <2>3
<1>6. \A k \in Nat : k \in T => k + 1 \in T
  <2> SUFFICES ASSUME NEW k \in Nat, k \in T, Len(p) + (k + 1) <= Len(f)
               PROVE  IsPrefix(real, end(Len(p) + (k + 1)))
    OBVIOUS
  <2> DEFINE n == Len(p) + (k + 1)
  <2>1. n \in (Len(p) + 1)..Len(f) /\ n - 1 = Len(p) + k /\ n - 1 \in 0..Len(f) /\ n \in 1..Len(f) /\ n \in 0..Len(f)
    BY <1>1
  <2>2. IsPrefix(real, end(n - 1))
    BY <1>1, <2>1
  <2> HIDE DEF n
  <2>3. end(n) = Append(end(n - 1), f[n]) /\ f[n] \in STRING /\ end(n - 1) \in Path /\ end(n) \in Path
    BY <1>2, <1>4, <2>1, PathIs
  <2>4. /\ Len(end(n)) = Len(end(n - 1)) + 1 /\ Len(end(n - 1)) \in Nat
        /\ \A i \in 1..Len(end(n - 1)) : end(n)[i] = end(n - 1)[i]
    BY <2>3, AppendPath, PathIs
  <2>5. Len(end(n - 1)) <= Len(end(n)) /\ \A i \in 1..Len(end(n - 1)) : end(n - 1)[i] = end(n)[i]
    BY <2>4
  <2>6. IsPrefix(end(n - 1), end(n))
    BY <2>3, <2>5, PrefixIs
  <2>7. IsPrefix(real, end(n))
    BY <1>3, <2>2, <2>3, <2>6, PrefixTransitive
  <2> QED  BY <2>7 DEF n
<1>7. Nat \subseteq T
  <2> HIDE DEF T
  <2> QED  BY <1>5, <1>6, NatUpto
<1>8. IsPrefix(real, end(Len(f)))
  <2> DEFINE k == Len(f) - Len(p)
  <2>1. k \in Nat /\ Len(p) + k = Len(f)
    BY <1>1
  <2>2. k \in T
    BY <1>7, <2>1
  <2> QED  BY <2>1, <2>2
<1>9. end(Len(f)) = RealPath(fs, f)
  BY PrefixEnds DEF end
<1> QED  BY <1>8, <1>9 DEF real

\* _access_check lets a file through whose name and what is behind it are covered.
LEMMA CheckAllows ==
    ASSUME NEW fs, WellFormed(fs), NEW tid, NEW pid, NEW tree, NEW file \in Path, NoDots(file), NEW name,
           NEW passed \in Path, Exists(fs, passed),
           passed = IF IsPrefix(Self, file) THEN Move(Self, tid, file) ELSE file,
           name = CASE IsPrefix(Self, file) -> file
                    [] ~IsPrefix(Self, file) /\ Below(tid, file) -> Move(tid, Self, file)
                    [] ~IsPrefix(Self, file) /\ ~Below(tid, file) /\ Below(pid, file) -> Move(pid, Self, file)
                    [] OTHER -> file,
           CheckPath(tree, name), CheckPath(tree, Own(tid, RealPath(fs, passed)))
    PROVE  AccessCheck(fs, tid, pid, tree, file) = "allow"
<1>1. NormPath(file) = file
  BY NormOfNoDots
<1> DEFINE real == RealPath(fs, passed)
<1>2. AccessCheck(fs, tid, pid, tree, file) =
        IF name # real /\ (~Exists(fs, passed) \/ ~Exists(fs, real)) THEN "ENOENT"
        ELSE IF \/ name # real /\ RealPath(fs, passed) # real
                \/ ~CheckPath(tree, name)
                \/ name # real /\ ~CheckPath(tree, Own(tid, real))
        THEN "EACCES" ELSE "allow"
  <2>1. passed = IF IsPrefix(Self, file) THEN passed ELSE file
    OBVIOUS
  <2> QED  BY <1>1, <2>1 DEF AccessCheck, Own
<1>3. Exists(fs, real)
  BY RealOfReal DEF Exists
<1> QED  BY <1>2, <1>3

\* A rule that stands on a file system and names no process.
NamesNoProcess(fs, t, r) ==
    ~IsPrefix(t.tid, r.path) /\ ~IsPrefix(t.pid, r.path) /\ ~IsPrefix(t.tid, RealPath(fs, r.path))

LEMMA NamedOutsideSelf ==
    ASSUME NEW fs, WellFormed(fs), IsLink(fs, Self), NEW t, ProcessDir(t.tid), ProcessDir(t.pid),
           NEW tree, NEW force, \A p \in Path : CheckPath(tree, p) <=> Covered(force, p),
           NEW r \in force, RuleTyped(r), TargetRule(fs, r) \in force, NamesNoProcess(fs, t, r),
           NEW f \in Path, Names(fs, t.tid, r, f), ~IsPrefix(Self, f)
    PROVE  AccessCheck(fs, t.tid, t.pid, tree, f) = "allow"
<1> DEFINE tid == t.tid
           pid == t.pid
           name == CASE IsPrefix(Self, f) -> f
                     [] ~IsPrefix(Self, f) /\ Below(tid, f) -> Move(tid, Self, f)
                     [] ~IsPrefix(Self, f) /\ ~Below(tid, f) /\ Below(pid, f) -> Move(pid, Self, f)
                     [] OTHER -> f
           real == RealPath(fs, f)
           above == RealPath(fs, r.path)
<1>1. NoDots(f) /\ Exists(fs, f)
  BY DotsAre DEF Names
<1>2. r.path \in Path /\ r.type \in {"file", "exact", "recursive"}
  BY DEF RuleTyped
<1>3. IsPrefix(r.path, f) /\ (f # r.path => r.type = "recursive")
  <2>1. IsPrefix(f, f)
    BY PathIs, PrefixIs
  <2> QED  BY <2>1 DEF Names
<1>4. real \in Path /\ above \in Path
  BY <1>2, RealOfReal
<1>5. IsPrefix(above, real)
  <2>1. \A n \in (Len(r.path) + 1)..Len(f) :
           RealPath(fs, SubSeq(f, 1, n)) = Append(RealPath(fs, Front(SubSeq(f, 1, n))), f[n])
    BY DEF Names
  <2> QED  BY <1>2, <1>3, <2>1, BelowRule
<1>6. TargetRule(fs, r).path = above /\ TargetRule(fs, r).type = r.type
  <2>1. ~IsPrefix(Self, r.path)
    BY <1>2, <1>3, SelfIs, PrefixTransitive
  <2>2. (IF IsRealpath(fs, r.path) THEN r.path ELSE RealPath(fs, r.path)) = above
    BY <2>1 DEF IsRealpath
  <2> QED  BY <2>2 DEF TargetRule, Rule
<1> HIDE DEF above, real
<1>7. ASSUME NEW q \in Path, IsPrefix(r.path, q), q # r.path => r.type = "recursive"
      PROVE  CheckPath(tree, q)
  <2>1. Covered(force, q)
    BY <1>7 DEF Covered
  <2> QED  BY <2>1
<1>8. ASSUME NEW q \in Path, IsPrefix(above, q), q # above => r.type = "recursive"
      PROVE  CheckPath(tree, q)
  <2>1. Covered(force, q)
    BY <1>6, <1>8 DEF Covered
  <2> QED  BY <2>1
<1>9. ASSUME NEW dir \in {tid, pid}, Below(dir, f)
      PROVE  CheckPath(tree, Move(dir, Self, f))
  <2>1. ProcessDir(dir) /\ ~IsPrefix(dir, r.path) /\ IsPrefix(dir, f)
    BY <1>9 DEF NamesNoProcess, Below, IsStrictPrefix
  <2>2. Move(dir, Self, f) \in Path /\ IsPrefix(r.path, Move(dir, Self, f)) /\ r.path # f
    BY <1>2, <1>3, <2>1, AboveProcess
  <2> QED  BY <1>3, <1>7, <2>2
<1>10. CheckPath(tree, name)
  <2>1. CheckPath(tree, f)
    BY <1>3, <1>7
  <2>2. name = IF Below(tid, f) THEN Move(tid, Self, f)
               ELSE IF Below(pid, f) THEN Move(pid, Self, f) ELSE f
    OBVIOUS
  <2> HIDE DEF name
  <2> QED  BY <1>9, <2>1, <2>2
<1>11. CheckPath(tree, Own(tid, real))
  <2>1. f = r.path => real = above
    BY DEF real, above
  <2>2. CASE IsPrefix(tid, real)
    <3>1. ~IsPrefix(tid, above) /\ ProcessDir(tid)
      BY DEF NamesNoProcess, above
    <3>2. Move(tid, Self, real) \in Path /\ IsPrefix(above, Move(tid, Self, real)) /\ above # real
      BY <1>4, <1>5, <2>2, <3>1, AboveProcess
    <3>3. r.type = "recursive"
      BY <1>3, <2>1, <3>2
    <3> QED  BY <1>8, <2>2, <3>2, <3>3 DEF Own
  <2>3. CASE ~IsPrefix(tid, real)
    <3>1. real # above => r.type = "recursive"
      BY <1>3, <2>1
    <3>2. CheckPath(tree, real)
      BY <1>4, <1>5, <1>8, <3>1
    <3> QED  BY <2>3, <3>2 DEF Own
  <2> QED  BY <2>2, <2>3
<1> HIDE DEF name
<1>12. CheckPath(tree, Own(tid, RealPath(fs, f)))
  BY <1>11 DEF real
<1>13. f = IF IsPrefix(Self, f) THEN Move(Self, tid, f) ELSE f
  OBVIOUS
<1> QED  BY <1>1, <1>10, <1>12, <1>13, CheckAllows DEF name

LEMMA NamedBelowSelf ==
    ASSUME NEW fs, WellFormed(fs), IsLink(fs, Self), NEW t, ProcessDir(t.tid), ProcessDir(t.pid),
           NEW tree, NEW force, \A p \in Path : CheckPath(tree, p) <=> Covered(force, p),
           NEW r \in force, RuleTyped(r), NEW f \in Path, Names(fs, t.tid, r, f), IsPrefix(Self, f)
    PROVE  /\ AccessCheck(fs, t.tid, t.pid, tree, f) = "allow"
           /\ IsStrictPrefix(Self, f) => AccessCheck(fs, t.tid, t.pid, tree, Move(Self, t.tid, f)) = "allow"
<1> DEFINE tid == t.tid
           g == Move(Self, tid, f)
<1>1. /\ tid \in Path /\ Len(tid) = 2 /\ tid # Self /\ Self \in Path /\ Len(Self) = 2
  BY SelfIs DEF ProcessDir
<1>2. NoDots(f)
  BY DotsAre DEF Names
<1>3. CheckPath(tree, f)
  <2>1. Covered(force, f)
    BY DEF Names, Covered
  <2> QED  BY <2>1
<1>4. g \in DOMAIN fs /\ Canonical(fs, g)
  BY DEF Names
<1>5. MovedTo(Self, tid, f, g)
  BY <1>1, MoveIs
<1>6. g \in Path /\ IsPrefix(tid, g) /\ Move(tid, Self, g) = f /\ Len(g) = Len(f)
  BY <1>1, <1>5, MovedBegins DEF MovedTo
<1>7. RealPath(fs, g) = g
  BY <1>4, WellFormedTyped, RealOfCanonical
<1>8. Exists(fs, g) /\ NoDots(g)
  BY <1>4, <1>6, <1>7, DotsAre DEF Exists, Canonical
<1> HIDE DEF g
<1>9. CheckPath(tree, Own(tid, RealPath(fs, g)))
  BY <1>3, <1>6, <1>7 DEF Own
<1>10. AccessCheck(fs, tid, t.pid, tree, f) = "allow"
  <2>1. g = IF IsPrefix(Self, f) THEN Move(Self, tid, f) ELSE f
    BY DEF g
  <2>2. f = CASE IsPrefix(Self, f) -> f
              [] ~IsPrefix(Self, f) /\ Below(tid, f) -> Move(tid, Self, f)
              [] ~IsPrefix(Self, f) /\ ~Below(tid, f) /\ Below(t.pid, f) -> Move(t.pid, Self, f)
              [] OTHER -> f
    OBVIOUS
  <2> QED  BY <1>2, <1>3, <1>6, <1>8, <1>9, <2>1, <2>2, CheckAllows
<1>11. ASSUME IsStrictPrefix(Self, f) PROVE AccessCheck(fs, tid, t.pid, tree, g) = "allow"
  <2>1. ~IsPrefix(Self, g)
    <3> SUFFICES ASSUME IsPrefix(Self, g) PROVE FALSE
      OBVIOUS
    <3>1. /\ \A i \in 1..Len(Self) : Self[i] = g[i]
          /\ \A i \in 1..Len(tid) : tid[i] = g[i]
      BY <1>1, <1>6, PrefixFacts
    <3>2. \A i \in 1..Len(tid) : tid[i] = Self[i]
      BY <1>1, <3>1
    <3> QED  BY <1>1, <3>2, PathEqual
  <2>2. Below(tid, g)
    <3>1. Self # f /\ 2 \in Nat
      BY <1>11 DEF IsStrictPrefix
    <3>2. Len(f) # 2
      BY <1>1, <3>1, PrefixFacts
    <3>3. tid # g
      BY <1>1, <1>6, <3>2
    <3> QED  BY <1>6, <3>3 DEF Below, IsStrictPrefix
  <2>3. g = IF IsPrefix(Self, g) THEN Move(Self, tid, g) ELSE g
    BY <2>1
  <2>4. f = CASE IsPrefix(Self, g) -> g
              [] ~IsPrefix(Self, g) /\ Below(tid, g) -> Move(tid, Self, g)
              [] ~IsPrefix(Self, g) /\ ~Below(tid, g) /\ Below(t.pid, g) -> Move(t.pid, Self, g)
              [] OTHER -> g
    BY <1>6, <2>1, <2>2
  <2> QED  BY <1>3, <1>6, <1>8, <1>9, <2>3, <2>4, CheckAllows
<1> QED  BY <1>10, <1>11 DEF g

LEMMA RulesInForce ==
    ASSUME NEW fs, NEW rules, NEW r \in ToSet(rules), Exists(fs, r.path)
    PROVE  r \in InForce(fs, rules) /\ TargetRule(fs, r) \in InForce(fs, rules)
BY DEF InForce, TargetRule

\* In whatever order _add_rule gets the rules, the tree answers what they say together;
\* and a file that a rule names can be opened by that name, also if the name is a link
\* or below the directory of the process.
THEOREM RulesAreFollowed == Spec => []RulesFollowed
<1>1. PolicyInv => RulesFollowed
  <2> SUFFICES ASSUME PolicyInv, sample.about = "policy"
               PROVE  /\ TreeFollowsRules(sample.fs, sample.rules, Files)
                      /\ \A t \in Threads : NamedIsAllowed(sample.fs, t.tid, t.pid, sample.rules, Files)
    BY DEF RulesFollowed
  <2> DEFINE fs == sample.fs
             rules == sample.rules
             tree == FilesystemPolicy(fs, rules)
             force == InForce(fs, rules)
  <2>1. rules \in Seq(StandingRules(fs)) /\ fs \in FileSystems
    BY DEF PolicyInv
  <2>2. WellFormed(fs) /\ IsLink(fs, Self) /\ PolicyRules(fs, rules)
    BY <2>1, RulesStand
  <2> HIDE DEF fs, rules
  <2>3. tree # NoTree /\ \A p \in Path : CheckPath(tree, p) <=> Covered(force, p)
    BY <2>2, PolicyAnswers, EmptyPath
  <2>4. TreeFollowsRules(fs, rules, Files)
    <3>1. \A p \in Files : NormPath(p) \in Path
      BY FilesAssumption, NormHasNoDots
    <3> QED  BY <2>3, <3>1 DEF TreeFollowsRules
  <2>5. ASSUME NEW t \in Threads, NEW f \in Files, NEW r \in ToSet(rules), Names(fs, t.tid, r, f)
        PROVE  /\ AccessCheck(fs, t.tid, t.pid, tree, f) = "allow"
               /\ IsStrictPrefix(Self, f) => AccessCheck(fs, t.tid, t.pid, tree, Move(Self, t.tid, f)) = "allow"
    <3>1. ProcessDir(t.tid) /\ ProcessDir(t.pid) /\ f \in Path
      BY ThreadsAssumption, FilesAssumption
    <3>2. r \in StandingRules(fs)
      BY <2>1 DEF ToSet
    <3>3. r \in Rules /\ NamesNoProcess(fs, t, r)
      BY <2>1, <3>2, RulesAssumption DEF StandingRules, NamesNoProcess
    <3>4. RuleTyped(r)
      BY <2>2 DEF PolicyRules, ToSet
    <3>5. Exists(fs, r.path)
      <4>1. r.path \in Path /\ NoDots(f) /\ Exists(fs, f) /\ IsPrefix(f, f)
        <5>1. r.path \in Path
          BY <3>4 DEF RuleTyped
        <5>2. NoDots(f) /\ Exists(fs, f)
          BY <2>5, <3>1, DotsAre DEF Names
        <5>3. IsPrefix(f, f)
          BY <3>1, PathIs, PrefixIs
        <5> QED  BY <5>1, <5>2, <5>3
      <4>2. IsPrefix(r.path, f)
        BY <2>5, <4>1 DEF Names
      <4>3. Len(r.path) \in 0..Len(f) /\ SubSeq(f, 1, Len(r.path)) = r.path
        BY <3>1, <4>1, <4>2, PrefixFacts, PrefixIs
      <4> QED  BY <2>2, <3>1, <4>1, <4>3, AboveIsDir
    <3>6. r \in force /\ TargetRule(fs, r) \in force
      BY <3>5, RulesInForce
    <3> HIDE DEF tree, force
    <3>7. CASE IsPrefix(Self, f)
      BY <2>2, <2>3, <2>5, <3>1, <3>4, <3>6, <3>7, NamedBelowSelf
    <3>8. CASE ~IsPrefix(Self, f)
      <4>1. AccessCheck(fs, t.tid, t.pid, tree, f) = "allow"
        BY <2>2, <2>3, <2>5, <3>1, <3>3, <3>4, <3>6, <3>8, NamedOutsideSelf
      <4> QED  BY <3>8, <4>1 DEF IsStrictPrefix
    <3> QED  BY <3>7, <3>8
  <2>6. \A t \in Threads : NamedIsAllowed(fs, t.tid, t.pid, rules, Files)
    BY <2>5 DEF NamedIsAllowed
  <2> QED  BY <2>4, <2>6 DEF fs, rules
<1> QED  BY <1>1, PoliciesStand, PTL

(***************************************************************************)
(* Configurations: a key reads as its code, else its expression, else its  *)
(* value, and what a read keeps in the place of these reads the same.      *)
(***************************************************************************)
Reading(level, item) ==
    IF item \in DOMAIN level.exec THEN level.exec[item]
    ELSE IF item \in DOMAIN level.eval THEN level.eval[item] ELSE level.plain[item]

OneForm(level, item) == item \notin DOMAIN level.eval \cap DOMAIN level.exec

Alike(level, other, item) ==
    /\ Has(level, item) <=> Has(other, item)
    /\ OneForm(level, item)
    /\ Has(other, item) => Reading(level, item) = Reading(other, item)

LEMMA RunReads ==
    ASSUME NEW level, NEW item, Has(level, item)
    PROVE  ~Raises(level, item) =>
              /\ RunDynamicKey(level, item).plain[item] = Reading(level, item)
              /\ \A k : OneForm(level, k) => Alike(RunDynamicKey(level, item), level, k)
<1> SUFFICES ASSUME ~Raises(level, item)
             PROVE  /\ RunDynamicKey(level, item).plain[item] = Reading(level, item)
                    /\ \A k : OneForm(level, k) => Alike(RunDynamicKey(level, item), level, k)
  OBVIOUS
<1> DEFINE kept(dict) == [i \in DOMAIN level.plain \cup {item} |-> IF i = item THEN dict[item] ELSE level.plain[i]]
           new == RunDynamicKey(level, item)
<1>1. CASE item \in DOMAIN level.exec
  <2>1. level.exec[item] # Broken
    BY <1>1 DEF Raises
  <2>2. new.plain = kept(level.exec) /\ new.eval = level.eval /\ new.exec = Without(level.exec, item)
    BY <1>1, <2>1 DEF RunDynamicKey, Level
  <2> HIDE DEF new
  <2>3. new.plain[item] = Reading(level, item)
    BY <1>1, <2>2 DEF Reading
  <2>4. ASSUME NEW k, OneForm(level, k) PROVE Alike(new, level, k)
    <3>1. Has(new, k) <=> Has(level, k)
      BY <1>1, <2>2 DEF Has, Without
    <3>2. OneForm(new, k)
      BY <2>2, <2>4 DEF OneForm, Without
    <3>3. Has(level, k) => Reading(new, k) = Reading(level, k)
      <4> SUFFICES ASSUME Has(level, k) PROVE Reading(new, k) = Reading(level, k)
        OBVIOUS
      <4>1. CASE k = item
        <5>1. k \notin DOMAIN new.exec /\ k \notin DOMAIN new.eval
          BY <1>1, <2>2, <2>4, <4>1 DEF Without, OneForm
        <5>2. Reading(new, k) = new.plain[item]
          BY <4>1, <5>1 DEF Reading
        <5> QED  BY <2>3, <4>1, <5>2
      <4>2. CASE k # item
        <5>1. /\ k \in DOMAIN new.exec <=> k \in DOMAIN level.exec
              /\ k \in DOMAIN level.exec => new.exec[k] = level.exec[k]
          BY <2>2, <4>2 DEF Without
        <5>2. /\ k \in DOMAIN new.eval <=> k \in DOMAIN level.eval
              /\ k \in DOMAIN level.eval => new.eval[k] = level.eval[k]
          BY <2>2, <4>2 DEF Without
        <5>3. k \in DOMAIN level.plain => new.plain[k] = level.plain[k]
          BY <2>2, <4>2
        <5> QED  BY <5>1, <5>2, <5>3 DEF Reading, Has
      <4> QED  BY <4>1, <4>2
    <3> QED  BY <3>1, <3>2, <3>3 DEF Alike
  <2> QED  BY <2>3, <2>4 DEF new
<1>2. CASE item \notin DOMAIN level.exec /\ item \in DOMAIN level.eval
  <2>1. level.eval[item] # Broken
    BY <1>2 DEF Raises
  <2>2. new.plain = kept(level.eval) /\ new.eval = Without(level.eval, item) /\ new.exec = level.exec
    BY <1>2, <2>1 DEF RunDynamicKey, Level
  <2> HIDE DEF new
  <2>3. new.plain[item] = Reading(level, item)
    BY <1>2, <2>2 DEF Reading
  <2>4. ASSUME NEW k, OneForm(level, k) PROVE Alike(new, level, k)
    <3>1. Has(new, k) <=> Has(level, k)
      BY <1>2, <2>2 DEF Has, Without
    <3>2. OneForm(new, k)
      BY <2>2, <2>4 DEF OneForm, Without
    <3>3. Has(level, k) => Reading(new, k) = Reading(level, k)
      <4> SUFFICES ASSUME Has(level, k) PROVE Reading(new, k) = Reading(level, k)
        OBVIOUS
      <4>1. CASE k = item
        <5>1. k \notin DOMAIN new.exec /\ k \notin DOMAIN new.eval
          BY <1>2, <2>2, <2>4, <4>1 DEF Without, OneForm
        <5>2. Reading(new, k) = new.plain[item]
          BY <4>1, <5>1 DEF Reading
        <5> QED  BY <2>3, <4>1, <5>2
      <4>2. CASE k # item
        <5>1. /\ k \in DOMAIN new.exec <=> k \in DOMAIN level.exec
              /\ k \in DOMAIN level.exec => new.exec[k] = level.exec[k]
          BY <2>2, <4>2 DEF Without
        <5>2. /\ k \in DOMAIN new.eval <=> k \in DOMAIN level.eval
              /\ k \in DOMAIN level.eval => new.eval[k] = level.eval[k]
          BY <2>2, <4>2 DEF Without
        <5>3. k \in DOMAIN level.plain => new.plain[k] = level.plain[k]
          BY <2>2, <4>2
        <5> QED  BY <5>1, <5>2, <5>3 DEF Reading, Has
      <4> QED  BY <4>1, <4>2
    <3> QED  BY <3>1, <3>2, <3>3 DEF Alike
  <2> QED  BY <2>3, <2>4 DEF new
<1>3. CASE item \notin DOMAIN level.exec /\ item \notin DOMAIN level.eval
  <2>1. new = level
    BY <1>3 DEF RunDynamicKey
  <2> QED  BY <1>3, <2>1 DEF Reading, Alike
<1> QED  BY <1>1, <1>2, <1>3

LEMMA RaisesReading ==
    ASSUME NEW level, NEW item, Raises(level, item) PROVE Reading(level, item) = Broken
BY DEF Raises, Reading

\* A node that may have been read, and what it was first.
Faithful(first, node) ==
    /\ \E S : first \in Seq(S) /\ node \in Seq(S) /\ Len(node) = Len(first)
    /\ \A n \in 1..Len(first) : \A k : OneForm(first[n], k) => Alike(node[n], first[n], k)

\* The dictionaries of a node that have a key, and the value it reads as.
Holders(node, item) == {n \in 1..Len(node) : Has(node[n], item)}
Nearest(node, item) == CHOOSE n \in Holders(node, item) : \A m \in Holders(node, item) : n <= m
ReadsAs(node, item) ==
    IF Holders(node, item) = {} THEN Absent ELSE Reading(node[Nearest(node, item)], item)

LEMMA NearestIs ==
    ASSUME NEW node, Len(node) \in Nat, NEW item
    PROVE  SelectInSeq(node, LAMBDA level : Has(level, item)) =
              IF Holders(node, item) = {} THEN 0 ELSE Nearest(node, item)
BY DEF SelectInSeq, Holders, Nearest, Min

LEMMA NearestHolds ==
    ASSUME NEW node, Len(node) \in Nat, NEW item, Holders(node, item) # {}
    PROVE  Nearest(node, item) \in Holders(node, item)
<1>1. Holders(node, item) \subseteq Nat
  BY DEF Holders
<1>2. \E n \in Holders(node, item) : \A m \in Holders(node, item) : n <= m
  BY <1>1, SmallestOf
<1> QED  BY <1>2 DEF Nearest

LEMMA AlikeAgain ==
    ASSUME NEW new, NEW level, NEW first, NEW k, Alike(new, level, k), Alike(level, first, k)
    PROVE  Alike(new, first, k)
BY DEF Alike

LEMMA GetItemReads ==
    ASSUME NEW first, NEW node, Faithful(first, node), NEW item
    PROVE  /\ GetItem(node, item).value = ReadsAs(node, item)
           /\ Faithful(first, GetItem(node, item).node)
<1> DEFINE n == Nearest(node, item)
           ran == RunDynamicKey(node[n], item)
           read == GetItem(node, item)
<1>1. PICK S : first \in Seq(S) /\ node \in Seq(S) /\ Len(node) = Len(first)
  BY DEF Faithful
<1>2. Len(node) \in Nat /\ DOMAIN node = 1..Len(node)
  BY <1>1
<1>3. CASE Holders(node, item) = {}
  <2>1. read = [value |-> Absent, node |-> node]
    BY <1>2, <1>3, NearestIs DEF GetItem
  <2> QED  BY <1>3, <2>1 DEF ReadsAs
<1>4. CASE Holders(node, item) # {}
  <2>1. n \in 1..Len(node) /\ n # 0 /\ Has(node[n], item)
    BY <1>2, <1>4, NearestHolds DEF Holders
  <2>2. SelectInSeq(node, LAMBDA level : Has(level, item)) = n
    BY <1>2, <1>4, NearestIs
  <2>3. ReadsAs(node, item) = Reading(node[n], item)
    BY <1>4 DEF ReadsAs
  <2>4. CASE Raises(node[n], item)
    <3>1. read = [value |-> Broken, node |-> node]
      BY <2>1, <2>2, <2>4 DEF GetItem
    <3> QED  BY <2>3, <2>4, <3>1, RaisesReading
  <2>5. CASE ~Raises(node[n], item)
    <3>1. read = [value |-> ran.plain[item], node |-> [node EXCEPT ![n] = ran]]
      BY <2>1, <2>2, <2>5 DEF GetItem
    <3>2. ran.plain[item] = Reading(node[n], item) /\ \A k : OneForm(node[n], k) => Alike(ran, node[n], k)
      BY <2>1, <2>5, RunReads
    <3> DEFINE new == [node EXCEPT ![n] = ran]
    <3>6. read.value = ReadsAs(node, item) /\ read.node = new
      BY <2>3, <3>1, <3>2
    <3> HIDE DEF ran, n, read
    <3>3. /\ new \in Seq(S \cup {ran}) /\ Len(new) = Len(node) /\ first \in Seq(S \cup {ran})
          /\ new[n] = ran /\ \A m \in 1..Len(node) : m # n => new[m] = node[m]
      BY <1>1, <2>1
    <3> HIDE DEF new
    <3>4. ASSUME NEW m \in 1..Len(first), NEW k, OneForm(first[m], k) PROVE Alike(new[m], first[m], k)
      <4>1. Alike(node[m], first[m], k) /\ m \in 1..Len(node)
        BY <1>1, <3>4 DEF Faithful
      <4>2. m = n => Alike(new[m], node[m], k)
        BY <3>2, <3>3, <4>1 DEF Alike
      <4> QED  BY <3>3, <4>1, <4>2, AlikeAgain
    <3>5. Faithful(first, new)
      BY <1>1, <3>3, <3>4 DEF Faithful
    <3> QED  BY <3>6, <3>5 DEF read
  <2> QED  BY <2>4, <2>5
<1> QED  BY <1>3, <1>4

LEMMA ReadsTheSame ==
    ASSUME NEW first, NEW node, Faithful(first, node), NEW item, ~TwoForms(first, item)
    PROVE  ReadsAs(node, item) = ReadsAs(first, item)
<1>1. PICK S : first \in Seq(S) /\ node \in Seq(S) /\ Len(node) = Len(first)
  BY DEF Faithful
<1>2. Len(node) \in Nat /\ DOMAIN first = 1..Len(first) /\ Len(first) \in Nat
  BY <1>1
<1>3. \A n \in 1..Len(first) : Alike(node[n], first[n], item)
  <2> SUFFICES ASSUME NEW n \in 1..Len(first) PROVE Alike(node[n], first[n], item)
    OBVIOUS
  <2>1. OneForm(first[n], item)
    BY <1>2 DEF OneForm, TwoForms
  <2> QED  BY <2>1 DEF Faithful
<1>4. Holders(node, item) = Holders(first, item)
  BY <1>1, <1>3 DEF Holders, Alike
<1>5. Nearest(node, item) = Nearest(first, item)
  BY <1>4 DEF Nearest
<1>6. CASE Holders(first, item) = {}
  BY <1>4, <1>6 DEF ReadsAs
<1>7. CASE Holders(first, item) # {}
  <2> DEFINE n == Nearest(first, item)
  <2>1. n \in 1..Len(first) /\ Has(first[n], item)
    BY <1>2, <1>7, NearestHolds DEF Holders
  <2>2. Reading(node[n], item) = Reading(first[n], item)
    BY <1>3, <2>1 DEF Alike
  <2> QED  BY <1>4, <1>5, <1>7, <2>2 DEF ReadsAs
<1> QED  BY <1>6, <1>7

LEMMA GetAttrReads ==
    ASSUME NEW first, NEW node, Faithful(first, node), NEW item, NEW dashed
    PROVE  LET key == IF GetItem(node, item).value = Absent THEN dashed ELSE item
           IN  /\ Faithful(first, GetAttr(node, item, dashed).node)
               /\ ~TwoForms(first, key) => GetAttr(node, item, dashed).value = ReadsAs(first, key)
<1> DEFINE look == GetItem(node, item)
           key == IF look.value = Absent THEN dashed ELSE item
           attr == GetAttr(node, item, dashed)
<1>1. look.value = ReadsAs(node, item) /\ Faithful(first, look.node)
  BY GetItemReads
<1>2. CASE look.value = Broken
  <2>1. key = item /\ attr = look
    BY <1>2, BrokenAssumption DEF GetAttr
  <2> QED  BY <1>1, <2>1, ReadsTheSame
<1>3. CASE look.value # Broken
  <2>1. attr = GetItem(look.node, key)
    BY <1>3 DEF GetAttr
  <2> HIDE DEF attr, look, key
  <2>2. attr.value = ReadsAs(look.node, key) /\ Faithful(first, attr.node)
    BY <1>1, <2>1, GetItemReads
  <2>3. ~TwoForms(first, key) => attr.value = ReadsAs(first, key)
    BY <1>1, <2>2, ReadsTheSame, SMTT(40)
  <2> QED  BY <2>2, <2>3 DEF attr, key, look
<1> QED  BY <1>2, <1>3

\* Each action works on one thing, and none changes what is worked on.
LEMMA WorkedOn ==
    /\ AddPolicyRule => sample.about = "policy"
    /\ WriteOutput => sample.about = "outputs"
    /\ AddFile => sample.about = "archive"
    /\ WriteData => sample.about = "data"
    /\ GradeCase => sample.about = "case"
    /\ FindProblem => sample.about = "roots"
    /\ ReadConfig => sample.about = "config"
BY DEF AddPolicyRule, WriteOutput, AddFile, WriteData, GradeCase, FindProblem, ReadConfig

LEMMA StaysAbout == ASSUME "about" \in DOMAIN sample, [Next]_sample PROVE StillAbout
<1>1. CASE AddPolicyRule
  BY <1>1 DEF AddPolicyRule, Extend, StillAbout
<1>2. CASE UNCHANGED sample
  BY <1>2 DEF StillAbout
<1> QED  BY <1>1, <1>2, OtherSteps DEF Next

ConfigInv ==
    /\ "about" \in DOMAIN sample
    /\ sample.about = "config" =>
          /\ {"first", "node", "told"} \subseteq DOMAIN sample
          /\ Faithful(sample.first, sample.node)
          /\ \A item \in DOMAIN sample.told :
                ~TwoForms(sample.first, item) => sample.told[item] \subseteq {ReadsAs(sample.first, item)}

LEMMA ConfigInit == Init => ConfigInv
<1> SUFFICES ASSUME Init PROVE ConfigInv
  OBVIOUS
<1>1. ASSUME "about" \in DOMAIN sample, sample.about # "config" PROVE ConfigInv
  BY <1>1 DEF ConfigInv
<1>2. CASE \E n \in Nodes :
              sample = [about |-> "config", first |-> n, node |-> n, told |-> [i \in DOMAIN Dashed |-> {}]]
  <2>1. PICK n \in Nodes :
              sample = [about |-> "config", first |-> n, node |-> n, told |-> [i \in DOMAIN Dashed |-> {}]]
    BY <1>2
  <2>2. /\ {"about", "first", "node", "told"} \subseteq DOMAIN sample /\ sample.first = n /\ sample.node = n
        /\ sample.told = [i \in DOMAIN Dashed |-> {}]
    BY <2>1
  <2>3. Faithful(n, n)
    BY NodesAssumption DEF Faithful, Alike
  <2> QED  BY <2>2, <2>3 DEF ConfigInv
<1>3. CASE \/ \E fs \in FileSystems : sample = [about |-> "policy", fs |-> fs, rules |-> <<>>]
           \/ \E a \in Alphabets : sample = [about |-> "outputs", alphabet |-> a, judge |-> <<>>, process |-> <<>>]
           \/ sample = [about |-> "archive", files |-> <<>>]
           \/ sample = [about |-> "data", data |-> <<>>]
  BY <1>1, <1>3
<1>4. CASE \E c \in Cases, d \in Disks :
              sample = [about |-> "case", case |-> c, disk |-> d, tc |-> Fresh, told |-> {}]
  BY <1>1, <1>4
<1>5. CASE \E d \in SUBSET ProblemDirs, g \in PatternLists :
              sample = [about |-> "roots", disk |-> d, globs |-> g,
                        judge |-> Roots([id \in Ids |-> NoRoot], FindRoots(d, g))]
  BY <1>1, <1>5
<1> QED  BY <1>2, <1>3, <1>4, <1>5 DEF Init

\* One read of a key, whatever of the two it was, tells what the key reads as.
LEMMA ConfigReads ==
    ASSUME ConfigInv, ReadConfig
    PROVE  \E node, key, value :
              /\ sample' = [sample EXCEPT !.node = node, !.told[key] = @ \cup {value}]
              /\ Faithful(sample.first, node)
              /\ ~TwoForms(sample.first, key) => value = ReadsAs(sample.first, key)
<1>1. Faithful(sample.first, sample.node)
  BY SMTT(40) DEF ConfigInv, ReadConfig
<1>2. PICK item \in DOMAIN Dashed :
         LET read == GetItem(sample.node, item)
             attr == GetAttr(sample.node, item, Dashed[item])
         IN  \/ sample' = [sample EXCEPT !.node = read.node, !.told[item] = @ \cup {read.value}]
             \/ sample' = [sample EXCEPT !.node = attr.node,
                               !.told[IF read.value = Absent THEN Dashed[item] ELSE item] = @ \cup {attr.value}]
  BY DEF ReadConfig
<1> DEFINE read == GetItem(sample.node, item)
           attr == GetAttr(sample.node, item, Dashed[item])
           key == IF read.value = Absent THEN Dashed[item] ELSE item
<1>3. /\ Faithful(sample.first, read.node)
      /\ ~TwoForms(sample.first, item) => read.value = ReadsAs(sample.first, item)
  BY <1>1, GetItemReads, ReadsTheSame
<1>4. /\ Faithful(sample.first, attr.node)
      /\ ~TwoForms(sample.first, key) => attr.value = ReadsAs(sample.first, key)
  BY <1>1, GetAttrReads
<1>5. \/ sample' = [sample EXCEPT !.node = read.node, !.told[item] = @ \cup {read.value}]
      \/ sample' = [sample EXCEPT !.node = attr.node, !.told[key] = @ \cup {attr.value}]
  BY <1>2
<1> HIDE DEF read, attr, key
<1> QED  BY <1>3, <1>4, <1>5

LEMMA ConfigStep == ConfigInv /\ [Next]_sample => ConfigInv'
<1> SUFFICES ASSUME ConfigInv, [Next]_sample PROVE ConfigInv'
  OBVIOUS
<1>1. StillAbout
  BY StaysAbout DEF ConfigInv
<1>2. CASE ReadConfig
  <2>1. PICK node, key, value :
              /\ sample' = [sample EXCEPT !.node = node, !.told[key] = @ \cup {value}]
              /\ Faithful(sample.first, node)
              /\ ~TwoForms(sample.first, key) => value = ReadsAs(sample.first, key)
    BY <1>2, ConfigReads
  <2>2. sample.about = "config" /\ {"first", "node", "told"} \subseteq DOMAIN sample
    BY <1>2, WorkedOn DEF ConfigInv
  <2>3. /\ sample'.first = sample.first /\ sample'.node = node /\ DOMAIN sample' = DOMAIN sample
        /\ sample'.told = [sample.told EXCEPT ![key] = @ \cup {value}]
    BY <2>1, <2>2
  <2>4. ASSUME NEW item \in DOMAIN sample'.told, ~TwoForms(sample.first, item)
        PROVE  sample'.told[item] \subseteq {ReadsAs(sample.first, item)}
    <3>1. item \in DOMAIN sample.told /\ sample.told[item] \subseteq {ReadsAs(sample.first, item)}
      BY <2>2, <2>3, <2>4 DEF ConfigInv
    <3> QED  BY <2>1, <2>3, <2>4, <3>1
  <2> QED  BY <1>1, <2>1, <2>2, <2>3, <2>4 DEF ConfigInv, StillAbout
<1>3. CASE ~ReadConfig /\ ~UNCHANGED sample
  <2>1. sample.about # "config"
    BY <1>3, WorkedOn DEF Next
  <2> QED  BY <1>1, <2>1 DEF ConfigInv, StillAbout
<1>4. CASE UNCHANGED sample
  BY <1>4 DEF ConfigInv
<1> QED  BY <1>2, <1>3, <1>4

\* A key of a configuration has one value, in whatever order and by whichever of the two
\* ways the keys are read, as long as no dictionary has it in two dynamic forms.
THEOREM ConfigurationsAgree == Spec => [](sample.about = "config" => ReadsAgree(sample.first, sample.told))
<1>1. ConfigInv => (sample.about = "config" => ReadsAgree(sample.first, sample.told))
  <2> SUFFICES ASSUME ConfigInv, sample.about = "config", NEW item \in DOMAIN sample.told,
                      ~TwoForms(sample.first, item)
               PROVE  sample.told[item] \subseteq {GetItem(sample.first, item).value}
    BY DEF ReadsAgree
  <2>1. Faithful(sample.first, sample.first)
    BY DEF ConfigInv, Faithful, Alike
  <2>2. GetItem(sample.first, item).value = ReadsAs(sample.first, item)
    BY <2>1, GetItemReads
  <2> QED  BY <2>2 DEF ConfigInv
<1> QED  BY <1>1, ConfigInit, ConfigStep, PTL DEF Spec

(***************************************************************************)
(* The directories of problems: what is remembered of a problem bears its  *)
(* name and is where a pattern finds problems, or one across a slash,      *)
(* whether it is still there or not; and a problem that a pattern lists is *)
(* in a root of that pattern.                                              *)
(***************************************************************************)
Stands(globs, id, root) ==
    /\ root \in ProblemDirs /\ Last(root) = id
    /\ \E g \in DOMAIN globs : Globbed(globs[g], root) \/ root \in globs[g].across

KnownRoots(globs, roots) ==
    DOMAIN roots = Ids /\ \A id \in Ids : roots[id] # NoRoot => Stands(globs, id, roots[id])

FoundOnce(globs, dirs) == dirs = NoRoot \/ \E d \in SUBSET ProblemDirs : dirs = FindRoots(d, globs)

JudgeKnows(globs, judge) ==
    /\ judge = Roots(judge.roots, judge.dirs)
    /\ KnownRoots(globs, judge.roots) /\ FoundOnce(globs, judge.dirs)

Admitted(disk, globs, id, root) ==
    /\ Append(root, id) \in disk
    /\ \E g \in DOMAIN globs : FnMatched(globs[g], Append(root, id))

LEMMA MatchedIsGlobbed ==
    ASSUME NEW pattern, NEW path, FnMatched(pattern, path)
    PROVE  Globbed(pattern, path) \/ path \in pattern.across
BY DEF FnMatched, Globbed, IsStrictPrefix

LEMMA CandidatesAre ==
    ASSUME NEW globs \in PatternLists, NEW disk \in SUBSET ProblemDirs, NEW d \in SUBSET ProblemDirs, NEW id \in Ids
    PROVE  /\ \A r \in Candidates(FindRoots(d, globs), disk, globs, id) : r \in disk /\ Stands(globs, id, r)
           /\ (\E g \in DOMAIN globs : \E root \in FindRoots(d, globs)[g] : Admitted(disk, globs, id, root))
                 => Candidates(FindRoots(d, globs), disk, globs, id) # {}
<1> DEFINE dirs == FindRoots(d, globs)
           places == {g \in DOMAIN dirs : \E root \in dirs[g] : Admitted(disk, globs, id, root)}
           first == CHOOSE g \in places : \A h \in places : g <= h
           found == Candidates(dirs, disk, globs, id)
<1>1. DOMAIN dirs = DOMAIN globs /\ DOMAIN globs \subseteq Nat
  BY PatternsAssumption DEF FindRoots
<1>2. \A g \in DOMAIN dirs : \A root \in dirs[g] : root \in Path
  <2> SUFFICES ASSUME NEW g \in DOMAIN globs, NEW p \in d PROVE Front(p) \in Path
    BY <1>1 DEF FindRoots
  <2> QED  BY ProblemDirsAssumption, FrontOf
<1>3. found = IF places = {} THEN {} ELSE {Append(root, id) : root \in {r \in dirs[first] : Admitted(disk, globs, id, r)}}
  BY DEF Candidates, Admitted
<1> HIDE DEF dirs, found
<1>4. ASSUME places # {}
      PROVE  first \in places
  <2>1. places \subseteq Nat
    BY <1>1
  <2> HIDE DEF places
  <2>2. \E g \in places : \A h \in places : g <= h
    BY <1>4, <2>1, SmallestOf
  <2> QED  BY <2>2
<1>5. ASSUME NEW r \in found PROVE r \in disk /\ Stands(globs, id, r)
  <2>1. places # {}
    BY <1>3, <1>5
  <2>2. PICK root \in dirs[first] : Admitted(disk, globs, id, root) /\ r = Append(root, id)
    BY <1>3, <1>5, <2>1
  <2>3. first \in DOMAIN dirs
    BY <1>4, <2>1
  <2>4. root \in Path
    BY <1>2, <2>2, <2>3
  <2> HIDE DEF first, places
  <2>5. r \in disk /\ \E g \in DOMAIN globs : Globbed(globs[g], r) \/ r \in globs[g].across
    BY <2>2, MatchedIsGlobbed DEF Admitted
  <2>6. Last(r) = id
    <3>1. id \in STRING
      BY ProblemDirsAssumption
    <3>2. Len(Append(root, id)) = Len(root) + 1 /\ Append(root, id)[Len(root) + 1] = id
      BY <2>4, <3>1, AppendPath
    <3> QED  BY <2>2, <3>2 DEF Last
  <2> QED  BY <2>5, <2>6 DEF Stands
<1>6. ASSUME NEW g \in DOMAIN globs, NEW root \in dirs[g], Admitted(disk, globs, id, root)
      PROVE  found # {}
  <2>1. places # {}
    BY <1>1, <1>6
  <2>2. \E r \in dirs[first] : Admitted(disk, globs, id, r)
    BY <1>4, <2>1
  <2> HIDE DEF first, places
  <2> QED  BY <1>3, <2>1, <2>2
<1> QED  BY <1>5, <1>6 DEF dirs, found

LEMMA ListedIsFound ==
    ASSUME NEW globs \in PatternLists, NEW disk \in SUBSET ProblemDirs, NEW id,
           id \in Supported({p \in disk : \A g \in DOMAIN globs : globs[g] # Deep(p)}, globs)
    PROVE  \E g \in DOMAIN globs : \E root \in FindRoots(disk, globs)[g] : Admitted(disk, globs, id, root)
<1>1. PICK p \in disk : /\ \A g \in DOMAIN globs : globs[g] # Deep(p)
                        /\ \E g \in DOMAIN globs : Globbed(globs[g], p)
                        /\ id = Last(p)
  BY DEF Supported
<1>2. PICK g \in DOMAIN globs : Globbed(globs[g], p)
  BY <1>1
<1>3. p \in Path /\ p # <<>>
  BY ProblemDirsAssumption
<1>4. Front(p) \in FindRoots(disk, globs)[g]
  BY <1>2 DEF FindRoots
<1>5. Append(Front(p), id) = p
  <2>1. Len(p) \in Nat \ {0} /\ Front(p) = SubSeq(p, 1, Len(p) - 1)
    BY <1>3, FrontOf
  <2>2. Append(SubSeq(p, 1, Len(p) - 1), p[Len(p)]) = SubSeq(p, 1, Len(p))
    <3>1. Len(p) \in 1..Len(p)
      BY <2>1
    <3> QED  BY <1>3, <3>1, PrefixNext
  <2> QED  BY <1>1, <1>3, <2>1, <2>2, PrefixEnds DEF Last
<1>6. FnMatched(globs[g], p)
  <2>1. globs[g].names = {} => globs[g] = Deep(globs[g].dir)
    BY PatternsAssumption
  <2>2. globs[g].names = {} => globs[g].dir # p
    BY <1>1, <2>1
  <2> QED  BY <1>2, <2>2 DEF FnMatched, Globbed, IsStrictPrefix
<1> QED  BY <1>4, <1>5, <1>6 DEF Admitted

LEMMA GetRootIs ==
    ASSUME NEW globs \in PatternLists, NEW disk \in SUBSET ProblemDirs, NEW id \in Ids,
           NEW judge, JudgeKnows(globs, judge), NEW a \in GetProblemRoot(judge, disk, globs, id)
    PROVE  /\ a.root # NoRoot => a.root \in disk /\ Stands(globs, id, a.root)
           /\ JudgeKnows(globs, a.judge)
<1> DEFINE dirs == IF judge.dirs = NoRoot THEN FindRoots(disk, globs) ELSE judge.dirs
           found == Candidates(dirs, disk, globs, id)
<1>1. PICK d \in SUBSET ProblemDirs : dirs = FindRoots(d, globs)
  BY DEF JudgeKnows, FoundOnce
<1>2. \A r \in found : r \in disk /\ Stands(globs, id, r)
  BY <1>1, CandidatesAre
<1>3. CASE CachedStands(judge, disk, id)
  <2>1. a = [root |-> judge.roots[id], judge |-> judge]
    BY <1>3 DEF GetProblemRoot
  <2> QED  BY <1>3, <2>1 DEF CachedStands, JudgeKnows, KnownRoots
<1>4. CASE ~CachedStands(judge, disk, id) /\ found # {}
  <2>1. PICK r \in found : a = [root |-> r, judge |-> Roots([judge.roots EXCEPT ![id] = r], dirs)]
    BY <1>4 DEF GetProblemRoot
  <2> HIDE DEF dirs, found
  <2>2. KnownRoots(globs, [judge.roots EXCEPT ![id] = r])
    BY <1>2 DEF KnownRoots, JudgeKnows
  <2>3. a.root = r /\ a.judge.roots = [judge.roots EXCEPT ![id] = r] /\ a.judge.dirs = dirs
        /\ a.judge = Roots(a.judge.roots, a.judge.dirs)
    BY <2>1 DEF Roots
  <2> QED  BY <1>1, <1>2, <2>2, <2>3 DEF JudgeKnows, FoundOnce
<1>5. CASE ~CachedStands(judge, disk, id) /\ found = {}
  <2>1. a = [root |-> NoRoot, judge |-> Roots(judge.roots, dirs)]
    BY <1>5 DEF GetProblemRoot
  <2> HIDE DEF dirs, found
  <2>2. /\ a.root = NoRoot /\ a.judge.roots = judge.roots /\ a.judge.dirs = dirs
        /\ a.judge = Roots(a.judge.roots, a.judge.dirs)
    BY <2>1 DEF Roots
  <2> QED  BY <1>1, <2>2 DEF JudgeKnows, FoundOnce
<1> QED  BY <1>3, <1>4, <1>5

LEMMA ClearedKnows ==
    ASSUME NEW globs, NEW judge, JudgeKnows(globs, judge)
    PROVE  /\ JudgeKnows(globs, ClearProblemDirsCache(judge))
           /\ ClearProblemDirsCache(judge).roots = judge.roots /\ ClearProblemDirsCache(judge).dirs = NoRoot
<1>1. ClearProblemDirsCache(judge) = Roots(judge.roots, NoRoot)
  BY DEF ClearProblemDirsCache, JudgeKnows, Roots
<1> QED  BY <1>1 DEF JudgeKnows, FoundOnce, Roots

LEMMA RootsRight ==
    ASSUME NEW globs \in PatternLists, NEW disk \in SUBSET ProblemDirs, NEW judge, JudgeKnows(globs, judge)
    PROVE  RootsAreRight(judge, disk, globs, Ids)
<1> DEFINE Said(root, id) ==
        id \in Supported(disk, globs) \/ \E g \in DOMAIN globs : root \in globs[g].across
<1> SUFFICES ASSUME NEW id \in Ids
             PROVE  /\ \A a \in GetProblemRoot(judge, disk, globs, id) :
                          a.root # NoRoot => a.root \in disk /\ Last(a.root) = id /\ Said(a.root, id)
                    /\ \A a \in GetProblemRoot(ClearProblemDirsCache(judge), disk, globs, id) :
                          id \in Supported({p \in disk : \A g \in DOMAIN globs : globs[g] # Deep(p)}, globs)
                             => a.root # NoRoot
  BY DEF RootsAreRight
<1>1. ASSUME NEW a \in GetProblemRoot(judge, disk, globs, id), a.root # NoRoot
      PROVE  a.root \in disk /\ Last(a.root) = id /\ Said(a.root, id)
  <2>1. a.root \in disk /\ Stands(globs, id, a.root)
    BY <1>1, GetRootIs
  <2> QED  BY <2>1 DEF Stands, Supported
<1>2. ASSUME NEW a \in GetProblemRoot(ClearProblemDirsCache(judge), disk, globs, id),
             id \in Supported({p \in disk : \A g \in DOMAIN globs : globs[g] # Deep(p)}, globs)
      PROVE  a.root # NoRoot
  <2> DEFINE cleared == ClearProblemDirsCache(judge)
             found == Candidates(FindRoots(disk, globs), disk, globs, id)
  <2>1. cleared.dirs = NoRoot
    BY ClearedKnows
  <2>2. found # {} /\ \A r \in found : r \in disk
    BY <1>2, ListedIsFound, CandidatesAre
  <2> HIDE DEF cleared, found
  <2>3. CASE CachedStands(cleared, disk, id)
    <3>1. a.root = cleared.roots[id]
      BY <1>2, <2>3 DEF GetProblemRoot, cleared
    <3> QED  BY <2>3, <3>1 DEF CachedStands
  <2>4. CASE ~CachedStands(cleared, disk, id)
    <3>1. a.root \in found
      <4>1. GetProblemRoot(cleared, disk, globs, id) =
               {[root |-> r, judge |-> Roots([cleared.roots EXCEPT ![id] = r], FindRoots(disk, globs))] : r \in found}
        BY <2>1, <2>2, <2>4 DEF GetProblemRoot, found
      <4>2. a \in GetProblemRoot(cleared, disk, globs, id)
        BY <1>2 DEF cleared
      <4>3. PICK r \in found : a = [root |-> r, judge |-> Roots([cleared.roots EXCEPT ![id] = r], FindRoots(disk, globs))]
        BY <4>1, <4>2
      <4> QED  BY <4>3
    <3> QED  BY <2>2, <3>1, ProblemDirsAssumption
  <2> QED  BY <2>3, <2>4
<1> QED  BY <1>1, <1>2

RootsInv ==
    /\ "about" \in DOMAIN sample
    /\ sample.about = "roots" =>
          /\ {"disk", "globs", "judge"} \subseteq DOMAIN sample
          /\ sample.disk \in SUBSET ProblemDirs /\ sample.globs \in PatternLists
          /\ JudgeKnows(sample.globs, sample.judge)

LEMMA RootsInit == Init => RootsInv
<1> SUFFICES ASSUME Init PROVE RootsInv
  OBVIOUS
<1>1. ASSUME "about" \in DOMAIN sample, sample.about # "roots" PROVE RootsInv
  BY <1>1 DEF RootsInv
<1>2. CASE \E d \in SUBSET ProblemDirs, g \in PatternLists :
              sample = [about |-> "roots", disk |-> d, globs |-> g,
                        judge |-> Roots([id \in Ids |-> NoRoot], FindRoots(d, g))]
  <2>1. PICK d \in SUBSET ProblemDirs, g \in PatternLists :
              sample = [about |-> "roots", disk |-> d, globs |-> g,
                        judge |-> Roots([id \in Ids |-> NoRoot], FindRoots(d, g))]
    BY <1>2
  <2> DEFINE judge == Roots([id \in Ids |-> NoRoot], FindRoots(d, g))
  <2>2. /\ {"about", "disk", "globs", "judge"} \subseteq DOMAIN sample
        /\ sample.disk = d /\ sample.globs = g /\ sample.judge = judge
    BY <2>1
  <2>3. JudgeKnows(g, judge)
    <3>1. /\ judge.roots = [id \in Ids |-> NoRoot] /\ judge.dirs = FindRoots(d, g)
          /\ judge = Roots(judge.roots, judge.dirs)
      BY DEF Roots
    <3> HIDE DEF judge
    <3> QED  BY <3>1 DEF JudgeKnows, KnownRoots, FoundOnce
  <2> HIDE DEF judge
  <2> QED  BY <2>2, <2>3 DEF RootsInv
<1>3. CASE \/ \E fs \in FileSystems : sample = [about |-> "policy", fs |-> fs, rules |-> <<>>]
           \/ \E a \in Alphabets : sample = [about |-> "outputs", alphabet |-> a, judge |-> <<>>, process |-> <<>>]
           \/ sample = [about |-> "archive", files |-> <<>>]
           \/ sample = [about |-> "data", data |-> <<>>]
  BY <1>1, <1>3
<1>4. CASE \E c \in Cases, d \in Disks :
              sample = [about |-> "case", case |-> c, disk |-> d, tc |-> Fresh, told |-> {}]
  BY <1>1, <1>4
<1>5. CASE \E n \in Nodes :
              sample = [about |-> "config", first |-> n, node |-> n, told |-> [i \in DOMAIN Dashed |-> {}]]
  BY <1>1, <1>5
<1> QED  BY <1>2, <1>3, <1>4, <1>5 DEF Init

LEMMA RootsStep == RootsInv /\ [Next]_sample => RootsInv'
<1> SUFFICES ASSUME RootsInv, [Next]_sample PROVE RootsInv'
  OBVIOUS
<1>1. StillAbout
  BY StaysAbout DEF RootsInv
<1>2. CASE FindProblem
  <2>1. /\ sample.about = "roots" /\ {"disk", "globs", "judge"} \subseteq DOMAIN sample
        /\ sample.disk \in SUBSET ProblemDirs /\ sample.globs \in PatternLists
        /\ JudgeKnows(sample.globs, sample.judge)
    BY <1>2, WorkedOn DEF RootsInv
  <2>2. ASSUME NEW disk \in SUBSET ProblemDirs, NEW judge, JudgeKnows(sample.globs, judge),
               sample' = [sample EXCEPT !.disk = disk, !.judge = judge]
        PROVE  RootsInv'
    <3>1. /\ sample'.disk = disk /\ sample'.judge = judge /\ sample'.globs = sample.globs
          /\ DOMAIN sample' = DOMAIN sample
      BY <2>1, <2>2
    <3> QED  BY <1>1, <2>1, <2>2, <3>1 DEF RootsInv, StillAbout
  <2>3. CASE \E p \in ProblemDirs :
                sample' = [sample EXCEPT !.disk = IF p \in @ THEN @ \ {p} ELSE @ \cup {p}]
    <3>1. PICK p \in ProblemDirs :
                sample' = [sample EXCEPT !.disk = IF p \in @ THEN @ \ {p} ELSE @ \cup {p}]
      BY <2>3
    <3> DEFINE disk == IF p \in sample.disk THEN sample.disk \ {p} ELSE sample.disk \cup {p}
    <3>2. disk \in SUBSET ProblemDirs
      BY <2>1
    <3>3. sample' = [sample EXCEPT !.disk = disk, !.judge = sample.judge]
      <4>1. sample' = [sample EXCEPT !.disk = disk]
        BY <3>1
      <4> HIDE DEF disk
      <4> QED  BY <2>1, <4>1
    <3> HIDE DEF disk
    <3> QED  BY <2>1, <2>2, <3>2, <3>3
  <2>4. CASE \E id \in Ids :
                \E a \in GetProblemRoot(sample.judge, sample.disk, sample.globs, id) :
                    sample' = [sample EXCEPT !.judge = a.judge]
    <3>1. PICK id \in Ids : \E a \in GetProblemRoot(sample.judge, sample.disk, sample.globs, id) :
                    sample' = [sample EXCEPT !.judge = a.judge]
      BY <2>4
    <3>2. PICK a \in GetProblemRoot(sample.judge, sample.disk, sample.globs, id) :
                    sample' = [sample EXCEPT !.judge = a.judge]
      BY <3>1
    <3>3. JudgeKnows(sample.globs, a.judge)
      BY <2>1, GetRootIs
    <3>4. sample' = [sample EXCEPT !.disk = sample.disk, !.judge = a.judge]
      BY <2>1, <3>2
    <3> QED  BY <2>1, <2>2, <3>3, <3>4
  <2>5. CASE sample' = [sample EXCEPT !.judge = ClearProblemDirsCache(@)]
    <3>1. JudgeKnows(sample.globs, ClearProblemDirsCache(sample.judge))
      BY <2>1, ClearedKnows
    <3>2. sample' = [sample EXCEPT !.disk = sample.disk, !.judge = ClearProblemDirsCache(sample.judge)]
      BY <2>1, <2>5
    <3> QED  BY <2>1, <2>2, <3>1, <3>2
  <2> QED  BY <1>2, <2>3, <2>4, <2>5 DEF FindProblem
<1>3. CASE ~FindProblem /\ ~UNCHANGED sample
  <2>1. sample.about # "roots"
    BY <1>3, WorkedOn DEF Next
  <2> QED  BY <1>1, <2>1 DEF RootsInv, StillAbout
<1>4. CASE UNCHANGED sample
  BY <1>4 DEF RootsInv
<1> QED  BY <1>2, <1>3, <1>4

\* However the problems on the disk moved since a root was remembered, an answer is a
\* problem of that name which is there, listed or across a slash; once the caches of
\* directories are cleared every problem that is listed is found.
THEOREM ProblemsAreFound ==
    Spec => [](sample.about = "roots" => RootsAreRight(sample.judge, sample.disk, sample.globs, Ids))
<1>1. RootsInv => (sample.about = "roots" => RootsAreRight(sample.judge, sample.disk, sample.globs, Ids))
  BY RootsRight DEF RootsInv
<1> QED  BY <1>1, RootsInit, RootsStep, PTL DEF Spec

(***************************************************************************)
(* Archives: the keys have one order, in which InOrder gives all of them.  *)
(***************************************************************************)
LEMMA BeforeOrders ==
    ASSUME NEW k, IsKey(k), NEW l, IsKey(l), NEW m, IsKey(m)
    PROVE  /\ ~Before(k, k) /\ (Before(k, l) \/ Before(l, k) \/ k = l)
           /\ Before(k, l) => ~Before(l, k)
           /\ Before(k, l) /\ Before(l, m) => Before(k, m)
<1>1. k.n = l.n /\ k.text = l.text => k = l
  BY DEF IsKey
<1> QED  BY <1>1 DEF IsKey, Before

Keys(S) == IsFiniteSet(S) /\ \A k \in S : IsKey(k)

LEMMA LastKey ==
    ASSUME NEW S, Keys(S), S # {} PROVE \E m \in S : \A k \in S : k = m \/ Before(k, m)
<1> DEFINE HasLast(R) == \E m \in R : \A k \in R : k = m \/ Before(k, m)
           T == {n \in Nat : \A R : Keys(R) /\ Cardinality(R) = n + 1 => HasLast(R)}
<1>1. 0 \in T
  <2> SUFFICES ASSUME NEW R, Keys(R), Cardinality(R) = 1 PROVE HasLast(R)
    OBVIOUS
  <2>1. PICK m : R = {m}
    BY FS_Singleton DEF Keys
  <2> QED  BY <2>1
<1>2. \A n \in Nat : n \in T => n + 1 \in T
  <2> SUFFICES ASSUME NEW n \in Nat, n \in T, NEW R, Keys(R), Cardinality(R) = n + 1 + 1 PROVE HasLast(R)
    OBVIOUS
  <2>1. R # {} /\ IsFiniteSet(R)
    BY FS_EmptySet DEF Keys
  <2>2. PICK x \in R : TRUE
    BY <2>1
  <2>3. IsFiniteSet(R \ {x}) /\ Cardinality(R \ {x}) = n + 1
    BY <2>1, FS_RemoveElement
  <2>4. Keys(R \ {x})
    BY <2>3 DEF Keys
  <2>5. PICK m \in R \ {x} : \A k \in R \ {x} : k = m \/ Before(k, m)
    BY <2>3, <2>4
  <2>6. \A k \in R : IsKey(k)
    BY DEF Keys
  <2>7. CASE Before(x, m)
    BY <2>5, <2>7
  <2>8. CASE Before(m, x)
    <3>1. \A k \in R : k = x \/ Before(k, x)
      BY <2>5, <2>6, <2>8, BeforeOrders
    <3> QED  BY <3>1
  <2> QED  BY <2>5, <2>6, <2>7, <2>8, BeforeOrders
<1>3. Nat \subseteq T
  <2> HIDE DEF T
  <2> QED  BY <1>1, <1>2, NatUpto
<1>4. Cardinality(S) - 1 \in Nat /\ Cardinality(S) = (Cardinality(S) - 1) + 1
  BY FS_CardinalityType, FS_EmptySet DEF Keys
<1>5. Cardinality(S) - 1 \in T
  BY <1>3, <1>4
<1>6. HasLast(S)
  <2> HIDE DEF HasLast
  <2> QED  BY <1>4, <1>5
<1> QED  BY <1>6

IsOrder(s, S) ==
    /\ s \in [1..Cardinality(S) -> S] /\ ToSet(s) = S
    /\ \A i, j \in DOMAIN s : i < j => Before(s[i], s[j])

LEMMA OrderExists == ASSUME NEW S, Keys(S) PROVE \E s : IsOrder(s, S)
<1> DEFINE T == {n \in Nat : \A R : Keys(R) /\ Cardinality(R) = n => \E s : IsOrder(s, R)}
<1>1. 0 \in T
  <2> SUFFICES ASSUME NEW R, Keys(R), Cardinality(R) = 0 PROVE \E s : IsOrder(s, R)
    OBVIOUS
  <2>1. R = {}
    BY FS_EmptySet DEF Keys
  <2> DEFINE s == [i \in 1..0 |-> 0]
  <2>2. s \in [1..0 -> R] /\ DOMAIN s = {}
    BY <2>1
  <2>3. IsOrder(s, R)
    BY <2>1, <2>2 DEF IsOrder, ToSet
  <2> QED  BY <2>3
<1>2. \A n \in Nat : n \in T => n + 1 \in T
  <2> SUFFICES ASSUME NEW n \in Nat, n \in T, NEW R, Keys(R), Cardinality(R) = n + 1
               PROVE  \E s : IsOrder(s, R)
    OBVIOUS
  <2>1. R # {} /\ IsFiniteSet(R)
    BY FS_EmptySet DEF Keys
  <2>2. PICK m \in R : \A k \in R : k = m \/ Before(k, m)
    BY <2>1, LastKey
  <2>3. IsFiniteSet(R \ {m}) /\ Cardinality(R \ {m}) = n
    BY <2>1, FS_RemoveElement
  <2>4. Keys(R \ {m})
    BY <2>3 DEF Keys
  <2>5. PICK s : IsOrder(s, R \ {m})
    BY <2>3, <2>4
  <2>6. /\ s \in [1..n -> R \ {m}] /\ ToSet(s) = R \ {m}
        /\ \A i, j \in 1..n : i < j => Before(s[i], s[j])
    BY <2>3, <2>5 DEF IsOrder
  <2> DEFINE new == [i \in 1..(n + 1) |-> IF i = n + 1 THEN m ELSE s[i]]
  <2>7. \A i \in 1..(n + 1) : i # n + 1 => i \in 1..n
    OBVIOUS
  <2>8. new \in [1..(n + 1) -> R]
    BY <2>6, <2>7
  <2>9. ToSet(new) = R
    <3>1. \A i \in 1..n : i \in 1..(n + 1) /\ i # n + 1 /\ n + 1 \in 1..(n + 1)
      OBVIOUS
    <3>2. ASSUME NEW k \in R PROVE k \in ToSet(new)
      <4>1. CASE k = m
        <5>1. n + 1 \in DOMAIN new /\ new[n + 1] = m
          OBVIOUS
        <5> QED  BY <4>1, <5>1 DEF ToSet
      <4>2. CASE k # m
        <5>1. PICK i \in 1..n : s[i] = k
          BY <2>6, <4>2 DEF ToSet
        <5>2. i \in DOMAIN new /\ new[i] = k
          BY <3>1, <5>1
        <5> QED  BY <5>2 DEF ToSet
      <4> QED  BY <4>1, <4>2
    <3>3. ToSet(new) \subseteq R
      BY <2>8 DEF ToSet
    <3> QED  BY <3>2, <3>3
  <2>10. \A i, j \in 1..(n + 1) : i < j => Before(new[i], new[j])
    <3> SUFFICES ASSUME NEW i \in 1..(n + 1), NEW j \in 1..(n + 1), i < j PROVE Before(new[i], new[j])
      OBVIOUS
    <3>1. i \in 1..n /\ i # n + 1
      OBVIOUS
    <3>2. new[i] = s[i] /\ s[i] \in R \ {m}
      BY <2>6, <3>1
    <3>3. CASE j = n + 1
      BY <2>2, <3>2, <3>3
    <3>4. CASE j # n + 1
      BY <2>6, <2>7, <3>1, <3>2, <3>4
    <3> QED  BY <3>3, <3>4
  <2> HIDE DEF new
  <2>11. IsOrder(new, R)
    BY <2>8, <2>9, <2>10 DEF IsOrder
  <2> QED  BY <2>11
<1>3. Nat \subseteq T
  <2> HIDE DEF T
  <2> QED  BY <1>1, <1>2, NatUpto
<1>4. Cardinality(S) \in T
  BY <1>3, FS_CardinalityType DEF Keys
<1> QED  BY <1>4

LEMMA InOrderIs ==
    ASSUME NEW S, Keys(S)
    PROVE  /\ InOrder(S) \in Seq(S) /\ Len(InOrder(S)) = Cardinality(S) /\ Cardinality(S) \in Nat
           /\ IsOrder(InOrder(S), S)
<1>1. IsOrder(InOrder(S), S)
  BY OrderExists DEF InOrder, IsOrder
<1>2. Cardinality(S) \in Nat
  BY FS_CardinalityType DEF Keys
<1>3. InOrder(S) \in [1..Cardinality(S) -> S]
  BY <1>1 DEF IsOrder
<1> QED  BY <1>1, <1>2, <1>3

LEMMA OrderFinds ==
    ASSUME NEW S, Keys(S), NEW s, IsOrder(s, S)
    PROVE  /\ \A k \in S : \E i \in 1..Cardinality(S) : s[i] = k
           /\ \A i, j \in 1..Cardinality(S) :
                 (Before(s[i], s[j]) => i < j) /\ (s[i] = s[j] => i = j)
<1>1. /\ Cardinality(S) \in Nat /\ DOMAIN s = 1..Cardinality(S)
      /\ \A i \in 1..Cardinality(S) : s[i] \in S /\ IsKey(s[i])
  BY FS_CardinalityType DEF IsOrder, Keys
<1>2. \A k \in S : \E i \in 1..Cardinality(S) : s[i] = k
  BY <1>1 DEF IsOrder, ToSet
<1>3. ASSUME NEW i \in 1..Cardinality(S), NEW j \in 1..Cardinality(S)
      PROVE  (Before(s[i], s[j]) => i < j) /\ (s[i] = s[j] => i = j)
  <2>1. /\ i < j => Before(s[i], s[j])
        /\ j < i => Before(s[j], s[i])
    BY <1>1 DEF IsOrder
  <2>2. ~Before(s[i], s[i]) /\ (Before(s[i], s[j]) => ~Before(s[j], s[i]))
    BY <1>1, BeforeOrders
  <2>3. i < j \/ j < i \/ i = j
    BY <1>1
  <2> QED  BY <2>1, <2>2, <2>3
<1> QED  BY <1>2, <1>3

GroupKeys(files) == {GroupOf(f) : f \in ToSet(files)}
CaseKeys(files, group) == {f.case : f \in {g \in ToSet(files) : GroupOf(g) = group}}

LEMMA FilesAre ==
    ASSUME NEW files \in Seq(ArchiveFiles)
    PROVE  /\ Len(files) \in Nat /\ DOMAIN files = 1..Len(files)
           /\ \A f \in ToSet(files) : f \in ArchiveFiles /\ \E i \in 1..Len(files) : files[i] = f
           /\ \A i \in 1..Len(files) : files[i] \in ToSet(files)
BY DEF ToSet

LEMMA KeysAre ==
    ASSUME NEW files \in Seq(ArchiveFiles), NEW group
    PROVE  Keys(GroupKeys(files)) /\ Keys(CaseKeys(files, group))
<1> DEFINE n == Len(files)
           all == {f.case : f \in ToSet(files)}
           groups == [i \in 1..n |-> GroupOf(files[i])]
           cases == [i \in 1..n |-> files[i].case]
<1>1. n \in Nat /\ IsFiniteSet(1..n)
  BY FilesAre, FS_Interval
<1>2. /\ \A f \in ToSet(files) : f \in ArchiveFiles /\ \E i \in 1..n : files[i] = f
      /\ \A i \in 1..n : files[i] \in ToSet(files)
  BY FilesAre
<1>3. \A f \in ToSet(files) : IsKey(f.case) /\ IsKey(GroupOf(f))
  BY <1>2, ArchiveFilesAssumption DEF GroupOf
<1>4. IsFiniteSet(GroupKeys(files))
  <2>1. groups \in Surjection(1..n, GroupKeys(files))
    BY <1>2 DEF Surjection, GroupKeys
  <2> QED  BY <1>1, <2>1, FS_Surjection
<1>5. IsFiniteSet(all)
  <2>1. cases \in Surjection(1..n, all)
    BY <1>2 DEF Surjection
  <2> QED  BY <1>1, <2>1, FS_Surjection
<1>6. CaseKeys(files, group) \in SUBSET all
  BY DEF CaseKeys
<1>7. IsFiniteSet(CaseKeys(files, group))
  BY <1>5, <1>6, FS_Subset
<1> QED  BY <1>3, <1>4, <1>7 DEF Keys, GroupKeys, CaseKeys

LEMMA LargestOf ==
    ASSUME NEW l \in Nat, NEW S, S \subseteq 1..l, S # {}
    PROVE  Max(S) \in S /\ \A k \in S : Max(S) >= k
<1> DEFINE T == {d \in Nat : l - d \in S}
<1>1. \A k \in S : l - k \in T
  <2> SUFFICES ASSUME NEW k \in S PROVE l - k \in Nat /\ l - (l - k) = k
    OBVIOUS
  <2> QED  OBVIOUS
<1>2. PICK d \in T : \A e \in T : d <= e
  BY <1>1, SmallestOf
<1>3. l - d \in S /\ \A k \in S : l - d >= k
  <2> SUFFICES ASSUME NEW k \in S PROVE l - d >= k
    BY <1>2
  <2>1. d \in Nat /\ d <= l - k /\ k \in Nat
    BY <1>1, <1>2
  <2> QED  BY <2>1
<1> QED  BY <1>3 DEF Max

\* Whatever the names are, a place has the last of the files for it.
LEMMA LastStays ==
    ASSUME NEW files \in Seq(ArchiveFiles), NEW i \in DOMAIN files, NEW type \in files[i].types
    PROVE  \E j \in i..Len(files) :
              /\ Rivals(files[i], files[j])
              /\ FileAt(files, type, GroupOf(files[i]), files[i].case) = files[j]
<1> DEFINE here == {j \in DOMAIN files :
                      type \in files[j].types /\ GroupOf(files[j]) = GroupOf(files[i]) /\ files[j].case = files[i].case}
<1>1. Len(files) \in Nat /\ DOMAIN files = 1..Len(files)
  BY FilesAre
<1>2. i \in here /\ here \in SUBSET (1..Len(files))
  BY <1>1
<1>3. Max(here) \in here /\ Max(here) >= i
  <2> HIDE DEF here
  <2> QED  BY <1>1, <1>2, LargestOf
<1>4. FileAt(files, type, GroupOf(files[i]), files[i].case) = files[Max(here)]
  BY <1>2 DEF FileAt
<1>5. Rivals(files[i], files[Max(here)])
  BY <1>3 DEF Rivals
<1>6. Max(here) \in i..Len(files)
  BY <1>1, <1>3
<1> HIDE DEF here
<1> QED  BY <1>4, <1>5, <1>6

LEMMA FileAtIs ==
    ASSUME NEW files \in Seq(ArchiveFiles), Clear(files), NEW f \in ToSet(files), NEW type, NEW group, NEW case
    PROVE  FileAt(files, type, group, case) = f <=> type \in f.types /\ GroupOf(f) = group /\ f.case = case
<1> DEFINE here == {i \in DOMAIN files :
                      type \in files[i].types /\ GroupOf(files[i]) = group /\ files[i].case = case}
<1>1. /\ Len(files) \in Nat /\ DOMAIN files = 1..Len(files)
      /\ \A i \in 1..Len(files) : files[i] \in ToSet(files)
      /\ f \in ArchiveFiles /\ \E i \in 1..Len(files) : files[i] = f
  BY FilesAre
<1>2. FileAt(files, type, group, case) = IF here = {} THEN None ELSE files[Max(here)]
  BY DEF FileAt
<1>3. CASE here = {}
  <2>1. ~(type \in f.types /\ GroupOf(f) = group /\ f.case = case)
    BY <1>1, <1>3
  <2> QED  BY <1>1, <1>2, <1>3, <2>1, ArchiveFilesAssumption
<1>4. CASE here # {}
  <2>1. PICK i \in here : TRUE
    BY <1>4
  <2>2. \A j \in here : j = i
    <3> SUFFICES ASSUME NEW j \in here PROVE j = i
      OBVIOUS
    <3>1. Rivals(files[j], files[i])
      BY <2>1 DEF Rivals
    <3> QED  BY <2>1, <3>1 DEF Clear
  <2>3. here = {i} /\ i \in Nat
    BY <1>1, <2>1, <2>2
  <2>4. Max(here) = i
    <3> HIDE DEF here
    <3> QED  BY <2>3 DEF Max
  <2>5. FileAt(files, type, group, case) = files[i]
    BY <1>2, <1>4, <2>4
  <2>6. type \in files[i].types /\ GroupOf(files[i]) = group /\ files[i].case = case
    BY <2>1
  <2>7. ASSUME type \in f.types, GroupOf(f) = group, f.case = case PROVE f = files[i]
    <3>1. PICK j \in DOMAIN files : files[j] = f
      BY <1>1
    <3>2. j \in here
      BY <2>7, <3>1
    <3> QED  BY <2>2, <3>1, <3>2
  <2> QED  BY <2>5, <2>6, <2>7
<1> QED  BY <1>3, <1>4

\* What MatchTestCases puts into an item and a case of it.
ItemIs(item, files, group, points) ==
    LET keys == CaseKeys(files, group)
    IN  /\ item.batched = (group \in BatchIds(files)) /\ item.points = points
        /\ DOMAIN item.cases = 1..Cardinality(keys) /\ Len(item.cases) = Cardinality(keys)
        /\ \A k \in 1..Cardinality(keys) :
              /\ item.cases[k]["in"] = FileAt(files, "in", group, InOrder(keys)[k])
              /\ item.cases[k]["out"] = FileAt(files, "out", group, InOrder(keys)[k])

LEMMA ItemsAre ==
    ASSUME NEW files \in Seq(ArchiveFiles), NEW points, NEW items, items = MatchTestCases(files, points)
    PROVE  /\ DOMAIN items = 1..Cardinality(GroupKeys(files)) /\ Cardinality(GroupKeys(files)) \in Nat
           /\ \A i \in 1..Cardinality(GroupKeys(files)) :
                 ItemIs(items[i], files, InOrder(GroupKeys(files))[i], points[i])
<1> DEFINE G == GroupKeys(files)
           groups == InOrder(G)
<1>1. Len(groups) = Cardinality(G) /\ Cardinality(G) \in Nat
  BY KeysAre, InOrderIs
<1>2. items = [i \in 1..Len(groups) |-> [batched |-> groups[i] \in BatchIds(files),
                                         cases |-> CasesOf(files, groups[i]), points |-> points[i]]]
  BY DEF MatchTestCases, GroupKeys
<1>3. ASSUME NEW i \in 1..Cardinality(G) PROVE ItemIs(items[i], files, groups[i], points[i])
  <2> DEFINE group == groups[i]
             keys == CaseKeys(files, group)
  <2>1. Len(InOrder(keys)) = Cardinality(keys) /\ Cardinality(keys) \in Nat
    BY KeysAre, InOrderIs
  <2>2. CasesOf(files, group) = [k \in 1..Len(InOrder(keys)) |->
              [in |-> FileAt(files, "in", group, InOrder(keys)[k]),
               out |-> FileAt(files, "out", group, InOrder(keys)[k])]]
    BY DEF CasesOf, CaseKeys
  <2> HIDE DEF keys, groups, G
  <2>3. /\ DOMAIN CasesOf(files, group) = 1..Cardinality(keys) /\ Len(CasesOf(files, group)) = Cardinality(keys)
        /\ \A k \in 1..Cardinality(keys) :
              /\ CasesOf(files, group)[k]["in"] = FileAt(files, "in", group, InOrder(keys)[k])
              /\ CasesOf(files, group)[k]["out"] = FileAt(files, "out", group, InOrder(keys)[k])
    BY <2>1, <2>2
  <2>4. items[i] = [batched |-> group \in BatchIds(files), cases |-> CasesOf(files, group), points |-> points[i]]
    BY <1>1, <1>2
  <2>5. /\ items[i].batched = (group \in BatchIds(files)) /\ items[i].points = points[i]
        /\ items[i].cases = CasesOf(files, group)
    BY <2>4
  <2> QED  BY <2>3, <2>5 DEF keys, ItemIs
<1> HIDE DEF groups
<1> QED  BY <1>1, <1>2, <1>3 DEF groups

\* The item and the case of it where a file belongs.
Placed(files, f, i, k) ==
    /\ i \in 1..Cardinality(GroupKeys(files)) /\ InOrder(GroupKeys(files))[i] = GroupOf(f)
    /\ k \in 1..Cardinality(CaseKeys(files, GroupOf(f))) /\ InOrder(CaseKeys(files, GroupOf(f)))[k] = f.case

LEMMA SomePlace ==
    ASSUME NEW files \in Seq(ArchiveFiles), NEW f \in ToSet(files) PROVE \E i, k : Placed(files, f, i, k)
<1>1. GroupOf(f) \in GroupKeys(files) /\ f.case \in CaseKeys(files, GroupOf(f))
  BY DEF GroupKeys, CaseKeys
<1>2. /\ Keys(GroupKeys(files)) /\ IsOrder(InOrder(GroupKeys(files)), GroupKeys(files))
      /\ Keys(CaseKeys(files, GroupOf(f)))
      /\ IsOrder(InOrder(CaseKeys(files, GroupOf(f))), CaseKeys(files, GroupOf(f)))
  BY KeysAre, InOrderIs
<1>3. PICK i \in 1..Cardinality(GroupKeys(files)) : InOrder(GroupKeys(files))[i] = GroupOf(f)
  BY <1>1, <1>2, OrderFinds
<1>4. PICK k \in 1..Cardinality(CaseKeys(files, GroupOf(f))) :
          InOrder(CaseKeys(files, GroupOf(f)))[k] = f.case
  BY <1>1, <1>2, OrderFinds
<1> QED  BY <1>3, <1>4 DEF Placed

Belongs(items, points, f, i, k) ==
    /\ Place(items, f) = {<<i, k>>}
    /\ \A type \in f.types : Entry(items, <<i, k>>, type) = f
    /\ items[i].batched <=> f.batch # None
    /\ f.batch = None => Len(items[i].cases) = 1
    /\ items[i].points = points[i]

\* What the files of a problem are put into has every file in one place.
LEMMA PlaceIs ==
    ASSUME NEW files \in Seq(ArchiveFiles), Clear(files), NEW points,
           NEW items, items = MatchTestCases(files, points),
           NEW f \in ToSet(files), NEW i, NEW k, Placed(files, f, i, k)
    PROVE  Belongs(items, points, f, i, k)
<1> DEFINE G == GroupKeys(files)
           groups == InOrder(G)
           Keyed(j) == CaseKeys(files, groups[j])
<1>1. /\ DOMAIN items = 1..Cardinality(G)
      /\ \A j \in 1..Cardinality(G) :
            /\ items[j].batched = (groups[j] \in BatchIds(files)) /\ items[j].points = points[j]
            /\ DOMAIN items[j].cases = 1..Cardinality(Keyed(j)) /\ Len(items[j].cases) = Cardinality(Keyed(j))
            /\ \A l \in 1..Cardinality(Keyed(j)) :
                  /\ items[j].cases[l]["in"] = FileAt(files, "in", groups[j], InOrder(Keyed(j))[l])
                  /\ items[j].cases[l]["out"] = FileAt(files, "out", groups[j], InOrder(Keyed(j))[l])
  <2>1. \A j \in 1..Cardinality(G) : ItemIs(items[j], files, groups[j], points[j])
    BY ItemsAre, Zenon
  <2>2. DOMAIN items = 1..Cardinality(G)
    BY ItemsAre, Zenon
  <2> QED  BY <2>1, <2>2 DEF ItemIs
<1>2. /\ i \in 1..Cardinality(G) /\ groups[i] = GroupOf(f)
      /\ k \in 1..Cardinality(Keyed(i)) /\ InOrder(Keyed(i))[k] = f.case
  BY DEF Placed
<1>3. f \in ArchiveFiles /\ f.types \in SUBSET {"in", "out"} /\ f.types # {}
      /\ IsKey(f.case) /\ (f.batch = None \/ IsKey(f.batch))
  BY FilesAre, ArchiveFilesAssumption
<1>4. /\ Keys(G) /\ IsOrder(groups, G)
      /\ \A j : Keys(Keyed(j)) /\ IsOrder(InOrder(Keyed(j)), Keyed(j))
  BY KeysAre, InOrderIs
<1>5. ASSUME NEW j \in 1..Cardinality(G), NEW l \in 1..Cardinality(Keyed(j)), NEW type \in f.types
      PROVE  items[j].cases[l][type] = f <=> j = i /\ l = k
  <2>1. items[j].cases[l][type] = FileAt(files, type, groups[j], InOrder(Keyed(j))[l])
    BY <1>1, <1>3
  <2>2. items[j].cases[l][type] = f <=> GroupOf(f) = groups[j] /\ f.case = InOrder(Keyed(j))[l]
    <3> HIDE DEF groups, Keyed
    <3> QED  BY <2>1, FileAtIs
  <2>3. GroupOf(f) = groups[j] <=> j = i
    <3> HIDE DEF groups
    <3> QED  BY <1>2, <1>4, OrderFinds
  <2>4. ASSUME j = i PROVE f.case = InOrder(Keyed(j))[l] <=> l = k
    <3>1. Keys(Keyed(i)) /\ IsOrder(InOrder(Keyed(i)), Keyed(i)) /\ l \in 1..Cardinality(Keyed(i))
      BY <1>4, <2>4
    <3> HIDE DEF Keyed
    <3> QED  BY <1>2, <2>4, <3>1, OrderFinds
  <2> QED  BY <2>2, <2>3, <2>4
<1>6. Place(items, f) = {<<i, k>>}
  <2> HIDE DEF Keyed, groups, G
  <2>1. ASSUME NEW p \in Place(items, f) PROVE p = <<i, k>>
    <3>1. PICK j \in DOMAIN items : p \in {<<j, l>> : l \in DOMAIN items[j].cases}
      BY DEF Place, Places
    <3>2. PICK l \in DOMAIN items[j].cases : p = <<j, l>>
      BY <3>1
    <3>3. \E type \in f.types : items[j].cases[l][type] = f
      BY <3>2 DEF Place, Entry
    <3> QED  BY <1>1, <1>5, <3>2, <3>3
  <2>2. <<i, k>> \in UNION {{<<j, l>> : l \in DOMAIN items[j].cases} : j \in DOMAIN items}
    BY <1>1, <1>2
  <2>3. \A type \in f.types : items[i].cases[k][type] = f
    BY <1>2, <1>5
  <2>4. <<i, k>> \in Place(items, f)
    BY <1>3, <2>2, <2>3 DEF Place, Places, Entry
  <2> QED  BY <2>1, <2>4
<1>9. \A type \in f.types : Entry(items, <<i, k>>, type) = f
  <2> HIDE DEF Keyed, groups, G
  <2> QED  BY <1>2, <1>5 DEF Entry
<1>7. items[i].batched <=> f.batch # None
  <2>1. f.batch = None => f.case \notin BatchIds(files)
    BY DEF Clear
  <2>2. f.batch # None => f.batch \in BatchIds(files)
    BY DEF BatchIds
  <2> HIDE DEF groups
  <2> QED  BY <1>1, <1>2, <2>1, <2>2 DEF GroupOf
<1>8. f.batch = None => Len(items[i].cases) = 1
  <2> SUFFICES ASSUME f.batch = None PROVE Cardinality(Keyed(i)) = 1
    BY <1>1, <1>2
  <2>1. GroupOf(f) = f.case /\ f.case \notin BatchIds(files)
    BY DEF Clear, GroupOf
  <2>2. \A g \in ToSet(files) : g.batch # None => g.batch \in BatchIds(files)
    BY DEF BatchIds
  <2>3. \A g \in ToSet(files) : GroupOf(g) = f.case => g.case = f.case
    BY <2>1, <2>2 DEF GroupOf
  <2>4. Keyed(i) = {f.case}
    BY <1>2, <2>1, <2>3 DEF CaseKeys
  <2> QED  BY <2>4, FS_Singleton
<1> QED  BY <1>1, <1>2, <1>6, <1>7, <1>8, <1>9 DEF Belongs

\* A file is lost only to a rival after it.
LEMMA NoneLost ==
    ASSUME NEW files \in Seq(ArchiveFiles), NEW points, NEW items, items = MatchTestCases(files, points),
           NEW n \in DOMAIN files, NEW type \in files[n].types
    PROVE  \E p \in Places(items), j \in n..Len(files) :
              Rivals(files[n], files[j]) /\ Entry(items, p, type) = files[j]
<1> DEFINE f == files[n]
           G == GroupKeys(files)
           C == CaseKeys(files, GroupOf(f))
<1>1. f \in ToSet(files) /\ type \in {"in", "out"}
  <2>1. files[n] \in ToSet(files) /\ files[n] \in ArchiveFiles
    BY FilesAre
  <2>2. files[n].types \in SUBSET {"in", "out"}
    BY <2>1, ArchiveFilesAssumption
  <2> QED  BY <2>1, <2>2
<1>2. PICK i, k : Placed(files, f, i, k)
  BY <1>1, SomePlace
<1>3. /\ i \in 1..Cardinality(G) /\ InOrder(G)[i] = GroupOf(f)
      /\ k \in 1..Cardinality(C) /\ InOrder(C)[k] = f.case
  BY <1>2 DEF Placed
<1>4. DOMAIN items = 1..Cardinality(G) /\ ItemIs(items[i], files, InOrder(G)[i], points[i])
  BY <1>3, ItemsAre
<1>5. /\ DOMAIN items[i].cases = 1..Cardinality(C)
      /\ items[i].cases[k][type] = FileAt(files, type, GroupOf(f), f.case)
  BY <1>1, <1>3, <1>4 DEF ItemIs
<1>6. <<i, k>> \in Places(items)
  <2> DEFINE CasesIn(m) == {<<m, l>> : l \in DOMAIN items[m].cases}
  <2>1. i \in DOMAIN items /\ k \in DOMAIN items[i].cases
    BY <1>3, <1>4, <1>5
  <2>2. <<i, k>> \in CasesIn(i)
    BY <2>1
  <2>3. Places(items) = UNION {CasesIn(m) : m \in DOMAIN items}
    BY DEF Places
  <2> HIDE DEF CasesIn
  <2> QED  BY <2>1, <2>2, <2>3
<1>7. PICK j \in n..Len(files) : Rivals(f, files[j]) /\ FileAt(files, type, GroupOf(f), f.case) = files[j]
  BY LastStays
<1>8. Entry(items, <<i, k>>, type) = files[j]
  BY <1>5, <1>7 DEF Entry
<1> QED  BY <1>6, <1>7, <1>8

LEMMA PlacesKeepOrder ==
    ASSUME NEW files \in Seq(ArchiveFiles), NEW f \in ToSet(files), NEW g \in ToSet(files),
           NEW i, NEW k, Placed(files, f, i, k), NEW j, NEW l, Placed(files, g, j, l)
    PROVE  /\ Before(GroupOf(f), GroupOf(g)) => i < j
           /\ GroupOf(f) = GroupOf(g) => i = j
           /\ GroupOf(f) = GroupOf(g) /\ Before(f.case, g.case) => k < l
           /\ GroupOf(f) = GroupOf(g) /\ f.case = g.case => i = j /\ k = l
<1> DEFINE G == GroupKeys(files)
           C == CaseKeys(files, GroupOf(f))
<1>1. Keys(G) /\ IsOrder(InOrder(G), G) /\ Keys(C) /\ IsOrder(InOrder(C), C)
  BY KeysAre, InOrderIs
<1>2. /\ i \in 1..Cardinality(G) /\ InOrder(G)[i] = GroupOf(f)
      /\ j \in 1..Cardinality(G) /\ InOrder(G)[j] = GroupOf(g)
      /\ k \in 1..Cardinality(C) /\ InOrder(C)[k] = f.case
      /\ GroupOf(f) = GroupOf(g) => l \in 1..Cardinality(C) /\ InOrder(C)[l] = g.case
  BY DEF Placed
<1> HIDE DEF G, C
<1>3. \A a, b \in 1..Cardinality(G) :
          (Before(InOrder(G)[a], InOrder(G)[b]) => a < b) /\ (InOrder(G)[a] = InOrder(G)[b] => a = b)
  BY <1>1, OrderFinds
<1>4. \A a, b \in 1..Cardinality(C) :
          (Before(InOrder(C)[a], InOrder(C)[b]) => a < b) /\ (InOrder(C)[a] = InOrder(C)[b] => a = b)
  BY <1>1, OrderFinds
<1> QED  BY <1>2, <1>3, <1>4

LEMMA AllMatched == ASSUME NEW files \in Seq(ArchiveFiles), NEW points PROVE CasesAreMatched(files, points)
<1> DEFINE items == ResolveTestCases(None, files, points)
           at(f) == CHOOSE p \in Place(items, f) : TRUE
<1>0. files # None
  BY ArchiveFilesAssumption
<1>1. ASSUME NEW n \in DOMAIN files, NEW type \in files[n].types
      PROVE  \E p \in Places(items), j \in n..Len(files) :
                Rivals(files[n], files[j]) /\ Entry(items, p, type) = files[j]
  <2>1. items = MatchTestCases(files, points)
    BY <1>0 DEF ResolveTestCases
  <2> HIDE DEF items
  <2> QED  BY <2>1, NoneLost
<1> SUFFICES ASSUME Clear(files)
             PROVE  /\ \A f \in ToSet(files) :
                          /\ Cardinality(Place(items, f)) = 1
                          /\ \A type \in f.types : Entry(items, at(f), type) = f
                          /\ items[at(f)[1]].batched <=> f.batch # None
                          /\ f.batch = None => Len(items[at(f)[1]].cases) = 1
                          /\ items[at(f)[1]].points = points[at(f)[1]]
                    /\ \A f, g \in ToSet(files) :
                          /\ Before(GroupOf(f), GroupOf(g)) => at(f)[1] < at(g)[1]
                          /\ GroupOf(f) = GroupOf(g) => at(f)[1] = at(g)[1]
                          /\ GroupOf(f) = GroupOf(g) /\ Before(f.case, g.case) => at(f)[2] < at(g)[2]
                          /\ GroupOf(f) = GroupOf(g) /\ f.case = g.case => at(f) = at(g)
  BY <1>1 DEF CasesAreMatched
<1>2. items = MatchTestCases(files, points)
  BY <1>0 DEF ResolveTestCases
<1> HIDE DEF items
<1>3. ASSUME NEW f \in ToSet(files), NEW i, NEW k, Placed(files, f, i, k)
      PROVE  Place(items, f) = {<<i, k>>} /\ at(f) = <<i, k>>
  <2>1. Belongs(items, points, f, i, k)
    BY <1>2, <1>3, PlaceIs
  <2> QED  BY <2>1 DEF Belongs
<1> HIDE DEF at
<1>4. ASSUME NEW f \in ToSet(files)
      PROVE  /\ Cardinality(Place(items, f)) = 1
             /\ \A type \in f.types : Entry(items, at(f), type) = f
             /\ items[at(f)[1]].batched <=> f.batch # None
             /\ f.batch = None => Len(items[at(f)[1]].cases) = 1
             /\ items[at(f)[1]].points = points[at(f)[1]]
  <2>1. PICK i, k : Placed(files, f, i, k)
    BY SomePlace
  <2>2. Place(items, f) = {<<i, k>>} /\ at(f) = <<i, k>> /\ at(f)[1] = i
    BY <1>3, <2>1
  <2>3. Cardinality({<<i, k>>}) = 1
    BY FS_Singleton
  <2>4. Belongs(items, points, f, i, k)
    BY <1>2, <2>1, PlaceIs
  <2>5. /\ \A type \in f.types : Entry(items, <<i, k>>, type) = f
        /\ items[i].batched <=> f.batch # None
        /\ f.batch = None => Len(items[i].cases) = 1
        /\ items[i].points = points[i]
    BY <2>4 DEF Belongs
  <2> QED  BY <2>2, <2>3, <2>5
<1>5. ASSUME NEW f \in ToSet(files), NEW g \in ToSet(files)
      PROVE  /\ Before(GroupOf(f), GroupOf(g)) => at(f)[1] < at(g)[1]
             /\ GroupOf(f) = GroupOf(g) => at(f)[1] = at(g)[1]
             /\ GroupOf(f) = GroupOf(g) /\ Before(f.case, g.case) => at(f)[2] < at(g)[2]
             /\ GroupOf(f) = GroupOf(g) /\ f.case = g.case => at(f) = at(g)
  <2>1. PICK i, k : Placed(files, f, i, k)
    BY SomePlace
  <2>2. PICK j, l : Placed(files, g, j, l)
    BY SomePlace
  <2>3. at(f) = <<i, k>> /\ at(g) = <<j, l>>
    BY <1>3, <2>1, <2>2
  <2>4. /\ Before(GroupOf(f), GroupOf(g)) => i < j
        /\ GroupOf(f) = GroupOf(g) => i = j
        /\ GroupOf(f) = GroupOf(g) /\ Before(f.case, g.case) => k < l
        /\ GroupOf(f) = GroupOf(g) /\ f.case = g.case => i = j /\ k = l
    BY <2>1, <2>2, PlacesKeepOrder
  <2> QED  BY <2>3, <2>4
<1> QED  BY <1>4, <1>5

ArchiveInv ==
    /\ "about" \in DOMAIN sample
    /\ sample.about = "archive" => "files" \in DOMAIN sample /\ sample.files \in Seq(ArchiveFiles)

LEMMA ArchiveInit == Init => ArchiveInv
<1> SUFFICES ASSUME Init PROVE ArchiveInv
  OBVIOUS
<1>1. ASSUME "about" \in DOMAIN sample, sample.about # "archive" PROVE ArchiveInv
  BY <1>1 DEF ArchiveInv
<1>2. CASE sample = [about |-> "archive", files |-> <<>>]
  <2>1. {"about", "files"} \subseteq DOMAIN sample /\ sample.files = <<>>
    BY <1>2
  <2> QED  BY <2>1 DEF ArchiveInv
<1>3. CASE \/ \E fs \in FileSystems : sample = [about |-> "policy", fs |-> fs, rules |-> <<>>]
           \/ \E a \in Alphabets : sample = [about |-> "outputs", alphabet |-> a, judge |-> <<>>, process |-> <<>>]
           \/ sample = [about |-> "data", data |-> <<>>]
  BY <1>1, <1>3
<1>4. CASE \E c \in Cases, d \in Disks :
              sample = [about |-> "case", case |-> c, disk |-> d, tc |-> Fresh, told |-> {}]
  BY <1>1, <1>4
<1>5. CASE \E d \in SUBSET ProblemDirs, g \in PatternLists :
              sample = [about |-> "roots", disk |-> d, globs |-> g,
                        judge |-> Roots([id \in Ids |-> NoRoot], FindRoots(d, g))]
  BY <1>1, <1>5
<1>6. CASE \E n \in Nodes :
              sample = [about |-> "config", first |-> n, node |-> n, told |-> [i \in DOMAIN Dashed |-> {}]]
  BY <1>1, <1>6
<1> QED  BY <1>2, <1>3, <1>4, <1>5, <1>6 DEF Init

LEMMA ArchiveStep == ArchiveInv /\ [Next]_sample => ArchiveInv'
<1> SUFFICES ASSUME ArchiveInv, [Next]_sample PROVE ArchiveInv'
  OBVIOUS
<1>1. StillAbout
  BY StaysAbout DEF ArchiveInv
<1>2. CASE AddFile
  <2>1. /\ sample.about = "archive" /\ "files" \in DOMAIN sample /\ sample.files \in Seq(ArchiveFiles)
    BY <1>2, WorkedOn DEF ArchiveInv
  <2>2. PICK f \in ArchiveFiles : sample' = [sample EXCEPT !["files"] = Append(@, f)]
    BY <1>2 DEF AddFile, Extend
  <2>3. sample'.files = Append(sample.files, f) /\ DOMAIN sample' = DOMAIN sample
    BY <2>1, <2>2
  <2>4. Append(sample.files, f) \in Seq(ArchiveFiles)
    BY <2>1
  <2> QED  BY <1>1, <2>1, <2>3, <2>4 DEF ArchiveInv, StillAbout
<1>3. CASE UNCHANGED sample
  BY <1>3 DEF ArchiveInv
<1>4. CASE AddPolicyRule \/ WriteOutput \/ WriteData \/ GradeCase \/ FindProblem \/ ReadConfig
  <2>1. sample.about # "archive"
    BY <1>4, WorkedOn
  <2> QED  BY <1>1, <2>1 DEF ArchiveInv, StillAbout
<1> QED  BY <1>2, <1>3, <1>4 DEF Next

(***************************************************************************)
(* Whatever order an archive lists its files in, _match_test_cases loses   *)
(* one only to a later file for the same side of the same case; without    *)
(* such files it puts every one into one case, with its partner, and the   *)
(* batches and their cases in the order of their numbers.                  *)
(***************************************************************************)
THEOREM ArchivesAreMatched == Spec => [](sample.about = "archive" => CasesAreMatched(sample.files, CasePoints))
<1>1. ArchiveInv => (sample.about = "archive" => CasesAreMatched(sample.files, CasePoints))
  BY AllMatched DEF ArchiveInv
<1> QED  BY ArchiveInit, ArchiveStep, <1>1, PTL DEF Spec

(***************************************************************************)
(* The line ends of a file.                                                *)
(***************************************************************************)
LEMMA ReplacedIs ==
    ASSUME NEW B, NEW data \in Seq(B)
    PROVE  /\ Replaced(data) \in [0..Len(data) -> Seq(B)]
           /\ Replaced(data)[0] = <<>>
           /\ \A n \in 1..Len(data) :
                 Replaced(data)[n] = IF data[n] = "\n" /\ n > 1 /\ data[n - 1] = "\r" THEN Replaced(data)[n - 1]
                                     ELSE Append(Replaced(data)[n - 1], data[n])
<1> DEFINE k == Len(data)
           Grown(n, x) == IF data[n] = "\n" /\ n > 1 /\ data[n - 1] = "\r" THEN x ELSE Append(x, data[n])
           step == [n \in 1..k |-> [x \in Seq(B) |-> Grown(n, x)]]
           Is(g) == g = [n \in 0..k |-> IF n = 0 THEN <<>> ELSE Grown(n, g[n - 1])]
           w == Replaced(data)
<1>1. k \in Nat /\ <<>> \in Seq(B)
  OBVIOUS
<1>2. step \in [1..k -> [Seq(B) -> Seq(B)]]
  <2> SUFFICES ASSUME NEW n \in 1..k, NEW x \in Seq(B) PROVE Grown(n, x) \in Seq(B)
    OBVIOUS
  <2>1. data[n] \in B
    OBVIOUS
  <2> QED  BY <2>1
<1>3. PICK g \in [0..k -> Seq(B)] : Recursion(g, <<>>, k, step)
  <2> HIDE DEF step, k
  <2> QED  BY <1>1, <1>2, RecursionExists
<1>4. g[0] = <<>> /\ \A n \in 1..k : g[n] = Grown(n, g[n - 1])
  <2> SUFFICES ASSUME NEW n \in 1..k PROVE step[n][g[n - 1]] = Grown(n, g[n - 1])
    BY <1>3 DEF Recursion
  <2>1. g[n - 1] \in Seq(B)
    BY <1>1
  <2> HIDE DEF Grown
  <2> QED  BY <2>1
<1>5. Is(g)
  <2> HIDE DEF Grown
  <2> QED  BY <1>4, SMTT(40)
<1>6. Is(w)
  BY <1>5 DEF Replaced
<1>7. w = g
  <2> DEFINE T == {n \in Nat : n <= k => w[n] = g[n]}
  <2> HIDE DEF w, Grown
  <2>1. 0 \in T
    BY <1>1, <1>5, <1>6
  <2>2. \A n \in Nat : n \in T => n + 1 \in T
    BY <1>1, <1>5, <1>6
  <2>3. Nat \subseteq T
    BY <2>1, <2>2, NatUpto
  <2> QED  BY <2>3, <1>5, <1>6, SMTT(40)
<1> QED  BY <1>4, <1>7

LEMMA DecodingsAre ==
    ASSUME NEW B, "\n" \in B, NEW data \in Seq(B)
    PROVE  /\ Decodings(data) \in [0..Len(data) -> Seq(B)]
           /\ Decodings(data)[0] = <<>>
           /\ \A n \in 1..Len(data) :
                 Decodings(data)[n] =
                    IF data[n] = "\r" THEN Append(Decodings(data)[n - 1], "\n")
                    ELSE IF data[n] = "\n" /\ n > 1 /\ data[n - 1] = "\r" THEN Decodings(data)[n - 1]
                    ELSE Append(Decodings(data)[n - 1], data[n])
<1> DEFINE k == Len(data)
           Grown(n, x) == IF data[n] = "\r" THEN Append(x, "\n")
                          ELSE IF data[n] = "\n" /\ n > 1 /\ data[n - 1] = "\r" THEN x
                          ELSE Append(x, data[n])
           step == [n \in 1..k |-> [x \in Seq(B) |-> Grown(n, x)]]
           Is(g) == g = [n \in 0..k |-> IF n = 0 THEN <<>> ELSE Grown(n, g[n - 1])]
           w == Decodings(data)
<1>1. k \in Nat /\ <<>> \in Seq(B)
  OBVIOUS
<1>2. step \in [1..k -> [Seq(B) -> Seq(B)]]
  <2> SUFFICES ASSUME NEW n \in 1..k, NEW x \in Seq(B) PROVE Grown(n, x) \in Seq(B)
    OBVIOUS
  <2>1. data[n] \in B
    OBVIOUS
  <2> QED  BY <2>1
<1>3. PICK g \in [0..k -> Seq(B)] : Recursion(g, <<>>, k, step)
  <2> HIDE DEF step, k
  <2> QED  BY <1>1, <1>2, RecursionExists
<1>4. g[0] = <<>> /\ \A n \in 1..k : g[n] = Grown(n, g[n - 1])
  <2> SUFFICES ASSUME NEW n \in 1..k PROVE step[n][g[n - 1]] = Grown(n, g[n - 1])
    BY <1>3 DEF Recursion
  <2>1. g[n - 1] \in Seq(B)
    BY <1>1
  <2> HIDE DEF Grown
  <2> QED  BY <2>1
<1>5. Is(g)
  <2> HIDE DEF Grown
  <2> QED  BY <1>4, SMTT(40)
<1>6. Is(w)
  BY <1>5 DEF Decodings
<1>7. w = g
  <2> DEFINE T == {n \in Nat : n <= k => w[n] = g[n]}
  <2> HIDE DEF w, Grown
  <2>1. 0 \in T
    BY <1>1, <1>5, <1>6
  <2>2. \A n \in Nat : n \in T => n + 1 \in T
    BY <1>1, <1>5, <1>6
  <2>3. Nat \subseteq T
    BY <2>1, <2>2, NatUpto
  <2> QED  BY <2>3, <1>5, <1>6
<1> QED  BY <1>4, <1>7

Mapped(s) == [i \in DOMAIN s |-> IF s[i] = "\r" THEN "\n" ELSE s[i]]

LEMMA MappedAppend ==
    ASSUME NEW B, NEW s \in Seq(B), NEW c \in B
    PROVE  Mapped(Append(s, c)) = Append(Mapped(s), IF c = "\r" THEN "\n" ELSE c)
BY DEF Mapped

\* replace twice and the decoder make the same of every beginning of a file.
LEMMA SameText ==
    ASSUME NEW B, "\n" \in B, NEW data \in Seq(B)
    PROVE  /\ Normalized(data) = Decoded(data) /\ Decoded(data) \in Seq(B)
           /\ \A i \in 1..Len(Decoded(data)) : Decoded(data)[i] # "\r"
           /\ Decoded(data) = <<>> <=> data = <<>>
<1> DEFINE k == Len(data)
           r == Replaced(data)
           d == Decodings(data)
           T == {n \in 0..k : /\ Mapped(r[n]) = d[n] /\ (n > 0 => Len(d[n]) > 0)
                              /\ \A i \in 1..Len(d[n]) : d[n][i] # "\r"}
<1>1. /\ k \in Nat /\ r \in [0..k -> Seq(B)] /\ r[0] = <<>>
      /\ d \in [0..k -> Seq(B)] /\ d[0] = <<>>
  BY ReplacedIs, DecodingsAre
<1>2. \A n \in 1..k : r[n] = IF data[n] = "\n" /\ n > 1 /\ data[n - 1] = "\r" THEN r[n - 1]
                             ELSE Append(r[n - 1], data[n])
  BY ReplacedIs
<1>3. \A n \in 1..k : d[n] = IF data[n] = "\r" THEN Append(d[n - 1], "\n")
                             ELSE IF data[n] = "\n" /\ n > 1 /\ data[n - 1] = "\r" THEN d[n - 1]
                             ELSE Append(d[n - 1], data[n])
  BY DecodingsAre
<1> HIDE DEF r, d
<1>4. 0 \in T
  BY <1>1 DEF Mapped
<1>5. ASSUME NEW n \in 0..(k - 1), n \in T PROVE n + 1 \in T
  <2> DEFINE c == data[n + 1]
  <2>1. n + 1 \in 1..k /\ (n + 1) - 1 = n /\ n \in 0..k /\ c \in B
    BY <1>1
  <2>2. r[n] \in Seq(B) /\ d[n] \in Seq(B) /\ Mapped(r[n]) = d[n] /\ n + 1 \in 0..k
    BY <1>1, <1>5, <2>1
  <2>3. CASE c = "\r"
    <3>1. r[n + 1] = Append(r[n], c) /\ d[n + 1] = Append(d[n], "\n")
      BY <1>2, <1>3, <2>1, <2>3
    <3>2. Mapped(r[n + 1]) = d[n + 1]
      BY <2>1, <2>2, <2>3, <3>1, MappedAppend
    <3>3. Len(d[n + 1]) > 0 /\ \A i \in 1..Len(d[n + 1]) : d[n + 1][i] # "\r"
      BY <1>5, <2>2, <3>1
    <3> QED  BY <2>2, <3>2, <3>3
  <2>4. CASE c = "\n" /\ n + 1 > 1 /\ data[n] = "\r"
    <3>1. r[n + 1] = r[n] /\ d[n + 1] = d[n]
      BY <1>2, <1>3, <2>1, <2>4
    <3> QED  BY <1>5, <2>1, <2>2, <2>4, <3>1
  <2>5. CASE c # "\r" /\ ~(c = "\n" /\ n + 1 > 1 /\ data[n] = "\r")
    <3>1. r[n + 1] = Append(r[n], c) /\ d[n + 1] = Append(d[n], c)
      BY <1>2, <1>3, <2>1, <2>5
    <3>2. Mapped(r[n + 1]) = d[n + 1]
      BY <2>1, <2>2, <2>5, <3>1, MappedAppend
    <3>3. Len(d[n + 1]) > 0 /\ \A i \in 1..Len(d[n + 1]) : d[n + 1][i] # "\r"
      BY <1>5, <2>1, <2>2, <2>5, <3>1
    <3> QED  BY <2>2, <3>2, <3>3
  <2> QED  BY <2>3, <2>4, <2>5
<1>6. 0..k \subseteq T
  <2> HIDE DEF T
  <2> QED  BY <1>1, <1>4, <1>5, UptoInduction
<1>7. k \in T /\ k \in 0..k
  BY <1>1, <1>6
<1>8. /\ Mapped(r[k]) = d[k] /\ (k > 0 => Len(d[k]) > 0) /\ d[k] \in Seq(B)
      /\ \A i \in 1..Len(d[k]) : d[k][i] # "\r"
  BY <1>1, <1>7
<1>9. Normalized(data) = Mapped(r[k]) /\ Decoded(data) = d[k]
  BY DEF Normalized, Mapped, Decoded, r, d
<1>10. k = 0 => d[k] = <<>>
  BY <1>1
<1>11. k = 0 <=> data = <<>>
  OBVIOUS
<1> QED  BY <1>1, <1>8, <1>9, <1>10, <1>11

\* A text without the line ends of other systems stands as it is.
LEMMA PlainText ==
    ASSUME NEW B, "\n" \in B, NEW data \in Seq(B), \A i \in 1..Len(data) : data[i] # "\r"
    PROVE  Decoded(data) = data
<1> DEFINE k == Len(data)
           d == Decodings(data)
           T == {n \in 0..k : Len(d[n]) = n /\ \A i \in 1..n : d[n][i] = data[i]}
<1>1. k \in Nat /\ d \in [0..k -> Seq(B)] /\ d[0] = <<>>
  BY DecodingsAre
<1>2. \A n \in 1..k : d[n] = Append(d[n - 1], data[n])
  <2> SUFFICES ASSUME NEW n \in 1..k PROVE d[n] = Append(d[n - 1], data[n])
    OBVIOUS
  <2>1. data[n] # "\r" /\ (n > 1 => n - 1 \in 1..k /\ data[n - 1] # "\r")
    BY <1>1
  <2> QED  BY <2>1, DecodingsAre
<1> HIDE DEF d
<1>3. 0 \in T
  BY <1>1
<1>4. ASSUME NEW n \in 0..(k - 1), n \in T PROVE n + 1 \in T
  <2>1. n + 1 \in 1..k /\ (n + 1) - 1 = n /\ n \in 0..k /\ n + 1 \in 0..k /\ data[n + 1] \in B
    BY <1>1
  <2>2. d[n] \in Seq(B) /\ d[n + 1] = Append(d[n], data[n + 1])
    BY <1>1, <1>2, <2>1
  <2>3. Len(d[n]) = n /\ \A i \in 1..n : d[n][i] = data[i]
    BY <1>4
  <2>4. Len(d[n + 1]) = n + 1 /\ \A i \in 1..(n + 1) : d[n + 1][i] = data[i]
    BY <2>1, <2>2, <2>3
  <2> QED  BY <2>1, <2>4
<1>5. 0..k \subseteq T
  <2> HIDE DEF T
  <2> QED  BY <1>1, <1>3, <1>4, UptoInduction
<1>6. k \in T /\ d[k] \in Seq(B)
  BY <1>1, <1>5
<1>7. d[k] = data
  BY <1>6
<1> QED  BY <1>7 DEF Decoded, d

\* The last block that is read ends with the text.
LEMMA BlocksEnd ==
    ASSUME NEW l \in Nat, NEW b \in Nat, b >= 1,
           NEW blocks, blocks = {k \in 1..l : (k - 1) * b < l}
    PROVE  /\ blocks = {} <=> l = 0
           /\ l > 0 => Min({Max(blocks) * b, l}) = l
<1>1. l > 0 => 1 \in blocks
  <2>1. (1 - 1) * b = 0
    OBVIOUS
  <2> QED  BY <2>1
<1>2. ASSUME l > 0 PROVE Max(blocks) \in blocks /\ \A k \in blocks : Max(blocks) >= k
  <2>1. blocks \subseteq 1..l /\ blocks # {}
    BY <1>1, <1>2
  <2> QED  BY <2>1, LargestOf
<1>3. ASSUME l > 0 PROVE Max(blocks) * b >= l
  <2> DEFINE m == Max(blocks)
  <2>1. m \in 1..l /\ \A k \in blocks : m >= k
    BY <1>2, <1>3
  <2> HIDE DEF m
  <2>2. m * b \in Nat /\ m <= m * b
    <3>1. m * b = m + m * (b - 1) /\ b - 1 \in Nat /\ m \in Nat
      BY <2>1
    <3>2. m * (b - 1) \in Nat
      BY <3>1
    <3> QED  BY <3>1, <3>2
  <2>3. ASSUME m * b < l PROVE FALSE
    <3>1. m + 1 \in 1..l /\ (m + 1) - 1 = m
      BY <2>1, <2>2, <2>3
    <3>2. m + 1 \in blocks
      BY <2>3, <3>1
    <3> QED  BY <2>1, <3>2
  <2>4. m * b >= l
    BY <2>2, <2>3
  <2> QED  BY <2>4 DEF m
<1>4. ASSUME l > 0 PROVE Min({Max(blocks) * b, l}) = l
  <2> DEFINE e == Max(blocks) * b
  <2>1. e \in Int /\ e >= l
    BY <1>2, <1>3, <1>4
  <2> HIDE DEF e
  <2>2. Min({e, l}) = l
    BY <2>1 DEF Min
  <2> QED  BY <2>2 DEF e
<1>5. l = 0 => blocks = {}
  <2>1. l = 0 => 1..l = {}
    OBVIOUS
  <2> QED  BY <2>1
<1>6. blocks = {} => l = 0
  <2>1. l > 0 \/ l = 0
    OBVIOUS
  <2> QED  BY <1>1, <2>1
<1> QED  BY <1>4, <1>5, <1>6

Ended(text) == IF text # <<>> /\ text[Len(text)] # "\n" THEN Append(text, "\n") ELSE text

LEMMA CopyIs ==
    ASSUME NEW B, "\n" \in B, NEW data \in Seq(B), NEW b \in Nat, b >= 1
    PROVE  NormalizedFileCopy(data, b) = Ended(Decoded(data))
<1> DEFINE text == Decoded(data)
           blocks == {k \in 1..Len(text) : (k - 1) * b < Len(text)}
<1>1. text \in Seq(B)
  BY SameText
<1> HIDE DEF text
<1>2. Len(text) \in Nat /\ (Len(text) = 0 <=> text = <<>>)
  BY <1>1
<1>3. (blocks = {} <=> Len(text) = 0) /\ (Len(text) > 0 => Min({Max(blocks) * b, Len(text)}) = Len(text))
  BY <1>2, BlocksEnd
<1>4. NormalizedFileCopy(data, b) =
        IF blocks # {} /\ text[Min({Max(blocks) * b, Len(text)})] # "\n" THEN Append(text, "\n") ELSE text
  BY DEF NormalizedFileCopy, text
<1> HIDE DEF blocks
<1>5. NormalizedFileCopy(data, b) = Ended(text)
  BY <1>2, <1>3, <1>4 DEF Ended
<1> QED  BY <1>5 DEF text

LEMMA NormalizeIs ==
    ASSUME NEW B, "\n" \in B, NEW data \in Seq(B) PROVE Normalize(data, FALSE) = Ended(Decoded(data))
<1>1. Normalized(data) = Decoded(data) /\ Decoded(data) \in Seq(B) /\ (Decoded(data) = <<>> <=> data = <<>>)
  BY SameText
<1> QED  BY <1>1 DEF Normalize, Ended, Last

LEMMA LineEndsAgree ==
    ASSUME NEW S, NEW data \in Seq(S), NEW sizes, \A b \in sizes : b \in Nat /\ b >= 1
    PROVE  LinesAgree(data, sizes)
<1> DEFINE B == S \cup {"\n"}
           text == Decoded(data)
           copy == Ended(text)
<1>1. "\n" \in B /\ data \in Seq(B)
  OBVIOUS
<1> HIDE DEF B
<1>2. text \in Seq(B) /\ \A i \in 1..Len(text) : text[i] # "\r"
  BY <1>1, SameText
<1> HIDE DEF text
<1>3. /\ copy \in Seq(B) /\ \A i \in 1..Len(copy) : copy[i] # "\r"
      /\ Ended(copy) = copy /\ (copy # <<>> => Last(copy) = "\n")
  BY <1>1, <1>2 DEF Ended, Last
<1> HIDE DEF copy
<1>4. Decoded(copy) = copy
  BY <1>1, <1>3, PlainText
<1>5. Normalize(data, FALSE) = copy /\ Normalize(copy, FALSE) = copy
  BY <1>1, <1>3, <1>4, NormalizeIs DEF copy, text
<1>6. \A b \in sizes : NormalizedFileCopy(data, b) = copy /\ NormalizedFileCopy(copy, b) = copy
  BY <1>1, <1>3, <1>4, CopyIs DEF copy, text
<1>7. "\r" \notin ToSet(copy)
  BY <1>3 DEF ToSet
<1> QED  BY <1>3, <1>5, <1>6, <1>7 DEF LinesAgree

DataInv ==
    /\ "about" \in DOMAIN sample
    /\ sample.about = "data" => "data" \in DOMAIN sample /\ sample.data \in Seq(Bytes)

LEMMA DataInit == Init => DataInv
<1> SUFFICES ASSUME Init PROVE DataInv
  OBVIOUS
<1>1. ASSUME "about" \in DOMAIN sample, sample.about # "data" PROVE DataInv
  BY <1>1 DEF DataInv
<1>2. CASE sample = [about |-> "data", data |-> <<>>]
  <2>1. {"about", "data"} \subseteq DOMAIN sample /\ sample.data = <<>>
    BY <1>2
  <2> QED  BY <2>1 DEF DataInv
<1>3. CASE \/ \E fs \in FileSystems : sample = [about |-> "policy", fs |-> fs, rules |-> <<>>]
           \/ \E a \in Alphabets : sample = [about |-> "outputs", alphabet |-> a, judge |-> <<>>, process |-> <<>>]
           \/ sample = [about |-> "archive", files |-> <<>>]
  BY <1>1, <1>3
<1>4. CASE \E c \in Cases, d \in Disks :
              sample = [about |-> "case", case |-> c, disk |-> d, tc |-> Fresh, told |-> {}]
  BY <1>1, <1>4
<1>5. CASE \E d \in SUBSET ProblemDirs, g \in PatternLists :
              sample = [about |-> "roots", disk |-> d, globs |-> g,
                        judge |-> Roots([id \in Ids |-> NoRoot], FindRoots(d, g))]
  BY <1>1, <1>5
<1>6. CASE \E n \in Nodes :
              sample = [about |-> "config", first |-> n, node |-> n, told |-> [i \in DOMAIN Dashed |-> {}]]
  BY <1>1, <1>6
<1> QED  BY <1>2, <1>3, <1>4, <1>5, <1>6 DEF Init

LEMMA DataStep == DataInv /\ [Next]_sample => DataInv'
<1> SUFFICES ASSUME DataInv, [Next]_sample PROVE DataInv'
  OBVIOUS
<1>1. StillAbout
  BY StaysAbout DEF DataInv
<1>2. CASE WriteData
  <2>1. /\ sample.about = "data" /\ "data" \in DOMAIN sample /\ sample.data \in Seq(Bytes)
    BY <1>2, WorkedOn DEF DataInv
  <2>2. PICK c \in Bytes : sample' = [sample EXCEPT !["data"] = Append(@, c)]
    BY <1>2 DEF WriteData, Extend
  <2>3. sample'.data = Append(sample.data, c) /\ DOMAIN sample' = DOMAIN sample
    BY <2>1, <2>2
  <2>4. Append(sample.data, c) \in Seq(Bytes)
    BY <2>1
  <2> QED  BY <1>1, <2>1, <2>3, <2>4 DEF DataInv, StillAbout
<1>3. CASE UNCHANGED sample
  BY <1>3 DEF DataInv
<1>4. CASE AddPolicyRule \/ WriteOutput \/ AddFile \/ GradeCase \/ FindProblem \/ ReadConfig
  <2>1. sample.about # "data"
    BY <1>4, WorkedOn
  <2> QED  BY <1>1, <2>1 DEF DataInv, StillAbout
<1> QED  BY <1>2, <1>3, <1>4 DEF Next

(***************************************************************************)
(* _normalize and normalized_file_copy, whatever its block size, give      *)
(* every file the same line ends, change nothing the second time and end a *)
(* text with a line end.                                                   *)
(***************************************************************************)
THEOREM LineEndsAreOne == Spec => [](sample.about = "data" => LinesAgree(sample.data, BlockSizes))
<1>1. DataInv => (sample.about = "data" => LinesAgree(sample.data, BlockSizes))
  BY LineEndsAgree, BlockSizesAssumption DEF DataInv
<1> QED  BY DataInit, DataStep, <1>1, PTL DEF Spec

(***************************************************************************)
(* What a grading is told of a case: g is what its one run of the          *)
(* generator wrote, Nothing before the run.                                *)
(***************************************************************************)
Gen(case, disk, run) == RunGenerator(case, disk, Fresh, run).generated

InputFrom(case, disk, g) ==
    IF case.in # Nothing THEN Stored(IF case.binary THEN Open(disk, case.in)
                                     ELSE NormalizedFileCopy(Open(disk, case.in), 16384))
    ELSE IF case.generator THEN g.stdout
    ELSE Stored(<<>>)

AnswerFrom(case, disk, g) ==
    IF case.out # Nothing THEN Stored(Normalize(Open(disk, case.out), case.binary))
    ELSE IF case.generator THEN g.stderr
    ELSE Stored(<<>>)

\* The file is there, or the run was.
IsThere(case, disk, name, g) ==
    /\ name # Nothing => Open(disk, name) # Nothing
    /\ name = Nothing /\ case.generator => g # Nothing

WasTold(case, disk, t, g) ==
    \/ t = <<"input", InputFrom(case, disk, g)>> /\ IsThere(case, disk, case.in, g)
    \/ t = <<"answer", AnswerFrom(case, disk, g)>> /\ IsThere(case, disk, case.out, g)

Known(case, disk, tc, told, g) ==
    /\ DOMAIN tc = {"generated", "input", "closed", "runs", "raised"} /\ tc.closed \in BOOLEAN
    /\ g = Nothing \/ \E run \in Runs : g = Gen(case, disk, run)
    /\ ~tc.closed => tc.generated = g
    /\ ~tc.closed /\ tc.raised = Nothing /\ g = Nothing => tc.runs = 0
    /\ tc.input = Nothing \/ (tc.input = InputFrom(case, disk, g) /\ IsThere(case, disk, case.in, g))
    /\ \A t \in told : WasTold(case, disk, t, g)
    /\ tc.raised = "InternalError" => \A t \in told : t[2].run = 0

\* The grading goes on.
Asks(case, disk, tc, told, g) ==
    Known(case, disk, tc, told, g) /\ tc.raised = Nothing /\ ~tc.closed

\* What was told before the run does not come from it.
LEMMA ToldBefore ==
    ASSUME NEW case, NEW disk, NEW t, NEW g, WasTold(case, disk, t, Nothing)
    PROVE  WasTold(case, disk, t, g) /\ t[2].run = 0
<1>1. ASSUME IsThere(case, disk, case.in, Nothing)
      PROVE  /\ IsThere(case, disk, case.in, g)
             /\ InputFrom(case, disk, g) = InputFrom(case, disk, Nothing) /\ InputFrom(case, disk, Nothing).run = 0
  <2>1. case.in # Nothing \/ ~case.generator
    BY <1>1 DEF IsThere
  <2> QED  BY <1>1, <2>1 DEF IsThere, InputFrom, Stored
<1>2. ASSUME IsThere(case, disk, case.out, Nothing)
      PROVE  /\ IsThere(case, disk, case.out, g)
             /\ AnswerFrom(case, disk, g) = AnswerFrom(case, disk, Nothing) /\ AnswerFrom(case, disk, Nothing).run = 0
  <2>1. case.out # Nothing \/ ~case.generator
    BY <1>2 DEF IsThere
  <2> QED  BY <1>2, <2>1 DEF IsThere, AnswerFrom, Stored
<1> QED  BY <1>1, <1>2 DEF WasTold

LEMMA RunIsKnown ==
    ASSUME NEW case \in Cases, NEW disk \in Disks, NEW tc, NEW told, Asks(case, disk, tc, told, Nothing),
           NEW run \in Runs, NEW made, made = RunGenerator(case, disk, tc, run)
    PROVE  /\ Known(case, disk, made, told, Gen(case, disk, run)) /\ Gen(case, disk, run) # Nothing
           /\ ~made.closed /\ made.generated = Gen(case, disk, run)
<1> DEFINE g == Gen(case, disk, run)
           wrote(text) == [run |-> 1, given |-> Given(case, disk), text |-> text]
           out == [stdout |-> wrote(run.stdout), stderr |-> wrote(Normalize(run.stderr, case.binary))]
<1>1. /\ DOMAIN tc = {"generated", "input", "closed", "runs", "raised"} /\ tc.closed = FALSE
      /\ tc.raised = Nothing /\ tc.runs = 0
      /\ \A t \in told : WasTold(case, disk, t, Nothing)
      /\ tc.input = Nothing \/ (tc.input = InputFrom(case, disk, Nothing) /\ IsThere(case, disk, case.in, Nothing))
  BY DEF Asks, Known
<1>2. Nothing # "InternalError" /\ g # Nothing
  BY CasesAssumption DEF Gen
<1>3. g = out
  <2>1. Fresh.runs + 1 = 1 /\ DOMAIN Fresh = {"generated", "input", "closed", "runs", "raised"}
    BY DEF Fresh
  <2>2. RunGenerator(case, disk, Fresh, run) =
          LET done == [Fresh EXCEPT !.runs = 1, !.generated = out]
          IN  IF run.well THEN done ELSE Raise(done, "InternalError")
    BY <2>1 DEF RunGenerator
  <2> HIDE DEF out
  <2> QED  BY <2>1, <2>2 DEF Gen, Raise
<1>4. made = LET done == [tc EXCEPT !.runs = 1, !.generated = out]
             IN  IF run.well THEN done ELSE Raise(done, "InternalError")
  <2>1. tc.runs + 1 = 1
    BY <1>1
  <2> QED  BY <2>1 DEF RunGenerator
<1> HIDE DEF out, g
<1>5. /\ DOMAIN made = {"generated", "input", "closed", "runs", "raised"}
      /\ made.generated = g /\ made.input = tc.input /\ made.closed = FALSE
  BY <1>1, <1>3, <1>4 DEF Raise
<1>6. \A t \in told : WasTold(case, disk, t, g) /\ t[2].run = 0
  BY <1>1, ToldBefore
<1>7. made.input = Nothing \/ (made.input = InputFrom(case, disk, g) /\ IsThere(case, disk, case.in, g))
  <2> SUFFICES ASSUME IsThere(case, disk, case.in, Nothing)
               PROVE  InputFrom(case, disk, Nothing) = InputFrom(case, disk, g) /\ IsThere(case, disk, case.in, g)
    BY <1>1, <1>5
  <2>1. case.in # Nothing \/ ~case.generator
    BY DEF IsThere
  <2> QED  BY <2>1 DEF IsThere, InputFrom
<1>8. \E r \in Runs : g = Gen(case, disk, r)
  BY DEF g
<1>9. Known(case, disk, made, told, g)
  BY <1>2, <1>5, <1>6, <1>7, <1>8 DEF Known
<1> QED  BY <1>2, <1>5, <1>9 DEF g

\* What is written is there, run now or before.
LEMMA GeneratedIs ==
    ASSUME NEW case \in Cases, NEW disk \in Disks, NEW tc, NEW told, NEW g, Asks(case, disk, tc, told, g),
           NEW run \in Runs, NEW made, made = Generated(case, disk, tc, run)
    PROVE  \E h : Known(case, disk, made, told, h) /\ h # Nothing /\ ~made.closed /\ made.generated = h
<1>1. tc.generated = g /\ ~tc.closed /\ Known(case, disk, tc, told, g)
  BY DEF Asks, Known
<1>2. CASE g = Nothing
  BY <1>1, <1>2, RunIsKnown DEF Generated
<1>3. CASE g # Nothing
  BY <1>1, <1>3 DEF Generated
<1> QED  BY <1>2, <1>3

LEMMA InputTold ==
    ASSUME NEW case, NEW disk, NEW tc, NEW told, NEW g, Asks(case, disk, tc, told, g),
           IsThere(case, disk, case.in, g),
           NEW new, new = [tc EXCEPT !.input = InputFrom(case, disk, g)], "InternalError" # Nothing
    PROVE  Known(case, disk, new, told \cup {<<"input", InputFrom(case, disk, g)>>}, g)
<1>1. /\ DOMAIN new = DOMAIN tc /\ new.generated = tc.generated /\ new.input = InputFrom(case, disk, g)
      /\ new.closed = tc.closed /\ new.runs = tc.runs /\ new.raised = tc.raised
  BY DEF Asks, Known
<1>2. WasTold(case, disk, <<"input", InputFrom(case, disk, g)>>, g)
  BY DEF WasTold
<1> QED  BY <1>1, <1>2 DEF Asks, Known

LEMMA AnswerTold ==
    ASSUME NEW case, NEW disk, NEW tc, NEW told, NEW g, Asks(case, disk, tc, told, g),
           IsThere(case, disk, case.out, g), "InternalError" # Nothing
    PROVE  Known(case, disk, tc, told \cup {<<"answer", AnswerFrom(case, disk, g)>>}, g)
<1>1. WasTold(case, disk, <<"answer", AnswerFrom(case, disk, g)>>, g)
  BY DEF WasTold
<1> QED  BY <1>1 DEF Asks, Known

LEMMA RaisedIs ==
    ASSUME NEW case, NEW disk, NEW tc, NEW told, NEW g, Asks(case, disk, tc, told, g),
           NEW what, what # "InternalError", what # Nothing
    PROVE  /\ Known(case, disk, Raise(tc, what), told, g) /\ Raise(tc, what).raised = what
<1> DEFINE new == Raise(tc, what)
<1>1. /\ DOMAIN new = DOMAIN tc /\ new.generated = tc.generated /\ new.input = tc.input
      /\ new.closed = tc.closed /\ new.runs = tc.runs /\ new.raised = what
  BY DEF Asks, Known, Raise
<1> HIDE DEF new
<1>2. Known(case, disk, new, told, g)
  BY <1>1 DEF Asks, Known
<1> QED  BY <1>1, <1>2 DEF new

ToldWith(told, tc, what) == IF tc.raised = Nothing THEN told \cup {what} ELSE told

Fits(case, disk, tc, told) == \E g : Known(case, disk, tc, told, g)

LEMMA InputAsked ==
    ASSUME NEW case \in Cases, NEW disk \in Disks, NEW tc, NEW told, NEW g, Asks(case, disk, tc, told, g),
           NEW run \in Runs, NEW new, new = InputDataIo(case, disk, tc, run)
    PROVE  Fits(case, disk, new, ToldWith(told, new, <<"input", new.input>>))
<1>1. /\ Nothing \notin {"InternalError", "KeyError", "InvalidInit"}
      /\ "KeyError" # "InternalError" /\ "InvalidInit" # "InternalError"
  BY CasesAssumption
<1>2. tc.raised = Nothing /\ ~tc.closed
  BY DEF Asks
<1>3. /\ DOMAIN tc = {"generated", "input", "closed", "runs", "raised"}
      /\ tc.input = Nothing \/ (tc.input = InputFrom(case, disk, g) /\ IsThere(case, disk, case.in, g))
  BY DEF Asks, Known
<1>4. CASE tc.input # Nothing
  <2>1. new = tc /\ tc.input = InputFrom(case, disk, g) /\ IsThere(case, disk, case.in, g)
    BY <1>3, <1>4 DEF InputDataIo
  <2>2. WasTold(case, disk, <<"input", InputFrom(case, disk, g)>>, g)
    BY <2>1 DEF WasTold
  <2>3. Known(case, disk, tc, told \cup {<<"input", InputFrom(case, disk, g)>>}, g)
    BY <1>1, <2>2 DEF Asks, Known
  <2> QED  BY <1>2, <2>1, <2>3 DEF Fits, ToldWith
\* Something new is put into the case.
<1>5. ASSUME NEW made, NEW h, Asks(case, disk, made, told, h), IsThere(case, disk, case.in, h),
             new = [made EXCEPT !.input = InputFrom(case, disk, h)]
      PROVE  Fits(case, disk, new, ToldWith(told, new, <<"input", new.input>>))
  <2>1. Known(case, disk, new, told \cup {<<"input", InputFrom(case, disk, h)>>}, h)
    BY <1>1, <1>5, InputTold
  <2>2. DOMAIN made = {"generated", "input", "closed", "runs", "raised"} /\ made.raised = Nothing
    BY <1>5 DEF Asks, Known
  <2>3. new.raised = Nothing /\ new.input = InputFrom(case, disk, h)
    BY <1>5, <2>2
  <2> QED  BY <2>1, <2>3 DEF Fits, ToldWith
<1>6. ASSUME NEW what \in {"KeyError", "InvalidInit"}, new = Raise(tc, what)
      PROVE  Fits(case, disk, new, ToldWith(told, new, <<"input", new.input>>))
  <2>1. Known(case, disk, new, told, g) /\ new.raised # Nothing
    BY <1>1, <1>6, RaisedIs
  <2> QED  BY <2>1 DEF Fits, ToldWith
<1>7. CASE tc.input = Nothing
  <2>1. new = MakeInput(case, disk, tc, run)
    BY <1>7 DEF InputDataIo
  <2>2. CASE Ambiguous(case)
    BY <1>6, <2>1, <2>2 DEF MakeInput
  <2>3. CASE ~Ambiguous(case) /\ case.generator /\ case.in = Nothing
    <3> DEFINE made == Generated(case, disk, tc, run)
    <3>1. new = IF made.raised = Nothing THEN [made EXCEPT !.input = made.generated.stdout] ELSE made
      BY <2>1, <2>3 DEF MakeInput
    <3>2. PICK h : Known(case, disk, made, told, h) /\ h # Nothing /\ ~made.closed /\ made.generated = h
      BY GeneratedIs
    <3> HIDE DEF made
    <3>3. CASE made.raised = Nothing
      <4>1. IsThere(case, disk, case.in, h) /\ InputFrom(case, disk, h) = h.stdout
        BY <2>3, <3>2 DEF IsThere, InputFrom
      <4>2. Asks(case, disk, made, told, h)
        BY <3>2, <3>3 DEF Asks
      <4>3. new = [made EXCEPT !.input = InputFrom(case, disk, h)]
        BY <3>1, <3>2, <3>3, <4>1
      <4> QED  BY <1>5, <4>1, <4>2, <4>3
    <3>4. CASE made.raised # Nothing
      BY <3>1, <3>2, <3>4 DEF Fits, ToldWith
    <3> QED  BY <3>3, <3>4
  <2>4. CASE ~Ambiguous(case) /\ case.in # Nothing
    <3>1. new = IF Open(disk, case.in) = Nothing THEN Raise(tc, "KeyError")
                ELSE [tc EXCEPT !.input = Stored(IF case.binary THEN Open(disk, case.in)
                                                 ELSE NormalizedFileCopy(Open(disk, case.in), 16384))]
      BY <2>1, <2>4 DEF MakeInput
    <3>2. CASE Open(disk, case.in) = Nothing
      BY <1>6, <3>1, <3>2
    <3>3. CASE Open(disk, case.in) # Nothing
      <4>1. IsThere(case, disk, case.in, g)
        BY <2>4, <3>3 DEF IsThere
      <4>2. new = [tc EXCEPT !.input = InputFrom(case, disk, g)]
        BY <2>4, <3>1, <3>3 DEF InputFrom
      <4> QED  BY <1>5, <4>1, <4>2
    <3> QED  BY <3>2, <3>3
  <2>5. CASE ~Ambiguous(case) /\ ~case.generator /\ case.in = Nothing
    <3>1. new = [tc EXCEPT !.input = Stored(<<>>)]
      BY <2>1, <2>5 DEF MakeInput
    <3>2. IsThere(case, disk, case.in, g) /\ InputFrom(case, disk, g) = Stored(<<>>)
      BY <2>5 DEF IsThere, InputFrom
    <3> QED  BY <1>5, <3>1, <3>2
  <2> QED  BY <2>2, <2>3, <2>4, <2>5
<1> QED  BY <1>4, <1>7

LEMMA AnswerAsked ==
    ASSUME NEW case \in Cases, NEW disk \in Disks, NEW tc, NEW told, NEW g, Asks(case, disk, tc, told, g),
           NEW run \in Runs, NEW new, new = OutputData(case, disk, tc, run)
    PROVE  Fits(case, disk, new, ToldWith(told, new, <<"answer", Answer(case, disk, new)>>))
<1>1. /\ Nothing \notin {"InternalError", "KeyError", "InvalidInit"}
      /\ "KeyError" # "InternalError"
  BY CasesAssumption
<1>2. tc.raised = Nothing /\ ~tc.closed /\ Known(case, disk, tc, told, g)
  BY DEF Asks
<1>3. ASSUME NEW h, Asks(case, disk, new, told, h), IsThere(case, disk, case.out, h),
             Answer(case, disk, new) = AnswerFrom(case, disk, h)
      PROVE  Fits(case, disk, new, ToldWith(told, new, <<"answer", Answer(case, disk, new)>>))
  <2>1. Known(case, disk, new, told \cup {<<"answer", AnswerFrom(case, disk, h)>>}, h)
    BY <1>1, <1>3, AnswerTold
  <2>2. new.raised = Nothing
    BY <1>3 DEF Asks
  <2> QED  BY <1>3, <2>1, <2>2 DEF Fits, ToldWith
<1>4. CASE case.out # Nothing
  <2>1. new = IF Open(disk, case.out) = Nothing THEN Raise(tc, "KeyError") ELSE tc
    BY <1>4 DEF OutputData
  <2>2. CASE Open(disk, case.out) = Nothing
    <3>1. Known(case, disk, new, told, g) /\ new.raised # Nothing
      BY <1>1, <2>1, <2>2, RaisedIs
    <3> QED  BY <3>1 DEF Fits, ToldWith
  <2>3. CASE Open(disk, case.out) # Nothing
    <3>1. IsThere(case, disk, case.out, g) /\ Answer(case, disk, new) = AnswerFrom(case, disk, g)
      BY <1>4, <2>3 DEF IsThere, Answer, AnswerFrom
    <3>2. Asks(case, disk, new, told, g)
      BY <2>1, <2>3
    <3> QED  BY <1>3, <3>1, <3>2
  <2> QED  BY <2>2, <2>3
<1>5. CASE case.out = Nothing /\ case.generator
  <2>1. new = Generated(case, disk, tc, run)
    BY <1>5 DEF OutputData
  <2>2. PICK h : Known(case, disk, new, told, h) /\ h # Nothing /\ ~new.closed /\ new.generated = h
    BY <2>1, GeneratedIs
  <2>3. CASE new.raised = Nothing
    <3>1. IsThere(case, disk, case.out, h) /\ Answer(case, disk, new) = AnswerFrom(case, disk, h)
      BY <1>5, <2>2 DEF IsThere, Answer, AnswerFrom
    <3>2. Asks(case, disk, new, told, h)
      BY <2>2, <2>3 DEF Asks
    <3> QED  BY <1>3, <3>1, <3>2
  <2>4. CASE new.raised # Nothing
    BY <2>2, <2>4 DEF Fits, ToldWith
  <2> QED  BY <2>3, <2>4
<1>6. CASE case.out = Nothing /\ ~case.generator
  <2>1. new = tc
    BY <1>6 DEF OutputData
  <2>2. IsThere(case, disk, case.out, g) /\ Answer(case, disk, new) = AnswerFrom(case, disk, g)
    BY <1>6 DEF IsThere, Answer, AnswerFrom
  <2> QED  BY <1>3, <2>1, <2>2
<1> QED  BY <1>4, <1>5, <1>6

LEMMA FreedFits ==
    ASSUME NEW case, NEW disk, NEW tc, NEW told, NEW g, Asks(case, disk, tc, told, g)
    PROVE  Fits(case, disk, FreeData(tc), told)
<1> DEFINE new == FreeData(tc)
<1>1. /\ DOMAIN new = DOMAIN tc /\ new.generated = Nothing /\ new.input = tc.input
      /\ new.closed = TRUE /\ new.runs = tc.runs /\ new.raised = tc.raised
  BY DEF Asks, Known, FreeData
<1> HIDE DEF new
<1>2. Known(case, disk, new, told, g)
  BY <1>1 DEF Asks, Known
<1> QED  BY <1>2 DEF Fits, new

---------------------------------------------------------------------------
LEMMA AtMostOne == ASSUME NEW S, NEW x, \A y \in S : y = x PROVE Cardinality(S) <= 1
<1>1. CASE S = {}
  BY <1>1, FS_EmptySet
<1>2. CASE S # {}
  <2>1. S = {x}
    BY <1>2
  <2> QED  BY <2>1, FS_Singleton
<1> QED  BY <1>1, <1>2

LEMMA OpenIs ==
    ASSUME NEW disk \in Disks, NEW name, Open(disk, name) # Nothing
    PROVE  Open(disk, name) \in Seq(ToSet(Open(disk, name)))
BY CasesAssumption DEF Open, FileOf

\* Files with the same text are told as the same text.
LEMMA SameFiles ==
    ASSUME NEW case \in Cases, NEW disk \in Disks, NEW g, case.in # Nothing, case.out # Nothing,
           IsThere(case, disk, case.in, g), IsThere(case, disk, case.out, g)
    PROVE  IF case.binary THEN /\ InputFrom(case, disk, g) = Stored(Open(disk, case.in))
                               /\ AnswerFrom(case, disk, g) = Stored(Open(disk, case.out))
           ELSE Decoded(Open(disk, case.in)) = Decoded(Open(disk, case.out)) =>
                   InputFrom(case, disk, g) = AnswerFrom(case, disk, g)
<1> DEFINE in == Open(disk, case.in)
           out == Open(disk, case.out)
           B == ToSet(in) \cup ToSet(out) \cup {"\n"}
<1>1. in \in Seq(B) /\ out \in Seq(B) /\ "\n" \in B
  <2>1. in \in Seq(ToSet(in)) /\ out \in Seq(ToSet(out))
    BY OpenIs DEF IsThere
  <2> HIDE DEF in, out
  <2> QED  BY <2>1
<1>2. CASE case.binary
  <2>1. Normalize(out, case.binary) = out
    BY <1>2 DEF Normalize
  <2>2. InputFrom(case, disk, g) = Stored(in)
    BY <1>2 DEF InputFrom
  <2>3. AnswerFrom(case, disk, g) = Stored(Normalize(out, case.binary))
    BY DEF AnswerFrom
  <2> HIDE DEF in, out
  <2>4. AnswerFrom(case, disk, g) = Stored(out)
    BY <2>1, <2>3
  <2> QED  BY <1>2, <2>2, <2>4 DEF in, out
<1>3. CASE ~case.binary
  <2>1. case.binary = FALSE
    BY <1>3, CasesAssumption
  <2> HIDE DEF B
  <2>2. 16384 \in Nat /\ 16384 >= 1
    OBVIOUS
  <2> HIDE DEF in, out
  <2>3. NormalizedFileCopy(in, 16384) = Ended(Decoded(in))
    BY <1>1, <2>2, CopyIs
  <2>4. Normalize(out, FALSE) = Ended(Decoded(out))
    BY <1>1, NormalizeIs
  <2>5. Normalize(out, case.binary) = Normalize(out, FALSE)
    BY <2>1, Zenon
  <2>6. Normalize(out, case.binary) = Ended(Decoded(out))
    BY <2>4, <2>5, Zenon
  <2>7. InputFrom(case, disk, g) = Stored(NormalizedFileCopy(in, 16384))
    BY <1>3 DEF InputFrom, in
  <2>8. AnswerFrom(case, disk, g) = Stored(Normalize(out, case.binary))
    BY DEF AnswerFrom, out
  <2>9. InputFrom(case, disk, g) = Stored(Ended(Decoded(in)))
    BY <2>3, <2>7
  <2>10. AnswerFrom(case, disk, g) = Stored(Ended(Decoded(out)))
    BY <2>6, <2>8, Zenon
  <2> QED  BY <1>3, <2>9, <2>10 DEF in, out
<1> QED  BY <1>2, <1>3

\* The input and the answer of a run are of that run.
LEMMA GenWrote ==
    ASSUME NEW case, NEW disk, NEW run
    PROVE  /\ Gen(case, disk, run).stdout.run = 1 /\ Gen(case, disk, run).stdout.given = Given(case, disk)
           /\ Gen(case, disk, run).stderr.run = 1 /\ Gen(case, disk, run).stderr.given = Given(case, disk)
<1> DEFINE wrote(text) == [run |-> 1, given |-> Given(case, disk), text |-> text]
           out == [stdout |-> wrote(run.stdout), stderr |-> wrote(Normalize(run.stderr, case.binary))]
<1>1. Gen(case, disk, run) = out
  <2>1. Fresh.runs + 1 = 1 /\ DOMAIN Fresh = {"generated", "input", "closed", "runs", "raised"}
    BY DEF Fresh
  <2>2. RunGenerator(case, disk, Fresh, run) =
          LET done == [Fresh EXCEPT !.runs = 1, !.generated = out]
          IN  IF run.well THEN done ELSE Raise(done, "InternalError")
    BY <2>1 DEF RunGenerator
  <2> HIDE DEF out
  <2> QED  BY <2>1, <2>2 DEF Gen, Raise
<1> QED  BY <1>1

LEMMA KnownFits ==
    ASSUME NEW case \in Cases, NEW disk \in Disks, NEW tc, NEW told, NEW g, Known(case, disk, tc, told, g)
    PROVE  DataFits(case, disk, tc, told)
<1> DEFINE inputs == {t[2] : t \in {u \in told : u[1] = "input"}}
           answers == {t[2] : t \in {u \in told : u[1] = "answer"}}
           generated == {d \in inputs \cup answers : d.run # 0}
           ran == {<<d.run, d.given>> : d \in generated}
           Same(i, a) ==
              IF case.binary THEN i = Stored(Open(disk, case.in)) /\ a = Stored(Open(disk, case.out))
              ELSE Decoded(Open(disk, case.in)) = Decoded(Open(disk, case.out)) => i = a
<1> SUFFICES /\ Cardinality(inputs) <= 1 /\ Cardinality(answers) <= 1 /\ Cardinality(ran) <= 1
             /\ tc.raised = "InternalError" => generated = {}
             /\ case.in # Nothing /\ case.out # Nothing => \A i \in inputs, a \in answers : Same(i, a)
  BY Zenon DEF DataFits
<1>1. \A t \in told : WasTold(case, disk, t, g)
  BY DEF Known
<1>2. ASSUME NEW d \in inputs PROVE d = InputFrom(case, disk, g) /\ IsThere(case, disk, case.in, g)
  <2>1. PICK t \in told : t[1] = "input" /\ t[2] = d
    OBVIOUS
  <2> QED  BY <1>1, <2>1 DEF WasTold
<1>3. ASSUME NEW d \in answers PROVE d = AnswerFrom(case, disk, g) /\ IsThere(case, disk, case.out, g)
  <2>1. PICK t \in told : t[1] = "answer" /\ t[2] = d
    OBVIOUS
  <2> QED  BY <1>1, <2>1 DEF WasTold
<1>4. ASSUME NEW d \in generated PROVE <<d.run, d.given>> = <<1, Given(case, disk)>>
  <2>1. CASE d \in inputs
    <3>1. d = InputFrom(case, disk, g) /\ IsThere(case, disk, case.in, g) /\ d.run # 0
      BY <1>2, <2>1
    <3>2. case.in = Nothing /\ case.generator /\ g # Nothing /\ d = g.stdout
      BY <3>1 DEF InputFrom, IsThere, Stored
    <3>3. PICK run \in Runs : g = Gen(case, disk, run)
      BY <3>2 DEF Known
    <3> QED  BY <3>2, <3>3, GenWrote
  <2>2. CASE d \in answers
    <3>1. d = AnswerFrom(case, disk, g) /\ IsThere(case, disk, case.out, g) /\ d.run # 0
      BY <1>3, <2>2
    <3>2. case.out = Nothing /\ case.generator /\ g # Nothing /\ d = g.stderr
      BY <3>1 DEF AnswerFrom, IsThere, Stored
    <3>3. PICK run \in Runs : g = Gen(case, disk, run)
      BY <3>2 DEF Known
    <3> QED  BY <3>2, <3>3, GenWrote
  <2> QED  BY <2>1, <2>2
<1>5. ASSUME tc.raised = "InternalError" PROVE generated = {}
  <2>1. \A t \in told : t[2].run = 0
    BY <1>5 DEF Known
  <2> QED  BY <2>1
<1>6. ASSUME case.in # Nothing, case.out # Nothing, NEW i \in inputs, NEW a \in answers
      PROVE  Same(i, a)
  <2>1. /\ i = InputFrom(case, disk, g) /\ IsThere(case, disk, case.in, g)
        /\ a = AnswerFrom(case, disk, g) /\ IsThere(case, disk, case.out, g)
    BY <1>2, <1>3
  <2> QED  BY <1>6, <2>1, SameFiles
<1> HIDE DEF generated
<1>7. \A p \in ran : p = <<1, Given(case, disk)>>
  BY <1>4
<1> HIDE DEF inputs, answers, ran, Same
<1>8. Cardinality(inputs) <= 1
  BY <1>2, AtMostOne
<1>9. Cardinality(answers) <= 1
  BY <1>3, AtMostOne
<1>10. Cardinality(ran) <= 1
  BY <1>7, AtMostOne
<1> QED  BY <1>5, <1>6, <1>8, <1>9, <1>10

CaseInv ==
    /\ "about" \in DOMAIN sample
    /\ sample.about = "case" =>
          /\ {"case", "disk", "tc", "told"} \subseteq DOMAIN sample
          /\ sample.case \in Cases /\ sample.disk \in Disks
          /\ Fits(sample.case, sample.disk, sample.tc, sample.told)

LEMMA CaseInit == Init => CaseInv
<1> SUFFICES ASSUME Init PROVE CaseInv
  OBVIOUS
<1>1. ASSUME "about" \in DOMAIN sample, sample.about # "case" PROVE CaseInv
  BY <1>1 DEF CaseInv
<1>2. CASE \E c \in Cases, d \in Disks :
              sample = [about |-> "case", case |-> c, disk |-> d, tc |-> Fresh, told |-> {}]
  <2>1. PICK c \in Cases, d \in Disks :
              sample = [about |-> "case", case |-> c, disk |-> d, tc |-> Fresh, told |-> {}]
    BY <1>2
  <2>2. /\ {"about", "case", "disk", "tc", "told"} \subseteq DOMAIN sample
        /\ sample.case = c /\ sample.disk = d /\ sample.tc = Fresh /\ sample.told = {}
    BY <2>1
  <2>3. Known(c, d, Fresh, {}, Nothing)
    BY DEF Known, Fresh
  <2> QED  BY <2>2, <2>3 DEF CaseInv, Fits
<1>3. CASE \/ \E fs \in FileSystems : sample = [about |-> "policy", fs |-> fs, rules |-> <<>>]
           \/ \E a \in Alphabets : sample = [about |-> "outputs", alphabet |-> a, judge |-> <<>>, process |-> <<>>]
           \/ sample = [about |-> "archive", files |-> <<>>]
           \/ sample = [about |-> "data", data |-> <<>>]
  BY <1>1, <1>3
<1>4. CASE \E d \in SUBSET ProblemDirs, g \in PatternLists :
              sample = [about |-> "roots", disk |-> d, globs |-> g,
                        judge |-> Roots([id \in Ids |-> NoRoot], FindRoots(d, g))]
  BY <1>1, <1>4
<1>5. CASE \E n \in Nodes :
              sample = [about |-> "config", first |-> n, node |-> n, told |-> [i \in DOMAIN Dashed |-> {}]]
  BY <1>1, <1>5
<1> QED  BY <1>2, <1>3, <1>4, <1>5 DEF Init

LEMMA CaseStep == CaseInv /\ [Next]_sample => CaseInv'
<1> SUFFICES ASSUME CaseInv, [Next]_sample PROVE CaseInv'
  OBVIOUS
<1>1. StillAbout
  BY StaysAbout, SMTT(40) DEF CaseInv
<1>2. CASE GradeCase
  <2>1. /\ sample.about = "case" /\ {"case", "disk", "tc", "told"} \subseteq DOMAIN sample
        /\ sample.case \in Cases /\ sample.disk \in Disks
        /\ Fits(sample.case, sample.disk, sample.tc, sample.told)
        /\ sample.tc.raised = Nothing /\ ~sample.tc.closed
    BY <1>2, WorkedOn DEF CaseInv, GradeCase
  <2> DEFINE case == sample.case
             disk == sample.disk
             tc == sample.tc
             old == sample.told
  <2>2. PICK g : Asks(case, disk, tc, old, g)
    BY <2>1 DEF Fits, Asks
  <2>3. ASSUME NEW new, NEW told, sample' = [sample EXCEPT !.tc = new, !.told = told], Fits(case, disk, new, told)
        PROVE  CaseInv'
    <3>1. /\ sample'.tc = new /\ sample'.told = told /\ sample'.case = sample.case /\ sample'.disk = sample.disk
          /\ DOMAIN sample' = DOMAIN sample
      BY <2>1, <2>3
    <3> QED  BY <1>1, <2>1, <2>3, <3>1 DEF CaseInv, StillAbout
  <2>4. CASE \E run \in Runs :
                LET new == InputDataIo(case, disk, tc, run)
                IN  sample' = [sample EXCEPT !.tc = new, !.told = ToldWith(@, new, <<"input", new.input>>)]
    <3>1. PICK run \in Runs :
              sample' = [sample EXCEPT !.tc = InputDataIo(case, disk, tc, run),
                            !.told = ToldWith(@, InputDataIo(case, disk, tc, run),
                                              <<"input", InputDataIo(case, disk, tc, run).input>>)]
      BY <2>4
    <3> DEFINE new == InputDataIo(case, disk, tc, run)
               told == ToldWith(old, new, <<"input", new.input>>)
    <3>2. Fits(case, disk, new, told)
      <4> HIDE DEF case, disk, tc, old
      <4>1. case \in Cases /\ disk \in Disks
        BY <2>1 DEF case, disk
      <4> QED  BY <2>2, <4>1, InputAsked
    <3>3. sample' = [sample EXCEPT !.tc = new, !.told = told]
      BY <2>1, <3>1
    <3> HIDE DEF new, told
    <3> QED  BY <2>3, <3>2, <3>3
  <2>5. CASE \E run \in Runs :
                LET new == OutputData(case, disk, tc, run)
                IN  sample' = [sample EXCEPT !.tc = new, !.told = ToldWith(@, new, <<"answer", Answer(case, disk, new)>>)]
    <3>1. PICK run \in Runs :
              sample' = [sample EXCEPT !.tc = OutputData(case, disk, tc, run),
                            !.told = ToldWith(@, OutputData(case, disk, tc, run),
                                              <<"answer", Answer(case, disk, OutputData(case, disk, tc, run))>>)]
      BY <2>5
    <3> DEFINE new == OutputData(case, disk, tc, run)
               told == ToldWith(old, new, <<"answer", Answer(case, disk, new)>>)
    <3>2. Fits(case, disk, new, told)
      <4> HIDE DEF case, disk, tc, old
      <4>1. case \in Cases /\ disk \in Disks
        BY <2>1 DEF case, disk
      <4> QED  BY <2>2, <4>1, AnswerAsked
    <3>3. sample' = [sample EXCEPT !.tc = new, !.told = told]
      BY <2>1, <3>1
    <3> HIDE DEF new, told
    <3> QED  BY <2>3, <3>2, <3>3
  <2>6. CASE sample' = [sample EXCEPT !.tc = FreeData(@)]
    <3>1. Fits(case, disk, FreeData(tc), old)
      <4> HIDE DEF case, disk, tc, old
      <4> QED  BY <2>2, FreedFits
    <3>2. sample' = [sample EXCEPT !.tc = FreeData(tc), !.told = old]
      BY <2>1, <2>6
    <3> QED  BY <2>3, <3>1, <3>2
  <2> QED  BY <1>2, <2>4, <2>5, <2>6 DEF GradeCase, ToldWith
<1>3. CASE UNCHANGED sample
  BY <1>3 DEF CaseInv
<1>4. CASE AddPolicyRule \/ WriteOutput \/ AddFile \/ WriteData \/ FindProblem \/ ReadConfig
  <2>1. sample.about # "case"
    BY <1>4, WorkedOn
  <2> QED  BY <1>1, <2>1 DEF CaseInv, StillAbout
<1> QED  BY <1>2, <1>3, <1>4 DEF Next

(***************************************************************************)
(* Whatever order a grading asks for the input and the answer of a case    *)
(* in, and however often, it gets one of each, of one run of the generator *)
(* that did not fail, and equal texts from files with equal texts.         *)
(***************************************************************************)
THEOREM CaseDataFits == Spec => [](sample.about = "case" =>
                                   DataFits(sample.case, sample.disk, sample.tc, sample.told))
<1>1. CaseInv => (sample.about = "case" => DataFits(sample.case, sample.disk, sample.tc, sample.told))
  BY KnownFits DEF CaseInv, Fits
<1> QED  BY CaseInit, CaseStep, <1>1, PTL DEF Spec

(***************************************************************************)
(* What a problem finds is what its author put there.                      *)
(***************************************************************************)
THEOREM ProblemsAreRead == Spec => []ProblemsRead
<1>1. ProblemsRead <=>
        /\ sample.about = "archive" => CasesAreMatched(sample.files, CasePoints)
        /\ sample.about = "case" => DataFits(sample.case, sample.disk, sample.tc, sample.told)
        /\ sample.about = "data" => LinesAgree(sample.data, BlockSizes)
        /\ sample.about = "roots" => RootsAreRight(sample.judge, sample.disk, sample.globs, Ids)
        /\ sample.about = "config" => ReadsAgree(sample.first, sample.told)
  BY DEF ProblemsRead
<1> QED  BY ArchivesAreMatched, CaseDataFits, LineEndsAreOne, ProblemsAreFound, ConfigurationsAgree, <1>1, PTL

(***************************************************************************)
(* The outputs on which the checkers are asked.                            *)
(***************************************************************************)
OutputsInv ==
    /\ "about" \in DOMAIN sample
    /\ sample.about = "outputs" =>
          /\ {"alphabet", "judge", "process"} \subseteq DOMAIN sample
          /\ sample.judge \in Seq(sample.alphabet) /\ sample.process \in Seq(sample.alphabet)

LEMMA OutputsInit == Init => OutputsInv
<1> SUFFICES ASSUME Init PROVE OutputsInv
  OBVIOUS
<1>1. ASSUME "about" \in DOMAIN sample, sample.about # "outputs" PROVE OutputsInv
  BY <1>1 DEF OutputsInv
<1>2. CASE \E a \in Alphabets : sample = [about |-> "outputs", alphabet |-> a, judge |-> <<>>, process |-> <<>>]
  <2>1. /\ {"about", "alphabet", "judge", "process"} \subseteq DOMAIN sample
        /\ sample.judge = <<>> /\ sample.process = <<>>
    BY <1>2
  <2>2. <<>> \in Seq(sample.alphabet)
    OBVIOUS
  <2> QED  BY <2>1, <2>2 DEF OutputsInv
<1>3. CASE \/ \E fs \in FileSystems : sample = [about |-> "policy", fs |-> fs, rules |-> <<>>]
           \/ sample = [about |-> "archive", files |-> <<>>]
           \/ sample = [about |-> "data", data |-> <<>>]
  BY <1>1, <1>3
<1>4. CASE \E c \in Cases, d \in Disks :
              sample = [about |-> "case", case |-> c, disk |-> d, tc |-> Fresh, told |-> {}]
  BY <1>1, <1>4
<1>5. CASE \E d \in SUBSET ProblemDirs, g \in PatternLists :
              sample = [about |-> "roots", disk |-> d, globs |-> g,
                        judge |-> Roots([id \in Ids |-> NoRoot], FindRoots(d, g))]
  BY <1>1, <1>5
<1>6. CASE \E n \in Nodes :
              sample = [about |-> "config", first |-> n, node |-> n, told |-> [i \in DOMAIN Dashed |-> {}]]
  BY <1>1, <1>6
<1> QED  BY <1>2, <1>3, <1>4, <1>5, <1>6 DEF Init

LEMMA OutputsStep == OutputsInv /\ [Next]_sample => OutputsInv'
<1> SUFFICES ASSUME OutputsInv, [Next]_sample PROVE OutputsInv'
  OBVIOUS
<1>1. StillAbout
  BY StaysAbout DEF OutputsInv
<1>2. CASE WriteOutput
  <2>1. /\ sample.about = "outputs" /\ {"alphabet", "judge", "process"} \subseteq DOMAIN sample
        /\ sample.judge \in Seq(sample.alphabet) /\ sample.process \in Seq(sample.alphabet)
    BY <1>2, WorkedOn DEF OutputsInv
  <2>2. PICK c \in sample.alphabet :
            \/ sample' = [sample EXCEPT !["judge"] = Append(@, c)]
            \/ sample' = [sample EXCEPT !["process"] = Append(@, c)]
    BY <1>2 DEF WriteOutput, Extend
  <2>3. /\ sample'.alphabet = sample.alphabet /\ DOMAIN sample' = DOMAIN sample
        /\ sample'.judge \in {sample.judge, Append(sample.judge, c)}
        /\ sample'.process \in {sample.process, Append(sample.process, c)}
    BY <2>1, <2>2
  <2>4. Append(sample.judge, c) \in Seq(sample.alphabet) /\ Append(sample.process, c) \in Seq(sample.alphabet)
    BY <2>1
  <2> QED  BY <1>1, <2>1, <2>3, <2>4 DEF OutputsInv, StillAbout
<1>3. CASE UNCHANGED sample
  BY <1>3 DEF OutputsInv
<1>4. CASE AddPolicyRule \/ AddFile \/ WriteData \/ GradeCase \/ FindProblem \/ ReadConfig
  <2>1. sample.about # "outputs"
    BY <1>4, WorkedOn
  <2> QED  BY <1>1, <2>1 DEF OutputsInv, StillAbout
<1> QED  BY <1>2, <1>3, <1>4 DEF Next

(***************************************************************************)
(* check_standard compares the words of the lines, so that it accepts      *)
(* exactly the outputs with the words of the judge on the lines of the     *)
(* judge.                                                                  *)
(***************************************************************************)
THEOREM WordsAreCompared ==
    Spec => [](sample.about = "outputs" => StandardComparesWords(sample.process, sample.judge))
<1>1. OutputsInv => (sample.about = "outputs" => StandardComparesWords(sample.process, sample.judge))
  BY StandardIsWords DEF OutputsInv
<1> QED  BY OutputsInit, OutputsStep, <1>1, PTL DEF Spec

(***************************************************************************)
(* The checkers agree: one that is laxer takes what a stricter one takes,  *)
(* linecount gives all the points just when it passes, floats takes no NaN.*)
(***************************************************************************)
THEOREM CheckersStand == Spec => []CheckersAgree
<1>1. OutputsInv => CheckersAgree
  <2> SUFFICES ASSUME OutputsInv, sample.about = "outputs"
               PROVE  /\ StandardComparesWords(sample.process, sample.judge)
                      /\ \A e \in Epsilons : /\ StricterAcceptsLess(sample.process, sample.judge, e)
                                             /\ PointsAreFair(sample.process, sample.judge, e)
    BY DEF CheckersAgree
  <2>1. sample.judge \in Seq(sample.alphabet) /\ sample.process \in Seq(sample.alphabet)
    BY DEF OutputsInv
  <2>2. StandardComparesWords(sample.process, sample.judge)
    BY <2>1, StandardIsWords
  <2>3. ASSUME NEW e \in Epsilons
        PROVE  /\ StricterAcceptsLess(sample.process, sample.judge, e)
               /\ PointsAreFair(sample.process, sample.judge, e)
    <3>1. e \in Nat /\ e <= One
      BY EpsilonsAssumption
    <3> QED  BY <2>1, <3>1, StricterIsLess, PointsStayFair
  <2> QED  BY <2>2, <2>3
<1> QED  BY OutputsInit, OutputsStep, <1>1, PTL DEF Spec
=============================================================================
