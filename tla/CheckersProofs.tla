--------------------------- MODULE CheckersProofs ---------------------------
(***************************************************************************)
(* What the checkers accept, for outputs over any characters and of any    *)
(* length.                                                                 *)
(*                                                                         *)
(* The standard checker is a loop over two strings with a flag; what it    *)
(* sees of an output is its marks, the characters that are not white with  *)
(* the gap before each.  A turn of the loop keeps the marks behind the two *)
(* positions equal (Abreast), so that it accepts exactly the outputs with  *)
(* the marks of the judge (CompareAgrees, StandardMarks).  And marks say   *)
(* what the words on the lines say: Build makes a page of words of them,   *)
(* PageMarks finds them in the page (MarksAreWords).  The other checkers   *)
(* are compared with it by what they do with the words.                    *)
(***************************************************************************)
EXTENDS Checkers, SequenceTheorems, FiniteSetTheorems, FunctionTheorems, WellFoundedInduction, TLAPS

(***************************************************************************)
(* Induction.  The principle for sets of numbers follows from the fact     *)
(* that < is well-founded, and what a recursive function is follows from   *)
(* the principle.                                                          *)
(***************************************************************************)
LEMMA SmallestOf ==
    ASSUME NEW T, T \subseteq Nat, T # {} PROVE \E m \in T : \A k \in T : m <= k
<1>1. PICK m \in T : \A k \in T : ~ (<<k, m>> \in OpToRel(<, Nat))
  BY NatLessThanWellFounded, WFMin
<1>2. \A k \in T : ~ (k < m)
  BY <1>1 DEF OpToRel
<1> QED  BY <1>2

LEMMA NatUpto ==
    ASSUME NEW T, 0 \in T, \A n \in Nat : n \in T => n + 1 \in T
    PROVE  Nat \subseteq T
<1> SUFFICES ASSUME Nat \ T # {} PROVE FALSE  OBVIOUS
<1>1. PICK m \in Nat \ T : \A k \in Nat \ T : m <= k
  BY SmallestOf
<1>2. m # 0 /\ m - 1 \in Nat /\ m - 1 \in T
  BY <1>1
<1> QED  BY <1>1, <1>2

LEMMA UptoInduction ==
    ASSUME NEW k \in Nat, NEW T, 0 \in T, \A n \in 0..(k - 1) : n \in T => n + 1 \in T
    PROVE  0..k \subseteq T
<1> DEFINE U == {n \in Nat : n <= k => n \in T}
<1>1. 0 \in U /\ \A n \in Nat : n \in U => n + 1 \in U
  OBVIOUS
<1>2. Nat \subseteq U
  <2> HIDE DEF U
  <2> QED  BY <1>1, NatUpto
<1> QED  BY <1>2

\* A function on 0..k can be defined by a base and steps.
Recursion(g, base, k, step) == g[0] = base /\ \A n \in 1..k : g[n] = step[n][g[n - 1]]

LEMMA RecursionExists ==
    ASSUME NEW S, NEW base \in S, NEW k \in Nat, NEW step \in [1..k -> [S -> S]]
    PROVE  \E g \in [0..k -> S] : Recursion(g, base, k, step)
<1> DEFINE Good(g, j) == g[0] = base /\ \A n \in 1..j : g[n] = step[n][g[n - 1]]
           Made(j) == \E g \in [0..j -> S] : Good(g, j)
           T == {j \in Nat : j <= k => Made(j)}
<1>1. 0 \in T
  <2> DEFINE g == [n \in 0..0 |-> base]
  <2>1. g \in [0..0 -> S] /\ Good(g, 0)
    OBVIOUS
  <2> QED  BY <2>1
<1>2. ASSUME NEW j \in Nat, j + 1 <= k, Made(j) PROVE Made(j + 1)
  <2>1. PICK g \in [0..j -> S] : Good(g, j)
    BY <1>2
  <2>2. step[j + 1] \in [S -> S] /\ g[j] \in S
    BY <1>2
  <2>3. step[j + 1][g[j]] \in S
    BY <2>2
  <2> DEFINE h == [n \in 0..(j + 1) |-> IF n = j + 1 THEN step[j + 1][g[j]] ELSE g[n]]
  <2>4. h \in [0..(j + 1) -> S]
    BY <2>3
  <2>5. h[0] = base
    BY <2>1
  <2>6. ASSUME NEW n \in 1..(j + 1) PROVE h[n] = step[n][h[n - 1]]
    BY <2>1
  <2> HIDE DEF h
  <2> QED  BY <2>4, <2>5, <2>6
<1>3. \A n \in Nat : n \in T => n + 1 \in T
  <2> HIDE DEF Made
  <2> QED  BY <1>2
<1>4. Nat \subseteq T
  <2> HIDE DEF T
  <2> QED  BY <1>1, <1>3, NatUpto
<1> QED  BY <1>4 DEF Recursion

(***************************************************************************)
(* Outputs.  What is said of an output is said of every beginning of it,   *)
(* one character after another.                                            *)
(***************************************************************************)
LEMMA SeqInduction ==
    ASSUME NEW C, NEW T, <<>> \in T, \A s \in Seq(C), c \in C : s \in T => Append(s, c) \in T
    PROVE  Seq(C) \subseteq T
<1> DEFINE U == {n \in Nat : \A s \in Seq(C) : Len(s) = n => s \in T}
<1>1. 0 \in U
  BY EmptySeq
<1>2. ASSUME NEW n \in Nat, n \in U PROVE n + 1 \in U
  <2> SUFFICES ASSUME NEW s \in Seq(C), Len(s) = n + 1 PROVE s \in T
    OBVIOUS
  <2>1. PICK t \in Seq(C), c \in C : s = Append(t, c)
    BY SequenceEmptyOrAppend, EmptySeq
  <2>2. Len(t) = n
    BY <2>1
  <2> QED  BY <1>2, <2>1, <2>2
<1>3. Nat \subseteq U
  <2> HIDE DEF U
  <2> QED  BY <1>1, <1>2, NatUpto
<1> QED  BY <1>3

Sifting(kept, seq, out) ==
    /\ kept[0] = <<>>
    /\ \A n \in 1..Len(seq) :
          kept[n] = IF seq[n] \in out THEN kept[n - 1] ELSE Append(kept[n - 1], seq[n])

LEMMA SiftedAre ==
    ASSUME NEW C, NEW out, NEW seq \in Seq(C)
    PROVE  \E kept \in [0..Len(seq) -> Seq(C)] :
              Sifted(seq, out) = kept[Len(seq)] /\ Sifting(kept, seq, out)
<1> DEFINE k == Len(seq)
           Grown(n, x) == IF seq[n] \in out THEN x ELSE Append(x, seq[n])
           step == [n \in 1..k |-> [x \in Seq(C) |-> Grown(n, x)]]
           Is(g) == g = [n \in 0..k |-> IF n = 0 THEN <<>> ELSE Grown(n, g[n - 1])]
           w == CHOOSE g : Is(g)
<1>1. k \in Nat /\ <<>> \in Seq(C)
  OBVIOUS
<1>2. step \in [1..k -> [Seq(C) -> Seq(C)]]
  <2> SUFFICES ASSUME NEW n \in 1..k, NEW x \in Seq(C) PROVE Grown(n, x) \in Seq(C)
    OBVIOUS
  <2>1. seq[n] \in C
    OBVIOUS
  <2> QED  BY <2>1
<1>3. PICK g \in [0..k -> Seq(C)] : Recursion(g, <<>>, k, step)
  <2> HIDE DEF step, k
  <2> QED  BY <1>1, <1>2, RecursionExists
<1>4. g[0] = <<>> /\ \A n \in 1..k : g[n] = Grown(n, g[n - 1])
  <2> SUFFICES ASSUME NEW n \in 1..k PROVE step[n][g[n - 1]] = Grown(n, g[n - 1])
    BY <1>3 DEF Recursion
  <2>1. g[n - 1] \in Seq(C)
    BY <1>1
  <2> HIDE DEF Grown
  <2> QED  BY <2>1
<1>5. Is(g)
  <2> HIDE DEF Grown
  <2> QED  BY <1>4
<1>6. Is(w)
  <2> HIDE DEF Is
  <2> QED  BY <1>5
<1>7. w = g
  <2> DEFINE T == {n \in Nat : n <= k => w[n] = g[n]}
  <2> HIDE DEF w, Grown
  <2>1. 0 \in T
    BY <1>1, <1>5, <1>6
  <2>2. \A n \in Nat : n \in T => n + 1 \in T
    BY <1>1, <1>5, <1>6
  <2>3. Nat \subseteq T
    BY <2>1, <2>2, NatUpto
  <2> QED  BY <2>3, <1>5, <1>6, SMTT(40)
<1>8. Sifted(seq, out) = w[k]
  BY DEF Sifted
<1> QED  BY <1>4, <1>7, <1>8 DEF Sifting

Carries(u, v, w) == Append(u \o v, w) = u \o Append(v, w)

LEMMA AppendOfConcat == ASSUME NEW D, NEW u \in Seq(D), NEW v \in Seq(D), NEW w \in D PROVE Carries(u, v, w)
BY DEF Carries

LEMMA SiftedAppend ==
    ASSUME NEW C, NEW out, NEW s \in Seq(C), NEW c \in C
    PROVE  /\ Sifted(s, out) \in Seq(C)
           /\ Sifted(Append(s, c), out) = IF c \in out THEN Sifted(s, out) ELSE Append(Sifted(s, out), c)
<1> DEFINE t == Append(s, c)
           k == Len(s)
<1>1. t \in Seq(C) /\ Len(t) = k + 1 /\ k \in Nat /\ t[k + 1] = c /\ \A n \in 1..k : t[n] = s[n]
  BY AppendProperties
<1>2. PICK f \in [0..k -> Seq(C)] : Sifted(s, out) = f[k] /\ Sifting(f, s, out)
  BY SiftedAre
<1> HIDE DEF t
<1>3. PICK g \in [0..Len(t) -> Seq(C)] : Sifted(t, out) = g[Len(t)] /\ Sifting(g, t, out)
  BY <1>1, SiftedAre
<1> HIDE DEF k
<1>10. Len(s) = k
  BY DEF k
<1> DEFINE T == {n \in Nat : n <= k => f[n] = g[n]}
<1>4. 0 \in T
  BY <1>2, <1>3 DEF Sifting
<1>5. ASSUME NEW n \in Nat, n \in T PROVE n + 1 \in T
  <2> SUFFICES ASSUME n + 1 <= k PROVE f[n + 1] = g[n + 1]
    OBVIOUS
  <2>1. n + 1 \in 1..k /\ n + 1 \in 1..Len(t) /\ n + 1 - 1 = n
    BY <1>1, <1>5
  <2>2. f[n] = g[n] /\ t[n + 1] = s[n + 1]
    BY <1>1, <1>5, <2>1
  <2>3. f[n + 1] = IF s[n + 1] \in out THEN f[n] ELSE Append(f[n], s[n + 1])
    BY <1>2, <1>10, <2>1 DEF Sifting
  <2>4. g[n + 1] = IF t[n + 1] \in out THEN g[n] ELSE Append(g[n], t[n + 1])
    BY <1>3, <2>1 DEF Sifting
  <2> QED  BY <2>2, <2>3, <2>4
<1>6. Nat \subseteq T
  <2> HIDE DEF T
  <2> QED  BY <1>4, <1>5, NatUpto
<1>7. f[k] = g[k]
  BY <1>1, <1>6
<1>8. k + 1 \in 1..Len(t) /\ k + 1 - 1 = k
  BY <1>1
<1>9. g[k + 1] = IF c \in out THEN g[k] ELSE Append(g[k], c)
  <2>1. PICK m \in 1..Len(t) : m = k + 1 /\ m - 1 = k
    BY <1>1, <1>8
  <2>2. t[m] = c
    BY <1>1, <2>1
  <2>3. g[m] = IF t[m] \in out THEN g[m - 1] ELSE Append(g[m - 1], t[m])
    BY <1>3 DEF Sifting
  <2>4. g[m] = IF c \in out THEN g[k] ELSE Append(g[k], c)
    BY <2>1, <2>2, <2>3
  <2> QED  BY <2>1, <2>4
<1>11. Sifted(s, out) \in Seq(C) /\ Sifted(s, out) = g[k] /\ Sifted(t, out) = g[k + 1]
  BY <1>1, <1>2, <1>3, <1>7
<1> QED  BY <1>9, <1>11 DEF t

LEMMA SiftedEmpty == \A out : Sifted(<<>>, out) = <<>>
<1> SUFFICES ASSUME NEW out PROVE Sifted(<<>>, out) = <<>>
  OBVIOUS
<1>1. <<>> \in Seq({}) /\ Len(<<>>) = 0
  OBVIOUS
<1>2. PICK kept \in [0..Len(<<>>) -> Seq({})] :
          Sifted(<<>>, out) = kept[Len(<<>>)] /\ Sifting(kept, <<>>, out)
  BY <1>1, SiftedAre
<1> QED  BY <1>1, <1>2 DEF Sifting

Turned(parts, c, at) ==
    IF c \in at THEN Append(parts, <<>>) ELSE [parts EXCEPT ![Len(parts)] = Append(@, c)]

Splitting(parts, str, at) ==
    /\ parts[0] = << <<>> >>
    /\ \A n \in 1..Len(str) : parts[n] = Turned(parts[n - 1], str[n], at)

LEMMA SplitAre ==
    ASSUME NEW C, NEW at, NEW str \in Seq(C)
    PROVE  \E parts \in [0..Len(str) -> Seq(Seq(C))] :
              Split(str, at) = parts[Len(str)] /\ Splitting(parts, str, at)
<1> DEFINE k == Len(str)
           S == Seq(Seq(C))
           base == << <<>> >>
           Grown(n, before) == IF str[n] \in at THEN Append(before, <<>>)
                               ELSE [before EXCEPT ![Len(before)] = Append(@, str[n])]
           step == [n \in 1..k |-> [x \in S |-> Grown(n, x)]]
           Is(g) == g = [n \in 0..k |-> IF n = 0 THEN base ELSE Grown(n, g[n - 1])]
           w == CHOOSE g : Is(g)
<1>1. k \in Nat /\ base \in S
  OBVIOUS
<1>2. step \in [1..k -> [S -> S]]
  <2> SUFFICES ASSUME NEW n \in 1..k, NEW x \in S PROVE Grown(n, x) \in S
    OBVIOUS
  <2>1. str[n] \in C
    OBVIOUS
  <2>2. Append(x, <<>>) \in S
    OBVIOUS
  <2>3. [x EXCEPT ![Len(x)] = Append(@, str[n])] \in S
    <3>1. CASE x = <<>>
      <4>1. x \in [1..Len(x) -> Seq(C)] /\ Len(x) \notin DOMAIN x
        BY <3>1
      <4>2. [x EXCEPT ![Len(x)] = Append(@, str[n])] = x
        BY <4>1
      <4> QED  BY <4>2
    <3>2. CASE x # <<>>
      <4>1. Len(x) \in 1..Len(x) /\ x[Len(x)] \in Seq(C)
        BY <3>2
      <4>2. Append(x[Len(x)], str[n]) \in Seq(C)
        BY <4>1, <2>1
      <4> QED  BY <4>1, <4>2, ExceptSeq
    <3> QED  BY <3>1, <3>2
  <2> QED  BY <2>2, <2>3
<1>3. PICK g \in [0..k -> S] : Recursion(g, base, k, step)
  <2> HIDE DEF step, k, S, base
  <2> QED  BY <1>1, <1>2, RecursionExists
<1> HIDE DEF S, base
<1>4. g[0] = base /\ \A n \in 1..k : g[n] = Grown(n, g[n - 1])
  <2> SUFFICES ASSUME NEW n \in 1..k PROVE step[n][g[n - 1]] = Grown(n, g[n - 1])
    BY <1>3 DEF Recursion
  <2>1. g[n - 1] \in S
    BY <1>1
  <2> HIDE DEF Grown
  <2> QED  BY <2>1
<1>5. Is(g)
  <2> HIDE DEF Grown
  <2> QED  BY <1>4
<1>6. Is(w)
  <2> HIDE DEF Is
  <2> QED  BY <1>5
<1>7. w = g
  <2> DEFINE T == {n \in Nat : n <= k => w[n] = g[n]}
  <2> HIDE DEF w, Grown
  <2>1. 0 \in T
    BY <1>1, <1>5, <1>6
  <2>2. \A n \in Nat : n \in T => n + 1 \in T
    BY <1>1, <1>5, <1>6
  <2>3. Nat \subseteq T
    BY <2>1, <2>2, NatUpto
  <2> QED  BY <2>3, <1>5, <1>6
<1>8. Split(str, at) = w[k]
  BY DEF Split, base
<1> USE DEF S, base
<1> QED  BY <1>4, <1>7, <1>8 DEF Splitting, Turned

LEMMA SplitEmpty == \A at : Split(<<>>, at) = Append(<<>>, <<>>)
<1> SUFFICES ASSUME NEW at PROVE Split(<<>>, at) = Append(<<>>, <<>>)
  OBVIOUS
<1>1. <<>> \in Seq({}) /\ Len(<<>>) = 0
  OBVIOUS
<1>2. PICK parts \in [0..Len(<<>>) -> Seq(Seq({}))] :
          Split(<<>>, at) = parts[Len(<<>>)] /\ Splitting(parts, <<>>, at)
  BY <1>1, SplitAre
<1>3. Append(<<>>, <<>>) = << <<>> >>
  OBVIOUS
<1> QED  BY <1>1, <1>2, <1>3 DEF Splitting

LastIs(x, new) == [x EXCEPT ![Len(x)] = new]

LEMMA LastReplaced ==
    ASSUME NEW D, NEW front \in Seq(D), NEW last \in D, NEW new \in D
    PROVE  LastIs(Append(front, last), new) = Append(front, new)
<1> DEFINE n == Len(front)
           x == Append(front, last)
           y == Append(front, new)
           z == [x EXCEPT ![n + 1] = new]
<1>1. x \in Seq(D) /\ Len(x) = n + 1 /\ n \in Nat /\ \A i \in 1..n : x[i] = front[i]
  BY AppendProperties
<1>2. y \in Seq(D) /\ Len(y) = n + 1 /\ y[n + 1] = new /\ \A i \in 1..n : y[i] = front[i]
  BY AppendProperties
<1>3. z \in Seq(D) /\ Len(z) = n + 1 /\ \A i \in 1..(n + 1) : z[i] = IF i = n + 1 THEN new ELSE x[i]
  <2>1. n + 1 \in 1..Len(x)
    BY <1>1
  <2> HIDE DEF n, x
  <2> QED  BY <1>1, <2>1, ExceptSeq
<1>4. \A i \in 1..(n + 1) : z[i] = y[i]
  <2> HIDE DEF x, y, z
  <2> QED  BY <1>1, <1>2, <1>3
<1>5. z = y
  <2> HIDE DEF z, y, n
  <2> QED  BY <1>2, <1>3, <1>4, SeqEqual
<1> QED  BY <1>1, <1>5 DEF LastIs

\* What a character makes of the parts before it.
Parted(front, last, c, at) ==
    IF c \in at THEN Append(Append(front, last), <<>>) ELSE Append(front, Append(last, c))

LEMMA TurnedIs ==
    ASSUME NEW C, NEW front \in Seq(Seq(C)), NEW last \in Seq(C), NEW c \in C, NEW at
    PROVE  Turned(Append(front, last), c, at) = Parted(front, last, c, at)
<1> DEFINE D == Seq(C)
           new == Append(last, c)
           x == Append(front, last)
<1>1. new \in D /\ x[Len(x)] = last
  <2>1. Len(x) = Len(front) + 1 /\ x[Len(front) + 1] = last
    BY AppendProperties
  <2> QED  BY <2>1
<1>2. front \in Seq(D) /\ last \in D
  OBVIOUS
<1>3. LastIs(x, new) = Append(front, new)
  <2> HIDE DEF D, new
  <2> QED  BY <1>1, <1>2, LastReplaced
<1>4. CASE c \in at
  BY <1>4 DEF Turned, Parted
<1>5. CASE c \notin at
  <2>1. [x EXCEPT ![Len(x)] = Append(@, c)] = LastIs(x, new)
    BY <1>1 DEF LastIs
  <2>2. Turned(x, c, at) = LastIs(x, new)
    BY <1>5, <2>1 DEF Turned
  <2> QED  BY <1>3, <1>5, <2>2 DEF Parted
<1> QED  BY <1>4, <1>5

LEMMA SplitAppend ==
    ASSUME NEW C, NEW at, NEW s \in Seq(C), NEW c \in C,
           NEW front \in Seq(Seq(C)), NEW last \in Seq(C), Split(s, at) = Append(front, last)
    PROVE  Split(Append(s, c), at) = Parted(front, last, c, at)
<1> DEFINE t == Append(s, c)
           k == Len(s)
<1>1. t \in Seq(C) /\ Len(t) = k + 1 /\ k \in Nat /\ t[k + 1] = c /\ \A n \in 1..k : t[n] = s[n]
  BY AppendProperties
<1>2. PICK f \in [0..k -> Seq(Seq(C))] : Split(s, at) = f[k] /\ Splitting(f, s, at)
  BY SplitAre
<1> HIDE DEF t
<1>3. PICK g \in [0..Len(t) -> Seq(Seq(C))] : Split(t, at) = g[Len(t)] /\ Splitting(g, t, at)
  BY <1>1, SplitAre
<1> HIDE DEF k
<1>4. \A n \in 1..k : f[n] = Turned(f[n - 1], s[n], at)
  BY <1>2 DEF Splitting, k
<1>5. \A n \in 1..(k + 1) : g[n] = Turned(g[n - 1], t[n], at)
  BY <1>1, <1>3 DEF Splitting
<1> DEFINE T == {n \in Nat : n <= k => f[n] = g[n]}
<1>6. 0 \in T
  BY <1>2, <1>3 DEF Splitting
<1>7. ASSUME NEW n \in Nat, n \in T PROVE n + 1 \in T
  <2> SUFFICES ASSUME n + 1 <= k PROVE f[n + 1] = g[n + 1]
    OBVIOUS
  <2>1. n + 1 \in 1..k /\ n + 1 \in 1..(k + 1) /\ n + 1 - 1 = n
    BY <1>1, <1>7
  <2>2. f[n] = g[n]
    <3>1. n <= k
      BY <1>1
    <3> QED  BY <1>7, <3>1
  <2>3. t[n + 1] = s[n + 1]
    BY <1>1, <2>1
  <2> QED  BY <1>4, <1>5, <2>1, <2>2, <2>3
<1>8. Nat \subseteq T
  <2> HIDE DEF T
  <2> QED  BY <1>6, <1>7, NatUpto
<1>9. f[k] = g[k] /\ f[k] = Append(front, last)
  BY <1>1, <1>2, <1>8
<1>10. g[k + 1] = Turned(g[k], c, at)
  <2>1. k + 1 \in 1..(k + 1) /\ k + 1 - 1 = k
    BY <1>1
  <2> QED  BY <1>1, <1>5, <2>1
<1> QED  BY <1>1, <1>3, <1>9, <1>10, TurnedIs DEF t

LEMMA SplitParts ==
    ASSUME NEW C, NEW at, NEW s \in Seq(C)
    PROVE  \E front \in Seq(Seq(C)), last \in Seq(C) : Split(s, at) = Append(front, last)
<1> DEFINE Parts(x) == \E front \in Seq(Seq(C)), last \in Seq(C) : Split(x, at) = Append(front, last)
           T == {x \in Seq(C) : Parts(x)}
<1>1. <<>> \in T
  <2>1. <<>> \in Seq(C) /\ <<>> \in Seq(Seq(C)) /\ Split(<<>>, at) = Append(<<>>, <<>>)
    BY SplitEmpty
  <2> QED  BY <2>1
<1>2. ASSUME NEW x \in Seq(C), NEW c \in C, x \in T PROVE Append(x, c) \in T
  <2>1. PICK front \in Seq(Seq(C)), last \in Seq(C) : Split(x, at) = Append(front, last)
    BY <1>2
  <2>2. Split(Append(x, c), at) = Parted(front, last, c, at)
    BY <2>1, SplitAppend, Zenon
  <2>3. Append(x, c) \in Seq(C) /\ Append(front, last) \in Seq(Seq(C)) /\ <<>> \in Seq(C) /\ Append(last, c) \in Seq(C)
    OBVIOUS
  <2> QED  BY <2>2, <2>3 DEF Parted
<1>3. Seq(C) \subseteq T
  <2> HIDE DEF T
  <2> QED  BY <1>1, <1>2, SeqInduction
<1> QED  BY <1>3

LEMMA FilledAppend ==
    ASSUME NEW C, NEW parts \in Seq(Seq(C)), NEW last \in Seq(C)
    PROVE  /\ Filled(parts) \in Seq(Seq(C))
           /\ Filled(Append(parts, last)) = IF last = <<>> THEN Filled(parts) ELSE Append(Filled(parts), last)
<1>1. /\ Sifted(parts, {<<>>}) \in Seq(Seq(C))
      /\ Sifted(Append(parts, last), {<<>>}) =
            IF last \in {<<>>} THEN Sifted(parts, {<<>>}) ELSE Append(Sifted(parts, {<<>>}), last)
  <2> DEFINE D == Seq(C)
  <2> HIDE DEF D
  <2>1. parts \in Seq(D) /\ last \in D
    BY DEF D
  <2>2. /\ Sifted(parts, {<<>>}) \in Seq(D)
        /\ Sifted(Append(parts, last), {<<>>}) =
              IF last \in {<<>>} THEN Sifted(parts, {<<>>}) ELSE Append(Sifted(parts, {<<>>}), last)
    BY <2>1, SiftedAppend
  <2> QED  BY <2>2 DEF D
<1> QED  BY <1>1 DEF Filled

LEMMA FilledTyped == ASSUME NEW C, NEW parts \in Seq(Seq(C)) PROVE Filled(parts) \in Seq(Seq(C))
<1>1. <<>> \in Seq(C)
  OBVIOUS
<1> QED  BY <1>1, FilledAppend

LEMMA FilledEmpty == Filled(<<>>) = <<>>
BY SiftedEmpty DEF Filled

\* What a sequence makes of base, step by step.
Folded(step, base, s) ==
    LET f[n \in 0..Len(s)] == IF n = 0 THEN base ELSE step[s[n]][f[n - 1]]
    IN  f[Len(s)]

Folding(f, step, base, s) == f[0] = base /\ \A n \in 1..Len(s) : f[n] = step[s[n]][f[n - 1]]

LEMMA FoldedAre ==
    ASSUME NEW C, NEW X, NEW base \in X, NEW step \in [C -> [X -> X]], NEW s \in Seq(C)
    PROVE  \E f \in [0..Len(s) -> X] : Folded(step, base, s) = f[Len(s)] /\ Folding(f, step, base, s)
<1> DEFINE k == Len(s)
           steps == [n \in 1..k |-> step[s[n]]]
           Is(g) == g = [n \in 0..k |-> IF n = 0 THEN base ELSE step[s[n]][g[n - 1]]]
           w == CHOOSE g : Is(g)
<1>1. k \in Nat /\ \A n \in 1..k : s[n] \in C
  OBVIOUS
<1>2. steps \in [1..k -> [X -> X]]
  BY <1>1
<1>3. PICK g \in [0..k -> X] : Recursion(g, base, k, steps)
  <2> HIDE DEF steps, k
  <2> QED  BY <1>1, <1>2, RecursionExists
<1>4. g[0] = base /\ \A n \in 1..k : g[n] = step[s[n]][g[n - 1]]
  BY <1>3 DEF Recursion
<1>5. Is(g)
  BY <1>4
<1>6. Is(w)
  <2> HIDE DEF Is
  <2> QED  BY <1>5
<1>7. w = g
  <2> DEFINE T == {n \in Nat : n <= k => w[n] = g[n]}
  <2> HIDE DEF w
  <2>1. 0 \in T
    BY <1>1, <1>5, <1>6
  <2>2. \A n \in Nat : n \in T => n + 1 \in T
    BY <1>1, <1>5, <1>6
  <2>3. Nat \subseteq T
    BY <2>1, <2>2, NatUpto
  <2> QED  BY <2>3, <1>5, <1>6
<1>8. Folded(step, base, s) = w[k]
  BY DEF Folded
<1> QED  BY <1>4, <1>7, <1>8 DEF Folding

LEMMA FoldedEmpty ==
    ASSUME NEW C, NEW X, NEW base \in X, NEW step \in [C -> [X -> X]]
    PROVE  Folded(step, base, <<>>) = base
<1> DEFINE e == <<>>
<1>1. e \in Seq(C)
  OBVIOUS
<1>2. Len(e) = 0
  OBVIOUS
<1> HIDE DEF e
<1>3. \E f \in [0..Len(e) -> X] : Folded(step, base, e) = f[Len(e)] /\ Folding(f, step, base, e)
  BY <1>1, FoldedAre
<1>4. Folded(step, base, e) = base
  BY <1>2, <1>3 DEF Folding
<1> QED  BY <1>4 DEF e

LEMMA FoldedAppend ==
    ASSUME NEW C, NEW X, NEW base \in X, NEW step \in [C -> [X -> X]], NEW s \in Seq(C), NEW c \in C
    PROVE  /\ Folded(step, base, s) \in X
           /\ Folded(step, base, Append(s, c)) = step[c][Folded(step, base, s)]
<1> DEFINE t == Append(s, c)
           k == Len(s)
<1>1. t \in Seq(C) /\ Len(t) = k + 1 /\ k \in Nat /\ t[k + 1] = c /\ \A n \in 1..k : t[n] = s[n]
  BY AppendProperties
<1>2. PICK f \in [0..k -> X] : Folded(step, base, s) = f[k] /\ Folding(f, step, base, s)
  BY FoldedAre
<1> HIDE DEF t
<1>3. PICK g \in [0..Len(t) -> X] : Folded(step, base, t) = g[Len(t)] /\ Folding(g, step, base, t)
  BY <1>1, FoldedAre
<1> HIDE DEF k
<1>4. \A n \in 1..k : f[n] = step[s[n]][f[n - 1]]
  BY <1>2 DEF Folding, k
<1>5. \A n \in 1..(k + 1) : g[n] = step[t[n]][g[n - 1]]
  BY <1>1, <1>3 DEF Folding
<1> DEFINE T == {n \in Nat : n <= k => f[n] = g[n]}
<1>6. 0 \in T
  BY <1>2, <1>3 DEF Folding
<1>7. ASSUME NEW n \in Nat, n \in T PROVE n + 1 \in T
  <2> SUFFICES ASSUME n + 1 <= k PROVE f[n + 1] = g[n + 1]
    OBVIOUS
  <2>1. n + 1 \in 1..k /\ n + 1 \in 1..(k + 1) /\ n + 1 - 1 = n
    BY <1>1, <1>7
  <2>2. f[n] = g[n]
    <3>1. n <= k
      BY <1>1
    <3> QED  BY <1>7, <3>1
  <2>3. t[n + 1] = s[n + 1]
    BY <1>1, <2>1
  <2> QED  BY <1>4, <1>5, <2>1, <2>2, <2>3
<1>8. Nat \subseteq T
  <2> HIDE DEF T
  <2> QED  BY <1>6, <1>7, NatUpto
<1>9. f[k] = g[k] /\ f[k] \in X
  BY <1>1, <1>2, <1>8
<1>10. g[k + 1] = step[c][g[k]]
  <2>1. k + 1 \in 1..(k + 1) /\ k + 1 - 1 = k
    BY <1>1
  <2> QED  BY <1>1, <1>5, <2>1
<1>11. Folded(step, base, s) \in X
  BY <1>2, <1>9
<1>12. Folded(step, base, t) = step[c][Folded(step, base, s)]
  BY <1>1, <1>2, <1>3, <1>9, <1>10
<1> QED  BY <1>11, <1>12 DEF t

FlatSteps(D) == [x \in Seq(D) |-> [before \in Seq(D) |-> before \o x]]
Flat(D, parts) == Folded(FlatSteps(D), <<>>, parts)

LEMMA FlatIs ==
    ASSUME NEW D
    PROVE  /\ Flat(D, <<>>) = <<>>
           /\ \A parts \in Seq(Seq(D)), x \in Seq(D) :
                 Flat(D, parts) \in Seq(D) /\ Flat(D, Append(parts, x)) = Flat(D, parts) \o x
<1>1. FlatSteps(D) \in [Seq(D) -> [Seq(D) -> Seq(D)]]
  BY ConcatProperties DEF FlatSteps
<1>2. <<>> \in Seq(D)
  OBVIOUS
<1>3. Flat(D, <<>>) = <<>>
  BY <1>1, <1>2, FoldedEmpty DEF Flat
<1>4. ASSUME NEW parts \in Seq(Seq(D)), NEW x \in Seq(D)
      PROVE  Flat(D, parts) \in Seq(D) /\ Flat(D, Append(parts, x)) = Flat(D, parts) \o x
  <2> DEFINE P == Seq(D)
             Q == Seq(D)
             steps == FlatSteps(D)
             e == <<>>
  <2>1. parts \in Seq(P) /\ x \in P /\ steps \in [P -> [Q -> Q]] /\ e \in Q
    BY <1>1, <1>2
  <2>2. Flat(D, parts) = Folded(steps, e, parts) /\ Flat(D, Append(parts, x)) = Folded(steps, e, Append(parts, x))
    BY DEF Flat
  <2>3. \A before \in Q : steps[x][before] = before \o x
    BY DEF FlatSteps
  <2> HIDE DEF P, Q, steps, e
  <2>4. Folded(steps, e, parts) \in Q
    BY <2>1, FoldedAppend
  <2>5. Folded(steps, e, Append(parts, x)) = steps[x][Folded(steps, e, parts)]
    BY <2>1, FoldedAppend, SMTT(40)
  <2>6. Flat(D, parts) \in Q /\ Flat(D, Append(parts, x)) = Flat(D, parts) \o x
    BY <2>2, <2>3, <2>4, <2>5
  <2> QED  BY <2>6 DEF Q
<1> QED  BY <1>3, <1>4

LEMMA FlatFilled ==
    ASSUME NEW D, NEW parts \in Seq(Seq(D)) PROVE Flat(D, Filled(parts)) = Flat(D, parts)
<1> DEFINE Same(s) == Flat(D, Filled(s)) = Flat(D, s)
           T == {s \in Seq(Seq(D)) : Same(s)}
<1>1. <<>> \in T
  BY FilledEmpty
<1>2. ASSUME NEW s \in Seq(Seq(D)), NEW x \in Seq(D), s \in T PROVE Append(s, x) \in T
  <2>1. Append(s, x) \in Seq(Seq(D)) /\ Filled(s) \in Seq(Seq(D)) /\ Flat(D, s) \in Seq(D)
    BY FilledAppend, FlatIs
  <2>2. CASE x = <<>>
    <3>1. Filled(Append(s, x)) = Filled(s)
      BY <2>2, FilledAppend
    <3>2. Flat(D, Append(s, x)) = Flat(D, s) \o <<>>
      BY <2>2, FlatIs
    <3>3. Flat(D, s) \o <<>> = Flat(D, s)
      BY <2>1, ConcatEmptySeq
    <3> QED  BY <1>2, <2>1, <3>1, <3>2, <3>3
  <2>3. CASE x # <<>>
    <3>1. Filled(Append(s, x)) = Append(Filled(s), x)
      BY <2>3, FilledAppend
    <3>2. Flat(D, Append(Filled(s), x)) = Flat(D, Filled(s)) \o x
      BY <2>1, FlatIs
    <3>3. Flat(D, Append(s, x)) = Flat(D, s) \o x
      BY FlatIs
    <3>4. Flat(D, Filled(s)) = Flat(D, s)
      BY <1>2
    <3> QED  BY <2>1, <3>1, <3>2, <3>3, <3>4
  <2> QED  BY <2>2, <2>3
<1>3. Seq(Seq(D)) \subseteq T
  <2> HIDE DEF T
  <2> QED  BY <1>1, <1>2, SeqInduction
<1> QED  BY <1>3

LEMMA WordsAre ==
    ASSUME NEW C, NEW line \in Seq(C), NEW front \in Seq(Seq(C)), NEW last \in Seq(C),
           Split(line, White) = Append(front, last)
    PROVE  /\ Words(line) = IF last = <<>> THEN Filled(front) ELSE Append(Filled(front), last)
           /\ Words(line) \in Seq(Seq(C)) /\ Filled(front) \in Seq(Seq(C))
<1>1. Words(line) = Filled(Append(front, last))
  BY DEF Words
<1>2. Append(Filled(front), last) \in Seq(Seq(C)) /\ Filled(front) \in Seq(Seq(C))
  BY FilledAppend
<1> QED  BY <1>1, <1>2, FilledAppend

LEMMA WordsTyped == ASSUME NEW C, NEW line \in Seq(C) PROVE Words(line) \in Seq(Seq(C))
<1>1. PICK front \in Seq(Seq(C)), last \in Seq(C) : Split(line, White) = Append(front, last)
  BY SplitParts
<1> QED  BY <1>1, WordsAre

LEMMA NoWords == Words(<<>>) = <<>>
<1>1. Split(<<>>, White) = Append(<<>>, <<>>) /\ <<>> \in Seq({}) /\ <<>> \in Seq(Seq({}))
  BY SplitEmpty
<1> QED  BY <1>1, WordsAre, FilledEmpty

LEMMA EachWords ==
    ASSUME NEW C, NEW parts \in Seq(Seq(C)), NEW last \in Seq(C)
    PROVE  /\ Each(Words, parts) \in Seq(Seq(Seq(C)))
           /\ Each(Words, Append(parts, last)) = Append(Each(Words, parts), Words(last))
<1>1. \A line \in Seq(C) : Words(line) \in Seq(Seq(C))
  BY WordsTyped
<1> DEFINE W == [line \in Seq(C) |-> Words(line)]
<1>2. Each(Words, parts) = [i \in DOMAIN parts |-> W[parts[i]]]
  BY DEF Each
<1>3. Each(Words, Append(parts, last)) = [i \in DOMAIN Append(parts, last) |-> W[Append(parts, last)[i]]]
  BY DEF Each
<1>4. W \in [Seq(C) -> Seq(Seq(C))] /\ Words(last) = W[last]
  BY <1>1
<1> HIDE DEF W
<1> DEFINE D == Seq(C)
           E == Seq(Seq(C))
<1>5. parts \in Seq(D) /\ last \in D /\ W \in [D -> E]
  BY <1>4
<1> HIDE DEF D, E
<1>6. [i \in DOMAIN parts |-> W[parts[i]]] \in Seq(E)
  <2>1. DOMAIN parts = 1..Len(parts) /\ Len(parts) \in Nat /\ \A i \in 1..Len(parts) : parts[i] \in D
    BY <1>5
  <2>2. \A i \in 1..Len(parts) : W[parts[i]] \in E
    BY <1>5, <2>1
  <2> HIDE <1>5
  <2>3. [i \in 1..Len(parts) |-> W[parts[i]]] \in Seq(E)
    BY <2>1, <2>2
  <2> QED  BY <2>1, <2>3
<1>7. [i \in DOMAIN Append(parts, last) |-> W[Append(parts, last)[i]]] =
        Append([i \in DOMAIN parts |-> W[parts[i]]], W[last])
  <2> DEFINE n == Len(parts)
             more == Append(parts, last)
             one == [i \in DOMAIN parts |-> W[parts[i]]]
  <2>1. more \in Seq(D) /\ Len(more) = n + 1 /\ n \in Nat /\ more[n + 1] = last /\ \A i \in 1..n : more[i] = parts[i]
    BY <1>5, AppendProperties
  <2>2. DOMAIN more = 1..(n + 1) /\ DOMAIN parts = 1..n
    BY <1>5, <2>1
  <2>3. one \in Seq(E) /\ Len(one) = n /\ \A i \in 1..n : one[i] = W[parts[i]]
    BY <1>5, <1>6, <2>2
  <2>4. W[last] \in E
    BY <1>5
  <2> HIDE DEF one, more, n
  <2>5. /\ Append(one, W[last]) \in Seq(E) /\ Len(Append(one, W[last])) = n + 1
        /\ Append(one, W[last])[n + 1] = W[last]
        /\ \A i \in 1..n : Append(one, W[last])[i] = one[i]
    BY <2>3, <2>4, AppendProperties
  <2>6. [i \in DOMAIN more |-> W[more[i]]] = Append(one, W[last])
    <3> DEFINE a == [i \in 1..(n + 1) |-> W[more[i]]]
               b == Append(one, W[last])
    <3>1. a \in Seq(E) /\ Len(a) = n + 1
      BY <1>5, <2>1
    <3>2. \A i \in 1..(n + 1) : a[i] = b[i]
      BY <2>1, <2>3, <2>5
    <3> HIDE DEF a
    <3>3. a = b
      BY <2>5, <3>1, <3>2, SeqEqual
    <3> QED  BY <2>2, <3>3 DEF a
  <2> QED  BY <2>6 DEF one, more
<1> QED  BY <1>2, <1>3, <1>4, <1>6, <1>7 DEF E

\* The lines before the last, the last, and the words of the last before the last and the last.
Parsed(C, x, lines, line, words, word) ==
    /\ lines \in Seq(Seq(C)) /\ line \in Seq(C) /\ words \in Seq(Seq(C)) /\ word \in Seq(C)
    /\ Split(x, Lines) = Append(lines, line)
    /\ Split(line, White) = Append(words, word)

LEMMA ParsedEmpty == \A C : Parsed(C, <<>>, <<>>, <<>>, <<>>, <<>>)
BY SplitEmpty, EmptySeq DEF Parsed

LEMMA ParsedAppend ==
    ASSUME NEW C, NEW x \in Seq(C), NEW c \in C, NEW lines, NEW line, NEW words, NEW word,
           Parsed(C, x, lines, line, words, word)
    PROVE  /\ c \in Lines => Parsed(C, Append(x, c), Append(lines, line), <<>>, <<>>, <<>>)
           /\ c \in White \ Lines => Parsed(C, Append(x, c), lines, Append(line, c), Append(words, word), <<>>)
           /\ c \notin White => Parsed(C, Append(x, c), lines, Append(line, c), words, Append(word, c))
<1>1. /\ lines \in Seq(Seq(C)) /\ line \in Seq(C) /\ words \in Seq(Seq(C)) /\ word \in Seq(C)
      /\ Split(x, Lines) = Append(lines, line)
      /\ Split(line, White) = Append(words, word)
  BY DEF Parsed
<1>2. Split(Append(x, c), Lines) = Parted(lines, line, c, Lines)
  BY <1>1, SplitAppend, ZenonT(40)
<1>3. Split(Append(line, c), White) = Parted(words, word, c, White)
  BY <1>1, SplitAppend, ZenonT(40)
<1>4. /\ Append(lines, line) \in Seq(Seq(C)) /\ Append(line, c) \in Seq(C)
      /\ Append(words, word) \in Seq(Seq(C)) /\ Append(word, c) \in Seq(C)
      /\ <<>> \in Seq(C) /\ <<>> \in Seq(Seq(C))
  BY <1>1
<1>5. Lines \subseteq White
  BY DEF White
<1>6. CASE c \in Lines
  <2>1. Split(Append(x, c), Lines) = Append(Append(lines, line), <<>>)
    BY <1>2, <1>6 DEF Parted
  <2> QED  BY <1>4, <1>5, <1>6, <2>1, SplitEmpty DEF Parsed
<1>7. CASE c \in White \ Lines
  <2>1. Split(Append(x, c), Lines) = Append(lines, Append(line, c))
    BY <1>2, <1>7 DEF Parted
  <2>2. Split(Append(line, c), White) = Append(Append(words, word), <<>>)
    BY <1>3, <1>7 DEF Parted
  <2> QED  BY <1>1, <1>4, <1>7, <2>1, <2>2 DEF Parsed
<1>8. CASE c \notin White
  <2>1. Split(Append(x, c), Lines) = Append(lines, Append(line, c))
    BY <1>2, <1>5, <1>8 DEF Parted
  <2>2. Split(Append(line, c), White) = Append(words, Append(word, c))
    BY <1>3, <1>8 DEF Parted
  <2> QED  BY <1>1, <1>4, <1>5, <1>8, <2>1, <2>2 DEF Parsed
<1> QED  BY <1>6, <1>7, <1>8

\* The words of the lines are the words of the whole.
WholeParsed(C, x, lines, line, words, word, front) ==
    /\ Parsed(C, x, lines, line, words, word)
    /\ front \in Seq(Seq(C)) /\ Split(x, White) = Append(front, word)
    /\ Filled(front) = Flat(Seq(C), Each(Words, lines)) \o Filled(words)

LEMMA FlatWhole ==
    ASSUME NEW C, NEW x \in Seq(C), NEW c \in C, NEW lines, NEW line, NEW words, NEW word, NEW front,
           WholeParsed(C, x, lines, line, words, word, front)
    PROVE  \E lines1, line1, words1, word1, front1 :
              WholeParsed(C, Append(x, c), lines1, line1, words1, word1, front1)
<1> DEFINE flat(l) == Flat(Seq(C), Each(Words, l))
<1>1. /\ lines \in Seq(Seq(C)) /\ line \in Seq(C) /\ words \in Seq(Seq(C)) /\ word \in Seq(C)
      /\ Split(line, White) = Append(words, word)
      /\ front \in Seq(Seq(C)) /\ Split(x, White) = Append(front, word)
      /\ Filled(front) = flat(lines) \o Filled(words)
      /\ Parsed(C, x, lines, line, words, word)
  BY DEF WholeParsed, Parsed
<1>2. Split(Append(x, c), White) = Parted(front, word, c, White)
  BY <1>1, SplitAppend, ZenonT(40)
<1>3. /\ Append(front, word) \in Seq(Seq(C)) /\ <<>> \in Seq(C) /\ <<>> \in Seq(Seq(C))
      /\ Append(words, word) \in Seq(Seq(C)) /\ Filled(words) \in Seq(Seq(C)) /\ Filled(front) \in Seq(Seq(C))
  <2>1. Filled(words) \in Seq(Seq(C))
    BY <1>1, FilledTyped
  <2>2. Filled(front) \in Seq(Seq(C))
    BY <1>1, FilledTyped
  <2> QED  BY <1>1, <2>1, <2>2
<1>4. Each(Words, lines) \in Seq(Seq(Seq(C))) /\ Words(line) \in Seq(Seq(C))
  BY <1>1, EachWords, WordsTyped
<1>5. flat(lines) \in Seq(Seq(C))
  BY <1>4, FlatIs
<1>6. Filled(Append(front, word)) = flat(lines) \o Filled(Append(words, word))
  <2>1. CASE word = <<>>
    BY <1>1, <2>1, FilledAppend
  <2>2. CASE word # <<>>
    <3>1. Filled(Append(front, word)) = Append(Filled(front), word)
      BY <1>1, <2>2, FilledAppend
    <3>2. Filled(Append(words, word)) = Append(Filled(words), word)
      BY <1>1, <2>2, FilledAppend
    <3>3. Append(flat(lines) \o Filled(words), word) = flat(lines) \o Append(Filled(words), word)
      <4> DEFINE D == Seq(C)
                 u == flat(lines)
                 v == Filled(words)
      <4>1. u \in Seq(D) /\ v \in Seq(D) /\ word \in D
        BY <1>1, <1>3, <1>5
      <4> HIDE DEF D, u, v
      <4>2. Append(u \o v, word) = u \o Append(v, word)
        BY <4>1, SMTT(40)
      <4> QED  BY <4>2 DEF u, v
    <3> QED  BY <1>1, <3>1, <3>2, <3>3
  <2> QED  BY <2>1, <2>2
<1>7. CASE c \in Lines
  <2>1. Parsed(C, Append(x, c), Append(lines, line), <<>>, <<>>, <<>>)
    BY <1>1, <1>7, ParsedAppend
  <2>2. Split(Append(x, c), White) = Append(Append(front, word), <<>>)
    BY <1>2, <1>7 DEF Parted, White
  <2>3. flat(Append(lines, line)) = flat(lines) \o Words(line)
    <3>1. Each(Words, Append(lines, line)) = Append(Each(Words, lines), Words(line))
      BY <1>1, EachWords
    <3> QED  BY <1>4, <3>1, FlatIs
  <2>4. Words(line) = Filled(Append(words, word))
    BY <1>1 DEF Words
  <2>5. Filled(Append(front, word)) = flat(Append(lines, line)) \o Filled(<<>>)
    <3>1. flat(lines) \o Words(line) \in Seq(Seq(C))
      BY <1>4, <1>5, ConcatProperties
    <3> QED  BY <1>6, <2>3, <2>4, <3>1, FilledEmpty, ConcatEmptySeq
  <2>6. WholeParsed(C, Append(x, c), Append(lines, line), <<>>, <<>>, <<>>, Append(front, word))
    BY <1>3, <2>1, <2>2, <2>5 DEF WholeParsed
  <2> QED  BY <2>6
<1>8. CASE c \in White \ Lines
  <2>1. Parsed(C, Append(x, c), lines, Append(line, c), Append(words, word), <<>>)
    BY <1>1, <1>8, ParsedAppend
  <2>2. Split(Append(x, c), White) = Append(Append(front, word), <<>>)
    BY <1>2, <1>8 DEF Parted
  <2>3. WholeParsed(C, Append(x, c), lines, Append(line, c), Append(words, word), <<>>, Append(front, word))
    BY <1>3, <1>6, <2>1, <2>2 DEF WholeParsed
  <2> QED  BY <2>3
<1>9. CASE c \notin White
  <2>1. Parsed(C, Append(x, c), lines, Append(line, c), words, Append(word, c))
    BY <1>1, <1>9, ParsedAppend
  <2>2. Split(Append(x, c), White) = Append(front, Append(word, c))
    BY <1>2, <1>9 DEF Parted
  <2>3. WholeParsed(C, Append(x, c), lines, Append(line, c), words, Append(word, c), front)
    BY <1>1, <2>1, <2>2 DEF WholeParsed
  <2> QED  BY <2>3
<1> QED  BY <1>7, <1>8, <1>9

LEMMA WordsOfLines ==
    ASSUME NEW C, NEW x \in Seq(C)
    PROVE  Flat(Seq(C), Each(Words, Split(x, Lines))) = Words(x)
<1> DEFINE Whole(s) == \E lines, line, words, word, front : WholeParsed(C, s, lines, line, words, word, front)
           T == {s \in Seq(C) : Whole(s)}
<1>1. <<>> \in T
  <2>1. Each(Words, <<>>) = <<>>
    BY DEF Each
  <2>2. Flat(Seq(C), Each(Words, <<>>)) = <<>> /\ Filled(<<>>) = <<>> /\ <<>> \o <<>> = <<>>
    BY <2>1, FlatIs, FilledEmpty
  <2>3. Filled(<<>>) = Flat(Seq(C), Each(Words, <<>>)) \o Filled(<<>>)
    BY <2>2
  <2>4. WholeParsed(C, <<>>, <<>>, <<>>, <<>>, <<>>, <<>>)
    BY <2>3, ParsedEmpty, SplitEmpty, EmptySeq DEF WholeParsed
  <2> QED  BY <2>4
<1>2. ASSUME NEW s \in Seq(C), NEW c \in C, s \in T PROVE Append(s, c) \in T
  <2>1. Whole(s)
    BY <1>2
  <2>2. Whole(Append(s, c))
    BY <2>1, FlatWhole
  <2> QED  BY <2>2
<1>3. x \in T
  <2> HIDE DEF T
  <2> QED  BY <1>1, <1>2, SeqInduction
<1>4. PICK lines, line, words, word, front : WholeParsed(C, x, lines, line, words, word, front)
  BY <1>3
<1>5. /\ lines \in Seq(Seq(C)) /\ line \in Seq(C) /\ words \in Seq(Seq(C)) /\ word \in Seq(C)
      /\ Split(x, Lines) = Append(lines, line)
      /\ Split(line, White) = Append(words, word)
      /\ front \in Seq(Seq(C)) /\ Split(x, White) = Append(front, word)
      /\ Filled(front) = Flat(Seq(C), Each(Words, lines)) \o Filled(words)
  BY <1>4 DEF WholeParsed, Parsed
<1>6. Each(Words, lines) \in Seq(Seq(Seq(C))) /\ Words(line) \in Seq(Seq(C))
  BY <1>5, EachWords, WordsTyped
<1>7. Flat(Seq(C), Each(Words, Split(x, Lines))) = Flat(Seq(C), Each(Words, lines)) \o Words(line)
  <2>1. Each(Words, Append(lines, line)) = Append(Each(Words, lines), Words(line))
    BY <1>5, EachWords
  <2>2. Flat(Seq(C), Append(Each(Words, lines), Words(line))) = Flat(Seq(C), Each(Words, lines)) \o Words(line)
    BY <1>6, FlatIs
  <2> QED  BY <1>5, <2>1, <2>2
<1>8. Words(x) = Flat(Seq(C), Each(Words, lines)) \o Words(line)
  <2> DEFINE D == Seq(C)
             u == Flat(Seq(C), Each(Words, lines))
             v == Filled(words)
  <2>1. u \in Seq(D) /\ v \in Seq(D) /\ word \in D
    BY <1>5, <1>6, FlatIs, FilledAppend
  <2>2. Words(x) = IF word = <<>> THEN u \o v ELSE Append(u \o v, word)
    <3>1. Words(x) = Filled(Append(front, word))
      BY <1>5 DEF Words
    <3>2. CASE word = <<>>
      <4>1. Filled(Append(front, word)) = Filled(front)
        BY <1>5, <3>2, FilledAppend
      <4> QED  BY <1>5, <3>1, <3>2, <4>1
    <3>3. CASE word # <<>>
      <4>1. Filled(Append(front, word)) = Append(Filled(front), word)
        BY <1>5, <3>3, FilledAppend
      <4> QED  BY <1>5, <3>1, <3>3, <4>1
    <3> QED  BY <3>2, <3>3
  <2>3. Words(line) = IF word = <<>> THEN v ELSE Append(v, word)
    <3>1. Words(line) = Filled(Append(words, word))
      BY <1>5 DEF Words
    <3>2. CASE word = <<>>
      <4>1. Filled(Append(words, word)) = Filled(words)
        BY <1>5, <3>2, FilledAppend
      <4> QED  BY <3>1, <3>2, <4>1
    <3>3. CASE word # <<>>
      <4>1. Filled(Append(words, word)) = Append(Filled(words), word)
        BY <1>5, <3>3, FilledAppend
      <4> QED  BY <3>1, <3>3, <4>1
    <3> QED  BY <3>2, <3>3
  <2>4. Append(u \o v, word) = u \o Append(v, word)
    <3> HIDE DEF D, u, v
    <3>1. Carries(u, v, word)
      BY <2>1, AppendOfConcat, Zenon
    <3> QED  BY <3>1 DEF Carries
  <2> HIDE DEF u, v
  <2>5. Words(x) = u \o Words(line)
    BY <2>2, <2>3, <2>4
  <2> QED  BY <2>5 DEF u
<1> QED  BY <1>7, <1>8

\* The characters of the words are the characters that are not white.
LEMMA CharsOfWords ==
    ASSUME NEW C, NEW x \in Seq(C)
    PROVE  Flat(C, Words(x)) = Sifted(x, White)
<1> DEFINE Holds(s, front, last) ==
              /\ front \in Seq(Seq(C)) /\ last \in Seq(C)
              /\ Split(s, White) = Append(front, last)
              /\ Flat(C, Filled(front)) \o last = Sifted(s, White)
           Some(s) == \E front, last : Holds(s, front, last)
           T == {s \in Seq(C) : Some(s)}
<1>1. <<>> \in T
  <2>1. Flat(C, Filled(<<>>)) = <<>> /\ Sifted(<<>>, White) = <<>> /\ <<>> \o <<>> = <<>>
    BY FilledEmpty, FlatIs, SiftedEmpty
  <2>2. Holds(<<>>, <<>>, <<>>)
    BY <2>1, SplitEmpty, EmptySeq
  <2> QED  BY <2>2
<1>2. ASSUME NEW s \in Seq(C), NEW c \in C, s \in T PROVE Append(s, c) \in T
  <2>1. PICK front, last : Holds(s, front, last)
    BY <1>2
  <2>2. front \in Seq(Seq(C)) /\ last \in Seq(C) /\ Split(s, White) = Append(front, last)
    BY <2>1
  <2>3. Split(Append(s, c), White) = Parted(front, last, c, White)
    BY <2>2, SplitAppend
  <2>4. Sifted(s, White) \in Seq(C)
    BY SiftedAppend
  <2>5. Sifted(Append(s, c), White) = IF c \in White THEN Sifted(s, White) ELSE Append(Sifted(s, White), c)
    BY SiftedAppend
  <2>6. Filled(front) \in Seq(Seq(C))
    BY <2>2, FilledTyped
  <2>7. Flat(C, Filled(front)) \in Seq(C)
    <3>1. <<>> \in Seq(C)
      OBVIOUS
    <3> QED  BY <2>6, <3>1, FlatIs
  <2>8. Append(s, c) \in Seq(C) /\ Append(front, last) \in Seq(Seq(C)) /\ <<>> \in Seq(C) /\ Append(last, c) \in Seq(C)
    BY <2>2
  <2>9. CASE c \in White
    <3>1. Split(Append(s, c), White) = Append(Append(front, last), <<>>)
      BY <2>3, <2>9 DEF Parted
    <3>2. Flat(C, Filled(Append(front, last))) = Sifted(s, White)
      <4>1. CASE last = <<>>
        <5>1. Filled(Append(front, last)) = Filled(front)
          BY <2>2, <4>1, FilledAppend
        <5>2. Flat(C, Filled(front)) \o <<>> = Flat(C, Filled(front))
          BY <2>7, ConcatEmptySeq
        <5> QED  BY <2>1, <4>1, <5>1, <5>2
      <4>2. CASE last # <<>>
        <5>1. Filled(Append(front, last)) = Append(Filled(front), last)
          BY <2>2, <4>2, FilledAppend
        <5>2. Flat(C, Append(Filled(front), last)) = Flat(C, Filled(front)) \o last
          BY <2>2, <2>6, FlatIs
        <5> QED  BY <2>1, <5>1, <5>2
      <4> QED  BY <4>1, <4>2
    <3>3. Flat(C, Filled(Append(front, last))) \o <<>> = Sifted(Append(s, c), White)
      BY <2>4, <2>5, <2>9, <3>2, ConcatEmptySeq
    <3>4. Holds(Append(s, c), Append(front, last), <<>>)
      BY <2>8, <3>1, <3>3
    <3>5. Some(Append(s, c))
      BY <3>4
    <3> QED  BY <2>8, <3>5
  <2>10. CASE c \notin White
    <3>1. Split(Append(s, c), White) = Append(front, Append(last, c))
      BY <2>3, <2>10 DEF Parted
    <3>2. Flat(C, Filled(front)) \o Append(last, c) = Append(Flat(C, Filled(front)) \o last, c)
      <4> DEFINE u == Flat(C, Filled(front))
      <4>1. u \in Seq(C)
        BY <2>7
      <4> HIDE DEF u
      <4>2. u \o Append(last, c) = Append(u \o last, c)
        BY <2>2, <4>1
      <4> QED  BY <4>2 DEF u
    <3>3. Flat(C, Filled(front)) \o Append(last, c) = Sifted(Append(s, c), White)
      BY <2>1, <2>5, <2>10, <3>2
    <3>4. Holds(Append(s, c), front, Append(last, c))
      BY <2>2, <2>8, <3>1, <3>3
    <3>5. Some(Append(s, c))
      BY <3>4
    <3> QED  BY <2>8, <3>5
  <2> QED  BY <2>9, <2>10
<1>3. x \in T
  <2> HIDE DEF T
  <2> QED  BY <1>1, <1>2, SeqInduction
<1>4. PICK front, last : Holds(x, front, last)
  BY <1>3
<1>5. front \in Seq(Seq(C)) /\ last \in Seq(C) /\ Words(x) = Filled(Append(front, last))
  BY <1>4 DEF Words
<1>6. Filled(front) \in Seq(Seq(C))
  BY <1>5, FilledTyped
<1>7. CASE last = <<>>
  <2>1. Filled(Append(front, last)) = Filled(front)
    BY <1>5, <1>7, FilledAppend
  <2>2. Flat(C, Filled(front)) \in Seq(C)
    <3>1. <<>> \in Seq(C)
      OBVIOUS
    <3> QED  BY <1>6, <3>1, FlatIs
  <2>3. Flat(C, Filled(front)) \o <<>> = Flat(C, Filled(front))
    BY <2>2, ConcatEmptySeq
  <2> QED  BY <1>4, <1>5, <1>7, <2>1, <2>3
<1>8. CASE last # <<>>
  <2>1. Filled(Append(front, last)) = Append(Filled(front), last)
    BY <1>5, <1>8, FilledAppend
  <2>2. Flat(C, Append(Filled(front), last)) = Flat(C, Filled(front)) \o last
    BY <1>5, <1>6, FlatIs
  <2> QED  BY <1>4, <1>5, <2>1, <2>2
<1> QED  BY <1>7, <1>8

LEMMA EachOfFilled ==
    ASSUME NEW C, NEW parts \in Seq(Seq(C))
    PROVE  Filled(Each(Words, Filled(parts))) = Filled(Each(Words, parts))
<1> DEFINE Same(s) == Filled(Each(Words, Filled(s))) = Filled(Each(Words, s))
           T == {s \in Seq(Seq(C)) : Same(s)}
<1>1. <<>> \in T
  BY FilledEmpty
<1>2. ASSUME NEW s \in Seq(Seq(C)), NEW x \in Seq(C), s \in T PROVE Append(s, x) \in T
  <2>1. Append(s, x) \in Seq(Seq(C)) /\ Filled(s) \in Seq(Seq(C))
    BY FilledTyped
  <2>2. Each(Words, s) \in Seq(Seq(Seq(C))) /\ Words(x) \in Seq(Seq(C))
    BY EachWords, WordsTyped
  <2>3. Each(Words, Append(s, x)) = Append(Each(Words, s), Words(x))
    BY EachWords
  <2>4. CASE x = <<>>
    <3>1. Filled(Append(s, x)) = Filled(s)
      BY <2>4, FilledAppend
    <3>2. Words(x) = <<>>
      BY <2>4, NoWords
    <3>3. Filled(Append(Each(Words, s), Words(x))) = Filled(Each(Words, s))
      BY <2>2, <3>2, FilledAppend
    <3>4. Same(s)
      BY <1>2
    <3>5. Same(Append(s, x))
      BY <2>3, <3>1, <3>3, <3>4
    <3> QED  BY <2>1, <3>5
  <2>5. CASE x # <<>>
    <3>1. Filled(Append(s, x)) = Append(Filled(s), x)
      BY <2>5, FilledAppend
    <3>2. Each(Words, Append(Filled(s), x)) = Append(Each(Words, Filled(s)), Words(x))
      BY <2>1, EachWords
    <3>3. Each(Words, Filled(s)) \in Seq(Seq(Seq(C)))
      BY <2>1, EachWords
    <3>4. Filled(Append(Each(Words, Filled(s)), Words(x))) =
              IF Words(x) = <<>> THEN Filled(Each(Words, Filled(s))) ELSE Append(Filled(Each(Words, Filled(s))), Words(x))
      BY <2>2, <3>3, FilledAppend
    <3>5. Filled(Append(Each(Words, s), Words(x))) =
              IF Words(x) = <<>> THEN Filled(Each(Words, s)) ELSE Append(Filled(Each(Words, s)), Words(x))
      BY <2>2, FilledAppend
    <3>6. Same(s)
      BY <1>2
    <3>7. Same(Append(s, x))
      BY <2>3, <3>1, <3>2, <3>4, <3>5, <3>6
    <3> QED  BY <2>1, <3>7
  <2> QED  BY <2>4, <2>5
<1>3. Seq(Seq(C)) \subseteq T
  <2> HIDE DEF T
  <2> QED  BY <1>1, <1>2, SeqInduction
<1> QED  BY <1>3

LEMMA LinesTyped ==
    ASSUME NEW C, NEW x \in Seq(C), NEW at PROVE Split(x, at) \in Seq(Seq(C)) /\ Filled(Split(x, at)) \in Seq(Seq(C))
<1>1. PICK front \in Seq(Seq(C)), last \in Seq(C) : Split(x, at) = Append(front, last)
  BY SplitParts
<1>2. Split(x, at) \in Seq(Seq(C))
  BY <1>1
<1> QED  BY <1>2, FilledTyped

LEMMA EachWordsTyped == ASSUME NEW C, NEW parts \in Seq(Seq(C)) PROVE Each(Words, parts) \in Seq(Seq(Seq(C)))
<1>1. <<>> \in Seq(C)
  OBVIOUS
<1> QED  BY <1>1, EachWords

LEMMA WordsByLineIs ==
    ASSUME NEW C, NEW x \in Seq(C)
    PROVE  /\ WordsByLine(x) = Filled(Each(Words, Split(x, Lines)))
           /\ WordsByLine(x) \in Seq(Seq(Seq(C)))
<1>1. Split(x, Lines) \in Seq(Seq(C))
  BY LinesTyped
<1>2. Each(Words, Split(x, Lines)) \in Seq(Seq(Seq(C)))
  BY <1>1, EachWordsTyped
<1>3. Filled(Each(Words, Split(x, Lines))) \in Seq(Seq(Seq(C)))
  <2> DEFINE D == Seq(C)
  <2>1. Each(Words, Split(x, Lines)) \in Seq(Seq(D))
    BY <1>2
  <2> HIDE DEF D
  <2>2. Filled(Each(Words, Split(x, Lines))) \in Seq(Seq(D))
    BY <2>1, FilledTyped
  <2> QED  BY <2>2 DEF D
<1>4. Filled(Each(Words, Filled(Split(x, Lines)))) = Filled(Each(Words, Split(x, Lines)))
  BY <1>1, EachOfFilled
<1> QED  BY <1>3, <1>4 DEF WordsByLine, SplitLines

LEMMA WordsOfWhole ==
    ASSUME NEW C, NEW x \in Seq(C)
    PROVE  /\ Flat(Seq(C), WordsByLine(x)) = Words(x)
           /\ Flat(Seq(C), Each(Words, SplitLines(x))) = Words(x)
           /\ Each(Words, SplitLines(x)) \in Seq(Seq(Seq(C)))
<1> DEFINE D == Seq(C)
           parts == Each(Words, Split(x, Lines))
           full == Each(Words, Filled(Split(x, Lines)))
<1>1. parts \in Seq(Seq(D)) /\ full \in Seq(Seq(D))
  BY LinesTyped, EachWordsTyped
<1>2. Filled(full) = Filled(parts)
  BY LinesTyped, EachOfFilled
<1>3. Flat(D, parts) = Words(x)
  BY WordsOfLines
<1>4. WordsByLine(x) = Filled(parts) /\ Each(Words, SplitLines(x)) = full
  BY WordsByLineIs DEF SplitLines
<1> HIDE DEF D, parts, full
<1>5. Flat(D, Filled(parts)) = Flat(D, parts) /\ Flat(D, Filled(full)) = Flat(D, full)
  BY <1>1, FlatFilled
<1> QED  BY <1>1, <1>2, <1>3, <1>4, <1>5 DEF D

LEMMA WordsBlank ==
    ASSUME NEW C, NEW x \in Seq(C), NEW c \in C, c \in White PROVE Words(Append(x, c)) = Words(x)
<1>1. PICK front \in Seq(Seq(C)), last \in Seq(C) : Split(x, White) = Append(front, last)
  BY SplitParts
<1>2. Split(Append(x, c), White) = Parted(front, last, c, White)
  BY <1>1, SplitAppend
<1>3. Split(Append(x, c), White) = Append(Append(front, last), <<>>)
  BY <1>2 DEF Parted
<1>4. Append(front, last) \in Seq(Seq(C)) /\ <<>> \in Seq(C)
  OBVIOUS
<1>5. Filled(Append(Append(front, last), <<>>)) = Filled(Append(front, last))
  BY <1>4, FilledAppend
<1> QED  BY <1>1, <1>3, <1>5 DEF Words

LEMMA OneMore ==
    ASSUME NEW C, NEW s \in Seq(C), NEW m \in 0..(Len(s) - 1)
    PROVE  /\ SubSeq(s, 1, m) \in Seq(C) /\ Len(SubSeq(s, 1, m)) = m /\ s[m + 1] \in C
           /\ SubSeq(s, 1, m + 1) = Append(SubSeq(s, 1, m), s[m + 1])
<1>1. Len(s) \in Nat /\ \A i \in 1..Len(s) : s[i] \in C
  BY LenProperties
<1>2. s[m + 1] \in C
  BY <1>1
<1>3. SubSeq(s, 1, m) \in Seq(C) /\ Len(SubSeq(s, 1, m)) = m /\ \A i \in 1..m : SubSeq(s, 1, m)[i] = s[i]
  BY <1>1, SubSeqProperties
<1>4. /\ SubSeq(s, 1, m + 1) \in Seq(C) /\ Len(SubSeq(s, 1, m + 1)) = m + 1
      /\ \A i \in 1..(m + 1) : SubSeq(s, 1, m + 1)[i] = s[i]
  BY <1>1, SubSeqProperties
<1> DEFINE a == SubSeq(s, 1, m + 1)
           b == Append(SubSeq(s, 1, m), s[m + 1])
<1>5. b \in Seq(C) /\ Len(b) = m + 1 /\ b[m + 1] = s[m + 1] /\ \A i \in 1..m : b[i] = s[i]
  BY <1>2, <1>3, AppendProperties
<1>6. \A i \in 1..(m + 1) : a[i] = b[i]
  BY <1>4, <1>5
<1>7. a = b
  <2>1. a \in Seq(C) /\ Len(a) = m + 1
    BY <1>4
  <2> HIDE DEF a, b
  <2> QED  BY <1>5, <1>6, <2>1, SeqEqual
<1> QED  BY <1>2, <1>3, <1>7

LEMMA WordsOfBeginning ==
    ASSUME NEW C, NEW x \in Seq(C), NEW n \in 0..Len(x), \A i \in (n + 1)..Len(x) : x[i] \in White
    PROVE  Words(SubSeq(x, 1, n)) = Words(x)
<1> DEFINE T == {m \in Nat : n + m <= Len(x) => Words(SubSeq(x, 1, n + m)) = Words(SubSeq(x, 1, n))}
<1>1. Len(x) \in Nat
  BY LenProperties
<1>2. 0 \in T
  OBVIOUS
<1>3. ASSUME NEW m \in Nat, m \in T PROVE m + 1 \in T
  <2> SUFFICES ASSUME n + (m + 1) <= Len(x) PROVE Words(SubSeq(x, 1, n + (m + 1))) = Words(SubSeq(x, 1, n))
    OBVIOUS
  <2> DEFINE k == n + m
  <2>1. k \in 0..(Len(x) - 1) /\ n + (m + 1) = k + 1 /\ k + 1 \in (n + 1)..Len(x)
    BY <1>1
  <2>2. Words(SubSeq(x, 1, k)) = Words(SubSeq(x, 1, n))
    BY <1>1, <1>3
  <2> HIDE DEF k
  <2>3. SubSeq(x, 1, k) \in Seq(C) /\ x[k + 1] \in C
    BY <2>1, OneMore
  <2>4. SubSeq(x, 1, k + 1) = Append(SubSeq(x, 1, k), x[k + 1])
    BY <2>1, OneMore
  <2>5. x[k + 1] \in White
    BY <2>1
  <2>6. Words(SubSeq(x, 1, k + 1)) = Words(SubSeq(x, 1, k))
    <3> DEFINE y == SubSeq(x, 1, k)
               c == x[k + 1]
    <3>1. y \in Seq(C) /\ c \in C /\ c \in White /\ SubSeq(x, 1, k + 1) = Append(y, c)
      BY <2>3, <2>4, <2>5
    <3> HIDE DEF y, c
    <3>2. Words(Append(y, c)) = Words(y)
      BY <3>1, WordsBlank
    <3> QED  BY <3>1, <3>2 DEF y
  <2> QED  BY <2>1, <2>2, <2>6
<1>4. Nat \subseteq T
  <2> HIDE DEF T
  <2> QED  BY <1>2, <1>3, NatUpto
<1>5. Len(x) - n \in Nat /\ n + (Len(x) - n) = Len(x)
  BY <1>1
<1>6. Words(SubSeq(x, 1, Len(x))) = Words(SubSeq(x, 1, n))
  BY <1>1, <1>4, <1>5
<1> QED  BY <1>6, SubSeqFull

LEMMA RStripIs ==
    ASSUME NEW C, NEW line \in Seq(C)
    PROVE  /\ RStrip(line) \in Seq(C) /\ Words(RStrip(line)) = Words(line)
<1> DEFINE Ends(n) == (n > 0 => line[n] \notin White) /\ \A i \in (n + 1)..Len(line) : line[i] \in White
           n == CHOOSE m \in 0..Len(line) : Ends(m)
           T == {m \in 0..Len(line) : \A i \in (m + 1)..Len(line) : line[i] \in White}
<1>1. Len(line) \in Nat /\ \A i \in 1..Len(line) : line[i] \in C
  BY LenProperties
<1>2. T \subseteq Nat /\ Len(line) \in T
  BY <1>1
<1>3. PICK m \in T : \A k \in T : m <= k
  <2> HIDE DEF T
  <2> QED  BY <1>2, SmallestOf
<1>4. Ends(m)
  <2> SUFFICES ASSUME m > 0, line[m] \in White PROVE FALSE
    BY <1>3
  <2>1. m - 1 \in 0..Len(line) /\ \A i \in ((m - 1) + 1)..Len(line) : line[i] \in White
    BY <1>1, <1>3
  <2>2. m - 1 \in T
    BY <2>1
  <2>3. m \in 0..Len(line)
    BY <1>3
  <2>4. m <= m - 1
    <3> HIDE DEF T
    <3> QED  BY <1>3, <2>2
  <2> QED  BY <1>1, <2>3, <2>4
<1>5. n \in 0..Len(line) /\ Ends(n)
  <2> HIDE DEF Ends
  <2> QED  BY <1>3, <1>4
<1>6. RStrip(line) = SubSeq(line, 1, n)
  BY DEF RStrip
<1> HIDE DEF n
<1>7. SubSeq(line, 1, n) \in Seq(C)
  BY <1>1, <1>5, SubSeqProperties
<1>8. Words(SubSeq(line, 1, n)) = Words(line)
  BY <1>5, WordsOfBeginning
<1> QED  BY <1>6, <1>7, <1>8

(***************************************************************************)
(* What sorting leaves equal: two lists are equal once they are sorted     *)
(* when the places of one can be matched with those of the other.          *)
(***************************************************************************)
Inverses(S, T, f, g) ==
    /\ f \in [S -> T] /\ g \in [T -> S]
    /\ \A x \in S : g[f[x]] = x
    /\ \A y \in T : f[g[y]] = y

LEMMA InversesCount ==
    ASSUME NEW S, NEW T, NEW f, NEW g, Inverses(S, T, f, g), IsFiniteSet(S)
    PROVE  Cardinality(S) = Cardinality(T)
<1>1. f \in Bijection(S, T)
  <2>1. f \in [S -> T] /\ g \in [T -> S] /\ (\A x \in S : g[f[x]] = x) /\ \A y \in T : f[g[y]] = y
    BY DEF Inverses
  <2>2. \A x \in S, y \in S : f[x] = f[y] => x = y
    BY <2>1
  <2>3. \A y \in T : \E x \in S : f[x] = y
    BY <2>1
  <2>4. f \in Injection(S, T)
    BY <2>1, <2>2, Fun_IsInj
  <2>5. f \in Surjection(S, T)
    BY <2>1, <2>3, Fun_IsSurj
  <2> QED  BY <2>4, <2>5 DEF Bijection
<1>2. ExistsBijection(S, T)
  BY <1>1 DEF ExistsBijection
<1> QED  BY <1>2, FS_Bijection

Matching(s, t, f, g) ==
    /\ Inverses(DOMAIN s, DOMAIN t, f, g)
    /\ \A i \in DOMAIN s : t[f[i]] = s[i]

Matched(s, t) == \E f, g : Matching(s, t, f, g)

LEMMA MatchedSorts ==
    ASSUME NEW C, NEW s \in Seq(C), NEW t \in Seq(C), Matched(s, t) PROVE SameSorted(s, t)
<1>1. PICK f, g : Matching(s, t, f, g)
  BY DEF Matched
<1>2. DOMAIN s = 1..Len(s) /\ DOMAIN t = 1..Len(t) /\ Len(s) \in Nat /\ Len(t) \in Nat
  BY LenProperties
<1>3. IsFiniteSet(1..Len(s)) /\ Cardinality(1..Len(s)) = Len(s) /\ Cardinality(1..Len(t)) = Len(t)
  <2>1. \A n \in Nat : IsFiniteSet(1..n) /\ Cardinality(1..n) = n
    <3> SUFFICES ASSUME NEW n \in Nat PROVE IsFiniteSet(1..n) /\ Cardinality(1..n) = n
      OBVIOUS
    <3>1. 1 \in Int /\ n \in Int
      OBVIOUS
    <3>2. IsFiniteSet(1..n) /\ Cardinality(1..n) = IF 1 > n THEN 0 ELSE n - 1 + 1
      BY <3>1, FS_Interval
    <3> QED  BY <3>2
  <2> QED  BY <1>2, <2>1
<1>4. Len(s) = Len(t)
  <2>1. Inverses(1..Len(s), 1..Len(t), f, g)
    BY <1>1, <1>2 DEF Matching
  <2>2. Cardinality(1..Len(s)) = Cardinality(1..Len(t))
    BY <1>3, <2>1, InversesCount
  <2> QED  BY <1>3, <2>2
<1>5. ASSUME NEW x
      PROVE  Cardinality({i \in DOMAIN s : s[i] = x}) = Cardinality({i \in DOMAIN t : t[i] = x})
  <2> DEFINE P == {i \in DOMAIN s : s[i] = x}
             Q == {i \in DOMAIN t : t[i] = x}
             fp == [i \in P |-> f[i]]
             gq == [j \in Q |-> g[j]]
  <2>1. /\ f \in [DOMAIN s -> DOMAIN t] /\ g \in [DOMAIN t -> DOMAIN s]
        /\ \A i \in DOMAIN s : g[f[i]] = i
        /\ \A j \in DOMAIN t : f[g[j]] = j
        /\ \A i \in DOMAIN s : t[f[i]] = s[i]
    BY <1>1 DEF Matching, Inverses
  <2>2. \A i \in P : f[i] \in Q
    BY <2>1
  <2>3. \A j \in Q : g[j] \in P
    BY <2>1
  <2>4. fp \in [P -> Q] /\ gq \in [Q -> P]
    BY <2>2, <2>3
  <2>5. \A i \in P : gq[fp[i]] = i
    BY <2>1, <2>2
  <2>6. \A j \in Q : fp[gq[j]] = j
    BY <2>1, <2>3
  <2>7. Inverses(P, Q, fp, gq)
    <3> HIDE DEF P, Q, fp, gq
    <3> QED  BY <2>4, <2>5, <2>6 DEF Inverses
  <2>8. IsFiniteSet(P)
    <3>1. P \in SUBSET (1..Len(s))
      BY <1>2
    <3> HIDE DEF P
    <3> QED  BY <1>3, <3>1, FS_Subset
  <2>9. Cardinality(P) = Cardinality(Q)
    <3> HIDE DEF P, Q, fp, gq
    <3> QED  BY <2>7, <2>8, InversesCount
  <2> QED  BY <2>9
<1> QED  BY <1>4, <1>5 DEF SameSorted

LEMMA SortsMatched ==
    ASSUME NEW C, NEW s \in Seq(C), NEW t \in Seq(C), SameSorted(s, t) PROVE Matched(s, t)
<1> DEFINE P(x) == {i \in DOMAIN s : s[i] = x}
           Q(x) == {i \in DOMAIN t : t[i] = x}
           Pair(x) == CHOOSE h : h \in Bijection(P(x), Q(x))
           f == [i \in DOMAIN s |-> Pair(s[i])[i]]
           g == [j \in DOMAIN t |-> CHOOSE i \in DOMAIN s : f[i] = j]
<1>1. DOMAIN s = 1..Len(s) /\ DOMAIN t = 1..Len(t) /\ Len(s) \in Nat /\ Len(t) \in Nat
  BY LenProperties
<1>2. Len(s) = Len(t) /\ \A i \in DOMAIN s : Cardinality(P(s[i])) = Cardinality(Q(s[i]))
  BY DEF SameSorted, ToSet
<1>3. IsFiniteSet(DOMAIN s) /\ IsFiniteSet(DOMAIN t) /\ Cardinality(DOMAIN s) = Cardinality(DOMAIN t)
  BY <1>1, <1>2, FS_Interval
<1>4. ASSUME NEW i \in DOMAIN s PROVE Pair(s[i]) \in Bijection(P(s[i]), Q(s[i]))
  <2> DEFINE p == P(s[i])
             q == Q(s[i])
  <2>1. p \in SUBSET DOMAIN s /\ q \in SUBSET DOMAIN t /\ Cardinality(p) = Cardinality(q)
    BY <1>2
  <2>2. IsFiniteSet(p) /\ IsFiniteSet(q)
    <3> HIDE DEF p, q
    <3> QED  BY <1>3, <2>1, FS_Subset
  <2>3. ExistsBijection(p, q)
    <3> HIDE DEF p, q
    <3> QED  BY <2>1, <2>2, FS_SameCardinalityBij
  <2>4. \E h : h \in Bijection(p, q)
    <3> HIDE DEF p, q
    <3> QED  BY <2>3 DEF ExistsBijection
  <2> QED  BY <2>4
<1>5. ASSUME NEW i \in DOMAIN s PROVE f[i] \in DOMAIN t /\ t[f[i]] = s[i]
  <2>1. Pair(s[i]) \in [P(s[i]) -> Q(s[i])]
    <3> HIDE DEF Pair, P, Q
    <3> QED  BY <1>4, Fun_BijectionProperties
  <2>2. i \in P(s[i])
    OBVIOUS
  <2>3. Pair(s[i])[i] \in Q(s[i])
    <3> HIDE DEF Pair, P, Q
    <3> QED  BY <2>1, <2>2
  <2>4. f[i] = Pair(s[i])[i]
    <3> HIDE DEF Pair
    <3> QED  OBVIOUS
  <2> HIDE DEF Pair, f
  <2> QED  BY <2>3, <2>4
<1>6. ASSUME NEW i \in DOMAIN s, NEW k \in DOMAIN s, f[i] = f[k] PROVE i = k
  <2>1. s[i] = s[k]
    <3> HIDE DEF f
    <3> QED  BY <1>5, <1>6
  <2> DEFINE h == Pair(s[i])
             p == P(s[i])
             q == Q(s[i])
  <2>2. i \in p /\ k \in p
    BY <2>1
  <2>3. h \in Injection(p, q)
    <3>1. h \in Bijection(p, q)
      <4> HIDE DEF Pair, P, Q
      <4> QED  BY <1>4
    <3> HIDE DEF h, p, q
    <3> QED  BY <3>1, Fun_BijectionProperties
  <2>4. f[i] = h[i] /\ f[k] = h[k]
    <3> HIDE DEF Pair
    <3> QED  BY <2>1
  <2> HIDE DEF h, p, q, f
  <2> QED  BY <1>6, <2>2, <2>3, <2>4, Fun_InjectionProperties
<1>7. f \in [DOMAIN s -> DOMAIN t]
  <2> HIDE DEF Pair
  <2>1. f = [i \in DOMAIN s |-> f[i]]
    OBVIOUS
  <2> HIDE DEF f
  <2> QED  BY <1>5, <2>1
<1> HIDE DEF f
<1>8. f \in Injection(DOMAIN s, DOMAIN t)
  BY <1>6, <1>7, Fun_IsInj
<1>9. f \in Surjection(DOMAIN s, DOMAIN t)
  BY <1>3, <1>8, FS_Injection
<1>10. \A j \in DOMAIN t : \E i \in DOMAIN s : f[i] = j
  BY <1>9, Fun_SurjectionProperties
<1>11. ASSUME NEW j \in DOMAIN t PROVE g[j] \in DOMAIN s /\ f[g[j]] = j
  BY <1>10
<1>12. g \in [DOMAIN t -> DOMAIN s]
  <2>1. g = [j \in DOMAIN t |-> g[j]]
    OBVIOUS
  <2> HIDE DEF g
  <2> QED  BY <1>11, <2>1
<1> HIDE DEF g
<1>13. \A i \in DOMAIN s : g[f[i]] = i
  BY <1>5, <1>6, <1>11
<1>14. Matching(s, t, f, g)
  BY <1>5, <1>7, <1>11, <1>12, <1>13 DEF Matching, Inverses
<1> QED  BY <1>14 DEF Matched

\* Where the elements of the parts are in the whole: row and column of a place, and the
\* place of a row and a column.
LaidOut(parts, flat, row, col, place) ==
    /\ \A n \in DOMAIN flat :
          /\ row[n] \in DOMAIN parts /\ col[n] \in DOMAIN parts[row[n]]
          /\ flat[n] = parts[row[n]][col[n]] /\ place[row[n]][col[n]] = n
    /\ \A i \in DOMAIN parts : \A k \in DOMAIN parts[i] :
          /\ place[i][k] \in DOMAIN flat
          /\ row[place[i][k]] = i /\ col[place[i][k]] = k

LEMMA LaidOutMore ==
    ASSUME NEW D, NEW parts \in Seq(Seq(D)), NEW flat \in Seq(D), NEW row, NEW col, NEW place, NEW x \in Seq(D),
           LaidOut(parts, flat, row, col, place)
    PROVE  \E row1, col1, place1 : LaidOut(Append(parts, x), flat \o x, row1, col1, place1)
<1> DEFINE n == Len(parts)
           m == Len(flat)
           l == Len(x)
           more == Append(parts, x)
           whole == flat \o x
           row1 == [k \in 1..(m + l) |-> IF k <= m THEN row[k] ELSE n + 1]
           col1 == [k \in 1..(m + l) |-> IF k <= m THEN col[k] ELSE k - m]
           place1 == [i \in 1..(n + 1) |-> IF i <= n THEN place[i] ELSE [k \in 1..l |-> m + k]]
<1>1. n \in Nat /\ m \in Nat /\ l \in Nat /\ DOMAIN parts = 1..n /\ DOMAIN flat = 1..m /\ DOMAIN x = 1..l
  BY LenProperties
<1>2. DOMAIN more = 1..(n + 1) /\ more[n + 1] = x /\ \A i \in 1..n : more[i] = parts[i]
  <2>1. more \in Seq(Seq(D)) /\ Len(more) = n + 1
    BY AppendProperties
  <2> QED  BY <2>1, AppendProperties
<1>3. DOMAIN whole = 1..(m + l) /\ \A k \in 1..(m + l) : whole[k] = IF k <= m THEN flat[k] ELSE x[k - m]
  <2>1. whole \in Seq(D) /\ Len(whole) = m + l
    BY ConcatProperties
  <2> QED  BY <2>1, ConcatProperties
<1>4. /\ \A k \in 1..m : /\ row[k] \in 1..n /\ col[k] \in DOMAIN parts[row[k]]
                         /\ flat[k] = parts[row[k]][col[k]] /\ place[row[k]][col[k]] = k
      /\ \A i \in 1..n : \A k \in DOMAIN parts[i] :
            place[i][k] \in 1..m /\ row[place[i][k]] = i /\ col[place[i][k]] = k
  BY <1>1 DEF LaidOut
<1>5. /\ \A k \in 1..m : row1[k] = row[k] /\ col1[k] = col[k]
      /\ \A k \in (m + 1)..(m + l) : row1[k] = n + 1 /\ col1[k] = k - m
      /\ \A i \in 1..n : place1[i] = place[i]
      /\ place1[n + 1] = [k \in 1..l |-> m + k]
  BY <1>1
<1> HIDE DEF n, m, l, more, whole, row1, col1, place1
<1>6. ASSUME NEW k \in 1..(m + l)
      PROVE  /\ row1[k] \in 1..(n + 1) /\ col1[k] \in DOMAIN more[row1[k]]
             /\ whole[k] = more[row1[k]][col1[k]] /\ place1[row1[k]][col1[k]] = k
  <2>1. CASE k \in 1..m
    <3>1. row1[k] = row[k] /\ col1[k] = col[k] /\ row[k] \in 1..n
      BY <1>4, <1>5, <2>1
    <3>2. row[k] \in 1..(n + 1) /\ more[row[k]] = parts[row[k]] /\ place1[row[k]] = place[row[k]]
      BY <1>1, <1>2, <1>5, <3>1
    <3>3. whole[k] = flat[k]
      BY <1>1, <1>3, <2>1
    <3> QED  BY <1>4, <2>1, <3>1, <3>2, <3>3
  <2>2. CASE k \in (m + 1)..(m + l)
    <3>1. row1[k] = n + 1 /\ col1[k] = k - m
      BY <1>5, <2>2
    <3>2. k - m \in 1..l /\ n + 1 \in 1..(n + 1) /\ ~ (k <= m)
      BY <1>1, <2>2
    <3>3. more[n + 1] = x /\ whole[k] = x[k - m] /\ k - m \in DOMAIN x
      BY <1>1, <1>2, <1>3, <3>2
    <3>4. place1[n + 1][k - m] = m + (k - m)
      BY <1>5, <3>2
    <3>5. m + (k - m) = k
      BY <1>1
    <3> QED  BY <3>1, <3>2, <3>3, <3>4, <3>5
  <2> QED  BY <1>1, <2>1, <2>2
<1>7. ASSUME NEW i \in 1..(n + 1), NEW k \in DOMAIN more[i]
      PROVE  place1[i][k] \in 1..(m + l) /\ row1[place1[i][k]] = i /\ col1[place1[i][k]] = k
  <2>1. CASE i \in 1..n
    <3>1. more[i] = parts[i] /\ place1[i] = place[i]
      BY <1>2, <1>5, <2>1
    <3>2. place[i][k] \in 1..m /\ row[place[i][k]] = i /\ col[place[i][k]] = k
      BY <1>4, <2>1, <3>1
    <3>3. place[i][k] \in 1..(m + l)
      BY <1>1, <3>2
    <3> QED  BY <1>5, <3>1, <3>2, <3>3
  <2>2. CASE i = n + 1
    <3>1. k \in 1..l
      BY <1>1, <1>2, <2>2
    <3>2. place1[i][k] = m + k
      BY <1>5, <2>2, <3>1
    <3>3. m + k \in (m + 1)..(m + l) /\ m + k \in 1..(m + l) /\ (m + k) - m = k
      BY <1>1, <3>1
    <3> QED  BY <1>5, <2>2, <3>2, <3>3
  <2> QED  BY <1>1, <2>1, <2>2
<1>8. LaidOut(more, whole, row1, col1, place1)
  BY <1>2, <1>3, <1>6, <1>7 DEF LaidOut
<1>9. \E r, c, p : LaidOut(more, whole, r, c, p)
  BY <1>8
<1> QED  BY <1>9 DEF more, whole

LEMMA FlatTyped == ASSUME NEW D, NEW parts \in Seq(Seq(D)) PROVE Flat(D, parts) \in Seq(D)
<1>1. <<>> \in Seq(D)
  OBVIOUS
<1> QED  BY <1>1, FlatIs

LEMMA FlatLaidOut ==
    ASSUME NEW D, NEW parts \in Seq(Seq(D))
    PROVE  \E row, col, place : LaidOut(parts, Flat(D, parts), row, col, place)
<1> DEFINE Spread(s) == \E row, col, place : LaidOut(s, Flat(D, s), row, col, place)
           T == {s \in Seq(Seq(D)) : Spread(s)}
<1>1. <<>> \in T
  <2>1. Flat(D, <<>>) = <<>> /\ DOMAIN <<>> = {}
    BY FlatIs
  <2>2. LaidOut(<<>>, Flat(D, <<>>), <<>>, <<>>, <<>>)
    BY <2>1 DEF LaidOut
  <2> QED  BY <2>2
<1>2. ASSUME NEW s \in Seq(Seq(D)), NEW x \in Seq(D), s \in T PROVE Append(s, x) \in T
  <2>1. PICK row, col, place : LaidOut(s, Flat(D, s), row, col, place)
    BY <1>2
  <2>2. Flat(D, s) \in Seq(D) /\ Flat(D, Append(s, x)) = Flat(D, s) \o x
    BY FlatIs
  <2>3. \E row1, col1, place1 : LaidOut(Append(s, x), Flat(D, s) \o x, row1, col1, place1)
    <3> DEFINE flat == Flat(D, s)
    <3>1. flat \in Seq(D) /\ LaidOut(s, flat, row, col, place)
      BY <2>1, <2>2
    <3> HIDE DEF flat
    <3>2. \E row1, col1, place1 : LaidOut(Append(s, x), flat \o x, row1, col1, place1)
      BY <3>1, LaidOutMore
    <3> QED  BY <3>2 DEF flat
  <2>4. Spread(Append(s, x))
    BY <2>2, <2>3
  <2> QED  BY <2>4
<1>3. parts \in T
  <2> HIDE DEF T
  <2> QED  BY <1>1, <1>2, SeqInduction
<1> QED  BY <1>3

LEMMA FlatMatched ==
    ASSUME NEW D, NEW s \in Seq(Seq(D)), NEW t \in Seq(Seq(D)), Matched(s, t)
    PROVE  Matched(Flat(D, s), Flat(D, t))
<1> DEFINE S == Flat(D, s)
           R == Flat(D, t)
<1>1. PICK f, g : Matching(s, t, f, g)
  BY DEF Matched
<1>2. /\ f \in [DOMAIN s -> DOMAIN t] /\ g \in [DOMAIN t -> DOMAIN s]
      /\ \A i \in DOMAIN s : g[f[i]] = i
      /\ \A j \in DOMAIN t : f[g[j]] = j
      /\ \A i \in DOMAIN s : t[f[i]] = s[i]
  BY <1>1 DEF Matching, Inverses
<1>3. \A j \in DOMAIN t : s[g[j]] = t[j]
  BY <1>2
<1>4. PICK rs, cs, ps : LaidOut(s, S, rs, cs, ps)
  BY FlatLaidOut
<1>5. PICK rt, ct, pt : LaidOut(t, R, rt, ct, pt)
  BY FlatLaidOut
<1> HIDE DEF S, R
<1> DEFINE F == [n \in DOMAIN S |-> pt[f[rs[n]]][cs[n]]]
           G == [n \in DOMAIN R |-> ps[g[rt[n]]][ct[n]]]
<1>6. /\ \A n \in DOMAIN S : /\ rs[n] \in DOMAIN s /\ cs[n] \in DOMAIN s[rs[n]]
                             /\ S[n] = s[rs[n]][cs[n]] /\ ps[rs[n]][cs[n]] = n
      /\ \A i \in DOMAIN s : \A k \in DOMAIN s[i] :
            ps[i][k] \in DOMAIN S /\ rs[ps[i][k]] = i /\ cs[ps[i][k]] = k
  BY <1>4 DEF LaidOut
<1>7. /\ \A n \in DOMAIN R : /\ rt[n] \in DOMAIN t /\ ct[n] \in DOMAIN t[rt[n]]
                             /\ R[n] = t[rt[n]][ct[n]] /\ pt[rt[n]][ct[n]] = n
      /\ \A i \in DOMAIN t : \A k \in DOMAIN t[i] :
            pt[i][k] \in DOMAIN R /\ rt[pt[i][k]] = i /\ ct[pt[i][k]] = k
  BY <1>5, SMTT(40) DEF LaidOut
<1>8. ASSUME NEW n \in DOMAIN S
      PROVE  F[n] \in DOMAIN R /\ G[F[n]] = n /\ R[F[n]] = S[n]
  <2>1. f[rs[n]] \in DOMAIN t /\ t[f[rs[n]]] = s[rs[n]] /\ g[f[rs[n]]] = rs[n]
    BY <1>2, <1>6
  <2>2. F[n] = pt[f[rs[n]]][cs[n]] /\ cs[n] \in DOMAIN t[f[rs[n]]]
    BY <1>6, <2>1
  <2>3. F[n] \in DOMAIN R /\ rt[F[n]] = f[rs[n]] /\ ct[F[n]] = cs[n]
    BY <1>7, <2>1, <2>2
  <2>4. R[F[n]] = S[n]
    <3> HIDE DEF F, G
    <3>1. R[F[n]] = t[rt[F[n]]][ct[F[n]]]
      BY <1>7, <2>3
    <3>2. S[n] = s[rs[n]][cs[n]]
      BY <1>6
    <3> QED  BY <2>1, <2>3, <3>1, <3>2
  <2>5. G[F[n]] = ps[g[rt[F[n]]]][ct[F[n]]]
    <3> HIDE DEF F
    <3> QED  BY <2>3, SMTT(40)
  <2>6. G[F[n]] = ps[rs[n]][cs[n]]
    BY <2>1, <2>3, <2>5, ZenonT(40)
  <2> QED  BY <1>6, <2>3, <2>4, <2>6
<1>9. ASSUME NEW n \in DOMAIN R
      PROVE  G[n] \in DOMAIN S /\ F[G[n]] = n
  <2>1. g[rt[n]] \in DOMAIN s /\ s[g[rt[n]]] = t[rt[n]] /\ f[g[rt[n]]] = rt[n]
    BY <1>2, <1>3, <1>7
  <2>2. G[n] = ps[g[rt[n]]][ct[n]] /\ ct[n] \in DOMAIN s[g[rt[n]]]
    BY <1>7, <2>1
  <2>3. G[n] \in DOMAIN S /\ rs[G[n]] = g[rt[n]] /\ cs[G[n]] = ct[n]
    BY <1>6, <2>1, <2>2
  <2>5. F[G[n]] = pt[f[rs[G[n]]]][cs[G[n]]]
    <3> HIDE DEF G
    <3> QED  BY <2>3
  <2>6. F[G[n]] = pt[rt[n]][ct[n]]
    BY <2>1, <2>3, <2>5
  <2> QED  BY <1>7, <2>3, <2>6
<1>10. F \in [DOMAIN S -> DOMAIN R]
  <2>1. F = [n \in DOMAIN S |-> F[n]]
    OBVIOUS
  <2> HIDE DEF F, G
  <2> QED  BY <1>8, <2>1
<1>11. G \in [DOMAIN R -> DOMAIN S]
  <2>1. G = [n \in DOMAIN R |-> G[n]]
    OBVIOUS
  <2> HIDE DEF F, G
  <2> QED  BY <1>9, <2>1
<1> HIDE DEF F, G
<1>12. Matching(S, R, F, G)
  BY <1>8, <1>9, <1>10, <1>11 DEF Matching, Inverses
<1> QED  BY <1>12 DEF Matched, S, R

LEMMA SortsAlike == ASSUME NEW C, NEW s \in Seq(C) PROVE SameSorted(s, s)
BY DEF SameSorted

\* Lists of words that sort alike have words that sort alike.
LEMMA LinesSortWords ==
    ASSUME NEW C, NEW p \in Seq(C), NEW j \in Seq(C), Sorted(p, j, "lines")
    PROVE  Sorted(p, j, "whitespace")
<1> DEFINE D == Seq(C)
           s == Each(Words, SplitLines(p))
           t == Each(Words, SplitLines(j))
<1>1. s \in Seq(Seq(D)) /\ t \in Seq(Seq(D)) /\ Flat(D, s) = Words(p) /\ Flat(D, t) = Words(j)
  BY WordsOfWhole
<1>2. SameSorted(s, t)
  BY DEF Sorted
<1>3. Words(p) \in Seq(D) /\ Words(j) \in Seq(D)
  BY WordsTyped
<1> HIDE DEF D, s, t
<1>4. Matched(s, t)
  <2> DEFINE E == Seq(D)
  <2>1. s \in Seq(E) /\ t \in Seq(E)
    BY <1>1
  <2> HIDE DEF E
  <2> QED  BY <1>2, <2>1, SortsMatched
<1>5. Matched(Flat(D, s), Flat(D, t))
  BY <1>1, <1>4, FlatMatched
<1>6. SameSorted(Words(p), Words(j))
  BY <1>1, <1>3, <1>5, MatchedSorts
<1> QED  BY <1>6 DEF Sorted

LEMMA WordsSortChars ==
    ASSUME NEW C, NEW p \in Seq(C), NEW j \in Seq(C), Sorted(p, j, "whitespace")
    PROVE  Easy(p, j)
<1> DEFINE D == Seq(C)
           s == Words(p)
           t == Words(j)
           small(c) == IF c \in DOMAIN Upper THEN Upper[c] ELSE c
           all(str) == [i \in DOMAIN Sifted(str, White) |-> small(Sifted(str, White)[i])]
           X == {small(c) : c \in C}
<1>1. s \in Seq(D) /\ t \in Seq(D)
  BY WordsTyped
<1>2. SameSorted(s, t)
  BY DEF Sorted
<1>3. Matched(s, t)
  <2> HIDE DEF D, s, t
  <2> QED  BY <1>1, <1>2, SortsMatched
<1>4. Flat(C, s) = Sifted(p, White) /\ Flat(C, t) = Sifted(j, White)
  BY CharsOfWords
<1>5. Matched(Sifted(p, White), Sifted(j, White))
  <2>1. s \in Seq(Seq(C)) /\ t \in Seq(Seq(C))
    BY <1>1
  <2> HIDE DEF s, t
  <2>2. Matched(Flat(C, s), Flat(C, t))
    BY <1>3, <2>1, FlatMatched
  <2> QED  BY <1>4, <2>2
<1>6. Sifted(p, White) \in Seq(C) /\ Sifted(j, White) \in Seq(C)
  <2>1. Flat(C, s) \in Seq(C)
    BY <1>1, FlatTyped
  <2>2. Flat(C, t) \in Seq(C)
    BY <1>1, FlatTyped
  <2> QED  BY <1>4, <2>1, <2>2
<1> HIDE DEF small
<1>7. all(p) \in Seq(X) /\ DOMAIN all(p) = DOMAIN Sifted(p, White)
  <2> DEFINE y == Sifted(p, White)
  <2>1. y \in Seq(C) /\ DOMAIN y = 1..Len(y) /\ Len(y) \in Nat
    BY <1>6, LenProperties
  <2>2. \A i \in 1..Len(y) : small(y[i]) \in X
    BY <2>1
  <2>3. all(p) = [i \in 1..Len(y) |-> small(y[i])]
    BY <2>1
  <2> HIDE DEF X, y
  <2>4. [i \in 1..Len(y) |-> small(y[i])] \in Seq(X)
    BY <2>1, <2>2
  <2> HIDE DEF all
  <2> QED  BY <2>1, <2>3, <2>4 DEF y
<1>8. all(j) \in Seq(X) /\ DOMAIN all(j) = DOMAIN Sifted(j, White)
  <2> DEFINE y == Sifted(j, White)
  <2>1. y \in Seq(C) /\ DOMAIN y = 1..Len(y) /\ Len(y) \in Nat
    BY <1>6, LenProperties
  <2>2. \A i \in 1..Len(y) : small(y[i]) \in X
    BY <2>1
  <2>3. all(j) = [i \in 1..Len(y) |-> small(y[i])]
    BY <2>1
  <2> HIDE DEF X, y
  <2>4. [i \in 1..Len(y) |-> small(y[i])] \in Seq(X)
    BY <2>1, <2>2
  <2> HIDE DEF all
  <2> QED  BY <2>1, <2>3, <2>4 DEF y
<1>9. PICK f, g : Matching(Sifted(p, White), Sifted(j, White), f, g)
  BY <1>5 DEF Matched
<1>10. Matching(all(p), all(j), f, g)
  BY <1>9 DEF Matching, Inverses
<1>11. Matched(all(p), all(j))
  <2> HIDE DEF all
  <2> QED  BY <1>10 DEF Matched
<1>12. SameSorted(all(p), all(j))
  <2> HIDE DEF all, X
  <2> QED  BY <1>7, <1>8, <1>11, MatchedSorts
<1> QED  BY <1>12 DEF Easy, Each, small

(***************************************************************************)
(* What the standard checker sees of an output: the characters that are    *)
(* not white, each with the gap before it, and the gap that is open.  The  *)
(* gap is that of skip_spaces: 2 with the end of a line in it, 1 with some *)
(* white, 0 with nothing.  An output begins like a line.                   *)
(***************************************************************************)
Mark(C) == (0..2) \X C

Marked(at, c) ==
    IF c \in Lines THEN <<at[1], 2>>
    ELSE IF c \in White THEN <<at[1], IF at[2] = 0 THEN 1 ELSE at[2]>>
    ELSE <<Append(at[1], <<at[2], c>>), 0>>

MarkState(C) == Seq(Mark(C)) \X (0..2)
MarkSteps(C) == [c \in C |-> [at \in MarkState(C) |-> Marked(at, c)]]

Marks(C, s) == Folded(MarkSteps(C), << <<>>, 2>>, s)[1]
OpenGap(C, s) == Folded(MarkSteps(C), << <<>>, 2>>, s)[2]

LEMMA MarkedTyped ==
    ASSUME NEW C
    PROVE  << <<>>, 2>> \in MarkState(C) /\ MarkSteps(C) \in [C -> [MarkState(C) -> MarkState(C)]]
<1> DEFINE D == Mark(C)
<1>1. << <<>>, 2>> \in MarkState(C)
  <2>1. <<>> \in Seq(D) /\ 2 \in 0..2
    OBVIOUS
  <2> HIDE DEF D
  <2>2. << <<>>, 2>> \in Seq(D) \X (0..2)
    BY <2>1
  <2> QED  BY <2>2 DEF MarkState, D
<1>2. ASSUME NEW d \in C, NEW y \in MarkState(C) PROVE Marked(y, d) \in MarkState(C)
  <2>1. y[1] \in Seq(D) /\ y[2] \in 0..2
    <3> HIDE DEF D
    <3>1. y \in Seq(D) \X (0..2)
      BY DEF MarkState, D
    <3> QED  BY <3>1
  <2> DEFINE e == <<y[2], d>>
             gap == IF y[2] = 0 THEN 1 ELSE y[2]
  <2>2. e \in D
    BY <2>1 DEF Mark
  <2>3. gap \in 0..2 /\ 2 \in 0..2 /\ 0 \in 0..2
    BY <2>1
  <2>4. Append(y[1], e) \in Seq(D)
    <3> HIDE DEF e, D
    <3> QED  BY <2>1, <2>2
  <2> HIDE DEF e, gap, D
  <2>5. /\ <<y[1], 2>> \in Seq(D) \X (0..2)
        /\ <<y[1], gap>> \in Seq(D) \X (0..2)
        /\ <<Append(y[1], e), 0>> \in Seq(D) \X (0..2)
    BY <2>1, <2>3, <2>4
  <2>6. /\ <<y[1], 2>> \in MarkState(C) /\ <<y[1], gap>> \in MarkState(C)
        /\ <<Append(y[1], e), 0>> \in MarkState(C)
    BY <2>5 DEF MarkState, D
  <2>7. CASE d \in Lines
    BY <2>6, <2>7 DEF Marked
  <2>8. CASE d \notin Lines /\ d \in White
    BY <2>6, <2>8 DEF Marked, gap
  <2>9. CASE d \notin Lines /\ d \notin White
    BY <2>6, <2>9 DEF Marked, e
  <2> QED  BY <2>7, <2>8, <2>9
<1> QED  BY <1>1, <1>2 DEF MarkSteps

LEMMA MarksStart == \A C : Marks(C, <<>>) = <<>> /\ OpenGap(C, <<>>) = 2
<1> SUFFICES ASSUME NEW C PROVE Marks(C, <<>>) = <<>> /\ OpenGap(C, <<>>) = 2
  OBVIOUS
<1> DEFINE base == << <<>>, 2>>
           steps == MarkSteps(C)
           X == MarkState(C)
<1>1. base \in X /\ steps \in [C -> [X -> X]]
  BY MarkedTyped
<1> HIDE DEF base, steps, X
<1>3. Folded(steps, base, <<>>) = base
  BY <1>1, FoldedEmpty
<1> QED  BY <1>3 DEF Marks, OpenGap, base, steps

LEMMA MarksMore ==
    ASSUME NEW C, NEW s \in Seq(C), NEW c \in C
    PROVE  /\ Marks(C, s) \in Seq(Mark(C)) /\ OpenGap(C, s) \in 0..2
           /\ c \in Lines => Marks(C, Append(s, c)) = Marks(C, s) /\ OpenGap(C, Append(s, c)) = 2
           /\ c \in White \ Lines => /\ Marks(C, Append(s, c)) = Marks(C, s)
                                     /\ OpenGap(C, Append(s, c)) = IF OpenGap(C, s) = 0 THEN 1 ELSE OpenGap(C, s)
           /\ c \notin White => /\ Marks(C, Append(s, c)) = Append(Marks(C, s), <<OpenGap(C, s), c>>)
                                /\ OpenGap(C, Append(s, c)) = 0
<1> DEFINE base == << <<>>, 2>>
           steps == MarkSteps(C)
           X == MarkState(C)
           at == Folded(steps, base, s)
           after == Folded(steps, base, Append(s, c))
<1>1. base \in X /\ steps \in [C -> [X -> X]]
  BY MarkedTyped
<1>3. at \in X /\ after = steps[c][at]
  <2> HIDE DEF base, steps, X
  <2>1. at \in X
    BY <1>1, FoldedAppend
  <2>2. after = steps[c][at]
    BY <1>1, FoldedAppend
  <2> QED  BY <2>1, <2>2
<1>4. after = Marked(at, c)
  BY <1>3 DEF MarkSteps
<1>5. Marks(C, s) = at[1] /\ OpenGap(C, s) = at[2] /\ Marks(C, Append(s, c)) = after[1] /\ OpenGap(C, Append(s, c)) = after[2]
  BY DEF Marks, OpenGap
<1> HIDE DEF at, after
<1>6. at[1] \in Seq(Mark(C)) /\ at[2] \in 0..2
  BY <1>3 DEF MarkState
<1>7. Lines \subseteq White
  BY DEF White
<1>8. c \in Lines => after[1] = at[1] /\ after[2] = 2
  BY <1>4 DEF Marked
<1>9. c \in White \ Lines => after[1] = at[1] /\ after[2] = IF at[2] = 0 THEN 1 ELSE at[2]
  BY <1>4 DEF Marked
<1>10. c \notin White => after[1] = Append(at[1], <<at[2], c>>) /\ after[2] = 0
  BY <1>4, <1>7 DEF Marked
<1> QED  BY <1>5, <1>6, <1>8, <1>9, <1>10

MarksAt(C, x, n) == Marks(C, SubSeq(x, 1, n))
OpenAt(C, x, n) == OpenGap(C, SubSeq(x, 1, n))

LEMMA MarksStep ==
    ASSUME NEW C, NEW x \in Seq(C), NEW n \in 0..(Len(x) - 1)
    PROVE  /\ x[n + 1] \in C
           /\ x[n + 1] \in Lines => MarksAt(C, x, n + 1) = MarksAt(C, x, n) /\ OpenAt(C, x, n + 1) = 2
           /\ x[n + 1] \in White \ Lines =>
                 /\ MarksAt(C, x, n + 1) = MarksAt(C, x, n)
                 /\ OpenAt(C, x, n + 1) = IF OpenAt(C, x, n) = 0 THEN 1 ELSE OpenAt(C, x, n)
           /\ x[n + 1] \notin White =>
                 /\ MarksAt(C, x, n + 1) = Append(MarksAt(C, x, n), <<OpenAt(C, x, n), x[n + 1]>>)
                 /\ OpenAt(C, x, n + 1) = 0
<1> DEFINE s == SubSeq(x, 1, n)
           c == x[n + 1]
           t == SubSeq(x, 1, n + 1)
<1>1. s \in Seq(C) /\ c \in C /\ t = Append(s, c)
  BY OneMore
<1> HIDE DEF s, c, t
<1>2. /\ c \in Lines => Marks(C, t) = Marks(C, s) /\ OpenGap(C, t) = 2
      /\ c \in White \ Lines => /\ Marks(C, t) = Marks(C, s)
                                /\ OpenGap(C, t) = IF OpenGap(C, s) = 0 THEN 1 ELSE OpenGap(C, s)
      /\ c \notin White => /\ Marks(C, t) = Append(Marks(C, s), <<OpenGap(C, s), c>>)
                           /\ OpenGap(C, t) = 0
  BY <1>1, MarksMore
<1> QED  BY <1>1, <1>2 DEF MarksAt, OpenAt, s, c, t

LEMMA MarksTyped ==
    ASSUME NEW C, NEW x \in Seq(C), NEW n \in 0..Len(x)
    PROVE  MarksAt(C, x, n) \in Seq(Mark(C)) /\ OpenAt(C, x, n) \in 0..2
<1>1. SubSeq(x, 1, n) \in Seq(C)
  <2>1. Len(x) \in Nat /\ \A i \in 1..n : x[i] \in C
    BY LenProperties, ElementOfSeq
  <2> QED  BY <2>1, SubSeqProperties
<1> DEFINE s == SubSeq(x, 1, n)
<1> HIDE DEF s
<1>2. s \in Seq(C)
  BY <1>1 DEF s
<1>3. Marks(C, s) \in Seq(Mark(C)) /\ OpenGap(C, s) \in 0..2
  <2>1. CASE s = <<>>
    <3>1. Marks(C, s) = <<>> /\ OpenGap(C, s) = 2
      BY <2>1, MarksStart
    <3> QED  BY <3>1, EmptySeq
  <2>2. CASE s # <<>>
    <3>1. s[1] \in C
      BY <1>2, <2>2, EmptySeq, ElementOfSeq
    <3> QED  BY <1>2, <3>1, MarksMore
  <2> QED  BY <2>1, <2>2
<1> QED  BY <1>3 DEF MarksAt, OpenAt, s

LEMMA MarksEnds ==
    ASSUME NEW C, NEW x \in Seq(C)
    PROVE  /\ MarksAt(C, x, 0) = <<>> /\ OpenAt(C, x, 0) = 2
           /\ MarksAt(C, x, Len(x)) = Marks(C, x) /\ OpenAt(C, x, Len(x)) = OpenGap(C, x)
<1>1. SubSeq(x, 1, 0) = <<>> /\ SubSeq(x, 1, Len(x)) = x
  BY SubSeqEmpty, SubSeqFull
<1> QED  BY <1>1, MarksStart DEF MarksAt, OpenAt

\* The marks of a beginning are the first.
LEMMA MarksKept ==
    ASSUME NEW C, NEW x \in Seq(C), NEW m \in 0..Len(x), NEW n \in m..Len(x)
    PROVE  /\ Len(MarksAt(C, x, m)) <= Len(MarksAt(C, x, n))
           /\ \A i \in 1..Len(MarksAt(C, x, m)) : MarksAt(C, x, n)[i] = MarksAt(C, x, m)[i]
<1> DEFINE Kept(k) == /\ Len(MarksAt(C, x, m)) <= Len(MarksAt(C, x, k))
                      /\ \A i \in 1..Len(MarksAt(C, x, m)) : MarksAt(C, x, k)[i] = MarksAt(C, x, m)[i]
           T == {d \in Nat : m + d <= Len(x) => Kept(m + d)}
<1>1. Len(x) \in Nat
  BY LenProperties
<1>2. 0 \in T
  <2>1. Len(MarksAt(C, x, m)) \in Nat
    BY MarksTyped, LenProperties
  <2> QED  BY <2>1
<1>3. ASSUME NEW d \in Nat, d \in T PROVE d + 1 \in T
  <2> SUFFICES ASSUME m + (d + 1) <= Len(x) PROVE Kept(m + (d + 1))
    OBVIOUS
  <2> DEFINE k == m + d
             a == MarksAt(C, x, m)
             b == MarksAt(C, x, k)
             c == MarksAt(C, x, k + 1)
             e == <<OpenAt(C, x, k), x[k + 1]>>
  <2>1. k \in 0..(Len(x) - 1) /\ m + (d + 1) = k + 1 /\ k \in 0..Len(x)
    BY <1>1
  <2>2. Len(a) <= Len(b) /\ \A i \in 1..Len(a) : b[i] = a[i]
    BY <1>1, <1>3, <2>1
  <2> HIDE DEF k
  <2>3. c = b \/ c = Append(b, e)
    BY <2>1, MarksStep
  <2>4. a \in Seq(Mark(C)) /\ b \in Seq(Mark(C)) /\ Len(a) \in Nat /\ Len(b) \in Nat
    BY <2>1, MarksTyped, LenProperties
  <2>5. e \in Mark(C)
    <3>1. OpenAt(C, x, k) \in 0..2 /\ x[k + 1] \in C
      BY <2>1, MarksTyped, MarksStep
    <3> QED  BY <3>1 DEF Mark
  <2> HIDE DEF a, b, c, e
  <2>6. Len(a) <= Len(c) /\ \A i \in 1..Len(a) : c[i] = a[i]
    <3>1. CASE c = b
      BY <2>2, <3>1
    <3>2. CASE c = Append(b, e)
      <4>1. Len(c) = Len(b) + 1 /\ \A i \in 1..Len(b) : c[i] = b[i]
        BY <2>4, <2>5, <3>2, AppendProperties
      <4> QED  BY <2>2, <2>4, <4>1
    <3> QED  BY <2>3, <3>1, <3>2
  <2> QED  BY <2>1, <2>6 DEF a, c
<1>4. Nat \subseteq T
  <2> HIDE DEF T
  <2> QED  BY <1>2, <1>3, NatUpto
<1>5. n - m \in Nat /\ m + (n - m) = n /\ n <= Len(x)
  BY <1>1
<1>6. Kept(n)
  <2> HIDE DEF Kept
  <2> QED  BY <1>4, <1>5
<1> QED  BY <1>6

\* The positions that skip_spaces and the end of a word find.
LEMMA NextWhere ==
    ASSUME NEW k \in Nat, NEW W, NEW x, NEW q \in 1..(k + 1)
    PROVE  \E s \in q..(k + 1) : (s <= k => x[s] \in W) /\ \A i \in q..(s - 1) : x[i] \notin W
<1> DEFINE T == {s \in q..(k + 1) : s <= k => x[s] \in W}
<1>1. T \subseteq Nat /\ k + 1 \in T
  OBVIOUS
<1>2. PICK s \in T : \A r \in T : s <= r
  <2> HIDE DEF T
  <2> QED  BY <1>1, SmallestOf
<1>3. ASSUME NEW i \in q..(s - 1), x[i] \in W PROVE FALSE
  <2>1. s \in q..(k + 1)
    BY <1>2
  <2>2. i \in T
    BY <1>3, <2>1
  <2>3. s <= i
    BY <1>2, <2>2
  <2> QED  BY <2>1, <2>3
<1> QED  BY <1>2, <1>3

LEMMA SkipIs ==
    ASSUME NEW C, NEW x \in Seq(C), NEW q \in 1..(Len(x) + 1)
    PROVE  /\ Skip(x, q) \in q..(Len(x) + 1)
           /\ Skip(x, q) <= Len(x) => x[Skip(x, q)] \notin White
           /\ \A i \in q..(Skip(x, q) - 1) : x[i] \in White
<1> DEFINE Stops(s) == (s <= Len(x) => x[s] \notin White) /\ \A i \in q..(s - 1) : x[i] \in White
           Other == {x[i] : i \in 1..Len(x)} \ White
<1>1. Len(x) \in Nat
  BY LenProperties
<1>2. \E s \in q..(Len(x) + 1) : (s <= Len(x) => x[s] \in Other) /\ \A i \in q..(s - 1) : x[i] \notin Other
  <2> HIDE DEF Other
  <2> QED  BY <1>1, NextWhere
<1>3. \E s \in q..(Len(x) + 1) : Stops(s)
  <2>1. PICK s \in q..(Len(x) + 1) : (s <= Len(x) => x[s] \in Other) /\ \A i \in q..(s - 1) : x[i] \notin Other
    BY <1>2
  <2>2. s <= Len(x) => x[s] \notin White
    BY <2>1
  <2>3. \A i \in q..(s - 1) : x[i] \in White
    BY <1>1, <2>1
  <2> QED  BY <2>2, <2>3
<1>4. Skip(x, q) \in q..(Len(x) + 1) /\ Stops(Skip(x, q))
  BY <1>3 DEF Skip
<1> QED  BY <1>4

LEMMA WordEndIs ==
    ASSUME NEW C, NEW x \in Seq(C), NEW q \in 1..(Len(x) + 1)
    PROVE  /\ WordEnd(x, q) \in q..(Len(x) + 1)
           /\ WordEnd(x, q) <= Len(x) => x[WordEnd(x, q)] \in White
           /\ \A i \in q..(WordEnd(x, q) - 1) : x[i] \notin White
<1> DEFINE Stops(s) == (s <= Len(x) => x[s] \in White) /\ \A i \in q..(s - 1) : x[i] \notin White
<1>1. Len(x) \in Nat
  BY LenProperties
<1>2. \E s \in q..(Len(x) + 1) : Stops(s)
  <2> DEFINE W == White
  <2> HIDE DEF W
  <2>1. \E s \in q..(Len(x) + 1) : (s <= Len(x) => x[s] \in W) /\ \A i \in q..(s - 1) : x[i] \notin W
    BY <1>1, NextWhere
  <2> QED  BY <2>1 DEF W
<1>3. WordEnd(x, q) \in q..(Len(x) + 1) /\ Stops(WordEnd(x, q))
  BY <1>2 DEF WordEnd
<1> QED  BY <1>3

Later(g, h) == IF h > g THEN h ELSE g

LEMMA GapIs ==
    ASSUME NEW C, NEW x \in Seq(C), NEW q \in 1..(Len(x) + 1)
    PROVE  /\ Gap(x, q) \in 0..2
           /\ Gap(x, q) = 0 => Skip(x, q) = q
           /\ Skip(x, q) = q => Gap(x, q) = 0
<1>1. Skip(x, q) \in q..(Len(x) + 1) /\ Len(x) \in Nat
  BY SkipIs, LenProperties
<1>2. Skip(x, q) = q => ~ \E i \in q..(Skip(x, q) - 1) : x[i] \in Lines
  BY <1>1
<1> QED  BY <1>1, <1>2 DEF Gap

LEMMA MarksWhite ==
    ASSUME NEW C, NEW x \in Seq(C), NEW q \in 1..(Len(x) + 1)
    PROVE  /\ MarksAt(C, x, Skip(x, q) - 1) = MarksAt(C, x, q - 1)
           /\ OpenAt(C, x, Skip(x, q) - 1) = Later(OpenAt(C, x, q - 1), Gap(x, q))
<1> DEFINE s == Skip(x, q)
           g == OpenAt(C, x, q - 1)
           Line(m) == \E i \in q..m : x[i] \in Lines
           Crossed(m) == IF Line(m) THEN 2 ELSE IF m = q - 1 THEN 0 ELSE 1
           Holds(m) == MarksAt(C, x, m) = MarksAt(C, x, q - 1) /\ OpenAt(C, x, m) = Later(g, Crossed(m))
           T == {d \in Nat : (q - 1) + d <= s - 1 => Holds((q - 1) + d)}
<1>1. Len(x) \in Nat /\ s \in q..(Len(x) + 1) /\ \A i \in q..(s - 1) : x[i] \in White
  BY SkipIs, LenProperties
<1>2. q - 1 \in 0..Len(x) /\ g \in 0..2
  <2>1. q - 1 \in 0..Len(x)
    BY <1>1
  <2> QED  BY <2>1, MarksTyped
<1>3. Gap(x, q) = Crossed(s - 1)
  <2>1. s = q <=> s - 1 = q - 1
    BY <1>1
  <2> QED  BY <2>1 DEF Gap
<1> HIDE DEF s
<1>4. 0 \in T
  <2>1. (q - 1) + 0 = q - 1 /\ ~ Line(q - 1)
    BY <1>1
  <2>2. Later(g, Crossed(q - 1)) = g
    BY <1>2, <2>1 DEF Later
  <2>3. Holds(q - 1)
    BY <2>2
  <2> HIDE DEF Holds
  <2> QED  BY <2>1, <2>3
<1>5. ASSUME NEW d \in Nat, d \in T PROVE d + 1 \in T
  <2> DEFINE m == (q - 1) + d
  <2> SUFFICES ASSUME m + 1 <= s - 1 PROVE Holds(m + 1)
    <3>1. (q - 1) + (d + 1) = m + 1
      OBVIOUS
    <3> HIDE DEF Holds
    <3> QED  BY <3>1
  <2>1. m \in (q - 1)..(s - 2) /\ m \in 0..(Len(x) - 1) /\ m + 1 \in q..(s - 1) /\ m + 1 # q - 1 /\ m \in Int
    BY <1>1
  <2>2. Holds(m)
    <3>1. m <= s - 1
      BY <1>1, <2>1
    <3> HIDE DEF Holds
    <3> QED  BY <1>5, <3>1
  <2> HIDE DEF m
  <2>3. x[m + 1] \in White
    BY <1>1, <2>1
  <2>4. Line(m + 1) <=> Line(m) \/ x[m + 1] \in Lines
    BY <2>1
  <2>5. CASE x[m + 1] \in Lines
    <3>1. MarksAt(C, x, m + 1) = MarksAt(C, x, m) /\ OpenAt(C, x, m + 1) = 2
      BY <2>1, <2>5, MarksStep
    <3>2. Crossed(m + 1) = 2
      BY <2>4, <2>5
    <3>3. Later(g, 2) = 2
      BY <1>2 DEF Later
    <3> HIDE DEF Crossed, g
    <3> QED  BY <2>2, <3>1, <3>2, <3>3
  <2>6. CASE x[m + 1] \notin Lines
    <3>1. /\ MarksAt(C, x, m + 1) = MarksAt(C, x, m)
          /\ OpenAt(C, x, m + 1) = IF OpenAt(C, x, m) = 0 THEN 1 ELSE OpenAt(C, x, m)
      BY <2>1, <2>3, <2>6, MarksStep
    <3>2. Line(m + 1) <=> Line(m)
      BY <2>4, <2>6
    <3>3. Crossed(m + 1) = IF Line(m) THEN 2 ELSE 1
      BY <2>1, <3>2
    <3>4. OpenAt(C, x, m) = Later(g, Crossed(m)) /\ MarksAt(C, x, m) = MarksAt(C, x, q - 1)
      BY <2>2
    <3>5. Later(g, Crossed(m + 1)) = IF Later(g, Crossed(m)) = 0 THEN 1 ELSE Later(g, Crossed(m))
      <4>1. Crossed(m) = IF Line(m) THEN 2 ELSE IF m = q - 1 THEN 0 ELSE 1
        OBVIOUS
      <4> HIDE DEF Line, Crossed, g
      <4> QED  BY <1>2, <3>3, <4>1 DEF Later
    <3> HIDE DEF Crossed, g
    <3> QED  BY <3>1, <3>4, <3>5
  <2> QED  BY <2>5, <2>6
<1>6. Nat \subseteq T
  <2> HIDE DEF T
  <2> QED  BY <1>4, <1>5, NatUpto
<1>7. Holds(s - 1)
  <2>1. s - q \in Nat /\ (q - 1) + (s - q) = s - 1
    BY <1>1
  <2> HIDE DEF Holds
  <2>2. s - q \in T
    BY <1>6, <2>1
  <2> QED  BY <2>1, <2>2
<1> QED  BY <1>3, <1>7 DEF s

\* The next mark after a position, if there is one.
LEMMA NextMark ==
    ASSUME NEW C, NEW x \in Seq(C), NEW q \in 1..(Len(x) + 1),
           NEW s, s = Skip(x, q), NEW k, k = MarksAt(C, x, q - 1),
           NEW e, e = <<Later(OpenAt(C, x, q - 1), Gap(x, q)), x[s]>>
    PROVE  /\ s > Len(x) => Marks(C, x) = k
           /\ s <= Len(x) => /\ MarksAt(C, x, s) = Append(k, e) /\ OpenAt(C, x, s) = 0
                             /\ Len(k) + 1 <= Len(Marks(C, x)) /\ Marks(C, x)[Len(k) + 1] = e
<1>1. Len(x) \in Nat /\ s \in q..(Len(x) + 1)
  BY SkipIs, LenProperties
<1>2. MarksAt(C, x, s - 1) = k /\ OpenAt(C, x, s - 1) = e[1]
  BY MarksWhite
<1>3. ASSUME s > Len(x) PROVE Marks(C, x) = k
  <2>1. s - 1 = Len(x)
    BY <1>1, <1>3
  <2> QED  BY <1>2, <2>1, MarksEnds
<1>4. ASSUME s <= Len(x)
      PROVE  /\ MarksAt(C, x, s) = Append(k, e) /\ OpenAt(C, x, s) = 0
             /\ Len(k) + 1 <= Len(Marks(C, x)) /\ Marks(C, x)[Len(k) + 1] = e
  <2>1. s - 1 \in 0..(Len(x) - 1) /\ (s - 1) + 1 = s /\ s - 1 \in 0..Len(x) /\ s \in 0..Len(x)
    BY <1>1, <1>4
  <2>2. x[s] \notin White
    BY <1>4, SkipIs
  <2>3. /\ MarksAt(C, x, s) = Append(MarksAt(C, x, s - 1), <<OpenAt(C, x, s - 1), x[s]>>)
        /\ OpenAt(C, x, s) = 0
    BY <2>1, <2>2, MarksStep, SMTT(40)
  <2>4. MarksAt(C, x, s) = Append(k, e)
    BY <1>2, <2>3
  <2>5. k \in Seq(Mark(C)) /\ e \in Mark(C)
    <3>1. MarksAt(C, x, s - 1) \in Seq(Mark(C)) /\ OpenAt(C, x, s - 1) \in 0..2 /\ x[s] \in C
      BY <2>1, MarksTyped, ElementOfSeq, <1>1, <1>4
    <3> QED  BY <1>2, <3>1 DEF Mark
  <2>6. /\ Len(MarksAt(C, x, s)) <= Len(MarksAt(C, x, Len(x)))
        /\ \A i \in 1..Len(MarksAt(C, x, s)) : MarksAt(C, x, Len(x))[i] = MarksAt(C, x, s)[i]
    <3>1. Len(x) \in s..Len(x)
      BY <1>1, <1>4
    <3> QED  BY <2>1, <3>1, MarksKept
  <2>7. Len(Append(k, e)) = Len(k) + 1 /\ Append(k, e)[Len(k) + 1] = e /\ Len(k) \in Nat
    BY <2>5, AppendProperties, LenProperties
  <2>8. MarksAt(C, x, Len(x)) = Marks(C, x)
    BY MarksEnds
  <2>9. Len(k) + 1 <= Len(Marks(C, x)) /\ Marks(C, x)[Len(k) + 1] = e
    BY <2>4, <2>6, <2>7, <2>8
  <2> QED  BY <2>3, <2>4, <2>9
<1> QED  BY <1>3, <1>4

(***************************************************************************)
(* The loop of the standard checker, turn by turn.                         *)
(***************************************************************************)
\* One character more of a word, on both sides.
LEMMA CharMore ==
    ASSUME NEW C, NEW J \in Seq(C), NEW P \in Seq(C), NEW j \in 1..(Len(J) - 1), NEW p \in 1..(Len(P) - 1),
           MarksAt(C, J, j) = MarksAt(C, P, p), OpenAt(C, J, j) = 0, OpenAt(C, P, p) = 0,
           J[j + 1] \notin White, J[j + 1] = P[p + 1]
    PROVE  /\ MarksAt(C, J, j + 1) = MarksAt(C, P, p + 1)
           /\ OpenAt(C, J, j + 1) = 0 /\ OpenAt(C, P, p + 1) = 0
<1>1. j \in 0..(Len(J) - 1) /\ p \in 0..(Len(P) - 1)
  OBVIOUS
<1>2. /\ MarksAt(C, J, j + 1) = Append(MarksAt(C, J, j), <<OpenAt(C, J, j), J[j + 1]>>)
      /\ OpenAt(C, J, j + 1) = 0
  BY <1>1, MarksStep
<1>3. P[p + 1] \notin White
  OBVIOUS
<1>4. /\ MarksAt(C, P, p + 1) = Append(MarksAt(C, P, p), <<OpenAt(C, P, p), P[p + 1]>>)
      /\ OpenAt(C, P, p + 1) = 0
  BY <1>1, <1>3, MarksStep
<1> QED  BY <1>2, <1>4

InWord(C, J, P, j, p, i) ==
    /\ p + i <= Len(P) /\ J[j + i] = P[p + i]
    /\ MarksAt(C, J, j + i) = MarksAt(C, P, p + i)
    /\ OpenAt(C, J, j + i) = 0 /\ OpenAt(C, P, p + i) = 0

LEMMA WordCompared ==
    ASSUME NEW C, NEW J \in Seq(C), NEW P \in Seq(C), NEW j \in 1..Len(J), NEW p \in 1..Len(P),
           InWord(C, J, P, j, p, 0), NEW size \in Nat, j + size - 1 <= Len(J),
           \A i \in 0..(size - 1) : J[j + i] \notin White,
           \/ Marks(C, J) = Marks(C, P)
           \/ p + size - 1 <= Len(P) /\ \A i \in 0..(size - 1) : J[j + i] = P[p + i]
    PROVE  \A i \in 0..(size - 1) : InWord(C, J, P, j, p, i)
<1> DEFINE T == {i \in Nat : i <= size - 1 => InWord(C, J, P, j, p, i)}
<1>1. Len(J) \in Nat /\ Len(P) \in Nat
  BY LenProperties
<1>2. 0 \in T
  OBVIOUS
<1>3. ASSUME NEW i \in Nat, i \in T PROVE i + 1 \in T
  <2> SUFFICES ASSUME i + 1 <= size - 1 PROVE InWord(C, J, P, j, p, i + 1)
    OBVIOUS
  <2> DEFINE a == j + i
             b == p + i
  <2>1. InWord(C, J, P, j, p, i)
    BY <1>3
  <2>2. /\ b <= Len(P) /\ MarksAt(C, J, a) = MarksAt(C, P, b)
        /\ OpenAt(C, J, a) = 0 /\ OpenAt(C, P, b) = 0
    BY <2>1 DEF InWord
  <2>3. a \in 1..(Len(J) - 1) /\ b \in 1..Len(P) /\ j + (i + 1) = a + 1 /\ p + (i + 1) = b + 1
    BY <1>1, <2>2
  <2>4. J[a + 1] \notin White
    BY <2>3
  <2>5. b + 1 <= Len(P) /\ J[a + 1] = P[b + 1]
    <3>1. CASE p + size - 1 <= Len(P) /\ \A l \in 0..(size - 1) : J[j + l] = P[p + l]
      <4>1. i + 1 \in 0..(size - 1) /\ b + 1 <= Len(P)
        BY <1>1, <3>1
      <4>2. J[j + (i + 1)] = P[p + (i + 1)]
        BY <3>1, <4>1
      <4> HIDE DEF a, b
      <4>3. J[a + 1] = P[b + 1]
        BY <2>3, <4>2, Zenon
      <4> QED  BY <4>1, <4>3
    <3>2. CASE Marks(C, J) = Marks(C, P)
      <4> DEFINE k == MarksAt(C, J, a)
                 q == b + 1
                 s == Skip(P, q)
                 r == Skip(J, a + 1)
                 d == <<Later(OpenAt(C, J, a), Gap(J, a + 1)), J[r]>>
                 e == <<Later(OpenAt(C, P, b), Gap(P, q)), P[s]>>
      <4>1. q \in 1..(Len(P) + 1) /\ q - 1 = b /\ a + 1 \in 1..(Len(J) + 1) /\ (a + 1) - 1 = a
        BY <1>1, <2>3
      <4> HIDE DEF a, b
      <4>2. r = a + 1
        <5>1. r \in (a + 1)..(Len(J) + 1) /\ \A l \in (a + 1)..(r - 1) : J[l] \in White
          BY <4>1, SkipIs
        <5> HIDE DEF r
        <5>2. ASSUME r # a + 1 PROVE FALSE
          <6>1. a + 1 \in (a + 1)..(r - 1)
            BY <2>3, <5>1, <5>2
          <6> QED  BY <2>4, <5>1, <6>1
        <5> QED  BY <5>2
      <4>3. Gap(J, a + 1) = 0
        BY <4>1, <4>2, GapIs
      <4>4. Later(OpenAt(C, J, a), Gap(J, a + 1)) = 0
        BY <2>2, <4>3 DEF Later
      <4>5. d = <<0, J[a + 1]>>
        BY <4>2, <4>4
      <4>6. r <= Len(J)
        BY <1>1, <2>3, <4>2
      <4>7. Len(k) + 1 <= Len(Marks(C, J)) /\ Marks(C, J)[Len(k) + 1] = d
        <5>1. k = MarksAt(C, J, (a + 1) - 1) /\ d = <<Later(OpenAt(C, J, (a + 1) - 1), Gap(J, a + 1)), J[r]>>
          BY <4>1
        <5> HIDE DEF k, d
        <5>2. r = Skip(J, a + 1)
          OBVIOUS
        <5> HIDE DEF r
        <5> QED  BY <4>1, <4>6, <5>1, <5>2, NextMark, SMTT(40)
      <4>8. /\ s > Len(P) => Marks(C, P) = k
            /\ s <= Len(P) => Marks(C, P)[Len(k) + 1] = e
        <5>1. k = MarksAt(C, P, q - 1) /\ e = <<Later(OpenAt(C, P, q - 1), Gap(P, q)), P[s]>> /\ s = Skip(P, q)
          BY <2>2, <4>1
        <5> HIDE DEF k, e, s, q
        <5> QED  BY <4>1, <5>1, NextMark, SMTT(40)
      <4>9. Len(k) \in Nat
        <5>1. a \in 0..Len(J)
          BY <1>1, <2>3
        <5> QED  BY <5>1, MarksTyped, LenProperties
      <4> HIDE DEF k
      <4>10. s <= Len(P) /\ e = d
        <5>1. s \in Int /\ Len(P) \in Int
          BY <1>1, <4>1, SkipIs
        <5>2. ~ (s > Len(P))
          <6> HIDE DEF s, d
          <6> QED  BY <3>2, <4>7, <4>8, <4>9
        <5> HIDE DEF s, d, e
        <5> QED  BY <3>2, <4>7, <4>8, <5>1, <5>2
      <4>11. Later(OpenAt(C, P, b), Gap(P, q)) = 0 /\ P[s] = J[a + 1]
        BY <4>5, <4>10
      <4>12. Gap(P, q) = 0
        <5>1. Gap(P, q) \in 0..2
          BY <4>1, GapIs
        <5> QED  BY <2>2, <4>11, <5>1 DEF Later
      <4>13. s = q
        BY <4>1, <4>12, GapIs
      <4> QED  BY <4>10, <4>11, <4>13
    <3> QED  BY <3>1, <3>2
  <2>6. b \in 1..(Len(P) - 1)
    BY <1>1, <2>3, <2>5
  <2> HIDE DEF a, b
  <2>7. /\ MarksAt(C, J, a + 1) = MarksAt(C, P, b + 1)
        /\ OpenAt(C, J, a + 1) = 0 /\ OpenAt(C, P, b + 1) = 0
    BY <2>2, <2>3, <2>4, <2>5, <2>6, CharMore
  <2> QED  BY <2>3, <2>5, <2>7 DEF InWord
<1>4. Nat \subseteq T
  <2> HIDE DEF T
  <2> QED  BY <1>2, <1>3, NatUpto
<1> QED  BY <1>4

\* Two positions after words that compared the same.
Abreast(C, J, P, a, b) ==
    /\ a \in 1..(Len(J) + 1) /\ b \in 1..(Len(P) + 1)
    /\ MarksAt(C, J, a - 1) = MarksAt(C, P, b - 1)
    /\ OpenAt(C, J, a - 1) = OpenAt(C, P, b - 1)
    /\ OpenAt(C, J, a - 1) # 0 => Skip(J, a) = a /\ Skip(P, b) = b

SameWord(J, P, a, b, j, p, size) ==
    /\ Gap(J, a) = Gap(P, b)
    /\ p + size - 1 <= Len(P)
    /\ \A i \in 0..(size - 1) : J[j + i] = P[p + i]

LEMMA EndsCompared ==
    ASSUME NEW C, NEW J \in Seq(C), NEW P \in Seq(C), NEW a, NEW b, Abreast(C, J, P, a, b)
    PROVE  /\ Skip(J, a) > Len(J) /\ Skip(P, b) > Len(P) => Marks(C, J) = Marks(C, P)
           /\ Skip(J, a) > Len(J) /\ Skip(P, b) <= Len(P) => Marks(C, J) # Marks(C, P)
           /\ Skip(J, a) <= Len(J) /\ Skip(P, b) > Len(P) => Marks(C, J) # Marks(C, P)
<1> DEFINE j == Skip(J, a)
           p == Skip(P, b)
           k == MarksAt(C, J, a - 1)
           d == <<Later(OpenAt(C, J, a - 1), Gap(J, a)), J[j]>>
           e == <<Later(OpenAt(C, P, b - 1), Gap(P, b)), P[p]>>
<1>1. a \in 1..(Len(J) + 1) /\ b \in 1..(Len(P) + 1) /\ k = MarksAt(C, P, b - 1)
  BY DEF Abreast
<1>2. Len(k) \in Nat
  <2>1. a - 1 \in 0..Len(J)
    BY <1>1
  <2> QED  BY <2>1, MarksTyped, LenProperties
<1> HIDE DEF j, p, k, d, e
<1>3. /\ j > Len(J) => Marks(C, J) = k
      /\ j <= Len(J) => Len(k) + 1 <= Len(Marks(C, J))
  <2>1. j = Skip(J, a) /\ k = MarksAt(C, J, a - 1) /\ d = <<Later(OpenAt(C, J, a - 1), Gap(J, a)), J[j]>>
    BY DEF j, k, d
  <2> QED  BY <1>1, <2>1, NextMark
<1>4. /\ p > Len(P) => Marks(C, P) = k
      /\ p <= Len(P) => Len(k) + 1 <= Len(Marks(C, P))
  <2>1. p = Skip(P, b) /\ k = MarksAt(C, P, b - 1) /\ e = <<Later(OpenAt(C, P, b - 1), Gap(P, b)), P[p]>>
    BY <1>1 DEF p, e
  <2> QED  BY <1>1, <2>1, NextMark
<1>5. /\ j > Len(J) /\ p > Len(P) => Marks(C, J) = Marks(C, P)
      /\ j > Len(J) /\ p <= Len(P) => Marks(C, J) # Marks(C, P)
      /\ j <= Len(J) /\ p > Len(P) => Marks(C, J) # Marks(C, P)
  BY <1>2, <1>3, <1>4
<1> QED  BY <1>5 DEF j, p

LEMMA WordBegins ==
    ASSUME NEW C, NEW J \in Seq(C), NEW P \in Seq(C), NEW a, NEW b, Abreast(C, J, P, a, b),
           NEW j, j = Skip(J, a), j <= Len(J), NEW p, p = Skip(P, b), p <= Len(P)
    PROVE  /\ j \in 1..Len(J) /\ p \in 1..Len(P)
           /\ Gap(J, a) = Gap(P, b) /\ J[j] = P[p] => InWord(C, J, P, j, p, 0)
           /\ Marks(C, J) = Marks(C, P) => Gap(J, a) = Gap(P, b) /\ J[j] = P[p]
<1> DEFINE k == MarksAt(C, J, a - 1)
           d == <<Later(OpenAt(C, J, a - 1), Gap(J, a)), J[j]>>
           e == <<Later(OpenAt(C, P, b - 1), Gap(P, b)), P[p]>>
<1>1. a \in 1..(Len(J) + 1) /\ b \in 1..(Len(P) + 1) /\ k = MarksAt(C, P, b - 1)
  BY DEF Abreast
<1>2. j \in 1..Len(J) /\ p \in 1..Len(P)
  BY <1>1, SkipIs, SMTT(40)
<1> HIDE DEF k, d, e
<1>3. /\ MarksAt(C, J, j) = Append(k, d) /\ OpenAt(C, J, j) = 0 /\ Marks(C, J)[Len(k) + 1] = d
  <2>1. k = MarksAt(C, J, a - 1) /\ d = <<Later(OpenAt(C, J, a - 1), Gap(J, a)), J[j]>>
    BY DEF k, d
  <2> QED  BY <1>1, <2>1, NextMark, SMTT(40)
<1>4. /\ MarksAt(C, P, p) = Append(k, e) /\ OpenAt(C, P, p) = 0 /\ Marks(C, P)[Len(k) + 1] = e
  <2>1. k = MarksAt(C, P, b - 1) /\ e = <<Later(OpenAt(C, P, b - 1), Gap(P, b)), P[p]>>
    BY <1>1 DEF e
  <2> QED  BY <1>1, <2>1, NextMark, SMTT(40)
<1>5. OpenAt(C, J, a - 1) = OpenAt(C, P, b - 1)
  BY DEF Abreast
<1>6. ASSUME Gap(J, a) = Gap(P, b), J[j] = P[p] PROVE InWord(C, J, P, j, p, 0)
  <2>1. d = e
    BY <1>5, <1>6 DEF d, e
  <2>2. MarksAt(C, J, j) = MarksAt(C, P, p)
    BY <1>3, <1>4, <2>1
  <2>3. j + 0 = j /\ p + 0 = p
    BY <1>2
  <2> QED  BY <1>2, <1>3, <1>4, <1>6, <2>2, <2>3 DEF InWord
<1>7. ASSUME Marks(C, J) = Marks(C, P) PROVE Gap(J, a) = Gap(P, b) /\ J[j] = P[p]
  <2>1. d = e
    BY <1>3, <1>4, <1>7
  <2>2. J[j] = P[p] /\ Later(OpenAt(C, J, a - 1), Gap(J, a)) = Later(OpenAt(C, P, b - 1), Gap(P, b))
    BY <2>1 DEF d, e
  <2>3. Gap(J, a) \in 0..2 /\ Gap(P, b) \in 0..2
    BY <1>1, GapIs
  <2>4. CASE OpenAt(C, J, a - 1) # 0
    <3>1. Skip(J, a) = a /\ Skip(P, b) = b
      BY <2>4 DEF Abreast
    <3>2. Gap(J, a) = 0 /\ Gap(P, b) = 0
      BY <1>1, <3>1, GapIs
    <3> QED  BY <2>2, <3>2
  <2>5. CASE OpenAt(C, J, a - 1) = 0
    <3>1. Later(0, Gap(J, a)) = Later(0, Gap(P, b))
      BY <1>5, <2>2, <2>5
    <3>2. Gap(J, a) = Gap(P, b)
      BY <2>3, <3>1 DEF Later
    <3> QED  BY <2>2, <3>2
  <2> QED  BY <2>4, <2>5
<1> QED  BY <1>2, <1>6, <1>7

LEMMA WordSize ==
    ASSUME NEW C, NEW J \in Seq(C), NEW j \in 1..Len(J), J[j] \notin White
    PROVE  \E size \in Nat \ {0} : /\ size = WordEnd(J, j) - j /\ j + size - 1 <= Len(J)
                                   /\ \A i \in 0..(size - 1) : J[j + i] \notin White
<1> DEFINE e == WordEnd(J, j)
<1>1. Len(J) \in Nat
  BY LenProperties
<1>2. e \in j..(Len(J) + 1) /\ (e <= Len(J) => J[e] \in White) /\ \A i \in j..(e - 1) : J[i] \notin White
  <2>1. j \in 1..(Len(J) + 1)
    BY <1>1
  <2> QED  BY <2>1, WordEndIs
<1> HIDE DEF e
<1>3. e # j
  BY <1>1, <1>2
<1>4. e - j \in Nat \ {0} /\ j + (e - j) - 1 <= Len(J)
  BY <1>1, <1>2, <1>3
<1>5. ASSUME NEW i \in 0..((e - j) - 1) PROVE J[j + i] \notin White
  <2>1. j + i \in j..(e - 1)
    BY <1>1, <1>2
  <2> QED  BY <1>2, <2>1
<1> QED  BY <1>4, <1>5 DEF e

LEMMA WordsLevel ==
    ASSUME NEW C, NEW J \in Seq(C), NEW P \in Seq(C), NEW a, NEW b,
           NEW j \in 1..Len(J), NEW p \in 1..Len(P), NEW n \in Nat \ {0},
           j + n - 1 <= Len(J), \A i \in 0..(n - 1) : J[j + i] \notin White,
           Gap(J, a) = Gap(P, b) /\ J[j] = P[p] => InWord(C, J, P, j, p, 0),
           Marks(C, J) = Marks(C, P) => Gap(J, a) = Gap(P, b) /\ J[j] = P[p]
    PROVE  /\ SameWord(J, P, a, b, j, p, n) => Abreast(C, J, P, j + n, p + n)
           /\ ~SameWord(J, P, a, b, j, p, n) => Marks(C, J) # Marks(C, P)
<1>1. Len(J) \in Nat /\ Len(P) \in Nat
  BY LenProperties
<1>2. ASSUME InWord(C, J, P, j, p, 0),
             \/ Marks(C, J) = Marks(C, P)
             \/ p + n - 1 <= Len(P) /\ \A i \in 0..(n - 1) : J[j + i] = P[p + i]
      PROVE  \A i \in 0..(n - 1) : InWord(C, J, P, j, p, i)
  BY <1>2, WordCompared
<1>3. ASSUME SameWord(J, P, a, b, j, p, n) PROVE Abreast(C, J, P, j + n, p + n)
  <2>1. Gap(J, a) = Gap(P, b) /\ p + n - 1 <= Len(P) /\ \A i \in 0..(n - 1) : J[j + i] = P[p + i]
    BY <1>3 DEF SameWord
  <2>2. J[j] = P[p]
    <3>1. 0 \in 0..(n - 1) /\ j + 0 = j /\ p + 0 = p
      BY <1>1
    <3>2. J[j + 0] = P[p + 0]
      BY <2>1, <3>1
    <3> QED  BY <3>1, <3>2
  <2>3. \A i \in 0..(n - 1) : InWord(C, J, P, j, p, i)
    BY <1>2, <2>1, <2>2
  <2>4. n - 1 \in 0..(n - 1) /\ j + (n - 1) = (j + n) - 1 /\ p + (n - 1) = (p + n) - 1
    BY <1>1
  <2>5. InWord(C, J, P, j, p, n - 1)
    BY <2>3, <2>4
  <2>6. /\ MarksAt(C, J, (j + n) - 1) = MarksAt(C, P, (p + n) - 1)
        /\ OpenAt(C, J, (j + n) - 1) = 0 /\ OpenAt(C, P, (p + n) - 1) = 0
    BY <2>4, <2>5 DEF InWord
  <2>7. j + n \in 1..(Len(J) + 1) /\ p + n \in 1..(Len(P) + 1)
    BY <1>1, <2>1
  <2> QED  BY <2>6, <2>7 DEF Abreast
<1>4. ASSUME Marks(C, J) = Marks(C, P) PROVE SameWord(J, P, a, b, j, p, n)
  <2>1. \A i \in 0..(n - 1) : InWord(C, J, P, j, p, i)
    BY <1>2, <1>4
  <2>2. \A i \in 0..(n - 1) : p + i <= Len(P) /\ J[j + i] = P[p + i]
    BY <2>1 DEF InWord
  <2>3. n - 1 \in 0..(n - 1) /\ p + (n - 1) = p + n - 1
    BY <1>1
  <2>4. p + n - 1 <= Len(P)
    BY <2>2, <2>3
  <2> QED  BY <1>4, <2>2, <2>4 DEF SameWord
<1> QED  BY <1>3, <1>4

LEMMA TurnCompared ==
    ASSUME NEW C, NEW J \in Seq(C), NEW P \in Seq(C), NEW a, NEW b, Abreast(C, J, P, a, b),
           NEW j, j = Skip(J, a), j <= Len(J), NEW p, p = Skip(P, b), p <= Len(P)
    PROVE  \E n \in Nat \ {0} :
              /\ n = WordEnd(J, j) - j /\ j \in 1..Len(J) /\ p \in 1..Len(P)
              /\ SameWord(J, P, a, b, j, p, n) => Abreast(C, J, P, j + n, p + n)
              /\ ~SameWord(J, P, a, b, j, p, n) => Marks(C, J) # Marks(C, P)
<1>1. /\ j \in 1..Len(J) /\ p \in 1..Len(P)
      /\ Gap(J, a) = Gap(P, b) /\ J[j] = P[p] => InWord(C, J, P, j, p, 0)
      /\ Marks(C, J) = Marks(C, P) => Gap(J, a) = Gap(P, b) /\ J[j] = P[p]
  BY WordBegins
<1>2. J[j] \notin White
  <2>1. a \in 1..(Len(J) + 1)
    BY DEF Abreast
  <2> QED  BY <2>1, SkipIs
<1>3. PICK n \in Nat \ {0} : /\ n = WordEnd(J, j) - j /\ j + n - 1 <= Len(J)
                             /\ \A i \in 0..(n - 1) : J[j + i] \notin White
  BY <1>1, <1>2, WordSize
<1>4. /\ SameWord(J, P, a, b, j, p, n) => Abreast(C, J, P, j + n, p + n)
      /\ ~SameWord(J, P, a, b, j, p, n) => Marks(C, J) # Marks(C, P)
  BY <1>1, <1>3, WordsLevel
<1> QED  BY <1>1, <1>3, <1>4

Turns(J, P) == [j : 1..(Len(J) + 1), p : 1..(Len(P) + 1), result : {"none", "accepted", "rejected"}]

\* After n turns.
Agrees(C, J, P, at, n) ==
    /\ at \in Turns(J, P)
    /\ at.result = "none" => at.j >= n + 1 /\ Abreast(C, J, P, at.j, at.p)
    /\ at.result = "accepted" => Marks(C, J) = Marks(C, P)
    /\ at.result = "rejected" => Marks(C, J) # Marks(C, P)

LEMMA CompareAgrees ==
    ASSUME NEW C, NEW J \in Seq(C), NEW P \in Seq(C), NEW at, NEW n \in Nat, Agrees(C, J, P, at, n)
    PROVE  Agrees(C, J, P, Compare(J, P, at), n + 1)
<1> DEFINE j == Skip(J, at.j)
           p == Skip(P, at.p)
           size == WordEnd(J, j) - j
           new == Compare(J, P, at)
           same == SameWord(J, P, at.j, at.p, j, p, size)
<1>1. at \in Turns(J, P) /\ Len(J) \in Nat /\ Len(P) \in Nat
  BY LenProperties DEF Agrees
<1>2. CASE at.result # "none"
  <2>1. new = at
    BY <1>2 DEF Compare
  <2> QED  BY <1>2, <2>1 DEF Agrees
<1>3. CASE at.result = "none"
  <2>1. at.j >= n + 1 /\ Abreast(C, J, P, at.j, at.p) /\ at.j \in 1..(Len(J) + 1) /\ at.p \in 1..(Len(P) + 1)
    BY <1>1, <1>3 DEF Agrees, Turns
  <2>2. j \in (at.j)..(Len(J) + 1) /\ p \in (at.p)..(Len(P) + 1)
    BY <2>1, SkipIs
  <2>3. new = IF j > Len(J) /\ p > Len(P) THEN [at EXCEPT !.result = "accepted"]
              ELSE IF j > Len(J) \/ p > Len(P) \/ ~same THEN [at EXCEPT !.result = "rejected"]
              ELSE [at EXCEPT !.j = j + size, !.p = p + size]
    BY <1>3 DEF Compare, SameWord
  <2>4. /\ [at EXCEPT !.result = "accepted"] \in Turns(J, P)
        /\ [at EXCEPT !.result = "accepted"].result = "accepted"
        /\ [at EXCEPT !.result = "rejected"] \in Turns(J, P)
        /\ [at EXCEPT !.result = "rejected"].result = "rejected"
    BY <1>1 DEF Turns
  <2>5. ASSUME Marks(C, J) = Marks(C, P) PROVE Agrees(C, J, P, [at EXCEPT !.result = "accepted"], n + 1)
    BY <2>4, <2>5 DEF Agrees
  <2>6. ASSUME Marks(C, J) # Marks(C, P) PROVE Agrees(C, J, P, [at EXCEPT !.result = "rejected"], n + 1)
    BY <2>4, <2>6 DEF Agrees
  <2> HIDE DEF j, p, size, new, same
  <2>7. /\ j > Len(J) /\ p > Len(P) => Marks(C, J) = Marks(C, P)
        /\ j > Len(J) /\ p <= Len(P) => Marks(C, J) # Marks(C, P)
        /\ j <= Len(J) /\ p > Len(P) => Marks(C, J) # Marks(C, P)
    BY <2>1, EndsCompared DEF j, p
  <2>8. CASE j > Len(J) /\ p > Len(P)
    BY <2>3, <2>5, <2>7, <2>8 DEF new
  <2>9. CASE ~(j > Len(J) /\ p > Len(P)) /\ (j > Len(J) \/ p > Len(P))
    <3>1. Marks(C, J) # Marks(C, P)
      BY <1>1, <2>1, <2>2, <2>7, <2>9
    <3> QED  BY <2>3, <2>6, <2>9, <3>1 DEF new
  <2>10. CASE ~(j > Len(J)) /\ ~(p > Len(P))
    <3>1. j <= Len(J) /\ p <= Len(P) /\ j = Skip(J, at.j) /\ p = Skip(P, at.p)
      BY <1>1, <2>1, <2>2, <2>10 DEF j, p
    <3>2. PICK m \in Nat \ {0} :
              /\ m = WordEnd(J, j) - j /\ j \in 1..Len(J) /\ p \in 1..Len(P)
              /\ SameWord(J, P, at.j, at.p, j, p, m) => Abreast(C, J, P, j + m, p + m)
              /\ ~SameWord(J, P, at.j, at.p, j, p, m) => Marks(C, J) # Marks(C, P)
      <4> DEFINE a == at.j
                 b == at.p
      <4>1. Abreast(C, J, P, a, b) /\ j = Skip(J, a) /\ p = Skip(P, b)
        BY <2>1, <3>1
      <4> HIDE DEF a, b
      <4>2. \E m \in Nat \ {0} :
              /\ m = WordEnd(J, j) - j /\ j \in 1..Len(J) /\ p \in 1..Len(P)
              /\ SameWord(J, P, a, b, j, p, m) => Abreast(C, J, P, j + m, p + m)
              /\ ~SameWord(J, P, a, b, j, p, m) => Marks(C, J) # Marks(C, P)
        BY <3>1, <4>1, TurnCompared
      <4> QED  BY <4>2 DEF a, b
    <3>3. m = size /\ (same <=> SameWord(J, P, at.j, at.p, j, p, m))
      BY <3>2 DEF size, same
    <3>4. CASE ~same
      BY <2>3, <2>6, <2>10, <3>2, <3>3, <3>4 DEF new
    <3>5. CASE same
      <4> DEFINE next == [at EXCEPT !.j = j + m, !.p = p + m]
      <4>1. new = next
        BY <2>3, <2>10, <3>3, <3>5
      <4>2. Abreast(C, J, P, j + m, p + m)
        BY <3>2, <3>3, <3>5
      <4>3. j + m \in 1..(Len(J) + 1) /\ p + m \in 1..(Len(P) + 1)
        BY <4>2 DEF Abreast
      <4>4. j + m >= n + 1 + 1
        BY <1>1, <2>1, <2>2, <3>2
      <4>5. /\ next \in Turns(J, P) /\ next.result = "none"
            /\ next.j = j + m /\ next.p = p + m
        BY <1>1, <1>3, <4>3 DEF Turns
      <4> HIDE DEF next
      <4> QED  BY <4>1, <4>2, <4>4, <4>5 DEF Agrees, new
    <3> QED  BY <3>4, <3>5
  <2> QED  BY <2>8, <2>9, <2>10
<1> QED  BY <1>2, <1>3

LEMMA AgreesFirst ==
    ASSUME NEW C, NEW J \in Seq(C), NEW P \in Seq(C)
    PROVE  Agrees(C, J, P, [j |-> Skip(J, 1), p |-> Skip(P, 1), result |-> "none"], 0)
<1> DEFINE a == Skip(J, 1)
           b == Skip(P, 1)
           at == [j |-> a, p |-> b, result |-> "none"]
<1>1. Len(J) \in Nat /\ Len(P) \in Nat /\ 1 \in 1..(Len(J) + 1) /\ 1 \in 1..(Len(P) + 1) /\ 1 - 1 = 0
  BY LenProperties
<1>2. /\ a \in 1..(Len(J) + 1) /\ (a <= Len(J) => J[a] \notin White)
      /\ b \in 1..(Len(P) + 1) /\ (b <= Len(P) => P[b] \notin White)
  BY <1>1, SkipIs
<1>3. MarksAt(C, J, a - 1) = <<>> /\ OpenAt(C, J, a - 1) = 2
  <2>1. /\ MarksAt(C, J, a - 1) = MarksAt(C, J, 1 - 1)
        /\ OpenAt(C, J, a - 1) = Later(OpenAt(C, J, 1 - 1), Gap(J, 1)) /\ Gap(J, 1) \in 0..2
    BY <1>1, MarksWhite, GapIs
  <2>2. MarksAt(C, J, 0) = <<>> /\ OpenAt(C, J, 0) = 2
    BY MarksEnds
  <2> QED  BY <1>1, <2>1, <2>2 DEF Later
<1>4. MarksAt(C, P, b - 1) = <<>> /\ OpenAt(C, P, b - 1) = 2
  <2>1. /\ MarksAt(C, P, b - 1) = MarksAt(C, P, 1 - 1)
        /\ OpenAt(C, P, b - 1) = Later(OpenAt(C, P, 1 - 1), Gap(P, 1)) /\ Gap(P, 1) \in 0..2
    BY <1>1, MarksWhite, GapIs
  <2>2. MarksAt(C, P, 0) = <<>> /\ OpenAt(C, P, 0) = 2
    BY MarksEnds
  <2> QED  BY <1>1, <2>1, <2>2 DEF Later
<1>5. Skip(J, a) = a /\ Skip(P, b) = b
  <2> HIDE DEF a, b
  <2>1. /\ Skip(J, a) \in a..(Len(J) + 1) /\ \A i \in a..(Skip(J, a) - 1) : J[i] \in White
        /\ Skip(P, b) \in b..(Len(P) + 1) /\ \A i \in b..(Skip(P, b) - 1) : P[i] \in White
    BY <1>2, SkipIs
  <2>2. ASSUME Skip(J, a) # a PROVE FALSE
    <3>1. a \in a..(Skip(J, a) - 1) /\ a <= Len(J)
      BY <1>1, <1>2, <2>1, <2>2
    <3> QED  BY <1>2, <2>1, <3>1
  <2>3. ASSUME Skip(P, b) # b PROVE FALSE
    <3>1. b \in b..(Skip(P, b) - 1) /\ b <= Len(P)
      BY <1>1, <1>2, <2>1, <2>3
    <3> QED  BY <1>2, <2>1, <3>1
  <2> QED  BY <2>2, <2>3
<1> HIDE DEF a, b
<1>6. Abreast(C, J, P, a, b)
  BY <1>2, <1>3, <1>4, <1>5 DEF Abreast
<1>7. at \in Turns(J, P) /\ at.result = "none" /\ at.j = a /\ at.p = b /\ a >= 0 + 1
  BY <1>1, <1>2 DEF Turns
<1>8. Agrees(C, J, P, at, 0)
  <2> HIDE DEF at
  <2> QED  BY <1>6, <1>7 DEF Agrees
<1> QED  BY <1>8 DEF a, b

\* The standard checker compares the marks.
LEMMA StandardMarks ==
    ASSUME NEW C, NEW J \in Seq(C), NEW P \in Seq(C)
    PROVE  CheckStandard(J, P) <=> Marks(C, J) = Marks(C, P)
<1> DEFINE k == Len(J) + 1
           X == {at \in Turns(J, P) : \E n \in Nat : Agrees(C, J, P, at, n)}
           base == [j |-> Skip(J, 1), p |-> Skip(P, 1), result |-> "none"]
           Turn(at) == Compare(J, P, at)
           steps == [n \in 1..k |-> [at \in X |-> Turn(at)]]
           Is(g) == g = [n \in 0..k |-> IF n = 0 THEN base ELSE Turn(g[n - 1])]
           w == CHOOSE g : Is(g)
<1>1. k \in Nat
  BY LenProperties
<1>2. Agrees(C, J, P, base, 0)
  BY AgreesFirst
<1>3. base \in X
  <2> HIDE DEF base
  <2> QED  BY <1>2 DEF Agrees
<1>4. ASSUME NEW at \in X PROVE Turn(at) \in X
  <2>1. PICK n \in Nat : Agrees(C, J, P, at, n)
    OBVIOUS
  <2>2. Agrees(C, J, P, Turn(at), n + 1)
    BY <2>1, CompareAgrees
  <2> HIDE DEF Turn
  <2>3. n + 1 \in Nat /\ Turn(at) \in Turns(J, P)
    BY <2>2 DEF Agrees
  <2> QED  BY <2>2, <2>3
<1>5. \A at, n : n \in Nat /\ Agrees(C, J, P, at, n) => Agrees(C, J, P, Turn(at), n + 1)
  BY CompareAgrees
<1> HIDE DEF X, base, Turn
<1>6. steps \in [1..k -> [X -> X]]
  BY <1>4
<1>7. PICK g \in [0..k -> X] : Recursion(g, base, k, steps)
  <2> HIDE DEF steps, k
  <2> QED  BY <1>1, <1>3, <1>6, RecursionExists
<1> HIDE DEF k
<1>8. g[0] = base /\ \A n \in 1..k : g[n] = Turn(g[n - 1])
  <2> SUFFICES ASSUME NEW n \in 1..k PROVE steps[n][g[n - 1]] = Turn(g[n - 1])
    BY <1>7 DEF Recursion
  <2>1. g[n - 1] \in X
    BY <1>1
  <2> QED  BY <2>1
<1>9. Is(g)
  BY <1>8
<1>10. Is(w)
  <2> HIDE DEF Is
  <2> QED  BY <1>9
<1>11. w[0] = base /\ \A n \in 1..k : w[n] = Turn(w[n - 1])
  <2> HIDE DEF w
  <2> QED  BY <1>1, <1>10
<1> DEFINE T == {n \in Nat : n <= k => Agrees(C, J, P, w[n], n)}
<1>12. CheckStandard(J, P) <=> w[k].result = "accepted"
  BY DEF CheckStandard, k, base, Turn
<1> HIDE DEF w
<1>13. 0 \in T
  BY <1>2, <1>11
<1>14. ASSUME NEW n \in Nat, n \in T PROVE n + 1 \in T
  <2> SUFFICES ASSUME n + 1 <= k PROVE Agrees(C, J, P, w[n + 1], n + 1)
    OBVIOUS
  <2>1. n + 1 \in 1..k /\ n + 1 - 1 = n /\ n <= k
    BY <1>1
  <2>2. w[n + 1] = Turn(w[n])
    BY <1>11, <2>1
  <2>3. Agrees(C, J, P, w[n], n)
    BY <1>14, <2>1
  <2> QED  BY <1>5, <2>2, <2>3
<1>15. Nat \subseteq T
  <2> HIDE DEF T
  <2> QED  BY <1>13, <1>14, NatUpto
<1>16. Agrees(C, J, P, w[k], k)
  BY <1>1, <1>15
<1>17. w[k].result # "none"
  <2> SUFFICES ASSUME w[k].result = "none" PROVE FALSE
    OBVIOUS
  <2>1. w[k].j >= k + 1 /\ w[k].j \in 1..k
    BY <1>16 DEF Agrees, Turns, k
  <2> QED  BY <1>1, <2>1
<1>18. w[k].result \in {"none", "accepted", "rejected"}
  BY <1>16 DEF Agrees, Turns
<1> QED  BY <1>12, <1>16, <1>17, <1>18 DEF Agrees

(***************************************************************************)
(* Marks are words on lines.  A mark adds a character to a new line, to a  *)
(* new word of the last line, or to the last word.                         *)
(***************************************************************************)
Pages(C) == Seq(Seq(Seq(C)))
LastOf(x) == x[Len(x)]

BuildMark(page, mark) ==
    IF mark[1] = 2 THEN Append(page, << <<mark[2]>> >>)
    ELSE IF page = <<>> \/ LastOf(page) = <<>> THEN page
    ELSE IF mark[1] = 1 THEN LastIs(page, Append(LastOf(page), <<mark[2]>>))
    ELSE LastIs(page, LastIs(LastOf(page), Append(LastOf(LastOf(page)), mark[2])))

BuildSteps(C) == [mark \in Mark(C) |-> [page \in Pages(C) |-> BuildMark(page, mark)]]
Build(C, marks) == Folded(BuildSteps(C), <<>>, marks)

\* The last line, of the words before the one that is read, and the page with it.
Line(words, word) == IF word = <<>> THEN words ELSE Append(words, word)
Page(lines, words, word) == IF Line(words, word) = <<>> THEN lines ELSE Append(lines, Line(words, word))
GapOf(words, word) == IF word # <<>> THEN 0 ELSE IF words = <<>> THEN 2 ELSE 1

LEMMA LastTyped ==
    ASSUME NEW D, NEW x \in Seq(D), x # <<>>
    PROVE  LastOf(x) \in D /\ \A new \in D : LastIs(x, new) \in Seq(D)
<1>1. Len(x) \in Nat /\ Len(x) \in 1..Len(x)
  BY LenProperties, EmptySeq
<1>2. ASSUME NEW new \in D PROVE LastIs(x, new) \in Seq(D)
  BY <1>1, ExceptSeq DEF LastIs
<1> QED  BY <1>1, <1>2, ElementOfSeq DEF LastOf

LEMMA LastAppended ==
    ASSUME NEW D, NEW x \in Seq(D), NEW e \in D
    PROVE  LastOf(Append(x, e)) = e /\ Append(x, e) \in Seq(D) /\ Append(x, e) # <<>>
<1>1. /\ Append(x, e) \in Seq(D) /\ Len(Append(x, e)) = Len(x) + 1 /\ Append(x, e)[Len(x) + 1] = e
      /\ Len(x) \in Nat
  BY AppendProperties, LenProperties
<1>2. Append(x, e) # <<>>
  BY <1>1, EmptySeq
<1> QED  BY <1>1, <1>2 DEF LastOf

LEMMA BuildTyped ==
    ASSUME NEW C PROVE <<>> \in Pages(C) /\ BuildSteps(C) \in [Mark(C) -> [Pages(C) -> Pages(C)]]
<1> DEFINE D == Seq(C)
           E == Seq(D)
<1>1. Pages(C) = Seq(E)
  BY DEF Pages
<1>2. ASSUME NEW m \in Mark(C), NEW page \in Pages(C) PROVE BuildMark(page, m) \in Pages(C)
  <2> DEFINE c == m[2]
             g == m[1]
  <2>1. c \in C /\ g \in 0..2
    BY DEF Mark
  <2> HIDE DEF c, g
  <2>2. <<c>> \in D /\ << <<c>> >> \in E
    BY <2>1
  <2>3. CASE g = 2
    <3> DEFINE l == << <<c>> >>
    <3>1. BuildMark(page, m) = Append(page, l)
      BY <2>3 DEF BuildMark, c, g
    <3>2. l \in E
      BY <2>2
    <3> HIDE DEF E, l
    <3> QED  BY <1>1, <3>1, <3>2
  <2>4. CASE g # 2 /\ (page = <<>> \/ LastOf(page) = <<>>)
    BY <2>4 DEF BuildMark, g
  <2>5. CASE g # 2 /\ page # <<>> /\ LastOf(page) # <<>>
    <3> DEFINE l == LastOf(page)
               w == LastOf(l)
               more == Append(l, <<c>>)
               longer == Append(w, c)
               line == LastIs(l, longer)
    <3>1. l \in E /\ \A new \in E : LastIs(page, new) \in Seq(E)
      <4> HIDE DEF E
      <4> QED  BY <1>1, <2>5, LastTyped
    <3>2. w \in D /\ \A new \in D : LastIs(l, new) \in E
      <4> HIDE DEF D, l
      <4>1. l \in Seq(D) /\ l # <<>>
        BY <2>5, <3>1 DEF l
      <4> QED  BY <4>1, LastTyped
    <3>3. longer \in D
      <4> HIDE DEF w
      <4> QED  BY <2>1, <3>2
    <3>4. more \in E
      <4> DEFINE e == <<c>>
      <4>1. e \in D
        BY <2>2
      <4> HIDE DEF D, l, e
      <4>2. Append(l, e) \in Seq(D)
        BY <3>1, <4>1
      <4> QED  BY <4>2 DEF e
    <3>5. line \in E
      <4> HIDE DEF longer, w
      <4> QED  BY <3>2, <3>3
    <3>6. BuildMark(page, m) = IF g = 1 THEN LastIs(page, more) ELSE LastIs(page, line)
      BY <2>5 DEF BuildMark, c, g
    <3> HIDE DEF more, line, E
    <3>7. LastIs(page, more) \in Seq(E) /\ LastIs(page, line) \in Seq(E)
      BY <3>1, <3>4, <3>5
    <3> QED  BY <1>1, <3>6, <3>7
  <2> QED  BY <2>3, <2>4, <2>5
<1>3. <<>> \in Pages(C)
  <2> HIDE DEF E
  <2> QED  BY <1>1, EmptySeq
<1> QED  BY <1>2, <1>3 DEF BuildSteps

LEMMA BuildMore ==
    ASSUME NEW C, NEW marks \in Seq(Mark(C)), NEW e \in Mark(C)
    PROVE  Build(C, marks) \in Pages(C) /\ Build(C, Append(marks, e)) = BuildMark(Build(C, marks), e)
<1> DEFINE base == <<>>
           steps == BuildSteps(C)
           X == Pages(C)
           M == Mark(C)
           before == Folded(steps, base, marks)
           after == Folded(steps, base, Append(marks, e))
<1>1. base \in X /\ steps \in [M -> [X -> X]] /\ marks \in Seq(M) /\ e \in M
  BY BuildTyped
<1>2. before \in X /\ after = steps[e][before]
  <2> HIDE DEF base, steps, X, M
  <2>1. before \in X
    BY <1>1, FoldedAppend
  <2>2. after = steps[e][before]
    BY <1>1, FoldedAppend
  <2> QED  BY <2>1, <2>2
<1>3. Build(C, marks) = before /\ Build(C, Append(marks, e)) = after
  BY DEF Build
<1> HIDE DEF before, after
<1>4. steps[e][before] = BuildMark(before, e)
  BY <1>2 DEF BuildSteps
<1> QED  BY <1>2, <1>3, <1>4

LEMMA BuildEmpty == \A C : Build(C, <<>>) = <<>>
<1> SUFFICES ASSUME NEW C PROVE Build(C, <<>>) = <<>>
  OBVIOUS
<1> DEFINE base == <<>>
           steps == BuildSteps(C)
           X == Pages(C)
           M == Mark(C)
<1>1. base \in X /\ steps \in [M -> [X -> X]]
  BY BuildTyped
<1>2. Folded(steps, base, <<>>) = base
  <2> HIDE DEF base, steps, X, M
  <2> QED  BY <1>1, FoldedEmpty
<1> QED  BY <1>2 DEF Build

LEMMA BuildPage ==
    ASSUME NEW C, NEW lines \in Pages(C), NEW words \in Seq(Seq(C)), NEW word \in Seq(C), NEW c \in C
    PROVE  BuildMark(Page(lines, words, word), <<GapOf(words, word), c>>) = Page(lines, words, Append(word, c))
<1> DEFINE D == Seq(C)
           E == Seq(D)
           new == Append(word, c)
           m == <<GapOf(words, word), c>>
           line == Append(words, new)
           page == Append(lines, line)
<1>1. lines \in Seq(E) /\ words \in E /\ word \in D
  BY DEF Pages
<1>2. new \in D /\ new # <<>> /\ line \in E /\ line # <<>>
  <2>1. new \in D /\ new # <<>>
    BY SMTT(40)
  <2> HIDE DEF new, D
  <2>2. line \in Seq(D) /\ line # <<>>
    <3>1. words \in Seq(D)
      BY <1>1
    <3> QED  BY <2>1, <3>1, LastAppended
  <2> QED  BY <2>1, <2>2
<1>3. Page(lines, words, new) = page
  BY <1>2 DEF Page, Line
<1>4. m[1] = GapOf(words, word) /\ m[2] = c
  OBVIOUS
<1>5. CASE word # <<>>
  <2> DEFINE l == Append(words, word)
             p == Append(lines, l)
  <2>1. l # <<>> /\ l \in E /\ LastOf(l) = word
    <3> HIDE DEF D
    <3>1. words \in Seq(D)
      BY <1>1
    <3> QED  BY <1>1, <3>1, LastAppended
  <2>2. Page(lines, words, word) = p
    BY <1>5, <2>1 DEF Page, Line
  <2>3. LastOf(p) = l /\ p # <<>>
    <3> HIDE DEF E, l
    <3> QED  BY <1>1, <2>1, LastAppended
  <2>4. LastOf(l) = word
    BY <2>1
  <2>5. BuildMark(p, m) = LastIs(p, LastIs(l, new))
    <3>1. m[1] = 0
      BY <1>5 DEF GapOf
    <3> HIDE DEF p, l, m, new
    <3>2. BuildMark(p, m) = LastIs(p, LastIs(l, Append(word, m[2])))
      BY <2>1, <2>3, <2>4, <3>1 DEF BuildMark
    <3> QED  BY <1>4, <3>2 DEF new
  <2>6. LastIs(l, new) = line
    <3> HIDE DEF D, new
    <3>1. words \in Seq(D)
      BY <1>1
    <3> QED  BY <1>1, <1>2, <3>1, LastReplaced
  <2>7. LastIs(p, line) = page
    <3> HIDE DEF E, line, l
    <3> QED  BY <1>1, <1>2, <2>1, LastReplaced
  <2> QED  BY <1>3, <2>2, <2>5, <2>6, <2>7
<1>6. CASE word = <<>> /\ words # <<>>
  <2> DEFINE p == Append(lines, words)
  <2>1. Page(lines, words, word) = p
    BY <1>6 DEF Page, Line
  <2>2. LastOf(p) = words /\ p # <<>>
    <3> HIDE DEF E
    <3> QED  BY <1>1, LastAppended
  <2>3. new = <<c>>
    BY <1>6
  <2>4. BuildMark(p, m) = LastIs(p, line)
    <3>1. m[1] = 1
      BY <1>6 DEF GapOf
    <3> HIDE DEF p, m
    <3>2. BuildMark(p, m) = LastIs(p, Append(words, <<m[2]>>))
      BY <1>6, <2>2, <3>1 DEF BuildMark
    <3> QED  BY <1>4, <2>3, <3>2
  <2>5. LastIs(p, line) = page
    <3> HIDE DEF E, line
    <3> QED  BY <1>1, <1>2, LastReplaced
  <2> QED  BY <1>3, <2>1, <2>4, <2>5
<1>7. CASE word = <<>> /\ words = <<>>
  <2>1. Page(lines, words, word) = lines
    BY <1>7 DEF Page, Line
  <2>2. new = <<c>> /\ line = << <<c>> >>
    BY <1>7
  <2>3. BuildMark(lines, m) = page
    <3>1. m[1] = 2
      BY <1>7 DEF GapOf
    <3> HIDE DEF m
    <3>2. BuildMark(lines, m) = Append(lines, << <<m[2]>> >>)
      BY <3>1 DEF BuildMark
    <3> QED  BY <1>4, <2>2, <3>2
  <2> QED  BY <1>3, <2>1, <2>3
<1> QED  BY <1>5, <1>6, <1>7

\* And words on lines have marks.
WordMarks(word, gap) == [i \in 1..Len(word) |-> <<IF i = 1 THEN gap ELSE 0, word[i]>>]
FirstGap(marks) == IF marks = <<>> THEN 2 ELSE 1

LineSteps(C) == [word \in Seq(C) |-> [marks \in Seq(Mark(C)) |-> marks \o WordMarks(word, FirstGap(marks))]]
LineMarks(C, line) == Folded(LineSteps(C), <<>>, line)

PageSteps(C) == [line \in Seq(Seq(C)) |-> [marks \in Seq(Mark(C)) |-> marks \o LineMarks(C, line)]]
PageMarks(C, page) == Folded(PageSteps(C), <<>>, page)

LEMMA WordMarksAre ==
    ASSUME NEW C, NEW word \in Seq(C), NEW gap \in 0..2, NEW c \in C
    PROVE  /\ WordMarks(word, gap) \in Seq(Mark(C)) /\ (WordMarks(word, gap) = <<>> <=> word = <<>>)
           /\ WordMarks(Append(word, c), gap) =
                 Append(WordMarks(word, gap), <<IF word = <<>> THEN gap ELSE 0, c>>)
<1> DEFINE M == Mark(C)
           n == Len(word)
           more == Append(word, c)
           e == <<IF word = <<>> THEN gap ELSE 0, c>>
           Of(w, i) == <<IF i = 1 THEN gap ELSE 0, w[i]>>
           s == [i \in 1..n |-> Of(word, i)]
           t == [i \in 1..(n + 1) |-> Of(more, i)]
<1>1. n \in Nat /\ Len(more) = n + 1 /\ more[n + 1] = c /\ more \in Seq(C) /\ \A i \in 1..n : more[i] = word[i]
  BY AppendProperties, LenProperties
<1>2. \A w \in Seq(C) : \A i \in 1..Len(w) : Of(w, i) \in M
  <2> SUFFICES ASSUME NEW w \in Seq(C), NEW i \in 1..Len(w) PROVE Of(w, i) \in M
    OBVIOUS
  <2>1. w[i] \in C
    BY ElementOfSeq
  <2>2. (IF i = 1 THEN gap ELSE 0) \in 0..2
    OBVIOUS
  <2> QED  BY <2>1, <2>2 DEF Mark
<1>3. WordMarks(word, gap) = s /\ WordMarks(more, gap) = t
  BY <1>1 DEF WordMarks
<1>4. n = 0 <=> word = <<>>
  BY EmptySeq
<1>5. Of(more, n + 1) = e /\ \A i \in 1..n : Of(more, i) = Of(word, i)
  <2>1. n + 1 = 1 <=> word = <<>>
    BY <1>1, <1>4
  <2> QED  BY <1>1, <2>1
<1>6. e \in M
  <2>1. n + 1 \in 1..Len(more)
    BY <1>1
  <2>2. Of(more, n + 1) \in M
    <3> HIDE DEF Of, M, more, n
    <3> QED  BY <1>1, <1>2, <2>1
  <2> HIDE DEF Of, M, e
  <2> QED  BY <1>5, <2>2
<1>10. (\A i \in 1..n : Of(word, i) \in M) /\ \A i \in 1..(n + 1) : Of(more, i) \in M
  BY <1>1, <1>2
<1> HIDE DEF Of, M, e, n, more
<1>7. s \in Seq(M) /\ Len(s) = n /\ t \in Seq(M) /\ Len(t) = n + 1
  BY <1>1, <1>10
<1>8. s = <<>> <=> word = <<>>
  <2>1. Len(s) = 0 <=> s = <<>>
    <3> HIDE DEF s
    <3> QED  BY <1>7, EmptySeq
  <2> QED  BY <1>4, <1>7, <2>1
<1>9. t = Append(s, e)
  <2>1. Append(s, e) \in Seq(M) /\ Len(Append(s, e)) = n + 1
        /\ Append(s, e)[n + 1] = e /\ \A i \in 1..n : Append(s, e)[i] = s[i]
    <3> HIDE DEF s
    <3> QED  BY <1>6, <1>7, AppendProperties
  <2>2. \A i \in 1..(n + 1) : t[i] = Append(s, e)[i]
    <3> SUFFICES ASSUME NEW i \in 1..(n + 1) PROVE t[i] = Append(s, e)[i]
      OBVIOUS
    <3>1. CASE i = n + 1
      BY <1>1, <1>5, <2>1, <3>1
    <3>2. CASE i # n + 1
      <4>1. i \in 1..n
        BY <1>1, <3>2
      <4>2. t[i] = Of(word, i) /\ s[i] = Of(word, i)
        BY <1>5, <4>1
      <4> QED  BY <2>1, <4>1, <4>2
    <3> QED  BY <3>1, <3>2
  <2> HIDE DEF s, t
  <2> QED  BY <1>7, <2>1, <2>2, SeqEqual
<1> QED  BY <1>3, <1>7, <1>8, <1>9 DEF M, e, more

LEMMA WordMarksTyped ==
    ASSUME NEW C, NEW word \in Seq(C), NEW gap \in 0..2
    PROVE  WordMarks(word, gap) \in Seq(Mark(C)) /\ (WordMarks(word, gap) = <<>> <=> word = <<>>)
<1>1. CASE word = <<>>
  <2>1. WordMarks(word, gap) = <<>>
    BY <1>1 DEF WordMarks
  <2> QED  BY <1>1, <2>1, EmptySeq
<1>2. CASE word # <<>>
  <2>1. PICK c \in C : TRUE
    <3>1. word[1] \in C
      BY <1>2, EmptySeq, ElementOfSeq
    <3> QED  BY <3>1
  <2>2. /\ WordMarks(word, gap) \in Seq(Mark(C)) /\ (WordMarks(word, gap) = <<>> <=> word = <<>>)
        /\ WordMarks(Append(word, c), gap) =
              Append(WordMarks(word, gap), <<IF word = <<>> THEN gap ELSE 0, c>>)
    BY WordMarksAre, ZenonT(40)
  <2> QED  BY <2>2
<1> QED  BY <1>1, <1>2

LEMMA LineMarksMore ==
    ASSUME NEW C
    PROVE  /\ LineMarks(C, <<>>) = <<>>
           /\ \A words \in Seq(Seq(C)), word \in Seq(C) :
                 /\ LineMarks(C, words) \in Seq(Mark(C))
                 /\ LineMarks(C, Append(words, word)) =
                       LineMarks(C, words) \o WordMarks(word, FirstGap(LineMarks(C, words)))
<1> DEFINE D == Seq(C)
           X == Seq(Mark(C))
           base == <<>>
           steps == LineSteps(C)
<1>1. base \in X
  OBVIOUS
<1>2. ASSUME NEW word \in D, NEW marks \in X PROVE marks \o WordMarks(word, FirstGap(marks)) \in X
  <2>1. FirstGap(marks) \in 0..2
    BY DEF FirstGap
  <2>2. WordMarks(word, FirstGap(marks)) \in X
    BY <2>1, WordMarksTyped
  <2> QED  BY <2>2, ConcatProperties
<1>7. steps \in [D -> [X -> X]]
  BY <1>2 DEF LineSteps
<1>3. \A word \in D, marks \in X : steps[word][marks] = marks \o WordMarks(word, FirstGap(marks))
  BY <1>2 DEF LineSteps
<1> HIDE DEF D, X, base, steps
<1>4. Folded(steps, base, <<>>) = base
  BY <1>1, <1>7, FoldedEmpty
<1>5. ASSUME NEW words \in Seq(D), NEW word \in D
      PROVE  /\ Folded(steps, base, words) \in X
             /\ Folded(steps, base, Append(words, word)) =
                   Folded(steps, base, words) \o WordMarks(word, FirstGap(Folded(steps, base, words)))
  <2>1. Folded(steps, base, words) \in X
    BY <1>1, <1>7, FoldedAppend
  <2>2. Folded(steps, base, Append(words, word)) = steps[word][Folded(steps, base, words)]
    BY <1>1, <1>7, FoldedAppend
  <2> QED  BY <1>3, <2>1, <2>2
<1> QED  BY <1>4, <1>5 DEF LineMarks, D, X, base, steps

LEMMA LineMarksTyped == ASSUME NEW C, NEW line \in Seq(Seq(C)) PROVE LineMarks(C, line) \in Seq(Mark(C))
<1>1. <<>> \in Seq(C)
  OBVIOUS
<1> QED  BY <1>1, LineMarksMore

LEMMA PageMarksMore ==
    ASSUME NEW C
    PROVE  /\ PageMarks(C, <<>>) = <<>>
           /\ \A lines \in Pages(C), line \in Seq(Seq(C)) :
                 /\ PageMarks(C, lines) \in Seq(Mark(C))
                 /\ PageMarks(C, Append(lines, line)) = PageMarks(C, lines) \o LineMarks(C, line)
<1> DEFINE D == Seq(Seq(C))
           X == Seq(Mark(C))
           base == <<>>
           steps == PageSteps(C)
<1>1. base \in X
  OBVIOUS
<1>2. ASSUME NEW line \in D, NEW marks \in X PROVE marks \o LineMarks(C, line) \in X
  BY LineMarksTyped, ConcatProperties
<1>7. steps \in [D -> [X -> X]]
  BY <1>2 DEF PageSteps
<1>3. \A line \in D, marks \in X : steps[line][marks] = marks \o LineMarks(C, line)
  BY <1>2 DEF PageSteps
<1>6. Pages(C) = Seq(D)
  BY DEF Pages
<1> HIDE DEF D, X, base, steps
<1>4. Folded(steps, base, <<>>) = base
  BY <1>1, <1>7, FoldedEmpty
<1>5. ASSUME NEW lines \in Seq(D), NEW line \in D
      PROVE  /\ Folded(steps, base, lines) \in X
             /\ Folded(steps, base, Append(lines, line)) = Folded(steps, base, lines) \o LineMarks(C, line)
  <2>1. Folded(steps, base, lines) \in X
    BY <1>1, <1>7, FoldedAppend
  <2>2. Folded(steps, base, Append(lines, line)) = steps[line][Folded(steps, base, lines)]
    BY <1>1, <1>7, FoldedAppend
  <2> QED  BY <1>3, <2>1, <2>2
<1> QED  BY <1>4, <1>5, <1>6 DEF PageMarks, D, X, base, steps

LEMMA PageMarksTyped == ASSUME NEW C, NEW page \in Pages(C) PROVE PageMarks(C, page) \in Seq(Mark(C))
<1>1. <<>> \in Seq(Seq(C))
  OBVIOUS
<1> QED  BY <1>1, PageMarksMore

LEMMA LineMarksNone ==
    ASSUME NEW C, NEW words \in Seq(Seq(C)) PROVE LineMarks(C, Filled(words)) = <<>> <=> Filled(words) = <<>>
<1> DEFINE Agreed(s) == LineMarks(C, Filled(s)) = <<>> <=> Filled(s) = <<>>
           T == {s \in Seq(Seq(C)) : Agreed(s)}
<1>1. <<>> \in T
  <2>1. Agreed(<<>>)
    BY FilledEmpty, LineMarksMore
  <2> QED  BY <2>1, EmptySeq
<1>2. ASSUME NEW s \in Seq(Seq(C)), NEW w \in Seq(C), s \in T PROVE Append(s, w) \in T
  <2>1. Append(s, w) \in Seq(Seq(C)) /\ Filled(s) \in Seq(Seq(C))
    BY FilledAppend
  <2>2. CASE w = <<>>
    <3>1. Filled(Append(s, w)) = Filled(s)
      BY <2>2, FilledAppend
    <3> QED  BY <1>2, <2>1, <3>1
  <2>3. CASE w # <<>>
    <3> DEFINE f == Filled(s)
               a == LineMarks(C, f)
               b == WordMarks(w, FirstGap(a))
    <3>1. Filled(Append(s, w)) = Append(f, w)
      BY <2>3, FilledAppend
    <3>2. a \in Seq(Mark(C)) /\ LineMarks(C, Append(f, w)) = a \o b
      BY <2>1, LineMarksMore
    <3>3. b \in Seq(Mark(C)) /\ b # <<>>
      <4>1. FirstGap(a) \in 0..2
        BY DEF FirstGap
      <4> QED  BY <2>3, <4>1, WordMarksTyped
    <3>4. a \o b # <<>>
      <4> DEFINE M == Mark(C)
      <4> HIDE DEF a, b, M
      <4>1. a \in Seq(M) /\ b \in Seq(M) /\ b # <<>>
        BY <3>2, <3>3 DEF M
      <4>2. Len(a \o b) = Len(a) + Len(b) /\ a \o b \in Seq(M) /\ Len(a) \in Nat /\ Len(b) \in Nat /\ Len(b) # 0
        BY <4>1, ConcatProperties, EmptySeq, LenProperties
      <4> QED  BY <4>2, EmptySeq
    <3>5. Append(f, w) # <<>>
      <4> DEFINE D == Seq(C)
      <4> HIDE DEF f, D
      <4>1. f \in Seq(D) /\ w \in D
        BY <2>1 DEF f, D
      <4> QED  BY <4>1, LastAppended
    <3>6. Agreed(Append(s, w))
      BY <3>1, <3>2, <3>4, <3>5
    <3> QED  BY <2>1, <3>6
  <2> QED  BY <2>2, <2>3
<1>3. Seq(Seq(C)) \subseteq T
  <2> HIDE DEF T
  <2> QED  BY <1>1, <1>2, SeqInduction
<1> QED  BY <1>3

\* The marks so far are those of a page, and the page is that of the marks.
Shown(C, marks, gap, lines, words, word) ==
    /\ marks \in Seq(Mark(C)) /\ lines \in Pages(C) /\ words \in Seq(Seq(C)) /\ word \in Seq(C)
    /\ LineMarks(C, words) = <<>> <=> words = <<>>
    /\ gap = GapOf(words, word)
    /\ Build(C, marks) = Page(lines, words, word)
    /\ marks = (PageMarks(C, lines) \o LineMarks(C, words)) \o WordMarks(word, GapOf(words, <<>>))

LEMMA MarksOfLine ==
    ASSUME NEW C, NEW words \in Seq(Seq(C)), NEW word \in Seq(C), LineMarks(C, words) = <<>> <=> words = <<>>
    PROVE  /\ Line(words, word) \in Seq(Seq(C)) /\ (Line(words, word) = <<>> <=> words = <<>> /\ word = <<>>)
           /\ LineMarks(C, Line(words, word)) = LineMarks(C, words) \o WordMarks(word, GapOf(words, <<>>))
<1> DEFINE D == Seq(C)
           M == Mark(C)
           s == LineMarks(C, words)
           g == GapOf(words, <<>>)
<1>1. s \in Seq(M) /\ FirstGap(s) = g /\ g \in 0..2
  BY LineMarksTyped DEF FirstGap, GapOf
<1>2. CASE word = <<>>
  <2>1. Line(words, word) = words
    BY <1>2 DEF Line
  <2>2. WordMarks(word, g) = <<>>
    BY <1>1, <1>2, WordMarksTyped
  <2>3. s \o <<>> = s
    <3> HIDE DEF s, M
    <3> QED  BY <1>1, ConcatEmptySeq
  <2> QED  BY <1>2, <2>1, <2>2, <2>3
<1>3. CASE word # <<>>
  <2>1. Line(words, word) = Append(words, word)
    BY <1>3 DEF Line
  <2>2. LineMarks(C, Append(words, word)) = s \o WordMarks(word, g)
    BY <1>1, LineMarksMore
  <2>3. Append(words, word) \in Seq(D) /\ Append(words, word) # <<>>
    <3>1. words \in Seq(D) /\ word \in D
      OBVIOUS
    <3> HIDE DEF D
    <3> QED  BY <3>1, LastAppended
  <2> QED  BY <1>3, <2>1, <2>2, <2>3
<1> QED  BY <1>2, <1>3

LEMMA ShownSpace ==
    ASSUME NEW C, NEW marks, NEW gap, NEW lines, NEW words, NEW word,
           Shown(C, marks, gap, lines, words, word),
           LineMarks(C, Line(words, word)) = <<>> <=> Line(words, word) = <<>>
    PROVE  Shown(C, marks, IF gap = 0 THEN 1 ELSE gap, lines, Line(words, word), <<>>)
<1> DEFINE l == Line(words, word)
           a == PageMarks(C, lines)
           b == LineMarks(C, words)
           c == WordMarks(word, GapOf(words, <<>>))
           M == Mark(C)
<1>1. /\ marks \in Seq(M) /\ lines \in Pages(C) /\ words \in Seq(Seq(C)) /\ word \in Seq(C)
      /\ LineMarks(C, words) = <<>> <=> words = <<>>
      /\ gap = GapOf(words, word)
      /\ Build(C, marks) = Page(lines, words, word)
      /\ marks = (a \o b) \o c
  BY DEF Shown
<1>2. l \in Seq(Seq(C)) /\ (l = <<>> <=> words = <<>> /\ word = <<>>) /\ LineMarks(C, l) = b \o c
  BY <1>1, MarksOfLine
<1>3. Page(lines, l, <<>>) = Page(lines, words, word)
  BY DEF Page, Line
<1>4. GapOf(l, <<>>) \in 0..2 /\ GapOf(words, <<>>) \in 0..2 /\ (IF gap = 0 THEN 1 ELSE gap) = GapOf(l, <<>>)
  BY <1>1, <1>2 DEF GapOf
<1>5. <<>> \in Seq(C) /\ WordMarks(<<>>, GapOf(l, <<>>)) = <<>>
  BY <1>4, WordMarksTyped, EmptySeq
<1>6. a \in Seq(M) /\ b \in Seq(M) /\ c \in Seq(M)
  BY <1>1, <1>4, PageMarksTyped, LineMarksTyped, WordMarksTyped
<1>7. marks = (a \o LineMarks(C, l)) \o <<>>
  <2> HIDE DEF a, b, c, M, l
  <2>1. (a \o b) \o c = a \o (b \o c) /\ a \o (b \o c) \in Seq(M)
    BY <1>6, ConcatAssociative, ConcatProperties
  <2>2. (a \o (b \o c)) \o <<>> = a \o (b \o c)
    BY <2>1, ConcatEmptySeq
  <2> QED  BY <1>1, <1>2, <2>1, <2>2
<1> HIDE DEF l, a, b, c
<1>8. LineMarks(C, l) = <<>> <=> l = <<>>
  BY DEF l
<1>9. Shown(C, marks, GapOf(l, <<>>), lines, l, <<>>)
  BY <1>1, <1>2, <1>3, <1>5, <1>7, <1>8 DEF Shown, a
<1> QED  BY <1>4, <1>9 DEF l

LEMMA ShownLine ==
    ASSUME NEW C, NEW marks, NEW gap, NEW lines, NEW words, NEW word,
           Shown(C, marks, gap, lines, words, word)
    PROVE  Shown(C, marks, 2, Page(lines, words, word), <<>>, <<>>)
<1> DEFINE l == Line(words, word)
           page == Page(lines, words, word)
           a == PageMarks(C, lines)
           b == LineMarks(C, words)
           c == WordMarks(word, GapOf(words, <<>>))
           M == Mark(C)
           D == Seq(Seq(C))
<1>1. /\ marks \in Seq(M) /\ lines \in Pages(C) /\ words \in Seq(Seq(C)) /\ word \in Seq(C)
      /\ LineMarks(C, words) = <<>> <=> words = <<>>
      /\ Build(C, marks) = page
      /\ marks = (a \o b) \o c
  BY DEF Shown
<1>2. l \in D /\ LineMarks(C, l) = b \o c
  BY <1>1, MarksOfLine
<1>3. GapOf(words, <<>>) \in 0..2 /\ GapOf(<<>>, <<>>) = 2
  BY DEF GapOf
<1>4. a \in Seq(M) /\ b \in Seq(M) /\ c \in Seq(M)
  BY <1>1, <1>3, PageMarksTyped, LineMarksTyped, WordMarksTyped
<1>5. /\ LineMarks(C, <<>>) = <<>> /\ <<>> \in Seq(C) /\ <<>> \in Seq(Seq(C))
      /\ WordMarks(<<>>, 2) = <<>>
  <2>1. <<>> \in Seq(C) /\ <<>> \in Seq(Seq(C)) /\ 2 \in 0..2
    BY EmptySeq
  <2>2. WordMarks(<<>>, 2) = <<>>
    BY <2>1, WordMarksTyped
  <2>3. LineMarks(C, <<>>) = <<>>
    BY LineMarksMore
  <2> QED  BY <2>1, <2>2, <2>3
<1>6. Page(page, <<>>, <<>>) = page
  BY DEF Page, Line
<1>7. page \in Pages(C) /\ PageMarks(C, page) = a \o LineMarks(C, l)
  <2>1. CASE l = <<>>
    <3>1. page = lines
      BY <2>1 DEF Page
    <3>2. a \o <<>> = a
      <4> HIDE DEF a, M
      <4> QED  BY <1>4, ConcatEmptySeq
    <3> QED  BY <1>1, <1>5, <2>1, <3>1, <3>2
  <2>2. CASE l # <<>>
    <3>1. page = Append(lines, l)
      BY <2>2 DEF Page
    <3>2. Append(lines, l) \in Pages(C)
      <4> HIDE DEF D, l
      <4>1. lines \in Seq(D)
        BY <1>1 DEF Pages, D
      <4>2. Append(lines, l) \in Seq(D)
        BY <1>2, <4>1, LastAppended
      <4> QED  BY <4>2 DEF Pages, D
    <3> QED  BY <1>1, <1>2, <3>1, <3>2, PageMarksMore
  <2> QED  BY <2>1, <2>2
<1>8. marks = (PageMarks(C, page) \o LineMarks(C, <<>>)) \o WordMarks(<<>>, GapOf(<<>>, <<>>))
  <2> DEFINE d == a \o (b \o c)
  <2>1. (a \o b) \o c = d /\ d \in Seq(M)
    <3> HIDE DEF a, b, c, M
    <3> QED  BY <1>4, ConcatAssociative, ConcatProperties
  <2>2. d \o <<>> = d
    <3> HIDE DEF d, M
    <3> QED  BY <2>1, ConcatEmptySeq
  <2>3. PageMarks(C, page) = d
    BY <1>2, <1>7
  <2> HIDE DEF d, page
  <2> QED  BY <1>1, <1>3, <1>5, <2>1, <2>2, <2>3
<1> HIDE DEF page
<1> QED  BY <1>1, <1>3, <1>5, <1>6, <1>7, <1>8 DEF Shown

LEMMA ShownChar ==
    ASSUME NEW C, NEW marks, NEW gap, NEW lines, NEW words, NEW word,
           Shown(C, marks, gap, lines, words, word), NEW x \in C
    PROVE  Shown(C, Append(marks, <<gap, x>>), 0, lines, words, Append(word, x))
<1> DEFINE more == Append(word, x)
           g == GapOf(words, <<>>)
           a == PageMarks(C, lines)
           b == LineMarks(C, words)
           c == WordMarks(word, g)
           e == <<gap, x>>
           M == Mark(C)
<1>1. /\ marks \in Seq(M) /\ lines \in Pages(C) /\ words \in Seq(Seq(C)) /\ word \in Seq(C)
      /\ b = <<>> <=> words = <<>>
      /\ gap = GapOf(words, word)
      /\ Build(C, marks) = Page(lines, words, word)
      /\ marks = (a \o b) \o c
  BY DEF Shown
<1>2. more \in Seq(C) /\ more # <<>>
  BY <1>1, LastAppended
<1>3. g \in 0..2 /\ gap \in 0..2 /\ gap = (IF word = <<>> THEN g ELSE 0) /\ GapOf(words, more) = 0
  BY <1>1, <1>2 DEF GapOf
<1>4. e \in M
  BY <1>3 DEF Mark
<1>5. a \in Seq(M) /\ b \in Seq(M) /\ c \in Seq(M)
  BY <1>1, <1>3, PageMarksTyped, LineMarksTyped, WordMarksTyped
<1>6. WordMarks(more, g) = Append(c, e)
  <2>1. WordMarks(Append(word, x), g) = Append(WordMarks(word, g), <<IF word = <<>> THEN g ELSE 0, x>>)
    <3> DEFINE f == <<IF word = <<>> THEN g ELSE 0, x>>
    <3> HIDE DEF g
    <3>1. word \in Seq(C) /\ g \in 0..2
      BY <1>1, <1>3
    <3>2. /\ WordMarks(word, g) \in Seq(Mark(C)) /\ (WordMarks(word, g) = <<>> <=> word = <<>>)
          /\ WordMarks(Append(word, x), g) = Append(WordMarks(word, g), f)
      BY <3>1, WordMarksAre, ZenonT(40)
    <3> QED  BY <3>2
  <2> QED  BY <1>3, <2>1
<1>7. Append(marks, e) = (a \o b) \o WordMarks(more, g) /\ Append(marks, e) \in Seq(M)
  <2> DEFINE d == a \o b
  <2>1. d \in Seq(M)
    <3> HIDE DEF a, b, M
    <3> QED  BY <1>5, ConcatProperties
  <2> HIDE DEF d, c, e, M
  <2>2. c \in Seq(M) /\ e \in M
    BY <1>4, <1>5
  <2>3. Append(d \o c, e) = d \o Append(c, e)
    BY <2>1, <2>2
  <2> QED  BY <1>1, <1>4, <1>6, <2>3, LastAppended DEF d
<1>8. Build(C, Append(marks, e)) = Page(lines, words, more)
  <2>1. Build(C, Append(marks, e)) = BuildMark(Build(C, marks), e)
    <3> HIDE DEF e
    <3> QED  BY <1>1, <1>4, BuildMore
  <2>2. BuildMark(Page(lines, words, word), <<GapOf(words, word), x>>) = Page(lines, words, Append(word, x))
    BY <1>1, BuildPage
  <2> QED  BY <1>1, <2>1, <2>2
<1> HIDE DEF more, e
<1>9. Shown(C, Append(marks, e), 0, lines, words, more)
  BY <1>1, <1>2, <1>3, <1>7, <1>8 DEF Shown, a, b, g
<1> QED  BY <1>9 DEF more, e

LEMMA ShownPage ==
    ASSUME NEW C, NEW marks, NEW gap, NEW lines, NEW words, NEW word,
           Shown(C, marks, gap, lines, words, word)
    PROVE  /\ Build(C, marks) = Page(lines, words, word)
           /\ marks = PageMarks(C, Page(lines, words, word))
<1> DEFINE page == Page(lines, words, word)
           M == Mark(C)
           p == PageMarks(C, page)
<1>1. Shown(C, marks, 2, page, <<>>, <<>>)
  BY ShownLine
<1>2. page \in Pages(C) /\ marks = (p \o LineMarks(C, <<>>)) \o WordMarks(<<>>, GapOf(<<>>, <<>>))
  <2> HIDE DEF page
  <2> QED  BY <1>1 DEF Shown
<1>3. LineMarks(C, <<>>) = <<>>
  BY LineMarksMore
<1>4. WordMarks(<<>>, GapOf(<<>>, <<>>)) = <<>>
  <2>1. GapOf(<<>>, <<>>) \in 0..2 /\ <<>> \in Seq(C)
    BY EmptySeq DEF GapOf
  <2> QED  BY <2>1, WordMarksTyped
<1>5. p \in Seq(M)
  BY <1>2, PageMarksTyped
<1>6. p \o <<>> = p
  <2> HIDE DEF p, M
  <2> QED  BY <1>5, ConcatEmptySeq
<1>7. Build(C, marks) = page
  BY DEF Shown
<1> HIDE DEF p, page
<1>8. marks = p
  BY <1>2, <1>3, <1>4, <1>6
<1> QED  BY <1>7, <1>8 DEF p, page

Seen(C, x, lines, line, words, word) ==
    /\ Parsed(C, x, lines, line, words, word)
    /\ Shown(C, Marks(C, x), OpenGap(C, x), Filled(Each(Words, lines)), Filled(words), word)

LEMMA PageIs ==
    ASSUME NEW C, NEW x, NEW lines, NEW line, NEW words, NEW word, Parsed(C, x, lines, line, words, word)
    PROVE  /\ Filled(Append(words, word)) = Line(Filled(words), word)
           /\ Filled(Each(Words, Append(lines, line))) = Page(Filled(Each(Words, lines)), Filled(words), word)
<1>1. /\ lines \in Seq(Seq(C)) /\ line \in Seq(C) /\ words \in Seq(Seq(C)) /\ word \in Seq(C)
      /\ Split(line, White) = Append(words, word)
  BY DEF Parsed
<1>2. Filled(Append(words, word)) = Line(Filled(words), word)
  BY <1>1, FilledAppend DEF Line
<1>3. Words(line) = Line(Filled(words), word)
  BY <1>1, <1>2 DEF Words
<1>4. Each(Words, Append(lines, line)) = Append(Each(Words, lines), Words(line))
  BY <1>1, EachWords
<1>5. Each(Words, lines) \in Seq(Seq(Seq(C))) /\ Words(line) \in Seq(Seq(C))
  BY <1>1, EachWordsTyped, WordsTyped
<1>6. Filled(Append(Each(Words, lines), Words(line))) =
          IF Words(line) = <<>> THEN Filled(Each(Words, lines)) ELSE Append(Filled(Each(Words, lines)), Words(line))
  <2> DEFINE D == Seq(C)
             a == Each(Words, lines)
             b == Words(line)
  <2>1. a \in Seq(Seq(D)) /\ b \in Seq(D)
    BY <1>5
  <2> HIDE DEF D, a, b
  <2>2. Filled(Append(a, b)) = IF b = <<>> THEN Filled(a) ELSE Append(Filled(a), b)
    BY <2>1, FilledAppend
  <2> QED  BY <2>2 DEF a, b
<1>7. Filled(Append(Each(Words, lines), Words(line))) = Page(Filled(Each(Words, lines)), Filled(words), word)
  BY <1>3, <1>6 DEF Page
<1> QED  BY <1>2, <1>4, <1>7

LEMMA SeenNext ==
    ASSUME NEW C, NEW x \in Seq(C), NEW c \in C, NEW lines, NEW line, NEW words, NEW word,
           Seen(C, x, lines, line, words, word)
    PROVE  \E lines1, line1, words1, word1 : Seen(C, Append(x, c), lines1, line1, words1, word1)
<1> DEFINE D == Filled(Each(Words, lines))
           F == Filled(words)
           m == Marks(C, x)
           o == OpenGap(C, x)
           more == Append(x, c)
<1>1. Parsed(C, x, lines, line, words, word) /\ Shown(C, m, o, D, F, word)
  BY DEF Seen
<1>2. Filled(Append(words, word)) = Line(F, word) /\ Filled(Each(Words, Append(lines, line))) = Page(D, F, word)
  BY <1>1, PageIs
<1>3. words \in Seq(Seq(C)) /\ word \in Seq(C)
  BY <1>1 DEF Parsed
<1>4. /\ c \in Lines => Marks(C, more) = m /\ OpenGap(C, more) = 2
      /\ c \in White \ Lines => Marks(C, more) = m /\ OpenGap(C, more) = IF o = 0 THEN 1 ELSE o
      /\ c \notin White => Marks(C, more) = Append(m, <<o, c>>) /\ OpenGap(C, more) = 0
  BY MarksMore
<1>5. /\ c \in Lines => Parsed(C, more, Append(lines, line), <<>>, <<>>, <<>>)
      /\ c \in White \ Lines => Parsed(C, more, lines, Append(line, c), Append(words, word), <<>>)
      /\ c \notin White => Parsed(C, more, lines, Append(line, c), words, Append(word, c))
  BY <1>1, ParsedAppend
<1> HIDE DEF D, F, m, o, more
<1>6. CASE c \in Lines
  <2>1. Shown(C, m, 2, Page(D, F, word), <<>>, <<>>)
    BY <1>1, ShownLine
  <2>2. Shown(C, Marks(C, more), OpenGap(C, more), Filled(Each(Words, Append(lines, line))), Filled(<<>>), <<>>)
    BY <1>2, <1>4, <1>6, <2>1, FilledEmpty
  <2>3. Seen(C, more, Append(lines, line), <<>>, <<>>, <<>>)
    BY <1>5, <1>6, <2>2 DEF Seen
  <2> QED  BY <2>3 DEF more
<1>7. CASE c \in White \ Lines
  <2>1. LineMarks(C, Line(F, word)) = <<>> <=> Line(F, word) = <<>>
    <3>1. Append(words, word) \in Seq(Seq(C))
      BY <1>3
    <3>2. LineMarks(C, Filled(Append(words, word))) = <<>> <=> Filled(Append(words, word)) = <<>>
      BY <3>1, LineMarksNone
    <3> QED  BY <1>2, <3>2
  <2>2. Shown(C, m, IF o = 0 THEN 1 ELSE o, D, Line(F, word), <<>>)
    BY <1>1, <2>1, ShownSpace
  <2>3. Shown(C, Marks(C, more), OpenGap(C, more), D, Filled(Append(words, word)), <<>>)
    BY <1>2, <1>4, <1>7, <2>2
  <2>4. Seen(C, more, lines, Append(line, c), Append(words, word), <<>>)
    BY <1>5, <1>7, <2>3 DEF Seen, D
  <2> QED  BY <2>4 DEF more
<1>8. CASE c \notin White
  <2>1. Shown(C, Append(m, <<o, c>>), 0, D, F, Append(word, c))
    BY <1>1, ShownChar
  <2>2. Shown(C, Marks(C, more), OpenGap(C, more), D, F, Append(word, c))
    BY <1>4, <1>8, <2>1
  <2>3. Seen(C, more, lines, Append(line, c), words, Append(word, c))
    BY <1>5, <1>8, <2>2 DEF Seen, D, F
  <2> QED  BY <2>3 DEF more
<1> QED  BY <1>6, <1>7, <1>8

LEMMA SeenAll ==
    ASSUME NEW C, NEW x \in Seq(C)
    PROVE  \E lines, line, words, word : Seen(C, x, lines, line, words, word)
<1> DEFINE Sight(s) == \E lines, line, words, word : Seen(C, s, lines, line, words, word)
           T == {s \in Seq(C) : Sight(s)}
<1>1. <<>> \in T
  <2>1. Parsed(C, <<>>, <<>>, <<>>, <<>>, <<>>)
    BY ParsedEmpty
  <2>2. Marks(C, <<>>) = <<>> /\ OpenGap(C, <<>>) = 2
    BY MarksStart
  <2>3. Filled(Each(Words, <<>>)) = <<>> /\ Filled(<<>>) = <<>>
    <3>1. Each(Words, <<>>) = <<>>
      BY DEF Each
    <3> QED  BY <3>1, FilledEmpty
  <2>4. <<>> \in Seq(Mark(C)) /\ <<>> \in Pages(C) /\ <<>> \in Seq(Seq(C)) /\ <<>> \in Seq(C)
    BY EmptySeq DEF Pages
  <2>5. PageMarks(C, <<>>) = <<>> /\ LineMarks(C, <<>>) = <<>> /\ Build(C, <<>>) = <<>>
    BY PageMarksMore, LineMarksMore, BuildEmpty
  <2>6. GapOf(<<>>, <<>>) = 2 /\ Page(<<>>, <<>>, <<>>) = <<>>
    BY DEF GapOf, Page, Line
  <2>7. WordMarks(<<>>, GapOf(<<>>, <<>>)) = <<>>
    <3>1. 2 \in 0..2
      OBVIOUS
    <3> QED  BY <2>4, <2>6, <3>1, WordMarksTyped
  <2>8. (<<>> \o <<>>) \o <<>> = <<>>
    BY <2>4, ConcatEmptySeq
  <2>9. Shown(C, <<>>, 2, <<>>, <<>>, <<>>)
    BY <2>4, <2>5, <2>6, <2>7, <2>8 DEF Shown
  <2>10. Seen(C, <<>>, <<>>, <<>>, <<>>, <<>>)
    BY <2>1, <2>2, <2>3, <2>9 DEF Seen
  <2> QED  BY <2>4, <2>10
<1>2. ASSUME NEW s \in Seq(C), NEW c \in C, s \in T PROVE Append(s, c) \in T
  <2>1. PICK lines, line, words, word : Seen(C, s, lines, line, words, word)
    BY <1>2
  <2>2. \E lines1, line1, words1, word1 : Seen(C, Append(s, c), lines1, line1, words1, word1)
    BY <2>1, SeenNext
  <2>3. Append(s, c) \in Seq(C)
    OBVIOUS
  <2> QED  BY <2>2, <2>3
<1>3. Seq(C) \subseteq T
  <2> HIDE DEF T
  <2> QED  BY <1>1, <1>2, SeqInduction
<1> QED  BY <1>3

LEMMA MarksAreWords ==
    ASSUME NEW C, NEW x \in Seq(C)
    PROVE  Build(C, Marks(C, x)) = WordsByLine(x) /\ Marks(C, x) = PageMarks(C, WordsByLine(x))
<1>1. PICK lines, line, words, word : Seen(C, x, lines, line, words, word)
  BY SeenAll
<1> DEFINE page == Page(Filled(Each(Words, lines)), Filled(words), word)
<1>2. Build(C, Marks(C, x)) = page /\ Marks(C, x) = PageMarks(C, page)
  BY <1>1, ShownPage DEF Seen
<1>3. Split(x, Lines) = Append(lines, line)
  BY <1>1 DEF Seen, Parsed
<1>4. WordsByLine(x) = page
  <2>1. Filled(Each(Words, Append(lines, line))) = page
    BY <1>1, PageIs DEF Seen
  <2> QED  BY <1>3, <2>1, WordsByLineIs
<1> QED  BY <1>2, <1>4

\* The words on the lines are what the standard checker compares.
LEMMA StandardIsWords ==
    ASSUME NEW C, NEW J \in Seq(C), NEW P \in Seq(C) PROVE StandardComparesWords(P, J)
<1>1. CheckStandard(J, P) <=> Marks(C, J) = Marks(C, P)
  BY StandardMarks
<1>2. /\ Build(C, Marks(C, J)) = WordsByLine(J) /\ Marks(C, J) = PageMarks(C, WordsByLine(J))
      /\ Build(C, Marks(C, P)) = WordsByLine(P) /\ Marks(C, P) = PageMarks(C, WordsByLine(P))
  BY MarksAreWords
<1> QED  BY <1>1, <1>2 DEF StandardComparesWords

\* What a function makes of the parts of an output.
LEMMA EachOf ==
    ASSUME NEW D, NEW parts \in Seq(D), NEW E, NEW W \in [D -> E]
    PROVE  /\ [i \in DOMAIN parts |-> W[parts[i]]] \in Seq(E)
           /\ Len([i \in DOMAIN parts |-> W[parts[i]]]) = Len(parts)
<1>1. DOMAIN parts = 1..Len(parts) /\ Len(parts) \in Nat /\ \A i \in 1..Len(parts) : parts[i] \in D
  BY LenProperties, ElementOfSeq
<1> DEFINE n == Len(parts)
           f == [i \in 1..n |-> W[parts[i]]]
<1>2. \A i \in 1..n : W[parts[i]] \in E
  BY <1>1
<1> HIDE DEF n
<1>3. n \in Nat
  BY <1>1 DEF n
<1>4. f \in Seq(E) /\ Len(f) = n
  BY <1>2, <1>3
<1> QED  BY <1>1, <1>4 DEF n

LEMMA StrippedSameWords ==
    ASSUME NEW C, NEW p \in Seq(C), NEW j \in Seq(C), RStripped(p, j, FALSE)
    PROVE  WordsByLine(p) = WordsByLine(j)
<1> DEFINE s == Split(p, Lines)
           t == Split(j, Lines)
           a == Each(RStrip, s)
           b == Each(RStrip, t)
<1>1. s \in Seq(Seq(C)) /\ t \in Seq(Seq(C))
  BY LinesTyped
<1>2. a = b
  BY DEF RStripped
<1>3. a = [i \in DOMAIN s |-> RStrip(s[i])] /\ b = [i \in DOMAIN t |-> RStrip(t[i])]
  BY DEF Each
<1> HIDE DEF a, b, s, t
<1>4. DOMAIN s = DOMAIN t
  <2>1. DOMAIN a = DOMAIN s /\ DOMAIN b = DOMAIN t
    BY <1>3
  <2> QED  BY <1>2, <2>1
<1>5. ASSUME NEW i \in DOMAIN s PROVE Words(s[i]) = Words(t[i])
  <2>1. a[i] = RStrip(s[i]) /\ b[i] = RStrip(t[i])
    BY <1>3, <1>4
  <2>2. s[i] \in Seq(C) /\ t[i] \in Seq(C)
    <3> DEFINE D == Seq(C)
    <3>1. s \in Seq(D) /\ t \in Seq(D)
      BY <1>1
    <3> HIDE DEF D
    <3>2. i \in 1..Len(s) /\ i \in 1..Len(t)
      BY <1>4, <3>1, LenProperties
    <3>3. s[i] \in D /\ t[i] \in D
      BY <3>1, <3>2, ElementOfSeq
    <3> QED  BY <3>3 DEF D
  <2>3. Words(RStrip(s[i])) = Words(s[i]) /\ Words(RStrip(t[i])) = Words(t[i])
    BY <2>2, RStripIs
  <2> QED  BY <1>2, <2>1, <2>3
<1>6. Each(Words, s) = Each(Words, t)
  BY <1>4, <1>5 DEF Each
<1>7. WordsByLine(p) = Filled(Each(Words, s)) /\ WordsByLine(j) = Filled(Each(Words, t))
  BY WordsByLineIs DEF s, t
<1> QED  BY <1>6, <1>7

LEMMA StandardSorts ==
    ASSUME NEW C, NEW p \in Seq(C), NEW j \in Seq(C), WordsByLine(p) = WordsByLine(j)
    PROVE  Sorted(p, j, "whitespace")
<1>1. Words(p) = Words(j)
  BY WordsOfWhole
<1>2. Words(j) \in Seq(Seq(C))
  BY WordsTyped
<1>3. SameSorted(Words(j), Words(j))
  <2> DEFINE D == Seq(C)
             s == Words(j)
  <2>1. s \in Seq(D)
    BY <1>2
  <2> HIDE DEF D, s
  <2>2. SameSorted(s, s)
    BY <2>1, SortsAlike
  <2> QED  BY <2>2 DEF s
<1> QED  BY <1>1, <1>3 DEF Sorted

LEMMA IdenticalIsStrict ==
    ASSUME NEW C, NEW j \in Seq(C)
    PROVE  RStripped(j, j, FALSE) /\ Sorted(j, j, "lines")
<1>1. Each(Words, SplitLines(j)) \in Seq(Seq(Seq(C)))
  BY WordsOfWhole
<1>2. SameSorted(Each(Words, SplitLines(j)), Each(Words, SplitLines(j)))
  <2> DEFINE D == Seq(Seq(C))
             s == Each(Words, SplitLines(j))
  <2>1. s \in Seq(D)
    BY <1>1
  <2> HIDE DEF D, s
  <2>2. SameSorted(s, s)
    BY <2>1, SortsAlike
  <2> QED  BY <2>2 DEF s
<1> QED  BY <1>2 DEF RStripped, Sorted

(***************************************************************************)
(* Numbers.                                                                *)
(***************************************************************************)
LEMMA AbsIs == ASSUME NEW n \in Int PROVE Abs(n) \in Nat /\ (Abs(n) = n \/ Abs(n) = -n) /\ n <= Abs(n) /\ -n <= Abs(n)
BY DEF Abs

LEMMA RelativeIsDefault ==
    ASSUME NEW p \in Int, NEW j \in Int, NEW e \in Nat, NEW o \in Nat \ {0}, e <= o,
           Abs(p - j) * o <= e * Abs(j)
    PROVE  \/ Abs(p - j) <= e
           \/ Abs(j) >= e /\ j # 0
<1> DEFINE d == Abs(p - j)
           m == Abs(j)
<1>1. d \in Nat /\ m \in Nat /\ (m = 0 <=> j = 0)
  <2>1. p - j \in Int
    OBVIOUS
  <2> QED  BY <2>1, AbsIs DEF Abs
<1> HIDE DEF d, m
<1>2. d * o <= e * m
  BY DEF d, m
<1>3. ASSUME j = 0, ~(d <= e) PROVE FALSE
  <2>1. m = 0 /\ e * m = 0
    BY <1>1, <1>3
  <2>2. d * o <= 0 /\ d >= 1
    BY <1>1, <1>2, <1>3, <2>1
  <2>3. d * o >= 1
    BY <1>1, <2>2
  <2>4. d * o \in Int
    BY <1>1
  <2> QED  BY <2>2, <2>3, <2>4
<1>4. ASSUME m < e, ~(d <= e) PROVE FALSE
  <2>1. d >= e + 1
    BY <1>1, <1>4
  <2>2. e * m <= o * m
    BY <1>1
  <2>3. d * o >= (m + 1) * o
    BY <1>1, <1>4, <2>1
  <2>4. (m + 1) * o = o * m + o
    BY <1>1
  <2>5. e * m \in Int /\ o * m \in Int /\ d * o \in Int
    BY <1>1
  <2> QED  BY <1>2, <2>2, <2>3, <2>4, <2>5
<1>5. d <= e \/ (m >= e /\ j # 0)
  BY <1>1, <1>3, <1>4
<1> QED  BY <1>5 DEF d, m

LEMMA RelativeBounds ==
    ASSUME NEW p \in Int, NEW j \in Int, NEW e \in Nat, e <= One, VerifyRelative(p, j, e), One \in Nat \ {0}
    PROVE  Abs(p - j) * One <= e * Abs(j)
<1> DEFINE o == One
           l == j * (o - e)
           r == j * (o + e)
           x == p * o
           y == j * o
           z == j * e
<1>1. o \in Nat /\ l \in Int /\ r \in Int /\ x \in Int /\ y \in Int /\ z \in Int
  OBVIOUS
<1>2. (l <= x \/ r <= x) /\ (x <= l \/ x <= r)
  BY DEF VerifyRelative
<1>3. l = y - z /\ r = y + z
  OBVIOUS
<1>4. (p - j) * o = x - y /\ (j - p) * o = y - x
  OBVIOUS
<1>5. z <= e * Abs(j) /\ -z <= e * Abs(j) /\ e * Abs(j) \in Int
  <2>1. CASE j < 0
    BY <2>1 DEF Abs
  <2>2. CASE ~(j < 0)
    BY <2>2 DEF Abs
  <2> QED  BY <2>1, <2>2
<1>6. Abs(p - j) * o = x - y \/ Abs(p - j) * o = y - x
  <2>1. -(p - j) = j - p
    OBVIOUS
  <2> QED  BY <1>4, <2>1 DEF Abs
<1> HIDE DEF o, l, r, x, y, z
<1>7. Abs(p - j) * o <= e * Abs(j)
  <2> DEFINE a == Abs(p - j) * o
             b == e * Abs(j)
  <2> HIDE DEF a, b
  <2>1. a = x - y \/ a = y - x
    BY <1>6 DEF a
  <2>2. z <= b /\ -z <= b /\ b \in Int
    BY <1>5 DEF b
  <2>3. a <= b
    BY <1>1, <1>2, <1>3, <2>1, <2>2
  <2> QED  BY <2>3 DEF a, b
<1> QED  BY <1>7 DEF o

LEMMA LaxVerify ==
    ASSUME NEW p \in Int, NEW j \in Int, NEW e \in Nat, e <= One, NEW mode \in {"absolute", "relative"},
           VerifyFinite(mode, p, j, e), One \in Nat \ {0}
    PROVE  VerifyFinite("default", p, j, e)
<1>1. VerifyFinite("default", p, j, e) <=> VerifyDefault(p, j, e)
  BY DEF VerifyFinite
<1>2. CASE mode = "absolute"
  <2>1. VerifyAbsolute(p, j, e)
    BY <1>2 DEF VerifyFinite
  <2> QED  BY <1>1, <2>1 DEF VerifyAbsolute, VerifyDefault
<1>3. CASE mode = "relative"
  <2>1. VerifyRelative(p, j, e)
    BY <1>3 DEF VerifyFinite
  <2>2. Abs(p - j) * One <= e * Abs(j)
    BY <2>1, RelativeBounds
  <2>3. \/ Abs(p - j) <= e
        \/ Abs(j) >= e /\ j # 0
    BY <2>2, RelativeIsDefault
  <2>4. Abs(j - p) = Abs(p - j)
    BY DEF Abs
  <2> QED  BY <1>1, <2>2, <2>3, <2>4 DEF VerifyDefault
<1> QED  BY <1>2, <1>3

LEMMA LaxToken ==
    ASSUME NEW p, NEW j, NEW e \in Nat, e <= One, NEW mode \in {"absolute", "relative"},
           TokenMatches(mode, p, j, e), mode = "absolute" \/ ~IsInfinite(j)
    PROVE  TokenMatches("default", p, j, e)
<1>1. CASE ~IsNumber(j)
  BY <1>1 DEF TokenMatches
<1>2. CASE IsNumber(j)
  <2>1. /\ IsNumber(p) /\ {p[1], j[1]} \cap Nan = {}
        /\ Verify(mode, p[1], j[1], e)
    BY <1>2 DEF TokenMatches
  <2>2. {p[1], j[1]} \cap DOMAIN Infinite = {} /\ VerifyFinite(mode, Number[p[1]], Number[j[1]], e)
    <3>1. CASE mode = "absolute"
      BY <2>1, <3>1 DEF Verify, VerifyInfinite
    <3>2. CASE mode = "relative" /\ j[1] \notin DOMAIN Infinite
      BY <2>1, <3>2 DEF Verify, VerifyInfinite
    <3> QED  BY <1>2, <3>1, <3>2 DEF IsInfinite, IsNumber
  <2>3. p[1] \in DOMAIN Number /\ j[1] \in DOMAIN Number
    BY <1>2, <2>1, <2>2 DEF IsNumber
  <2>4. Number[p[1]] \in Int /\ Number[j[1]] \in Int /\ One \in Nat \ {0}
    BY <2>3, NumbersAssumption
  <2>5. VerifyFinite("default", Number[p[1]], Number[j[1]], e)
    BY <2>2, <2>4, LaxVerify
  <2>6. Verify("default", p[1], j[1], e)
    BY <2>2, <2>5 DEF Verify
  <2> QED  BY <1>2, <2>1, <2>6 DEF TokenMatches
<1> QED  BY <1>1, <1>2

\* An infinity that the relative error mode takes is refused by default.
LEMMA InfiniteToken ==
    ASSUME NEW p, NEW j, NEW e, IsInfinite(j), TokenMatches("relative", p, j, e)
    PROVE  ~TokenMatches("default", p, j, e)
<1>1. IsNumber(j) /\ j[1] \in DOMAIN Infinite
  BY DEF IsInfinite, IsNumber
<1>2. Verify("relative", p[1], j[1], e)
  BY <1>1 DEF TokenMatches
<1>3. p[1] \in DOMAIN Infinite
  BY <1>1, <1>2 DEF Verify, VerifyInfinite
<1>4. ~Verify("default", p[1], j[1], e)
  BY <1>1, <1>3 DEF Verify, VerifyInfinite
<1> QED  BY <1>1, <1>4 DEF TokenMatches

LEMMA LaxFloats ==
    ASSUME NEW p, NEW j, NEW e \in Nat, e <= One, NEW mode \in {"absolute", "relative"}, Floats(p, j, mode, e)
    PROVE  /\ mode = "absolute" \/ ~HasInfinity(j) => Floats(p, j, "default", e)
           /\ mode = "relative" /\ HasInfinity(j) => ~Floats(p, j, "default", e)
<1> DEFINE ps == Each(Words, SplitLines(p))
           js == Each(Words, SplitLines(j))
<1>1. /\ Len(ps) = Len(js)
      /\ \A l \in DOMAIN js :
            /\ Len(ps[l]) = Len(js[l])
            /\ \A k \in DOMAIN js[l] : TokenMatches(mode, ps[l][k], js[l][k], e)
  BY DEF Floats
<1>2. HasInfinity(j) <=> \E l \in DOMAIN js : \E k \in DOMAIN js[l] : IsInfinite(js[l][k])
  BY DEF HasInfinity, ToSet, Each
<1>3. Floats(p, j, "default", e) =>
        \A l \in DOMAIN js : \A k \in DOMAIN js[l] : TokenMatches("default", ps[l][k], js[l][k], e)
  BY DEF Floats
<1> HIDE DEF ps, js
<1>4. CASE mode = "absolute" \/ ~HasInfinity(j)
  <2>1. \A l \in DOMAIN js : \A k \in DOMAIN js[l] : TokenMatches("default", ps[l][k], js[l][k], e)
    BY <1>1, <1>2, <1>4, LaxToken
  <2> QED  BY <1>1, <1>4, <2>1 DEF Floats, ps, js
<1>5. CASE mode = "relative" /\ HasInfinity(j)
  <2>1. PICK l \in DOMAIN js : \E k \in DOMAIN js[l] : IsInfinite(js[l][k])
    BY <1>2, <1>5
  <2>2. PICK k \in DOMAIN js[l] : IsInfinite(js[l][k])
    BY <2>1
  <2>3. ~TokenMatches("default", ps[l][k], js[l][k], e)
    BY <1>1, <1>5, <2>2, InfiniteToken
  <2> QED  BY <1>3, <1>5, <2>3
<1> QED  BY <1>4, <1>5

\* A checker takes what a stricter one takes.
LEMMA StricterIsLess ==
    ASSUME NEW C, NEW p \in Seq(C), NEW j \in Seq(C), NEW e \in Nat, e <= One
    PROVE  StricterAcceptsLess(p, j, e)
<1>1. CheckStandard(j, p) <=> WordsByLine(p) = WordsByLine(j)
  BY StandardIsWords DEF StandardComparesWords
<1>2. Identical(p, j) => RStripped(p, j, FALSE) /\ Sorted(p, j, "lines")
  <2>1. RStripped(j, j, FALSE) /\ Sorted(j, j, "lines")
    BY IdenticalIsStrict
  <2> QED  BY <2>1 DEF Identical
<1>3. RStripped(p, j, FALSE) => CheckStandard(j, p)
  BY <1>1, StrippedSameWords
<1>4. CheckStandard(j, p) => Sorted(p, j, "whitespace")
  BY <1>1, StandardSorts
<1>5. Sorted(p, j, "lines") => Sorted(p, j, "whitespace")
  BY LinesSortWords
<1>6. Sorted(p, j, "whitespace") => Easy(p, j)
  BY WordsSortChars
<1>7. /\ Floats(p, j, "absolute", e) => Floats(p, j, "default", e)
      /\ Floats(p, j, "relative", e) => (Floats(p, j, "default", e) <=> ~HasInfinity(j))
  BY LaxFloats
<1> QED  BY <1>2, <1>3, <1>4, <1>5, <1>6, <1>7 DEF StricterAcceptsLess

LEMMA StripsTyped ==
    ASSUME NEW C, NEW x \in Seq(C)
    PROVE  /\ DOMAIN Each(Strip, SplitLines(x)) = 1..Len(Each(Strip, SplitLines(x)))
           /\ Len(Each(Strip, SplitLines(x))) \in Nat
           /\ (Each(Strip, SplitLines(x)) = <<>> <=> Len(Each(Strip, SplitLines(x))) = 0)
<1> DEFINE D == Seq(C)
           parts == SplitLines(x)
           W == [line \in D |-> Strip(line)]
           E == {Strip(line) : line \in D}
           s == [i \in DOMAIN parts |-> W[parts[i]]]
<1>1. parts \in Seq(D)
  BY LinesTyped DEF SplitLines
<1>2. W \in [D -> E]
  OBVIOUS
<1>3. Each(Strip, SplitLines(x)) = s
  <2>1. \A i \in DOMAIN parts : parts[i] \in D
    <3> HIDE DEF D, parts
    <3> QED  BY <1>1, LenProperties, ElementOfSeq
  <2>2. \A i \in DOMAIN parts : W[parts[i]] = Strip(parts[i])
    BY <2>1
  <2> HIDE DEF W
  <2> QED  BY <2>2 DEF Each
<1>4. s \in Seq(E)
  <2> HIDE DEF D, E, W, parts
  <2> QED  BY <1>1, <1>2, EachOf
<1> HIDE DEF s, E
<1>5. DOMAIN s = 1..Len(s) /\ Len(s) \in Nat /\ (s = <<>> <=> Len(s) = 0)
  BY <1>4, LenProperties, EmptySeq
<1> QED  BY <1>3, <1>5

LEMMA LineCountIsFair ==
    ASSUME NEW C, NEW p \in Seq(C), NEW j \in Seq(C)
    PROVE  LineCount(p, j).points <= LineCount(p, j).of /\ (LineCount(p, j).passed <=> LineCount(p, j).points = LineCount(p, j).of)
<1> DEFINE ps == Each(Strip, SplitLines(p))
           js == Each(Strip, SplitLines(j))
           same == {i \in DOMAIN ps \cap DOMAIN js : ps[i] = js[i]}
           count == Cardinality(same)
           given == LineCount(p, j)
<1>1. Len(ps) \in Nat /\ Len(js) \in Nat /\ DOMAIN js = 1..Len(js)
  BY StripsTyped
<1>2. given = CASE Len(ps) > Len(js) -> [passed |-> FALSE, points |-> 0, of |-> 1]
                [] Len(ps) <= Len(js) /\ js = <<>> -> [passed |-> TRUE, points |-> 1, of |-> 1]
                [] OTHER -> [passed |-> count = Len(js), points |-> count, of |-> Len(js)]
  BY DEF LineCount
<1>3. count <= Len(js)
  <2>1. same \in SUBSET (1..Len(js))
    BY <1>1
  <2> HIDE DEF same, js
  <2>2. \A n \in Nat : IsFiniteSet(1..n) /\ Cardinality(1..n) = n
    <3> SUFFICES ASSUME NEW n \in Nat PROVE IsFiniteSet(1..n) /\ Cardinality(1..n) = n
      OBVIOUS
    <3>1. IsFiniteSet(1..n) /\ Cardinality(1..n) = IF 1 > n THEN 0 ELSE n - 1 + 1
      BY FS_Interval
    <3> QED  BY <3>1
  <2>3. IsFiniteSet(1..Len(js)) /\ Cardinality(1..Len(js)) = Len(js)
    BY <1>1, <2>2
  <2>4. Cardinality(same) <= Cardinality(1..Len(js))
    BY <2>1, <2>3, FS_Subset
  <2> QED  BY <2>3, <2>4
<1> HIDE DEF ps, js, same, count, given
<1>4. CASE Len(ps) > Len(js)
  <2>1. given = [passed |-> FALSE, points |-> 0, of |-> 1]
    BY <1>1, <1>2, <1>4
  <2>2. given.points <= given.of /\ (given.passed <=> given.points = given.of)
    BY <2>1
  <2> QED  BY <2>2 DEF given
<1>5. CASE Len(ps) <= Len(js) /\ js = <<>>
  <2>1. given = [passed |-> TRUE, points |-> 1, of |-> 1]
    BY <1>1, <1>2, <1>5
  <2>2. given.points <= given.of /\ (given.passed <=> given.points = given.of)
    BY <2>1
  <2> QED  BY <2>2 DEF given
<1>6. CASE ~(Len(ps) > Len(js)) /\ ~(Len(ps) <= Len(js) /\ js = <<>>)
  <2>1. given = [passed |-> count = Len(js), points |-> count, of |-> Len(js)]
    BY <1>1, <1>2, <1>6
  <2>2. given.points <= given.of /\ (given.passed <=> given.points = given.of)
    BY <1>3, <2>1
  <2> QED  BY <2>2 DEF given
<1> QED  BY <1>4, <1>5, <1>6

\* What no mode of floats takes.
LEMMA NanIsRefused ==
    ASSUME NEW C, NEW p \in Seq(C), NEW j \in Seq(C), NEW e, Floats(p, j, "default", e), NEW c \in Nan
    PROVE  <<c>> \notin ToSet(Words(j))
<1> DEFINE D == Seq(C)
           ps == Each(Words, SplitLines(p))
           js == Each(Words, SplitLines(j))
           flat == Words(j)
<1>1. js \in Seq(Seq(D)) /\ Flat(D, js) = flat
  BY WordsOfWhole
<1>2. \A l \in DOMAIN js : \A k \in DOMAIN js[l] : TokenMatches("default", ps[l][k], js[l][k], e)
  BY DEF Floats
<1> SUFFICES ASSUME <<c>> \in ToSet(flat) PROVE FALSE
  OBVIOUS
<1>3. PICK n \in DOMAIN flat : flat[n] = <<c>>
  BY DEF ToSet
<1> HIDE DEF D, ps, js, flat
<1>4. PICK row, col, place : LaidOut(js, flat, row, col, place)
  BY <1>1, FlatLaidOut
<1>5. row[n] \in DOMAIN js /\ col[n] \in DOMAIN js[row[n]] /\ <<c>> = js[row[n]][col[n]]
  BY <1>3, <1>4 DEF LaidOut
<1>6. TokenMatches("default", ps[row[n]][col[n]], <<c>>, e)
  BY <1>2, <1>5
<1>7. IsNumber(<<c>>) /\ <<c>>[1] = c
  BY DEF IsNumber
<1> QED  BY <1>6, <1>7 DEF TokenMatches

LEMMA PointsStayFair ==
    ASSUME NEW C, NEW p \in Seq(C), NEW j \in Seq(C), NEW e PROVE PointsAreFair(p, j, e)
BY LineCountIsFair, NanIsRefused DEF PointsAreFair
=============================================================================
