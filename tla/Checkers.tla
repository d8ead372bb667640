------------------------------ MODULE Checkers ------------------------------
(***************************************************************************)
(* The checkers of dmoj/checkers: what each accepts of a process output,   *)
(* given the output of the judge.  An output is a sequence of characters;  *)
(* a number is a character of its own (Number), in units of which One make *)
(* 1.0; Infinite is one or the other infinity, and Nan is not a number.    *)
(***************************************************************************)
EXTENDS Integers, Sequences, FiniteSets, SequencesExt

CONSTANTS
    Number,      \* the characters that float() reads, to their values
    Infinite,    \* the characters that float() reads as an infinity, to its sign
    Nan,         \* the characters that float() reads as NaN
    Upper,       \* the capital letters, to the small ones
    One          \* units in 1.0

\* Numbers are multiples of a unit that divides 1.0.
ASSUME NumbersAssumption ==
    /\ One \in Nat \ {0} /\ \A c \in DOMAIN Number : Number[c] \in Int
    /\ \A c \in DOMAIN Infinite : Infinite[c] \in {-1, 1}

Lines == {"\n", "\r"}
White == Lines \cup {" ", "\t"}

---------------------------------------------------------------------------
(* _checker.c: two positions that move over the outputs word by word. *)

\* skip_spaces: the next character that is not white, and what was passed.
Skip(str, pos) ==
    CHOOSE q \in pos..(Len(str) + 1) :
        /\ q <= Len(str) => str[q] \notin White
        /\ \A i \in pos..(q - 1) : str[i] \in White

Gap(str, pos) ==
    IF \E i \in pos..(Skip(str, pos) - 1) : str[i] \in Lines THEN 2
    ELSE IF Skip(str, pos) = pos THEN 0 ELSE 1

\* The first position after the word at pos.
WordEnd(str, pos) ==
    CHOOSE q \in pos..(Len(str) + 1) :
        /\ q <= Len(str) => str[q] \in White
        /\ \A i \in pos..(q - 1) : str[i] \notin White

\* One turn of the loop, at positions j and p.
Compare(judge, process, at) ==
    LET j == Skip(judge, at.j)
        p == Skip(process, at.p)
        size == WordEnd(judge, j) - j
        same == /\ Gap(judge, at.j) = Gap(process, at.p)
                /\ p + size - 1 <= Len(process)
                /\ \A i \in 0..(size - 1) : judge[j + i] = process[p + i]
        return(result) == [at EXCEPT !.result = result]
    IN  IF at.result # "none" THEN at
        ELSE IF j > Len(judge) /\ p > Len(process) THEN return("accepted")
        ELSE IF j > Len(judge) \/ p > Len(process) \/ ~same THEN return("rejected")
        ELSE [at EXCEPT !.j = j + size, !.p = p + size]

\* A turn that does not return passes a word.
CheckStandard(judge, process) ==
    LET turn[n \in 0..(Len(judge) + 1)] ==
            IF n = 0 THEN [j |-> Skip(judge, 1), p |-> Skip(process, 1), result |-> "none"]
            ELSE Compare(judge, process, turn[n - 1])
    IN  turn[Len(judge) + 1].result = "accepted"

---------------------------------------------------------------------------
(* The checkers in Python work on lines and words. *)

Split(str, at) ==
    LET parts[n \in 0..Len(str)] ==
            IF n = 0 THEN << <<>> >>
            ELSE LET before == parts[n - 1] IN
                 IF str[n] \in at THEN Append(before, <<>>)
                 ELSE [before EXCEPT ![Len(before)] = Append(@, str[n])]
    IN  parts[Len(str)]

\* filter
Sifted(seq, out) ==
    LET kept[n \in 0..Len(seq)] ==
            IF n = 0 THEN <<>>
            ELSE IF seq[n] \in out THEN kept[n - 1] ELSE Append(kept[n - 1], seq[n])
    IN  kept[Len(seq)]

Filled(parts) == Sifted(parts, {<<>>})

SplitLines(str) == Filled(Split(str, Lines))
Words(str) == Filled(Split(str, White))
Each(Op(_), parts) == [i \in DOMAIN parts |-> Op(parts[i])]

\* Two lists that are equal once both are sorted.
SameSorted(s, t) ==
    /\ Len(s) = Len(t)
    /\ \A x \in ToSet(s) :
          Cardinality({i \in DOMAIN s : s[i] = x}) = Cardinality({i \in DOMAIN t : t[i] = x})

RStrip(line) ==
    SubSeq(line, 1, CHOOSE n \in 0..Len(line) :
                        /\ n > 0 => line[n] \notin White
                        /\ \A i \in (n + 1)..Len(line) : line[i] \in White)

Strip(line) == LET kept == RStrip(line) IN SubSeq(kept, Skip(kept, 1), Len(kept))

Identical(process, judge) == process = judge

RStripped(process, judge, filter_new_line) ==
    LET of(str) == IF filter_new_line THEN SplitLines(str) ELSE Split(str, Lines)
    IN  Each(RStrip, of(process)) = Each(RStrip, of(judge))

Sorted(process, judge, split_on) ==
    IF split_on = "lines"
    THEN SameSorted(Each(Words, SplitLines(process)), Each(Words, SplitLines(judge)))
    ELSE SameSorted(Words(process), Words(judge))

Easy(process, judge) ==
    LET small(c) == IF c \in DOMAIN Upper THEN Upper[c] ELSE c
        all(str) == Each(small, Sifted(str, White))
    IN  SameSorted(all(process), all(judge))

---------------------------------------------------------------------------
(* floats: epsilon in the same units as the numbers.  Numbers are exact:   *)
(* what rounding and overflow do to a float near a bound is left out.      *)

Abs(n) == IF n < 0 THEN -n ELSE n

VerifyAbsolute(p, j, epsilon) == Abs(p - j) <= epsilon

VerifyRelative(p, j, epsilon) ==
    LET ends == {j * (One - epsilon), j * (One + epsilon)} IN
    (\E e \in ends : e <= p * One) /\ (\E e \in ends : p * One <= e)

VerifyDefault(p, j, epsilon) ==
    \/ Abs(p - j) <= epsilon
    \/ Abs(j) >= epsilon /\ j # 0 /\ Abs(j - p) * One <= epsilon * Abs(j)

VerifyFinite(mode, p, j, epsilon) ==
    CASE mode = "absolute" -> VerifyAbsolute(p, j, epsilon)
      [] mode = "relative" -> VerifyRelative(p, j, epsilon)
      [] mode = "default" -> VerifyDefault(p, j, epsilon)

\* With an infinity, differences and quotients are NaN, infinite or 0, and so are the
\* bounds of verify_relative: it takes the infinity of the judge, unless 1 - epsilon is 0.
VerifyInfinite(mode, p, j, epsilon) ==
    CASE mode = "absolute" -> FALSE
      [] mode = "relative" -> {p, j} \subseteq DOMAIN Infinite /\ Infinite[p] = Infinite[j] /\ epsilon < One
      [] mode = "default" -> p \notin DOMAIN Infinite /\ epsilon >= One

Verify(mode, p, j, epsilon) ==
    IF {p, j} \cap DOMAIN Infinite = {} THEN VerifyFinite(mode, Number[p], Number[j], epsilon)
    ELSE VerifyInfinite(mode, p, j, epsilon)

\* A word of one character may be a number; any other word must match exactly.
IsNumber(word) == Len(word) = 1 /\ word[1] \in DOMAIN Number \cup DOMAIN Infinite \cup Nan
IsInfinite(word) == Len(word) = 1 /\ word[1] \in DOMAIN Infinite

TokenMatches_Exact(mode, p, j, epsilon) ==
    p = j \/ (IsNumber(p) /\ IsNumber(j) /\ {p[1], j[1]} \cap Nan = {}
              /\ Verify(mode, p[1], j[1], epsilon))

TokenMatches(mode, p, j, epsilon) ==
    IF ~IsNumber(j) THEN p = j
    ELSE /\ IsNumber(p) /\ {p[1], j[1]} \cap Nan = {}
         /\ Verify(mode, p[1], j[1], epsilon)

Floats(process, judge, mode, epsilon) ==
    LET ps == Each(Words, SplitLines(process))
        js == Each(Words, SplitLines(judge))
    IN  /\ Len(ps) = Len(js)
        /\ \A l \in DOMAIN js :
              /\ Len(ps[l]) = Len(js[l])
              /\ \A k \in DOMAIN js[l] : TokenMatches(mode, ps[l][k], js[l][k], epsilon)

---------------------------------------------------------------------------
(* Checkers that give part of the points: passed, and points out of of. *)

LineCount(process, judge) ==
    LET ps == Each(Strip, SplitLines(process))
        js == Each(Strip, SplitLines(judge))
        count == Cardinality({i \in DOMAIN ps \cap DOMAIN js : ps[i] = js[i]})
    IN  CASE Len(ps) > Len(js) -> [passed |-> FALSE, points |-> 0, of |-> 1]
          [] Len(ps) <= Len(js) /\ js = <<>> -> [passed |-> TRUE, points |-> 1, of |-> 1]
          [] OTHER -> [passed |-> count = Len(js), points |-> count, of |-> Len(js)]

\* The distribution gives each line of the judge one point.
LineMatches(process, judge, filler_lines_required) ==
    LET ps == SplitLines(process)
        js == SplitLines(judge)
        points == Cardinality({i \in DOMAIN ps \cap DOMAIN js : ps[i] = js[i]})
    IN  IF filler_lines_required /\ Len(ps) # Len(js) THEN [passed |-> FALSE, points |-> 0, of |-> 1]
        ELSE [passed |-> points > 0, points |-> points, of |-> Len(js)]

---------------------------------------------------------------------------
\* The words of an output, line by line, without the lines that are white.
WordsByLine(str) == Filled(Each(Words, SplitLines(str)))

(***************************************************************************)
(* The standard checker, for all its moving of two positions, accepts      *)
(* exactly the outputs with the same words on the same lines.              *)
(***************************************************************************)
StandardComparesWords(process, judge) ==
    CheckStandard(judge, process) <=> WordsByLine(process) = WordsByLine(judge)

HasInfinity(str) == \E line \in ToSet(SplitLines(str)) : \E word \in ToSet(Words(line)) : IsInfinite(word)

(***************************************************************************)
(* From strict to lax: a checker never rejects what a stricter one takes.  *)
(* The relative error mode of floats is stricter than the default one just *)
(* where the judge has no infinity: that one it takes, the other refuses.  *)
(***************************************************************************)
StricterAcceptsLess(process, judge, epsilon) ==
    /\ Identical(process, judge) => RStripped(process, judge, FALSE) /\ Sorted(process, judge, "lines")
    /\ RStripped(process, judge, FALSE) => CheckStandard(judge, process)
    /\ CheckStandard(judge, process) => Sorted(process, judge, "whitespace")
    /\ Sorted(process, judge, "lines") => Sorted(process, judge, "whitespace")
    /\ Sorted(process, judge, "whitespace") => Easy(process, judge)
    /\ Floats(process, judge, "absolute", epsilon) => Floats(process, judge, "default", epsilon)
    /\ Floats(process, judge, "relative", epsilon) =>
          (Floats(process, judge, "default", epsilon) <=> ~HasInfinity(judge))

(***************************************************************************)
(* Points are a share of the case's, a NaN is never taken, and linecount   *)
(* gives all the points just when it passes.                               *)
(***************************************************************************)
PointsAreFair(process, judge, epsilon) ==
    LET count == LineCount(process, judge) IN
    /\ count.points <= count.of
    /\ count.passed <=> count.points = count.of
    /\ Floats(process, judge, "default", epsilon) => \A c \in Nan : <<c>> \notin ToSet(Words(judge))
=============================================================================
