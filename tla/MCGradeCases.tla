---------------------------- MODULE MCGradeCases ----------------------------
(***************************************************************************)
(* All small problems: up to three items, of one case or of a batch of up  *)
(* to two cases, worth points or not, with any dependencies.               *)
(***************************************************************************)
EXTENDS GradeCases

Single(zero) == [batched |-> FALSE, zeros |-> <<zero>>, dependencies |-> {}]
Batch(zeros, deps) == [batched |-> TRUE, zeros |-> zeros, dependencies |-> deps]

Zeros == {<<>>, <<FALSE>>, <<TRUE>>, <<FALSE, FALSE>>, <<TRUE, FALSE>>, <<FALSE, TRUE>>}
MCItems ==
    {Single(z) : z \in BOOLEAN} \cup {Batch(z, d) : z \in Zeros, d \in SUBSET (1..2)}

UpTo(n, S) == UNION {[1..k -> S] : k \in 0..n}

Fits(items, counter) == Accepted(Resolve(items, counter))

\* Problems without pretests.
MCTestsOnly ==
    {[tests |-> t, pretests |-> <<>>, pretestsOnly |-> FALSE] :
        t \in {u \in UpTo(3, MCItems) : u # <<>> /\ Fits(u, 0)}}

\* Problems with pretests, of fewer kinds of item.
FewItems ==
    {Single(FALSE), Batch(<<FALSE>>, {}), Batch(<<FALSE, FALSE>>, {}), Batch(<<FALSE>>, {1})}

MCWithPretests ==
    {[tests |-> t, pretests |-> q, pretestsOnly |-> o] :
        t \in {u \in UpTo(2, FewItems) : u # <<>> /\ Fits(u, 0)},
        q \in {u \in UpTo(2, FewItems) : u # <<>> /\ Fits(u, 0)}, o \in BOOLEAN}

MCProblems == MCTestsOnly \cup MCWithPretests
=============================================================================
