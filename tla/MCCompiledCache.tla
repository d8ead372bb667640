---------------------------- MODULE MCCompiledCache ----------------------------
(***************************************************************************)
(* CompiledCache for TLC: executors are interchangeable, and so are the    *)
(* two sources that share a key.                                           *)
(***************************************************************************)
EXTENDS CompiledCache, TLC

CONSTANTS s1, s2, s3, k1, k2

MCSources == {s1, s2, s3}
MCKey == (s1 :> k1) @@ (s2 :> k1) @@ (s3 :> k2)

Symmetry == Permutations(Objects) \cup Permutations({s1, s2})
=============================================================================
