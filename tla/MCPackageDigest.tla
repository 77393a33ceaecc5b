---------------------------- MODULE MCPackageDigest ----------------------------
(* Instances of PackageDigest for TLC.                                        *)
EXTENDS PackageDigest, TLC

CONSTANTS a, b, c

\* Two contents of the same length, and one of another.
MCContents == {a, b, c}
MCSize == (a :> 1) @@ (b :> 1) @@ (c :> 2)

Symmetry == Permutations(Requests) \cup Permutations(Paths) \cup Permutations(Tags)
=============================================================================
