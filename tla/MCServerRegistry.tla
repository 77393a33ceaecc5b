---------------------------- MODULE MCServerRegistry ----------------------------
(* Instances of ServerRegistry for TLC.                                       *)
EXTENDS ServerRegistry, TLC

MCTtl == [inventory |-> 2, metrics |-> 1]

\* The second report measures the boot time a little later than the others.
MCOffset == <<0, 1, 0>>

\* The first report lacks the agent's start, the second may lack the boot time.
MCLacking == <<{{"started"}}, {{}, {"boot"}}, {{}}>>

Symmetry == Permutations(Handlers)
=============================================================================
