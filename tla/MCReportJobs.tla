---------------------------- MODULE MCReportJobs ----------------------------
(* Instances of ReportJobs: a selection "both" of two servers, whose own    *)
(* reports are "one" and "two".                                             *)
EXTENDS ReportJobs, TLC

MCInputs == {"both", "one", "two"}

MCChildren == [i \in MCInputs |-> IF i = "both" THEN {"one", "two"} ELSE {}]

NoChildren == [i \in Inputs |-> {}]

Symmetry == Permutations(Inputs) \cup Permutations(Requests) \cup Permutations(Workers)
=============================================================================
