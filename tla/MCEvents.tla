-------------------------------- MODULE MCEvents ---------------------------------
(***************************************************************************)
(* Detection's events on small instances.  One anchor stands for both: the *)
(* rules only ask whether all of them failed.                              *)
(***************************************************************************)
EXTENDS Events

Up == [t \in {"gateway", "anchor"} |-> TRUE]
Down == [t \in {"gateway", "anchor"} |-> FALSE]
Upstream == [gateway |-> TRUE, anchor |-> FALSE]
Filtered == [gateway |-> TRUE, anchor |-> FALSE, http |-> TRUE]

FewReadings == {Up, Down, Upstream, Filtered}
=============================================================================
