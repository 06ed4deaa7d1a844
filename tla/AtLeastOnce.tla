------------------------------- MODULE AtLeastOnce -------------------------------
(***************************************************************************)
(* What the agent and the server promise together: a measurement is kept   *)
(* by the probe until a copy of it is at the server, and the only other    *)
(* way it may go is that the probe drops it openly, to bound its disk.     *)
(* A copy may arrive more than once, and even after the probe has dropped  *)
(* the row.                                                                *)
(***************************************************************************)
EXTENDS Integers

CONSTANT Ids      \* measurements

VARIABLES
    measured,     \* taken so far
    held,         \* in the probe's spool
    delivered,    \* at the server, in one copy or more
    dropped       \* given up by the probe

vars == <<measured, held, delivered, dropped>>

Init ==
    /\ measured = {}
    /\ held = {}
    /\ delivered = {}
    /\ dropped = {}

Measure ==
    \E new \in SUBSET (Ids \ measured) :
        /\ new # {}
        /\ measured' = measured \cup new
        /\ held' = held \cup new
        /\ UNCHANGED <<delivered, dropped>>

Deliver ==
    \E rows \in SUBSET measured :
        /\ delivered' = delivered \cup rows
        /\ UNCHANGED <<measured, held, dropped>>

Forget ==
    \E rows \in SUBSET (held \cap delivered) :
        /\ held' = held \ rows
        /\ UNCHANGED <<measured, delivered, dropped>>

Drop ==
    \E rows \in SUBSET held :
        /\ held' = held \ rows
        /\ dropped' = dropped \cup rows
        /\ UNCHANGED <<measured, delivered>>

Next == Measure \/ Deliver \/ Forget \/ Drop

\* Safety: nothing measured is lost in silence.
Spec == Init /\ [][Next]_vars

\* Progress: what the probe holds does not stay there for ever.
Drains == \A r \in Ids : r \in held ~> r \notin held
=============================================================================
