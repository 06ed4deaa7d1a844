------------------------------- MODULE MCDiagnosis -------------------------------
EXTENDS Diagnosis

TwoNames == <<"a", "b">>

AllFaults == DOMAIN Encounters

Route(next_hop, metric) == [next_hop |-> next_hop, metric |-> metric, interface |-> "eth"]

\* A list whose first route has no address, a tie of metrics behind an on-link
\* route, and the one route macOS shows, its interface unsaid.
Platforms ==
    {[system |-> "Linux", runs |-> TRUE, routes |-> <<Route("other", 0), Route("ip", 0)>>],
     [system |-> "Windows", runs |-> TRUE,
      routes |-> <<Route("onlink", 1), Route("ip", 5), Route("ip", 5)>>],
     [system |-> "Darwin", runs |-> TRUE, routes |-> <<[Route("ip", 0) EXCEPT !.interface = ""]>>]}

Cadence == [iface |-> 1, dns |-> 2, http |-> 3]

\* The network recovers in the second tick and fails in the seventh.
RecoverThenFail == [n \in {2} |-> {"healthy"}] @@ [n \in {7} |-> Faults]

FewQueries == {[from |-> 0, to |-> 10], [from |-> 0, to |-> 60], [from |-> 5, to |-> 125]}
=============================================================================
