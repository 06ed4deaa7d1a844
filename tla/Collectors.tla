------------------------------- MODULE Collectors --------------------------------
(***************************************************************************)
(* What the agent's collectors (netdbg_agent/collectors) make of what they *)
(* meet: functions from the outcome of a library call to the sample that   *)
(* is stored (Sample in netdbg_common/models.py).  A sample's time, kind   *)
(* and target are the keys it is kept under; sequence numbers, slip and    *)
(* the state of NTP are left out.                                          *)
(***************************************************************************)
EXTENDS Integers, Sequences

CONSTANT QueryNames    \* _QUERY_NAMES, a sequence

ASSUME CollectorsConstants == QueryNames \in Seq(STRING) /\ QueryNames # << >>

Nothing == -99         \* None

Sample(success, value, code) == [success |-> success, value |-> value, code |-> code]
Failed(code) == Sample(FALSE, Nothing, code)

-----------------------------------------------------------------------------
(* icmp.py: an outcome is [is |-> "reply", ms |-> the round trip] or names    *)
(* what icmplib or the socket raised.                                         *)

ErrorCode ==
    [NameLookupError |-> 1, SocketPermissionError |-> 2, SocketAddressError |-> 3,
     ICMPSocketError |-> 4, DestinationUnreachable |-> 5, TimeExceeded |-> 6]

Errno == 101           \* any: no rule reads it

PingTarget(outcome) ==
    CASE outcome.is \in DOMAIN ErrorCode -> Failed(ErrorCode[outcome.is])
      [] outcome.is = "OSError" -> Failed(Errno)
      [] outcome.is = "no_reply" -> Failed(Nothing)
      [] OTHER -> Sample(TRUE, outcome.ms, Nothing)

-----------------------------------------------------------------------------
(* dns_probe.py                                                              *)

NoError == 0
NxDomain == 3
AnswerChanged == 100

\* A probe's state: the query index and the last answer seen for each name.
NewProbe == [index |-> 0, last |-> << >>]

NextName(probe) == QueryNames[(probe.index % Len(QueryNames)) + 1]

\* An outcome is [is |-> "answer", ms, rrset], rrset being {} when the answer
\* has none, or names the exception.
Answered(outcome) == outcome.is = "answer" /\ outcome.rrset # {}

\* Mutant: the answer is compared with those for the other names too.
ChangedFromAny(name, outcome, last) == \E n \in DOMAIN last : last[n] # outcome.rrset

Changed(name, outcome, last) == name \in DOMAIN last /\ last[name] # outcome.rrset

ResolveOnce(name, outcome, last) ==
    CASE outcome.is = "NXDOMAIN" -> Sample(TRUE, outcome.ms, NxDomain)
      [] outcome.is \in {"LifetimeTimeout", "NoNameservers"} -> Failed(Nothing)
      [] outcome.is = "DNSException" -> Failed(-1)
      [] OTHER ->
            Sample(TRUE, outcome.ms,
                   IF Answered(outcome) /\ Changed(name, outcome, last) THEN AnswerChanged
                                                                        ELSE NoError)

Remember(name, outcome, last) ==
    IF Answered(outcome)
    THEN [n \in DOMAIN last \cup {name} |-> IF n = name THEN outcome.rrset ELSE last[n]]
    ELSE last

\* DnsProbe.resolve: the sample, and the probe afterwards.
Resolve(probe, outcome) ==
    LET name == NextName(probe)
    IN  [sample |-> ResolveOnce(name, outcome, probe.last),
         probe |-> [index |-> probe.index + 1, last |-> Remember(name, outcome, probe.last)]]

-----------------------------------------------------------------------------
(* http_probe.py: an outcome is [is |-> "response", ms, status, body] or the  *)
(* exception.                                                                 *)

ExpectStatus == 204
Clean == 204
CaptivePortal == 1
UnexpectedStatus == 2
TimedOut == 3
ConnectionError == 4

Intercepted(response) ==
    response.status \in {301, 302, 303, 307, 308} \/ (response.status = 200 /\ response.body)

CheckOnce(outcome) ==
    CASE outcome.is = "TimeoutException" -> Failed(TimedOut)
      [] outcome.is = "HTTPError" -> Failed(ConnectionError)
      [] OTHER -> Sample(TRUE, outcome.ms,
                         CASE outcome.status = ExpectStatus -> Clean
                           [] Intercepted(outcome) -> CaptivePortal
                           [] OTHER -> UnexpectedStatus)

-----------------------------------------------------------------------------
(* iface.py: the host's interfaces by name, and the names that have counters; *)
(* the error counters are one number.                                         *)

Absent == -1

SampleInterface(name, stats, counted) ==
    IF name \in DOMAIN stats \cap counted
    THEN Sample(stats[name].is_up, stats[name].errors, stats[name].speed)
    ELSE Failed(Absent)

-----------------------------------------------------------------------------
(* gateway.py: the platform's routes as its command lists them.  A route's    *)
(* next_hop is "ip", "onlink" (0.0.0.0 or ::) or "other", what does not look  *)
(* like an address.                                                           *)

NoGateway == [known |-> FALSE, interface |-> ""]
ViaRoute(route) == [known |-> TRUE, interface |-> route.interface]

\* The macOS command shows one route.
ParseMacos(routes) ==
    IF routes # << >> /\ Head(routes).next_hop # "other" THEN ViaRoute(Head(routes)) ELSE NoGateway

ParseLinux(routes) ==
    LET usable == {i \in DOMAIN routes : routes[i].next_hop # "other"}
    IN  IF usable = {} THEN NoGateway
        ELSE ViaRoute(routes[CHOOSE i \in usable : \A j \in usable : i <= j])

\* The first of those with the least metric.
ParseWindows(routes) ==
    LET usable == {i \in DOMAIN routes : routes[i].next_hop = "ip"}
        before(i, j) == \/ routes[i].metric < routes[j].metric
                        \/ routes[i].metric = routes[j].metric /\ i <= j
    IN  IF usable = {} THEN NoGateway
        ELSE ViaRoute(routes[CHOOSE i \in usable : \A j \in usable : before(i, j)])

\* A command that fails or prints nothing leaves the gateway unknown.
DiscoverGateway(host) ==
    CASE host.runs /\ host.system = "Darwin" -> ParseMacos(host.routes)
      [] host.runs /\ host.system = "Linux" -> ParseLinux(host.routes)
      [] host.runs /\ host.system = "Windows" -> ParseWindows(host.routes)
      [] OTHER -> NoGateway
=============================================================================
