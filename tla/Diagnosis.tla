-------------------------------- MODULE Diagnosis --------------------------------
(***************************************************************************)
(* From what is wrong with the network to what detection says is wrong:    *)
(* the agent's ticks meet the faults that prevail while they run, their    *)
(* samples reach the server at once, and all rules run on them.  Nothing   *)
(* is lost or late here (modules Delivery, Detection and Events have       *)
(* that); the question is whether the findings fit the faults.             *)
(*                                                                         *)
(* A tick calls one target after the other and waits for those that do not *)
(* answer, so it may last many seconds and its calls may meet different    *)
(* faults, while all its samples carry the time it began.  A call meets    *)
(* the fault that prevails when it is made; an answer takes no time.       *)
(*                                                                         *)
(* What a fault does to a ping, a query, a request or an interface is not  *)
(* code of the repository; it is the table Encounters.                     *)
(***************************************************************************)
EXTENDS TargetRules, Collectors, Series

CONSTANTS
    Faults,        \* the faults considered
    Hosts,         \* what the platform says of its routes while it is linked
    Every,         \* interval_s of the scheduled collectors
    PingWait, DnsWait, HttpWait,   \* timeout_s of a ping, a query, a request
    Queries,       \* the windows the dashboard may ask for, as [from, to]
    Naps,          \* bound: how long the host may sleep, 0 if not at all
    MaxTicks,      \* bound: ticks
    Moments,       \* bound: those of them, by number, that a change, a nap or jitter may
                   \* disturb, mapped to the faults it may bring
    MaxChanges     \* bound: changes, naps and seconds of jitter

Kinds == {"iface", "dns", "http"}

ASSUME DiagnosisConstants ==
    /\ Every \in [Kinds -> Nat \ {0}]
    /\ {PingWait, DnsWait, HttpWait} \subseteq Nat \ {0}
    /\ "healthy" \in Faults
    /\ Queries \subseteq [from : Int, to : Int]
    /\ IsFiniteSet(Anchors \cup Resolvers)
    /\ Naps \subseteq Nat
    /\ Moments \in [DOMAIN Moments -> SUBSET Faults]
    /\ {MaxTicks, MaxChanges} \subseteq Nat

\* A target stands for its kind and its label, so those of two kinds differ.
ASSUME Labels ==
    /\ "gateway" \notin Anchors /\ "dns-gateway" \in Resolvers
    /\ Icmp \cap Resolvers = {} /\ Icmp \cap Interfaces = {} /\ Resolvers \cap Interfaces = {}
    /\ "http" \notin Icmp \cup Resolvers \cup Interfaces

VARIABLES
    knowsGateway,  \* a gateway was discovered when the agent started
    watched,       \* _iface_names
    now,           \* when the next tick begins, in seconds
    fault,         \* the prevailing fault
    changes,       \* changes of it, naps and seconds of jitter so far
    met,           \* history: for each tick, the fault each of its calls met
    spells,        \* history: what prevailed from when on, sleep included
    due,           \* _next_due_mono of the scheduled collectors
    probes,        \* the DNS probes' states
    stored,        \* the samples of each target that has some
    found          \* what the rules find in the samples so far

vars == <<knowsGateway, watched, now, fault, changes, met, spells, due, probes, stored, found>>

-----------------------------------------------------------------------------
(* The network                                                               *)

Reply(ms) == [is |-> "reply", ms |-> ms]
Raised(exception) == [is |-> exception]
Answer(rrset) == [is |-> "answer", ms |-> 5, rrset |-> rrset]
Response(status, body) == [is |-> "response", ms |-> 30, status |-> status, body |-> body]
Interface(up) == [is_up |-> up, errors |-> 0, speed |-> 1000]

Fast == 10
Congested == 200
Genuine == {"genuine"}
Forged == {"forged"}

\* Without a link nothing can be sent.
Unlinked(stats) ==
    [gateway |-> Raised("OSError"), anchor |-> Raised("OSError"),
     forwarder |-> Raised("NoNameservers"), resolver |-> Raised("NoNameservers"),
     http |-> Raised("HTTPError"), stats |-> stats]

Well ==
    [gateway |-> Reply(1), anchor |-> Reply(Fast),
     forwarder |-> Answer(Genuine), resolver |-> Answer(Genuine),
     http |-> Response(204, FALSE), stats |-> [lo |-> Interface(TRUE), eth |-> Interface(TRUE)]]

NoUpstream ==
    [Well EXCEPT !.anchor = Raised("no_reply"),
                 !.forwarder = Raised("NoNameservers"), !.resolver = Raised("LifetimeTimeout"),
                 !.http = Raised("TimeoutException")]

Encounters ==
    [healthy |-> Well,
     unplugged |-> Unlinked([lo |-> Interface(TRUE), eth |-> Interface(FALSE)]),
     adapter_gone |-> Unlinked([lo |-> Interface(TRUE)]),
     router_dead |-> [NoUpstream EXCEPT !.gateway = Raised("no_reply"),
                                        !.forwarder = Raised("LifetimeTimeout")],
     isp_down |-> NoUpstream,
     icmp_filtered |-> [Well EXCEPT !.anchor = Raised("no_reply")],
     portal |-> [Well EXCEPT !.anchor = Raised("no_reply"), !.forwarder = Answer(Forged),
                             !.http = Response(302, FALSE)],
     forwarder_dead |-> [Well EXCEPT !.forwarder = Raised("LifetimeTimeout")],
     congested |-> [Well EXCEPT !.anchor = Reply(Congested)],
     hijacked |-> [Well EXCEPT !.forwarder = Answer(Forged), !.resolver = Answer(Forged)],
     lossy |-> [Well EXCEPT !.gateway = Raised("no_reply"), !.anchor = Raised("no_reply")]]

\* The faults are those of the table, the host's routes lead over the one
\* interface it speaks of, and a forged answer is nobody's genuine one.
ASSUME Environment ==
    /\ "forged" \notin Range(QueryNames)
    /\ Faults \subseteq DOMAIN Encounters
    /\ "eth" \in Interfaces
    /\ Hosts \subseteq
           [system : STRING, runs : BOOLEAN,
            routes : Seq([next_hop : {"ip", "onlink", "other"}, metric : Nat,
                          interface : {"", "eth"}])]

\* What a call to a target comes to under a fault.
Outcome(x, what) ==
    LET encounter == Encounters[what]
    IN  CASE x = "gateway" -> encounter.gateway
          [] x \in Anchors -> encounter.anchor
          [] x = "dns-gateway" -> encounter.forwarder
          [] x = "http" -> encounter.http
          [] OTHER -> encounter.resolver

-----------------------------------------------------------------------------
(* The agent                                                                 *)

\* The labels the runner builds its targets and probes with; the gateway's only
\* if it was discovered at the start.
PingTargets == (IF knowsGateway THEN {"gateway"} ELSE {}) \cup Anchors
DnsTargets == IF knowsGateway THEN Resolvers ELSE Resolvers \ {"dns-gateway"}

\* The gateway's interface, or else the first, of psutil's, that is up.
DefaultIfaceNames(stats) ==
    LET up == {name \in DOMAIN stats \ {"lo"} : stats[name].is_up}
    IN  IF up = {} THEN {{}} ELSE {{name} : name \in up}

IfaceNames(gateway, stats) ==
    IF gateway.interface # "" THEN {{gateway.interface}} ELSE DefaultIfaceNames(stats)

IsDue(c) == now >= due[c]

\* Those a tick calls, and the order in which it does.
Calls ==
    PingTargets
    \cup (IF IsDue("iface") THEN watched ELSE {})
    \cup (IF IsDue("dns") THEN DnsTargets ELSE {})
    \cup (IF IsDue("http") THEN {"http"} ELSE {})

Turn(x) ==
    CASE x = "gateway" -> 1
      [] x \in Anchors -> 2
      [] x \in Interfaces -> 3
      [] x = "dns-gateway" -> 4
      [] x \in Resolvers \ {"dns-gateway"} -> 5
      [] OTHER -> 6

\* How far a tick may have come.
Beginnings ==
    {before \in SUBSET Calls \ {{}} :
        \A x \in before, y \in Calls : Turn(y) < Turn(x) => y \in before}

\* The seconds that calls take: each that is not answered waits for its timeout.
\* calls maps the targets called to the faults met.
Took(calls) ==
    LET unanswered(targets, exception) ==
            Cardinality({x \in DOMAIN calls \cap targets : Outcome(x, calls[x]).is = exception})
    IN  PingWait * unanswered(Icmp, "no_reply")
        + DnsWait * unanswered(Resolvers, "LifetimeTimeout")
        + HttpWait * unanswered({"http"}, "TimeoutException")

\* A genuine answer is another one for each name.
Resolution(r, what) ==
    LET outcome == Outcome(r, what)
    IN  Resolve(probes[r],
                IF outcome.is = "answer" /\ outcome.rrset = Genuine
                THEN [outcome EXCEPT !.rrset = {NextName(probes[r])}]
                ELSE outcome)

Measured(x, what) ==
    LET stats == Encounters[what].stats
    IN  CASE x \in Icmp -> PingTarget(Outcome(x, what))
          [] x \in Interfaces -> SampleInterface(x, stats, DOMAIN stats)
          [] x = "http" -> CheckOnce(Outcome(x, what))
          [] OTHER -> Resolution(x, what).sample

Row(ts, sample) ==
    [ts |-> ts, success |-> sample.success, value |-> sample.value, code |-> sample.code]

RowsWith(x, row) == Append(IF x \in DOMAIN stored THEN stored[x] ELSE << >>, row)

\* Mutant: a tick's samples are stamped when it is over.
StoresLate(calls) ==
    stored' = [x \in DOMAIN stored \cup DOMAIN calls |->
                  IF x \in DOMAIN calls
                  THEN RowsWith(x, Row(now + Took(calls), Measured(x, calls[x])))
                  ELSE stored[x]]

\* What a tick adds to the samples, all stamped with its beginning.
Stores(calls) ==
    stored' = [x \in DOMAIN stored \cup DOMAIN calls |->
                  IF x \in DOMAIN calls THEN RowsWith(x, Row(now, Measured(x, calls[x])))
                                        ELSE stored[x]]

\* One tick; the jitter of the tardy makes them a second late the next time.
CollectOnce(calls, tardy) ==
    /\ Stores(calls)
    /\ due' = [c \in Kinds |->
                  IF IsDue(c) THEN now + Every[c] + (IF c \in tardy THEN 1 ELSE 0) ELSE due[c]]
    /\ probes' = [r \in Resolvers |->
                     IF r \in DOMAIN calls THEN Resolution(r, calls[r]).probe ELSE probes[r]]

\* A host without a link has no route.
AsFound(host, prevailing) ==
    IF prevailing \in {"unplugged", "adapter_gone"} THEN [host EXCEPT !.routes = << >>] ELSE host

Disturbable == Cardinality(DOMAIN met) + 1 \in DOMAIN Moments

Tardies == IF Disturbable THEN SUBSET ({"cycle"} \cup {c \in Kinds : IsDue(c)}) ELSE {{}}

\* A tick and the pause after it.  At most once, between two of its calls or in the
\* pause, the host sleeps or the fault changes.
Cycle ==
    /\ Cardinality(DOMAIN met) < MaxTicks
    /\ \E before \in Beginnings, then \in Faults, nap \in Naps, tardy \in Tardies :
          LET calls == [x \in Calls |-> IF x \in before THEN fault ELSE then]
              over == Max({now + 1 + (IF "cycle" \in tardy THEN 1 ELSE 0), now + Took(calls)})
              at == IF before = Calls THEN over ELSE now + Took([x \in before |-> fault])
              nothing == then = fault /\ nap = 0
          IN  /\ IF nothing
                 THEN before = Calls /\ UNCHANGED spells
                 ELSE /\ Disturbable
                      /\ then \in Moments[Cardinality(DOMAIN met) + 1]
                      /\ spells' = spells
                             \o (IF nap = 0 THEN << >> ELSE <<[what |-> "asleep", from |-> at]>>)
                             \o <<[what |-> then, from |-> at + nap]>>
              /\ changes' = changes + Cardinality(tardy) + (IF nothing THEN 0 ELSE 1)
              /\ changes' <= MaxChanges
              /\ CollectOnce(calls, tardy)
              /\ met' = [t \in DOMAIN met \cup {now} |-> IF t = now THEN calls ELSE met[t]]
              /\ fault' = then
              /\ now' = over + nap
    /\ found' = DetectAll([to |-> now', series |-> stored'])
    /\ UNCHANGED <<knowsGateway, watched>>

Init ==
    /\ now = 1
    /\ fault \in Faults
    /\ \E host \in Hosts :
          LET gateway == DiscoverGateway(AsFound(host, fault))
          IN  /\ knowsGateway = gateway.known
              /\ watched \in IfaceNames(gateway, Encounters[fault].stats)
    /\ changes = 0
    /\ met = << >>
    /\ spells = <<[what |-> fault, from |-> 0]>>
    /\ due = [c \in Kinds |-> 0]
    /\ probes = [r \in Resolvers |-> NewProbe]
    /\ stored = << >>
    /\ found = {}

Next == Cycle

Spec == Init /\ [][Next]_vars

-----------------------------------------------------------------------------
Ticks == DOMAIN met

(* Types, and that samples carry the beginnings of ticks, in order, and      *)
(* findings those of samples.                                                *)
TypeOK ==
    /\ now \in Nat /\ Ticks \subseteq 1 .. now - 1
    /\ fault \in Faults /\ changes \in 0 .. MaxChanges
    /\ knowsGateway \in BOOLEAN /\ watched \subseteq Interfaces
    /\ due \in [Kinds -> Nat]
    /\ \A r \in Resolvers : DOMAIN probes[r].last \subseteq Range(QueryNames)
    /\ \A x \in DOMAIN stored : \A i \in DOMAIN stored[x] :
          /\ stored[x][i].ts \in Ticks
          /\ i > 1 => stored[x][i - 1].ts < stored[x][i].ts
    /\ \A f \in found :
          /\ f.started \in Ticks
          /\ f.ended = Ongoing \/ (f.ended \in Ticks /\ f.started <= f.ended)

Asks(t, x) == x \in DOMAIN met[t]

\* The faults under which a target does not answer.
Dark == {"unplugged", "adapter_gone", "router_dead", "lossy"}
NoUplink == {"unplugged", "adapter_gone", "router_dead", "isp_down"}

Downs(x) ==
    CASE x = "gateway" -> Dark
      [] x \in Anchors -> Dark \cup {"isp_down", "icmp_filtered", "portal"}
      [] x \in Interfaces -> {"unplugged", "adapter_gone"}
      [] x = "dns-gateway" -> NoUplink \cup {"forwarder_dead"}
      [] OTHER -> NoUplink

Down(t, x) == Asks(t, x) /\ met[t][x] \in Downs(x)
Up(t, x) == Asks(t, x) /\ met[t][x] \notin Downs(x)

\* What a finding claims of a tick.
Claims(f, t) ==
    CASE f.type = "outage" -> \A x \in PingTargets : Down(t, x)
      [] f.type \in {"gateway_up_internet_down", "icmp_filtered"} ->
            Up(t, "gateway") /\ \A x \in Anchors : Down(t, x)
      [] f.type = "latency_spike" -> Asks(t, f.target) /\ met[t][f.target] = "congested"
      [] OTHER -> Down(t, f.target)

Confirmations(f) ==
    CASE f.type = "loss_burst" -> MinFailures
      [] f.type = "latency_spike" -> SpikeConfirm
      [] f.type \in {"dns_failure", "link_change"} -> SlowConfirm
      [] OTHER -> Enter

\* The ticks a finding is about.  A burst's chunks reach LossWindow samples
\* beyond the start of the last.
About(f) ==
    LET later == {t \in Ticks : t >= f.started}
    IN  IF f.type = "loss_burst"
        THEN {t \in later : Cardinality({u \in later : u < t}) < LossWindow}
        ELSE {t \in later : f.ended = Ongoing \/ t <= f.ended}

\* Who answered in that time or did not, which tells it from the findings it is
\* likest to.
Tells(f, about) ==
    LET answered(x) == \E t \in about : Up(t, x)
        othersAnswered == \E r \in Resolvers \ {f.target} : answered(r)
    IN  CASE f.type = "icmp_filtered" -> answered("http")
          [] f.type = "gateway_up_internet_down" ->
                /\ ~answered("http")
                /\ f.subtype = "dns_and_reachability" => ~othersAnswered
          [] f.type = "dns_failure" -> (f.subtype = "all_resolvers") = ~othersAnswered
          [] f.type = "link_change" ->
                (f.subtype = "absent")
                    = \E t \in about : Asks(t, f.target) /\ met[t][f.target] = "adapter_gone"
          [] OTHER -> TRUE

(* "No data" and "everything failed" are different states (window.py:46),    *)
(* and "a single failed sample must not open an event" (hysteresis.py:4):    *)
(* whatever came before, after and in between, sleep and ticks that met two  *)
(* faults included, a finding rests on that many ticks in which what it says *)
(* was so of the very calls it speaks of, its first tick and, if it is over, *)
(* its last among them, and on the calls that tell it from others.           *)
FindingsAreEarned ==
    \A f \in found :
        LET about == About(f)
            true == {t \in about : Claims(f, t)}
        IN  /\ Cardinality(true) >= Confirmations(f)
            /\ Tells(f, about)
            /\ f.type # "loss_burst" =>
                  /\ f.started \in true
                  /\ f.ended = Ongoing \/ f.ended \in true

During(from, to) == {t \in Ticks : from <= t /\ t <= to}
Asked(x, ticks) == {t \in ticks : Asks(t, x)}

\* Ticks that met nothing but this, and enough of them for the slowest rule to
\* confirm or to let go.
Wholly(what, ticks) == \A t \in ticks : \A x \in DOMAIN met[t] : met[t][x] = what

Settled(ticks) ==
    /\ Cardinality(ticks) >= Max({Enter, Exit, SpikeConfirm, LossWindow})
    /\ \A x \in watched \cup DnsTargets : Cardinality(Asked(x, ticks)) >= SlowConfirm
    /\ Asked("http", ticks) # {}

\* Health that lasted until the tick before, or until somewhere in it, though not
\* between its resolvers.
HealthBefore(what, v) ==
    \E t, u \in Ticks :
        LET mixed == During(u + 1, v - 1)
        IN  /\ u < v /\ Cardinality(mixed) <= 1
            /\ Wholly("healthy", During(t, u)) /\ Settled(During(t, u))
            /\ \A m \in mixed :
                  /\ \A x \in DOMAIN met[m] : met[m][x] \in {"healthy", what}
                  /\ \A r, s \in DOMAIN met[m] \cap Resolvers : met[m][r] = met[m][s]

Ongoings == {<<f.type, f.subtype>> : f \in {g \in found : g.ended = Ongoing}}

\* What should be said of a fault that lasts.
Expected(what) ==
    CASE what \in {"unplugged", "adapter_gone"} ->
            {<<"outage", "">>, <<"dns_failure", "all_resolvers">>}
            \cup IF watched = {} THEN {}
                 ELSE {<<"link_change", IF what = "unplugged" THEN "down" ELSE "absent">>}
      [] what = "router_dead" -> {<<"outage", "">>, <<"dns_failure", "all_resolvers">>}
      [] what = "isp_down" ->
            {IF knowsGateway THEN <<"gateway_up_internet_down", "dns_and_reachability">>
                              ELSE <<"outage", "">>,
             <<"dns_failure", "all_resolvers">>}
      [] what \in {"icmp_filtered", "portal"} ->
            {IF knowsGateway THEN <<"icmp_filtered", "anchors_icmp_only">> ELSE <<"outage", "">>}
      [] what = "forwarder_dead" ->
            IF knowsGateway THEN {<<"dns_failure", "router_forwarder">>} ELSE {}
      [] what = "lossy" -> {<<"outage", "">>}
      [] what = "congested" -> {<<"latency_spike", "">>}
      [] OTHER -> {}

\* The median follows a congestion that fills half of the window.
MedianIsFast ==
    \A x \in Anchors :
        2 * Cardinality({t \in Ticks : met[t][x] = "congested"})
            < Cardinality({t \in Ticks : Up(t, x)})

(* A fault that lasts long enough for the slowest rule, after a time of      *)
(* health that is as long and whatever came before that, is diagnosed as     *)
(* what it is and as nothing else: "a local link going down is a             *)
(* categorically different diagnosis from the network being down"            *)
(* (link.py:3), "if the gateway's resolver fails while public resolvers      *)
(* answer, the router's DNS forwarder is the fault" (dns.py:3), an HTTP      *)
(* success turns a lost internet into filtered pings.  The fault may begin   *)
(* in the middle of a tick, though not between its resolvers.  An agent that *)
(* started without a link knows no gateway and watches no interface: it      *)
(* never tells any of these apart.                                           *)
LastingFaultsAreNamed ==
    \A what \in Faults, v \in Ticks :
        /\ Wholly(what, During(v, now)) /\ Settled(During(v, now))
        /\ HealthBefore(what, v)
        /\ what = "congested" => MedianIsFast
        => Ongoings = Expected(what)

(* "A resolver handing back a different address than last time ... is the    *)
(* signature of injected DNS" (dns_probe.py:22): a hijack that lasts until a *)
(* resolver was asked for every name, after as many genuine answers, marks a *)
(* sample of it, although the probe goes from name to name and compares an   *)
(* answer with the last one for the same name only.  And a mark is never set *)
(* but after another answer to a query for that name.                        *)
MarksTellHijacks ==
    \A r \in Resolvers \cap DOMAIN stored :
        LET rows == stored[r]
            n == Len(QueryNames)
            name(i) == QueryNames[((i - 1) % n) + 1]
            outcome(i) == Outcome(r, met[rows[i].ts][r])
            heard(i, rrset) == outcome(i).is = "answer" /\ outcome(i).rrset = rrset
            marked(i) == rows[i].code = AnswerChanged
        IN  /\ \A i \in n .. Len(rows) - n :
                  /\ \A j \in i - n + 1 .. i : heard(j, Genuine)
                  /\ \A j \in i + 1 .. i + n : heard(j, Forged)
                  => \E j \in i + 1 .. i + n : marked(j)
            /\ \A i \in DOMAIN rows :
                  marked(i) => \E j \in 1 .. i - 1 :
                      /\ name(j) = name(i)
                      /\ \/ heard(j, Genuine) /\ heard(i, Forged)
                         \/ heard(j, Forged) /\ heard(i, Genuine)

-----------------------------------------------------------------------------
(* The ribbon                                                                *)

Ribbon(anchor, query) ==
    IF anchor \notin DOMAIN stored THEN {} ELSE Bucketed(stored[anchor], query.from, query.to)

\* Nothing else prevailed from p to q.
Throughout(whats, p, q) ==
    \A i \in DOMAIN spells :
        spells[i].from <= q /\ (i < Len(spells) => p <= spells[i + 1].from)
            => spells[i].what \in whats

\* The anchors' pings are lost.
Lost == {what \in DOMAIN Encounters : Encounters[what].anchor.is # "reply"}

PingsTake == Cardinality(PingTargets) * PingWait

\* From one tick to the next, at most.
Slowest == Max({2, PingsTake + Cardinality(DnsTargets) * DnsWait + HttpWait})

(* "The ribbon must colour by the worst sub-bucket" (series.py:84): if pings *)
(* are lost throughout a sub-bucket, or the part of it in a bucket, and that *)
(* is wide enough for WorstMinSamples of the slowest ticks, then the worst   *)
(* rate of its bucket is 0, however the window is cut and whatever the other *)
(* calls of those ticks had to wait for.                                     *)
RibbonShowsOutage ==
    \A anchor \in Anchors, query \in Queries, p \in 1 .. now - 1 :
        LET bucket == BucketMs(query.from, query.to)
            sub == Min({bucket, WorstSub})
            end == Min({FloorTo(p, bucket) + bucket, FloorTo(p, sub) + sub})
        IN  /\ p \in {FloorTo(p, bucket), FloorTo(p, sub)}
            /\ end - p >= WorstMinSamples * Slowest
            /\ query.from <= p /\ end - 1 <= query.to /\ end <= now
            /\ Throughout(Lost, p, end - 1 + PingsTake)
            => \E point \in Ribbon(anchor, query) :
                  point.bucket_ts = FloorTo(p, bucket) /\ point.worst = 0

(* "Otherwise ordinary background loss speckles the ribbon" (app.js:20): one *)
(* lost ping in the window makes no bucket look worse than a warning.        *)
RibbonSparesStrays ==
    \A anchor \in Anchors \cap DOMAIN stored, query \in Queries :
        Cardinality({i \in DOMAIN stored[anchor] :
            /\ query.from <= stored[anchor][i].ts /\ stored[anchor][i].ts <= query.to
            /\ ~stored[anchor][i].success}) = 1
        => \A point \in Ribbon(anchor, query) : StatusOf(point.worst) \in {"good", "warning"}
=============================================================================
