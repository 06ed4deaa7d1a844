------------------------------- MODULE TargetRules -------------------------------
(***************************************************************************)
(* All rules of the engine (detect/engine.py, DEFAULT_RULES) on a window   *)
(* of samples: the two of module Rules, which merge the ICMP targets, and  *)
(* the four that look at one target each (detect/rules/loss.py,            *)
(* latency.py, dns.py, link.py).                                           *)
(*                                                                         *)
(* A window is [to, series]: series maps each target that has samples to   *)
(* its rows, a sequence in order of time (detect/window.py).  Evidence,    *)
(* severity and confidence are left out.                                   *)
(***************************************************************************)
EXTENDS Rules

CONSTANTS
    Resolvers,         \* labels of the DNS targets, dns-gateway among them
    Interfaces,        \* the watched interfaces
    LossWindow,        \* _WINDOW
    MinFailures,       \* _MIN_FAILURES
    MinLoss, FullLoss, \* _MIN_LOSS_RATE, _FULL_OUTAGE_RATE in percent
    SpikeConfirm,      \* _ENTER and _EXIT of latency.py
    MinRtts,           \* _MIN_SAMPLES
    Multiplier, FloorMs,
    SlowConfirm        \* _ENTER and _EXIT of dns.py and link.py

ASSUME TargetRulesConstants ==
    /\ {LossWindow, MinFailures, SpikeConfirm, MinRtts, SlowConfirm} \subseteq Nat \ {0}
    /\ {MinLoss, FullLoss, Multiplier, FloorMs} \subseteq Nat

Spike == INSTANCE Rules WITH Enter <- SpikeConfirm, Exit <- SpikeConfirm
Slow == INSTANCE Rules WITH Enter <- SlowConfirm, Exit <- SlowConfirm

Finding(type, target, subtype, span) ==
    [type |-> type, target |-> target, subtype |-> subtype,
     started |-> span.started, ended |-> span.ended]

RowsOf(window, target) ==
    IF target \in DOMAIN window.series THEN window.series[target] ELSE << >>

\* The rows of the span, to the window's edge if it is open.
Within(rows, span, to) ==
    {rows[i] : i \in {j \in DOMAIN rows :
        /\ span.started <= rows[j].ts
        /\ rows[j].ts <= IF span.ended = Ongoing THEN to ELSE span.ended}}

FailurePoints(rows) == [i \in DOMAIN rows |-> [ts |-> rows[i].ts, bad |-> ~rows[i].success]]

-----------------------------------------------------------------------------
(* The two merged rules see of a sample whether it succeeded, and of an HTTP  *)
(* check whether bytes flowed.                                                *)

HttpOkCodes == {204, 1}

Succeeded(target, row) == row.success /\ (target = "http" => row.code \in HttpOkCodes)

\* Each target's successes by time, and from them the readings of module Rules.
Merged(window) ==
    LET targets == DOMAIN window.series \cap (Icmp \cup {"http"})
        times(x) == {window.series[x][i].ts : i \in DOMAIN window.series[x]}
        good(x) == {window.series[x][i].ts :
                       i \in {j \in DOMAIN window.series[x] : Succeeded(x, window.series[x][j])}}
    IN  [to |-> window.to,
         at |-> [t \in UNION {times(x) : x \in targets} |->
                    [x \in {y \in targets : t \in times(y)} |-> t \in good(x)]]]

DnsAllFailed(window, span) ==
    LET answers == UNION {Within(RowsOf(window, r), span, window.to) : r \in Resolvers}
    IN  answers # {} /\ \A a \in answers : ~a.success

MergedFindings(window) ==
    {Finding(e.type, "",
             CASE e.type = "gateway_up_internet_down" ->
                      IF DnsAllFailed(window, e) THEN "dns_and_reachability" ELSE "reachability"
               [] e.type = "icmp_filtered" -> "anchors_icmp_only"
               [] OTHER -> "",
             e) : e \in Detect(Merged(window))}

-----------------------------------------------------------------------------
(* loss.py: the chunk of LossWindow rows from the i-th on, sliding            *)

Elevated(rows, i) ==
    LET fails == Cardinality({j \in i .. i + LossWindow - 1 : ~rows[j].success})
    IN  /\ 100 * fails >= MinLoss * LossWindow
        /\ 100 * fails < FullLoss * LossWindow
        /\ fails >= MinFailures

\* A burst starts with its first elevated chunk and ends where the first chunk
\* begins that is not.
Bursts(rows) ==
    LET chunks == 1 .. Len(rows) - LossWindow + 1
        begins(i) == Elevated(rows, i) /\ (i = 1 \/ ~Elevated(rows, i - 1))
        after(i) == {j \in chunks : i < j /\ ~Elevated(rows, j)}
    IN  {[started |-> rows[i].ts,
          ended |-> IF after(i) = {} THEN Ongoing
                    ELSE rows[CHOOSE j \in after(i) : \A k \in after(i) : j <= k].ts] :
            i \in {j \in chunks : begins(j)}}

LossFindings(window) ==
    UNION {{Finding("loss_burst", target, "", s) : s \in Bursts(RowsOf(window, target))} :
        target \in Icmp}

-----------------------------------------------------------------------------
(* latency.py.  The median of an even number of values is the mean of two:    *)
(* all is counted twice.                                                      *)

\* The k-th smallest of f's values.
KthSmallest(f, k) ==
    CHOOSE v \in Range(f) :
        /\ Cardinality({i \in DOMAIN f : f[i] < v}) < k
        /\ k <= Cardinality({i \in DOMAIN f : f[i] <= v})

TwiceMedian(values) ==
    LET n == Cardinality(DOMAIN values)
    IN  KthSmallest(values, (n + 1) \div 2) + KthSmallest(values, (n \div 2) + 1)

Rtts(rows) == [i \in {j \in DOMAIN rows : rows[j].success} |-> rows[i].value]

IsSpike(row, twice) ==
    /\ row.success
    /\ 2 * row.value > Multiplier * twice
    /\ 2 * row.value > twice + 2 * FloorMs

Spikes(rows) ==
    IF Cardinality(DOMAIN Rtts(rows)) < MinRtts THEN {}
    ELSE \* The median is worth computing once.
         UNION {Spike!FindSpans([i \in DOMAIN rows |->
                    [ts |-> rows[i].ts, bad |-> IsSpike(rows[i], twice)]]) :
                twice \in {TwiceMedian(Rtts(rows))}}

LatencyFindings(window) ==
    UNION {{Finding("latency_spike", target, "", s) : s \in Spikes(RowsOf(window, target))} :
        target \in Anchors}

-----------------------------------------------------------------------------
(* dns.py                                                                    *)

OthersOk(window, resolver, span) ==
    \E other \in Resolvers \ {resolver} :
        \E row \in Within(RowsOf(window, other), span, window.to) : row.success

\* Mutant: only the gateway's resolver is compared with the others.
DnsSubtypeGateway(resolver, othersOk) ==
    IF resolver # "dns-gateway" THEN "single_resolver"
    ELSE IF othersOk THEN "router_forwarder" ELSE "all_resolvers"

DnsSubtype(resolver, othersOk) ==
    IF ~othersOk THEN "all_resolvers"
    ELSE IF resolver = "dns-gateway" THEN "router_forwarder" ELSE "single_resolver"

DnsFindings(window) ==
    UNION {{Finding("dns_failure", resolver,
                    DnsSubtype(resolver, OthersOk(window, resolver, s)), s) :
                s \in Slow!FindSpans(FailurePoints(RowsOf(window, resolver)))} :
        resolver \in Resolvers}

-----------------------------------------------------------------------------
(* link.py                                                                   *)

LinkSubtype(window, interface, span) ==
    IF \E row \in Within(RowsOf(window, interface), span, window.to) :
          ~row.success /\ row.code = -1
    THEN "absent" ELSE "down"

LinkFindings(window) ==
    UNION {{Finding("link_change", interface, LinkSubtype(window, interface, s), s) :
                s \in Slow!FindSpans(FailurePoints(RowsOf(window, interface)))} :
        interface \in Interfaces}

-----------------------------------------------------------------------------
DetectAll(window) ==
    MergedFindings(window) \cup LossFindings(window) \cup LatencyFindings(window)
        \cup DnsFindings(window) \cup LinkFindings(window)
=============================================================================
