------------------------------- MODULE Correlate ---------------------------------
(***************************************************************************)
(* Grouping the probes' connectivity-loss events into incidents, and the   *)
(* judgement what broke (netdbg_server/detect/correlate.py).               *)
(*                                                                         *)
(* After each detection pass the loop correlates a window that trails the  *)
(* present; a rerun correlates the window it is given, in a thread of its  *)
(* own.  Each time the events that touch the window are loaded and         *)
(* grouped, and then, in a transaction, the incidents that started in the  *)
(* window are deleted and the groups stored: what the other thread and     *)
(* detection did in between has not been seen.  Detection, as seen from    *)
(* here, upserts events: it may close one, or reopen it when it looks at   *)
(* less data.  The two types of event that mean connectivity was lost are  *)
(* treated alike.                                                          *)
(* Confidence, summary and hypothesis are left out: the latter two follow  *)
(* from the scope.                                                         *)
(***************************************************************************)
EXTENDS Integers, SequencesExt

CONSTANTS
    Probes,
    Reruns,         \* the threads that serve reruns
    Link,           \* the link type of each probe
    Active,         \* probes whose status is active
    Group,          \* its group_name, NoGroup for NULL
    Offsets,        \* the clock offsets each probe may show
    Tolerance,      \* _TOLERANCE_MS
    Trailing,       \* _CORRELATION_WINDOW_MS
    MaxTime,        \* bound: the server's clock
    MaxCorrelations,\* bound: correlations
    MaxChanges      \* bound: events stored or stored again, and changes of an offset

NoGroup == ""
NoIncident == 0
Ongoing == 0        \* ended_ts NULL; times start at 1
NoWindow == <<0, 0>>

ASSUME CorrelateConstants ==
    /\ Probes # {} /\ IsFiniteSet(Probes)
    /\ Link \in [Probes -> {"wired", "wifi", "unknown"}]
    /\ Group \in [Probes -> STRING]
    /\ Active \subseteq Probes
    /\ Offsets \in [Probes -> SUBSET Int]
    /\ Tolerance \in Nat
    /\ Trailing \in Nat
    /\ MaxTime \in Nat \ {0}
    /\ MaxCorrelations \in Nat /\ MaxChanges \in Nat

VARIABLES
    now,            \* the server's clock
    offset,         \* clock_offset_ms of each probe
    events,         \* [probe, started] -> ended
    incidentOf,     \* incident_id of each event
    incidents,      \* incident_id -> [started, ended, scope, probes]
    nextIncident,   \* AUTOINCREMENT
    changes,        \* changes so far
    correlations,   \* correlations stored so far
    under,          \* each thread's correlation between its load and its transaction
    last            \* history: the window just correlated, until anything changes

vars == <<now, offset, events, incidentOf, incidents, nextIncident,
          changes, correlations, under, last>>

Correlators == {"loop"} \cup Reruns

\* unseen and fresh are history: the events stored since the load, and whether
\* nothing at all has changed since.
Idle == [from |-> 0, to |-> 0, clusters |-> << >>, classified |-> << >>,
         unseen |-> {}, fresh |-> FALSE]

Times == 1 .. MaxTime
Scopes == {"all_probes", "wifi_only", "single_ap", "single_probe"}

-----------------------------------------------------------------------------
(* What correlation reads                                                    *)

\* A correlation under way does not see this.
Unseen(ks) ==
    under' = [c \in Correlators |->
                 IF under[c] = Idle THEN Idle
                 ELSE [under[c] EXCEPT !.unseen = @ \cup ks, !.fresh = FALSE]]

Change ==
    /\ changes < MaxChanges
    /\ changes' = changes + 1
    /\ last' = NoWindow

\* Detection finds an event it has not stored before.
Detected(p, started, ended) ==
    LET k == [probe |-> p, started |-> started]
    IN  /\ k \notin DOMAIN events
        /\ Change
        /\ events' = [e \in DOMAIN events \cup {k} |-> IF e = k THEN ended ELSE events[e]]
        /\ incidentOf' = [e \in DOMAIN events \cup {k} |->
                             IF e = k THEN NoIncident ELSE incidentOf[e]]
        /\ Unseen({k})
        /\ UNCHANGED <<now, offset, incidents, nextIncident, correlations>>

\* Or writes it again with another end; an upsert with the same one changes
\* nothing.  The upsert leaves incident_id alone.
Redetected(k, ended) ==
    /\ ended # events[k]
    /\ Change /\ Unseen({})
    /\ events' = [events EXCEPT ![k] = ended]
    /\ UNCHANGED <<now, offset, incidentOf, incidents, nextIncident, correlations>>

\* touch_probe_seen, at an ingest that measures another offset.
Touch(p, measured) ==
    /\ measured # offset[p]
    /\ Change /\ Unseen({})
    /\ offset' = [offset EXCEPT ![p] = measured]
    /\ UNCHANGED <<now, events, incidentOf, incidents, nextIncident, correlations>>

Tick ==
    /\ now < MaxTime
    /\ now' = now + 1
    /\ last' = NoWindow
    /\ UNCHANGED <<offset, events, incidentOf, incidents, nextIncident,
                   changes, correlations, under>>

-----------------------------------------------------------------------------
(* Clustering                                                                *)

\* _load_events.
Loaded(from, to) ==
    {k \in DOMAIN events :
        k.started <= to /\ (events[k] = Ongoing \/ events[k] >= from)}

Edge(ks) == Max({IF events[k] = Ongoing THEN k.started ELSE events[k] : k \in ks})

\* _window: the event in the server's time, widened by the tolerance.
From(k) == k.started - offset[k.probe] - Tolerance

Until(k, edge) ==
    (IF events[k] = Ongoing THEN edge ELSE events[k]) - offset[k.probe] + Tolerance

\* Mutant: the events are left in the order of the query.
InQueryOrder(ks) ==
    CHOOSE order \in [1 .. Cardinality(ks) -> ks] :
        /\ Range(order) = ks
        /\ \A i, j \in DOMAIN order : i < j => order[i].started <= order[j].started

InOrder(ks) ==
    CHOOSE order \in [1 .. Cardinality(ks) -> ks] :
        /\ Range(order) = ks
        /\ \A i, j \in DOMAIN order : i < j => From(order[i]) <= From(order[j])

\* The sweep of _cluster_by_overlap.  Its running end starts at 0, which is
\* earlier than any event's.
Sweep(edge, sweep, k) ==
    CASE sweep.current = {} ->
            [sweep EXCEPT !.current = {k}, !.end = Until(k, edge)]
      [] sweep.current # {} /\ From(k) <= sweep.end ->
            [sweep EXCEPT !.current = @ \cup {k}, !.end = Max({@, Until(k, edge)})]
      [] OTHER ->
            [clusters |-> Append(sweep.clusters, sweep.current),
             current |-> {k}, end |-> Until(k, edge)]

Swept(edge, order) ==
    LET sweep[i \in 0 .. Len(order)] ==
            IF i = 0 THEN [clusters |-> << >>, current |-> {}, end |-> 0]
            ELSE Sweep(edge, sweep[i - 1], order[i])
    IN  sweep[Len(order)]

Clusters(ks) ==
    LET swept == Swept(Edge(ks), InOrder(ks))
    IN  IF ks = {} THEN << >> ELSE Append(swept.clusters, swept.current)

-----------------------------------------------------------------------------
(* Classification                                                            *)

ScopeOf(affected) ==
    LET groups == {Group[p] : p \in affected} \ {NoGroup}
        every == Active # {} /\ Cardinality(affected) >= Cardinality(Active)
        wired == \E p \in affected : Link[p] = "wired"
        wifi == \A p \in affected : Link[p] = "wifi"
    IN  CASE Cardinality(affected) <= 1 -> "single_probe"
          [] Cardinality(affected) > 1 /\ (every \/ wired) -> "all_probes"
          [] Cardinality(affected) > 1 /\ ~every /\ wifi /\ Cardinality(groups) > 1 -> "wifi_only"
          [] OTHER -> "single_ap"

\* Mutant: the incident starts with the event that was first in the server's time.
ClassifiedByFirst(cluster) ==
    LET affected == {k.probe : k \in cluster}
    IN  [started |-> (CHOOSE k \in cluster : \A j \in cluster : From(k) <= From(j)).started,
         ended |-> IF \E k \in cluster : events[k] = Ongoing THEN Ongoing
                   ELSE Max({events[k] : k \in cluster}),
         scope |-> ScopeOf(affected),
         probes |-> Cardinality(affected)]

Classify(cluster) ==
    LET affected == {k.probe : k \in cluster}
    IN  [started |-> Min({k.started : k \in cluster}),
         ended |-> IF \E k \in cluster : events[k] = Ongoing THEN Ongoing
                   ELSE Max({events[k] : k \in cluster}),
         scope |-> ScopeOf(affected),
         probes |-> Cardinality(affected)]

-----------------------------------------------------------------------------
(* Rebuilding                                                                *)

\* Mutant: incidents that ended before the window's end are cleared, others stay.
ClearedByEnd(from, to) ==
    {i \in DOMAIN incidents : incidents[i].ended \in from .. to}

\* Mutant: an incident that starts with the window is not cleared.
ClearedStrictly(from, to) ==
    {i \in DOMAIN incidents : from < incidents[i].started /\ incidents[i].started <= to}

Cleared(from, to) ==
    {i \in DOMAIN incidents : incidents[i].started \in from .. to}

\* Mutant: the events of a deleted incident are not detached.
LinksKept(old, clusters) ==
    [k \in DOMAIN events |->
        IF \E c \in DOMAIN clusters : k \in clusters[c]
        THEN nextIncident - 1 + CHOOSE c \in DOMAIN clusters : k \in clusters[c]
        ELSE incidentOf[k]]

Links(old, clusters) ==
    [k \in DOMAIN events |->
        IF \E c \in DOMAIN clusters : k \in clusters[c]
        THEN nextIncident - 1 + CHOOSE c \in DOMAIN clusters : k \in clusters[c]
        ELSE IF incidentOf[k] \in old THEN NoIncident ELSE incidentOf[k]]

\* correlate up to the transaction: _load_events to _classify.
Load(c, from, to) ==
    /\ under[c] = Idle
    /\ correlations + Cardinality({d \in Correlators : under[d] # Idle}) < MaxCorrelations
    /\ \E clusters \in {Clusters(Loaded(from, to))} :
          under' = [under EXCEPT ![c] =
                       [from |-> from, to |-> to, clusters |-> clusters,
                        classified |-> [i \in DOMAIN clusters |-> Classify(clusters[i])],
                        unseen |-> {}, fresh |-> TRUE]]
    /\ UNCHANGED <<now, offset, events, incidentOf, incidents, nextIncident, changes, correlations, last>>

\* _persist.  Cluster i becomes incident nextIncident - 1 + i.
Persist(c) ==
    /\ under[c] # Idle
    /\ LET new == under[c].classified
           old == Cleared(under[c].from, under[c].to)
       IN  /\ incidents' =
                 [i \in (DOMAIN incidents \ old)
                        \cup (nextIncident .. nextIncident + Len(new) - 1) |->
                     IF i < nextIncident THEN incidents[i] ELSE new[i - nextIncident + 1]]
           /\ incidentOf' = Links(old, under[c].clusters)
           /\ nextIncident' = nextIncident + Len(new)
    /\ last' = IF under[c].fresh THEN <<under[c].from, under[c].to>> ELSE NoWindow
    /\ under' = [under EXCEPT ![c] = Idle]
    /\ correlations' = correlations + 1
    /\ UNCHANGED <<now, offset, events, changes>>

\* Its BEGIN met another thread's transaction.
PersistFails(c) ==
    /\ under[c] # Idle
    /\ under' = [under EXCEPT ![c] = Idle]
    /\ UNCHANGED <<now, offset, events, incidentOf, incidents, nextIncident,
                   changes, correlations, last>>

\* After a detection pass, and after a rerun.
CorrelateTrailing == Load("loop", now - Trailing, now)

CorrelateRerun == \E c \in Reruns, to \in 1 .. now : \E from \in 1 .. to : Load(c, from, to)

Init ==
    /\ now = 1
    /\ offset \in [Probes -> UNION Range(Offsets)] /\ \A p \in Probes : offset[p] \in Offsets[p]
    /\ events = << >>
    /\ incidentOf = << >>
    /\ incidents = << >>
    /\ nextIncident = 1
    /\ changes = 0
    /\ correlations = 0
    /\ under = [c \in Correlators |-> Idle]
    /\ last = NoWindow

Detection ==
    /\ changes < MaxChanges
    /\ \E ended \in {Ongoing} \cup 1 .. now :
          \/ \E p \in Probes, started \in 1 .. now :
                (ended = Ongoing \/ started <= ended) /\ Detected(p, started, ended)
          \/ \E k \in DOMAIN events :
                (ended = Ongoing \/ k.started <= ended) /\ Redetected(k, ended)

Next ==
    \/ Detection
    \/ \E p \in Probes : \E measured \in Offsets[p] : Touch(p, measured)
    \/ Tick
    \/ CorrelateTrailing
    \/ CorrelateRerun
    \/ \E c \in Correlators : Persist(c) \/ PersistFails(c)

Spec == Init /\ [][Next]_vars

-----------------------------------------------------------------------------
(* Types; every event points to an incident there is, or to none: an event   *)
(* outlives its incident and is detached from it first (correlate.py:311).   *)
TypeOK ==
    /\ now \in Times /\ \A p \in Probes : offset[p] \in Offsets[p]
    /\ DOMAIN events \subseteq [probe : Probes, started : 1 .. now]
    /\ \A k \in DOMAIN events : events[k] = Ongoing \/ events[k] \in k.started .. now
    /\ incidentOf \in [DOMAIN events -> {NoIncident} \cup DOMAIN incidents]
    /\ DOMAIN incidents \subseteq 1 .. nextIncident - 1
    /\ \A i \in DOMAIN incidents :
          incidents[i] \in [started : Times, ended : {Ongoing} \cup Times,
                            scope : Scopes, probes : 1 .. Cardinality(Probes)]
    /\ changes \in 0 .. MaxChanges /\ correlations \in 0 .. MaxCorrelations
    /\ \A c \in Correlators :
          /\ (UNION Range(under[c].clusters)) \cup under[c].unseen \subseteq DOMAIN events
          /\ DOMAIN under[c].classified = DOMAIN under[c].clusters

\* Two events overlap in the server's time, given the clocks and the tolerance.
Overlap(j, k, edge) == From(j) <= Until(k, edge) /\ From(k) <= Until(j, edge)

(* "Group events whose skew-adjusted windows overlap in time"                *)
(* (correlate.py:166): the sweep finds the connected components of the       *)
(* overlap relation.  Overlapping events are never in two incidents, and no  *)
(* incident falls into two parts that do not overlap, although clock offsets *)
(* put the events in another order than their start times do.                *)
ClustersAreComponents ==
    events # << >> =>
    \A edge \in {Edge(DOMAIN events)}, clusters \in {Range(Clusters(DOMAIN events))} :
        /\ UNION clusters = DOMAIN events /\ {} \notin clusters
        /\ \A c, d \in clusters : c # d =>
              \A j \in c, k \in d : j # k /\ ~Overlap(j, k, edge)
        /\ \A c \in clusters : \A part \in (SUBSET c) \ {{}, c} :
              \E j \in part, k \in c \ part : Overlap(j, k, edge)

Members(i) == {k \in DOMAIN events : incidentOf[k] = i}

(* What an incident says of its size stays true of the events that point to  *)
(* it, however windows move and reruns take events away from it: it covers   *)
(* their starts and counts at least their probes.                            *)
MembersFit ==
    \A i \in DOMAIN incidents :
        /\ \A k \in Members(i) : incidents[i].started <= k.started
        /\ Cardinality({k.probe : k \in Members(i)}) <= incidents[i].probes

Described == {incidents[i] : i \in DOMAIN incidents}

(* "A re-run refines rather than accumulates" (correlate.py:93), as far as   *)
(* the code achieves it: correlating a window once more, with nothing        *)
(* changed, changes nothing but the numbers of the incidents, provided that  *)
(* every event it touches started inside it.                                 *)
RerunIsIdempotent ==
    [][last # NoWindow /\ last' = last
       /\ (\A k \in Loaded(last[1], last[2]) : last[1] <= k.started) =>
          Described' = Described
          /\ Cardinality(DOMAIN incidents') = Cardinality(DOMAIN incidents)]_vars

Persists(c) == under[c] # Idle /\ under'[c] = Idle

(* The load is not in the transaction (correlate.py:95), and two threads may *)
(* each group the same events.  Whatever one of them has stored in between,  *)
(* the other takes an event out of its incident without another one only if  *)
(* it could not know better: the event starts beyond its window or was found *)
(* after its load.  And it leaves an incident behind without events only if  *)
(* that one started before its window.                                       *)
RegroupingIsAccounted ==
    [][/\ \A k \in DOMAIN events : incidentOf[k] # NoIncident /\ incidentOf'[k] = NoIncident =>
             \E c \in Correlators : Persists(c)
                 /\ (under[c].to < k.started \/ k \in under[c].unseen)
       /\ \A i \in DOMAIN incidents \cap DOMAIN incidents' : Members(i) # {} /\ Members(i)' = {} =>
             \E c \in Correlators : Persists(c) /\ incidents[i].started < under[c].from]_vars

(* "It clears the incidents it would recompute for this window and rebuilds  *)
(* them" (correlate.py:92): every incident is a group of events, none is     *)
(* left behind when its events are grouped again.                            *)
IncidentsAreGroups ==
    \A i \in DOMAIN incidents : \E k \in DOMAIN events : incidentOf[k] = i
=============================================================================
