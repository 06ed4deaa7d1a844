---------------------------- MODULE DiagnosisProofs ----------------------------
(***************************************************************************)
(* What the findings, the marks and the ribbon may be trusted with, for    *)
(* every set of faults, targets and hosts, every timeout and interval, and *)
(* every threshold of the rules.                                           *)
(*                                                                         *)
(* The rows stored tell the history: each is of a tick that called its     *)
(* target, says what the fault that this very call met lets its collector  *)
(* see, and no call is without its row (IInv).  From there                 *)
(*   - the points of a rule are read as ticks, and its spans bear out what *)
(*     the findings claim by what RulesProofs proves of find_spans, taken  *)
(*     also with the thresholds of the slower rules (FindingsEarned);      *)
(*   - a sub-bucket that counts holds other rows than the one of a lost    *)
(*     ping, and these bound its rate from below (RibbonSpares);           *)
(*   - one tick follows another within its timeouts, but for the host's    *)
(*     sleep, so that an outage as wide as several of them holds as many   *)
(*     failed pings, and the cell they fill has the worst rate there is    *)
(*     (RibbonShows);                                                      *)
(*   - the rows of a resolver tell what its probe remembers (MInv), and a  *)
(*     round of its queries asks for every name (MarksTell).               *)
(***************************************************************************)
EXTENDS Diagnosis, RulesProofs

-----------------------------------------------------------------------------
(* The faults, and what each lets the collectors meet                        *)
Meets(what, gateway, anchor, forwarder, resolver, http, stats) ==
    /\ Encounters[what].gateway = gateway /\ Encounters[what].anchor = anchor
    /\ Encounters[what].forwarder = forwarder /\ Encounters[what].resolver = resolver
    /\ Encounters[what].http = http /\ Encounters[what].stats = stats

LinkUp == [lo |-> Interface(TRUE), eth |-> Interface(TRUE)]
LinkDown == [lo |-> Interface(TRUE), eth |-> Interface(FALSE)]
NoLink == [lo |-> Interface(TRUE)]

LEMMA FaultsAre ==
    DOMAIN Encounters =
       {"healthy", "unplugged", "adapter_gone", "router_dead", "isp_down", "icmp_filtered",
        "portal", "forwarder_dead", "congested", "hijacked", "lossy"}
  BY DEF Encounters

LEMMA EncountersAre ==
    LET fine == Answer(Genuine)
        forged == Answer(Forged)
        timeout == Raised("LifetimeTimeout")
        refused == Raised("NoNameservers")
        silent == Raised("no_reply")
        error == Raised("OSError")
        broken == Raised("HTTPError")
        late == Raised("TimeoutException")
        clean == Response(204, FALSE)
    IN
    /\ Meets("healthy", Reply(1), Reply(Fast), fine, fine, clean, LinkUp)
    /\ Meets("unplugged", error, error, refused, refused, broken, LinkDown)
    /\ Meets("adapter_gone", error, error, refused, refused, broken, NoLink)
    /\ Meets("router_dead", silent, silent, timeout, timeout, late, LinkUp)
    /\ Meets("isp_down", Reply(1), silent, refused, timeout, late, LinkUp)
    /\ Meets("icmp_filtered", Reply(1), silent, fine, fine, clean, LinkUp)
    /\ Meets("portal", Reply(1), silent, forged, fine, Response(302, FALSE), LinkUp)
    /\ Meets("forwarder_dead", Reply(1), Reply(Fast), timeout, fine, clean, LinkUp)
    /\ Meets("congested", Reply(1), Reply(Congested), fine, fine, clean, LinkUp)
    /\ Meets("hijacked", Reply(1), Reply(Fast), forged, forged, clean, LinkUp)
    /\ Meets("lossy", silent, silent, fine, fine, clean, LinkUp)
<1> DEFINE fine == Answer(Genuine)
           forged == Answer(Forged)
           timeout == Raised("LifetimeTimeout")
           refused == Raised("NoNameservers")
           silent == Raised("no_reply")
           error == Raised("OSError")
           broken == Raised("HTTPError")
           late == Raised("TimeoutException")
           clean == Response(204, FALSE)
<1>1. Meets("healthy", Reply(1), Reply(Fast), fine, fine, clean, LinkUp)
  BY Zenon DEF Meets, Encounters, Well, LinkUp, LinkDown, NoLink
<1>2. Meets("unplugged", error, error, refused, refused, broken, LinkDown)
  BY Zenon DEF Meets, Encounters, Unlinked, LinkUp, LinkDown, NoLink
<1>3. Meets("adapter_gone", error, error, refused, refused, broken, NoLink)
  BY Zenon DEF Meets, Encounters, Unlinked, LinkUp, LinkDown, NoLink
<1>4. Meets("router_dead", silent, silent, timeout, timeout, late, LinkUp)
  BY Zenon DEF Meets, Encounters, NoUpstream, Well, LinkUp, LinkDown, NoLink
<1>5. Meets("isp_down", Reply(1), silent, refused, timeout, late, LinkUp)
  BY Zenon DEF Meets, Encounters, NoUpstream, Well, LinkUp, LinkDown, NoLink
<1>6. Meets("icmp_filtered", Reply(1), silent, fine, fine, clean, LinkUp)
  BY Zenon DEF Meets, Encounters, Well, LinkUp, LinkDown, NoLink
<1>7. Meets("portal", Reply(1), silent, forged, fine, Response(302, FALSE), LinkUp)
  BY Zenon DEF Meets, Encounters, Well, LinkUp, LinkDown, NoLink
<1>8. Meets("forwarder_dead", Reply(1), Reply(Fast), timeout, fine, clean, LinkUp)
  BY Zenon DEF Meets, Encounters, Well, LinkUp, LinkDown, NoLink
<1>9. Meets("congested", Reply(1), Reply(Congested), fine, fine, clean, LinkUp)
  BY Zenon DEF Meets, Encounters, Well, LinkUp, LinkDown, NoLink
<1>10. Meets("hijacked", Reply(1), Reply(Fast), forged, forged, clean, LinkUp)
  BY Zenon DEF Meets, Encounters, Well, LinkUp, LinkDown, NoLink
<1>11. Meets("lossy", silent, silent, fine, fine, clean, LinkUp)
  BY Zenon DEF Meets, Encounters, Well, LinkUp, LinkDown, NoLink
<1> QED BY <1>1, <1>2, <1>3, <1>4, <1>5, <1>6, <1>7, <1>8, <1>9, <1>10, <1>11

-----------------------------------------------------------------------------
(* What a row says of the fault its call met                                 *)
SampleRecords == [success : BOOLEAN, value : Int, code : Int]

Says(x, row, what) ==
    /\ row.success <=> what \notin Downs(x)
    /\ (x \in Anchors /\ row.success) =>
          row.value = IF what = "congested" THEN Congested ELSE Fast
    /\ (x \in Interfaces /\ ~row.success) => (row.code = -1 <=> what = "adapter_gone")
    /\ (x = "http" /\ row.success) => row.code \in HttpOkCodes

Fits(x, sample, what) == sample \in SampleRecords /\ Says(x, sample, what)

LEMMA KindsDiffer ==
    /\ "gateway" \notin Anchors \cup Resolvers \cup Interfaces
    /\ "http" \notin Icmp \cup Resolvers \cup Interfaces
    /\ \A x \in Anchors : x \notin Resolvers \cup Interfaces /\ x # "http" /\ x # "gateway"
    /\ \A x \in Resolvers : x \notin Icmp \cup Interfaces /\ x # "http" /\ x # "gateway"
    /\ \A x \in Interfaces : x \notin Icmp \cup Resolvers /\ x # "http" /\ x # "gateway"
    /\ "dns-gateway" \in Resolvers
  BY Labels DEF Labels, Icmp

NoIcmp == {"isp_down", "icmp_filtered", "portal"}

LEMMA DownsAre ==
    /\ Downs("gateway") = Dark /\ Downs("http") = NoUplink
    /\ \A x \in Anchors : Downs(x) = Dark \cup NoIcmp
    /\ \A x \in Interfaces : Downs(x) = {"unplugged", "adapter_gone"}
    /\ \A x \in Resolvers :
          Downs(x) = IF x = "dns-gateway" THEN NoUplink \cup {"forwarder_dead"} ELSE NoUplink
<1>1. /\ Downs("gateway") = Dark
      /\ \A x \in Anchors : Downs(x) = Dark \cup NoIcmp
  <2>1. Downs("gateway") = Dark
    BY KindsDiffer DEF Downs, Icmp
  <2>2. \A x \in Anchors : Downs(x) = Dark \cup NoIcmp
    BY KindsDiffer DEF Downs, NoIcmp, Icmp
  <2> QED BY <2>1, <2>2
<1>2. \A x \in Interfaces : Downs(x) = {"unplugged", "adapter_gone"}
  BY KindsDiffer DEF Downs, Icmp
<1>3. \A x : x # "gateway" /\ x \notin Anchors \cup Interfaces =>
         Downs(x) = IF x = "dns-gateway" THEN NoUplink \cup {"forwarder_dead"} ELSE NoUplink
  BY DEF Downs
<1>4. "http" # "gateway" /\ "http" \notin Anchors \cup Interfaces
  BY KindsDiffer DEF Icmp
<1>5. \A x \in Resolvers : x # "gateway" /\ x \notin Anchors \cup Interfaces
  BY KindsDiffer DEF Icmp
<1> QED BY <1>1, <1>2, <1>3, <1>4, <1>5

LEMMA OutcomeIs ==
    ASSUME NEW what
    PROVE  LET encounter == Encounters[what]
           IN  /\ Outcome("gateway", what) = encounter.gateway
               /\ Outcome("http", what) = encounter.http
               /\ \A x \in Anchors : Outcome(x, what) = encounter.anchor
               /\ \A x \in Resolvers :
                     Outcome(x, what) = IF x = "dns-gateway" THEN encounter.forwarder
                                                             ELSE encounter.resolver
<1> DEFINE encounter == Encounters[what]
<1>1. \A x : Outcome(x, what) =
         IF x = "gateway" THEN encounter.gateway
         ELSE IF x \in Anchors THEN encounter.anchor
         ELSE IF x = "dns-gateway" THEN encounter.forwarder
         ELSE IF x = "http" THEN encounter.http ELSE encounter.resolver
  <2> SUFFICES ASSUME NEW x
               PROVE  Outcome(x, what) =
                         IF x = "gateway" THEN encounter.gateway
                         ELSE IF x \in Anchors THEN encounter.anchor
                         ELSE IF x = "dns-gateway" THEN encounter.forwarder
                         ELSE IF x = "http" THEN encounter.http ELSE encounter.resolver
    OBVIOUS
  <2>1. /\ x = "gateway" => x \notin Anchors /\ x # "dns-gateway" /\ x # "http"
        /\ x \in Anchors => x # "dns-gateway" /\ x # "http"
        /\ x = "dns-gateway" => x # "http"
    BY KindsDiffer DEF Icmp
  <2>2. CASE x = "gateway"
    BY <2>1, <2>2, Zenon DEF Outcome
  <2>3. CASE x \in Anchors
    BY <2>1, <2>3, Zenon DEF Outcome
  <2>4. CASE x = "dns-gateway"
    BY <2>1, <2>4, Zenon DEF Outcome
  <2>5. CASE x = "http"
    BY <2>1, <2>5, Zenon DEF Outcome
  <2>6. CASE x \notin {"gateway", "dns-gateway", "http"} \cup Anchors
    BY <2>6, Zenon DEF Outcome
  <2> QED BY <2>2, <2>3, <2>4, <2>5, <2>6
<1>2. "gateway" \notin Anchors /\ "http" \notin Anchors /\ "http" \notin Resolvers
  BY KindsDiffer DEF Icmp
<1>3. \A x \in Resolvers : x # "gateway" /\ x \notin Anchors
  BY KindsDiffer DEF Icmp
<1>4. \A x \in Anchors : x # "gateway"
  BY KindsDiffer
<1> HIDE DEF encounter
<1>5. Outcome("gateway", what) = encounter.gateway /\ Outcome("http", what) = encounter.http
  BY <1>1, <1>2
<1>6. \A x \in Anchors : Outcome(x, what) = encounter.anchor
  BY <1>1, <1>4
<1>7. \A x \in Resolvers :
         Outcome(x, what) = IF x = "dns-gateway" THEN encounter.forwarder ELSE encounter.resolver
  BY <1>1, <1>2, <1>3
<1> QED BY <1>5, <1>6, <1>7 DEF encounter

LEMMA PingFits ==
    ASSUME NEW x \in Icmp, NEW what \in DOMAIN Encounters
    PROVE  Fits(x, PingTarget(Outcome(x, what)), what)
<1> DEFINE outcome == Outcome(x, what)
<1>1. IF what \in Downs(x) THEN outcome.is \in {"OSError", "no_reply"}
      ELSE \E ms \in Int : /\ outcome = Reply(ms)
                           /\ x \in Anchors => ms = IF what = "congested" THEN Congested ELSE Fast
  <2>1. CASE x = "gateway"
    <3>1. x \notin Anchors /\ Downs(x) = Dark /\ outcome = Encounters[what].gateway
      BY <2>1, KindsDiffer, DownsAre, OutcomeIs
    <3> HIDE DEF outcome
    <3> QED BY <3>1, FaultsAre, EncountersAre DEF Meets, Dark, Raised
  <2>2. CASE x \in Anchors
    <3>1. Downs(x) = Dark \cup NoIcmp /\ outcome = Encounters[what].anchor
      BY <2>2, DownsAre, OutcomeIs
    <3>2. Fast \in Int /\ Congested \in Int
      BY DEF Fast, Congested
    <3> HIDE DEF outcome
    <3> QED BY <3>1, <3>2, FaultsAre, EncountersAre DEF Meets, Dark, NoIcmp, Raised
  <2> QED BY <2>1, <2>2 DEF Icmp
<1>2. x \notin Interfaces /\ x # "http"
  BY KindsDiffer
<1> HIDE DEF outcome
<1>3. CASE what \in Downs(x)
  <2>1. outcome.is \in {"OSError", "no_reply"}
    BY <1>1, <1>3
  <2>2. PingTarget(outcome) \in SampleRecords /\ ~PingTarget(outcome).success
    BY <2>1 DEF PingTarget, ErrorCode, Failed, Sample, Errno, Nothing, SampleRecords
  <2> QED BY <1>2, <1>3, <2>2 DEF Fits, Says, outcome
<1>4. CASE what \notin Downs(x)
  <2>1. PICK ms \in Int :
           /\ outcome = Reply(ms)
           /\ x \in Anchors => ms = IF what = "congested" THEN Congested ELSE Fast
    BY <1>1, <1>4
  <2>2. /\ PingTarget(Reply(ms)) \in SampleRecords
        /\ PingTarget(Reply(ms)).success /\ PingTarget(Reply(ms)).value = ms
    BY <2>1 DEF PingTarget, Reply, ErrorCode, Sample, Nothing, SampleRecords
  <2> QED BY <1>2, <1>4, <2>1, <2>2 DEF Fits, Says, outcome
<1> QED BY <1>3, <1>4

LEMMA CheckFits ==
    ASSUME NEW what \in DOMAIN Encounters
    PROVE  Fits("http", CheckOnce(Outcome("http", what)), what)
<1> DEFINE outcome == Outcome("http", what)
<1>1. IF what \in NoUplink THEN outcome \in {Raised("HTTPError"), Raised("TimeoutException")}
      ELSE outcome = IF what = "portal" THEN Response(302, FALSE) ELSE Response(204, FALSE)
  <2>1. outcome = Encounters[what].http
    BY OutcomeIs
  <2> HIDE DEF outcome
  <2> QED BY <2>1, FaultsAre, EncountersAre DEF Meets, NoUplink, Response
<1>2. /\ CheckOnce(outcome) \in SampleRecords
      /\ CheckOnce(outcome).success <=> what \notin NoUplink
      /\ CheckOnce(outcome).success => CheckOnce(outcome).code \in HttpOkCodes
  <2> HIDE DEF outcome
  <2> QED BY <1>1 DEF CheckOnce, Raised, Response, Failed, Sample, Nothing, TimedOut,
                     ConnectionError, ExpectStatus, Clean, CaptivePortal, UnexpectedStatus,
                     Intercepted, SampleRecords, HttpOkCodes
<1> QED BY <1>2, KindsDiffer, DownsAre DEF Fits, Says, Icmp

LEMMA InterfaceFits ==
    ASSUME NEW what \in DOMAIN Encounters
    PROVE  LET stats == Encounters[what].stats
           IN  Fits("eth", SampleInterface("eth", stats, DOMAIN stats), what)
<1> DEFINE stats == Encounters[what].stats
           sample == SampleInterface("eth", stats, DOMAIN stats)
<1>1. stats = IF what = "adapter_gone" THEN NoLink
              ELSE IF what = "unplugged" THEN LinkDown ELSE LinkUp
  BY FaultsAre, EncountersAre DEF Meets
<1>2. /\ sample \in SampleRecords /\ (sample.success <=> what \notin {"unplugged", "adapter_gone"})
      /\ ~sample.success => (sample.code = -1 <=> what = "adapter_gone")
  <2> HIDE DEF stats
  <2>1. CASE what = "adapter_gone"
    <3>1. "eth" \notin DOMAIN NoLink
      BY DEF NoLink
    <3>2. sample = Failed(Absent)
      BY <1>1, <2>1, <3>1 DEF SampleInterface
    <3> HIDE DEF sample
    <3> QED BY <2>1, <3>2 DEF Failed, Sample, Absent, Nothing, SampleRecords
  <2>2. CASE what # "adapter_gone"
    <3>1. "eth" \in DOMAIN LinkUp /\ LinkUp.eth = Interface(TRUE)
          /\ "eth" \in DOMAIN LinkDown /\ LinkDown.eth = Interface(FALSE)
      BY DEF LinkUp, LinkDown
    <3>2. /\ "eth" \in DOMAIN stats
          /\ stats["eth"] = IF what = "unplugged" THEN Interface(FALSE) ELSE Interface(TRUE)
      BY <1>1, <2>2, <3>1
    <3>3. sample = Sample(stats["eth"].is_up, stats["eth"].errors, stats["eth"].speed)
      BY <3>2, Zenon DEF SampleInterface
    <3> HIDE DEF sample
    <3>4. CASE what = "unplugged"
      <4>1. sample = Sample(FALSE, 0, 1000)
        BY <3>2, <3>3, <3>4 DEF Interface
      <4> QED BY <2>2, <3>4, <4>1 DEF Sample, SampleRecords
    <3>5. CASE what # "unplugged"
      <4>1. sample = Sample(TRUE, 0, 1000)
        BY <3>2, <3>3, <3>5 DEF Interface
      <4> QED BY <2>2, <3>5, <4>1 DEF Sample, SampleRecords
    <3> QED BY <3>4, <3>5
  <2> QED BY <2>1, <2>2
<1>3. "eth" \in Interfaces
  BY Environment DEF Environment
<1> HIDE DEF stats, sample
<1>4. Fits("eth", sample, what)
  BY <1>2, <1>3, KindsDiffer, DownsAre DEF Fits, Says
<1> QED BY <1>4 DEF stats, sample

(* A query fails only with one of the two exceptions, whatever the probe     *)
(* remembers.                                                                *)
LEMMA ResolveFits ==
    ASSUME NEW r \in Resolvers, NEW what \in DOMAIN Encounters
    PROVE  Fits(r, Resolution(r, what).sample, what)
<1> DEFINE here == Encounters[what]
           outcome == Outcome(r, what)
           asked == IF outcome.is = "answer" /\ outcome.rrset = Genuine
                    THEN [outcome EXCEPT !.rrset = {NextName(probes[r])}] ELSE outcome
           sample == ResolveOnce(NextName(probes[r]), asked, probes[r].last)
<1>1. Resolution(r, what).sample = sample
  BY Zenon DEF Resolution, Resolve
<1>2. IF what \in Downs(r)
      THEN outcome.is \in {"LifetimeTimeout", "NoNameservers"}
      ELSE \E rrset : outcome = Answer(rrset)
  <2>1. IF what \in NoUplink \cup {"forwarder_dead"}
        THEN here.forwarder.is \in {"LifetimeTimeout", "NoNameservers"}
        ELSE here.forwarder = Answer(IF what \in {"hijacked", "portal"} THEN Forged ELSE Genuine)
    BY FaultsAre, EncountersAre DEF Meets, NoUplink, Raised
  <2>2. IF what \in NoUplink
        THEN here.resolver.is \in {"LifetimeTimeout", "NoNameservers"}
        ELSE here.resolver = Answer(IF what = "hijacked" THEN Forged ELSE Genuine)
    BY FaultsAre, EncountersAre DEF Meets, NoUplink, Raised
  <2> HIDE DEF here
  <2>3. Downs(r) = IF r = "dns-gateway" THEN NoUplink \cup {"forwarder_dead"} ELSE NoUplink
    BY DownsAre
  <2>4. outcome = IF r = "dns-gateway" THEN here.forwarder ELSE here.resolver
    BY OutcomeIs DEF here
  <2> HIDE DEF outcome
  <2> QED BY <2>1, <2>2, <2>3, <2>4, Zenon
<1> HIDE DEF here, outcome
<1>3. CASE what \in Downs(r)
  <2>1. asked = outcome
    BY <1>2, <1>3
  <2>2. sample = Failed(Nothing)
    BY <1>2, <1>3, <2>1 DEF ResolveOnce
  <2> HIDE DEF sample
  <2>3. sample \in SampleRecords /\ ~sample.success
    BY <2>2 DEF Failed, Sample, Nothing, SampleRecords
  <2>4. Fits(r, sample, what)
    BY <1>3, <2>3, KindsDiffer DEF Fits, Says
  <2> QED BY <1>1, <2>4 DEF here
<1>4. CASE what \notin Downs(r)
  <2>1. PICK rrset : outcome = Answer(rrset)
    BY <1>2, <1>4
  <2>2. Answer(rrset).is = "answer" /\ Answer(rrset).ms = 5
    BY DEF Answer
  <2>3. \A answer : LET other == [Answer(rrset) EXCEPT !.rrset = answer]
                    IN  other.is = "answer" /\ other.ms = 5
    BY Zenon DEF Answer
  <2>4. asked.is = "answer" /\ asked.ms = 5
    BY <2>1, <2>2, <2>3, Zenon
  <2> HIDE DEF asked
  <2>5. \E code \in {NoError, AnswerChanged} : sample = Sample(TRUE, 5, code)
    BY <2>4 DEF ResolveOnce
  <2> HIDE DEF sample
  <2>6. sample \in SampleRecords /\ sample.success
    BY <2>5 DEF Sample, NoError, AnswerChanged, SampleRecords
  <2>7. Fits(r, sample, what)
    BY <1>4, <2>6, KindsDiffer DEF Fits, Says
  <2> QED BY <1>1, <2>7 DEF here
<1> QED BY <1>3, <1>4

-----------------------------------------------------------------------------
(* What a tick stores                                                        *)
RowsFor(series, x) == IF x \in DOMAIN series THEN series[x] ELSE << >>

AgentTyped == knowsGateway \in BOOLEAN /\ watched \in SUBSET {"eth"}

LEMMA CallsAre ==
    ASSUME AgentTyped
    PROVE  /\ PingTargets \subseteq Calls /\ PingTargets \subseteq Icmp
           /\ DnsTargets \subseteq Resolvers
           /\ Calls \subseteq PingTargets \cup watched \cup DnsTargets \cup {"http"}
           /\ Calls \subseteq Icmp \cup {"eth"} \cup Resolvers \cup {"http"}
           /\ Calls \cap Icmp = PingTargets
           /\ "eth" \in Interfaces
<1>1. PingTargets \subseteq Icmp /\ DnsTargets \subseteq Resolvers
  BY DEF PingTargets, DnsTargets, Icmp
<1>2. "eth" \in Interfaces
  BY Environment DEF Environment
<1>3. \A x \in watched : x = "eth"
  BY DEF AgentTyped
<1>4. Calls \subseteq PingTargets \cup watched \cup DnsTargets \cup {"http"}
  BY DEF Calls
<1>5. PingTargets \subseteq Calls
  BY DEF Calls
<1>6. Calls \cap Icmp = PingTargets
  BY <1>1, <1>2, <1>3, <1>4, <1>5, KindsDiffer
<1> QED BY <1>1, <1>2, <1>3, <1>4, <1>5, <1>6

LEMMA MeasuredFits ==
    ASSUME NEW x \in Icmp \cup {"eth"} \cup Resolvers \cup {"http"},
           NEW what \in DOMAIN Encounters
    PROVE  Fits(x, Measured(x, what), what)
<1>1. "eth" \in Interfaces
  BY Environment DEF Environment
<1>2. CASE x \in Icmp
  <2>1. x \notin Interfaces /\ x # "http"
    BY <1>2, KindsDiffer
  <2>2. Measured(x, what) = PingTarget(Outcome(x, what))
    BY <1>2, <2>1, Zenon DEF Measured
  <2> QED BY <1>2, <2>2, PingFits
<1>3. CASE x = "eth"
  <2>1. x \notin Icmp /\ x \in Interfaces /\ x # "http"
    BY <1>1, <1>3, KindsDiffer
  <2>2. Measured(x, what) = SampleInterface(x, Encounters[what].stats, DOMAIN Encounters[what].stats)
    BY <2>1, Zenon DEF Measured
  <2> QED BY <1>3, <2>2, InterfaceFits
<1>4. CASE x \in Resolvers
  <2>1. x \notin Icmp /\ x \notin Interfaces /\ x # "http"
    BY <1>4, KindsDiffer
  <2>2. Measured(x, what) = Resolution(x, what).sample
    BY <2>1, Zenon DEF Measured
  <2> QED BY <1>4, <2>2, ResolveFits
<1>5. CASE x = "http"
  <2>1. x \notin Icmp /\ x \notin Interfaces
    BY <1>5, KindsDiffer
  <2>2. Measured(x, what) = CheckOnce(Outcome(x, what))
    BY <1>5, <2>1, Zenon DEF Measured
  <2> QED BY <1>5, <2>2, CheckFits
<1> QED BY <1>2, <1>3, <1>4, <1>5

LEMMA StoredRows ==
    ASSUME NEW calls, Stores(calls)
    PROVE  /\ DOMAIN stored' = DOMAIN stored \cup DOMAIN calls
           /\ \A x : RowsFor(stored', x) =
                 IF x \in DOMAIN calls
                 THEN Append(RowsFor(stored, x), Row(now, Measured(x, calls[x])))
                 ELSE RowsFor(stored, x)
<1> DEFINE D == DOMAIN stored \cup DOMAIN calls
           next(x) == IF x \in DOMAIN calls
                      THEN Append(RowsFor(stored, x), Row(now, Measured(x, calls[x])))
                      ELSE stored[x]
<1>1. stored' = [x \in D |-> next(x)]
  BY Zenon DEF Stores, RowsWith, RowsFor
<1> HIDE DEF next
<1>2. DOMAIN stored' = D /\ \A x : RowsFor(stored', x) = IF x \in D THEN next(x) ELSE << >>
  BY <1>1, Zenon DEF RowsFor
<1>3. \A x : (IF x \in D THEN next(x) ELSE << >>) =
               IF x \in DOMAIN calls
               THEN Append(RowsFor(stored, x), Row(now, Measured(x, calls[x])))
               ELSE RowsFor(stored, x)
  BY Zenon DEF next, RowsFor
<1> QED BY <1>2, <1>3

-----------------------------------------------------------------------------
(* The rows tell what the calls met                                          *)
RowRecords == [ts : Nat \ {0}, success : BOOLEAN, value : Int, code : Int]

(* One row for each call to the target, stamped with its tick, in order, that*)
(* says what the call met.                                                   *)
TrueRows(x, rows, hist) ==
    /\ rows \in Seq(RowRecords)
    /\ \A i \in 1 .. Len(rows) :
          LET t == rows[i].ts
          IN  t \in DOMAIN hist /\ x \in DOMAIN hist[t] /\ Says(x, rows[i], hist[t][x])
    /\ \A i, j \in 1 .. Len(rows) : i < j => rows[i].ts < rows[j].ts
    /\ \A t \in DOMAIN hist : x \in DOMAIN hist[t] => \E i \in 1 .. Len(rows) : rows[i].ts = t

Later(hist, n, calls) == [t \in DOMAIN hist \cup {n} |-> IF t = n THEN calls ELSE hist[t]]

LEMMA RowsGrow ==
    ASSUME NEW x, NEW rows, NEW n \in Nat \ {0}, NEW hist,
           \A t \in DOMAIN hist : t \in 1 .. n - 1,
           TrueRows(x, rows, hist), NEW calls, NEW sample,
           x \in DOMAIN calls => Fits(x, sample, calls[x])
    PROVE  TrueRows(x, IF x \in DOMAIN calls THEN Append(rows, Row(n, sample)) ELSE rows,
                    Later(hist, n, calls))
<1> DEFINE more == Later(hist, n, calls)
           N == Len(rows)
<1>1. /\ DOMAIN more = DOMAIN hist \cup {n} /\ more[n] = calls
      /\ \A t \in DOMAIN hist : t < n /\ t # n /\ more[t] = hist[t]
  BY DEF Later, more
<1> HIDE DEF more
<1>2. rows \in Seq(RowRecords) /\ N \in Nat
  BY DEF TrueRows
<1>3. CASE x \notin DOMAIN calls
  <2>1. \A t \in DOMAIN more : x \in DOMAIN more[t] => t \in DOMAIN hist /\ more[t] = hist[t]
    BY <1>1, <1>3
  <2>2. TrueRows(x, rows, more)
    BY <1>1, <2>1 DEF TrueRows
  <2> QED BY <1>3, <2>2 DEF more
<1>4. CASE x \in DOMAIN calls
  <2> DEFINE row == Row(n, sample)
             longer == Append(rows, row)
  <2>1. row \in RowRecords /\ row.ts = n /\ Says(x, row, calls[x])
    <3>1. row \in RowRecords
      BY <1>4 DEF Fits, Row, RowRecords, SampleRecords
    <3> QED BY <1>4, <3>1 DEF Fits, Row, Says
  <2> HIDE DEF row
  <2>2. /\ longer \in Seq(RowRecords) /\ Len(longer) = N + 1 /\ longer[N + 1] = row
        /\ \A i \in 1 .. N : longer[i] = rows[i]
    BY <1>2, <2>1
  <2>3. \A i \in 1 .. N : /\ rows[i].ts \in DOMAIN hist /\ x \in DOMAIN hist[rows[i].ts]
                           /\ Says(x, rows[i], hist[rows[i].ts][x])
    BY DEF TrueRows
  <2>4. \A i, j \in 1 .. N : i < j => rows[i].ts < rows[j].ts
    BY DEF TrueRows
  <2>5. \A t \in DOMAIN hist : x \in DOMAIN hist[t] => \E i \in 1 .. N : rows[i].ts = t
    BY DEF TrueRows
  <2> HIDE DEF longer, N
  <2>6. \A i \in 1 .. N + 1 : i \in 1 .. N \/ i = N + 1
    BY <1>2
  <2>7. ASSUME NEW i \in 1 .. N + 1
        PROVE  LET t == longer[i].ts
               IN  t \in DOMAIN more /\ x \in DOMAIN more[t] /\ Says(x, longer[i], more[t][x])
    <3>1. CASE i \in 1 .. N
      BY <1>1, <2>2, <2>3, <3>1
    <3>2. CASE i = N + 1
      BY <1>1, <1>4, <2>1, <2>2, <3>2
    <3> QED BY <2>6, <3>1, <3>2
  <2>8. ASSUME NEW i \in 1 .. N + 1, NEW j \in 1 .. N + 1, i < j
        PROVE  longer[i].ts < longer[j].ts
    <3>1. i \in 1 .. N
      BY <1>2, <2>8
    <3>2. CASE j \in 1 .. N
      BY <2>2, <2>4, <2>8, <3>1, <3>2
    <3>3. CASE j = N + 1
      BY <1>1, <2>1, <2>2, <2>3, <3>1, <3>3
    <3> QED BY <2>6, <3>2, <3>3
  <2>9. ASSUME NEW t \in DOMAIN more, x \in DOMAIN more[t]
        PROVE  \E i \in 1 .. N + 1 : longer[i].ts = t
    <3>1. CASE t \in DOMAIN hist
      <4>1. PICK i \in 1 .. N : rows[i].ts = t
        BY <1>1, <2>5, <2>9, <3>1
      <4>2. i \in 1 .. N + 1
        BY <1>2
      <4> QED BY <2>2, <4>1, <4>2
    <3>2. CASE t = n
      <4>1. N + 1 \in 1 .. N + 1
        BY <1>2
      <4> QED BY <2>1, <2>2, <3>2, <4>1
    <3> QED BY <1>1, <3>1, <3>2
  <2>10. TrueRows(x, longer, more)
    BY <2>2, <2>7, <2>8, <2>9 DEF TrueRows
  <2> QED BY <1>4, <2>10 DEF more, longer, row
<1> QED BY <1>3, <1>4

-----------------------------------------------------------------------------
(* What the agent finds when it starts                                       *)
Gateways == [known : BOOLEAN, interface : {"", "eth"}]
RouteRecords == [next_hop : {"ip", "onlink", "other"}, metric : Nat, interface : {"", "eth"}]

(* The routes that the parsers choose from have a first one.                 *)
LEMMA RoutesLead ==
    ASSUME NEW routes \in Seq(RouteRecords)
    PROVE  /\ ParseMacos(routes) \in Gateways
           /\ ParseLinux(routes) \in Gateways
           /\ ParseWindows(routes) \in Gateways
<1> DEFINE D == DOMAIN routes
<1>1. D = 1 .. Len(routes) /\ Len(routes) \in Nat
  OBVIOUS
<1>2. \A i \in D : routes[i] \in RouteRecords
  BY <1>1, ElementOfSeq
<1>3. \A i \in D : routes[i].metric \in Nat /\ routes[i].interface \in {"", "eth"}
  BY <1>2 DEF RouteRecords
<1>4. NoGateway \in Gateways /\ \A i \in D : ViaRoute(routes[i]) \in Gateways
  BY <1>3 DEF NoGateway, ViaRoute, Gateways
<1>5. ParseMacos(routes) \in Gateways
  <2>1. routes # << >> => 1 \in D /\ Head(routes) = routes[1]
    BY <1>1
  <2> QED BY <1>4, <2>1, Zenon DEF ParseMacos
<1>6. ParseLinux(routes) \in Gateways
  <2> DEFINE U == {i \in D : routes[i].next_hop # "other"}
             first == CHOOSE i \in U : \A j \in U : i <= j
  <2>1. U # {} => first \in D
    <3>1. U \in SUBSET Nat
      BY <1>1
    <3>2. U # {} => \E i \in U : \A j \in U : i <= j
      <4> HIDE DEF U
      <4> QED BY <3>1, Smallest
    <3>3. U # {} => first \in U
      BY <3>2, Zenon
    <3> QED BY <3>3
  <2>2. ParseLinux(routes) = IF U = {} THEN NoGateway ELSE ViaRoute(routes[first])
    BY Zenon DEF ParseLinux
  <2> HIDE DEF U, first
  <2> QED BY <1>4, <2>1, <2>2, Zenon
<1>7. ParseWindows(routes) \in Gateways
  <2> DEFINE U == {i \in D : routes[i].next_hop = "ip"}
             before(i, j) == \/ routes[i].metric < routes[j].metric
                             \/ routes[i].metric = routes[j].metric /\ i <= j
             first == CHOOSE i \in U : \A j \in U : before(i, j)
  <2>1. U # {} => \E i \in U : \A j \in U : before(i, j)
    <3> SUFFICES ASSUME U # {} PROVE \E i \in U : \A j \in U : before(i, j)
      OBVIOUS
    <3> DEFINE M == {routes[i].metric : i \in U}
    <3>1. M \in SUBSET Nat /\ M # {}
      BY <1>3
    <3>2. PICK m \in M : \A k \in M : m <= k
      <4> HIDE DEF M
      <4> QED BY <3>1, Smallest
    <3> DEFINE L == {i \in U : routes[i].metric = m}
    <3>3. L \in SUBSET Nat /\ L # {}
      BY <1>1, <3>2
    <3>4. PICK i \in L : \A j \in L : i <= j
      <4> HIDE DEF L
      <4> QED BY <3>3, Smallest
    <3>5. \A j \in U : routes[j].metric \in Nat /\ m <= routes[j].metric
      BY <1>3, <3>2
    <3>6. i \in U /\ routes[i].metric = m /\ m \in Nat
      BY <1>3
    <3>7. \A j \in U : routes[j].metric = m => i <= j
      BY <3>4
    <3> HIDE DEF M, L, U
    <3>8. \A j \in U : before(i, j)
      BY <3>5, <3>6, <3>7
    <3> QED BY <3>6, <3>8
  <2>2. U # {} => first \in D
    <3>1. U # {} => first \in U
      <4> HIDE DEF U, before
      <4> QED BY <2>1, Zenon
    <3> QED BY <3>1
  <2>3. ParseWindows(routes) = IF U = {} THEN NoGateway ELSE ViaRoute(routes[first])
    BY Zenon DEF ParseWindows
  <2> HIDE DEF U, first
  <2> QED BY <1>4, <2>2, <2>3, Zenon
<1> QED BY <1>5, <1>6, <1>7

LEMMA GatewayFound ==
    ASSUME NEW host \in Hosts, NEW prevailing
    PROVE  DiscoverGateway(AsFound(host, prevailing)) \in Gateways
<1> DEFINE seen == AsFound(host, prevailing)
<1>1. seen.routes \in Seq(RouteRecords)
  <2>1. host \in [system : STRING, runs : BOOLEAN, routes : Seq(RouteRecords)]
    BY Environment DEF Environment, RouteRecords
  <2>2. host.routes \in Seq(RouteRecords) /\ << >> \in Seq(RouteRecords)
    BY <2>1
  <2>3. [host EXCEPT !.routes = << >>].routes = << >>
    BY <2>1
  <2> QED BY <2>2, <2>3, Zenon DEF AsFound
<1> HIDE DEF seen
<1>2. NoGateway \in Gateways
  BY DEF NoGateway, Gateways
<1>3. DiscoverGateway(seen) \in {NoGateway, ParseMacos(seen.routes),
                                  ParseLinux(seen.routes), ParseWindows(seen.routes)}
  BY DEF DiscoverGateway
<1>4. DiscoverGateway(seen) \in Gateways
  BY <1>1, <1>2, <1>3, RoutesLead
<1> QED BY <1>4 DEF seen

LEMMA InterfacesFound ==
    ASSUME NEW gateway \in Gateways, NEW what \in DOMAIN Encounters,
           NEW names \in IfaceNames(gateway, Encounters[what].stats)
    PROVE  names \in SUBSET {"eth"}
<1> DEFINE stats == Encounters[what].stats
<1>1. stats \in {NoLink, LinkUp, LinkDown}
  BY FaultsAre, EncountersAre DEF Meets
<1>2. DOMAIN stats \ {"lo"} \subseteq {"eth"}
  <2>1. /\ DOMAIN NoLink = {"lo"} /\ DOMAIN LinkUp = {"lo", "eth"}
        /\ DOMAIN LinkDown = {"lo", "eth"}
    BY DEF LinkUp, LinkDown, NoLink
  <2> HIDE DEF stats
  <2> QED BY <1>1, <2>1
<1> HIDE DEF stats
<1>3. \A n \in DefaultIfaceNames(stats) : n \in SUBSET {"eth"}
  BY <1>2 DEF DefaultIfaceNames
<1>4. gateway.interface # "" => gateway.interface = "eth"
  BY DEF Gateways
<1> QED BY <1>3, <1>4 DEF IfaceNames, stats

-----------------------------------------------------------------------------
(* What a tick takes                                                         *)
LEMMA LeastOf ==
    ASSUME NEW S \in SUBSET Int, S # {}, NEW low \in Int, \A s \in S : low <= s
    PROVE  Min(S) \in S /\ \A s \in S : Min(S) <= s
<1>1. \E s \in S : \A r \in S : s <= r
  BY SmallestInt
<1> QED BY <1>1 DEF Min

LEMMA TwoOf ==
    ASSUME NEW a \in Int, NEW b \in Int
    PROVE  /\ Max({a, b}) \in {a, b} /\ a <= Max({a, b}) /\ b <= Max({a, b})
           /\ Min({a, b}) \in {a, b} /\ Min({a, b}) <= a /\ Min({a, b}) <= b
<1> DEFINE S == {a, b}
<1>1. S \in SUBSET Int /\ S # {}
  OBVIOUS
<1>2. \E low, high \in Int : \A s \in S : low <= s /\ s <= high
  BY SMT
<1>3. Min(S) \in S /\ \A s \in S : Min(S) <= s
  <2> HIDE DEF S
  <2> QED BY <1>1, <1>2, LeastOf
<1>4. \E s \in S : \A r \in S : r <= s
  <2> HIDE DEF S
  <2> QED BY <1>1, <1>2, Largest
<1>5. Max(S) \in S /\ \A s \in S : s <= Max(S)
  <2>1. \E s \in S : \A r \in S : s >= r
    BY <1>4
  <2> HIDE DEF S
  <2> QED BY <2>1 DEF Max
<1> HIDE DEF S
<1>6. a \in S /\ b \in S /\ \A s \in S : s \in {a, b}
  BY DEF S
<1>7. /\ Max(S) \in {a, b} /\ a <= Max(S) /\ b <= Max(S)
      /\ Min(S) \in {a, b} /\ Min(S) <= a /\ Min(S) <= b
  BY <1>3, <1>5, <1>6
<1> QED BY <1>7 DEF S

LEMMA IcmpIsFinite == IsFiniteSet(Icmp) /\ IsFiniteSet(Resolvers) /\ IsFiniteSet({"http"})
<1>1. IsFiniteSet(Anchors) /\ IsFiniteSet(Resolvers)
  <2>1. IsFiniteSet(Anchors \cup Resolvers)
    BY DiagnosisConstants DEF DiagnosisConstants
  <2> QED BY <2>1, FS_Subset
<1>2. IsFiniteSet({"gateway"}) /\ IsFiniteSet({"http"})
  BY FS_Singleton
<1>3. Icmp = {"gateway"} \cup Anchors
  BY DEF Icmp
<1> QED BY <1>1, <1>2, <1>3, FS_Union

Unanswered(calls, targets, exception) ==
    Cardinality({x \in DOMAIN calls \cap targets : Outcome(x, calls[x]).is = exception})

LEMMA TookIs ==
    ASSUME NEW calls
    PROVE  /\ Took(calls) = PingWait * Unanswered(calls, Icmp, "no_reply")
                            + DnsWait * Unanswered(calls, Resolvers, "LifetimeTimeout")
                            + HttpWait * Unanswered(calls, {"http"}, "TimeoutException")
           /\ Unanswered(calls, Icmp, "no_reply") \in Nat
           /\ Unanswered(calls, Resolvers, "LifetimeTimeout") \in Nat
           /\ Unanswered(calls, {"http"}, "TimeoutException") \in Nat
           /\ Took(calls) \in Nat
<1>1. \A targets, exception : IsFiniteSet(targets) => Unanswered(calls, targets, exception) \in Nat
  <2> SUFFICES ASSUME NEW targets, NEW exception, IsFiniteSet(targets)
               PROVE  Unanswered(calls, targets, exception) \in Nat
    OBVIOUS
  <2> DEFINE U == {x \in DOMAIN calls \cap targets : Outcome(x, calls[x]).is = exception}
  <2>1. U \subseteq targets
    OBVIOUS
  <2>2. IsFiniteSet(U)
    <3> HIDE DEF U
    <3> QED BY <2>1, FS_Subset
  <2>3. Cardinality(U) \in Nat
    <3> HIDE DEF U
    <3> QED BY <2>2, FS_CardinalityType
  <2> QED BY <2>3 DEF Unanswered
<1>2. Took(calls) = PingWait * Unanswered(calls, Icmp, "no_reply")
                    + DnsWait * Unanswered(calls, Resolvers, "LifetimeTimeout")
                    + HttpWait * Unanswered(calls, {"http"}, "TimeoutException")
  BY Zenon DEF Took, Unanswered
<1>3. PingWait \in Nat /\ DnsWait \in Nat /\ HttpWait \in Nat
  BY DiagnosisConstants DEF DiagnosisConstants
<1>4. /\ Unanswered(calls, Icmp, "no_reply") \in Nat
      /\ Unanswered(calls, Resolvers, "LifetimeTimeout") \in Nat
      /\ Unanswered(calls, {"http"}, "TimeoutException") \in Nat
  BY <1>1, IcmpIsFinite
<1>5. \A a, b, c, d, e, f \in Nat : a * b + c * d + e * f \in Nat
  OBVIOUS
<1> QED BY <1>2, <1>3, <1>4, <1>5

-----------------------------------------------------------------------------
(* The inductive invariant: besides the types, that each call of a tick met  *)
(* a fault, that the rows stored tell the calls met, and that the findings   *)
(* are those of the rows.                                                    *)
Probes(p) ==
    \A r \in Resolvers : p[r].index \in Nat /\ DOMAIN p[r].last \subseteq Range(QueryNames)

StateInv ==
    /\ now \in Nat \ {0} /\ fault \in Faults
    /\ changes \in 0 .. MaxChanges
    /\ AgentTyped
    /\ due \in [Kinds -> Nat]
    /\ Probes(probes)

Met(t, calls) ==
    /\ t \in 1 .. now - 1
    /\ PingTargets \subseteq DOMAIN calls
    /\ DOMAIN calls \subseteq PingTargets \cup watched \cup DnsTargets \cup {"http"}
    /\ \A x \in DOMAIN calls : calls[x] \in Faults

HistoryInv == \A t \in DOMAIN met : Met(t, met[t])

RowsInv ==
    /\ "gateway" \in DOMAIN stored => knowsGateway
    /\ \A x : TrueRows(x, RowsFor(stored, x), met)

FoundInv == found \subseteq DetectAll([to |-> now, series |-> stored])

IInv == StateInv /\ HistoryInv /\ RowsInv /\ FoundInv

LEMMA NextNameIn ==
    ASSUME NEW probe, probe.index \in Nat
    PROVE  NextName(probe) \in Range(QueryNames)
<1> DEFINE n == Len(QueryNames)
           k == probe.index % n
<1>1. QueryNames \in Seq(STRING) /\ QueryNames # << >>
  BY CollectorsConstants DEF CollectorsConstants
<1>2. n \in Nat \ {0} /\ DOMAIN QueryNames = 1 .. n
  BY <1>1, EmptySeq
<1>3. k \in 0 .. n - 1
  <2> HIDE DEF n
  <2> QED BY <1>2
<1>4. k + 1 \in DOMAIN QueryNames
  <2> HIDE DEF n, k
  <2> QED BY <1>2, <1>3
<1> HIDE DEF k
<1> QED BY <1>4 DEF NextName, Range, k, n

LEMMA InitHolds == ASSUME Init PROVE IInv
<1>1. /\ now = 1 /\ met = << >> /\ stored = << >> /\ found = {} /\ changes = 0
      /\ DOMAIN met = {} /\ DOMAIN stored = {}
  BY DEF Init
<1>2. fault \in Faults /\ fault \in DOMAIN Encounters
  BY Environment DEF Init, Environment
<1>3. AgentTyped
  <2>1. PICK host \in Hosts :
           LET gateway == DiscoverGateway(AsFound(host, fault))
           IN  /\ knowsGateway = gateway.known
               /\ watched \in IfaceNames(gateway, Encounters[fault].stats)
    BY DEF Init
  <2> DEFINE gateway == DiscoverGateway(AsFound(host, fault))
  <2>2. gateway \in Gateways
    BY GatewayFound
  <2> HIDE DEF gateway
  <2>3. knowsGateway = gateway.known /\ watched \in IfaceNames(gateway, Encounters[fault].stats)
    BY <2>1 DEF gateway
  <2>4. watched \in SUBSET {"eth"}
    BY <1>2, <2>2, <2>3, InterfacesFound
  <2>5. knowsGateway \in BOOLEAN
    BY <2>2, <2>3 DEF Gateways
  <2> QED BY <2>4, <2>5 DEF AgentTyped
<1>4. due \in [Kinds -> Nat]
  BY DEF Init
<1>5. Probes(probes)
  <2>1. probes = [r \in Resolvers |-> NewProbe]
    BY DEF Init
  <2>2. NewProbe.index = 0 /\ NewProbe.last = << >> /\ DOMAIN << >> = {}
    BY DEF NewProbe
  <2> QED BY <2>1, <2>2 DEF Probes
<1>6. StateInv
  <2>1. MaxChanges \in Nat
    BY DiagnosisConstants DEF DiagnosisConstants
  <2> QED BY <1>1, <1>2, <1>3, <1>4, <1>5, <2>1 DEF StateInv
<1>7. HistoryInv
  BY <1>1 DEF HistoryInv
<1>8. RowsInv
  <2>1. \A x : RowsFor(stored, x) = << >>
    BY <1>1 DEF RowsFor
  <2>2. Len(<< >>) = 0 /\ << >> \in Seq(RowRecords)
    BY EmptySeq
  <2>3. \A x : TrueRows(x, << >>, met)
    BY <1>1, <2>2 DEF TrueRows
  <2> QED BY <1>1, <2>1, <2>3, Zenon DEF RowsInv
<1>9. FoundInv
  BY <1>1 DEF FoundInv
<1> QED BY <1>6, <1>7, <1>8, <1>9 DEF IInv

LEMMA ProbesKept ==
    ASSUME Probes(probes), NEW calls, NEW tardy, CollectOnce(calls, tardy)
    PROVE  Probes(probes')
<1> SUFFICES ASSUME NEW r \in Resolvers
             PROVE  /\ probes'[r].index \in Nat
                    /\ DOMAIN probes'[r].last \subseteq Range(QueryNames)
  BY DEF Probes
<1>1. probes[r].index \in Nat /\ DOMAIN probes[r].last \subseteq Range(QueryNames)
  BY DEF Probes
<1>2. probes'[r] = probes[r] \/ probes'[r] = Resolution(r, calls[r]).probe
  BY Zenon DEF CollectOnce
<1> DEFINE name == NextName(probes[r])
<1>3. \E outcome : Resolution(r, calls[r]).probe =
         [index |-> probes[r].index + 1, last |-> Remember(name, outcome, probes[r].last)]
  BY Zenon DEF Resolution, Resolve
<1>4. name \in Range(QueryNames)
  BY <1>1, NextNameIn
<1> HIDE DEF name
<1>5. \A outcome : DOMAIN Remember(name, outcome, probes[r].last)
                      \subseteq DOMAIN probes[r].last \cup {name}
  BY DEF Remember
<1> QED BY <1>1, <1>2, <1>3, <1>4, <1>5

(* What a cycle is: one tick, whatever disturbs it.                          *)
Disturbs(before, then, nap, at) ==
    IF then = fault /\ nap = 0
    THEN before = Calls /\ UNCHANGED spells
    ELSE /\ Disturbable
         /\ then \in Moments[Cardinality(DOMAIN met) + 1]
         /\ spells' = spells
                \o (IF nap = 0 THEN << >> ELSE <<[what |-> "asleep", from |-> at]>>)
                \o <<[what |-> then, from |-> at + nap]>>

Does(calls, then, nap, tardy, next) ==
    /\ changes' = changes + Cardinality(tardy) + (IF then = fault /\ nap = 0 THEN 0 ELSE 1)
    /\ changes' <= MaxChanges
    /\ CollectOnce(calls, tardy)
    /\ met' = [t \in DOMAIN met \cup {now} |-> IF t = now THEN calls ELSE met[t]]
    /\ fault' = then
    /\ now' = next

LEMMA CycleIs ==
    ASSUME StateInv, Cycle
    PROVE  /\ \E calls \in [Calls -> Faults], tardy \in SUBSET ({"cycle"} \cup Kinds) :
                 CollectOnce(calls, tardy) /\ met' = Later(met, now, calls)
           /\ now' \in Nat /\ now < now'
           /\ fault' \in Faults /\ changes' \in 0 .. MaxChanges
<1>0. PICK before \in Beginnings, then \in Faults, nap \in Naps, tardy \in Tardies :
         LET calls == [x \in Calls |-> IF x \in before THEN fault ELSE then]
             over == Max({now + 1 + (IF "cycle" \in tardy THEN 1 ELSE 0), now + Took(calls)})
             at == IF before = Calls THEN over ELSE now + Took([x \in before |-> fault])
         IN  Disturbs(before, then, nap, at) /\ Does(calls, then, nap, tardy, over + nap)
  BY Zenon DEF Cycle, Disturbs, Does
<1> DEFINE calls == [x \in Calls |-> IF x \in before THEN fault ELSE then]
           tick == now + 1 + (IF "cycle" \in tardy THEN 1 ELSE 0)
           over == Max({tick, now + Took(calls)})
           at == IF before = Calls THEN over ELSE now + Took([x \in before |-> fault])
<1>1. Disturbs(before, then, nap, at) /\ Does(calls, then, nap, tardy, over + nap)
  BY <1>0
<1> HIDE DEF at
<1>2. fault \in Faults /\ now \in Nat /\ nap \in Nat
  BY DiagnosisConstants DEF DiagnosisConstants, StateInv
<1>3. calls \in [Calls -> Faults]
  BY <1>2
<1>4. tardy \in SUBSET ({"cycle"} \cup Kinds)
  BY DEF Tardies
<1>5. Took(calls) \in Nat
  <2> HIDE DEF calls
  <2> QED BY TookIs
<1>6. tick \in Nat /\ now < tick
  BY <1>2
<1>7. over \in Nat /\ now < over
  <2> HIDE DEF tick, calls
  <2>1. now + Took(calls) \in Nat
    BY <1>2, <1>5
  <2>2. over \in {tick, now + Took(calls)} /\ tick <= over
    <3>1. tick \in Int /\ now + Took(calls) \in Int
      BY <1>6, <2>1
    <3> QED BY <3>1, TwoOf
  <2> HIDE DEF over
  <2> QED BY <1>2, <1>6, <2>1, <2>2
<1>8. now' \in Nat /\ now < now'
  <2>1. now' = over + nap
    BY <1>1 DEF Does
  <2> HIDE DEF over
  <2> QED BY <1>2, <1>7, <2>1
<1>9. Cardinality(tardy) \in Nat
  <2>1. IsFiniteSet({"cycle"} \cup Kinds)
    <3>1. IsFiniteSet({"iface"}) /\ IsFiniteSet({"dns"}) /\ IsFiniteSet({"http"}) /\ IsFiniteSet({"cycle"})
      BY FS_Singleton
    <3>2. {"cycle"} \cup Kinds = (({"cycle"} \cup {"iface"}) \cup {"dns"}) \cup {"http"}
      BY DEF Kinds
    <3> QED BY <3>1, <3>2, FS_Union
  <2> QED BY <1>4, <2>1, FS_Subset, FS_CardinalityType
<1>10. changes' \in 0 .. MaxChanges
  <2>1. MaxChanges \in Nat /\ changes \in Nat
    BY DiagnosisConstants DEF DiagnosisConstants, StateInv
  <2> DEFINE one == IF then = fault /\ nap = 0 THEN 0 ELSE 1
  <2>2. changes' = changes + Cardinality(tardy) + one /\ changes' <= MaxChanges
    BY <1>1 DEF Does
  <2>3. one \in Nat
    OBVIOUS
  <2> HIDE DEF one
  <2> QED BY <1>9, <2>1, <2>2, <2>3
<1>11. CollectOnce(calls, tardy) /\ met' = Later(met, now, calls) /\ fault' \in Faults
  <2>1. /\ CollectOnce(calls, tardy) /\ fault' = then
        /\ met' = [t \in DOMAIN met \cup {now} |-> IF t = now THEN calls ELSE met[t]]
    BY <1>1 DEF Does
  <2> HIDE DEF calls
  <2> QED BY <2>1, Zenon DEF Later
<1> HIDE DEF calls
<1> QED BY <1>3, <1>4, <1>8, <1>10, <1>11

LEMMA CycleTyped ==
    ASSUME StateInv, Cycle
    PROVE  StateInv'
<1>1. PICK calls \in [Calls -> Faults], tardy \in SUBSET ({"cycle"} \cup Kinds) :
         CollectOnce(calls, tardy)
  BY CycleIs
<1>2. now' \in Nat \ {0} /\ fault' \in Faults /\ changes' \in 0 .. MaxChanges
  BY CycleIs DEF StateInv
<1>3. AgentTyped'
  BY DEF StateInv, Cycle, AgentTyped
<1>4. due' \in [Kinds -> Nat]
  <2>1. due' = [c \in Kinds |->
                   IF IsDue(c) THEN now + Every[c] + (IF c \in tardy THEN 1 ELSE 0) ELSE due[c]]
    BY <1>1, Zenon DEF CollectOnce
  <2>2. \A c \in Kinds : Every[c] \in Nat /\ due[c] \in Nat
    BY DiagnosisConstants DEF DiagnosisConstants, StateInv
  <2>3. now \in Nat
    BY DEF StateInv
  <2> QED BY <2>1, <2>2, <2>3
<1>5. Probes(probes')
  BY <1>1, ProbesKept DEF StateInv
<1> QED BY <1>2, <1>3, <1>4, <1>5 DEF StateInv, Probes

LEMMA CycleKeepsRows ==
    ASSUME StateInv, HistoryInv, RowsInv, Cycle
    PROVE  HistoryInv' /\ RowsInv'
<1>1. PICK calls \in [Calls -> Faults], tardy \in SUBSET ({"cycle"} \cup Kinds) :
         CollectOnce(calls, tardy) /\ met' = Later(met, now, calls)
  BY CycleIs
<1>2. now \in Nat \ {0} /\ now' \in Nat /\ now < now' /\ AgentTyped
  BY CycleIs DEF StateInv
<1>3. /\ PingTargets' = PingTargets /\ DnsTargets' = DnsTargets
      /\ watched' = watched /\ knowsGateway' = knowsGateway
  BY DEF Cycle, PingTargets, DnsTargets
<1>4. \A t \in DOMAIN met : t \in 1 .. now - 1
  BY DEF HistoryInv, Met
<1>5. /\ DOMAIN met' = DOMAIN met \cup {now} /\ met'[now] = calls
      /\ \A t \in DOMAIN met : t < now /\ t # now /\ met'[t] = met[t]
  <2>1. now \in Nat
    BY <1>2
  <2>2. /\ DOMAIN Later(met, now, calls) = DOMAIN met \cup {now}
        /\ Later(met, now, calls)[now] = calls
        /\ \A t \in DOMAIN met : t < now /\ t # now /\ Later(met, now, calls)[t] = met[t]
    BY <1>4, <2>1 DEF Later
  <2> QED BY <1>1, <2>2
<1>6. DOMAIN calls = Calls /\ \A x \in Calls : calls[x] \in Faults
  OBVIOUS
<1>7. /\ PingTargets \subseteq Calls
      /\ Calls \subseteq PingTargets \cup watched \cup DnsTargets \cup {"http"}
      /\ Calls \subseteq Icmp \cup {"eth"} \cup Resolvers \cup {"http"}
      /\ Calls \cap Icmp = PingTargets
  BY <1>2, CallsAre
<1>8. HistoryInv'
  <2> SUFFICES ASSUME NEW t \in DOMAIN met'
               PROVE  /\ t \in 1 .. now' - 1
                      /\ PingTargets \subseteq DOMAIN met'[t]
                      /\ DOMAIN met'[t] \subseteq PingTargets \cup watched \cup DnsTargets \cup {"http"}
                      /\ \A x \in DOMAIN met'[t] : met'[t][x] \in Faults
    BY <1>3 DEF HistoryInv, Met
  <2>1. CASE t \in DOMAIN met
    <3>1. Met(t, met[t]) /\ met'[t] = met[t]
      BY <1>5, <2>1 DEF HistoryInv
    <3>2. t \in 1 .. now - 1
      BY <3>1 DEF Met
    <3>3. t \in 1 .. now' - 1
      BY <1>2, <3>2
    <3> QED BY <3>1, <3>3 DEF Met
  <2>2. CASE t = now
    <3>1. \A a \in Nat \ {0}, b \in Nat : a < b => a \in 1 .. b - 1
      OBVIOUS
    <3>2. t \in 1 .. now' - 1
      BY <1>2, <2>2, <3>1
    <3> QED BY <1>5, <1>6, <1>7, <2>2, <3>2
  <2> QED BY <1>5, <2>1, <2>2
<1>9. Stores(calls)
  BY <1>1 DEF CollectOnce
<1>10. /\ DOMAIN stored' = DOMAIN stored \cup Calls
       /\ \A x : RowsFor(stored', x) =
                    IF x \in Calls
                    THEN Append(RowsFor(stored, x), Row(now, Measured(x, calls[x])))
                    ELSE RowsFor(stored, x)
  BY <1>6, <1>9, StoredRows
<1>11. ASSUME NEW x PROVE TrueRows(x, RowsFor(stored', x), met')
  <2> DEFINE sample == Measured(x, calls[x])
             rows == RowsFor(stored, x)
  <2>1. TrueRows(x, rows, met)
    BY DEF RowsInv
  <2>2. x \in DOMAIN calls => Fits(x, sample, calls[x])
    <3>1. \A y \in Calls : y \in Icmp \cup {"eth"} \cup Resolvers \cup {"http"}
      BY <1>7
    <3>2. \A y \in Calls : calls[y] \in DOMAIN Encounters
      BY <1>6, Environment DEF Environment
    <3> QED BY <1>6, <3>1, <3>2, MeasuredFits
  <2>3. RowsFor(stored', x) = IF x \in DOMAIN calls THEN Append(rows, Row(now, sample)) ELSE rows
    BY <1>6, <1>10
  <2> HIDE DEF sample, rows
  <2>4. TrueRows(x, IF x \in DOMAIN calls THEN Append(rows, Row(now, sample)) ELSE rows,
                 Later(met, now, calls))
    BY <1>2, <1>4, <2>1, <2>2, RowsGrow
  <2> QED BY <1>1, <2>3, <2>4
<1>12. "gateway" \in DOMAIN stored' => knowsGateway'
  <2>1. "gateway" \in Icmp /\ "gateway" \notin Anchors
    BY Labels DEF Icmp, Labels
  <2>2. "gateway" \in PingTargets => knowsGateway
    BY <2>1 DEF PingTargets
  <2> QED BY <1>3, <1>7, <1>10, <2>1, <2>2 DEF RowsInv
<1> QED BY <1>8, <1>11, <1>12 DEF RowsInv

LEMMA NextHolds == ASSUME IInv, [Next]_vars PROVE IInv'
<1>1. CASE Next
  <2>1. Cycle
    BY <1>1 DEF Next
  <2>2. FoundInv'
    BY <2>1 DEF Cycle, FoundInv
  <2> QED BY <2>1, <2>2, CycleTyped, CycleKeepsRows DEF IInv
<1>2. CASE UNCHANGED vars
  <2>1. StateInv'
    BY <1>2 DEF IInv, vars, StateInv, AgentTyped, Probes
  <2>2. HistoryInv'
    BY <1>2 DEF IInv, vars, HistoryInv, Met, PingTargets, DnsTargets
  <2>3. RowsInv'
    BY <1>2 DEF IInv, vars, RowsInv
  <2>4. FoundInv'
    BY <1>2 DEF IInv, vars, FoundInv
  <2> QED BY <2>1, <2>2, <2>3, <2>4 DEF IInv
<1> QED BY <1>1, <1>2

(* Every reachable state has it: whatever disturbs the ticks, what the agent *)
(* stores (runner.py, collectors/) tells what their calls met.               *)
THEOREM DiagnosisInvariant == Spec => []IInv
<1>1. Init => IInv
  BY InitHolds
<1>2. IInv /\ [Next]_vars => IInv'
  BY NextHolds
<1> QED BY <1>1, <1>2, PTL DEF Spec

-----------------------------------------------------------------------------
(* What a span rests on                                                      *)
(* It starts at one of the instants B and ends at one, if it has ended, and  *)
(* n of them lie in it.                                                      *)
Bears(B, to, started, ended, n) ==
    /\ started \in B
    /\ ended = Ongoing \/ (ended \in B /\ started <= ended)
    /\ \E v \in 1 .. to : /\ n <= Cardinality(B \cap (started .. v))
                          /\ ended = Ongoing \/ v <= ended

LEMMA FastBears ==
    ASSUME NEW to \in Nat, NEW C \in SUBSET (1 .. to), NEW B \in SUBSET C,
           NEW points, Instants(points, C, B), NEW span \in FindSpans(points)
    PROVE  Bears(B, to, span.started, span.ended, Enter)
<1>1. Lasts(C, B, to, span.started, span.ended)
  BY SpanLasts
<1> QED BY <1>1, Zenon DEF Lasts, Bears

(* The points that a rule makes of rows.                                     *)
Times(rows) == {rows[i].ts : i \in 1 .. Len(rows)}
BadTimes(rows, points) == {rows[i].ts : i \in Bads(points)}

LEMMA RowPoints ==
    ASSUME NEW x, NEW rows, NEW hist, NEW to \in Nat,
           TrueRows(x, rows, hist), \A t \in DOMAIN hist : t \in 1 .. to,
           NEW points, DOMAIN points = 1 .. Len(rows), points = [i \in DOMAIN points |-> points[i]],
           \A i \in 1 .. Len(rows) : points[i] \in [ts : {rows[i].ts}, bad : BOOLEAN]
    PROVE  /\ Instants(points, Times(rows), BadTimes(rows, points))
           /\ Times(rows) \in SUBSET (1 .. to)
           /\ BadTimes(rows, points) \in SUBSET Times(rows)
<1> DEFINE n == Len(rows)
<1>1. n \in Nat /\ \A i \in 1 .. n : rows[i].ts \in 1 .. to
  BY DEF TrueRows
<1>2. \A i, j \in 1 .. n : i < j => rows[i].ts < rows[j].ts
  BY DEF TrueRows
<1> HIDE DEF n
<1>3. \A i \in 1 .. n : points[i] \in [ts : Nat \ {0}, bad : BOOLEAN] /\ points[i].ts = rows[i].ts
  BY <1>1 DEF n
<1>4. points \in [1 .. n -> [ts : Nat \ {0}, bad : BOOLEAN]]
  BY <1>3 DEF n
<1>5. points \in Seq([ts : Nat \ {0}, bad : BOOLEAN]) /\ Len(points) = n
  <2> DEFINE P == [ts : Nat \ {0}, bad : BOOLEAN]
  <2> HIDE DEF P
  <2>1. points \in Seq(P)
    <3>1. n \in Nat /\ points \in [1 .. n -> P]
      BY <1>1, <1>4 DEF P
    <3> QED BY <3>1, SeqDef, ZenonT(30)
  <2>2. DOMAIN points = 1 .. Len(points) /\ Len(points) \in Nat
    BY <2>1, LenProperties
  <2>3. 1 .. Len(points) = 1 .. n
    BY <1>4, <2>2 DEF P
  <2>4. Len(points) = n
    BY <1>1, <2>2, <2>3
  <2> QED BY <2>1, <2>4 DEF P
<1>6. points \in PointSeqs
  BY <1>2, <1>3, <1>5 DEF PointSeqs
<1>7. Bads(points) \subseteq 1 .. n
  BY <1>5 DEF Bads
<1>8. \A i \in 1 .. n : i \in Bads(points) <=> rows[i].ts \in BadTimes(rows, points)
  <2>1. \A i, j \in 1 .. n : rows[i].ts = rows[j].ts => i = j
    BY <1>1, <1>2
  <2> QED BY <1>7, <2>1 DEF BadTimes
<1>9. Instants(points, Times(rows), BadTimes(rows, points))
  BY <1>3, <1>5, <1>6, <1>8 DEF Instants, Times, n
<1> QED BY <1>1, <1>7, <1>9 DEF Times, BadTimes, n

-----------------------------------------------------------------------------
(* From the rows to what the findings claim                                  *)
Window == [to |-> now, series |-> stored]

Earnest(f) ==
    LET about == About(f)
        true == {t \in about : Claims(f, t)}
    IN  /\ Cardinality(true) >= Confirmations(f)
        /\ Tells(f, about)
        /\ f.type # "loss_burst" =>
              /\ f.started \in true
              /\ f.ended = Ongoing \/ f.ended \in true

InTime(f) ==
    /\ f.started \in Ticks
    /\ f.ended = Ongoing \/ (f.ended \in Ticks /\ f.started <= f.ended)

Claimed(f) == {t \in Ticks : Claims(f, t)}

LEMMA TicksAre ==
    ASSUME StateInv, HistoryInv
    PROVE  /\ now \in Nat /\ \A t \in Ticks : t \in 1 .. now /\ t \in Nat \ {0}
           /\ \A S \in SUBSET Ticks : IsFiniteSet(S) /\ Cardinality(S) \in Nat
           /\ \A t \in Ticks : \A x : Asks(t, x) => met[t][x] \in DOMAIN Encounters
           /\ \A t \in Ticks, x \in PingTargets : Asks(t, x)
<1>1. now \in Nat \ {0}
  BY DEF StateInv
<1>2. \A t \in Ticks : t \in 1 .. now - 1
  BY DEF HistoryInv, Met, Ticks
<1>3. \A t \in Ticks : t \in 1 .. now /\ t \in Nat \ {0}
  BY <1>1, <1>2
<1>4. ASSUME NEW S \in SUBSET Ticks PROVE IsFiniteSet(S) /\ Cardinality(S) \in Nat
  <2>1. IsFiniteSet(1 .. now)
    BY <1>1, FS_Interval
  <2>2. S \in SUBSET (1 .. now)
    BY <1>3
  <2> QED BY <2>1, <2>2, FS_Subset, FS_CardinalityType
<1>5. \A t \in Ticks : \A x : Asks(t, x) => met[t][x] \in DOMAIN Encounters
  BY Environment DEF Environment, HistoryInv, Met, Ticks, Asks
<1>6. \A t \in Ticks, x \in PingTargets : Asks(t, x)
  BY DEF HistoryInv, Met, Ticks, Asks
<1> QED BY <1>1, <1>3, <1>4, <1>5, <1>6

LEMMA RowsTell ==
    ASSUME StateInv, HistoryInv, RowsInv, NEW x
    PROVE  LET rows == RowsFor(stored, x)
           IN  /\ Len(rows) \in Nat /\ DOMAIN rows = 1 .. Len(rows) /\ rows \in Seq(RowRecords)
               /\ \A i \in 1 .. Len(rows) :
                     /\ rows[i].ts \in 1 .. now /\ rows[i].ts \in Ticks /\ Asks(rows[i].ts, x)
                     /\ rows[i].success \in BOOLEAN
                     /\ Says(x, rows[i], met[rows[i].ts][x])
               /\ \A i, j \in 1 .. Len(rows) : i < j => rows[i].ts < rows[j].ts
               /\ \A t \in Ticks : Asks(t, x) => \E i \in 1 .. Len(rows) : rows[i].ts = t
<1> DEFINE rows == RowsFor(stored, x)
<1>1. TrueRows(x, rows, met)
  BY DEF RowsInv
<1> HIDE DEF rows
<1>2. Len(rows) \in Nat /\ DOMAIN rows = 1 .. Len(rows) /\ rows \in Seq(RowRecords)
  BY <1>1 DEF TrueRows
<1>3. \A i \in 1 .. Len(rows) : rows[i] \in RowRecords
  BY <1>2, ElementOfSeq
<1>4. \A i \in 1 .. Len(rows) : rows[i].success \in BOOLEAN
  BY <1>3 DEF RowRecords
<1>5. \A i \in 1 .. Len(rows) :
         /\ rows[i].ts \in Ticks /\ Asks(rows[i].ts, x) /\ Says(x, rows[i], met[rows[i].ts][x])
  BY <1>1 DEF TrueRows, Asks, Ticks
<1>6. \A i \in 1 .. Len(rows) : rows[i].ts \in 1 .. now
  BY <1>5, TicksAre
<1>7. \A i, j \in 1 .. Len(rows) : i < j => rows[i].ts < rows[j].ts
  BY <1>1 DEF TrueRows
<1>8. \A t \in Ticks : Asks(t, x) => \E i \in 1 .. Len(rows) : rows[i].ts = t
  BY <1>1 DEF TrueRows, Asks, Ticks
<1> QED BY <1>2, <1>4, <1>5, <1>6, <1>7, <1>8 DEF rows

(* The ticks of a span are those from its start to its end.                  *)
LEMMA AboutSpan ==
    ASSUME StateInv, HistoryInv, NEW f, f.type # "loss_burst"
    PROVE  About(f) = {t \in Ticks : /\ f.started <= t
                                     /\ t <= IF f.ended = Ongoing THEN now ELSE f.ended}
<1>1. \A t \in Ticks : t <= now
  BY TicksAre
<1>2. About(f) = {t \in {u \in Ticks : u >= f.started} : f.ended = Ongoing \/ t <= f.ended}
  BY Zenon DEF About
<1> QED BY <1>1, <1>2

(* A finding whose span rests on ticks in which what it claims was so.       *)
LEMMA BearsOut ==
    ASSUME StateInv, HistoryInv, NEW f, f.type # "loss_burst", NEW B \in SUBSET Claimed(f),
           Confirmations(f) \in Nat,
           Bears(B, now, f.started, f.ended, Confirmations(f)),
           Tells(f, About(f))
    PROVE  Earnest(f) /\ InTime(f)
<1> DEFINE true == {t \in About(f) : Claims(f, t)}
           end == IF f.ended = Ongoing THEN now ELSE f.ended
<1>1. now \in Nat /\ \A t \in Ticks : t \in 1 .. now /\ t \in Nat
  BY TicksAre
<1>2. B \subseteq Ticks /\ \A t \in B : Claims(f, t)
  BY DEF Claimed
<1>3. About(f) = {t \in Ticks : f.started <= t /\ t <= end}
  BY AboutSpan
<1>4. /\ f.started \in B
      /\ f.ended = Ongoing \/ (f.ended \in B /\ f.started <= f.ended)
  BY DEF Bears
<1>5. PICK v \in 1 .. now : /\ Confirmations(f) <= Cardinality(B \cap (f.started .. v))
                            /\ f.ended = Ongoing \/ v <= f.ended
  BY DEF Bears
<1>6. f.started \in Nat /\ end \in Nat /\ v <= end /\ f.started <= end
  <2>1. f.started \in 1 .. now
    BY <1>1, <1>2, <1>4
  <2>2. CASE f.ended = Ongoing
    BY <1>1, <1>5, <2>1, <2>2
  <2>3. CASE f.ended # Ongoing
    <3>1. f.ended \in 1 .. now
      BY <1>1, <1>2, <1>4, <2>3
    <3> QED BY <1>1, <1>4, <1>5, <2>1, <2>3, <3>1
  <2> QED BY <2>2, <2>3
<1>7. f.ended # Ongoing => end = f.ended
  OBVIOUS
<1> HIDE DEF end
<1>8. B \cap (f.started .. v) \subseteq true
  BY <1>1, <1>2, <1>3, <1>6
<1>9. f.started \in true
  BY <1>1, <1>2, <1>3, <1>4, <1>6
<1>10. f.ended = Ongoing \/ f.ended \in true
  BY <1>1, <1>2, <1>3, <1>4, <1>7
<1>11. true \subseteq Ticks
  BY <1>3
<1>12. Cardinality(true) >= Confirmations(f)
  <2> HIDE DEF true
  <2>1. IsFiniteSet(true) /\ Cardinality(true) \in Nat
    BY <1>11, TicksAre
  <2>2. Cardinality(B \cap (f.started .. v)) <= Cardinality(true)
    BY <1>8, <2>1, FS_Subset
  <2>3. Cardinality(B \cap (f.started .. v)) \in Nat
    BY <1>8, <2>1, FS_Subset, FS_CardinalityType
  <2> QED BY <1>5, <2>1, <2>2, <2>3
<1>13. InTime(f)
  BY <1>2, <1>4 DEF InTime
<1> QED BY <1>9, <1>10, <1>12, <1>13 DEF Earnest

-----------------------------------------------------------------------------
(* The two merged rules                                                      *)
(* What a merged window says of a tick.                                      *)
Reads(t, reading) ==
    /\ t \in Ticks
    /\ \A x \in Icmp \cup {"http"} : x \in DOMAIN reading <=> Asks(t, x)
    /\ \A x \in DOMAIN reading \cap (Icmp \cup {"http"}) : reading[x] <=> Up(t, x)

LEMMA RowSucceeds ==
    ASSUME NEW x \in Icmp \cup {"http"}, NEW row, NEW t, Asks(t, x), Says(x, row, met[t][x])
    PROVE  Succeeded(x, row) <=> Up(t, x)
  BY DEF Succeeded, Says, Up

LEMMA MergedReads ==
    ASSUME StateInv, HistoryInv, RowsInv
    PROVE  LET window == Merged(Window)
           IN  /\ window.to = now
               /\ \A t \in DOMAIN window.at : Reads(t, window.at[t])
               /\ \A t \in Ticks : Asks(t, "http") => t \in DOMAIN window.at
<1> DEFINE window == Merged(Window)
           targets == DOMAIN stored \cap (Icmp \cup {"http"})
           times(x) == {stored[x][i].ts : i \in DOMAIN stored[x]}
           good(x) == {stored[x][i].ts :
                         i \in {j \in DOMAIN stored[x] : Succeeded(x, stored[x][j])}}
<1>1. /\ window.to = now
      /\ DOMAIN window.at = UNION {times(x) : x \in targets}
      /\ \A t \in DOMAIN window.at :
            window.at[t] = [x \in {y \in targets : t \in times(y)} |-> t \in good(x)]
  <2>1. Window.to = now /\ Window.series = stored
    BY DEF Window
  <2>2. window = [to |-> now,
                  at |-> [t \in UNION {times(x) : x \in targets} |->
                             [x \in {y \in targets : t \in times(y)} |-> t \in good(x)]]]
    BY <2>1 DEF Merged
  <2> HIDE DEF window, targets, times, good
  <2> QED BY <2>2, Zenon
<1> HIDE DEF window
<1>2. ASSUME NEW x \in targets
      PROVE  /\ \A t \in times(x) : t \in Ticks /\ Asks(t, x) /\ (t \in good(x) <=> Up(t, x))
             /\ \A t \in Ticks : Asks(t, x) => t \in times(x)
  <2> DEFINE rows == stored[x]
  <2>1. /\ Len(rows) \in Nat /\ DOMAIN rows = 1 .. Len(rows)
        /\ \A i \in 1 .. Len(rows) : /\ rows[i].ts \in 1 .. now /\ rows[i].ts \in Ticks
                                     /\ Asks(rows[i].ts, x)
                                     /\ Says(x, rows[i], met[rows[i].ts][x])
        /\ \A i, j \in 1 .. Len(rows) : i < j => rows[i].ts < rows[j].ts
        /\ \A t \in Ticks : Asks(t, x) => \E i \in 1 .. Len(rows) : rows[i].ts = t
    <3>1. x \in DOMAIN stored /\ rows = RowsFor(stored, x)
      BY DEF RowsFor
    <3> QED BY <3>1, RowsTell
  <2>2. times(x) = {rows[i].ts : i \in 1 .. Len(rows)}
    BY <2>1
  <2>3. good(x) = {rows[i].ts : i \in {j \in 1 .. Len(rows) : Succeeded(x, rows[j])}}
    BY <2>1
  <2> HIDE DEF rows, times, good
  <2>4. \A i \in 1 .. Len(rows) : Succeeded(x, rows[i]) <=> Up(rows[i].ts, x)
    BY <2>1, RowSucceeds
  <2> QED BY <2>1, <2>2, <2>3, <2>4
<1> HIDE DEF times, good
<1>3. ASSUME NEW t \in Ticks, NEW x \in Icmp \cup {"http"}, Asks(t, x)
      PROVE  x \in targets /\ t \in times(x)
  <2>1. x \in DOMAIN stored
    <3>1. \E i \in 1 .. Len(RowsFor(stored, x)) : TRUE
      BY <1>3, RowsTell
    <3>2. Len(<< >>) = 0
      OBVIOUS
    <3> QED BY <3>1, <3>2 DEF RowsFor
  <2>2. x \in targets
    BY <2>1
  <2> QED BY <1>2, <1>3, <2>2
<1>4. \A t \in Ticks : Asks(t, "http") => t \in DOMAIN window.at
  <2> HIDE DEF targets
  <2> QED BY <1>1, <1>3
<1>5. ASSUME NEW t \in DOMAIN window.at PROVE Reads(t, window.at[t])
  <2> DEFINE reading == window.at[t]
  <2>1. PICK x \in targets : t \in times(x)
    BY <1>1
  <2>2. t \in Ticks
    BY <1>2, <2>1
  <2>3. /\ DOMAIN reading = {y \in targets : t \in times(y)}
        /\ \A y \in DOMAIN reading : reading[y] = (t \in good(y))
    BY <1>1
  <2> HIDE DEF reading, targets
  <2>4. \A y \in DOMAIN reading : Asks(t, y) /\ (reading[y] <=> Up(t, y))
    BY <1>2, <2>3
  <2>5. \A y \in Icmp \cup {"http"} : Asks(t, y) => y \in DOMAIN reading
    BY <1>3, <2>2, <2>3
  <2> QED BY <2>2, <2>4, <2>5 DEF Reads, reading
<1> QED BY <1>1, <1>4, <1>5 DEF window

LEMMA ConstantsTyped ==
    /\ Enter \in Nat \ {0} /\ SlowConfirm \in Nat \ {0} /\ SpikeConfirm \in Nat \ {0}
    /\ LossWindow \in Nat \ {0} /\ MinFailures \in Nat \ {0} /\ MinRtts \in Nat \ {0}
    /\ Multiplier \in Nat /\ FloorMs \in Nat
  BY RulesConstants, TargetRulesConstants DEF RulesConstants, TargetRulesConstants

(* Every ping target is called in every tick.                                *)
LEMMA OutageEarnest ==
    ASSUME StateInv, HistoryInv, RowsInv, NEW span \in FindSpans(OutagePoints(Merged(Window))),
           NEW f, f.type = "outage", f.started = span.started, f.ended = span.ended
    PROVE  Earnest(f) /\ InTime(f)
<1> DEFINE window == Merged(Window)
           C == {t \in DOMAIN window.at : SomePing(window.at[t])}
           B == {t \in C : AllDown(window.at[t])}
<1>1. window.to = now /\ \A t \in DOMAIN window.at : Reads(t, window.at[t])
  BY MergedReads
<1> HIDE DEF window
<1>2. now \in Nat /\ \A t \in Ticks : t \in 1 .. now
  BY TicksAre
<1>3. C \in SUBSET (1 .. now) /\ B \in SUBSET C
  BY <1>1, <1>2 DEF Reads
<1>4. OutagePoints(window) = PointsOf(now, C, B)
  BY <1>1, Zenon DEF OutagePoints
<1>5. B \subseteq Claimed(f)
  <2> SUFFICES ASSUME NEW t \in B PROVE t \in Ticks /\ Claims(f, t)
    BY DEF Claimed
  <2> DEFINE reading == window.at[t]
  <2>1. Reads(t, reading) /\ AllDown(reading)
    BY <1>1
  <2> HIDE DEF reading
  <2>2. t \in Ticks
    BY <2>1 DEF Reads
  <2>3. ASSUME NEW x \in PingTargets PROVE Down(t, x)
    <3>1. x \in Icmp /\ Asks(t, x)
      BY <2>2, TicksAre DEF PingTargets, Icmp
    <3>2. x \in DOMAIN reading
      BY <2>1, <3>1 DEF Reads
    <3>3. ~Up(t, x)
      BY <2>1, <3>1, <3>2 DEF Reads, AllDown
    <3> QED BY <3>1, <3>3 DEF Up, Down
  <2> QED BY <2>2, <2>3, Zenon DEF Claims
<1> HIDE DEF B, C
<1>6. Instants(OutagePoints(window), C, B)
  BY <1>2, <1>3, <1>4, InstantsOf
<1>7. Bears(B, now, f.started, f.ended, Enter)
  BY <1>2, <1>3, <1>6, FastBears DEF window
<1>8. Confirmations(f) = Enter /\ Tells(f, About(f))
  BY DEF Confirmations, Tells
<1> QED BY <1>5, <1>7, <1>8, BearsOut, ConstantsTyped

(* What the rows of a target in the time of a span say of the ticks then.    *)
LEMMA WithinTells ==
    ASSUME StateInv, HistoryInv, RowsInv, NEW x, NEW f, f.type # "loss_burst",
           NEW span, f.started = span.started, f.ended = span.ended
    PROVE  LET within == Within(RowsOf(Window, x), span, now)
           IN  /\ \A row \in within : \E t \in About(f) : Asks(t, x) /\ Says(x, row, met[t][x])
               /\ \A t \in About(f) : Asks(t, x) => \E row \in within : Says(x, row, met[t][x])
<1> DEFINE rows == RowsFor(stored, x)
           within == Within(rows, span, now)
<1>1. RowsOf(Window, x) = rows
  BY Zenon DEF RowsOf, Window, RowsFor
<1>2. /\ DOMAIN rows = 1 .. Len(rows)
      /\ \A i \in 1 .. Len(rows) : /\ rows[i].ts \in Ticks /\ Asks(rows[i].ts, x)
                                   /\ Says(x, rows[i], met[rows[i].ts][x])
      /\ \A t \in Ticks : Asks(t, x) => \E i \in 1 .. Len(rows) : rows[i].ts = t
  BY RowsTell
<1> HIDE DEF rows
<1>3. within = {rows[i] : i \in {j \in 1 .. Len(rows) :
                 /\ f.started <= rows[j].ts
                 /\ rows[j].ts <= IF f.ended = Ongoing THEN now ELSE f.ended}}
  BY <1>2 DEF Within
<1>4. About(f) = {t \in Ticks : /\ f.started <= t
                                /\ t <= IF f.ended = Ongoing THEN now ELSE f.ended}
  BY AboutSpan
<1> HIDE DEF within
<1>5. ASSUME NEW row \in within
      PROVE  \E t \in About(f) : Asks(t, x) /\ Says(x, row, met[t][x])
  <2>1. PICK i \in 1 .. Len(rows) :
           /\ row = rows[i] /\ f.started <= rows[i].ts
           /\ rows[i].ts <= IF f.ended = Ongoing THEN now ELSE f.ended
    BY <1>3
  <2> QED BY <1>2, <1>4, <2>1
<1>6. ASSUME NEW t \in About(f), Asks(t, x)
      PROVE  \E row \in within : Says(x, row, met[t][x])
  <2>1. PICK i \in 1 .. Len(rows) : rows[i].ts = t
    BY <1>2, <1>4, <1>6
  <2>2. rows[i] \in within
    BY <1>3, <1>4, <2>1
  <2> QED BY <1>2, <2>1, <2>2
<1> QED BY <1>1, <1>5, <1>6 DEF within

LEMMA ResolversTell ==
    ASSUME StateInv, HistoryInv, RowsInv, NEW r \in Resolvers, NEW f, f.type # "loss_burst",
           NEW span, f.started = span.started, f.ended = span.ended
    PROVE  (\E row \in Within(RowsOf(Window, r), span, now) : row.success)
               <=> \E t \in About(f) : Up(t, r)
<1> DEFINE within == Within(RowsOf(Window, r), span, now)
<1>1. /\ \A row \in within : \E t \in About(f) : Asks(t, r) /\ Says(r, row, met[t][r])
      /\ \A t \in About(f) : Asks(t, r) => \E row \in within : Says(r, row, met[t][r])
  BY WithinTells
<1> HIDE DEF within
<1>2. \A row, t : Asks(t, r) /\ Says(r, row, met[t][r]) => (row.success <=> Up(t, r))
  BY DEF Says, Up
<1>3. \A t : Up(t, r) => Asks(t, r)
  BY DEF Up
<1>4. (\E row \in within : row.success) <=> \E t \in About(f) : Up(t, r)
  BY <1>1, <1>2, <1>3, Zenon
<1> QED BY <1>4 DEF within

(* An HTTP success in the span, and only that, turns a lost internet into    *)
(* filtered pings.                                                           *)
LEMMA UpstreamEarnest ==
    ASSUME StateInv, HistoryInv, RowsInv, NEW span \in FindSpans(UpstreamPoints(Merged(Window))),
           NEW f, f.type = IF HttpSucceededDuring(Merged(Window), span) THEN "icmp_filtered"
                           ELSE "gateway_up_internet_down",
           f.subtype = "dns_and_reachability" => DnsAllFailed(Window, span),
           f.started = span.started, f.ended = span.ended
    PROVE  Earnest(f) /\ InTime(f)
<1> DEFINE window == Merged(Window)
           C == {t \in DOMAIN window.at : BothSides(window.at[t])}
           B == {t \in C : InternetDown(window.at[t])}
<1>1. /\ window.to = now /\ \A t \in DOMAIN window.at : Reads(t, window.at[t])
      /\ \A t \in Ticks : Asks(t, "http") => t \in DOMAIN window.at
  BY MergedReads
<1> HIDE DEF window
<1>2. now \in Nat /\ \A t \in Ticks : t \in 1 .. now
  BY TicksAre
<1>3. C \in SUBSET (1 .. now) /\ B \in SUBSET C
  BY <1>1, <1>2 DEF Reads
<1>4. UpstreamPoints(window) = PointsOf(now, C, B)
  BY <1>1, Zenon DEF UpstreamPoints
<1>5. f.type \in {"gateway_up_internet_down", "icmp_filtered"}
  OBVIOUS
<1>6. B \subseteq Claimed(f)
  <2> SUFFICES ASSUME NEW t \in B PROVE t \in Ticks /\ Claims(f, t)
    BY DEF Claimed
  <2> DEFINE reading == window.at[t]
  <2>1. Reads(t, reading) /\ BothSides(reading) /\ InternetDown(reading)
    BY <1>1
  <2> HIDE DEF reading
  <2>2. t \in Ticks
    BY <2>1 DEF Reads
  <2>3. Up(t, "gateway")
    BY <2>1 DEF Reads, InternetDown, BothSides, Icmp
  <2>4. ASSUME NEW x \in Anchors PROVE Down(t, x)
    <3>1. x \in Icmp /\ Asks(t, x)
      BY <2>2, TicksAre DEF PingTargets, Icmp
    <3>2. x \in DOMAIN reading
      BY <2>1, <3>1 DEF Reads
    <3>3. ~Up(t, x)
      BY <2>1, <3>1, <3>2 DEF Reads, InternetDown
    <3> QED BY <3>1, <3>3 DEF Up, Down
  <2>5. Claims(f, t) <=> (Up(t, "gateway") /\ \A x \in Anchors : Down(t, x))
    BY <1>5 DEF Claims
  <2> QED BY <2>2, <2>3, <2>4, <2>5
<1>7. HttpSucceededDuring(window, span) <=> \E t \in About(f) : Up(t, "http")
  <2>1. About(f) = {t \in Ticks : /\ f.started <= t
                                  /\ t <= IF f.ended = Ongoing THEN now ELSE f.ended}
    BY <1>5, AboutSpan
  <2>2. HttpSucceededDuring(window, span) <=>
           \E t \in DOMAIN window.at :
               /\ f.started <= t
               /\ t <= IF f.ended = Ongoing THEN now ELSE f.ended
               /\ "http" \in DOMAIN window.at[t] /\ window.at[t]["http"]
    BY <1>1, Zenon DEF HttpSucceededDuring
  <2>3. \A t \in DOMAIN window.at :
           t \in Ticks /\ (("http" \in DOMAIN window.at[t] /\ window.at[t]["http"]) <=> Up(t, "http"))
    <3>1. \A t \in DOMAIN window.at :
             /\ t \in Ticks /\ "http" \in DOMAIN window.at[t] <=> Asks(t, "http")
             /\ "http" \in DOMAIN window.at[t] => (window.at[t]["http"] <=> Up(t, "http"))
      BY <1>1, Zenon DEF Reads
    <3>2. \A t : Up(t, "http") => Asks(t, "http")
      BY DEF Up
    <3>3. \A t \in DOMAIN window.at : t \in Ticks
      BY <1>1 DEF Reads
    <3> QED BY <3>1, <3>2, <3>3, Zenon
  <2>4. \A t \in Ticks : Up(t, "http") => t \in DOMAIN window.at
    BY <1>1 DEF Up
  <2> QED BY <2>1, <2>2, <2>3, <2>4
<1>8. Tells(f, About(f))
  <2>1. CASE f.type = "icmp_filtered"
    <3>1. \E t \in About(f) : Up(t, "http")
      BY <1>7, <2>1 DEF window
    <3> QED BY <2>1, <3>1, Zenon DEF Tells
  <2>2. CASE f.type = "gateway_up_internet_down"
    <3>1. ~\E t \in About(f) : Up(t, "http")
      BY <1>7, <2>2 DEF window
    <3>2. ASSUME f.subtype = "dns_and_reachability", NEW r \in Resolvers
          PROVE  ~\E t \in About(f) : Up(t, r)
      <4>1. DnsAllFailed(Window, span)
        BY <3>2
      <4>2. \A row \in Within(RowsOf(Window, r), span, now) : ~row.success
        BY <4>1 DEF DnsAllFailed, Window
      <4> QED BY <1>5, <4>2, ResolversTell
    <3>3. Tells(f, About(f)) <=>
             /\ ~\E t \in About(f) : Up(t, "http")
             /\ f.subtype = "dns_and_reachability" =>
                   ~\E r \in Resolvers \ {f.target} : \E t \in About(f) : Up(t, r)
      BY <2>2, Zenon DEF Tells
    <3> QED BY <3>1, <3>2, <3>3
  <2> QED BY <1>5, <2>1, <2>2
<1> HIDE DEF B, C
<1>9. Instants(UpstreamPoints(window), C, B)
  BY <1>2, <1>3, <1>4, InstantsOf
<1>10. Bears(B, now, f.started, f.ended, Enter)
  BY <1>2, <1>3, <1>9, FastBears DEF window
<1>11. Confirmations(f) = Enter /\ f.type # "loss_burst"
  BY <1>5 DEF Confirmations
<1> QED BY <1>6, <1>8, <1>10, <1>11, BearsOut, ConstantsTyped

LEMMA MergedEarnest ==
    ASSUME StateInv, HistoryInv, RowsInv, NEW f \in MergedFindings(Window)
    PROVE  Earnest(f) /\ InTime(f)
<1> DEFINE subtype(e) == CASE e.type = "gateway_up_internet_down" ->
                      IF DnsAllFailed(Window, e) THEN "dns_and_reachability" ELSE "reachability"
               [] e.type = "icmp_filtered" -> "anchors_icmp_only"
               [] OTHER -> ""
<1>1. PICK e \in Detect(Merged(Window)) : f = Finding(e.type, "", subtype(e), e)
  BY Zenon DEF MergedFindings
<1>2. /\ f.type = e.type /\ f.subtype = subtype(e) /\ f.started = e.started /\ f.ended = e.ended
  <2> HIDE DEF subtype
  <2> QED BY <1>1, Zenon DEF Finding
<1>3. CASE e \in OutageRule(Merged(Window))
  <2>1. PICK s \in FindSpans(OutagePoints(Merged(Window))) :
           e = [type |-> "outage", started |-> s.started, ended |-> s.ended]
    BY <1>3 DEF OutageRule
  <2>2. e.type = "outage" /\ e.started = s.started /\ e.ended = s.ended
    BY <2>1
  <2> HIDE DEF subtype
  <2> QED BY <1>2, <2>2, OutageEarnest
<1>4. CASE e \in GatewayUpInternetDownRule(Merged(Window))
  <2>1. PICK s \in FindSpans(UpstreamPoints(Merged(Window))) :
           e = [type |-> IF HttpSucceededDuring(Merged(Window), s) THEN "icmp_filtered"
                         ELSE "gateway_up_internet_down",
                started |-> s.started, ended |-> s.ended]
    BY <1>4, Zenon DEF GatewayUpInternetDownRule
  <2>2. /\ e.type = IF HttpSucceededDuring(Merged(Window), s) THEN "icmp_filtered"
                    ELSE "gateway_up_internet_down"
        /\ e.started = s.started /\ e.ended = s.ended
    BY <2>1
  <2>3. subtype(e) = "dns_and_reachability" => DnsAllFailed(Window, e)
    BY <2>2
  <2>4. DnsAllFailed(Window, e) <=> DnsAllFailed(Window, s)
    <3>1. \A rows, to : Within(rows, e, to) = Within(rows, s, to)
      BY <2>2 DEF Within
    <3>2. UNION {Within(RowsOf(Window, r), e, Window.to) : r \in Resolvers} =
             UNION {Within(RowsOf(Window, r), s, Window.to) : r \in Resolvers}
      BY <3>1
    <3> QED BY <3>2, Zenon DEF DnsAllFailed
  <2> HIDE DEF subtype
  <2> QED BY <1>2, <2>2, <2>3, <2>4, UpstreamEarnest
<1> QED BY <1>3, <1>4 DEF Detect

-----------------------------------------------------------------------------
(* Bursts                                                                    *)

(* Two rows of a target are of two ticks.                                  *)
LEMMA RowsCount ==
    ASSUME NEW rows, NEW n \in Nat, NEW S \in SUBSET (1 .. n),
           \A i, j \in 1 .. n : i < j => rows[i].ts < rows[j].ts,
           \A i \in 1 .. n : rows[i].ts \in Nat,
           NEW T, IsFiniteSet(T), \A i \in S : rows[i].ts \in T
    PROVE  Cardinality(S) <= Cardinality(T)
<1> DEFINE f == [i \in S |-> rows[i].ts]
<1>1. \A i, j \in S : rows[i].ts = rows[j].ts => i = j
  OBVIOUS
<1>2. f \in Injection(S, T)
  BY <1>1 DEF Injection, IsInjective
<1> HIDE DEF f
<1> QED BY <1>2, FS_Injection

LEMMA BurstRows ==
    ASSUME NEW rows, Len(rows) \in Nat, NEW s \in Bursts(rows)
    PROVE  \E i \in 1 .. Len(rows) - LossWindow + 1 :
              /\ s.started = rows[i].ts /\ Elevated(rows, i)
              /\ \/ s.ended = Ongoing
                 \/ \E j \in 1 .. Len(rows) - LossWindow + 1 : i < j /\ s.ended = rows[j].ts
<1> DEFINE chunks == 1 .. Len(rows) - LossWindow + 1
           begins(i) == Elevated(rows, i) /\ (i = 1 \/ ~Elevated(rows, i - 1))
           after(i) == {j \in chunks : i < j /\ ~Elevated(rows, j)}
           next(i) == CHOOSE j \in after(i) : \A k \in after(i) : j <= k
<1>1. PICK i \in {j \in chunks : begins(j)} :
         s = [started |-> rows[i].ts,
              ended |-> IF after(i) = {} THEN Ongoing ELSE rows[next(i)].ts]
  BY Zenon DEF Bursts
<1>2. s.started = rows[i].ts /\ s.ended = IF after(i) = {} THEN Ongoing ELSE rows[next(i)].ts
  <2> HIDE DEF next, after
  <2> QED BY <1>1
<1>3. after(i) # {} => next(i) \in after(i)
  <2>1. after(i) \in SUBSET Nat
    BY ConstantsTyped
  <2>2. after(i) # {} => \E j \in after(i) : \A k \in after(i) : j <= k
    <3> HIDE DEF after
    <3> QED BY <2>1, Smallest
  <2> HIDE DEF after
  <2> QED BY <2>2, Zenon
<1> HIDE DEF next
<1> QED BY <1>1, <1>2, <1>3

(* The first LossWindow ticks since then.                                    *)
Reach(from) ==
    LET later == {t \in Ticks : t >= from}
    IN  {t \in later : Cardinality({u \in later : u < t}) < LossWindow}

(* A row of a pinged target fails only if what a burst claims is so.         *)
LEMMA BurstReaches ==
    ASSUME StateInv, HistoryInv, RowsInv, NEW x \in Icmp, NEW s \in Bursts(RowsOf(Window, x))
    PROVE  /\ Cardinality({t \in Reach(s.started) : Down(t, x)}) >= MinFailures
           /\ s.started \in Ticks
           /\ s.ended = Ongoing \/ (s.ended \in Ticks /\ s.started <= s.ended)
<1> DEFINE rows == RowsFor(stored, x)
           n == Len(rows)
<1>1. RowsOf(Window, x) = rows
  BY Zenon DEF RowsOf, Window, RowsFor
<1>2. /\ n \in Nat
      /\ \A i \in 1 .. n : /\ rows[i].ts \in 1 .. now /\ rows[i].ts \in Ticks
                           /\ Asks(rows[i].ts, x) /\ Says(x, rows[i], met[rows[i].ts][x])
      /\ \A i, j \in 1 .. n : i < j => rows[i].ts < rows[j].ts
      /\ \A t \in Ticks : Asks(t, x) => \E k \in 1 .. n : rows[k].ts = t
  BY RowsTell
<1>3. now \in Nat /\ LossWindow \in Nat \ {0} /\ MinFailures \in Nat \ {0}
  BY TicksAre, ConstantsTyped
<1>4. PICK i \in 1 .. n - LossWindow + 1 :
         /\ s.started = rows[i].ts /\ Elevated(rows, i)
         /\ \/ s.ended = Ongoing
            \/ \E j \in 1 .. n - LossWindow + 1 : i < j /\ s.ended = rows[j].ts
  <2> HIDE DEF rows
  <2> QED BY <1>1, <1>2, BurstRows
<1>5. x \in PingTargets
  <2> SUFFICES ASSUME x \notin PingTargets PROVE FALSE
    OBVIOUS
  <2>1. x = "gateway" /\ ~knowsGateway
    BY DEF PingTargets, Icmp
  <2>2. rows = << >>
    BY <2>1 DEF RowsInv, RowsFor
  <2>3. Len(<< >>) = 0
    OBVIOUS
  <2> HIDE DEF rows
  <2> QED BY <1>3, <1>4, <2>2, <2>3
<1>6. \A t \in Ticks : \E k \in 1 .. n : rows[k].ts = t
  BY <1>2, <1>5, TicksAre
<1>7. \A k \in 1 .. n : ~rows[k].success => Down(rows[k].ts, x)
  <2> HIDE DEF rows
  <2> QED BY <1>2 DEF Says, Down
<1> HIDE DEF rows, n
<1> DEFINE F == {j \in i .. i + LossWindow - 1 : ~rows[j].success}
           later == {t \in Ticks : t >= s.started}
           true == {t \in Reach(s.started) : Down(t, x)}
<1>8. Cardinality(F) >= MinFailures
  BY <1>4, Zenon DEF Elevated
<1>9. i .. i + LossWindow - 1 \subseteq 1 .. n /\ i \in 1 .. n
  BY <1>2, <1>3, <1>4
<1>10. Reach(s.started) = {t \in later : Cardinality({u \in later : u < t}) < LossWindow}
  BY Zenon DEF Reach
<1>11. ASSUME NEW j \in i .. i + LossWindow - 1 PROVE rows[j].ts \in Reach(s.started)
  <2> DEFINE t == rows[j].ts
             U == {u \in later : u < t}
  <2>1. j \in 1 .. n /\ i \in 1 .. n /\ i <= j /\ j <= i + LossWindow - 1
    BY <1>2, <1>3, <1>9
  <2>2. t \in Ticks /\ t \in Nat /\ rows[i].ts \in Nat /\ rows[i].ts <= t
    BY <1>2, <1>3, <2>1
  <2>3. t \in later
    BY <1>4, <2>2
  <2>4. Cardinality(U) < LossWindow
    <3> DEFINE K == {k \in 1 .. n : rows[k].ts \in U}
               g == [k \in K |-> rows[k].ts]
    <3>1. K \subseteq i .. j - 1
      <4> SUFFICES ASSUME NEW k \in K PROVE i <= k /\ k < j
        BY <1>2
      <4>1. k \in 1 .. n /\ rows[k].ts >= rows[i].ts /\ rows[k].ts < rows[j].ts
        BY <1>4
      <4>2. rows[k].ts \in Nat /\ rows[i].ts \in Nat /\ rows[j].ts \in Nat
        BY <1>2, <2>1, <4>1
      <4> QED BY <1>2, <2>1, <4>1, <4>2
    <3>2. IsFiniteSet(i .. j - 1) /\ Cardinality(i .. j - 1) <= LossWindow - 1
      <4>1. i \in Int /\ j - 1 \in Int
        BY <2>1
      <4>2. IsFiniteSet(i .. j - 1)
            /\ Cardinality(i .. j - 1) = IF i > j - 1 THEN 0 ELSE j - 1 - i + 1
        BY <4>1, FS_Interval
      <4> QED BY <1>3, <2>1, <4>1, <4>2
    <3>3. IsFiniteSet(K) /\ Cardinality(K) <= Cardinality(i .. j - 1)
      <4> HIDE DEF K
      <4> QED BY <3>1, <3>2, FS_Subset
    <3>4. g \in Surjection(K, U)
      <4>1. \A u \in U : \E k \in 1 .. n : rows[k].ts = u
        BY <1>6
      <4> QED BY <4>1 DEF Surjection
    <3> HIDE DEF g, K, U
    <3>5. IsFiniteSet(U) /\ Cardinality(U) <= Cardinality(K)
      BY <3>3, <3>4, FS_Surjection
    <3>6. Cardinality(U) \in Nat /\ Cardinality(K) \in Nat /\ Cardinality(i .. j - 1) \in Nat
      BY <3>2, <3>3, <3>5, FS_CardinalityType
    <3> QED BY <1>3, <3>2, <3>3, <3>5, <3>6
  <2> QED BY <1>10, <2>3, <2>4
<1> HIDE DEF later
<1>12. \A j \in F : rows[j].ts \in true
  BY <1>7, <1>9, <1>11
<1>13. IsFiniteSet(true) /\ Cardinality(true) \in Nat
  <2>1. Reach(s.started) \subseteq Ticks
    BY <1>10 DEF later
  <2>2. true \in SUBSET Ticks
    BY <2>1
  <2> HIDE DEF true
  <2> QED BY <2>2, TicksAre
<1>14. Cardinality(F) \in Nat /\ Cardinality(F) <= Cardinality(true)
  <2>1. F \in SUBSET (1 .. n)
    BY <1>9
  <2>2. \A k \in 1 .. n : rows[k].ts \in Nat
    BY <1>2
  <2> HIDE DEF true, F
  <2>3. IsFiniteSet(1 .. n)
    BY <1>2, FS_Interval
  <2> QED BY <1>2, <1>12, <1>13, <2>1, <2>2, <2>3, RowsCount, FS_Subset, FS_CardinalityType
<1>15. Cardinality(true) >= MinFailures
  <2> HIDE DEF true, F
  <2> QED BY <1>3, <1>8, <1>13, <1>14
<1>16. s.started \in Ticks /\ (s.ended = Ongoing \/ (s.ended \in Ticks /\ s.started <= s.ended))
  <2>1. \A k \in 1 .. n : rows[k].ts \in Ticks /\ rows[k].ts \in Nat
    BY <1>2
  <2>2. \A k \in 1 .. n - LossWindow + 1 : k \in 1 .. n
    BY <1>2, <1>3
  <2> QED BY <1>2, <1>4, <2>1, <2>2
<1> QED BY <1>15, <1>16

LEMMA LossEarnest ==
    ASSUME StateInv, HistoryInv, RowsInv, NEW x \in Icmp, NEW s \in Bursts(RowsOf(Window, x)),
           NEW f, f.type = "loss_burst", f.target = x, f.started = s.started, f.ended = s.ended
    PROVE  Earnest(f) /\ InTime(f)
<1>1. About(f) = Reach(s.started)
  <2>1. About(f) = Reach(f.started)
    BY Zenon DEF About, Reach
  <2> QED BY <2>1
<1>2. \A t : Claims(f, t) <=> Down(t, x)
  BY DEF Claims
<1>3. {t \in About(f) : Claims(f, t)} = {t \in Reach(s.started) : Down(t, x)}
  BY <1>1, <1>2
<1>4. Confirmations(f) = MinFailures /\ Tells(f, About(f))
  BY DEF Confirmations, Tells
<1>5. Cardinality({t \in About(f) : Claims(f, t)}) >= Confirmations(f)
  BY <1>3, <1>4, BurstReaches
<1>6. InTime(f)
  BY BurstReaches DEF InTime
<1> QED BY <1>4, <1>5, <1>6 DEF Earnest

-----------------------------------------------------------------------------
(* The median is one of the values                                           *)
(* The median is one of the values                                           *)
LEMMA KthIsAValue ==
    ASSUME NEW f, IsFiniteSet(DOMAIN f), \A i \in DOMAIN f : f[i] \in Int,
           NEW k \in 1 .. Cardinality(DOMAIN f)
    PROVE  KthSmallest(f, k) \in Range(f)
<1> DEFINE D == DOMAIN f
           upTo(v) == {i \in D : f[i] <= v}
           below(v) == {i \in D : f[i] < v}
           R == Range(f)
           enough == {v \in R : k <= Cardinality(upTo(v))}
<1>1. \A v : IsFiniteSet(upTo(v)) /\ IsFiniteSet(below(v))
  BY FS_Subset
<1>2. /\ \A v : Cardinality(upTo(v)) \in Nat /\ Cardinality(below(v)) \in Nat
      /\ Cardinality(D) \in Nat
  <2> HIDE DEF upTo, below
  <2> QED BY <1>1, FS_CardinalityType
<1>3. R \in SUBSET Int /\ IsFiniteSet(R)
  <2>1. \A y : y \in R <=> \E i \in D : f[i] = y
    BY DEF Range
  <2> HIDE DEF R, D
  <2> QED BY <2>1, ImageIsFinite DEF D
<1>4. PICK low, high \in Int : \A v \in R : low <= v /\ v <= high
  <2> HIDE DEF R
  <2> QED BY <1>3, FiniteIsBounded
<1>5. enough # {}
  <2>1. R # {}
    <3>1. D # {}
      <4>1. Cardinality({}) = 0
        BY FS_EmptySet
      <4> QED BY <1>2, <4>1
    <3> QED BY <3>1 DEF Range
  <2>2. PICK v \in R : \A w \in R : w <= v
    <3> HIDE DEF R
    <3> QED BY <1>3, <1>4, <2>1, Largest
  <2>3. upTo(v) = D
    BY <2>2 DEF Range
  <2> HIDE DEF upTo, R
  <2> QED BY <2>2, <2>3
<1>6. PICK v \in enough : \A w \in enough : v <= w
  <2>1. enough \in SUBSET Int /\ \A w \in enough : low <= w
    BY <1>3, <1>4
  <2> HIDE DEF enough
  <2> QED BY <1>4, <1>5, <2>1, SmallestInt
<1>7. Cardinality(below(v)) < k
  <2>1. CASE below(v) = {}
    <3>1. Cardinality({}) = 0
      BY FS_EmptySet
    <3> HIDE DEF below
    <3> QED BY <1>2, <2>1, <3>1
  <2>2. CASE below(v) # {}
    <3> DEFINE S == {f[i] : i \in below(v)}
    <3>1. S \in SUBSET R /\ S # {} /\ S \in SUBSET Int
      BY <2>2 DEF Range
    <3>2. PICK w \in S : \A u \in S : u <= w
      <4> HIDE DEF S
      <4> QED BY <1>4, <3>1, Largest
    <3>3. upTo(w) = below(v)
      <4>1. w \in Int /\ v \in Int /\ w < v
        BY <1>3, <3>2
      <4>2. \A i \in below(v) : f[i] <= w
        BY <3>2
      <4>3. \A i \in upTo(w) : f[i] < v
        BY <4>1
      <4> QED BY <4>2, <4>3
    <3>4. w \in R /\ w < v /\ w \in Int /\ v \in Int
      BY <1>3, <3>1, <3>2
    <3>5. w \notin enough
      <4> HIDE DEF enough
      <4> QED BY <1>6, <3>4
    <3>6. ~(k <= Cardinality(upTo(w)))
      <4> HIDE DEF R, upTo
      <4> QED BY <3>4, <3>5
    <3> HIDE DEF upTo, below
    <3> QED BY <1>2, <3>3, <3>6
  <2> QED BY <2>1, <2>2
<1>8. v \in R /\ k <= Cardinality(upTo(v))
  BY <1>6
<1> HIDE DEF R
<1>9. \E u \in R : /\ Cardinality({i \in D : f[i] < u}) < k
                   /\ k <= Cardinality({i \in D : f[i] <= u})
  BY <1>7, <1>8
<1>10. KthSmallest(f, k) \in R
  BY <1>9, Zenon DEF KthSmallest, R
<1> QED BY <1>10 DEF R

LEMMA MedianIsBetween ==
    ASSUME NEW f, IsFiniteSet(DOMAIN f), DOMAIN f # {}, NEW low \in Int,
           \A i \in DOMAIN f : f[i] \in Int /\ low <= f[i]
    PROVE  TwiceMedian(f) \in Int /\ 2 * low <= TwiceMedian(f)
<1> DEFINE n == Cardinality(DOMAIN f)
           a == KthSmallest(f, (n + 1) \div 2)
           b == KthSmallest(f, (n \div 2) + 1)
<1>1. n \in Nat \ {0}
  BY FS_CardinalityType, FS_EmptySet
<1>2. (n + 1) \div 2 \in 1 .. n /\ (n \div 2) + 1 \in 1 .. n
  <2> HIDE DEF n
  <2> QED BY <1>1
<1>3. a \in Range(f) /\ b \in Range(f)
  BY <1>2, KthIsAValue
<1> HIDE DEF a, b, n
<1>4. a \in Int /\ b \in Int /\ low <= a /\ low <= b
  BY <1>3 DEF Range
<1>5. TwiceMedian(f) = a + b
  BY DEF TwiceMedian, a, b, n
<1> QED BY <1>4, <1>5

-----------------------------------------------------------------------------
(* The walk with other thresholds                                            *)
(* What RulesProofs proves of find_spans, with the thresholds of the rules   *)
(* that confirm slowly and of those that watch latency.                      *)
OfSlow == INSTANCE RulesProofs WITH Enter <- SlowConfirm, Exit <- SlowConfirm
OfSpike == INSTANCE RulesProofs WITH Enter <- SpikeConfirm, Exit <- SpikeConfirm

LEMMA SlowSame ==
    ASSUME NEW points
    PROVE  Slow!FindSpans(points) = OfSlow!FindSpans(points)
<1>1. Slow!NoSpan = OfSlow!NoSpan /\ Slow!Ongoing = OfSlow!Ongoing
  BY Zenon DEF Slow!NoSpan, OfSlow!NoSpan, Slow!Ongoing, OfSlow!Ongoing
<1>2. Slow!Walked(points) = OfSlow!Walked(points)
  BY Zenon DEF Slow!Walked, OfSlow!Walked, Slow!Walk, OfSlow!Walk, Slow!NoSpan, OfSlow!NoSpan,
     Slow!Ongoing, OfSlow!Ongoing, Slow!Opens, OfSlow!Opens, Slow!Closes, OfSlow!Closes,
     Slow!RunTo, OfSlow!RunTo, Slow!RunEnds, OfSlow!RunEnds, Slow!RunBegins, OfSlow!RunBegins
<1> QED BY <1>1, <1>2, Zenon DEF Slow!FindSpans, OfSlow!FindSpans

LEMMA SlowBears ==
    ASSUME NEW to \in Nat, NEW C \in SUBSET (1 .. to), NEW B \in SUBSET C,
           NEW points, Instants(points, C, B), NEW span \in Slow!FindSpans(points)
    PROVE  Bears(B, to, span.started, span.ended, SlowConfirm)
<1>1. OfSlow!Instants(points, C, B)
  BY DEF Instants, OfSlow!Instants, PointSeqs, OfSlow!PointSeqs, Bads, OfSlow!Bads
<1>2. span \in OfSlow!FindSpans(points)
  BY SlowSame
<1>3. OfSlow!Lasts(C, B, to, span.started, span.ended)
  BY <1>1, <1>2, OfSlow!SpanLasts, TargetRulesConstants, RulesConstants
     DEF TargetRulesConstants, RulesConstants
<1>4. OfSlow!Ongoing = Ongoing
  BY DEF OfSlow!Ongoing, Ongoing
<1>5. \A S : OfSlow!Cardinality(S) = Cardinality(S)
  BY Zenon DEF OfSlow!Cardinality, Cardinality
<1> QED BY <1>3, <1>4, <1>5, Zenon DEF OfSlow!Lasts, Bears

LEMMA SpikeSame ==
    ASSUME NEW points
    PROVE  Spike!FindSpans(points) = OfSpike!FindSpans(points)
<1>1. Spike!NoSpan = OfSpike!NoSpan /\ Spike!Ongoing = OfSpike!Ongoing
  BY Zenon DEF Spike!NoSpan, OfSpike!NoSpan, Spike!Ongoing, OfSpike!Ongoing
<1>2. Spike!Walked(points) = OfSpike!Walked(points)
  BY Zenon DEF Spike!Walked, OfSpike!Walked, Spike!Walk, OfSpike!Walk, Spike!NoSpan,
               OfSpike!NoSpan, Spike!Ongoing, OfSpike!Ongoing, Spike!Opens, OfSpike!Opens,
               Spike!Closes, OfSpike!Closes, Spike!RunTo, OfSpike!RunTo, Spike!RunEnds,
               OfSpike!RunEnds, Spike!RunBegins, OfSpike!RunBegins
<1> QED BY <1>1, <1>2, Zenon DEF Spike!FindSpans, OfSpike!FindSpans

LEMMA SpikeBears ==
    ASSUME NEW to \in Nat, NEW C \in SUBSET (1 .. to), NEW B \in SUBSET C,
           NEW points, Instants(points, C, B), NEW span \in Spike!FindSpans(points)
    PROVE  Bears(B, to, span.started, span.ended, SpikeConfirm)
<1>1. OfSpike!Instants(points, C, B)
  BY DEF Instants, OfSpike!Instants, PointSeqs, OfSpike!PointSeqs, Bads, OfSpike!Bads
<1>2. span \in OfSpike!FindSpans(points)
  BY SpikeSame
<1>3. OfSpike!Lasts(C, B, to, span.started, span.ended)
  BY <1>1, <1>2, OfSpike!SpanLasts, TargetRulesConstants, RulesConstants
     DEF TargetRulesConstants, RulesConstants
<1>4. OfSpike!Ongoing = Ongoing
  BY DEF OfSpike!Ongoing, Ongoing
<1>5. \A S : OfSpike!Cardinality(S) = Cardinality(S)
  BY Zenon DEF OfSpike!Cardinality, Cardinality
<1> QED BY <1>3, <1>4, <1>5, Zenon DEF OfSpike!Lasts, Bears

-----------------------------------------------------------------------------
(* The rules that look at one target                                         *)
LEMMA FailuresBear ==
    ASSUME StateInv, HistoryInv, RowsInv, NEW x,
           NEW s \in Slow!FindSpans(FailurePoints(RowsOf(Window, x)))
    PROVE  \E B \in SUBSET {t \in Ticks : Down(t, x)} :
              Bears(B, now, s.started, s.ended, SlowConfirm)
<1> DEFINE rows == RowsFor(stored, x)
           points == FailurePoints(rows)
           failed(i) == ~rows[i].success
           B == BadTimes(rows, points)
<1>1. RowsOf(Window, x) = rows
  BY Zenon DEF RowsOf, Window, RowsFor
<1>2. /\ DOMAIN rows = 1 .. Len(rows) /\ Len(rows) \in Nat
      /\ \A i \in 1 .. Len(rows) : /\ rows[i].ts \in Ticks /\ rows[i].success \in BOOLEAN
                                   /\ Asks(rows[i].ts, x)
                                   /\ Says(x, rows[i], met[rows[i].ts][x])
  BY RowsTell
<1>3. TrueRows(x, rows, met) /\ now \in Nat /\ \A t \in DOMAIN met : t \in 1 .. now
  BY TicksAre DEF RowsInv, Ticks
<1> HIDE DEF rows
<1>4. /\ DOMAIN points = 1 .. Len(rows)
      /\ points = [i \in DOMAIN points |-> points[i]]
      /\ \A i \in 1 .. Len(rows) : points[i] = [ts |-> rows[i].ts, bad |-> failed(i)]
  BY <1>2, Zenon DEF FailurePoints
<1> HIDE DEF points
<1>5. \A i \in 1 .. Len(rows) : points[i] \in [ts : {rows[i].ts}, bad : BOOLEAN]
  <2>1. \A i \in 1 .. Len(rows) : failed(i) \in BOOLEAN
    BY <1>2
  <2> HIDE DEF failed
  <2> QED BY <1>4, <2>1
<1>6. /\ Instants(points, Times(rows), B)
      /\ Times(rows) \in SUBSET (1 .. now) /\ B \in SUBSET Times(rows)
  BY <1>3, <1>4, <1>5, RowPoints
<1>7. \A i \in Bads(points) : i \in 1 .. Len(rows) /\ ~rows[i].success
  <2>1. \A i \in Bads(points) : i \in 1 .. Len(rows) /\ failed(i)
    <3> HIDE DEF failed
    <3> QED BY <1>4 DEF Bads
  <2> QED BY <2>1
<1>8. \A i \in 1 .. Len(rows) : ~rows[i].success => Down(rows[i].ts, x)
  BY <1>2 DEF Says, Down
<1>9. B \in SUBSET {t \in Ticks : Down(t, x)}
  BY <1>2, <1>7, <1>8 DEF BadTimes
<1> HIDE DEF B
<1>10. s \in Slow!FindSpans(points)
  BY <1>1 DEF points
<1>11. Bears(B, now, s.started, s.ended, SlowConfirm)
  BY <1>3, <1>6, <1>10, SlowBears
<1> QED BY <1>9, <1>11

(* Only another resolver's answer makes a resolver the fault.                *)
LEMMA DnsEarnest ==
    ASSUME StateInv, HistoryInv, RowsInv, NEW r \in Resolvers,
           NEW s \in Slow!FindSpans(FailurePoints(RowsOf(Window, r))),
           NEW f, f.type = "dns_failure", f.target = r,
           f.subtype = DnsSubtype(r, OthersOk(Window, r, s)),
           f.started = s.started, f.ended = s.ended
    PROVE  Earnest(f) /\ InTime(f)
<1>1. PICK B \in SUBSET {t \in Ticks : Down(t, r)} :
         Bears(B, now, s.started, s.ended, SlowConfirm)
  BY FailuresBear
<1>2. Confirmations(f) = SlowConfirm /\ f.type # "loss_burst" /\ SlowConfirm \in Nat
  BY ConstantsTyped DEF Confirmations
<1>3. B \in SUBSET Claimed(f)
  <2>1. \A t : Claims(f, t) <=> Down(t, r)
    BY DEF Claims
  <2> QED BY <2>1 DEF Claimed
<1>4. OthersOk(Window, r, s) <=>
         \E other \in Resolvers \ {r} : \E t \in About(f) : Up(t, other)
  <2>1. OthersOk(Window, r, s) <=>
           \E other \in Resolvers \ {r} :
              \E row \in Within(RowsOf(Window, other), s, now) : row.success
    BY Zenon DEF OthersOk, Window
  <2>2. \A other \in Resolvers \ {r} :
           (\E row \in Within(RowsOf(Window, other), s, now) : row.success)
               <=> \E t \in About(f) : Up(t, other)
    BY <1>2, ResolversTell
  <2> QED BY <2>1, <2>2, Zenon
<1>5. f.subtype = "all_resolvers" <=> ~OthersOk(Window, r, s)
  BY DEF DnsSubtype
<1>6. Tells(f, About(f)) <=>
         (f.subtype = "all_resolvers") =
            ~\E other \in Resolvers \ {f.target} : \E t \in About(f) : Up(t, other)
  BY Zenon DEF Tells
<1>7. Tells(f, About(f))
  BY <1>4, <1>5, <1>6, Zenon
<1> QED BY <1>1, <1>2, <1>3, <1>7, BearsOut

(* Only a row without the interface calls it absent.                         *)
LEMMA LinkEarnest ==
    ASSUME StateInv, HistoryInv, RowsInv, NEW x \in Interfaces,
           NEW s \in Slow!FindSpans(FailurePoints(RowsOf(Window, x))),
           NEW f, f.type = "link_change", f.target = x,
           f.subtype = LinkSubtype(Window, x, s),
           f.started = s.started, f.ended = s.ended
    PROVE  Earnest(f) /\ InTime(f)
<1>1. PICK B \in SUBSET {t \in Ticks : Down(t, x)} :
         Bears(B, now, s.started, s.ended, SlowConfirm)
  BY FailuresBear
<1>2. Confirmations(f) = SlowConfirm /\ f.type # "loss_burst" /\ SlowConfirm \in Nat
  BY ConstantsTyped DEF Confirmations
<1>3. B \in SUBSET Claimed(f)
  <2>1. \A t : Claims(f, t) <=> Down(t, x)
    BY DEF Claims
  <2> QED BY <2>1 DEF Claimed
<1> DEFINE within == Within(RowsOf(Window, x), s, now)
<1>4. f.subtype = "absent" <=> \E row \in within : ~row.success /\ row.code = -1
  BY DEF LinkSubtype, Window
<1>5. /\ \A row \in within : \E t \in About(f) : Asks(t, x) /\ Says(x, row, met[t][x])
      /\ \A t \in About(f) : Asks(t, x) => \E row \in within : Says(x, row, met[t][x])
  BY <1>2, WithinTells
<1> HIDE DEF within
<1>6. \A row, t : Says(x, row, met[t][x]) =>
         ((~row.success /\ row.code = -1) <=> met[t][x] = "adapter_gone")
  BY DownsAre DEF Says
<1>7. (\E row \in within : ~row.success /\ row.code = -1) <=>
         \E t \in About(f) : Asks(t, x) /\ met[t][x] = "adapter_gone"
  BY <1>5, <1>6, Zenon
<1>8. Tells(f, About(f)) <=>
         (f.subtype = "absent") =
            \E t \in About(f) : Asks(t, f.target) /\ met[t][f.target] = "adapter_gone"
  BY Zenon DEF Tells
<1>9. Tells(f, About(f))
  BY <1>4, <1>7, <1>8, Zenon
<1> QED BY <1>1, <1>2, <1>3, <1>9, BearsOut

(* The median is a time some ping took, so a fast one is never a spike.      *)
LEMMA SpikesBear ==
    ASSUME StateInv, HistoryInv, RowsInv, NEW x \in Anchors, NEW s \in Spikes(RowsOf(Window, x))
    PROVE  \E B \in SUBSET {t \in Ticks : Asks(t, x) /\ met[t][x] = "congested"} :
              Bears(B, now, s.started, s.ended, SpikeConfirm)
<1> DEFINE rows == RowsFor(stored, x)
           rtts == Rtts(rows)
           twice == TwiceMedian(rtts)
           points == [i \in DOMAIN rows |-> [ts |-> rows[i].ts, bad |-> IsSpike(rows[i], twice)]]
           B == BadTimes(rows, points)
<1>1. RowsOf(Window, x) = rows
  BY Zenon DEF RowsOf, Window, RowsFor
<1>2. /\ DOMAIN rows = 1 .. Len(rows) /\ Len(rows) \in Nat
      /\ \A i \in 1 .. Len(rows) : /\ rows[i].ts \in Ticks /\ rows[i].success \in BOOLEAN
                                   /\ Asks(rows[i].ts, x)
                                   /\ Says(x, rows[i], met[rows[i].ts][x])
  BY RowsTell
<1>3. TrueRows(x, rows, met) /\ now \in Nat /\ \A t \in DOMAIN met : t \in 1 .. now
  BY TicksAre DEF RowsInv, Ticks
<1> HIDE DEF rows
<1>4. \A i \in 1 .. Len(rows) : rows[i].success =>
         rows[i].value = IF met[rows[i].ts][x] = "congested" THEN Congested ELSE Fast
  BY <1>2 DEF Says
<1>5. /\ DOMAIN rtts = {j \in DOMAIN rows : rows[j].success}
      /\ \A i \in DOMAIN rtts : rtts[i] = rows[i].value
  BY Zenon DEF Rtts
<1>6. /\ IsFiniteSet(DOMAIN rtts)
      /\ \A i \in DOMAIN rtts : rtts[i] \in Int /\ Fast <= rtts[i]
  <2>1. IsFiniteSet(1 .. Len(rows)) /\ DOMAIN rtts \in SUBSET (1 .. Len(rows))
    BY <1>2, <1>5, FS_Interval
  <2>2. \A i \in 1 .. Len(rows) : rows[i].success => rows[i].value \in Int /\ Fast <= rows[i].value
    BY <1>4 DEF Fast, Congested
  <2> HIDE DEF rtts
  <2> QED BY <1>2, <1>5, <2>1, <2>2, FS_Subset
<1>7. /\ ~(Cardinality(DOMAIN rtts) < MinRtts)
      /\ s \in Spike!FindSpans(points)
  BY <1>1, Zenon DEF Spikes
<1>8. twice \in Int /\ 2 * Fast <= twice
  <2>1. DOMAIN rtts # {}
    <3>1. 0 < MinRtts
      BY ConstantsTyped
    <3>2. ~(Cardinality(DOMAIN rtts) < MinRtts) /\ Cardinality({}) = 0
      BY <1>7, FS_EmptySet
    <3> QED BY <3>1, <3>2, Zenon
  <2>2. Fast \in Int
    BY DEF Fast
  <2> HIDE DEF rtts
  <2> QED BY <1>6, <2>1, <2>2, MedianIsBetween
<1> HIDE DEF twice, rtts
<1>9. \A i \in 1 .. Len(rows) :
         IsSpike(rows[i], twice) => met[rows[i].ts][x] = "congested"
  <2> SUFFICES ASSUME NEW i \in 1 .. Len(rows), IsSpike(rows[i], twice),
                      met[rows[i].ts][x] # "congested"
               PROVE  FALSE
    OBVIOUS
  <2>1. rows[i].value = Fast /\ 2 * rows[i].value > twice + 2 * FloorMs
    BY <1>4 DEF IsSpike
  <2>2. FloorMs \in Nat /\ Fast \in Int
    BY ConstantsTyped DEF Fast
  <2> QED BY <1>8, <2>1, <2>2
<1>10. /\ DOMAIN points = 1 .. Len(rows)
       /\ points = [i \in DOMAIN points |-> points[i]]
       /\ \A i \in 1 .. Len(rows) :
             points[i] = [ts |-> rows[i].ts, bad |-> IsSpike(rows[i], twice)]
  BY <1>2, Zenon
<1> HIDE DEF points
<1>11. \A i \in 1 .. Len(rows) : points[i] \in [ts : {rows[i].ts}, bad : BOOLEAN]
  <2>1. \A i \in 1 .. Len(rows) : IsSpike(rows[i], twice) \in BOOLEAN
    BY <1>2 DEF IsSpike
  <2> QED BY <1>10, <2>1
<1>12. /\ Instants(points, Times(rows), B)
       /\ Times(rows) \in SUBSET (1 .. now) /\ B \in SUBSET Times(rows)
  BY <1>3, <1>10, <1>11, RowPoints
<1>13. \A i \in Bads(points) : i \in 1 .. Len(rows) /\ IsSpike(rows[i], twice)
  BY <1>10 DEF Bads
<1>14. B \in SUBSET {t \in Ticks : Asks(t, x) /\ met[t][x] = "congested"}
  BY <1>2, <1>9, <1>13 DEF BadTimes
<1> HIDE DEF B
<1>15. Bears(B, now, s.started, s.ended, SpikeConfirm)
  BY <1>3, <1>7, <1>12, SpikeBears
<1> QED BY <1>14, <1>15

LEMMA LatencyEarnest ==
    ASSUME StateInv, HistoryInv, RowsInv, NEW x \in Anchors, NEW s \in Spikes(RowsOf(Window, x)),
           NEW f, f.type = "latency_spike", f.target = x,
           f.started = s.started, f.ended = s.ended
    PROVE  Earnest(f) /\ InTime(f)
<1>1. PICK B \in SUBSET {t \in Ticks : Asks(t, x) /\ met[t][x] = "congested"} :
         Bears(B, now, s.started, s.ended, SpikeConfirm)
  BY SpikesBear
<1>2. /\ Confirmations(f) = SpikeConfirm /\ f.type # "loss_burst" /\ SpikeConfirm \in Nat
      /\ Tells(f, About(f))
  BY ConstantsTyped DEF Confirmations, Tells
<1>3. B \in SUBSET Claimed(f)
  <2>1. \A t : Claims(f, t) <=> Asks(t, x) /\ met[t][x] = "congested"
    BY DEF Claims
  <2> QED BY <2>1 DEF Claimed
<1> QED BY <1>1, <1>2, <1>3, BearsOut

-----------------------------------------------------------------------------
(* All findings                                                              *)
LEMMA FindingEarnest ==
    ASSUME StateInv, HistoryInv, RowsInv, NEW f \in DetectAll(Window)
    PROVE  Earnest(f) /\ InTime(f)
<1>1. CASE f \in MergedFindings(Window)
  BY <1>1, MergedEarnest
<1>2. CASE f \in LossFindings(Window)
  <2>1. PICK x \in Icmp : \E s \in Bursts(RowsOf(Window, x)) : f = Finding("loss_burst", x, "", s)
    BY <1>2 DEF LossFindings
  <2>2. PICK s \in Bursts(RowsOf(Window, x)) : f = Finding("loss_burst", x, "", s)
    BY <2>1
  <2>3. f.type = "loss_burst" /\ f.target = x /\ f.started = s.started /\ f.ended = s.ended
    BY <2>2, Zenon DEF Finding
  <2> QED BY <2>3, LossEarnest
<1>3. CASE f \in LatencyFindings(Window)
  <2>1. PICK x \in Anchors : \E s \in Spikes(RowsOf(Window, x)) : f = Finding("latency_spike", x, "", s)
    BY <1>3 DEF LatencyFindings
  <2>2. PICK s \in Spikes(RowsOf(Window, x)) : f = Finding("latency_spike", x, "", s)
    BY <2>1
  <2>3. f.type = "latency_spike" /\ f.target = x /\ f.started = s.started /\ f.ended = s.ended
    BY <2>2, Zenon DEF Finding
  <2> QED BY <2>3, LatencyEarnest
<1>4. CASE f \in DnsFindings(Window)
  <2>1. PICK r \in Resolvers :
           \E s \in Slow!FindSpans(FailurePoints(RowsOf(Window, r))) :
              f = Finding("dns_failure", r, DnsSubtype(r, OthersOk(Window, r, s)), s)
    BY <1>4, Zenon DEF DnsFindings
  <2>2. PICK s \in Slow!FindSpans(FailurePoints(RowsOf(Window, r))) :
           f = Finding("dns_failure", r, DnsSubtype(r, OthersOk(Window, r, s)), s)
    BY <2>1
  <2>3. /\ f.type = "dns_failure" /\ f.target = r
        /\ f.subtype = DnsSubtype(r, OthersOk(Window, r, s))
        /\ f.started = s.started /\ f.ended = s.ended
    BY <2>2, Zenon DEF Finding
  <2> QED BY <2>3, DnsEarnest
<1>5. CASE f \in LinkFindings(Window)
  <2>1. PICK x \in Interfaces :
           \E s \in Slow!FindSpans(FailurePoints(RowsOf(Window, x))) :
              f = Finding("link_change", x, LinkSubtype(Window, x, s), s)
    BY <1>5, Zenon DEF LinkFindings
  <2>2. PICK s \in Slow!FindSpans(FailurePoints(RowsOf(Window, x))) :
           f = Finding("link_change", x, LinkSubtype(Window, x, s), s)
    BY <2>1
  <2>3. /\ f.type = "link_change" /\ f.target = x /\ f.subtype = LinkSubtype(Window, x, s)
        /\ f.started = s.started /\ f.ended = s.ended
    BY <2>2, Zenon DEF Finding
  <2> QED BY <2>3, LinkEarnest
<1> QED BY <1>1, <1>2, <1>3, <1>4, <1>5 DEF DetectAll

LEMMA IInvEarnest ==
    ASSUME IInv, NEW f \in found
    PROVE  Earnest(f) /\ InTime(f)
<1>1. f \in DetectAll(Window)
  BY DEF IInv, FoundInv, Window
<1> QED BY <1>1, FindingEarnest DEF IInv

(* Whatever came before, after and in between, ticks that met two faults and *)
(* sleep included, a finding rests on as many ticks in which what it says    *)
(* was so of the very calls it speaks of as its rule confirms by, and on the *)
(* calls that tell it from the findings it is likest to (window.py:46,       *)
(* hysteresis.py:4).                                                         *)
THEOREM FindingsEarned == Spec => []FindingsAreEarned
<1>1. IInv => FindingsAreEarned
  <2> SUFFICES ASSUME IInv PROVE FindingsAreEarned
    OBVIOUS
  <2>1. \A f \in found : Earnest(f)
    BY IInvEarnest
  <2> QED BY <2>1, Zenon DEF Earnest, FindingsAreEarned
<1> QED BY <1>1, DiagnosisInvariant, PTL

(* Types, and that samples and findings are of ticks.                        *)
THEOREM DiagnosisTypeCorrect == Spec => []TypeOK
<1>1. IInv => TypeOK
  <2> SUFFICES ASSUME IInv PROVE TypeOK
    OBVIOUS
  <2>1. /\ now \in Nat /\ Ticks \subseteq 1 .. now - 1
        /\ fault \in Faults /\ changes \in 0 .. MaxChanges
        /\ knowsGateway \in BOOLEAN /\ watched \subseteq Interfaces
        /\ due \in [Kinds -> Nat]
        /\ \A r \in Resolvers : DOMAIN probes[r].last \subseteq Range(QueryNames)
    BY Environment DEF IInv, StateInv, HistoryInv, Met, Ticks, AgentTyped, Probes, Environment
  <2>2. ASSUME NEW x \in DOMAIN stored, NEW i \in DOMAIN stored[x]
        PROVE  stored[x][i].ts \in Ticks /\ (i > 1 => stored[x][i - 1].ts < stored[x][i].ts)
    <3> DEFINE rows == RowsFor(stored, x)
    <3>1. /\ Len(rows) \in Nat /\ DOMAIN rows = 1 .. Len(rows)
          /\ \A j \in 1 .. Len(rows) : rows[j].ts \in Ticks
          /\ \A j, k \in 1 .. Len(rows) : j < k => rows[j].ts < rows[k].ts
      BY RowsTell DEF IInv
    <3>2. stored[x] = rows
      BY DEF RowsFor
    <3> HIDE DEF rows
    <3>3. i \in 1 .. Len(rows) /\ (i > 1 => i - 1 \in 1 .. Len(rows) /\ i - 1 < i)
      BY <3>1, <3>2
    <3> QED BY <3>1, <3>2, <3>3
  <2>3. \A f \in found : /\ f.started \in Ticks
                         /\ f.ended = Ongoing \/ (f.ended \in Ticks /\ f.started <= f.ended)
    BY IInvEarnest DEF InTime
  <2> QED BY <2>1, <2>2, <2>3, Zenon DEF TypeOK
<1> QED BY <1>1, DiagnosisInvariant, PTL

-----------------------------------------------------------------------------
(* Numbers                                                                   *)
(* Numbers                                                                   *)
LEMMA DivFacts ==
    ASSUME NEW a \in Int, NEW w \in Nat \ {0}
    PROVE  a \div w \in Int /\ (a \div w) * w <= a /\ a < (a \div w) * w + w
  OBVIOUS

LEMMA DivIs ==
    ASSUME NEW a \in Int, NEW w \in Nat \ {0}, NEW q \in Int, q * w <= a, a < q * w + w
    PROVE  a \div w = q
<1>1. a \div w \in Int /\ (a \div w) * w <= a /\ a < (a \div w) * w + w
  BY DivFacts
<1> DEFINE p == a \div w
<1> HIDE DEF p
<1>2. p \in Int /\ p * w <= a /\ a < p * w + w
  BY <1>1 DEF p
<1>3. (q - p) * w < w /\ (p - q) * w < w
  BY <1>2
<1>4. ~(q - p >= 1) /\ ~(p - q >= 1)
  <2>1. ASSUME NEW d \in Int, d >= 1 PROVE d * w >= w
    BY <2>1
  <2> QED BY <1>2, <1>3, <2>1
<1> QED BY <1>2, <1>4 DEF p

LEMMA FloorIs ==
    ASSUME NEW ts \in Int, NEW w \in Nat \ {0}, NEW q \in Int, q * w <= ts, ts < q * w + w
    PROVE  FloorTo(ts, w) = q * w
  BY DivIs DEF FloorTo

LEMMA RateTyped ==
    ASSUME NEW n \in Nat \ {0}, NEW ok \in 0 .. n
    PROVE  Rate(ok, n) \in Int /\ 0 <= Rate(ok, n)
<1> DEFINE a == 2000 * ok + n
           w == 2 * n
<1>1. a \in Nat /\ w \in Nat \ {0}
  OBVIOUS
<1> HIDE DEF a, w
<1>2. a \div w \in Int /\ 0 <= a \div w
  BY <1>1
<1> QED BY <1>2 DEF Rate, a, w

LEMMA RateOfNone == ASSUME NEW n \in Nat \ {0} PROVE Rate(0, n) = 0
<1> DEFINE x == 2000 * 0 + n
           w == 2 * n
<1>1. w \in Nat \ {0} /\ 0 * w <= x /\ x < 0 * w + w /\ x \in Int /\ 0 \in Int
  OBVIOUS
<1> HIDE DEF x, w
<1>2. x \div w = 0
  BY <1>1, DivIs
<1> QED BY <1>2 DEF Rate, x, w

(* The more samples there are, the less one lost of them costs.              *)
LEMMA RateGrows ==
    ASSUME NEW W \in Nat \ {0}, NEW n \in Nat, W <= n, NEW ok \in 0 .. n, n - 1 <= ok
    PROVE  Rate(W - 1, W) <= Rate(ok, n) /\ Rate(W - 1, W) <= 1000
<1> DEFINE a == Rate(W - 1, W)
           b == Rate(ok, n)
<1>1. a \in Int /\ a * (2 * W) <= 2000 * (W - 1) + W
  <2> DEFINE x == 2000 * (W - 1) + W
             w == 2 * W
  <2>1. x \in Int /\ w \in Nat \ {0}
    OBVIOUS
  <2> HIDE DEF x, w
  <2>2. x \div w \in Int /\ (x \div w) * w <= x
    BY <2>1, DivFacts
  <2> QED BY <2>2 DEF x, w, Rate
<1>2. b \in Int /\ 2000 * ok + n < b * (2 * n) + 2 * n
  <2> DEFINE x == 2000 * ok + n
             w == 2 * n
  <2>1. x \in Int /\ w \in Nat \ {0}
    OBVIOUS
  <2> HIDE DEF x, w
  <2>2. x \div w \in Int /\ x < (x \div w) * w + w
    BY <2>1, DivFacts
  <2> QED BY <2>2 DEF x, w, Rate
<1> HIDE DEF a, b
<1> DEFINE c == 2001 - 2 * a
<1>3. W * c >= 2000
  <2>1. W * c = 2001 * W - a * (2 * W)
    BY <1>1
  <2> QED BY <1>1, <2>1
<1>4. c \in Int /\ c >= 1
  <2>1. c \in Int
    BY <1>1
  <2> HIDE DEF c
  <2>2. ASSUME c <= 0 PROVE W * c <= 0
    BY <2>1, <2>2
  <2> QED BY <1>3, <2>1, <2>2
<1>5. n * c >= 2000
  <2> HIDE DEF c
  <2>1. (n - W) * c >= 0
    <3>1. ASSUME NEW k \in Nat PROVE k * c >= 0
      BY <1>4
    <3> QED BY <3>1
  <2>2. n * c = W * c + (n - W) * c
    BY <1>4
  <2>3. n * c \in Int /\ W * c \in Int /\ (n - W) * c \in Int
    BY <1>4
  <2> QED BY <1>3, <2>1, <2>2, <2>3
<1>6. a * (2 * n) <= 2000 * ok + n
  <2>1. n * c = 2001 * n - a * (2 * n)
    BY <1>1
  <2> QED BY <1>1, <1>5, <2>1
<1>7. a <= b
  <2>1. (a - b) * (2 * n) < 2 * n
    BY <1>1, <1>2, <1>6
  <2>2. ASSUME NEW d \in Int, d >= 1 PROVE d * (2 * n) >= 2 * n
    BY <2>2
  <2>3. ~(a - b >= 1)
    BY <1>1, <1>2, <2>1, <2>2
  <2> QED BY <1>1, <1>2, <2>3
<1>8. a <= 1000
  BY <1>1, <1>4
<1> QED BY <1>7, <1>8 DEF a, b

LEMMA RateIsFair == ASSUME NEW W \in Nat, W > 1 PROVE Rate(W - 1, W) >= 500
<1> DEFINE x == 2000 * (W - 1) + W
           w == 2 * W
<1>1. x \in Int /\ w \in Nat \ {0} /\ 500 * w <= x
  OBVIOUS
<1> HIDE DEF x, w
<1>2. x \div w \in Int /\ x < (x \div w) * w + w
  BY <1>1, DivFacts
<1> DEFINE q == x \div w
<1> HIDE DEF q
<1>3. q \in Int /\ 500 * w < q * w + w
  BY <1>1, <1>2 DEF q
<1>4. (500 - q) * w < w
  BY <1>1, <1>3
<1>5. ~(500 - q >= 1)
  <2>1. ASSUME NEW d \in Int, d >= 1 PROVE d * w >= w
    BY <1>1, <2>1
  <2> SUFFICES ASSUME 500 - q >= 1 PROVE FALSE
    OBVIOUS
  <2>2. 500 - q \in Int
    BY <1>3
  <2> DEFINE d == 500 - q
  <2>3. d * w < w /\ d \in Int /\ d >= 1
    BY <1>4, <2>2
  <2> HIDE DEF d
  <2> QED BY <1>1, <2>1, <2>3
<1>6. Rate(W - 1, W) = q
  BY DEF Rate, q, x, w
<1> QED BY <1>3, <1>5, <1>6

-----------------------------------------------------------------------------
(* The ribbon                                                                *)
Queried(rows, query) == {i \in DOMAIN rows : query.from <= rows[i].ts /\ rows[i].ts <= query.to}

Cells(rows, in, width) ==
    {{i \in in : FloorTo(rows[i].ts, width) = b} : b \in {FloorTo(rows[i].ts, width) : i \in in}}

RateOf(rows, in) == Rate(Cardinality({i \in in : rows[i].success}), Cardinality(in))

Rates(rows, in, width) ==
    {RateOf(rows, g) : g \in {h \in Cells(rows, in, width) : Counts(Cardinality(h))}}

Worst(rows, in, width) == Min({1000} \cup Rates(rows, in, width))

Point(rows, in, bucket) ==
    [bucket_ts |-> FloorTo(rows[Min(in)].ts, bucket),
     okRate |-> RateOf(rows, in),
     worst |-> Worst(rows, in, SubMs(bucket))]

LEMMA BucketsAre ==
    ASSUME NEW rows, NEW query
    PROVE  LET bucket == BucketMs(query.from, query.to)
           IN  Bucketed(rows, query.from, query.to) =
                  {Point(rows, in, bucket) : in \in Cells(rows, Queried(rows, query), bucket)}
  BY DEF Bucketed, Queried, Cells, RateOf, Rates, Worst, Point

LEMMA SeriesTyped ==
    /\ TargetBuckets \in Nat \ {0} /\ MinBucket \in Nat \ {0}
    /\ WorstSub \in Nat \ {0} /\ WorstMinSamples \in Nat \ {0} /\ WorstMinSamples > 1
    /\ MinBucket <= WorstSub
  BY SeriesConstants DEF SeriesConstants

LEMMA WidthsAre ==
    ASSUME NEW query \in Queries
    PROVE  LET bucket == BucketMs(query.from, query.to)
           IN  /\ bucket \in Nat \ {0} /\ SubMs(bucket) \in Nat \ {0} /\ SubMs(bucket) <= bucket
               /\ SubMs(bucket) = Min({bucket, WorstSub})
<1> DEFINE bucket == BucketMs(query.from, query.to)
           d == query.to - query.from
           m == Max({1, d})
           q == m \div TargetBuckets
<1>1. query.from \in Int /\ query.to \in Int
  <2>1. query \in [from : Int, to : Int]
    BY DiagnosisConstants DEF DiagnosisConstants
  <2> QED BY <2>1
<1>2. d \in Int
  BY <1>1
<1> HIDE DEF d
<1>3. m \in Int /\ 1 <= m
  <2>1. 1 \in Int
    OBVIOUS
  <2>2. m \in {1, d} /\ 1 <= m
    BY <1>2, <2>1, TwoOf, Zenon
  <2> HIDE DEF m
  <2> QED BY <1>2, <2>2
<1>4. q \in Int
  <2> HIDE DEF m
  <2> QED BY <1>3, SeriesTyped, DivFacts
<1>5. bucket = Max({MinBucket, q})
  BY Zenon DEF BucketMs, d
<1> HIDE DEF q, bucket
<1>6. bucket \in Nat \ {0}
  <2>1. MinBucket \in Int /\ MinBucket \in Nat \ {0}
    BY SeriesTyped
  <2>2. bucket \in {MinBucket, q} /\ MinBucket <= bucket
    BY <1>4, <1>5, <2>1, TwoOf, Zenon
  <2> QED BY <1>4, <2>1, <2>2
<1>7. Max({MinBucket, WorstSub}) = WorstSub
  <2>1. MinBucket \in Int /\ WorstSub \in Int /\ MinBucket <= WorstSub
    BY SeriesTyped
  <2>2. Max({MinBucket, WorstSub}) \in {MinBucket, WorstSub} /\ WorstSub <= Max({MinBucket, WorstSub})
    BY <2>1, TwoOf, Zenon
  <2> QED BY <2>1, <2>2
<1>8. SubMs(bucket) = Min({bucket, WorstSub})
  BY <1>7, Zenon DEF SubMs
<1>9. SubMs(bucket) \in Nat \ {0} /\ SubMs(bucket) <= bucket
  <2>1. WorstSub \in Int /\ WorstSub \in Nat \ {0} /\ bucket \in Int
    BY <1>6, SeriesTyped
  <2>2. SubMs(bucket) \in {bucket, WorstSub} /\ SubMs(bucket) <= bucket
    BY <1>8, <2>1, TwoOf, Zenon
  <2> QED BY <1>6, <2>1, <2>2
<1> QED BY <1>6, <1>8, <1>9 DEF bucket

(* A cell whose rate counts, and the worst of the rates.                     *)
WellCounted(rows, in, g) ==
    /\ g \in SUBSET in /\ IsFiniteSet(g) /\ Cardinality(g) \in Nat \ {0}
    /\ WorstMinSamples <= Cardinality(g)
    /\ Cardinality({i \in g : rows[i].success}) \in 0 .. Cardinality(g)
    /\ RateOf(rows, g) \in Int /\ 0 <= RateOf(rows, g)

IsWorst(rows, in, width, worst) ==
    /\ worst \in {1000} \cup Rates(rows, in, width)
    /\ worst \in Int /\ 0 <= worst
    /\ \A v \in Rates(rows, in, width) : worst <= v

LEMMA RatesTyped ==
    ASSUME NEW rows, NEW n \in Nat, NEW in \in SUBSET (1 .. n), NEW width,
           NEW g \in Cells(rows, in, width), Counts(Cardinality(g))
    PROVE  WellCounted(rows, in, g)
<1>1. g \in SUBSET in
  BY DEF Cells
<1>2. IsFiniteSet(1 .. n) /\ g \in SUBSET (1 .. n)
  BY <1>1, FS_Interval
<1>3. IsFiniteSet(g) /\ Cardinality(g) \in Nat
  BY <1>2, FS_Subset, FS_CardinalityType
<1> DEFINE good == {i \in g : rows[i].success}
<1>4. good \in SUBSET g
  OBVIOUS
<1> HIDE DEF good
<1>5. IsFiniteSet(good) /\ Cardinality(good) \in Nat /\ Cardinality(good) <= Cardinality(g)
  BY <1>3, <1>4, FS_Subset, FS_CardinalityType
<1>6. WorstMinSamples <= Cardinality(g)
  BY <1>3, SeriesTyped DEF Counts
<1>7. Cardinality(g) \in Nat \ {0} /\ Cardinality(good) \in 0 .. Cardinality(g)
  BY <1>3, <1>5, <1>6, SeriesTyped
<1>8. RateOf(rows, g) = Rate(Cardinality(good), Cardinality(g))
  BY Zenon DEF RateOf, good
<1>9. RateOf(rows, g) \in Int /\ 0 <= RateOf(rows, g)
  BY <1>7, <1>8, RateTyped
<1> QED BY <1>1, <1>3, <1>6, <1>7, <1>9, Zenon DEF WellCounted, good

LEMMA WorstOf ==
    ASSUME NEW rows, NEW n \in Nat, NEW in \in SUBSET (1 .. n), NEW width
    PROVE  IsWorst(rows, in, width, Worst(rows, in, width))
<1> DEFINE S == {1000} \cup Rates(rows, in, width)
<1>1. \A v \in Rates(rows, in, width) : v \in Int /\ 0 <= v
  <2> SUFFICES ASSUME NEW v \in Rates(rows, in, width) PROVE v \in Int /\ 0 <= v
    OBVIOUS
  <2>1. PICK g \in Cells(rows, in, width) : Counts(Cardinality(g)) /\ v = RateOf(rows, g)
    BY DEF Rates
  <2>2. WellCounted(rows, in, g)
    BY <2>1, RatesTyped
  <2> QED BY <2>1, <2>2 DEF WellCounted
<1>2. S \in SUBSET Int /\ S # {} /\ \A v \in S : 0 <= v
  BY <1>1
<1>3. \A v \in Rates(rows, in, width) : v \in S
  OBVIOUS
<1> HIDE DEF S
<1>4. Min(S) \in S /\ \A v \in S : Min(S) <= v
  BY <1>2, LeastOf
<1>5. Min(S) \in Int /\ 0 <= Min(S) /\ \A v \in Rates(rows, in, width) : Min(S) <= v
  BY <1>2, <1>3, <1>4
<1>6. Worst(rows, in, width) = Min(S)
  BY Zenon DEF S, Worst
<1>7. Min(S) \in {1000} \cup Rates(rows, in, width)
  BY <1>4 DEF S
<1>8. IsWorst(rows, in, width, Min(S))
  BY <1>5, <1>7 DEF IsWorst
<1> QED BY <1>6, <1>8

(* The points of the ribbon are those of its cells, each at its bucket.      *)
LEMMA RibbonIs ==
    ASSUME IInv, NEW anchor, NEW query \in Queries
    PROVE  LET rows == RowsFor(stored, anchor)
               bucket == BucketMs(query.from, query.to)
               queried == Queried(rows, query)
           IN  /\ \A point \in Ribbon(anchor, query) :
                     \E in \in Cells(rows, queried, bucket) :
                        point.worst = Worst(rows, in, SubMs(bucket))
               /\ \A i \in queried :
                     LET b == FloorTo(rows[i].ts, bucket)
                     IN  anchor \in DOMAIN stored =>
                            \E point \in Ribbon(anchor, query) :
                               /\ point.bucket_ts = b
                               /\ point.worst = Worst(rows, {j \in queried : FloorTo(rows[j].ts, bucket) = b},
                                                       SubMs(bucket))
<1> DEFINE rows == RowsFor(stored, anchor)
           bucket == BucketMs(query.from, query.to)
           queried == Queried(rows, query)
           C == Cells(rows, queried, bucket)
<1>1. anchor \in DOMAIN stored => Ribbon(anchor, query) = {Point(rows, in, bucket) : in \in C}
  <2>1. anchor \in DOMAIN stored => Ribbon(anchor, query) = Bucketed(rows, query.from, query.to)
    BY Zenon DEF Ribbon, RowsFor
  <2> HIDE DEF rows
  <2> QED BY <2>1, BucketsAre
<1>2. anchor \notin DOMAIN stored => Ribbon(anchor, query) = {}
  BY DEF Ribbon
<1>3. queried \in SUBSET (1 .. Len(rows)) /\ Len(rows) \in Nat
  <2>1. Len(rows) \in Nat /\ DOMAIN rows = 1 .. Len(rows)
    BY RowsTell
  <2> HIDE DEF rows
  <2> QED BY <2>1 DEF Queried
<1> HIDE DEF C, rows, bucket, queried
<1>4. \A in : /\ Point(rows, in, bucket).worst = Worst(rows, in, SubMs(bucket))
              /\ Point(rows, in, bucket).bucket_ts = FloorTo(rows[Min(in)].ts, bucket)
  BY Zenon DEF Point
<1>5. \A point \in Ribbon(anchor, query) : \E in \in C : point.worst = Worst(rows, in, SubMs(bucket))
  BY <1>1, <1>2, <1>4
<1>6. ASSUME NEW i \in queried, anchor \in DOMAIN stored
      PROVE  LET b == FloorTo(rows[i].ts, bucket)
             IN  \E point \in Ribbon(anchor, query) :
                    /\ point.bucket_ts = b
                    /\ point.worst = Worst(rows, {j \in queried : FloorTo(rows[j].ts, bucket) = b},
                                            SubMs(bucket))
  <2> DEFINE b == FloorTo(rows[i].ts, bucket)
             in == {j \in queried : FloorTo(rows[j].ts, bucket) = b}
  <2>1. in \in C
    BY DEF C, Cells
  <2>2. i \in in /\ in \in SUBSET (1 .. Len(rows)) /\ \A j \in in : FloorTo(rows[j].ts, bucket) = b
    BY <1>3
  <2> HIDE DEF b, in
  <2>3. Min(in) \in in
    <3>1. in \in SUBSET Int /\ in # {} /\ \A j \in in : 1 <= j
      BY <1>3, <2>2
    <3> QED BY <3>1, LeastOf
  <2>4. FloorTo(rows[Min(in)].ts, bucket) = b
    BY <2>2, <2>3
  <2>5. Point(rows, in, bucket) \in Ribbon(anchor, query)
    BY <1>1, <1>6, <2>1
  <2> QED BY <1>4, <2>4, <2>5 DEF b, in
<1> QED BY <1>5, <1>6 DEF C, rows, bucket, queried

(* With one row failed, no sub-bucket misses more than one.                  *)
LEMMA OneStray ==
    ASSUME NEW rows, NEW n \in Nat, DOMAIN rows = 1 .. n, NEW query,
           Cardinality({i \in Queried(rows, query) : ~rows[i].success}) = 1,
           NEW in \in SUBSET Queried(rows, query), NEW width,
           NEW v \in Rates(rows, in, width)
    PROVE  Rate(WorstMinSamples - 1, WorstMinSamples) <= v
<1> DEFINE lost == {i \in Queried(rows, query) : ~rows[i].success}
<1>1. in \in SUBSET (1 .. n) /\ lost \in SUBSET (1 .. n)
  BY DEF Queried
<1>2. IsFiniteSet(lost) /\ Cardinality(lost) = 1
  <2> HIDE DEF lost
  <2>1. IsFiniteSet(1 .. n)
    BY FS_Interval
  <2>2. IsFiniteSet(lost)
    BY <1>1, <2>1, FS_Subset
  <2> QED BY <2>2 DEF lost
<1>3. PICK g \in Cells(rows, in, width) : Counts(Cardinality(g)) /\ v = RateOf(rows, g)
  BY DEF Rates
<1> DEFINE good == {i \in g : rows[i].success}
           bad == {i \in g : ~rows[i].success}
<1>4. /\ g \in SUBSET in /\ IsFiniteSet(g) /\ Cardinality(g) \in Nat \ {0}
      /\ WorstMinSamples <= Cardinality(g)
      /\ Cardinality(good) \in 0 .. Cardinality(g)
  <2>1. WellCounted(rows, in, g)
    BY <1>1, <1>3, RatesTyped
  <2> QED BY <2>1, Zenon DEF WellCounted
<1>5. Cardinality(bad) <= 1
  <2>1. bad \in SUBSET lost
    BY <1>4
  <2> HIDE DEF lost, bad
  <2> QED BY <1>2, <2>1, FS_Subset
<1>6. good \cup bad = g /\ good \cap bad = {} /\ good \in SUBSET g /\ bad \in SUBSET g
  OBVIOUS
<1> HIDE DEF good, bad
<1>7. Cardinality(g) = Cardinality(good) + Cardinality(bad)
  BY <1>4, <1>6, CardinalityOfParts, FS_Subset
<1>8. Cardinality(bad) \in Nat
  BY <1>4, <1>6, FS_Subset, FS_CardinalityType
<1>9. Cardinality(g) - 1 <= Cardinality(good)
  BY <1>4, <1>5, <1>7, <1>8
<1>10. RateOf(rows, g) = Rate(Cardinality(good), Cardinality(g))
  BY Zenon DEF RateOf, good
<1>11. Rate(WorstMinSamples - 1, WorstMinSamples) <= Rate(Cardinality(good), Cardinality(g))
  BY <1>4, <1>9, RateGrows, SeriesTyped
<1> QED BY <1>3, <1>10, <1>11

LEMMA StraysSpared == ASSUME IInv PROVE RibbonSparesStrays
<1> SUFFICES ASSUME NEW anchor \in Anchors \cap DOMAIN stored, NEW query \in Queries,
                    Cardinality({i \in DOMAIN stored[anchor] :
                        /\ query.from <= stored[anchor][i].ts /\ stored[anchor][i].ts <= query.to
                        /\ ~stored[anchor][i].success}) = 1,
                    NEW point \in Ribbon(anchor, query)
             PROVE  StatusOf(point.worst) \in {"good", "warning"}
  BY DEF RibbonSparesStrays
<1> DEFINE rows == RowsFor(stored, anchor)
           bucket == BucketMs(query.from, query.to)
           queried == Queried(rows, query)
           n == Len(rows)
<1>1. n \in Nat /\ DOMAIN rows = 1 .. n
  BY RowsTell
<1>2. Cardinality({i \in queried : ~rows[i].success}) = 1
  <2>1. rows = stored[anchor]
    BY DEF RowsFor
  <2>2. {i \in queried : ~rows[i].success} =
           {i \in DOMAIN rows : /\ query.from <= rows[i].ts /\ rows[i].ts <= query.to
                                /\ ~rows[i].success}
    BY DEF Queried
  <2> HIDE DEF rows, queried
  <2> QED BY <2>1, <2>2
<1>3. PICK in \in Cells(rows, queried, bucket) : point.worst = Worst(rows, in, SubMs(bucket))
  BY RibbonIs
<1>4. in \in SUBSET queried
  BY DEF Cells
<1> HIDE DEF rows, bucket, n
<1>5. in \in SUBSET (1 .. n)
  BY <1>1, <1>4 DEF Queried
<1>6. IsWorst(rows, in, SubMs(bucket), point.worst)
  BY <1>1, <1>3, <1>5, WorstOf
<1>7. \A v \in Rates(rows, in, SubMs(bucket)) : Rate(WorstMinSamples - 1, WorstMinSamples) <= v
  BY <1>1, <1>2, <1>4, OneStray
<1>8. Rate(WorstMinSamples - 1, WorstMinSamples) >= 500
  BY SeriesTyped, RateIsFair
<1>9. Rate(WorstMinSamples - 1, WorstMinSamples) \in Int
  <2>1. WorstMinSamples - 1 \in 0 .. WorstMinSamples /\ WorstMinSamples \in Nat \ {0}
    BY SeriesTyped
  <2> QED BY <2>1, RateTyped
<1>10. point.worst \in Int /\ point.worst >= 500
  BY <1>6, <1>7, <1>8, <1>9 DEF IsWorst
<1>11. ASSUME NEW rate \in Int, rate >= 500 PROVE StatusOf(rate) \in {"good", "warning"}
  <2>1. rate >= 750 \/ (~(rate >= 750) /\ rate \in 500 .. 749)
    BY <1>11
  <2>2. CASE rate >= 750
    <3>1. ~(rate \in 500 .. 749) /\ ~(rate \in 150 .. 499)
      BY <2>2
    <3> QED BY <2>2, <3>1 DEF StatusOf
  <2>3. CASE ~(rate >= 750) /\ rate \in 500 .. 749
    <3>1. ~(rate \in 150 .. 499)
      BY <2>3
    <3> QED BY <2>3, <3>1 DEF StatusOf
  <2> QED BY <2>1, <2>2, <2>3
<1> QED BY <1>10, <1>11

(* Whatever window the dashboard asks for and however its buckets cut it, one*)
(* lost ping in it makes no bucket look worse than a warning: sub-buckets of *)
(* fewer than WorstMinSamples samples do not count (series.py:129), and one  *)
(* loss among as many leaves at least half (app.js).                         *)
THEOREM RibbonSpares == Spec => []RibbonSparesStrays
<1>1. IInv => RibbonSparesStrays
  BY StraysSpared
<1> QED BY <1>1, DiagnosisInvariant, PTL

-----------------------------------------------------------------------------
(* How long a tick may take                                                  *)
LEMMA TimesGrows ==
    ASSUME NEW w \in Nat, NEW m \in Nat, NEW n \in Nat, m <= n
    PROVE  w * m <= w * n /\ w * m \in Nat
<1>1. \A k \in Nat : w * k >= 0
  OBVIOUS
<1>2. w * n = w * m + w * (n - m) /\ n - m \in Nat
  OBVIOUS
<1>3. w * (n - m) >= 0
  BY <1>1, <1>2
<1>4. w * m \in Nat /\ w * n \in Nat /\ w * (n - m) \in Nat
  BY <1>2
<1> QED BY <1>2, <1>3, <1>4

LEMMA UnansweredBound ==
    ASSUME NEW calls, NEW targets, NEW bound, IsFiniteSet(bound), NEW exception,
           DOMAIN calls \cap targets \subseteq bound
    PROVE  Unanswered(calls, targets, exception) <= Cardinality(bound)
<1> DEFINE U == {x \in DOMAIN calls \cap targets : Outcome(x, calls[x]).is = exception}
<1>1. U \subseteq bound
  OBVIOUS
<1>2. Cardinality(U) <= Cardinality(bound)
  <2> HIDE DEF U
  <2> QED BY <1>1, FS_Subset
<1> QED BY <1>2 DEF Unanswered

LEMMA UnansweredGrows ==
    ASSUME NEW some, NEW calls, NEW targets, IsFiniteSet(targets), NEW exception,
           DOMAIN some \subseteq DOMAIN calls, \A x \in DOMAIN some : calls[x] = some[x]
    PROVE  Unanswered(some, targets, exception) <= Unanswered(calls, targets, exception)
<1> DEFINE U == {x \in DOMAIN some \cap targets : Outcome(x, some[x]).is = exception}
           V == {x \in DOMAIN calls \cap targets : Outcome(x, calls[x]).is = exception}
<1>1. U \subseteq V /\ V \subseteq targets
  OBVIOUS
<1>2. Cardinality(U) <= Cardinality(V)
  <2> HIDE DEF U, V
  <2> QED BY <1>1, FS_Subset
<1> QED BY <1>2 DEF Unanswered

LEMMA TookGrows ==
    ASSUME NEW some, NEW calls,
           DOMAIN some \subseteq DOMAIN calls, \A x \in DOMAIN some : calls[x] = some[x]
    PROVE  Took(some) <= Took(calls)
<1> DEFINE a == Unanswered(some, Icmp, "no_reply")
           b == Unanswered(some, Resolvers, "LifetimeTimeout")
           c == Unanswered(some, {"http"}, "TimeoutException")
           d == Unanswered(calls, Icmp, "no_reply")
           e == Unanswered(calls, Resolvers, "LifetimeTimeout")
           f == Unanswered(calls, {"http"}, "TimeoutException")
<1>1. a <= d /\ b <= e /\ c <= f
  BY IcmpIsFinite, UnansweredGrows
<1>2. /\ Took(some) = PingWait * a + DnsWait * b + HttpWait * c
      /\ a \in Nat /\ b \in Nat /\ c \in Nat
  BY TookIs
<1>3. /\ Took(calls) = PingWait * d + DnsWait * e + HttpWait * f
      /\ d \in Nat /\ e \in Nat /\ f \in Nat
  BY TookIs
<1> HIDE DEF a, b, c, d, e, f
<1>4. PingWait \in Nat /\ DnsWait \in Nat /\ HttpWait \in Nat
  BY DiagnosisConstants DEF DiagnosisConstants
<1>5. PingWait * a <= PingWait * d /\ PingWait * a \in Nat /\ PingWait * d \in Nat
  BY <1>1, <1>2, <1>3, <1>4, TimesGrows
<1>6. DnsWait * b <= DnsWait * e /\ DnsWait * b \in Nat /\ DnsWait * e \in Nat
  BY <1>1, <1>2, <1>3, <1>4, TimesGrows
<1>7. HttpWait * c <= HttpWait * f /\ HttpWait * c \in Nat /\ HttpWait * f \in Nat
  BY <1>1, <1>2, <1>3, <1>4, TimesGrows
<1> QED BY <1>2, <1>3, <1>5, <1>6, <1>7

LEMMA WaitsTyped ==
    ASSUME AgentTyped
    PROVE  /\ IsFiniteSet(PingTargets) /\ IsFiniteSet(DnsTargets)
           /\ PingsTake \in Nat
           /\ Cardinality(DnsTargets) * DnsWait \in Nat /\ HttpWait \in Nat
           /\ Slowest \in Nat /\ 2 <= Slowest
           /\ PingsTake + Cardinality(DnsTargets) * DnsWait + HttpWait <= Slowest
<1>1. IsFiniteSet(PingTargets) /\ IsFiniteSet(DnsTargets)
  <2>1. IsFiniteSet(Icmp) /\ IsFiniteSet(Resolvers) /\ PingTargets \subseteq Icmp /\ DnsTargets \subseteq Resolvers
    BY IcmpIsFinite, CallsAre
  <2> QED BY <2>1, FS_Subset
<1>2. Cardinality(PingTargets) \in Nat /\ Cardinality(DnsTargets) \in Nat
  BY <1>1, FS_CardinalityType
<1>3. PingWait \in Nat /\ DnsWait \in Nat /\ HttpWait \in Nat
  BY DiagnosisConstants DEF DiagnosisConstants
<1>4. \A m, n \in Nat : m * n \in Nat
  OBVIOUS
<1>5. PingsTake \in Nat /\ Cardinality(DnsTargets) * DnsWait \in Nat
  BY <1>2, <1>3, <1>4 DEF PingsTake
<1> DEFINE sum == PingsTake + Cardinality(DnsTargets) * DnsWait + HttpWait
<1>6. sum \in Int
  BY <1>3, <1>5
<1> HIDE DEF sum
<1>7. Slowest \in {2, sum} /\ 2 <= Slowest /\ sum <= Slowest
  <2>1. 2 \in Int
    OBVIOUS
  <2>2. Slowest = Max({2, sum})
    BY Zenon DEF Slowest, sum
  <2> QED BY <1>6, <2>1, <2>2, TwoOf, Zenon
<1>8. Slowest \in Nat
  BY <1>6, <1>7
<1> QED BY <1>1, <1>3, <1>5, <1>7, <1>8 DEF sum

LEMMA TookBounded ==
    ASSUME AgentTyped, NEW calls, DOMAIN calls \subseteq Calls
    PROVE  /\ Took(calls) <= Slowest
           /\ DOMAIN calls \subseteq PingTargets => Took(calls) <= PingsTake
<1> DEFINE a == Unanswered(calls, Icmp, "no_reply")
           b == Unanswered(calls, Resolvers, "LifetimeTimeout")
           c == Unanswered(calls, {"http"}, "TimeoutException")
           p == Cardinality(PingTargets)
           q == Cardinality(DnsTargets)
<1>1. /\ Took(calls) = PingWait * a + DnsWait * b + HttpWait * c
      /\ a \in Nat /\ b \in Nat /\ c \in Nat
  BY TookIs
<1>2. PingWait \in Nat /\ DnsWait \in Nat /\ HttpWait \in Nat
  BY DiagnosisConstants DEF DiagnosisConstants
<1>3. /\ IsFiniteSet(PingTargets) /\ IsFiniteSet(DnsTargets)
      /\ p \in Nat /\ q \in Nat
  BY WaitsTyped, FS_CardinalityType
<1>4. /\ DOMAIN calls \cap Icmp \subseteq PingTargets
      /\ DOMAIN calls \cap Resolvers \subseteq DnsTargets
      /\ PingTargets \cap Resolvers = {} /\ "http" \notin PingTargets
  <2>1. /\ PingTargets \subseteq Icmp /\ Calls \cap Icmp = PingTargets
        /\ Calls \subseteq PingTargets \cup watched \cup DnsTargets \cup {"http"}
        /\ "eth" \in Interfaces
    BY CallsAre
  <2>2. watched \subseteq {"eth"}
    BY DEF AgentTyped
  <2>3. Icmp \cap Resolvers = {} /\ "eth" \notin Resolvers /\ "http" \notin Resolvers \cup Icmp
    BY <2>1, Labels DEF Labels
  <2> QED BY <2>1, <2>2, <2>3
<1>5. a <= p /\ b <= q
  BY <1>3, <1>4, UnansweredBound
<1>6. c <= 1
  <2>1. IsFiniteSet({"http"}) /\ Cardinality({"http"}) = 1
    BY FS_Singleton
  <2>2. DOMAIN calls \cap {"http"} \subseteq {"http"}
    OBVIOUS
  <2>3. c <= Cardinality({"http"})
    BY <2>1, <2>2, UnansweredBound
  <2> QED BY <2>1, <2>3
<1>7. DOMAIN calls \subseteq PingTargets => b = 0 /\ c = 0
  <2> SUFFICES ASSUME DOMAIN calls \subseteq PingTargets PROVE b = 0 /\ c = 0
    OBVIOUS
  <2>1. IsFiniteSet({}) /\ Cardinality({}) = 0
    BY FS_EmptySet
  <2>2. DOMAIN calls \cap Resolvers \subseteq {} /\ DOMAIN calls \cap {"http"} \subseteq {}
    BY <1>4
  <2>3. b <= Cardinality({}) /\ c <= Cardinality({})
    BY <2>1, <2>2, UnansweredBound
  <2> HIDE DEF b, c
  <2> QED BY <1>1, <2>1, <2>3
<1> HIDE DEF a, b, c
<1>8. PingWait * a <= PingWait * p /\ PingWait * a \in Nat
  BY <1>1, <1>2, <1>3, <1>5, TimesGrows
<1>9. DnsWait * b <= DnsWait * q /\ DnsWait * b \in Nat
  BY <1>1, <1>2, <1>3, <1>5, TimesGrows
<1>10. HttpWait * c <= HttpWait /\ HttpWait * c \in Nat
  <2>1. HttpWait * c <= HttpWait * 1 /\ HttpWait * c \in Nat
    BY <1>1, <1>2, <1>6, TimesGrows
  <2> QED BY <1>2, <2>1
<1>11. PingsTake = PingWait * p /\ q * DnsWait = DnsWait * q /\ PingsTake \in Nat /\ DnsWait * q \in Nat
  <2>1. \A m, n \in Nat : m * n = n * m /\ m * n \in Nat
    OBVIOUS
  <2>2. PingsTake = p * PingWait
    BY DEF PingsTake
  <2> HIDE DEF p, q
  <2> QED BY <1>2, <1>3, <2>1, <2>2
<1>12. PingsTake + q * DnsWait + HttpWait <= Slowest /\ Slowest \in Nat
  BY WaitsTyped
<1> HIDE DEF p, q
<1>13. Took(calls) <= Slowest
  BY <1>1, <1>2, <1>8, <1>9, <1>10, <1>11, <1>12
<1>14. ASSUME DOMAIN calls \subseteq PingTargets PROVE Took(calls) <= PingsTake
  <2>1. DnsWait * b = 0 /\ HttpWait * c = 0
    BY <1>2, <1>7, <1>14
  <2> QED BY <1>1, <1>8, <1>11, <2>1
<1> QED BY <1>13, <1>14

(* A tick that has not got to a ping has done nothing but pings.             *)
LEMMA TurnsAre ==
    ASSUME AgentTyped
    PROVE  /\ \A x \in PingTargets : Turn(x) \in {1, 2}
           /\ \A y \in Calls \ PingTargets : Turn(y) \in {3, 4, 5, 6}
<1>1. /\ PingTargets = (IF knowsGateway THEN {"gateway"} ELSE {}) \cup Anchors
      /\ Calls \subseteq PingTargets \cup {"eth"} \cup Resolvers \cup {"http"}
      /\ Calls \cap Icmp = PingTargets /\ "eth" \in Interfaces
  BY CallsAre DEF AgentTyped, PingTargets, DnsTargets
<1>2. /\ "gateway" \notin Anchors \cup Resolvers \cup Interfaces
      /\ "http" \notin Icmp \cup Resolvers \cup Interfaces
      /\ \A x \in Anchors : x \notin Resolvers \cup Interfaces /\ x # "http" /\ x # "gateway"
  BY KindsDiffer
<1>3. "dns-gateway" \in Resolvers /\ Resolvers \cap Icmp = {} /\ Resolvers \cap Interfaces = {}
  BY Labels DEF Labels
<1>4. "gateway" \in Icmp /\ Anchors \subseteq Icmp
  BY DEF Icmp
<1>5. Turn("gateway") = 1
  BY <1>2, <1>3 DEF Turn
<1>6. ASSUME NEW x \in Anchors PROVE Turn(x) = 2
  BY <1>2, <1>3 DEF Turn
<1>7. Turn("eth") = 3
  <2>1. "eth" # "gateway" /\ "eth" \notin Anchors /\ "eth" # "dns-gateway" /\ "eth" \notin Resolvers
    BY <1>1, <1>2, <1>3
  <2> QED BY <1>1, <2>1 DEF Turn
<1>8. ASSUME NEW x \in Resolvers PROVE Turn(x) \in {4, 5}
  <2>1. x # "gateway" /\ x \notin Anchors /\ x \notin Interfaces
    BY <1>2, <1>3, <1>4
  <2>2. CASE x = "dns-gateway"
    <3>1. x \notin Resolvers \ {"dns-gateway"}
      BY <2>2
    <3> QED BY <2>1, <2>2, <3>1 DEF Turn
  <2>3. CASE x # "dns-gateway"
    <3>1. x \in Resolvers \ {"dns-gateway"}
      BY <2>3
    <3> QED BY <2>1, <2>3, <3>1 DEF Turn
  <2> QED BY <2>2, <2>3
<1>9. Turn("http") = 6
  <2>1. /\ "http" # "gateway" /\ "http" \notin Anchors /\ "http" \notin Interfaces
        /\ "http" # "dns-gateway" /\ "http" \notin Resolvers \ {"dns-gateway"}
    BY <1>2, <1>3, <1>4
  <2> QED BY <2>1 DEF Turn
<1>10. \A x \in PingTargets : Turn(x) \in {1, 2}
  BY <1>1, <1>5, <1>6
<1>11. ASSUME NEW y \in Calls \ PingTargets PROVE Turn(y) \in {3, 4, 5, 6}
  <2>1. y = "eth" \/ y \in Resolvers \/ y = "http"
    BY <1>1
  <2> QED BY <1>7, <1>8, <1>9, <2>1
<1> QED BY <1>10, <1>11

LEMMA PingsFirst ==
    ASSUME AgentTyped, NEW before \in Beginnings, NEW x \in PingTargets, x \notin before
    PROVE  before \subseteq PingTargets
<1> SUFFICES ASSUME NEW y \in before, y \notin PingTargets PROVE FALSE
  OBVIOUS
<1>1. x \in Calls /\ y \in Calls
  BY CallsAre DEF Beginnings
<1>2. Turn(x) \in {1, 2} /\ Turn(y) \in {3, 4, 5, 6}
  BY <1>1, TurnsAre
<1>3. Turn(x) < Turn(y)
  BY <1>2
<1> QED BY <1>1, <1>3 DEF Beginnings

-----------------------------------------------------------------------------
(* What prevailed, against what the ticks met                                *)
SpellRecords == [what : Faults \cup {"asleep"}, from : Nat]

\* What a ping of tick t met prevailed by the time the tick's pings are over,
\* or the host slept.
Prevailed(seq, t, what, take) ==
    \E i \in 1 .. Len(seq) :
        /\ seq[i].what \in {what, "asleep"}
        /\ seq[i].from <= t + take
        /\ i < Len(seq) => t <= seq[i + 1].from

\* A tick comes soon after another, or soon after a sleep that did.
Follows(seq, t, u, slow) ==
    /\ t < u
    /\ \/ u <= t + slow
       \/ \E i \in 1 .. Len(seq) :
             /\ i < Len(seq) /\ seq[i].what = "asleep"
             /\ t <= seq[i].from /\ seq[i].from <= t + slow
             /\ u <= seq[i + 1].from + slow

LastSpell(seq, what, by) ==
    /\ seq \in Seq(SpellRecords) /\ Len(seq) \in Nat \ {0}
    /\ seq[Len(seq)].what = what /\ seq[Len(seq)].from <= by

PingsPrevailed == \A t \in Ticks : \A x \in PingTargets : Prevailed(spells, t, met[t][x], PingsTake)
TicksFollow == \A t \in Ticks : \E u \in Ticks \cup {now} : Follows(spells, t, u, Slowest)

SpellsInv ==
    /\ LastSpell(spells, fault, now)
    /\ 1 \in Ticks \cup {now}
    /\ PingsPrevailed
    /\ TicksFollow

LEMMA SpellsStart == ASSUME Init PROVE SpellsInv
<1>1. /\ now = 1 /\ DOMAIN met = {} /\ fault \in Faults
      /\ spells = <<[what |-> fault, from |-> 0]>>
  BY DEF Init
<1>2. /\ spells \in Seq(SpellRecords) /\ Len(spells) = 1
      /\ spells[1].what = fault /\ spells[1].from = 0
  <2>1. [what |-> fault, from |-> 0] \in SpellRecords
    BY <1>1 DEF SpellRecords
  <2> QED BY <1>1, <2>1
<1> QED BY <1>1, <1>2 DEF SpellsInv, LastSpell, PingsPrevailed, TicksFollow, Ticks

\* Spells are only added, and from then on.
Prolongs(seq, longer, then) ==
    /\ seq \in Seq(SpellRecords) /\ longer \in Seq(SpellRecords)
    /\ Len(seq) \in Nat \ {0} /\ Len(longer) \in Nat /\ Len(seq) <= Len(longer)
    /\ \A i \in 1 .. Len(seq) : longer[i] = seq[i]
    /\ Len(seq) < Len(longer) => then <= longer[Len(seq) + 1].from

LEMMA PrevailedKept ==
    ASSUME NEW seq, NEW longer, NEW then \in Nat, Prolongs(seq, longer, then),
           NEW t \in Nat, t <= then, NEW what, NEW take, Prevailed(seq, t, what, take)
    PROVE  Prevailed(longer, t, what, take)
<1>1. PICK i \in 1 .. Len(seq) : /\ seq[i].what \in {what, "asleep"}
                                 /\ seq[i].from <= t + take
                                 /\ i < Len(seq) => t <= seq[i + 1].from
  BY DEF Prevailed
<1>2. /\ Len(seq) \in Nat \ {0} /\ Len(longer) \in Nat /\ Len(seq) <= Len(longer)
      /\ \A j \in 1 .. Len(seq) : longer[j] = seq[j]
      /\ Len(seq) < Len(longer) => then <= longer[Len(seq) + 1].from
      /\ longer \in Seq(SpellRecords)
  BY DEF Prolongs
<1>3. i \in 1 .. Len(longer) /\ longer[i] = seq[i]
  BY <1>2
<1>4. ASSUME i < Len(longer) PROVE t <= longer[i + 1].from
  <2>1. CASE i < Len(seq)
    <3>1. i + 1 \in 1 .. Len(seq)
      BY <1>2, <2>1
    <3> QED BY <1>1, <1>2, <2>1, <3>1
  <2>2. CASE i = Len(seq)
    <3>1. longer[i + 1] \in SpellRecords
      <4>1. i + 1 \in 1 .. Len(longer)
        BY <1>2, <1>4
      <4> QED BY <1>2, <4>1, ElementOfSeq
    <3>2. longer[i + 1].from \in Nat
      BY <3>1 DEF SpellRecords
    <3> QED BY <1>2, <1>4, <2>2, <3>2
  <2> QED BY <1>2, <2>1, <2>2
<1> QED BY <1>1, <1>3, <1>4 DEF Prevailed

LEMMA FollowsKept ==
    ASSUME NEW seq, NEW longer, NEW then, Prolongs(seq, longer, then),
           NEW t, NEW u, NEW slow, Follows(seq, t, u, slow)
    PROVE  Follows(longer, t, u, slow)
<1>1. /\ Len(seq) \in Nat \ {0} /\ Len(longer) \in Nat /\ Len(seq) <= Len(longer)
      /\ \A j \in 1 .. Len(seq) : longer[j] = seq[j]
  BY DEF Prolongs
<1>2. ASSUME NEW i \in 1 .. Len(seq), i < Len(seq)
      PROVE  /\ i \in 1 .. Len(longer) /\ i < Len(longer)
             /\ longer[i] = seq[i] /\ longer[i + 1] = seq[i + 1]
  <2>1. i + 1 \in 1 .. Len(seq) /\ i \in 1 .. Len(longer) /\ i < Len(longer)
    BY <1>1, <1>2
  <2> QED BY <1>1, <2>1
<1> QED BY <1>2 DEF Follows

(* What a tick adds.                                                         *)
LEMMA CycleSpells ==
    ASSUME StateInv, LastSpell(spells, fault, now), Cycle
    PROVE  /\ Prolongs(spells, spells', now)
           /\ LastSpell(spells', fault', now')
           /\ \A x \in PingTargets : Prevailed(spells', now, met'[now][x], PingsTake)
           /\ Follows(spells', now, now', Slowest)
<1>0. PICK before \in Beginnings, then \in Faults, nap \in Naps, tardy \in Tardies :
         LET calls == [x \in Calls |-> IF x \in before THEN fault ELSE then]
             over == Max({now + 1 + (IF "cycle" \in tardy THEN 1 ELSE 0), now + Took(calls)})
             at == IF before = Calls THEN over ELSE now + Took([x \in before |-> fault])
         IN  Disturbs(before, then, nap, at) /\ Does(calls, then, nap, tardy, over + nap)
  BY Zenon DEF Cycle, Disturbs, Does
<1> DEFINE calls == [x \in Calls |-> IF x \in before THEN fault ELSE then]
           some == [x \in before |-> fault]
           tick == now + 1 + (IF "cycle" \in tardy THEN 1 ELSE 0)
           over == Max({tick, now + Took(calls)})
           at == IF before = Calls THEN over ELSE now + Took(some)
<1>1. Disturbs(before, then, nap, at) /\ Does(calls, then, nap, tardy, over + nap)
  BY <1>0
<1> HIDE DEF at
<1>2. fault \in Faults /\ now \in Nat /\ nap \in Nat /\ AgentTyped
  BY DiagnosisConstants DEF DiagnosisConstants, StateInv
<1>3. /\ DOMAIN calls = Calls /\ DOMAIN some = before /\ before \subseteq Calls
      /\ \A x \in before : calls[x] = some[x] /\ calls[x] = fault
      /\ \A x \in Calls \ before : calls[x] = then
  BY DEF Beginnings
<1> HIDE DEF calls, some
<1>4. /\ Took(calls) \in Nat /\ Took(some) \in Nat /\ Took(some) <= Took(calls)
      /\ Took(calls) <= Slowest
  BY <1>2, <1>3, TookIs, TookGrows, TookBounded
<1>5. Slowest \in Nat /\ 2 <= Slowest /\ PingsTake \in Nat
  BY <1>2, WaitsTyped
<1>6. tick \in Nat /\ now < tick /\ tick <= now + 2
  BY <1>2
<1>7. over \in Nat /\ now < over /\ now + Took(calls) <= over /\ over <= now + Slowest
  <2> HIDE DEF tick
  <2>1. tick \in Int /\ now + Took(calls) \in Int
    BY <1>2, <1>4, <1>6
  <2>2. over \in {tick, now + Took(calls)} /\ tick <= over /\ now + Took(calls) <= over
    BY <2>1, TwoOf
  <2> HIDE DEF over
  <2> QED BY <1>2, <1>4, <1>5, <1>6, <2>1, <2>2
<1> HIDE DEF tick, over
<1>8. at \in Nat /\ now <= at /\ at <= over
  <2>1. CASE before = Calls
    BY <1>2, <1>7, <2>1 DEF at
  <2>2. CASE before # Calls
    BY <1>2, <1>4, <1>7, <2>2 DEF at
  <2> QED BY <2>1, <2>2
<1>9. /\ fault' = then /\ now' = over + nap
      /\ met' = [t \in DOMAIN met \cup {now} |-> IF t = now THEN calls ELSE met[t]]
  BY <1>1 DEF Does
<1>10. met'[now] = calls
  BY <1>9
<1>11. /\ spells \in Seq(SpellRecords) /\ Len(spells) \in Nat \ {0}
       /\ spells[Len(spells)].what = fault /\ spells[Len(spells)].from <= now
       /\ spells[Len(spells)].from \in Nat
  <2>1. spells \in Seq(SpellRecords) /\ Len(spells) \in 1 .. Len(spells)
    BY DEF LastSpell
  <2>2. spells[Len(spells)] \in SpellRecords
    BY <2>1, ElementOfSeq
  <2> QED BY <2>2 DEF LastSpell, SpellRecords
<1>12. \A x \in PingTargets \ before : at <= now + PingsTake
  <2> SUFFICES ASSUME NEW x \in PingTargets, x \notin before PROVE at <= now + PingsTake
    OBVIOUS
  <2>1. before \subseteq PingTargets /\ x \in Calls
    BY <1>2, PingsFirst, CallsAre
  <2>2. Took(some) <= PingsTake
    BY <1>2, <1>3, <2>1, TookBounded
  <2>3. at = now + Took(some)
    BY <2>1 DEF at
  <2> QED BY <1>2, <1>4, <1>5, <2>2, <2>3
<1>13. PingTargets \subseteq Calls
  BY <1>2, CallsAre
<1> DEFINE N == Len(spells)
           asleep == [what |-> "asleep", from |-> at]
           woken == [what |-> then, from |-> at + nap]
<1>14. /\ asleep \in SpellRecords /\ asleep.what = "asleep" /\ asleep.from = at
       /\ woken \in SpellRecords /\ woken.what = then /\ woken.from = at + nap
  BY <1>2, <1>8 DEF SpellRecords
<1> HIDE DEF asleep, woken
<1>15. CASE then = fault /\ nap = 0
  <2>1. before = Calls /\ spells' = spells
    BY <1>1, <1>15, Zenon DEF Disturbs
  <2>2. now' = over
    BY <1>7, <1>9, <1>15
  <2>3. Prolongs(spells, spells', now)
    BY <1>11, <2>1 DEF Prolongs
  <2>4. LastSpell(spells', fault', now')
    BY <1>2, <1>7, <1>9, <1>11, <1>15, <2>1, <2>2 DEF LastSpell
  <2>5. ASSUME NEW x \in PingTargets PROVE Prevailed(spells', now, met'[now][x], PingsTake)
    <3>1. met'[now][x] = fault
      BY <1>3, <1>10, <1>13, <2>1
    <3>2. N \in 1 .. N /\ spells[N].from <= now + PingsTake
      BY <1>2, <1>5, <1>11
    <3>3. ~(N < N)
      BY <1>11
    <3> QED BY <1>11, <2>1, <3>1, <3>2, <3>3 DEF Prevailed
  <2>6. Follows(spells', now, now', Slowest)
    BY <1>7, <2>2 DEF Follows
  <2> QED BY <2>3, <2>4, <2>5, <2>6
<1>16. CASE ~(then = fault /\ nap = 0) /\ nap = 0
  <2>1. spells' = Append(spells, woken)
    <3>1. spells' = spells \o (IF nap = 0 THEN << >> ELSE <<asleep>>) \o <<woken>>
      BY <1>1, <1>16, Zenon DEF Disturbs, asleep, woken
    <3>2. spells' = spells \o << >> \o <<woken>>
      BY <1>16, <3>1
    <3>3. spells \o << >> = spells
      BY <1>11
    <3> QED BY <1>11, <1>14, <3>2, <3>3
  <2>2. /\ spells' \in Seq(SpellRecords) /\ Len(spells') = N + 1 /\ spells'[N + 1] = woken
        /\ \A i \in 1 .. N : spells'[i] = spells[i]
    BY <1>11, <1>14, <2>1
  <2>3. now' = over /\ woken.from = at
    BY <1>7, <1>8, <1>9, <1>14, <1>16
  <2>4. Prolongs(spells, spells', now)
    BY <1>2, <1>8, <1>11, <2>2, <2>3 DEF Prolongs
  <2>5. LastSpell(spells', fault', now')
    BY <1>8, <1>9, <1>11, <1>14, <2>2, <2>3 DEF LastSpell
  <2>6. ASSUME NEW x \in PingTargets PROVE Prevailed(spells', now, met'[now][x], PingsTake)
    <3>1. CASE x \in before
      <4>1. met'[now][x] = fault
        BY <1>3, <1>10, <3>1
      <4>2. N \in 1 .. N + 1 /\ spells'[N] = spells[N] /\ spells[N].from <= now + PingsTake
        BY <1>2, <1>5, <1>11, <2>2
      <4>3. now <= spells'[N + 1].from
        BY <1>8, <2>2, <2>3
      <4> QED BY <1>11, <2>2, <4>1, <4>2, <4>3 DEF Prevailed
    <3>2. CASE x \notin before
      <4>1. met'[now][x] = then
        BY <1>3, <1>10, <1>13, <3>2
      <4>2. N + 1 \in 1 .. N + 1 /\ ~(N + 1 < N + 1)
        BY <1>11
      <4>3. spells'[N + 1].what = then /\ spells'[N + 1].from <= now + PingsTake
        BY <1>12, <1>14, <2>2, <2>3, <3>2
      <4> QED BY <2>2, <4>1, <4>2, <4>3 DEF Prevailed
    <3> QED BY <3>1, <3>2
  <2>7. Follows(spells', now, now', Slowest)
    BY <1>7, <2>3 DEF Follows
  <2> QED BY <2>4, <2>5, <2>6, <2>7
<1>17. CASE nap # 0
  <2>1. spells' = Append(Append(spells, asleep), woken)
    <3>1. spells' = spells \o (IF nap = 0 THEN << >> ELSE <<asleep>>) \o <<woken>>
      BY <1>1, <1>17, Zenon DEF Disturbs, asleep, woken
    <3>2. spells' = spells \o <<asleep>> \o <<woken>>
      BY <1>17, <3>1
    <3>3. spells \o <<asleep>> = Append(spells, asleep) /\ Append(spells, asleep) \in Seq(SpellRecords)
      BY <1>11, <1>14
    <3> DEFINE first == spells \o <<asleep>>
    <3>4. spells' = first \o <<woken>>
      BY <3>2
    <3>5. first \in Seq(SpellRecords) /\ first = Append(spells, asleep)
      BY <3>3
    <3> HIDE DEF first
    <3>6. first \o <<woken>> = Append(first, woken)
      BY <1>14, <3>5
    <3> QED BY <3>4, <3>5, <3>6
  <2>2. /\ spells' \in Seq(SpellRecords) /\ Len(spells') = N + 2
        /\ spells'[N + 1] = asleep /\ spells'[N + 2] = woken
        /\ \A i \in 1 .. N : spells'[i] = spells[i]
    BY <1>11, <1>14, <2>1
  <2>3. Prolongs(spells, spells', now)
    BY <1>2, <1>8, <1>11, <1>14, <2>2 DEF Prolongs
  <2>4. LastSpell(spells', fault', now')
    BY <1>2, <1>7, <1>8, <1>9, <1>11, <1>14, <2>2 DEF LastSpell
  <2>5. N + 1 \in 1 .. N + 2 /\ N + 1 < N + 2 /\ (N + 1) + 1 = N + 2 /\ N \in 1 .. N + 2
    BY <1>11
  <2>6. ASSUME NEW x \in PingTargets PROVE Prevailed(spells', now, met'[now][x], PingsTake)
    <3>1. CASE x \in before
      <4>1. met'[now][x] = fault
        BY <1>3, <1>10, <3>1
      <4>2. spells'[N] = spells[N] /\ spells[N].from <= now + PingsTake
        BY <1>2, <1>5, <1>11, <2>2
      <4>3. now <= spells'[N + 1].from
        BY <1>8, <1>14, <2>2
      <4> QED BY <1>11, <2>2, <2>5, <4>1, <4>2, <4>3 DEF Prevailed
    <3>2. CASE x \notin before
      <4>1. spells'[N + 1].what = "asleep" /\ spells'[N + 1].from <= now + PingsTake
        BY <1>12, <1>14, <2>2, <3>2
      <4>2. now <= spells'[(N + 1) + 1].from
        BY <1>2, <1>8, <1>14, <2>2, <2>5
      <4> QED BY <2>2, <2>5, <4>1, <4>2 DEF Prevailed
    <3> QED BY <3>1, <3>2
  <2>7. Follows(spells', now, now', Slowest)
    <3>1. spells'[N + 1].what = "asleep" /\ spells'[N + 1].from = at /\ spells'[N + 2].from = at + nap
      BY <1>14, <2>2
    <3>2. now <= at /\ at <= now + Slowest /\ now' <= at + nap + Slowest /\ now < now'
      BY <1>2, <1>5, <1>7, <1>8, <1>9
    <3>3. spells'[(N + 1) + 1] = spells'[N + 2]
      BY <2>5
    <3> QED BY <2>2, <2>5, <3>1, <3>2, <3>3 DEF Follows
  <2> QED BY <2>3, <2>4, <2>6, <2>7
<1> QED BY <1>15, <1>16, <1>17

LEMMA SpellsKept ==
    ASSUME IInv, SpellsInv, [Next]_vars
    PROVE  SpellsInv'
<1>1. CASE UNCHANGED vars
  BY <1>1 DEF vars, SpellsInv, LastSpell, PingsPrevailed, TicksFollow, Ticks, PingTargets,
              PingsTake, Slowest, DnsTargets
<1>2. CASE Cycle
  <2>1. /\ Prolongs(spells, spells', now)
        /\ LastSpell(spells', fault', now')
        /\ \A x \in PingTargets : Prevailed(spells', now, met'[now][x], PingsTake)
        /\ Follows(spells', now, now', Slowest)
    BY <1>2, CycleSpells DEF IInv, SpellsInv
  <2>2. PingTargets' = PingTargets /\ PingsTake' = PingsTake /\ Slowest' = Slowest
    BY <1>2 DEF Cycle, PingTargets, PingsTake, Slowest, DnsTargets
  <2>3. \A t \in DOMAIN met : t \in 1 .. now - 1 /\ PingTargets \subseteq DOMAIN met[t]
    BY DEF IInv, HistoryInv, Met
  <2>4. PICK calls : met' = Later(met, now, calls)
    BY <1>2, CycleIs DEF IInv
  <2>5. now \in Nat
    BY DEF IInv, StateInv
  <2>6. DOMAIN met' = DOMAIN met \cup {now} /\ \A t \in DOMAIN met : t # now /\ met'[t] = met[t]
    BY <2>3, <2>4, <2>5 DEF Later
  <2>7. ASSUME NEW t \in DOMAIN met', NEW x \in PingTargets
        PROVE  Prevailed(spells', t, met'[t][x], PingsTake)
    <3>1. CASE t = now
      BY <2>1, <3>1
    <3>2. CASE t \in DOMAIN met
      <4>1. Prevailed(spells, t, met[t][x], PingsTake)
        BY <3>2 DEF SpellsInv, PingsPrevailed, Ticks
      <4>2. t \in Nat /\ t <= now
        BY <2>3, <2>5, <3>2
      <4>3. Prevailed(spells', t, met[t][x], PingsTake)
        BY <2>1, <2>5, <4>1, <4>2, PrevailedKept
      <4> QED BY <2>6, <3>2, <4>3
    <3> QED BY <2>6, <3>1, <3>2
  <2>8. ASSUME NEW t \in DOMAIN met'
        PROVE  \E u \in DOMAIN met' \cup {now'} : Follows(spells', t, u, Slowest)
    <3>1. CASE t = now
      BY <2>1, <3>1
    <3>2. CASE t \in DOMAIN met
      <4>1. PICK u \in DOMAIN met \cup {now} : Follows(spells, t, u, Slowest)
        BY <3>2 DEF SpellsInv, TicksFollow, Ticks
      <4>2. Follows(spells', t, u, Slowest)
        BY <2>1, <4>1, FollowsKept
      <4> QED BY <2>6, <4>2
    <3> QED BY <2>6, <3>1, <3>2
  <2>9. 1 \in DOMAIN met'
    BY <2>6 DEF SpellsInv, Ticks
  <2> QED BY <2>1, <2>2, <2>7, <2>8, <2>9 DEF SpellsInv, PingsPrevailed, TicksFollow, Ticks
<1> QED BY <1>1, <1>2 DEF Next

-----------------------------------------------------------------------------
(* An outage in the ribbon                                                   *)
LEMMA LostMeans ==
    /\ "asleep" \notin Lost
    /\ \A what \in Lost : \A x \in Anchors : what \in Downs(x)
<1>1. "asleep" \notin Lost
  BY FaultsAre DEF Lost
<1>2. Reply(1).is = "reply" /\ Reply(Fast).is = "reply" /\ Reply(Congested).is = "reply"
  BY DEF Reply
<1>3. \A what \in DOMAIN Encounters : Encounters[what].anchor.is # "reply" => what \in Dark \cup NoIcmp
  BY <1>2, FaultsAre, EncountersAre DEF Meets, Dark, NoIcmp
<1>4. \A what \in Lost : what \in Dark \cup NoIcmp
  BY <1>3 DEF Lost
<1> QED BY <1>1, <1>4, DownsAre

LEMMA SpellTyped ==
    ASSUME SpellsInv, NEW i \in 1 .. Len(spells)
    PROVE  /\ DOMAIN spells = 1 .. Len(spells) /\ Len(spells) \in Nat
           /\ spells[i].from \in Nat
           /\ i < Len(spells) => spells[i + 1].from \in Nat
<1>1. spells \in Seq(SpellRecords) /\ Len(spells) \in Nat /\ DOMAIN spells = 1 .. Len(spells)
  BY DEF SpellsInv, LastSpell
<1>2. \A j \in 1 .. Len(spells) : spells[j].from \in Nat
  <2>1. \A j \in 1 .. Len(spells) : spells[j] \in SpellRecords
    BY <1>1, ElementOfSeq
  <2> QED BY <2>1 DEF SpellRecords
<1>3. i < Len(spells) => i + 1 \in 1 .. Len(spells)
  BY <1>1
<1> QED BY <1>1, <1>2, <1>3

(* Unless the host slept, no time as long as the slowest tick is without one.*)
LEMMA TickIn ==
    ASSUME IInv, SpellsInv, NEW p \in Nat \ {0}, NEW q \in Nat, Throughout(Lost, p, q),
           NEW a \in Nat, p <= a, a + Slowest - 1 <= q, a + Slowest - 1 < now
    PROVE  \E t \in Ticks : a <= t /\ t <= a + Slowest - 1
<1>1. now \in Nat /\ Slowest \in Nat /\ 2 <= Slowest
  BY WaitsTyped DEF IInv, StateInv
<1>2. \A t \in Ticks : t \in Nat /\ t < now
  BY <1>1 DEF IInv, HistoryInv, Met, Ticks
<1> DEFINE T == {t \in Ticks \cup {now} : t <= a}
<1>3. T \in SUBSET Int /\ T # {} /\ \A t \in T : t <= a
  <2>1. 1 \in Ticks \cup {now} /\ 1 <= a
    BY DEF SpellsInv
  <2> QED BY <1>1, <1>2, <2>1
<1>4. PICK t \in T : \A s \in T : s <= t
  <2>1. a \in Int
    OBVIOUS
  <2> HIDE DEF T
  <2> QED BY <1>3, <2>1, Largest
<1>5. t \in Ticks /\ t \in Nat /\ t <= a
  BY <1>1, <1>2, <1>4
<1>6. CASE t = a
  BY <1>1, <1>5, <1>6
<1>7. CASE t < a
  <2>1. PICK u \in Ticks \cup {now} : Follows(spells, t, u, Slowest)
    BY <1>5 DEF SpellsInv, TicksFollow
  <2>2. u \in Nat /\ t < u
    BY <1>1, <1>2, <2>1 DEF Follows
  <2>3. a < u
    <3>1. u \notin T
      BY <1>4, <1>5, <2>2
    <3> QED BY <1>5, <2>2, <3>1
  <2>4. u <= a + Slowest - 1
    <3>1. CASE u <= t + Slowest
      BY <1>1, <1>5, <1>7, <2>2, <3>1
    <3>2. CASE ~(u <= t + Slowest)
      <4>1. PICK i \in 1 .. Len(spells) :
               /\ i < Len(spells) /\ spells[i].what = "asleep"
               /\ t <= spells[i].from /\ spells[i].from <= t + Slowest
               /\ u <= spells[i + 1].from + Slowest
        BY <2>1, <3>2 DEF Follows
      <4>2. spells[i].from \in Nat /\ spells[i + 1].from \in Nat /\ i \in DOMAIN spells
        BY <4>1, SpellTyped
      <4>3. spells[i].from <= q
        BY <1>1, <1>5, <1>7, <4>1, <4>2
      <4>4. ~(p <= spells[i + 1].from)
        BY <4>1, <4>2, <4>3, LostMeans DEF Throughout
      <4> QED BY <1>1, <2>2, <4>1, <4>2, <4>4
    <3> QED BY <3>1, <3>2
  <2>5. u \in Ticks
    BY <1>1, <2>2, <2>4
  <2> QED BY <2>2, <2>3, <2>4, <2>5
<1> QED BY <1>5, <1>6, <1>7

LEMMA PingIsLost ==
    ASSUME IInv, SpellsInv, NEW p \in Nat, NEW q \in Nat, Throughout(Lost, p, q),
           NEW anchor \in Anchors, NEW t \in Ticks, p <= t, t + PingsTake <= q
    PROVE  Asks(t, anchor) /\ met[t][anchor] \in Lost
<1>1. anchor \in PingTargets
  BY DEF PingTargets
<1>2. Asks(t, anchor) /\ t \in Nat
  BY <1>1 DEF IInv, HistoryInv, Met, Ticks, Asks
<1>3. PICK i \in 1 .. Len(spells) :
         /\ spells[i].what \in {met[t][anchor], "asleep"}
         /\ spells[i].from <= t + PingsTake
         /\ i < Len(spells) => t <= spells[i + 1].from
  BY <1>1 DEF SpellsInv, PingsPrevailed, Prevailed
<1>4. /\ i \in DOMAIN spells /\ spells[i].from \in Nat
      /\ i < Len(spells) => spells[i + 1].from \in Nat
  BY SpellTyped
<1>5. PingsTake \in Nat
  BY WaitsTyped DEF IInv, StateInv
<1>6. spells[i].from <= q /\ (i < Len(spells) => p <= spells[i + 1].from)
  BY <1>2, <1>3, <1>4, <1>5
<1>7. spells[i].what \in Lost
  BY <1>4, <1>6 DEF Throughout
<1> QED BY <1>2, <1>3, <1>7, LostMeans

LEMMA SameCell ==
    ASSUME NEW w \in Nat \ {0}, NEW p \in Int, NEW t \in Int
    PROVE  /\ FloorTo(p, w) \in Int /\ FloorTo(p, w) <= p /\ p < FloorTo(p, w) + w
           /\ FloorTo(t, w) = FloorTo(p, w) <=> (FloorTo(p, w) <= t /\ t < FloorTo(p, w) + w)
<1> DEFINE k == p \div w
<1>1. k \in Int /\ k * w <= p /\ p < k * w + w
  BY DivFacts
<1>2. t \div w \in Int /\ (t \div w) * w <= t /\ t < (t \div w) * w + w
  BY DivFacts
<1>3. FloorTo(p, w) = k * w /\ FloorTo(t, w) = (t \div w) * w
  BY DEF FloorTo
<1> HIDE DEF k
<1>4. k * w \in Int
  BY <1>1
<1>5. k * w <= t /\ t < k * w + w => FloorTo(t, w) = k * w
  BY <1>1, FloorIs
<1> QED BY <1>1, <1>2, <1>3, <1>4, <1>5

(* A set that reaches into each of W disjoint intervals has W elements.      *)
LEMMA OneInEach ==
    ASSUME NEW rows, NEW g, IsFiniteSet(g), \A i \in g : rows[i].ts \in Int,
           NEW W \in Nat \ {0}, NEW S \in Nat, NEW p \in Int,
           \A k \in 0 .. W - 1 : \E i \in g : p + k * S <= rows[i].ts /\ rows[i].ts <= p + k * S + S - 1
    PROVE  W <= Cardinality(g)
<1> DEFINE K == 0 .. W - 1
           f == [k \in K |-> CHOOSE i \in g : p + k * S <= rows[i].ts /\ rows[i].ts <= p + k * S + S - 1]
<1>1. ASSUME NEW k \in K
      PROVE  f[k] \in g /\ p + k * S <= rows[f[k]].ts /\ rows[f[k]].ts <= p + k * S + S - 1
  BY Zenon
<1>2. ASSUME NEW k \in K, NEW l \in K, k < l PROVE f[k] # f[l]
  <2>1. f[k] \in g /\ f[l] \in g /\ rows[f[k]].ts <= p + k * S + S - 1 /\ p + l * S <= rows[f[l]].ts
    BY <1>1
  <2>2. rows[f[k]].ts \in Int /\ rows[f[l]].ts \in Int
    BY <2>1
  <2> HIDE DEF f
  <2>3. k * S + S <= l * S /\ k * S \in Int /\ l * S \in Int
    <3>1. k + 1 \in Nat /\ l \in Nat /\ k + 1 <= l
      BY <1>2
    <3>2. S * (k + 1) <= S * l
      BY <3>1, TimesGrows
    <3>3. S * (k + 1) = k * S + S /\ S * l = l * S
      OBVIOUS
    <3> QED BY <3>2, <3>3
  <2>4. rows[f[k]].ts < rows[f[l]].ts
    BY <2>1, <2>2, <2>3
  <2> QED BY <2>2, <2>4
<1>3. f \in [K -> g] /\ DOMAIN f = K
  <2>1. \A k \in K : f[k] \in g
    BY <1>1
  <2> QED BY <2>1
<1> HIDE DEF f
<1>4. \A k, l \in K : f[k] = f[l] => k = l
  <2>1. \A k, l \in K : k < l \/ l < k \/ k = l
    OBVIOUS
  <2> HIDE DEF K
  <2> QED BY <1>2, <2>1
<1>5. f \in Injection(K, g)
  BY <1>3, <1>4 DEF Injection, IsInjective
<1>6. Cardinality(K) <= Cardinality(g)
  BY <1>5, FS_Injection
<1>7. Cardinality(K) = W
  <2>1. 0 \in Int /\ W - 1 \in Int
    OBVIOUS
  <2>2. Cardinality(0 .. W - 1) = IF 0 > W - 1 THEN 0 ELSE W - 1 - 0 + 1
    BY <2>1, FS_Interval
  <2> QED BY <2>2
<1> QED BY <1>6, <1>7

LEMMA NilIsWorst ==
    ASSUME NEW rows, NEW n \in Nat, NEW in \in SUBSET (1 .. n), NEW width, 0 \in Rates(rows, in, width)
    PROVE  Worst(rows, in, width) = 0
<1>1. Worst(rows, in, width) \in Int /\ 0 <= Worst(rows, in, width) /\ Worst(rows, in, width) <= 0
  <2>1. IsWorst(rows, in, width, Worst(rows, in, width))
    BY WorstOf
  <2> QED BY <2>1 DEF IsWorst
<1> QED BY <1>1

LEMMA NoneSucceeded ==
    ASSUME NEW rows, NEW g, IsFiniteSet(g), Cardinality(g) \in Nat \ {0}, \A i \in g : ~rows[i].success
    PROVE  RateOf(rows, g) = 0
<1>1. {i \in g : rows[i].success} = {}
  OBVIOUS
<1>2. Cardinality({i \in g : rows[i].success}) = 0
  BY <1>1, FS_EmptySet
<1>3. RateOf(rows, g) = Rate(0, Cardinality(g))
  BY <1>2 DEF RateOf
<1> QED BY <1>3, RateOfNone

(* The cell that the outage fills: it has the rows of the interval and no    *)
(* others, and none of them succeeded.                                       *)
LEMMA OutageShown ==
    ASSUME IInv, SpellsInv, NEW anchor \in Anchors, NEW query \in Queries, NEW p \in 1 .. now - 1,
           NEW bucket, bucket = BucketMs(query.from, query.to),
           NEW sub, sub = Min({bucket, WorstSub}),
           NEW end, end = Min({FloorTo(p, bucket) + bucket, FloorTo(p, sub) + sub}),
           p \in {FloorTo(p, bucket), FloorTo(p, sub)},
           end - p >= WorstMinSamples * Slowest,
           query.from <= p, end - 1 <= query.to, end <= now,
           Throughout(Lost, p, end - 1 + PingsTake)
    PROVE  \E point \in Ribbon(anchor, query) :
              point.bucket_ts = FloorTo(p, bucket) /\ point.worst = 0
<1> DEFINE rows == RowsFor(stored, anchor)
           n == Len(rows)
           queried == Queried(rows, query)
           W == WorstMinSamples
           S == Slowest
<1>1. /\ bucket \in Nat \ {0} /\ sub \in Nat \ {0} /\ SubMs(bucket) = sub
  BY WidthsAre
<1>2. /\ now \in Nat /\ p \in Nat \ {0} /\ S \in Nat /\ 2 <= S /\ PingsTake \in Nat
      /\ W \in Nat \ {0}
  BY WaitsTyped, SeriesTyped DEF IInv, StateInv
<1>3. /\ n \in Nat /\ DOMAIN rows = 1 .. n
      /\ \A i \in 1 .. n : /\ rows[i].ts \in Ticks /\ rows[i].ts \in Int
                           /\ Says(anchor, rows[i], met[rows[i].ts][anchor])
      /\ \A t \in Ticks : Asks(t, anchor) => \E i \in 1 .. n : rows[i].ts = t
  BY <1>2, RowsTell DEF IInv
<1>4. query.from \in Int /\ query.to \in Int
  <2>1. query \in [from : Int, to : Int]
    BY DiagnosisConstants DEF DiagnosisConstants
  <2> QED BY <2>1
<1> HIDE DEF rows, n, W, S
<1> DEFINE B == FloorTo(p, bucket)
           F == FloorTo(p, sub)
<1>5. /\ B \in Int /\ B <= p /\ p < B + bucket
      /\ F \in Int /\ F <= p /\ p < F + sub
  <2>1. p \in Int /\ bucket \in Nat \ {0} /\ sub \in Nat \ {0} /\ 0 \in Int
    BY <1>1, <1>2
  <2> QED BY <2>1, SameCell, Zenon
<1>6. \A t \in Int : /\ FloorTo(t, bucket) = B <=> (B <= t /\ t < B + bucket)
                     /\ FloorTo(t, sub) = F <=> (F <= t /\ t < F + sub)
  <2> SUFFICES ASSUME NEW t \in Int
               PROVE  /\ FloorTo(t, bucket) = B <=> (B <= t /\ t < B + bucket)
                      /\ FloorTo(t, sub) = F <=> (F <= t /\ t < F + sub)
    OBVIOUS
  <2>1. p \in Int /\ bucket \in Nat \ {0} /\ sub \in Nat \ {0}
    BY <1>1, <1>2
  <2>2. FloorTo(t, bucket) = B <=> (B <= t /\ t < B + bucket)
    BY <2>1, SameCell, Zenon
  <2>3. FloorTo(t, sub) = F <=> (F <= t /\ t < F + sub)
    BY <2>1, SameCell, Zenon
  <2> QED BY <2>2, <2>3, Zenon
<1>7. p \in {B, F} /\ end = Min({B + bucket, F + sub})
  BY Zenon
<1> HIDE DEF B, F
<1>8. end \in Int /\ end \in {B + bucket, F + sub} /\ end <= B + bucket /\ end <= F + sub /\ p < end
  <2>1. B + bucket \in Int /\ F + sub \in Int
    BY <1>1, <1>5
  <2>2. end \in {B + bucket, F + sub} /\ end <= B + bucket /\ end <= F + sub
    <3> DEFINE m == Min({B + bucket, F + sub})
    <3>1. m \in {B + bucket, F + sub} /\ m <= B + bucket /\ m <= F + sub
      BY <2>1, TwoOf, Zenon
    <3>2. end = m
      BY <1>7
    <3> QED BY <3>1, <3>2, Zenon
  <2> QED BY <1>1, <1>5, <2>1, <2>2
<1>9. \A t \in Int : FloorTo(t, bucket) = B /\ FloorTo(t, sub) = F <=> p <= t /\ t < end
  <2> SUFFICES ASSUME NEW t \in Int
               PROVE  B <= t /\ t < B + bucket /\ F <= t /\ t < F + sub <=> p <= t /\ t < end
    BY <1>6, Zenon
  <2>1. bucket \in Int /\ sub \in Int /\ p \in Int
    BY <1>1, <1>2
  <2> QED BY <1>5, <1>7, <1>8, <2>1
<1> DEFINE in == {j \in queried : FloorTo(rows[j].ts, bucket) = B}
           g == {j \in in : FloorTo(rows[j].ts, sub) = F}
<1>10. \A i : i \in g <=> i \in 1 .. n /\ p <= rows[i].ts /\ rows[i].ts < end
  <2>1. \A i \in 1 .. n : p <= rows[i].ts /\ rows[i].ts < end
                          => query.from <= rows[i].ts /\ rows[i].ts <= query.to
    BY <1>2, <1>3, <1>4, <1>8
  <2> QED BY <1>3, <1>9, <2>1 DEF Queried
<1>11. in \in SUBSET (1 .. n) /\ g \in SUBSET in /\ IsFiniteSet(g) /\ queried \in SUBSET (1 .. n)
  <2>1. queried \in SUBSET (1 .. n)
    BY <1>3 DEF Queried
  <2>2. IsFiniteSet(1 .. n)
    <3>1. 1 \in Int /\ n \in Int
      BY <1>3
    <3> QED BY <3>1, FS_Interval
  <2> HIDE DEF queried
  <2>3. in \in SUBSET (1 .. n) /\ g \in SUBSET in /\ g \in SUBSET (1 .. n)
    BY <2>1
  <2> HIDE DEF in, g
  <2> QED BY <2>1, <2>2, <2>3, FS_Subset
<1> DEFINE q == end - 1 + PingsTake
<1>12. q \in Nat /\ Throughout(Lost, p, q) /\ end - 1 <= q
  BY <1>2, <1>8
<1> HIDE DEF q
<1>13. ASSUME NEW t \in Ticks, p <= t, t < end PROVE Asks(t, anchor) /\ met[t][anchor] \in Lost
  <2>1. t + PingsTake <= q
    <3>1. t \in Int
      BY DEF IInv, HistoryInv, Met, Ticks
    <3> QED BY <1>2, <1>8, <1>13, <3>1 DEF q
  <2>2. p \in Nat
    BY <1>2
  <2> QED BY <1>12, <1>13, <2>1, <2>2, PingIsLost
<1>14. \A i \in g : ~rows[i].success
  <2> SUFFICES ASSUME NEW i \in g PROVE ~rows[i].success
    OBVIOUS
  <2>1. i \in 1 .. n /\ p <= rows[i].ts /\ rows[i].ts < end
    BY <1>10
  <2>2. rows[i].ts \in Ticks /\ Says(anchor, rows[i], met[rows[i].ts][anchor])
    BY <1>3, <2>1
  <2>3. met[rows[i].ts][anchor] \in Downs(anchor)
    BY <1>13, <2>1, <2>2, LostMeans
  <2> QED BY <2>2, <2>3 DEF Says
<1>15. W * S <= end - p
  BY <1>2, <1>8 DEF W, S
<1>16. ASSUME NEW k \in 0 .. W - 1
       PROVE  \E i \in g : p + k * S <= rows[i].ts /\ rows[i].ts <= p + k * S + S - 1
  <2> DEFINE a == p + k * S
  <2>1. k * S + S <= W * S /\ k * S \in Nat /\ W * S \in Nat
    <3>1. k + 1 \in Nat /\ k + 1 <= W /\ k \in Nat
      BY <1>2
    <3>2. S * (k + 1) <= S * W
      BY <1>2, <3>1, TimesGrows
    <3>3. S * (k + 1) = k * S + S /\ S * W = W * S /\ k * S \in Nat /\ W * S \in Nat
      BY <1>2, <3>1
    <3> QED BY <3>2, <3>3
  <2>2. a \in Nat /\ p <= a /\ a + S - 1 <= end - 1
    BY <1>2, <1>8, <1>15, <2>1
  <2> HIDE DEF a
  <2>3. a + S - 1 <= q /\ a + S - 1 < now
    BY <1>2, <1>8, <1>12, <2>2
  <2>4. PICK t \in Ticks : a <= t /\ t <= a + S - 1
    BY <1>2, <1>12, <2>2, <2>3, TickIn DEF S
  <2>5. t \in Int
    BY DEF IInv, HistoryInv, Met, Ticks
  <2>6. p <= t /\ t < end
    BY <1>2, <1>8, <2>2, <2>4, <2>5
  <2>7. PICK i \in 1 .. n : rows[i].ts = t
    BY <1>3, <1>13, <2>6
  <2>8. i \in g
    BY <1>10, <2>6, <2>7
  <2> QED BY <2>4, <2>7, <2>8 DEF a
<1> HIDE DEF in, g
<1>17. W <= Cardinality(g)
  <2>1. \A i \in g : rows[i].ts \in Int
    BY <1>3, <1>11
  <2>2. W \in Nat \ {0} /\ S \in Nat /\ p \in Int
    BY <1>2
  <2> QED BY <1>11, <1>16, <2>1, <2>2, OneInEach, Zenon
<1>18. Cardinality(g) \in Nat \ {0} /\ Counts(Cardinality(g))
  <2>1. Cardinality(g) \in Nat
    BY <1>11, FS_CardinalityType
  <2> QED BY <1>2, <1>17, <2>1 DEF Counts, W
<1>19. PICK i \in g : TRUE
  <2>1. g # {}
    BY <1>18, FS_EmptySet
  <2> QED BY <2>1
<1>20. 0 \in Rates(rows, in, sub)
  <2>1. RateOf(rows, g) = 0
    BY <1>11, <1>14, <1>18, NoneSucceeded
  <2>2. i \in in /\ FloorTo(rows[i].ts, sub) = F
    BY <1>19 DEF g
  <2>3. g \in Cells(rows, in, sub)
    BY <2>2 DEF Cells, g
  <2> QED BY <1>18, <2>1, <2>3 DEF Rates
<1>21. Worst(rows, in, sub) = 0
  BY <1>3, <1>11, <1>20, NilIsWorst
<1>22. i \in queried /\ FloorTo(rows[i].ts, bucket) = B
  BY <1>11, <1>19 DEF in
<1>23. anchor \in DOMAIN stored
  <2> SUFFICES ASSUME anchor \notin DOMAIN stored PROVE FALSE
    OBVIOUS
  <2>1. rows = << >>
    BY DEF RowsFor, rows
  <2>2. n = 0
    BY <2>1 DEF n
  <2> QED BY <1>11, <1>22, <2>2
<1>24. \E point \in Ribbon(anchor, query) :
          /\ point.bucket_ts = B
          /\ point.worst = Worst(rows, {j \in queried : FloorTo(rows[j].ts, bucket) = B}, SubMs(bucket))
  <2>1. LET b == FloorTo(rows[i].ts, bucket)
        IN  anchor \in DOMAIN stored =>
               \E point \in Ribbon(anchor, query) :
                  /\ point.bucket_ts = b
                  /\ point.worst = Worst(rows, {j \in queried : FloorTo(rows[j].ts, bucket) = b}, SubMs(bucket))
    BY <1>22, RibbonIs, Zenon DEF rows
  <2> QED BY <1>22, <1>23, <2>1
<1> QED BY <1>1, <1>21, <1>24 DEF in, B

(* "The ribbon must colour by the worst sub-bucket" (series.py:84): whatever *)
(* window the dashboard asks for, pings lost throughout a part of a bucket   *)
(* that has room for WorstMinSamples of the slowest ticks leave that bucket  *)
(* a worst rate of 0, whatever else those ticks had to wait for.             *)
THEOREM RibbonShows == Spec => []RibbonShowsOutage
<1>1. Init => SpellsInv
  BY SpellsStart
<1>2. IInv /\ SpellsInv /\ [Next]_vars => SpellsInv'
  BY SpellsKept
<1>3. IInv /\ SpellsInv => RibbonShowsOutage
  <2> SUFFICES ASSUME IInv, SpellsInv, NEW anchor \in Anchors, NEW query \in Queries, NEW p \in 1 .. now - 1
               PROVE  LET bucket == BucketMs(query.from, query.to)
                          sub == Min({bucket, WorstSub})
                          end == Min({FloorTo(p, bucket) + bucket, FloorTo(p, sub) + sub})
                      IN  /\ p \in {FloorTo(p, bucket), FloorTo(p, sub)}
                          /\ end - p >= WorstMinSamples * Slowest
                          /\ query.from <= p /\ end - 1 <= query.to /\ end <= now
                          /\ Throughout(Lost, p, end - 1 + PingsTake)
                          => \E point \in Ribbon(anchor, query) :
                                point.bucket_ts = FloorTo(p, bucket) /\ point.worst = 0
    BY Zenon DEF RibbonShowsOutage
  <2> QED BY OutageShown, Zenon
<1> QED BY <1>1, <1>2, <1>3, DiagnosisInvariant, PTL DEF Spec

-----------------------------------------------------------------------------
(* The marks of changed answers                                              *)
NameOf(i) == QueryNames[((i - 1) % Len(QueryNames)) + 1]

\* The i-th query of a resolver was answered with the address.
Heard(r, rows, hist, i, rrset) ==
    LET outcome == Outcome(r, hist[rows[i].ts][r])
    IN  outcome.is = "answer" /\ outcome.rrset = rrset

(* A query and what it leaves in the probe.                                  *)
LEMMA ResolutionIs ==
    ASSUME NEW r \in Resolvers, NEW what \in DOMAIN Encounters
    PROVE  LET name == NextName(probes[r])
               last == probes[r].last
               outcome == Outcome(r, what)
               answered == outcome.is = "answer"
               given == IF outcome.rrset = Genuine THEN {name} ELSE Forged
               after == Resolution(r, what)
           IN  /\ answered => outcome.rrset \in {Genuine, Forged}
               /\ after.probe.index = probes[r].index + 1
               /\ ~answered => after.sample.code # AnswerChanged /\ after.probe.last = last
               /\ answered =>
                     /\ after.sample.code = AnswerChanged
                            <=> name \in DOMAIN last /\ last[name] # given
                     /\ after.probe.last =
                           [n \in DOMAIN last \cup {name} |-> IF n = name THEN given ELSE last[n]]
<1> DEFINE name == NextName(probes[r])
           last == probes[r].last
           outcome == Outcome(r, what)
           given == IF outcome.rrset = Genuine THEN {name} ELSE Forged
           asked == IF outcome.is = "answer" /\ outcome.rrset = Genuine
                    THEN [outcome EXCEPT !.rrset = {name}] ELSE outcome
           sample == ResolveOnce(name, asked, last)
           after == Resolution(r, what)
<1>1. /\ after.sample = sample
      /\ after.probe.index = probes[r].index + 1
      /\ after.probe.last = Remember(name, asked, last)
  BY Zenon DEF Resolution, Resolve
<1>2. \/ outcome = Raised("LifetimeTimeout") \/ outcome = Raised("NoNameservers")
      \/ outcome = Answer(Genuine) \/ outcome = Answer(Forged)
  <2>1. outcome \in {Encounters[what].forwarder, Encounters[what].resolver}
    BY OutcomeIs
  <2> HIDE DEF outcome
  <2> QED BY <2>1, FaultsAre, EncountersAre DEF Meets
<1> HIDE DEF outcome, name, last, after
<1>3. CASE outcome = Raised("LifetimeTimeout") \/ outcome = Raised("NoNameservers")
  <2>1. outcome.is \in {"LifetimeTimeout", "NoNameservers"}
    BY <1>3 DEF Raised
  <2>2. outcome.is # "answer" /\ asked = outcome
    BY <2>1
  <2>3. sample = Failed(Nothing)
    BY <2>1, <2>2 DEF ResolveOnce
  <2>4. Remember(name, asked, last) = last
    BY <2>2 DEF Remember, Answered
  <2> HIDE DEF sample, asked
  <2>5. after.sample.code = Nothing
    <3>1. Failed(Nothing).code = Nothing
      BY DEF Failed, Sample
    <3> QED BY <1>1, <2>3, <3>1
  <2>6. Nothing # AnswerChanged
    BY DEF Nothing, AnswerChanged
  <2> QED BY <1>1, <2>2, <2>4, <2>5, <2>6 DEF after, name, last, outcome
<1>4. CASE outcome = Answer(Genuine) \/ outcome = Answer(Forged)
  <2>1. \A rrset : Answer(rrset).is = "answer" /\ Answer(rrset).ms = 5 /\ Answer(rrset).rrset = rrset
    BY DEF Answer
  <2>2. LET other == [Answer(Genuine) EXCEPT !.rrset = {name}]
        IN  other.is = "answer" /\ other.ms = 5 /\ other.rrset = {name}
    BY Zenon DEF Answer
  <2>3. Genuine # Forged
    BY DEF Genuine, Forged
  <2>4. /\ asked.is = "answer" /\ asked.ms = 5 /\ asked.rrset = given
        /\ outcome.is = "answer" /\ outcome.rrset \in {Genuine, Forged}
    <3>1. CASE outcome = Answer(Forged)
      BY <2>1, <2>3, <3>1
    <3>2. CASE outcome = Answer(Genuine)
      <4>1. asked = [Answer(Genuine) EXCEPT !.rrset = {name}]
        BY <2>1, <3>2
      <4>2. outcome.rrset = Genuine /\ given = {name}
        BY <2>1, <3>2
      <4> HIDE DEF asked, given
      <4> QED BY <2>1, <2>2, <3>2, <4>1, <4>2, Zenon
    <3> QED BY <1>4, <3>1, <3>2
  <2> HIDE DEF asked
  <2>5. asked.rrset # {}
    BY <2>4 DEF Forged
  <2> HIDE DEF given
  <2> DEFINE code == IF name \in DOMAIN last /\ last[name] # given THEN AnswerChanged ELSE NoError
  <2>6. sample = Sample(TRUE, 5, code)
    BY <2>4, <2>5 DEF ResolveOnce, Answered, Changed
  <2>7. Remember(name, asked, last) =
           [n \in DOMAIN last \cup {name} |-> IF n = name THEN given ELSE last[n]]
    BY <2>4, <2>5, Zenon DEF Remember, Answered
  <2> HIDE DEF sample
  <2>8. after.sample.code = code
    <3> HIDE DEF code
    <3>1. Sample(TRUE, 5, code).code = code
      BY DEF Sample
    <3>2. after.sample = Sample(TRUE, 5, code)
      BY <1>1, <2>6
    <3> QED BY <3>1, <3>2, Zenon
  <2>9. after.sample.code = AnswerChanged <=> name \in DOMAIN last /\ last[name] # given
    <3>1. NoError # AnswerChanged
      BY DEF NoError, AnswerChanged
    <3> QED BY <2>8, <3>1
  <2> QED BY <1>1, <2>4, <2>7, <2>9 DEF after, name, last, given, outcome
<1> QED BY <1>2, <1>3, <1>4

(* What a resolver's rows and its probe have to do with each other.          *)
Remembers(r, rows, hist, last) ==
    \A j \in 1 .. Len(rows) :
       (\A k \in j .. Len(rows) : Heard(r, rows, hist, k, Genuine))
          => NameOf(j) \in DOMAIN last /\ last[NameOf(j)] = {NameOf(j)}

\* What it remembers of a name it was told.
Past(r, rows, hist, last) ==
    \A name \in DOMAIN last : \E j \in 1 .. Len(rows) :
       /\ NameOf(j) = name
       /\ \/ last[name] = {name} /\ Heard(r, rows, hist, j, Genuine)
          \/ last[name] = Forged /\ Heard(r, rows, hist, j, Forged)

Marks(r, rows, hist) ==
    \A j, m \in 1 .. Len(rows) :
       /\ j < m /\ NameOf(j) = NameOf(m)
       /\ \A k \in j .. m - 1 : Heard(r, rows, hist, k, Genuine)
       /\ Heard(r, rows, hist, m, Forged)
       => rows[m].code = AnswerChanged

MarksMean(r, rows, hist) ==
    \A m \in 1 .. Len(rows) : rows[m].code = AnswerChanged =>
       \E j \in 1 .. m - 1 :
          /\ NameOf(j) = NameOf(m)
          /\ \/ Heard(r, rows, hist, j, Genuine) /\ Heard(r, rows, hist, m, Forged)
             \/ Heard(r, rows, hist, j, Forged) /\ Heard(r, rows, hist, m, Genuine)

MarksInv(r, rows, hist, probe) ==
    /\ probe.index = Len(rows)
    /\ Remembers(r, rows, hist, probe.last)
    /\ Past(r, rows, hist, probe.last)
    /\ Marks(r, rows, hist)
    /\ MarksMean(r, rows, hist)

MInv == \A r \in Resolvers : MarksInv(r, RowsFor(stored, r), met, probes[r])

(* A tick that does not ask the resolver changes nothing of it.              *)
LEMMA MarksKept ==
    ASSUME NEW r, NEW rows, NEW hist, NEW more,
           \A i \in 1 .. Len(rows) : more[rows[i].ts] = hist[rows[i].ts],
           Len(rows) \in Nat, NEW probe, MarksInv(r, rows, hist, probe)
    PROVE  MarksInv(r, rows, more, probe)
<1> DEFINE N == Len(rows)
<1>1. \A i \in 1 .. N : \A rrset : Heard(r, rows, more, i, rrset) <=> Heard(r, rows, hist, i, rrset)
  BY Zenon DEF Heard
<1>2. /\ \A j \in 1 .. N : \A k : k \in j .. N => k \in 1 .. N
      /\ \A j \in 1 .. N, m \in 1 .. N : \A k : k \in j .. m - 1 => k \in 1 .. N
      /\ \A m \in 1 .. N : \A j : j \in 1 .. m - 1 => j \in 1 .. N
  OBVIOUS
<1> HIDE DEF N
<1>3. Remembers(r, rows, more, probe.last)
  BY <1>1, <1>2, Zenon DEF MarksInv, Remembers, N
<1>4. Past(r, rows, more, probe.last)
  BY <1>1, Zenon DEF MarksInv, Past, N
<1>5. Marks(r, rows, more)
  BY <1>1, <1>2, Zenon DEF MarksInv, Marks, N
<1>6. MarksMean(r, rows, more)
  <2> SUFFICES ASSUME NEW m \in 1 .. N, rows[m].code = AnswerChanged
               PROVE  \E j \in 1 .. m - 1 :
                         /\ NameOf(j) = NameOf(m)
                         /\ \/ Heard(r, rows, more, j, Genuine) /\ Heard(r, rows, more, m, Forged)
                            \/ Heard(r, rows, more, j, Forged) /\ Heard(r, rows, more, m, Genuine)
    BY DEF MarksMean, N
  <2>1. PICK j \in 1 .. m - 1 :
           /\ NameOf(j) = NameOf(m)
           /\ \/ Heard(r, rows, hist, j, Genuine) /\ Heard(r, rows, hist, m, Forged)
              \/ Heard(r, rows, hist, j, Forged) /\ Heard(r, rows, hist, m, Genuine)
    BY DEF MarksInv, MarksMean, N
  <2> QED BY <1>1, <1>2, <2>1
<1> QED BY <1>3, <1>4, <1>5, <1>6 DEF MarksInv

(* One more query.                                                           *)
LEMMA MarksAdded ==
    ASSUME NEW r \in Resolvers, NEW rows \in Seq(RowRecords), NEW hist, NEW more,
           \A i \in 1 .. Len(rows) : more[rows[i].ts] = hist[rows[i].ts],
           MarksInv(r, rows, hist, probes[r]),
           NEW n, NEW what \in DOMAIN Encounters, more[n][r] = what,
           Row(n, Resolution(r, what).sample) \in RowRecords
    PROVE  MarksInv(r, Append(rows, Row(n, Resolution(r, what).sample)), more,
                    Resolution(r, what).probe)
<1> DEFINE after == Resolution(r, what)
           row == Row(n, after.sample)
           longer == Append(rows, row)
           N == Len(rows)
           last == probes[r].last
           name == NextName(probes[r])
           outcome == Outcome(r, what)
           answered == outcome.is = "answer"
           given == IF outcome.rrset = Genuine THEN {name} ELSE Forged
<1>1. N \in Nat
  OBVIOUS
<1>2. MarksInv(r, rows, more, probes[r])
  BY <1>1, MarksKept
<1>3. row.ts = n /\ row.code = after.sample.code
  BY DEF Row
<1>4. /\ answered => outcome.rrset \in {Genuine, Forged}
      /\ after.probe.index = probes[r].index + 1
      /\ ~answered => after.sample.code # AnswerChanged /\ after.probe.last = last
      /\ answered => /\ after.sample.code = AnswerChanged
                            <=> name \in DOMAIN last /\ last[name] # given
                     /\ after.probe.last =
                           [m \in DOMAIN last \cup {name} |-> IF m = name THEN given ELSE last[m]]
  BY ResolutionIs
<1>5. probes[r].index = N /\ name = NameOf(N + 1)
  <2>1. probes[r].index = N /\ N + 1 - 1 = N
    BY <1>1 DEF MarksInv
  <2>2. name = QueryNames[(probes[r].index % Len(QueryNames)) + 1]
    BY DEF NextName
  <2>3. NameOf(N + 1) = QueryNames[((N + 1 - 1) % Len(QueryNames)) + 1]
    BY DEF NameOf
  <2> HIDE DEF N, name
  <2>4. name = NameOf(N + 1)
    BY <2>1, <2>2, <2>3, Zenon
  <2> QED BY <2>1, <2>4
<1>6. {name} # Forged /\ Genuine # Forged
  <2>1. probes[r].index \in Nat
    BY <1>1, <1>5
  <2>2. name \in Range(QueryNames)
    BY <2>1, NextNameIn
  <2> HIDE DEF name
  <2> QED BY <2>2, Environment DEF Environment, Forged, Genuine
<1> HIDE DEF after, row
<1>7. /\ Len(longer) = N + 1 /\ longer[N + 1] = row
      /\ \A i \in 1 .. N : longer[i] = rows[i]
  BY DEF row, after
<1> HIDE DEF longer, N, name, given, last, outcome
<1>8. /\ \A i \in 1 .. N : \A rrset : Heard(r, longer, more, i, rrset) <=> Heard(r, rows, more, i, rrset)
      /\ \A rrset : Heard(r, longer, more, N + 1, rrset) <=> answered /\ outcome.rrset = rrset
  BY <1>3, <1>7, Zenon DEF Heard, outcome
<1>9. /\ N + 1 \in 1 .. N + 1 /\ \A i \in 1 .. N : i \in 1 .. N + 1 /\ i < N + 1
      /\ \A i \in 1 .. N + 1 : i \in 1 .. N \/ i = N + 1
      /\ \A j \in 1 .. N : N + 1 \in j .. N + 1 /\ \A k \in j .. N : k \in j .. N + 1 /\ k \in 1 .. N
      /\ N + 1 \in N + 1 .. N + 1 /\ N + 1 - 1 = N
  BY <1>1
<1>10. Remembers(r, longer, more, after.probe.last)
  <2> SUFFICES ASSUME NEW j \in 1 .. N + 1,
                      \A k \in j .. N + 1 : Heard(r, longer, more, k, Genuine)
               PROVE  /\ NameOf(j) \in DOMAIN after.probe.last
                      /\ after.probe.last[NameOf(j)] = {NameOf(j)}
    BY <1>7 DEF Remembers
  <2>1. answered /\ outcome.rrset = Genuine
    BY <1>8, <1>9
  <2>2. given = {name}
    BY <2>1 DEF given
  <2>3. after.probe.last = [m \in DOMAIN last \cup {name} |-> IF m = name THEN {name} ELSE last[m]]
    BY <1>4, <2>1, <2>2, Zenon
  <2>4. CASE j = N + 1
    BY <1>5, <2>3, <2>4
  <2>5. CASE j \in 1 .. N
    <3>1. \A k \in j .. N : Heard(r, rows, more, k, Genuine)
      BY <1>8, <1>9, <2>5, Zenon
    <3>2. NameOf(j) \in DOMAIN last /\ last[NameOf(j)] = {NameOf(j)}
      BY <1>2, <2>5, <3>1, Zenon DEF MarksInv, Remembers, N, last
    <3> QED BY <2>3, <3>2
  <2> QED BY <1>9, <2>4, <2>5
<1>11. Past(r, longer, more, after.probe.last)
  <2> DEFINE told(other, j, value) ==
                /\ NameOf(j) = other
                /\ \/ value = {other} /\ Heard(r, longer, more, j, Genuine)
                   \/ value = Forged /\ Heard(r, longer, more, j, Forged)
  <2>1. \A other \in DOMAIN last : \E j \in 1 .. N + 1 : told(other, j, last[other])
    <3> SUFFICES ASSUME NEW other \in DOMAIN last
                 PROVE  \E j \in 1 .. N + 1 : told(other, j, last[other])
      OBVIOUS
    <3>1. PICK j \in 1 .. N :
             /\ NameOf(j) = other
             /\ \/ last[other] = {other} /\ Heard(r, rows, more, j, Genuine)
                \/ last[other] = Forged /\ Heard(r, rows, more, j, Forged)
      BY <1>2, Zenon DEF MarksInv, Past, N, last
    <3> QED BY <1>8, <1>9, <3>1, Zenon
  <2>2. answered => told(name, N + 1, given)
    <3>1. CASE answered /\ outcome.rrset = Genuine
      BY <1>5, <1>8, <3>1 DEF given
    <3>2. CASE answered /\ outcome.rrset = Forged
      BY <1>5, <1>6, <1>8, <3>2 DEF given
    <3> QED BY <1>4, <3>1, <3>2
  <2> HIDE DEF told
  <2>3. \A other \in DOMAIN after.probe.last : \E j \in 1 .. N + 1 :
           told(other, j, after.probe.last[other])
    <3>1. CASE ~answered
      BY <1>4, <2>1, <3>1
    <3>2. CASE answered
      <4> SUFFICES ASSUME NEW other \in DOMAIN after.probe.last
                   PROVE  \E j \in 1 .. N + 1 : told(other, j, after.probe.last[other])
        OBVIOUS
      <4>1. /\ other = name => after.probe.last[other] = given
            /\ other # name => other \in DOMAIN last /\ after.probe.last[other] = last[other]
        BY <1>4, <3>2
      <4> QED BY <1>9, <2>1, <2>2, <3>2, <4>1, Zenon
    <3> QED BY <3>1, <3>2
  <2> QED BY <1>7, <2>3, Zenon DEF Past, told
<1>12. Marks(r, longer, more)
  <2> SUFFICES ASSUME NEW j \in 1 .. N + 1, NEW m \in 1 .. N + 1,
                      j < m, NameOf(j) = NameOf(m),
                      \A k \in j .. m - 1 : Heard(r, longer, more, k, Genuine),
                      Heard(r, longer, more, m, Forged)
               PROVE  longer[m].code = AnswerChanged
    BY <1>7, Zenon DEF Marks
  <2>1. j \in 1 .. N /\ \A k \in j .. m - 1 : k \in 1 .. N
    BY <1>1
  <2>2. \A k \in j .. m - 1 : Heard(r, rows, more, k, Genuine)
    BY <1>8, <2>1, Zenon
  <2>3. CASE m \in 1 .. N
    <3>1. Heard(r, rows, more, m, Forged)
      BY <1>8, <2>3
    <3>2. rows[m].code = AnswerChanged
      BY <1>2, <2>1, <2>2, <2>3, <3>1, Zenon DEF MarksInv, Marks, N
    <3> QED BY <1>7, <2>3, <3>2
  <2>4. CASE m = N + 1
    <3>1. answered /\ outcome.rrset = Forged /\ given = Forged
      BY <1>6, <1>8, <2>4 DEF given
    <3>2. \A k \in j .. N : Heard(r, rows, more, k, Genuine)
      BY <1>9, <2>2, <2>4
    <3>3. name \in DOMAIN last /\ last[name] = {name}
      <4>1. NameOf(j) = name
        BY <1>5, <2>4
      <4> QED BY <1>2, <2>1, <3>2, <4>1, Zenon DEF MarksInv, Remembers, N, last
    <3>4. after.sample.code = AnswerChanged
      BY <1>4, <1>6, <3>1, <3>3
    <3> QED BY <1>3, <1>7, <2>4, <3>4
  <2> QED BY <1>9, <2>3, <2>4
<1>13. MarksMean(r, longer, more)
  <2> SUFFICES ASSUME NEW m \in 1 .. N + 1, longer[m].code = AnswerChanged
               PROVE  \E j \in 1 .. m - 1 :
                         /\ NameOf(j) = NameOf(m)
                         /\ \/ Heard(r, longer, more, j, Genuine) /\ Heard(r, longer, more, m, Forged)
                            \/ Heard(r, longer, more, j, Forged) /\ Heard(r, longer, more, m, Genuine)
    BY <1>7 DEF MarksMean
  <2>1. CASE m \in 1 .. N
    <3>1. rows[m].code = AnswerChanged
      BY <1>7, <2>1
    <3>2. PICK j \in 1 .. m - 1 :
             /\ NameOf(j) = NameOf(m)
             /\ \/ Heard(r, rows, more, j, Genuine) /\ Heard(r, rows, more, m, Forged)
                \/ Heard(r, rows, more, j, Forged) /\ Heard(r, rows, more, m, Genuine)
      BY <1>2, <2>1, <3>1 DEF MarksInv, MarksMean, N
    <3>3. j \in 1 .. N
      BY <1>1, <2>1
    <3> QED BY <1>8, <2>1, <3>2, <3>3
  <2>2. CASE m = N + 1
    <3>1. answered /\ name \in DOMAIN last /\ last[name] # given
      BY <1>3, <1>4, <1>7, <2>2
    <3>2. PICK j \in 1 .. N :
             /\ NameOf(j) = name
             /\ \/ last[name] = {name} /\ Heard(r, rows, more, j, Genuine)
                \/ last[name] = Forged /\ Heard(r, rows, more, j, Forged)
      BY <1>2, <3>1, Zenon DEF MarksInv, Past, N, last
    <3>3. j \in 1 .. m - 1 /\ NameOf(j) = NameOf(m)
      BY <1>5, <1>9, <2>2, <3>2
    <3>4. CASE last[name] = {name}
      <4>1. outcome.rrset # Genuine
        BY <3>1, <3>4 DEF given
      <4>2. Heard(r, longer, more, m, Forged)
        BY <1>4, <1>8, <2>2, <3>1, <4>1
      <4>3. Heard(r, longer, more, j, Genuine)
        BY <1>6, <1>8, <3>2, <3>4
      <4> QED BY <3>3, <4>2, <4>3
    <3>5. CASE last[name] = Forged
      <4>1. outcome.rrset = Genuine
        BY <3>1, <3>5 DEF given
      <4>2. Heard(r, longer, more, m, Genuine)
        BY <1>8, <2>2, <3>1, <4>1
      <4>3. Heard(r, longer, more, j, Forged)
        BY <1>6, <1>8, <3>2, <3>5
      <4> QED BY <3>3, <4>2, <4>3
    <3> QED BY <3>2, <3>4, <3>5
  <2> QED BY <1>9, <2>1, <2>2
<1>14. after.probe.index = Len(longer)
  BY <1>4, <1>5, <1>7
<1> QED BY <1>10, <1>11, <1>12, <1>13, <1>14 DEF MarksInv, after, longer, row

LEMMA MarksStart == ASSUME Init PROVE MInv
<1>1. stored = << >> /\ \A r \in Resolvers : probes[r] = NewProbe
  BY DEF Init
<1>2. \A x : RowsFor(stored, x) = << >>
  BY <1>1 DEF RowsFor
<1>3. NewProbe.index = 0 /\ DOMAIN NewProbe.last = {}
  BY DEF NewProbe
<1>4. Len(<< >>) = 0 /\ ~(\E i : i \in 1 .. 0)
  OBVIOUS
<1>5. \A r : MarksInv(r, << >>, met, NewProbe)
  BY <1>3, <1>4 DEF MarksInv, Remembers, Past, Marks, MarksMean
<1> QED BY <1>1, <1>2, <1>5, Zenon DEF MInv

LEMMA MarksStep == ASSUME IInv, MInv, Cycle PROVE MInv'
<1>1. PICK calls \in [Calls -> Faults], tardy \in SUBSET ({"cycle"} \cup Kinds) :
         CollectOnce(calls, tardy) /\ met' = Later(met, now, calls)
  BY CycleIs DEF IInv
<1>2. now \in Nat \ {0} /\ AgentTyped
  BY DEF IInv, StateInv
<1>3. \A t \in DOMAIN met : t \in 1 .. now - 1
  BY DEF IInv, HistoryInv, Met
<1>4. met'[now] = calls /\ \A t \in DOMAIN met : met'[t] = met[t]
  BY <1>1, <1>2, <1>3 DEF Later
<1>5. DOMAIN calls = Calls
  OBVIOUS
<1>6. \A x : RowsFor(stored', x) =
               IF x \in DOMAIN calls
               THEN Append(RowsFor(stored, x), Row(now, Measured(x, calls[x])))
               ELSE RowsFor(stored, x)
  BY <1>1, StoredRows DEF CollectOnce
<1>7. \A r \in Resolvers : probes'[r] =
         IF r \in DOMAIN calls THEN Resolution(r, calls[r]).probe ELSE probes[r]
  BY <1>1, Zenon DEF CollectOnce
<1> SUFFICES ASSUME NEW r \in Resolvers
             PROVE  MarksInv(r, RowsFor(stored', r), met', probes'[r])
  BY DEF MInv
<1> DEFINE rows == RowsFor(stored, r)
<1>8. rows \in Seq(RowRecords) /\ \A i \in 1 .. Len(rows) : met'[rows[i].ts] = met[rows[i].ts]
  <2>1. TrueRows(r, rows, met)
    BY DEF IInv, RowsInv
  <2> QED BY <1>4, <2>1 DEF TrueRows
<1>9. MarksInv(r, rows, met, probes[r])
  BY DEF MInv
<1> HIDE DEF rows
<1>10. CASE r \notin DOMAIN calls
  <2>1. RowsFor(stored', r) = rows /\ probes'[r] = probes[r]
    BY <1>6, <1>7, <1>10 DEF rows
  <2>2. Len(rows) \in Nat
    BY <1>8
  <2> QED BY <1>8, <1>9, <2>1, <2>2, MarksKept
<1>11. CASE r \in DOMAIN calls
  <2> DEFINE what == calls[r]
             row == Row(now, Resolution(r, what).sample)
  <2>1. what \in DOMAIN Encounters
    BY <1>5, <1>11, Environment DEF Environment
  <2> HIDE DEF what
  <2>2. Measured(r, what) = Resolution(r, what).sample
    BY KindsDiffer, Zenon DEF Measured
  <2>3. RowsFor(stored', r) = Append(rows, row) /\ probes'[r] = Resolution(r, what).probe
    BY <1>6, <1>7, <1>11, <2>2 DEF rows, what
  <2>4. row \in RowRecords
    <3>1. Fits(r, Resolution(r, what).sample, what)
      BY <2>1, ResolveFits
    <3> QED BY <1>2, <3>1 DEF Fits, Row, RowRecords, SampleRecords
  <2>5. met'[now][r] = what
    BY <1>4 DEF what
  <2> QED BY <1>8, <1>9, <2>1, <2>3, <2>4, <2>5, MarksAdded
<1> QED BY <1>10, <1>11

LEMMA MarksHold == ASSUME IInv, MInv, [Next]_vars PROVE MInv'
<1>1. CASE Next
  BY <1>1, MarksStep DEF Next
<1>2. CASE UNCHANGED vars
  BY <1>2 DEF vars, MInv
<1> QED BY <1>1, <1>2

LEMMA ModFacts ==
    ASSUME NEW L \in Nat \ {0}, NEW x \in Nat
    PROVE  /\ x \div L \in Int /\ x % L \in 0 .. L - 1
           /\ x = (x \div L) * L + (x % L)
  OBVIOUS

LEMMA ModRound ==
    ASSUME NEW L \in Nat \ {0}, NEW x \in Nat, x >= L
    PROVE  (x - L) % L = x % L
<1> DEFINE y == x - L
           q == x \div L
           p == y \div L
           a == x % L
           b == y % L
<1>1. q \in Int /\ a \in 0 .. L - 1 /\ x = q * L + a
  BY ModFacts
<1>2. p \in Int /\ b \in 0 .. L - 1 /\ y = p * L + b
  BY ModFacts
<1> HIDE DEF q, p, a, b
<1>3. x - L = p * L + b
  BY <1>2
<1>4. ASSUME NEW d \in Int, d >= 1 PROVE d * L >= L
  BY <1>4
<1>5. (q - 1 - p) * L = b - a
  <2>1. (q - 1 - p) * L = q * L - L - p * L
    BY <1>1, <1>2
  <2> QED BY <1>1, <1>2, <1>3, <2>1
<1>6. (p + 1 - q) * L = a - b
  <2>1. (p + 1 - q) * L = p * L + L - q * L
    BY <1>1, <1>2
  <2> QED BY <1>1, <1>2, <1>3, <2>1
<1>7. ~(q - 1 - p >= 1) /\ ~(p + 1 - q >= 1)
  BY <1>1, <1>2, <1>4, <1>5, <1>6
<1>8. q - 1 - p = 0
  BY <1>1, <1>2, <1>7
<1>9. a = b
  BY <1>1, <1>2, <1>5, <1>8
<1> QED BY <1>9 DEF a, b

LEMMA MarksAreTelling == ASSUME IInv, MInv PROVE MarksTellHijacks
<1> SUFFICES ASSUME NEW r \in Resolvers \cap DOMAIN stored
             PROVE  LET rows == stored[r]
                        n == Len(QueryNames)
                        name(i) == QueryNames[((i - 1) % n) + 1]
                        outcome(i) == Outcome(r, met[rows[i].ts][r])
                        heard(i, rrset) == outcome(i).is = "answer" /\ outcome(i).rrset = rrset
                        marked(i) == rows[i].code = AnswerChanged
                    IN  /\ \A i \in n .. Len(rows) - n :
                              /\ \A j \in i - n + 1 .. i : heard(j, Genuine)
                              /\ \A j \in i + 1 .. i + n : heard(j, Forged)
                              => \E j \in i + 1 .. i + n : marked(j)
                        /\ \A i \in DOMAIN rows :
                              marked(i) => \E j \in 1 .. i - 1 :
                                  /\ name(j) = name(i)
                                  /\ \/ heard(j, Genuine) /\ heard(i, Forged)
                                     \/ heard(j, Forged) /\ heard(i, Genuine)
  BY Zenon DEF MarksTellHijacks
<1> DEFINE rows == stored[r]
           n == Len(QueryNames)
           N == Len(rows)
<1>1. rows = RowsFor(stored, r)
  BY DEF RowsFor
<1>2. N \in Nat /\ DOMAIN rows = 1 .. N
  BY <1>1, RowsTell DEF IInv
<1>3. n \in Nat \ {0}
  BY CollectorsConstants, EmptySeq DEF CollectorsConstants
<1>4. Marks(r, rows, met) /\ MarksMean(r, rows, met)
  BY <1>1 DEF MInv, MarksInv
<1>5. ASSUME NEW i \in n .. N - n,
             \A j \in i - n + 1 .. i : Heard(r, rows, met, j, Genuine),
             \A j \in i + 1 .. i + n : Heard(r, rows, met, j, Forged)
      PROVE  \E j \in i + 1 .. i + n : rows[j].code = AnswerChanged
  <2> HIDE DEF n, N
  <2> DEFINE m == i + 1
             j == m - n
  <2>1. /\ i \in Nat /\ n <= i /\ j \in 1 .. N /\ m \in 1 .. N /\ j < m /\ m \in i + 1 .. i + n
        /\ j = i - n + 1 /\ m - 1 = i /\ j - 1 = i - n
    BY <1>2, <1>3
  <2>2. NameOf(j) = NameOf(m)
    <3>1. (i - n) % n = i % n
      BY <1>3, <2>1, ModRound
    <3>2. NameOf(j) = QueryNames[((j - 1) % n) + 1] /\ NameOf(m) = QueryNames[((m - 1) % n) + 1]
      BY DEF NameOf, n
    <3> HIDE DEF j, m
    <3> QED BY <2>1, <3>1, <3>2
  <2> HIDE DEF j, m
  <2>3. /\ \A k \in j .. m - 1 : Heard(r, rows, met, k, Genuine)
        /\ Heard(r, rows, met, m, Forged)
    BY <1>5, <2>1
  <2>4. rows[m].code = AnswerChanged
    BY <1>4, <2>1, <2>2, <2>3, Zenon DEF Marks, N
  <2> QED BY <2>1, <2>4
<1>6. ASSUME NEW i \in 1 .. N, rows[i].code = AnswerChanged
      PROVE  \E j \in 1 .. i - 1 :
                /\ NameOf(j) = NameOf(i)
                /\ \/ Heard(r, rows, met, j, Genuine) /\ Heard(r, rows, met, i, Forged)
                   \/ Heard(r, rows, met, j, Forged) /\ Heard(r, rows, met, i, Genuine)
  BY <1>4, <1>6 DEF MarksMean
<1> QED BY <1>2, <1>5, <1>6, Zenon DEF Heard, NameOf

(* "A resolver handing back a different address than last time"              *)
(* (dns_probe.py:22): a hijack that outlasts a round of queries, after a     *)
(* round of genuine answers, is marked, and no mark is without such a change,*)
(* however many names there are and whatever the resolver did before.        *)
THEOREM MarksTell == Spec => []MarksTellHijacks
<1>1. Init => MInv
  BY MarksStart
<1>2. IInv /\ MInv /\ [Next]_vars => MInv'
  BY MarksHold
<1>3. IInv /\ MInv => MarksTellHijacks
  BY MarksAreTelling
<1> QED BY <1>1, <1>2, <1>3, DiagnosisInvariant, PTL DEF Spec

=============================================================================
