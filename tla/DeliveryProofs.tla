------------------------------ MODULE DeliveryProofs ------------------------------
(***************************************************************************)
(* Theorems about the spool, whoever uses it, and then about delivery, for *)
(* every size of spool, batch and write, every number of faults and        *)
(* restarts and every combination of fault kinds.                          *)
(***************************************************************************)
EXTENDS Delivery, FiniteSetTheorems, TLAPS

USE SpoolConstants DEF NoBatch, Rows

-----------------------------------------------------------------------------
(* The spool: types                                                          *)

(* The table is finite: its ids lie below the counter.                       *)
LEMMA RowsFinite ==
    ASSUME SpoolTypeOK
    PROVE  IsFiniteSet(Rows) /\ PendingCount \in Nat
<1>1. nextId - 1 \in Int
  BY DEF SpoolTypeOK
<1>2. IsFiniteSet(1 .. nextId - 1)
  BY <1>1, FS_Interval
<1>3. Rows \in SUBSET (1 .. nextId - 1)
  BY DEF SpoolTypeOK
<1>4. IsFiniteSet(Rows)
  BY <1>2, <1>3, FS_Subset
<1> QED  BY <1>4, FS_CardinalityType DEF PendingCount

(* The empty table of a fresh probe is well typed.                           *)
LEMMA SpoolInitTyped == SpoolInit => SpoolTypeOK
BY DEF SpoolInit, SpoolTypeOK

(* A write only adds unclaimed rows under ids never used before.             *)
LEMMA WriteTyped ==
    ASSUME SpoolTypeOK, NEW n \in 1 .. WriteRows, Write(n)
    PROVE  SpoolTypeOK'
BY DEF SpoolTypeOK, Write, Add

(* Neither half of a trim leaves the types; it only ever removes rows.       *)
LEMMA TrimTyped ==
    ASSUME SpoolTypeOK, TrimCount \/ TrimDelete
    PROVE  SpoolTypeOK'
<1>1. CASE TrimDelete
  BY <1>1 DEF SpoolTypeOK, TrimDelete, TrimVictims
<1>2. CASE TrimCount
  BY <1>2, RowsFinite DEF SpoolTypeOK, TrimCount
<1> QED  BY <1>1, <1>2

(* The shipping thread's steps and a restart only rewrite the claim column.  *)
LEMMA ShippingTyped ==
    ASSUME SpoolTypeOK,
           \/ Claim
           \/ Confirm \/ Release \/ Abandon \/ DrawUuid \/ RestartSpool
    PROVE  SpoolTypeOK'
<1>1. CASE Claim
  BY <1>1 DEF SpoolTypeOK, Claim, ClaimBatch, collectorVars
<1>2. CASE Confirm
  BY <1>2 DEF SpoolTypeOK, Confirm, ConfirmBatch, RowsOf, collectorVars
<1>3. CASE Release
  BY <1>3 DEF SpoolTypeOK, Release, ReleaseBatch, collectorVars
<1>4. CASE Abandon
  BY <1>4 DEF SpoolTypeOK, Abandon, collectorVars
<1>5. CASE DrawUuid
  BY <1>5 DEF SpoolTypeOK, DrawUuid, collectorVars
<1>6. CASE RestartSpool
  BY <1>6 DEF SpoolTypeOK, RestartSpool, ReclaimOrphans
<1> QED  BY <1>1, <1>2, <1>3, <1>4, <1>5, <1>6

LEMMA SpoolStepTyped == SpoolTypeOK /\ [SpoolNext]_spoolVars => SpoolTypeOK'
<1> SUFFICES ASSUME SpoolTypeOK, [SpoolNext]_spoolVars
             PROVE  SpoolTypeOK'
  OBVIOUS
<1>1. CASE UNCHANGED spoolVars
  BY <1>1 DEF SpoolTypeOK, spoolVars
<1>2. CASE SpoolNext
  BY <1>2, WriteTyped, TrimTyped, ShippingTyped DEF SpoolNext, Collector
<1> QED  BY <1>1, <1>2

(* The spool's state always has its types: ids below the AUTOINCREMENT       *)
(* counter, claims by batch ids already drawn.                               *)
THEOREM SpoolTypeCorrect == SpoolSpec => []SpoolTypeOK
BY SpoolInitTyped, SpoolStepTyped, PTL DEF SpoolSpec

-----------------------------------------------------------------------------
(* Claims                                                                    *)

(* What the two claim facts rest on: the claimed rows are in the order of    *)
(* their claims.  What an abandoned batch holds is older than what the       *)
(* sender holds, which is older than what waits, so neither a claim nor a    *)
(* release can put a younger row before an older one.                        *)
ClaimInv ==
    /\ SpoolTypeOK
    /\ ClaimsBelongToSender
    /\ OldestFirst
    /\ batch \notin abandoned
    /\ \A r, s \in Rows : spool[r] \in abandoned /\ spool[s] = batch => r < s

LEMMA ClaimInvInit == SpoolInit => ClaimInv
BY SpoolInitTyped DEF SpoolInit, ClaimInv, ClaimsBelongToSender, OldestFirst

LEMMA ClaimInvStep ==
    ASSUME ClaimInv, [SpoolNext]_spoolVars
    PROVE  ClaimInv'
<1> USE DEF ClaimInv
<1>0. SpoolTypeOK'
  BY SpoolStepTyped
<1>1. ASSUME NEW n \in 1 .. WriteRows, Write(n)
      PROVE  ClaimInv'
  BY <1>0, <1>1 DEF SpoolTypeOK, ClaimsBelongToSender, OldestFirst, Write, Add
<1>2. CASE TrimCount
  BY <1>0, <1>2 DEF ClaimsBelongToSender, OldestFirst, TrimCount
<1>3. CASE TrimDelete
  BY <1>0, <1>3 DEF SpoolTypeOK, ClaimsBelongToSender, OldestFirst, TrimDelete
<1>4. CASE Claim
  <2>1. PICK rows \in SUBSET Rows : OldestUnclaimed(rows) /\ ClaimBatch(nextUuid, rows)
    BY <1>4 DEF Claim
  <2>2. Rows' = Rows /\ \A r \in Rows : spool'[r] = IF r \in rows THEN nextUuid ELSE spool[r]
    BY <2>1 DEF ClaimBatch
  <2>3. /\ rows \subseteq UnclaimedRows
        /\ \A r \in rows, s \in UnclaimedRows \ rows : r < s
    BY <2>1 DEF OldestUnclaimed
  <2>4. \A r \in Rows : spool[r] = NoBatch <=> r \in UnclaimedRows
    BY DEF UnclaimedRows
  <2>5. batch = NoBatch /\ batch' = nextUuid /\ abandoned' = abandoned
    BY <1>4 DEF Claim
  <2>6. nextUuid # NoBatch /\ nextUuid \notin abandoned /\ NoBatch \notin abandoned
        /\ \A r \in Rows : spool[r] # nextUuid
    BY DEF SpoolTypeOK
  <2>7. ClaimsBelongToSender'
    BY <2>2, <2>5 DEF ClaimsBelongToSender
  <2>8. OldestFirst'
    BY <2>2, <2>3, <2>4, <2>6 DEF OldestFirst
  <2>9. \A r, s \in Rows : spool'[r] \in abandoned /\ spool'[s] = nextUuid => r < s
    <3> SUFFICES ASSUME NEW r \in Rows, NEW s \in Rows,
                        spool'[r] \in abandoned, spool'[s] = nextUuid
                 PROVE  r < s
      OBVIOUS
    <3>1. s \in rows /\ r \notin rows
      BY <2>2, <2>6
    <3>2. spool[s] = NoBatch /\ spool[r] # NoBatch
      BY <2>2, <2>3, <2>4, <2>6, <3>1
    <3> QED  BY <3>2 DEF OldestFirst
  <2> QED  BY <1>0, <2>2, <2>5, <2>6, <2>7, <2>8, <2>9
<1>5. CASE Confirm
  BY <1>0, <1>5 DEF SpoolTypeOK, ClaimsBelongToSender, OldestFirst, Confirm, ConfirmBatch, RowsOf
<1>6. CASE Release
  <2>1. /\ batch' = NoBatch /\ abandoned' = abandoned /\ Rows' = Rows
        /\ \A r \in Rows : spool'[r] = IF spool[r] = batch THEN NoBatch ELSE spool[r]
    BY <1>6 DEF Release, ReleaseBatch
  <2>2. \A r \in Rows : spool'[r] # NoBatch => spool[r] \in abandoned
    BY <2>1 DEF ClaimsBelongToSender
  <2>3. \A r \in Rows : spool'[r] = NoBatch => spool[r] \in {NoBatch, batch}
    BY <2>1
  <2>4. NoBatch \notin abandoned
    BY DEF SpoolTypeOK
  <2> QED  BY <1>0, <2>1, <2>2, <2>3, <2>4 DEF ClaimsBelongToSender, OldestFirst
<1>7. CASE Abandon
  <2>1. /\ batch' = NoBatch /\ abandoned' = abandoned \cup {batch} /\ spool' = spool
        /\ batch # NoBatch
    BY <1>7 DEF Abandon
  <2>2. NoBatch \notin abandoned'
    BY <2>1 DEF SpoolTypeOK
  <2>3. \A r \in Rows : spool[r] \in abandoned' => spool[r] # NoBatch
    BY <2>2
  <2> QED  BY <1>0, <2>1, <2>2, <2>3 DEF ClaimsBelongToSender, OldestFirst
<1>8. CASE DrawUuid \/ UNCHANGED spoolVars
  BY <1>0, <1>8 DEF ClaimsBelongToSender, OldestFirst, DrawUuid, spoolVars, collectorVars
<1>9. CASE RestartSpool
  BY <1>0, <1>9 DEF ClaimsBelongToSender, OldestFirst, RestartSpool, ReclaimOrphans
<1> QED
  BY <1>1, <1>2, <1>3, <1>4, <1>5, <1>6, <1>7, <1>8, <1>9 DEF SpoolNext, Collector

(* Every claimed row belongs to the batch being sent or to one an exception  *)
(* abandoned: no other interleaving of the two threads and no crash leaves a *)
(* row claimed by nobody.                                                    *)
THEOREM ClaimsAlwaysBelong == SpoolSpec => []ClaimsBelongToSender
<1>1. ClaimInv /\ [SpoolNext]_spoolVars => ClaimInv'
  BY ClaimInvStep
<1>2. ClaimInv => ClaimsBelongToSender
  BY DEF ClaimInv
<1> QED  BY ClaimInvInit, <1>1, <1>2, PTL DEF SpoolSpec

(* The rows on their way are older than every row that waits.                *)
THEOREM OldestAlwaysFirst == SpoolSpec => []OldestFirst
<1>1. ClaimInv /\ [SpoolNext]_spoolVars => ClaimInv'
  BY ClaimInvStep
<1>2. ClaimInv => OldestFirst
  BY DEF ClaimInv
<1> QED  BY ClaimInvInit, <1>1, <1>2, PTL DEF SpoolSpec

-----------------------------------------------------------------------------
(* The cap                                                                   *)

Slack == TrimEvery * WriteRows

(* Why BacklogBounded holds: between trims the backlog grows by a write at a  *)
(* time, and during one it exceeds the cap by no more than trim() has counted,*)
(* because the thread that adds rows is the thread that trims.                *)
BacklogInv ==
    /\ SpoolTypeOK
    /\ excess = 0 => PendingCount <= MaxRows + restarts * Slack + writes * WriteRows
    /\ excess > 0 => /\ PendingCount <= MaxRows + excess
                     /\ excess <= restarts * Slack + Slack
                     /\ writes = 0

LEMMA SlackFacts ==
    ASSUME SpoolTypeOK
    PROVE  /\ Slack \in Nat
           /\ restarts * Slack \in Nat
           /\ (restarts + 1) * Slack = restarts * Slack + Slack
           /\ writes * WriteRows \in Nat
           /\ (writes + 1) * WriteRows = writes * WriteRows + WriteRows
           /\ writes * WriteRows <= Slack
<1>1. Slack \in Nat
  BY DEF Slack
<1>2. restarts \in Nat /\ writes \in Nat /\ writes <= TrimEvery
  BY DEF SpoolTypeOK
<1>3. writes * WriteRows <= TrimEvery * WriteRows
  BY <1>2
<1> QED  BY <1>1, <1>2, <1>3 DEF Slack

(* A step that adds no row does not grow the backlog.                        *)
LEMMA FewerRows ==
    ASSUME SpoolTypeOK, Rows' \subseteq Rows
    PROVE  PendingCount' \in Nat /\ PendingCount' <= PendingCount
<1>1. IsFiniteSet(Rows)
  BY RowsFinite
<1> QED  BY <1>1, FS_Subset, FS_CardinalityType DEF PendingCount

LEMMA WriteBacklog ==
    ASSUME SpoolTypeOK, NEW n \in 1 .. WriteRows, Write(n)
    PROVE  PendingCount' \in Nat /\ PendingCount' <= PendingCount + n
<1> DEFINE new == nextId .. nextId + n - 1
<1>1. nextId \in Int /\ nextId + n - 1 \in Int
  BY DEF SpoolTypeOK
<1>2. IsFiniteSet(new) /\ Cardinality(new) = n
  BY <1>1, FS_Interval
<1>3. IsFiniteSet(Rows) /\ PendingCount \in Nat
  BY RowsFinite
<1>4. Rows' = Rows \cup new
  BY DEF Write, Add
<1>5. IsFiniteSet(Rows \cap new)
  BY <1>2, FS_Subset
<1>6. Cardinality(Rows \cap new) \in Nat
  BY <1>5, FS_CardinalityType
<1>7. /\ IsFiniteSet(Rows \cup new)
      /\ Cardinality(Rows \cup new)
            = Cardinality(Rows) + Cardinality(new) - Cardinality(Rows \cap new)
  BY <1>2, <1>3, FS_Union
<1>8. Cardinality(Rows \cup new) \in Nat
  BY <1>7, FS_CardinalityType
<1> QED  BY <1>2, <1>3, <1>4, <1>6, <1>7, <1>8 DEF PendingCount

LEMMA TrimBacklog ==
    ASSUME SpoolTypeOK, excess > 0, PendingCount <= MaxRows + excess, TrimDelete
    PROVE  PendingCount' \in Nat /\ PendingCount' <= MaxRows
<1>1. PICK rows \in SUBSET Rows : TrimVictims(rows) /\ spool' = [r \in Rows \ rows |-> spool[r]]
  BY DEF TrimDelete
<1>2. Rows' = Rows \ rows
  BY <1>1
<1>3. IsFiniteSet(Rows) /\ PendingCount \in Nat
  BY RowsFinite
<1>4. Cardinality(rows) = Least(excess, PendingCount)
  BY <1>1 DEF TrimVictims
<1>5. Rows \cap rows = rows
  OBVIOUS
<1>6. /\ IsFiniteSet(Rows \ rows)
      /\ Cardinality(Rows \ rows) = Cardinality(Rows) - Cardinality(rows)
  BY <1>3, <1>5, FS_Difference
<1>7. Cardinality(Rows \ rows) \in Nat
  BY <1>6, FS_CardinalityType
<1>8. excess \in Nat
  BY DEF SpoolTypeOK
<1> QED  BY <1>2, <1>3, <1>4, <1>6, <1>7, <1>8 DEF PendingCount, Least

LEMMA BacklogInvInit == SpoolInit => BacklogInv
<1> SUFFICES ASSUME SpoolInit PROVE BacklogInv
  OBVIOUS
<1>1. SpoolTypeOK
  BY SpoolInitTyped
<1>2. Rows = {}
  BY DEF SpoolInit
<1>3. PendingCount = 0
  BY <1>2, FS_EmptySet DEF PendingCount
<1>4. excess = 0
  BY DEF SpoolInit
<1> QED  BY <1>1, <1>3, <1>4, SlackFacts DEF BacklogInv

LEMMA BacklogInvStep ==
    ASSUME BacklogInv, [SpoolNext]_spoolVars
    PROVE  BacklogInv'
<1>1. SpoolTypeOK /\ SpoolTypeOK'
  BY SpoolStepTyped DEF BacklogInv
<1>2. PendingCount \in Nat
  BY <1>1, RowsFinite
<1>3. /\ excess \in Nat /\ excess' \in Nat
      /\ writes \in Nat /\ restarts \in Nat
  BY <1>1 DEF SpoolTypeOK
<1> DEFINE grown == restarts * Slack
           recent == writes * WriteRows
<1>4. /\ Slack \in Nat /\ grown \in Nat /\ recent \in Nat /\ recent <= Slack
      /\ (restarts + 1) * Slack = grown + Slack
      /\ (writes + 1) * WriteRows = recent + WriteRows
  BY <1>1, SlackFacts
<1>5. ASSUME NEW n \in 1 .. WriteRows, Write(n)
      PROVE  BacklogInv'
  <2>1. PendingCount' \in Nat /\ PendingCount' <= PendingCount + n
    BY <1>1, <1>5, WriteBacklog
  <2>2. excess = 0 /\ excess' = 0 /\ restarts' = restarts /\ writes' = writes + 1
    BY <1>5 DEF Write
  <2>3. Slack' = Slack
    BY DEF Slack
  <2>4. PendingCount' <= MaxRows + grown + (recent + WriteRows)
    BY <1>2, <1>4, <2>1, <2>2 DEF BacklogInv
  <2> QED  BY <1>1, <1>4, <2>2, <2>3, <2>4 DEF BacklogInv
<1>6. CASE TrimCount
  <2>1. /\ excess = 0 /\ writes' = 0 /\ restarts' = restarts /\ spool' = spool
        /\ excess' = IF PendingCount > MaxRows THEN PendingCount - MaxRows ELSE 0
    BY <1>6 DEF TrimCount
  <2>2. PendingCount' = PendingCount /\ Slack' = Slack
    BY <2>1 DEF PendingCount, Slack
  <2>3. PendingCount <= MaxRows + grown + recent
    BY <2>1 DEF BacklogInv
  <2>4. 0 * WriteRows = 0
    OBVIOUS
  <2> QED  BY <1>1, <1>2, <1>4, <2>1, <2>2, <2>3, <2>4 DEF BacklogInv
<1>7. CASE TrimDelete
  <2>1. excess > 0 /\ excess' = 0 /\ writes' = writes /\ restarts' = restarts
    BY <1>7 DEF TrimDelete
  <2>2. PendingCount' \in Nat /\ PendingCount' <= MaxRows
    BY <1>1, <1>7, <2>1, TrimBacklog DEF BacklogInv
  <2>3. Slack' = Slack
    BY DEF Slack
  <2> QED  BY <1>1, <1>4, <2>1, <2>2, <2>3 DEF BacklogInv
<1>8. CASE \/ Claim
           \/ Confirm \/ Release \/ Abandon \/ DrawUuid \/ UNCHANGED spoolVars
  <2>1. /\ excess' = excess /\ writes' = writes /\ restarts' = restarts
        /\ Rows' \subseteq Rows
    BY <1>8 DEF Claim, Confirm, Release, Abandon, DrawUuid, ClaimBatch, ConfirmBatch,
                ReleaseBatch, spoolVars, collectorVars
  <2>2. PendingCount' \in Nat /\ PendingCount' <= PendingCount
    BY <1>1, <2>1, FewerRows
  <2>3. Slack' = Slack
    BY DEF Slack
  <2> QED  BY <1>1, <1>2, <1>3, <1>4, <2>1, <2>2, <2>3 DEF BacklogInv
<1>9. CASE RestartSpool
  <2>1. /\ excess' = 0 /\ writes' = 0 /\ restarts' = restarts + 1
        /\ Rows' \subseteq Rows
    BY <1>9 DEF RestartSpool, ReclaimOrphans
  <2>2. PendingCount' \in Nat /\ PendingCount' <= PendingCount
    BY <1>1, <2>1, FewerRows
  <2>3. Slack' = Slack /\ 0 * WriteRows = 0
    BY DEF Slack
  <2>4. PendingCount <= MaxRows + (grown + Slack)
    BY <1>2, <1>3, <1>4 DEF BacklogInv
  <2> QED  BY <1>1, <1>2, <1>4, <2>1, <2>2, <2>3, <2>4 DEF BacklogInv
<1> QED
  BY <1>5, <1>6, <1>7, <1>8, <1>9 DEF SpoolNext, Collector

(* However often the sender fails or strands its batches, the spool exceeds  *)
(* its cap by at most one trim interval's rows for each life of the agent.   *)
THEOREM BacklogAlwaysBounded == SpoolSpec => []BacklogBounded
<1>1. BacklogInv => BacklogBounded
  <2> SUFFICES ASSUME BacklogInv PROVE BacklogBounded
    OBVIOUS
  <2>1. SpoolTypeOK /\ PendingCount \in Nat /\ excess \in Nat
    BY RowsFinite DEF BacklogInv, SpoolTypeOK
  <2>2. PendingCount <= MaxRows + (restarts + 1) * Slack
    BY <2>1, SlackFacts DEF BacklogInv
  <2>3. restarts + 1 \in Nat
    BY <2>1 DEF SpoolTypeOK
  <2>4. (restarts + 1) * Slack = (restarts + 1) * TrimEvery * WriteRows
    BY <2>3 DEF Slack
  <2> QED  BY <2>2, <2>4 DEF BacklogBounded
<1>2. BacklogInv /\ [SpoolNext]_spoolVars => BacklogInv'
  BY BacklogInvStep
<1> QED  BY BacklogInvInit, <1>1, <1>2, PTL DEF SpoolSpec

-----------------------------------------------------------------------------
(* The protocol uses the spool as module Spool says                          *)

USE IngestConstants, DeliveryConstants DEF NoCall, NoProbe, NoToken

(* What a step of the protocol is to the spool: only the shipping thread,    *)
(* the collection loop and a restart touch it.                               *)
LEMMA StepOfSpool == Next => SpoolNext \/ UNCHANGED spoolVars
<1> SUFFICES ASSUME Next PROVE SpoolNext \/ UNCHANGED spoolVars
  OBVIOUS
<1>1. CASE Shipper
  <2>1. CASE StartRegister
    BY <2>1 DEF StartRegister, SpoolNext
  <2>2. CASE Registered \/ IdentityUnsaved \/ SaveToken \/ TokenUnsaved \/ RegisterFails
    BY <2>2 DEF Registered, IdentityUnsaved, SaveToken, TokenUnsaved, RegisterFails
  <2>3. CASE ShipBatch
    BY <2>3 DEF ShipBatch, SpoolNext
  <2>4. CASE ShipConfirmed \/ ShipRefused \/ ClearUnsaved \/ ShipFails \/ ShipEscapes
    BY <2>4 DEF ShipConfirmed, ShipRefused, ClearUnsaved, ShipFails, ShipEscapes, SpoolNext
  <2>5. CASE Timeout
    BY <2>5 DEF Timeout, SpoolNext
  <2> QED  BY <1>1, <2>1, <2>2, <2>3, <2>4, <2>5 DEF Shipper
<1>2. CASE Collect
  BY <1>2 DEF Collect, SpoolNext
<1>3. CASE Restart
  BY <1>3 DEF Restart, SpoolNext
<1>4. CASE Server
  BY <1>4 DEF Server, HandleRegister, Authenticate, HandleIngest
<1>5. CASE Environment
  BY <1>5 DEF Environment, ServerFails, RewindFails, ProtocolSkew, LoseRequest,
              LoseAnswer, PortalAnswers, Retire
<1> QED  BY <1>1, <1>2, <1>3, <1>4, <1>5 DEF Next

LEMMA InitOfSpool == Init => SpoolInit
BY DEF Init

LEMMA StepOrStutter == [Next]_vars => [SpoolNext]_spoolVars
BY StepOfSpool DEF vars

-----------------------------------------------------------------------------
(* Types                                                                     *)

(* Ids are only ever drawn: what was a call or a row stays one.              *)
LEMMA SpoolGrows ==
    ASSUME SpoolTypeOK, [SpoolNext]_spoolVars
    PROVE  /\ SpoolTypeOK'
           /\ Calls \subseteq Calls'
           /\ 1 .. nextId - 1 \subseteq 1 .. nextId' - 1
<1>1. SpoolTypeOK'
  BY SpoolStepTyped
<1>2. nextUuid' = nextUuid \/ nextUuid' = nextUuid + 1
  BY DEF SpoolNext, Collector, Write, TrimCount, TrimDelete, Claim, Confirm, Release,
         Abandon, DrawUuid, RestartSpool, spoolVars
<1>3. nextId' = nextId \/ \E n \in 1 .. WriteRows : nextId' = nextId + n
  BY DEF SpoolNext, Collector, Write, Add, TrimCount, TrimDelete, Claim, Confirm, Release,
         Abandon, DrawUuid, RestartSpool, spoolVars, collectorVars
<1> QED  BY <1>1, <1>2, <1>3 DEF SpoolTypeOK, Calls

LEMMA InitTyped == Init => TypeOK
BY SpoolInitTyped DEF Init, IngestInit, TypeOK, ServerTypeOK, ShipperTypeOK,
                      NetworkTypeOK, Phases

(* Each part keeps its types while its variables keep their values.          *)
LEMMA PartsStable ==
    ASSUME TypeOK, [SpoolNext]_spoolVars
    PROVE  /\ UNCHANGED serverVars => ServerTypeOK'
           /\ UNCHANGED shipperVars => ShipperTypeOK'
           /\ UNCHANGED requests => (requests \in SUBSET RequestType)'
           /\ UNCHANGED answers => (answers \in SUBSET AnswerType)'
<1>1. Calls \subseteq Calls' /\ 1 .. nextId - 1 \subseteq 1 .. nextId' - 1
  BY SpoolGrows DEF TypeOK
<1>2. UNCHANGED serverVars => ServerTypeOK'
  BY <1>1 DEF TypeOK, ServerTypeOK, serverVars
<1>3. UNCHANGED shipperVars => ShipperTypeOK'
  BY <1>1 DEF TypeOK, ShipperTypeOK, shipperVars
<1>4. UNCHANGED requests => (requests \in SUBSET RequestType)'
  BY <1>1 DEF TypeOK, NetworkTypeOK, RequestType
<1>5. UNCHANGED answers => (answers \in SUBSET AnswerType)'
  BY <1>1 DEF TypeOK, NetworkTypeOK, AnswerType
<1> QED  BY <1>2, <1>3, <1>4, <1>5

LEMMA ShipperTyped ==
    ASSUME TypeOK, [SpoolNext]_spoolVars, Shipper
    PROVE  TypeOK'
<1>0. /\ SpoolTypeOK' /\ Calls \subseteq Calls'
      /\ 1 .. nextId - 1 \subseteq 1 .. nextId' - 1
  BY SpoolGrows DEF TypeOK
<1>1. ServerTypeOK'
  <2>1. UNCHANGED serverVars
    BY DEF Shipper, StartRegister, Registered, IdentityUnsaved, SaveToken,
         TokenUnsaved, RegisterFails, ShipBatch,
           ShipConfirmed, ShipRefused, ClearUnsaved, ShipFails, ShipEscapes, ShipEnds, Timeout
  <2> QED  BY <2>1, PartsStable
<1>2. ShipperTypeOK'
  <2> USE <1>0 DEF TypeOK, ShipperTypeOK, Phases
  <2>1. CASE StartRegister
    BY <2>1 DEF StartRegister, DrawUuid, SpoolTypeOK, Calls
  <2>2. CASE Registered \/ IdentityUnsaved
    <3>1. \A a \in answers : a.probe \in Calls \cup {NoProbe} /\ a.token \in Calls \cup {NoToken}
      BY DEF NetworkTypeOK, AnswerType
    <3>2. CASE Registered
      BY <3>1, <3>2 DEF Registered, CallEnds
    <3>3. CASE IdentityUnsaved
      BY <3>1, <3>3 DEF IdentityUnsaved, CallEnds
    <3> QED  BY <2>2, <3>2, <3>3
  <2>3. CASE SaveToken \/ TokenUnsaved
    BY <2>3 DEF SaveToken, TokenUnsaved
  <2>4. CASE RegisterFails
    BY <2>4 DEF RegisterFails, CallEnds
  <2>5. CASE ShipBatch
    BY <2>5 DEF ShipBatch, Claim, SpoolTypeOK, Calls
  <2>6. CASE ShipConfirmed \/ ShipFails \/ ShipEscapes
    BY <2>6 DEF ShipConfirmed, ShipFails, ShipEscapes, ShipEnds, CallEnds
  <2>7. CASE ShipRefused \/ ClearUnsaved
    BY <2>7 DEF ShipRefused, ClearUnsaved, ShipEnds, CallEnds
  <2>8. CASE Timeout
    BY <2>8 DEF Timeout, CallEnds
  <2> QED
    BY <2>1, <2>2, <2>3, <2>4, <2>5, <2>6, <2>7, <2>8 DEF Shipper
<1>3. NetworkTypeOK'
  <2>1. CASE StartRegister \/ ShipBatch
    <3>1. PICK kind \in {"register", "ingest"}, rows \in SUBSET Rows :
            requests' = requests \cup {Request(kind, nextUuid, rows)}
      BY <2>1 DEF StartRegister, ShipBatch
    <3>2. nextUuid \in Calls'
      BY <2>1 DEF StartRegister, ShipBatch, DrawUuid, Claim, TypeOK, SpoolTypeOK, Calls
    <3>3. Rows \subseteq 1 .. nextId' - 1
      BY <1>0 DEF TypeOK, SpoolTypeOK
    <3>4. Request(kind, nextUuid, rows) \in RequestType'
      BY <1>0, <3>2, <3>3 DEF Request, RequestType, TypeOK, ShipperTypeOK
    <3>5. requests \in SUBSET RequestType'
      BY <1>0 DEF TypeOK, NetworkTypeOK, RequestType
    <3>6. UNCHANGED <<answers, faults>>
      BY <2>1 DEF StartRegister, ShipBatch
    <3> QED  BY <3>1, <3>4, <3>5, <3>6, PartsStable DEF NetworkTypeOK, TypeOK
  <2>2. CASE SaveToken \/ TokenUnsaved
    BY <2>2, PartsStable DEF SaveToken, TokenUnsaved, Fault, networkVars, NetworkTypeOK, TypeOK
  <2>3. CASE \/ Registered \/ IdentityUnsaved \/ RegisterFails \/ ShipConfirmed \/ ShipRefused
             \/ ClearUnsaved \/ ShipFails \/ ShipEscapes \/ Timeout
    <3>1. UNCHANGED requests /\ answers' = {}
      BY <2>3 DEF Registered, IdentityUnsaved, RegisterFails, ShipConfirmed, ShipRefused,
                  ClearUnsaved, ShipFails, ShipEscapes, ShipEnds, CallEnds, Timeout
    <3>2. faults' \in 0 .. MaxFaults
      BY <2>3 DEF Registered, IdentityUnsaved, RegisterFails, ShipConfirmed, ShipRefused,
                  ClearUnsaved, ShipFails, ShipEscapes, ShipEnds, Timeout, Fault, TypeOK,
                  NetworkTypeOK
    <3> QED  BY <3>1, <3>2, PartsStable DEF NetworkTypeOK
  <2> QED  BY <2>1, <2>2, <2>3 DEF Shipper
<1> QED  BY <1>0, <1>1, <1>2, <1>3 DEF TypeOK

(* An answer to a typed request, and the request's removal, are typed.       *)
LEMMA ReplyTyped ==
    ASSUME TypeOK, [SpoolNext]_spoolVars,
           NEW req \in requests, NEW answer \in AnswerType, Reply(req, answer)
    PROVE  (requests \in SUBSET RequestType /\ answers \in SUBSET AnswerType)'
<1>1. Calls \subseteq Calls' /\ 1 .. nextId - 1 \subseteq 1 .. nextId' - 1
  BY SpoolGrows DEF TypeOK
<1>2. RequestType \subseteq RequestType' /\ AnswerType \subseteq AnswerType'
  BY <1>1 DEF RequestType, AnswerType
<1> QED  BY <1>2 DEF TypeOK, NetworkTypeOK, Reply

LEMMA ServerTyped ==
    ASSUME TypeOK, UNCHANGED spoolVars, Server
    PROVE  TypeOK'
<1>0. /\ Calls' = Calls /\ nextId' = nextId /\ SpoolTypeOK'
      /\ [SpoolNext]_spoolVars
  BY DEF spoolVars, Calls, TypeOK, SpoolTypeOK
<1>1. PICK req \in requests : HandleRegister(req) \/ Authenticate(req) \/ HandleIngest(req)
  BY DEF Server
<1>2. req \in RequestType
  BY DEF TypeOK, NetworkTypeOK
<1>3. UNCHANGED shipperVars /\ faults' = faults
  BY <1>1 DEF HandleRegister, Authenticate, HandleIngest
<1>4. ShipperTypeOK' /\ faults' \in 0 .. MaxFaults
  BY <1>0, <1>3, PartsStable DEF TypeOK, NetworkTypeOK
<1>5. CASE HandleRegister(req)
  <2>1. RegisteredId(req) \in Calls
    BY <1>2 DEF RegisteredId, RequestType
  <2>2. ServerTypeOK'
    BY <1>0, <1>2, <1>5, <2>1 DEF TypeOK, ServerTypeOK, HandleRegister, RegisterProbe, RequestType
  <2>3. Answer(req.call, 200, "ours", RegisteredId(req), req.call) \in AnswerType
    BY <1>2, <2>1 DEF Answer, AnswerType, RequestType
  <2> QED
    BY <1>0, <1>4, <1>5, <2>2, <2>3, ReplyTyped DEF HandleRegister, TypeOK, NetworkTypeOK
<1>6. CASE Authenticate(req)
  <2>1. ServerTypeOK'
    BY <1>0, <1>6, PartsStable DEF Authenticate
  <2>2. \A s \in {401, 403, 413} : Answer(req.call, s, "ours", NoProbe, NoToken) \in AnswerType
    BY <1>2 DEF Answer, AnswerType, RequestType
  <2>3. AuthStatus(req) \in {0, 401, 403}
    BY DEF AuthStatus
  <2>4. CASE \E s \in {401, 403, 413} : Refuse(req, s)
    BY <1>0, <1>4, <2>1, <2>2, <2>4, ReplyTyped DEF Refuse, TypeOK, NetworkTypeOK
  <2>5. CASE /\ requests' = (requests \ {req}) \cup {[req EXCEPT !.stage = "admitted"]}
             /\ UNCHANGED answers
    <3>1. [req EXCEPT !.stage = "admitted"] \in RequestType
      BY <1>2 DEF RequestType
    <3>2. RequestType' = RequestType /\ AnswerType' = AnswerType
      BY <1>0 DEF RequestType, AnswerType
    <3> QED
      BY <1>0, <1>4, <2>1, <2>5, <3>1, <3>2 DEF TypeOK, NetworkTypeOK
  <2> QED  BY <1>6, <2>3, <2>4, <2>5 DEF Authenticate
<1>7. CASE HandleIngest(req)
  <2>1. CopiesOf(req) \subseteq [row : 1 .. nextId - 1, batch : Calls,
                                 probe : Calls \cup {NoProbe}]
    BY <1>2 DEF CopiesOf, RequestType
  <2>2. ServerTypeOK'
    BY <1>0, <1>2, <1>7, <2>1 DEF TypeOK, ServerTypeOK, HandleIngest, ApplyBatch,
                        AlreadyApplied, RequestType
  <2>3. Accepted(req) \in AnswerType
    BY <1>2 DEF Accepted, Answer, AnswerType, RequestType
  <2> QED
    BY <1>0, <1>4, <1>7, <2>2, <2>3, ReplyTyped DEF HandleIngest, TypeOK, NetworkTypeOK
<1> QED  BY <1>1, <1>5, <1>6, <1>7

LEMMA EnvironmentTyped ==
    ASSUME TypeOK, UNCHANGED spoolVars, Environment
    PROVE  TypeOK'
<1>0. /\ Calls' = Calls /\ nextId' = nextId /\ SpoolTypeOK'
      /\ [SpoolNext]_spoolVars
  BY DEF spoolVars, Calls, TypeOK, SpoolTypeOK
<1>1. ShipperTypeOK' /\ faults' \in 0 .. MaxFaults
  <2>1. UNCHANGED shipperVars
    BY DEF Environment, ServerFails, RewindFails, ProtocolSkew, LoseRequest, LoseAnswer,
           PortalAnswers, Retire
  <2>2. faults' = faults \/ (faults < MaxFaults /\ faults' = faults + 1)
    BY DEF Environment, ServerFails, RewindFails, ProtocolSkew, LoseRequest, LoseAnswer,
           PortalAnswers, Retire, Fault
  <2> QED  BY <1>0, <2>1, <2>2, PartsStable DEF TypeOK, NetworkTypeOK
<1>2. ASSUME NEW req \in requests, NEW status \in {200, 400, 500},
             NEW body \in {"ours", "json", "html"}
      PROVE  Answer(req.call, status, body, NoProbe, NoToken) \in AnswerType
  BY DEF Answer, AnswerType, RequestType, TypeOK, NetworkTypeOK
<1>3. ASSUME NEW req \in requests,
             ServerFails(req) \/ ProtocolSkew(req) \/ PortalAnswers(req)
      PROVE  TypeOK'
  <2>1. PICK answer \in AnswerType : Reply(req, answer)
    BY <1>2, <1>3 DEF ServerFails, ProtocolSkew, PortalAnswers, Refuse
  <2>2. UNCHANGED serverVars
    BY <1>3 DEF ServerFails, ProtocolSkew, PortalAnswers
  <2> QED
    BY <1>0, <1>1, <2>1, <2>2, ReplyTyped, PartsStable DEF TypeOK, NetworkTypeOK
<1>4. ASSUME NEW req \in requests, RewindFails(req)
      PROVE  TypeOK'
  <2>1. req \in RequestType
    BY DEF TypeOK, NetworkTypeOK
  <2>2. CopiesOf(req) \subseteq [row : 1 .. nextId - 1, batch : Calls,
                                 probe : Calls \cup {NoProbe}]
    BY <2>1 DEF CopiesOf, RequestType
  <2>3. ServerTypeOK'
    BY <1>0, <1>4, <2>1, <2>2 DEF TypeOK, ServerTypeOK, RewindFails, ApplyBatch, AlreadyApplied,
                        RequestType
  <2>4. Reply(req, Answer(req.call, 500, "ours", NoProbe, NoToken))
    BY <1>4 DEF RewindFails, Refuse
  <2> QED
    BY <1>0, <1>1, <1>2, <2>3, <2>4, ReplyTyped DEF TypeOK, NetworkTypeOK
<1>5. ASSUME NEW req \in requests, LoseRequest(req)
      PROVE  TypeOK'
  <2>1. requests' \subseteq requests /\ UNCHANGED <<answers, serverVars>>
    BY <1>5 DEF LoseRequest
  <2>2. RequestType' = RequestType
    BY <1>0 DEF RequestType
  <2> QED  BY <1>0, <1>1, <2>1, <2>2, PartsStable DEF TypeOK, NetworkTypeOK
<1>6. CASE LoseAnswer
  <2>1. answers' = {} /\ UNCHANGED <<requests, serverVars>>
    BY <1>6 DEF LoseAnswer
  <2> QED  BY <1>0, <1>1, <2>1, PartsStable DEF TypeOK, NetworkTypeOK
<1>7. CASE Retire
  <2>1. UNCHANGED <<requests, answers, batches, samples>>
    BY <1>7 DEF Retire, networkVars
  <2>2. ServerTypeOK'
    BY <1>0, <1>7, <2>1 DEF Retire, RetireProbe, TypeOK, ServerTypeOK
  <2> QED  BY <1>0, <1>1, <2>1, <2>2, PartsStable DEF TypeOK, NetworkTypeOK
<1> QED  BY <1>3, <1>4, <1>5, <1>6, <1>7 DEF Environment

LEMMA CollectTyped ==
    ASSUME TypeOK, [SpoolNext]_spoolVars, Collect
    PROVE  TypeOK'
<1>1. UNCHANGED <<serverVars, shipperVars, requests, answers, faults>>
  BY DEF Collect, networkVars
<1>2. SpoolTypeOK'
  BY SpoolGrows DEF TypeOK
<1> QED  BY <1>1, <1>2, PartsStable DEF TypeOK, NetworkTypeOK

LEMMA RestartTyped ==
    ASSUME TypeOK, [SpoolNext]_spoolVars, Restart
    PROVE  TypeOK'
<1>1. UNCHANGED <<serverVars, requests, faults, identity>> /\ answers' = {}
  BY DEF Restart, CallEnds
<1>2. SpoolTypeOK' /\ Calls \subseteq Calls'
  BY SpoolGrows DEF TypeOK
<1>3. ShipperTypeOK'
  BY <1>1, <1>2 DEF Restart, CallEnds, TypeOK, ShipperTypeOK, Phases
<1> QED  BY <1>1, <1>2, <1>3, PartsStable DEF TypeOK, NetworkTypeOK

LEMMA StepTyped == TypeOK /\ [Next]_vars => TypeOK'
<1> SUFFICES ASSUME TypeOK, [Next]_vars PROVE TypeOK'
  OBVIOUS
<1>1. [SpoolNext]_spoolVars
  BY StepOrStutter
<1>2. CASE UNCHANGED vars
  <2>1. SpoolTypeOK' /\ UNCHANGED <<serverVars, shipperVars, requests, answers, faults>>
    BY <1>1, <1>2, SpoolGrows DEF vars, networkVars, TypeOK
  <2> QED  BY <1>1, <2>1, PartsStable DEF TypeOK, NetworkTypeOK
<1>3. CASE Shipper \/ Collect \/ Restart
  BY <1>1, <1>3, ShipperTyped, CollectTyped, RestartTyped
<1>4. CASE Server \/ Environment
  <2>1. UNCHANGED spoolVars
    BY <1>4 DEF Server, HandleRegister, Authenticate, HandleIngest, Environment,
                ServerFails, RewindFails, ProtocolSkew, LoseRequest, LoseAnswer,
                PortalAnswers, Retire
  <2> QED  BY <1>4, <2>1, ServerTyped, EnvironmentTyped
<1> QED  BY <1>2, <1>3, <1>4 DEF Next

(* The whole system's state always has its types.                            *)
THEOREM TypeCorrect == Spec => []TypeOK
BY InitTyped, StepTyped, PTL DEF Spec

-----------------------------------------------------------------------------
(* Nothing is lost in silence                                                *)

(* The thread waits exactly while a call is open, and it owns a batch exactly *)
(* while that call ships it.                                                  *)
CallInv ==
    /\ phase \in {"registering", "sending"} <=> call # NoCall
    /\ phase = "sending" <=> batch # NoBatch
    /\ phase = "sending" => batch = call
    /\ call = NoCall => answers = {}

(* A request, however late, holds all the rows still claimed for it; two     *)
(* requests are never the same call; and what the server has recorded as     *)
(* applied it has stored.                                                    *)
RequestInv ==
    /\ \A p, q \in requests : p.call = q.call => p = q
    /\ \A q \in requests :
          q.call = call => q.kind = (IF phase = "sending" THEN "ingest" ELSE "register")
    /\ \A q \in requests : q.kind = "ingest" => RowsOf(q.call) \subseteq q.rows
    /\ \A q \in requests :
          q.kind = "ingest" /\ q.call \in batches => q.rows \subseteq Stored

LossInv == TypeOK /\ CallInv /\ RequestInv /\ AnswerMeansStored /\ NoSilentLoss

LEMMA LossInvInit == Init => LossInv
BY InitTyped DEF Init, LossInv, CallInv, RequestInv, AnswerMeansStored, NoSilentLoss, SpoolInit

(* No step gives a row to a batch already sent.                              *)
LEMMA ClaimsShrink ==
    ASSUME SpoolTypeOK, [SpoolNext]_spoolVars, NEW b \in Calls
    PROVE  RowsOf(b)' \subseteq RowsOf(b)
<1> USE DEF RowsOf, SpoolTypeOK, Calls
<1>1. CASE Collector
  <2>1. ASSUME NEW n \in 1 .. WriteRows, Write(n) PROVE RowsOf(b)' \subseteq RowsOf(b)
    BY <2>1 DEF Write, Add
  <2>2. CASE TrimCount \/ TrimDelete
    BY <2>2 DEF TrimCount, TrimDelete
  <2> QED  BY <1>1, <2>1, <2>2 DEF Collector
<1>2. CASE Claim
  BY <1>2 DEF Claim, ClaimBatch
<1>3. CASE Confirm \/ Release
  BY <1>3 DEF Confirm, ConfirmBatch, Release, ReleaseBatch
<1>4. CASE Abandon \/ DrawUuid \/ UNCHANGED spoolVars
  BY <1>4 DEF Abandon, DrawUuid, spoolVars
<1>5. CASE RestartSpool
  BY <1>5 DEF RestartSpool, ReclaimOrphans
<1> QED  BY <1>1, <1>2, <1>3, <1>4, <1>5 DEF SpoolNext

(* A step of the agent that leaves the wire alone.                           *)
LEMMA RequestsKept ==
    ASSUME LossInv, [SpoolNext]_spoolVars, UNCHANGED <<batches, samples, requests>>,
           \/ call' = NoCall
           \/ call' = call /\ (phase' = "sending" <=> phase = "sending")
    PROVE  RequestInv'
<1>1. \A q \in requests : q.call \in Calls /\ q.call # NoCall
  BY DEF LossInv, TypeOK, NetworkTypeOK, RequestType, Calls
<1>2. \A q \in requests : RowsOf(q.call)' \subseteq RowsOf(q.call)
  BY <1>1, ClaimsShrink DEF LossInv, TypeOK
<1>3. Stored' = Stored
  BY DEF Stored
<1> QED  BY <1>1, <1>2, <1>3 DEF LossInv, RequestInv

(* A step of the agent that makes a call: nobody has made it before.         *)
LEMMA RequestAdded ==
    ASSUME LossInv, [SpoolNext]_spoolVars, UNCHANGED <<batches, samples>>,
           NEW new, requests' = requests \cup {new}, new.call = nextUuid,
           call' = nextUuid,
           new.kind = (IF phase' = "sending" THEN "ingest" ELSE "register"),
           new.kind = "ingest" => RowsOf(new.call)' \subseteq new.rows
    PROVE  RequestInv'
<1>1. /\ nextUuid \notin Calls /\ nextUuid \notin batches
      /\ \A q \in requests : q.call \in Calls
  BY DEF LossInv, TypeOK, SpoolTypeOK, Calls, NetworkTypeOK, RequestType, ServerTypeOK
<1>2. \A q \in requests : RowsOf(q.call)' \subseteq RowsOf(q.call)
  BY <1>1, ClaimsShrink DEF LossInv, TypeOK
<1>3. Stored' = Stored
  BY DEF Stored
<1>4. \A p, q \in requests' : p.call = q.call => p = q
  BY <1>1 DEF LossInv, RequestInv
<1>5. \A q \in requests' :
        q.call = call' => q.kind = (IF phase' = "sending" THEN "ingest" ELSE "register")
  BY <1>1
<1>6. \A q \in requests' : q.kind = "ingest" => RowsOf(q.call)' \subseteq q.rows
  BY <1>2 DEF LossInv, RequestInv
<1>7. \A q \in requests' : q.kind = "ingest" /\ q.call \in batches' => q.rows \subseteq Stored'
  BY <1>1, <1>3 DEF LossInv, RequestInv
<1> QED  BY <1>4, <1>5, <1>6, <1>7 DEF RequestInv

(* The shipping thread deletes only what an answer has shown to be stored.   *)
LEMMA ShipperLoss ==
    ASSUME LossInv, [SpoolNext]_spoolVars, Shipper
    PROVE  CallInv' /\ RequestInv' /\ AnswerMeansStored' /\ NoSilentLoss'
<1> USE DEF LossInv
<1>0. /\ nextUuid # NoCall /\ call # nextUuid /\ UNCHANGED serverVars
      /\ Stored' = Stored /\ batches' = batches /\ samples' = samples
  BY DEF Shipper, StartRegister, Registered, IdentityUnsaved, SaveToken, TokenUnsaved,
         RegisterFails, ShipBatch, ShipConfirmed, ShipRefused, ClearUnsaved, ShipFails,
         ShipEscapes, ShipEnds, Timeout, serverVars, Stored, TypeOK, SpoolTypeOK, ShipperTypeOK,
         Calls
<1>1. CASE StartRegister
  <2>1. PICK new : new = Request("register", nextUuid, {})
    OBVIOUS
  <2>2. /\ phase' = "registering" /\ call' = nextUuid /\ requests' = requests \cup {new}
        /\ UNCHANGED <<batch, spool, nextId, trimmed, answers>>
    BY <1>1, <2>1 DEF StartRegister, DrawUuid, collectorVars
  <2>3. new.call = nextUuid /\ new.kind = "register"
    BY <2>1 DEF Request
  <2>4. RequestInv'
    BY <1>0, <2>2, <2>3, RequestAdded
  <2>5. phase = "idle"
    BY <1>1 DEF StartRegister
  <2> QED
    BY <1>0, <2>2, <2>4, <2>5 DEF CallInv, AnswerMeansStored, NoSilentLoss
<1>2. CASE ShipBatch
  <2> DEFINE rows == {r \in Rows : spool'[r] = nextUuid}
  <2>1. PICK new : new = Request("ingest", nextUuid, rows)
    OBVIOUS
  <2>2. /\ phase' = "sending" /\ call' = nextUuid /\ batch' = nextUuid
        /\ requests' = requests \cup {new}
        /\ Rows' = Rows /\ UNCHANGED <<nextId, trimmed, answers>>
    BY <1>2, <2>1 DEF ShipBatch, Claim, ClaimBatch, collectorVars
  <2>3. new.call = nextUuid /\ new.kind = "ingest" /\ new.rows = rows
    BY <2>1 DEF Request
  <2>4. RowsOf(new.call)' \subseteq new.rows
    BY <2>2, <2>3 DEF RowsOf
  <2>5. RequestInv'
    BY <1>0, <2>2, <2>3, <2>4, RequestAdded
  <2>6. phase = "idle"
    BY <1>2 DEF ShipBatch
  <2> QED
    BY <1>0, <2>2, <2>5, <2>6 DEF CallInv, AnswerMeansStored, NoSilentLoss
<1>3. CASE SaveToken \/ TokenUnsaved
  <2>1. /\ phase = "saving" /\ phase' = "idle"
        /\ UNCHANGED <<call, batch, spool, nextId, trimmed, answers, requests>>
    BY <1>3 DEF SaveToken, TokenUnsaved, spoolVars, networkVars
  <2>2. RequestInv'
    BY <1>0, <2>1, RequestsKept
  <2> QED
    BY <1>0, <2>1, <2>2 DEF CallInv, AnswerMeansStored, NoSilentLoss
<1>4. CASE \/ Registered \/ IdentityUnsaved \/ RegisterFails \/ ShipConfirmed \/ ShipRefused
           \/ ClearUnsaved \/ ShipFails \/ ShipEscapes \/ Timeout
  <2>1. /\ phase' \in {"idle", "saving"} /\ call' = NoCall /\ answers' = {}
        /\ requests' = requests
    BY <1>4 DEF Registered, IdentityUnsaved, RegisterFails, ShipConfirmed, ShipRefused,
                ClearUnsaved, ShipFails, ShipEscapes, ShipEnds, CallEnds, Timeout
  <2>2. RequestInv'
    BY <1>0, <2>1, RequestsKept
  <2>3. batch' = NoBatch
    BY <1>4 DEF Registered, IdentityUnsaved, RegisterFails, ShipConfirmed, ShipRefused,
                ClearUnsaved, ShipFails, ShipEscapes, Timeout, Confirm, Release, Abandon,
                CallInv, spoolVars
  <2>4. CASE ShipConfirmed
    <3>1. phase = "sending" /\ (\E a \in answers : Succeeds(a)) /\ Confirm
      BY <2>4 DEF ShipConfirmed
    <3>2. RowsOf(batch) \subseteq Stored
      BY <3>1 DEF AnswerMeansStored
    <3>3. Rows' = Rows \ RowsOf(batch) /\ UNCHANGED <<nextId, trimmed>>
      BY <3>1 DEF Confirm, ConfirmBatch, collectorVars
    <3> QED
      BY <1>0, <2>1, <2>2, <2>3, <3>2, <3>3 DEF CallInv, AnswerMeansStored, NoSilentLoss
  <2>5. CASE ~ShipConfirmed
    <3>1. Rows' = Rows /\ UNCHANGED <<nextId, trimmed>>
      BY <1>4, <2>5 DEF Registered, IdentityUnsaved, RegisterFails, ShipRefused, ClearUnsaved,
                  ShipFails, ShipEscapes, Timeout, Release, ReleaseBatch, Abandon, spoolVars,
                  collectorVars
    <3> QED
      BY <1>0, <2>1, <2>2, <2>3, <3>1 DEF CallInv, AnswerMeansStored, NoSilentLoss
  <2> QED  BY <2>4, <2>5
<1> QED  BY <1>1, <1>2, <1>3, <1>4 DEF Shipper

(* The collection loop loses a row only by trimming it.                      *)
LEMMA CollectLoss ==
    ASSUME LossInv, [SpoolNext]_spoolVars, Collect
    PROVE  CallInv' /\ RequestInv' /\ AnswerMeansStored' /\ NoSilentLoss'
<1> USE DEF LossInv
<1>1. /\ UNCHANGED <<batches, samples, requests, answers, phase, call, batch>>
      /\ Stored' = Stored
  BY DEF Collect, serverVars, networkVars, shipperVars, Collector, Write, TrimCount,
         TrimDelete, Stored
<1>2. RequestInv'
  BY <1>1, RequestsKept
<1>3. CallInv'
  BY <1>1 DEF CallInv
<1>4. AnswerMeansStored'
  <2>1. CASE phase = "sending"
    <3>1. batch \in Calls
      BY <2>1 DEF CallInv, TypeOK, SpoolTypeOK, Calls
    <3>2. RowsOf(batch)' \subseteq RowsOf(batch)
      BY <1>1, <3>1, ClaimsShrink DEF TypeOK, RowsOf
    <3> QED  BY <1>1, <3>2 DEF AnswerMeansStored
  <2>2. CASE phase # "sending"
    BY <1>1, <2>2 DEF AnswerMeansStored
  <2> QED  BY <2>1, <2>2
<1>5. NoSilentLoss'
  <2>1. ASSUME NEW n \in 1 .. WriteRows, Write(n)
        PROVE  NoSilentLoss'
    BY <1>1, <2>1 DEF Write, Add, NoSilentLoss, TypeOK, SpoolTypeOK
  <2>2. CASE TrimCount
    BY <1>1, <2>2 DEF TrimCount, NoSilentLoss
  <2>3. CASE TrimDelete
    BY <1>1, <2>3 DEF TrimDelete, NoSilentLoss
  <2> QED  BY <2>1, <2>2, <2>3 DEF Collect, Collector
<1> QED  BY <1>2, <1>3, <1>4, <1>5

(* A restart keeps every row and waits for nothing.                          *)
LEMMA RestartLoss ==
    ASSUME LossInv, [SpoolNext]_spoolVars, Restart
    PROVE  CallInv' /\ RequestInv' /\ AnswerMeansStored' /\ NoSilentLoss'
<1> USE DEF LossInv
<1>1. /\ UNCHANGED <<batches, samples, requests, nextId, trimmed>>
      /\ Stored' = Stored /\ Rows' = Rows
      /\ phase' = "idle" /\ call' = NoCall /\ answers' = {} /\ batch' = NoBatch
  BY DEF Restart, RestartSpool, ReclaimOrphans, CallEnds, serverVars, Stored
<1>2. RequestInv'
  BY <1>1, RequestsKept
<1> QED  BY <1>1, <1>2 DEF CallInv, AnswerMeansStored, NoSilentLoss

(* The server answers a request, or the request is lost: what is left on the *)
(* wire is as it was, provided the samples only grow.                        *)
LEMMA AnsweredLoss ==
    ASSUME LossInv, UNCHANGED <<spoolVars, phase, call>>,
           NEW req \in requests, requests' = requests \ {req},
           Stored \subseteq Stored',
           batches' \subseteq batches \cup {req.call},
           call = NoCall => answers' = {},
           \A a \in answers' \ answers :
              phase = "sending" /\ Succeeds(a) => RowsOf(batch) \subseteq Stored'
    PROVE  CallInv' /\ RequestInv' /\ AnswerMeansStored' /\ NoSilentLoss'
<1> USE DEF LossInv, spoolVars
<1>1. CallInv'
  BY DEF CallInv
<1>2. RequestInv'
  BY DEF RequestInv, RowsOf
<1>3. RowsOf(batch)' = RowsOf(batch)
  BY DEF RowsOf
<1>4. AnswerMeansStored'
  BY <1>3 DEF AnswerMeansStored, Succeeds
<1>5. NoSilentLoss'
  BY DEF NoSilentLoss
<1> QED  BY <1>1, <1>2, <1>4, <1>5

LEMMA StoredGrows ==
    ASSUME samples \subseteq samples'
    PROVE  Stored \subseteq Stored'
BY DEF Stored

(* What ApplyBatch leaves behind, whether the batch is new or a repeat.      *)
LEMMA ApplyStores ==
    ASSUME LossInv, NEW req \in requests, req.kind = "ingest", ApplyBatch(req)
    PROVE  /\ samples \subseteq samples'
           /\ batches' = batches \cup {req.call}
           /\ req.rows \subseteq Stored'
<1>1. CASE req.call \in batches
  BY <1>1 DEF ApplyBatch, AlreadyApplied, LossInv, RequestInv, Stored
<1>2. CASE req.call \notin batches
  <2>1. samples' = samples \cup CopiesOf(req) /\ batches' = batches \cup {req.call}
    BY <1>2 DEF ApplyBatch, AlreadyApplied
  <2>2. ASSUME NEW r \in req.rows PROVE \E c \in CopiesOf(req) : c.row = r
    <3>1. [row |-> r, batch |-> req.call, probe |-> req.probe] \in CopiesOf(req)
      BY DEF CopiesOf
    <3> QED  BY <3>1
  <2> QED  BY <2>1, <2>2 DEF Stored
<1> QED  BY <1>1, <1>2

LEMMA CallsOpen ==
    ASSUME LossInv, NEW req \in requests
    PROVE  req.call \in Calls /\ req.call # NoCall
BY DEF LossInv, TypeOK, NetworkTypeOK, RequestType, Calls

(* A success answer to an ingest leaves only after its rows are stored.      *)
LEMMA ServerLoss ==
    ASSUME LossInv, UNCHANGED spoolVars, Server
    PROVE  CallInv' /\ RequestInv' /\ AnswerMeansStored' /\ NoSilentLoss'
<1>1. PICK req \in requests : HandleRegister(req) \/ Authenticate(req) \/ HandleIngest(req)
  BY DEF Server
<1>2. req.call # NoCall
  BY CallsOpen
<1>3. UNCHANGED <<phase, call>>
  BY <1>1 DEF HandleRegister, Authenticate, HandleIngest, shipperVars
<1>4. call = NoCall => answers = {}
  BY DEF LossInv, CallInv
<1>5. CASE HandleRegister(req)
  <2>1. UNCHANGED <<batches, samples>> /\ requests' = requests \ {req}
    BY <1>5 DEF HandleRegister, Reply
  <2>2. req.call = call => phase # "sending"
    BY <1>5 DEF HandleRegister, LossInv, RequestInv
  <2>3. /\ call = NoCall => answers' = {}
        /\ \A a \in answers' \ answers : phase # "sending"
    BY <1>2, <1>4, <1>5, <2>2 DEF HandleRegister, Reply
  <2> QED  BY <1>3, <2>1, <2>3, AnsweredLoss, StoredGrows
<1>6. CASE Authenticate(req)
  <2>1. UNCHANGED <<batches, samples>> /\ req.kind = "ingest"
    BY <1>6 DEF Authenticate, serverVars
  <2>2. AuthStatus(req) \in {0, 401, 403}
    BY DEF AuthStatus
  <2>3. CASE \E s \in {401, 403, 413} : Refuse(req, s)
    <3>1. requests' = requests \ {req}
      BY <2>3 DEF Refuse, Reply
    <3>2. /\ call = NoCall => answers' = {}
          /\ \A a \in answers' \ answers : ~Succeeds(a)
      BY <1>2, <1>4, <2>3 DEF Refuse, Reply, Answer, Succeeds, Success
    <3> QED  BY <1>3, <2>1, <3>1, <3>2, AnsweredLoss, StoredGrows
  <2>4. CASE /\ requests' = (requests \ {req}) \cup {[req EXCEPT !.stage = "admitted"]}
             /\ UNCHANGED answers
    <3>1. PICK r2 : r2 = [req EXCEPT !.stage = "admitted"]
      OBVIOUS
    <3>2. r2.call = req.call /\ r2.kind = req.kind /\ r2.rows = req.rows
      BY <3>1 DEF LossInv, TypeOK, NetworkTypeOK, RequestType
    <3>3. requests' = (requests \ {req}) \cup {r2}
      BY <2>4, <3>1
    <3>4. UNCHANGED <<Stored, spool, batch, nextId, trimmed>>
      BY <2>1 DEF Stored, spoolVars
    <3>5. RequestInv'
      BY <1>3, <2>1, <3>2, <3>3, <3>4 DEF LossInv, RequestInv, RowsOf
    <3>6. CallInv'
      BY <1>3, <2>4, <3>4 DEF LossInv, CallInv
    <3>7. AnswerMeansStored' /\ NoSilentLoss'
      BY <1>3, <2>4, <3>4 DEF LossInv, AnswerMeansStored, RowsOf, NoSilentLoss
    <3> QED  BY <3>5, <3>6, <3>7
  <2> QED  BY <1>6, <2>2, <2>3, <2>4 DEF Authenticate
<1>7. CASE HandleIngest(req)
  <2>1. req.kind = "ingest" /\ ApplyBatch(req) /\ requests' = requests \ {req}
    BY <1>7 DEF HandleIngest, Reply
  <2>2. /\ samples \subseteq samples' /\ batches' = batches \cup {req.call}
        /\ req.rows \subseteq Stored'
    BY <2>1, ApplyStores
  <2>3. req.call = call /\ phase = "sending" => RowsOf(batch) \subseteq req.rows
    BY <2>1 DEF LossInv, RequestInv, CallInv
  <2>4. /\ call = NoCall => answers' = {}
        /\ \A a \in answers' \ answers :
              phase = "sending" => RowsOf(batch) \subseteq Stored'
    BY <1>2, <1>4, <1>7, <2>2, <2>3 DEF HandleIngest, Reply
  <2> QED  BY <1>3, <2>1, <2>2, <2>4, AnsweredLoss, StoredGrows
<1> QED  BY <1>1, <1>5, <1>6, <1>7

(* No fault deletes a row or fakes a success the agent would believe.        *)
LEMMA EnvironmentLoss ==
    ASSUME LossInv, UNCHANGED spoolVars, Environment
    PROVE  CallInv' /\ RequestInv' /\ AnswerMeansStored' /\ NoSilentLoss'
<1>1. UNCHANGED <<phase, call>>
  BY DEF Environment, ServerFails, RewindFails, ProtocolSkew, LoseRequest, LoseAnswer,
         PortalAnswers, Retire, shipperVars
<1>2. call = NoCall => answers = {}
  BY DEF LossInv, CallInv
<1>3. ASSUME NEW req \in requests,
             ServerFails(req) \/ ProtocolSkew(req) \/ PortalAnswers(req) \/ LoseRequest(req)
      PROVE  CallInv' /\ RequestInv' /\ AnswerMeansStored' /\ NoSilentLoss'
  <2>1. UNCHANGED <<batches, samples>> /\ requests' = requests \ {req}
    BY <1>3 DEF ServerFails, ProtocolSkew, PortalAnswers, LoseRequest, Refuse, Reply, serverVars
  <2>2. /\ call = NoCall => answers' = {}
        /\ \A a \in answers' \ answers : ~Succeeds(a)
    BY <1>2, <1>3, CallsOpen DEF ServerFails, ProtocolSkew, PortalAnswers, LoseRequest,
        Refuse, Reply, Answer, Succeeds, Success
  <2> QED  BY <1>1, <2>1, <2>2, AnsweredLoss, StoredGrows
<1>4. ASSUME NEW req \in requests, RewindFails(req)
      PROVE  CallInv' /\ RequestInv' /\ AnswerMeansStored' /\ NoSilentLoss'
  <2>1. req.kind = "ingest" /\ ApplyBatch(req) /\ requests' = requests \ {req}
    BY <1>4 DEF RewindFails, Refuse, Reply
  <2>2. samples \subseteq samples' /\ batches' = batches \cup {req.call}
    BY <2>1, ApplyStores
  <2>3. /\ call = NoCall => answers' = {}
        /\ \A a \in answers' \ answers : ~Succeeds(a)
    BY <1>2, <1>4, CallsOpen DEF RewindFails, Refuse, Reply, Answer, Succeeds, Success
  <2> QED  BY <1>1, <2>1, <2>2, <2>3, AnsweredLoss, StoredGrows
<1>5. CASE LoseAnswer \/ Retire
  <2>1. /\ UNCHANGED <<batches, samples, requests, spool, batch, nextId, trimmed>>
        /\ answers' \subseteq answers
    BY <1>5 DEF LoseAnswer, Retire, serverVars, networkVars, spoolVars
  <2>2. Stored' = Stored
    BY <2>1 DEF Stored
  <2> QED
    BY <1>1, <2>1, <2>2 DEF LossInv, CallInv, RequestInv, AnswerMeansStored, NoSilentLoss,
                            RowsOf
<1> QED  BY <1>3, <1>4, <1>5 DEF Environment

LEMMA LossInvStep == LossInv /\ [Next]_vars => LossInv'
<1> SUFFICES ASSUME LossInv, [Next]_vars PROVE LossInv'
  OBVIOUS
<1>1. TypeOK' /\ [SpoolNext]_spoolVars
  BY StepTyped, StepOrStutter DEF LossInv
<1>2. CASE UNCHANGED vars
  <2>1. UNCHANGED <<spool, batch, nextId, trimmed, phase, call, requests, answers, batches, samples>>
    BY <1>2 DEF vars, spoolVars, serverVars, shipperVars, networkVars
  <2>2. Stored' = Stored
    BY <2>1 DEF Stored
  <2> QED
    BY <1>1, <2>1, <2>2 DEF LossInv, CallInv, RequestInv, AnswerMeansStored, NoSilentLoss,
                            RowsOf
<1>3. CASE Shipper \/ Collect \/ Restart
  BY <1>1, <1>3, ShipperLoss, CollectLoss, RestartLoss DEF LossInv
<1>4. CASE Server \/ Environment
  <2>1. UNCHANGED spoolVars
    BY <1>4 DEF Server, HandleRegister, Authenticate, HandleIngest, Environment,
                ServerFails, RewindFails, ProtocolSkew, LoseRequest, LoseAnswer,
                PortalAnswers, Retire
  <2> QED  BY <1>1, <1>4, <2>1, ServerLoss, EnvironmentLoss DEF LossInv
<1> QED  BY <1>2, <1>3, <1>4 DEF Next

(* "Never delete data that has not been confirmed delivered": whatever is    *)
(* lost, delayed, refused, answered by a captive portal or cut short by a    *)
(* crash, every row ever measured is in the spool, at the server, or was     *)
(* dropped by a trim.                                                        *)
THEOREM NothingLostInSilence == Spec => []NoSilentLoss
<1>1. LossInv => NoSilentLoss
  BY DEF LossInv
<1> QED  BY LossInvInit, LossInvStep, <1>1, PTL DEF Spec

(* The agent never believes a success that does not cover what it deletes.   *)
THEOREM SuccessMeansStored == Spec => []AnswerMeansStored
<1>1. LossInv => AnswerMeansStored
  BY DEF LossInv
<1> QED  BY LossInvInit, LossInvStep, <1>1, PTL DEF Spec

-----------------------------------------------------------------------------
(* One history                                                               *)

\* The ids the agent may have gone by.
Known == ({identity.probe} \cup unsaved) \ {NoProbe}

(* The agent goes by the id of its table, or by one it failed to write there *)
(* while the table had none; everything sent and stored carries such an id,  *)
(* and an answer can only confirm it or, without one, establish it.          *)
HistoryInv ==
    /\ identity.probe \in {NoProbe, probeId}
    /\ probeId \in Known \cup {NoProbe}
    /\ \A q \in requests :
          q.kind = "register" /\ q.call = call => q.probe = probeId
    /\ \A a \in answers :
          phase = "registering" /\ Succeeds(a) =>
              a.probe # NoProbe /\ probeId \in {NoProbe, a.probe}
    /\ \A q \in requests : q.kind = "ingest" => q.probe \in Known
    /\ \A s \in samples : s.probe \in Known

LEMMA HistoryInvInit == Init => HistoryInv
BY DEF Init, IngestInit, HistoryInv, Known

(* What a request becomes in the samples table carries its probe id.         *)
LEMMA AppliedUnderOneProbe ==
    ASSUME HistoryInv, NEW req \in requests, req.kind = "ingest", ApplyBatch(req),
           Known' = Known
    PROVE  \A s \in samples' : s.probe \in Known'
<1>1. \A s \in CopiesOf(req) : s.probe = req.probe
  BY DEF CopiesOf
<1> QED  BY <1>1 DEF ApplyBatch, AlreadyApplied, HistoryInv

LEMMA ShipperHistory ==
    ASSUME LossInv, HistoryInv, Shipper
    PROVE  HistoryInv'
<1> USE DEF HistoryInv
<1>0. /\ samples' = samples
      /\ identity \in [probe : Calls \cup {NoProbe}, token : Calls \cup {NoToken}]
      /\ \A q \in requests : q.call \in Calls /\ q.call # NoCall
      /\ nextUuid \notin Calls
  BY CallsOpen DEF Shipper, StartRegister, Registered, IdentityUnsaved, SaveToken, TokenUnsaved,
                   RegisterFails, ShipBatch, ShipConfirmed, ShipRefused, ClearUnsaved,
                   ShipFails, ShipEscapes, ShipEnds, Timeout, serverVars, LossInv, TypeOK,
                   ShipperTypeOK, Calls
<1> USE DEF Known
<1>1. CASE StartRegister
  <2>1. PICK new : new = Request("register", nextUuid, {})
    OBVIOUS
  <2>2. new.kind = "register" /\ new.probe = probeId /\ new.call = nextUuid
    BY <2>1 DEF Request
  <2>3. /\ requests' = requests \cup {new} /\ call' = nextUuid
        /\ UNCHANGED <<probeId, identity, unsaved, answers>> /\ phase = "idle"
    BY <1>1, <2>1 DEF StartRegister
  <2>4. answers = {}
    BY <2>3 DEF LossInv, CallInv
  <2> QED  BY <1>0, <2>2, <2>3, <2>4
<1>2. CASE ShipBatch
  <2>1. PICK new : new = Request("ingest", nextUuid, {r \in Rows : spool'[r] = nextUuid})
    OBVIOUS
  <2>2. new.kind = "ingest" /\ new.probe = probeId /\ new.call = nextUuid
    BY <2>1 DEF Request
  <2>3. /\ requests' = requests \cup {new} /\ call' = nextUuid
        /\ UNCHANGED <<probeId, identity, unsaved, answers>> /\ phase' = "sending"
        /\ probeId # NoProbe
    BY <1>2, <2>1 DEF ShipBatch, IsRegistered
  <2> QED  BY <1>0, <2>2, <2>3
<1>3. CASE Registered \/ IdentityUnsaved
  <2>1. PICK a \in answers :
          /\ Succeeds(a) /\ probeId' = a.probe
          /\ \/ identity'.probe = a.probe /\ unsaved' = unsaved
             \/ identity'.probe = identity.probe
                /\ unsaved' = unsaved \cup ({a.probe} \ {identity.probe})
    BY <1>0, <1>3 DEF Registered, IdentityUnsaved
  <2>2. /\ phase = "registering" /\ call' = NoCall /\ answers' = {}
        /\ requests' = requests
    BY <1>3 DEF Registered, IdentityUnsaved, CallEnds
  <2>3. a.probe # NoProbe /\ identity.probe \in {NoProbe, a.probe}
    BY <1>0, <2>1, <2>2
  <2>4. Known \subseteq Known' /\ a.probe \in Known'
    BY <2>1, <2>3
  <2>5. identity'.probe \in {NoProbe, probeId'}
    BY <2>1, <2>3
  <2> HIDE DEF Known
  <2> QED  BY <1>0, <2>1, <2>2, <2>4, <2>5
<1>4. CASE SaveToken \/ TokenUnsaved
  <2>1. /\ identity'.probe = identity.probe /\ phase' = "idle"
        /\ UNCHANGED <<probeId, call, requests, answers, unsaved>>
    BY <1>0, <1>4 DEF SaveToken, TokenUnsaved, networkVars
  <2> QED  BY <1>0, <2>1
<1>5. CASE \/ RegisterFails \/ ShipConfirmed \/ ShipRefused \/ ClearUnsaved
           \/ ShipFails \/ ShipEscapes \/ Timeout
  <2>1. /\ identity'.probe = identity.probe /\ probeId' = probeId /\ unsaved' = unsaved
        /\ call' = NoCall /\ answers' = {} /\ requests' = requests
    BY <1>0, <1>5 DEF RegisterFails, ShipConfirmed, ShipRefused, ClearUnsaved, ShipFails,
                      ShipEscapes, Timeout, ShipEnds, CallEnds
  <2> QED  BY <1>0, <2>1
<1> QED  BY <1>1, <1>2, <1>3, <1>4, <1>5 DEF Shipper

(* The server confirms the identity a registration names, and makes one up   *)
(* only for a registration that names none.                                  *)
LEMMA ServerHistory ==
    ASSUME LossInv, HistoryInv, Server
    PROVE  HistoryInv'
<1> USE DEF HistoryInv
<1>1. PICK req \in requests : HandleRegister(req) \/ Authenticate(req) \/ HandleIngest(req)
  BY DEF Server
<1>2. req.call # NoCall
  BY CallsOpen
<1>3. UNCHANGED <<phase, call, probeId>> /\ Known' = Known /\ identity' = identity
  BY <1>1 DEF HandleRegister, Authenticate, HandleIngest, shipperVars, Known
<1>4. CASE HandleRegister(req)
  <2>1. req.kind = "register" /\ samples' = samples /\ requests' = requests \ {req}
    BY <1>4 DEF HandleRegister, Reply
  <2>2. RegisteredId(req) # NoProbe
        /\ (req.call = call => probeId \in {NoProbe, RegisteredId(req)})
    BY <1>2, <2>1 DEF RegisteredId
  <2>3. \A a \in answers' \ answers : req.call = call /\ a.probe = RegisteredId(req)
    BY <1>4 DEF HandleRegister, Reply, Answer
  <2> QED  BY <1>3, <2>1, <2>2, <2>3 DEF Succeeds
<1>5. CASE Authenticate(req)
  <2>1. samples' = samples
    BY <1>5 DEF Authenticate, serverVars
  <2>2. AuthStatus(req) \in {0, 401, 403}
    BY DEF AuthStatus
  <2>3. CASE \E s \in {401, 403, 413} : Refuse(req, s)
    <3>1. /\ requests' = requests \ {req}
          /\ \A a \in answers' \ answers : ~Succeeds(a)
      BY <2>3 DEF Refuse, Reply, Answer, Succeeds, Success
    <3> QED  BY <1>3, <2>1, <3>1 DEF Succeeds
  <2>4. CASE /\ requests' = (requests \ {req}) \cup {[req EXCEPT !.stage = "admitted"]}
             /\ UNCHANGED answers
    <3>1. PICK r2 : r2 = [req EXCEPT !.stage = "admitted"]
      OBVIOUS
    <3>2. r2.call = req.call /\ r2.kind = req.kind /\ r2.probe = req.probe
      BY <3>1 DEF LossInv, TypeOK, NetworkTypeOK, RequestType
    <3>3. requests' = (requests \ {req}) \cup {r2}
      BY <2>4, <3>1
    <3> QED  BY <1>3, <2>1, <2>4, <3>2, <3>3 DEF Succeeds
  <2> QED  BY <1>5, <2>2, <2>3, <2>4 DEF Authenticate
<1>6. CASE HandleIngest(req)
  <2>1. req.kind = "ingest" /\ ApplyBatch(req) /\ requests' = requests \ {req}
    BY <1>6 DEF HandleIngest, Reply
  <2>2. req.call = call => phase = "sending"
    BY <2>1 DEF LossInv, RequestInv
  <2>3. answers' = answers \/ phase = "sending"
    BY <1>6, <2>2 DEF HandleIngest, Reply
  <2> QED  BY <1>3, <2>1, <2>3, AppliedUnderOneProbe DEF Succeeds
<1> QED  BY <1>1, <1>4, <1>5, <1>6

LEMMA EnvironmentHistory ==
    ASSUME LossInv, HistoryInv, Environment
    PROVE  HistoryInv'
<1> USE DEF HistoryInv
<1>1. UNCHANGED <<phase, call, probeId>> /\ Known' = Known /\ identity' = identity
  BY DEF Environment, ServerFails, RewindFails, ProtocolSkew, LoseRequest, LoseAnswer,
         PortalAnswers, Retire, shipperVars, Known
<1>2. /\ requests' \subseteq requests
      /\ \A a \in answers' \ answers : ~Succeeds(a)
  BY DEF Environment, ServerFails, RewindFails, ProtocolSkew, LoseRequest, LoseAnswer,
         PortalAnswers, Retire, networkVars, Refuse, Reply, Answer, Succeeds, Success
<1>3. \A s \in samples' : s.probe \in Known'
  <2>1. CASE samples' = samples
    BY <1>1, <2>1
  <2>2. ASSUME NEW req \in requests, RewindFails(req)
        PROVE  \A s \in samples' : s.probe \in Known'
    BY <1>1, <2>2, AppliedUnderOneProbe DEF RewindFails
  <2> QED
    BY <2>1, <2>2 DEF Environment, ServerFails, ProtocolSkew, LoseRequest, LoseAnswer,
                      PortalAnswers, Retire, serverVars
<1> QED  BY <1>1, <1>2, <1>3 DEF Succeeds

LEMMA HistoryInvStep == LossInv /\ HistoryInv /\ [Next]_vars => HistoryInv'
<1> SUFFICES ASSUME LossInv, HistoryInv, [Next]_vars PROVE HistoryInv'
  OBVIOUS
<1>1. CASE UNCHANGED vars \/ Collect
  BY <1>1 DEF vars, Collect, serverVars, shipperVars, networkVars, HistoryInv, Known
<1>2. CASE Restart
  <2>1. /\ UNCHANGED <<identity, unsaved, requests, samples>> /\ probeId' = identity.probe
        /\ call' = NoCall /\ answers' = {}
    BY <1>2 DEF Restart, CallEnds, serverVars
  <2>2. \A q \in requests : q.call # NoCall
    BY CallsOpen
  <2> QED  BY <2>1, <2>2 DEF HistoryInv, Known
<1> QED
  BY <1>1, <1>2, ShipperHistory, ServerHistory, EnvironmentHistory DEF Next

(* However often the agent restarts, re-registers or is refused, all it ever *)
(* gets stored is stored under the probe id in its identity table, unless a  *)
(* commit of that id failed.                                                 *)
THEOREM HistoryNeverSplits == Spec => []OneHistory
<1>1. HistoryInv => OneHistory
  BY DEF HistoryInv, OneHistory, Known
<1>2. LossInv /\ HistoryInv /\ [Next]_vars => LossInv' /\ HistoryInv'
  BY LossInvStep, HistoryInvStep
<1> QED  BY LossInvInit, HistoryInvInit, <1>1, <1>2, PTL DEF Spec

-----------------------------------------------------------------------------
(* The promise                                                               *)

LEMMA InitOfPromise == Init => Promise!Init
BY DEF Init, SpoolInit, IngestInit, Promise!Init, Stored

(* Applying a batch is a delivery of its rows, a first copy or another one.  *)
LEMMA ApplyDelivers ==
    ASSUME LossInv, NEW req \in requests, ApplyBatch(req), UNCHANGED spoolVars
    PROVE  Promise!Deliver
<1>1. req.rows \subseteq 1 .. nextId - 1
  BY DEF LossInv, TypeOK, NetworkTypeOK, RequestType
<1>2. PICK rows \in SUBSET (1 .. nextId - 1) : Stored' = Stored \cup rows
  <2>1. CASE req.call \in batches
    <3>1. Stored' = Stored \cup {}
      BY <2>1 DEF ApplyBatch, AlreadyApplied, Stored
    <3> QED  BY <3>1
  <2>2. CASE req.call \notin batches
    <3>1. samples' = samples \cup CopiesOf(req)
      BY <2>2 DEF ApplyBatch, AlreadyApplied
    <3>2. {s.row : s \in CopiesOf(req)} = req.rows
      <4>1. \A s \in CopiesOf(req) : s.row \in req.rows
        BY DEF CopiesOf
      <4>2. ASSUME NEW r \in req.rows PROVE \E s \in CopiesOf(req) : s.row = r
        <5>1. [row |-> r, batch |-> req.call, probe |-> req.probe] \in CopiesOf(req)
          BY DEF CopiesOf
        <5> QED  BY <5>1
      <4> QED  BY <4>1, <4>2
    <3>3. Stored' = Stored \cup req.rows
      BY <3>1, <3>2 DEF Stored
    <3> QED  BY <1>1, <3>3
  <2> QED  BY <2>1, <2>2
<1>3. UNCHANGED <<1 .. nextId - 1, Rows, trimmed>>
  BY DEF spoolVars
<1> QED  BY <1>2, <1>3 DEF Promise!Deliver

(* Everything the shipping thread does is a stutter of the promise, except   *)
(* deleting a confirmed batch, which the promise allows for delivered rows.  *)
LEMMA ShipperPromise ==
    ASSUME LossInv, Shipper
    PROVE  [Promise!Next]_(Promise!vars)
<1>1. Stored' = Stored
  BY DEF Shipper, StartRegister, Registered, IdentityUnsaved, SaveToken, TokenUnsaved,
         RegisterFails, ShipBatch, ShipConfirmed, ShipRefused, ClearUnsaved, ShipFails,
         ShipEscapes, ShipEnds, Timeout, serverVars, Stored
<1>2. UNCHANGED <<nextId, trimmed>>
  BY DEF Shipper, StartRegister, Registered, IdentityUnsaved, SaveToken, TokenUnsaved,
         RegisterFails, ShipBatch, ShipConfirmed, ShipRefused, ClearUnsaved, ShipFails,
         ShipEscapes, Timeout, Claim, Confirm, Release, Abandon, DrawUuid, spoolVars,
         collectorVars
<1>3. CASE ShipConfirmed
  <2>1. phase = "sending" /\ (\E a \in answers : Succeeds(a)) /\ Confirm
    BY <1>3 DEF ShipConfirmed
  <2>2. RowsOf(batch) \subseteq Rows \cap Stored
    BY <2>1 DEF LossInv, AnswerMeansStored, RowsOf
  <2>3. Rows' = Rows \ RowsOf(batch)
    BY <2>1 DEF Confirm, ConfirmBatch
  <2>4. Promise!Forget
    BY <1>1, <1>2, <2>2, <2>3 DEF Promise!Forget
  <2> QED  BY <2>4 DEF Promise!Next
<1>4. CASE ~ShipConfirmed
  <2>1. Rows' = Rows
    BY <1>4 DEF Shipper, StartRegister, Registered, IdentityUnsaved, SaveToken,
         TokenUnsaved, RegisterFails, ShipBatch,
         ShipRefused, ClearUnsaved, ShipFails, ShipEscapes, Timeout, Claim, ClaimBatch, Release,
         ReleaseBatch, Abandon, DrawUuid, spoolVars
  <2> QED  BY <1>1, <1>2, <2>1 DEF Promise!vars
<1> QED  BY <1>3, <1>4

(* The ids a write of n rows hands out when the next id is a.                *)
LEMMA FreshIds ==
    ASSUME NEW max \in Nat, NEW a \in Nat, NEW n \in Nat,
           a >= 1, n >= 1, a + n <= max + 1
    PROVE  /\ a .. a + n - 1 # {}
           /\ a .. a + n - 1 \subseteq (1 .. max) \ (1 .. a - 1)
           /\ 1 .. a + n - 1 = (1 .. a - 1) \cup (a .. a + n - 1)
<1>1. a \in a .. a + n - 1
  OBVIOUS
<1>2. ASSUME NEW i \in a .. a + n - 1
      PROVE  i \in 1 .. max /\ i \notin 1 .. a - 1
  BY <1>2
<1>3. 1 .. a + n - 1 = (1 .. a - 1) \cup (a .. a + n - 1)
  OBVIOUS
<1> QED  BY <1>1, <1>2, <1>3

LEMMA CollectPromise ==
    ASSUME LossInv, Collect
    PROVE  [Promise!Next]_(Promise!vars)
<1>1. Stored' = Stored
  BY DEF Collect, serverVars, Stored
<1>2. ASSUME NEW n \in 1 .. WriteRows, Write(n)
      PROVE  Promise!Measure
  <2> DEFINE new == nextId .. nextId + n - 1
  <2>1. MaxId \in Nat /\ nextId \in Nat /\ nextId >= 1 /\ n \in Nat /\ n >= 1
    BY DEF LossInv, TypeOK, SpoolTypeOK
  <2>2. /\ Rows' = Rows \cup new /\ nextId' = nextId + n
        /\ nextId + n <= MaxId + 1 /\ trimmed' = trimmed
    BY <1>2 DEF Write, Add
  <2>3. /\ new # {} /\ new \subseteq (1 .. MaxId) \ (1 .. nextId - 1)
        /\ 1 .. nextId + n - 1 = (1 .. nextId - 1) \cup new
    BY <2>1, <2>2, FreshIds
  <2>4. 1 .. nextId' - 1 = 1 .. nextId + n - 1
    BY <2>1, <2>2
  <2>5. 1 .. nextId' - 1 = (1 .. nextId - 1) \cup new
    BY <2>3, <2>4, Zenon
  <2> QED  BY <1>1, <2>2, <2>3, <2>5 DEF Promise!Measure
<1>3. CASE TrimCount
  BY <1>1, <1>3 DEF TrimCount, Promise!vars
<1>4. CASE TrimDelete
  <2>1. PICK rows \in SUBSET Rows :
          spool' = [r \in Rows \ rows |-> spool[r]] /\ trimmed' = trimmed \cup rows
    BY <1>4 DEF TrimDelete
  <2>2. Rows' = Rows \ rows /\ nextId' = nextId
    BY <1>4, <2>1 DEF TrimDelete
  <2>3. Promise!Drop
    BY <1>1, <2>1, <2>2 DEF Promise!Drop
  <2> QED  BY <2>3 DEF Promise!Next
<1> QED  BY <1>2, <1>3, <1>4 DEF Collect, Collector, Promise!Next

LEMMA StepOfPromise ==
    ASSUME LossInv, [Next]_vars
    PROVE  [Promise!Next]_(Promise!vars)
<1>1. CASE UNCHANGED vars
  BY <1>1 DEF vars, spoolVars, serverVars, Promise!vars, Stored
<1>2. CASE Shipper \/ Collect
  BY <1>2, ShipperPromise, CollectPromise
<1>3. CASE Restart
  BY <1>3 DEF Restart, RestartSpool, ReclaimOrphans, serverVars, Promise!vars, Stored
<1>4. CASE Server
  <2>1. PICK req \in requests : HandleRegister(req) \/ Authenticate(req) \/ HandleIngest(req)
    BY <1>4 DEF Server
  <2>2. CASE HandleIngest(req)
    BY <2>2, ApplyDelivers DEF HandleIngest, Promise!Next
  <2>3. CASE HandleRegister(req) \/ Authenticate(req)
    BY <2>3 DEF HandleRegister, Authenticate, spoolVars, serverVars, Promise!vars, Stored
  <2> QED  BY <2>1, <2>2, <2>3
<1>5. CASE Environment
  <2>1. ASSUME NEW req \in requests, RewindFails(req)
        PROVE  Promise!Deliver
    BY <2>1, ApplyDelivers DEF RewindFails
  <2>2. CASE UNCHANGED <<spoolVars, samples>>
    BY <2>2 DEF spoolVars, Promise!vars, Stored
  <2> QED
    BY <1>5, <2>1, <2>2 DEF Environment, ServerFails, ProtocolSkew, LoseRequest,
        LoseAnswer, PortalAnswers, Retire, serverVars, Promise!Next
<1> QED  BY <1>1, <1>2, <1>3, <1>4, <1>5 DEF Next

(* The protocol implements the promise of AtLeastOnce (its safety part): no  *)
(* measurement leaves the probe undelivered except by being dropped openly.  *)
THEOREM DeliveryKeepsPromise == Spec => KeepsPromise
<1>1. LossInv /\ [Next]_vars => [Promise!Next]_(Promise!vars)
  BY StepOfPromise
<1> QED
  BY InitOfPromise, LossInvInit, LossInvStep, <1>1, PTL DEF Spec, KeepsPromise, Promise!Spec

-----------------------------------------------------------------------------
(***************************************************************************)
(* How often a row can be stored.                                          *)
(*                                                                         *)
(* The argument is an account.  A row is sent once for each call it was    *)
(* claimed under; a call that a server has refused is taken off again, for *)
(* it can no longer be stored.  Every other way back into the queue is     *)
(* paid for by a fault or by a restart, so a row that may be sent again    *)
(* has been sent at most as often as something went wrong.                 *)
(***************************************************************************)
Carrying(r) == {q \in requests : q.kind = "ingest" /\ r \in q.rows}

\* The calls that have brought a row to the server or still may.
Sent(r) == {s.batch : s \in Copies(r)} \cup {q.call : q \in Carrying(r)}

\* Nothing more comes of the call the thread waits for, unless it times out.
CallIsLost ==
    /\ \A q \in requests : q.call # call
    /\ \A a \in answers : ~Succeeds(a)

\* The rows that may be sent again, now or as soon as the open call has ended.
Resendable ==
    UnclaimedRows \cup (IF phase = "sending" /\ CallIsLost THEN RowsOf(batch) ELSE {})

(* There is one answer at a time, it is for the open call and its request is *)
(* gone; a call still on its way has stored nothing, and what one has stored *)
(* is all under the probe it named.                                          *)
WireInv ==
    /\ \A a \in answers : a.call = call
    /\ \A a, b \in answers : a = b
    /\ \A a \in answers, q \in requests : q.call # call
    /\ \A q \in requests, s \in samples : q.call # s.batch
    /\ \A s, t \in samples : s.batch = t.batch => s.probe = t.probe

\* What has gone wrong so far.
Troubles == faults + restarts

(* The account of one row.                                                   *)
Accounted(r) ==
    /\ Cardinality(Sent(r)) <= Troubles + 1
    /\ r \in Resendable => Cardinality(Sent(r)) <= Troubles

SentInv == WireInv /\ \A r \in Nat : Accounted(r)

-----------------------------------------------------------------------------
(* Sets of calls                                                             *)

LEMMA SentFinite ==
    ASSUME TypeOK, NEW r
    PROVE  Sent(r) \subseteq Calls /\ IsFiniteSet(Sent(r)) /\ Cardinality(Sent(r)) \in Nat
<1>1. Sent(r) \subseteq Calls
  BY DEF Sent, Carrying, Copies, TypeOK, ServerTypeOK, NetworkTypeOK, RequestType
<1>2. IsFiniteSet(Calls)
  <2>1. nextUuid - 1 \in Int
    BY DEF TypeOK, SpoolTypeOK
  <2> QED  BY <2>1, FS_Interval DEF Calls
<1>3. IsFiniteSet(Sent(r))
  BY <1>1, <1>2, FS_Subset
<1> QED  BY <1>1, <1>3, FS_CardinalityType

LEMMA SumsAreNumbers == \A m, n \in Nat : m + n \in Nat
OBVIOUS

LEMMA TroublesTyped ==
    ASSUME TypeOK, TypeOK'
    PROVE  Troubles \in Nat /\ Troubles' \in Nat
<1>1. faults \in Nat /\ restarts \in Nat /\ faults' \in Nat /\ restarts' \in Nat
  BY DEF TypeOK, NetworkTypeOK, SpoolTypeOK
<1> QED  BY <1>1, SumsAreNumbers, Zenon DEF Troubles

(* What a row was sent under depends on the samples and the requests only.   *)
LEMMA SentKept ==
    ASSUME NEW r, UNCHANGED <<samples, requests>>
    PROVE  Sent(r)' = Sent(r)
BY DEF Sent, Copies, Carrying

(* The arithmetic of the account.                                            *)
LEMMA AccountArithmetic ==
    \A m, n, s, t \in Nat :
        /\ m <= n /\ s <= t /\ n <= s + 1 => m <= t + 1
        /\ m <= n /\ s <= t /\ n <= s => m <= t
        /\ m <= n /\ s < t /\ n <= s + 1 => m <= t
OBVIOUS

(* A step that sends nothing keeps the account, if it pays for every row it  *)
(* puts back.                                                                *)
LEMMA AccountKept ==
    ASSUME TypeOK, TypeOK', NEW r, Accounted(r), Sent(r)' \subseteq Sent(r),
           Troubles <= Troubles',
           r \in Resendable' => r \in Resendable \/ Troubles < Troubles'
    PROVE  Accounted(r)'
<1>1. IsFiniteSet(Sent(r)) /\ Cardinality(Sent(r)) \in Nat
  BY SentFinite
<1>2. Cardinality(Sent(r)') \in Nat /\ Cardinality(Sent(r)') <= Cardinality(Sent(r))
  BY <1>1, FS_Subset, FS_CardinalityType
<1>3. Troubles \in Nat /\ Troubles' \in Nat
  BY TroublesTyped
<1>4. Cardinality(Sent(r)') <= Troubles' + 1
  BY <1>1, <1>2, <1>3, AccountArithmetic, Zenon DEF Accounted
<1>5. r \in Resendable' => Cardinality(Sent(r)') <= Troubles'
  BY <1>1, <1>2, <1>3, AccountArithmetic, Zenon DEF Accounted
<1> QED  BY <1>4, <1>5, Zenon DEF Accounted

-----------------------------------------------------------------------------
(* The wire                                                                  *)

(* An answer takes its request away, so there is no second one.              *)
LEMMA WireReply ==
    ASSUME LossInv, WireInv, call' = call, NEW req \in requests, NEW answer,
           answer.call = req.call, Reply(req, answer),
           samples' \subseteq samples \cup CopiesOf(req)
    PROVE  WireInv'
<1>1. requests' = requests \ {req}
  BY DEF Reply
<1>2. \A q \in requests' : q.call # req.call
  BY <1>1 DEF LossInv, RequestInv
<1>3. req.call = call => answers = {}
  BY DEF WireInv
<1>4. CASE req.call = call
  <2>1. answers' = {answer}
    BY <1>3, <1>4 DEF Reply
  <2> QED  BY <1>1, <1>2, <1>4, <2>1 DEF WireInv, CopiesOf
<1>5. CASE req.call # call
  <2>1. answers' = answers
    BY <1>5 DEF Reply
  <2> QED  BY <1>1, <1>2, <2>1 DEF WireInv, CopiesOf
<1> QED  BY <1>4, <1>5

LEMMA ShipperWire ==
    ASSUME LossInv, WireInv, Shipper
    PROVE  WireInv'
<1>0. samples' = samples
  BY DEF Shipper, StartRegister, Registered, IdentityUnsaved, SaveToken, TokenUnsaved,
         RegisterFails, ShipBatch, ShipConfirmed, ShipRefused, ClearUnsaved, ShipFails,
         ShipEscapes, ShipEnds, Timeout, serverVars
<1>1. CASE StartRegister \/ ShipBatch
  <2>1. PICK kind, rows : requests' = requests \cup {Request(kind, nextUuid, rows)}
    BY <1>1 DEF StartRegister, ShipBatch
  <2>2. phase = "idle" /\ answers' = answers
    BY <1>1 DEF StartRegister, ShipBatch
  <2>3. answers' = {}
    BY <2>2 DEF LossInv, CallInv
  <2>4. \A s \in samples : s.batch # nextUuid
    BY DEF LossInv, TypeOK, SpoolTypeOK, ServerTypeOK, Calls
  <2>5. Request(kind, nextUuid, rows).call = nextUuid
    BY DEF Request
  <2> QED  BY <1>0, <2>1, <2>3, <2>4, <2>5 DEF WireInv
<1>2. CASE SaveToken \/ TokenUnsaved
  BY <1>0, <1>2 DEF SaveToken, TokenUnsaved, networkVars, WireInv
<1>3. CASE \/ Registered \/ IdentityUnsaved \/ RegisterFails \/ ShipConfirmed \/ ShipRefused
           \/ ClearUnsaved \/ ShipFails \/ ShipEscapes \/ Timeout
  <2>1. answers' = {} /\ requests' = requests
    BY <1>3 DEF Registered, IdentityUnsaved, RegisterFails, ShipConfirmed, ShipRefused,
                ClearUnsaved, ShipFails, ShipEscapes, ShipEnds, CallEnds, Timeout
  <2> QED  BY <1>0, <2>1 DEF WireInv
<1> QED  BY <1>1, <1>2, <1>3 DEF Shipper

LEMMA ServerWire ==
    ASSUME LossInv, WireInv, Server
    PROVE  WireInv'
<1>1. PICK req \in requests : HandleRegister(req) \/ Authenticate(req) \/ HandleIngest(req)
  BY DEF Server
<1>2. call' = call
  BY <1>1 DEF HandleRegister, Authenticate, HandleIngest, shipperVars
<1>3. CASE \E answer : answer.call = req.call /\ Reply(req, answer)
  <2>1. samples' \subseteq samples \cup CopiesOf(req)
    BY <1>1 DEF HandleRegister, Authenticate, HandleIngest, ApplyBatch, serverVars
  <2> QED  BY <1>2, <1>3, <2>1, WireReply
<1>4. CASE /\ requests' = (requests \ {req}) \cup {[req EXCEPT !.stage = "admitted"]}
           /\ UNCHANGED <<answers, samples>>
  <2>1. PICK r2 : r2 = [req EXCEPT !.stage = "admitted"]
    OBVIOUS
  <2>2. r2.call = req.call
    BY <2>1 DEF LossInv, TypeOK, NetworkTypeOK, RequestType
  <2>3. requests' = (requests \ {req}) \cup {r2}
    BY <1>4, <2>1
  <2> QED  BY <1>2, <1>4, <2>2, <2>3 DEF WireInv
<1>5. CASE HandleRegister(req) \/ HandleIngest(req)
  <2>1. \E answer : answer.call = req.call /\ Reply(req, answer)
    BY <1>5 DEF HandleRegister, HandleIngest, Accepted, Answer
  <2> QED  BY <1>3, <2>1
<1>6. CASE Authenticate(req)
  <2>1. AuthStatus(req) \in {0, 401, 403}
    BY DEF AuthStatus
  <2>2. ASSUME NEW status, Refuse(req, status)
        PROVE  \E answer : answer.call = req.call /\ Reply(req, answer)
    BY <2>2 DEF Refuse, Answer
  <2> QED  BY <1>3, <1>4, <1>6, <2>1, <2>2 DEF Authenticate, serverVars
<1> QED  BY <1>1, <1>5, <1>6

LEMMA EnvironmentWire ==
    ASSUME LossInv, WireInv, Environment
    PROVE  WireInv'
<1>1. call' = call
  BY DEF Environment, ServerFails, RewindFails, ProtocolSkew, LoseRequest, LoseAnswer,
         PortalAnswers, Retire, shipperVars
<1>2. ASSUME NEW req \in requests,
             ServerFails(req) \/ RewindFails(req) \/ ProtocolSkew(req) \/ PortalAnswers(req)
      PROVE  WireInv'
  <2>1. \E answer : answer.call = req.call /\ Reply(req, answer)
    BY <1>2 DEF ServerFails, RewindFails, ProtocolSkew, PortalAnswers, Refuse, Answer
  <2>2. samples' \subseteq samples \cup CopiesOf(req)
    BY <1>2 DEF ServerFails, RewindFails, ProtocolSkew, PortalAnswers, ApplyBatch, serverVars
  <2> QED  BY <1>1, <2>1, <2>2, WireReply
<1>3. CASE requests' \subseteq requests /\ answers' \subseteq answers /\ samples' = samples
  BY <1>1, <1>3 DEF WireInv
<1> QED
  BY <1>2, <1>3 DEF Environment, LoseRequest, LoseAnswer, Retire, serverVars, networkVars

LEMMA WireInvStep == LossInv /\ WireInv /\ [Next]_vars => WireInv'
<1> SUFFICES ASSUME LossInv, WireInv, [Next]_vars PROVE WireInv'
  OBVIOUS
<1>1. CASE UNCHANGED vars \/ Collect
  BY <1>1 DEF vars, Collect, serverVars, shipperVars, networkVars, WireInv
<1>2. CASE Restart
  BY <1>2 DEF Restart, CallEnds, serverVars, WireInv
<1> QED  BY <1>1, <1>2, ShipperWire, ServerWire, EnvironmentWire DEF Next

-----------------------------------------------------------------------------
(* The account: the server's side                                            *)

LEMMA TroublesKept ==
    ASSUME TypeOK, UNCHANGED <<faults, restarts>>
    PROVE  Troubles' = Troubles /\ Troubles <= Troubles'
<1>1. Troubles' = Troubles
  BY DEF Troubles
<1>2. Troubles \in Nat
  BY DEF Troubles, TypeOK, NetworkTypeOK, SpoolTypeOK
<1> QED  BY <1>1, <1>2

LEMMA TroublesGrow ==
    ASSUME TypeOK,
           \/ faults' = faults + 1 /\ restarts' = restarts
           \/ faults' = faults /\ restarts' = restarts + 1
    PROVE  Troubles < Troubles' /\ Troubles <= Troubles'
<1>1. faults \in Nat /\ restarts \in Nat
  BY DEF TypeOK, NetworkTypeOK, SpoolTypeOK
<1> QED  BY <1>1 DEF Troubles

(* A request that is answered or lost adds no call to a row: at most it      *)
(* turns from a request into stored copies.                                  *)
LEMMA SentShrinks ==
    ASSUME NEW req \in requests, NEW r, requests' = requests \ {req},
           \/ samples' = samples
           \/ req.kind = "ingest" /\ samples' \subseteq samples \cup CopiesOf(req)
    PROVE  Sent(r)' \subseteq Sent(r)
<1>1. Carrying(r)' \subseteq Carrying(r)
  BY DEF Carrying
<1>2. ASSUME NEW s \in Copies(r)'
      PROVE  s.batch \in Sent(r)
  <2>1. CASE s \in samples
    BY <1>2, <2>1 DEF Copies, Sent
  <2>2. CASE s \notin samples
    <3>1. req.kind = "ingest" /\ s \in CopiesOf(req) /\ s.row = r
      BY <1>2, <2>2 DEF Copies
    <3>2. r \in req.rows /\ s.batch = req.call
      BY <3>1 DEF CopiesOf
    <3> QED  BY <3>1, <3>2 DEF Sent, Carrying
  <2> QED  BY <2>1, <2>2
<1> QED  BY <1>1, <1>2 DEF Sent

(* A refusal puts the claimed rows back without a fault, and takes the call  *)
(* off their account.                                                        *)
LEMMA RefusalTakesOff ==
    ASSUME LossInv, WireInv, NEW req \in requests, req.kind = "ingest",
           NEW r \in req.rows, requests' = requests \ {req}, samples' = samples
    PROVE  req.call \in Sent(r) /\ Sent(r)' = Sent(r) \ {req.call}
<1>1. req \in Carrying(r)
  BY DEF Carrying
<1>2. Copies(r)' = Copies(r) /\ Carrying(r)' = Carrying(r) \ {req}
  BY DEF Copies, Carrying
<1>3. \A s \in Copies(r) : s.batch # req.call
  BY DEF WireInv, Copies
<1>4. \A q \in Carrying(r) : q # req => q.call # req.call
  BY DEF LossInv, RequestInv, Carrying
<1> QED  BY <1>1, <1>2, <1>3, <1>4 DEF Sent

LEMMA RefusalAccount ==
    ASSUME LossInv, WireInv, TypeOK', NEW req \in requests, req.kind = "ingest",
           NEW r \in req.rows, requests' = requests \ {req}, samples' = samples,
           UNCHANGED <<faults, restarts>>, Accounted(r)
    PROVE  Accounted(r)'
<1>1. req.call \in Sent(r) /\ Sent(r)' = Sent(r) \ {req.call}
  BY RefusalTakesOff
<1>2. IsFiniteSet(Sent(r)) /\ Cardinality(Sent(r)) \in Nat
  BY SentFinite DEF LossInv
<1>3. Cardinality(Sent(r)') = Cardinality(Sent(r)) - 1
  <2> DEFINE S == Sent(r)
  <2>1. req.call \in S /\ IsFiniteSet(S)
    BY <1>1, <1>2
  <2> HIDE DEF S
  <2>2. Cardinality(S \ {req.call}) = Cardinality(S) - 1
    BY <2>1, FS_RemoveElement
  <2> QED BY <1>1, <2>2 DEF S
<1>4. Troubles' = Troubles /\ Troubles \in Nat
  BY TroublesKept, TroublesTyped DEF LossInv
<1>5. Cardinality(Sent(r)') <= Troubles /\ Cardinality(Sent(r)') <= Troubles + 1
  BY <1>2, <1>3, <1>4 DEF Accounted
<1> QED  BY <1>4, <1>5, Zenon DEF Accounted

(* What a row's being resendable comes to, before a step and after it.       *)
LEMMA ResendableMeans ==
    ASSUME NEW r
    PROVE  /\ r \in Resendable <=>
                 \/ r \in UnclaimedRows
                 \/ phase = "sending" /\ CallIsLost /\ r \in RowsOf(batch)
           /\ r \in Resendable' <=>
                 \/ r \in UnclaimedRows'
                 \/ phase' = "sending" /\ CallIsLost' /\ r \in RowsOf(batch)'
<1>1. r \in Resendable <=>
         \/ r \in UnclaimedRows
         \/ phase = "sending" /\ CallIsLost /\ r \in RowsOf(batch)
  BY Zenon DEF Resendable
<1>2. r \in Resendable' <=>
         \/ r \in UnclaimedRows'
         \/ phase' = "sending" /\ CallIsLost' /\ r \in RowsOf(batch)'
  BY Zenon DEF Resendable
<1> QED  BY <1>1, <1>2, Zenon

(* Only a refusal makes rows resendable on the server's side: an answer to a *)
(* batch that was applied is one the agent believes.                         *)
LEMMA ServerAccount ==
    ASSUME LossInv, WireInv, TypeOK', UNCHANGED spoolVars, Server,
           NEW r \in Nat, Accounted(r)
    PROVE  Accounted(r)'
<1>1. PICK req \in requests : HandleRegister(req) \/ Authenticate(req) \/ HandleIngest(req)
  BY DEF Server
<1>2. TypeOK /\ req.call # NoCall
  BY CallsOpen DEF LossInv
<1>3. UNCHANGED <<phase, call, faults, restarts, spool, batch>>
  BY <1>1 DEF HandleRegister, Authenticate, HandleIngest, shipperVars, spoolVars
<1>4. Troubles' = Troubles /\ Troubles <= Troubles'
  BY <1>2, <1>3, TroublesKept
<1>5. (phase = "sending" /\ CallIsLost' => CallIsLost) => (r \in Resendable' => r \in Resendable)
  <2>1. UnclaimedRows' = UnclaimedRows /\ RowsOf(batch)' = RowsOf(batch) /\ phase' = phase
    BY <1>3 DEF UnclaimedRows, RowsOf
  <2> QED  BY <2>1, ResendableMeans, Zenon
<1>6. CASE HandleRegister(req)
  <2>1. requests' = requests \ {req} /\ samples' = samples
    BY <1>6 DEF HandleRegister, Reply
  <2>2. Sent(r)' \subseteq Sent(r)
    BY <2>1, SentShrinks
  <2>3. phase = "sending" => req.call # call
    BY <1>6 DEF HandleRegister, LossInv, RequestInv
  <2>4. phase = "sending" => answers' = answers
    BY <1>6, <2>3 DEF HandleRegister, Reply
  <2>5. phase = "sending" /\ CallIsLost' => CallIsLost
    BY <1>3, <2>1, <2>3, <2>4 DEF CallIsLost
  <2> QED  BY <1>2, <1>4, <1>5, <2>2, <2>5, AccountKept
<1>7. CASE HandleIngest(req)
  <2>1. /\ req.kind = "ingest" /\ requests' = requests \ {req}
        /\ samples' \subseteq samples \cup CopiesOf(req)
    BY <1>7 DEF HandleIngest, Reply, ApplyBatch
  <2>2. Sent(r)' \subseteq Sent(r)
    BY <2>1, SentShrinks
  <2>3. CASE req.call = call
    <3>1. Accepted(req) \in answers'
      BY <1>7, <2>3 DEF HandleIngest, Reply
    <3>2. Succeeds(Accepted(req))
      BY DEF Accepted, Answer, Succeeds, Success
    <3>3. ~CallIsLost'
      BY <3>1, <3>2 DEF CallIsLost, Succeeds
    <3> QED  BY <1>2, <1>4, <1>5, <2>2, <3>3, AccountKept
  <2>4. CASE req.call # call
    <3>1. answers' = answers
      BY <1>7, <2>4 DEF HandleIngest, Reply
    <3>2. CallIsLost' => CallIsLost
      BY <1>3, <2>1, <2>4, <3>1 DEF CallIsLost
    <3> QED  BY <1>2, <1>4, <1>5, <2>2, <3>2, AccountKept
  <2> QED  BY <2>3, <2>4
<1>8. CASE Authenticate(req)
  <2>1. req.kind = "ingest" /\ samples' = samples
    BY <1>8 DEF Authenticate, serverVars
  <2>2. AuthStatus(req) \in {0, 401, 403}
    BY DEF AuthStatus
  <2>3. CASE \E s \in {401, 403, 413} : Refuse(req, s)
    <3>1. requests' = requests \ {req}
      BY <2>3 DEF Refuse, Reply
    <3>2. CASE r \in req.rows
      BY <1>3, <2>1, <3>1, <3>2, RefusalAccount
    <3>3. CASE r \notin req.rows
      <4>1. Sent(r)' \subseteq Sent(r)
        BY <2>1, <3>1, SentShrinks
      <4>2. req.call = call => r \notin RowsOf(call)
        BY <2>1, <3>3 DEF LossInv, RequestInv
      <4>3. req.call = call /\ phase = "sending" => r \notin RowsOf(batch)
        BY <4>2 DEF LossInv, CallInv
      <4>4. req.call # call => answers' = answers
        BY <2>3 DEF Refuse, Reply
      <4>5. req.call # call /\ CallIsLost' => CallIsLost
        BY <1>3, <3>1, <4>4 DEF CallIsLost
      <4>6. r \in Resendable' => r \in Resendable
        <5>1. UnclaimedRows' = UnclaimedRows /\ RowsOf(batch)' = RowsOf(batch) /\ phase' = phase
          BY <1>3 DEF UnclaimedRows, RowsOf
        <5> QED  BY <4>3, <4>5, <5>1, ResendableMeans, Zenon
      <4> QED  BY <1>2, <1>4, <4>1, <4>6, AccountKept
    <3> QED  BY <3>2, <3>3
  <2>4. CASE /\ requests' = (requests \ {req}) \cup {[req EXCEPT !.stage = "admitted"]}
             /\ UNCHANGED answers
    <3>1. PICK r2 : r2 = [req EXCEPT !.stage = "admitted"]
      OBVIOUS
    <3>2. r2.call = req.call /\ r2.kind = req.kind /\ r2.rows = req.rows
      BY <3>1 DEF LossInv, TypeOK, NetworkTypeOK, RequestType
    <3>3. requests' = (requests \ {req}) \cup {r2}
      BY <2>4, <3>1
    <3>4. \A q \in Carrying(r)' : \E p \in Carrying(r) : p.call = q.call
      BY <3>2, <3>3 DEF Carrying
    <3>5. Sent(r)' \subseteq Sent(r)
      BY <2>1, <3>4 DEF Sent, Copies
    <3>6. CallIsLost' => CallIsLost
      BY <1>3, <2>4, <3>2, <3>3 DEF CallIsLost
    <3> QED  BY <1>2, <1>4, <1>5, <3>5, <3>6, AccountKept
  <2> QED  BY <1>8, <2>2, <2>3, <2>4 DEF Authenticate
<1> QED  BY <1>1, <1>6, <1>7, <1>8

(* Everything else that ends a call or a request is a fault.                 *)
LEMMA EnvironmentAccount ==
    ASSUME LossInv, WireInv, TypeOK', UNCHANGED spoolVars, Environment,
           NEW r \in Nat, Accounted(r)
    PROVE  Accounted(r)'
<1>1. TypeOK /\ restarts' = restarts
  BY DEF LossInv, spoolVars
<1>2. ASSUME NEW req \in requests,
             \/ ServerFails(req) \/ RewindFails(req) \/ ProtocolSkew(req)
             \/ LoseRequest(req) \/ PortalAnswers(req)
      PROVE  Accounted(r)'
  <2>1. requests' = requests \ {req} /\ faults' = faults + 1
    BY <1>2 DEF ServerFails, RewindFails, ProtocolSkew, LoseRequest, PortalAnswers, Refuse,
                Reply, Fault
  <2>2. \/ samples' = samples
        \/ req.kind = "ingest" /\ samples' \subseteq samples \cup CopiesOf(req)
    BY <1>2 DEF ServerFails, RewindFails, ProtocolSkew, LoseRequest, PortalAnswers,
                ApplyBatch, serverVars
  <2>3. Sent(r)' \subseteq Sent(r)
    BY <2>1, <2>2, SentShrinks
  <2>4. Troubles < Troubles' /\ Troubles <= Troubles'
    BY <1>1, <2>1, TroublesGrow
  <2> QED  BY <1>1, <2>3, <2>4, AccountKept
<1>3. CASE LoseAnswer
  <2>1. UNCHANGED <<samples, requests>> /\ faults' = faults + 1
    BY <1>3 DEF LoseAnswer, Fault, serverVars
  <2>2. Sent(r)' \subseteq Sent(r)
    BY <2>1, SentKept
  <2>3. Troubles < Troubles' /\ Troubles <= Troubles'
    BY <1>1, <2>1, TroublesGrow
  <2> QED  BY <1>1, <2>2, <2>3, AccountKept
<1>4. CASE Retire
  <2>1. UNCHANGED <<samples, requests, answers, call, phase, spool, batch, faults>>
    BY <1>4 DEF Retire, networkVars, shipperVars, spoolVars
  <2>2. Sent(r)' \subseteq Sent(r)
    BY <2>1, SentKept
  <2>3. Troubles <= Troubles'
    BY <1>1, <2>1, TroublesKept
  <2>4. r \in Resendable' => r \in Resendable
    <3>1. CallIsLost' <=> CallIsLost
      BY <2>1 DEF CallIsLost
    <3>2. UnclaimedRows' = UnclaimedRows /\ RowsOf(batch)' = RowsOf(batch) /\ phase' = phase
      BY <2>1 DEF UnclaimedRows, RowsOf
    <3> QED  BY <3>1, <3>2, ResendableMeans, Zenon
  <2> QED  BY <1>1, <2>2, <2>3, <2>4, AccountKept
<1> QED  BY <1>2, <1>3, <1>4 DEF Environment

-----------------------------------------------------------------------------
(* The account: the agent's side                                             *)

(* A claim takes rows out of the queue, each with one more call to its name. *)
LEMMA ClaimAccount ==
    ASSUME LossInv, TypeOK', ShipBatch, NEW r \in Nat, Accounted(r)
    PROVE  Accounted(r)'
<1> DEFINE rows == {x \in Rows : spool'[x] = nextUuid}
<1>1. PICK new : new = Request("ingest", nextUuid, rows)
  OBVIOUS
<1>2. new.call = nextUuid /\ new.kind = "ingest" /\ new.rows = rows
  BY <1>1 DEF Request
<1>3. /\ requests' = requests \cup {new} /\ samples' = samples /\ call' = nextUuid
      /\ UNCHANGED <<faults, restarts>> /\ Claim
  BY <1>1 DEF ShipBatch, serverVars, Claim
<1>4. TypeOK
  BY DEF LossInv
<1>5. ~CallIsLost'
  BY <1>2, <1>3 DEF CallIsLost
<1>6. \A x \in Rows' : spool'[x] = NoBatch => x \in UnclaimedRows
  BY <1>3, <1>4 DEF Claim, ClaimBatch, UnclaimedRows, TypeOK, SpoolTypeOK
<1>7. UnclaimedRows' \subseteq UnclaimedRows
  BY <1>6 DEF UnclaimedRows
<1>8. r \in Resendable' => r \in UnclaimedRows'
  BY <1>5, ResendableMeans, Zenon
<1>9. Copies(r)' = Copies(r)
  BY <1>3 DEF Copies
<1>10. CASE r \in rows
  <2>1. r \in UnclaimedRows
    BY <1>3, <1>4, <1>10 DEF Claim, ClaimBatch, OldestUnclaimed, UnclaimedRows, TypeOK,
                        SpoolTypeOK
  <2>2. r \notin UnclaimedRows'
    BY <1>4, <1>10 DEF UnclaimedRows, TypeOK, SpoolTypeOK
  <2>3. Carrying(r)' = Carrying(r) \cup {new}
    BY <1>2, <1>3, <1>10 DEF Carrying
  <2>4. Sent(r)' = Sent(r) \cup {nextUuid}
    BY <1>2, <1>9, <2>3 DEF Sent
  <2>5. IsFiniteSet(Sent(r)) /\ Cardinality(Sent(r)) \in Nat
    BY <1>4, SentFinite
  <2>6. Troubles' = Troubles /\ Troubles \in Nat
    BY <1>3, <1>4, TroublesKept, TroublesTyped
  <2>7. Cardinality(Sent(r)) <= Troubles
    BY <2>1, ResendableMeans, Zenon DEF Accounted
  <2>8. Cardinality(Sent(r)') <= Troubles + 1
    BY <2>4, <2>5, <2>6, <2>7, FS_AddElement
  <2> QED  BY <1>8, <2>2, <2>6, <2>8, Zenon DEF Accounted
<1>11. CASE r \notin rows
  <2>1. Carrying(r)' = Carrying(r)
    BY <1>2, <1>3, <1>11 DEF Carrying
  <2>2. Sent(r)' \subseteq Sent(r)
    BY <1>9, <2>1 DEF Sent
  <2>3. Troubles <= Troubles'
    BY <1>3, <1>4, TroublesKept
  <2>4. r \in Resendable' => r \in Resendable
    BY <1>7, <1>8, ResendableMeans
  <2> QED  BY <1>4, <2>2, <2>3, <2>4, AccountKept
<1> QED  BY <1>10, <1>11

(* The thread gives rows back only when their call is lost, unless the       *)
(* network was slow, which is a fault.                                       *)
LEMMA ShipperAccount ==
    ASSUME LossInv, WireInv, TypeOK', Shipper, NEW r \in Nat, Accounted(r)
    PROVE  Accounted(r)'
<1>0. /\ TypeOK /\ samples' = samples
      /\ batch # NoBatch <=> phase = "sending"
  BY DEF LossInv, CallInv, Shipper, StartRegister, Registered, IdentityUnsaved, SaveToken,
         TokenUnsaved, RegisterFails, ShipBatch, ShipConfirmed, ShipRefused, ClearUnsaved,
         ShipFails, ShipEscapes, ShipEnds, Timeout, serverVars
<1>1. CASE ShipBatch
  BY <1>1, ClaimAccount
<1>2. CASE StartRegister
  <2>1. PICK new : new = Request("register", nextUuid, {})
    OBVIOUS
  <2>2. new.kind = "register" /\ requests' = requests \cup {new}
    BY <1>2, <2>1 DEF Request, StartRegister
  <2>3. Sent(r)' \subseteq Sent(r)
    BY <1>0, <2>2 DEF Sent, Copies, Carrying
  <2>4. UNCHANGED <<spool, faults, restarts>> /\ phase' = "registering"
    BY <1>2 DEF StartRegister, DrawUuid
  <2>5. UnclaimedRows' = UnclaimedRows
    BY <2>4 DEF UnclaimedRows
  <2>6. r \in Resendable' => r \in Resendable
    BY <2>4, <2>5, ResendableMeans
  <2> QED  BY <1>0, <2>3, <2>4, <2>6, TroublesKept, AccountKept
<1>3. CASE \/ Registered \/ IdentityUnsaved \/ SaveToken \/ TokenUnsaved \/ RegisterFails
           \/ ShipConfirmed \/ ShipRefused \/ ClearUnsaved \/ ShipFails \/ ShipEscapes \/ Timeout
  <2>1. requests' = requests /\ phase' \in {"idle", "saving"}
    BY <1>3 DEF Registered, IdentityUnsaved, SaveToken, TokenUnsaved, RegisterFails,
                ShipConfirmed, ShipRefused, ClearUnsaved, ShipFails, ShipEscapes, ShipEnds,
                Timeout, networkVars
  <2>2. Sent(r)' \subseteq Sent(r)
    BY <1>0, <2>1, SentKept
  <2>3. r \in Resendable' => r \in UnclaimedRows'
    BY <2>1, ResendableMeans
  <2>4. restarts' = restarts
    BY <1>3 DEF Registered, IdentityUnsaved, SaveToken, TokenUnsaved, RegisterFails,
                ShipConfirmed, ShipRefused, ClearUnsaved, ShipFails, ShipEscapes, Timeout,
                Confirm, Release, Abandon, spoolVars
  <2>5. CASE \/ Registered \/ SaveToken \/ RegisterFails \/ ShipConfirmed \/ ShipEscapes
             \/ Timeout /\ phase # "sending" /\ faults' = faults
    <3>1. spool' = spool \/ spool' = [x \in Rows \ RowsOf(batch) |-> spool[x]]
      BY <2>5 DEF Registered, SaveToken, RegisterFails, ShipConfirmed, ShipEscapes, Timeout,
                  Confirm, ConfirmBatch, Abandon, spoolVars
    <3>2. UnclaimedRows' \subseteq UnclaimedRows
      BY <3>1 DEF UnclaimedRows
    <3>3. faults' = faults
      BY <2>5 DEF Registered, SaveToken, RegisterFails, ShipConfirmed, ShipEscapes, ShipEnds
    <3>4. r \in Resendable' => r \in Resendable
      BY <2>3, <3>2, ResendableMeans
    <3> QED  BY <1>0, <2>2, <2>4, <3>3, <3>4, TroublesKept, AccountKept
  <2>6. CASE \/ IdentityUnsaved \/ TokenUnsaved \/ ClearUnsaved
             \/ Timeout /\ faults' # faults
    <3>1. faults' = faults + 1
      BY <2>6 DEF IdentityUnsaved, TokenUnsaved, ClearUnsaved, Timeout, Fault
    <3> QED  BY <1>0, <2>2, <2>4, <3>1, TroublesGrow, AccountKept
  <2>7. CASE \/ ShipRefused \/ ShipFails
             \/ Timeout /\ phase = "sending" /\ faults' = faults
    <3>1. phase = "sending" /\ Release /\ faults' = faults
      BY <2>7 DEF ShipRefused, ShipFails, ShipEnds, Timeout
    <3>2. CallIsLost
      <4>1. CASE \E a \in answers : ~Succeeds(a)
        BY <4>1 DEF WireInv, CallIsLost
      <4>2. CASE Timeout /\ faults' = faults
        <5>1. \A m \in requests \cup answers : m.call # call
          BY <1>0, <4>2 DEF Timeout, Fault, TypeOK, NetworkTypeOK
        <5> QED  BY <5>1 DEF WireInv, CallIsLost
      <4>3. \A a : Refuses(a) \/ Fails(a) => ~Succeeds(a)
        BY DEF Refuses, Fails, Succeeds, Success, Fatal
      <4> QED  BY <2>7, <4>1, <4>2, <4>3 DEF ShipRefused, ShipFails
    <3>3. UnclaimedRows' \subseteq UnclaimedRows \cup RowsOf(batch)
      BY <3>1 DEF Release, ReleaseBatch, UnclaimedRows, RowsOf
    <3>4. r \in Resendable' => r \in Resendable
      BY <2>3, <3>1, <3>2, <3>3, ResendableMeans
    <3> QED  BY <1>0, <2>2, <2>4, <3>1, <3>4, TroublesKept, AccountKept
  <2> QED  BY <1>3, <2>5, <2>6, <2>7
<1> QED  BY <1>1, <1>2, <1>3 DEF Shipper

(* A row never measured has never been sent.                                 *)
LEMMA FreshIsUnsent ==
    ASSUME TypeOK, NEW r \in Nat, r >= nextId
    PROVE  Sent(r) = {} /\ Accounted(r)
<1>1. nextId \in Nat
  BY DEF TypeOK, SpoolTypeOK
<1>2. r \notin 1 .. nextId - 1
  BY <1>1
<1>3. Copies(r) = {}
  BY <1>2 DEF Copies, TypeOK, ServerTypeOK
<1>4. Carrying(r) = {}
  BY <1>2 DEF Carrying, TypeOK, NetworkTypeOK, RequestType
<1>5. Sent(r) = {}
  BY <1>3, <1>4 DEF Sent
<1>6. Cardinality(Sent(r)) = 0
  BY <1>5, FS_EmptySet
<1>7. Troubles \in Nat
  BY DEF Troubles, TypeOK, NetworkTypeOK, SpoolTypeOK
<1> QED  BY <1>5, <1>6, <1>7 DEF Accounted

(* The collection loop puts new rows in the queue and takes old ones out.    *)
LEMMA CollectAccount ==
    ASSUME LossInv, TypeOK', Collect, NEW r \in Nat, Accounted(r)
    PROVE  Accounted(r)'
<1>1. /\ UNCHANGED <<samples, requests, answers, phase, call, batch, faults, restarts>>
      /\ TypeOK
  BY DEF LossInv, Collect, serverVars, networkVars, shipperVars, Collector, Write,
         TrimCount, TrimDelete
<1>2. Sent(r)' = Sent(r) /\ Sent(r)' \subseteq Sent(r)
  BY <1>1, SentKept
<1>3. Troubles' = Troubles /\ Troubles <= Troubles'
  BY <1>1, TroublesKept
<1>4. CallIsLost' <=> CallIsLost
  BY <1>1 DEF CallIsLost
<1>5. CASE r >= nextId
  <2>1. Sent(r)' = {}
    BY <1>1, <1>2, <1>5, FreshIsUnsent
  <2>2. Cardinality(Sent(r)') = 0 /\ Troubles \in Nat
    BY <1>1, <2>1, FS_EmptySet, TroublesTyped
  <2>3. Cardinality(Sent(r)') <= Troubles /\ Cardinality(Sent(r)') <= Troubles + 1
    BY <2>2
  <2> QED  BY <1>3, <2>3, Zenon DEF Accounted
<1>6. CASE ~(r >= nextId)
  <2>1. r \in Rows' => r \in Rows /\ spool'[r] = spool[r]
    <3>1. ASSUME NEW n \in 1 .. WriteRows, Write(n)
          PROVE  r \in Rows' => r \in Rows /\ spool'[r] = spool[r]
      BY <1>1, <1>6, <3>1 DEF Write, Add, TypeOK, SpoolTypeOK
    <3>2. CASE TrimCount \/ TrimDelete
      BY <3>2 DEF TrimCount, TrimDelete
    <3> QED  BY <3>1, <3>2 DEF Collect, Collector
  <2>2. /\ r \in UnclaimedRows' => r \in UnclaimedRows
        /\ r \in RowsOf(batch)' => r \in RowsOf(batch)
    BY <1>1, <2>1 DEF UnclaimedRows, RowsOf
  <2>3. r \in Resendable' => r \in Resendable
    BY <1>1, <1>4, <2>2, ResendableMeans
  <2> QED  BY <1>1, <1>2, <1>3, <2>3, AccountKept
<1> QED  BY <1>5, <1>6

(* A restart puts every row back, once.                                      *)
LEMMA RestartAccount ==
    ASSUME LossInv, TypeOK', Restart, NEW r \in Nat, Accounted(r)
    PROVE  Accounted(r)'
<1>1. /\ UNCHANGED <<samples, requests, faults>> /\ restarts' = restarts + 1
      /\ TypeOK
  BY DEF LossInv, Restart, RestartSpool, serverVars
<1>2. Sent(r)' \subseteq Sent(r)
  BY <1>1, SentKept
<1>3. Troubles < Troubles' /\ Troubles <= Troubles'
  BY <1>1, TroublesGrow
<1> QED  BY <1>1, <1>2, <1>3, AccountKept

LEMMA StutterAccount ==
    ASSUME LossInv, TypeOK', UNCHANGED vars, NEW r \in Nat, Accounted(r)
    PROVE  Accounted(r)'
<1>1. /\ UNCHANGED <<samples, requests, answers, call, phase, spool, batch, faults, restarts>>
      /\ TypeOK
  BY DEF LossInv, vars, spoolVars, serverVars, shipperVars, networkVars
<1>2. Sent(r)' \subseteq Sent(r)
  BY <1>1, SentKept
<1>3. Troubles <= Troubles'
  BY <1>1, TroublesKept
<1>4. CallIsLost' <=> CallIsLost
  BY <1>1 DEF CallIsLost
<1>5. UnclaimedRows' = UnclaimedRows /\ RowsOf(batch)' = RowsOf(batch) /\ phase' = phase
  BY <1>1 DEF UnclaimedRows, RowsOf
<1>6. r \in Resendable' => r \in Resendable
  BY <1>4, <1>5, ResendableMeans, Zenon
<1> QED  BY <1>1, <1>2, <1>3, <1>6, AccountKept

-----------------------------------------------------------------------------
(* Duplicates                                                                *)

LEMMA SentInvInit == Init => SentInv
<1> SUFFICES ASSUME Init PROVE SentInv
  OBVIOUS
<1>1. WireInv
  BY DEF Init, IngestInit, WireInv
<1>2. ASSUME NEW r \in Nat PROVE Accounted(r)
  <2>1. Copies(r) = {} /\ Carrying(r) = {}
    BY DEF Init, IngestInit, Copies, Carrying
  <2>2. Sent(r) = {}
    BY <2>1 DEF Sent
  <2>3. Cardinality(Sent(r)) = 0
    BY <2>2, FS_EmptySet
  <2>4. Troubles = 0
    BY DEF Troubles, Init, SpoolInit
  <2> QED  BY <2>3, <2>4 DEF Accounted
<1> QED  BY <1>1, <1>2 DEF SentInv

LEMMA SentInvStep == LossInv /\ SentInv /\ [Next]_vars => SentInv'
<1> SUFFICES ASSUME LossInv, SentInv, [Next]_vars PROVE SentInv'
  OBVIOUS
<1>1. TypeOK' /\ WireInv /\ WireInv'
  BY StepTyped, WireInvStep DEF LossInv, SentInv
<1>2. ASSUME NEW r \in Nat PROVE Accounted(r)'
  <2>1. Accounted(r)
    BY DEF SentInv
  <2>2. CASE UNCHANGED vars
    BY <1>1, <2>1, <2>2, StutterAccount
  <2>3. CASE Shipper
    BY <1>1, <2>1, <2>3, ShipperAccount
  <2>4. CASE Collect \/ Restart
    BY <1>1, <2>1, <2>4, CollectAccount, RestartAccount
  <2>5. CASE Server \/ Environment
    <3>1. UNCHANGED spoolVars
      BY <2>5 DEF Server, HandleRegister, Authenticate, HandleIngest, Environment,
                  ServerFails, RewindFails, ProtocolSkew, LoseRequest, LoseAnswer,
                  PortalAnswers, Retire
    <3> QED  BY <1>1, <2>1, <2>5, <3>1, ServerAccount, EnvironmentAccount
  <2> QED  BY <2>2, <2>3, <2>4, <2>5 DEF Next
<1> QED  BY <1>1, <1>2 DEF SentInv

(* Copies of one batch carry one probe id, so those of a row differ in the   *)
(* batch.                                                                    *)
LEMMA CopiesWereSent ==
    ASSUME TypeOK, WireInv, NEW r
    PROVE  /\ Cardinality(Copies(r)) \in Nat /\ Cardinality(Sent(r)) \in Nat
           /\ Cardinality(Copies(r)) <= Cardinality(Sent(r))
<1> DEFINE f == [s \in Copies(r) |-> s.batch]
<1>1. ASSUME NEW s \in Copies(r), NEW t \in Copies(r), s.batch = t.batch
      PROVE  s = t
  BY <1>1 DEF Copies, WireInv, TypeOK, ServerTypeOK
<1>2. f \in Injection(Copies(r), Sent(r))
  BY <1>1 DEF Sent, Injection, IsInjective
<1>3. IsFiniteSet(Sent(r))
  BY SentFinite
<1> QED  BY <1>2, <1>3, FS_Injection, FS_CardinalityType

LEMMA AccountBoundsCopies ==
    TypeOK /\ SentInv => DuplicatesBounded
<1> SUFFICES ASSUME TypeOK, SentInv, NEW r \in Stored
             PROVE  Cardinality(Copies(r)) <= 1 + faults + restarts
  BY DEF DuplicatesBounded
<1>1. r \in Nat
  BY DEF Stored, TypeOK, ServerTypeOK
<1>2. Cardinality(Sent(r)) <= Troubles + 1
  BY <1>1 DEF SentInv, Accounted
<1>3. /\ Cardinality(Copies(r)) \in Nat /\ Cardinality(Sent(r)) \in Nat
      /\ Cardinality(Copies(r)) <= Cardinality(Sent(r))
  BY CopiesWereSent DEF SentInv
<1>4. faults \in Nat /\ restarts \in Nat
  BY DEF TypeOK, NetworkTypeOK, SpoolTypeOK
<1> QED  BY <1>2, <1>3, <1>4 DEF Troubles

(* "The server's batch_id idempotency absorbs the resulting duplicate" only  *)
(* as far as a batch keeps its id; across re-sent batches a row is stored at *)
(* most once more for each fault and each restart, however they interleave   *)
(* with late requests, refusals and re-registrations.                        *)
THEOREM DuplicatesAlwaysBounded == Spec => []DuplicatesBounded
<1>1. LossInv /\ SentInv => DuplicatesBounded
  BY AccountBoundsCopies DEF LossInv
<1>2. LossInv /\ SentInv /\ [Next]_vars => LossInv' /\ SentInv'
  BY LossInvStep, SentInvStep
<1> QED  BY LossInvInit, SentInvInit, <1>1, <1>2, PTL DEF Spec
=============================================================================
