---------------------------------- MODULE Spool ----------------------------------
(***************************************************************************)
(* The probe's durable buffer: the SQLite table behind netdbg_agent's      *)
(* spool.py, and the two threads that use it.                              *)
(*                                                                         *)
(* The collection loop adds the rows of each cycle (in one commit, or two  *)
(* when the clock stepped: its samples, then the clock_step events) and,   *)
(* every so often, trims the table to its cap.  The shipping thread claims *)
(* the oldest rows under a fresh batch id and later confirms (deletes) or  *)
(* releases them.                                                          *)
(* The spool's lock makes every call one step, except trim(), which takes  *)
(* the lock twice.                                                         *)
(*                                                                         *)
(* Rows are numbered by the AUTOINCREMENT key, so a row's id is also the   *)
(* order in which it was measured.  What a row carries (kind, ts, payload) *)
(* is never looked at by these operations and is left out.                 *)
(***************************************************************************)
EXTENDS Integers, FiniteSets

CONSTANTS
    MaxRows,       \* spool_max_rows, the cap trim() enforces
    BatchSize,     \* ship_batch_size, the LIMIT of claim_batch
    WriteRows,     \* the most rows the collection loop commits in one write
    TrimEvery,     \* the most writes between two trim checks of one process
    MaxId,         \* bound: rows measured in a behaviour
    MaxUuid,       \* bound: fresh identifiers drawn in a behaviour
    MaxRestarts,   \* bound: crashes of the agent in a behaviour
    Faults         \* the kinds of fault the environment may inject

FaultKinds == {"lose", "slow", "error", "skew", "foreign", "portal", "retire", "disk"}

ASSUME SpoolConstants ==
    /\ MaxRows \in Nat \ {0}
    /\ BatchSize \in Nat \ {0}
    /\ WriteRows \in Nat \ {0}
    /\ TrimEvery \in Nat \ {0}
    /\ MaxId \in Nat
    /\ MaxUuid \in Nat
    /\ MaxRestarts \in Nat
    /\ Faults \subseteq FaultKinds

VARIABLES
    spool,      \* row id -> the batch_id column, NoBatch standing for NULL
    nextId,     \* the id AUTOINCREMENT gives the next row
    batch,      \* the batch the shipping thread is sending, or NoBatch
    abandoned,  \* history: batches this process claimed and can no longer finish
    nextUuid,   \* uuid4() never repeats: ids from here on are unused
    writes,     \* commits of the collection loop since its last trim check
    excess,     \* rows trim() has decided to drop and not yet dropped
    trimmed,    \* history: rows trim() has dropped
    restarts    \* crashes so far

spoolVars == <<spool, nextId, batch, abandoned, nextUuid, writes, excess, trimmed, restarts>>
collectorVars == <<nextId, writes, excess, trimmed>>

NoBatch == 0
Rows == DOMAIN spool
UnclaimedRows == {r \in Rows : spool[r] = NoBatch}
RowsOf(b) == {r \in Rows : spool[r] = b}
PendingCount == Cardinality(Rows)
Least(m, n) == IF m <= n THEN m ELSE n

-----------------------------------------------------------------------------
(* The operations of spool.py, each one critical section of its lock.        *)

Add(n) ==
    /\ spool' = [r \in Rows \cup (nextId .. nextId + n - 1) |->
                    IF r \in Rows THEN spool[r] ELSE NoBatch]
    /\ nextId' = nextId + n

\* Mutant: ORDER BY id DESC.
NewestUnclaimed(rows) ==
    /\ rows \subseteq UnclaimedRows
    /\ Cardinality(rows) = Least(BatchSize, Cardinality(UnclaimedRows))
    /\ \A r \in rows, s \in UnclaimedRows \ rows : r > s

\* SELECT ... WHERE batch_id IS NULL ORDER BY id LIMIT ?
OldestUnclaimed(rows) ==
    /\ rows \subseteq UnclaimedRows
    /\ Cardinality(rows) = Least(BatchSize, Cardinality(UnclaimedRows))
    /\ \A r \in rows, s \in UnclaimedRows \ rows : r < s

ClaimBatch(b, rows) ==
    spool' = [r \in Rows |-> IF r \in rows THEN b ELSE spool[r]]

\* Mutant: a delivered batch goes back to the queue.
ConfirmRequeues(b) ==
    spool' = [r \in Rows |-> IF spool[r] = b THEN NoBatch ELSE spool[r]]

ConfirmBatch(b) ==
    spool' = [r \in Rows \ RowsOf(b) |-> spool[r]]

ReleaseBatch(b) ==
    spool' = [r \in Rows |-> IF spool[r] = b THEN NoBatch ELSE spool[r]]

\* Mutant: a batch in flight at the crash is taken for delivered.
ReclaimForgets ==
    spool' = [r \in UnclaimedRows |-> NoBatch]

ReclaimOrphans ==
    spool' = [r \in Rows |-> NoBatch]

\* ORDER BY (batch_id IS NOT NULL), id
TrimmedBefore(r, s) ==
    \/ spool[r] = NoBatch /\ spool[s] # NoBatch
    \/ (spool[r] = NoBatch) = (spool[s] = NoBatch) /\ r < s

\* Mutant: WHERE batch_id IS NULL instead of the ORDER BY.
UnclaimedVictims(rows) ==
    /\ rows \subseteq UnclaimedRows
    /\ Cardinality(rows) = Least(excess, Cardinality(UnclaimedRows))
    /\ \A r \in rows, s \in UnclaimedRows \ rows : r < s

TrimVictims(rows) ==
    /\ rows \subseteq Rows
    /\ Cardinality(rows) = Least(excess, PendingCount)
    /\ \A r \in rows, s \in Rows \ rows : TrimmedBefore(r, s)

-----------------------------------------------------------------------------
(* The collection loop: one thread, so it writes nothing between the two     *)
(* halves of a trim.                                                         *)

Write(n) ==
    /\ excess = 0
    /\ writes < TrimEvery
    /\ nextId + n <= MaxId + 1
    /\ Add(n)
    /\ writes' = writes + 1
    /\ UNCHANGED <<batch, abandoned, nextUuid, excess, trimmed, restarts>>

\* Mutant: no early return when the spool is within its cap.
TrimCountUnguarded ==
    /\ excess = 0
    /\ writes > 0
    /\ excess' = PendingCount - MaxRows
    /\ writes' = 0
    /\ UNCHANGED <<spool, nextId, batch, abandoned, nextUuid, trimmed, restarts>>

TrimCount ==
    /\ excess = 0
    /\ writes > 0
    /\ excess' = IF PendingCount > MaxRows THEN PendingCount - MaxRows ELSE 0
    /\ writes' = 0
    /\ UNCHANGED <<spool, nextId, batch, abandoned, nextUuid, trimmed, restarts>>

TrimDelete ==
    /\ excess > 0
    /\ \E rows \in SUBSET Rows :
          /\ TrimVictims(rows)
          /\ spool' = [r \in Rows \ rows |-> spool[r]]
          /\ trimmed' = trimmed \cup rows
    /\ excess' = 0
    /\ UNCHANGED <<nextId, batch, abandoned, nextUuid, writes, restarts>>

Collector == (\E n \in 1 .. WriteRows : Write(n)) \/ TrimCount \/ TrimDelete

-----------------------------------------------------------------------------
(* The shipping thread, as far as the spool sees it.                         *)

Claim ==
    /\ batch = NoBatch
    /\ nextUuid <= MaxUuid
    /\ \E rows \in SUBSET Rows :
          rows # {} /\ OldestUnclaimed(rows) /\ ClaimBatch(nextUuid, rows)
    /\ batch' = nextUuid
    /\ nextUuid' = nextUuid + 1
    /\ UNCHANGED <<collectorVars, abandoned, restarts>>

Confirm ==
    /\ batch # NoBatch
    /\ ConfirmBatch(batch)
    /\ batch' = NoBatch
    /\ UNCHANGED <<collectorVars, abandoned, nextUuid, restarts>>

Release ==
    /\ batch # NoBatch
    /\ ReleaseBatch(batch)
    /\ batch' = NoBatch
    /\ UNCHANGED <<collectorVars, abandoned, nextUuid, restarts>>

\* An exception escapes _send between claim and confirm: neither branch of
\* ship_once runs, and the thread goes on without the batch.
Abandon ==
    /\ "portal" \in Faults
    /\ batch # NoBatch
    /\ batch' = NoBatch
    /\ abandoned' = abandoned \cup {batch}
    /\ UNCHANGED <<spool, collectorVars, nextUuid, restarts>>

\* Identifiers are drawn for other calls too.
DrawUuid ==
    /\ nextUuid <= MaxUuid
    /\ nextUuid' = nextUuid + 1
    /\ UNCHANGED <<spool, collectorVars, batch, abandoned, restarts>>

\* Mutant: no reclaim when the file is opened.
RestartKeepsClaims ==
    /\ restarts < MaxRestarts
    /\ batch' = NoBatch
    /\ abandoned' = {}
    /\ writes' = 0
    /\ excess' = 0
    /\ restarts' = restarts + 1
    /\ UNCHANGED <<spool, nextId, nextUuid, trimmed>>

\* The process dies and a new one opens the same file.
RestartSpool ==
    /\ restarts < MaxRestarts
    /\ ReclaimOrphans
    /\ batch' = NoBatch
    /\ abandoned' = {}
    /\ writes' = 0
    /\ excess' = 0
    /\ restarts' = restarts + 1
    /\ UNCHANGED <<nextId, nextUuid, trimmed>>

SpoolInit ==
    /\ spool = [r \in {} |-> NoBatch]
    /\ nextId = 1
    /\ batch = NoBatch
    /\ abandoned = {}
    /\ nextUuid = 1
    /\ writes = 0
    /\ excess = 0
    /\ trimmed = {}
    /\ restarts = 0

SpoolNext ==
    \/ Collector
    \/ Claim
    \/ Confirm
    \/ Release
    \/ Abandon
    \/ DrawUuid
    \/ RestartSpool

SpoolSpec == SpoolInit /\ [][SpoolNext]_spoolVars

-----------------------------------------------------------------------------
(* Types of the spool's state: the table, its counters and the threads'      *)
(* local variables.                                                          *)
SpoolTypeOK ==
    /\ nextId \in 1 .. MaxId + 1
    /\ nextUuid \in 1 .. MaxUuid + 1
    /\ Rows \in SUBSET (1 .. nextId - 1)
    /\ spool \in [Rows -> 0 .. nextUuid - 1]
    /\ batch \in 0 .. nextUuid - 1
    /\ abandoned \in SUBSET (1 .. nextUuid - 1)
    /\ writes \in 0 .. TrimEvery
    /\ excess \in Nat
    /\ trimmed \in SUBSET (1 .. nextId - 1)
    /\ restarts \in 0 .. MaxRestarts

(* The claim bookkeeping "that guarantees no measurement is deleted before   *)
(* the server confirms it" (spool.py, the lock's comment): every claimed row *)
(* belongs to the one batch being sent, or to one that an exception took     *)
(* from the sender in this process, so nothing else sits claimed with no     *)
(* thread left to finish it.  It rests on every other path of ship_once      *)
(* ending in confirm or release, on the reclaim at start-up and on the two   *)
(* threads never splitting a claim.                                          *)
ClaimsBelongToSender ==
    \A r \in Rows : spool[r] \in {NoBatch, batch} \cup abandoned

(* claim_batch's oldest-first order as a fact about the table: whatever the  *)
(* collector adds, the sender claims, releases and abandons and trim drops,  *)
(* no row waits behind a younger row that is already on its way.             *)
OldestFirst ==
    \A r, s \in Rows : spool[r] # NoBatch /\ spool[s] = NoBatch => r < s

(* The cap holds up to what one process adds between two trim checks.  Each  *)
(* restart starts that interval again (run_forever sets last_trim to now),   *)
(* so an agent that restarts k times may exceed the cap k + 1 times over.    *)
BacklogBounded ==
    PendingCount <= MaxRows + (restarts + 1) * TrimEvery * WriteRows
=============================================================================
