--------------------------------- MODULE Ingest ----------------------------------
(***************************************************************************)
(* The server's side of delivery: the tables that register and ingest      *)
(* (netdbg_server/api/ingest.py), the authentication dependency            *)
(* (api/auth.py) and the queries they call read and write.                 *)
(*                                                                         *)
(* Every operator below is one SQL transaction, or one autocommitted       *)
(* statement, seen from outside; the module says what each does to the     *)
(* tables and what it answers, and leaves when it runs to the module that  *)
(* composes it with the agent.                                             *)
(*                                                                         *)
(* A token is named by the call that asked for it and a generated probe id *)
(* by the registration that generated it: generate_token and uuid4 return  *)
(* what nothing else has, and a call is answered once.                     *)
(***************************************************************************)
EXTENDS Integers, FiniteSets

CONSTANT MaxBatchSamples      \* max_batch_samples: larger batches get a 413

ASSUME IngestConstants == MaxBatchSamples \in Nat \ {0}

VARIABLES
    probes,    \* probe id -> its token (auth_token_hash) and status
    batches,   \* ingest_batches: the batch ids applied
    samples    \* the samples table: one record for each stored copy of a row

serverVars == <<probes, batches, samples>>

NoProbe == 0
NoToken == 0

\* The status codes of an answer.
Success == {200, 202}
Fatal == {400, 401, 403, 413}

-----------------------------------------------------------------------------
(* POST /register                                                            *)

RegisteredId(req) == IF req.probe = NoProbe THEN req.call ELSE req.probe

\* Mutant: the probe row is written and its token hash is not.
RegisterWithoutToken(req) ==
    LET id == RegisteredId(req)
        status == IF id \in DOMAIN probes THEN probes[id].status ELSE "active"
    IN  probes' = [p \in DOMAIN probes \cup {id} |->
                      IF p = id THEN [token |-> NoToken, status |-> status]
                                ELSE probes[p]]

\* One transaction: an existing probe keeps its status, whatever it is; the
\* token is replaced.
RegisterProbe(req) ==
    LET id == RegisteredId(req)
        status == IF id \in DOMAIN probes THEN probes[id].status ELSE "active"
    IN  probes' = [p \in DOMAIN probes \cup {id} |->
                      IF p = id THEN [token |-> req.call, status |-> status]
                                ELSE probes[p]]

-----------------------------------------------------------------------------
(* POST /ingest                                                              *)

\* require_probe, which reads on its own before the handler runs; 0 lets the
\* request through.
AuthStatus(req) ==
    IF req.probe \notin DOMAIN probes THEN 401
    ELSE IF probes[req.probe].token # req.token THEN 401
    ELSE IF probes[req.probe].status = "retired" THEN 403
    ELSE 0

TooLarge(req) == Cardinality(req.rows) > MaxBatchSamples

CopiesOf(req) == {[row |-> r, batch |-> req.call, probe |-> req.probe] : r \in req.rows}

\* record_batch: the primary key of ingest_batches.
AlreadyApplied(req) == req.call \in batches

\* Mutant: the batch is cut to the limit instead of being refused or inserted whole.
ApplyTruncated(req) ==
    IF AlreadyApplied(req)
    THEN UNCHANGED <<batches, samples>>
    ELSE /\ batches' = batches \cup {req.call}
         /\ samples' = samples \cup
                {c \in CopiesOf(req) : \E d \in CopiesOf(req) : c.row < d.row}

\* The ingest transaction: a batch id seen before inserts
\* nothing.
ApplyBatch(req) ==
    IF AlreadyApplied(req)
    THEN UNCHANGED <<batches, samples>>
    ELSE /\ batches' = batches \cup {req.call}
         /\ samples' = samples \cup CopiesOf(req)

-----------------------------------------------------------------------------
(* The operator retires a probe, in the database (tests/api/test_ingest.py). *)
RetireProbe(p) ==
    /\ probes[p].status # "retired"
    /\ probes' = [probes EXCEPT ![p].status = "retired"]

IngestInit ==
    /\ probes = [p \in {} |-> [token |-> NoToken, status |-> "active"]]
    /\ batches = {}
    /\ samples = {}

Stored == {s.row : s \in samples}
Copies(r) == {s \in samples : s.row = r}
=============================================================================
