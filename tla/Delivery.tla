-------------------------------- MODULE Delivery ---------------------------------
(***************************************************************************)
(* One agent delivering its spool to the server over a network that loses  *)
(* and delays: netdbg_agent's Shipper and ShipWorker, the spool they share *)
(* with the collection loop (module Spool) and the server's register and   *)
(* ingest handlers (module Ingest).                                        *)
(*                                                                         *)
(* The shipping thread makes one HTTP call at a time and waits for its     *)
(* answer or for the timeout.  A call it has given up on is not undone:    *)
(* the request may still reach the server and be processed, and only its   *)
(* answer has nowhere to go.                                               *)
(*                                                                         *)
(* Identifiers: each call draws the next uuid.  It names the call, the     *)
(* batch when the call ships one, and what the server generates for it.    *)
(***************************************************************************)
EXTENDS Spool, Ingest

CONSTANT MaxFaults     \* bound: network and server faults in a behaviour

ASSUME DeliveryConstants == MaxFaults \in Nat

VARIABLES
    phase,       \* where the shipping thread is in its cycle
    call,        \* the HTTP call it waits for, or NoCall
    probeId,     \* Shipper._probe_id, NoProbe for None
    token,       \* Shipper._token, NoToken for None
    identity,    \* the identity table; no token and "" are both NoToken
    unsaved,     \* history: ids the agent went by that it failed to commit
    requests,    \* requests on their way to the server or inside it
    answers,     \* the answer on its way back to the waiting thread, if any
    faults       \* faults injected so far

shipperVars == <<phase, call, probeId, token, identity, unsaved>>
networkVars == <<requests, answers>>
vars == <<spoolVars, serverVars, shipperVars, networkVars, faults>>

NoCall == 0
Phases == {"idle", "registering", "saving", "sending"}
IsRegistered == probeId # NoProbe /\ token # NoToken

\* No kind of fault goes beyond the budget, and "retire" needs none.
Fault(kind) ==
    /\ kind \in Faults
    /\ faults < MaxFaults
    /\ faults' = faults + 1

Request(kind, id, rows) ==
    [kind |-> kind, call |-> id, stage |-> "sent",
     probe |-> probeId, token |-> token, rows |-> rows]

\* The body of an answer is the model the agent expects ("ours"), JSON of some
\* other shape ("json") or no JSON at all ("html").
Answer(id, status, body, p, t) ==
    [call |-> id, status |-> status, body |-> body, probe |-> p, token |-> t]

Succeeds(a) == a.status \in Success /\ a.body = "ours"
Refuses(a) == a.status \in Fatal \/ (a.status \in Success /\ a.body = "json")
Escapes(a) == a.status \in Success /\ a.body = "html"
Fails(a) == a.status \notin Success \cup Fatal

\* The answer to a call nobody waits for any more is dropped.
Reply(req, answer) ==
    /\ requests' = requests \ {req}
    /\ answers' = IF req.call = call THEN answers \cup {answer} ELSE answers

Refuse(req, status) ==
    Reply(req, Answer(req.call, status, "ours", NoProbe, NoToken))

-----------------------------------------------------------------------------
(* The shipping thread: registration                                         *)

StartRegister ==
    /\ phase = "idle"
    /\ ~IsRegistered
    /\ DrawUuid
    /\ requests' = requests \cup {Request("register", nextUuid, {})}
    /\ call' = nextUuid
    /\ phase' = "registering"
    /\ UNCHANGED <<serverVars, probeId, token, identity, unsaved, answers, faults>>

\* The thread has its answer, or has given up waiting.
CallEnds ==
    /\ call' = NoCall
    /\ answers' = {}

\* register() sets both fields and commits the first of the two identity rows.
Registered ==
    /\ phase = "registering"
    /\ \E a \in answers :
          /\ Succeeds(a)
          /\ probeId' = a.probe
          /\ token' = a.token
          /\ identity' = [identity EXCEPT !.probe = a.probe]
    /\ CallEnds
    /\ phase' = "saving"
    /\ UNCHANGED <<spoolVars, serverVars, unsaved, requests, faults>>

\* The commit raises, to the catch-all of ShipWorker._run: the fields stay set.
IdentityUnsaved ==
    /\ phase = "registering"
    /\ \E a \in answers :
          /\ Succeeds(a)
          /\ probeId' = a.probe
          /\ token' = a.token
          /\ unsaved' = unsaved \cup ({a.probe} \ {identity.probe})
    /\ CallEnds
    /\ phase' = "idle"
    /\ Fault("disk")
    /\ UNCHANGED <<spoolVars, serverVars, identity, requests>>

SaveToken ==
    /\ phase = "saving"
    /\ identity' = [identity EXCEPT !.token = token]
    /\ phase' = "idle"
    /\ UNCHANGED <<spoolVars, serverVars, call, probeId, token, unsaved, networkVars, faults>>

TokenUnsaved ==
    /\ phase = "saving"
    /\ phase' = "idle"
    /\ Fault("disk")
    /\ UNCHANGED <<spoolVars, serverVars, call, probeId, token, identity, unsaved, networkVars>>

RegisterFails ==
    /\ phase = "registering"
    /\ \E a \in answers : ~Succeeds(a)
    /\ CallEnds
    /\ phase' = "idle"
    /\ UNCHANGED <<spoolVars, serverVars, probeId, token, identity, unsaved, requests, faults>>

-----------------------------------------------------------------------------
(* The shipping thread: one batch                                            *)

ShipBatch ==
    /\ phase = "idle"
    /\ IsRegistered
    /\ Claim
    /\ LET rows == {r \in Rows : spool'[r] = nextUuid}
       IN  requests' = requests \cup {Request("ingest", nextUuid, rows)}
    /\ call' = nextUuid
    /\ phase' = "sending"
    /\ UNCHANGED <<serverVars, probeId, token, identity, unsaved, answers, faults>>

ShipEnds ==
    /\ CallEnds
    /\ phase' = "idle"
    /\ UNCHANGED <<serverVars, probeId, unsaved, requests, faults>>

\* Applied now or a duplicate: both are a 202 and both count as delivered.
ShipConfirmed ==
    /\ phase = "sending"
    /\ \E a \in answers : Succeeds(a)
    /\ Confirm
    /\ ShipEnds
    /\ UNCHANGED <<token, identity>>

\* Mutant: clear_identity forgets the probe id along with the token.
RefusedForgetsProbe ==
    /\ phase = "sending"
    /\ \E a \in answers : Refuses(a)
    /\ Release
    /\ CallEnds
    /\ phase' = "idle"
    /\ probeId' = NoProbe
    /\ token' = NoToken
    /\ identity' = [probe |-> NoProbe, token |-> NoToken]
    /\ UNCHANGED <<serverVars, unsaved, requests, faults>>

\* A fatal answer releases the batch and, in the worker, clears the token.
ShipRefused ==
    /\ phase = "sending"
    /\ \E a \in answers : Refuses(a)
    /\ Release
    /\ ShipEnds
    /\ token' = NoToken
    /\ identity' = [identity EXCEPT !.token = NoToken]

\* The token is forgotten and the commit raises, past the batch's release.
ClearUnsaved ==
    /\ phase = "sending"
    /\ \E a \in answers : Refuses(a)
    /\ Release
    /\ CallEnds
    /\ phase' = "idle"
    /\ token' = NoToken
    /\ Fault("disk")
    /\ UNCHANGED <<serverVars, probeId, identity, unsaved, requests>>

\* Mutant: the batch is deleted whatever the server answered.
FailsConfirms ==
    /\ phase = "sending"
    /\ \E a \in answers : Fails(a)
    /\ Confirm
    /\ ShipEnds
    /\ UNCHANGED <<token, identity>>

ShipFails ==
    /\ phase = "sending"
    /\ \E a \in answers : Fails(a)
    /\ Release
    /\ ShipEnds
    /\ UNCHANGED <<token, identity>>

\* A 200 whose body is not JSON: resp.json() raises past the except clause of
\* _send, past ship_once, to the catch-all of ShipWorker._run.
ShipEscapes ==
    /\ phase = "sending"
    /\ \E a \in answers : Escapes(a)
    /\ Abandon
    /\ ShipEnds
    /\ UNCHANGED <<token, identity>>

\* Mutant: a transport error leaves the batch claimed.
TimeoutKeepsClaim ==
    /\ phase \in {"registering", "sending"}
    /\ IF \E m \in requests \cup answers : m.call = call
       THEN Fault("slow")
       ELSE UNCHANGED faults
    /\ CallEnds
    /\ phase' = "idle"
    /\ UNCHANGED <<spoolVars, serverVars, probeId, token, identity, unsaved, requests>>

\* httpx.HTTPError, in either call.  A call whose request and answer are both
\* gone must end this way; one still under way may, when the network is slow.
Timeout ==
    /\ phase \in {"registering", "sending"}
    /\ IF \E m \in requests \cup answers : m.call = call
       THEN Fault("slow")
       ELSE UNCHANGED faults
    /\ IF phase = "sending" THEN Release ELSE UNCHANGED spoolVars
    /\ CallEnds
    /\ phase' = "idle"
    /\ UNCHANGED <<serverVars, probeId, token, identity, unsaved, requests>>

Shipper ==
    \/ StartRegister \/ Registered \/ IdentityUnsaved \/ SaveToken \/ TokenUnsaved \/ RegisterFails
    \/ ShipBatch \/ ShipConfirmed \/ ShipRefused \/ ClearUnsaved \/ ShipFails \/ ShipEscapes
    \/ Timeout

-----------------------------------------------------------------------------
(* The agent's other thread, and the process as a whole                      *)

Collect ==
    /\ Collector
    /\ UNCHANGED <<serverVars, shipperVars, networkVars, faults>>

\* Spool and Shipper are constructed anew over the same file.
Restart ==
    /\ RestartSpool
    /\ phase' = "idle"
    /\ CallEnds
    /\ probeId' = identity.probe
    /\ token' = identity.token
    /\ UNCHANGED <<serverVars, identity, unsaved, requests, faults>>

-----------------------------------------------------------------------------
(* The server                                                                *)

HandleRegister(req) ==
    /\ req.kind = "register"
    /\ RegisterProbe(req)
    /\ Reply(req, Answer(req.call, 200, "ours", RegisteredId(req), req.call))
    /\ UNCHANGED <<spoolVars, batches, samples, shipperVars, faults>>

\* The dependency and the handler's own checks; neither writes.
Authenticate(req) ==
    /\ req.kind = "ingest" /\ req.stage = "sent"
    /\ CASE AuthStatus(req) # 0 -> Refuse(req, AuthStatus(req))
         [] AuthStatus(req) = 0 /\ TooLarge(req) -> Refuse(req, 413)
         [] OTHER -> /\ requests' = (requests \ {req}) \cup
                                       {[req EXCEPT !.stage = "admitted"]}
                     /\ UNCHANGED answers
    /\ UNCHANGED <<spoolVars, serverVars, shipperVars, faults>>

Accepted(req) == Answer(req.call, 202, "ours", NoProbe, NoToken)

HandleIngest(req) ==
    /\ req.kind = "ingest" /\ req.stage = "admitted"
    /\ ApplyBatch(req)
    /\ Reply(req, Accepted(req))
    /\ UNCHANGED <<spoolVars, probes, shipperVars, faults>>

Server ==
    \E req \in requests :
        HandleRegister(req) \/ Authenticate(req) \/ HandleIngest(req)

\* The transaction does not begin or does not commit: the connection is
\* shared by all the server's threads and BEGIN fails while another is open.
ServerFails(req) ==
    /\ Fault("error")
    /\ Refuse(req, 500)
    /\ UNCHANGED <<spoolVars, serverVars, shipperVars>>

\* The batch is committed and then rewind_for_backfill raises.
RewindFails(req) ==
    /\ Fault("error")
    /\ req.kind = "ingest" /\ req.stage = "admitted"
    /\ ~AlreadyApplied(req)
    /\ ApplyBatch(req)
    /\ Refuse(req, 500)
    /\ UNCHANGED <<spoolVars, probes, shipperVars>>

\* The server speaks another protocol version than the agent's.
ProtocolSkew(req) ==
    /\ Fault("skew")
    /\ req.kind = "ingest" /\ req.stage = "sent"
    /\ AuthStatus(req) = 0
    /\ Refuse(req, 400)
    /\ UNCHANGED <<spoolVars, serverVars, shipperVars>>

Retire ==
    /\ "retire" \in Faults
    /\ \E p \in DOMAIN probes : RetireProbe(p)
    /\ UNCHANGED <<spoolVars, batches, samples, shipperVars, networkVars, faults>>

-----------------------------------------------------------------------------
(* The network                                                               *)

LoseRequest(req) ==
    /\ Fault("lose")
    /\ req.stage = "sent"
    /\ requests' = requests \ {req}
    /\ UNCHANGED <<spoolVars, serverVars, shipperVars, answers>>

LoseAnswer ==
    /\ Fault("lose")
    /\ answers # {}
    /\ answers' = {}
    /\ UNCHANGED <<spoolVars, serverVars, shipperVars, requests>>

\* A captive portal answers 200 instead of the server, with a page of HTML or
\* with JSON of its own.
PortalAnswers(req) ==
    /\ req.stage = "sent" /\ req.call = call
    /\ \/ Fault("portal") /\ Reply(req, Answer(req.call, 200, "html", NoProbe, NoToken))
       \/ Fault("foreign") /\ Reply(req, Answer(req.call, 200, "json", NoProbe, NoToken))
    /\ UNCHANGED <<spoolVars, serverVars, shipperVars>>

Environment ==
    \/ \E req \in requests :
          \/ ServerFails(req) \/ RewindFails(req) \/ ProtocolSkew(req)
          \/ LoseRequest(req) \/ PortalAnswers(req)
    \/ LoseAnswer
    \/ Retire

-----------------------------------------------------------------------------
Init ==
    /\ SpoolInit
    /\ IngestInit
    /\ phase = "idle"
    /\ call = NoCall
    /\ probeId = NoProbe
    /\ token = NoToken
    /\ identity = [probe |-> NoProbe, token |-> NoToken]
    /\ unsaved = {}
    /\ requests = {}
    /\ answers = {}
    /\ faults = 0

Next == Shipper \/ Collect \/ Restart \/ Server \/ Environment

Spec == Init /\ [][Next]_vars

\* The worker loop runs again after a bounded delay whatever the cycle did,
\* its HTTP client has a timeout, and the server runs every request it has
\* received.  That a measurement is taken, that a crashed process is started again
\* or that the network fails is nobody's promise.
Fairness == WF_vars(Shipper) /\ WF_vars(Server)

FairSpec == Spec /\ Fairness

-----------------------------------------------------------------------------
Calls == 1 .. nextUuid - 1

RequestType ==
    [kind : {"register", "ingest"}, call : Calls, stage : {"sent", "admitted"},
     probe : Calls \cup {NoProbe}, token : Calls \cup {NoToken},
     rows : SUBSET (1 .. nextId - 1)]

AnswerType ==
    [call : Calls, status : {200, 202, 400, 401, 403, 413, 500}, body : {"ours", "json", "html"},
     probe : Calls \cup {NoProbe}, token : Calls \cup {NoToken}]

(* Types of the whole system's state.                                        *)
ServerTypeOK ==
    /\ DOMAIN probes \in SUBSET Calls
    /\ probes \in [DOMAIN probes -> [token : Calls, status : {"active", "retired"}]]
    /\ batches \in SUBSET Calls
    /\ samples \in SUBSET [row : 1 .. nextId - 1, batch : Calls,
                           probe : Calls \cup {NoProbe}]

ShipperTypeOK ==
    /\ phase \in Phases
    /\ call \in Calls \cup {NoCall}
    /\ probeId \in Calls \cup {NoProbe}
    /\ token \in Calls \cup {NoToken}
    /\ identity \in [probe : Calls \cup {NoProbe}, token : Calls \cup {NoToken}]
    /\ unsaved \subseteq Calls \cup {NoProbe}

NetworkTypeOK ==
    /\ requests \in SUBSET RequestType
    /\ answers \in SUBSET AnswerType
    /\ faults \in 0 .. MaxFaults

TypeOK == SpoolTypeOK /\ ServerTypeOK /\ ShipperTypeOK /\ NetworkTypeOK

(* "Never delete data that has not been confirmed delivered" (shipper.py:3): *)
(* every row ever measured is still in the spool, or stored at the server,   *)
(* or was dropped by a trim.  It takes the claim, the request's contents,    *)
(* the transaction, the answer's match with the call and the delete to agree *)
(* across losses, late requests and restarts.                                *)
NoSilentLoss ==
    \A r \in 1 .. nextId - 1 : r \in Rows \/ r \in Stored \/ r \in trimmed

(* A success answer on the wire is never stale: all the rows the delete that *)
(* follows will take are stored.                                             *)
AnswerMeansStored ==
    \A a \in answers :
        phase = "sending" /\ Succeeds(a) => RowsOf(batch) \subseteq Stored

(* "A restart re-registers as the same probe rather than appearing as a new  *)
(* one and fragmenting its own history" (spool.py:61): everything the agent  *)
(* has ever had stored is under the probe id in its identity table, although *)
(* a lost answer to its first registration leaves a second probe behind, and *)
(* although the id and the token are committed one after the other; unless   *)
(* the very commit of that id failed.                                        *)
OneHistory ==
    \A s \in samples : s.probe \in {identity.probe} \cup unsaved

(* Re-sending is bounded by what went wrong: a row has at most one copy at   *)
(* the server for each fault or restart, and the one that counts.            *)
DuplicatesBounded ==
    \A r \in Stored : Cardinality(Copies(r)) <= 1 + faults + restarts

Promise == INSTANCE AtLeastOnce WITH
    Ids <- 1 .. MaxId,
    measured <- 1 .. nextId - 1,
    held <- Rows,
    delivered <- Stored,
    dropped <- trimmed

(* The delivery protocol, with its losses, restarts, retries and trims,      *)
(* implements the one-page promise of AtLeastOnce.                           *)
KeepsPromise == Promise!Spec

(* "The rows are re-sent" (spool.py:118), "registration is retried"          *)
(* (shipper.py:84): after any finite run of losses, late answers, refusals   *)
(* and restarts, every row leaves the spool.                                 *)
EveryRowLeaves == Promise!Drains

(* "The server's batch_id idempotency absorbs the resulting duplicate"       *)
(* (spool.py:51): no row has two copies at the server.                       *)
NoDuplicates ==
    \A r \in Stored : Cardinality(Copies(r)) = 1
=============================================================================
