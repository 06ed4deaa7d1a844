------------------------------- MODULE MCDelivery --------------------------------
(***************************************************************************)
(* One agent and one server on small instances.                            *)
(***************************************************************************)
EXTENDS Delivery

(* config.py: the batch size "must stay under the server's                   *)
(* max_batch_samples", and is far below the spool's cap.                     *)
ASSUME BatchFits == BatchSize <= MaxRows /\ BatchSize <= MaxBatchSamples
=============================================================================
