--------------------------------- MODULE MCSpool ---------------------------------
(***************************************************************************)
(* The spool on small instances.  Ids are row keys, so a bound on the rows *)
(* measured bounds the whole table; the cap, the batch and the write are   *)
(* small enough that the cap is passed more than once and a claim is both  *)
(* a part of the backlog and all of it.                                    *)
(***************************************************************************)
EXTENDS Spool

(* As in config.py, where a batch (1000) is far below the cap (2,000,000):   *)
(* a trim can never be forced into the claimed rows by their number alone.   *)
ASSUME BatchFitsCap == BatchSize <= MaxRows
=============================================================================
