------------------------------- MODULE MCCorrelate -------------------------------
(***************************************************************************)
(* A wired probe with the server's time and one on WiFi, whose clock may   *)
(* show an offset that reverses the order of two events.                   *)
(***************************************************************************)
EXTENDS Correlate

WiredAndWifi == [pi |-> "wired", living |-> "wifi"]
OwnGroups == [pi |-> "wired", living |-> "ap-living"]

WifiIsAhead == [pi |-> {0}, living |-> {0, 2}]

ASSUME OffsetsMatter == \E p \in Probes : \E o \in Offsets[p] : 1 < o /\ o < MaxTime
=============================================================================
