---------------------------- MODULE MCRelayList ----------------------------
(* RelayList on the link of MCRelay: four events in blocks 1, 2, 2 and 4.  *)
EXTENDS RelayList

MCEvHeight == <<1, 2, 2, 4>>

=============================================================================
