------------------------------ MODULE MCRelay ------------------------------
(* Relay on a small link: four events in blocks 1, 2, 2 and 4 (block 3 has *)
(* none), so that Segment can split the receipt of block 2 and the         *)
(* subscription meets an empty receipt.                                    *)
EXTENDS Relay

MCEvHeight == <<1, 2, 2, 4>>

=============================================================================
