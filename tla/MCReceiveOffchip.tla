------------------------- MODULE MCReceiveOffchip -------------------------
(* Instances of ReceiveOffchip for TLC. *)
EXTENDS ReceiveOffchip

CONSTANT Lengths

(* The only peer sends messages cut in segments of these lengths.          *)
MCMessages ==
  {[src |-> "r1", seq |-> k, tag |-> 0, len |-> Lengths[k]] : k \in DOMAIN Lengths}

MCRequests == [src : Srcs, len : 1 .. TxnSize, tag : {0, AnyTag}]

TwoCalls == {[src |-> "r1", len |-> l, tag |-> 0] : l \in {1, 2}}
TwoOfOne == <<1, 1>>
FiveBytes == {[src |-> "r1", len |-> 5, tag |-> 0]}
SixSegments == <<2, 2, 1, 2, 2, 1>>
=============================================================================
