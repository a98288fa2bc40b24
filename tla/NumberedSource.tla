--------------------------- MODULE NumberedSource ---------------------------
(***************************************************************************)
(* What a CCLO promises the ranks it sends to: the segments it emits for a *)
(* destination carry the numbers 1, 2, 3, ... in this order. It is what    *)
(* RxBuffers relies on, over TCP, when a message of a source arrives.      *)
(***************************************************************************)
EXTENDS Naturals, Sequences

CONSTANT Dsts

VARIABLE out    \* the numbers emitted, for each destination

SourceInit == out = [d \in Dsts |-> <<>>]

Emit(d) == out' = [out EXCEPT ![d] = Append(@, Len(@) + 1)]

SourceNext == \E d \in Dsts : Emit(d)

SourceSpec == SourceInit /\ [][SourceNext]_out

=============================================================================
