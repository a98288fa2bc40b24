-------------------------- MODULE MCPktMultiplexor --------------------------
(* Instance of PktMultiplexor for TLC: as many sessions as destinations,   *)
(* with messages of one, two and three packets.                            *)
EXTENDS PktMultiplexor

MCMessages ==
  [s \in Sessions |-> IF s = "a" THEN <<<<2, 1>>, <<1>>, <<1, 1, 2>>>>
                      ELSE <<<<1>>, <<1, 2>>, <<2, 1>>>>]
=============================================================================
