--------------------------- MODULE MCSendPipeline ---------------------------
(* Instances of SendPipeline for TLC. *)
EXTENDS SendPipeline

(* A message of one word, and one of three segments whose last is short    *)
(* and whose others end in a partly filled word.                           *)
TwoDsts == [dst : {"r1", "r2"}, len : {1, 8}, tag : {0}]
=============================================================================
