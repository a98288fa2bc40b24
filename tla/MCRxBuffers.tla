---------------------------- MODULE MCRxBuffers ----------------------------
(* Instances of RxBuffers for TLC. *)
EXTENDS RxBuffers

CONSTANT SeqLimit

(* Source s sends SeqLimit[s] messages; the tag alternates along them, so  *)
(* that a request can name the wrong tag.                                  *)
MCMessages ==
  UNION {{[src |-> s, seq |-> k, tag |-> k % 2, len |-> 1] : k \in 1 .. SeqLimit[s]}
           : s \in Srcs}

MCRequests ==
  [src : Srcs, len : {m.len : m \in Messages},
   tag : {m.tag : m \in Messages} \cup {AnyTag}]

OneSource  == [s \in {"r1"} |-> 3]
TwoSources == [s \in {"r1", "r2"} |-> IF s = "r1" THEN 3 ELSE 1]
=============================================================================
