--------------------------- MODULE MCCollectives ---------------------------
(* Instances of Collectives for TLC. *)
EXTENDS Collectives

Call(op, root, peer, len) == [op |-> op, root |-> root, peer |-> peer, len |-> len]

(* Every operation; the second call of a script meets ranks that are still *)
(* in the first one, with another root or in another order.                *)
MCScripts == <<
  <<Call("SEND_RECV", 0, 2, 7), Call("REDUCE", 1, 1, 4)>>,
  <<Call("BCAST", 0, 0, 4), Call("SCATTER", 1, 1, 4)>>,
  <<Call("SCATTER", 2, 2, 4), Call("GATHER", 0, 0, 2)>>,
  <<Call("GATHER", 1, 1, 4), Call("ALLGATHER", 0, 0, 1)>>,
  <<Call("ALLGATHER", 0, 0, 4)>>,
  <<Call("REDUCE", 2, 2, 4), Call("BCAST", 0, 0, 2)>>,
  <<Call("REDUCE_SCATTER", 0, 0, 4)>>,
  <<Call("ALLREDUCE", 0, 0, 6)>>,
  <<Call("ALLREDUCE", 0, 0, 3), Call("ACC", 0, 0, 4)>>,
  <<Call("COPY", 0, 0, 4), Call("EXT_STREAM_KRNL", 0, 0, 2), Call("EXT_REDUCE", 0, 0, 2)>> >>

(* Fewer operands than ranks.                                              *)
OneOperand == << <<Call("ALLREDUCE", 0, 0, 1)>> >>
=============================================================================
