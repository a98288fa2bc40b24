--------------------------- MODULE MCTcpTxHandler ---------------------------
(* Instance of TcpTxHandler for TLC: messages of several packets, of one   *)
(* byte, of exactly full packets, of a partial word, of two sessions.      *)
EXTENDS TcpTxHandler

MCMessages ==
  <<[session |-> "a", len |-> 9], [session |-> "b", len |-> 1],
    [session |-> "b", len |-> 8], [session |-> "a", len |-> 3]>>
=============================================================================
