------------------------------ MODULE MCClient ------------------------------
(* Client for TLC: all modes, and the one that a documented promise is about. *)
EXTENDS Client

Mode(async, byRequest, sequence, ping) ==
  [async |-> async, byRequest |-> byRequest, sequence |-> sequence, ping |-> ping]

MCAllModes  == {Mode(a, b, s, p) : a, b, s, p \in BOOLEAN}
MCDuplex    == {Mode(FALSE, FALSE, TRUE, FALSE)}
=============================================================================
