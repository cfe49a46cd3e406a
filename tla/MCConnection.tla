---------------------------- MODULE MCConnection ----------------------------
(***************************************************************************)
(* The instance of Connection that TLC checks: two threads, so that one    *)
(* can be in a handler of a session while the other stops it and starts    *)
(* the next; two sessions and the lives that stop(), reset() and a         *)
(* restart need; two addresses, so that a new read buffer may or may not   *)
(* lie where the last one did; and two blocks in a read, so that one is    *)
(* left while the first is handled.                                        *)
(***************************************************************************)
EXTENDS Connection, TLC

CONSTANTS t1, t2, a1, a2

Alike == Permutations({t1, t2}) \cup Permutations({a1, a2})
=============================================================================
