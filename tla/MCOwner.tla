------------------------------ MODULE MCOwner -------------------------------
(***************************************************************************)
(* The instance of Owner that TLC checks: two threads, each of which may   *)
(* be in a call, a destructor or a change of the tracking; two callbacks   *)
(* of three copies, and more lives than anything can point to at once, so  *)
(* that make_shared never fails.  Threads, callbacks and copies are alike. *)
(***************************************************************************)
EXTENDS Owner, TLC

Alike == Permutations(Threads) \cup Permutations(Callbacks) \cup Permutations(Copies)
=============================================================================
