-------------------------- MODULE MCWriterAndLock --------------------------
(***************************************************************************)
(* The instance of two components with little state, the write loop (as in *)
(* MCWriter) and the readers-writer lock, one or the other.  Lock: four    *)
(* threads are two writers and two readers at once.                        *)
(***************************************************************************)
EXTENDS MCWriter, RWLock

VARIABLE runs   \* which of the two this is

allvars == <<vars, lockvars, runs>>

MCInit == Init /\ LockInit /\ runs \in {"writer", "lock"}

MCNext ==
  \/ runs = "writer" /\ WriterNext /\ UNCHANGED <<lockvars, runs>>
  \/ runs = "lock" /\ LockNext /\ UNCHANGED <<vars, runs>>

(* What is not run is in its initial state, where no fair step is enabled. *)
MCSpec == MCInit /\ [][MCNext]_allvars /\ Fairness /\ LockFairness
=============================================================================
