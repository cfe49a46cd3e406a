------------------------------- MODULE RWLock -------------------------------
(***************************************************************************)
(* iow/mutex/rwlock.hpp: a readers-writer lock made of a mutex, two        *)
(* counters and two condition variables.  A step is what one thread does   *)
(* while it holds the inner mutex.  A thread that waits either sleeps in   *)
(* its condition variable or is awake and about to test the predicate.     *)
(***************************************************************************)
EXTENDS Integers, FiniteSets

CONSTANTS Threads,
          MaxCalls   \* bound on the calls of lock and lock_r, for TLC

ASSUME RWLockBounds == IsFiniteSet(Threads) /\ MaxCalls \in Nat

VARIABLES
  readers,   \* _readers
  writer,    \* _writer
  pc,        \* where each thread is
  aborted,   \* abort() was reached
  calls      \* calls made so far

lockvars == <<readers, writer, pc, aborted, calls>>

Awake    == {"wantWrite", "wantRead"}
Sleeping == {"sleepWrite", "sleepRead"}
Holding  == {"writes", "reads"}

At(state) == {t \in Threads : pc[t] = state}

LockInit == /\ readers = 0 /\ writer = 0
            /\ pc = [t \in Threads |-> "idle"]
            /\ aborted = FALSE /\ calls = 0

(* A thread calls lock or lock_r. *)
Call(t) == /\ pc[t] = "idle" /\ calls < MaxCalls
           /\ \E w \in Awake : pc' = [pc EXCEPT ![t] = w]
           /\ calls' = calls + 1
           /\ UNCHANGED <<readers, writer, aborted>>

(* notify_all of the condition variables in which the states sleep. *)
Notified(p, states) ==
  [t \in Threads |-> IF p[t] \notin states THEN p[t]
                     ELSE IF p[t] = "sleepWrite" THEN "wantWrite"
                     ELSE "wantRead"]

(* Mutant of Lock: the predicate and the check forget the readers. *)
LockOverReaders(t) ==
  /\ pc[t] = "wantWrite"
  /\ writer' = IF writer = 0 THEN 1 ELSE writer
  /\ pc' = [pc EXCEPT ![t] = IF writer = 0 THEN "writes" ELSE "sleepWrite"]
  /\ UNCHANGED <<readers, aborted, calls>>

(* lock: the predicate, then the counter and its checks. *)
Lock(t) ==
  /\ pc[t] = "wantWrite"
  /\ IF writer = 0 /\ readers = 0
     THEN /\ writer' = writer + 1
          /\ aborted' = (aborted \/ writer' # 1 \/ readers # 0)
          /\ pc' = [pc EXCEPT ![t] = "writes"]
     ELSE /\ pc' = [pc EXCEPT ![t] = "sleepWrite"]
          /\ UNCHANGED <<writer, aborted>>
  /\ UNCHANGED <<readers, calls>>

(* lock_r: the predicate, its check and the counter. *)
LockR(t) ==
  /\ pc[t] = "wantRead"
  /\ IF writer = 0
     THEN /\ readers' = readers + 1
          /\ pc' = [pc EXCEPT ![t] = "reads"]
     ELSE /\ pc' = [pc EXCEPT ![t] = "sleepRead"]
          /\ UNCHANGED readers
  /\ UNCHANGED <<writer, aborted, calls>>

(* Mutant of Unlock: it wakes the writers only. *)
UnlockWakesWriters(t) ==
  /\ pc[t] = "writes"
  /\ writer' = writer - 1
  /\ aborted' = (aborted \/ writer' # 0)
  /\ pc' = Notified([pc EXCEPT ![t] = "idle"], {"sleepWrite"})
  /\ UNCHANGED <<readers, calls>>

(* unlock wakes all that wait. *)
Unlock(t) ==
  /\ pc[t] = "writes"
  /\ writer' = writer - 1
  /\ aborted' = (aborted \/ writer' # 0)
  /\ pc' = Notified([pc EXCEPT ![t] = "idle"], Sleeping)
  /\ UNCHANGED <<readers, calls>>

(* Mutant of UnlockR: the counter is tested before it is decremented. *)
UnlockREarly(t) ==
  /\ pc[t] = "reads"
  /\ aborted' = (aborted \/ readers = 0)
  /\ readers' = readers - 1
  /\ pc' = LET p == [pc EXCEPT ![t] = "idle"]
           IN  IF readers = 0 THEN Notified(p, {"sleepWrite"}) ELSE p
  /\ UNCHANGED <<writer, calls>>

(* unlock_r: the last reader wakes the writers. *)
UnlockR(t) ==
  /\ pc[t] = "reads"
  /\ aborted' = (aborted \/ readers = 0)
  /\ readers' = readers - 1
  /\ pc' = LET p == [pc EXCEPT ![t] = "idle"]
           IN  IF readers' = 0 THEN Notified(p, {"sleepWrite"}) ELSE p
  /\ UNCHANGED <<writer, calls>>

(* A condition variable may wake a thread without a notification. *)
Spurious(t) == /\ pc[t] \in Sleeping
               /\ pc' = [pc EXCEPT ![t] = Notified(pc, Sleeping)[t]]
               /\ UNCHANGED <<readers, writer, aborted, calls>>

LockNext == \E t \in Threads :
  Call(t) \/ Lock(t) \/ LockR(t) \/ Unlock(t) \/ UnlockR(t) \/ Spurious(t)

LockSpec == LockInit /\ [][LockNext]_lockvars

(* An awake thread gets the inner mutex, and a holder releases the lock. *)
LockFairness == \A t \in Threads :
  /\ WF_lockvars(Lock(t)) /\ WF_lockvars(LockR(t))
  /\ WF_lockvars(Unlock(t)) /\ WF_lockvars(UnlockR(t))

LockFairSpec == LockSpec /\ LockFairness
-----------------------------------------------------------------------------
(* The counts of the lock and the places of the threads keep their types. *)
LockTypeOK ==
  /\ readers \in Nat /\ writer \in Nat
  /\ pc \in [Threads -> {"idle"} \cup Awake \cup Sleeping \cup Holding]
  /\ aborted \in BOOLEAN /\ calls \in 0 .. MaxCalls

(* The counters are the numbers of holders, so a holder's unlock never     *)
(* reaches abort() and a free lock always looks free.                      *)
Counted == /\ readers = Cardinality(At("reads"))
           /\ writer = Cardinality(At("writes"))
           /\ ~aborted

(* A writer is alone: the owner's maps and handlers are changed under lock *)
(* and read under lock_r.                                                  *)
Exclusion == \A t, u \in Threads :
  pc[t] = "writes" /\ u # t => pc[u] \notin Holding

(* No lost wake-up: whoever sleeps is owed a notification by a holder of   *)
(* the lock; unlock_r notifies from the last reader only, and lock_r's     *)
(* sleepers are woken by unlock alone.                                     *)
Owed == \A t \in Threads :
  /\ pc[t] = "sleepWrite" => \E u \in Threads : pc[u] \in Holding
  /\ pc[t] = "sleepRead"  => \E u \in Threads : pc[u] = "writes"

(* With finitely many calls each of them returns.  With readers without    *)
(* end a writer may starve: lock_r does not look at waiting writers.       *)
EventuallyServed == \A t \in Threads :
  /\ (pc[t] \in {"wantWrite", "sleepWrite"}) ~> (pc[t] = "writes")
  /\ (pc[t] \in {"wantRead", "sleepRead"}) ~> (pc[t] = "reads")
=============================================================================
