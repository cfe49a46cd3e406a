-------------------------------- MODULE Owner --------------------------------
(***************************************************************************)
(* iow/owner: lives and callbacks.  A handler is wrapped with a weak       *)
(* pointer to a life: that of its owner (wrap) or that of a tracked id     *)
(* (tracking).  A call locks the pointer, and the lock holds the life for  *)
(* as long as the call lasts.  The handler wraps a callback, whose copies  *)
(* share one flag: the first call runs it, a further one is reported as a  *)
(* double call, and the last copy reports a callback that was not called.  *)
(*                                                                         *)
(* A step is what a thread does under the owner's lock, or one access to   *)
(* the shared pointer or to the flag.  The lock itself is module RWLock.   *)
(***************************************************************************)
EXTENDS Naturals

CONSTANTS Threads,
          Callbacks,   \* the callbacks, each with its flag _ready
          Copies,      \* the callback_handler objects
          Ids,         \* the ids that are tracked
          Lives,       \* the objects that _alive and _tracking_map point to
          None

ASSUME OwnerAssumption == None \notin Callbacks \cup Copies \cup Lives

VARIABLES
  alive,   \* _alive
  flag,    \* _tracking_flag
  map,     \* _tracking_map
  weak,    \* the life each callback was wrapped with
  of,      \* the callback each copy is of
  calls,   \* of each callback: _ready, and what became of it
  at,      \* what each thread is doing
  over     \* the callbacks whose life was ended by its owner

vars == <<alive, flag, map, weak, of, calls, at, over>>

Idle == [place |-> "idle", copy |-> None]

Uncalled == [ready |-> FALSE, ran |-> 0, reported |-> 0, lost |-> FALSE]

Init ==
  /\ alive \in Lives /\ flag = FALSE
  /\ map = [id \in Ids |-> None] /\ weak = [h \in Callbacks |-> None]
  /\ of = [c \in Copies |-> None] /\ calls = [h \in Callbacks |-> Uncalled]
  /\ at = [t \in Threads |-> Idle] /\ over = {}

Held(h) == {c \in Copies : of[c] = h}

(* A thread holds the life of the callback that it calls. *)
Pinned == {weak[of[at[t].copy]] : t \in {u \in Threads : at[u].place \in {"locked", "inside"}}}

(* weak_ptr::lock() finds the life. *)
Alive(l) == l = alive \/ l \in Pinned \/ \E id \in Ids : map[id] = l

(* make_shared: an object that nothing points to. *)
IsFresh(l) == /\ l \in Lives /\ ~Alive(l)
              /\ \A h \in Callbacks : weak[h] = l => Held(h) = {}

Fresh == CHOOSE l \in Lives : IsFresh(l)
-----------------------------------------------------------------------------
(* A new callback, wrapped with life l; its only copy is c. *)
Make(h, c, l) ==
  /\ Held(h) = {} /\ of[c] = None
  /\ weak' = [weak EXCEPT ![h] = l]
  /\ of' = [of EXCEPT ![c] = h]
  /\ calls' = [calls EXCEPT ![h] = Uncalled]
  /\ over' = over \ {h}
  /\ UNCHANGED <<alive, flag, at>>

(* wrap(callback(h), ...). *)
Wrap(h, c) == Make(h, c, alive) /\ UNCHANGED map

(* tracking(id, callback(h), ...) does not ask for the flag. *)
Tracking(h, c, id) ==
  /\ map[id] = None => \E l \in Lives : IsFresh(l)
  /\ map' = IF map[id] = None THEN [map EXCEPT ![id] = Fresh] ELSE map
  /\ Make(h, c, map'[id])

(* Mutant of Reset: the life is counted on and not replaced. *)
ResetInPlace ==
  /\ over' = over \cup {h \in Callbacks : weak[h] = alive}
  /\ UNCHANGED <<alive, flag, map, weak, of, calls, at>>

(* reset: a new life begins. *)
Reset ==
  /\ \E l \in Lives : IsFresh(l)
  /\ alive' = Fresh
  /\ over' = over \cup {h \in Callbacks : weak[h] = alive}
  /\ UNCHANGED <<flag, map, weak, of, calls, at>>

Goes(t, place, copy) == at' = [at EXCEPT ![t] = [place |-> place, copy |-> copy]]

(* enable_tracking, up to and with the change of the flag. *)
EnableTracking(t, value) ==
  /\ at[t] = Idle /\ flag # value
  /\ flag' = value
  /\ IF value THEN UNCHANGED at ELSE Goes(t, "clear", None)
  /\ UNCHANGED <<alive, map, weak, of, calls, over>>

Forget(ids) ==
  /\ map' = [id \in Ids |-> IF id \in ids THEN None ELSE map[id]]
  /\ over' = over \cup {h \in Callbacks : \E id \in ids :
                          weak[h] = map[id] /\ map[id] # None}

(* The rest of enable_tracking(false); another thread may have enabled it  *)
(* again.                                                                  *)
ClearTracking(t) ==
  /\ at[t].place = "clear"
  /\ Forget(Ids) /\ Goes(t, "idle", None)
  /\ UNCHANGED <<alive, flag, weak, of, calls>>

(* release_tracking tests the flag before it locks. *)
ReleaseTracking(t) ==
  /\ at[t] = Idle /\ flag
  /\ Goes(t, "release", None)
  /\ UNCHANGED <<alive, flag, map, weak, of, calls, over>>

Release(t, id) ==
  /\ at[t].place = "release"
  /\ Forget({id}) /\ Goes(t, "idle", None)
  /\ UNCHANGED <<alive, flag, weak, of, calls>>
-----------------------------------------------------------------------------
Free(c) == of[c] # None /\ \A t \in Threads : at[t].copy # c

(* A copy of a copy. *)
Copy(c, d) == /\ Free(c) /\ of[d] = None
              /\ of' = [of EXCEPT ![d] = of[c]]
              /\ UNCHANGED <<alive, flag, map, weak, calls, at, over>>

(* Every other copy of d's callback has found in its destructor that it is *)
(* not the last: when d does not report it, nobody will.                   *)
LeftToNobody(d) == \A c \in Held(of[d]) \ {d} :
  \E t \in Threads : at[t] = [place |-> "shared", copy |-> c]

(* A copy is assigned to another: what that one was is not destroyed by    *)
(* ~callback_handler, and nothing is reported.                             *)
Assign(c, d) ==
  /\ Free(c) /\ Free(d) /\ c # d
  /\ of' = [of EXCEPT ![d] = of[c]]
  /\ calls' = [calls EXCEPT ![of[d]].lost = @ \/ (of[c] # of[d] /\ LeftToNobody(d))]
  /\ UNCHANGED <<alive, flag, map, weak, at, over>>

(* owner_handler: the life is locked.  If it has ended, the alternative is *)
(* called and nothing changes.                                             *)
Lock(t, c) ==
  /\ at[t] = Idle /\ Free(c) /\ Alive(weak[of[c]])
  /\ Goes(t, "locked", c)
  /\ UNCHANGED <<alive, flag, map, weak, of, calls, over>>

(* Mutant of Call: the flag is not set by the first call. *)
CallUnset(t, c) ==
  /\ at[t] = [place |-> "locked", copy |-> c]
  /\ calls' = [calls EXCEPT ![of[c]].ran = IF calls[of[c]].ready THEN @ ELSE @ + 1]
  /\ Goes(t, "inside", c)
  /\ UNCHANGED <<alive, flag, map, weak, of, over>>

(* callback_handler: test_and_set, then the handler; or the report of a    *)
(* double call.                                                            *)
Call(t, c) ==
  /\ at[t] = [place |-> "locked", copy |-> c]
  /\ calls' = [calls EXCEPT ![of[c]].ready = TRUE,
                 ![of[c]].ran = IF calls[of[c]].ready THEN @ ELSE @ + 1]
  /\ Goes(t, "inside", c)
  /\ UNCHANGED <<alive, flag, map, weak, of, over>>

Return(t) ==
  /\ at[t].place = "inside"
  /\ Goes(t, "idle", None)
  /\ UNCHANGED <<alive, flag, map, weak, of, calls, over>>

(* Mutant of IsSole: one copy too many. *)
IsSoleOfTwo(c) == \E d \in Copies : Held(of[c]) \subseteq {c, d}

(* use_count() == 1 *)
IsSole(c) == Held(of[c]) = {c}

(* ~callback_handler, the test of use_count().  A copy that has made the   *)
(* test is counted until its destructor ends.                              *)
Destroy(t, c) ==
  /\ at[t] = Idle /\ Free(c)
  /\ Goes(t, IF IsSole(c) THEN "sole" ELSE "shared", c)
  /\ calls' = [calls EXCEPT ![of[c]].lost = @ \/ (~IsSole(c) /\ LeftToNobody(c))]
  /\ UNCHANGED <<alive, flag, map, weak, of, over>>

(* Mutant of Destroyed: the last copy only sets the flag. *)
DestroyedSilently(t, c) ==
  /\ at[t].copy = c /\ at[t].place \in {"sole", "shared"}
  /\ IF at[t].place = "sole"
     THEN calls' = [calls EXCEPT ![of[c]].ready = TRUE]
     ELSE UNCHANGED calls
  /\ of' = [of EXCEPT ![c] = None]
  /\ Goes(t, "idle", None)
  /\ UNCHANGED <<alive, flag, map, weak, over>>

(* The rest of the destructor: test_and_set and the report, then the       *)
(* members.                                                                *)
Destroyed(t, c) ==
  /\ at[t].copy = c /\ at[t].place \in {"sole", "shared"}
  /\ IF at[t].place = "sole" /\ ~calls[of[c]].ready
     THEN calls' = [calls EXCEPT ![of[c]].ready = TRUE, ![of[c]].reported = @ + 1]
     ELSE UNCHANGED calls
  /\ of' = [of EXCEPT ![c] = None]
  /\ Goes(t, "idle", None)
  /\ UNCHANGED <<alive, flag, map, weak, over>>

OwnerNext ==
  \/ \E h \in Callbacks, c \in Copies :
       Wrap(h, c) \/ \E id \in Ids : Tracking(h, c, id)
  \/ Reset
  \/ \E t \in Threads :
       \/ \E value \in BOOLEAN : EnableTracking(t, value)
       \/ ClearTracking(t) \/ ReleaseTracking(t)
       \/ \E id \in Ids : Release(t, id)

CallbackNext ==
  \/ \E c, d \in Copies : Copy(c, d) \/ Assign(c, d)
  \/ \E t \in Threads, c \in Copies :
       Lock(t, c) \/ Call(t, c) \/ Destroy(t, c) \/ Destroyed(t, c)
  \/ \E t \in Threads : Return(t)

Next == OwnerNext \/ CallbackNext

Spec == Init /\ [][Next]_vars
-----------------------------------------------------------------------------
Places == {"idle", "locked", "inside", "sole", "shared", "clear", "release"}

InHand == {"locked", "inside", "sole", "shared"}

(* The types; a thread in a call has a copy of a callback that was made.   *)
TypeOK ==
  /\ alive \in Lives /\ flag \in BOOLEAN
  /\ map \in [Ids -> Lives \cup {None}]
  /\ weak \in [Callbacks -> Lives \cup {None}]
  /\ of \in [Copies -> Callbacks \cup {None}]
  /\ calls \in [Callbacks -> [ready : BOOLEAN, ran : Nat, reported : Nat, lost : BOOLEAN]]
  /\ at \in [Threads -> [place : Places, copy : Copies \cup {None}]]
  /\ over \subseteq Callbacks
  /\ \A t \in Threads : /\ at[t].copy # None <=> at[t].place \in InHand
                        /\ at[t].copy # None => of[at[t].copy] # None
  /\ \A c \in Copies : of[c] # None => weak[of[c]] # None

(* A callback runs at most once, and one that ran is not reported as not   *)
(* called, whichever threads call and destroy its copies.                  *)
AnsweredOnce == \A h \in Callbacks : calls[h].ran + calls[h].reported <= 1

(* The report that a callback was not called is final: no copy is left     *)
(* with which it could still be called.                                    *)
ReportedLast == \A h \in Callbacks : calls[h].reported > 0 => Held(h) = {}

(* A callback whose copies are gone was called or reported, unless the     *)
(* last ones were destroyed at the same time or assigned to.               *)
Answered == \A h \in Callbacks :
  weak[h] # None /\ Held(h) = {} =>
    calls[h].ran + calls[h].reported > 0 \/ calls[h].lost

(* reset(), release_tracking() and enable_tracking(false) end the life of  *)
(* the handlers of before: none of them can be entered any more, when the  *)
(* calls of that life that were under way have returned.  Until then they  *)
(* can: each call holds the life for the others.                           *)
LifeEnds == \A h \in over :
  Held(h) # {} => weak[h] \in Pinned \/ ~Alive(weak[h])
=============================================================================
