----------------------------- MODULE ByteStream -----------------------------
(***************************************************************************)
(* What a stream writer promises its user: the accepted bytes form one     *)
(* stream; the transport is handed one window of it at a time, always the  *)
(* first bytes not yet delivered; what the transport reports as written    *)
(* is delivered once, in order.  Closing drops the undelivered rest, and   *)
(* a reopened stream starts from nothing.                                  *)
(***************************************************************************)
EXTENDS Naturals

VARIABLES accepted,   \* bytes accepted since the stream was opened
          delivered,  \* how many of them the transport has written
          flight,     \* the window the transport is writing
          open

streamVars == <<accepted, delivered, flight, open>>

Idle == [pos |-> 0, len |-> 0]

IsNextWindow(w, d, a) == w.pos = d /\ w.len > 0 /\ d + w.len <= a

(* The transport is idle after the step, or is given the next window. *)
IdleOrNext(d, a) == flight' = Idle \/ IsNextWindow(flight', d, a)

StreamInit == accepted = 0 /\ delivered = 0 /\ flight = Idle /\ open = TRUE

Accept == /\ open /\ accepted' >= accepted
          /\ \/ flight' = flight
             \/ flight = Idle /\ IsNextWindow(flight', delivered, accepted')
          /\ UNCHANGED <<delivered, open>>

Deliver == /\ open /\ flight # Idle
           /\ delivered' > delivered
           /\ delivered' <= delivered + flight.len
           /\ IdleOrNext(delivered', accepted)
           /\ UNCHANGED <<accepted, open>>

(* The transport gives the window back with nothing written. *)
GiveBack == /\ open /\ flight # Idle
            /\ IdleOrNext(delivered, accepted)
            /\ UNCHANGED <<accepted, delivered, open>>

Close == /\ open /\ open' = FALSE /\ flight' = Idle
         /\ UNCHANGED <<accepted, delivered>>

Reopen == /\ ~open /\ open' = TRUE
          /\ accepted' = 0 /\ delivered' = 0 /\ flight' = Idle

StreamNext == Accept \/ Deliver \/ GiveBack \/ Close \/ Reopen

StreamSpec == StreamInit /\ [][StreamNext]_streamVars
=============================================================================
