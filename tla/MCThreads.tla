----------------------------- MODULE MCThreads ------------------------------
(***************************************************************************)
(* The instance of the two classes that own worker threads: the clients of *)
(* MultiThread or the server of Server, one or the other.                  *)
(*                                                                         *)
(* Clients: two threads of the application, which can be in stop() and in  *)
(* start() at once; at most two clients in the list, and two more objects  *)
(* for what is made while those are being stopped.                         *)
(*                                                                         *)
(* Server: with up to two workers.  A start(), a stop() and a start() that *)
(* overlap can make twice as many, hence the four.                         *)
(***************************************************************************)
EXTENDS MultiThread, Server

CONSTANTS u1, u2, c1, c2, c3, c4, w1, w2, w3, w4

VARIABLE runs   \* which of the two this is

allvars == <<vars, server, runs>>

Clientwise(A) == runs = "clients" /\ A /\ UNCHANGED <<server, runs>>
Serverwise(A) == runs = "server" /\ A /\ UNCHANGED <<vars, runs>>

MCInit == Init /\ ServerInit /\ runs \in {"clients", "server"}

MCNext == Clientwise(Next) \/ Serverwise(ServerNext)

(* The fairness of the two. *)
MCSpec == /\ MCInit /\ [][MCNext]_allvars
          /\ WF_allvars(Clientwise(\E t \in Threads : Step(t)))
          /\ WF_allvars(Serverwise(\E t \in ServerThreads : CallStep(t)))
=============================================================================
