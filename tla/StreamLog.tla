------------------------------ MODULE StreamLog ------------------------------
(***************************************************************************)
(* What a live stream promises its players, independently of rings, groups *)
(* of pictures and codec headers.  Packets are numbered 0, 1, 2, ... in the *)
(* order the publisher delivers them and only the last Capacity of them are *)
(* kept.  A player receives intervals of consecutive packets.  It enters    *)
(* anywhere in the retained window; from then on every interval continues   *)
(* the previous one, unless the packet it wants next has been overwritten,  *)
(* in which case it resumes somewhere in the window, never backwards.       *)
(***************************************************************************)
EXTENDS Integers

CONSTANTS Users, Capacity

VARIABLES published,  (* number of the newest packet, -1 before the first   *)
          position,   (* number of the last packet fetched for each player  *)
          batch       (* packets fetched for a player and not yet sent      *)

logVars == <<published, position, batch>>

Oldest == IF published < Capacity THEN 0 ELSE published - Capacity + 1

LogInit ==
  /\ published = -1
  /\ position = [u \in Users |-> -1]
  /\ batch = [u \in Users |-> {}]

Publish ==
  /\ published' = published + 1
  /\ UNCHANGED <<position, batch>>

(* The first packet of the next interval of player u may be number n.       *)
MayResumeAt(u, n) ==
  \/ position[u] = -1
  \/ n = position[u] + 1
  \/ position[u] + 1 < Oldest /\ position[u] < n

Fetch(u) ==
  /\ batch[u] = {}
  /\ \E from \in Oldest .. published, to \in Oldest .. published :
       /\ from <= to
       /\ MayResumeAt(u, from)
       /\ position' = [position EXCEPT ![u] = to]
       /\ \/ batch' = [batch EXCEPT ![u] = from .. to]
          \/ batch' = batch           \* fetched and sent in one go
  /\ UNCHANGED published

Deliver(u) ==
  /\ batch[u] # {}
  /\ batch' = [batch EXCEPT ![u] = {}]
  /\ UNCHANGED <<published, position>>

LogNext == Publish \/ \E u \in Users : Fetch(u) \/ Deliver(u)

LogSpec == LogInit /\ [][LogNext]_logVars
==============================================================================
