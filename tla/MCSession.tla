------------------------------ MODULE MCSession ------------------------------
(* Instances of Session: two loops, the first one with two connections.      *)
EXTENDS Session, TLC

CONSTANTS c1, c2, c3, l1, l2

MCConns == {c1, c2, c3}
MCLoopOf == c1 :> l1 @@ c2 :> l1 @@ c3 :> l2

(* One connection on each of two loops.                                      *)
MCTwoConns == {c1, c3}
MCTwoLoopOf == c1 :> l1 @@ c3 :> l2
=============================================================================
