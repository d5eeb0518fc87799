------------------------------ MODULE MCStream ------------------------------
(* An instance of Stream for TLC.                                           *)
EXTENDS Stream

CONSTANTS u1, u2

MCBackwards == {-1, 3}
MCKinds == {"meta", "videoHeader", "audioHeader", "audio", "key"}
=============================================================================
