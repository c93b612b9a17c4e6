---------------------------- MODULE MCUnitOfWork ----------------------------
(* Three blocks: two of them use the same unit, the third one of its own.  *)
EXTENDS UnitOfWork, TLC

CONSTANTS b1, b2, b3, u1, u2

TwoOnOne == b1 :> u1 @@ b2 :> u1 @@ b3 :> u2
=============================================================================
