------------------------- MODULE MCStakingOpBuilder -------------------------
(***************************************************************************)
(* A small instance of StakingOpBuilder: two accounts on two networks, the *)
(* first with a second key pair that lacks the private key.  Nonces are    *)
(* 0, 1 and 2, of which 2 stands for 2^64.                                 *)
(***************************************************************************)
EXTENDS StakingOpBuilder, TLC

CONSTANTS b1, s1, s2, k1, k2, public1

MCStakingOf == (k1 :> s1 @@ public1 :> s1 @@ k2 :> s2)
=============================================================================
