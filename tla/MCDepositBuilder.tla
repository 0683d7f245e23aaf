-------------------------- MODULE MCDepositBuilder -------------------------
(***************************************************************************)
(* A small instance of DepositBuilder, with every signature over a content *)
(* within the bounds on offer.                                             *)
(***************************************************************************)
EXTENDS DepositBuilder

CONSTANTS b1, b2, p1, p2, s1, s2, k1, k2, junk

MCSignatures ==
    [key : {k1},
     txId : [to : StakingAddress, inputs : UNION {[1..n -> Pointer] : n \in 1..MaxInputs}]]
MCOffered == MCSignatures \cup {junk}
=============================================================================
