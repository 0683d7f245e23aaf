---------------------------- MODULE MCMultiSig -----------------------------
(***************************************************************************)
(* A small instance of MultiSig: three signers, and two Buffer objects for *)
(* every message, so that each can be delivered twice.                     *)
(***************************************************************************)
EXTENDS MultiSig, TLC

CONSTANTS alice, bob, carol

SignerSymmetry == Permutations(Signer)
=============================================================================
