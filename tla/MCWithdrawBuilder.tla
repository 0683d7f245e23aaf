------------------------- MODULE MCWithdrawBuilder -------------------------
(***************************************************************************)
(* A small instance of WithdrawBuilder: a nonce the native parser accepts  *)
(* and one (2^64) it refuses, signatures over stale contents on offer.     *)
(***************************************************************************)
EXTENDS WithdrawBuilder

CONSTANTS b1, b2, n1, n2, o1, v1, k1, k2, junk

Outputs == UNION {[1..n -> Output] : n \in 1..MAX_OUTPUT_SIZE}
MCOffered ==
    {[key |-> k1, txId |-> [nonce |-> n1, outputs |-> os, viewKeys |-> vs]] :
        os \in Outputs, vs \in {<<>>, <<v1>>}} \cup {junk}
=============================================================================
