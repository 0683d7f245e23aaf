------------------------- MODULE MCTransferBuilder -------------------------
(***************************************************************************)
(* A small instance of TransferBuilder: a single-signer input and a        *)
(* multi-sig input on the builder's network, and a Devnet configuration    *)
(* that carries another network's chain id.                                *)
(***************************************************************************)
EXTENDS TransferBuilder, TLC

CONSTANTS b1, b2, i1, i2, i3, o1, o2, v1, k1, k2, single, multi, devnet

MCNetwork == {[name |-> "main", chain |-> "main"], [name |-> "dev", chain |-> "main"]}
MCMainnet == {[name |-> "main", chain |-> "main"]}
MCAddressOf == (i1 :> single @@ i2 :> multi @@ i3 :> devnet @@ o1 :> single @@ o2 :> devnet)
MCNetOf == (single :> "main" @@ multi :> "main" @@ devnet :> "dev")
MCValueOf == (i1 :> 2 @@ i2 :> 3 @@ i3 :> 2 @@ o1 :> 2 @@ o2 :> 1)
\* k2 is k1 without its private key
MCSignerAddress ==
    [k \in {k1, k2} |-> [n \in {"main", "dev"} |-> IF n = "main" THEN single ELSE devnet]]

BoundedSeq(S, n) == UNION {[1..m -> S] : m \in 0..n}

\* Every signature over a transaction that fits the bounds, stale ones included
MCOffered ==
    [address : {single, multi},
     txId : [network  : MCMainnet,
             inputs   : BoundedSeq({i1, i2}, MaxInputs),
             outputs  : BoundedSeq({o1}, MaxOutputs),
             viewKeys : BoundedSeq(ViewKey, MaxViewKeys)]]
=============================================================================
