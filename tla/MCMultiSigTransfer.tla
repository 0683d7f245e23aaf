------------------------ MODULE MCMultiSigTransfer ------------------------
(***************************************************************************)
(* A small instance of MultiSigTransfer: an input of one owner and one of  *)
(* an address two of whose three owners have to sign, with sessions of two *)
(* of them and of all three.                                               *)
(***************************************************************************)
EXTENDS MultiSigTransfer, TLC

CONSTANTS b1, i1, i2, i3, o1, k1, single, multi, pair, alice, bob, carol

MCNetwork == {[name |-> "main", chain |-> "main"]}
MCAddressOf == (i1 :> single @@ i2 :> multi @@ i3 :> pair @@ o1 :> single)
MCNetOf == [a \in {single, multi, pair} |-> "main"]
MCValueOf == (i1 :> 2 @@ i2 :> 3 @@ i3 :> 1 @@ o1 :> 2)
MCSignerAddress == (k1 :> [n \in {"main"} |-> single])

Args(self, coSigners, required) ==
    [self |-> self, coSigners |-> coSigners, required |-> required]
MCBuilderArgs ==
    {Args(alice, {bob, carol}, n) : n \in {0, 2, 4}}
    \cup {Args(bob, {alice, carol}, 2), Args(alice, {bob}, 2), Args(alice, {}, 1)}
MCMultiSigAddress ==
    ([signers |-> Signer, required |-> 2] :> multi
     @@ [signers |-> {alice, bob}, required |-> 2] :> pair)

\* Nobody has a proof for the address of two
MCProofs == {[address |-> multi, signers |-> {alice, bob}]}
=============================================================================
