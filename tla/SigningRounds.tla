--------------------------- MODULE SigningRounds ---------------------------
(***************************************************************************)
(* What a multi-signature session promises its signers: three rounds with  *)
(* a barrier between them.  Nobody reveals a nonce before everybody has    *)
(* committed to one, nobody signs partially before everybody has revealed, *)
(* and nobody holds a signature before everybody has signed.               *)
(***************************************************************************)
CONSTANT Signer

VARIABLES committed, revealed, partiallySigned, finished

vars == <<committed, revealed, partiallySigned, finished>>

Init ==
    /\ committed = {} /\ revealed = {}
    /\ partiallySigned = {} /\ finished = {}

Commit(s) ==
    /\ committed' = committed \cup {s}
    /\ UNCHANGED <<revealed, partiallySigned, finished>>

Reveal(s) ==
    /\ committed = Signer
    /\ revealed' = revealed \cup {s}
    /\ UNCHANGED <<committed, partiallySigned, finished>>

PartiallySign(s) ==
    /\ revealed = Signer
    /\ partiallySigned' = partiallySigned \cup {s}
    /\ UNCHANGED <<committed, revealed, finished>>

Finish(s) ==
    /\ partiallySigned = Signer
    /\ finished' = finished \cup {s}
    /\ UNCHANGED <<committed, revealed, partiallySigned>>

Next == \E s \in Signer : Commit(s) \/ Reveal(s) \/ PartiallySign(s) \/ Finish(s)

Spec == Init /\ [][Next]_vars
=============================================================================
