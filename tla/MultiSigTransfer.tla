-------------------------- MODULE MultiSigTransfer --------------------------
(***************************************************************************)
(* A transfer builder together with the multi-signature sessions that make *)
(* its witnesses.  The message of a session is the transaction id at the   *)
(* time somebody asked for it; the builder goes on being edited, further   *)
(* sessions are opened over what it has become, and a signature may arrive *)
(* at any later time, for any input.                                       *)
(*                                                                         *)
(* A session is what MultiSig was shown to implement: the rounds of        *)
(* SigningRounds.  Its signers are those of the MultiSigBuilder it was     *)
(* created from, all of them; the address it signs for may ask for fewer.  *)
(*                                                                         *)
(* sign() of a session returns a bare signature, but a witness is a        *)
(* signature together with the Merkle proof that the combined key of its   *)
(* signers is a leaf of the address.  The library makes that proof for a   *)
(* single key pair only: for several owners it has to come from elsewhere, *)
(* and where there is none, no session unlocks an input.                   *)
(***************************************************************************)
EXTENDS TransferBuilder, Integers, FiniteSets

CONSTANTS
    Signer,         \* public keys
    BuilderArgs,    \* arguments of new MultiSigBuilder(), bad ones included
    MultiSigAddress, \* from MultiSigBuilder to Address: the addresses they create
    Proofs,         \* Merkle proofs made outside of the library, records with
                    \* fields address and signers
    MaxSessions     \* bound on the sessions opened

\* The constructor.  The signers of an address may build objects with other
\* co-signers, and sign for it with those.
MultiSigBuilder ==
    {[signers |-> a.coSigners \cup {a.self}, required |-> a.required] :
        a \in {a \in BuilderArgs :
                 /\ a.coSigners # {}
                 /\ a.required >= 1
                 /\ a.required <= Cardinality(a.coSigners) + 1}}

ASSUME MultiSigTransferAssumption ==
    /\ \A a \in BuilderArgs :
          /\ a.self \in Signer /\ a.coSigners \in SUBSET Signer /\ a.required \in Int
          /\ a.self \notin a.coSigners    \* no key is given twice
    /\ MultiSigAddress \in [MultiSigBuilder -> Address]
    /\ \A m, n \in MultiSigBuilder : MultiSigAddress[m] = MultiSigAddress[n] => m = n
    \* The tree of a single signer has one leaf, that of two or more has others
    /\ \A k \in KeyPair, n \in Net, m \in MultiSigBuilder :
          SignerAddress[k][n] # MultiSigAddress[m]

createMultiSigAddress(m) == MultiSigAddress[m]

VARIABLE sessions   \* from the sessions opened, records with fields signers
                    \* and message, to the signers that took part in each round

Round == {"commitment", "nonce", "signature", "final"}

Before == [nonce |-> "commitment", signature |-> "nonce", final |-> "signature"]

\* The combined keys in the tree of an address, one for each choice of as many
\* signers as it requires
Leaves(m) == {g \in SUBSET m.signers : Cardinality(g) = m.required}

\* The addresses whose inputs a signature of these signers can unlock
UnlockedBy(signers) ==
    {createMultiSigAddress(m) : m \in {m \in MultiSigBuilder : signers \in Leaves(m)}}

\* Those for which there is a proof to put beside the signature
ProvenBy(signers) ==
    {a \in UnlockedBy(signers) : [address |-> a, signers |-> signers] \in Proofs}

NoRounds == [r \in Round |-> {}]

\* MultiSigBuilder.createNewSession(builder.txId()), at every signer.  txId()
\* asks for an input and builds the transaction, a session for two signers.
CreateNewSession(b, signers) ==
    LET id == [signers |-> signers, message |-> txId(b)] IN
    /\ inputs[b] # <<>> /\ Parseable(txId(b))
    /\ Cardinality(signers) >= 2
    /\ id \notin DOMAIN sessions /\ Cardinality(DOMAIN sessions) < MaxSessions
    /\ sessions' = [s \in DOMAIN sessions \cup {id} |->
                        IF s = id THEN NoRounds ELSE sessions[s]]
    /\ UNCHANGED vars

\* The values of the round before r have not all been delivered
IsWaiting(id, r) == r \in DOMAIN Before /\ sessions[id][Before[r]] # id.signers

\* Mutant: the rounds have no barrier
TakePartEarly(id, r, s) ==
    /\ s \notin sessions[id][r]
    /\ sessions' = [sessions EXCEPT ![id][r] = @ \cup {s}]
    /\ UNCHANGED vars

\* generateNonceCommitment(), generateNonce(), partialSign() or sign() of the
\* session of s, once the values of the round before have been delivered
TakePart(id, r, s) ==
    /\ s \notin sessions[id][r]
    /\ ~IsWaiting(id, r)
    /\ sessions' = [sessions EXCEPT ![id][r] = @ \cup {s}]
    /\ UNCHANGED vars

TakePartInAny ==
    \E id \in DOMAIN sessions : \E r \in Round, s \in id.signers : TakePart(id, r, s)

\* addWitness() with the final signature of a session as sign() returns it, at
\* any input: the native addon decodes no witness from it and throws, after the
\* cache has been filled
AddBareSignature(b, i, id) ==
    /\ sessions[id]["final"] # {}
    /\ i \in DOMAIN inputs[b]
    /\ CanPrepare(b)
    /\ incompleteHex' = [incompleteHex EXCEPT ![b] = toIncompleteHex(b)]
    /\ exported' = None
    /\ UNCHANGED <<fields, sessions>>

\* addWitness() with that signature and a proof the caller has from elsewhere
AddSignature(b, i, id) ==
    /\ sessions[id]["final"] # {}
    /\ \E a \in ProvenBy(id.signers) : AddWitness(b, i, [address |-> a, txId |-> id.message])
    /\ UNCHANGED sessions

\* Of the builder alone: the witnesses come from the sessions
BuilderStep(b) ==
    /\ \/ Edit(b)
       \/ \E i \in DOMAIN inputs[b], k \in KeyPair : SignInput(b, i, k)
       \/ ToHex(b)
    /\ UNCHANGED sessions

MSInit == Init /\ sessions = [id \in {} |-> NoRounds]

MSNext ==
    \/ \E b \in Builder :
          \/ BuilderStep(b)
          \/ \E m \in MultiSigBuilder : CreateNewSession(b, m.signers)
          \/ \E i \in DOMAIN inputs[b], id \in DOMAIN sessions :
                AddBareSignature(b, i, id) \/ AddSignature(b, i, id)
    \/ TakePartInAny

msVars == <<vars, sessions>>

(***************************************************************************)
(* The signers of an open session go on with it, and for each input of a   *)
(* builder a signing call that would succeed is made if it stays possible, *)
(* for an input of several owners with a proof from outside.  Nothing is   *)
(* assumed of edits, of which there are finitely many within the bounds,   *)
(* of the opening of sessions, or of signatures without a proof or in      *)
(* wrong places: those may come for ever.                                  *)
(***************************************************************************)
SignAny(b, i) ==
    /\ i \in DOMAIN inputs[b]
    /\ \/ \E k \in KeyPair : SignInput(b, i, k) /\ UNCHANGED sessions
       \/ \E id \in DOMAIN sessions :
             /\ id.message = txId(b)
             /\ AddressOf[inputs[b][i]] \in ProvenBy(id.signers)
             /\ AddSignature(b, i, id)

Fairness ==
    /\ WF_msVars(TakePartInAny)
    /\ \A b \in Builder : \A i \in 1..MaxInputs : WF_msVars(SignAny(b, i))

MSSpec == MSInit /\ [][MSNext]_msVars /\ Fairness

-----------------------------------------------------------------------------
(* Properties *)

\* A witness for a multi-sig input, cached or exported, means that as many of
\* the address's owners as it requires, no fewer and no others, signed exactly
\* this transaction partially, each after all of them had committed to a nonce:
\* nothing signed before an edit, for another input, or by another group counts.
SignedByOwners(hex) ==
    \A i \in DOMAIN hex.witnesses, m \in MultiSigBuilder :
        /\ hex.witnesses[i] # None
        /\ AddressOf[hex.content.inputs[i]] = createMultiSigAddress(m)
        => \E id \in DOMAIN sessions :
              /\ id.message = hex.content
              /\ id.signers \subseteq m.signers /\ Cardinality(id.signers) = m.required
              /\ \A r \in {"commitment", "nonce", "signature"} : sessions[id][r] = id.signers

ThresholdSigned ==
    /\ \A b \in Builder : isSigning(b) => SignedByOwners(incompleteHex[b])
    /\ exported # None => SignedByOwners(exported)

\* The owners of an input can unlock it: with a key pair, or with a session open
\* over the transaction as it is and a proof, made outside of the library, that
\* its signers own the input.
Signable(b, i) ==
    \/ \E k \in HasPrivateKey :
          SignerAddress[k][network[b].name] = AddressOf[inputs[b][i]]
    \/ \E id \in DOMAIN sessions :
          id.message = txId(b) /\ AddressOf[inputs[b][i]] \in ProvenBy(id.signers)

\* A builder whose transaction the addon can build, and whose inputs all have
\* owners who can unlock them, is eventually completed, whatever older sessions
\* deliver in between and however often a bare signature is tried.
EventuallyCompleted ==
    \A b \in Builder :
        <>[](/\ inputs[b] # <<>> /\ Parseable(ContentOf(b))
             /\ \A i \in DOMAIN inputs[b] : Signable(b, i))
            => <>[]isCompleted(b)
=============================================================================
