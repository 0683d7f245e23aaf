-------------------------- MODULE StakingOpBuilder --------------------------
(***************************************************************************)
(* The builders of operations on one staked account:                       *)
(* UnbondTransactionBuilder (lib/src/transaction/staking),                  *)
(* NodeJoinTransactionBuilder and UnjailTransactionBuilder                  *)
(* (lib/src/transaction/council_node), and verifySignedUnjailTxHex(), with  *)
(* their native counterparts.                                              *)
(*                                                                         *)
(* The three builders run the same code on another payload: the constructor *)
(* encodes the transaction, sign() keeps the key pair, and toHex() decodes  *)
(* the transaction again and signs it.  The amount of an unbond and the     *)
(* node metadata of a node join are left out: no step depends on them.      *)
(***************************************************************************)
EXTENDS Naturals

CONSTANTS
    Builder,        \* variables of the client program that hold a builder
    StakingAddress,
    Chain,          \* chain hex ids, one per network
    KeyPair,
    HasPrivateKey,  \* the key pairs made by fromPrivateKey()
    StakingOf,      \* [KeyPair -> StakingAddress]: address.staking(...)
    NonceModulus,   \* the nonces the native addon can parse are below this: 2^64
    None

ASSUME ConstantsAssumption ==
    /\ HasPrivateKey \subseteq KeyPair
    /\ StakingOf \in [KeyPair -> StakingAddress]
    /\ NonceModulus \in Nat \ {0}

Kind == {"unbond", "nodeJoin", "unjail"}

\* owAccountNonce admits the modulus itself
AccountNonce == 0 .. NonceModulus

Options == [stakingAddress : StakingAddress, nonce : AccountNonce, chain : Chain]

\* An encoded transaction; its id is a hash of all of it
RawTx == [kind : Kind, address : StakingAddress,
          nonce : 0 .. NonceModulus - 1, chain : Chain]

\* A broadcast-able transaction with its recoverable signature
TxAux == [tx : RawTx, signature : [keyPair : HasPrivateKey, txId : RawTx]]

VARIABLES
    kind,           \* [Builder -> Kind \cup {None}]: the class of the object
    options,        \* [Builder -> Options \cup {None}]: what the getters return
    rawTx,          \* [Builder -> RawTx \cup {None}]: unsignedRawTx and txId
    keyPair,        \* [Builder -> KeyPair \cup {None}]
    verified        \* <<hex, options>> the last call accepted as signed, or None

vars == <<kind, options, rawTx, keyPair, verified>>

-----------------------------------------------------------------------------
(* The native addon *)

\* parse_account_nonce
CanParse(nonce) == nonce < NonceModulus

Build(k, o) ==
    [kind |-> k, address |-> o.stakingAddress, nonce |-> o.nonce, chain |-> o.chain]

\* unbond_transaction_to_hex and its siblings sign the id of the decoded bytes
SignedAux(tx, kp) == [tx |-> tx, signature |-> [keyPair |-> kp, txId |-> tx]]

\* Mutant: the signed id is not compared
RecoversAnyTx(aux, a) == StakingOf[aux.signature.keyPair] = a

\* verify_tx_recover_address: a signature of something else recovers an
\* unrelated public key
Recovers(aux, a) ==
    aux.signature.txId = aux.tx /\ StakingOf[aux.signature.keyPair] = a

\* Mutant: the nonce is not compared
VerifyUnjailAnyNonce(aux, o) ==
    /\ aux.tx.kind = "unjail"
    /\ aux.tx.address = o.stakingAddress /\ aux.tx.chain = o.chain
    /\ Recovers(aux, o.stakingAddress)

\* verify_unjail_tx_aux
VerifyUnjail(aux, o) ==
    /\ aux.tx.kind = "unjail"
    /\ CanParse(o.nonce)
    /\ aux.tx.address = o.stakingAddress
    /\ aux.tx.nonce = o.nonce
    /\ aux.tx.chain = o.chain
    /\ Recovers(aux, o.stakingAddress)

-----------------------------------------------------------------------------
isCompleted(b) == keyPair[b] # None

\* key_pair_argument throws on a key pair without a private key
CanExport(b) == isCompleted(b) /\ keyPair[b] \in HasPrivateKey

toHex(b) == SignedAux(rawTx[b], keyPair[b])

Init ==
    /\ kind = [b \in Builder |-> None]
    /\ options = [b \in Builder |-> None]
    /\ rawTx = [b \in Builder |-> None]
    /\ keyPair = [b \in Builder |-> None]
    /\ verified = None

\* Mutant: the transaction is built without parsing the nonce
NewUnparsed(b, k, o) ==
    /\ kind' = [kind EXCEPT ![b] = k]
    /\ options' = [options EXCEPT ![b] = o]
    /\ rawTx' = [rawTx EXCEPT ![b] = Build(k, o)]
    /\ keyPair' = [keyPair EXCEPT ![b] = None]
    /\ verified' = None

\* b = new ...TransactionBuilder(o): the object exists only when the native
\* addon could build the transaction
New(b, k, o) ==
    /\ CanParse(o.nonce)
    /\ kind' = [kind EXCEPT ![b] = k]
    /\ options' = [options EXCEPT ![b] = o]
    /\ rawTx' = [rawTx EXCEPT ![b] = Build(k, o)]
    /\ keyPair' = [keyPair EXCEPT ![b] = None]
    /\ verified' = None

NewUnbond(b, o) == New(b, "unbond", o)
NewNodeJoin(b, o) == New(b, "nodeJoin", o)
NewUnjail(b, o) == New(b, "unjail", o)

\* sign() checks neither whose key pair it is nor that it can sign
Sign(b, kp) ==
    /\ rawTx[b] # None
    /\ keyPair' = [keyPair EXCEPT ![b] = kp]
    /\ verified' = None
    /\ UNCHANGED <<kind, options, rawTx>>

\* verifySignedUnjailTxHex(hex, o) returns: hex is any bytes that decode, what
\* the builders export included
Verify(aux, o) ==
    /\ VerifyUnjail(aux, o)
    /\ verified' = <<aux, o>>
    /\ UNCHANGED <<kind, options, rawTx, keyPair>>

Next ==
    \/ \E b \in Builder, o \in Options :
          NewUnbond(b, o) \/ NewNodeJoin(b, o) \/ NewUnjail(b, o)
    \/ \E b \in Builder, kp \in KeyPair : Sign(b, kp)
    \/ \E aux \in TxAux, o \in Options : Verify(aux, o)

Spec == Init /\ [][Next]_vars

-----------------------------------------------------------------------------
(* Properties *)

TypeOK ==
    /\ kind \in [Builder -> Kind \cup {None}]
    /\ options \in [Builder -> Options \cup {None}]
    /\ rawTx \in [Builder -> RawTx \cup {None}]
    /\ keyPair \in [Builder -> KeyPair \cup {None}]
    /\ verified \in (TxAux \X Options) \cup {None}

\* verifySignedUnjailTxHex() accepts what an unjail builder exports under the
\* options its getters report and no others, and only when the staking
\* account's own key signed it last: what was encoded by the constructor,
\* decoded by toHex() and decoded by the verifier is one transaction.
ExportVerifies ==
    \A b \in Builder : CanExport(b) =>
        \A o \in Options :
            VerifyUnjail(toHex(b), o) <=>
                /\ kind[b] = "unjail"
                /\ o = options[b]
                /\ StakingOf[keyPair[b]] = o.stakingAddress

\* What verifySignedUnjailTxHex() has accepted is what the account's owner would
\* export with the given options: not another operation, another account's
\* unjail, nor a signature taken from another transaction.
VerifiedIsAuthentic ==
    verified # None =>
        \E kp \in HasPrivateKey :
            /\ StakingOf[kp] = verified[2].stakingAddress
            /\ verified[1] = SignedAux(Build("unjail", verified[2]), kp)

\* "Determine if the transaction is completed and can be exported": a builder
\* that reports completion can export its transaction.
CompletedIsExportable == \A b \in Builder : isCompleted(b) => CanExport(b)
=============================================================================
