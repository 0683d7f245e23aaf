-------------------------- MODULE WithdrawBuilder --------------------------
(***************************************************************************)
(* WithdrawUnbondedTransactionBuilder (lib/src/transaction/staking) with   *)
(* its native half (native/src/staking_transaction/                        *)
(* withdraw_unbonded_transaction.rs).                                      *)
(*                                                                         *)
(* The builder caches the raw transaction and its id, and holds one        *)
(* witness.  An edit drops the cache and leaves the witness: the promise   *)
(* of SignedTxBuilder is not kept, and the module states what is left of   *)
(* it beside the claim that fails.                                         *)
(***************************************************************************)
EXTENDS Naturals, Sequences

CONSTANTS
    Builder,          \* variables of the client program that hold a builder
    Nonce,            \* account nonces owAccountNonce lets pass
    ParseableNonce,   \* those that fit the native u64: 2^64 does not
    Output,           \* outputs on the builder's network
    ViewKey,          \* view keys
    KeyPair,          \* key pairs
    HasPrivateKey,    \* the key pairs that carry their private key
    Offered,          \* the 66-byte buffers callers pass to addWitness()
    Undecodable,      \* those of them that are no encoded witness
    MAX_OUTPUT_SIZE,  \* the builder's limit on outputs (65536 in the code)
    MaxViewKeys,      \* bound on the number of view keys
    None              \* undefined

\* What a transaction id is the hash of
Content == [nonce : Nonce, outputs : Seq(Output), viewKeys : Seq(ViewKey)]

Signature == [key : KeyPair, txId : Content]

ASSUME WithdrawAssumption ==
    /\ ParseableNonce \subseteq Nonce
    /\ HasPrivateKey \subseteq KeyPair
    /\ Offered \subseteq Signature \cup Undecodable
    /\ MAX_OUTPUT_SIZE \in Nat /\ MaxViewKeys \in Nat

\* The stored witness; origin and storedAt record which call stored it and what
\* the builder's content was then
Slot == [origin   : {"sign", "addWitness"},
         bytes    : Signature \cup Undecodable,
         storedAt : Content]

VARIABLES
    nonce,      \* [Builder -> Nonce]
    outputs,    \* [Builder -> Seq(Output)]
    viewKeys,   \* [Builder -> Seq(ViewKey)]
    rawTx,      \* [Builder -> Content \cup {None}]: unsignedRawTx, innertTxId
    witness,    \* [Builder -> Slot \cup {None}]
    exported    \* what the last call returned if it was an export, else None

fields == <<nonce, outputs, viewKeys>>
vars == <<nonce, outputs, viewKeys, rawTx, witness, exported>>

ContentOf(b) ==
    [nonce |-> nonce[b], outputs |-> outputs[b], viewKeys |-> viewKeys[b]]

hasOutput(b) == outputs[b] # <<>>

isSigned(b) == witness[b] # None

\* BuildWithdrawUnbondedTransactionOptions::parse
Parseable(c) == c.nonce \in ParseableNonce

\* parse_staked_state_op_witness
Decodes(w) == w \notin Undecodable

\* withdraw_unbonded_transaction_to_witness
WitnessOf(keyPair, tx) == [key |-> keyPair, txId |-> tx]

\* Every call that needs the raw transaction prepares it unless it is there,
\* and throws when there is no output or the native parser refuses the nonce
CanPrepare(b) == rawTx[b] # None \/ (hasOutput(b) /\ Parseable(ContentOf(b)))

Prepared(b) == IF rawTx[b] = None THEN ContentOf(b) ELSE rawTx[b]

-----------------------------------------------------------------------------
(* Operations of a builder *)

Init ==
    /\ nonce \in [Builder -> Nonce]
    /\ outputs = [b \in Builder |-> <<>>]
    /\ viewKeys = [b \in Builder |-> <<>>]
    /\ rawTx = [b \in Builder |-> None]
    /\ witness = [b \in Builder |-> None]
    /\ exported = None

\* new WithdrawUnbondedTransactionBuilder({ nonce: n })
New(b, n) ==
    /\ nonce' = [nonce EXCEPT ![b] = n]
    /\ outputs' = [outputs EXCEPT ![b] = <<>>]
    /\ viewKeys' = [viewKeys EXCEPT ![b] = <<>>]
    /\ rawTx' = [rawTx EXCEPT ![b] = None]
    /\ witness' = [witness EXCEPT ![b] = None]
    /\ exported' = None

\* Mutant: the prepared transaction stays
keepPreparedRawTx(b) == exported' = None /\ UNCHANGED rawTx

clearPreparedRawTx(b) ==
    /\ rawTx' = [rawTx EXCEPT ![b] = None]
    /\ exported' = None

AddOutput(b, output) ==
    /\ Len(outputs[b]) # MAX_OUTPUT_SIZE
    /\ clearPreparedRawTx(b)
    /\ outputs' = [outputs EXCEPT ![b] = Append(@, output)]
    /\ UNCHANGED <<nonce, viewKeys, witness>>

AddViewKey(b, viewKey) ==
    /\ Len(viewKeys[b]) < MaxViewKeys
    /\ clearPreparedRawTx(b)
    /\ viewKeys' = [viewKeys EXCEPT ![b] = Append(@, viewKey)]
    /\ UNCHANGED <<nonce, outputs, witness>>

\* estimateFee(), txId() and toUnsignedHex(); also sign() and toHex() when they
\* throw after they have prepared the raw transaction
Prepare(b) ==
    /\ CanPrepare(b)
    /\ rawTx' = [rawTx EXCEPT ![b] = Prepared(b)]
    /\ exported' = None
    /\ UNCHANGED <<fields, witness>>

Store(b, call, w) ==
    /\ CanPrepare(b)
    /\ rawTx' = [rawTx EXCEPT ![b] = Prepared(b)]
    /\ witness' = [witness EXCEPT ![b] =
          [origin |-> call, bytes |-> w, storedAt |-> ContentOf(b)]]
    /\ exported' = None
    /\ UNCHANGED fields

\* Mutant: a transaction that was signed before is not hashed again
SignOnce(b, keyPair) ==
    /\ keyPair \in HasPrivateKey
    /\ Store(b, "sign", IF isSigned(b) /\ witness[b].origin = "sign"
                        THEN witness[b].bytes
                        ELSE WitnessOf(keyPair, Prepared(b)))

Sign(b, keyPair) ==
    /\ keyPair \in HasPrivateKey
    /\ Store(b, "sign", WitnessOf(keyPair, Prepared(b)))

AddWitness(b, w) == Store(b, "addWitness", w)

\* What an export of tx returns
Signed(b, tx) == [builder |-> b, content |-> tx, witness |-> witness[b]]

ToHex(b) ==
    /\ CanPrepare(b)
    /\ isSigned(b)
    /\ Decodes(witness[b].bytes)
    /\ rawTx' = [rawTx EXCEPT ![b] = Prepared(b)]
    /\ exported' = Signed(b, Prepared(b))
    /\ UNCHANGED <<fields, witness>>

\* toSignedPlainHex() does not prepare: the native addon throws on undefined
ToSignedPlainHex(b) ==
    /\ isSigned(b)
    /\ rawTx[b] # None
    /\ Decodes(witness[b].bytes)
    /\ exported' = Signed(b, rawTx[b])
    /\ UNCHANGED <<fields, rawTx, witness>>

\* Mutant: two lists are swapped in the copy
CloneSwapped(b, c) ==
    /\ nonce' = [nonce EXCEPT ![c] = nonce[b]]
    /\ outputs' = [outputs EXCEPT ![c] = viewKeys[b]]
    /\ viewKeys' = [viewKeys EXCEPT ![c] = outputs[b]]
    /\ rawTx' = [rawTx EXCEPT ![c] = rawTx[b]]
    /\ witness' = [witness EXCEPT ![c] = witness[b]]
    /\ exported' = None

\* c = b.clone()
Clone(b, c) ==
    /\ nonce' = [nonce EXCEPT ![c] = nonce[b]]
    /\ outputs' = [outputs EXCEPT ![c] = outputs[b]]
    /\ viewKeys' = [viewKeys EXCEPT ![c] = viewKeys[b]]
    /\ rawTx' = [rawTx EXCEPT ![c] = rawTx[b]]
    /\ witness' = [witness EXCEPT ![c] = witness[b]]
    /\ exported' = None

Next ==
    \E b \in Builder :
        \/ \E n \in Nonce : New(b, n)
        \/ \E o \in Output : AddOutput(b, o)
        \/ \E v \in ViewKey : AddViewKey(b, v)
        \/ Prepare(b)
        \/ \E k \in KeyPair : Sign(b, k)
        \/ \E w \in Offered : AddWitness(b, w)
        \/ ToHex(b)
        \/ ToSignedPlainHex(b)
        \/ \E c \in Builder \ {b} : Clone(b, c)

Spec == Init /\ [][Next]_vars

-----------------------------------------------------------------------------
(* Properties *)

TypeOK ==
    /\ nonce \in [Builder -> Nonce]
    /\ outputs \in [Builder -> Seq(Output)]
    /\ viewKeys \in [Builder -> Seq(ViewKey)]
    /\ rawTx \in [Builder -> Content \cup {None}]
    /\ witness \in [Builder -> Slot \cup {None}]
    /\ exported \in [builder : Builder, content : Content, witness : Slot] \cup {None}

\* The cached raw transaction and its id are never older than the last edit,
\* whichever of the calls that prepare it on demand filled the cache.
RawTxIsCurrent ==
    \A b \in Builder : rawTx[b] # None => rawTx[b] = ContentOf(b)

\* sign() signs the transaction as it is when it is called, never a cached
\* transaction from before an edit.
SignCoversPresentContent ==
    \A b \in Builder :
        isSigned(b) /\ witness[b].origin = "sign" =>
            witness[b].bytes.txId = witness[b].storedAt

\* toHex() and toSignedPlainHex() return the transaction as it is when they are
\* called, and if nothing was edited since sign(), with a signature of it.
ExportIsCurrent ==
    exported # None =>
        /\ exported.content = ContentOf(exported.builder)
        /\ exported.content.outputs # <<>>
        /\ exported.witness.origin = "sign" /\ exported.witness.storedAt = exported.content
              => exported.witness.bytes.txId = exported.content

\* The documentation of the builder says that signatures are cleared by an
\* edit: a witness it holds would then be one stored for the present content.
SignaturesAreCleared ==
    \A b \in Builder : isSigned(b) => witness[b].storedAt = ContentOf(b)
=============================================================================
