-------------------------- MODULE DepositBuilder ---------------------------
(***************************************************************************)
(* DepositTransactionBuilder (lib/src/transaction/staking) with its native *)
(* half (native/src/staking_transaction/deposit_transaction.rs).           *)
(*                                                                         *)
(* Unlike the transfer builder it keeps the witnesses beside the inputs    *)
(* and the prepared raw transaction apart from them, so that two caches    *)
(* have to be dropped when an input is added.  A witness given to          *)
(* addWitness() is stored unchecked; its bytes are only decoded by toHex().*)
(***************************************************************************)
EXTENDS Naturals, Sequences

CONSTANTS
    Builder,         \* variables of the client program that hold a builder
    Pointer,         \* previous outputs (transaction id and index)
    StakingAddress,  \* staking addresses to deposit to
    KeyPair,         \* key pairs
    HasPrivateKey,   \* the key pairs that carry their private key
    Offered,         \* the buffers callers pass to addWitness()
    Undecodable,     \* those of them that are no encoded witness
    MaxInputs,       \* bound on the number of inputs
    None             \* undefined

\* What a transaction id is the hash of
Content == [to : StakingAddress, inputs : Seq(Pointer)]

\* A Schnorr signature of a transaction id
Signature == [key : KeyPair, txId : Content]

\* The content of inputs[i].witness; origin records the call that stored it
Slot == [origin : {"signInput", "addWitness"}, bytes : Signature \cup Undecodable]

ASSUME DepositAssumption ==
    /\ HasPrivateKey \subseteq KeyPair
    /\ Offered \subseteq Signature \cup Undecodable
    /\ MaxInputs \in Nat
    /\ None \notin Slot

VARIABLES
    stakingAddress,  \* [Builder -> StakingAddress]
    inputs,          \* [Builder -> Seq(Pointer)]: inputs[i].prevOutputPointer
    witnesses,       \* [Builder -> Seq(Slot \cup {None})]: inputs[i].witness
    rawTx,           \* [Builder -> Content \cup {None}]: unsignedRawTx, innertTxId
    exported         \* what the last call returned if it was toHex, else None

vars == <<stakingAddress, inputs, witnesses, rawTx, exported>>

ContentOf(b) == [to |-> stakingAddress[b], inputs |-> inputs[b]]

\* schnorr_sign_txid
SignatureOf(keyPair, tx) == [key |-> keyPair, txId |-> tx]

\* tx_in_witness_vec_argument decodes every witness or throws
AllDecode(slots) == \A i \in DOMAIN slots : slots[i].bytes \notin Undecodable

hasInput(b) == inputs[b] # <<>>

isCompleted(b) ==
    hasInput(b) /\ \A i \in DOMAIN witnesses[b] : witnesses[b][i] # None

-----------------------------------------------------------------------------
(* Operations of a builder *)

Init ==
    /\ stakingAddress \in [Builder -> StakingAddress]
    /\ inputs = [b \in Builder |-> <<>>]
    /\ witnesses = [b \in Builder |-> <<>>]
    /\ rawTx = [b \in Builder |-> None]
    /\ exported = None

\* new DepositTransactionBuilder({ stakingAddress: to })
New(b, to) ==
    /\ stakingAddress' = [stakingAddress EXCEPT ![b] = to]
    /\ inputs' = [inputs EXCEPT ![b] = <<>>]
    /\ witnesses' = [witnesses EXCEPT ![b] = <<>>]
    /\ rawTx' = [rawTx EXCEPT ![b] = None]
    /\ exported' = None

\* Mutant: the old witnesses stay
KeptAndPushed(b) == Append(witnesses[b], None)

\* The slots of b once its old witnesses are cleared and an input is pushed
ClearedAndPushed(b) ==
    Append([i \in DOMAIN witnesses[b] |-> None], None)

\* Mutant: the prepared transaction stays
AddInputKeepingRawTx(b, pointer) ==
    /\ Len(inputs[b]) < MaxInputs
    /\ inputs' = [inputs EXCEPT ![b] = Append(@, pointer)]
    /\ witnesses' = [witnesses EXCEPT ![b] = ClearedAndPushed(b)]
    /\ exported' = None
    /\ UNCHANGED <<stakingAddress, rawTx>>

AddInput(b, pointer) ==
    /\ Len(inputs[b]) < MaxInputs
    /\ rawTx' = [rawTx EXCEPT ![b] = None]
    /\ inputs' = [inputs EXCEPT ![b] = Append(@, pointer)]
    /\ witnesses' = [witnesses EXCEPT ![b] = ClearedAndPushed(b)]
    /\ exported' = None
    /\ UNCHANGED stakingAddress

\* The raw transaction after "if (!this.isRawTxPrepared()) this.prepareRawTx()"
Prepared(b) == IF rawTx[b] = None THEN ContentOf(b) ELSE rawTx[b]

\* txId() and toUnsignedHex(); also signInput() and toHex() when they throw
\* after they have prepared the raw transaction
Prepare(b) ==
    /\ hasInput(b)
    /\ rawTx' = [rawTx EXCEPT ![b] = Prepared(b)]
    /\ exported' = None
    /\ UNCHANGED <<stakingAddress, inputs, witnesses>>

\* Mutant: the witness is stored in every slot
StoreEverywhere(b, i, origin, bytes) ==
    witnesses' = [witnesses EXCEPT ![b] =
        [j \in DOMAIN witnesses[b] |-> [origin |-> origin, bytes |-> bytes]]]

Store(b, i, origin, bytes) ==
    witnesses' = [witnesses EXCEPT ![b][i] = [origin |-> origin, bytes |-> bytes]]

\* The key pair is not compared with the owner of the input
SignInput(b, i, keyPair) ==
    /\ hasInput(b)
    /\ i \in DOMAIN inputs[b]
    /\ keyPair \in HasPrivateKey
    /\ rawTx' = [rawTx EXCEPT ![b] = Prepared(b)]
    /\ Store(b, i, "signInput", SignatureOf(keyPair, Prepared(b)))
    /\ exported' = None
    /\ UNCHANGED <<stakingAddress, inputs>>

AddWitness(b, i, witness) ==
    /\ hasInput(b)
    /\ i \in DOMAIN inputs[b]
    /\ Store(b, i, "addWitness", witness)
    /\ exported' = None
    /\ UNCHANGED <<stakingAddress, inputs, rawTx>>

\* Mutant: the raw transaction is not prepared, which addWitness() does not need
ToHexUnprepared(b) ==
    /\ hasInput(b)
    /\ isCompleted(b)
    /\ AllDecode(witnesses[b])
    /\ exported' = [content |-> rawTx[b], witnesses |-> witnesses[b]]
    /\ UNCHANGED <<stakingAddress, inputs, witnesses, rawTx>>

\* Mutant: the witnesses are concatenated without being decoded
ToHexUndecoded(b) ==
    /\ isCompleted(b)
    /\ rawTx' = [rawTx EXCEPT ![b] = Prepared(b)]
    /\ exported' = [content |-> Prepared(b), witnesses |-> witnesses[b]]
    /\ UNCHANGED <<stakingAddress, inputs, witnesses>>

ToHex(b) ==
    /\ hasInput(b)
    /\ isCompleted(b)
    /\ AllDecode(witnesses[b])
    /\ rawTx' = [rawTx EXCEPT ![b] = Prepared(b)]
    /\ exported' = [content |-> Prepared(b), witnesses |-> witnesses[b]]
    /\ UNCHANGED <<stakingAddress, inputs, witnesses>>

Next ==
    \E b \in Builder :
        \/ \E to \in StakingAddress : New(b, to)
        \/ \E p \in Pointer : AddInput(b, p)
        \/ Prepare(b)
        \/ \E i \in DOMAIN inputs[b], k \in KeyPair : SignInput(b, i, k)
        \/ \E i \in DOMAIN inputs[b], w \in Offered : AddWitness(b, i, w)
        \/ ToHex(b)

Spec == Init /\ [][Next]_vars

-----------------------------------------------------------------------------
(* Properties *)

TypeOK ==
    /\ stakingAddress \in [Builder -> StakingAddress]
    /\ inputs \in [Builder -> Seq(Pointer)]
    /\ witnesses \in [Builder -> Seq(Slot \cup {None})]
    /\ rawTx \in [Builder -> Content \cup {None}]
    /\ exported \in [content : Content, witnesses : Seq(Slot \cup {None})] \cup {None}

\* The prepared raw transaction, and with it innertTxId that signInput() signs
\* and txId() returns, is never older than the last addInput().
RawTxIsCurrent ==
    \A b \in Builder : rawTx[b] # None => rawTx[b] = ContentOf(b)

\* A witness that signInput() made covers the transaction id of the present
\* content: adding an input clears the witnesses of all inputs ("All previous
\* signatures will be cleared when new input is added to builder").
SignedSlotsAreCurrent ==
    \A b \in Builder : \A i \in DOMAIN witnesses[b] :
        LET slot == witnesses[b][i] IN
        slot # None /\ slot.origin = "signInput" => slot.bytes.txId = ContentOf(b)

\* toHex() returns the present content of a builder, with one decodable witness
\* per input, and where signInput() made it, a signature of exactly what is
\* returned.  Whose signature it is, nobody checks.
ExportedIsSigned ==
    exported # None =>
        /\ \E b \in Builder : exported = [content |-> ContentOf(b), witnesses |-> witnesses[b]]
        /\ Len(exported.witnesses) = Len(exported.content.inputs)
        /\ exported.content.inputs # <<>>
        /\ \A i \in DOMAIN exported.witnesses :
              LET slot == exported.witnesses[i] IN
              /\ slot # None /\ slot.bytes \notin Undecodable
              /\ slot.origin = "signInput" => slot.bytes.txId = exported.content

-----------------------------------------------------------------------------
(* Refinement: the builder implements SignedTxBuilder, with unchecked slots *)

NumInputs(c) == Len(c.inputs)

Acceptable(c, i, slot) ==
    slot # None /\ (slot.origin = "signInput" => slot.bytes.txId = c)

Promise == INSTANCE SignedTxBuilder WITH
    Slots <- NumInputs,
    Accepts <- Acceptable,
    content <- [b \in Builder |-> ContentOf(b)],
    witnesses <- witnesses,
    out <- exported

\* With its two caches, the builder behaves like one that has none: an input
\* added empties every slot, one call fills one slot, and toHex() returns the
\* present content with a witness in every slot.
ImplementsPromise == Promise!Spec
=============================================================================
