-------------------------- MODULE TransferBuilder --------------------------
(***************************************************************************)
(* TransferTransactionBuilder (lib/src/transaction/transfer) with the part *)
(* of the native addon it drives (native/src/transfer_transaction).        *)
(*                                                                         *)
(* A builder keeps the transaction being assembled (inputs, outputs, view  *)
(* keys) and, once signing has begun, a cached "incomplete" transaction    *)
(* that carries the witnesses collected so far.  The cache is built from   *)
(* the fields on demand and has to be dropped whenever a field changes.    *)
(*                                                                         *)
(* Builder is a set of program variables that hold builder objects: a      *)
(* constructor call or clone() stores an object in one of them.  A call    *)
(* that throws and changes nothing is a stuttering step; one that throws   *)
(* after it has changed the builder is part of an action (AddWitness).          *)
(***************************************************************************)
EXTENDS Naturals, Sequences

CONSTANTS
    Builder,        \* variables of the client program that hold a builder
    Network,        \* network configurations: records with fields name, chain
    Address,        \* transfer addresses
    Input,          \* previous outputs that can be spent
    Output,         \* outputs that can be created
    ViewKey,        \* view keys
    KeyPair,        \* key pairs of single signers
    AddressOf,      \* [Input \cup Output -> Address]
    NetOf,          \* [Address -> Net]: the network in an address's prefix
    ValueOf,        \* [Input \cup Output -> Nat]: amounts in basic unit
    SignerAddress,  \* [KeyPair -> [Net -> Address]]: address.transfer(...)
    HasPrivateKey,  \* the key pairs that carry their private key
    Offered,        \* the witnesses callers pass to addWitness()
    MinFee,         \* the fee the linear fee algorithm asks for
    MaxInputs,      \* bounds on the length of the builder's lists
    MaxOutputs,
    MaxViewKeys,
    None            \* undefined in TypeScript, None in Rust

\* The networks an address or a chain id can belong to
Net == {NetOf[a] : a \in Address}

ASSUME ConstantsAssumption ==
    /\ \A n \in Network : n.name \in Net /\ n.chain \in Net
    /\ AddressOf \in [Input \cup Output -> Address]
    /\ ValueOf \in [Input \cup Output -> Nat]
    /\ SignerAddress \in [KeyPair -> [Net -> Address]]
    /\ HasPrivateKey \subseteq KeyPair
    /\ MinFee \in Nat
    /\ MaxInputs \in Nat /\ MaxOutputs \in Nat /\ MaxViewKeys \in Nat

(***************************************************************************)
(* Transactions.  A transaction id is a hash of everything in Content, so  *)
(* the content itself stands for it.  A witness is what an address's       *)
(* signers made of a transaction id.                                       *)
(***************************************************************************)
Content == [network  : Network,
            inputs   : Seq(Input),
            outputs  : Seq(Output),
            viewKeys : Seq(ViewKey)]

Witness == [address : Address, txId : Content]

\* RawTransferTransactionBuilder in its serialised form
IncompleteHex == [content : Content, witnesses : Seq(Witness \cup {None})]

ASSUME OfferedAssumption == Offered \subseteq Witness

ASSUME NoneAssumption == None \notin Witness /\ None \notin IncompleteHex

VARIABLES
    network,        \* [Builder -> Network]
    inputs,         \* [Builder -> Seq(Input)]
    outputs,        \* [Builder -> Seq(Output)]
    viewKeys,       \* [Builder -> Seq(ViewKey)]
    incompleteHex,  \* [Builder -> IncompleteHex \cup {None}]
    exported        \* what the last call returned if it was toHex, else None

fields == <<network, inputs, outputs, viewKeys>>
vars == <<network, inputs, outputs, viewKeys, incompleteHex, exported>>

-----------------------------------------------------------------------------
(* The native addon *)

\* Mutant: the prefix of an address is not checked
AlwaysParseable(c) == TRUE

\* parse_output: from_cro fails on an address of another network than the
\* one the chain hex id stands for
Parseable(c) ==
    /\ \A i \in DOMAIN c.inputs : NetOf[AddressOf[c.inputs[i]]] = c.network.chain
    /\ \A i \in DOMAIN c.outputs : NetOf[AddressOf[c.outputs[i]]] = c.network.chain

\* build_incomplete_hex_linear_fee, for Parseable content
Unsigned(c) ==
    [content |-> c, witnesses |-> [i \in 1..Len(c.inputs) |-> None]]

\* Mutant: a signature of another transaction is taken
UnlocksAnyTx(w, hex, i) == w.address = AddressOf[hex.content.inputs[i]]

\* add_witness checks a witness against the output the input spends
Unlocks(w, hex, i) ==
    /\ w.address = AddressOf[hex.content.inputs[i]]
    /\ w.txId = hex.content

\* add_input_witness_linear_fee, once the witness is accepted
WithWitness(hex, i, w) == [hex EXCEPT !.witnesses[i] = w]

\* Mutant: one witness is enough
SomeWitnessed(hex) == \E i \in DOMAIN hex.witnesses : hex.witnesses[i] # None

\* sign_input_linear_fee
WitnessOf(a, hex) == [address |-> a, txId |-> hex.content]

\* is_completed_linear_fee
AllWitnessed(hex) == \A i \in DOMAIN hex.witnesses : hex.witnesses[i] # None

\* The sum of the amounts in a list of inputs or outputs
Total(s) ==
    LET sum[n \in 0..Len(s)] == IF n = 0 THEN 0 ELSE sum[n - 1] + ValueOf[s[n]]
    IN  sum[Len(s)]

\* verify_linear_fee
SufficientBalance(c) == Total(c.inputs) >= Total(c.outputs) + MinFee

-----------------------------------------------------------------------------
(* Queries of a builder *)

ContentOf(b) == [network  |-> network[b],
                 inputs   |-> inputs[b],
                 outputs  |-> outputs[b],
                 viewKeys |-> viewKeys[b]]

isTransferAddressInNetwork(b, a) == NetOf[a] = network[b].name

isSigning(b) == incompleteHex[b] # None

\* txId() is computed from the fields, not from the cache
txId(b) == ContentOf(b)

toIncompleteHex(b) ==
    IF isSigning(b) THEN incompleteHex[b] ELSE Unsigned(ContentOf(b))

\* prepareIncompleteSigningHex() throws unless the cache is there or the
\* native build succeeds
CanPrepare(b) == isSigning(b) \/ Parseable(ContentOf(b))

isCompleted(b) == isSigning(b) /\ AllWitnessed(incompleteHex[b])

verify(b) ==
    /\ inputs[b] # <<>> /\ outputs[b] # <<>>
    /\ isSigning(b)
    /\ SufficientBalance(incompleteHex[b].content)

-----------------------------------------------------------------------------
(* Operations of a builder *)

Init ==
    /\ network \in [Builder -> Network]
    /\ inputs = [b \in Builder |-> <<>>]
    /\ outputs = [b \in Builder |-> <<>>]
    /\ viewKeys = [b \in Builder |-> <<>>]
    /\ incompleteHex = [b \in Builder |-> None]
    /\ exported = None

\* new TransferTransactionBuilder({ network: n })
New(b, n) ==
    /\ network' = [network EXCEPT ![b] = n]
    /\ inputs' = [inputs EXCEPT ![b] = <<>>]
    /\ outputs' = [outputs EXCEPT ![b] = <<>>]
    /\ viewKeys' = [viewKeys EXCEPT ![b] = <<>>]
    /\ incompleteHex' = [incompleteHex EXCEPT ![b] = None]
    /\ exported' = None

clearIncompleteSigningHex(b) ==
    /\ incompleteHex' = [incompleteHex EXCEPT ![b] = None]
    /\ exported' = None

AddInput(b, input) ==
    /\ Len(inputs[b]) < MaxInputs
    /\ isTransferAddressInNetwork(b, AddressOf[input])
    /\ clearIncompleteSigningHex(b)
    /\ inputs' = [inputs EXCEPT ![b] = Append(@, input)]
    /\ UNCHANGED <<network, outputs, viewKeys>>

AddOutput(b, output) ==
    /\ Len(outputs[b]) < MaxOutputs
    /\ isTransferAddressInNetwork(b, AddressOf[output])
    /\ clearIncompleteSigningHex(b)
    /\ outputs' = [outputs EXCEPT ![b] = Append(@, output)]
    /\ UNCHANGED <<network, inputs, viewKeys>>

\* Mutant: the cache is not dropped
AddViewKeyKeepingCache(b, viewKey) ==
    /\ Len(viewKeys[b]) < MaxViewKeys
    /\ viewKeys' = [viewKeys EXCEPT ![b] = Append(@, viewKey)]
    /\ exported' = None
    /\ UNCHANGED <<network, inputs, outputs, incompleteHex>>

AddViewKey(b, viewKey) ==
    /\ Len(viewKeys[b]) < MaxViewKeys
    /\ clearIncompleteSigningHex(b)
    /\ viewKeys' = [viewKeys EXCEPT ![b] = Append(@, viewKey)]
    /\ UNCHANGED <<network, inputs, outputs>>

SignInput(b, i, keyPair) ==
    LET signingAddress == SignerAddress[keyPair][network[b].name]
        hex == toIncompleteHex(b)
    IN  /\ i \in DOMAIN inputs[b]
        /\ keyPair \in HasPrivateKey
        /\ AddressOf[inputs[b][i]] = signingAddress
        /\ CanPrepare(b)
        /\ incompleteHex' =
              [incompleteHex EXCEPT ![b] =
                  WithWitness(hex, i, WitnessOf(signingAddress, hex))]
        /\ exported' = None
        /\ UNCHANGED fields

\* Mutant: a call that throws drops the cache
AddWitnessOrReset(b, i, witness) ==
    LET hex == toIncompleteHex(b) IN
    /\ i \in DOMAIN inputs[b]
    /\ CanPrepare(b)
    /\ incompleteHex' =
          [incompleteHex EXCEPT ![b] = IF Unlocks(witness, hex, i)
                                       THEN WithWitness(hex, i, witness)
                                       ELSE None]
    /\ exported' = None
    /\ UNCHANGED fields

\* The native addon decodes and checks the witness after the cache has been
\* filled: when it throws, the builder keeps the prepared transaction
AddWitness(b, i, witness) ==
    LET hex == toIncompleteHex(b) IN
    /\ i \in DOMAIN inputs[b]
    /\ CanPrepare(b)
    /\ incompleteHex' =
          [incompleteHex EXCEPT ![b] = IF Unlocks(witness, hex, i)
                                       THEN WithWitness(hex, i, witness)
                                       ELSE hex]
    /\ exported' = None
    /\ UNCHANGED fields

ToHex(b) ==
    /\ inputs[b] # <<>> /\ outputs[b] # <<>>
    /\ isCompleted(b)
    /\ verify(b)
    /\ exported' = incompleteHex[b]
    /\ UNCHANGED <<fields, incompleteHex>>

\* Mutants: two lists are swapped in the copy; the copy takes the cache away
CloneSwapped(b, c) ==
    /\ network' = [network EXCEPT ![c] = network[b]]
    /\ inputs' = [inputs EXCEPT ![c] = outputs[b]]
    /\ outputs' = [outputs EXCEPT ![c] = inputs[b]]
    /\ viewKeys' = [viewKeys EXCEPT ![c] = viewKeys[b]]
    /\ incompleteHex' = [incompleteHex EXCEPT ![c] = incompleteHex[b]]
    /\ exported' = None

CloneMoving(b, c) ==
    /\ network' = [network EXCEPT ![c] = network[b]]
    /\ inputs' = [inputs EXCEPT ![c] = inputs[b]]
    /\ outputs' = [outputs EXCEPT ![c] = outputs[b]]
    /\ viewKeys' = [viewKeys EXCEPT ![c] = viewKeys[b]]
    /\ incompleteHex' = [incompleteHex EXCEPT ![c] = incompleteHex[b], ![b] = None]
    /\ exported' = None

\* c = b.clone()
Clone(b, c) ==
    /\ network' = [network EXCEPT ![c] = network[b]]
    /\ inputs' = [inputs EXCEPT ![c] = inputs[b]]
    /\ outputs' = [outputs EXCEPT ![c] = outputs[b]]
    /\ viewKeys' = [viewKeys EXCEPT ![c] = viewKeys[b]]
    /\ incompleteHex' = [incompleteHex EXCEPT ![c] = incompleteHex[b]]
    /\ exported' = None

\* The calls that change the transaction
Edit(b) ==
    \/ \E x \in Input : AddInput(b, x)
    \/ \E x \in Output : AddOutput(b, x)
    \/ \E x \in ViewKey : AddViewKey(b, x)

\* The calls that sign or export the transaction as it is
Collect(b) ==
    \/ \E i \in DOMAIN inputs[b], k \in KeyPair : SignInput(b, i, k)
    \/ \E i \in DOMAIN inputs[b], w \in Offered : AddWitness(b, i, w)
    \/ ToHex(b)

\* The assignments of a builder object to a program variable
Assign(b) ==
    \/ \E n \in Network : New(b, n)
    \/ \E c \in Builder \ {b} : Clone(c, b)

Next == \E b \in Builder : Edit(b) \/ Collect(b) \/ Assign(b)

Spec == Init /\ [][Next]_vars

-----------------------------------------------------------------------------
(* Properties *)

TypeOK ==
    /\ network \in [Builder -> Network]
    /\ inputs \in [Builder -> Seq(Input)]
    /\ outputs \in [Builder -> Seq(Output)]
    /\ viewKeys \in [Builder -> Seq(ViewKey)]
    /\ incompleteHex \in [Builder -> IncompleteHex \cup {None}]
    /\ exported \in IncompleteHex \cup {None}

\* The cached transaction is the one the fields describe: every call that
\* changes a field drops the cache, also when the cache was filled by a call
\* that threw, or was copied by clone().
CacheIsCurrent ==
    \A b \in Builder :
        isSigning(b) => /\ incompleteHex[b].content = ContentOf(b)
                        /\ Len(incompleteHex[b].witnesses) = Len(inputs[b])

\* A witness in the cache unlocks the input it sits at, for the transaction id
\* that txId() computes from the fields: no signature collected before an edit
\* survives it ("All previous signatures will be cleared").
WitnessesCoverTxId ==
    \A b \in Builder : isSigning(b) =>
        \A i \in DOMAIN incompleteHex[b].witnesses :
            LET w == incompleteHex[b].witnesses[i] IN
            w # None => /\ w.address = AddressOf[inputs[b][i]]
                        /\ w.txId = txId(b)

\* What toHex() returns can be broadcast: every input is unlocked by its owner
\* for exactly this transaction, it spends and creates something, and the
\* inputs pay for the outputs and the fee.
ExportedIsValid ==
    exported # None =>
        /\ exported.content.inputs # <<>> /\ exported.content.outputs # <<>>
        /\ Len(exported.witnesses) = Len(exported.content.inputs)
        /\ \A i \in DOMAIN exported.witnesses :
              exported.witnesses[i] # None /\ Unlocks(exported.witnesses[i], exported, i)
        /\ SufficientBalance(exported.content)

\* The addresses of a transaction that toHex() returns are on the network the
\* builder was given by name and on the network its chain id stands for: the
\* two checks, made at different times against different fields of the network
\* configuration, leave nothing to export when the configuration mixes networks.
ExportedOnOneNetwork ==
    exported # None =>
        /\ exported.content.network.name = exported.content.network.chain
        /\ \A i \in DOMAIN exported.content.inputs :
              NetOf[AddressOf[exported.content.inputs[i]]] = exported.content.network.name
        /\ \A i \in DOMAIN exported.content.outputs :
              NetOf[AddressOf[exported.content.outputs[i]]] = exported.content.network.name

\* A call that fails, and a signature for another input, never costs a
\* signature already collected: a witness leaves the builder only when a field
\* changes or another object is assigned to the variable.
SignaturesAreKept ==
    [][\A b \in Builder :
         \/ Assign(b)
         \/ ContentOf(b)' # ContentOf(b)
         \/ ~isSigning(b)
         \/ /\ isSigning(b)'
            /\ \A i \in DOMAIN incompleteHex[b].witnesses :
                  incompleteHex[b].witnesses[i] # None =>
                      incompleteHex'[b].witnesses[i] # None]_vars

-----------------------------------------------------------------------------
(* Refinement: the builder implements SignedTxBuilder *)

NumInputs(c) == Len(c.inputs)

Acceptable(c, i, w) == w # None /\ w.address = AddressOf[c.inputs[i]] /\ w.txId = c

Promise == INSTANCE SignedTxBuilder WITH
    Slots <- NumInputs,
    Accepts <- Acceptable,
    content <- [b \in Builder |-> ContentOf(b)],
    witnesses <- [b \in Builder |-> toIncompleteHex(b).witnesses],
    out <- exported

\* Seen through its public operations, the builder with its cache behaves like
\* one that has no cache: an edit empties every slot, a witness enters only the
\* slot it unlocks, and toHex() returns the current content fully witnessed.
ImplementsPromise == Promise!Spec
=============================================================================
