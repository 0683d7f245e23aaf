# A TLA+ model of thaler-nodelib

thaler-nodelib is a Node.js library (TypeScript in `lib/src`, Rust in `native/src`) with
which wallets and exchanges build and sign transactions of the Crypto.com chain. It talks
to no network of its own, except to ask a node's enclave to obfuscate an export: a program
holds **builder** and **session** objects, calls their methods in any order, copies them,
moves buffers between machines, and broadcasts what the builders export. What can go wrong
is therefore not a race of threads but a *sequence of legal calls*: a cache that outlives
an edit, a signature that outlives the content it signs, a failed call that leaves
something behind, a message delivered twice, an argument that one language accepts and the
other one understands differently.

## 1. The system

| Component | State | Operations that change it |
|---|---|---|
| `TransferTransactionBuilder` + `native/src/transfer_transaction` | `network`, `inputs`, `outputs`, `viewKeys`; `incompleteHex`, a serialised native transaction that also holds the witnesses | constructor, `addInput`, `addOutput`, `addViewKey`, `signInput`, `addWitness`, `clone` |
| `DepositTransactionBuilder` + native half | `stakingAddress`, `inputs` with a witness each; `unsignedRawTx` and `innertTxId` as a cache | constructor, `addInput`, `txId`, `toUnsignedHex`, `signInput`, `addWitness`, `toHex` |
| `WithdrawUnbondedTransactionBuilder` + native half | `nonce`, `outputs`, `viewKeys`, one `witness`; `unsignedRawTx`, `innertTxId` as a cache | constructor, `addOutput`, `addViewKey`, `estimateFee`, `txId`, `toUnsignedHex`, `sign`, `addWitness`, `toHex`, `clone` |
| `UnbondTransactionBuilder`, `NodeJoinTransactionBuilder`, `UnjailTransactionBuilder`, `verifySignedUnjailTxHex` | the encoded transaction, the `keyPair` last given to `sign` | constructor, `sign` |
| `MultiSigSession` + `native/src/multi_sig.rs` | per round a list of Buffers received; the opaque native `session` | `generateNonceCommitment`, `addNonceCommitment`, `generateNonce`, `addNonce`, `partialSign`, `addPartialSignature`, `sign` |
| `MultiSigBuilder` | signers and threshold, fixed by the constructor | constructor; makes the address and new sessions |
| Validators (`lib/src/types.ts`, `network`, `fee`) and native parsers (`function_types.rs`, `builder_options.rs`) | none: they decide what gets into a builder and what the addon makes of it | |
| `to_tx_aux` and its copies (`native/src/tx_aux.rs`, `transfer_transaction/mod.rs`) | `NODE_ENV`, read at each export; the node behind `tendermintAddress` | `toHex` |
| `toCRO`, `fromCRO`, `HDWallet.derivef`, `transfer_address_leaves` | none | |
| `KeyPair`, address functions, `Timespec`, module registration and errors | none, or immutable values | |

How they interact:

- A builder validates its arguments in TypeScript, keeps the data, and calls the native
  addon with all of it whenever bytes are needed. Between calls the native side keeps
  nothing: its objects travel through TypeScript as Buffers. So every argument is checked
  twice, at different times, in two languages, with different number types.
- `txId()` of a transfer is the message of a `MultiSigSession`, and the builder can be edited
  while the session runs. What the session's `sign()` returns is not yet a witness: it is a bare
  signature (`multi_sig.rs:295`), and `addWitness()` decodes a signature *with the Merkle proof*
  that its key is a leaf of the address (`transfer_transaction/mod.rs:93`). The library makes
  that proof for a single key pair only (`signInput()`, `KeyPairSigner`). For an input of
  several owners the caller has to make proof and witness by other means; with this library
  alone no session unlocks an input.
- A witness can come from another process and any earlier time; a caller may offer it to
  the wrong input, to an edited transaction, or twice.
- `clone()` gives a second object with the same caches.
- `toHex()` hands the finished transaction to a node that may be down, know no enclave or
  refuse, or, under a test runner, to a mock cipher.

The behaviours that are hard, and the property wanted of each, are the `hazards` of
`PROJECT.json`. In one sentence per component:

- *transfer*: whatever is cached or exported is the present content, signed by the owners of
  all inputs for exactly that content, on one network, and no signature is lost on the way;
- *deposit*: both caches are dropped by an edit, and an export is fully and decodably witnessed;
- *withdraw*: what is signed and exported is the present content (that old signatures are
  dropped too is claimed, and is not so);
- *staking operations*: the verifier accepts exactly what the owner's builder exports;
- *sessions*: no nonce is revealed before every signer committed, no signature exists before
  every signer signed, and sessions get there;
- *transfer and sessions together*: a multi-signature input is unlocked only by as many of its
  owners as its address requires, over the present content; late and bare signatures do no harm;
- *arguments*: what the validators take the addon takes, and understands as it was given (up to
  the widths of the native numbers, and not for the inputs of a transfer);
- *export*: nothing leaves in the clear outside of tests, and a failed call can be repeated;
- *pure functions*: no amount or combination of signers is lost, and a format path with at most
  one placeholder in a step confuses no two lists of indices.

## 2. The modules

| Module | What it is |
|---|---|
| `SignedTxBuilder` | Abstract: what a builder promises a caller, with no cache and no failing call |
| `TransferBuilder` | The transfer builder; `Promise` instantiates `SignedTxBuilder` |
| `DepositBuilder` | The deposit builder; same promise, with slots whose foreign witnesses are unchecked |
| `WithdrawBuilder` | The withdraw builder |
| `StakingOpBuilder` | The three builders over one staked account, and the unjail verifier |
| `SigningRounds` | Abstract: three signing rounds with barriers between them |
| `MultiSig` | All sessions of one message and the transport between them; implements `SigningRounds` |
| `MultiSigTransfer` | `TransferBuilder` composed with `MultiSigBuilder` and any number of sessions, opened over whatever the transaction was at the time |
| `NativeArguments` | The way of an argument from the caller through the TypeScript validator and the builder into the native parser, for transfers, deposits and withdrawals |
| `TxExport` | Extends `NativeArguments` by `toHex()`: environment, feature, the two ciphers, the node |
| `Amounts`, `DerivationPath`, `AddressLeaves` | The pure algorithms, as functions |
| `Conversions` | A caller of those three, with the reference definitions they are compared to |
| `MCTransferBuilder`, `MCDepositBuilder`, `MCWithdrawBuilder`, `MCStakingOpBuilder`, `MCMultiSig`, `MCMultiSigTransfer`, `MCNativeArguments`, `MCConversions` | Small instances for TLC |
| `TransferBuilderProofs`, `DepositBuilderProofs`, `WithdrawBuilderProofs`, `StakingOpBuilderProofs`, `MultiSigProofs`, `MultiSigTransferProofs`, `TxExportProofs`, `ConversionsProofs` | Theorems for every value of the constants |

Conventions shared by the modules:

- `Builder` is a set of *program variables*, each holding a builder. A constructor call or a
  `clone()` assigns an object to one; garbage is not modelled.
- One action per method. A method that throws without having changed anything is a
  stuttering step and has no action. One that throws *after* a change is modelled: the
  rejecting branch of `AddWitness` in `TransferBuilder`, and `Prepare` in `DepositBuilder` and
  `WithdrawBuilder`, which is also what `signInput()` or `toHex()` leave behind when the
  native call after the preparation throws.
- A transaction id is a hash of all that is encoded, so the content stands for its id. A
  signature is a record of who signed which content; forging one is outside the model.
- `exported` (`verified` in `StakingOpBuilder`) is what the last call returned, so that
  properties can speak of results; any other call resets it.
- Validation of arguments is the subject of `NativeArguments`, whose inputs include malformed
  ones. The other modules start from valid arguments and keep, as guards, the checks that
  depend on the state or that happen late and natively: the network of an address, once by
  the network's name (`isTransferAddressInNetwork`) and once by its chain id (`Parseable`);
  the nonce 2^64, which TypeScript lets pass; bytes that do not decode; a key pair without
  private key.
- Definitions marked *Mutant* are plausible bugs of the definition that follows them. No
  specification uses them; replacing the definition by its mutant has to break the property
  `PROJECT.json` pairs it with.

Correspondence of state and code:

- `TransferBuilder`: `incompleteHex[b]` is `None` or a record of the content it was built from
  and a witness per input. The content in the cache is deliberately *not* read from the
  fields: that the two agree is the theorem `CacheCorrect`. `txId` reads the fields, as the
  code does, while `SignInput` signs the cache.
- `DepositBuilder`: `rawTx[b]` stands for the pair `unsignedRawTx`, `innertTxId`, which are set
  and cleared together. `witnesses[b][i].origin` records which method stored a witness
  (the code does not): `addWitness()` checks nothing, so only `signInput()`'s are promised to
  be signatures of the present content. Nothing compares the key of such a signature with the
  owner of the output that is spent: the builder is not told who that is.
- `WithdrawBuilder`: the same, with one witness. `storedAt` records the builder's content at the
  time, for the properties only.
- `StakingOpBuilder`: one `New` for three constructors that differ in the payload they encode; the
  amount of an unbond and the node metadata decide nothing and are left out. The
  transaction is built by the constructor, so `toHex` is a function of the state and no action.
  The verifier compares address, nonce and chain id with what it decodes
  (`unjail_transaction.rs:71`); the version in the transaction's attributes is not compared, and
  not in the model.
- `MultiSig`: `buffers[r][s]` are the three lists of a session, `recorded[r][s]` what its native
  session knows. A Buffer is identified by the signer whose value it holds and by the copy
  it arrived in, because `indexOf()` compares references. The native session is a library
  object; whether it refuses a second value for a signer is not decided by this repository
  (a comment in `multi_sig.rs` says that an existing nonce should not be modifiable), so
  `ReAdd` allows "reject", "accept" or both, and each property says which it needs.
- `MultiSigTransfer`: `sessions` maps a session, which is its signers and its message, to the
  signers that took part in each round, the last of them being `sign()`. These are the rounds
  of `SigningRounds`, which `MultiSig` is proved to implement, so deliveries do not appear
  again. The tree of an address is the set of groups that may sign (`Leaves`); a session
  unlocks an address only if *exactly* its signers are such a group. Its signature reaches the
  builder in one of two ways: as `sign()` returns it (`AddBareSignature`: the cache is filled, then
  the addon fails to decode it and throws), or in a witness with a Merkle proof
  (`AddSignature`). The proofs that somebody made outside of the library are the constant
  `Proofs`; with the empty set the model is the library alone. The same signature can be offered
  in both ways, at any input, at any time after.
- `NativeArguments`: one builder of one of three kinds; `inputs`, `outputs`, `viewKeys` are what
  was accepted, `raw` what the addon understood in the last build. A string or Buffer is a
  record of what is checked of it (is it hexadecimal, how long, which prefix).
  `Cast` is the cast of a double to an unsigned type with `as`: of `prevIndex` to a `u16`, of a time
  lock and of `requiredSigners` to a `u64`. A number that does not fit saturates since Rust 1.45
  and gave an undefined one before, so it is a set of outcomes, and so is what the addon
  understands (`Parsed`). Fees are counted in thousandths. The library type `Milli` has a `u64` of
  them; which finer or larger fees its `from_str` takes is left to the constant `MilliTakes`, of
  which only is assumed that it includes the whole thousandths within that width.
- `TxExport`: `nodeEnv` is `NODE_ENV`, which the code reads at each export and a process does
  not change. The answer of the node is an input of `ToHex`.
- `Amounts`: a BigNumber is an integral multiple of a fine quantity; a division rounds half up
  to a multiple of `Quantum`, as bignumber.js does with its default `DECIMAL_PLACES`.
- `DerivationPath`: the text of a step is a sequence of numerals, placeholders and other text.
  A numeral is a number and the power of ten its digits shift what stands before it by, so
  `1{i}0` with 7 is 170 and `{a}{b}` with 12 and 3 is 123, as when the regular expression
  replaces them in the string. Of bip32, which takes the path (`derivePath`), the model has what
  it rejects: a path without steps, a step that is empty or no number, an index over 31 bits with
  the apostrophe or over 32 without. Of an index of 2^31 and more without it, bip32 takes the
  hardened key. A path without the leading `m/`, and names of keys, are not modelled.
- `AddressLeaves`: the loop computes with `u64`, and the addon is built with `--release`
  (`package.json:77`), where a product that does not fit wraps without a word: `FactorRange` is
  2^64, `LeavesRange` the 2^16 of the result.

## 3. The runs

| Run | Question | Bounds |
|---|---|---|
| `transfer` | Do the cache, witnesses and exports of transfer builders stay true, is no signature lost, and do they implement `SignedTxBuilder`? | 2 builders; 3 inputs (single-signer, multi-signer, other network), lists of 2; 2 outputs, lists of 1; 1 view key; a consistent network and one whose name and chain id disagree; every signature over every content within the bounds is on offer |
| `deposit` | Same questions for two caches and unchecked witnesses | 1 builder, 2 addresses, 2 pointers, lists of 2, undecodable bytes |
| `withdraw` | Is what is signed and exported the present content? | 2 builders, 2 nonces (one unparseable), 1 output, lists of 2, 1 view key |
| `withdraw_stale` | *Violated*: are signatures cleared by an edit? | as above |
| `staking` | Does the verifier accept exactly what the owner exports? | 2 accounts, 2 networks, nonces 0 and 1 and the unparseable 2 (for 2^64), every transaction and signature |
| `staking_completed` | *Violated*: can a completed builder export? | as above |
| `multisig` | Do the rounds keep their barriers? | 3 signers, both policies for repetitions; one copy of each value, so only a session's own value is ever repeated to it (the theorems have any copies) |
| `multisig_live` | Do TypeScript's counts agree with the native session, and does every session sign, though every value can arrive in two Buffers? | 2 signers, 2 copies of each value, repetitions rejected |
| `multisig_transfer` | Is a multi-signature input unlocked only by enough owners over the present content, and is the transfer completed although older sessions deliver late and bare signatures are tried? | 1 builder, a single-owner input, one of a 2-of-3 address with a proof for one of its groups, and one of an address without any proof; 2 sessions at once of 2 or 3 signers, 3 public keys, bad constructor arguments |
| `arguments` | Do validators and parsers agree, and does the export leave in the right form and eventually? | all three kinds of builder; per argument a good value and one that fails each check of each half; lists of 1; native ranges scaled down, each met and exceeded; nodes live, dead and malformed; three environments |
| `arguments_inputs` | *Violated*: are the inputs of a transfer built as given? | as above |
| `conversions` | Do the pure functions agree with their reference definitions? | amounts around 0, one coin, and the supply in either unit; 13 format paths with up to 3 arguments, with placeholders beside digits, two in a step, leading zeros, letters, empty steps and too large numbers, 2^31 scaled to 100; up to 8 signers; the loop's 2^64 scaled to 64, the result's 2^16 to 16, so that both are exceeded |

Why the bounds are enough. The builders treat inputs alike, so two inputs show every
interference between slots (a witness at the wrong one, one signed and one not); a second
builder is needed only as source or target of `clone()`; an edit after signing, after a
failing call and after a clone all occur within lists of two. Three signers are the least
with which a repetition from one co-signer could stand in for a missing other. That it
does not is left to the proofs: three signers with two copies of each value are too many
states, so `multisig` has one copy and `multisig_live`, with two, has two signers, whose lists
of different rounds and sessions do not interact. `CommitFirst`, `CommitmentsHeld`, `SignedByAll` and
`Refinement` hold for any number of signers and copies.
Two sessions are the least with which one can be over an older content than the other, and
three keys the least with which a group of enough owners can be the wrong group. Arguments
are validated and parsed one by one, so lists of one show every disagreement. A binomial
coefficient of eight signers needs the gcd steps and exceeds the scaled `u16` and `u64`.
`SYMMETRY` is used in `multisig`, whose specification and properties do not name a signer.
For everything but the liveness properties the proofs remove the bounds.

Deadlock is checked where the system can always go on (a builder can always be
constructed anew, or a transaction be built again). Sessions end when all have signed
(`multisig`, `multisig_live`), `multisig_transfer` has no constructor calls and
bounded lists, and a call in `conversions` is made once: there it is switched off.

What the violations show:

- `withdraw_stale`: `addViewKey()` says "All previous signatures will be cleared when new output
  is added to builder"; `clearPreparedRawTx()`, called by it and by `addOutput()`, keeps the
  witness. The shortest run is add an output, sign, add a view key: the builder is still
  completed and exports the new transaction with the old signature.
- `staking_completed`: after `sign(KeyPair.fromPublicKey(...))`, `isCompleted()` is true and
  `toHex()` throws.
- `arguments_inputs`: `owInput` takes any `prevIndex` that is a natural number, and the addon casts it
  to a `u16` (`builder_options.rs:152`): an index over 65535 spends another output. And the addon
  reads the number of an address's signers from `requiredSigners` (`builder_options.rs:185`),
  where its own error message names `totalSigners`. The shortest run shows one of the two; each
  conjunct fails without the other. (`requiredSigners` is cast to a `u64` too, so that a total can
  be wrong even if all are required: `InputsExactlyCorrect` has the exact extent.)

What the model says and no run reports, because nothing in the repository claims otherwise:

- If the library under the native session *accepts* a repeated value, `CountsMatch` and
  `AllSessionsSign` fail. The list then has one element too many, `===` never holds again, and
  the session is stuck. The safety properties hold either way.
- A session signs with the combined key of *all* its signers. An address that requires fewer
  is unlocked only by a session of a group of exactly that size, so the signers have to
  create another `MultiSigBuilder` among those who are going to sign. A session has at
  least two signers, hence an address that asks for one signature of several owners is
  unlocked by no session.
- The message of `owTendermintAddress` speaks of HTTP; only `ws` addresses pass, and only those
  work.
- The signature a session returns is refused by `addWitness()`, which has prepared the
  transaction by then; see section 1. `EventuallyCompleted` and `SignersNeverStuck` therefore speak
  of inputs of several owners only where there is a proof from outside.
- In a format path with two placeholders in one step, different arguments can name the same
  key: `m/{a}{b}` with 1, 23 and with 12, 3. `KeysAreDistinct` excludes such paths and no others.
- A time lock of 2^64 seconds or more, and a `requiredSigners` of that size, pass the validators
  and are changed by a cast. A fee that a `Milli` cannot hold passes them as well, and no transfer
  can be built with it.
- An amount with a fraction finer than the last digit a division keeps is rounded before
  `verifyCRO()` looks for fractions: `toCRO` takes it, changed by less than that digit
  (`AmountIsKept` states the bound).
- From 68 signers on, when about half of them are required or more, a product in
  `transfer_address_leaves` exceeds a `u64` and wraps; the leaves, and the fee estimated from
  them, are then wrong. `LeavesAreChoices` has this as its hypothesis, and `LeavesExact` proves that
  it is met up to 64 signers.
- The feature `MockAbci` is never asked for by TypeScript. `native/src/staking_transaction/tx_aux.rs`
  is included by no `mod` statement. The number of outputs is cast to `u16`, below the limit
  of 65536 by one, only in the mock cipher.

### Fairness

The library never acts by itself; fairness is an assumption about its callers, and kept
to what an application does that wants a signature.

- `multisig_transfer`: the signers of an open session go on with it, and for each input, if some
  signing call that would succeed stays possible, one is made (weak fairness), for an input of
  several owners by somebody who has the proof. Nothing is assumed of edits, of which there are
  finitely many within the bounds, nor of the opening of sessions; bare signatures, and those at
  wrong inputs and of older contents, may come for ever.
- `multisig_live`: each application calls the next method of its own session when it can, and
  delivers each value to each session until it has been taken (weak fairness per sender and
  receiver). Order and repetition are free.
- `arguments`: a caller who has given the arguments has the transaction built and calls
  `toHex()` with a live node's address again and again; such a call does not fail for ever
  (weak fairness of the call that succeeds). This is a retry loop in the application: the
  library has none.

## 4. The proofs

All theorems are about the specifications TLC checks, for every value of the constants
that satisfies the named assumptions. The assumptions say what types the constants have,
and that `None` (and `Refused`, `Panic`) differ from the values they stand beside. TLC
evaluates every one of them in the runs.

`TransferBuilderProofs` (any number of builders, lists of any length; `ConstantsAssumption`,
`OfferedAssumption`):

- `CacheIsCurrent` is not inductive: it says nothing of the witnesses, nor of where a cache
  that is copied by `clone()` came from. The invariant `IInv` adds that the cache is
  *well signed* (one slot per input, each witness unlocks its input for the cache's own
  content), that its addresses are on its chain's network, and that the addresses in the
  fields are on the network the builder has by name.
- Lemmas about the operators: building a transaction makes it well signed
  (`UnsignedIsWellSigned`), storing a witness that unlocks keeps it so
  (`WithWitnessIsWellSigned`), hence preparing does (`PreparedIsWellSigned`).
- Two lemmas do the steps: `ClearKeepsIInv` for whatever drops the cache, `StoreKeepsIInv` for
  whatever puts a well-signed transaction into it. `NextIInv` has a step per method.
- Theorems: `TypeCorrect`, `CacheCorrect`, `WitnessesCorrect`, `ExportCorrect`, `NetworkCorrect`.

- The refinement rests on that invariant (and `NoneAssumption`). What the promise sees of a builder
  is `toIncompleteHex()`, the cache or what it would be filled with. Filling the cache is then a
  stuttering step (`StorePrepared`), dropping it an edit that empties all slots (`ClearIsEdit`),
  storing a witness the filling of one slot (`StoreWitness`). Theorems: `Refinement`, that the
  builder implements `SignedTxBuilder`, and `SignaturesKept`, the action property that no failing
  call costs a signature. From the latter and the invariant: a builder whose `toHex()` would succeed
  stays so until it is edited (`ReadyUntilEdited`).
- `ParseableExactly`: the addon can build a transaction exactly when it has no address or the chain id
  is that of the named network. `Parseable`, the model's short form of the addon's parsers, so
  agrees with what `RefusalsExactlyCorrect` (below) proves of them in detail.
- The lemmas about `addWitness()` (`AddWitnessKeepsIInv`, `AddWitnessRefines`, `AddWitnessKept`) are for
  *any* witness and not only for those on offer, so that the composition can use them.

`DepositBuilderProofs` (`DepositAssumption`) has the same shape with two caches: the invariant ties
the raw transaction to the fields and each slot that `signInput()` filled to the raw
transaction. Theorems: `TypeCorrect`, `RawTxCorrect`, `SlotsCorrect`, `ExportCorrect`,
`Refinement`, and `FilledSlotsKept`. `ExportCorrect` says that the export is the present content and the
present witnesses of a builder, all decodable, and those of `signInput()` over exactly that content;
`SlotsCorrect` says the latter of the slots at any time. `FilledSlotsKept`: only `addInput()` or a new object empties a filled slot. More cannot
be said here: `addWitness()` stores any bytes, so a completed builder stays completed, but not
necessarily exportable.

`WithdrawBuilderProofs` (`WithdrawAssumption`): beside the properties, the invariant says that what is
cached has an output and a parseable nonce (`PreparedInv`), without which
`toSignedPlainHex()`, which does not prepare, could not be shown to export one. Theorems:
`TypeCorrect`, `RawTxCorrect`, `SignCorrect`, `ExportCorrect`. `StaleExtent` proves how far the claim that
`withdraw_stale` refutes is from the truth: what a witness was stored for is the beginning of the
builder's present transaction, with the same nonce (`WitnessInv`), so an exported signature of `sign()`
is wrong exactly when outputs or view keys were added after it.

`StakingOpBuilderProofs` (`ConstantsAssumption`): an object exists only after the addon has built its
transaction (`RawTxInv`), so the encoding is that of its class and options. Theorems: `TypeCorrect`,
`ExportCorrect`, `VerifierCorrect`.

`MultiSigProofs` (any finite set of at least two signers, any copies; `MultiSigAssumption`):

- `IInv` adds two facts to the type invariant: what a session has recorded was sent by its
  signer (`RecordedWasSent`), and a session that has produced its value of a round had all
  values of the round before (`RecordIsComplete`). `CompleteMeansAllSent` turns a session's
  local knowledge into a fact about all signers, and is the heart of the refinement.
- Theorems: `TypeCorrect`, `CommitFirst`, `CommitmentsHeld`, `SignedByAll`, and `Refinement`, that
  the sessions implement `SigningRounds`; for either policy of the native session.
- `CountsCorrect` has the hypothesis that a repetition is not accepted. A delivery then adds
  one to both counts (`AddCounts`), which needs that a session which has sent its own value
  has recorded it, so that its own value is never delivered to it.
- Everyone waiting on everyone: `NeverStuck` proves, under the same hypothesis, that as long as a
  signature is missing some session can produce a value, be given one it lacks, or sign (`CanGoOn`
  spells out the guards of those calls). `NothingTakenBack` proves that no step undoes any of this.
  Since there are finitely many values, only the fairness of the callers is left of
  `AllSessionsSign`. Without the hypothesis `NeverStuck` is false, and `OverfullStays` proves why: a
  list with one element too many never has the right length again.

`MultiSigTransferProofs` (`MultiSigTransferAssumption` beside those of the transfer: among others,
different multi-signature builders have different addresses, which no single key pair has):
a session's rounds are complete before its final signature exists (`SessionInv`), a complete
round stays so (`SessionsGrow`), a bare signature is to the builder a witness that unlocks nothing
(`BareSignatureIsRefused`), hence every witness held for a multi-signature address is the
work of enough of its owners (`WitnessInv`); that it is over the present content is the invariant
of `TransferBuilderProofs`, which the composition keeps. Theorem: `ThresholdCorrect`. Then the two
halves are shown to be what they are without each other:

- A step of the composition is a step of the builder, leaves the builder alone, or offers it a
  session's signature, which is a witness like any other (`ComposedStep`). Hence what was proved of
  the builder holds among the sessions: `ComposedSafety`, `ComposedRefinement`, `ComposedSignaturesKept`,
  `ComposedReadyUntilEdited`.
- `SessionsAreRounds`: each session goes through `SigningRounds`; `RoundsAreSessions`: every step of
  `SigningRounds` in an open session is one of the composition. Since `MultiSig` implements
  `SigningRounds`, nothing that session objects can do is left out by using the rounds instead.
- `SignersNeverStuck`: a transaction whose inputs all have owners who can unlock them is completed, or
  one of these owners can fill an empty slot or go on with a session over it; several owners can
  unlock an input only with a proof that is among `Proofs`. An input without a
  witness exists (`EmptySlot`); a session is finished or somebody in it is not waiting
  (`SessionGoesOn`). Of `EventuallyCompleted` this leaves the fairness.

`TxExportProofs` (`ArgumentsAssumption`, `RefusedAssumption`, `ExportAssumption`; any arguments, any
widths): what a builder holds passed its validators (`AcceptedInv`), and what the addon
understood it understood from exactly that (`BuiltInv`). Theorems: `TypeCorrect`, `AcceptedCorrect`,
`TablesAgree`, `OutputsCorrect`, `DepositCorrect`, `PlainCorrect`, `NeverPanics`. `InputsExactlyCorrect` is what
is left of the property that `arguments_inputs` refutes: the previous id of a transfer's input is always as
given, the index unless it exceeds `TxoSize`, the required signers unless they exceed a `u64`, and the
total of signers only if all of them are required and a `u64` can hold them. So there are the two
faults of the finding and the cast of `requiredSigners`, and no other. `OutputsCorrect` does the same for
outputs, whose time lock is as given exactly if a `u64` can hold it.
`RefusalsExactlyCorrect` completes `AcceptedCorrect`: it proves which arguments the addon refuses although
every validator accepted them, and that there are no others (a chain id that is not one byte, one of
another network once there is an address, a fee of a transfer that `Milli::from_str` does not take, the
nonce 2^64). The casts have several outcomes, so `raw` is an element of a set of lists; `EachIsList`,
`CastKeeps` and the lemmas that follow them say what all those lists have in common.
`NodeAloneRefuses` proves that a built transaction's `toHex()` fails exactly when a node is needed and
does not answer with the encrypted transaction.

`ConversionsProofs` (`AmountsAssumption`, `PathAssumption`, `RangeAssumption`, `ConversionsAssumption`; any
quantum, unit and supply, any format paths and arguments, any number of signers):

- The functions are loops over their data. The library's induction theorems take an operator
  as a parameter, which the provers cannot instantiate, so `NumberInduction` states induction
  for a *set* of numbers, from the well-foundedness of `<` alone; each loop is then shown, round by
  round, to come to a closed form.
- Amounts: a division by `CRO_DECIMAL` is off by at most half of its last digit, and exact for a whole
  number of basic units (`DividedBy`). What a conversion returns is such an amount
  and can be converted on: `Kept` is the inductive part. Theorems: `AmountKept`, `GoodAmountTaken`.
- Keys: the number a step stands for is a loop over its text (`JoinedLoop`), which grows with the
  numeral at any one place while the others stay (`JoinedGrows`), since a greater argument has no
  fewer digits (`ScaleGrows`). Placeholders are ranked one to one with the arguments (`RanksDiffer`,
  `RankOnto`). So if two lists differ, the step of the first difference has different numbers
  (`SmallerArgument`), provided that it has no second placeholder, and the lists give different keys
  (`KeyIsInjective`). `PlainGivesKey` is that nothing is rejected of a plain path. Theorem:
  `KeysDistinct`.
- Leaves: with `result` the number of choices of `d - 1` signers, the product of the round is `d` times
  that of `d` (`CountNext`, from Pascal's rule for the cardinalities of the sets themselves), and
  since `d / gcd` has no factor in common with `result / gcd` it divides `n` (`FactorIsExact`). Theorems:
  `LeavesRight`, as long as no product wraps, and `LeavesExact` for up to 64 signers
  (`2^MaxSigners <= FactorRange`), where the numbers of choices fit.

Only model-checked: the liveness properties `AllSessionsSign`, `EventuallyCompleted` and
`EventuallyExported`; fairness and ENABLED are out of the prover's reach. What each needs beside
fairness is proved (`NeverStuck` and `NothingTakenBack`, `SignersNeverStuck`, `NodeAloneRefuses`). Every
other property of a passing run has a theorem.

## 5. Not modelled

- The chain, the enclave and the Tendermint node behind an export: their answer is an input.
- Cryptography, address encoding, SCALE encoding: injective by assumption, unforgeable. The
  derivation of mnemonics and keys (bip39, bip32): libraries; only the paths are modelled.
- Aliasing: a caller that writes to an object or Buffer it shares with a builder.
  `toIncompleteHex()` returns the cached Buffer itself and `addInput()` keeps the caller's
  object. Nothing in the repository says whether a caller may write to them, so there is no
  property to check, and every builder property would have to be stated with "unless".
- Fee estimates are a library's; the transfer model has a constant minimum fee.
- Node metadata and the simplified staked state only shape JSON.
  The native functions that register modules and map errors are glue.
- `integration-tests` and `docs`: not the library.

## 6. Plan

Done, in this order: `TransferBuilder` and its promise with their proofs; `DepositBuilder`;
`WithdrawBuilder`; `MultiSig`, `SigningRounds` and their proofs; `StakingOpBuilder`;
`NativeArguments` and `TxExport`; `MultiSigTransfer`; the pure algorithms; the proofs of the
two refinements of `SignedTxBuilder`, of the invariants of all builders, of the counts of a
session, of the composition, of the arguments, and of the pure algorithms by induction over
their loops; the transfer's guarantees and refinement among its sessions; the exact extents of
two findings; that signers never all wait for one another; the exact list of what the addon
refuses; that a transaction once ready stays ready.

What could come next:

1. Several messages per `MultiSig` instance with deliveries to the wrong session, in place of the
   rounds in `MultiSigTransfer`; today the composition uses the rounds, which the sessions of
   one message implement and which allow nothing that the composition leaves out.
2. `Aliasing`, once the library says who owns the objects it is given.
