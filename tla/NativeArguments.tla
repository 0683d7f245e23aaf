-------------------------- MODULE NativeArguments --------------------------
(***************************************************************************)
(* How the arguments of a builder get into the native addon.  A TypeScript *)
(* validator accepts or refuses each one when it is given; the builder     *)
(* keeps what was accepted; much later one call hands everything to the    *)
(* addon, which parses it again, with checks and number types of its own.  *)
(* The two halves are written in two languages and have to agree.          *)
(*                                                                         *)
(* A string or Buffer is a record of what the validators look at.  The     *)
(* widths of the native integers are constants, scaled down for TLC.       *)
(***************************************************************************)
EXTENDS Integers, Sequences

CONSTANTS
    Literal,        \* NetworkConfig objects a caller writes down
    DevnetOptions,  \* arguments of Devnet()
    GivenInput,     \* inputs callers pass, malformed ones included
    GivenOutput,    \* outputs callers pass
    GivenNonce,     \* nonces callers pass
    GivenViewKey,   \* Buffers callers pass as view keys
    PublicKey,      \* those of them that PublicKey::from_str takes
    MaxCoin,        \* 10^19
    TxoSizeRange,   \* 2^16, the number of values of TxoSize
    U64Range,       \* 2^64, the number of values of a u64
    MilliRange,     \* 2^64 again, of thousandths: what a Milli can hold
    MilliTakes,     \* fees that Milli::from_str takes
    MaxItems,       \* bound on the length of the lists
    Fraction,       \* a number that is no integer
    Infinite,       \* the BigNumber Infinity
    Refused,        \* an exception thrown by the addon
    None            \* undefined

Net == {"Mainnet", "Testnet", "Devnet"}

\* An output has these three fields; a Timespec holds a positive integer
IsOutput(o) ==
    /\ o = [address |-> o.address, value |-> o.value, validFrom |-> o.validFrom]
    /\ o.validFrom \in (Nat \ {0}) \cup {None}

IsNumber(x) == x = Fraction \/ x \in Int

\* A fee is counted in thousandths.  Nothing is assumed of Milli::from_str on
\* finer fees, nor on those beyond its width.
ASSUME ArgumentsAssumption ==
    /\ MaxCoin \in Nat /\ TxoSizeRange \in Nat \ {0}
    /\ U64Range \in Nat \ {0} /\ MilliRange \in Nat
    /\ MaxItems \in Nat
    /\ {Fraction, Infinite, None} \cap Int = {} /\ None \notin GivenNonce
    /\ 0..MilliRange - 1 \subseteq MilliTakes
    /\ \A n \in Literal \cup DevnetOptions : n.chainHexId \in Seq(Nat)
    /\ \A n \in GivenNonce : IsNumber(n)
    /\ \A o \in GivenOutput : IsOutput(o)
    /\ \A i \in GivenInput :
          /\ IsNumber(i.prevIndex) /\ IsOutput(i.prevOutput)
          /\ IsNumber(i.addressParams.requiredSigners)
          /\ IsNumber(i.addressParams.totalSigners)

Given == GivenOutput \cup {i.prevOutput : i \in GivenInput}

TxOut == [address   : {o.address : o \in Given},
          value     : {o.value : o \in Given},
          validFrom : (0..U64Range - 1) \cup {None}]

\* What the addon builds a transaction from
RawTx == [network  : Net,
          pointers : Seq({i.prevTxId.bytes : i \in GivenInput} \X (0..TxoSizeRange - 1)),
          spent    : Seq(TxOut),
          signers  : Seq([required : 0..U64Range - 1, total : 0..U64Range - 1]),
          outputs  : Seq(TxOut)]

ASSUME RefusedAssumption ==
    Refused # None /\ None \notin RawTx /\ Refused \notin RawTx

VARIABLES
    kind,      \* "transfer", "deposit" or "withdraw": the class of the builder
    network,   \* the network of the builder
    nonce,     \* of a withdraw builder, else None
    inputs,    \* what the builder accepted, as it was given
    outputs,
    viewKeys,
    raw        \* what the addon understood, Refused, or None before the call

vars == <<kind, network, nonce, inputs, outputs, viewKeys, raw>>

-----------------------------------------------------------------------------
(* Numbers *)

IsWithin(x, low, high) == x \notin {Fraction, Infinite} /\ low <= x /\ x <= high

\* Mutant: an amount only has to be positive
owCoinUnbounded(value) == value \notin {Fraction, Infinite} /\ value >= 0

owCoin(value) == IsWithin(value, 0, MaxCoin)

\* Coin::from_str, on the digits of an integer
Coin(value) == value <= MaxCoin

owAccountNonce(n) == IsWithin(n, 0, U64Range)

\* nonce.parse() to a u64
parse_account_nonce(n) == n < U64Range

\* What a double can become that is cast with "as" to an unsigned type of so
\* many values.  Rust saturates since 1.45; before, a number that does not fit
\* gave an undefined one.
Cast(x, range) == IF x < range THEN {x} ELSE 0..range - 1

-----------------------------------------------------------------------------
(* Addresses, transaction ids, networks, fees *)

HrpOf == [Mainnet |-> "cro", Testnet |-> "tcro", Devnet |-> "dcro"]

\* is_transfer_address_valid, and from_cro in parse_output
InNetwork(address, net) == address.checksum /\ address.hrp = HrpOf[net]

owTransferAddress(address) ==
    \E net \in Net : address.hrp = HrpOf[net] /\ InNetwork(address, net)

owTxId(txId) == txId.hex /\ txId.length = 64

\* hex::decode, then the length in bytes
txid_from_str(txId) == txId.hex /\ txId.length % 2 = 0 /\ txId.length \div 2 = 32

\* owLinearFeeMilli accepts every BigNumber that is not negative
owFeeConfig(fee) ==
    /\ fee.algorithm = "LinearFee"
    /\ \A m \in {fee.constant, fee.coefficient} : m \in {Fraction, Infinite} \/ m >= 0

\* Milli::from_str, on the decimal digits of a fee
parse_linear_fee_config(fee) ==
    fee.algorithm = "LinearFee" /\ {fee.constant, fee.coefficient} \subseteq MilliTakes

\* Two hexadecimal digits, as a string or as the hex form of a Buffer
owChainHexId(id) == Len(id) = 1

DefaultFee == [algorithm |-> "LinearFee", constant |-> 1100, coefficient |-> 1250]

Mainnet == [name |-> "Mainnet", chainHexId |-> <<42>>, feeConfig |-> DefaultFee]

Testnet == [name |-> "Testnet", chainHexId |-> <<66>>, feeConfig |-> DefaultFee]

\* The networks that Devnet(options) returns
Devnet ==
    {[name |-> "Devnet", chainHexId |-> o.chainHexId, feeConfig |-> o.feeConfig] :
        o \in {o \in DevnetOptions : owChainHexId(o.chainHexId) /\ owFeeConfig(o.feeConfig)}}

\* The length of chainHexId is not checked
owNetworkConfig(n) == n.name \in Net /\ owFeeConfig(n.feeConfig)

Network == {Mainnet, Testnet} \cup Devnet \cup {n \in Literal : owNetworkConfig(n)}

\* fromChainId() compares the hexadecimal form of the whole Buffer
fromChainId(id) ==
    CASE id = <<42>> -> "Mainnet"
      [] id = <<66>> -> "Testnet"
      [] OTHER -> "Devnet"

\* Mutant: the Testnet is not known
NoTestnet(byte) == IF byte = 42 THEN "Mainnet" ELSE "Devnet"

network_from_chain_hex_id(byte) ==
    IF byte = 42 THEN "Mainnet" ELSE IF byte = 66 THEN "Testnet" ELSE "Devnet"

chain_hex_id_from_vec(id) == Len(id) = 1

\* isValidViewKey: the key parses
owViewKey(key) == key \in PublicKey

parse_view_key(key) == key \in PublicKey

-----------------------------------------------------------------------------
(* Inputs and outputs *)

owOutput(o) == owTransferAddress(o.address) /\ owCoin(o.value)

\* validFrom is a Timespec that must be there
owWithdrawUnbondedOutput(o) == owOutput(o) /\ o.validFrom # None

owInputAddressParams(p) ==
    /\ Fraction \notin {p.requiredSigners, p.totalSigners}
    /\ p.requiredSigners > 0
    /\ p.totalSigners >= p.requiredSigners

\* prevIndex is any integer
owInput(i) ==
    /\ owTxId(i.prevTxId)
    /\ i.prevIndex # Fraction /\ i.prevIndex >= 0
    /\ owOutput(i.prevOutput)
    /\ owInputAddressParams(i.addressParams)

\* Mutant: as in owInput
AnyIndex(i) == owTxId(i.prevTxId) /\ i.prevIndex # Fraction /\ i.prevIndex >= 0

owPrevOutputPointer(i) ==
    owTxId(i.prevTxId) /\ IsWithin(i.prevIndex, 0, TxoSizeRange - 1)

\* Mutant: an output without a time lock gets one
ZeroLock(o) ==
    [address : {o.address}, value : {o.value},
     validFrom : IF o.validFrom = None THEN {0} ELSE Cast(o.validFrom, U64Range)]

\* The outputs parse_output can make of what parseOutputForNative() returns: the
\* property validFrom is set only when there is one, and read only when the
\* object has it
ParsedOutput(o) ==
    [address : {o.address}, value : {o.value},
     validFrom : IF o.validFrom = None THEN {None} ELSE Cast(o.validFrom, U64Range)]

parse_output(o, net) == InNetwork(o.address, net) /\ Coin(o.value)

\* Both numbers are read from requiredSigners
parse_address_params(p) ==
    [required : Cast(p.requiredSigners, U64Range), total : Cast(p.requiredSigners, U64Range)]

-----------------------------------------------------------------------------
(* The builder *)

\* The constructor, with or without a network (Mainnet then)
Start(k, net, n) ==
    /\ kind = k /\ network = net /\ nonce = n
    /\ inputs = <<>> /\ outputs = <<>> /\ viewKeys = <<>>
    /\ raw = None

Init ==
    \E net \in Network :
        \/ Start("transfer", net, None)
        \/ Start("deposit", net, None)
        \/ \E n \in {n \in GivenNonce : owAccountNonce(n)} : Start("withdraw", net, n)

AddInput(i) ==
    /\ Len(inputs) < MaxItems
    /\ \/ kind = "transfer" /\ owInput(i) /\ InNetwork(i.prevOutput.address, network.name)
       \/ kind = "deposit" /\ owPrevOutputPointer(i)
    /\ inputs' = Append(inputs, i)
    /\ raw' = None
    /\ UNCHANGED <<kind, network, nonce, outputs, viewKeys>>

AddOutput(o) ==
    /\ Len(outputs) < MaxItems
    /\ \/ kind = "transfer" /\ owOutput(o)
       \/ kind = "withdraw" /\ owWithdrawUnbondedOutput(o)
    /\ InNetwork(o.address, network.name)
    /\ outputs' = Append(outputs, o)
    /\ raw' = None
    /\ UNCHANGED <<kind, network, nonce, inputs, viewKeys>>

\* Mutant: the key is kept in its native form
AddViewKeyParsed(v) ==
    /\ kind # "deposit"
    /\ Len(viewKeys) < MaxItems
    /\ owViewKey(v)
    /\ viewKeys' = Append(viewKeys, <<v>>)
    /\ raw' = None
    /\ UNCHANGED <<kind, network, nonce, inputs, outputs>>

AddViewKey(v) ==
    /\ kind # "deposit"
    /\ Len(viewKeys) < MaxItems
    /\ owViewKey(v)
    /\ viewKeys' = Append(viewKeys, v)
    /\ raw' = None
    /\ UNCHANGED <<kind, network, nonce, inputs, outputs>>

ChainNetwork == network_from_chain_hex_id(network.chainHexId[1])

\* Every step of the parse, in the order of the addon; the first to fail throws
NativeTakes ==
    /\ chain_hex_id_from_vec(network.chainHexId)
    /\ \A k \in DOMAIN inputs :
          /\ txid_from_str(inputs[k].prevTxId)
          /\ kind = "transfer" => parse_output(inputs[k].prevOutput, ChainNetwork)
    /\ \A k \in DOMAIN outputs : parse_output(outputs[k], ChainNetwork)
    /\ \A k \in DOMAIN viewKeys : parse_view_key(viewKeys[k])
    /\ kind = "withdraw" => parse_account_nonce(nonce)
    /\ kind = "transfer" => parse_linear_fee_config(network.feeConfig)

\* The lists of one choice each
Each(choices) ==
    {list \in [DOMAIN choices -> UNION {choices[k] : k \in DOMAIN choices}] :
        \A k \in DOMAIN choices : list[k] \in choices[k]}

\* What the addon can understand: the casts may come out in several ways
Parsed ==
    [network  : {ChainNetwork},
     pointers : Each([k \in DOMAIN inputs |->
                    {inputs[k].prevTxId.bytes} \X Cast(inputs[k].prevIndex, TxoSizeRange)]),
     spent    : IF kind = "transfer"
                THEN Each([k \in DOMAIN inputs |-> ParsedOutput(inputs[k].prevOutput)])
                ELSE {<<>>},
     signers  : IF kind = "transfer"
                THEN Each([k \in DOMAIN inputs |->
                         parse_address_params(inputs[k].addressParams)])
                ELSE {<<>>},
     outputs  : Each([k \in DOMAIN outputs |-> ParsedOutput(outputs[k])])]

\* buildIncompleteHex() or prepareRawTx()
Build ==
    /\ \/ NativeTakes /\ raw' \in Parsed
       \/ ~NativeTakes /\ raw' = Refused
    /\ UNCHANGED <<kind, network, nonce, inputs, outputs, viewKeys>>

Next ==
    \/ \E i \in GivenInput : AddInput(i)
    \/ \E o \in GivenOutput : AddOutput(o)
    \/ \E v \in GivenViewKey : AddViewKey(v)
    \/ Build

Spec == Init /\ [][Next]_vars

IsBuilt == raw \notin {None, Refused}

-----------------------------------------------------------------------------
(* Properties *)

TypeOK ==
    /\ kind \in {"transfer", "deposit", "withdraw"}
    /\ network \in Network
    /\ nonce \in GivenNonce \cup {None}
    /\ inputs \in Seq(GivenInput)
    /\ outputs \in Seq(GivenOutput)
    /\ viewKeys \in Seq(GivenViewKey)
    /\ raw \in RawTx \cup {None, Refused}

\* A program that takes its network from the library, without giving a Devnet
\* another network's chain id, whose fees are whole thousandths within the width
\* of a Milli and whose nonce is one the native type has, is never refused
\* natively: each argument was refused when it was given, or will be taken.
AcceptedIsParseable ==
    /\ network \in {Mainnet, Testnet} \cup {d \in Devnet : d.chainHexId \notin {<<42>>, <<66>>}}
    /\ {network.feeConfig.constant, network.feeConfig.coefficient} \subseteq 0..MilliRange - 1
    /\ nonce # U64Range
    => raw # Refused

\* The two tables of chain ids, fromChainId() and network_from_chain_hex_id(),
\* name the same network for every configuration the addon takes.
ChainIdTablesAgree ==
    IsBuilt => raw.network = fromChainId(network.chainHexId)

\* A native output is the one given: the address and the amount are, there is a
\* time lock exactly if there was one, and it is the same exactly if a u64 has it
IsAsGiven(out, o) ==
    /\ out.address = o.address /\ out.value = o.value
    /\ out.validFrom = None <=> o.validFrom = None
    /\ o.validFrom # None => (out.validFrom = o.validFrom <=> o.validFrom < U64Range)

\* Whatever the addon takes, each output it creates and each output it believes
\* to spend is the one it was given, except for a time lock of 2^64 seconds or
\* more, and is on the network the builder has by name.
OutputsAsGiven ==
    IsBuilt =>
        /\ Len(raw.outputs) = Len(outputs)
        /\ \A k \in DOMAIN outputs :
              /\ IsAsGiven(raw.outputs[k], outputs[k])
              /\ outputs[k].address.hrp = HrpOf[network.name]
        /\ kind = "transfer" =>
              /\ Len(raw.spent) = Len(inputs)
              /\ \A k \in DOMAIN inputs : IsAsGiven(raw.spent[k], inputs[k].prevOutput)

\* A deposit spends exactly the outputs it was given: owPrevOutputPointer
\* admits no index that the cast to TxoSize would change.
DepositSpendsAsGiven ==
    kind = "deposit" /\ IsBuilt =>
        \A k \in DOMAIN inputs :
            raw.pointers[k] = <<inputs[k].prevTxId.bytes, inputs[k].prevIndex>>

\* The addon knows the inputs of a transfer as they were given: the "previous
\* transaction output index", and how many signers each has.  It does not.
\* owInput admits indexes the cast changes, and the total number of signers is
\* read from the field of the required ones.
TransferInputsAsGiven ==
    kind = "transfer" /\ IsBuilt =>
        \A k \in DOMAIN inputs :
            /\ raw.pointers[k] = <<inputs[k].prevTxId.bytes, inputs[k].prevIndex>>
            /\ raw.signers[k].total = inputs[k].addressParams.totalSigners
=============================================================================
