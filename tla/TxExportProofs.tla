--------------------------- MODULE TxExportProofs ---------------------------
(***************************************************************************)
(* Proofs about NativeArguments and TxExport for every set of arguments    *)
(* callers may pass and every width of the native integers.                *)
(*                                                                         *)
(* The argument: what a builder holds has passed its validators            *)
(* (AcceptedInv), and what the addon understood it understood from exactly *)
(* that (BuiltInv).  Each property then compares a validator with the       *)
(* parser of the same argument.                                            *)
(***************************************************************************)
EXTENDS TxExport, SequenceTheorems, TLAPS

\* What the calls that gave the builder its arguments have checked
AcceptedInv ==
    /\ \A k \in DOMAIN inputs :
          /\ kind = "transfer" => /\ owInput(inputs[k])
                                  /\ InNetwork(inputs[k].prevOutput.address, network.name)
          /\ kind = "deposit" => owPrevOutputPointer(inputs[k])
          /\ kind # "withdraw"
    /\ \A k \in DOMAIN outputs :
          owOutput(outputs[k]) /\ InNetwork(outputs[k].address, network.name)
    /\ \A k \in DOMAIN viewKeys : owViewKey(viewKeys[k])
    /\ kind = "withdraw" => nonce \in GivenNonce /\ owAccountNonce(nonce)

\* What the addon understood it understood from the present arguments
BuiltInv ==
    /\ IsBuilt => NativeTakes /\ raw \in Parsed
    /\ raw = Refused => ~NativeTakes

ArgumentsInv == TypeOK /\ AcceptedInv /\ BuiltInv

\* What toHex() has come to
ExportedInv == PlainOnlyInTests /\ NoPanic

IInv == ArgumentsInv /\ ExportedInv

-----------------------------------------------------------------------------
(* The operators *)

\* Every network a builder can have is known by name and has a linear fee.
LEMMA NetworkType ==
    ASSUME NEW n \in Network
    PROVE  /\ n.name \in Net
           /\ n.chainHexId \in Seq(Nat)
           /\ n.feeConfig.algorithm = "LinearFee"
<1>1. CASE n \in {Mainnet, Testnet}
  <2>1. <<42>> = [k \in 1..1 |-> 42] /\ <<66>> = [k \in 1..1 |-> 66]
    OBVIOUS
  <2>2. <<42>> \in Seq(Nat) /\ <<66>> \in Seq(Nat)
    BY <2>1, IsASeq
  <2>3. n.chainHexId \in {<<42>>, <<66>>}
    BY <1>1 DEF Mainnet, Testnet
  <2>4. n.name \in Net /\ n.feeConfig.algorithm = "LinearFee"
    BY <1>1 DEF Mainnet, Testnet, DefaultFee, Net
  <2> QED
    BY <2>2, <2>3, <2>4
<1>2. CASE n \in Devnet
  BY <1>2, ArgumentsAssumption DEF Devnet, Net, owFeeConfig
<1>3. CASE n \in Literal /\ owNetworkConfig(n)
  BY <1>3, ArgumentsAssumption DEF owNetworkConfig, owFeeConfig
<1> QED
  BY <1>1, <1>2, <1>3 DEF Network

\* A cast gives a value of the native type, the given one exactly if it fits.
LEMMA CastKeeps ==
    ASSUME NEW range \in Nat \ {0}, NEW x \in Nat, NEW y \in Cast(x, range)
    PROVE  y \in 0..range - 1 /\ (y = x <=> x < range)
BY DEF Cast

\* One choice each makes a list of the same length.
LEMMA EachIsList ==
    ASSUME NEW S, NEW n \in Nat, NEW choices,
           DOMAIN choices = 1..n, \A k \in 1..n : choices[k] \subseteq S,
           NEW list \in Each(choices)
    PROVE  /\ list \in Seq(S) /\ Len(list) = n
           /\ \A k \in 1..n : list[k] \in choices[k]
<1>1. list \in [1..n -> UNION {choices[k] : k \in 1..n}] /\ \A k \in 1..n : list[k] \in choices[k]
  BY DEF Each
<1>2. \A k \in 1..n : list[k] \in S
  BY <1>1
<1>3. list = [k \in 1..n |-> list[k]]
  BY <1>1
<1>4. list \in Seq(S)
  BY <1>2, <1>3, IsASeq
<1>5. Len(list) = n
  BY <1>1, <1>4, LenProperties
<1> QED
  BY <1>1, <1>4, <1>5

\* What parse_output makes of an output is an output, and the one given.
LEMMA ParsedOutputAsGiven ==
    ASSUME NEW o \in Given, NEW out \in ParsedOutput(o)
    PROVE  out \in TxOut /\ IsAsGiven(out, o)
<1>1. /\ out = [address |-> out.address, value |-> out.value, validFrom |-> out.validFrom]
      /\ out.address = o.address /\ out.value = o.value
      /\ out.validFrom \in IF o.validFrom = None THEN {None} ELSE Cast(o.validFrom, U64Range)
  BY DEF ParsedOutput
<1>2. o.validFrom \in (Nat \ {0}) \cup {None} /\ U64Range \in Nat \ {0} /\ None \notin Int
  BY ArgumentsAssumption DEF Given, IsOutput
<1>3. CASE o.validFrom = None
  BY <1>1, <1>3 DEF TxOut, IsAsGiven
<1>4. CASE o.validFrom # None
  <2>1. /\ out.validFrom \in 0..U64Range - 1
        /\ out.validFrom = o.validFrom <=> o.validFrom < U64Range
    BY <1>1, <1>2, <1>4, CastKeeps
  <2>2. out.validFrom # None
    BY <1>2, <2>1
  <2> QED
    BY <1>1, <1>4, <2>1, <2>2 DEF TxOut, IsAsGiven
<1> QED
  BY <1>3, <1>4

\* The lists the arguments are in
LEMMA ArgumentLists ==
    ASSUME TypeOK
    PROVE  /\ DOMAIN inputs = 1..Len(inputs) /\ Len(inputs) \in Nat
           /\ \A k \in 1..Len(inputs) : inputs[k] \in GivenInput
           /\ DOMAIN outputs = 1..Len(outputs) /\ Len(outputs) \in Nat
           /\ \A k \in 1..Len(outputs) : outputs[k] \in GivenOutput
BY LenProperties, ElementOfSeq DEF TypeOK

\* The outputs the addon understands are those given.
LEMMA ParsedOutputs ==
    ASSUME TypeOK, NEW r \in Parsed
    PROVE  /\ r.outputs \in Seq(TxOut) /\ Len(r.outputs) = Len(outputs)
           /\ \A k \in 1..Len(outputs) : IsAsGiven(r.outputs[k], outputs[k])
<1> DEFINE choices == [k \in DOMAIN outputs |-> ParsedOutput(outputs[k])]
<1>1. r.outputs \in Each(choices)
  BY DEF Parsed
<1>2. /\ DOMAIN choices = 1..Len(outputs) /\ Len(outputs) \in Nat
      /\ \A k \in 1..Len(outputs) : choices[k] = ParsedOutput(outputs[k]) /\ outputs[k] \in Given
  BY ArgumentLists DEF Given
<1> HIDE DEF choices
<1>3. \A k \in 1..Len(outputs) : choices[k] \subseteq TxOut
  BY <1>2, ParsedOutputAsGiven
<1>4. /\ r.outputs \in Seq(TxOut) /\ Len(r.outputs) = Len(outputs)
      /\ \A k \in 1..Len(outputs) : r.outputs[k] \in choices[k]
  BY <1>1, <1>2, <1>3, EachIsList
<1> QED
  BY <1>2, <1>4, ParsedOutputAsGiven

\* The outputs a transfer believes to spend are those given.
LEMMA ParsedSpent ==
    ASSUME TypeOK, NEW r \in Parsed
    PROVE  /\ r.spent \in Seq(TxOut)
           /\ kind = "transfer" =>
                 /\ Len(r.spent) = Len(inputs)
                 /\ \A k \in 1..Len(inputs) : IsAsGiven(r.spent[k], inputs[k].prevOutput)
<1> DEFINE choices == [k \in DOMAIN inputs |-> ParsedOutput(inputs[k].prevOutput)]
<1>1. r.spent \in IF kind = "transfer" THEN Each(choices) ELSE {<<>>}
  BY DEF Parsed
<1>2. /\ DOMAIN choices = 1..Len(inputs) /\ Len(inputs) \in Nat
      /\ \A k \in 1..Len(inputs) :
            choices[k] = ParsedOutput(inputs[k].prevOutput) /\ inputs[k].prevOutput \in Given
  BY ArgumentLists DEF Given
<1> HIDE DEF choices
<1>3. \A k \in 1..Len(inputs) : choices[k] \subseteq TxOut
  BY <1>2, ParsedOutputAsGiven
<1>4. CASE kind = "transfer"
  <2>1. /\ r.spent \in Seq(TxOut) /\ Len(r.spent) = Len(inputs)
        /\ \A k \in 1..Len(inputs) : r.spent[k] \in choices[k]
    BY <1>1, <1>2, <1>3, <1>4, EachIsList
  <2> QED
    BY <1>2, <2>1, ParsedOutputAsGiven
<1>5. CASE kind # "transfer"
  BY <1>1, <1>5, EmptySeq
<1> QED
  BY <1>4, <1>5

\* The pointers of the addon are the given ids with a cast of the given index.
LEMMA ParsedPointers ==
    ASSUME TypeOK, AcceptedInv, NEW r \in Parsed
    PROVE  /\ r.pointers \in Seq({i.prevTxId.bytes : i \in GivenInput} \X (0..TxoSizeRange - 1))
           /\ Len(r.pointers) = Len(inputs)
           /\ \A k \in 1..Len(inputs) :
                 /\ r.pointers[k] = <<inputs[k].prevTxId.bytes, r.pointers[k][2]>>
                 /\ r.pointers[k][1] = inputs[k].prevTxId.bytes
                 /\ r.pointers[k][2] = inputs[k].prevIndex <=> inputs[k].prevIndex < TxoSizeRange
<1> DEFINE choices == [k \in DOMAIN inputs |->
                          {inputs[k].prevTxId.bytes} \X Cast(inputs[k].prevIndex, TxoSizeRange)]
           Pointers == {i.prevTxId.bytes : i \in GivenInput} \X (0..TxoSizeRange - 1)
<1>1. r.pointers \in Each(choices)
  BY DEF Parsed
<1>2. /\ DOMAIN choices = 1..Len(inputs) /\ Len(inputs) \in Nat
      /\ \A k \in 1..Len(inputs) :
            choices[k] = {inputs[k].prevTxId.bytes} \X Cast(inputs[k].prevIndex, TxoSizeRange)
  BY ArgumentLists
<1> HIDE DEF choices
<1>3. ASSUME NEW k \in 1..Len(inputs)
      PROVE  inputs[k].prevIndex \in Nat /\ inputs[k] \in GivenInput
  <2>1. inputs[k] \in GivenInput /\ k \in DOMAIN inputs
    BY ArgumentLists
  <2>2. owInput(inputs[k]) \/ owPrevOutputPointer(inputs[k])
    BY <2>1 DEF AcceptedInv, TypeOK
  <2>3. inputs[k].prevIndex # Fraction /\ IsNumber(inputs[k].prevIndex)
    BY <2>1, <2>2, ArgumentsAssumption DEF owInput, owPrevOutputPointer, IsWithin
  <2>4. inputs[k].prevIndex \in Int
    BY <2>3 DEF IsNumber
  <2>5. inputs[k].prevIndex >= 0
    BY <2>2, <2>4 DEF owInput, owPrevOutputPointer, IsWithin
  <2> QED
    BY <2>1, <2>4, <2>5
<1>4. ASSUME NEW k \in 1..Len(inputs), NEW p \in choices[k]
      PROVE  /\ p \in Pointers /\ p = <<inputs[k].prevTxId.bytes, p[2]>>
             /\ p[1] = inputs[k].prevTxId.bytes
             /\ p[2] = inputs[k].prevIndex <=> inputs[k].prevIndex < TxoSizeRange
  <2>1. p \in {inputs[k].prevTxId.bytes} \X Cast(inputs[k].prevIndex, TxoSizeRange)
    BY <1>2, <1>4
  <2>2. /\ p[2] \in 0..TxoSizeRange - 1
        /\ p[2] = inputs[k].prevIndex <=> inputs[k].prevIndex < TxoSizeRange
    BY <1>3, <2>1, CastKeeps, ArgumentsAssumption
  <2> QED
    BY <1>3, <2>1, <2>2
<1> HIDE DEF Pointers
<1>5. \A k \in 1..Len(inputs) : choices[k] \subseteq Pointers
  BY <1>4
<1>6. /\ r.pointers \in Seq(Pointers) /\ Len(r.pointers) = Len(inputs)
      /\ \A k \in 1..Len(inputs) : r.pointers[k] \in choices[k]
  BY <1>1, <1>2, <1>5, EachIsList
<1> QED
  BY <1>4, <1>6 DEF Pointers

\* The signers of the addon are two casts of the required ones.
LEMMA ParsedSigners ==
    ASSUME TypeOK, AcceptedInv, NEW r \in Parsed
    PROVE  /\ r.signers \in Seq([required : 0..U64Range - 1, total : 0..U64Range - 1])
           /\ kind = "transfer" =>
                 /\ Len(r.signers) = Len(inputs)
                 /\ \A k \in 1..Len(inputs) :
                       LET m == inputs[k].addressParams.requiredSigners IN
                       /\ m \in Nat
                       /\ r.signers[k] \in [required : 0..U64Range - 1, total : 0..U64Range - 1]
                       /\ r.signers[k].required = m <=> m < U64Range
                       /\ r.signers[k].total = m <=> m < U64Range
<1> DEFINE choices == [k \in DOMAIN inputs |-> parse_address_params(inputs[k].addressParams)]
           Counts == [required : 0..U64Range - 1, total : 0..U64Range - 1]
<1>1. r.signers \in IF kind = "transfer" THEN Each(choices) ELSE {<<>>}
  BY DEF Parsed
<1>2. /\ DOMAIN choices = 1..Len(inputs) /\ Len(inputs) \in Nat
      /\ \A k \in 1..Len(inputs) : choices[k] = parse_address_params(inputs[k].addressParams)
  BY ArgumentLists
<1> HIDE DEF choices
<1>3. CASE kind = "transfer"
  <2>1. ASSUME NEW k \in 1..Len(inputs)
        PROVE  inputs[k].addressParams.requiredSigners \in Nat
    <3>1. inputs[k] \in GivenInput /\ k \in DOMAIN inputs
      BY ArgumentLists
    <3>2. owInputAddressParams(inputs[k].addressParams)
      BY <1>3, <3>1 DEF AcceptedInv, owInput
    <3> QED
      BY <3>1, <3>2, ArgumentsAssumption DEF owInputAddressParams, IsNumber
  <2>2. ASSUME NEW k \in 1..Len(inputs), NEW c \in choices[k]
        PROVE  LET m == inputs[k].addressParams.requiredSigners IN
               /\ c \in Counts
               /\ c.required = m <=> m < U64Range
               /\ c.total = m <=> m < U64Range
    <3> DEFINE m == inputs[k].addressParams.requiredSigners
    <3>1. c \in [required : Cast(m, U64Range), total : Cast(m, U64Range)]
      BY <1>2, <2>2 DEF parse_address_params
    <3>2. m \in Nat /\ U64Range \in Nat \ {0}
      BY <2>1, ArgumentsAssumption
    <3> HIDE DEF m
    <3>3. /\ c.required \in 0..U64Range - 1 /\ (c.required = m <=> m < U64Range)
          /\ c.total \in 0..U64Range - 1 /\ (c.total = m <=> m < U64Range)
      BY <3>1, <3>2, CastKeeps
    <3>4. c \in Counts
      BY <3>1, <3>3
    <3> QED
      BY <3>3, <3>4 DEF m
  <2> HIDE DEF Counts
  <2>3. \A k \in 1..Len(inputs) : choices[k] \subseteq Counts
    BY <2>2
  <2>4. /\ r.signers \in Seq(Counts) /\ Len(r.signers) = Len(inputs)
        /\ \A k \in 1..Len(inputs) : r.signers[k] \in choices[k]
    BY <1>1, <1>2, <1>3, <2>3, EachIsList
  <2> QED
    BY <2>1, <2>2, <2>4 DEF Counts
<1>4. CASE kind # "transfer"
  BY <1>1, <1>4, EmptySeq
<1> QED
  BY <1>3, <1>4

\* What the addon understands has the type the next calls expect.
LEMMA ParsedType ==
    ASSUME TypeOK, AcceptedInv, NEW r \in Parsed
    PROVE  r \in RawTx
<1>1. /\ r = [network |-> r.network, pointers |-> r.pointers, spent |-> r.spent,
              signers |-> r.signers, outputs |-> r.outputs]
      /\ r.network = ChainNetwork
  BY DEF Parsed
<1>2. r.network \in Net
  BY <1>1 DEF ChainNetwork, network_from_chain_hex_id, Net
<1>3. /\ r.outputs \in Seq(TxOut) /\ r.spent \in Seq(TxOut)
      /\ r.pointers \in Seq({i.prevTxId.bytes : i \in GivenInput} \X (0..TxoSizeRange - 1))
      /\ r.signers \in Seq([required : 0..U64Range - 1, total : 0..U64Range - 1])
  BY ParsedOutputs, ParsedSpent, ParsedPointers, ParsedSigners
<1> QED
  BY <1>1, <1>2, <1>3 DEF RawTx

-----------------------------------------------------------------------------
(* The steps *)

LEMMA InitArguments == Init => ArgumentsInv
<1> SUFFICES ASSUME Init PROVE ArgumentsInv
  OBVIOUS
<1>1. /\ kind \in {"transfer", "deposit", "withdraw"}
      /\ network \in Network
      /\ nonce \in GivenNonce \cup {None}
      /\ kind = "withdraw" => nonce \in GivenNonce /\ owAccountNonce(nonce)
      /\ inputs = <<>> /\ outputs = <<>> /\ viewKeys = <<>> /\ raw = None
  BY DEF Init, Start
<1>2. TypeOK
  BY <1>1, EmptySeq DEF TypeOK
<1>3. AcceptedInv
  BY <1>1 DEF AcceptedInv
<1>4. BuiltInv
  BY <1>1, RefusedAssumption DEF BuiltInv, IsBuilt
<1> QED
  BY <1>2, <1>3, <1>4 DEF ArgumentsInv

\* An argument appended to a list that were all checked, checked itself
LEMMA AppendChecked ==
    ASSUME NEW S, NEW s \in Seq(S), NEW x \in S
    PROVE  /\ Append(s, x) \in Seq(S)
           /\ \A k \in DOMAIN Append(s, x) :
                 Append(s, x)[k] = x \/ (k \in DOMAIN s /\ Append(s, x)[k] = s[k])
BY AppendProperties, LenProperties

LEMMA NextArguments == ArgumentsInv /\ [Next]_vars => ArgumentsInv'
<1> SUFFICES ASSUME ArgumentsInv, [Next]_vars PROVE ArgumentsInv'
  OBVIOUS
<1> USE DEF ArgumentsInv
<1>1. ASSUME NEW i \in GivenInput, AddInput(i)
      PROVE  ArgumentsInv'
  <2>1. /\ inputs' \in Seq(GivenInput)
        /\ \A k \in DOMAIN inputs' :
              inputs'[k] = i \/ (k \in DOMAIN inputs /\ inputs'[k] = inputs[k])
    BY <1>1, AppendChecked DEF AddInput, TypeOK
  <2>2. TypeOK'
    BY <1>1, <2>1 DEF AddInput, TypeOK
  <2>3. AcceptedInv'
    BY <1>1, <2>1 DEF AddInput, AcceptedInv
  <2>4. BuiltInv'
    BY <1>1, RefusedAssumption DEF AddInput, BuiltInv, IsBuilt
  <2> QED
    BY <2>2, <2>3, <2>4
<1>2. ASSUME NEW o \in GivenOutput, AddOutput(o)
      PROVE  ArgumentsInv'
  <2>1. /\ outputs' \in Seq(GivenOutput)
        /\ \A k \in DOMAIN outputs' :
              outputs'[k] = o \/ (k \in DOMAIN outputs /\ outputs'[k] = outputs[k])
    BY <1>2, AppendChecked DEF AddOutput, TypeOK
  <2>2. TypeOK'
    BY <1>2, <2>1 DEF AddOutput, TypeOK
  <2>3. owOutput(o)
    BY <1>2 DEF AddOutput, owWithdrawUnbondedOutput
  <2>4. AcceptedInv'
    BY <1>2, <2>1, <2>3 DEF AddOutput, AcceptedInv
  <2>5. BuiltInv'
    BY <1>2, RefusedAssumption DEF AddOutput, BuiltInv, IsBuilt
  <2> QED
    BY <2>2, <2>4, <2>5
<1>3. ASSUME NEW v \in GivenViewKey, AddViewKey(v)
      PROVE  ArgumentsInv'
  <2>1. /\ viewKeys' \in Seq(GivenViewKey)
        /\ \A k \in DOMAIN viewKeys' :
              viewKeys'[k] = v \/ (k \in DOMAIN viewKeys /\ viewKeys'[k] = viewKeys[k])
    BY <1>3, AppendChecked DEF AddViewKey, TypeOK
  <2>2. TypeOK'
    BY <1>3, <2>1 DEF AddViewKey, TypeOK
  <2>3. AcceptedInv'
    BY <1>3, <2>1 DEF AddViewKey, AcceptedInv
  <2>4. BuiltInv'
    BY <1>3, RefusedAssumption DEF AddViewKey, BuiltInv, IsBuilt
  <2> QED
    BY <2>2, <2>3, <2>4
<1>4. CASE Build
  <2>1. UNCHANGED <<kind, network, nonce, inputs, outputs, viewKeys>>
    BY <1>4 DEF Build
  <2>2. AcceptedInv'
    BY <2>1 DEF AcceptedInv
  <2>3. NativeTakes' = NativeTakes /\ Parsed' = Parsed
    BY <2>1 DEF NativeTakes, ChainNetwork, Parsed
  <2>4. CASE NativeTakes /\ raw' \in Parsed
    <3>1. raw' \in RawTx
      BY <2>4, ParsedType
    <3>2. TypeOK'
      BY <2>1, <3>1 DEF TypeOK
    <3>3. raw' # Refused
      BY <3>1, RefusedAssumption
    <3>4. BuiltInv'
      BY <2>3, <2>4, <3>3 DEF BuiltInv
    <3> QED
      BY <2>2, <3>2, <3>4
  <2>5. CASE ~NativeTakes /\ raw' = Refused
    <3>1. TypeOK'
      BY <2>1, <2>5 DEF TypeOK
    <3>2. BuiltInv'
      BY <2>3, <2>5 DEF BuiltInv, IsBuilt
    <3> QED
      BY <2>2, <3>1, <3>2
  <2> QED
    BY <1>4, <2>4, <2>5 DEF Build
<1>5. CASE UNCHANGED vars
  <2>1. UNCHANGED <<kind, network, nonce, inputs, outputs, viewKeys>> /\ UNCHANGED raw
    BY <1>5 DEF vars
  <2>2. TypeOK' /\ AcceptedInv'
    BY <2>1 DEF TypeOK, AcceptedInv
  <2>3. NativeTakes' = NativeTakes /\ Parsed' = Parsed
    BY <2>1 DEF NativeTakes, ChainNetwork, Parsed
  <2>4. BuiltInv'
    BY <2>1, <2>3 DEF BuiltInv, IsBuilt
  <2> QED
    BY <2>2, <2>4
<1> QED
  BY <1>1, <1>2, <1>3, <1>4, <1>5 DEF Next

\* toHex() of either kind of builder, in either kind of process, for whatever the
\* node answers
LEMMA ExportStep ==
    ASSUME ArgumentsInv, NEW address, NEW answer, ToHex(address, answer)
    PROVE  ExportedInv'
<1>1. kind \in {"transfer", "deposit", "withdraw"}
  BY DEF ArgumentsInv, TypeOK
<1>2. exported' = IF kind = "transfer" THEN to_hex_linear_fee(address, answer)
                  ELSE signed_transaction_to_hex(address, answer)
  BY DEF ToHex
<1>3. exported' \in {"plain", "obfuscated", Refused} /\ (exported' = "plain" => nodeEnv = "test")
  BY <1>1, <1>2, ExportAssumption
     DEF to_hex_linear_fee, signed_transaction_to_hex, to_tx_aux, getRustFeaturesFromEnv,
         TransferCipher, StakingCipher
<1>4. nodeEnv = "test" => exported' = "plain"
  BY <1>1, <1>2
     DEF to_hex_linear_fee, signed_transaction_to_hex, to_tx_aux, getRustFeaturesFromEnv,
         TransferCipher, StakingCipher
<1>5. nodeEnv' = nodeEnv
  BY DEF ToHex
<1> QED
  BY <1>3, <1>4, <1>5, ExportAssumption DEF ExportedInv, PlainOnlyInTests, NoPanic, IsExported

LEMMA InitIInv == ExportInit => IInv
BY InitArguments, ExportAssumption
   DEF ExportInit, IInv, ExportedInv, PlainOnlyInTests, NoPanic, IsExported

LEMMA NextIInv == IInv /\ [ExportNext]_exportVars => IInv'
<1> SUFFICES ASSUME IInv, [ExportNext]_exportVars PROVE IInv'
  OBVIOUS
<1>1. CASE Arguments
  <2>1. ArgumentsInv'
    BY <1>1, NextArguments DEF Arguments, IInv
  <2>2. ExportedInv'
    BY <1>1, ExportAssumption
       DEF Arguments, ExportedInv, PlainOnlyInTests, NoPanic, IsExported
  <2> QED
    BY <2>1, <2>2 DEF IInv
<1>2. ASSUME NEW address \in TendermintAddress, NEW answer \in Answers(address),
             ToHex(address, answer)
      PROVE  IInv'
  <2>1. ArgumentsInv'
    BY <1>2, NextArguments DEF ToHex, IInv
  <2>2. ExportedInv'
    BY <1>2, ExportStep DEF IInv
  <2> QED
    BY <2>1, <2>2 DEF IInv
<1>3. CASE UNCHANGED exportVars
  <2>1. UNCHANGED vars /\ UNCHANGED nodeEnv /\ UNCHANGED exported
    BY <1>3 DEF exportVars
  <2>2. ArgumentsInv'
    BY <2>1, NextArguments DEF IInv
  <2> QED
    BY <2>1, <2>2 DEF IInv, ExportedInv, PlainOnlyInTests, NoPanic, IsExported
<1> QED
  BY <1>1, <1>2, <1>3 DEF ExportNext

\* The invariant holds in every reachable state.
THEOREM Invariance == ExportSpec => []IInv
BY InitIInv, NextIInv, PTL DEF ExportSpec

-----------------------------------------------------------------------------
(* The theorems *)

\* The arguments a builder holds and what the addon makes of them keep the types
\* the two languages declare.
THEOREM TypeCorrect == ExportSpec => []TypeOK
<1>1. IInv => TypeOK
  BY DEF IInv, ArgumentsInv
<1> QED
  BY <1>1, Invariance, PTL

\* With a network of the library, and a nonce and fees that the native types have,
\* nothing that the validators accepted is refused by the addon.
THEOREM AcceptedCorrect == ExportSpec => []AcceptedIsParseable
<1>1. IInv => AcceptedIsParseable
  <2> DEFINE Named == {Mainnet, Testnet}
                         \cup {d \in Devnet : d.chainHexId \notin {<<42>>, <<66>>}}
             Fees == {network.feeConfig.constant, network.feeConfig.coefficient}
  <2> SUFFICES ASSUME IInv, network \in Named, Fees \subseteq 0..MilliRange - 1, nonce # U64Range
               PROVE  NativeTakes
    BY DEF AcceptedIsParseable, IInv, ArgumentsInv, BuiltInv
  <2> USE DEF IInv, ArgumentsInv
  <2>1. Len(network.chainHexId) = 1 /\ ChainNetwork = network.name
    <3>1. CASE network \in {Mainnet, Testnet}
      BY <3>1 DEF Mainnet, Testnet, ChainNetwork, network_from_chain_hex_id
    <3>2. CASE network \in {d \in Devnet : d.chainHexId \notin {<<42>>, <<66>>}}
      <4>1. /\ Len(network.chainHexId) = 1 /\ network.name = "Devnet"
            /\ network.chainHexId \in Seq(Nat)
            /\ network.chainHexId \notin {<<42>>, <<66>>}
        BY <3>2, ArgumentsAssumption DEF Devnet, owChainHexId
      <4>2. network.chainHexId = <<network.chainHexId[1]>>
        BY <4>1
      <4>3. network.chainHexId[1] # 42 /\ network.chainHexId[1] # 66
        BY <4>1, <4>2
      <4> QED
        BY <4>1, <4>3 DEF ChainNetwork, network_from_chain_hex_id
    <3> QED
      BY <3>1, <3>2
  <2>2. \A k \in DOMAIN inputs :
            /\ txid_from_str(inputs[k].prevTxId)
            /\ kind = "transfer" => parse_output(inputs[k].prevOutput, ChainNetwork)
    <3> SUFFICES ASSUME NEW k \in DOMAIN inputs
                 PROVE  /\ txid_from_str(inputs[k].prevTxId)
                        /\ kind = "transfer" => parse_output(inputs[k].prevOutput, ChainNetwork)
      OBVIOUS
    <3>1. owTxId(inputs[k].prevTxId)
      BY DEF AcceptedInv, TypeOK, owInput, owPrevOutputPointer
    <3>2. txid_from_str(inputs[k].prevTxId)
      BY <3>1 DEF owTxId, txid_from_str
    <3>3. kind = "transfer" => parse_output(inputs[k].prevOutput, ChainNetwork)
      BY <2>1 DEF AcceptedInv, owInput, owOutput, owCoin, IsWithin, parse_output, Coin
    <3> QED
      BY <3>2, <3>3
  <2>3. \A k \in DOMAIN outputs : parse_output(outputs[k], ChainNetwork)
    BY <2>1 DEF AcceptedInv, owOutput, owCoin, IsWithin, parse_output, Coin
  <2>4. \A k \in DOMAIN viewKeys : parse_view_key(viewKeys[k])
    BY DEF AcceptedInv, owViewKey, parse_view_key
  <2>5. kind = "withdraw" => parse_account_nonce(nonce)
    BY ArgumentsAssumption
       DEF AcceptedInv, owAccountNonce, IsWithin, parse_account_nonce, IsNumber
  <2>6. parse_linear_fee_config(network.feeConfig)
    BY NetworkType, ArgumentsAssumption DEF TypeOK, parse_linear_fee_config
  <2> QED
    BY <2>1, <2>2, <2>3, <2>4, <2>5, <2>6 DEF NativeTakes, chain_hex_id_from_vec
<1> QED
  BY <1>1, Invariance, PTL

\* Whether the addon has an address to parse
HasAddress == outputs # <<>> \/ (kind = "transfer" /\ inputs # <<>>)

\* What the addon refuses although every validator has accepted it: a chain id that
\* is no single byte, a chain id of another network than the one the builder has
\* by name (as soon as there is an address), a fee of a transfer that
\* Milli::from_str does not take (infinite, or beyond the width of a Milli; which
\* others, that function decides), and the nonce 2^64.  There is nothing else.
RefusalsExact ==
    NativeTakes <=>
        /\ Len(network.chainHexId) = 1
        /\ HasAddress => ChainNetwork = network.name
        /\ kind = "transfer" =>
              {network.feeConfig.constant, network.feeConfig.coefficient} \subseteq MilliTakes
        /\ kind = "withdraw" => nonce # U64Range

\* AcceptedIsParseable names arguments that the addon takes; this theorem names all
\* of them, for every address, id, amount, key, fee and nonce, and is what the modules
\* of the builders put in the place of the parsers.
THEOREM RefusalsExactlyCorrect == ExportSpec => []RefusalsExact
<1>1. IInv => RefusalsExact
  <2> SUFFICES ASSUME IInv PROVE RefusalsExact
    OBVIOUS
  <2> USE DEF IInv, ArgumentsInv
  <2>1. ASSUME NEW a, NEW n \in Net, NEW m \in Net, InNetwork(a, n)
        PROVE  InNetwork(a, m) <=> n = m
    BY <2>1 DEF InNetwork, HrpOf, Net
  <2>2. network.name \in Net /\ ChainNetwork \in Net
    BY NetworkType DEF TypeOK, ChainNetwork, network_from_chain_hex_id, Net
  <2>3. ASSUME NEW k \in DOMAIN inputs
        PROVE  /\ txid_from_str(inputs[k].prevTxId)
               /\ kind = "transfer" => (parse_output(inputs[k].prevOutput, ChainNetwork)
                                            <=> ChainNetwork = network.name)
    <3>1. owTxId(inputs[k].prevTxId)
      BY DEF AcceptedInv, TypeOK, owInput, owPrevOutputPointer
    <3>2. txid_from_str(inputs[k].prevTxId)
      BY <3>1 DEF owTxId, txid_from_str
    <3>3. kind = "transfer" => /\ InNetwork(inputs[k].prevOutput.address, network.name)
                               /\ Coin(inputs[k].prevOutput.value)
      BY DEF AcceptedInv, owInput, owOutput, owCoin, IsWithin, Coin
    <3> QED
      BY <2>1, <2>2, <3>2, <3>3 DEF parse_output
  <2>4. ASSUME NEW k \in DOMAIN outputs
        PROVE  parse_output(outputs[k], ChainNetwork) <=> ChainNetwork = network.name
    <3>1. InNetwork(outputs[k].address, network.name) /\ Coin(outputs[k].value)
      BY DEF AcceptedInv, owOutput, owCoin, IsWithin, Coin
    <3> QED
      BY <2>1, <2>2, <3>1 DEF parse_output
  <2>5. \A k \in DOMAIN viewKeys : parse_view_key(viewKeys[k])
    BY DEF AcceptedInv, owViewKey, parse_view_key
  <2>6. kind = "withdraw" => (parse_account_nonce(nonce) <=> nonce # U64Range)
    BY ArgumentsAssumption
       DEF AcceptedInv, owAccountNonce, IsWithin, parse_account_nonce, IsNumber
  <2>7. parse_linear_fee_config(network.feeConfig)
            <=> {network.feeConfig.constant, network.feeConfig.coefficient} \subseteq MilliTakes
    BY NetworkType DEF TypeOK, parse_linear_fee_config
  <2>8. HasAddress <=> (\E k \in DOMAIN outputs : TRUE) \/ (kind = "transfer" /\ \E k \in DOMAIN inputs : TRUE)
    <3>1. \A S : \A q \in Seq(S) : q # <<>> <=> \E k \in DOMAIN q : TRUE
      <4> SUFFICES ASSUME NEW S, NEW q \in Seq(S) PROVE q # <<>> <=> \E k \in DOMAIN q : TRUE
        OBVIOUS
      <4>1. Len(q) \in Nat /\ DOMAIN q = 1..Len(q)
        BY LenProperties
      <4>2. q = <<>> <=> Len(q) = 0
        BY EmptySeq
      <4>3. Len(q) # 0 => 1 \in DOMAIN q
        BY <4>1
      <4>4. Len(q) = 0 => DOMAIN q = {}
        BY <4>1
      <4> QED
        BY <4>2, <4>3, <4>4, Zenon
    <3> QED
      BY <3>1 DEF HasAddress, TypeOK
  <2> QED
    BY <2>3, <2>4, <2>5, <2>6, <2>7, <2>8 DEF NativeTakes, RefusalsExact, chain_hex_id_from_vec
<1> QED
  BY <1>1, Invariance, PTL

\* The two tables of chain ids agree on every configuration the addon takes.
THEOREM TablesAgree == ExportSpec => []ChainIdTablesAgree
<1>1. IInv => ChainIdTablesAgree
  <2> SUFFICES ASSUME IInv, IsBuilt
               PROVE  raw.network = fromChainId(network.chainHexId)
    BY DEF ChainIdTablesAgree
  <2>1. raw.network = ChainNetwork /\ NativeTakes
    BY DEF IInv, ArgumentsInv, BuiltInv, Parsed
  <2>2. network.chainHexId \in Seq(Nat) /\ Len(network.chainHexId) = 1
    BY <2>1, NetworkType DEF IInv, ArgumentsInv, TypeOK, NativeTakes, chain_hex_id_from_vec
  <2>3. network.chainHexId = <<network.chainHexId[1]>>
    BY <2>2
  <2>4. ChainNetwork = fromChainId(network.chainHexId)
    <3> DEFINE byte == network.chainHexId[1]
    <3>1. /\ network.chainHexId = <<42>> <=> byte = 42
          /\ network.chainHexId = <<66>> <=> byte = 66
      BY <2>3
    <3> QED
      BY <3>1 DEF ChainNetwork, network_from_chain_hex_id, fromChainId
  <2> QED
    BY <2>1, <2>4
<1> QED
  BY <1>1, Invariance, PTL

\* Outputs, created or spent, are those the caller gave, on the builder's network;
\* the cast of a time lock changes exactly those that no u64 holds.
THEOREM OutputsCorrect == ExportSpec => []OutputsAsGiven
<1>1. IInv => OutputsAsGiven
  <2> SUFFICES ASSUME IInv, IsBuilt PROVE OutputsAsGiven
    BY DEF OutputsAsGiven
  <2>1. raw \in Parsed /\ TypeOK
    BY DEF IInv, ArgumentsInv, BuiltInv
  <2>2. \A k \in DOMAIN outputs : outputs[k].address.hrp = HrpOf[network.name]
    BY DEF IInv, ArgumentsInv, AcceptedInv, InNetwork
  <2> QED
    BY <2>1, <2>2, ParsedOutputs, ParsedSpent, ArgumentLists DEF OutputsAsGiven
<1> QED
  BY <1>1, Invariance, PTL

\* The validator of a deposit's pointer admits exactly the indexes that the cast
\* keeps, whatever the width of the native type.
THEOREM DepositCorrect == ExportSpec => []DepositSpendsAsGiven
<1>1. IInv => DepositSpendsAsGiven
  <2> SUFFICES ASSUME IInv, kind = "deposit", IsBuilt, NEW k \in DOMAIN inputs
               PROVE  raw.pointers[k] = <<inputs[k].prevTxId.bytes, inputs[k].prevIndex>>
    BY DEF DepositSpendsAsGiven
  <2>1. raw \in Parsed /\ TypeOK /\ AcceptedInv /\ k \in 1..Len(inputs)
    BY ArgumentLists DEF IInv, ArgumentsInv, BuiltInv
  <2>2. IsWithin(inputs[k].prevIndex, 0, TxoSizeRange - 1)
    BY DEF IInv, ArgumentsInv, AcceptedInv, owPrevOutputPointer
  <2>3. inputs[k].prevIndex \in Int
    BY <2>1, <2>2, ArgumentLists, ArgumentsAssumption DEF IsWithin, IsNumber
  <2>4. inputs[k].prevIndex < TxoSizeRange
    BY <2>2, <2>3, ArgumentsAssumption DEF IsWithin
  <2> QED
    BY <2>1, <2>4, ParsedPointers
<1> QED
  BY <1>1, Invariance, PTL

\* Nothing leaves in the clear outside of a test runner, nothing else in one.
THEOREM PlainCorrect == ExportSpec => []PlainOnlyInTests
<1>1. IInv => PlainOnlyInTests
  BY DEF IInv, ExportedInv
<1> QED
  BY <1>1, Invariance, PTL

\* The mock ciphers are handed only transactions they know.
THEOREM NeverPanics == ExportSpec => []NoPanic
<1>1. IInv => NoPanic
  BY DEF IInv, ExportedInv
<1> QED
  BY <1>1, Invariance, PTL

\* How far a transfer is from knowing its inputs as they were given, which it does
\* not (TransferInputsAsGiven is violated): a previous transaction's id is always
\* right, its index unless it does not fit TxoSize, when another output is spent,
\* the required signers unless they do not fit a u64, and the total exactly when
\* the required ones are right and all are required.
InputsExact ==
    kind = "transfer" /\ IsBuilt =>
        \A k \in DOMAIN inputs :
            LET i == inputs[k] IN
            /\ raw.pointers[k][1] = i.prevTxId.bytes
            /\ raw.pointers[k][2] = i.prevIndex <=> i.prevIndex < TxoSizeRange
            /\ raw.signers[k].required = i.addressParams.requiredSigners
                  <=> i.addressParams.requiredSigners < U64Range
            /\ raw.signers[k].total = i.addressParams.totalSigners
                  <=> /\ i.addressParams.requiredSigners < U64Range
                      /\ i.addressParams.totalSigners = i.addressParams.requiredSigners

\* owInput, parse_input and parse_address_params: the pointers and signer counts of
\* a transfer differ from what was given by two casts and by the field that is
\* read for the total, and in no other way.
THEOREM InputsExactlyCorrect == ExportSpec => []InputsExact
<1>1. IInv => InputsExact
  <2> SUFFICES ASSUME IInv, kind = "transfer", IsBuilt, NEW k \in DOMAIN inputs
               PROVE  LET i == inputs[k] IN
                      /\ raw.pointers[k][1] = i.prevTxId.bytes
                      /\ raw.pointers[k][2] = i.prevIndex <=> i.prevIndex < TxoSizeRange
                      /\ raw.signers[k].required = i.addressParams.requiredSigners
                            <=> i.addressParams.requiredSigners < U64Range
                      /\ raw.signers[k].total = i.addressParams.totalSigners
                            <=> /\ i.addressParams.requiredSigners < U64Range
                                /\ i.addressParams.totalSigners = i.addressParams.requiredSigners
    BY DEF InputsExact
  <2> DEFINE m == inputs[k].addressParams.requiredSigners
             n == inputs[k].addressParams.totalSigners
  <2>1. raw \in Parsed /\ TypeOK /\ AcceptedInv /\ k \in 1..Len(inputs)
    BY ArgumentLists DEF IInv, ArgumentsInv, BuiltInv
  <2>2. /\ raw.pointers[k][1] = inputs[k].prevTxId.bytes
        /\ raw.pointers[k][2] = inputs[k].prevIndex <=> inputs[k].prevIndex < TxoSizeRange
    BY <2>1, ParsedPointers
  <2>3. /\ m \in Nat
        /\ raw.signers[k].total \in 0..U64Range - 1
        /\ raw.signers[k].required = m <=> m < U64Range
        /\ raw.signers[k].total = m <=> m < U64Range
    BY <2>1, ParsedSigners
  <2>4. n \in Int /\ n >= m
    <3>1. owInputAddressParams(inputs[k].addressParams)
      BY DEF IInv, ArgumentsInv, AcceptedInv, owInput
    <3>2. n # Fraction /\ IsNumber(n) /\ n >= m
      BY <2>1, <3>1, ArgumentLists, ArgumentsAssumption DEF owInputAddressParams
    <3> QED
      BY <3>2 DEF IsNumber
  <2>5. raw.signers[k].total = n <=> m < U64Range /\ n = m
    BY <2>3, <2>4, ArgumentsAssumption
  <2> QED
    BY <2>2, <2>3, <2>5
<1> QED
  BY <1>1, Invariance, PTL

\* owTendermintAddress (lib/src/types.ts) lets no address pass that either copy of
\* to_tx_aux refuses to connect to, and no environment makes them panic: of a
\* built transaction toHex() fails exactly when a node is needed and does not
\* answer with the encrypted transaction.
OnlyTheNodeRefuses ==
    [][\A address \in TendermintAddress : \A answer \in Answers(address) :
          ToHex(address, answer) =>
              /\ exported' = Refused <=> nodeEnv # "test" /\ answer # "encrypted"
              /\ exported' # Refused => IsExported']_exportVars

\* A caller with the address of a live node is refused by the node alone.
THEOREM NodeAloneRefuses == ExportSpec => OnlyTheNodeRefuses
<1>1. ASSUME TypeOK, NEW address \in TendermintAddress, NEW answer \in Answers(address),
             ToHex(address, answer)
      PROVE  /\ exported' = Refused <=> nodeEnv # "test" /\ answer # "encrypted"
             /\ exported' # Refused => IsExported'
  <2>1. kind \in {"transfer", "deposit", "withdraw"}
    BY <1>1 DEF TypeOK
  <2>2. exported' = IF nodeEnv = "test" THEN "plain"
                    ELSE IF answer = "encrypted" THEN "obfuscated" ELSE Refused
    BY <1>1, <2>1 DEF ToHex, owTendermintAddress, to_hex_linear_fee, signed_transaction_to_hex,
                      to_tx_aux, getRustFeaturesFromEnv, TransferCipher, StakingCipher
  <2> QED
    BY <2>2, ExportAssumption DEF IsExported
<1>2. IInv /\ [ExportNext]_exportVars =>
          [\A address \in TendermintAddress : \A answer \in Answers(address) :
              ToHex(address, answer) =>
                  /\ exported' = Refused <=> nodeEnv # "test" /\ answer # "encrypted"
                  /\ exported' # Refused => IsExported']_exportVars
  BY <1>1 DEF IInv, ArgumentsInv
<1> QED
  BY <1>2, Invariance, PTL DEF ExportSpec, OnlyTheNodeRefuses
=============================================================================
