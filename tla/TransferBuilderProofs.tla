----------------------- MODULE TransferBuilderProofs -----------------------
(***************************************************************************)
(* Proofs about TransferBuilder for every set of builders, networks,       *)
(* inputs, outputs, keys and offered witnesses, and lists of any length.   *)
(*                                                                         *)
(* The inductive invariant says of the cache what the exported transaction *)
(* has to satisfy: it is well formed, its content is the builder's, every  *)
(* witness in it unlocks its input, and its addresses are on the network   *)
(* of its chain id.  Of the fields it says that their addresses are on the *)
(* network the builder has by name, and of what toHex() returned that it   *)
(* is valid.  TypeOK and the properties the runs check follow from it.     *)
(***************************************************************************)
EXTENDS TransferBuilder, SequenceTheorems, TLAPS

\* A transaction with one slot per input, whose witnesses unlock their inputs
WellSigned(hex) ==
    /\ hex \in IncompleteHex
    /\ Len(hex.witnesses) = Len(hex.content.inputs)
    /\ \A i \in DOMAIN hex.witnesses :
          hex.witnesses[i] # None => Unlocks(hex.witnesses[i], hex, i)

CacheInv ==
    \A b \in Builder :
        isSigning(b) => /\ WellSigned(incompleteHex[b])
                        /\ incompleteHex[b].content = ContentOf(b)
                        /\ Parseable(ContentOf(b))

\* What addInput() and addOutput() check of the lists they append to
OnNamedNetwork(c) ==
    /\ \A i \in 1..Len(c.inputs) : NetOf[AddressOf[c.inputs[i]]] = c.network.name
    /\ \A i \in 1..Len(c.outputs) : NetOf[AddressOf[c.outputs[i]]] = c.network.name

FieldsInv == \A b \in Builder : OnNamedNetwork(ContentOf(b))

IInv == TypeOK /\ CacheInv /\ FieldsInv /\ ExportedIsValid /\ ExportedOnOneNetwork

-----------------------------------------------------------------------------
(* The operators *)

\* A transaction built from the fields of a builder is well signed: it has an
\* empty slot for each input (build_incomplete_hex_linear_fee).
LEMMA UnsignedIsWellSigned ==
    ASSUME NEW c \in Content
    PROVE  WellSigned(Unsigned(c)) /\ Unsigned(c).content = c
<1>1. Len(c.inputs) \in Nat
  BY LenProperties DEF Content
<1>2. Unsigned(c).witnesses \in Seq(Witness \cup {None})
  BY <1>1, IsASeq DEF Unsigned
<1>3. /\ Len(Unsigned(c).witnesses) = Len(c.inputs)
      /\ DOMAIN Unsigned(c).witnesses = 1..Len(c.inputs)
  BY <1>1, <1>2, LenProperties DEF Unsigned
<1> QED
  BY <1>1, <1>2, <1>3 DEF WellSigned, Unsigned, IncompleteHex

\* Putting a witness that unlocks input i into slot i keeps a transaction well
\* signed and does not change its content (add_witness, sign_input_linear_fee).
LEMMA WithWitnessIsWellSigned ==
    ASSUME NEW hex, WellSigned(hex),
           NEW i \in 1..Len(hex.content.inputs),
           NEW w \in Witness, Unlocks(w, hex, i)
    PROVE  /\ WellSigned(WithWitness(hex, i, w))
           /\ WithWitness(hex, i, w).content = hex.content
<1> DEFINE new == WithWitness(hex, i, w)
<1>1. /\ hex \in [content : Content, witnesses : Seq(Witness \cup {None})]
      /\ Len(hex.witnesses) = Len(hex.content.inputs)
      /\ DOMAIN hex.witnesses = 1..Len(hex.witnesses)
  BY LenProperties DEF WellSigned, IncompleteHex
<1>2. new = [content |-> hex.content,
             witnesses |-> [hex.witnesses EXCEPT ![i] = w]]
  BY <1>1, SMTT(20) DEF WithWitness
<1>3. /\ new.witnesses \in Seq(Witness \cup {None})
      /\ Len(new.witnesses) = Len(hex.witnesses)
      /\ \A j \in 1..Len(hex.witnesses) :
            new.witnesses[j] = IF j = i THEN w ELSE hex.witnesses[j]
  <2>1. i \in 1..Len(hex.witnesses) /\ hex.witnesses \in Seq(Witness \cup {None})
    BY <1>1
  <2> QED
    BY <2>1, <1>2, ExceptSeq
<1> QED
  BY <1>1, <1>2, <1>3 DEF WellSigned, Unlocks, IncompleteHex

\* prepareIncompleteSigningHex() returns a well-signed transaction with the
\* builder's content, whether it finds the cache filled or builds it.
LEMMA PreparedIsWellSigned ==
    ASSUME IInv, NEW b \in Builder
    PROVE  /\ WellSigned(toIncompleteHex(b))
           /\ toIncompleteHex(b).content = ContentOf(b)
           /\ toIncompleteHex(b).content.inputs = inputs[b]
<1>1. ContentOf(b) \in Content
  BY DEF IInv, TypeOK, ContentOf, Content
<1>2. CASE isSigning(b)
  BY <1>2 DEF IInv, CacheInv, toIncompleteHex, ContentOf
<1>3. CASE ~isSigning(b)
  BY <1>1, <1>3, UnsignedIsWellSigned DEF toIncompleteHex, ContentOf
<1> QED
  BY <1>2, <1>3

\* A well-signed transaction is one the cache and toHex() may hold.
LEMMA WellSignedType ==
    ASSUME NEW hex, WellSigned(hex)
    PROVE  hex \in IncompleteHex
BY DEF WellSigned

-----------------------------------------------------------------------------
(* The inductive invariant *)

\* The invariant holds in a program that has just created its builders.
LEMMA InitIInv == Init => IInv
<1> SUFFICES ASSUME Init PROVE IInv
  OBVIOUS
<1>1. TypeOK
  BY EmptySeq DEF Init, TypeOK
<1>2. CacheInv
  BY DEF Init, CacheInv, isSigning
<1>3. ExportedIsValid /\ ExportedOnOneNetwork
  BY DEF Init, ExportedIsValid, ExportedOnOneNetwork
<1>4. FieldsInv
  <2> SUFFICES ASSUME NEW b \in Builder PROVE OnNamedNetwork(ContentOf(b))
    BY DEF FieldsInv
  <2>1. ContentOf(b).inputs = <<>> /\ ContentOf(b).outputs = <<>>
    BY DEF Init, ContentOf
  <2> QED
    BY <2>1 DEF OnNamedNetwork
<1> QED
  BY <1>1, <1>2, <1>3, <1>4 DEF IInv

\* Replacing the cache of one builder by a well-signed transaction with the
\* builder's content keeps the invariant (signInput, addWitness).
LEMMA StoreKeepsIInv ==
    ASSUME IInv, NEW b \in Builder, NEW hex,
           WellSigned(hex), hex.content = ContentOf(b), Parseable(ContentOf(b)),
           incompleteHex' = [incompleteHex EXCEPT ![b] = hex],
           exported' = None, UNCHANGED fields
    PROVE  IInv'
<1>1. TypeOK'
  BY WellSignedType DEF IInv, TypeOK, fields
<1>2. CacheInv'
  <2> SUFFICES ASSUME NEW d \in Builder, isSigning(d)'
               PROVE  /\ WellSigned(incompleteHex[d])'
                      /\ incompleteHex'[d].content = ContentOf(d)'
                      /\ Parseable(ContentOf(d))'
    BY DEF CacheInv
  <2>1. ContentOf(d)' = ContentOf(d)
    BY DEF fields, ContentOf
  <2>2. CASE d = b
    <3>1. incompleteHex'[d] = hex
      BY <2>2 DEF IInv, TypeOK
    <3> QED
      BY <2>1, <2>2, <3>1 DEF WellSigned, Unlocks, Parseable
  <2>3. CASE d # b
    <3>1. incompleteHex'[d] = incompleteHex[d]
      BY <2>3 DEF IInv, TypeOK
    <3> QED
      BY <2>1, <3>1 DEF IInv, CacheInv, isSigning, WellSigned, Unlocks, Parseable
  <2> QED
    BY <2>2, <2>3
<1>3. ExportedIsValid' /\ ExportedOnOneNetwork'
  BY DEF ExportedIsValid, ExportedOnOneNetwork
<1>4. FieldsInv'
  BY DEF IInv, FieldsInv, OnNamedNetwork, ContentOf, fields
<1> QED
  BY <1>1, <1>2, <1>3, <1>4 DEF IInv

\* Emptying the cache of the one builder whose fields change keeps the invariant
\* (addInput, addOutput, addViewKey, the constructor).
LEMMA ClearKeepsIInv ==
    ASSUME IInv, NEW b \in Builder, TypeOK', OnNamedNetwork(ContentOf(b))',
           incompleteHex' = [incompleteHex EXCEPT ![b] = None],
           exported' = None,
           \A d \in Builder \ {b} : ContentOf(d)' = ContentOf(d)
    PROVE  IInv'
<1>1. CacheInv'
  <2> SUFFICES ASSUME NEW d \in Builder, isSigning(d)'
               PROVE  /\ WellSigned(incompleteHex[d])'
                      /\ incompleteHex'[d].content = ContentOf(d)'
                      /\ Parseable(ContentOf(d))'
    BY DEF CacheInv
  <2>1. d # b /\ incompleteHex'[d] = incompleteHex[d]
    BY DEF IInv, TypeOK, isSigning
  <2> QED
    BY <2>1 DEF IInv, CacheInv, isSigning, WellSigned, Unlocks, Parseable
<1>2. ExportedIsValid' /\ ExportedOnOneNetwork'
  BY DEF ExportedIsValid, ExportedOnOneNetwork
<1>3. FieldsInv'
  BY DEF IInv, FieldsInv, OnNamedNetwork
<1> QED
  BY <1>1, <1>2, <1>3 DEF IInv

\* addWitness() keeps the invariant whatever witness it is given, and whether it
\* takes it or throws.
LEMMA AddWitnessKeepsIInv ==
    ASSUME IInv, NEW b \in Builder, NEW i \in DOMAIN inputs[b],
           NEW w \in Witness, AddWitness(b, i, w)
    PROVE  IInv'
<1> DEFINE hex == toIncompleteHex(b)
           new == IF Unlocks(w, hex, i) THEN WithWitness(hex, i, w) ELSE hex
<1>1. WellSigned(hex) /\ hex.content = ContentOf(b) /\ hex.content.inputs = inputs[b]
  BY PreparedIsWellSigned
<1>2. i \in 1..Len(hex.content.inputs)
  BY <1>1, LenProperties DEF IInv, TypeOK
<1>3. /\ incompleteHex' = [incompleteHex EXCEPT ![b] = new]
      /\ exported' = None
      /\ UNCHANGED fields
  BY DEF AddWitness
<1>4. Parseable(ContentOf(b))
  BY DEF AddWitness, CanPrepare, IInv, CacheInv
<1> HIDE DEF hex
<1>5. WellSigned(new) /\ new.content = ContentOf(b)
  <2>1. CASE Unlocks(w, hex, i)
    BY <1>1, <1>2, <2>1, WithWitnessIsWellSigned
  <2>2. CASE ~Unlocks(w, hex, i)
    BY <1>1, <2>2
  <2> QED
    BY <2>1, <2>2
<1> HIDE DEF new
<1> QED
  BY <1>3, <1>4, <1>5, StoreKeepsIInv

\* Every call keeps the invariant.
LEMMA NextIInv == IInv /\ [Next]_vars => IInv'
<1> SUFFICES ASSUME IInv, [Next]_vars PROVE IInv'
  OBVIOUS
<1> USE ConstantsAssumption, OfferedAssumption
<1>1. ASSUME NEW b \in Builder, NEW x \in Input, AddInput(b, x)
      PROVE  IInv'
  <2>1. Append(inputs[b], x) \in Seq(Input)
    BY AppendProperties DEF IInv, TypeOK
  <2>2. TypeOK'
    BY <1>1, <2>1 DEF AddInput, clearIncompleteSigningHex, IInv, TypeOK
  <2>3. \A d \in Builder \ {b} : ContentOf(d)' = ContentOf(d)
    BY <1>1 DEF AddInput, ContentOf, IInv, TypeOK
  <2>4. OnNamedNetwork(ContentOf(b))'
    <3>1. OnNamedNetwork(ContentOf(b))
      BY DEF IInv, FieldsInv
    <3>2. /\ inputs[b]' = Append(inputs[b], x)
          /\ network[b]' = network[b]
          /\ outputs[b]' = outputs[b]
          /\ NetOf[AddressOf[x]] = network[b].name
      BY <1>1 DEF AddInput, isTransferAddressInNetwork, IInv, TypeOK
    <3>3. /\ Len(Append(inputs[b], x)) = Len(inputs[b]) + 1
          /\ Len(inputs[b]) \in Nat
          /\ \A i \in 1..Len(inputs[b]) + 1 :
                Append(inputs[b], x)[i] = IF i = Len(inputs[b]) + 1 THEN x ELSE inputs[b][i]
      BY AppendProperties, LenProperties DEF IInv, TypeOK
    <3> QED
      BY <3>1, <3>2, <3>3 DEF OnNamedNetwork, ContentOf
  <2> QED
    BY <1>1, <2>2, <2>3, <2>4, ClearKeepsIInv DEF AddInput, clearIncompleteSigningHex
<1>2. ASSUME NEW b \in Builder, NEW x \in Output, AddOutput(b, x)
      PROVE  IInv'
  <2>1. Append(outputs[b], x) \in Seq(Output)
    BY AppendProperties DEF IInv, TypeOK
  <2>2. TypeOK'
    BY <1>2, <2>1 DEF AddOutput, clearIncompleteSigningHex, IInv, TypeOK
  <2>3. \A d \in Builder \ {b} : ContentOf(d)' = ContentOf(d)
    BY <1>2 DEF AddOutput, ContentOf, IInv, TypeOK
  <2>4. OnNamedNetwork(ContentOf(b))'
    <3>1. OnNamedNetwork(ContentOf(b))
      BY DEF IInv, FieldsInv
    <3>2. /\ outputs[b]' = Append(outputs[b], x)
          /\ network[b]' = network[b]
          /\ inputs[b]' = inputs[b]
          /\ NetOf[AddressOf[x]] = network[b].name
      BY <1>2 DEF AddOutput, isTransferAddressInNetwork, IInv, TypeOK
    <3>3. /\ Len(Append(outputs[b], x)) = Len(outputs[b]) + 1
          /\ Len(outputs[b]) \in Nat
          /\ \A i \in 1..Len(outputs[b]) + 1 :
                Append(outputs[b], x)[i] = IF i = Len(outputs[b]) + 1 THEN x ELSE outputs[b][i]
      BY AppendProperties, LenProperties DEF IInv, TypeOK
    <3> QED
      BY <3>1, <3>2, <3>3 DEF OnNamedNetwork, ContentOf
  <2> QED
    BY <1>2, <2>2, <2>3, <2>4, ClearKeepsIInv DEF AddOutput, clearIncompleteSigningHex
<1>3. ASSUME NEW b \in Builder, NEW x \in ViewKey, AddViewKey(b, x)
      PROVE  IInv'
  <2>1. Append(viewKeys[b], x) \in Seq(ViewKey)
    BY AppendProperties DEF IInv, TypeOK
  <2>2. TypeOK'
    BY <1>3, <2>1 DEF AddViewKey, clearIncompleteSigningHex, IInv, TypeOK
  <2>3. \A d \in Builder \ {b} : ContentOf(d)' = ContentOf(d)
    BY <1>3 DEF AddViewKey, ContentOf, IInv, TypeOK
  <2>4. OnNamedNetwork(ContentOf(b))'
    BY <1>3 DEF AddViewKey, ContentOf, OnNamedNetwork, IInv, FieldsInv
  <2> QED
    BY <1>3, <2>2, <2>3, <2>4, ClearKeepsIInv DEF AddViewKey, clearIncompleteSigningHex
<1>4. ASSUME NEW b \in Builder, NEW i \in DOMAIN inputs[b],
             NEW k \in KeyPair, SignInput(b, i, k)
      PROVE  IInv'
  <2> DEFINE hex == toIncompleteHex(b)
             w == WitnessOf(SignerAddress[k][network[b].name], hex)
  <2>1. WellSigned(hex) /\ hex.content = ContentOf(b) /\ hex.content.inputs = inputs[b]
    BY PreparedIsWellSigned
  <2>2. i \in 1..Len(hex.content.inputs)
    BY <2>1, LenProperties DEF IInv, TypeOK
  <2>3. w \in Witness
    <3>1. hex.content \in Content
      BY <2>1 DEF WellSigned, IncompleteHex
    <3>2. network[b].name \in Net
      BY DEF IInv, TypeOK
    <3> QED
      BY <3>1, <3>2, ConstantsAssumption DEF Witness, WitnessOf
  <2>4. Unlocks(w, hex, i)
    BY <1>4, <2>1 DEF SignInput, Unlocks, WitnessOf
  <2>5. WellSigned(WithWitness(hex, i, w)) /\ WithWitness(hex, i, w).content = ContentOf(b)
    BY <2>1, <2>2, <2>3, <2>4, WithWitnessIsWellSigned
  <2>6. /\ incompleteHex' = [incompleteHex EXCEPT ![b] = WithWitness(hex, i, w)]
        /\ exported' = None
        /\ UNCHANGED fields
    BY <1>4 DEF SignInput
  <2>7. Parseable(ContentOf(b))
    BY <1>4 DEF SignInput, CanPrepare, IInv, CacheInv
  <2> HIDE DEF hex, w
  <2> QED
    BY <2>5, <2>6, <2>7, StoreKeepsIInv
<1>5. ASSUME NEW b \in Builder, NEW i \in DOMAIN inputs[b],
             NEW w \in Offered, AddWitness(b, i, w)
      PROVE  IInv'
  BY <1>5, AddWitnessKeepsIInv
<1>6. ASSUME NEW b \in Builder, ToHex(b)
      PROVE  IInv'
  <2>1. /\ WellSigned(incompleteHex[b])
        /\ incompleteHex[b].content = ContentOf(b)
        /\ AllWitnessed(incompleteHex[b])
        /\ SufficientBalance(incompleteHex[b].content)
    BY <1>6 DEF ToHex, isCompleted, verify, IInv, CacheInv
  <2>2. TypeOK'
    BY <1>6, <2>1, WellSignedType DEF ToHex, fields, IInv, TypeOK
  <2>3. CacheInv' /\ FieldsInv'
    <3>1. /\ incompleteHex' = incompleteHex
          /\ \A d \in Builder : ContentOf(d)' = ContentOf(d)
      BY <1>6 DEF ToHex, fields, ContentOf
    <3>2. \A d \in Builder : isSigning(d)' => isSigning(d)
      BY <3>1 DEF isSigning
    <3> QED
      BY <3>1, <3>2 DEF IInv, CacheInv, FieldsInv
  <2>4. ExportedIsValid'
    <3>1. exported' = incompleteHex[b] /\ inputs[b] # <<>> /\ outputs[b] # <<>>
      BY <1>6 DEF ToHex
    <3> QED
      BY <2>1, <3>1 DEF ExportedIsValid, WellSigned, AllWitnessed, ContentOf, Unlocks,
                        SufficientBalance
  <2>5. ExportedOnOneNetwork'
    <3>1. exported' = incompleteHex[b] /\ inputs[b] # <<>>
      BY <1>6 DEF ToHex
    <3>2. OnNamedNetwork(ContentOf(b)) /\ Parseable(ContentOf(b))
      BY <1>6 DEF ToHex, isCompleted, IInv, CacheInv, FieldsInv
    <3>3. /\ inputs[b] \in Seq(Input) /\ outputs[b] \in Seq(Output)
          /\ DOMAIN inputs[b] = 1..Len(inputs[b])
          /\ DOMAIN outputs[b] = 1..Len(outputs[b])
          /\ 1 \in 1..Len(inputs[b])
      BY <3>1, LenProperties, EmptySeq DEF IInv, TypeOK
    <3>4. network[b].name = network[b].chain
      BY <3>2, <3>3 DEF OnNamedNetwork, Parseable, ContentOf
    <3>5. exported'.content = [network |-> network[b], inputs |-> inputs[b],
                               outputs |-> outputs[b], viewKeys |-> viewKeys[b]]
      BY <2>1, <3>1 DEF ContentOf
    <3>6. /\ \A i \in DOMAIN inputs[b] : NetOf[AddressOf[inputs[b][i]]] = network[b].name
          /\ \A i \in DOMAIN outputs[b] : NetOf[AddressOf[outputs[b][i]]] = network[b].name
      BY <3>2, <3>3 DEF OnNamedNetwork, ContentOf
    <3> QED
      BY <3>4, <3>5, <3>6 DEF ExportedOnOneNetwork
  <2> QED
    BY <2>2, <2>3, <2>4, <2>5 DEF IInv
<1>7. ASSUME NEW b \in Builder, NEW n \in Network, New(b, n)
      PROVE  IInv'
  <2>1. TypeOK'
    BY <1>7, EmptySeq DEF New, IInv, TypeOK
  <2>2. \A d \in Builder \ {b} : ContentOf(d)' = ContentOf(d)
    BY <1>7 DEF New, ContentOf, IInv, TypeOK
  <2>3. OnNamedNetwork(ContentOf(b))'
    BY <1>7, EmptySeq DEF New, ContentOf, OnNamedNetwork, IInv, TypeOK
  <2> QED
    BY <1>7, <2>1, <2>2, <2>3, ClearKeepsIInv DEF New
<1>8. ASSUME NEW b \in Builder, NEW c \in Builder \ {b}, Clone(c, b)
      PROVE  IInv'
  <2>1. TypeOK'
    BY <1>8 DEF Clone, IInv, TypeOK
  <2>2. CacheInv'
    <3> SUFFICES ASSUME NEW d \in Builder, isSigning(d)'
                 PROVE  /\ WellSigned(incompleteHex[d])'
                        /\ incompleteHex'[d].content = ContentOf(d)'
                        /\ Parseable(ContentOf(d))'
      BY DEF CacheInv
    <3>1. PICK e \in Builder : incompleteHex'[d] = incompleteHex[e] /\ ContentOf(d)' = ContentOf(e)
      BY <1>8 DEF Clone, IInv, TypeOK, ContentOf
    <3> QED
      BY <3>1 DEF IInv, CacheInv, isSigning, WellSigned, Unlocks, Parseable
  <2>3. ExportedIsValid' /\ ExportedOnOneNetwork'
    BY <1>8 DEF Clone, ExportedIsValid, ExportedOnOneNetwork
  <2>4. FieldsInv'
    <3> SUFFICES ASSUME NEW d \in Builder PROVE OnNamedNetwork(ContentOf(d))'
      BY DEF FieldsInv
    <3>1. PICK e \in Builder : ContentOf(d)' = ContentOf(e)
      BY <1>8 DEF Clone, IInv, TypeOK, ContentOf
    <3> QED
      BY <3>1 DEF IInv, FieldsInv, OnNamedNetwork
  <2> QED
    BY <2>1, <2>2, <2>3, <2>4 DEF IInv
<1>9. CASE UNCHANGED vars
  <2>1. TypeOK'
    BY <1>9 DEF vars, IInv, TypeOK
  <2>2. /\ incompleteHex' = incompleteHex /\ exported' = exported
        /\ \A d \in Builder : ContentOf(d)' = ContentOf(d)
    BY <1>9 DEF vars, ContentOf
  <2>3. CacheInv'
    <3>1. \A d \in Builder : isSigning(d)' => isSigning(d)
      BY <2>2 DEF isSigning
    <3> QED
      BY <2>2, <3>1 DEF IInv, CacheInv
  <2>4. FieldsInv'
    BY <2>2 DEF IInv, FieldsInv
  <2>5. ExportedIsValid' /\ ExportedOnOneNetwork'
    BY <2>2 DEF IInv, ExportedIsValid, ExportedOnOneNetwork
  <2> QED
    BY <2>1, <2>3, <2>4, <2>5 DEF IInv
<1> QED
  BY <1>1, <1>2, <1>3, <1>4, <1>5, <1>6, <1>7, <1>8, <1>9
     DEF Next, Edit, Collect, Assign

\* The invariant holds in every state a program can bring its builders to.
THEOREM Invariance == Spec => []IInv
BY InitIInv, NextIInv, PTL DEF Spec

\* The fields and the cache always have the types the code declares.
THEOREM TypeCorrect == Spec => []TypeOK
<1>1. IInv => TypeOK
  BY DEF IInv
<1> QED
  BY <1>1, Invariance, PTL

\* No cached transaction is ever stale, for any number of builders, clones and
\* failed calls.
THEOREM CacheCorrect == Spec => []CacheIsCurrent
<1>1. IInv => CacheIsCurrent
  BY DEF IInv, CacheInv, CacheIsCurrent, WellSigned, ContentOf
<1> QED
  BY <1>1, Invariance, PTL

\* No witness for an earlier content, or for another input, is ever held.
THEOREM WitnessesCorrect == Spec => []WitnessesCoverTxId
<1>1. IInv => WitnessesCoverTxId
  BY DEF IInv, CacheInv, WitnessesCoverTxId, WellSigned, Unlocks, ContentOf, txId
<1> QED
  BY <1>1, Invariance, PTL

\* Whatever the order of the calls, what toHex() returns is a transaction whose
\* every input is unlocked by its owner for exactly that transaction.
THEOREM ExportCorrect == Spec => []ExportedIsValid
<1>1. IInv => ExportedIsValid
  BY DEF IInv
<1> QED
  BY <1>1, Invariance, PTL

\* A transaction that mixes networks is never exported, whatever network
\* configuration a builder was given.
THEOREM NetworkCorrect == Spec => []ExportedOnOneNetwork
<1>1. IInv => ExportedOnOneNetwork
  BY DEF IInv
<1> QED
  BY <1>1, Invariance, PTL
-----------------------------------------------------------------------------
(* From that invariant: TransferBuilder implements SignedTxBuilder, and a  *)
(* signature once collected is kept until the transaction changes.         *)
(*                                                                         *)
(* What the promise sees of a builder is toIncompleteHex(), which is the   *)
(* cache or what the cache would be filled with; the lemmas say what each  *)
(* kind of call does to it.                                                *)

\* What the promise sees as the witnesses of a builder
Seen(b) == toIncompleteHex(b).witnesses

\* A call on one builder leaves what is seen of the others.
LEMMA OthersUnchanged ==
    ASSUME NEW b \in Builder,
           \A d \in Builder \ {b} :
              ContentOf(d)' = ContentOf(d) /\ incompleteHex'[d] = incompleteHex[d]
    PROVE  Promise!Others(b)
BY DEF Promise!Others, toIncompleteHex, isSigning

\* A call that drops the cache empties every slot of the promise, whatever it
\* does to the content (addInput, addOutput, addViewKey, the constructor).
LEMMA ClearIsEdit ==
    ASSUME IInv, NEW b \in Builder,
           incompleteHex' = [incompleteHex EXCEPT ![b] = None],
           exported' = None,
           \A d \in Builder \ {b} : ContentOf(d)' = ContentOf(d)
    PROVE  Promise!Edit(b)
<1>1. /\ incompleteHex'[b] = None
      /\ \A d \in Builder \ {b} : incompleteHex'[d] = incompleteHex[d]
  BY DEF IInv, TypeOK
<1>2. Promise!Others(b)
  BY <1>1, OthersUnchanged
<1>3. Seen(b)' = Promise!Empty(ContentOf(b)')
  BY <1>1 DEF Seen, toIncompleteHex, isSigning, Unsigned, Promise!Empty, NumInputs
<1> QED
  BY <1>2, <1>3 DEF Promise!Edit, Seen

\* A call that fills the cache with a well-signed transaction shows just that.
LEMMA StoredIsSeen ==
    ASSUME IInv, NEW b \in Builder, NEW hex, WellSigned(hex),
           incompleteHex' = [incompleteHex EXCEPT ![b] = hex],
           UNCHANGED fields
    PROVE  /\ Promise!Others(b)
           /\ \A d \in Builder : ContentOf(d)' = ContentOf(d)
           /\ Seen(b)' = hex.witnesses
           /\ isSigning(b)' /\ incompleteHex'[b] = hex
<1>1. hex # None
  BY NoneAssumption DEF WellSigned
<1>2. /\ incompleteHex'[b] = hex
      /\ \A d \in Builder \ {b} : incompleteHex'[d] = incompleteHex[d]
  BY DEF IInv, TypeOK
<1>3. \A d \in Builder : ContentOf(d)' = ContentOf(d)
  BY DEF fields, ContentOf
<1>4. Promise!Others(b)
  BY <1>2, <1>3, OthersUnchanged
<1> QED
  BY <1>1, <1>2, <1>3, <1>4 DEF Seen, toIncompleteHex, isSigning

\* Storing a witness changes one slot.
LEMMA WithWitnessSlots ==
    ASSUME NEW hex, WellSigned(hex), NEW i \in 1..Len(hex.content.inputs), NEW w \in Witness
    PROVE  /\ WithWitness(hex, i, w).witnesses[i] = w
           /\ \A j \in 1..Len(hex.content.inputs) \ {i} :
                 WithWitness(hex, i, w).witnesses[j] = hex.witnesses[j]
           /\ DOMAIN hex.witnesses = 1..Len(hex.content.inputs)
<1>1. /\ hex \in [content : Content, witnesses : Seq(Witness \cup {None})]
      /\ Len(hex.witnesses) = Len(hex.content.inputs)
      /\ DOMAIN hex.witnesses = 1..Len(hex.witnesses)
  BY LenProperties DEF WellSigned, IncompleteHex
<1>2. WithWitness(hex, i, w) = [hex EXCEPT !.witnesses = [hex.witnesses EXCEPT ![i] = w]]
  BY DEF WithWitness
<1>3. "witnesses" \in DOMAIN hex /\ i \in DOMAIN hex.witnesses
  BY <1>1
<1>4. WithWitness(hex, i, w).witnesses = [hex.witnesses EXCEPT ![i] = w]
  BY <1>2, <1>3
<1> QED
  BY <1>1, <1>3, <1>4

\* A signing call that fills slot i of the prepared transaction.
LEMMA StoreWitness ==
    ASSUME IInv, NEW b \in Builder, NEW i \in DOMAIN inputs[b], NEW w \in Witness,
           Unlocks(w, toIncompleteHex(b), i),
           incompleteHex' = [incompleteHex EXCEPT ![b] = WithWitness(toIncompleteHex(b), i, w)],
           exported' = None, UNCHANGED fields
    PROVE  /\ Promise!Attach(b, i) /\ i \in 1..NumInputs(ContentOf(b))
           /\ isSigning(b)'
           /\ incompleteHex'[b].witnesses[i] # None
           /\ \A j \in DOMAIN inputs[b] \ {i} : incompleteHex'[b].witnesses[j] = Seen(b)[j]
<1> DEFINE hex == toIncompleteHex(b)
<1>1. WellSigned(hex) /\ hex.content = ContentOf(b) /\ hex.content.inputs = inputs[b]
  BY PreparedIsWellSigned
<1>2. i \in 1..Len(hex.content.inputs) /\ DOMAIN inputs[b] = 1..Len(inputs[b])
  BY <1>1, LenProperties DEF IInv, TypeOK
<1>3. hex.witnesses = Seen(b)
  BY DEF Seen
<1>4. Unlocks(w, hex, i)
  OBVIOUS
<1> HIDE DEF hex
<1>5. /\ WithWitness(hex, i, w).witnesses[i] = w
      /\ \A j \in 1..Len(hex.content.inputs) \ {i} :
            WithWitness(hex, i, w).witnesses[j] = hex.witnesses[j]
  BY <1>1, <1>2, WithWitnessSlots
<1>6. WellSigned(WithWitness(hex, i, w))
  BY <1>1, <1>2, <1>4, WithWitnessIsWellSigned
<1>7. incompleteHex' = [incompleteHex EXCEPT ![b] = WithWitness(hex, i, w)]
  BY DEF hex
<1>8. /\ Promise!Others(b)
      /\ \A d \in Builder : ContentOf(d)' = ContentOf(d)
      /\ Seen(b)' = WithWitness(hex, i, w).witnesses
      /\ isSigning(b)' /\ incompleteHex'[b] = WithWitness(hex, i, w)
  BY <1>6, <1>7, StoredIsSeen
<1>9. w # None
  BY NoneAssumption
<1>10. Acceptable(ContentOf(b), i, Seen(b)'[i])
  BY <1>1, <1>4, <1>5, <1>8, <1>9 DEF Acceptable, Unlocks
<1>11. NumInputs(ContentOf(b)) = Len(hex.content.inputs)
  BY <1>1 DEF NumInputs
<1> QED
  BY <1>1, <1>2, <1>3, <1>5, <1>8, <1>9, <1>10, <1>11 DEF Promise!Attach, Seen

\* A signing call that throws after it has prepared the transaction.
LEMMA StorePrepared ==
    ASSUME IInv, NEW b \in Builder,
           incompleteHex' = [incompleteHex EXCEPT ![b] = toIncompleteHex(b)],
           exported' = None, UNCHANGED fields
    PROVE  /\ Promise!Idle
           /\ isSigning(b)'
           /\ incompleteHex'[b].witnesses = Seen(b)
<1>1. WellSigned(toIncompleteHex(b))
  BY PreparedIsWellSigned
<1>2. /\ Promise!Others(b)
      /\ \A d \in Builder : ContentOf(d)' = ContentOf(d)
      /\ Seen(b)' = Seen(b)
      /\ isSigning(b)' /\ incompleteHex'[b] = toIncompleteHex(b)
  BY <1>1, StoredIsSeen DEF Seen
<1> QED
  BY <1>2 DEF Promise!Idle, Promise!Others, Seen

\* signInput() fills the slot of its input with a witness that unlocks it.
LEMMA SignedSlot ==
    ASSUME IInv, NEW b \in Builder, NEW i \in DOMAIN inputs[b], NEW k \in KeyPair,
           SignInput(b, i, k)
    PROVE  /\ Promise!Attach(b, i) /\ i \in 1..NumInputs(ContentOf(b))
           /\ isSigning(b)'
           /\ incompleteHex'[b].witnesses[i] # None
           /\ \A j \in DOMAIN inputs[b] \ {i} : incompleteHex'[b].witnesses[j] = Seen(b)[j]
<1> DEFINE hex == toIncompleteHex(b)
           w == WitnessOf(SignerAddress[k][network[b].name], hex)
<1>1. WellSigned(hex) /\ hex.content = ContentOf(b) /\ hex.content.inputs = inputs[b]
  BY PreparedIsWellSigned
<1>2. w \in Witness
  <2>1. hex.content \in Content
    BY <1>1 DEF WellSigned, IncompleteHex
  <2>2. network[b].name \in Net
    BY ConstantsAssumption DEF IInv, TypeOK
  <2> QED
    BY <2>1, <2>2, ConstantsAssumption DEF Witness, WitnessOf
<1>3. Unlocks(w, hex, i)
  BY <1>1 DEF SignInput, Unlocks, WitnessOf
<1>4. /\ incompleteHex' = [incompleteHex EXCEPT ![b] = WithWitness(hex, i, w)]
      /\ exported' = None /\ UNCHANGED fields
  BY DEF SignInput
<1> HIDE DEF w
<1> QED
  BY <1>2, <1>3, <1>4, StoreWitness

-----------------------------------------------------------------------------
(* Refinement *)

\* The initial states of the builders are those of their promise.
LEMMA InitRefines == Init => Promise!Init
<1> SUFFICES ASSUME Init PROVE Promise!Init
  OBVIOUS
<1>1. \A b \in Builder : Seen(b) = Promise!Empty(ContentOf(b))
  BY DEF Init, Seen, toIncompleteHex, isSigning, Unsigned, Promise!Empty, NumInputs
<1> QED
  BY <1>1 DEF Init, Promise!Init, Seen

\* addWitness() fills the slot, or has no effect a caller sees, whatever
\* witness it is given.
LEMMA AddWitnessRefines ==
    ASSUME IInv, NEW b \in Builder, NEW i \in DOMAIN inputs[b],
           NEW w \in Witness, AddWitness(b, i, w)
    PROVE  Promise!Idle \/ (Promise!Attach(b, i) /\ i \in 1..NumInputs(ContentOf(b)))
<1>1. CASE Unlocks(w, toIncompleteHex(b), i)
  BY <1>1, StoreWitness DEF AddWitness
<1>2. CASE ~Unlocks(w, toIncompleteHex(b), i)
  BY <1>2, StorePrepared DEF AddWitness
<1> QED
  BY <1>1, <1>2

\* Every call is a step of the promise.
LEMMA NextRefines == IInv /\ [Next]_vars => [Promise!Next]_Promise!vars
<1> SUFFICES ASSUME IInv, [Next]_vars PROVE [Promise!Next]_Promise!vars
  OBVIOUS
<1>1. ASSUME NEW b \in Builder, Edit(b)
      PROVE  Promise!Edit(b)
  <2>1. /\ incompleteHex' = [incompleteHex EXCEPT ![b] = None]
        /\ exported' = None
    BY <1>1 DEF Edit, AddInput, AddOutput, AddViewKey, clearIncompleteSigningHex
  <2>2. \A d \in Builder \ {b} : ContentOf(d)' = ContentOf(d)
    <3>1. ASSUME NEW x \in Input, AddInput(b, x)
          PROVE  \A d \in Builder \ {b} : ContentOf(d)' = ContentOf(d)
      BY <3>1 DEF AddInput, ContentOf, IInv, TypeOK
    <3>2. ASSUME NEW x \in Output, AddOutput(b, x)
          PROVE  \A d \in Builder \ {b} : ContentOf(d)' = ContentOf(d)
      BY <3>2 DEF AddOutput, ContentOf, IInv, TypeOK
    <3>3. ASSUME NEW x \in ViewKey, AddViewKey(b, x)
          PROVE  \A d \in Builder \ {b} : ContentOf(d)' = ContentOf(d)
      BY <3>3 DEF AddViewKey, ContentOf, IInv, TypeOK
    <3> QED
      BY <1>1, <3>1, <3>2, <3>3 DEF Edit
  <2> QED
    BY <2>1, <2>2, ClearIsEdit
<1>2. ASSUME NEW b \in Builder, NEW n \in Network, New(b, n)
      PROVE  Promise!Edit(b)
  <2>1. \A d \in Builder \ {b} : ContentOf(d)' = ContentOf(d)
    BY <1>2 DEF New, ContentOf, IInv, TypeOK
  <2> QED
    BY <1>2, <2>1, ClearIsEdit DEF New
<1>3. ASSUME NEW b \in Builder, NEW c \in Builder \ {b}, Clone(c, b)
      PROVE  Promise!Copy(b, c)
  <2>1. /\ ContentOf(b)' = ContentOf(c) /\ incompleteHex'[b] = incompleteHex[c]
        /\ \A d \in Builder \ {b} :
              ContentOf(d)' = ContentOf(d) /\ incompleteHex'[d] = incompleteHex[d]
    BY <1>3 DEF Clone, ContentOf, IInv, TypeOK
  <2>2. Promise!Others(b)
    BY <2>1, OthersUnchanged
  <2>3. Seen(b)' = Seen(c)
    BY <2>1 DEF Seen, toIncompleteHex, isSigning
  <2> QED
    BY <1>3, <2>1, <2>2, <2>3 DEF Clone, Promise!Copy, Seen
<1>4. ASSUME NEW b \in Builder, NEW i \in DOMAIN inputs[b], NEW k \in KeyPair, SignInput(b, i, k)
      PROVE  Promise!Attach(b, i) /\ i \in 1..NumInputs(ContentOf(b))
  BY <1>4, SignedSlot
<1>5. ASSUME NEW b \in Builder, NEW i \in DOMAIN inputs[b], NEW w \in Offered, AddWitness(b, i, w)
      PROVE  Promise!Idle \/ (Promise!Attach(b, i) /\ i \in 1..NumInputs(ContentOf(b)))
  BY <1>5, AddWitnessRefines, OfferedAssumption
<1>6. ASSUME NEW b \in Builder, ToHex(b)
      PROVE  Promise!Export(b)
  <2>1. /\ isSigning(b)
        /\ WellSigned(incompleteHex[b])
        /\ incompleteHex[b].content = ContentOf(b)
        /\ AllWitnessed(incompleteHex[b])
    BY <1>6 DEF ToHex, isCompleted, IInv, CacheInv
  <2>2. /\ Seen(b) = incompleteHex[b].witnesses
        /\ exported' = [content |-> ContentOf(b), witnesses |-> Seen(b)]
    BY <1>6, <2>1 DEF ToHex, Seen, toIncompleteHex, WellSigned, IncompleteHex
  <2>3. \A i \in 1..NumInputs(ContentOf(b)) : Seen(b)[i] # None
    <3>1. DOMAIN incompleteHex[b].witnesses = 1..NumInputs(ContentOf(b))
      BY <2>1, LenProperties DEF WellSigned, IncompleteHex, NumInputs
    <3> QED
      BY <2>1, <2>2, <3>1 DEF AllWitnessed
  <2>4. \A d \in Builder : ContentOf(d)' = ContentOf(d) /\ Seen(d)' = Seen(d)
    BY <1>6 DEF ToHex, fields, ContentOf, Seen, toIncompleteHex, isSigning
  <2> QED
    BY <2>2, <2>3, <2>4 DEF Promise!Export, Seen
<1>7. CASE UNCHANGED vars
  BY <1>7 DEF vars, ContentOf, toIncompleteHex, isSigning, Promise!vars
<1>8. CASE Next
  <2>1. Promise!Next
    BY <1>1, <1>2, <1>3, <1>4, <1>5, <1>6, <1>8 DEF Next, Collect, Assign, Promise!Next
  <2> QED
    BY <2>1
<1> QED
  BY <1>7, <1>8

\* Builders of transfers, any number of them, implement their promise: a caller
\* cannot tell them from builders without a cache.
THEOREM Refinement == Spec => ImplementsPromise
BY Invariance, InitRefines, NextRefines, PTL DEF Spec, ImplementsPromise, Promise!Spec

-----------------------------------------------------------------------------
(* What signing may never do *)

\* What SignaturesAreKept says of one builder
Kept(b) ==
    \/ Assign(b)
    \/ ContentOf(b)' # ContentOf(b)
    \/ ~isSigning(b)
    \/ /\ isSigning(b)'
       /\ \A i \in DOMAIN incompleteHex[b].witnesses :
             incompleteHex[b].witnesses[i] # None => incompleteHex'[b].witnesses[i] # None

\* A builder a call does not touch keeps its signatures.
LEMMA UntouchedKept ==
    ASSUME NEW b, incompleteHex'[b] = incompleteHex[b]
    PROVE  Kept(b)
BY DEF Kept, isSigning

\* A call that leaves every slot but i as it was, and fills slot i or leaves it
\* too, loses no signature.
LEMMA SlotKept ==
    ASSUME IInv, NEW b \in Builder, NEW i \in DOMAIN inputs[b], isSigning(b)',
           \A j \in DOMAIN inputs[b] \ {i} : incompleteHex'[b].witnesses[j] = Seen(b)[j],
           \/ incompleteHex'[b].witnesses[i] # None
           \/ incompleteHex'[b].witnesses[i] = Seen(b)[i]
    PROVE  Kept(b)
<1> SUFFICES ASSUME isSigning(b), NEW j \in DOMAIN incompleteHex[b].witnesses,
                    incompleteHex[b].witnesses[j] # None
             PROVE  incompleteHex'[b].witnesses[j] # None
  BY DEF Kept
<1>1. Seen(b) = incompleteHex[b].witnesses
  BY DEF Seen, toIncompleteHex
<1>2. DOMAIN incompleteHex[b].witnesses = DOMAIN inputs[b]
  <2>1. WellSigned(incompleteHex[b]) /\ incompleteHex[b].content.inputs = inputs[b]
    <3>1. WellSigned(incompleteHex[b]) /\ incompleteHex[b].content = ContentOf(b)
      BY DEF IInv, CacheInv
    <3> QED
      BY <3>1 DEF ContentOf
  <2>2. Len(incompleteHex[b].witnesses) = Len(inputs[b])
    BY <2>1 DEF WellSigned
  <2>3. incompleteHex[b].witnesses \in Seq(Witness \cup {None})
    BY <2>1 DEF WellSigned, IncompleteHex
  <2>4. inputs[b] \in Seq(Input)
    BY DEF IInv, TypeOK
  <2>5. DOMAIN inputs[b] = 1..Len(inputs[b])
    BY <2>4, LenProperties
  <2>6. DOMAIN incompleteHex[b].witnesses = 1..Len(incompleteHex[b].witnesses)
    BY <2>3, LenProperties
  <2> QED
    BY <2>2, <2>5, <2>6
<1> QED
  BY <1>1, <1>2

\* addWitness() loses no signature, whatever witness it is given, and whether it
\* takes it or throws.
LEMMA AddWitnessKept ==
    ASSUME IInv, NEW b \in Builder, NEW i \in DOMAIN inputs[b],
           NEW w \in Witness, AddWitness(b, i, w), NEW d \in Builder
    PROVE  Kept(d)
<1>1. CASE d # b
  <2>1. incompleteHex'[d] = incompleteHex[d]
    BY <1>1 DEF AddWitness, IInv, TypeOK
  <2> QED
    BY <2>1, UntouchedKept
<1>2. Kept(b)
  <2>1. CASE Unlocks(w, toIncompleteHex(b), i)
    <3>1. /\ incompleteHex' = [incompleteHex EXCEPT ![b] = WithWitness(toIncompleteHex(b), i, w)]
          /\ exported' = None /\ UNCHANGED fields
      BY <2>1 DEF AddWitness
    <3>2. /\ isSigning(b)' /\ incompleteHex'[b].witnesses[i] # None
          /\ \A j \in DOMAIN inputs[b] \ {i} : incompleteHex'[b].witnesses[j] = Seen(b)[j]
      BY <2>1, <3>1, StoreWitness
    <3> QED
      BY <3>2, SlotKept
  <2>2. CASE ~Unlocks(w, toIncompleteHex(b), i)
    <3>1. /\ incompleteHex' = [incompleteHex EXCEPT ![b] = toIncompleteHex(b)]
          /\ exported' = None /\ UNCHANGED fields
      BY <2>2 DEF AddWitness
    <3>2. isSigning(b)' /\ incompleteHex'[b].witnesses = Seen(b)
      BY <3>1, StorePrepared
    <3> QED
      BY <3>2, SlotKept
  <2> QED
    BY <2>1, <2>2
<1> QED
  BY <1>1, <1>2

\* No call loses a signature.
LEMMA NextKeeps ==
    ASSUME IInv, [Next]_vars, NEW d \in Builder
    PROVE  Kept(d)
<1>1. ASSUME NEW b \in Builder, Edit(b)
      PROVE  Kept(d)
  <2>1. CASE d # b
    <3>1. incompleteHex'[d] = incompleteHex[d]
      BY <1>1, <2>1 DEF Edit, AddInput, AddOutput, AddViewKey, clearIncompleteSigningHex,
                        IInv, TypeOK
    <3> QED
      BY <3>1, UntouchedKept
  <2>2. CASE d = b
    <3>1. ASSUME NEW x \in Input, AddInput(b, x) PROVE ContentOf(b)' # ContentOf(b)
      <4>1. inputs'[b] = Append(inputs[b], x)
        BY <3>1 DEF AddInput, IInv, TypeOK
      <4>2. Len(Append(inputs[b], x)) # Len(inputs[b])
        BY AppendProperties, LenProperties DEF IInv, TypeOK
      <4> QED
        BY <4>1, <4>2 DEF ContentOf
    <3>2. ASSUME NEW x \in Output, AddOutput(b, x) PROVE ContentOf(b)' # ContentOf(b)
      <4>1. outputs'[b] = Append(outputs[b], x)
        BY <3>2 DEF AddOutput, IInv, TypeOK
      <4>2. Len(Append(outputs[b], x)) # Len(outputs[b])
        BY AppendProperties, LenProperties DEF IInv, TypeOK
      <4> QED
        BY <4>1, <4>2 DEF ContentOf
    <3>3. ASSUME NEW x \in ViewKey, AddViewKey(b, x) PROVE ContentOf(b)' # ContentOf(b)
      <4>1. viewKeys'[b] = Append(viewKeys[b], x)
        BY <3>3 DEF AddViewKey, IInv, TypeOK
      <4>2. Len(Append(viewKeys[b], x)) # Len(viewKeys[b])
        BY AppendProperties, LenProperties DEF IInv, TypeOK
      <4> QED
        BY <4>1, <4>2 DEF ContentOf
    <3> QED
      BY <1>1, <2>2, <3>1, <3>2, <3>3 DEF Edit, Kept
  <2> QED
    BY <2>1, <2>2
<1>2. ASSUME NEW b \in Builder, Assign(b)
      PROVE  Kept(d)
  <2>1. CASE d = b
    BY <1>2, <2>1 DEF Kept
  <2>2. CASE d # b
    <3>1. incompleteHex'[d] = incompleteHex[d]
      BY <1>2, <2>2 DEF Assign, New, Clone, IInv, TypeOK
    <3> QED
      BY <3>1, UntouchedKept
  <2> QED
    BY <2>1, <2>2
<1>3. ASSUME NEW b \in Builder, Collect(b)
      PROVE  Kept(d)
  <2>1. CASE d # b
    <3>1. incompleteHex'[d] = incompleteHex[d]
      BY <1>3, <2>1 DEF Collect, SignInput, AddWitness, ToHex, IInv, TypeOK
    <3> QED
      BY <3>1, UntouchedKept
  <2>2. ASSUME NEW i \in DOMAIN inputs[b], NEW k \in KeyPair, SignInput(b, i, k)
        PROVE  Kept(b)
    BY <2>2, SlotKept, SignedSlot
  <2>3. ASSUME NEW i \in DOMAIN inputs[b], NEW w \in Offered, AddWitness(b, i, w)
        PROVE  Kept(b)
    BY <2>3, AddWitnessKept, OfferedAssumption
  <2>4. ASSUME ToHex(b)
        PROVE  Kept(b)
    BY <2>4, UntouchedKept DEF ToHex
  <2> QED
    BY <1>3, <2>1, <2>2, <2>3, <2>4 DEF Collect
<1>4. CASE UNCHANGED vars
  BY <1>4, UntouchedKept DEF vars
<1> QED
  BY <1>1, <1>2, <1>3, <1>4 DEF Next

\* Whatever callers do, in any order and with any witness, a signature that was
\* collected stays until the transaction is changed or replaced.
THEOREM SignaturesKept == Spec => SignaturesAreKept
<1>1. IInv /\ [Next]_vars => [\A b \in Builder : Kept(b)]_vars
  BY NextKeeps
<1>2. Spec => [][\A b \in Builder : Kept(b)]_vars
  BY <1>1, Invariance, PTL DEF Spec
<1> QED
  BY <1>2 DEF SignaturesAreKept, Kept

\* toHex() would return the transaction: the guards of the call
Ready(b) == isCompleted(b) /\ verify(b)

\* A builder that is ready is so until its transaction is changed or replaced
StaysReady(b) ==
    Ready(b) => Assign(b) \/ ContentOf(b)' # ContentOf(b) \/ Ready(b)'

\* A builder that keeps its signatures and its content stays ready.
LEMMA KeptStaysReady ==
    ASSUME IInv, IInv', NEW b \in Builder, Kept(b)
    PROVE  StaysReady(b)
<1> SUFFICES ASSUME Ready(b), ~Assign(b), ContentOf(b)' = ContentOf(b)
             PROVE  Ready(b)'
  BY DEF StaysReady
<1>1. isSigning(b) /\ AllWitnessed(incompleteHex[b])
  BY DEF Ready, isCompleted
<1>2. /\ isSigning(b)'
      /\ \A i \in DOMAIN incompleteHex[b].witnesses :
            incompleteHex[b].witnesses[i] # None => incompleteHex'[b].witnesses[i] # None
  BY <1>1 DEF Kept
<1>3. /\ WellSigned(incompleteHex[b]) /\ WellSigned(incompleteHex'[b])
      /\ incompleteHex[b].content = ContentOf(b) /\ incompleteHex'[b].content = ContentOf(b)
  BY <1>1, <1>2 DEF IInv, CacheInv, WellSigned, Unlocks, isSigning
<1>4. DOMAIN incompleteHex'[b].witnesses = DOMAIN incompleteHex[b].witnesses
  <2>1. /\ incompleteHex[b].witnesses \in Seq(Witness \cup {None})
        /\ incompleteHex'[b].witnesses \in Seq(Witness \cup {None})
        /\ Len(incompleteHex'[b].witnesses) = Len(incompleteHex[b].witnesses)
    BY <1>3 DEF WellSigned, IncompleteHex
  <2> QED
    BY <2>1, LenProperties
<1>5. isCompleted(b)'
  BY <1>1, <1>2, <1>4 DEF isCompleted, AllWitnessed
<1>6. inputs'[b] = inputs[b] /\ outputs'[b] = outputs[b]
  BY DEF ContentOf
<1>7. SufficientBalance(ContentOf(b))
  BY <1>3 DEF Ready, verify
<1>8. SufficientBalance(incompleteHex'[b].content)
  BY <1>3, <1>7
<1>9. verify(b)'
  <2>1. inputs[b] # <<>> /\ outputs[b] # <<>>
    BY DEF Ready, verify
  <2> QED
    BY <1>2, <1>6, <1>8, <2>1 DEF verify, SufficientBalance
<1> QED
  BY <1>5, <1>9 DEF Ready

\* A builder that toHex() would export stays one until the transaction is changed
\* or replaced: a call that fails, a repeated signInput() and a witness for another
\* input or another transaction never make a broadcastable transaction unready.
THEOREM ReadyUntilEdited == Spec => [][\A b \in Builder : StaysReady(b)]_vars
<1>1. IInv /\ IInv' /\ [Next]_vars => [\A b \in Builder : StaysReady(b)]_vars
  BY NextKeeps, KeptStaysReady
<1> QED
  BY <1>1, Invariance, PTL DEF Spec

\* The addon can build a builder's transaction exactly when there is no address in
\* it, or the chain id is that of the network the builder has by name.
ParseableIsOneNetwork ==
    \A b \in Builder :
        Parseable(ContentOf(b)) <=>
            (inputs[b] # <<>> \/ outputs[b] # <<>> => network[b].name = network[b].chain)

\* Whether a builder can prepare its transaction is settled by its network once it has
\* one address, whatever was added in whatever order.  RefusalsExactlyCorrect shows the
\* same of the parsers, argument by argument.
THEOREM ParseableExactly == Spec => []ParseableIsOneNetwork
<1>1. IInv => ParseableIsOneNetwork
  <2> SUFFICES ASSUME IInv, NEW b \in Builder
               PROVE  Parseable(ContentOf(b)) <=>
                        (inputs[b] # <<>> \/ outputs[b] # <<>> => network[b].name = network[b].chain)
    BY DEF ParseableIsOneNetwork
  <2>1. inputs[b] \in Seq(Input) /\ outputs[b] \in Seq(Output)
    BY DEF IInv, TypeOK
  <2>2. ASSUME NEW S, NEW q \in Seq(S)
        PROVE  DOMAIN q = 1..Len(q) /\ (q # <<>> <=> 1 \in DOMAIN q) /\ (q = <<>> => DOMAIN q = {})
    <3>1. Len(q) \in Nat /\ DOMAIN q = 1..Len(q) /\ (q = <<>> <=> Len(q) = 0)
      BY LenProperties, EmptySeq
    <3>2. Len(q) # 0 <=> 1 \in DOMAIN q
      BY <3>1
    <3>3. Len(q) = 0 => DOMAIN q = {}
      BY <3>1
    <3> QED
      BY <3>1, <3>2, <3>3, Zenon
  <2>3. /\ \A i \in DOMAIN inputs[b] : NetOf[AddressOf[inputs[b][i]]] = network[b].name
        /\ \A i \in DOMAIN outputs[b] : NetOf[AddressOf[outputs[b][i]]] = network[b].name
    BY <2>1, <2>2 DEF IInv, FieldsInv, OnNamedNetwork, ContentOf
  <2>4. Parseable(ContentOf(b)) <=>
            /\ \A i \in DOMAIN inputs[b] : NetOf[AddressOf[inputs[b][i]]] = network[b].chain
            /\ \A i \in DOMAIN outputs[b] : NetOf[AddressOf[outputs[b][i]]] = network[b].chain
    BY DEF Parseable, ContentOf
  <2> QED
    BY <2>1, <2>2, <2>3, <2>4, Zenon
<1> QED
  BY <1>1, Invariance, PTL
=============================================================================
