------------------------ MODULE DepositBuilderProofs ------------------------
(***************************************************************************)
(* Proofs about DepositBuilder for any number of builders, pointers, keys  *)
(* and offered buffers, and lists of any length.                           *)
(*                                                                         *)
(* The properties the runs check are inductive together, once it is added  *)
(* that the witnesses are as many as the inputs they belong to.            *)
(***************************************************************************)
EXTENDS DepositBuilder, SequenceTheorems, TLAPS

SlotPerInput == \A b \in Builder : Len(witnesses[b]) = Len(inputs[b])

IInv == TypeOK /\ SlotPerInput /\ RawTxIsCurrent /\ SignedSlotsAreCurrent /\ ExportedIsSigned

-----------------------------------------------------------------------------
(* The operators *)

\* Adding an input empties every slot there is and makes one more
\* (the loop and the push of addInput()).
LEMMA ClearedSlots ==
    ASSUME IInv, NEW b \in Builder
    PROVE  /\ ClearedAndPushed(b) \in Seq(Slot \cup {None})
           /\ Len(ClearedAndPushed(b)) = Len(inputs[b]) + 1
           /\ \A i \in 1..Len(inputs[b]) + 1 : ClearedAndPushed(b)[i] = None
<1> DEFINE cleared == [i \in DOMAIN witnesses[b] |-> None]
<1>1. /\ DOMAIN witnesses[b] = 1..Len(inputs[b])
      /\ Len(inputs[b]) \in Nat
  BY LenProperties DEF IInv, TypeOK, SlotPerInput
<1>2. cleared \in Seq(Slot \cup {None})
  BY <1>1, IsASeq
<1>3. Len(cleared) = Len(inputs[b])
  BY <1>1, <1>2, LenProperties
<1> HIDE DEF cleared
<1>4. /\ Append(cleared, None) \in Seq(Slot \cup {None})
      /\ Len(Append(cleared, None)) = Len(cleared) + 1
      /\ \A i \in 1..Len(cleared) : Append(cleared, None)[i] = cleared[i]
      /\ Append(cleared, None)[Len(cleared) + 1] = None
  BY <1>2, AppendProperties
<1>5. \A i \in 1..Len(inputs[b]) : cleared[i] = None
  BY <1>1 DEF cleared
<1> QED
  BY <1>1, <1>3, <1>4, <1>5 DEF ClearedAndPushed, cleared

\* Preparing finds or makes the raw transaction of the present content.
LEMMA PreparedIsContent ==
    ASSUME IInv, NEW b \in Builder
    PROVE  Prepared(b) = ContentOf(b) /\ ContentOf(b) \in Content
BY DEF IInv, TypeOK, RawTxIsCurrent, Prepared, ContentOf, Content

-----------------------------------------------------------------------------
(* The inductive invariant *)

\* The invariant holds in a program that has just created its builders.
LEMMA InitIInv == Init => IInv
BY EmptySeq DEF Init, IInv, TypeOK, SlotPerInput, RawTxIsCurrent, SignedSlotsAreCurrent,
                ExportedIsSigned

\* A call that prepares a builder and leaves its content and its slots keeps
\* what is said of them (txId(), toHex()).
LEMMA PrepareKeeps ==
    ASSUME IInv, NEW b \in Builder,
           rawTx' = [rawTx EXCEPT ![b] = Prepared(b)],
           UNCHANGED <<stakingAddress, inputs, witnesses>>
    PROVE  /\ rawTx' \in [Builder -> Content \cup {None}]
           /\ SlotPerInput' /\ RawTxIsCurrent' /\ SignedSlotsAreCurrent'
<1>1. Prepared(b) = ContentOf(b) /\ ContentOf(b) \in Content
  BY PreparedIsContent
<1>2. rawTx' \in [Builder -> Content \cup {None}]
  BY <1>1 DEF IInv, TypeOK
<1>3. RawTxIsCurrent'
  BY <1>1 DEF IInv, TypeOK, RawTxIsCurrent, ContentOf
<1>4. SlotPerInput' /\ SignedSlotsAreCurrent'
  BY DEF IInv, SlotPerInput, SignedSlotsAreCurrent, ContentOf
<1> QED
  BY <1>2, <1>3, <1>4

\* Storing a witness in one slot keeps the slots in order, if what signInput()
\* stores covers the present content.
LEMMA StoreKeeps ==
    ASSUME IInv, NEW b \in Builder, NEW i \in DOMAIN inputs[b],
           NEW origin \in {"signInput", "addWitness"},
           NEW bytes \in Signature \cup Undecodable,
           origin = "signInput" => bytes.txId = ContentOf(b),
           Store(b, i, origin, bytes), UNCHANGED <<stakingAddress, inputs>>
    PROVE  /\ witnesses' \in [Builder -> Seq(Slot \cup {None})]
           /\ SlotPerInput' /\ SignedSlotsAreCurrent'
<1> DEFINE slot == [origin |-> origin, bytes |-> bytes]
           new == [witnesses[b] EXCEPT ![i] = slot]
<1>1. slot \in Slot
  BY DEF Slot
<1>2. /\ witnesses[b] \in Seq(Slot \cup {None})
      /\ i \in 1..Len(witnesses[b])
      /\ DOMAIN witnesses[b] = 1..Len(witnesses[b])
  BY LenProperties DEF IInv, TypeOK, SlotPerInput
<1>3. /\ new \in Seq(Slot \cup {None})
      /\ Len(new) = Len(witnesses[b])
      /\ \A j \in 1..Len(witnesses[b]) :
            new[j] = IF j = i THEN slot ELSE witnesses[b][j]
  BY <1>1, <1>2, ExceptSeq
<1>4. witnesses' = [witnesses EXCEPT ![b] = new]
  BY DEF Store
<1> HIDE DEF new
<1>5. witnesses' \in [Builder -> Seq(Slot \cup {None})]
  BY <1>3, <1>4 DEF IInv, TypeOK
<1>6. SlotPerInput'
  BY <1>3, <1>4 DEF IInv, TypeOK, SlotPerInput
<1>7. SignedSlotsAreCurrent'
  <2> SUFFICES ASSUME NEW d \in Builder, NEW j \in DOMAIN witnesses'[d],
                      witnesses'[d][j] # None, witnesses'[d][j].origin = "signInput"
               PROVE  witnesses'[d][j].bytes.txId = ContentOf(d)
    BY DEF SignedSlotsAreCurrent, ContentOf
  <2>1. CASE d = b
    <3>1. witnesses'[d] = new
      BY <1>4, <2>1 DEF IInv, TypeOK
    <3>2. j \in 1..Len(witnesses[b])
      BY <1>3, <3>1, LenProperties
    <3>3. CASE j = i
      BY <1>3, <2>1, <3>1, <3>2, <3>3
    <3>4. CASE j # i
      <4>1. witnesses'[d][j] = witnesses[b][j] /\ j \in DOMAIN witnesses[b]
        BY <1>2, <1>3, <3>1, <3>2, <3>4
      <4> QED
        BY <2>1, <4>1 DEF IInv, SignedSlotsAreCurrent
    <3> QED
      BY <3>3, <3>4
  <2>2. CASE d # b
    <3>1. witnesses'[d] = witnesses[d]
      BY <1>4, <2>2 DEF IInv, TypeOK
    <3> QED
      BY <3>1 DEF IInv, SignedSlotsAreCurrent
  <2> QED
    BY <2>1, <2>2
<1> QED
  BY <1>5, <1>6, <1>7

\* Every call keeps the invariant.
LEMMA NextIInv == IInv /\ [Next]_vars => IInv'
<1> SUFFICES ASSUME IInv, [Next]_vars PROVE IInv'
  OBVIOUS
<1>1. ASSUME NEW b \in Builder, NEW to \in StakingAddress, New(b, to)
      PROVE  IInv'
  <2>1. TypeOK' /\ SlotPerInput'
    BY <1>1, EmptySeq DEF New, IInv, TypeOK, SlotPerInput
  <2>2. RawTxIsCurrent'
    BY <1>1 DEF New, IInv, TypeOK, RawTxIsCurrent, ContentOf
  <2>3. SignedSlotsAreCurrent'
    BY <1>1, EmptySeq DEF New, IInv, TypeOK, SignedSlotsAreCurrent, ContentOf
  <2>4. ExportedIsSigned'
    BY <1>1 DEF New, ExportedIsSigned
  <2> QED
    BY <2>1, <2>2, <2>3, <2>4 DEF IInv
<1>2. ASSUME NEW b \in Builder, NEW p \in Pointer, AddInput(b, p)
      PROVE  IInv'
  <2>1. /\ Append(inputs[b], p) \in Seq(Pointer)
        /\ Len(Append(inputs[b], p)) = Len(inputs[b]) + 1
    BY AppendProperties DEF IInv, TypeOK
  <2>2. /\ ClearedAndPushed(b) \in Seq(Slot \cup {None})
        /\ Len(ClearedAndPushed(b)) = Len(inputs[b]) + 1
        /\ \A i \in 1..Len(inputs[b]) + 1 : ClearedAndPushed(b)[i] = None
    BY ClearedSlots
  <2>3. TypeOK'
    BY <1>2, <2>1, <2>2 DEF AddInput, IInv, TypeOK
  <2>4. SlotPerInput'
    BY <1>2, <2>1, <2>2 DEF AddInput, IInv, TypeOK, SlotPerInput
  <2>5. RawTxIsCurrent'
    BY <1>2 DEF AddInput, IInv, TypeOK, RawTxIsCurrent, ContentOf
  <2>6. SignedSlotsAreCurrent'
    <3> SUFFICES ASSUME NEW d \in Builder, NEW i \in DOMAIN witnesses'[d],
                        witnesses'[d][i] # None, witnesses'[d][i].origin = "signInput"
                 PROVE  witnesses'[d][i].bytes.txId = ContentOf(d)'
      BY DEF SignedSlotsAreCurrent
    <3>1. CASE d = b
      <4>1. witnesses'[d] = ClearedAndPushed(b)
        BY <1>2, <3>1 DEF AddInput, IInv, TypeOK
      <4>2. i \in 1..Len(inputs[b]) + 1
        BY <2>2, <4>1, LenProperties
      <4> QED
        BY <2>2, <4>1, <4>2
    <3>2. CASE d # b
      <4>1. witnesses'[d] = witnesses[d] /\ ContentOf(d)' = ContentOf(d)
        BY <1>2, <3>2 DEF AddInput, IInv, TypeOK, ContentOf
      <4> QED
        BY <4>1 DEF IInv, SignedSlotsAreCurrent
    <3> QED
      BY <3>1, <3>2
  <2>7. ExportedIsSigned'
    BY <1>2 DEF AddInput, ExportedIsSigned
  <2> QED
    BY <2>3, <2>4, <2>5, <2>6, <2>7 DEF IInv
<1>3. ASSUME NEW b \in Builder, Prepare(b)
      PROVE  IInv'
  <2>1. /\ rawTx' \in [Builder -> Content \cup {None}]
        /\ SlotPerInput' /\ RawTxIsCurrent' /\ SignedSlotsAreCurrent'
    BY <1>3, PrepareKeeps DEF Prepare
  <2>2. TypeOK' /\ ExportedIsSigned'
    BY <1>3, <2>1 DEF Prepare, IInv, TypeOK, ExportedIsSigned
  <2> QED
    BY <2>1, <2>2 DEF IInv
<1>4. ASSUME NEW b \in Builder, NEW i \in DOMAIN inputs[b], NEW k \in KeyPair, SignInput(b, i, k)
      PROVE  IInv'
  <2>1. Prepared(b) = ContentOf(b) /\ ContentOf(b) \in Content
    BY PreparedIsContent
  <2>2. /\ SignatureOf(k, Prepared(b)) \in Signature \cup Undecodable
        /\ SignatureOf(k, Prepared(b)).txId = ContentOf(b)
    BY <2>1 DEF SignatureOf, Signature
  <2>3. /\ witnesses' \in [Builder -> Seq(Slot \cup {None})]
        /\ SlotPerInput' /\ SignedSlotsAreCurrent'
    <3>1. /\ Store(b, i, "signInput", SignatureOf(k, Prepared(b)))
          /\ UNCHANGED <<stakingAddress, inputs>>
      BY <1>4 DEF SignInput
    <3>2. "signInput" \in {"signInput", "addWitness"}
      OBVIOUS
    <3> QED
      BY <2>2, <3>1, <3>2, StoreKeeps
  <2>4. RawTxIsCurrent'
    BY <1>4, <2>1 DEF SignInput, IInv, TypeOK, RawTxIsCurrent, ContentOf
  <2>5. TypeOK' /\ ExportedIsSigned'
    BY <1>4, <2>1, <2>3 DEF SignInput, IInv, TypeOK, ExportedIsSigned
  <2> QED
    BY <2>3, <2>4, <2>5 DEF IInv
<1>5. ASSUME NEW b \in Builder, NEW i \in DOMAIN inputs[b], NEW w \in Offered, AddWitness(b, i, w)
      PROVE  IInv'
  <2>1. w \in Signature \cup Undecodable
    BY DepositAssumption
  <2>2. /\ witnesses' \in [Builder -> Seq(Slot \cup {None})]
        /\ SlotPerInput' /\ SignedSlotsAreCurrent'
    <3>1. Store(b, i, "addWitness", w) /\ UNCHANGED <<stakingAddress, inputs>>
      BY <1>5 DEF AddWitness
    <3>2. "addWitness" \in {"signInput", "addWitness"} /\ "addWitness" # "signInput"
      OBVIOUS
    <3> QED
      BY <2>1, <3>1, <3>2, StoreKeeps
  <2>3. TypeOK' /\ ExportedIsSigned' /\ RawTxIsCurrent'
    BY <1>5, <2>2 DEF AddWitness, IInv, TypeOK, ExportedIsSigned, RawTxIsCurrent, ContentOf
  <2> QED
    BY <2>2, <2>3 DEF IInv
<1>6. ASSUME NEW b \in Builder, ToHex(b)
      PROVE  IInv'
  <2>1. Prepared(b) = ContentOf(b) /\ ContentOf(b) \in Content
    BY PreparedIsContent
  <2>2. /\ rawTx' \in [Builder -> Content \cup {None}]
        /\ SlotPerInput' /\ RawTxIsCurrent' /\ SignedSlotsAreCurrent'
    BY <1>6, PrepareKeeps DEF ToHex
  <2>3. exported' = [content |-> ContentOf(b), witnesses |-> witnesses[b]]
    BY <1>6, <2>1 DEF ToHex
  <2>4. TypeOK'
    BY <1>6, <2>1, <2>2, <2>3 DEF ToHex, IInv, TypeOK
  <2>5. ExportedIsSigned'
    <3>1. Len(witnesses[b]) = Len(inputs[b]) /\ inputs[b] # <<>>
      BY <1>6 DEF ToHex, hasInput, IInv, SlotPerInput
    <3>2. \A i \in DOMAIN witnesses[b] :
              /\ witnesses[b][i] # None /\ witnesses[b][i].bytes \notin Undecodable
              /\ witnesses[b][i].origin = "signInput" => witnesses[b][i].bytes.txId = ContentOf(b)
      BY <1>6 DEF ToHex, isCompleted, AllDecode, IInv, SignedSlotsAreCurrent
    <3>3. exported' = [content |-> ContentOf(b)', witnesses |-> witnesses'[b]]
      BY <1>6, <2>3 DEF ToHex, ContentOf
    <3>4. /\ Len(exported'.witnesses) = Len(exported'.content.inputs)
          /\ exported'.content.inputs # <<>>
      BY <2>3, <3>1 DEF ContentOf
    <3>5. \A i \in DOMAIN exported'.witnesses :
              LET slot == exported'.witnesses[i] IN
              /\ slot # None /\ slot.bytes \notin Undecodable
              /\ slot.origin = "signInput" => slot.bytes.txId = exported'.content
      BY <2>3, <3>2
    <3> QED
      BY <3>3, <3>4, <3>5 DEF ExportedIsSigned
  <2> QED
    BY <2>2, <2>4, <2>5 DEF IInv
<1>7. CASE UNCHANGED vars
  BY <1>7 DEF vars, IInv, TypeOK, SlotPerInput, RawTxIsCurrent, SignedSlotsAreCurrent,
              ExportedIsSigned, ContentOf
<1> QED
  BY <1>1, <1>2, <1>3, <1>4, <1>5, <1>6, <1>7 DEF Next

-----------------------------------------------------------------------------
(* Theorems *)

\* The invariant holds in every state a program can bring its builders to.
THEOREM Invariance == Spec => []IInv
BY InitIInv, NextIInv, PTL DEF Spec

\* The fields, the slots and the cache always have the types the code declares.
THEOREM TypeCorrect == Spec => []TypeOK
<1>1. IInv => TypeOK
  BY DEF IInv
<1> QED
  BY <1>1, Invariance, PTL

\* The raw transaction and the id that signInput() signs are never stale, for
\* any number of builders and of inputs.
THEOREM RawTxCorrect == Spec => []RawTxIsCurrent
<1>1. IInv => RawTxIsCurrent
  BY DEF IInv
<1> QED
  BY <1>1, Invariance, PTL

\* No signature that signInput() made outlives the content it signs: the transaction
\* id in it is that of the present content.  By whose key it was made is not said;
\* the builder does not compare the key pair with the owner of the input.
THEOREM SlotsCorrect == Spec => []SignedSlotsAreCurrent
<1>1. IInv => SignedSlotsAreCurrent
  BY DEF IInv
<1> QED
  BY <1>1, Invariance, PTL

\* What toHex() returns is the present content of a builder with the witnesses it
\* holds, a decodable one for each input; those signInput() made sign just that.
THEOREM ExportCorrect == Spec => []ExportedIsSigned
<1>1. IInv => ExportedIsSigned
  BY DEF IInv
<1> QED
  BY <1>1, Invariance, PTL

-----------------------------------------------------------------------------
(* Refinement *)

\* A builder whose every slot is empty has the witnesses of an empty promise.
LEMMA EmptySlots ==
    ASSUME NEW c \in Content, NEW slots \in Seq(Slot \cup {None}),
           Len(slots) = Len(c.inputs), \A i \in 1..Len(slots) : slots[i] = None
    PROVE  slots = Promise!Empty(c)
<1>1. Len(c.inputs) \in Nat
  BY LenProperties DEF Content
<1>2. Promise!Empty(c) \in Seq(Slot \cup {None}) /\ Len(Promise!Empty(c)) = Len(c.inputs)
  BY <1>1, IsASeq, LenProperties DEF Promise!Empty, NumInputs
<1> QED
  BY <1>1, <1>2, SeqEqual DEF Promise!Empty, NumInputs

\* The initial states of the builder are those of its promise.
LEMMA InitRefines == Init => Promise!Init
<1> SUFFICES ASSUME Init PROVE Promise!Init
  OBVIOUS
<1>1. \A b \in Builder : witnesses[b] = Promise!Empty(ContentOf(b))
  <2> SUFFICES ASSUME NEW b \in Builder PROVE witnesses[b] = Promise!Empty(ContentOf(b))
    OBVIOUS
  <2>1. /\ ContentOf(b) \in Content
        /\ witnesses[b] \in Seq(Slot \cup {None})
        /\ Len(witnesses[b]) = 0 /\ Len(ContentOf(b).inputs) = 0
    BY EmptySeq DEF Init, ContentOf, Content
  <2> QED
    BY <2>1, EmptySlots
<1> QED
  BY <1>1 DEF Init, Promise!Init

\* Every call is a step of the promise: the caches are not seen.
LEMMA NextRefines == IInv /\ IInv' /\ [Next]_vars => [Promise!Next]_Promise!vars
<1> SUFFICES ASSUME IInv, IInv', [Next]_vars PROVE [Promise!Next]_Promise!vars
  OBVIOUS
<1>1. ASSUME NEW b \in Builder, NEW to \in StakingAddress, New(b, to)
      PROVE  Promise!Edit(b)
  <2>1. /\ ContentOf(b)' \in Content
        /\ witnesses'[b] \in Seq(Slot \cup {None})
        /\ Len(witnesses'[b]) = 0 /\ Len(ContentOf(b)'.inputs) = 0
    BY <1>1, EmptySeq DEF New, IInv, TypeOK, ContentOf, Content
  <2>2. witnesses'[b] = Promise!Empty(ContentOf(b)')
    BY <2>1, EmptySlots
  <2> QED
    BY <1>1, <2>2 DEF New, IInv, TypeOK, ContentOf, Promise!Edit, Promise!Others
<1>2. ASSUME NEW b \in Builder, NEW p \in Pointer, AddInput(b, p)
      PROVE  Promise!Edit(b)
  <2>1. /\ ContentOf(b)' \in Content
        /\ ContentOf(b)'.inputs = Append(inputs[b], p)
        /\ Len(ContentOf(b)'.inputs) = Len(inputs[b]) + 1
    BY <1>2, AppendProperties DEF AddInput, IInv, TypeOK, ContentOf, Content
  <2>2. witnesses'[b] = ClearedAndPushed(b)
    BY <1>2 DEF AddInput, IInv, TypeOK
  <2>3. witnesses'[b] = Promise!Empty(ContentOf(b)')
    <3>1. /\ ClearedAndPushed(b) \in Seq(Slot \cup {None})
          /\ Len(ClearedAndPushed(b)) = Len(inputs[b]) + 1
          /\ \A i \in 1..Len(inputs[b]) + 1 : ClearedAndPushed(b)[i] = None
      BY ClearedSlots
    <3> QED
      BY <2>1, <2>2, <3>1, EmptySlots
  <2> QED
    BY <1>2, <2>3 DEF AddInput, IInv, TypeOK, ContentOf, Promise!Edit, Promise!Others
<1>3. ASSUME NEW b \in Builder, Prepare(b)
      PROVE  Promise!Idle
  BY <1>3 DEF Prepare, ContentOf, Promise!Idle
<1>4. ASSUME NEW b \in Builder, NEW i \in DOMAIN inputs[b],
             NEW origin \in {"signInput", "addWitness"},
             NEW bytes \in Signature \cup Undecodable,
             origin = "signInput" => bytes.txId = ContentOf(b),
             Store(b, i, origin, bytes), exported' = None,
             UNCHANGED <<stakingAddress, inputs>>
      PROVE  Promise!Attach(b, i) /\ i \in 1..NumInputs(ContentOf(b))
  <2> DEFINE slot == [origin |-> origin, bytes |-> bytes]
  <2>1. /\ i \in 1..Len(inputs[b])
        /\ DOMAIN witnesses[b] = 1..Len(inputs[b])
    BY LenProperties DEF IInv, TypeOK, SlotPerInput
  <2>2. witnesses' = [witnesses EXCEPT ![b] = [witnesses[b] EXCEPT ![i] = slot]]
    BY <1>4 DEF Store
  <2>3. /\ witnesses'[b][i] = slot
        /\ \A j \in 1..Len(inputs[b]) \ {i} : witnesses'[b][j] = witnesses[b][j]
        /\ \A d \in Builder \ {b} : witnesses'[d] = witnesses[d]
    BY <2>1, <2>2 DEF IInv, TypeOK
  <2>4. slot # None
    BY DepositAssumption DEF Slot
  <2>5. Acceptable(ContentOf(b), i, witnesses'[b][i])
    BY <1>4, <2>3, <2>4 DEF Acceptable
  <2>6. /\ Len(inputs[b]) = NumInputs(ContentOf(b))
        /\ \A d \in Builder : ContentOf(d)' = ContentOf(d)
    BY <1>4 DEF NumInputs, ContentOf
  <2> HIDE DEF slot
  <2> QED
    BY <1>4, <2>1, <2>3, <2>5, <2>6 DEF Promise!Attach, Promise!Others
<1>5. ASSUME NEW b \in Builder, NEW i \in DOMAIN inputs[b], NEW k \in KeyPair, SignInput(b, i, k)
      PROVE  Promise!Attach(b, i) /\ i \in 1..NumInputs(ContentOf(b))
  <2>1. Prepared(b) = ContentOf(b) /\ ContentOf(b) \in Content
    BY PreparedIsContent
  <2>2. /\ SignatureOf(k, Prepared(b)) \in Signature \cup Undecodable
        /\ SignatureOf(k, Prepared(b)).txId = ContentOf(b)
    BY <2>1 DEF SignatureOf, Signature
  <2>3. "signInput" \in {"signInput", "addWitness"}
    OBVIOUS
  <2>4. /\ Store(b, i, "signInput", SignatureOf(k, Prepared(b)))
        /\ exported' = None /\ UNCHANGED <<stakingAddress, inputs>>
    BY <1>5 DEF SignInput
  <2> QED
    BY <1>4, <2>2, <2>3, <2>4
<1>6. ASSUME NEW b \in Builder, NEW i \in DOMAIN inputs[b], NEW w \in Offered, AddWitness(b, i, w)
      PROVE  Promise!Attach(b, i) /\ i \in 1..NumInputs(ContentOf(b))
  <2>1. w \in Signature \cup Undecodable
    BY DepositAssumption
  <2>2. "addWitness" \in {"signInput", "addWitness"} /\ "addWitness" # "signInput"
    OBVIOUS
  <2>3. /\ Store(b, i, "addWitness", w)
        /\ exported' = None /\ UNCHANGED <<stakingAddress, inputs>>
    BY <1>6 DEF AddWitness
  <2> QED
    BY <1>4, <2>1, <2>2, <2>3
<1>7. ASSUME NEW b \in Builder, ToHex(b)
      PROVE  Promise!Export(b)
  <2>1. Prepared(b) = ContentOf(b)
    BY PreparedIsContent
  <2>2. \A i \in 1..NumInputs(ContentOf(b)) : witnesses[b][i] # None
    <3>1. DOMAIN witnesses[b] = 1..NumInputs(ContentOf(b))
      BY LenProperties DEF IInv, TypeOK, SlotPerInput, NumInputs, ContentOf
    <3> QED
      BY <1>7, <3>1 DEF ToHex, isCompleted
  <2> QED
    BY <1>7, <2>1, <2>2 DEF ToHex, ContentOf, Promise!Export
<1>8. CASE UNCHANGED vars
  BY <1>8 DEF vars, ContentOf, Promise!vars
<1>9. CASE Next
  <2>1. Promise!Next
    BY <1>1, <1>2, <1>3, <1>5, <1>6, <1>7, <1>9 DEF Next, Promise!Next
  <2> QED
    BY <2>1
<1> QED
  BY <1>8, <1>9

\* A deposit builder of any size implements its promise: a caller cannot tell
\* it from one that has no caches.
THEOREM Refinement == Spec => ImplementsPromise
BY Invariance, InitRefines, NextRefines, PTL DEF Spec, ImplementsPromise, Promise!Spec

\* Unless the builder is created anew or its inputs change, a slot that is filled
\* stays filled, and so a completed builder stays completed
FilledKept(b) ==
    \/ \E to \in StakingAddress : New(b, to)
    \/ inputs'[b] # inputs[b]
    \/ /\ \A i \in DOMAIN witnesses[b] : witnesses[b][i] # None => witnesses'[b][i] # None
       /\ isCompleted(b) => isCompleted(b)'

\* A call that leaves the inputs and every slot but i as they were, and fills slot i,
\* empties no slot (signInput, addWitness).
LEMMA StoreKeepsFilled ==
    ASSUME IInv, NEW b \in Builder, NEW i \in DOMAIN inputs[b],
           NEW origin \in {"signInput", "addWitness"},
           NEW bytes \in Signature \cup Undecodable,
           Store(b, i, origin, bytes), inputs' = inputs, NEW d \in Builder
    PROVE  FilledKept(d)
<1> DEFINE slot == [origin |-> origin, bytes |-> bytes]
<1>1. slot # None
  BY DepositAssumption DEF Slot
<1>2. DOMAIN witnesses[b] = 1..Len(inputs[b]) /\ i \in DOMAIN witnesses[b]
  BY LenProperties DEF IInv, TypeOK, SlotPerInput
<1>3. witnesses' = [witnesses EXCEPT ![b] = [witnesses[b] EXCEPT ![i] = slot]]
  BY DEF Store
<1> HIDE DEF slot
<1>4. /\ DOMAIN witnesses'[d] = DOMAIN witnesses[d]
      /\ \A j \in DOMAIN witnesses[d] : witnesses'[d][j] \in {slot, witnesses[d][j]}
  BY <1>2, <1>3 DEF IInv, TypeOK
<1>5. \A j \in DOMAIN witnesses[d] : witnesses[d][j] # None => witnesses'[d][j] # None
  BY <1>1, <1>4
<1>6. isCompleted(d) => isCompleted(d)'
  BY <1>4, <1>5 DEF isCompleted, hasInput
<1> QED
  BY <1>5, <1>6 DEF FilledKept

\* What is filled is emptied only by addInput() or a new object: a call that throws
\* after it has prepared the raw transaction, a repeated signInput() and an addWitness()
\* with any bytes leave every filled slot filled.
THEOREM FilledSlotsKept == Spec => [][\A b \in Builder : FilledKept(b)]_vars
<1>1. ASSUME IInv, [Next]_vars, NEW d \in Builder
      PROVE  FilledKept(d)
  <2>1. ASSUME witnesses' = witnesses, inputs' = inputs
        PROVE  FilledKept(d)
    BY <2>1 DEF FilledKept, isCompleted, hasInput
  <2>2. ASSUME NEW b \in Builder, NEW to \in StakingAddress, New(b, to)
        PROVE  FilledKept(d)
    <3>1. CASE d = b
      BY <2>2, <3>1 DEF FilledKept
    <3>2. CASE d # b
      <4>1. witnesses'[d] = witnesses[d] /\ inputs'[d] = inputs[d]
        BY <1>1, <2>2, <3>2 DEF New, IInv, TypeOK
      <4> QED
        BY <4>1 DEF FilledKept, isCompleted, hasInput
    <3> QED
      BY <3>1, <3>2
  <2>3. ASSUME NEW b \in Builder, NEW p \in Pointer, AddInput(b, p)
        PROVE  FilledKept(d)
    <3>1. CASE d = b
      <4>1. inputs'[b] = Append(inputs[b], p)
        BY <1>1, <2>3 DEF AddInput, IInv, TypeOK
      <4>2. Len(Append(inputs[b], p)) # Len(inputs[b])
        BY <1>1, AppendProperties, LenProperties DEF IInv, TypeOK
      <4> QED
        BY <3>1, <4>1, <4>2 DEF FilledKept
    <3>2. CASE d # b
      <4>1. witnesses'[d] = witnesses[d] /\ inputs'[d] = inputs[d]
        BY <1>1, <2>3, <3>2 DEF AddInput, IInv, TypeOK
      <4> QED
        BY <4>1 DEF FilledKept, isCompleted, hasInput
    <3> QED
      BY <3>1, <3>2
  <2>4. ASSUME NEW b \in Builder, Prepare(b)
        PROVE  FilledKept(d)
    BY <2>1, <2>4 DEF Prepare
  <2>5. ASSUME NEW b \in Builder, NEW i \in DOMAIN inputs[b], NEW k \in KeyPair,
               SignInput(b, i, k)
        PROVE  FilledKept(d)
    <3>1. Prepared(b) = ContentOf(b) /\ ContentOf(b) \in Content
      BY <1>1, PreparedIsContent
    <3>2. SignatureOf(k, Prepared(b)) \in Signature \cup Undecodable
      BY <3>1 DEF SignatureOf, Signature
    <3>3. "signInput" \in {"signInput", "addWitness"}
      OBVIOUS
    <3>4. Store(b, i, "signInput", SignatureOf(k, Prepared(b))) /\ inputs' = inputs
      BY <2>5 DEF SignInput
    <3> QED
      BY <1>1, <3>2, <3>3, <3>4, StoreKeepsFilled
  <2>6. ASSUME NEW b \in Builder, NEW i \in DOMAIN inputs[b], NEW w \in Offered,
               AddWitness(b, i, w)
        PROVE  FilledKept(d)
    <3>1. w \in Signature \cup Undecodable /\ "addWitness" \in {"signInput", "addWitness"}
      BY DepositAssumption
    <3>2. Store(b, i, "addWitness", w) /\ inputs' = inputs
      BY <2>6 DEF AddWitness
    <3> QED
      BY <1>1, <3>1, <3>2, StoreKeepsFilled
  <2>7. ASSUME NEW b \in Builder, ToHex(b)
        PROVE  FilledKept(d)
    BY <2>1, <2>7 DEF ToHex
  <2>8. CASE UNCHANGED vars
    BY <2>1, <2>8 DEF vars
  <2> QED
    BY <1>1, <2>2, <2>3, <2>4, <2>5, <2>6, <2>7, <2>8 DEF Next
<1>2. IInv /\ [Next]_vars => [\A b \in Builder : FilledKept(b)]_vars
  BY <1>1
<1> QED
  BY <1>2, Invariance, PTL DEF Spec
=============================================================================
