----------------------- MODULE WithdrawBuilderProofs ------------------------
(***************************************************************************)
(* Proofs about WithdrawBuilder for every number of builders, outputs, view *)
(* keys and key pairs.                                                     *)
(*                                                                         *)
(* The argument: the cached raw transaction is filled from the fields by a *)
(* call that found an output and dropped by every edit, so it is current    *)
(* and not empty (PreparedInv); with it, sign() and the exports speak of    *)
(* the present content although the witness itself may be older.            *)
(*                                                                         *)
(* How much older is proved too: the builder has no call that removes or   *)
(* replaces anything, so what a witness was stored for is the beginning of *)
(* what the builder holds (WitnessInv), and of what it exports.            *)
(***************************************************************************)
EXTENDS WithdrawBuilder, SequencesExt, SequenceTheorems, TLAPS

\* The cache is current, and of a transaction the native addon would build
PreparedInv ==
    \A b \in Builder : rawTx[b] # None => hasOutput(b) /\ Parseable(ContentOf(b))

IInv == /\ TypeOK
        /\ RawTxIsCurrent
        /\ PreparedInv
        /\ SignCoversPresentContent
        /\ ExportIsCurrent

-----------------------------------------------------------------------------
LEMMA ContentType ==
    ASSUME TypeOK, NEW b \in Builder
    PROVE  ContentOf(b) \in Content
BY DEF TypeOK, ContentOf, Content

\* A call that needs the raw transaction works on the present content, whether
\* it finds it cached or prepares it.
LEMMA PreparedIsCurrent ==
    ASSUME IInv, NEW b \in Builder, CanPrepare(b)
    PROVE  /\ Prepared(b) = ContentOf(b)
           /\ hasOutput(b) /\ Parseable(ContentOf(b))
BY DEF IInv, RawTxIsCurrent, PreparedInv, CanPrepare, Prepared

\* A call that only prepares keeps the part of the invariant about the cache
LEMMA PreparedKeeps ==
    ASSUME IInv, NEW b \in Builder, CanPrepare(b),
           rawTx' = [rawTx EXCEPT ![b] = Prepared(b)],
           UNCHANGED fields
    PROVE  /\ rawTx' \in [Builder -> Content \cup {None}]
           /\ RawTxIsCurrent' /\ PreparedInv'
<1>1. rawTx'[b] = ContentOf(b) /\ \A d \in Builder \ {b} : rawTx'[d] = rawTx[d]
  BY PreparedIsCurrent DEF IInv, TypeOK
<1>2. \A d \in Builder : ContentOf(d)' = ContentOf(d) /\ hasOutput(d)' = hasOutput(d)
  BY DEF fields, ContentOf, hasOutput
<1>3. \A d \in Builder : Parseable(ContentOf(d)') = Parseable(ContentOf(d))
  BY <1>2
<1>4. rawTx' \in [Builder -> Content \cup {None}]
  BY PreparedIsCurrent, ContentType DEF IInv, TypeOK
<1>5. RawTxIsCurrent'
  BY <1>1, <1>2 DEF IInv, RawTxIsCurrent
<1>6. PreparedInv'
  <2> SUFFICES ASSUME NEW d \in Builder, rawTx'[d] # None
               PROVE  hasOutput(d) /\ Parseable(ContentOf(d))
    BY <1>2, <1>3 DEF PreparedInv
  <2> QED
    BY <1>1, PreparedIsCurrent DEF IInv, PreparedInv
<1> QED
  BY <1>4, <1>5, <1>6

LEMMA InitIInv == Init => IInv
<1> SUFFICES ASSUME Init PROVE IInv
  OBVIOUS
<1>1. TypeOK
  BY EmptySeq DEF Init, TypeOK
<1> QED
  BY <1>1 DEF Init, IInv, RawTxIsCurrent, PreparedInv, SignCoversPresentContent,
              ExportIsCurrent, isSigned

-----------------------------------------------------------------------------
(* The steps *)

\* An edit drops the cache of its builder and touches no other builder
LEMMA EditKeeps ==
    ASSUME IInv, NEW b \in Builder, clearPreparedRawTx(b), UNCHANGED witness,
           \A d \in Builder \ {b} :
               /\ nonce'[d] = nonce[d]
               /\ outputs'[d] = outputs[d]
               /\ viewKeys'[d] = viewKeys[d]
    PROVE  /\ rawTx' \in [Builder -> Content \cup {None}]
           /\ RawTxIsCurrent' /\ PreparedInv'
           /\ SignCoversPresentContent' /\ ExportIsCurrent'
<1>1. rawTx'[b] = None /\ \A d \in Builder \ {b} : rawTx'[d] = rawTx[d]
  BY DEF clearPreparedRawTx, IInv, TypeOK
<1>2. \A d \in Builder \ {b} : ContentOf(d)' = ContentOf(d) /\ hasOutput(d)' = hasOutput(d)
  BY DEF ContentOf, hasOutput
<1>3. \A d \in Builder \ {b} : Parseable(ContentOf(d)') = Parseable(ContentOf(d))
  BY <1>2
<1>4. rawTx' \in [Builder -> Content \cup {None}]
  BY DEF clearPreparedRawTx, IInv, TypeOK
<1>5. RawTxIsCurrent'
  BY <1>1, <1>2 DEF IInv, RawTxIsCurrent
<1>6. PreparedInv'
  <2> SUFFICES ASSUME NEW d \in Builder, rawTx'[d] # None
               PROVE  hasOutput(d)' /\ Parseable(ContentOf(d)')
    BY DEF PreparedInv
  <2>1. d # b /\ rawTx[d] # None
    BY <1>1
  <2>2. hasOutput(d) /\ Parseable(ContentOf(d))
    BY <2>1 DEF IInv, PreparedInv
  <2> QED
    BY <1>2, <1>3, <2>1, <2>2
<1>7. SignCoversPresentContent'
  BY DEF IInv, SignCoversPresentContent, isSigned
<1>8. ExportIsCurrent'
  BY DEF clearPreparedRawTx, ExportIsCurrent
<1> QED
  BY <1>4, <1>5, <1>6, <1>7, <1>8

\* Storing a witness: it is recorded with the present content
LEMMA StoreKeeps ==
    ASSUME IInv, NEW b \in Builder, NEW call \in {"sign", "addWitness"},
           NEW w \in Signature \cup Undecodable, Store(b, call, w),
           call = "sign" => w.txId = Prepared(b)
    PROVE  IInv'
<1>1. rawTx' \in [Builder -> Content \cup {None}] /\ RawTxIsCurrent' /\ PreparedInv'
  BY PreparedKeeps DEF Store
<1>2. witness' = [witness EXCEPT ![b] =
          [origin |-> call, bytes |-> w, storedAt |-> ContentOf(b)]]
  BY DEF Store
<1>3. TypeOK'
  <2>1. [origin |-> call, bytes |-> w, storedAt |-> ContentOf(b)] \in Slot
    BY ContentType DEF IInv, Slot
  <2>2. witness' \in [Builder -> Slot \cup {None}]
    BY <1>2, <2>1 DEF IInv, TypeOK
  <2> QED
    BY <1>1, <2>2 DEF Store, fields, IInv, TypeOK
<1>4. SignCoversPresentContent'
  <2> SUFFICES ASSUME NEW d \in Builder, witness'[d] # None, witness'[d].origin = "sign"
               PROVE  witness'[d].bytes.txId = witness'[d].storedAt
    BY DEF SignCoversPresentContent, isSigned
  <2>1. CASE d = b
    <3>1. witness'[b] = [origin |-> call, bytes |-> w, storedAt |-> ContentOf(b)]
      BY <1>2 DEF IInv, TypeOK
    <3>2. call = "sign"
      BY <2>1, <3>1
    <3>3. w.txId = ContentOf(b)
      BY <3>2, PreparedIsCurrent DEF Store
    <3> QED
      BY <2>1, <3>1, <3>3
  <2>2. CASE d # b
    <3>1. witness'[d] = witness[d]
      BY <1>2, <2>2 DEF IInv, TypeOK
    <3> QED
      BY <3>1 DEF IInv, SignCoversPresentContent, isSigned
  <2> QED
    BY <2>1, <2>2
<1>5. ExportIsCurrent'
  BY DEF Store, ExportIsCurrent
<1> QED
  BY <1>1, <1>3, <1>4, <1>5 DEF IInv

\* Exporting the present content of a signed builder
LEMMA ExportKeeps ==
    ASSUME IInv, NEW b \in Builder, isSigned(b), hasOutput(b),
           exported' = Signed(b, ContentOf(b)),
           UNCHANGED <<fields, witness>>
    PROVE  /\ exported' \in [builder : Builder, content : Content, witness : Slot]
           /\ SignCoversPresentContent' /\ ExportIsCurrent'
<1>1. witness[b] \in Slot
  BY DEF IInv, TypeOK, isSigned
<1>2. exported' \in [builder : Builder, content : Content, witness : Slot]
  BY <1>1, ContentType DEF Signed, IInv
<1>3. SignCoversPresentContent'
  BY DEF IInv, SignCoversPresentContent, isSigned
<1>4. exported'.builder = b /\ exported'.content = ContentOf(b) /\ exported'.witness = witness[b]
  BY DEF Signed
<1>5. ContentOf(b).outputs # <<>>
  BY DEF ContentOf, hasOutput
<1>6. witness[b].origin = "sign" => witness[b].bytes.txId = witness[b].storedAt
  BY DEF IInv, SignCoversPresentContent
<1>7. exported'.content = ContentOf(exported.builder)'
  BY <1>4 DEF fields, ContentOf
<1>8. ExportIsCurrent'
  BY <1>4, <1>5, <1>6, <1>7 DEF ExportIsCurrent
<1> QED
  BY <1>2, <1>3, <1>8

LEMMA NextIInv == IInv /\ [Next]_vars => IInv'
<1> SUFFICES ASSUME IInv, [Next]_vars PROVE IInv'
  OBVIOUS
<1>1. ASSUME NEW b \in Builder, NEW n \in Nonce, New(b, n)
      PROVE  IInv'
  <2>1. TypeOK'
    BY <1>1, EmptySeq DEF New, IInv, TypeOK
  <2>2. \A d \in Builder \ {b} : ContentOf(d)' = ContentOf(d) /\ hasOutput(d)' = hasOutput(d)
    BY <1>1 DEF New, IInv, TypeOK, ContentOf, hasOutput
  <2>3. rawTx'[b] = None /\ \A d \in Builder \ {b} : rawTx'[d] = rawTx[d]
    BY <1>1 DEF New, IInv, TypeOK
  <2>4. RawTxIsCurrent' /\ PreparedInv'
    BY <2>2, <2>3 DEF IInv, RawTxIsCurrent, PreparedInv, Parseable
  <2>5. SignCoversPresentContent' /\ ExportIsCurrent'
    BY <1>1 DEF New, IInv, TypeOK, SignCoversPresentContent, ExportIsCurrent, isSigned
  <2> QED
    BY <2>1, <2>4, <2>5 DEF IInv
<1>2. ASSUME NEW b \in Builder, NEW o \in Output, AddOutput(b, o)
      PROVE  IInv'
  <2>1. /\ rawTx' \in [Builder -> Content \cup {None}]
        /\ RawTxIsCurrent' /\ PreparedInv'
        /\ SignCoversPresentContent' /\ ExportIsCurrent'
    BY <1>2, EditKeeps DEF AddOutput, IInv, TypeOK
  <2>2. outputs' \in [Builder -> Seq(Output)]
    BY <1>2, AppendProperties DEF AddOutput, IInv, TypeOK
  <2>3. TypeOK'
    BY <1>2, <2>1, <2>2 DEF AddOutput, clearPreparedRawTx, IInv, TypeOK
  <2> QED
    BY <2>1, <2>3 DEF IInv
<1>3. ASSUME NEW b \in Builder, NEW v \in ViewKey, AddViewKey(b, v)
      PROVE  IInv'
  <2>1. /\ rawTx' \in [Builder -> Content \cup {None}]
        /\ RawTxIsCurrent' /\ PreparedInv'
        /\ SignCoversPresentContent' /\ ExportIsCurrent'
    BY <1>3, EditKeeps DEF AddViewKey, IInv, TypeOK
  <2>2. viewKeys' \in [Builder -> Seq(ViewKey)]
    BY <1>3, AppendProperties DEF AddViewKey, IInv, TypeOK
  <2>3. TypeOK'
    BY <1>3, <2>1, <2>2 DEF AddViewKey, clearPreparedRawTx, IInv, TypeOK
  <2> QED
    BY <2>1, <2>3 DEF IInv
<1>4. ASSUME NEW b \in Builder, Prepare(b)
      PROVE  IInv'
  <2>1. rawTx' \in [Builder -> Content \cup {None}] /\ RawTxIsCurrent' /\ PreparedInv'
    BY <1>4, PreparedKeeps DEF Prepare
  <2>2. TypeOK'
    BY <1>4, <2>1 DEF Prepare, fields, IInv, TypeOK
  <2>3. SignCoversPresentContent' /\ ExportIsCurrent'
    BY <1>4 DEF Prepare, IInv, SignCoversPresentContent, ExportIsCurrent, isSigned
  <2> QED
    BY <2>1, <2>2, <2>3 DEF IInv
<1>5. ASSUME NEW b \in Builder, NEW k \in KeyPair, Sign(b, k)
      PROVE  IInv'
  <2> DEFINE w == WitnessOf(k, Prepared(b))
  <2>1. Prepared(b) = ContentOf(b)
    BY <1>5, PreparedIsCurrent DEF Sign, Store
  <2>2. w \in Signature /\ w.txId = Prepared(b)
    BY <2>1, ContentType DEF IInv, WitnessOf, Signature
  <2>3. Store(b, "sign", w)
    BY <1>5 DEF Sign
  <2> HIDE DEF w
  <2> QED
    BY <2>2, <2>3, StoreKeeps
<1>6. ASSUME NEW b \in Builder, NEW w \in Offered, AddWitness(b, w)
      PROVE  IInv'
  BY <1>6, StoreKeeps, WithdrawAssumption DEF AddWitness
<1>7. ASSUME NEW b \in Builder, ToHex(b)
      PROVE  IInv'
  <2>1. rawTx' \in [Builder -> Content \cup {None}] /\ RawTxIsCurrent' /\ PreparedInv'
    BY <1>7, PreparedKeeps DEF ToHex
  <2>2. Prepared(b) = ContentOf(b) /\ hasOutput(b)
    BY <1>7, PreparedIsCurrent DEF ToHex
  <2>3. /\ exported' \in [builder : Builder, content : Content, witness : Slot]
        /\ SignCoversPresentContent' /\ ExportIsCurrent'
    BY <1>7, <2>2, ExportKeeps DEF ToHex
  <2>4. TypeOK'
    BY <1>7, <2>1, <2>3 DEF ToHex, fields, IInv, TypeOK
  <2> QED
    BY <2>1, <2>3, <2>4 DEF IInv
<1>8. ASSUME NEW b \in Builder, ToSignedPlainHex(b)
      PROVE  IInv'
  <2>1. rawTx[b] = ContentOf(b) /\ hasOutput(b)
    BY <1>8 DEF ToSignedPlainHex, IInv, RawTxIsCurrent, PreparedInv
  <2>2. /\ exported' \in [builder : Builder, content : Content, witness : Slot]
        /\ SignCoversPresentContent' /\ ExportIsCurrent'
    BY <1>8, <2>1, ExportKeeps DEF ToSignedPlainHex
  <2>3. TypeOK'
    BY <1>8, <2>2 DEF ToSignedPlainHex, fields, IInv, TypeOK
  <2>4. RawTxIsCurrent' /\ PreparedInv'
    BY <1>8 DEF ToSignedPlainHex, fields, IInv, RawTxIsCurrent, PreparedInv, ContentOf,
                hasOutput, Parseable
  <2> QED
    BY <2>2, <2>3, <2>4 DEF IInv
<1>9. ASSUME NEW b \in Builder, NEW c \in Builder \ {b}, Clone(b, c)
      PROVE  IInv'
  <2>1. TypeOK'
    BY <1>9 DEF Clone, IInv, TypeOK
  <2> DEFINE From(d) == IF d = c THEN b ELSE d
  <2>2. ASSUME NEW d \in Builder
        PROVE  /\ ContentOf(d)' = ContentOf(From(d))
               /\ hasOutput(d)' = hasOutput(From(d))
               /\ rawTx'[d] = rawTx[From(d)]
               /\ witness'[d] = witness[From(d)]
    BY <1>9 DEF Clone, IInv, TypeOK, ContentOf, hasOutput
  <2>3. \A d \in Builder : From(d) \in Builder
    OBVIOUS
  <2> HIDE DEF From
  <2>4. RawTxIsCurrent' /\ PreparedInv'
    BY <2>2, <2>3 DEF IInv, RawTxIsCurrent, PreparedInv, Parseable
  <2>5. SignCoversPresentContent'
    BY <2>2, <2>3 DEF IInv, SignCoversPresentContent, isSigned
  <2>6. ExportIsCurrent'
    BY <1>9 DEF Clone, ExportIsCurrent
  <2> QED
    BY <2>1, <2>4, <2>5, <2>6 DEF IInv
<1>10. CASE UNCHANGED vars
  BY <1>10 DEF vars, IInv, TypeOK, RawTxIsCurrent, PreparedInv, SignCoversPresentContent,
               ExportIsCurrent, ContentOf, hasOutput, Parseable, isSigned
<1> QED
  BY <1>1, <1>2, <1>3, <1>4, <1>5, <1>6, <1>7, <1>8, <1>9, <1>10 DEF Next

\* The invariant holds in every reachable state.
THEOREM Invariance == Spec => []IInv
BY InitIInv, NextIInv, PTL DEF Spec

\* The fields of a builder stay of their types; a witness it holds is one that
\* sign() or addWitness() stored.
THEOREM TypeCorrect == Spec => []TypeOK
<1>1. IInv => TypeOK
  BY DEF IInv
<1> QED
  BY <1>1, Invariance, PTL

\* The cached raw transaction and its id are never older than the last edit.
THEOREM RawTxCorrect == Spec => []RawTxIsCurrent
<1>1. IInv => RawTxIsCurrent
  BY DEF IInv
<1> QED
  BY <1>1, Invariance, PTL

\* sign() signs the transaction as it is when it is called.
THEOREM SignCorrect == Spec => []SignCoversPresentContent
<1>1. IInv => SignCoversPresentContent
  BY DEF IInv
<1> QED
  BY <1>1, Invariance, PTL

\* The exports return the transaction as it is when they are called, with a
\* signature of it if nothing was edited since sign().
THEOREM ExportCorrect == Spec => []ExportIsCurrent
<1>1. IInv => ExportIsCurrent
  BY DEF IInv
<1> QED
  BY <1>1, Invariance, PTL

-----------------------------------------------------------------------------
(* What is left of the claim that an edit clears the signature             *)

\* c became d by adding outputs and view keys, perhaps none
GrewTo(c, d) ==
    /\ c.nonce = d.nonce
    /\ IsPrefix(c.outputs, d.outputs)
    /\ IsPrefix(c.viewKeys, d.viewKeys)

SameSize(c, d) ==
    Len(c.outputs) = Len(d.outputs) /\ Len(c.viewKeys) = Len(d.viewKeys)

WitnessInv ==
    /\ \A b \in Builder : isSigned(b) => GrewTo(witness[b].storedAt, ContentOf(b))
    /\ exported # None => /\ isSigned(exported.builder)
                          /\ exported.witness = witness[exported.builder]

\* The witness of a builder was stored for the beginning of the transaction it
\* has now, with the same nonce, and for this transaction if nothing was added.
\* What is exported with a witness of sign() is therefore signed exactly when
\* as many outputs and view keys were there at sign() as are exported: the
\* extent to which the claim of the documentation is false.
StaleByAdditionsOnly ==
    /\ \A b \in Builder : isSigned(b) =>
          LET c == witness[b].storedAt IN
          GrewTo(c, ContentOf(b)) /\ (c = ContentOf(b) <=> SameSize(c, ContentOf(b)))
    /\ exported # None /\ exported.witness.origin = "sign" =>
          LET c == exported.witness.bytes.txId IN
          /\ GrewTo(c, exported.content)
          /\ c = exported.content <=> SameSize(c, exported.content)

\* A sequence begins with itself.
LEMMA PrefixOfItself ==
    ASSUME NEW S, NEW s \in Seq(S)
    PROVE  IsPrefix(s, s)
BY LenProperties DEF IsPrefix

\* A beginning stays one when an element is added at the end.
LEMMA PrefixOfAppend ==
    ASSUME NEW S, NEW s \in Seq(S), NEW t \in Seq(S), NEW x \in S, IsPrefix(s, t)
    PROVE  IsPrefix(s, Append(t, x))
<1>1. Len(Append(t, x)) = Len(t) + 1 /\ Append(t, x) \in Seq(S)
  BY AppendProperties
<1>2. SubSeq(Append(t, x), 1, Len(s)) = SubSeq(t, 1, Len(s))
  BY <1>1, SubSeqProperties DEF IsPrefix
<1> QED
  BY <1>1, <1>2 DEF IsPrefix

\* A beginning as long as the whole is the whole.
LEMMA WholePrefix ==
    ASSUME NEW S, NEW s \in Seq(S), NEW t \in Seq(S), IsPrefix(s, t), Len(s) = Len(t)
    PROVE  s = t
<1>1. SubSeq(s, 1, Len(s)) = s /\ SubSeq(t, 1, Len(t)) = t
  BY SubSeqProperties
<1> QED
  BY <1>1 DEF IsPrefix

\* A content that grew is another one exactly if it has become longer.
LEMMA GrewOrSame ==
    ASSUME NEW c \in Content, NEW d \in Content, GrewTo(c, d)
    PROVE  c = d <=> SameSize(c, d)
<1>1. /\ c.outputs \in Seq(Output) /\ d.outputs \in Seq(Output)
      /\ c.viewKeys \in Seq(ViewKey) /\ d.viewKeys \in Seq(ViewKey)
  BY DEF Content
<1>2. ASSUME SameSize(c, d)
      PROVE  c.outputs = d.outputs /\ c.viewKeys = d.viewKeys /\ c.nonce = d.nonce
  BY <1>1, <1>2, WholePrefix DEF SameSize, GrewTo
<1>3. ASSUME SameSize(c, d)
      PROVE  c = d
  BY <1>2, <1>3 DEF Content
<1> QED
  BY <1>3 DEF SameSize

\* An edit of b adds to what the witness of b was stored for, and a call that
\* leaves a builder and its witness alone leaves the two related.
LEMMA AddingKeeps ==
    ASSUME IInv, WitnessInv, NEW b \in Builder, UNCHANGED witness, exported' = None,
           isSigned(b) => GrewTo(witness[b].storedAt, ContentOf(b)'),
           \A d \in Builder \ {b} : ContentOf(d)' = ContentOf(d)
    PROVE  WitnessInv'
BY DEF WitnessInv, isSigned

LEMMA StoreGrows ==
    ASSUME IInv, WitnessInv, NEW b \in Builder, NEW call, NEW w, Store(b, call, w)
    PROVE  WitnessInv'
<1>1. /\ witness'[b] = [origin |-> call, bytes |-> w, storedAt |-> ContentOf(b)]
      /\ \A d \in Builder \ {b} : witness'[d] = witness[d]
  BY DEF Store, IInv, TypeOK
<1>2. \A d \in Builder : ContentOf(d)' = ContentOf(d)
  BY DEF Store, fields, ContentOf
<1>3. GrewTo(ContentOf(b), ContentOf(b))
  BY PrefixOfItself DEF GrewTo, ContentOf, IInv, TypeOK
<1> QED
  BY <1>1, <1>2, <1>3 DEF Store, WitnessInv, isSigned

LEMMA NextWitnessInv == IInv /\ WitnessInv /\ [Next]_vars => WitnessInv'
<1> SUFFICES ASSUME IInv, WitnessInv, [Next]_vars PROVE WitnessInv'
  OBVIOUS
<1>1. ASSUME NEW b \in Builder, NEW n \in Nonce, New(b, n)
      PROVE  WitnessInv'
  BY <1>1 DEF New, IInv, TypeOK, WitnessInv, isSigned, ContentOf
<1>2. ASSUME NEW b \in Builder, NEW o \in Output, AddOutput(b, o)
      PROVE  WitnessInv'
  <2>1. /\ UNCHANGED <<nonce, viewKeys, witness>> /\ exported' = None
        /\ outputs'[b] = Append(outputs[b], o)
        /\ \A d \in Builder \ {b} : outputs'[d] = outputs[d]
    BY <1>2 DEF AddOutput, clearPreparedRawTx, IInv, TypeOK
  <2>2. ASSUME isSigned(b)
        PROVE  GrewTo(witness[b].storedAt, ContentOf(b)')
    <3>1. /\ witness[b].storedAt.outputs \in Seq(Output)
          /\ IsPrefix(witness[b].storedAt.outputs, outputs[b])
      BY <2>2 DEF IInv, TypeOK, isSigned, Slot, Content, WitnessInv, GrewTo, ContentOf
    <3>2. IsPrefix(witness[b].storedAt.outputs, outputs'[b])
      BY <2>1, <3>1, PrefixOfAppend DEF IInv, TypeOK
    <3> QED
      BY <2>1, <2>2, <3>2 DEF WitnessInv, GrewTo, ContentOf
  <2>3. \A d \in Builder \ {b} : ContentOf(d)' = ContentOf(d)
    BY <2>1 DEF ContentOf
  <2> QED
    BY <2>1, <2>2, <2>3, AddingKeeps
<1>3. ASSUME NEW b \in Builder, NEW v \in ViewKey, AddViewKey(b, v)
      PROVE  WitnessInv'
  <2>1. /\ UNCHANGED <<nonce, outputs, witness>> /\ exported' = None
        /\ viewKeys'[b] = Append(viewKeys[b], v)
        /\ \A d \in Builder \ {b} : viewKeys'[d] = viewKeys[d]
    BY <1>3 DEF AddViewKey, clearPreparedRawTx, IInv, TypeOK
  <2>2. ASSUME isSigned(b)
        PROVE  GrewTo(witness[b].storedAt, ContentOf(b)')
    <3>1. /\ witness[b].storedAt.viewKeys \in Seq(ViewKey)
          /\ IsPrefix(witness[b].storedAt.viewKeys, viewKeys[b])
      BY <2>2 DEF IInv, TypeOK, isSigned, Slot, Content, WitnessInv, GrewTo, ContentOf
    <3>2. IsPrefix(witness[b].storedAt.viewKeys, viewKeys'[b])
      BY <2>1, <3>1, PrefixOfAppend DEF IInv, TypeOK
    <3> QED
      BY <2>1, <2>2, <3>2 DEF WitnessInv, GrewTo, ContentOf
  <2>3. \A d \in Builder \ {b} : ContentOf(d)' = ContentOf(d)
    BY <2>1 DEF ContentOf
  <2> QED
    BY <2>1, <2>2, <2>3, AddingKeeps
<1>4. ASSUME NEW b \in Builder, Prepare(b)
      PROVE  WitnessInv'
  BY <1>4 DEF Prepare, fields, WitnessInv, isSigned, ContentOf
<1>5. ASSUME NEW b \in Builder,
             \/ \E k \in KeyPair : Sign(b, k)
             \/ \E w \in Offered : AddWitness(b, w)
      PROVE  WitnessInv'
  BY <1>5, StoreGrows DEF Sign, AddWitness
<1>6. ASSUME NEW b \in Builder, ToHex(b) \/ ToSignedPlainHex(b)
      PROVE  WitnessInv'
  BY <1>6 DEF ToHex, ToSignedPlainHex, Signed, fields, WitnessInv, isSigned, ContentOf
<1>7. ASSUME NEW b \in Builder, NEW c \in Builder \ {b}, Clone(b, c)
      PROVE  WitnessInv'
  <2>1. \A d \in Builder : \E e \in Builder :
            ContentOf(d)' = ContentOf(e) /\ witness'[d] = witness[e]
    BY <1>7 DEF Clone, IInv, TypeOK, ContentOf
  <2> QED
    BY <1>7, <2>1 DEF Clone, WitnessInv, isSigned
<1>8. CASE UNCHANGED vars
  BY <1>8 DEF vars, WitnessInv, isSigned, ContentOf
<1> QED
  BY <1>1, <1>2, <1>3, <1>4, <1>5, <1>6, <1>7, <1>8 DEF Next

\* A signature goes stale only by what is added after it: it is never of another
\* nonce, of outputs in another order, or of an output the builder no longer has.
THEOREM StaleExtent == Spec => []StaleByAdditionsOnly
<1>1. Init => WitnessInv
  BY DEF Init, WitnessInv, isSigned
<1>2. IInv /\ WitnessInv => StaleByAdditionsOnly
  <2> SUFFICES ASSUME IInv, WitnessInv PROVE StaleByAdditionsOnly
    OBVIOUS
  <2>1. ASSUME NEW b \in Builder, isSigned(b)
        PROVE  LET c == witness[b].storedAt IN
               GrewTo(c, ContentOf(b)) /\ (c = ContentOf(b) <=> SameSize(c, ContentOf(b)))
    <3>1. witness[b].storedAt \in Content /\ ContentOf(b) \in Content
      BY <2>1, ContentType DEF IInv, TypeOK, isSigned, Slot
    <3>2. GrewTo(witness[b].storedAt, ContentOf(b))
      BY <2>1 DEF WitnessInv
    <3> QED
      BY <3>1, <3>2, GrewOrSame
  <2>2. ASSUME exported # None, exported.witness.origin = "sign"
        PROVE  LET c == exported.witness.bytes.txId IN
               /\ GrewTo(c, exported.content)
               /\ c = exported.content <=> SameSize(c, exported.content)
    <3>1. /\ exported.builder \in Builder /\ isSigned(exported.builder)
          /\ exported.witness = witness[exported.builder]
          /\ exported.content = ContentOf(exported.builder)
      BY <2>2 DEF IInv, TypeOK, WitnessInv, ExportIsCurrent
    <3>2. exported.witness.bytes.txId = exported.witness.storedAt
      BY <2>2, <3>1 DEF IInv, SignCoversPresentContent
    <3> QED
      BY <2>1, <3>1, <3>2
  <2> QED
    BY <2>1, <2>2 DEF StaleByAdditionsOnly
<1> QED
  BY <1>1, <1>2, NextWitnessInv, Invariance, PTL DEF Spec
=============================================================================
