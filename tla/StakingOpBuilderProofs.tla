----------------------- MODULE StakingOpBuilderProofs -----------------------
(***************************************************************************)
(* Proofs about StakingOpBuilder for every number of builders, accounts,   *)
(* networks and key pairs and every width of the native nonce.             *)
(*                                                                         *)
(* The argument: an object exists only after the native addon has built its *)
(* transaction, so the encoded transaction is always the one of the object's *)
(* class and options (RawTxInv), and it can be signed only when it exists.  *)
(***************************************************************************)
EXTENDS StakingOpBuilder, TLAPS

\* What the constructor leaves behind
RawTxInv ==
    \A b \in Builder :
        /\ rawTx[b] # None => /\ kind[b] \in Kind
                              /\ options[b] \in Options
                              /\ CanParse(options[b].nonce)
                              /\ rawTx[b] = Build(kind[b], options[b])
        /\ isCompleted(b) => rawTx[b] # None

IInv == TypeOK /\ RawTxInv /\ VerifiedIsAuthentic

-----------------------------------------------------------------------------
\* The native addon encodes the options it can parse as a transaction
LEMMA BuildType ==
    ASSUME NEW k \in Kind, NEW o \in Options, CanParse(o.nonce)
    PROVE  Build(k, o) \in RawTx
<1>1. o.stakingAddress \in StakingAddress /\ o.nonce \in AccountNonce /\ o.chain \in Chain
  BY DEF Options
<1>2. o.nonce \in 0 .. NonceModulus - 1
  BY <1>1, ConstantsAssumption DEF AccountNonce, CanParse
<1> QED
  BY <1>1, <1>2 DEF Build, RawTx

LEMMA InitIInv == Init => IInv
BY DEF Init, IInv, TypeOK, RawTxInv, VerifiedIsAuthentic, isCompleted

\* Whatever verify_unjail_tx_aux accepts is an unjail of the given options that
\* a key pair of their account has signed.
LEMMA AcceptedIsAuthentic ==
    ASSUME NEW aux \in TxAux, NEW o \in Options, VerifyUnjail(aux, o)
    PROVE  \E kp \in HasPrivateKey :
               /\ StakingOf[kp] = o.stakingAddress
               /\ aux = SignedAux(Build("unjail", o), kp)
<1> DEFINE kp == aux.signature.keyPair
<1>1. aux.tx \in RawTx /\ kp \in HasPrivateKey
  BY DEF TxAux
<1>2. aux.tx = Build("unjail", o)
  BY <1>1 DEF VerifyUnjail, RawTx, Build
<1>3. aux.signature.txId = aux.tx /\ StakingOf[kp] = o.stakingAddress
  BY DEF VerifyUnjail, Recovers
<1>4. aux = SignedAux(aux.tx, kp)
  BY <1>3 DEF TxAux, SignedAux
<1> QED
  BY <1>1, <1>2, <1>3, <1>4

LEMMA NextIInv == IInv /\ [Next]_vars => IInv'
<1> SUFFICES ASSUME IInv, [Next]_vars PROVE IInv'
  OBVIOUS
<1> USE DEF IInv
<1>1. ASSUME NEW b \in Builder, NEW k \in Kind, NEW o \in Options, New(b, k, o)
      PROVE  IInv'
  <2>1. Build(k, o) \in RawTx
    BY <1>1, BuildType DEF New
  <2>2. TypeOK'
    BY <1>1, <2>1 DEF New, TypeOK
  <2>3. RawTxInv'
    BY <1>1 DEF New, TypeOK, RawTxInv, isCompleted
  <2>4. VerifiedIsAuthentic'
    BY <1>1 DEF New, VerifiedIsAuthentic
  <2> QED
    BY <2>2, <2>3, <2>4
<1>2. ASSUME NEW b \in Builder, NEW kp \in KeyPair, Sign(b, kp)
      PROVE  IInv'
  <2>1. TypeOK'
    BY <1>2 DEF Sign, TypeOK
  <2>2. RawTxInv'
    BY <1>2 DEF Sign, TypeOK, RawTxInv, isCompleted
  <2>3. VerifiedIsAuthentic'
    BY <1>2 DEF Sign, VerifiedIsAuthentic
  <2> QED
    BY <2>1, <2>2, <2>3
<1>3. ASSUME NEW aux \in TxAux, NEW o \in Options, Verify(aux, o)
      PROVE  IInv'
  <2>1. TypeOK'
    BY <1>3 DEF Verify, TypeOK
  <2>2. RawTxInv'
    BY <1>3 DEF Verify, RawTxInv, isCompleted
  <2>3. VerifiedIsAuthentic'
    BY <1>3, AcceptedIsAuthentic DEF Verify, VerifiedIsAuthentic
  <2> QED
    BY <2>1, <2>2, <2>3
<1>4. CASE UNCHANGED vars
  BY <1>4 DEF vars, TypeOK, RawTxInv, isCompleted, VerifiedIsAuthentic
<1> QED
  BY <1>1, <1>2, <1>3, <1>4 DEF Next, NewUnbond, NewNodeJoin, NewUnjail, Kind

\* The invariant holds in every reachable state.
THEOREM Invariance == Spec => []IInv
BY InitIInv, NextIInv, PTL DEF Spec

\* The fields of an object stay of their types; in particular, a nonce that
\* reached an encoded transaction fits the native integer.
THEOREM TypeCorrect == Spec => []TypeOK
<1>1. IInv => TypeOK
  BY DEF IInv
<1> QED
  BY <1>1, Invariance, PTL

\* The verifier accepts the export of a completed builder under the options the
\* builder was made with and no others, and only for the account's own key.
THEOREM ExportCorrect == Spec => []ExportVerifies
<1>1. IInv => ExportVerifies
  <2> SUFFICES ASSUME IInv, NEW b \in Builder, CanExport(b), NEW o \in Options
               PROVE  VerifyUnjail(toHex(b), o) <=>
                          /\ kind[b] = "unjail"
                          /\ o = options[b]
                          /\ StakingOf[keyPair[b]] = o.stakingAddress
    BY DEF ExportVerifies
  <2>1. /\ options[b] \in Options
        /\ CanParse(options[b].nonce)
        /\ rawTx[b] = Build(kind[b], options[b])
    BY DEF IInv, RawTxInv, CanExport
  <2>2. toHex(b).tx = Build(kind[b], options[b])
    BY <2>1 DEF toHex, SignedAux
  <2>3. Recovers(toHex(b), o.stakingAddress) <=> StakingOf[keyPair[b]] = o.stakingAddress
    BY DEF Recovers, toHex, SignedAux
  <2>4. ASSUME VerifyUnjail(toHex(b), o)
        PROVE  o = options[b]
    <3>1. /\ o.stakingAddress = options[b].stakingAddress
          /\ o.nonce = options[b].nonce
          /\ o.chain = options[b].chain
      BY <2>2, <2>4 DEF VerifyUnjail, Build
    <3> QED
      BY <2>1, <3>1 DEF Options
  <2> QED
    BY <2>1, <2>2, <2>3, <2>4 DEF VerifyUnjail, Build
<1> QED
  BY <1>1, Invariance, PTL

\* What the verifier has accepted is the unjail its options describe, signed by
\* a key pair of that account.
THEOREM VerifierCorrect == Spec => []VerifiedIsAuthentic
<1>1. IInv => VerifiedIsAuthentic
  BY DEF IInv
<1> QED
  BY <1>1, Invariance, PTL
=============================================================================
