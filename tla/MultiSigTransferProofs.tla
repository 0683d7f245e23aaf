----------------------- MODULE MultiSigTransferProofs -----------------------
(***************************************************************************)
(* Proofs about MultiSigTransfer for every number of builders, signers,    *)
(* multi-signature addresses and open sessions.                            *)
(*                                                                         *)
(* The argument: a session has a final signature only when all its signers *)
(* went through every round (SessionInv), a round once complete stays so,  *)
(* and so every witness for a multi-signature address that a builder holds *)
(* is a signature of a session of as many owners as the address requires   *)
(* (WitnessInv).  That it is of the present transaction, at the input it    *)
(* unlocks, is the invariant of the builder alone.                         *)
(*                                                                         *)
(* Then the composition is taken apart: what the builder guarantees on its *)
(* own it guarantees here, each session is the rounds of SigningRounds, no *)
(* less and no more, and owners who can unlock a transaction, with proofs   *)
(* from outside where they are several, never all wait for one another.    *)
(***************************************************************************)
EXTENDS MultiSigTransfer, TransferBuilderProofs

SigningRound == {"commitment", "nonce", "signature"}

\* Nobody takes part in a round before all have taken part in the one before
SessionInv ==
    \A id \in DOMAIN sessions :
        /\ id \in [signers : SUBSET Signer, message : Content]
        /\ sessions[id] \in [Round -> SUBSET id.signers]
        /\ \A r \in DOMAIN Before : sessions[id][r] # {} => sessions[id][Before[r]] = id.signers
        /\ id.signers # {}

\* In the sessions ss, w is the work of as many owners of its address as that
\* requires, if the address has several owners
Genuine(ss, w) ==
    \A m \in MultiSigBuilder : w.address = createMultiSigAddress(m) =>
        \E id \in DOMAIN ss :
            /\ id.message = w.txId
            /\ id.signers \subseteq m.signers /\ Cardinality(id.signers) = m.required
            /\ \A r \in SigningRound : ss[id][r] = id.signers

AllGenuine(ss, hex) ==
    \A i \in DOMAIN hex.witnesses :
        hex.witnesses[i] # None => Genuine(ss, hex.witnesses[i])

WitnessInv ==
    /\ \A b \in Builder : isSigning(b) => AllGenuine(sessions, incompleteHex[b])
    /\ exported # None => AllGenuine(sessions, exported)

MSIInv == IInv /\ SessionInv /\ WitnessInv

-----------------------------------------------------------------------------
\* The final signature means that every round is complete.
LEMMA FinalMeansAllSigned ==
    ASSUME SessionInv, NEW id \in DOMAIN sessions, sessions[id]["final"] # {}
    PROVE  \A r \in SigningRound : sessions[id][r] = id.signers
<1>1. sessions[id]["signature"] = id.signers
  BY DEF SessionInv, Before
<1>2. sessions[id]["nonce"] = id.signers
  BY <1>1 DEF SessionInv, Before
<1>3. sessions[id]["commitment"] = id.signers
  BY <1>2 DEF SessionInv, Before
<1> QED
  BY <1>1, <1>2, <1>3 DEF SigningRound

\* What the final signature of a session unlocks, with a proof, is rightly
\* unlocked.
LEMMA SessionSignatureIsGenuine ==
    ASSUME SessionInv, NEW id \in DOMAIN sessions, sessions[id]["final"] # {},
           NEW a \in ProvenBy(id.signers)
    PROVE  /\ [address |-> a, txId |-> id.message] \in Witness
           /\ Genuine(sessions, [address |-> a, txId |-> id.message])
<1>1. PICK m \in MultiSigBuilder : id.signers \in Leaves(m) /\ a = createMultiSigAddress(m)
  BY DEF ProvenBy, UnlockedBy
<1>2. a \in Address
  BY <1>1, MultiSigTransferAssumption DEF createMultiSigAddress
<1>3. \A n \in MultiSigBuilder : a = createMultiSigAddress(n) => n = m
  BY <1>1, MultiSigTransferAssumption DEF createMultiSigAddress
<1>4. id.signers \subseteq m.signers /\ Cardinality(id.signers) = m.required
  BY <1>1 DEF Leaves
<1>5. [address |-> a, txId |-> id.message] \in Witness
  BY <1>2 DEF SessionInv, Witness
<1>6. Genuine(sessions, [address |-> a, txId |-> id.message])
  BY <1>3, <1>4, FinalMeansAllSigned DEF Genuine
<1> QED
  BY <1>5, <1>6

\* The address of a single key pair has no leaves of several signers.
LEMMA SingleSignatureIsGenuine ==
    ASSUME NEW ss, NEW k \in KeyPair, NEW n \in Net, NEW hex
    PROVE  Genuine(ss, WitnessOf(SignerAddress[k][n], hex))
BY MultiSigTransferAssumption DEF Genuine, WitnessOf, createMultiSigAddress

LEMMA InitMSIInv == MSInit => MSIInv
<1> SUFFICES ASSUME MSInit PROVE MSIInv
  OBVIOUS
<1>1. IInv
  BY InitIInv DEF MSInit
<1>2. SessionInv
  BY DEF MSInit, SessionInv
<1>3. WitnessInv
  BY DEF MSInit, Init, WitnessInv, isSigning
<1> QED
  BY <1>1, <1>2, <1>3 DEF MSIInv

-----------------------------------------------------------------------------
(* The sessions *)

\* Opening a session and taking part in one leave the completed rounds of all
\* sessions as they are.
LEMMA SessionsGrow ==
    ASSUME MSIInv, UNCHANGED vars, SessionInv',
           \A id \in DOMAIN sessions :
              /\ id \in DOMAIN sessions'
              /\ \A r \in SigningRound :
                    sessions[id][r] = id.signers => sessions'[id][r] = id.signers
    PROVE  MSIInv'
<1>1. IInv'
  BY NextIInv DEF MSIInv
<1>2. \A w : Genuine(sessions, w) => Genuine(sessions', w)
  BY DEF Genuine
<1>3. \A hex : AllGenuine(sessions, hex) => AllGenuine(sessions', hex)
  BY <1>2 DEF AllGenuine
<1>4. WitnessInv'
  BY <1>3 DEF MSIInv, WitnessInv, vars, isSigning
<1> QED
  BY <1>1, <1>4 DEF MSIInv

LEMMA CreateKeeps ==
    ASSUME MSIInv, NEW b \in Builder, NEW m \in MultiSigBuilder,
           CreateNewSession(b, m.signers)
    PROVE  MSIInv'
<1> DEFINE new == [signers |-> m.signers, message |-> txId(b)]
<1>1. /\ new \notin DOMAIN sessions
      /\ sessions' = [s \in DOMAIN sessions \cup {new} |->
                         IF s = new THEN NoRounds ELSE sessions[s]]
      /\ UNCHANGED vars
  BY DEF CreateNewSession
<1>2. m.signers \in SUBSET Signer /\ m.signers # {}
  BY MultiSigTransferAssumption DEF MultiSigBuilder
<1>3. new \in [signers : SUBSET Signer, message : Content]
  BY <1>2 DEF MSIInv, IInv, TypeOK, txId, ContentOf, Content
<1>4. new.signers # {}
  BY <1>2
<1>5. NoRounds \in [Round -> SUBSET new.signers]
  BY DEF NoRounds
<1>6. \A r \in DOMAIN Before : NoRounds[r] = {}
  BY DEF NoRounds, Before, Round
<1> HIDE DEF new
<1>7. SessionInv'
  <2> SUFFICES ASSUME NEW id \in DOMAIN sessions'
               PROVE  /\ id \in [signers : SUBSET Signer, message : Content]
                      /\ sessions'[id] \in [Round -> SUBSET id.signers]
                      /\ \A r \in DOMAIN Before :
                            sessions'[id][r] # {} => sessions'[id][Before[r]] = id.signers
                      /\ id.signers # {}
    BY DEF SessionInv
  <2>1. CASE id = new
    <3>1. sessions'[id] = NoRounds
      BY <1>1, <2>1
    <3> QED
      BY <1>3, <1>4, <1>5, <1>6, <2>1, <3>1
  <2>2. CASE id # new
    <3>1. id \in DOMAIN sessions /\ sessions'[id] = sessions[id]
      BY <1>1, <2>2
    <3> QED
      BY <3>1 DEF MSIInv, SessionInv
  <2> QED
    BY <2>1, <2>2
<1>8. \A id \in DOMAIN sessions : id \in DOMAIN sessions' /\ sessions'[id] = sessions[id]
  BY <1>1
<1> QED
  BY <1>1, <1>7, <1>8, SessionsGrow

LEMMA TakePartKeeps ==
    ASSUME MSIInv, NEW id \in DOMAIN sessions, NEW r \in Round, NEW s \in id.signers,
           TakePart(id, r, s)
    PROVE  MSIInv'
<1>1. /\ sessions[id] \in [Round -> SUBSET id.signers]
      /\ id \in [signers : SUBSET Signer, message : Content]
      /\ id.signers # {}
  BY DEF MSIInv, SessionInv
<1>2. /\ DOMAIN sessions' = DOMAIN sessions
      /\ \A o \in DOMAIN sessions \ {id} : sessions'[o] = sessions[o]
      /\ sessions'[id] = [sessions[id] EXCEPT ![r] = @ \cup {s}]
  BY DEF TakePart
<1>3. /\ sessions'[id] \in [Round -> SUBSET id.signers]
      /\ \A q \in Round : sessions[id][q] \subseteq sessions'[id][q]
      /\ \A q \in Round \ {r} : sessions'[id][q] = sessions[id][q]
  BY <1>1, <1>2
<1>4. \A q \in Round : sessions[id][q] = id.signers => sessions'[id][q] = id.signers
  BY <1>3
<1>5. ASSUME NEW q \in DOMAIN Before, sessions'[id][q] # {}
      PROVE  sessions'[id][Before[q]] = id.signers
  <2>1. q \in Round /\ Before[q] \in Round
    BY DEF Before, Round
  <2>2. sessions[id][Before[q]] = id.signers
    <3>1. CASE q = r
      BY <3>1 DEF TakePart, IsWaiting
    <3>2. CASE q # r
      BY <1>3, <1>5, <2>1, <3>2 DEF MSIInv, SessionInv
    <3> QED
      BY <3>1, <3>2
  <2> QED
    BY <1>4, <2>1, <2>2
<1>6. SessionInv'
  <2> SUFFICES ASSUME NEW o \in DOMAIN sessions'
               PROVE  /\ o \in [signers : SUBSET Signer, message : Content]
                      /\ sessions'[o] \in [Round -> SUBSET o.signers]
                      /\ \A q \in DOMAIN Before :
                            sessions'[o][q] # {} => sessions'[o][Before[q]] = o.signers
                      /\ o.signers # {}
    BY DEF SessionInv
  <2>1. CASE o = id
    BY <1>1, <1>3, <1>5, <2>1
  <2>2. CASE o # id
    BY <1>2, <2>2 DEF MSIInv, SessionInv
  <2> QED
    BY <2>1, <2>2
<1>7. \A o \in DOMAIN sessions :
          /\ o \in DOMAIN sessions'
          /\ \A q \in SigningRound : sessions[o][q] = o.signers => sessions'[o][q] = o.signers
  BY <1>2, <1>4 DEF SigningRound, Round
<1> QED
  BY <1>6, <1>7, SessionsGrow DEF TakePart

-----------------------------------------------------------------------------
(* The builders *)

\* What a call signs holds genuine witnesses only.
LEMMA PreparedIsGenuine ==
    ASSUME MSIInv, NEW b \in Builder
    PROVE  AllGenuine(sessions, toIncompleteHex(b))
<1>1. CASE isSigning(b)
  BY <1>1 DEF MSIInv, WitnessInv, toIncompleteHex
<1>2. CASE ~isSigning(b)
  BY <1>2 DEF toIncompleteHex, Unsigned, AllGenuine
<1> QED
  BY <1>1, <1>2

LEMMA WithGenuineWitness ==
    ASSUME NEW ss, NEW hex, WellSigned(hex), AllGenuine(ss, hex),
           NEW i, NEW w, Genuine(ss, w)
    PROVE  AllGenuine(ss, WithWitness(hex, i, w))
<1>1. WithWitness(hex, i, w).witnesses = [hex.witnesses EXCEPT ![i] = w]
  BY DEF WithWitness, WellSigned, IncompleteHex
<1> QED
  BY <1>1 DEF AllGenuine

\* Filling the cache of one builder with genuine witnesses keeps the invariant.
LEMMA StoreKeepsWitnessInv ==
    ASSUME MSIInv, NEW b \in Builder, NEW hex, AllGenuine(sessions, hex),
           incompleteHex' = [incompleteHex EXCEPT ![b] = hex],
           exported' = None, UNCHANGED sessions
    PROVE  WitnessInv'
<1>1. /\ incompleteHex'[b] = hex
      /\ \A d \in Builder \ {b} : incompleteHex'[d] = incompleteHex[d]
  BY DEF MSIInv, IInv, TypeOK
<1>2. \A d \in Builder : incompleteHex'[d] # None => AllGenuine(sessions', incompleteHex'[d])
  BY <1>1 DEF MSIInv, WitnessInv, isSigning
<1> QED
  BY <1>2 DEF WitnessInv, isSigning

LEMMA SignInputKeeps ==
    ASSUME MSIInv, NEW b \in Builder, NEW i \in DOMAIN inputs[b], NEW k \in KeyPair,
           SignInput(b, i, k), UNCHANGED sessions
    PROVE  WitnessInv'
<1> DEFINE hex == toIncompleteHex(b)
           w == WitnessOf(SignerAddress[k][network[b].name], hex)
<1>1. network[b].name \in Net
  BY ConstantsAssumption DEF MSIInv, IInv, TypeOK
<1>2. Genuine(sessions, w)
  BY <1>1, SingleSignatureIsGenuine
<1>3. WellSigned(hex) /\ AllGenuine(sessions, hex)
  BY PreparedIsWellSigned, PreparedIsGenuine DEF MSIInv
<1>4. /\ incompleteHex' = [incompleteHex EXCEPT ![b] = WithWitness(hex, i, w)]
      /\ exported' = None
  BY DEF SignInput
<1> HIDE DEF hex, w
<1>5. AllGenuine(sessions, WithWitness(hex, i, w))
  BY <1>2, <1>3, WithGenuineWitness
<1> QED
  BY <1>4, <1>5, StoreKeepsWitnessInv

\* To the builder a bare signature is a witness that does not unlock the input.
LEMMA BareSignatureIsRefused ==
    ASSUME IInv, NEW b \in Builder, NEW i \in DOMAIN inputs[b],
           NEW id \in DOMAIN sessions, AddBareSignature(b, i, id)
    PROVE  \E w \in Witness : AddWitness(b, i, w)
<1> DEFINE other == [network |-> network[b], inputs |-> <<>>, outputs |-> outputs[b],
                     viewKeys |-> viewKeys[b]]
           w == [address |-> AddressOf[inputs[b][i]], txId |-> other]
<1>1. /\ network[b] \in Network /\ inputs[b] \in Seq(Input)
      /\ outputs[b] \in Seq(Output) /\ viewKeys[b] \in Seq(ViewKey)
  BY DEF IInv, TypeOK
<1>2. inputs[b][i] \in Input
  BY <1>1
<1>3. AddressOf[inputs[b][i]] \in Address
  BY <1>2, ConstantsAssumption
<1>4. other \in Content
  BY <1>1 DEF Content
<1>5. w \in Witness
  BY <1>3, <1>4 DEF Witness
<1>6. other.inputs # ContentOf(b).inputs
  BY <1>1 DEF ContentOf
<1>7. toIncompleteHex(b).content = ContentOf(b)
  BY PreparedIsWellSigned
<1> HIDE DEF other
<1>8. ~Unlocks(w, toIncompleteHex(b), i)
  BY <1>6, <1>7 DEF Unlocks
<1> HIDE DEF w
<1>9. AddWitness(b, i, w)
  BY <1>8 DEF AddBareSignature, AddWitness
<1> QED
  BY <1>5, <1>9

LEMMA AddBareSignatureKeeps ==
    ASSUME MSIInv, NEW b \in Builder, NEW i \in DOMAIN inputs[b],
           NEW id \in DOMAIN sessions, AddBareSignature(b, i, id)
    PROVE  MSIInv'
<1>1. WitnessInv'
  BY PreparedIsGenuine, StoreKeepsWitnessInv DEF AddBareSignature
<1>2. IInv'
  BY BareSignatureIsRefused, AddWitnessKeepsIInv DEF MSIInv
<1>3. SessionInv'
  BY DEF AddBareSignature, MSIInv, SessionInv
<1> QED
  BY <1>1, <1>2, <1>3 DEF MSIInv

LEMMA AddSignatureKeeps ==
    ASSUME MSIInv, NEW b \in Builder, NEW i \in DOMAIN inputs[b],
           NEW id \in DOMAIN sessions, AddSignature(b, i, id)
    PROVE  MSIInv'
<1>1. PICK a \in ProvenBy(id.signers) :
          AddWitness(b, i, [address |-> a, txId |-> id.message])
  BY DEF AddSignature
<1> DEFINE w == [address |-> a, txId |-> id.message]
           hex == toIncompleteHex(b)
           new == IF Unlocks(w, hex, i) THEN WithWitness(hex, i, w) ELSE hex
<1>2. w \in Witness /\ Genuine(sessions, w)
  BY SessionSignatureIsGenuine DEF AddSignature, MSIInv
<1>3. AddWitness(b, i, w)
  BY <1>1
<1>4. WellSigned(hex) /\ AllGenuine(sessions, hex)
  BY PreparedIsWellSigned, PreparedIsGenuine DEF MSIInv
<1>5. incompleteHex' = [incompleteHex EXCEPT ![b] = new] /\ exported' = None
  BY <1>3 DEF AddWitness
<1> HIDE DEF w, hex
<1>6. AllGenuine(sessions, new)
  BY <1>2, <1>4, WithGenuineWitness
<1> HIDE DEF new
<1>7. WitnessInv'
  BY <1>5, <1>6, StoreKeepsWitnessInv DEF AddSignature
<1>8. IInv'
  BY <1>2, <1>3, AddWitnessKeepsIInv DEF MSIInv
<1>9. SessionInv'
  BY DEF AddSignature, MSIInv, SessionInv
<1> QED
  BY <1>7, <1>8, <1>9 DEF MSIInv

LEMMA BuilderStepKeeps ==
    ASSUME MSIInv, NEW b \in Builder, BuilderStep(b)
    PROVE  MSIInv'
<1>1. IInv'
  BY NextIInv DEF BuilderStep, MSIInv, Next, Collect
<1>2. SessionInv'
  BY DEF BuilderStep, MSIInv, SessionInv
<1>3. WitnessInv'
  <2>1. CASE Edit(b)
    <3>1. incompleteHex' = [incompleteHex EXCEPT ![b] = None] /\ exported' = None
      BY <2>1 DEF Edit, AddInput, AddOutput, AddViewKey, clearIncompleteSigningHex
    <3>2. \A d \in Builder : incompleteHex'[d] # None => incompleteHex'[d] = incompleteHex[d]
      BY <3>1 DEF MSIInv, IInv, TypeOK
    <3> QED
      BY <3>1, <3>2 DEF BuilderStep, MSIInv, WitnessInv, isSigning
  <2>2. CASE \E i \in DOMAIN inputs[b], k \in KeyPair : SignInput(b, i, k)
    BY <2>2, SignInputKeeps DEF BuilderStep
  <2>3. CASE ToHex(b)
    <3>1. AllGenuine(sessions, incompleteHex[b])
      BY <2>3 DEF ToHex, isCompleted, MSIInv, WitnessInv
    <3> QED
      BY <2>3, <3>1 DEF ToHex, BuilderStep, MSIInv, WitnessInv, isSigning
  <2> QED
    BY <2>1, <2>2, <2>3 DEF BuilderStep
<1> QED
  BY <1>1, <1>2, <1>3 DEF MSIInv

LEMMA NextMSIInv == MSIInv /\ [MSNext]_msVars => MSIInv'
<1> SUFFICES ASSUME MSIInv, [MSNext]_msVars PROVE MSIInv'
  OBVIOUS
<1>1. CASE UNCHANGED msVars
  <2>1. UNCHANGED vars /\ UNCHANGED sessions
    BY <1>1 DEF msVars
  <2>2. SessionInv'
    BY <2>1 DEF MSIInv, SessionInv
  <2> QED
    BY <2>1, <2>2, SessionsGrow
<1>2. CASE TakePartInAny
  BY <1>2, TakePartKeeps DEF TakePartInAny
<1> QED
  BY <1>1, <1>2, BuilderStepKeeps, CreateKeeps, AddBareSignatureKeeps, AddSignatureKeeps
     DEF MSNext

\* The invariant holds in every reachable state.
THEOREM MSInvariance == MSSpec => []MSIInv
BY InitMSIInv, NextMSIInv, PTL DEF MSSpec

\* A witness for an input of several owners, cached or exported, is the work of
\* as many of them as the address requires, over exactly this transaction.
THEOREM ThresholdCorrect == MSSpec => []ThresholdSigned
<1>1. MSIInv => ThresholdSigned
  <2> SUFFICES ASSUME MSIInv PROVE ThresholdSigned
    OBVIOUS
  <2>1. ASSUME NEW hex, AllGenuine(sessions, hex),
               \A i \in DOMAIN hex.witnesses :
                  hex.witnesses[i] # None => Unlocks(hex.witnesses[i], hex, i)
        PROVE  SignedByOwners(hex)
    BY <2>1 DEF AllGenuine, Genuine, SigningRound, SignedByOwners, Unlocks
  <2>2. \A b \in Builder : isSigning(b) => SignedByOwners(incompleteHex[b])
    BY <2>1 DEF MSIInv, WitnessInv, IInv, CacheInv, WellSigned
  <2>3. exported # None => SignedByOwners(exported)
    BY <2>1 DEF MSIInv, WitnessInv, IInv, ExportedIsValid
  <2> QED
    BY <2>2, <2>3 DEF ThresholdSigned
<1> QED
  BY <1>1, MSInvariance, PTL

-----------------------------------------------------------------------------
(* The builder among its sessions.  A step of the composition is a step of *)
(* the builder, or leaves it alone, or gives it the signature of a session *)
(* in addWitness(), with a proof or without: what was proved of the builder*)
(* for any witness holds.                                                  *)

\* The builder of the composition goes through calls of its own.
LEMMA ComposedStep ==
    ASSUME MSIInv, [MSNext]_msVars
    PROVE  \/ [Next]_vars
           \/ \E b \in Builder : \E i \in DOMAIN inputs[b], w \in Witness : AddWitness(b, i, w)
<1>1. ASSUME NEW b \in Builder, BuilderStep(b)
      PROVE  Next
  BY <1>1 DEF BuilderStep, Next, Collect
<1>2. ASSUME NEW b \in Builder, NEW m \in MultiSigBuilder, CreateNewSession(b, m.signers)
      PROVE  UNCHANGED vars
  BY <1>2 DEF CreateNewSession
<1>3. CASE TakePartInAny
  BY <1>3 DEF TakePartInAny, TakePart
<1>4. ASSUME NEW b \in Builder, NEW i \in DOMAIN inputs[b], NEW id \in DOMAIN sessions,
             AddSignature(b, i, id)
      PROVE  \E w \in Witness : AddWitness(b, i, w)
  <2>1. PICK a \in ProvenBy(id.signers) :
            AddWitness(b, i, [address |-> a, txId |-> id.message])
    BY <1>4 DEF AddSignature
  <2>2. [address |-> a, txId |-> id.message] \in Witness
    BY <1>4, SessionSignatureIsGenuine DEF AddSignature, MSIInv
  <2> QED
    BY <2>1, <2>2
<1>5. ASSUME NEW b \in Builder, NEW i \in DOMAIN inputs[b], NEW id \in DOMAIN sessions,
             AddBareSignature(b, i, id)
      PROVE  \E w \in Witness : AddWitness(b, i, w)
  BY <1>5, BareSignatureIsRefused DEF MSIInv
<1>6. CASE UNCHANGED msVars
  BY <1>6 DEF msVars
<1> QED
  BY <1>1, <1>2, <1>3, <1>4, <1>5, <1>6 DEF MSNext

\* Everything the builder guarantees on its own it guarantees among any number
\* of sessions, whose signatures may be of other inputs and of transactions that
\* are no more: the cache is current, its witnesses cover the present
\* transaction, and what toHex() returns is valid and on one network.
THEOREM ComposedSafety ==
    MSSpec => [](TypeOK /\ CacheIsCurrent /\ WitnessesCoverTxId
                 /\ ExportedIsValid /\ ExportedOnOneNetwork)
<1>1. IInv => CacheIsCurrent
  BY DEF IInv, CacheInv, CacheIsCurrent, WellSigned, ContentOf
<1>2. IInv => WitnessesCoverTxId
  BY DEF IInv, CacheInv, WitnessesCoverTxId, WellSigned, Unlocks, ContentOf, txId
<1>3. MSIInv => TypeOK /\ CacheIsCurrent /\ WitnessesCoverTxId
                /\ ExportedIsValid /\ ExportedOnOneNetwork
  BY <1>1, <1>2 DEF MSIInv, IInv
<1> QED
  BY <1>3, MSInvariance, PTL

\* Builders whose witnesses come out of interleaved sessions still implement
\* their promise: to a caller they have no cache, and a session changes only the
\* slot its signature unlocks.
THEOREM ComposedRefinement == MSSpec => ImplementsPromise
<1>1. MSInit => Promise!Init
  BY InitRefines DEF MSInit
<1>2. ASSUME MSIInv, [MSNext]_msVars
      PROVE  [Promise!Next]_Promise!vars
  <2>1. IInv
    BY <1>2 DEF MSIInv
  <2>2. CASE [Next]_vars
    BY <2>1, <2>2, NextRefines
  <2>3. ASSUME NEW b \in Builder, NEW i \in DOMAIN inputs[b], NEW w \in Witness,
               AddWitness(b, i, w)
        PROVE  Promise!Next
    BY <2>1, <2>3, AddWitnessRefines DEF Promise!Next
  <2> QED
    BY <1>2, <2>2, <2>3, ComposedStep
<1>3. MSIInv /\ [MSNext]_msVars => [Promise!Next]_Promise!vars
  BY <1>2
<1> QED
  BY <1>1, <1>3, MSInvariance, PTL DEF MSSpec, ImplementsPromise, Promise!Spec

\* No signature a builder has collected is lost to a session that fails, is of
\* an older transaction, or is of another input.
THEOREM ComposedSignaturesKept == MSSpec => SignaturesAreKept
<1>1. ASSUME MSIInv, [MSNext]_msVars, NEW d \in Builder
      PROVE  Kept(d)
  <2>1. IInv
    BY <1>1 DEF MSIInv
  <2>2. CASE [Next]_vars
    BY <2>1, <2>2, NextKeeps
  <2>3. ASSUME NEW b \in Builder, NEW i \in DOMAIN inputs[b], NEW w \in Witness,
               AddWitness(b, i, w)
        PROVE  Kept(d)
    BY <2>1, <2>3, AddWitnessKept
  <2> QED
    BY <1>1, <2>2, <2>3, ComposedStep
<1>2. MSIInv /\ [MSNext]_msVars => [\A b \in Builder : Kept(b)]_vars
  BY <1>1
<1>3. MSSpec => [][\A b \in Builder : Kept(b)]_vars
  BY <1>2, MSInvariance, PTL DEF MSSpec
<1> QED
  BY <1>3 DEF SignaturesAreKept, Kept

\* A transaction ready to be exported stays so among sessions of any kind, until it
\* is changed: a late signature never spoils it.
THEOREM ComposedReadyUntilEdited == MSSpec => [][\A b \in Builder : StaysReady(b)]_vars
<1>1. ASSUME MSIInv, MSIInv', [MSNext]_msVars, NEW d \in Builder
      PROVE  StaysReady(d)
  <2>1. IInv /\ IInv'
    BY <1>1 DEF MSIInv
  <2>2. CASE [Next]_vars
    BY <2>1, <2>2, NextKeeps, KeptStaysReady
  <2>3. ASSUME NEW b \in Builder, NEW i \in DOMAIN inputs[b], NEW w \in Witness,
               AddWitness(b, i, w)
        PROVE  StaysReady(d)
    BY <2>1, <2>3, AddWitnessKept, KeptStaysReady
  <2> QED
    BY <1>1, <2>2, <2>3, ComposedStep
<1>2. MSIInv /\ MSIInv' /\ [MSNext]_msVars => [\A b \in Builder : StaysReady(b)]_vars
  BY <1>1
<1> QED
  BY <1>2, MSInvariance, PTL DEF MSSpec

-----------------------------------------------------------------------------
(* A session is the rounds of SigningRounds: what MultiSig implements      *)

\* Who took part in round r of a session, nobody before it is opened
TookPart(id, r) == IF id \in DOMAIN sessions THEN sessions[id][r] ELSE {}

Rounds(id) == INSTANCE SigningRounds WITH
    Signer <- id.signers,
    committed <- TookPart(id, "commitment"),
    revealed <- TookPart(id, "nonce"),
    partiallySigned <- TookPart(id, "signature"),
    finished <- TookPart(id, "final")

\* A signer who takes part in a round takes a step of it.
LEMMA TakePartIsRound ==
    ASSUME SessionInv, NEW id \in DOMAIN sessions, NEW r \in Round, NEW s \in id.signers,
           TakePart(id, r, s), NEW jd
    PROVE  [Rounds(jd)!Next]_(Rounds(jd)!vars)
<1>1. /\ DOMAIN sessions' = DOMAIN sessions
      /\ \A kd \in DOMAIN sessions \ {id} : sessions'[kd] = sessions[kd]
  BY DEF TakePart
<1>2. CASE jd # id
  <2>1. \A t \in Round : TookPart(jd, t)' = TookPart(jd, t)
    BY <1>1, <1>2 DEF TookPart
  <2> QED
    BY <2>1 DEF Rounds!vars, Round
<1>3. CASE jd = id
  <2>1. /\ sessions'[id][r] = sessions[id][r] \cup {s}
        /\ \A t \in Round \ {r} : sessions'[id][t] = sessions[id][t]
    BY DEF TakePart, SessionInv
  <2>2. /\ TookPart(id, r)' = TookPart(id, r) \cup {s}
        /\ \A t \in Round \ {r} : TookPart(id, t)' = TookPart(id, t)
    BY <1>1, <2>1 DEF TookPart
  <2>3. r \in DOMAIN Before => TookPart(id, Before[r]) = id.signers
    BY DEF TakePart, IsWaiting, TookPart
  <2>4. Rounds(id)!Next
    <3>1. CASE r = "commitment"
      BY <2>2, <3>1 DEF Round, Rounds!Commit, Rounds!Next
    <3>2. CASE r = "nonce"
      BY <2>2, <2>3, <3>2 DEF Round, Before, Rounds!Reveal, Rounds!Next
    <3>3. CASE r = "signature"
      BY <2>2, <2>3, <3>3 DEF Round, Before, Rounds!PartiallySign, Rounds!Next
    <3>4. CASE r = "final"
      BY <2>2, <2>3, <3>4 DEF Round, Before, Rounds!Finish, Rounds!Next
    <3> QED
      BY <3>1, <3>2, <3>3, <3>4 DEF Round
  <2> QED
    BY <1>3, <2>4
<1> QED
  BY <1>2, <1>3

\* Opening a session is no step of any session.
LEMMA CreateIsNoRound ==
    ASSUME NEW b \in Builder, NEW g, CreateNewSession(b, g), NEW jd
    PROVE  UNCHANGED Rounds(jd)!vars
<1>1. PICK id : /\ id \notin DOMAIN sessions
                /\ sessions' = [kd \in DOMAIN sessions \cup {id} |->
                                    IF kd = id THEN NoRounds ELSE sessions[kd]]
  BY DEF CreateNewSession
<1>2. \A t \in Round : TookPart(jd, t)' = TookPart(jd, t)
  BY <1>1 DEF TookPart, NoRounds
<1> QED
  BY <1>2 DEF Rounds!vars, Round

\* Every session, of whatever signers and whatever message, goes through the
\* rounds that the objects of MultiSig implement.
THEOREM SessionsAreRounds ==
    ASSUME NEW CONSTANT jd
    PROVE  MSSpec => Rounds(jd)!Spec
<1>1. MSInit => Rounds(jd)!Init
  BY DEF MSInit, TookPart, Rounds!Init
<1>2. ASSUME MSIInv, [MSNext]_msVars
      PROVE  [Rounds(jd)!Next]_(Rounds(jd)!vars)
  <2>1. CASE TakePartInAny
    BY <1>2, <2>1, TakePartIsRound DEF TakePartInAny, MSIInv
  <2>2. ASSUME NEW b \in Builder, NEW m \in MultiSigBuilder, CreateNewSession(b, m.signers)
        PROVE  UNCHANGED Rounds(jd)!vars
    BY <2>2, CreateIsNoRound
  <2>3. CASE UNCHANGED sessions
    BY <2>3 DEF Rounds!vars, TookPart
  <2> QED
    BY <1>2, <2>1, <2>2, <2>3 DEF MSNext, msVars, BuilderStep, AddBareSignature,
                                   AddSignature
<1>3. MSIInv /\ [MSNext]_msVars => [Rounds(jd)!Next]_(Rounds(jd)!vars)
  BY <1>2
<1> QED
  BY <1>1, <1>3, MSInvariance, PTL DEF MSSpec, Rounds!Spec

\* And no step of those rounds is missing: what the objects of MultiSig can do
\* in an open session, its signers can do here.
THEOREM RoundsAreSessions ==
    ASSUME SessionInv, NEW id \in DOMAIN sessions, NEW ss \in [Round -> SUBSET id.signers],
           sessions' = [sessions EXCEPT ![id] = ss], ss # sessions[id],
           Rounds(id)!Next, UNCHANGED vars
    PROVE  TakePartInAny
<1>1. sessions[id] \in [Round -> SUBSET id.signers]
  BY DEF SessionInv
<1>2. \A t \in Round : TookPart(id, t) = sessions[id][t] /\ TookPart(id, t)' = ss[t]
  BY DEF TookPart
<1>3. ASSUME NEW r \in Round, NEW s \in id.signers,
             ss[r] = sessions[id][r] \cup {s},
             \A t \in Round \ {r} : ss[t] = sessions[id][t],
             ~IsWaiting(id, r)
      PROVE  TakePartInAny
  <2>1. s \notin sessions[id][r]
    BY <1>1, <1>3
  <2>2. ss = [sessions[id] EXCEPT ![r] = @ \cup {s}]
    BY <1>1, <1>3
  <2>3. sessions' = [sessions EXCEPT ![id][r] = @ \cup {s}]
    BY <2>2
  <2>4. TakePart(id, r, s)
    BY <1>3, <2>1, <2>3 DEF TakePart
  <2> QED
    BY <2>4 DEF TakePartInAny
<1>4. PICK s \in id.signers : \/ Rounds(id)!Commit(s) \/ Rounds(id)!Reveal(s)
                              \/ Rounds(id)!PartiallySign(s) \/ Rounds(id)!Finish(s)
  BY DEF Rounds!Next
<1>5. CASE Rounds(id)!Commit(s)
  BY <1>2, <1>3, <1>5 DEF Rounds!Commit, Round, IsWaiting, Before
<1>6. CASE Rounds(id)!Reveal(s)
  BY <1>2, <1>3, <1>6 DEF Rounds!Reveal, Round, IsWaiting, Before
<1>7. CASE Rounds(id)!PartiallySign(s)
  BY <1>2, <1>3, <1>7 DEF Rounds!PartiallySign, Round, IsWaiting, Before
<1>8. CASE Rounds(id)!Finish(s)
  BY <1>2, <1>3, <1>8 DEF Rounds!Finish, Round, IsWaiting, Before
<1> QED
  BY <1>4, <1>5, <1>6, <1>7, <1>8

-----------------------------------------------------------------------------
(* Everyone waiting on everyone *)

\* A signing call succeeds that fills an empty slot of b: signInput(), or
\* addWitness() with the signature of a session and a proof
CanSign(b, i) ==
    /\ toIncompleteHex(b).witnesses[i] = None
    /\ CanPrepare(b)
    /\ \/ \E k \in HasPrivateKey :
             SignerAddress[k][network[b].name] = AddressOf[inputs[b][i]]
       \/ \E id \in DOMAIN sessions : \E a \in ProvenBy(id.signers) :
             /\ sessions[id]["final"] # {}
             /\ Unlocks([address |-> a, txId |-> id.message], toIncompleteHex(b), i)

\* Some signer of a session can take part in a round
CanTakePart(id) ==
    \E r \in Round : \E s \in id.signers : s \notin sessions[id][r] /\ ~IsWaiting(id, r)

\* A transaction that the addon can build and whose inputs all have owners who can
\* unlock them, with proofs from outside where they are several, is completed, or
\* one of these owners has something to do for it: neither a late or a bare
\* signature, nor a call that failed, nor a session over another content ever
\* leaves them all waiting.
SignersCanGoOn ==
    \A b \in Builder :
        /\ inputs[b] # <<>> /\ Parseable(ContentOf(b))
        /\ \A i \in DOMAIN inputs[b] : Signable(b, i)
        => \/ isCompleted(b)
           \/ \E i \in DOMAIN inputs[b] : CanSign(b, i)
           \/ \E id \in DOMAIN sessions : id.message = txId(b) /\ CanTakePart(id)

\* An open session has its final signature, or one of its signers can go on.
LEMMA SessionGoesOn ==
    ASSUME SessionInv, NEW id \in DOMAIN sessions
    PROVE  sessions[id]["final"] # {} \/ CanTakePart(id)
<1> SUFFICES ASSUME sessions[id]["final"] = {}, ~CanTakePart(id) PROVE FALSE
  OBVIOUS
<1>1. \A r \in Round : sessions[id][r] \subseteq id.signers
  BY DEF SessionInv
<1>2. \A r \in Round : ~IsWaiting(id, r) => sessions[id][r] = id.signers
  BY <1>1 DEF CanTakePart
<1>3. sessions[id]["commitment"] = id.signers
  BY <1>2 DEF Round, IsWaiting, Before
<1>4. sessions[id]["nonce"] = id.signers
  BY <1>2, <1>3 DEF Round, IsWaiting, Before
<1>5. sessions[id]["signature"] = id.signers
  BY <1>2, <1>4 DEF Round, IsWaiting, Before
<1>6. sessions[id]["final"] = id.signers
  BY <1>2, <1>5 DEF Round, IsWaiting, Before
<1> QED
  BY <1>6 DEF SessionInv

\* A transaction with inputs that is not completed has an input without a witness.
LEMMA EmptySlot ==
    ASSUME IInv, NEW b \in Builder, inputs[b] # <<>>, ~isCompleted(b)
    PROVE  \E i \in DOMAIN inputs[b] : toIncompleteHex(b).witnesses[i] = None
<1>1. inputs[b] \in Seq(Input)
  BY DEF IInv, TypeOK
<1>2. DOMAIN inputs[b] = 1..Len(inputs[b]) /\ Len(inputs[b]) \in Nat \ {0}
  BY <1>1, EmptySeq, LenProperties
<1>3. CASE isSigning(b)
  <2>1. WellSigned(incompleteHex[b]) /\ incompleteHex[b].content = ContentOf(b)
    BY <1>3 DEF IInv, CacheInv
  <2>2. /\ incompleteHex[b].witnesses \in Seq(Witness \cup {None})
        /\ Len(incompleteHex[b].witnesses) = Len(inputs[b])
    BY <2>1 DEF WellSigned, IncompleteHex, ContentOf
  <2>3. DOMAIN incompleteHex[b].witnesses = DOMAIN inputs[b]
    BY <1>2, <2>2, LenProperties
  <2> QED
    BY <1>3, <2>3 DEF isCompleted, AllWitnessed, toIncompleteHex
<1>4. CASE ~isSigning(b)
  <2>1. toIncompleteHex(b).witnesses = [i \in 1..Len(inputs[b]) |-> None]
    BY <1>4 DEF toIncompleteHex, Unsigned, ContentOf
  <2>2. 1 \in DOMAIN inputs[b] /\ toIncompleteHex(b).witnesses[1] = None
    BY <1>2, <2>1
  <2> QED
    BY <2>2
<1> QED
  BY <1>3, <1>4

\* The owners of a transaction's inputs never all wait for one another: the part
\* of EventuallyCompleted that needs no fairness, for any number of them.
THEOREM SignersNeverStuck == MSSpec => []SignersCanGoOn
<1>1. ASSUME MSIInv
      PROVE  SignersCanGoOn
  <2> SUFFICES ASSUME NEW b \in Builder,
                      inputs[b] # <<>>, Parseable(ContentOf(b)),
                      \A i \in DOMAIN inputs[b] : Signable(b, i),
                      ~isCompleted(b)
               PROVE  \/ \E i \in DOMAIN inputs[b] : CanSign(b, i)
                      \/ \E id \in DOMAIN sessions : id.message = txId(b) /\ CanTakePart(id)
    BY DEF SignersCanGoOn
  <2>1. PICK i \in DOMAIN inputs[b] : toIncompleteHex(b).witnesses[i] = None
    BY <1>1, EmptySlot DEF MSIInv
  <2>2. CanPrepare(b)
    BY DEF CanPrepare
  <2>3. CASE \E k \in HasPrivateKey :
                SignerAddress[k][network[b].name] = AddressOf[inputs[b][i]]
    BY <2>1, <2>2, <2>3 DEF CanSign
  <2>4. ASSUME NEW id \in DOMAIN sessions, id.message = txId(b),
               AddressOf[inputs[b][i]] \in ProvenBy(id.signers),
               sessions[id]["final"] # {}
        PROVE  CanSign(b, i)
    <3> DEFINE w == [address |-> AddressOf[inputs[b][i]], txId |-> id.message]
    <3>1. toIncompleteHex(b).content = ContentOf(b) /\ ContentOf(b).inputs = inputs[b]
      BY <1>1, PreparedIsWellSigned DEF MSIInv, ContentOf
    <3>2. Unlocks(w, toIncompleteHex(b), i)
      BY <2>4, <3>1 DEF Unlocks, txId
    <3> QED
      BY <2>1, <2>2, <2>4, <3>2 DEF CanSign
  <2>5. ASSUME NEW id \in DOMAIN sessions, id.message = txId(b), sessions[id]["final"] = {}
        PROVE  id.message = txId(b) /\ CanTakePart(id)
    BY <1>1, <2>5, SessionGoesOn DEF MSIInv
  <2> QED
    BY <2>3, <2>4, <2>5 DEF Signable
<1> QED
  BY <1>1, MSInvariance, PTL
=============================================================================
