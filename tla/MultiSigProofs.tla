--------------------------- MODULE MultiSigProofs --------------------------
(***************************************************************************)
(* Proofs about MultiSig for every set of signers, every number of         *)
(* repeated deliveries and both behaviours of the native session.          *)
(*                                                                         *)
(* The argument does not use the lengths TypeScript compares: it rests on  *)
(* the native session, which gives a nonce or a signature only when it has *)
(* recorded a value of every signer, and on deliveries that carry what was *)
(* sent.  The lengths matter for what they can hold up: they agree with    *)
(* the record if repetitions are refused, and then somebody can always go  *)
(* on until all have signed; a list that is too long holds up its session   *)
(* for ever.                                                               *)
(***************************************************************************)
EXTENDS MultiSig, FiniteSetTheorems, TLAPS

\* What a session has recorded was produced by its owner
RecordedWasSent ==
    \A r \in Round, s \in Signer : recorded[r][s] \subseteq sent[r]

\* What a session gave out rests on a complete record of the round before
RecordIsComplete ==
    /\ \A s \in sent["nonce"] : recorded["commitment"][s] = Signer
    /\ \A s \in sent["signature"] : recorded["nonce"][s] = Signer
    /\ \A s \in Signer : signature[s] => recorded["signature"][s] = Signer

IInv == TypeOK /\ RecordedWasSent /\ RecordIsComplete

\* A session that has recorded a value of every signer shows that all of them
\* produced one.
LEMMA CompleteMeansAllSent ==
    ASSUME IInv, NEW r \in Round, NEW s \in Signer, recorded[r][s] = Signer
    PROVE  sent[r] = Signer
<1>1. Signer \subseteq sent[r]
  BY DEF IInv, RecordedWasSent
<1>2. sent[r] \subseteq Signer
  BY DEF IInv, TypeOK
<1> QED
  BY <1>1, <1>2

\* The invariant holds when the sessions have been created.
LEMMA InitIInv == Init => IInv
BY DEF Init, IInv, TypeOK, RecordedWasSent, RecordIsComplete, Round

\* A session that produces its value for round r, with a complete record of the
\* round before, keeps the invariant.
LEMMA ProduceKeepsIInv ==
    ASSUME IInv, NEW r \in Round, NEW s \in Signer, Produce(r, s),
           r = "nonce" => recorded["commitment"][s] = Signer,
           r = "signature" => recorded["nonce"][s] = Signer
    PROVE  IInv'
<1>1. TypeOK'
  BY DEF IInv, TypeOK, Produce
<1>2. RecordedWasSent'
  BY DEF IInv, TypeOK, RecordedWasSent, Produce
<1>3. \A q \in Round, t \in Signer : recorded[q][t] \subseteq recorded'[q][t]
  BY DEF IInv, TypeOK, Produce
<1>4. \A q \in Round : sent'[q] = IF q = r THEN sent[q] \cup {s} ELSE sent[q]
  BY DEF IInv, TypeOK, Produce
<1>5. RecordIsComplete'
  <2>1. \A q \in Round, t \in Signer : recorded[q][t] = Signer => recorded'[q][t] = Signer
    <3> SUFFICES ASSUME NEW q \in Round, NEW t \in Signer, recorded[q][t] = Signer
                 PROVE  recorded'[q][t] = Signer
      OBVIOUS
    <3>1. Signer \subseteq recorded'[q][t]
      BY <1>3
    <3>2. recorded'[q][t] \subseteq Signer
      BY <1>1 DEF TypeOK
    <3> QED
      BY <3>1, <3>2
  <2>2. \A t \in sent'["nonce"] : recorded'["commitment"][t] = Signer
    BY <1>4, <2>1 DEF IInv, TypeOK, RecordIsComplete, Round
  <2>3. \A t \in sent'["signature"] : recorded'["nonce"][t] = Signer
    BY <1>4, <2>1 DEF IInv, TypeOK, RecordIsComplete, Round
  <2>4. \A t \in Signer : signature'[t] => recorded'["signature"][t] = Signer
    BY <2>1 DEF IInv, RecordIsComplete, Round, Produce
  <2> QED
    BY <2>2, <2>3, <2>4 DEF RecordIsComplete
<1> QED
  BY <1>1, <1>2, <1>5 DEF IInv

\* A delivery keeps the invariant, whatever Buffer object it comes in.
LEMMA AddKeepsIInv ==
    ASSUME IInv, NEW r \in Round, NEW s \in Signer, NEW t \in Signer,
           NEW c \in Copy, Add(r, s, t, c)
    PROVE  IInv'
<1>1. TypeOK'
  BY DEF IInv, TypeOK, Add
<1>2. RecordedWasSent'
  BY DEF IInv, TypeOK, RecordedWasSent, Add
<1>3. \A q \in Round, u \in Signer : recorded[q][u] = Signer => recorded'[q][u] = Signer
  BY <1>1 DEF IInv, TypeOK, Add
<1>4. RecordIsComplete'
  BY <1>3 DEF IInv, TypeOK, RecordIsComplete, Round, Add
<1> QED
  BY <1>1, <1>2, <1>4 DEF IInv

\* Every call of a session keeps the invariant.
LEMMA NextIInv == IInv /\ [Next]_vars => IInv'
<1> SUFFICES ASSUME IInv, [Next]_vars PROVE IInv'
  OBVIOUS
<1>1. ASSUME NEW s \in Signer, GenerateNonceCommitment(s) PROVE IInv'
  BY <1>1, ProduceKeepsIInv DEF GenerateNonceCommitment, Round
<1>2. ASSUME NEW s \in Signer, GenerateNonce(s) PROVE IInv'
  BY <1>2, ProduceKeepsIInv DEF GenerateNonce, NativeHasAll, Round
<1>3. ASSUME NEW s \in Signer, PartialSign(s) PROVE IInv'
  BY <1>3, ProduceKeepsIInv DEF PartialSign, NativeHasAll, Round
<1>4. ASSUME NEW s \in Signer, Sign(s) PROVE IInv'
  BY <1>4 DEF Sign, NativeHasAll, IInv, TypeOK, RecordedWasSent, RecordIsComplete, Round
<1>5. ASSUME NEW s \in Signer, Deliver(s) PROVE IInv'
  BY <1>5, AddKeepsIInv DEF Deliver, AddNonceCommitment, AddNonce, AddPartialSignature, Round
<1>6. CASE UNCHANGED vars
  BY <1>6 DEF vars, IInv, TypeOK, RecordedWasSent, RecordIsComplete
<1> QED
  BY <1>1, <1>2, <1>3, <1>4, <1>5, <1>6 DEF Next, Own

\* The invariant holds throughout.
THEOREM Invariance == Spec => []IInv
BY InitIInv, NextIInv, PTL DEF Spec

\* The sessions' state always has the types the code declares.
THEOREM TypeCorrect == Spec => []TypeOK
<1>1. IInv => TypeOK
  BY DEF IInv
<1> QED
  BY <1>1, Invariance, PTL

\* No nonce is revealed before every signer has committed to one and the
\* revealing session holds all the commitments.
THEOREM CommitFirst == Spec => []CommittedBeforeRevealed
<1>1. IInv => CommittedBeforeRevealed
  <2> SUFFICES ASSUME IInv, NEW s \in sent["nonce"]
               PROVE  recorded["commitment"][s] = Signer /\ sent["commitment"] = Signer
    BY DEF CommittedBeforeRevealed
  <2>1. s \in Signer
    BY DEF IInv, TypeOK, Round
  <2>2. recorded["commitment"][s] = Signer
    BY DEF IInv, RecordIsComplete
  <2> QED
    BY <2>1, <2>2, CompleteMeansAllSent DEF Round
<1> QED
  BY <1>1, Invariance, PTL

\* Once anybody has signed partially, every session holds every commitment.
THEOREM CommitmentsHeld == Spec => []AllHeldCommitmentsBeforeSigning
<1>1. IInv => AllHeldCommitmentsBeforeSigning
  BY DEF IInv, TypeOK, RecordedWasSent, RecordIsComplete,
         AllHeldCommitmentsBeforeSigning, Round
<1> QED
  BY <1>1, Invariance, PTL

\* A final signature is made of the partial signatures of all signers.
THEOREM SignedByAll == Spec => []SignatureIsOfAll
<1>1. IInv => SignatureIsOfAll
  BY CompleteMeansAllSent DEF IInv, RecordIsComplete, SignatureIsOfAll, Round
<1> QED
  BY <1>1, Invariance, PTL

-----------------------------------------------------------------------------
(* Refinement *)

\* The initial states of the sessions are those of the three rounds.
LEMMA InitRefines == Init => Rounds!Init
BY DEF Init, Rounds!Init, Round

\* Every call is a step of the three rounds, or invisible there.
LEMMA NextRefines == IInv /\ [Next]_vars => [Rounds!Next]_Rounds!vars
<1> SUFFICES ASSUME IInv, [Next]_vars PROVE [Rounds!Next]_Rounds!vars
  OBVIOUS
<1> USE DEF Rounds!Next, Rounds!vars
<1>1. ASSUME NEW s \in Signer, GenerateNonceCommitment(s) PROVE Rounds!Commit(s)
  BY <1>1 DEF GenerateNonceCommitment, Produce, Rounds!Commit, IInv, TypeOK, Round
<1>2. ASSUME NEW s \in Signer, GenerateNonce(s) PROVE Rounds!Reveal(s)
  <2>1. sent["commitment"] = Signer
    BY <1>2, CompleteMeansAllSent DEF GenerateNonce, NativeHasAll, Round
  <2> QED
    BY <1>2, <2>1 DEF GenerateNonce, Produce, Rounds!Reveal, IInv, TypeOK, Round
<1>3. ASSUME NEW s \in Signer, PartialSign(s) PROVE Rounds!PartiallySign(s)
  <2>1. sent["nonce"] = Signer
    BY <1>3, CompleteMeansAllSent DEF PartialSign, NativeHasAll, Round
  <2> QED
    BY <1>3, <2>1 DEF PartialSign, Produce, Rounds!PartiallySign, IInv, TypeOK, Round
<1>4. ASSUME NEW s \in Signer, Sign(s) PROVE Rounds!Finish(s)
  <2>1. sent["signature"] = Signer
    BY <1>4, CompleteMeansAllSent DEF Sign, NativeHasAll, Round
  <2>2. {t \in Signer : signature'[t]} = {t \in Signer : signature[t]} \cup {s}
    BY <1>4 DEF Sign, IInv, TypeOK
  <2> QED
    BY <1>4, <2>1, <2>2 DEF Sign, Rounds!Finish
<1>5. ASSUME NEW s \in Signer, Deliver(s) PROVE UNCHANGED Rounds!vars
  BY <1>5 DEF Deliver, AddNonceCommitment, AddNonce, AddPartialSignature, Add
<1>6. CASE UNCHANGED vars
  BY <1>6 DEF vars
<1> QED
  BY <1>1, <1>2, <1>3, <1>4, <1>5, <1>6 DEF Next, Own

\* The sessions of any number of signers, under any pattern of deliveries,
\* implement the three rounds with their barriers.
THEOREM Refinement == Spec => ImplementsRounds
BY Invariance, InitRefines, NextRefines, PTL DEF Spec, ImplementsRounds, Rounds!Spec
-----------------------------------------------------------------------------
(* The counts, when the native session takes a value of a signer once *)

\* Beside the counts: the lists are finite, and a session that produced its
\* value has recorded it
CountsInv ==
    /\ CountsMatch
    /\ \A r \in Round, s \in Signer : IsFiniteSet(buffers[r][s])
    /\ \A r \in Round : \A s \in sent[r] : s \in recorded[r][s]

LEMMA InitCounts == Init => CountsInv
<1> SUFFICES ASSUME Init PROVE CountsInv
  OBVIOUS
<1>1. \A r \in Round, s \in Signer : buffers[r][s] = {} /\ recorded[r][s] \ {s} = {}
  BY DEF Init
<1> QED
  BY <1>1, FS_EmptySet DEF Init, CountsInv, CountsMatch

\* A session's own value is not counted by either side.
LEMMA ProduceCounts ==
    ASSUME TypeOK, CountsInv, NEW r \in Round, NEW s \in Signer, Produce(r, s)
    PROVE  CountsInv'
<1>1. ASSUME NEW q \in Round, NEW t \in Signer
      PROVE  /\ buffers'[q][t] = buffers[q][t]
             /\ recorded'[q][t] \ {t} = recorded[q][t] \ {t}
             /\ t \in sent'[q] => t \in recorded'[q][t]
  BY DEF Produce, TypeOK, CountsInv
<1>2. \A q \in Round : sent'[q] \subseteq Signer
  BY DEF Produce, TypeOK
<1> QED
  BY <1>1, <1>2 DEF CountsInv, CountsMatch

\* Adding what is not yet in a finite set adds one to its size.
LEMMA OneMore ==
    ASSUME NEW S, IsFiniteSet(S), NEW x, x \notin S
    PROVE  /\ IsFiniteSet(S \cup {x})
           /\ Cardinality(S \cup {x}) = Cardinality(S) + 1
BY FS_AddElement

\* A delivery that the native session takes adds one to either side.
LEMMA AddCounts ==
    ASSUME TypeOK, CountsInv, "accept" \notin ReAdd,
           NEW r \in Round, NEW s \in Signer, NEW t \in Signer, NEW c \in Copy,
           Add(r, s, t, c)
    PROVE  CountsInv'
<1>1. t \notin recorded[r][s] /\ t \in sent[r] /\ <<t, c>> \notin buffers[r][s]
  BY DEF Add
<1>2. t # s
  BY <1>1 DEF CountsInv
<1>3. /\ buffers'[r][s] = buffers[r][s] \cup {<<t, c>>}
      /\ recorded'[r][s] = recorded[r][s] \cup {t}
  BY DEF Add, TypeOK
<1>4. recorded'[r][s] \ {s} = (recorded[r][s] \ {s}) \cup {t} /\ t \notin recorded[r][s] \ {s}
  BY <1>1, <1>2, <1>3
<1>5. IsFiniteSet(recorded[r][s] \ {s})
  BY MultiSigAssumption, FS_Subset DEF TypeOK
<1>6. /\ IsFiniteSet(buffers'[r][s])
      /\ Cardinality(buffers'[r][s]) = Cardinality(buffers[r][s]) + 1
  <2>1. IsFiniteSet(buffers[r][s])
    BY DEF CountsInv
  <2> QED
    BY <1>1, <1>3, <2>1, OneMore
<1>7. Cardinality(recorded'[r][s] \ {s}) = Cardinality(recorded[r][s] \ {s}) + 1
  BY <1>4, <1>5, OneMore
<1>8. Cardinality(buffers'[r][s]) = Cardinality(recorded'[r][s] \ {s})
  BY <1>6, <1>7 DEF CountsInv, CountsMatch
<1>9. ASSUME NEW q \in Round, NEW u \in Signer
      PROVE  /\ q # r \/ u # s => buffers'[q][u] = buffers[q][u] /\ recorded'[q][u] = recorded[q][u]
             /\ recorded[q][u] \subseteq recorded'[q][u]
  BY DEF Add, TypeOK
<1>10. \A q \in Round, u \in Signer :
           /\ IsFiniteSet(buffers'[q][u])
           /\ Cardinality(buffers'[q][u]) = Cardinality(recorded'[q][u] \ {u})
  <2> SUFFICES ASSUME NEW q \in Round, NEW u \in Signer
               PROVE  /\ IsFiniteSet(buffers'[q][u])
                      /\ Cardinality(buffers'[q][u]) = Cardinality(recorded'[q][u] \ {u})
    OBVIOUS
  <2>1. CASE q = r /\ u = s
    BY <1>6, <1>8, <2>1
  <2>2. CASE q # r \/ u # s
    BY <1>9, <2>2 DEF CountsInv, CountsMatch
  <2> QED
    BY <2>1, <2>2
<1>11. \A q \in Round : \A u \in sent'[q] : u \in recorded'[q][u]
  BY <1>9 DEF Add, TypeOK, CountsInv
<1> QED
  BY <1>10, <1>11 DEF CountsInv, CountsMatch

LEMMA NextCounts ==
    ASSUME TypeOK, CountsInv, "accept" \notin ReAdd, [Next]_vars
    PROVE  CountsInv'
<1>1. CASE UNCHANGED vars
  BY <1>1 DEF vars, CountsInv, CountsMatch
<1>2. ASSUME NEW s \in Signer, Own(s)
      PROVE  CountsInv'
  <2>1. CASE Sign(s)
    BY <2>1 DEF Sign, CountsInv, CountsMatch
  <2>2. CASE ~Sign(s)
    <3>1. \E r \in Round : Produce(r, s)
      BY <1>2, <2>2 DEF Own, GenerateNonceCommitment, GenerateNonce, PartialSign, Round
    <3> QED
      BY <3>1, ProduceCounts
  <2> QED
    BY <2>1, <2>2
<1>3. ASSUME NEW s \in Signer, Deliver(s)
      PROVE  CountsInv'
  <2>1. \E r \in Round, t \in Signer, c \in Copy : Add(r, s, t, c)
    BY <1>3 DEF Deliver, AddNonceCommitment, AddNonce, AddPartialSignature, Round
  <2> QED
    BY <2>1, AddCounts
<1> QED
  BY <1>1, <1>2, <1>3 DEF Next

\* If the native session refuses a second value of a signer, the length that
\* TypeScript compares is the number of co-signers whose value it holds,
\* however many Buffer objects a value is repeated in.
THEOREM CountsCorrect ==
    ASSUME "accept" \notin ReAdd
    PROVE  Spec => []CountsMatch
<1>1. TypeOK /\ CountsInv /\ [Next]_vars => CountsInv'
  BY NextCounts
<1>2. CountsInv => CountsMatch
  BY DEF CountsInv
<1> QED
  BY <1>1, <1>2, InitCounts, TypeCorrect, PTL DEF Spec

-----------------------------------------------------------------------------
(* Everyone waiting on everyone *)

\* Its owner can have session s produce its value of round r
MayProduce(r, s) ==
    \/ r = "commitment"
    \/ r = "nonce" /\ hasCollectedAll("commitment", s) /\ NativeHasAll("commitment", s)
    \/ r = "signature" /\ hasCollectedAll("nonce", s) /\ NativeHasAll("nonce", s)

\* A call succeeds that brings session s nearer to its signature: a value it has
\* not produced, one it has not recorded, or the signature
CanGoOn(s) ==
    \/ \E r \in Round : s \notin sent[r] /\ MayProduce(r, s)
    \/ \E r \in Round, t \in Signer, c \in Copy :
          t \in sent[r] /\ t \notin recorded[r][s] /\ <<t, c>> \notin buffers[r][s]
    \/ ~signature[s] /\ hasCollectedAll("signature", s) /\ NativeHasAll("signature", s)

\* As long as a signature is missing, some session can go on.
SomebodyCanGoOn == (\A s \in Signer : signature[s]) \/ \E s \in Signer : CanGoOn(s)

\* A step brings sessions nearer to their signatures or leaves them where they
\* are: nothing produced, recorded or signed is ever taken back.
OnlyForward ==
    [][/\ \A r \in Round : sent[r] \subseteq sent'[r]
       /\ \A r \in Round, s \in Signer : recorded[r][s] \subseteq recorded'[r][s]
       /\ \A s \in Signer : signature[s] => signature'[s]]_vars

\* The list of round r in session s has more elements than there are co-signers
Overfull(r, s) == Cardinality(buffers[r][s]) > totalExternalCoSigners

\* A session one of whose lists is too long never completes the round.
OverfullForEver ==
    [][\A r \in Round, s \in Signer :
          Overfull(r, s) => ~hasCollectedAll(r, s) /\ Overfull(r, s)']_vars

\* A buffer in a list is one whose value the native session took
ListedIsRecorded ==
    \A r \in Round, s \in Signer : \A t \in Signer, c \in Copy :
        <<t, c>> \in buffers[r][s] => t \in recorded[r][s]

ListInv ==
    /\ ListedIsRecorded
    /\ \A r \in Round, s \in Signer : IsFiniteSet(buffers[r][s])

\* Every step is one of three.
LEMMA StepKinds ==
    ASSUME Next
    PROVE  \/ \E r \in Round, s \in Signer : Produce(r, s)
           \/ \E r \in Round, s, t \in Signer, c \in Copy : Add(r, s, t, c)
           \/ \E s \in Signer : Sign(s)
<1>1. PICK s \in Signer : Own(s) \/ Deliver(s)
  BY DEF Next
<1>2. CASE Own(s)
  BY <1>2 DEF Own, GenerateNonceCommitment, GenerateNonce, PartialSign, Round
<1>3. CASE Deliver(s)
  BY <1>3 DEF Deliver, AddNonceCommitment, AddNonce, AddPartialSignature, Round
<1> QED
  BY <1>1, <1>2, <1>3

\* What a step adds to the lists and the records.
LEMMA Growth ==
    ASSUME TypeOK, [Next]_vars
    PROVE  /\ \A r \in Round : sent[r] \subseteq sent'[r]
           /\ \A r \in Round, s \in Signer :
                 /\ recorded[r][s] \subseteq recorded'[r][s]
                 /\ \/ buffers'[r][s] = buffers[r][s]
                    \/ \E t \in Signer, c \in Copy :
                          /\ buffers'[r][s] = buffers[r][s] \cup {<<t, c>>}
                          /\ t \in recorded'[r][s]
           /\ \A s \in Signer : signature[s] => signature'[s]
<1>1. ASSUME NEW r \in Round, NEW s \in Signer, Produce(r, s)
      PROVE  /\ \A q \in Round : sent[q] \subseteq sent'[q]
             /\ \A q \in Round, u \in Signer : recorded[q][u] \subseteq recorded'[q][u]
             /\ UNCHANGED <<buffers, signature>>
  BY <1>1 DEF Produce, TypeOK
<1>2. ASSUME NEW r \in Round, NEW s \in Signer, NEW t \in Signer, NEW c \in Copy,
             Add(r, s, t, c)
      PROVE  /\ UNCHANGED <<sent, signature>>
             /\ \A q \in Round, u \in Signer :
                   /\ recorded[q][u] \subseteq recorded'[q][u]
                   /\ \/ buffers'[q][u] = buffers[q][u]
                      \/ /\ buffers'[q][u] = buffers[q][u] \cup {<<t, c>>}
                         /\ t \in recorded'[q][u]
  BY <1>2 DEF Add, TypeOK
<1>3. ASSUME NEW s \in Signer, Sign(s)
      PROVE  /\ UNCHANGED <<buffers, recorded, sent>>
             /\ \A u \in Signer : signature[u] => signature'[u]
  BY <1>3 DEF Sign, TypeOK
<1>4. CASE UNCHANGED vars
  BY <1>4 DEF vars
<1>5. CASE \E r \in Round, s \in Signer : Produce(r, s)
  BY <1>1, <1>5
<1>6. CASE \E r \in Round, s, t \in Signer, c \in Copy : Add(r, s, t, c)
  BY <1>2, <1>6
<1>7. CASE \E s \in Signer : Sign(s)
  BY <1>3, <1>7
<1> QED
  BY <1>4, <1>5, <1>6, <1>7, StepKinds

LEMMA NextListInv ==
    ASSUME TypeOK, ListInv, [Next]_vars
    PROVE  ListInv'
<1> SUFFICES ASSUME NEW r \in Round, NEW s \in Signer
             PROVE  /\ IsFiniteSet(buffers'[r][s])
                    /\ \A t \in Signer, c \in Copy :
                          <<t, c>> \in buffers'[r][s] => t \in recorded'[r][s]
  BY DEF ListInv, ListedIsRecorded
<1>1. IsFiniteSet(buffers[r][s])
  BY DEF ListInv
<1>2. recorded[r][s] \subseteq recorded'[r][s]
  BY Growth
<1>3. CASE buffers'[r][s] = buffers[r][s]
  BY <1>1, <1>2, <1>3 DEF ListInv, ListedIsRecorded
<1>4. ASSUME NEW u \in Signer, NEW d \in Copy,
             buffers'[r][s] = buffers[r][s] \cup {<<u, d>>}, u \in recorded'[r][s]
      PROVE  /\ IsFiniteSet(buffers'[r][s])
             /\ \A t \in Signer, c \in Copy :
                   <<t, c>> \in buffers'[r][s] => t \in recorded'[r][s]
  <2>1. IsFiniteSet(buffers'[r][s])
    BY <1>1, <1>4, FS_AddElement
  <2>2. \A t \in Signer, c \in Copy :
            <<t, c>> \in buffers'[r][s] => t \in recorded'[r][s]
    BY <1>2, <1>4 DEF ListInv, ListedIsRecorded
  <2> QED
    BY <2>1, <2>2
<1> QED
  BY <1>3, <1>4, Growth

LEMMA ListsCorrect == Spec => []ListInv
<1>1. Init => ListInv
  BY FS_EmptySet DEF Init, ListInv, ListedIsRecorded
<1>2. TypeOK /\ ListInv /\ [Next]_vars => ListInv'
  BY NextListInv
<1> QED
  BY <1>1, <1>2, TypeCorrect, PTL DEF Spec

\* Where nobody can go on, a round that all have sent is complete everywhere.
LEMMA SentIsCollected ==
    ASSUME IInv, CountsInv, ListInv, Copy # {}, \A s \in Signer : ~CanGoOn(s),
           NEW r \in Round, sent[r] = Signer, NEW s \in Signer
    PROVE  hasCollectedAll(r, s) /\ NativeHasAll(r, s)
<1>1. ASSUME NEW t \in Signer, t \notin recorded[r][s] PROVE FALSE
  <2>1. PICK c \in Copy : TRUE
    OBVIOUS
  <2>2. <<t, c>> \notin buffers[r][s]
    BY <1>1 DEF ListInv, ListedIsRecorded
  <2> QED
    BY <1>1, <2>1, <2>2 DEF CanGoOn
<1>2. recorded[r][s] = Signer
  <2>1. recorded[r][s] \subseteq Signer
    BY DEF IInv, TypeOK
  <2>2. Signer \subseteq recorded[r][s]
    BY <1>1
  <2> QED
    BY <2>1, <2>2
<1>3. Cardinality(Signer \ {s}) = Cardinality(Signer) - 1
  BY MultiSigAssumption, FS_RemoveElement
<1> QED
  BY <1>2, <1>3 DEF CountsInv, CountsMatch, hasCollectedAll, NativeHasAll, totalExternalCoSigners

\* If the native session refuses repetitions, sessions never all wait for one
\* another: whatever has been lost, repeated or reordered so far, as long as a
\* signature is missing there is a call that succeeds and brings it nearer.
THEOREM NeverStuck ==
    ASSUME "accept" \notin ReAdd, Copy # {}
    PROVE  Spec => []SomebodyCanGoOn
<1>1. ASSUME IInv, CountsInv, ListInv
      PROVE  SomebodyCanGoOn
  <2> SUFFICES ASSUME \A s \in Signer : ~CanGoOn(s), NEW s \in Signer
               PROVE  signature[s]
    BY DEF SomebodyCanGoOn
  <2>1. \A r \in Round : sent[r] \subseteq Signer
    BY <1>1 DEF IInv, TypeOK
  <2>2. sent["commitment"] = Signer
    BY <2>1 DEF CanGoOn, MayProduce, Round
  <2>3. \A u \in Signer : hasCollectedAll("commitment", u) /\ NativeHasAll("commitment", u)
    BY <1>1, <2>2, SentIsCollected DEF Round
  <2>4. sent["nonce"] = Signer
    BY <2>1, <2>3 DEF CanGoOn, MayProduce, Round
  <2>5. \A u \in Signer : hasCollectedAll("nonce", u) /\ NativeHasAll("nonce", u)
    BY <1>1, <2>4, SentIsCollected DEF Round
  <2>6. sent["signature"] = Signer
    BY <2>1, <2>5 DEF CanGoOn, MayProduce, Round
  <2>7. hasCollectedAll("signature", s) /\ NativeHasAll("signature", s)
    BY <1>1, <2>6, SentIsCollected DEF Round
  <2> QED
    BY <2>7 DEF CanGoOn
<1>2. TypeOK /\ CountsInv /\ [Next]_vars => CountsInv'
  BY NextCounts
<1>3. IInv /\ CountsInv /\ ListInv => SomebodyCanGoOn
  BY <1>1
<1> QED
  BY <1>2, <1>3, InitCounts, TypeCorrect, Invariance, ListsCorrect, PTL DEF Spec

\* What was gained is kept: with NeverStuck, since there are finitely many values
\* to produce, record and sign, the calls that go on end with all signatures.
THEOREM NothingTakenBack == Spec => OnlyForward
<1>1. TypeOK /\ [Next]_vars =>
          [/\ \A r \in Round : sent[r] \subseteq sent'[r]
           /\ \A r \in Round, s \in Signer : recorded[r][s] \subseteq recorded'[r][s]
           /\ \A s \in Signer : signature[s] => signature'[s]]_vars
  BY Growth
<1> QED
  BY <1>1, TypeCorrect, PTL DEF Spec, OnlyForward

\* A list with one element too many, which takes a native session that accepts
\* a repetition, stays so: the === in hasCollectedAll...() is not met again.
THEOREM OverfullStays == Spec => OverfullForEver
<1>1. ASSUME TypeOK, ListInv, [Next]_vars, NEW r \in Round, NEW s \in Signer, Overfull(r, s)
      PROVE  ~hasCollectedAll(r, s) /\ Overfull(r, s)'
  <2>1. Cardinality(buffers[r][s]) \in Nat /\ totalExternalCoSigners \in Int
    BY <1>1, MultiSigAssumption, FS_CardinalityType DEF ListInv, totalExternalCoSigners
  <2>2. IsFiniteSet(buffers'[r][s])
    BY <1>1, NextListInv DEF ListInv
  <2>3. buffers[r][s] \subseteq buffers'[r][s]
    BY <1>1, Growth
  <2>4. /\ Cardinality(buffers'[r][s]) \in Nat
        /\ Cardinality(buffers[r][s]) <= Cardinality(buffers'[r][s])
    BY <2>2, <2>3, FS_Subset, FS_CardinalityType
  <2> QED
    BY <1>1, <2>1, <2>4 DEF Overfull, hasCollectedAll, totalExternalCoSigners
<1>2. TypeOK /\ ListInv /\ [Next]_vars =>
          [\A r \in Round, s \in Signer :
              Overfull(r, s) => ~hasCollectedAll(r, s) /\ Overfull(r, s)']_vars
  BY <1>1
<1> QED
  BY <1>2, TypeCorrect, ListsCorrect, PTL DEF Spec, OverfullForEver
=============================================================================
