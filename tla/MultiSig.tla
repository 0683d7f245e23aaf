------------------------------ MODULE MultiSig -----------------------------
(***************************************************************************)
(* The MultiSigSession objects (lib/src/multi_sig/multi_sig_session.ts) of *)
(* all signers of one message, and the application that carries buffers    *)
(* between them.                                                           *)
(*                                                                         *)
(* A session is checked twice.  TypeScript keeps a list of the buffers it  *)
(* was given in each round, refuses a Buffer object that is in the list    *)
(* and compares the length of the list with the number of co-signers.  The *)
(* native session records a value per signer.  The two can disagree: a     *)
(* second delivery of the same bytes is another Buffer object.             *)
(*                                                                         *)
(* The application may lose, delay, reorder and repeat deliveries: sent is *)
(* the set of everything ever returned by a session, and a call of an add  *)
(* method takes any element of it.                                         *)
(***************************************************************************)
EXTENDS Naturals, FiniteSets

CONSTANTS
    Signer,   \* the signers' public keys, one session each
    Copy,     \* the Buffer objects one message can arrive in
    ReAdd     \* what the native session can do when it is given a value for a
              \* signer it has one of: "reject" it, or "accept" it again

ASSUME MultiSigAssumption ==
    /\ IsFiniteSet(Signer) /\ Cardinality(Signer) >= 2
    /\ ReAdd \subseteq {"reject", "accept"}

Round == {"commitment", "nonce", "signature"}

VARIABLES
    buffers,    \* [Round -> [Signer -> SUBSET (Signer \X Copy)]]: the lists
                \* coSignerNonceCommitments, coSignerNonces, coSignerSignatures
    recorded,   \* [Round -> [Signer -> SUBSET Signer]]: the native session
    sent,       \* [Round -> SUBSET Signer]: whose value the application has
    signature   \* [Signer -> BOOLEAN]: the session holds the final signature

vars == <<buffers, recorded, sent, signature>>

Init ==
    /\ buffers = [r \in Round |-> [s \in Signer |-> {}]]
    /\ recorded = [r \in Round |-> [s \in Signer |-> {}]]
    /\ sent = [r \in Round |-> {}]
    /\ signature = [s \in Signer |-> FALSE]

\* Mutant: a session waits for itself
allSigners == Cardinality(Signer)

totalExternalCoSigners == Cardinality(Signer) - 1

\* hasCollectedAllNonceCommitments() and its two likes
hasCollectedAll(r, s) == Cardinality(buffers[r][s]) = totalExternalCoSigners

\* Mutant: the count TypeScript makes is trusted
NativeTrusts(r, s) == TRUE

\* The native session has a value of every signer, its own included
NativeHasAll(r, s) == recorded[r][s] = Signer

\* The session of s makes its own value of round r and returns it
Produce(r, s) ==
    /\ recorded' = [recorded EXCEPT ![r][s] = @ \cup {s}]
    /\ sent' = [sent EXCEPT ![r] = @ \cup {s}]
    /\ UNCHANGED <<buffers, signature>>

\* Mutant: a second value for a signer is taken in every native session
AddAgain(r, s, t, c) ==
    /\ t \in sent[r]
    /\ <<t, c>> \notin buffers[r][s]
    /\ recorded' = [recorded EXCEPT ![r][s] = @ \cup {t}]
    /\ buffers' = [buffers EXCEPT ![r][s] = @ \cup {<<t, c>>}]
    /\ UNCHANGED <<sent, signature>>

\* The session of s is given the value of signer t, in the Buffer object c
Add(r, s, t, c) ==
    /\ t \in sent[r]
    /\ <<t, c>> \notin buffers[r][s]
    /\ t \notin recorded[r][s] \/ "accept" \in ReAdd
    /\ recorded' = [recorded EXCEPT ![r][s] = @ \cup {t}]
    /\ buffers' = [buffers EXCEPT ![r][s] = @ \cup {<<t, c>>}]
    /\ UNCHANGED <<sent, signature>>

GenerateNonceCommitment(s) == Produce("commitment", s)

AddNonceCommitment(s, t, c) == Add("commitment", s, t, c)

GenerateNonce(s) ==
    /\ hasCollectedAll("commitment", s)
    /\ NativeHasAll("commitment", s)
    /\ Produce("nonce", s)

AddNonce(s, t, c) == Add("nonce", s, t, c)

\* Mutant: the nonces are not waited for
PartialSignEarly(s) == s \in sent["nonce"] /\ Produce("signature", s)

PartialSign(s) ==
    /\ hasCollectedAll("nonce", s)
    /\ NativeHasAll("nonce", s)
    /\ Produce("signature", s)

AddPartialSignature(s, t, c) == Add("signature", s, t, c)

Sign(s) ==
    /\ hasCollectedAll("signature", s)
    /\ NativeHasAll("signature", s)
    /\ signature' = [signature EXCEPT ![s] = TRUE]
    /\ UNCHANGED <<buffers, recorded, sent>>

Deliver(s) ==
    \E t \in Signer, c \in Copy :
        \/ AddNonceCommitment(s, t, c)
        \/ AddNonce(s, t, c)
        \/ AddPartialSignature(s, t, c)

Own(s) ==
    \/ GenerateNonceCommitment(s)
    \/ GenerateNonce(s)
    \/ PartialSign(s)
    \/ Sign(s)

Next == \E s \in Signer : Own(s) \/ Deliver(s)

Spec == Init /\ [][Next]_vars

\* The applications call the methods of their own session and deliver what the
\* others produced, each value again and again until it has been taken.
Fairness ==
    \A s \in Signer :
        /\ WF_vars(GenerateNonceCommitment(s)) /\ WF_vars(GenerateNonce(s))
        /\ WF_vars(PartialSign(s)) /\ WF_vars(Sign(s))
        /\ \A t \in Signer : WF_vars(\E r \in Round, c \in Copy : Add(r, s, t, c))

FairSpec == Spec /\ Fairness

-----------------------------------------------------------------------------
(* Properties *)

TypeOK ==
    /\ buffers \in [Round -> [Signer -> SUBSET (Signer \X Copy)]]
    /\ recorded \in [Round -> [Signer -> SUBSET Signer]]
    /\ sent \in [Round -> SUBSET Signer]
    /\ signature \in [Signer -> BOOLEAN]

\* A session reveals its nonce only when it holds the commitment of every
\* signer, and so after every signer has committed.
CommittedBeforeRevealed ==
    \A s \in sent["nonce"] :
        recorded["commitment"][s] = Signer /\ sent["commitment"] = Signer

\* When any session has signed partially, no session still waits for a
\* commitment: nobody's nonce was chosen after seeing another's.
AllHeldCommitmentsBeforeSigning ==
    sent["signature"] # {} =>
        \A t \in Signer : t \in sent["nonce"] /\ recorded["commitment"][t] = Signer

\* A session has the final signature only when every signer signed partially.
SignatureIsOfAll ==
    \A s \in Signer : signature[s] => sent["signature"] = Signer

\* The length TypeScript compares is the number of co-signers whose value the
\* native session holds: no delivery counts twice, and none that the native
\* session took goes uncounted.
CountsMatch ==
    \A r \in Round, s \in Signer :
        Cardinality(buffers[r][s]) = Cardinality(recorded[r][s] \ {s})

\* Every session gets the final signature, whatever is repeated or reordered.
AllSessionsSign == <>(\A s \in Signer : signature[s])

-----------------------------------------------------------------------------
(* Refinement: the sessions together implement SigningRounds *)

Rounds == INSTANCE SigningRounds WITH
    committed <- sent["commitment"],
    revealed <- sent["nonce"],
    partiallySigned <- sent["signature"],
    finished <- {s \in Signer : signature[s]}

\* Sessions that know only what was delivered to them keep the barriers between
\* the rounds as if they saw the state of all signers.
ImplementsRounds == Rounds!Spec
=============================================================================
