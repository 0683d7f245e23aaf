------------------------------ MODULE TxExport ------------------------------
(***************************************************************************)
(* toHex(): how a finished transaction leaves the library.  The addon has  *)
(* an enclave obfuscate it, which it reaches through a Tendermint node     *)
(* that can be down, know no enclave, or see its enclave refuse; under a   *)
(* test runner a mock cipher encodes the transaction in the clear instead. *)
(* There are two copies of this code in the addon, one for transfers and   *)
(* one for staking, each with a cipher that knows its own transactions.    *)
(*                                                                         *)
(* The signatures and checks toHex() asks for first are the subject of the *)
(* modules of the builders; here a builder whose transaction has been      *)
(* built counts as completed.                                              *)
(***************************************************************************)
EXTENDS NativeArguments

CONSTANTS
    NodeEnv,            \* values of the environment variable NODE_ENV
    TendermintAddress,  \* addresses callers pass: records that say whether the
                        \* text begins with ws, is a URL and names a live node
    Panic               \* unreachable!() was reached

ASSUME ExportAssumption ==
    /\ Panic \notin {"plain", "obfuscated", Refused, None}
    /\ {Refused, None} \cap {"plain", "obfuscated"} = {}

VARIABLES
    nodeEnv,    \* NODE_ENV of the process
    exported    \* what toHex() came to, if it was the last call: "plain",
                \* "obfuscated", Refused or Panic; else None

exportVars == <<vars, nodeEnv, exported>>

isURL(address) == address.url

\* /^(ws)s?/ asks for the two letters only
owTendermintAddress(address) == address.ws /\ isURL(address)

\* Mutant: what is not a known environment is a test
TestByDefault(env) == IF env = "integration-test" THEN "AllDefault" ELSE "MockObfuscation"

getRustFeaturesFromEnv(env) == IF env = "test" THEN "MockObfuscation" ELSE "AllDefault"

\* Mutant: the copies are taken for the same
SharedCipher == {"deposit", "withdraw"}

\* The transactions each copy of MockTransactionCipher can encode
TransferCipher == {"transfer"}

StakingCipher == {"deposit", "withdraw"}

\* Mutant: the addon wants another protocol than the validator
to_tx_aux_http(features, cipher, address, answer) ==
    IF features = "MockObfuscation" /\ kind \in cipher THEN "plain" ELSE Refused

\* to_tx_aux and its likes, with what the node does (connect, tx-query, encrypt).
\* MockAbci, which TypeScript never asks for, differs in who encrypts.
to_tx_aux(features, cipher, address, answer) ==
    CASE features = "MockObfuscation" /\ kind \in cipher -> "plain"
      [] features = "MockObfuscation" /\ kind \notin cipher -> Panic
      [] features # "MockObfuscation" /\ address.ws /\ answer = "encrypted" -> "obfuscated"
      [] OTHER -> Refused

to_hex_linear_fee(address, answer) ==
    to_tx_aux(getRustFeaturesFromEnv(nodeEnv), TransferCipher, address, answer)

signed_transaction_to_hex(address, answer) ==
    to_tx_aux(getRustFeaturesFromEnv(nodeEnv), StakingCipher, address, answer)

\* verifyHasInput(), verifyHasOutput() and hasOutput()
IsNotEmpty ==
    /\ kind \in {"transfer", "deposit"} => inputs # <<>>
    /\ kind \in {"transfer", "withdraw"} => outputs # <<>>

\* What can come of asking the node at an address
Answers(address) ==
    {"unreachable", "no enclave", "refused"} \cup (IF address.live THEN {"encrypted"} ELSE {})

ToHex(address, answer) ==
    /\ IsBuilt /\ IsNotEmpty
    /\ owTendermintAddress(address)
    /\ exported' = IF kind = "transfer"
                   THEN to_hex_linear_fee(address, answer)
                   ELSE signed_transaction_to_hex(address, answer)
    /\ UNCHANGED <<vars, nodeEnv>>

\* Any other call
Arguments == Next /\ exported' = None /\ UNCHANGED nodeEnv

ExportInit == Init /\ nodeEnv \in NodeEnv /\ exported = None

ExportNext ==
    \/ Arguments
    \/ \E address \in TendermintAddress : \E answer \in Answers(address) : ToHex(address, answer)

\* A caller who wants the transaction has it built, and calls toHex() with the
\* address of a live node again and again, which does not fail for ever.
Fairness ==
    /\ WF_exportVars(raw = None /\ Build /\ exported' = None /\ UNCHANGED nodeEnv)
    /\ WF_exportVars(\E address \in TendermintAddress :
                        address.live /\ ToHex(address, "encrypted"))

ExportSpec == ExportInit /\ [][ExportNext]_exportVars /\ Fairness

-----------------------------------------------------------------------------
(* Properties *)

IsExported == exported \in {"plain", "obfuscated"}

\* Outside of a test runner nothing leaves in the clear, and in one nothing
\* needs a node: the environment, its translation to a feature, the reading of
\* the feature and the choice of a cipher, in two languages, agree.
PlainOnlyInTests == IsExported => (exported = "plain" <=> nodeEnv = "test")

\* Neither copy of the mock cipher is handed a transaction it calls unreachable.
NoPanic == exported # Panic

\* A failed call of the node costs nothing: if the arguments stay ones that the
\* addon takes, a caller who goes on gets the transaction exported.
EventuallyExported == <>[](NativeTakes /\ IsNotEmpty) => <>IsExported
=============================================================================
