---------------------------- MODULE Conversions ----------------------------
(***************************************************************************)
(* A caller of the library's pure functions: the conversion of amounts,    *)
(* whose results it feeds back in any order, the derivation of keys, and   *)
(* the count of an address's leaves.                                       *)
(***************************************************************************)
EXTENDS Amounts, DerivationPath, AddressLeaves, FiniteSets

CONSTANTS
    GivenAmount,    \* amounts the caller starts from
    FormatPath,     \* format paths
    Arguments,      \* arguments of derivef()
    MaxSigners,     \* bound on the signers of an address
    NoCall          \* nothing called yet

\* Whether a format path can be derived, and whether the arguments are unsigned,
\* is for derivef() to find out.
ASSUME ConversionsAssumption ==
    /\ GivenAmount \subseteq Int
    /\ FormatPath \subseteq Seq([text : Seq(Literal \cup {Placeholder, Letters}),
                              hardened : BOOLEAN])
    /\ Arguments \subseteq Seq(Int)
    /\ MaxSigners \in Nat

VARIABLE last   \* the last call and its result.  For amounts: the amount the
                \* caller started from, and what it has become, with their units

Init == last = NoCall

Amount(given, givenUnit, value, unit) ==
    [call |-> "amount", given |-> given, givenUnit |-> givenUnit,
     value |-> value, unit |-> unit]

Start ==
    /\ last = NoCall
    /\ \E v \in GivenAmount, u \in Unit : last' = Amount(v, u, v, u)

ToCRO ==
    /\ last # NoCall /\ last.call = "amount" /\ last.value # Thrown
    /\ last' = [last EXCEPT !.value = toCRO(@, last.unit), !.unit = "CRO"]

FromCRO ==
    /\ last # NoCall /\ last.call = "amount" /\ last.value # Thrown
    /\ last.unit = "CRO"
    /\ \E u \in Unit : last' = [last EXCEPT !.value = fromCRO(@, u), !.unit = u]

Derivef ==
    /\ last = NoCall
    /\ \E f \in FormatPath, args \in Arguments :
          last' = [call |-> "derivef", path |-> f, args |-> args, key |-> derivef(f, args)]

Leaves ==
    /\ last = NoCall
    /\ \E total \in 1..MaxSigners : \E required \in 1..total :
          last' = [call |-> "leaves", total |-> total, required |-> required,
                   leaves |-> transfer_address_leaves(total, required)]

Next == Start \/ ToCRO \/ FromCRO \/ Derivef \/ Leaves

Spec == Init /\ [][Next]_last

Called(call) == last # NoCall /\ last.call = call

-----------------------------------------------------------------------------
(* Properties *)

\* What is left of one basic unit
Parts(value, unit) == IF unit = "CRO" THEN value * CRO_DECIMAL ELSE value

\* Once an amount has been converted it is a number of basic units, up to the
\* supply, and never changes again however often it is converted; the first
\* conversion changed it by less than the last digit of a division.
AmountIsKept ==
    Called("amount") /\ last.value # Thrown =>
        LET given == Parts(last.given, last.givenUnit)
            now == Parts(last.value, last.unit)
        IN  /\ (now # given \/ last.unit # last.givenUnit) =>
                  now % One = 0 /\ now >= 0 /\ now <= MAX_CRO * CRO_DECIMAL * One
            /\ given % One = 0 => now = given
            /\ 2 * (now - given) \in -(Quantum * CRO_DECIMAL)..Quantum * CRO_DECIMAL

\* An amount is refused only when it is no number of basic units up to the
\* supply: what a caller was once given by a conversion can be converted on.
GoodAmountIsTaken ==
    Called("amount") /\ last.value = Thrown =>
        ~(LET given == Parts(last.given, last.givenUnit) IN
          given % One = 0 /\ given >= 0 /\ given <= MAX_CRO * CRO_DECIMAL * One)

\* No step of a format path has two placeholders.
AtMostOneEach(path) ==
    \A x, y \in Places(path) : x[1] = y[1] => x = y

\* Every step of a format path is a placeholder, or a number that leaves the
\* hardened indices to the mark.
IsPlain(path) ==
    /\ path # <<>>
    /\ \A k \in DOMAIN path :
          /\ Len(path[k].text) = 1
          /\ \/ path[k].text[1] = Placeholder
             \/ path[k].text[1] \in Literal /\ path[k].text[1].number < Hardened

\* A list of arguments that gives a key has one for each placeholder.  With one
\* format path different lists give different keys, also when an argument is
\* joined to digits beside it, unless two placeholders share a step: of
\* m/{a}{b} the arguments 1, 23 and 12, 3 name one key.  And with a plain path
\* every list of indices that are not hardened yet, one for each placeholder,
\* gives a key.
KeysAreDistinct ==
    Called("derivef") =>
        LET path == last.path
            args == last.args
        IN  /\ last.key # Rejected =>
                  /\ Len(args) = Cardinality(Places(path))
                  /\ AtMostOneEach(path) =>
                        \A others \in Arguments :
                            derivef(path, others) = last.key => others = args
            /\ /\ IsPlain(path) /\ Fits(path, args)
               /\ \A m \in DOMAIN args : args[m] \in 0..Hardened - 1
               => last.key # Rejected

\* The choices of so many among n signers
Choices(n, required) == {s \in SUBSET (1..n) : Cardinality(s) = required}

\* The leaves are counted right, one for each choice of the required signers,
\* as long as the loop can count the choices of fewer signers as well.
LeavesAreChoices ==
    /\ Called("leaves")
    /\ \A d \in 0..last.required : Cardinality(Choices(last.total, d)) < FactorRange
    => last.leaves = Cardinality(Choices(last.total, last.required)) % LeavesRange
=============================================================================
