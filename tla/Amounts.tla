------------------------------ MODULE Amounts ------------------------------
(***************************************************************************)
(* toCRO() and fromCRO() (lib/src/utils).  A BigNumber is exact except for *)
(* divisions, which keep DECIMAL_PLACES digits and round half up.  It is   *)
(* modelled as an integer, a multiple of the finest quantity TLC is shown: *)
(* one is One of them.                                                     *)
(***************************************************************************)
EXTENDS Integers

CONSTANTS
    One,        \* the finest quantities in 1
    Quantum,    \* and in the last digit a division keeps, 10^-20
    CRO_DECIMAL,  \* basic units in a CRO, 10^8
    MAX_CRO,      \* 10^11
    Thrown        \* the Error thrown

ASSUME AmountsAssumption ==
    /\ One \in Nat \ {0} /\ Quantum \in Nat \ {0} /\ CRO_DECIMAL \in Nat \ {0}
    /\ One % (Quantum * CRO_DECIMAL) = 0
    /\ MAX_CRO \in Nat
    /\ Thrown \notin Int

Unit == {"BasicUnit", "CRO"}

multipliedBy(value, n) == value * n

\* Mutant: the quotient is cut off to whole basic units
DividedToCoins(value, n) ==
    ((value \div n) \div (One \div CRO_DECIMAL)) * (One \div CRO_DECIMAL)

\* Rounded half up, away from zero, to a multiple of Quantum
dividedBy(value, n) ==
    LET size == IF value < 0 THEN -value ELSE value
        rounded == ((2 * size + n * Quantum) \div (2 * n * Quantum)) * Quantum
    IN  IF value < 0 THEN -rounded ELSE rounded

isInteger(value) == value % One = 0

\* Mutant: the whole supply is too much
VerifyCROBelow(value, isNegative) ==
    isInteger(multipliedBy(value, CRO_DECIMAL)) /\ ~isNegative /\ value < MAX_CRO * One

\* verifyCRO().  A negative value that a division rounded to -0 is still
\* negative, so the sign is that of the value before.
VerifyCRO(value, isNegative) ==
    /\ isInteger(multipliedBy(value, CRO_DECIMAL))
    /\ ~isNegative
    /\ value <= MAX_CRO * One

toCRO(value, fromUnit) ==
    LET cro == IF fromUnit = "BasicUnit" THEN dividedBy(value, CRO_DECIMAL) ELSE value
    IN  IF VerifyCRO(cro, value < 0) THEN cro ELSE Thrown

fromCRO(value, toUnit) ==
    IF ~VerifyCRO(value, value < 0) THEN Thrown
    ELSE IF toUnit = "BasicUnit" THEN multipliedBy(value, CRO_DECIMAL) ELSE value
=============================================================================
