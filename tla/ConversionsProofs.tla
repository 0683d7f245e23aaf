------------------------- MODULE ConversionsProofs -------------------------
(***************************************************************************)
(* Proofs about Conversions: what the library's pure functions give, for   *)
(* every amount, path, list of arguments and number of signers.            *)
(*                                                                         *)
(* The functions compute: a division is rounded, the digits of a step are  *)
(* joined and leaves counted in loops.  So each is first shown to come to  *)
(* something without a loop, by induction on the rounds in the form of     *)
(* NumberInduction, and the invariant of the caller's steps, CallsInv, is  *)
(* that the last result is what its function gives.  For an amount, which  *)
(* a caller feeds back, it is that the amount is Kept.                     *)
(***************************************************************************)
EXTENDS Conversions, FiniteSetTheorems, FunctionTheorems, SequenceTheorems,
        WellFoundedInduction, TLAPS

-----------------------------------------------------------------------------
(* Numbers *)

\* A set of natural numbers has a least one, and so numbers can be induced on:
\* the induction over the rounds of a loop rests on these two.
LEMMA LeastNumber ==
    ASSUME NEW S \in SUBSET Nat, S # {}
    PROVE  \E m \in S : \A n \in S : m <= n
<1> DEFINE Less == {p \in Nat \X Nat : p[1] < p[2]}
<1>1. IsWellFoundedOn(Less, Nat)
  BY NatLessThanWellFounded DEF OpToRel
<1>2. PICK m \in S : \A n \in S : <<n, m>> \notin Less
  <2> HIDE DEF Less
  <2> QED BY <1>1, WFMin, Zenon
<1>3. ASSUME NEW n \in S PROVE m <= n
  <2>1. m \in Nat /\ n \in Nat /\ <<n, m>> \notin Less
    BY <1>2
  <2>2. <<n, m>> \in Nat \X Nat /\ <<n, m>>[1] = n /\ <<n, m>>[2] = m
    BY <2>1
  <2> QED
    BY <2>1, <2>2
<1> QED
  BY <1>3

\* What holds of zero, and of the next number after each it holds of, holds of
\* every natural number.
LEMMA NumberInduction ==
    ASSUME NEW S, 0 \in S, \A n \in Nat : n \in S => n + 1 \in S
    PROVE  Nat \subseteq S
<1> SUFFICES ASSUME Nat \ S # {} PROVE FALSE
  OBVIOUS
<1>1. PICK m \in Nat \ S : \A n \in Nat \ S : m <= n
  BY LeastNumber
<1>2. m - 1 \in Nat /\ m - 1 \in S
  BY <1>1
<1> QED
  BY <1>1, <1>2

\* What \div and % give.
LEMMA Division ==
    ASSUME NEW a \in Int, NEW b \in Nat \ {0}
    PROVE  /\ a \div b \in Int /\ a % b \in 0..b - 1
           /\ a = b * (a \div b) + (a % b)
OBVIOUS

\* A quotient and a remainder in range are those of the division.
LEMMA DivisionUnique ==
    ASSUME NEW b \in Nat \ {0}, NEW q \in Int, NEW r \in 0..b - 1
    PROVE  (b * q + r) \div b = q /\ (b * q + r) % b = r
OBVIOUS

\* A remainder of zero means a multiple.
LEMMA Multiple ==
    ASSUME NEW a \in Int, NEW b \in Nat \ {0}
    PROVE  a % b = 0 <=> \E q \in Int : a = b * q
<1>1. a % b = 0 => a = b * (a \div b) /\ a \div b \in Int
  BY Division
<1>2. ASSUME NEW q \in Int, a = b * q PROVE a % b = 0
  BY <1>2, DivisionUnique, b * q + 0 = b * q
<1> QED
  BY <1>1, <1>2

-----------------------------------------------------------------------------
(* Amounts *)

\* A coin is a multiple of what a division by CRO_DECIMAL rounds to.
LEMMA CoinIsMultiple ==
    ASSUME NEW v \in Int, v % One = 0
    PROVE  \E s \in Int : v = (CRO_DECIMAL * Quantum) * s
<1>1. PICK j \in Int : One = (CRO_DECIMAL * Quantum) * j
  <2> DEFINE P == CRO_DECIMAL * Quantum
  <2>1. P = Quantum * CRO_DECIMAL /\ P \in Nat \ {0}
    BY AmountsAssumption
  <2>2. One % P = 0 /\ One \in Int
    BY <2>1, AmountsAssumption
  <2> HIDE DEF P
  <2>3. \E j \in Int : One = P * j
    BY <2>1, <2>2, Multiple
  <2> QED
    BY <2>3 DEF P
<1>2. PICK q \in Int : v = One * q
  BY Multiple, AmountsAssumption
<1> DEFINE P == CRO_DECIMAL * Quantum
<1>3. P \in Int
  BY AmountsAssumption
<1> HIDE DEF P
<1>4. v = P * (j * q) /\ j * q \in Int
  BY <1>1, <1>2, <1>3 DEF P
<1> QED
  BY <1>4 DEF P

\* What the rounding of dividedBy() adds or takes, and that it leaves coins alone
LEMMA Rounding ==
    ASSUME NEW size \in Nat, NEW P \in Nat \ {0}, NEW r, r = (2 * size + P) \div (2 * P)
    PROVE  /\ r \in Nat
           /\ 2 * (P * r - size) \in -P..P
           /\ \A s \in Int : size = P * s => P * r = size
<1> DEFINE m == (2 * size + P) % (2 * P)
<1>1. r \in Int /\ m \in 0..2 * P - 1 /\ 2 * size + P = (2 * P) * r + m
  <2>1. 2 * size + P \in Int /\ 2 * P \in Nat \ {0}
    OBVIOUS
  <2> QED
    BY <2>1, Division
<1> HIDE DEF m
<1>2. 2 * (P * r - size) = P - m
  BY <1>1
<1>3. r >= 0
  <2> SUFFICES ASSUME r <= -1 PROVE FALSE
    BY <1>1
  <2>1. (2 * P) * r <= -(2 * P)
    BY <1>1
  <2> QED
    BY <1>1, <2>1
<1>4. ASSUME NEW s \in Int, size = P * s PROVE P * r = size
  <2>1. 2 * size + P = (2 * P) * s + P
    BY <1>4
  <2>2. (2 * size + P) \div (2 * P) = s
    BY <2>1, DivisionUnique
  <2> QED
    BY <1>4, <2>2
<1> QED
  BY <1>1, <1>2, <1>3, <1>4

\* The division by CRO_DECIMAL: less than its last digit is lost or added, and
\* nothing of a whole number of basic units.
LEMMA DividedBy ==
    ASSUME NEW v \in Int, NEW cro, cro = dividedBy(v, CRO_DECIMAL)
    PROVE  /\ cro \in Int
           /\ 2 * (cro * CRO_DECIMAL - v) \in -(Quantum * CRO_DECIMAL)..Quantum * CRO_DECIMAL
           /\ v % One = 0 => cro * CRO_DECIMAL = v
           /\ v >= 0 => cro >= 0
<1> DEFINE P == CRO_DECIMAL * Quantum
           size == IF v < 0 THEN -v ELSE v
           r == (2 * size + P) \div (2 * P)
<1>1. P \in Nat \ {0} /\ size \in Nat
  BY AmountsAssumption
<1>2. 2 * P = 2 * CRO_DECIMAL * Quantum /\ P = Quantum * CRO_DECIMAL
  BY AmountsAssumption
<1>3. cro = IF v < 0 THEN -(r * Quantum) ELSE r * Quantum
  BY <1>2 DEF dividedBy
<1>4. /\ r \in Nat
      /\ 2 * (P * r - size) \in -P..P
      /\ \A s \in Int : size = P * s => P * r = size
  <2> HIDE DEF P, size
  <2> QED
    BY <1>1, Rounding, ZenonT(30)
<1>5. v % One = 0 => P * r = size
  <2> SUFFICES ASSUME v % One = 0 PROVE P * r = size
    OBVIOUS
  <2>1. PICK s \in Int : v = P * s
    BY CoinIsMultiple
  <2>2. PICK parts \in Int : size = P * parts
    <3> HIDE DEF P
    <3>1. size = P * s \/ size = P * (-s)
      BY <1>1, <2>1
    <3> HIDE DEF size
    <3> QED
      BY <3>1
  <2> HIDE DEF size, r, P
  <2>3. size = P * parts => P * r = size
    BY <1>4, Zenon
  <2> QED
    BY <2>2, <2>3, Zenon
<1>6. cro \in Int /\ cro * CRO_DECIMAL = (IF v < 0 THEN -(P * r) ELSE P * r)
  <2>1. (r * Quantum) * CRO_DECIMAL = P * r /\ (-(r * Quantum)) * CRO_DECIMAL = -(P * r)
    <3> HIDE DEF r
    <3> QED
      BY <1>4, AmountsAssumption
  <2>2. /\ P * r \in Int /\ -(P * r) \in Int
        /\ r * Quantum \in Int /\ -(r * Quantum) \in Int
    <3> HIDE DEF r
    <3> QED
      BY <1>4, AmountsAssumption
  <2> HIDE DEF r, P
  <2> QED
    BY <1>3, <2>1, <2>2
<1>7. v >= 0 => cro >= 0
  <2> HIDE DEF r
  <2> QED
    BY <1>3, <1>4, AmountsAssumption
<1>8. size = IF v < 0 THEN -v ELSE v
  OBVIOUS
<1> HIDE DEF P, size, r
<1>9. 2 * (cro * CRO_DECIMAL - v) \in -P..P
  BY <1>1, <1>4, <1>6, <1>8, AmountsAssumption
<1> QED
  BY <1>1, <1>2, <1>4, <1>5, <1>6, <1>7, <1>8, <1>9

\* A number of basic units that somebody can own
Owned(parts) == parts % One = 0 /\ parts >= 0 /\ parts <= MAX_CRO * CRO_DECIMAL * One

\* Less than the last digit of a division away
Near(parts, given) == 2 * (parts - given) \in -(Quantum * CRO_DECIMAL)..Quantum * CRO_DECIMAL

\* What AmountIsKept and GoodAmountIsTaken say of one amount
Kept(given, givenUnit, value, unit) ==
    LET before == Parts(given, givenUnit)
        now == Parts(value, unit)
    IN  /\ value # Thrown =>
              /\ (now = before /\ unit = givenUnit) \/ Owned(now)
              /\ before % One = 0 => now = before
              /\ Near(now, before)
        /\ value = Thrown => ~Owned(before)

\* Parts of an amount are a number with the sign of the amount.
LEMMA PartsType ==
    ASSUME NEW v \in Int, NEW u \in Unit
    PROVE  Parts(v, u) \in Int /\ (Parts(v, u) < 0 <=> v < 0)
<1>1. v * CRO_DECIMAL \in Int /\ (v * CRO_DECIMAL < 0 <=> v < 0)
  BY AmountsAssumption
<1> QED
  BY <1>1 DEF Parts

\* verifyCRO() takes what can be owned, and nothing else
LEMMA Verified ==
    ASSUME NEW cro \in Int, NEW isNegative \in BOOLEAN, cro < 0 => isNegative
    PROVE  VerifyCRO(cro, isNegative) <=> Owned(cro * CRO_DECIMAL) /\ ~isNegative
<1>1. cro * CRO_DECIMAL \in Int /\ MAX_CRO * One \in Int
  BY AmountsAssumption
<1>2. MAX_CRO * CRO_DECIMAL * One = (MAX_CRO * One) * CRO_DECIMAL
  BY AmountsAssumption
<1>3. cro <= MAX_CRO * One <=> cro * CRO_DECIMAL <= (MAX_CRO * One) * CRO_DECIMAL
  <2> DEFINE m == MAX_CRO * One
  <2>1. m \in Int
    BY <1>1
  <2> HIDE DEF m
  <2>2. cro <= m <=> cro * CRO_DECIMAL <= m * CRO_DECIMAL
    <3>1. cro <= m => cro * CRO_DECIMAL <= m * CRO_DECIMAL
      BY <2>1, AmountsAssumption
    <3>2. m < cro => m * CRO_DECIMAL < cro * CRO_DECIMAL
      BY <2>1, AmountsAssumption
    <3> QED
      BY <3>1, <3>2, <2>1, AmountsAssumption
  <2> QED
    BY <2>2 DEF m
<1>4. cro >= 0 => cro * CRO_DECIMAL >= 0
  BY AmountsAssumption
<1> QED
  BY <1>1, <1>2, <1>3, <1>4 DEF VerifyCRO, Owned, isInteger, multipliedBy

\* A conversion of what is kept, by way of cro, keeps it.
LEMMA ConversionKeeps ==
    ASSUME NEW given \in Int, NEW givenUnit \in Unit, NEW value \in Int, NEW unit \in Unit,
           Kept(given, givenUnit, value, unit), value # Thrown,
           NEW cro \in Int,
           Near(cro * CRO_DECIMAL, Parts(value, unit)),
           Parts(value, unit) % One = 0 => cro * CRO_DECIMAL = Parts(value, unit),
           value >= 0 => cro >= 0
    PROVE  /\ VerifyCRO(cro, value < 0) =>
                 /\ Owned(cro * CRO_DECIMAL)
                 /\ Parts(given, givenUnit) % One = 0 => cro * CRO_DECIMAL = Parts(given, givenUnit)
                 /\ Near(cro * CRO_DECIMAL, Parts(given, givenUnit))
           /\ ~VerifyCRO(cro, value < 0) => ~Owned(Parts(given, givenUnit))
<1> DEFINE before == Parts(given, givenUnit)
           now == Parts(value, unit)
           after == cro * CRO_DECIMAL
<1>1. VerifyCRO(cro, value < 0) <=> Owned(after) /\ ~(value < 0)
  <2>1. (value < 0) \in BOOLEAN /\ (cro < 0 => value < 0)
    OBVIOUS
  <2> QED
    BY <2>1, Verified
<1>2. /\ before \in Int /\ now \in Int /\ after \in Int
      /\ now < 0 <=> value < 0
  BY PartsType, AmountsAssumption
<1>3. /\ now = before \/ Owned(now)
      /\ before % One = 0 => now = before
      /\ Near(now, before)
  BY DEF Kept
<1>4. Near(after, now) /\ (now % One = 0 => after = now)
  OBVIOUS
<1> HIDE DEF before, now, after
<1>5. Owned(after) => (before % One = 0 => after = before) /\ Near(after, before)
  BY <1>3, <1>4 DEF Owned
<1>6. Owned(before) => Owned(after) /\ ~(value < 0)
  BY <1>2, <1>3, <1>4 DEF Owned
<1> QED
  BY <1>1, <1>5, <1>6 DEF before, now, after

\* toCRO() keeps an amount.
LEMMA ToCROKeeps ==
    ASSUME NEW given \in Int, NEW givenUnit \in Unit, NEW value \in Int, NEW unit \in Unit,
           Kept(given, givenUnit, value, unit), value # Thrown
    PROVE  /\ toCRO(value, unit) \in Int \cup {Thrown}
           /\ Kept(given, givenUnit, toCRO(value, unit), "CRO")
<1> DEFINE cro == IF unit = "BasicUnit" THEN dividedBy(value, CRO_DECIMAL) ELSE value
<1>1. /\ cro \in Int
      /\ Near(cro * CRO_DECIMAL, Parts(value, unit))
      /\ Parts(value, unit) % One = 0 => cro * CRO_DECIMAL = Parts(value, unit)
      /\ value >= 0 => cro >= 0
  <2>1. CASE unit = "BasicUnit"
    BY <2>1, DividedBy DEF Parts, Near
  <2>2. CASE unit = "CRO"
    <3>1. Near(cro * CRO_DECIMAL, cro * CRO_DECIMAL)
      BY <2>2, AmountsAssumption DEF Near
    <3> QED
      BY <2>2, <3>1 DEF Parts
  <2> QED
    BY <2>1, <2>2 DEF Unit
<1>2. toCRO(value, unit) = IF VerifyCRO(cro, value < 0) THEN cro ELSE Thrown
  BY DEF toCRO
<1> HIDE DEF cro
<1>3. /\ VerifyCRO(cro, value < 0) =>
            /\ Owned(cro * CRO_DECIMAL)
            /\ Parts(given, givenUnit) % One = 0 => cro * CRO_DECIMAL = Parts(given, givenUnit)
            /\ Near(cro * CRO_DECIMAL, Parts(given, givenUnit))
      /\ ~VerifyCRO(cro, value < 0) => ~Owned(Parts(given, givenUnit))
  BY <1>1, ConversionKeeps
<1> QED
  BY <1>1, <1>2, <1>3, AmountsAssumption DEF Kept, Parts

\* fromCRO() keeps an amount.
LEMMA FromCROKeeps ==
    ASSUME NEW given \in Int, NEW givenUnit \in Unit, NEW value \in Int, NEW unit \in Unit,
           Kept(given, givenUnit, value, "CRO"), value # Thrown
    PROVE  /\ fromCRO(value, unit) \in Int \cup {Thrown}
           /\ Kept(given, givenUnit, fromCRO(value, unit), unit)
<1>1. Near(value * CRO_DECIMAL, value * CRO_DECIMAL) /\ Parts(value, "CRO") = value * CRO_DECIMAL
  BY AmountsAssumption DEF Near, Parts
<1>2. /\ VerifyCRO(value, value < 0) =>
            /\ Owned(value * CRO_DECIMAL)
            /\ Parts(given, givenUnit) % One = 0 => value * CRO_DECIMAL = Parts(given, givenUnit)
            /\ Near(value * CRO_DECIMAL, Parts(given, givenUnit))
      /\ ~VerifyCRO(value, value < 0) => ~Owned(Parts(given, givenUnit))
  BY <1>1, ConversionKeeps DEF Unit
<1>3. VerifyCRO(value, value < 0) =>
          fromCRO(value, unit) \in Int /\ Parts(fromCRO(value, unit), unit) = value * CRO_DECIMAL
  BY AmountsAssumption DEF fromCRO, multipliedBy, Parts, Unit
<1>4. ~VerifyCRO(value, value < 0) => fromCRO(value, unit) = Thrown
  BY DEF fromCRO
<1> QED
  BY <1>2, <1>3, <1>4, AmountsAssumption DEF Kept

-----------------------------------------------------------------------------
(* The leaves of an address *)

\* How many choices of d among n signers there are
Count(n, d) == Cardinality(Choices(n, d))

\* Choices can be counted.
LEMMA ChoicesFinite ==
    ASSUME NEW n \in Nat, NEW d
    PROVE  IsFiniteSet(Choices(n, d)) /\ Count(n, d) \in Nat
<1>1. IsFiniteSet(SUBSET (1..n))
  <2>1. IsFiniteSet(1..n)
    BY FS_Interval
  <2> QED
    BY <2>1, FS_SUBSET
<1>2. Choices(n, d) \in SUBSET SUBSET (1..n)
  BY DEF Choices
<1> QED
  BY <1>1, <1>2, FS_Subset, FS_CardinalityType DEF Count

\* So can the signers of a choice.
LEMMA SubsetFinite ==
    ASSUME NEW n \in Nat, NEW s \in SUBSET (1..n)
    PROVE  IsFiniteSet(s) /\ Cardinality(s) \in Nat
<1>1. IsFiniteSet(1..n)
  BY FS_Interval
<1>2. IsFiniteSet(s)
  BY <1>1, FS_Subset
<1> QED
  BY <1>2, FS_CardinalityType

\* There is one choice of no signers,
LEMMA CountNone ==
    ASSUME NEW n \in Nat
    PROVE  Count(n, 0) = 1
<1>1. \A s \in SUBSET (1..n) : Cardinality(s) = 0 <=> s = {}
  BY SubsetFinite, FS_EmptySet
<1>2. Choices(n, 0) = {{}}
  BY <1>1 DEF Choices
<1> QED
  BY <1>2, FS_Singleton DEF Count

\* none of some among no signers,
LEMMA CountAmongNone ==
    ASSUME NEW d \in Nat \ {0}
    PROVE  Count(0, d) = 0
<1>1. 1..0 = {}
  OBVIOUS
<1>2. Choices(0, d) = {}
  BY <1>1, FS_EmptySet DEF Choices
<1> QED
  BY <1>2, FS_EmptySet DEF Count

\* A choice is without the last signer, or it is one of fewer with the last.
LEMMA Pascal ==
    ASSUME NEW n \in Nat, NEW d \in Nat \ {0}
    PROVE  Count(n + 1, d) = Count(n, d) + Count(n, d - 1)
<1> DEFINE f == [s \in Choices(n, d - 1) |-> s \cup {n + 1}]
           with == {f[s] : s \in Choices(n, d - 1)}
<1>1. \A s \in SUBSET (1..n) : IsFiniteSet(s) /\ Cardinality(s) \in Nat /\ n + 1 \notin s
  BY SubsetFinite
<1>2. \A s \in SUBSET (1..n) : Cardinality(s \cup {n + 1}) = Cardinality(s) + 1
  BY <1>1, FS_AddElement
<1>3. f \in Bijection(Choices(n, d - 1), with)
  <2>1. f \in [Choices(n, d - 1) -> with]
    OBVIOUS
  <2>2. \A s, t \in Choices(n, d - 1) : f[s] = f[t] => s = t
    <3> SUFFICES ASSUME NEW s \in Choices(n, d - 1), NEW t \in Choices(n, d - 1), f[s] = f[t]
                 PROVE  s = t
      OBVIOUS
    <3>1. s \cup {n + 1} = t \cup {n + 1} /\ n + 1 \notin s /\ n + 1 \notin t
      BY <1>1 DEF Choices
    <3> QED
      BY <3>1
  <2>3. \A w \in with : \E s \in Choices(n, d - 1) : f[s] = w
    OBVIOUS
  <2> HIDE DEF f, with
  <2> QED
    BY <2>1, <2>2, <2>3, Fun_IsBij
<1>4. IsFiniteSet(with) /\ Cardinality(with) = Count(n, d - 1)
  <2>1. ExistsBijection(Choices(n, d - 1), with)
    BY <1>3 DEF ExistsBijection
  <2> QED
    BY <2>1, ChoicesFinite, FS_Bijection DEF Count
<1>5. Choices(n + 1, d) = Choices(n, d) \cup with
  <2>1. ASSUME NEW s \in Choices(n, d) PROVE s \in Choices(n + 1, d)
    BY DEF Choices
  <2>2. ASSUME NEW s \in Choices(n, d - 1) PROVE f[s] \in Choices(n + 1, d)
    <3>1. s \in SUBSET (1..n) /\ Cardinality(s) = d - 1
      BY DEF Choices
    <3>2. s \cup {n + 1} \in SUBSET (1..n + 1) /\ Cardinality(s \cup {n + 1}) = d
      BY <3>1, <1>2
    <3> QED
      BY <3>2 DEF Choices
  <2>3. ASSUME NEW s \in Choices(n + 1, d), s \notin Choices(n, d) PROVE s \in with
    <3>1. s \in SUBSET (1..n + 1) /\ Cardinality(s) = d
      BY DEF Choices
    <3>2. n + 1 \in s
      BY <2>3, <3>1 DEF Choices
    <3> DEFINE t == s \ {n + 1}
    <3>3. t \in SUBSET (1..n) /\ s = t \cup {n + 1}
      BY <3>1, <3>2
    <3>4. Cardinality(t) = d - 1
      BY <3>1, <3>3, <1>1, <1>2
    <3>5. t \in Choices(n, d - 1)
      BY <3>3, <3>4 DEF Choices
    <3> QED
      BY <3>3, <3>5
  <2> HIDE DEF f
  <2> QED
    BY <2>1, <2>2, <2>3
<1>6. Choices(n, d) \cap with = {}
  BY <1>1 DEF Choices
<1> QED
  <2>1. Cardinality(Choices(n, d) \cup with)
           = Count(n, d) + Count(n, d - 1) - Cardinality(Choices(n, d) \cap with)
    BY <1>4, ChoicesFinite, FS_Union DEF Count
  <2>2. Count(n, d) \in Nat /\ Count(n, d - 1) \in Nat
    BY ChoicesFinite
  <2>3. Count(n + 1, d) = Cardinality(Choices(n, d) \cup with)
    BY <1>5 DEF Count
  <2>4. Cardinality(Choices(n, d) \cap with) = 0
    BY <1>6, FS_EmptySet
  <2> QED
    BY <2>1, <2>2, <2>3, <2>4

\* and at least one of no more signers than there are.
LEMMA CountPositive ==
    ASSUME NEW n \in Nat, NEW d \in 0..n
    PROVE  Count(n, d) >= 1
<1>1. 1..d \in SUBSET (1..n) /\ Cardinality(1..d) = d
  BY FS_Interval
<1>2. Choices(n, d) # {}
  BY <1>1 DEF Choices
<1> QED
  BY <1>2, ChoicesFinite, FS_EmptySet DEF Count

\* From the choices of d - 1 signers to those of d
LEMMA CountNext == \A n \in Nat : \A d \in Nat \ {0} : d * Count(n, d) = (n - d + 1) * Count(n, d - 1)
<1> DEFINE Right == {n \in Nat : \A d \in Nat \ {0} :
                                    d * Count(n, d) = (n - d + 1) * Count(n, d - 1)}
<1>1. 0 \in Right
  <2>1. ASSUME NEW d \in Nat \ {0} PROVE d * Count(0, d) = (0 - d + 1) * Count(0, d - 1)
    <3>1. CASE d = 1
      BY <3>1, CountAmongNone, CountNone
    <3>2. CASE d # 1
      <4>1. Count(0, d) = 0 /\ Count(0, d - 1) = 0
        BY <3>2, CountAmongNone
      <4> QED
        BY <4>1
    <3> QED
      BY <3>1, <3>2
  <2> QED
    BY <2>1
<1>2. ASSUME NEW n \in Right PROVE n + 1 \in Right
  <2>1. n \in Nat /\ \A d \in Nat \ {0} : d * Count(n, d) = (n - d + 1) * Count(n, d - 1)
    OBVIOUS
  <2>2. ASSUME NEW d \in Nat \ {0}
        PROVE  d * Count(n + 1, d) = ((n + 1) - d + 1) * Count(n + 1, d - 1)
    <3>1. Count(n + 1, d) = Count(n, d) + Count(n, d - 1)
      BY <2>1, Pascal
    <3>2. d * Count(n, d) = (n - d + 1) * Count(n, d - 1)
      BY <2>1
    <3>3. Count(n, d) \in Nat /\ Count(n, d - 1) \in Nat
      BY <2>1, ChoicesFinite
    <3>4. CASE d = 1
      BY <2>1, <3>1, <3>2, <3>3, <3>4, CountNone
    <3>5. CASE d # 1
      <4>1. d - 1 \in Nat \ {0}
        BY <3>5
      <4>2. Count(n + 1, d - 1) = Count(n, d - 1) + Count(n, (d - 1) - 1)
        BY <2>1, <4>1, Pascal
      <4>3. (d - 1) * Count(n, d - 1) = (n - (d - 1) + 1) * Count(n, (d - 1) - 1)
        BY <2>1, <4>1
      <4>4. Count(n, (d - 1) - 1) \in Nat
        BY <2>1, ChoicesFinite
      <4> DEFINE x == Count(n, d) y == Count(n, d - 1) z == Count(n, (d - 1) - 1)
      <4>5. x \in Nat /\ y \in Nat /\ z \in Nat
        BY <3>3, <4>4
      <4>6. d * x = (n - d + 1) * y /\ (d - 1) * y = (n - (d - 1) + 1) * z
        BY <3>2, <4>3
      <4> HIDE DEF x, y, z
      <4>7. d * (x + y) = (n + 1) * y
        BY <2>1, <4>5, <4>6
      <4>8. ((n + 1) - d + 1) * (y + z) = (n + 1) * y
        BY <2>1, <4>5, <4>6
      <4> QED
        BY <3>1, <4>2, <4>7, <4>8 DEF x, y, z
    <3> QED
      BY <3>4, <3>5
  <2> QED
    BY <2>1, <2>2
<1>3. Nat \subseteq Right
  <2> HIDE DEF Right
  <2> QED
    BY <1>1, <1>2, NumberInduction
<1> QED
  BY <1>3

\* The smallest factor that makes n a multiple of d divides every such factor.
LEMMA SmallestFactor ==
    ASSUME NEW n \in Nat, NEW d \in Nat \ {0}
    PROVE  \E m \in Nat \ {0} :
              /\ (m * n) % d = 0
              /\ \A k \in Nat \ {0} : (k * n) % d = 0 => k % m = 0
<1> DEFINE Factors == {k \in Nat \ {0} : (k * n) % d = 0}
<1>1. d \in Factors
  <2>1. (d * n) % d = 0
    BY Multiple
  <2> QED
    BY <2>1
<1>2. PICK m \in Factors : \A k \in Factors : m <= k
  <2> HIDE DEF Factors
  <2>1. Factors \in SUBSET Nat /\ Factors # {}
    BY <1>1 DEF Factors
  <2> QED
    BY <2>1, LeastNumber
<1>3. ASSUME NEW k \in Nat \ {0}, (k * n) % d = 0 PROVE k % m = 0
  <2> DEFINE q == k \div m rest == k % m
  <2>1. q \in Int /\ rest \in 0..m - 1 /\ k = m * q + rest
    BY <1>2, Division
  <2> HIDE DEF q, rest
  <2>2. PICK i \in Int : k * n = d * i
    <3>1. k * n \in Int
      OBVIOUS
    <3> QED
      BY <1>3, <3>1, Multiple
  <2>3. PICK j \in Int : m * n = d * j
    <3>1. m * n \in Int /\ (m * n) % d = 0
      BY <1>2
    <3> QED
      BY <3>1, Multiple
  <2>4. rest * n = d * (i - q * j)
    <3>1. rest * n = k * n - q * (m * n)
      BY <1>2, <2>1
    <3>2. q * (d * j) = d * (q * j)
      BY <2>1
    <3> QED
      BY <2>1, <2>2, <2>3, <3>1, <3>2
  <2>5. (rest * n) % d = 0
    <3>1. i - q * j \in Int /\ rest * n \in Int
      BY <2>1
    <3> QED
      BY <2>4, <3>1, Multiple
  <2>6. rest \notin Factors
    BY <1>2, <2>1
  <2> QED
    BY <2>1, <2>5, <2>6 DEF rest
<1> QED
  BY <1>2, <1>3

\* The greatest common divisor
LEMMA GcdIsGreatest ==
    ASSUME NEW a \in Nat, NEW b \in Nat \ {0}
    PROVE  /\ Gcd(a, b) \in Divisors(a, b)
           /\ \A j \in Divisors(a, b) : j <= Gcd(a, b)
<1> DEFINE Gaps == {b - k : k \in Divisors(a, b)}
<1>1. 1 \in Divisors(a, b)
  BY DEF Divisors
<1>2. Gaps \in SUBSET Nat /\ Gaps # {}
  BY <1>1 DEF Divisors
<1>3. PICK gap \in Gaps : \A h \in Gaps : gap <= h
  <2> HIDE DEF Gaps
  <2> QED
    BY <1>2, LeastNumber
<1>4. PICK g \in Divisors(a, b) : gap = b - g
  BY <1>3
<1>5. ASSUME NEW j \in Divisors(a, b) PROVE j <= g
  <2>1. b - g <= b - j
    BY <1>3, <1>4
  <2>2. g \in Int /\ j \in Int
    BY DEF Divisors
  <2> QED
    BY <2>1, <2>2
<1> QED
  BY <1>4, <1>5 DEF Gcd

\* The two divisions of the loop leave no remainder.
LEMMA FactorIsExact ==
    ASSUME NEW r \in Nat \ {0}, NEW n \in Nat, NEW d \in Nat \ {0}, NEW q \in Nat,
           d * q = r * n, q < FactorRange
    PROVE  Factor(r, n, d) = q
<1> DEFINE g == Gcd(r, d)
<1>1. /\ g \in 1..d /\ r % g = 0 /\ d % g = 0
      /\ \A j \in 1..d : r % j = 0 /\ d % j = 0 => j <= g
  BY GcdIsGreatest DEF Divisors
<1> HIDE DEF g
<1>2. PICK r1 \in Int : r = g * r1
  <2>1. g \in Nat \ {0} /\ r \in Int /\ r % g = 0
    BY <1>1
  <2> QED
    BY <2>1, Multiple, Zenon
<1>3. PICK d1 \in Int : d = g * d1
  <2>1. g \in Nat \ {0} /\ d \in Int /\ d % g = 0
    BY <1>1
  <2> QED
    BY <2>1, Multiple, Zenon
<1>4. r1 \in Nat \ {0} /\ d1 \in Nat \ {0}
  BY <1>1, <1>2, <1>3
<1>5. r \div g = r1 /\ d \div g = d1
  BY <1>1, <1>2, <1>3, <1>4, DivisionUnique, g * r1 + 0 = g * r1, g * d1 + 0 = g * d1
<1>6. d1 * q = r1 * n
  <2>1. g * (d1 * q) = g * (r1 * n)
    BY <1>1, <1>2, <1>3, <1>4
  <2>2. d1 * q \in Int /\ r1 * n \in Int
    BY <1>4
  <2> QED
    BY <1>1, <2>1, <2>2
<1>7. PICK m \in Nat \ {0} :
          (m * n) % d1 = 0 /\ \A k \in Nat \ {0} : (k * n) % d1 = 0 => k % m = 0
  BY <1>4, SmallestFactor
<1>8. r1 % m = 0 /\ d1 % m = 0
  <2>1. (r1 * n) % d1 = 0
    BY <1>4, <1>6, Multiple
  <2>2. (d1 * n) % d1 = 0
    BY <1>4, Multiple
  <2> QED
    BY <1>4, <1>7, <2>1, <2>2
<1>9. m = 1
  <2>1. PICK r2 \in Int : r1 = m * r2
    BY <1>4, <1>8, Multiple
  <2>2. PICK d2 \in Int : d1 = m * d2
    BY <1>4, <1>8, Multiple
  <2>3. r = (g * m) * r2 /\ d = (g * m) * d2 /\ g * m \in Nat \ {0}
    BY <1>1, <1>2, <1>3, <2>1, <2>2
  <2> DEFINE j == g * m
  <2> HIDE DEF j
  <2>4. j \in Nat \ {0} /\ r = j * r2 /\ d = j * d2
    BY <2>3 DEF j
  <2>5. r % j = 0 /\ d % j = 0
    BY <2>4, Multiple
  <2>6. j <= d
    <3>1. d2 >= 1
      BY <2>4
    <3> QED
      BY <2>4, <3>1
  <2>7. j <= g
    BY <1>1, <2>4, <2>5, <2>6, SMTT(20)
  <2> QED
    BY <1>1, <2>7 DEF j
<1>10. PICK n1 \in Int : n = d1 * n1
  <2>1. d1 \in Nat \ {0} /\ n \in Int /\ n % d1 = 0
    BY <1>4, <1>7, <1>9
  <2> QED
    BY <2>1, Multiple, Zenon
<1>11. n \div d1 = n1
  BY <1>4, <1>10, DivisionUnique, d1 * n1 + 0 = d1 * n1
<1>12. r1 * n1 = q
  <2>1. d1 * q = d1 * (r1 * n1)
    BY <1>4, <1>6, <1>10
  <2>2. r1 * n1 \in Int
    BY <1>4
  <2> QED
    BY <1>4, <2>1, <2>2
<1>13. q % FactorRange = q
  BY RangeAssumption
<1> QED
  BY <1>5, <1>11, <1>12, <1>13 DEF Factor, g

\* The loop has the choices of d signers after d rounds.
LEMMA LeavesCounted ==
    ASSUME NEW total \in Nat, NEW required \in 0..total,
           \A d \in 0..required : Count(total, d) < FactorRange
    PROVE  transfer_address_leaves(total, required) = Count(total, required) % LeavesRange
<1> DEFINE Loop(f) == [d \in 0..required |->
                          IF d = 0 THEN 1 ELSE Factor(f[d - 1], total - (d - 1), d)]
           counts == [d \in 0..required |-> Count(total, d)]
           result == CHOOSE f : f = Loop(f)
<1>1. ASSUME NEW d \in 1..required
      PROVE  Factor(Count(total, d - 1), total - (d - 1), d) = Count(total, d)
  <2>1. /\ Count(total, d - 1) \in Nat \ {0} /\ Count(total, d) \in Nat
        /\ total - (d - 1) \in Nat /\ d \in Nat \ {0}
    BY ChoicesFinite, CountPositive
  <2>2. d * Count(total, d) = Count(total, d - 1) * (total - (d - 1))
    <3>1. d * Count(total, d) = (total - d + 1) * Count(total, d - 1)
      BY CountNext
    <3>2. total - d + 1 = total - (d - 1)
      OBVIOUS
    <3> QED
      BY <2>1, <3>1, <3>2
  <2>3. Count(total, d) < FactorRange
    OBVIOUS
  <2> QED
    BY <2>1, <2>2, <2>3, FactorIsExact
<1>2. counts = Loop(counts)
  <2> SUFFICES ASSUME NEW d \in 0..required
               PROVE  Count(total, d)
                         = IF d = 0 THEN 1 ELSE Factor(counts[d - 1], total - (d - 1), d)
    OBVIOUS
  <2>1. CASE d = 0
    BY <2>1, CountNone
  <2>2. CASE d # 0
    <3>1. d \in 1..required /\ counts[d - 1] = Count(total, d - 1)
      BY <2>2
    <3> QED
      BY <2>2, <3>1, <1>1
  <2> QED
    BY <2>1, <2>2
<1>3. result = Loop(result)
  <2> HIDE DEF Loop, counts
  <2> QED
    BY <1>2
<1> HIDE DEF result
<1> DEFINE Right == {d \in Nat : d <= required => result[d] = Count(total, d)}
<1>4. 0 \in Right
  BY <1>3, CountNone
<1>5. ASSUME NEW k \in Nat, k \in Right PROVE k + 1 \in Right
  <2> SUFFICES ASSUME k + 1 <= required PROVE result[k + 1] = Count(total, k + 1)
    OBVIOUS
  <2>1. k + 1 \in 1..required /\ result[k] = Count(total, k) /\ (k + 1) - 1 = k
    BY <1>5
  <2>2. result[k + 1] = Factor(result[(k + 1) - 1], total - ((k + 1) - 1), k + 1)
    BY <1>3, <2>1
  <2>3. Factor(Count(total, (k + 1) - 1), total - ((k + 1) - 1), k + 1) = Count(total, k + 1)
    BY <1>1, <2>1
  <2> QED
    BY <2>1, <2>2, <2>3
<1>6. required \in Right
  <2> HIDE DEF Right
  <2> QED
    BY <1>4, <1>5, NumberInduction
<1>7. transfer_address_leaves(total, required) = result[required] % LeavesRange
  BY DEF transfer_address_leaves, result
<1> QED
  BY <1>6, <1>7

\* There are fewer choices of a fixed number of signers than groups of any size.
LEMMA ChoicesFewer ==
    ASSUME NEW max \in Nat \ {0}, NEW n \in 0..max, NEW d
    PROVE  Count(n, d) < 2^max
<1>1. IsFiniteSet(1..max) /\ Cardinality(1..max) = max
  BY FS_Interval
<1>2. IsFiniteSet(SUBSET (1..max)) /\ Cardinality(SUBSET (1..max)) = 2^max
  BY <1>1, FS_SUBSET
<1>3. Choices(n, d) \in SUBSET SUBSET (1..max)
  BY DEF Choices
<1>4. Choices(n, d) # SUBSET (1..max)
  <2>1. {} \in SUBSET (1..max) /\ {1} \in SUBSET (1..max)
    OBVIOUS
  <2>2. Cardinality({}) = 0 /\ Cardinality({1}) = 1
    BY FS_EmptySet, FS_Singleton
  <2> QED
    BY <2>1, <2>2 DEF Choices
<1>5. Cardinality(SUBSET (1..max)) \in Nat /\ Cardinality(Choices(n, d)) \in Nat
  BY <1>2, <1>3, FS_Subset, FS_CardinalityType
<1> QED
  BY <1>2, <1>3, <1>4, <1>5, FS_Subset DEF Count

-----------------------------------------------------------------------------
(* Keys *)

\* A piece of a step's text, and a step of a format path
Piece == Literal \cup {Placeholder, Letters}
FormatStep == [text : Seq(Piece), hardened : BOOLEAN]

\* f has the values of a loop that scales and adds, up to its m-th round
Loops(f, m, first, a, c) ==
    /\ f \in [0..m -> Nat]
    /\ f[0] = first
    /\ \A k \in 1..m : f[k] = f[k - 1] * a[k] + c[k]

\* Such a loop goes on for another round,
LEMMA LoopGoesOn ==
    ASSUME NEW m \in Nat, NEW first, NEW a, NEW c, NEW f, Loops(f, m, first, a, c),
           a[m + 1] \in Nat, c[m + 1] \in Nat
    PROVE  \E g : Loops(g, m + 1, first, a, c)
<1> DEFINE next == f[m] * a[m + 1] + c[m + 1]
           g == [k \in 0..m + 1 |-> IF k = m + 1 THEN next ELSE f[k]]
<1>1. next \in Nat
  <2>1. f[m] \in Nat
    BY DEF Loops
  <2>2. \A x \in Nat, y \in Nat, z \in Nat : x * y + z \in Nat
    OBVIOUS
  <2> QED
    BY <2>1, <2>2
<1>2. g[m + 1] = f[m] * a[m + 1] + c[m + 1] /\ \A k \in 0..m : g[k] = f[k]
  OBVIOUS
<1>3. g \in [0..m + 1 -> Nat]
  <2>1. \A k \in 0..m : f[k] \in Nat
    BY DEF Loops
  <2> HIDE DEF next
  <2> QED
    BY <1>1, <2>1
<1> HIDE DEF g
<1>4. ASSUME NEW k \in 1..m + 1 PROVE g[k] = g[k - 1] * a[k] + c[k]
  <2>1. CASE k = m + 1
    <3>1. k - 1 = m /\ g[m] = f[m]
      BY <1>2, <2>1
    <3> QED
      BY <1>2, <2>1, <3>1
  <2>2. CASE k # m + 1
    <3>1. k \in 1..m /\ k \in 0..m /\ k - 1 \in 0..m
      BY <2>2
    <3> QED
      BY <1>2, <3>1 DEF Loops
  <2> QED
    BY <2>1, <2>2
<1>5. g[0] = first
  BY <1>2 DEF Loops
<1> QED
  BY <1>3, <1>4, <1>5 DEF Loops

\* and so ends, whatever the factors and summands.
LEMMA LoopEnds ==
    ASSUME NEW n \in Nat, NEW first \in Nat, NEW a \in [1..n -> Nat], NEW c \in [1..n -> Nat]
    PROVE  \E f : Loops(f, n, first, a, c)
<1> DEFINE Ends(m) == \E f : Loops(f, m, first, a, c)
           Right == {m \in Nat : m <= n => Ends(m)}
<1>1. Ends(0)
  <2> DEFINE f == [k \in 0..0 |-> first]
  <2>1. f \in [0..0 -> Nat] /\ f[0] = first /\ \A k \in 1..0 : f[k] = f[k - 1] * a[k] + c[k]
    OBVIOUS
  <2> QED
    BY <2>1 DEF Loops
<1>2. ASSUME NEW m \in Nat, m + 1 <= n, Ends(m) PROVE Ends(m + 1)
  <2>1. a[m + 1] \in Nat /\ c[m + 1] \in Nat
    BY <1>2
  <2> QED
    BY <1>2, <2>1, LoopGoesOn
<1> HIDE DEF Ends
<1>3. 0 \in Right
  BY <1>1
<1>4. ASSUME NEW m \in Nat, m \in Right PROVE m + 1 \in Right
  BY <1>2, <1>4
<1>5. n \in Right
  <2> HIDE DEF Right
  <2> QED
    BY <1>3, <1>4, NumberInduction
<1> QED
  BY <1>5 DEF Ends

\* Its values are those of the recursive function.
LEMMA LoopIsFunction ==
    ASSUME NEW n \in Nat, NEW first, NEW a, NEW c, NEW f, Loops(f, n, first, a, c)
    PROVE  f = [k \in 0..n |-> IF k = 0 THEN first ELSE f[k - 1] * a[k] + c[k]]
<1>1. f = [k \in 0..n |-> f[k]]
  BY DEF Loops
<1>2. \A k \in 0..n : f[k] = IF k = 0 THEN first ELSE f[k - 1] * a[k] + c[k]
  BY DEF Loops
<1> QED
  BY <1>1, <1>2

\* The powers of ten are numbers.
LEMMA Powers == PowerOfTen \in [0..MaxDigits -> Nat]
<1> DEFINE a == [k \in 1..MaxDigits |-> 10]
           c == [k \in 1..MaxDigits |-> 0]
<1>1. PICK f : Loops(f, MaxDigits, 1, a, c)
  <2>1. a \in [1..MaxDigits -> Nat] /\ c \in [1..MaxDigits -> Nat] /\ MaxDigits \in Nat
    BY PathAssumption
  <2> HIDE DEF a, c
  <2> QED
    BY <2>1, LoopEnds
<1>2. \A k \in 1..MaxDigits : f[k - 1] * a[k] + c[k] = f[k - 1] * 10
  <2>1. \A k \in 1..MaxDigits : f[k - 1] \in Nat
    BY <1>1, PathAssumption DEF Loops
  <2> QED
    BY <2>1
<1>3. f = [k \in 0..MaxDigits |-> IF k = 0 THEN 1 ELSE f[k - 1] * 10]
  <2>1. \A k \in 0..MaxDigits : k # 0 => k \in 1..MaxDigits
    BY PathAssumption
  <2> HIDE DEF a, c
  <2>2. f = [k \in 0..MaxDigits |-> IF k = 0 THEN 1 ELSE f[k - 1] * a[k] + c[k]]
    BY <1>1, LoopIsFunction, PathAssumption
  <2> QED
    BY <1>2, <2>1, <2>2
<1>4. PowerOfTen = [k \in 0..MaxDigits |-> IF k = 0 THEN 1 ELSE PowerOfTen[k - 1] * 10]
  BY <1>3 DEF PowerOfTen
<1> DEFINE Right == {k \in Nat : k <= MaxDigits => PowerOfTen[k] \in Nat}
<1>5. 0 \in Right
  <2>1. 0 \in 0..MaxDigits
    BY PathAssumption
  <2> QED
    BY <1>4, <2>1
<1>6. ASSUME NEW k \in Nat, k \in Right PROVE k + 1 \in Right
  <2> SUFFICES ASSUME k + 1 <= MaxDigits PROVE PowerOfTen[k + 1] \in Nat
    OBVIOUS
  <2>1. k + 1 \in 0..MaxDigits /\ k + 1 # 0 /\ (k + 1) - 1 = k /\ PowerOfTen[k] \in Nat
    BY <1>6, PathAssumption
  <2>2. PowerOfTen[k + 1] = PowerOfTen[k] * 10
    BY <1>4, <2>1
  <2> QED
    BY <2>1, <2>2
<1>7. Nat \subseteq Right
  <2> HIDE DEF Right
  <2> QED
    BY <1>5, <1>6, NumberInduction
<1>8. \A k \in 0..MaxDigits : PowerOfTen[k] \in Nat
  BY <1>7, PathAssumption
<1>9. DOMAIN PowerOfTen = 0..MaxDigits
  BY <1>4
<1> QED
  BY <1>4, <1>8, <1>9

\* An argument becomes a numeral of the same number, and the larger of two
\* arguments has no fewer digits.
LEMMA NumeralType ==
    ASSUME NEW n \in 0..2 * Hardened - 1
    PROVE  /\ Numeral(n) \in Literal
           /\ Numeral(n).number = n
           /\ Numeral(n).scale \in Scales(n)
           /\ \A s \in Scales(n) : Numeral(n).scale <= s
<1>1. Scales(n) \subseteq Nat \ {0}
  BY Powers, PathAssumption DEF Scales
<1>2. PowerOfTen[MaxDigits] \in Scales(n)
  <2>1. PowerOfTen[MaxDigits] \in Nat /\ MaxDigits \in 1..MaxDigits
    BY Powers, PathAssumption
  <2>2. n < PowerOfTen[MaxDigits]
    BY <2>1, PathAssumption
  <2> QED
    BY <2>1, <2>2 DEF Scales
<1>3. \E s \in Scales(n) : \A t \in Scales(n) : s <= t
  BY <1>1, <1>2, LeastNumber
<1> DEFINE least == CHOOSE s \in Scales(n) : \A t \in Scales(n) : s <= t
<1>4. least \in Scales(n) /\ \A t \in Scales(n) : least <= t
  BY <1>3
<1>5. Numeral(n) = [number |-> n, scale |-> least]
  BY DEF Numeral
<1> HIDE DEF least
<1>6. n \in Nat
  BY PathAssumption
<1> QED
  BY <1>1, <1>4, <1>5, <1>6 DEF Literal

LEMMA ScaleGrows ==
    ASSUME NEW n \in 0..2 * Hardened - 1, NEW o \in 0..2 * Hardened - 1, n <= o
    PROVE  Numeral(n).scale <= Numeral(o).scale
<1>1. Scales(o) \subseteq Scales(n)
  BY Powers, PathAssumption DEF Scales
<1> QED
  BY <1>1, NumeralType

\* The value of a text, digit group by digit group
LEMMA JoinedLoop ==
    ASSUME NEW text \in Seq(Literal)
    PROVE  \E f \in [0..Len(text) -> Nat] :
              /\ f[0] = 0
              /\ \A p \in 1..Len(text) : f[p] = f[p - 1] * text[p].scale + text[p].number
              /\ Joined(text) = f[Len(text)]
<1> DEFINE a == [p \in 1..Len(text) |-> text[p].scale]
           c == [p \in 1..Len(text) |-> text[p].number]
           Loop(f) == [p \in 0..Len(text) |->
                          IF p = 0 THEN 0 ELSE f[p - 1] * text[p].scale + text[p].number]
           joined == CHOOSE f : f = Loop(f)
<1>1. Len(text) \in Nat /\ \A p \in 1..Len(text) : text[p] \in Literal
  BY LenProperties, ElementOfSeq
<1>2. a \in [1..Len(text) -> Nat] /\ c \in [1..Len(text) -> Nat]
  BY <1>1 DEF Literal
<1>3. \A p \in 1..Len(text) : a[p] = text[p].scale /\ c[p] = text[p].number
  OBVIOUS
<1> HIDE DEF a, c
<1>4. PICK f : Loops(f, Len(text), 0, a, c)
  BY <1>1, <1>2, LoopEnds
<1>5. f = Loop(f)
  <2>0. f = [p \in 0..Len(text) |-> IF p = 0 THEN 0 ELSE f[p - 1] * a[p] + c[p]]
    BY <1>1, <1>4, LoopIsFunction
  <2>1. \A p \in 0..Len(text) : p # 0 => p \in 1..Len(text)
    BY <1>1
  <2> QED
    BY <1>3, <2>0, <2>1
<1>6. joined = Loop(joined)
  <2> HIDE DEF Loop
  <2> QED
    BY <1>5
<1> HIDE DEF joined
<1>7. Joined(text) = joined[Len(text)]
  BY Zenon DEF Joined, joined
<1>8. DOMAIN joined = 0..Len(text)
  BY <1>6
<1>9. /\ joined[0] = 0
      /\ \A p \in 1..Len(text) : joined[p] = joined[p - 1] * text[p].scale + text[p].number
  BY <1>1, <1>6
<1> DEFINE Right == {p \in Nat : p <= Len(text) => joined[p] \in Nat}
<1> HIDE DEF Loop
<1>10. 0 \in Right
  BY <1>9
<1>11. ASSUME NEW p \in Nat, p \in Right PROVE p + 1 \in Right
  <2> SUFFICES ASSUME p + 1 <= Len(text) PROVE joined[p + 1] \in Nat
    OBVIOUS
  <2>1. p + 1 \in 1..Len(text) /\ (p + 1) - 1 = p /\ joined[p] \in Nat
    BY <1>1, <1>11
  <2>2. text[p + 1].scale \in Nat /\ text[p + 1].number \in Nat
    BY <1>1, <2>1 DEF Literal
  <2>3. joined[p + 1] = joined[p] * text[p + 1].scale + text[p + 1].number
    BY <1>9, <2>1
  <2>4. \A x, y, z \in Nat : x * y + z \in Nat
    OBVIOUS
  <2> QED
    BY <2>1, <2>2, <2>3, <2>4
<1>12. Nat \subseteq Right
  <2> HIDE DEF Right
  <2> QED
    BY <1>10, <1>11, NumberInduction
<1>13. \A p \in 0..Len(text) : joined[p] \in Nat
  BY <1>1, <1>12
<1>14. joined \in [0..Len(text) -> Nat]
  <2>1. joined = [p \in 0..Len(text) |-> joined[p]]
    BY <1>6 DEF Loop
  <2> QED
    BY <1>13, <2>1
<1> QED
  BY <1>7, <1>9, <1>14

\* A text that is one numeral
LEMMA JoinedOne ==
    ASSUME NEW text \in Seq(Literal), Len(text) = 1
    PROVE  Joined(text) = text[1].number
<1>1. PICK f \in [0..Len(text) -> Nat] :
          /\ f[0] = 0
          /\ \A p \in 1..Len(text) : f[p] = f[p - 1] * text[p].scale + text[p].number
          /\ Joined(text) = f[Len(text)]
  BY JoinedLoop
<1>2. text[1].scale \in Nat /\ text[1].number \in Nat
  <2>1. text[1] \in Literal
    BY ElementOfSeq
  <2> QED
    BY <2>1 DEF Literal
<1>3. f[1] = f[0] * text[1].scale + text[1].number
  BY <1>1
<1>4. \A x \in Nat : 0 * x = 0
  OBVIOUS
<1> QED
  BY <1>1, <1>2, <1>3, <1>4

\* Digits behind a number: more of them and a larger number, or a larger number
\* before them
LEMMA NumeralsGrow ==
    /\ \A x \in Nat, y \in Nat, z \in Nat, v \in Nat, w \in Nat :
          y <= z /\ v < w => x * y + v < x * z + w
    /\ \A x \in Nat, y \in Nat, v \in Nat, z \in Nat \ {0} :
          x < y => x * z + v < y * z + v
<1>1. ASSUME NEW x \in Nat, NEW y \in Nat, NEW d \in Nat
      PROVE  x * y \in Nat /\ x * d \in Nat /\ x * (y + d) = x * y + x * d
  OBVIOUS
<1>2. ASSUME NEW x \in Nat, NEW y \in Nat, NEW z \in Nat, NEW v \in Nat, NEW w \in Nat,
             y <= z, v < w
      PROVE  x * y + v < x * z + w
  <2>1. PICK d \in Nat : z = y + d
    BY <1>2, z - y \in Nat
  <2> QED
    BY <1>1, <1>2, <2>1
<1>3. ASSUME NEW x \in Nat, NEW z \in Nat \ {0}, NEW d \in Nat
      PROVE  /\ x * z \in Nat /\ d * z \in Nat
             /\ (x + d + 1) * z = x * z + d * z + z
  OBVIOUS
<1>4. ASSUME NEW x \in Nat, NEW y \in Nat, NEW v \in Nat, NEW z \in Nat \ {0}, x < y
      PROVE  x * z + v < y * z + v
  <2>1. PICK d \in Nat : y = x + d + 1
    BY <1>4, y - x - 1 \in Nat
  <2> QED
    BY <1>3, <1>4, <2>1
<1> QED
  BY <1>2, <1>4

\* Of two texts that differ in one numeral only, the one whose numeral is larger,
\* and has no fewer digits, is the larger number.
LEMMA JoinedGrows ==
    ASSUME NEW s \in Seq(Literal), NEW t \in Seq(Literal), Len(s) = Len(t),
           NEW q \in 1..Len(s), \A p \in 1..Len(s) : p # q => s[p] = t[p],
           s[q].number < t[q].number, s[q].scale <= t[q].scale
    PROVE  Joined(s) < Joined(t)
<1>1. PICK f \in [0..Len(s) -> Nat] :
          /\ f[0] = 0
          /\ \A p \in 1..Len(s) : f[p] = f[p - 1] * s[p].scale + s[p].number
          /\ Joined(s) = f[Len(s)]
  BY JoinedLoop
<1>2. PICK g \in [0..Len(s) -> Nat] :
          /\ g[0] = 0
          /\ \A p \in 1..Len(s) : g[p] = g[p - 1] * t[p].scale + t[p].number
          /\ Joined(t) = g[Len(s)]
  BY JoinedLoop
<1>3. Len(s) \in Nat
  BY LenProperties
<1>4. \A p \in 1..Len(s) : /\ s[p].number \in Nat /\ s[p].scale \in Nat \ {0}
                           /\ t[p].number \in Nat /\ t[p].scale \in Nat \ {0}
  <2>1. \A p \in 1..Len(s) : s[p] \in Literal /\ t[p] \in Literal
    BY ElementOfSeq
  <2> QED
    BY <2>1 DEF Literal
<1> DEFINE Right == {p \in Nat : p <= Len(s) => IF p < q THEN f[p] = g[p] ELSE f[p] < g[p]}
<1>5. 0 \in Right
  BY <1>1, <1>2
<1>6. ASSUME NEW p \in Nat, p \in Right PROVE p + 1 \in Right
  <2> SUFFICES ASSUME p + 1 <= Len(s)
               PROVE  IF p + 1 < q THEN f[p + 1] = g[p + 1] ELSE f[p + 1] < g[p + 1]
    OBVIOUS
  <2>1. p + 1 \in 1..Len(s) /\ (p + 1) - 1 = p /\ f[p] \in Nat /\ g[p] \in Nat
    <3>1. p + 1 \in 1..Len(s) /\ (p + 1) - 1 = p /\ p \in 0..Len(s)
      BY <1>3
    <3> HIDE DEF Right
    <3> QED
      BY <3>1
  <2>2. /\ f[p + 1] = f[p] * s[p + 1].scale + s[p + 1].number
        /\ g[p + 1] = g[p] * t[p + 1].scale + t[p + 1].number
    BY <1>1, <1>2, <2>1
  <2>3. IF p < q THEN f[p] = g[p] ELSE f[p] < g[p]
    BY <1>6, <1>3
  <2>4. CASE p + 1 < q
    <3>1. s[p + 1] = t[p + 1] /\ f[p] = g[p]
      BY <2>1, <2>3, <2>4
    <3> QED
      BY <2>2, <2>4, <3>1
  <2>5. CASE p + 1 = q
    <3>1. f[p] = g[p]
      BY <2>3, <2>5
    <3>3. f[p] * s[q].scale + s[q].number < f[p] * t[q].scale + t[q].number
      BY <1>4, <2>1, NumeralsGrow
    <3> QED
      BY <2>2, <2>5, <3>1, <3>3
  <2>6. CASE p + 1 > q
    <3>1. s[p + 1] = t[p + 1] /\ f[p] < g[p]
      BY <2>1, <2>3, <2>6
    <3>3. f[p] * t[p + 1].scale + t[p + 1].number < g[p] * t[p + 1].scale + t[p + 1].number
      BY <1>4, <2>1, <3>1, NumeralsGrow
    <3>4. ~(p + 1 < q)
      BY <2>6
    <3> QED
      BY <2>2, <3>1, <3>3, <3>4
  <2> QED
    BY <2>4, <2>5, <2>6
<1>7. Len(s) \in Right
  <2> HIDE DEF Right
  <2> QED
    BY <1>3, <1>5, <1>6, NumberInduction
<1>8. f[Len(s)] < g[Len(s)]
  BY <1>7
<1> QED
  BY <1>1, <1>2, <1>8

\* The steps of a format path, and where its placeholders are
LEMMA PlaceOf ==
    ASSUME NEW path \in Seq(FormatStep)
    PROVE  /\ Len(path) \in Nat /\ DOMAIN path = 1..Len(path)
           /\ \A k \in 1..Len(path) :
                 /\ path[k] = [text |-> path[k].text, hardened |-> path[k].hardened]
                 /\ path[k].text \in Seq(Piece)
                 /\ path[k].hardened \in BOOLEAN
                 /\ Len(path[k].text) \in Nat
                 /\ DOMAIN path[k].text = 1..Len(path[k].text)
           /\ \A k, p : <<k, p>> \in Places(path) <=>
                 /\ k \in 1..Len(path) /\ p \in 1..Len(path[k].text)
                 /\ path[k].text[p] = Placeholder
           /\ \A x \in Places(path) : x = <<x[1], x[2]>>
<1>1. Len(path) \in Nat /\ DOMAIN path = 1..Len(path)
  BY LenProperties
<1>2. ASSUME NEW k \in 1..Len(path)
      PROVE  /\ path[k] = [text |-> path[k].text, hardened |-> path[k].hardened]
             /\ path[k].text \in Seq(Piece)
             /\ path[k].hardened \in BOOLEAN
             /\ Len(path[k].text) \in Nat
             /\ DOMAIN path[k].text = 1..Len(path[k].text)
  <2>1. path[k] \in FormatStep
    BY ElementOfSeq
  <2>2. /\ path[k] = [text |-> path[k].text, hardened |-> path[k].hardened]
        /\ path[k].text \in Seq(Piece)
        /\ path[k].hardened \in BOOLEAN
    BY <2>1 DEF FormatStep
  <2>3. Len(path[k].text) \in Nat /\ DOMAIN path[k].text = 1..Len(path[k].text)
    BY <2>2, LenProperties
  <2> QED
    BY <2>2, <2>3
<1>3. \A x : x \in Places(path) <=>
          \E k \in 1..Len(path) :
              x \in {k} \X {p \in 1..Len(path[k].text) : path[k].text[p] = Placeholder}
  <2>1. Places(path) =
           UNION {{k} \X {p \in DOMAIN path[k].text : path[k].text[p] = Placeholder} :
                     k \in DOMAIN path}
    BY DEF Places
  <2>2. \A x : x \in Places(path) <=>
            \E k \in DOMAIN path :
                x \in {k} \X {p \in DOMAIN path[k].text : path[k].text[p] = Placeholder}
    BY <2>1
  <2> QED
    BY <1>1, <1>2, <2>2
<1>4. \A k, p : <<k, p>> \in Places(path) <=>
          /\ k \in 1..Len(path) /\ p \in 1..Len(path[k].text)
          /\ path[k].text[p] = Placeholder
  BY <1>3
<1>5. \A x \in Places(path) : x = <<x[1], x[2]>>
  BY <1>3
<1> QED
  BY <1>1, <1>2, <1>4, <1>5

LEMMA PlacesFinite ==
    ASSUME NEW path \in Seq(FormatStep)
    PROVE  IsFiniteSet(Places(path))
<1> DEFINE g == [k \in 1..Len(path) |->
                    {k} \X {p \in DOMAIN path[k].text : path[k].text[p] = Placeholder}]
           T == {g[k] : k \in 1..Len(path)}
<1>1. Places(path) = UNION T
  <2>1. DOMAIN path = 1..Len(path)
    BY PlaceOf
  <2>2. T = {{k} \X {p \in DOMAIN path[k].text : path[k].text[p] = Placeholder} :
                k \in DOMAIN path}
    BY <2>1
  <2> QED
    BY <2>2, Zenon DEF Places
<1>2. ASSUME NEW k \in 1..Len(path) PROVE IsFiniteSet(g[k])
  <2> DEFINE some == {p \in DOMAIN path[k].text : path[k].text[p] = Placeholder}
  <2>0. Len(path[k].text) \in Int /\ DOMAIN path[k].text = 1..Len(path[k].text)
    BY PlaceOf
  <2>1. IsFiniteSet(1..Len(path[k].text))
    <3>1. \A n \in Int : IsFiniteSet(1..n)
      BY FS_Interval
    <3> QED
      BY <2>0, <3>1, Zenon
  <2>2. some \in SUBSET (1..Len(path[k].text))
    BY <2>0
  <2>3. IsFiniteSet(some) /\ IsFiniteSet({k})
    <3> HIDE DEF some
    <3> QED
      BY <2>1, <2>2, FS_Subset, FS_Singleton
  <2>4. g[k] = {k} \X some
    OBVIOUS
  <2> HIDE DEF some, g
  <2> QED
    BY <2>3, <2>4, FS_Product
<1>3. IsFiniteSet(T)
  <2>0. Len(path) \in Int
    BY PlaceOf
  <2>1. IsFiniteSet(1..Len(path))
    BY <2>0, FS_Interval
  <2>2. g \in Surjection(1..Len(path), T)
    BY Zenon DEF Surjection
  <2> HIDE DEF g, T
  <2> QED
    BY <2>1, <2>2, FS_Surjection
<1>4. \A t \in T : IsFiniteSet(t)
  <2> HIDE DEF g
  <2> QED
    BY <1>2
<1> HIDE DEF T
<1> QED
  BY <1>1, <1>3, <1>4, FS_UNION

\* The placeholders read up to one of them
ReadTo(path, x) == {y \in Places(path) : NotAfter(y, x)}

\* No two placeholders are read at once.
LEMMA RanksDiffer ==
    ASSUME NEW path \in Seq(FormatStep), NEW x \in Places(path), NEW y \in Places(path),
           x # y, NotAfter(x, y)
    PROVE  Rank(path, x) # Rank(path, y)
<1>1. /\ x = <<x[1], x[2]>> /\ y = <<y[1], y[2]>>
      /\ x[1] \in Int /\ x[2] \in Int /\ y[1] \in Int /\ y[2] \in Int
  BY PlaceOf
<1>2. \A z \in Places(path) : z[1] \in Int /\ z[2] \in Int
  BY PlaceOf
<1>3. ReadTo(path, x) \in SUBSET ReadTo(path, y)
  BY <1>1, <1>2 DEF ReadTo, NotAfter
<1>4. y \in ReadTo(path, y)
  BY <1>1 DEF ReadTo, NotAfter
<1>5. x[1] # y[1] \/ x[2] # y[2]
  BY <1>1
<1>6. y \notin ReadTo(path, x)
  BY <1>1, <1>5 DEF ReadTo, NotAfter
<1>7. IsFiniteSet(ReadTo(path, y))
  BY PlacesFinite, FS_Subset DEF ReadTo
<1>8. Cardinality(ReadTo(path, x)) # Cardinality(ReadTo(path, y))
  BY <1>3, <1>4, <1>6, <1>7, FS_Subset
<1> QED
  BY <1>8 DEF Rank, ReadTo

\* The placeholders are numbered from one on as they are read.
LEMMA RankOnto ==
    ASSUME NEW path \in Seq(FormatStep)
    PROVE  /\ Cardinality(Places(path)) \in Nat
           /\ \A x \in Places(path) : Rank(path, x) \in 1..Cardinality(Places(path))
           /\ \A m \in 1..Cardinality(Places(path)) : \E x \in Places(path) : Rank(path, x) = m
<1> DEFINE n == Cardinality(Places(path))
<1>1. IsFiniteSet(Places(path)) /\ n \in Nat
  BY PlacesFinite, FS_CardinalityType
<1>2. ASSUME NEW x \in Places(path) PROVE Rank(path, x) \in 1..n
  <2>1. ReadTo(path, x) \in SUBSET Places(path)
    BY DEF ReadTo
  <2>2. x[1] \in Int /\ x[2] \in Int
    BY PlaceOf
  <2>3. x \in ReadTo(path, x)
    BY <2>2 DEF ReadTo, NotAfter
  <2>4. IsFiniteSet(ReadTo(path, x)) /\ Cardinality(ReadTo(path, x)) <= n
    BY <1>1, <2>1, FS_Subset
  <2>5. Cardinality(ReadTo(path, x)) \in Nat
    BY <2>4, FS_CardinalityType
  <2>6. Cardinality(ReadTo(path, x)) # 0
    BY <2>3, <2>4, FS_EmptySet
  <2>7. Rank(path, x) = Cardinality(ReadTo(path, x))
    BY DEF Rank, ReadTo
  <2> HIDE DEF n
  <2> QED
    BY <1>1, <2>4, <2>5, <2>6, <2>7
<1>3. ASSUME NEW x \in Places(path), NEW y \in Places(path), x # y
      PROVE  Rank(path, x) # Rank(path, y)
  <2>1. x[1] \in Int /\ x[2] \in Int /\ y[1] \in Int /\ y[2] \in Int
    BY PlaceOf
  <2>2. NotAfter(x, y) \/ NotAfter(y, x)
    BY <2>1 DEF NotAfter
  <2> QED
    BY <1>3, <2>2, RanksDiffer
<1>4. ASSUME NEW m \in 1..n, \A x \in Places(path) : Rank(path, x) # m
      PROVE  FALSE
  <2> DEFINE f == [x \in Places(path) |-> Rank(path, x)]
             T == (1..n) \ {m}
  <2>1. f \in [Places(path) -> T]
    BY <1>2, <1>4
  <2>2. IsFiniteSet(1..n) /\ Cardinality(1..n) = n
    BY <1>1, FS_Interval
  <2>3. IsFiniteSet(T) /\ Cardinality(T) = n - 1
    BY <2>2, FS_RemoveElement
  <2>4. Cardinality(T) < Cardinality(Places(path))
    BY <1>1, <2>3
  <2>5. \A x \in Places(path) : f[x] = Rank(path, x)
    OBVIOUS
  <2> HIDE DEF f, T
  <2>6. \E x, y \in Places(path) : x # y /\ f[x] = f[y]
    BY <1>1, <2>1, <2>3, <2>4, FS_PigeonHole
  <2> QED
    BY <1>3, <2>5, <2>6
<1> QED
  BY <1>1, <1>2, <1>4

-----------------------------------------------------------------------------
(* The path that is derived *)

\* What replace() makes of a step
LEMMA Replaced ==
    ASSUME NEW path \in Seq(FormatStep), NEW args \in Seq(Int), owArgs(args), Fits(path, args),
           NEW k \in 1..Len(path)
    PROVE  /\ DOMAIN replace(path, args) = 1..Len(path)
           /\ replace(path, args)[k].hardened = path[k].hardened
           /\ replace(path, args)[k].text \in Seq(Literal \cup {Letters})
           /\ Len(replace(path, args)[k].text) = Len(path[k].text)
           /\ \A p \in 1..Len(path[k].text) :
                 /\ path[k].text[p] # Placeholder =>
                       replace(path, args)[k].text[p] = path[k].text[p]
                 /\ path[k].text[p] = Placeholder =>
                       /\ args[Rank(path, <<k, p>>)] \in 0..2 * Hardened - 1
                       /\ replace(path, args)[k].text[p] = Numeral(args[Rank(path, <<k, p>>)])
<1> DEFINE old == path[k].text
           new == [p \in DOMAIN old |-> IF old[p] = Placeholder
                                        THEN Numeral(args[Rank(path, <<k, p>>)]) ELSE old[p]]
<1>1. /\ DOMAIN path = 1..Len(path)
      /\ path[k] = [text |-> old, hardened |-> path[k].hardened]
      /\ old \in Seq(Piece) /\ Len(old) \in Nat /\ DOMAIN old = 1..Len(old)
  BY PlaceOf
<1>2. DOMAIN replace(path, args) = 1..Len(path)
  BY <1>1 DEF replace
<1>3. replace(path, args)[k] = [path[k] EXCEPT !.text = new]
  BY <1>1 DEF replace
<1>4. replace(path, args)[k].text = new /\ replace(path, args)[k].hardened = path[k].hardened
  <2> HIDE DEF new, old
  <2> QED
    BY <1>1, <1>3
<1>5. \A p \in 1..Len(old) : old[p] = Placeholder => args[Rank(path, <<k, p>>)] \in 0..2 * Hardened - 1
  <2> SUFFICES ASSUME NEW p \in 1..Len(old), old[p] = Placeholder
               PROVE  args[Rank(path, <<k, p>>)] \in 0..2 * Hardened - 1
    OBVIOUS
  <2>1. <<k, p>> \in Places(path)
    BY PlaceOf
  <2>2. Rank(path, <<k, p>>) \in 1..Len(args)
    BY <2>1, RankOnto DEF Fits
  <2>3. DOMAIN args = 1..Len(args)
    BY LenProperties
  <2> QED
    BY <2>2, <2>3 DEF owArgs
<1>6. \A p \in 1..Len(old) : new[p] \in Literal \cup {Letters}
  <2> SUFFICES ASSUME NEW p \in 1..Len(old) PROVE new[p] \in Literal \cup {Letters}
    OBVIOUS
  <2>1. old[p] \in Piece
    BY <1>1, ElementOfSeq
  <2>2. CASE old[p] = Placeholder
    BY <1>1, <1>5, <2>2, NumeralType
  <2>3. CASE old[p] # Placeholder
    BY <1>1, <2>1, <2>3 DEF Piece
  <2> QED
    BY <2>2, <2>3
<1>7. \A p \in 1..Len(old) :
          /\ old[p] # Placeholder => new[p] = old[p]
          /\ old[p] = Placeholder => new[p] = Numeral(args[Rank(path, <<k, p>>)])
  BY <1>1
<1>8. DOMAIN new = 1..Len(old)
  BY <1>1
<1>9. new \in Seq(Literal \cup {Letters}) /\ Len(new) = Len(old)
  <2>1. new = [p \in 1..Len(old) |-> new[p]]
    BY <1>1
  <2> HIDE DEF new
  <2>2. new \in [1..Len(old) -> Literal \cup {Letters}]
    BY <1>6, <2>1
  <2> HIDE DEF old
  <2> QED
    BY <1>1, <2>2
<1> QED
  BY <1>2, <1>4, <1>5, <1>7, <1>9

\* A text without letters is one of numerals.
LEMMA DigitsOnly ==
    ASSUME NEW text \in Seq(Literal \cup {Letters}), \A p \in DOMAIN text : text[p] # Letters
    PROVE  text \in Seq(Literal) /\ Joined(text) \in Nat
<1>1. Len(text) \in Nat /\ DOMAIN text = 1..Len(text)
  BY LenProperties
<1>2. \A p \in 1..Len(text) : text[p] \in Literal
  <2>1. \A p \in 1..Len(text) : text[p] \in Literal \cup {Letters}
    BY ElementOfSeq
  <2> QED
    BY <1>1, <2>1
<1>3. text \in [1..Len(text) -> Literal]
  <2>1. text \in [1..Len(text) -> Literal \cup {Letters}]
    BY LenProperties
  <2> QED
    BY <1>2, <2>1
<1>4. text \in Seq(Literal)
  BY <1>1, <1>3
<1>5. Joined(text) \in Nat
  BY <1>1, <1>4, JoinedLoop
<1> QED
  BY <1>4, <1>5

\* What is derived from a path that is not rejected
LEMMA Derived ==
    ASSUME NEW path, derive(path) # Rejected
    PROVE  \A k \in DOMAIN path :
              /\ IsIndex(path[k])
              /\ derive(path)[k] = IF path[k].hardened THEN Joined(path[k].text) + Hardened
                                   ELSE Joined(path[k].text)
<1>1. /\ path # <<>> /\ \A k \in DOMAIN path : IsIndex(path[k])
      /\ derive(path) = [k \in DOMAIN path |-> IF path[k].hardened
                            THEN Joined(path[k].text) + Hardened ELSE Joined(path[k].text)]
  BY Zenon DEF derive
<1> QED
  BY <1>1, Zenon

\* With at most one placeholder in a step, a smaller argument gives another key.
LEMMA SmallerArgument ==
    ASSUME NEW path \in Seq(FormatStep), AtMostOneEach(path),
           NEW args \in Seq(Int), owArgs(args), Fits(path, args),
           NEW others \in Seq(Int), owArgs(others), Fits(path, others),
           derive(replace(path, args)) # Rejected, derive(replace(path, others)) # Rejected,
           NEW m \in 1..Len(args), args[m] < others[m]
    PROVE  derive(replace(path, args)) # derive(replace(path, others))
<1>1. PICK x \in Places(path) : Rank(path, x) = m
  BY RankOnto DEF Fits
<1> DEFINE k == x[1]
           q == x[2]
           s == replace(path, args)[k].text
           t == replace(path, others)[k].text
<1>2. x = <<k, q>> /\ k \in 1..Len(path) /\ q \in 1..Len(path[k].text) /\ path[k].text[q] = Placeholder
  <2> HIDE DEF s, t
  <2>1. x = <<k, q>>
    BY PlaceOf
  <2> HIDE DEF k, q
  <2>2. <<k, q>> \in Places(path)
    BY <2>1
  <2> QED
    BY <2>1, <2>2, PlaceOf
<1>3. \A p \in 1..Len(path[k].text) : p # q => path[k].text[p] # Placeholder
  <2> SUFFICES ASSUME NEW p \in 1..Len(path[k].text), path[k].text[p] = Placeholder PROVE p = q
    OBVIOUS
  <2>1. <<k, p>> \in Places(path)
    BY <1>2, PlaceOf
  <2>2. <<k, p>> = x
    BY <2>1 DEF AtMostOneEach
  <2> QED
    BY <2>2
<1> HIDE DEF k, q
<1>4. /\ s \in Seq(Literal \cup {Letters}) /\ t \in Seq(Literal \cup {Letters})
      /\ Len(s) = Len(path[k].text) /\ Len(t) = Len(path[k].text)
      /\ \A p \in 1..Len(path[k].text) : p # q => s[p] = t[p]
      /\ s[q] = Numeral(args[m]) /\ t[q] = Numeral(others[m])
      /\ args[m] \in 0..2 * Hardened - 1 /\ others[m] \in 0..2 * Hardened - 1
  <2>1. Rank(path, <<k, q>>) = m
    BY <1>1, <1>2
  <2>2. /\ s \in Seq(Literal \cup {Letters}) /\ Len(s) = Len(path[k].text)
        /\ \A p \in 1..Len(path[k].text) : p # q => s[p] = path[k].text[p]
        /\ s[q] = Numeral(args[m]) /\ args[m] \in 0..2 * Hardened - 1
    BY <1>2, <1>3, <2>1, Replaced
  <2>3. /\ t \in Seq(Literal \cup {Letters}) /\ Len(t) = Len(path[k].text)
        /\ \A p \in 1..Len(path[k].text) : p # q => t[p] = path[k].text[p]
        /\ t[q] = Numeral(others[m]) /\ others[m] \in 0..2 * Hardened - 1
    BY <1>2, <1>3, <2>1, Replaced
  <2> HIDE DEF s, t
  <2> QED
    BY <2>2, <2>3
<1>5. /\ k \in DOMAIN replace(path, args) /\ k \in DOMAIN replace(path, others)
      /\ replace(path, args)[k].hardened = path[k].hardened
      /\ replace(path, others)[k].hardened = path[k].hardened
  BY <1>2, Replaced
<1>6. /\ IsIndex(replace(path, args)[k]) /\ IsIndex(replace(path, others)[k])
      /\ derive(replace(path, args))[k]
            = IF path[k].hardened THEN Joined(s) + Hardened ELSE Joined(s)
      /\ derive(replace(path, others))[k]
            = IF path[k].hardened THEN Joined(t) + Hardened ELSE Joined(t)
  BY <1>5, Derived
<1> HIDE DEF s, t
<1>7. /\ s \in Seq(Literal) /\ t \in Seq(Literal)
      /\ Joined(s) \in Nat /\ Joined(t) \in Nat
  BY <1>4, <1>6, DigitsOnly DEF IsIndex, s, t
<1>8. s[q].number < t[q].number /\ s[q].scale <= t[q].scale
  <2>1. args[m] <= others[m]
    BY <1>4, PathAssumption
  <2> QED
    BY <1>4, <2>1, NumeralType, ScaleGrows
<1>9. Joined(s) < Joined(t)
  BY <1>2, <1>4, <1>7, <1>8, JoinedGrows
<1>10. Hardened \in Nat
  BY PathAssumption
<1> QED
  BY <1>6, <1>7, <1>9, <1>10

\* Different arguments give different keys then.
LEMMA KeyIsInjective ==
    ASSUME NEW path \in Seq(FormatStep), AtMostOneEach(path),
           NEW args \in Seq(Int), NEW others \in Seq(Int),
           derivef(path, args) # Rejected, derivef(path, others) = derivef(path, args)
    PROVE  others = args
<1>1. /\ owArgs(args) /\ Fits(path, args) /\ derivef(path, args) = derive(replace(path, args))
      /\ owArgs(others) /\ Fits(path, others) /\ derivef(path, others) = derive(replace(path, others))
  BY Zenon DEF derivef
<1>2. Len(args) = Len(others) /\ Len(args) \in Nat
  BY <1>1, LenProperties DEF Fits
<1>3. ASSUME NEW m \in 1..Len(args) PROVE others[m] = args[m]
  <2>1. args[m] \in Int /\ others[m] \in Int
    BY <1>2, ElementOfSeq
  <2>2. ~(args[m] < others[m])
    BY <1>1, SmallerArgument
  <2>3. ~(others[m] < args[m])
    BY <1>1, <1>2, SmallerArgument
  <2> QED
    BY <2>1, <2>2, <2>3
<1> QED
  BY <1>2, <1>3, SeqEqual

\* A plain path takes every index that is not hardened yet.
LEMMA PlainGivesKey ==
    ASSUME NEW path \in Seq(FormatStep), IsPlain(path), NEW args \in Seq(Int), Fits(path, args),
           \A m \in DOMAIN args : args[m] \in 0..Hardened - 1
    PROVE  derivef(path, args) # Rejected
<1> DEFINE full == replace(path, args)
<1>1. owArgs(args)
  BY PathAssumption DEF owArgs
<1>2. DOMAIN path = 1..Len(path) /\ Len(path) \in Nat \ {0}
  BY LenProperties, EmptySeq DEF IsPlain
<1>3. DOMAIN full = 1..Len(path)
  BY <1>2, PlaceOf DEF replace
<1>4. full # <<>>
  <2>1. 1 \in DOMAIN full
    BY <1>2, <1>3
  <2> HIDE DEF full
  <2> QED
    BY <2>1
<1>5. ASSUME NEW k \in 1..Len(path)
      PROVE  IsIndex(full[k]) /\ Joined(full[k].text) \in Nat
  <2> DEFINE text == full[k].text
  <2>0. Len(path[k].text) = 1 /\ 1 \in 1..Len(path[k].text)
    BY <1>2 DEF IsPlain
  <2>1. /\ text \in Seq(Literal \cup {Letters}) /\ Len(text) = 1
        /\ path[k].text[1] # Placeholder => text[1] = path[k].text[1]
        /\ path[k].text[1] = Placeholder =>
              text[1] = Numeral(args[Rank(path, <<k, 1>>)])
    BY <1>1, <2>0, Replaced
  <2>2. text[1] \in Literal /\ text[1].number < Hardened
    <3>1. CASE path[k].text[1] = Placeholder
      <4>1. <<k, 1>> \in Places(path)
        BY <2>0, <3>1, PlaceOf
      <4>2. Rank(path, <<k, 1>>) \in 1..Len(args)
        BY <4>1, RankOnto DEF Fits
      <4>3. args[Rank(path, <<k, 1>>)] \in 0..Hardened - 1
        BY <4>2, LenProperties
      <4>4. args[Rank(path, <<k, 1>>)] \in 0..2 * Hardened - 1
        BY <4>3, PathAssumption
      <4> QED
        <5> DEFINE n == args[Rank(path, <<k, 1>>)]
        <5>1. text[1] = Numeral(n) /\ n \in 0..Hardened - 1 /\ n \in 0..2 * Hardened - 1
          BY <2>1, <3>1, <4>3, <4>4
        <5> HIDE DEF text, n
        <5>2. text[1] \in Literal /\ text[1].number = n
          BY <5>1, NumeralType
        <5> QED
          BY <5>1, <5>2, PathAssumption
    <3>2. CASE path[k].text[1] # Placeholder
      BY <1>2, <2>1, <3>2 DEF IsPlain
    <3> QED
      BY <3>1, <3>2
  <2> HIDE DEF text
  <2>3. DOMAIN text = {1}
    BY <2>1, LenProperties
  <2>4. \A p \in DOMAIN text : text[p] # Letters
    BY <2>2, <2>3, PathAssumption
  <2>5. text \in Seq(Literal) /\ Joined(text) \in Nat
    BY <2>1, <2>4, DigitsOnly
  <2>6. Joined(text) = text[1].number
    BY <2>1, <2>5, JoinedOne
  <2>7. Joined(text) < IF full[k].hardened THEN Hardened ELSE 2 * Hardened
    BY <2>2, <2>5, <2>6, PathAssumption
  <2>8. text # <<>>
    <3>1. Len(<<>>) = 0 /\ 0 # 1
      BY EmptySeq
    <3> QED
      BY <2>1, <3>1, Zenon
  <2> QED
    BY <2>4, <2>5, <2>7, <2>8, Zenon DEF IsIndex, text
<1>6. derive(full) = [k \in DOMAIN full |-> IF full[k].hardened
                         THEN Joined(full[k].text) + Hardened ELSE Joined(full[k].text)]
  BY <1>3, <1>4, <1>5, Zenon DEF derive
<1> HIDE DEF full
<1>7. \A k \in DOMAIN full : (IF full[k].hardened THEN Joined(full[k].text) + Hardened
                              ELSE Joined(full[k].text)) \in Int
  BY <1>3, <1>5, PathAssumption
<1>8. derive(full) \in [1..Len(path) -> Int]
  BY <1>3, <1>6, <1>7
<1>9. derive(full) \in Seq(Int)
  BY <1>2, <1>8
<1>10. derivef(path, args) = derive(full)
  BY <1>1, Zenon DEF derivef, full
<1> QED
  BY <1>9, <1>10, PathAssumption

-----------------------------------------------------------------------------
(* The calls *)

\* The last call converted an amount, and kept it,
AmountCall ==
    \E given \in Int, givenUnit \in Unit, value \in Int \cup {Thrown}, unit \in Unit :
        /\ last = Amount(given, givenUnit, value, unit)
        /\ Kept(given, givenUnit, value, unit)

\* derived a key,
DerivefCall ==
    \E path \in FormatPath, args \in Arguments :
        last = [call |-> "derivef", path |-> path, args |-> args, key |-> derivef(path, args)]

\* or counted leaves.
LeavesCall ==
    \E total \in 1..MaxSigners : \E required \in 1..total :
        last = [call |-> "leaves", total |-> total, required |-> required,
                leaves |-> transfer_address_leaves(total, required)]

\* The inductive invariant
CallsInv == last # NoCall => AmountCall \/ DerivefCall \/ LeavesCall

\* A call tells its kind.
LEMMA CallKinds ==
    /\ AmountCall => last.call = "amount"
    /\ DerivefCall => last.call = "derivef"
    /\ LeavesCall => last.call = "leaves"
BY DEF AmountCall, DerivefCall, LeavesCall, Amount

\* An amount that was not converted yet is kept.
LEMMA GivenIsKept ==
    ASSUME NEW v \in Int, NEW u \in Unit
    PROVE  Kept(v, u, v, u)
<1>1. Parts(v, u) \in Int
  BY PartsType
<1>2. Near(Parts(v, u), Parts(v, u))
  BY <1>1, AmountsAssumption DEF Near
<1>3. v # Thrown
  BY AmountsAssumption
<1> QED
  BY <1>2, <1>3 DEF Kept

\* Nothing is called at first.
LEMMA CallsInit == Init => CallsInv
BY DEF Init, CallsInv

\* Every call gives what its function gives, and keeps the amount if it is one.
LEMMA CallsNext == CallsInv /\ [Next]_last => CallsInv'
<1> SUFFICES ASSUME CallsInv, [Next]_last PROVE CallsInv'
  OBVIOUS
<1>1. ASSUME Start PROVE AmountCall'
  <2>1. PICK v \in GivenAmount, u \in Unit : last' = Amount(v, u, v, u)
    BY <1>1 DEF Start
  <2>2. v \in Int
    BY ConversionsAssumption
  <2>3. Kept(v, u, v, u)
    BY <2>2, GivenIsKept
  <2> QED
    BY <2>1, <2>2, <2>3 DEF AmountCall
<1>2. ASSUME last # NoCall, last.call = "amount", last.value # Thrown
      PROVE  \E given \in Int, givenUnit \in Unit, value \in Int, unit \in Unit :
                /\ last = Amount(given, givenUnit, value, unit)
                /\ Kept(given, givenUnit, value, unit)
                /\ value # Thrown
  <2>1. AmountCall
    BY <1>2, CallKinds DEF CallsInv
  <2> QED
    BY <1>2, <2>1 DEF AmountCall, Amount
<1>3. ASSUME ToCRO PROVE AmountCall'
  <2>1. PICK given \in Int, givenUnit \in Unit, value \in Int, unit \in Unit :
            /\ last = Amount(given, givenUnit, value, unit)
            /\ Kept(given, givenUnit, value, unit)
            /\ value # Thrown
    BY <1>2, <1>3 DEF ToCRO
  <2>2. last.value = value /\ last.unit = unit
    BY <2>1 DEF Amount
  <2>3. last' = [last EXCEPT !.value = toCRO(value, unit), !.unit = "CRO"]
    BY <1>3, <2>2, Zenon DEF ToCRO
  <2>4. last' = Amount(given, givenUnit, toCRO(value, unit), "CRO")
    BY <2>1, <2>3 DEF Amount
  <2>5. /\ toCRO(value, unit) \in Int \cup {Thrown}
        /\ Kept(given, givenUnit, toCRO(value, unit), "CRO")
    BY <2>1, ToCROKeeps
  <2> QED
    BY <2>4, <2>5 DEF AmountCall, Unit
<1>4. ASSUME FromCRO PROVE AmountCall'
  <2>1. PICK given \in Int, givenUnit \in Unit, value \in Int, unit \in Unit :
            /\ last = Amount(given, givenUnit, value, unit)
            /\ Kept(given, givenUnit, value, unit)
            /\ value # Thrown
    BY <1>2, <1>4 DEF FromCRO
  <2>2. last.value = value /\ last.unit = unit /\ unit = "CRO"
    BY <1>4, <2>1 DEF Amount, FromCRO
  <2>3. PICK u \in Unit : last' = [last EXCEPT !.value = fromCRO(value, u), !.unit = u]
    BY <1>4, <2>2, Zenon DEF FromCRO
  <2>4. last' = Amount(given, givenUnit, fromCRO(value, u), u)
    BY <2>1, <2>3 DEF Amount
  <2>5. /\ fromCRO(value, u) \in Int \cup {Thrown}
        /\ Kept(given, givenUnit, fromCRO(value, u), u)
    BY <2>1, <2>2, FromCROKeeps
  <2> QED
    BY <2>4, <2>5 DEF AmountCall
<1>5. ASSUME Derivef PROVE DerivefCall'
  BY <1>5 DEF Derivef, DerivefCall
<1>6. ASSUME Leaves PROVE LeavesCall'
  <2>0. PICK total \in 1..MaxSigners : \E required \in 1..total :
            last' = [call |-> "leaves", total |-> total, required |-> required,
                     leaves |-> transfer_address_leaves(total, required)]
    BY <1>6 DEF Leaves
  <2>1. PICK required \in 1..total :
            last' = [call |-> "leaves", total |-> total, required |-> required,
                     leaves |-> transfer_address_leaves(total, required)]
    BY <2>0
  <2> QED
    BY <2>1 DEF LeavesCall
<1>7. CASE UNCHANGED last
  BY <1>7 DEF CallsInv, AmountCall, DerivefCall, LeavesCall
<1> QED
  BY <1>1, <1>3, <1>4, <1>5, <1>6, <1>7 DEF Next, CallsInv

\* Type correctness of a caller, and the last result is right: every step gives
\* what its function gives, and an amount is kept however often it is converted.
THEOREM CallsAreRight == Spec => []CallsInv
BY CallsInit, CallsNext, PTL DEF Spec

\* toCRO() and fromCRO() (lib/src/utils): an amount stays the same number of basic
\* units however often, and in whatever order, it is converted.
THEOREM AmountKept == Spec => []AmountIsKept
<1>1. CallsInv => AmountIsKept
  <2> SUFFICES ASSUME CallsInv, last # NoCall, last.call = "amount", last.value # Thrown
               PROVE  LET given == Parts(last.given, last.givenUnit)
                          now == Parts(last.value, last.unit)
                      IN  /\ (now # given \/ last.unit # last.givenUnit) =>
                                now % One = 0 /\ now >= 0 /\ now <= MAX_CRO * CRO_DECIMAL * One
                          /\ given % One = 0 => now = given
                          /\ 2 * (now - given) \in -(Quantum * CRO_DECIMAL)..Quantum * CRO_DECIMAL
    BY DEF AmountIsKept, Called
  <2>1. AmountCall
    BY CallKinds DEF CallsInv
  <2>2. Kept(last.given, last.givenUnit, last.value, last.unit)
    BY <2>1 DEF AmountCall, Amount
  <2> QED
    BY <2>2, Zenon DEF Kept, Owned, Near
<1> QED
  BY <1>1, CallsAreRight, PTL

\* verifyCRO() (lib/src/utils) refuses no amount that somebody can own.
THEOREM GoodAmountTaken == Spec => []GoodAmountIsTaken
<1>1. CallsInv => GoodAmountIsTaken
  <2> SUFFICES ASSUME CallsInv, last # NoCall, last.call = "amount", last.value = Thrown
               PROVE  ~Owned(Parts(last.given, last.givenUnit))
    BY Zenon DEF GoodAmountIsTaken, Called, Owned
  <2>1. AmountCall
    BY CallKinds DEF CallsInv
  <2>2. Kept(last.given, last.givenUnit, last.value, last.unit)
    BY <2>1 DEF AmountCall, Amount
  <2> QED
    BY <2>2, Zenon DEF Kept
<1> QED
  BY <1>1, CallsAreRight, PTL

\* HDWallet.derivef() (lib/src/hd_wallet): for every format path with at most one
\* placeholder in a step, different arguments give different keys, whatever digits
\* stand beside the placeholders; and a path of plain steps takes every fitting
\* list of indices that are not hardened yet.
THEOREM KeysDistinct == Spec => []KeysAreDistinct
<1>1. CallsInv => KeysAreDistinct
  <2> SUFFICES ASSUME CallsInv, last # NoCall, last.call = "derivef"
               PROVE  KeysAreDistinct
    BY Zenon DEF KeysAreDistinct, Called
  <2>1. DerivefCall
    BY CallKinds DEF CallsInv
  <2>2. /\ last.path \in FormatPath /\ last.args \in Arguments
        /\ last.key = derivef(last.path, last.args)
    BY <2>1 DEF DerivefCall
  <2>3. last.path \in Seq(FormatStep) /\ last.args \in Seq(Int)
    BY <2>2, ConversionsAssumption DEF FormatStep, Piece
  <2>4. last.key # Rejected => Len(last.args) = Cardinality(Places(last.path))
    BY <2>2, Zenon DEF derivef, Fits
  <2>5. ASSUME last.key # Rejected, AtMostOneEach(last.path),
               NEW others \in Arguments, derivef(last.path, others) = last.key
        PROVE  others = last.args
    BY <2>2, <2>3, <2>5, KeyIsInjective, ConversionsAssumption
  <2>6. /\ IsPlain(last.path) /\ Fits(last.path, last.args)
        /\ \A m \in DOMAIN last.args : last.args[m] \in 0..Hardened - 1
        => last.key # Rejected
    BY <2>2, <2>3, PlainGivesKey
  <2> QED
    BY <2>4, <2>5, <2>6, Zenon DEF KeysAreDistinct
<1> QED
  BY <1>1, CallsAreRight, PTL

\* transfer_address_leaves (native/src/transfer_transaction) counts the choices
\* of the required signers: no division of its loop leaves a remainder.
THEOREM LeavesRight == Spec => []LeavesAreChoices
<1>1. CallsInv => LeavesAreChoices
  <2> SUFFICES ASSUME CallsInv, last # NoCall, last.call = "leaves",
                      \A d \in 0..last.required : Cardinality(Choices(last.total, d)) < FactorRange
               PROVE  last.leaves = Cardinality(Choices(last.total, last.required)) % LeavesRange
    BY Zenon DEF LeavesAreChoices, Called
  <2>1. LeavesCall
    BY CallKinds DEF CallsInv
  <2>2. /\ last.total \in Nat /\ last.required \in 0..last.total
        /\ last.leaves = transfer_address_leaves(last.total, last.required)
    BY <2>1, ConversionsAssumption DEF LeavesCall
  <2> QED
    BY <2>2, LeavesCounted DEF Count
<1> QED
  BY <1>1, CallsAreRight, PTL

\* The same without the hypothesis on the loop: the count is right for every
\* address of up to 64 signers, 2^64 being FactorRange.
THEOREM LeavesExact ==
    ASSUME 2^MaxSigners <= FactorRange
    PROVE  Spec => [](Called("leaves") =>
               last.leaves = Cardinality(Choices(last.total, last.required)) % LeavesRange)
<1>1. CallsInv => (Called("leaves") =>
               last.leaves = Cardinality(Choices(last.total, last.required)) % LeavesRange)
  <2> SUFFICES ASSUME CallsInv, last # NoCall, last.call = "leaves"
               PROVE  last.leaves = Cardinality(Choices(last.total, last.required)) % LeavesRange
    BY DEF Called
  <2>1. LeavesCall
    BY CallKinds DEF CallsInv
  <2>2. /\ last.total \in 1..MaxSigners /\ last.required \in 1..last.total
        /\ last.leaves = transfer_address_leaves(last.total, last.required)
    BY <2>1 DEF LeavesCall
  <2>3. MaxSigners \in Nat \ {0} /\ last.total \in 0..MaxSigners
    BY <2>2, ConversionsAssumption
  <2>4. \A d : Count(last.total, d) < FactorRange
    <3>1. \A d : Count(last.total, d) < 2^MaxSigners /\ Count(last.total, d) \in Nat
      BY <2>3, ChoicesFewer, ChoicesFinite
    <3>2. 2^MaxSigners \in Int /\ FactorRange \in Int
      BY <2>3, RangeAssumption
    <3> QED
      BY <3>1, <3>2
  <2> QED
    BY <2>2, <2>3, <2>4, LeavesCounted DEF Count
<1> QED
  BY <1>1, CallsAreRight, PTL
=============================================================================
