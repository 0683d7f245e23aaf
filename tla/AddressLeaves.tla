--------------------------- MODULE AddressLeaves ---------------------------
(***************************************************************************)
(* transfer_address_leaves (native/src/transfer_transaction): how many     *)
(* leaves the tree of a multi-sig address has, a binomial coefficient that *)
(* is computed factor by factor, and no division leaves a remainder unless *)
(* a product before it did not fit.                                        *)
(***************************************************************************)
EXTENDS Integers

CONSTANTS
    FactorRange,    \* 2^64: the loop computes with u64, which wrap in a release
    LeavesRange     \* 2^16: the result is a u16

ASSUME RangeAssumption == FactorRange \in Nat \ {0} /\ LeavesRange \in Nat \ {0}

Divisors(a, b) == {k \in 1..b : a % k = 0 /\ b % k = 0}

Gcd(a, b) == CHOOSE k \in Divisors(a, b) : \A j \in Divisors(a, b) : j <= k

\* Mutant: divided in the other order
FactorTruncated(result, n, d) == result * (n \div d)

\* One round of the loop: result * n / d without a fraction in between
Factor(result, n, d) ==
    LET g == Gcd(result, d) IN ((result \div g) * (n \div (d \div g))) % FactorRange

\* For required <= total, as the validator has it: n would pass zero else
transfer_address_leaves(total, required) ==
    LET result[d \in 0..required] ==
          IF d = 0 THEN 1 ELSE Factor(result[d - 1], total - (d - 1), d)
    IN  result[required] % LeavesRange
=============================================================================
