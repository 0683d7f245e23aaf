--------------------------- MODULE DerivationPath ---------------------------
(***************************************************************************)
(* HDWallet.derivef() (lib/src/hd_wallet): the placeholders of a format    *)
(* path are replaced by the arguments, in the order they are read, and the *)
(* path is derived.                                                        *)
(*                                                                         *)
(* A path is a sequence of steps, the parts between the slashes after m/,  *)
(* each marked as hardened with an apostrophe or not.  The text of a step  *)
(* is a sequence of numerals, placeholders and other text: a placeholder   *)
(* need not be a step of its own, and what it is replaced by is joined to  *)
(* the digits next to it.  A numeral is a number with the power of ten     *)
(* that its digits shift the number before them by.                        *)
(*                                                                         *)
(* The derivation itself is the bip32 library: what matters of it are the  *)
(* paths it takes, and that an index from Hardened on without the mark     *)
(* means the marked one and fails with it.                                 *)
(***************************************************************************)
EXTENDS Integers, Sequences, FiniteSets

CONSTANTS
    Placeholder,    \* {name} in a format path
    Letters,        \* text that is no decimal number
    Hardened,       \* 2^31
    MaxDigits,      \* the digits of the largest unsigned integer of 32 bits
    Rejected        \* an Error thrown

\* The numerals of a format path may have leading zeros
Literal == [number : Nat, scale : Nat \ {0}]

PowerOfTen[k \in 0..MaxDigits] == IF k = 0 THEN 1 ELSE PowerOfTen[k - 1] * 10

ASSUME PathAssumption ==
    /\ Hardened \in Nat /\ MaxDigits \in Nat \ {0}
    /\ 2 * Hardened <= PowerOfTen[MaxDigits]
    /\ Placeholder \notin Literal /\ Letters \notin Literal /\ Placeholder # Letters
    /\ Rejected \notin Seq(Int)    \* the child numbers of a path

\* ow.number.uint32
owArgs(args) == \A m \in DOMAIN args : args[m] \in 0..2 * Hardened - 1

\* The powers of ten that leave room for the digits of n
Scales(n) == {PowerOfTen[k] : k \in {k \in 1..MaxDigits : n < PowerOfTen[k]}}

\* toString() of an argument
Numeral(n) ==
    [number |-> n, scale |-> CHOOSE s \in Scales(n) : \A t \in Scales(n) : s <= t]

\* Where the placeholders are: the step, and the piece of its text
Places(path) ==
    UNION {{k} \X {p \in DOMAIN path[k].text : path[k].text[p] = Placeholder} :
              k \in DOMAIN path}

\* x is not after y in the path
NotAfter(x, y) == x[1] < y[1] \/ (x[1] = y[1] /\ x[2] <= y[2])

\* How many placeholders have been read with the one at x
Rank(path, x) == Cardinality({y \in Places(path) : NotAfter(y, x)})

Fits(path, args) == Len(args) = Cardinality(Places(path))

\* Mutant: the arguments are not taken off the list
replaceFirst(formatPath, args) ==
    [k \in DOMAIN formatPath |->
        [formatPath[k] EXCEPT !.text =
            [p \in DOMAIN @ |-> IF @[p] = Placeholder THEN Numeral(args[1]) ELSE @[p]]]]

\* formatPath.replace(/{\w*}/g, ...), for arguments that fit the path
replace(formatPath, args) ==
    [k \in DOMAIN formatPath |->
        [formatPath[k] EXCEPT !.text =
            [p \in DOMAIN @ |-> IF @[p] = Placeholder
                                THEN Numeral(args[Rank(formatPath, <<k, p>>)]) ELSE @[p]]]]

\* The number that numerals are when they are written one after the other
Joined(text) ==
    LET joined[p \in 0..Len(text)] ==
          IF p = 0 THEN 0 ELSE joined[p - 1] * text[p].scale + text[p].number
    IN  joined[Len(text)]

\* A step has digits only, and an index of 31 bits with the mark, of 32 without
IsIndex(step) ==
    /\ step.text # <<>>
    /\ \A p \in DOMAIN step.text : step.text[p] # Letters
    /\ Joined(step.text) < IF step.hardened THEN Hardened ELSE 2 * Hardened

\* The child numbers of a path
derive(path) ==
    IF path # <<>> /\ \A k \in DOMAIN path : IsIndex(path[k])
    THEN [k \in DOMAIN path |-> IF path[k].hardened THEN Joined(path[k].text) + Hardened
                                ELSE Joined(path[k].text)]
    ELSE Rejected

\* Too few arguments make replace() throw, and those left over derivef() itself
derivef(formatPath, args) ==
    IF owArgs(args) /\ Fits(formatPath, args) THEN derive(replace(formatPath, args))
    ELSE Rejected
=============================================================================
