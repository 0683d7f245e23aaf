--------------------------- MODULE MCConversions ---------------------------
(***************************************************************************)
(* A small instance of Conversions: one CRO has ten basic units, divisions *)
(* keep two digits more than that, and amounts are shown to two further.   *)
(***************************************************************************)
EXTENDS Conversions, TLC

Step(text, h) == [text |-> text, hardened |-> h]
Digits(n, s) == [number |-> n, scale |-> s]
FortyFour == Digits(44, 100)

MCFormatPath ==
    {<<Step(<<FortyFour>>, TRUE), Step(<<Placeholder>>, TRUE), Step(<<Placeholder>>, FALSE)>>,
     <<Step(<<FortyFour>>, TRUE), Step(<<Digits(0, 10)>>, FALSE)>>,
     <<Step(<<Placeholder>>, FALSE)>>,
     <<Step(<<Placeholder>>, FALSE), Step(<<FortyFour>>, TRUE), Step(<<Placeholder>>, FALSE)>>,
     \* joined to digits before, after and around it, leading zeros included
     <<Step(<<Digits(1, 10), Placeholder>>, FALSE)>>,
     <<Step(<<Placeholder, Digits(0, 10)>>, TRUE), Step(<<Placeholder>>, TRUE)>>,
     <<Step(<<Digits(0, 100), Placeholder, Digits(1, 10)>>, FALSE)>>,
     \* two in a step
     <<Step(<<Placeholder, Placeholder>>, FALSE)>>,
     \* no argument can save these
     <<Step(<<Placeholder>>, FALSE), Step(<<Digits(100, 1000)>>, TRUE)>>,
     <<Step(<<Placeholder>>, FALSE), Step(<<Digits(200, 1000)>>, FALSE)>>,
     <<Step(<<Placeholder, Letters>>, FALSE)>>,
     <<Step(<<Placeholder>>, TRUE), Step(<<>>, FALSE)>>,
     <<>>}

\* Of one digit and of two, around Hardened, and around the width
Indices == {0, 1, 2, 11, 12, 99, 100, 199}
MCArguments ==
    UNION {[1..n -> Indices \cup {-1, 200}] : n \in 0..2} \cup {<<0, 1, 2>>}

\* Around zero, around the supply in either unit, and one coin
Around(v) == v - 25..v + 25
MCGivenAmount ==
    UNION {Around(v) : v \in {0, One, One \div CRO_DECIMAL, MAX_CRO * One, MAX_CRO * CRO_DECIMAL * One}}
=============================================================================
