------------------------- MODULE MCNativeArguments -------------------------
(***************************************************************************)
(* A small instance of NativeArguments with TxExport.  Each set of offered *)
(* arguments holds good ones and, for each check of each half, one that    *)
(* fails it.                                                               *)
(***************************************************************************)
EXTENDS TxExport, TLC

CONSTANTS keyBytes, otherBytes

Fee(m) == [algorithm |-> "LinearFee", constant |-> m, coefficient |-> 1]

MCMilliTakes == 0..MilliRange - 1

MCDevnetOptions ==
    [chainHexId : {<<>>, <<171>>, <<42>>, <<66>>, <<171, 42>>},
     feeConfig : {Fee(m) : m \in {1, -1, MilliRange, Infinite}}]

MCLiteral ==
    [name : {"Mainnet", "Devnet", "Othernet"},
     chainHexId : {<<42>>, <<66>>, <<42, 66>>},
     feeConfig : {Fee(0)}]

MainnetAddress == [hrp |-> "cro", checksum |-> TRUE]
MCAddress ==
    {MainnetAddress,
     [hrp |-> "tcro", checksum |-> TRUE],
     [hrp |-> "dcro", checksum |-> TRUE],
     [hrp |-> "tcro", checksum |-> FALSE],
     [hrp |-> "other", checksum |-> TRUE]}

MCGivenOutput ==
    [address : MCAddress, value : {MaxCoin}, validFrom : {None}]
    \cup [address : {MainnetAddress},
          value : {Fraction, -1, 0, MaxCoin + 1},
          validFrom : {None, 1, U64Range}]

MCTxId ==
    {[hex |-> TRUE, length |-> 64, bytes |-> "id"],
     [hex |-> TRUE, length |-> 63, bytes |-> "short"],
     [hex |-> TRUE, length |-> 66, bytes |-> "long"],
     [hex |-> FALSE, length |-> 64, bytes |-> "nonsense"]}

GoodTxId == {[hex |-> TRUE, length |-> 64, bytes |-> "id"]}
Signers(m, n) == [requiredSigners |-> m, totalSigners |-> n]

GivenInputs(txIds, indexes, outs, params) ==
    [prevTxId : txIds, prevIndex : indexes, prevOutput : outs, addressParams : params]

MCGivenInput ==
    GivenInputs(GoodTxId, 0..TxoSizeRange + 1, MCGivenOutput, {Signers(1, 1), Signers(1, 2)})
    \cup GivenInputs(MCTxId, {-1, Fraction, 0},
                     {[address |-> MainnetAddress, value |-> 0, validFrom |-> U64Range - 1]},
                     {Signers(2, 1), Signers(0, 1), Signers(1, Fraction), Signers(2, U64Range + 1),
                      Signers(U64Range, U64Range + 1)})

\* An index too large for the native type, and more signers than required
MCUnusualInput ==
    GivenInputs(GoodTxId, {TxoSizeRange + 1},
                {[address |-> MainnetAddress, value |-> 0, validFrom |-> None]}, {Signers(1, 2)})

MCTendermintAddress == [ws : {TRUE}, url : {TRUE}, live : BOOLEAN]
    \cup {[ws |-> FALSE, url |-> TRUE, live |-> TRUE], [ws |-> TRUE, url |-> FALSE, live |-> FALSE]}
=============================================================================
