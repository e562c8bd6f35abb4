----------------------------- MODULE MCPrtyMOt -----------------------------
(* Words of one bit and codewords of one column, which every word with its *)
(* bit set has.                                                            *)
EXTENDS PrtyMOt

OneBit     == {<<0, 1>>}
Repetition == [b \in WordBits |-> CodeBits]
=============================================================================
