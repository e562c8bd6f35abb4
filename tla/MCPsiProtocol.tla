--------------------------- MODULE MCPsiProtocol ---------------------------
(* Words of one bit, and two columns of which one is output.  The rows the *)
(* seeds expand to are fixed; MCPrtyMOt varies them in full.               *)
EXTENDS PsiProtocol

OneBit     == {<<0, 1>>}
TwoColumns == {<<0, 1>>, <<1, 1>>}      \* of two blocks
Repetition == [b \in WordBits |-> CodeBits]

OneRow(S) == [i \in Rows |-> IF i \in S THEN FirstBlock ELSE CodeBits \ FirstBlock]

MCInit == base0 = OneRow({0}) /\ base1 = OneRow({1, 2}) /\ Init

MCSpec == MCInit /\ [][Next]_vars

MCFairSpec == MCSpec /\ WF_vars(ReceiverNext) /\ WF_vars(SenderNext) /\ WF_vars(Network)
=============================================================================
