--------------------------- MODULE MCBlockDownload ---------------------------
(* Instances of BlockDownload for TLC.                                     *)
EXTENDS BlockDownload

CONSTANTS A, B

\* A chain of three blocks, and a branch that leaves it after the first.
MCBlock == {<<>>, <<1>>, <<1, 1>>, <<1, 1, 1>>, <<1, 2>>}
MCWork == [b \in MCBlock |-> Len(b)]
MCPeerTip == [p \in {A, B} |-> IF p = A THEN <<1, 1, 1>> ELSE <<1, 2>>]
\* Both peers have the same chain.
MCSameTip == [p \in {A, B} |-> <<1, 1, 1>>]
MCKinds == [p \in {A, B} |-> IF p = A THEN {"outbound"} ELSE {"inbound", "whitelisted", "outbound"}]
=============================================================================
