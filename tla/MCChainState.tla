---------------------------- MODULE MCChainState ----------------------------
(* Small block trees for ChainState; a block is written as its path.        *)
EXTENDS ChainState, TLC

\* A branch with a fork at height one, and a longer one from the genesis block.
Fork == {<<>>, <<1>>, <<1, 1>>, <<1, 2>>, <<1, 2, 1>>, <<2>>, <<2, 1>>, <<2, 1, 1>>}

\* A branch of two blocks beside one of three.
Beside == {<<>>, <<1>>, <<1, 1>>, <<2>>, <<2, 1>>, <<2, 1, 1>>}

\* Three blocks in a row, and one beside the second.
Row == {<<>>, <<1>>, <<1, 1>>, <<1, 1, 1>>, <<1, 2>>}

\* Two blocks on one parent.
Siblings == {<<>>, <<1>>, <<1, 1>>, <<1, 2>>, <<2>>}

\* Three blocks in a row.
Line == {<<>>, <<1>>, <<1, 1>>, <<1, 1, 1>>}

\* One block beside two.
Short == {<<>>, <<1>>, <<2>>, <<2, 1>>}

\* Every block has the same work.
HeightWork == [b \in Block |-> Len(b)]

\* An order of addresses that puts later branches first.
AddrOf ==
    [b \in Block |-> IF Len(b) = 0 THEN 0
                     ELSE 10 * Len(b) - b[1] - (IF Len(b) > 1 THEN 3 * b[2] ELSE 0)]

AllGood == [b \in Block |-> "good"]
OneFails == [b \in Block |-> IF b = <<1, 2>> THEN "bad_connect" ELSE "good"]
TwoFail == [b \in Block |-> IF b \in {<<1, 2>>, <<2, 1, 1>>} THEN "bad_connect" ELSE "good"]
LastMalformed == [b \in Block |-> IF b = <<1, 1, 1>> THEN "bad_context" ELSE "good"]
SmallestId == -2
FarSmallestId == -9
=============================================================================
