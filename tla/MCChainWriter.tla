---------------------------- MODULE MCChainWriter ----------------------------
(* Values for the constants of ChainWriter, for TLC.                       *)
EXTENDS ChainWriter, TLC

OneRow == {1}
TwoRows == {1, 2}

DistinctHolders == [w \in Writers |-> w]
SharedHolder    == [w \in Writers |-> "static"]

\* Writers that share a holder id are interchangeable.
WriterSymmetry == Permutations(Writers)

OwnCandidates   == [r \in Rows |-> r]
SharedCandidate == [r \in Rows |-> 1]

NoDevices == [r \in Rows |-> NoDevice]
OneDevice == [r \in Rows |-> "device"]

BatchesOf(n) == [l \in Lanes |-> n]
Singles == BatchesOf(1)
Pairs   == BatchesOf(2)
==============================================================================
