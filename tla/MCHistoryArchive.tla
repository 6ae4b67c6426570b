-------------------------- MODULE MCHistoryArchive --------------------------
(* Instances of HistoryArchive for TLC. *)
EXTENDS HistoryArchive, TLC

CONSTANTS x, y, q1, q2, b1, b2, b3

MCReadable == {<<x>>, <<x, x>>, <<x, y>>, <<y, x>>}
MCHistories == MCReadable \cup {Invalid}

HandlersAndIDs == Permutations(Requests) \cup Permutations(BlockIDs)
=============================================================================
