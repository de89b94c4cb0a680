--------------------------- MODULE MCChatSession ---------------------------
(* A session of two turns on two workers, over a catalogue of three notices. *)
EXTENDS ChatSession, TLC

CONSTANTS n1, n2, n3

MCTurns == {1, 2}
MCHits == {<< >>, <<n1>>, <<n1, n2, n3>>}
MCLatest == <<n3, n2>>
MCItems == {<< >>, <<-1>>, <<0>>, <<2>>, <<3, 3>>, <<0, 3, 1, 2>>}

WorkerSymmetry == Permutations(Workers)
=============================================================================
