---------------------------- MODULE MCCommitRace ----------------------------
EXTENDS CommitRace, TLC

(* Our sessions are alike, and so are the guests.                          *)
Alike == Permutations(Client) \cup Permutations(Guest)
=============================================================================
