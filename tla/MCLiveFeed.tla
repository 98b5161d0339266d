----------------------------- MODULE MCLiveFeed -----------------------------
(* TLC instances of LiveFeed.                                              *)
EXTENDS LiveFeed, TLC

MCKinds ==
    {[method |-> "GET", status |-> 200, url |-> "u1", reqLen |-> 0, respLen |-> 1,
      headers |-> {}]}

MCBackfills == {Absent, 0}

Symmetric == Permutations(Goroutines) \cup Permutations(Channels)
=============================================================================
