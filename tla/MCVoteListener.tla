--------------------------- MODULE MCVoteListener ---------------------------
EXTENDS VoteListener

CONSTANTS v0, v1, v2, v3, h

\* 0 - 2 - 3 - 4 - 5, and the fork 0 - 1.  v0 holds most of the stake and does not
\* vote.  In the first epoch v1 alone is over the threshold of 3, later v1 and v2
\* are, while v1 and v3 only meet it.
MCParent == <<0, 0, 2, 3, 4>>
MCStakes ==
    [e \in 0 .. 3 |-> IF e = 0 THEN (v0 :> 115) @@ (v1 :> 4) @@ (v2 :> 1) @@ (v3 :> 0)
                      ELSE (v0 :> 125) @@ (v1 :> 2) @@ (v2 :> 2) @@ (v3 :> 1)]
MCAuthorizedVoters == [e \in 0 .. 3 |-> (v0 :> v0) @@ (v1 :> v1) @@ (v2 :> v2) @@ (v3 :> v3)]

Vote(p, slots, hash, gossip) ==
    [pubkey |-> p, slots |-> slots, hash |-> hash, signer |-> p, gossip |-> gossip]

MCVotes ==
    {Vote(v1, <<1>>, h, FALSE),
     Vote(v1, <<2, 3>>, h, TRUE), Vote(v1, <<2, 3>>, h, FALSE),
     Vote(v2, <<3>>, h, TRUE), Vote(v3, <<3>>, h, FALSE)}
=============================================================================
