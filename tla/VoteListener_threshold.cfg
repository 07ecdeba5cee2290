SPECIFICATION Spec
CONSTANTS
    v0 = v0
    v1 = v1
    v2 = v2
    v3 = v3
    h = h
    Stakes <- MCStakes
    AuthorizedVoters <- MCAuthorizedVoters
    SlotsPerEpoch = 2
    Parent <- MCParent
    Votes <- MCVotes
    OwnHash = h
INVARIANT ConfirmedBySupermajority
