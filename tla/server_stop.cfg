\* Three calls over either transport; handlers may hang.
CONSTANTS
    Calls = {k1, k2, k3}
SPECIFICATION FairSpec
INVARIANT TimedStopIsGraceful
PROPERTY ProcessEnds
