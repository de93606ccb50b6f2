\* Overlapping calls, malformed bodies, and clients that go away.
CONSTANTS
    Callers = {c1, c2, c3}
    Cooldown = 2
    Threshold = 3
    Disconnects = TRUE
SPECIFICATION BusySpec
INVARIANTS TypeOK OnlyLostTrialsStrand
PROPERTIES TrialsSpaced HalfOpenResolves FeedRecovers
