\* One connection (connections do not interact), two rotations, a renewal, with and
\* without a time limit.
CONSTANTS
    Domains = 2
    MAX_ORDER_RETRIES = 2
    Conns = {c1}
    Modes = {"plain", "files", "acme"}
    Timeouts = {0, 10}
    MaxVersion = 3
    MaxRuns = 2
SPECIFICATION FairSpec
INVARIANTS IdentityWhole ChallengesRemoved
PROPERTIES RotationServed ConnectionResolved
CHECK_DEADLOCK FALSE
