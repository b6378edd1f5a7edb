CONSTANTS
    t1 = t1  t2 = t2
    Tabs = {t1, t2}
    Starts <- TwoPages
    HostsUnder <- MCHostsUnder
    Canonical <- MCCanonical
    Inner = "inner"
    Options <- MCOptions
    Sites <- MCSites
    MaxLogins = 2
    NoURL = NoURL
SPECIFICATION FairSpec
INVARIANTS TypeOK OutcomeFits SameRedirectURI
PROPERTIES VisitsAreServed
CHECK_DEADLOCK FALSE
