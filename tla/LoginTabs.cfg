CONSTANTS
    b1 = b1  b2 = b2  t1 = t1  t2 = t2  t3 = t3  p1 = p1  p2 = p2  u1 = u1  u2 = u2
    NoCookie = NoCookie
    Tabs = {t1, t2, t3}
    PageOf <- ThreePages
    Browsers = {b1, b2}
    BrowserOf <- TwoBrowsers
    Users = {u1, u2}
    MaxFlows = 2
    MaxTime = 1
    MaxKeys = 1
    MaxCopies = 1
    Unruly = TRUE
    Second = 1
    CsrfLifetime = 1
    MaxAge = 0
    TokenLifetime = 0
    Leeway = 0
    CodecLifetime = 3
SPECIFICATION Spec
SYMMETRY UsersAlike
INVARIANTS TypeOK SessionEarned ReturnsToOrigin LoginSurvives
CHECK_DEADLOCK FALSE
