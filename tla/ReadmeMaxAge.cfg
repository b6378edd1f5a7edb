CONSTANTS
    b1 = b1  b2 = b2  t1 = t1  t2 = t2  t3 = t3  p1 = p1  p2 = p2  u1 = u1  u2 = u2
    NoCookie = NoCookie
    Tabs = {t1}
    PageOf <- OnePage
    Browsers = {b1}
    BrowserOf <- OneTab
    Users = {u1}
    MaxFlows = 1
    MaxTime = 3
    MaxKeys = 1
    MaxCopies = 0
    Unruly = FALSE
    Second = 1
    CsrfLifetime = 1
    MaxAge = 3
    TokenLifetime = 1
    Leeway = 0
    CodecLifetime = 1
SPECIFICATION Spec
INVARIANTS ReadmeMaxAge
CHECK_DEADLOCK FALSE
