CONSTANTS
    b1 = b1  b2 = b2  t1 = t1  t2 = t2  t3 = t3  p1 = p1  p2 = p2  u1 = u1  u2 = u2
    NoCookie = NoCookie
    Tabs = {t1, t2}
    PageOf <- TwoPages
    Browsers = {b1}
    BrowserOf <- OneBrowser
    Users = {u1}
    MaxFlows = 2
    MaxTime = 4
    MaxKeys = 2
    MaxCopies = 0
    Unruly = TRUE
    Second = 2
    CsrfLifetime = 2
    MaxAge = 1
    TokenLifetime = 3
    Leeway = 1
    CodecLifetime = 3
SPECIFICATION Spec
PROPERTIES ServedInTime
CHECK_DEADLOCK FALSE
