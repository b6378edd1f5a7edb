CONSTANTS
    h1 = h1  h2 = h2  n1 = n1
    Handlers = {h1, h2}
    Names = {n1}
    Default = Default
    Unset = Unset
    Files <- MCFiles
    Directives <- MCDirectives
    DefaultScope <- MCDefaultScope
    DefaultUsername = "sub"
    Authenticators <- MCAuthenticators
    DefaultAuthenticators <- MCDefaultAuthenticators
SPECIFICATION Spec
INVARIANTS TypeOK EffectiveConfiguration NearestAncestor NothingShared
PROPERTIES GlobalsUntouched
CHECK_DEADLOCK FALSE
