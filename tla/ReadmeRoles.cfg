CONSTANTS
    NormalizeEmail <- MCNormalizeEmail
    MatchWildcard <- MCMatchWildcard
    Expand <- MCExpand
    MeantBy <- MCMeantBy
    Unset = Unset
    Failed = Failed
    NoDirectory = NoDirectory
    Path <- MCPath
    Files <- MCFiles
    Parts <- MCParts
    AuthMethods <- MCAuthMethods
    People <- MCPeople
    UsernameClaims = {"sub", "email", "a.b"}
    CookieOptions <- MCCookieOptions
    Requests <- MCRequests
    Runtimes <- MCRuntimes
SPECIFICATION Spec
INVARIANT ReadmeRoles
CHECK_DEADLOCK FALSE
