CONSTANTS
    NormalizeEmail <- MCNormalizeEmail
    MatchWildcard <- MCMatchWildcard
    Expand <- MCExpand
    Path <- MCPath
    Unset = Unset
    Failed = Failed
    NoDirectory = NoDirectory
    Handlers = {h1}
    Inputs <- RequestsInputs
    Configs <- RequestsConfigs
    Sessions <- MCSessions
    Methods <- MCMethods
    Directories <- MCDirectories
SPECIFICATION Spec
INVARIANTS TypeOK UpstreamAuthorised RefusalJustified InvitationJustified RuleNamed FirstCredentialWins CredentialsForwarded
ACTION_CONSTRAINT OwnInputs
