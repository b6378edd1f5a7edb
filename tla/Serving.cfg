CONSTANTS
    NormalizeEmail <- MCNormalizeEmail
    MatchWildcard <- MCMatchWildcard
    Expand <- MCExpand
    Path <- MCPath
    Unset = Unset
    Failed = Failed
    NoDirectory = NoDirectory
    Handlers = {h1, h2}
    Inputs <- ServingInputs
    Configs <- ServingConfigs
    Sessions <- MCSessions
    Methods <- MCMethods
    Directories <- MCDirectories
SPECIFICATION FairSpec
PROPERTIES GoneClientsAreAnswered SettledProviderAnswers TokenlessAreDecided
