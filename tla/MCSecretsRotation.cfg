SPECIFICATION FairSpec
CONSTANTS
    secret = secret
    external = external
    ring = ring
    user = user
    password = password
    MaxRuns = 2
    Keys = {user, password}
    DefaultKeys = {password}
    KeyLists <- MCKeyLists
    NewSecrets <- MCNewSecrets
    K8sSecrets = {}
    ExternalSecrets = {external}
    GitHubSecrets = {secret}
    Rings = {ring}
    Loads <- MCLoads
    Aims <- MCAims
    Histories <- MCHistories
    MaxCancels = 1
    MaxFaults = 1
CHECK_DEADLOCK FALSE
INVARIANTS
    TypeOK
    NoRetiredValueHeld
    CompletedIsLive
PROPERTIES
    RetiresOnlyReplaced
    RollbackRestores
    RunEnds
