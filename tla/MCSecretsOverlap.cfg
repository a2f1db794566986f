SPECIFICATION Spec
CONSTANTS
    secret = secret
    external = external
    ring = ring
    user = user
    password = password
    MaxRuns = 2
    Keys = {user, password}
    DefaultKeys = {password}
    KeyLists = {{}}
    NewSecrets = {{}}
    K8sSecrets = {secret}
    ExternalSecrets = {external}
    GitHubSecrets = {}
    Rings = {ring}
    Loads <- MCLoads
    Aims <- MCAllTargets
    Histories <- MCHistories
    MaxCancels = 0
    MaxFaults = 0
CHECK_DEADLOCK FALSE
INVARIANT NoRetiredValueHeldEver
