SPECIFICATION KeptSpec
CONSTANTS
    MaxChunks = 4
    ann = ann
    bob = bob
    Users = {ann, bob}
    FullHistory = {bob}
    Patterns = {{}, {"ID"}}
    MaxIds = 2
    MaxRequests = 1
    MaxDeletes = 1
    MaxCrashes = 1
    m1 = m1
    m2 = m2
    p1 = p1
    p2 = p2
    i1 = i1
    i2 = i2
    repo1 = repo1
    repo2 = repo2
    Secrets = {"token", "url"}
    Defaults = {}
    Managers = {m1, m2}
    Scripts = {p1, p2}
    Wanted <- Asks
    Values = {"v"}
    Notes = {"", "n"}
    MaxRuns = 2
    MaxKills = 1
    Sources = {repo1, repo2}
    ScriptFiles = {"f", "g"}
    ByHand = {"f"}
    Imports = {i1, i2}
    MaxPushes = 2
    MaxImports = 2
    MaxStops = 1
INVARIANTS LogKept LogsAreTheirs NothingMissing RunsAddUp Remembered
PROPERTIES ExitCodeWritten SecretsKept OnlyOwnRemoved
CHECK_DEADLOCK FALSE
