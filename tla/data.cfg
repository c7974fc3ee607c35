SPECIFICATION Spec
CONSTANTS
    r1 = r1
    r2 = r2
    r3 = r3
    t1 = t1
    f1 = f1
    f2 = f2
    PRs = {1, 2}
    Releases = {r1, r2, r3}
    Tags = {t1}
    Markers = {"m1", "m2"}
    Marker <- NameOf
    IsVersionTag <- VersionTag
    MaxTime = 4
    Since = 1
    LinkInferenceWindow = 2
    AmbiguousWindow = 1
    PRLimit = 2
    ReleaseLimits = {2, 3}
    PageLimit = 2
    TagLimit = 1
    Features = {f1, f2, "pr_1", "pr_2"}
    NumberName <- NumberOf
    Namings <- SomeNamings
INVARIANTS
    TypeOK
    DeploymentsMatchRepository
    AmbiguousAmongOptions
    AmbiguityIsInClusters
    GroupsCountPRs
SYMMETRY SameName
CHECK_DEADLOCK FALSE
