SPECIFICATION Spec
CONSTANTS
    u1 = u1
    u2 = u2
    s1 = s1
    s2 = s2
    s3 = s3
    a1 = a1
    Users = {u1, u2}
    Admins = {u2}
    Sessions = {s1, s2, s3}
    UserOf <- MCUserOf
    Apps = {a1, a2}
    FirstSlug <- MCFirstSlug
    Jobs = {j1}
    Slugs = {1, 2}
    NoApp = NoApp
    MaxCalls = 3
    MaxStars = 3
    MaxRestarts = 1
INVARIANTS
    TypeOK
    CountsExact
    OneStarPerUser
    SlugsUnique
PROPERTY RemovedUserLeavesNothing
CHECK_DEADLOCK FALSE
