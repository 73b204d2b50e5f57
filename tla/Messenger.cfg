SPECIFICATION Spec
CONSTANTS
    u1 = u1
    u2 = u2
    s1 = s1
    s2 = s2
    s3 = s3
    Users = {u1, u2}
    Sessions = {s1, s2, s3}
    UserOf <- MCUserOf
    Contacts = {c1, c2}
    NoContact = NoContact
    HasEmail = {u1}
    MaxMessages = 2
    MaxCalls = 3
    MaxJobs = 2
    MaxRestarts = 1
    MaxEvents = 4
INVARIANTS
    TypeOK
    BadgeExact
    OneContactPerPair
    MailedAtMostOnce
    NotifiedIsTold
PROPERTY EveryMessageDecided
CHECK_DEADLOCK FALSE
