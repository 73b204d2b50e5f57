SPECIFICATION Spec
CONSTANTS
    u1 = u1
    u2 = u2
    s1 = s1
    s2 = s2
    s3 = s3
    Users = {u1, u2}
    Sessions = {s1, s2, s3}
    UserOf <- MCUserOf
    Contacts = {c1}
    NoContact = NoContact
    HasEmail = {u1}
    MaxMessages = 2
    MaxCalls = 2
    MaxJobs = 0
    MaxRestarts = 0
    MaxEvents = 2
INVARIANT UnmarkedBecomesUnread
CHECK_DEADLOCK FALSE
