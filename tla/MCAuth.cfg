CONSTANTS
    Tabs = {t1, t2}
    MaxLogins = 1
    MaxRestarts = 1
    None = None
    Posted = Posted
SPECIFICATION Spec
INVARIANTS
    RestartKeepsSessions
PROPERTY
    DeadSessionReachesLogin
