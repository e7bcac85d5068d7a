CONSTANTS
    Tabs = {t1}
    MaxLogins = 2
    MaxRestarts = 0
    None = None
    Posted = Posted
SPECIFICATION Spec
PROPERTY
    DropsOnlyStaleTokens
