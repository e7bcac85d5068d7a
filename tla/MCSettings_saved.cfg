CONSTANTS
    Endpoints <- mcEndpoints
    Uris <- mcUris
    UriOf <- mcUriOf
    Dialable <- mcUris
    CertPaths = {"admin.pfx"}
    ReadableCerts = {"admin.pfx"}
    DefaultLocal = "pipe"
    Blank = Blank
    None = None
    FormLocal = "pipe"
    FormRemote = "host"
    Typed <- mcTyped
    OtherOptions <- mcOtherOptions
    StartInfo <- mcStartInfo
    Asked = Asked
SPECIFICATION Spec
PROPERTY UnreachableSaysSaved
CHECK_DEADLOCK FALSE
