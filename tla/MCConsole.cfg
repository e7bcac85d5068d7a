CONSTANTS
    Pages = {"containers", "images", "networks", "volumes"}
    Texts = {blank, x}
    Blank = blank
    None = None
    Images = {i1, i2}
    Networks = {"bridge", "net"}
    Volumes = {"v1"}
    Containers = {"c1"}
    Ports = {"80", "080"}
    HostPorts = {"8080", "9090", "80.5"}
    NotAPort = notAPort
    NumberOf <- mcNumberOf
    Ints = {"80", "8080", "9090"}
    Policies = {"no"}
    MaxRows = 2
SPECIFICATION Spec
INVARIANTS
    TypeOK
    ForceIsTicked
    ServicesAccept
    RowsReachEngine
CHECK_DEADLOCK FALSE
