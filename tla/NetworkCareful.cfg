SPECIFICATION Spec
CONSTANTS
    Nic = {usb}
    Vlan = {v22}
    Bridge = {br0}
    Br0 = br0
    Cidr = {c1, c2}
    Plain = Plain
    None = None
    Worker = {w1}
    Careful = TRUE
    MaxRequests = 2
    MaxFaults = 1
    MaxCuts = 1
INVARIANTS
    
    ServedAsSaved
    PlainElsewhere
    PortalNotEnslaved
    BridgesAgree
CHECK_DEADLOCK FALSE
