SPECIFICATION Spec
CONSTANTS
    Device = {m1}
    Rate = {r1, r2}
    Request = {a1, a2}
    Boot = boot
    Default = dflt
    None = None
    Careful = TRUE
    MaxSave = 1
    MaxApply = 2
    MaxSwitch = 3
    MaxFault = 1
    MaxBoot = 1
SYMMETRY Symmetry
INVARIANTS
    AppliedWhenAsked
    EveryDeviceCapped
CHECK_DEADLOCK FALSE
