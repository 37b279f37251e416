SPECIFICATION Spec
CONSTANTS
    i1 = i1
    i2 = i2
    r1 = r1
    o1 = o1
    o2 = o2
    td = td
    none = none
    Inits = {i1}
    Runs = {}
    Ops = {o1}
    Generators = {}
    Registers = {}
    Disposers = {}
    Teardown = td
    None = none
    Steps = 1
    Overlapping = FALSE
    Unpublishable = FALSE
INVARIANT NoLostInverse
CHECK_DEADLOCK FALSE
