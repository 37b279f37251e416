SPECIFICATION KernelSpec
CONSTANTS
    i1 = i1
    i2 = i2
    r1 = r1
    o1 = o1
    o2 = o2
    td = td
    none = none
    Inits = {i1, i2}
    Runs = {r1}
    Ops = {o1}
    Generators = {i1, i2, r1}
    Registers = {}
    Disposers = {o1}
    Teardown = td
    None = none
    Steps = 2
    Overlapping = FALSE
    Unpublishable = FALSE
    a = a
    b = b
    c = c
    s = s
    Resources = {a, b, c, s}
    Deps <- Holds
    ByName <- LooksUp
    Needs <- CreatedAfter
    Sinks = {s}
    Broken = {}
    MaxPasses = 10
    MaxFlakes = 2
    MaxReconciles = 2
    Overlap = FALSE
INVARIANT TypeOK
INVARIANT InverseOnce
INVARIANT ClosedIsClean
INVARIANT HoldsTheLiving
INVARIANT TeardownIsComplete
SYMMETRY InitSymmetry
CHECK_DEADLOCK FALSE
INVARIANT InitIsWhole
INVARIANT EndsInTime
PROPERTY OrderedUnwind
