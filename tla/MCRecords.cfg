CONSTANTS
    m1 = m1
    m2 = m2
    c1 = c1
    c2 = c2
    Machine = {m1, m2}
    Cert = {c1, c2}
    NoCert = NoCert
    Imports <- MCImports
    MaxRev = 3
    MaxLate = 1
SPECIFICATION Spec
SYMMETRY MachineSymmetry
INVARIANT CacheTrue
PROPERTY AtomicRecord
