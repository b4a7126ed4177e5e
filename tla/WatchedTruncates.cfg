SPECIFICATION Spec
CONSTANTS
    i1 = i1
    i2 = i2
    i3 = i3
    None = None
    Inodes = {i1, i2, i3}
    mode = "w"
    Delays = {TRUE, FALSE}
    MaxRecords = 4
    MaxFaults = 2
SYMMETRY Permuted
INVARIANT
    Kept
