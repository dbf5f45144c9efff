CONSTANTS
    Images = {i1, i2}
    Pixmaps = {p1, p2}
    Heap = {a1, a2}
    Driver = {d1}
    None = None
    Sizes <- SmallSizes
    Offsets = {0, 1}
    MaxWriters = 2
SPECIFICATION Spec
SYMMETRY Symmetry
CONSTRAINT Followed
INVARIANTS TypeOK Registered Owned LocksMatchWriters RowsMatch
PROPERTIES Undisturbed AddressKept
CHECK_DEADLOCK FALSE
