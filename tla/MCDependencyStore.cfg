SPECIFICATION Spec
CONSTANTS
    u1 = u1
    u2 = u2
    u3 = u3
    file = file
    udev = udev
    Units = {u1, u2, u3}
    DepTypes <- Order
    Masks = {file, udev}
    Devices = {u3}
    Slices = {}
    CanFail = {u1, u2}
    CanTrigger = {}
    HasCgroup = {u1, u2}
    MayAlias = {u1, u2}
    SameType <- SameKind
    MaxAdds = 3
INVARIANTS Mirror NoDangling
PROPERTIES OnlyOwnBitsDropped
CHECK_DEADLOCK FALSE
SYMMETRY Symmetry
