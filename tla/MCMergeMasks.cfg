SPECIFICATION Spec
CONSTANTS
    u1 = u1
    u2 = u2
    u3 = u3
    file = file
    udev = udev
    Units = {u1, u2, u3}
    DepTypes <- Need
    Masks = {file, udev}
    Devices = {u3}
    Slices = {}
    CanFail = {u1, u2}
    CanTrigger = {}
    HasCgroup = {u1, u2}
    MayAlias = {u1, u2}
    SameType <- SameKind
    MaxAdds = 3
PROPERTIES MergeKeepsBits
CHECK_DEADLOCK FALSE
SYMMETRY Symmetry
