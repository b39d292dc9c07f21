SPECIFICATION Spec
CONSTANTS
    Envs = {parent, child}
    Boot = parent
    Pages = {Page0, p1, p2, p3, p4, p5}
    Page0 = Page0
    Usable <- MCUsable
    NULL = NULL
    VAs <- MCVAs
    Region <- MCRegion
    LastSlot = {"last"}
    Swept = {"low"}
    RefMod = 65536
    MaxNull = 1
    None = None
    MaxLost = 2
SYMMETRY Symmetry
INVARIANTS RefsExact FreeExact NeverPanics
