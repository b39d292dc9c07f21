SPECIFICATION RekillSpec
CONSTANTS
    CPUs = {c1, c2}
    NENV = 3
    NBoot = 2
    MaxGen = 2
    MaxUses = 4
    None = None
SYMMETRY Symmetry
PROPERTIES ZombieFreedByItsCpu
