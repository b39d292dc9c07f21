SPECIFICATION BootSpec
CONSTANTS
    CPUs = {c1, c2, c3, c4}
    BSP = c1
    None = None
INVARIANTS MutualExclusion NoSpuriousPanic OwnStack
PROPERTIES ImplementsLock SomeoneEnters BootEnds
