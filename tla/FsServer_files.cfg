SPECIFICATION Spec
CONSTANTS
    Envs = {e1, e2}
    Files = {f1, f2}
    MAXFD = 2
    MAXOPEN = 2
    Gens = 2
    FileLen = 1
    MaxKills = 1
    None = None
SYMMETRY Symmetry
INVARIANT LookupSucceeds
PROPERTIES ImplementsOpenFiles
