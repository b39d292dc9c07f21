SPECIFICATION HeapSpec
CONSTANTS
    NPages = 5
    PGSIZE = 3
    MAXMALLOC = 6
    Sizes = {0, 1, 2, 3, 5, 6}
    Blocks = {b1, b2, b3}
    NoBlock = NoBlock
SYMMETRY Symmetry
INVARIANTS BlocksApart PagesExact
