SPECIFICATION Spec
CONSTANTS
    Envs = {a, b}
    First = a
    Reader = b
    Writer = a
    NCpu = 1
    BufSize = 2
    Lengths = {3}
    MaxBytes = 3
    None = None
INVARIANTS NoFalseEof ClosedIsSeen GetsStream
