SPECIFICATION Spec
CONSTANTS
    Envs = {e1, e2, e3}
    First = e1
    Order <- MCOrder
    Stack = "stack"
    Shared = "lib"
    Pages = {p1, p2, p3, p4, p5}
    Vals = {0, 1}
    Zero = 0
    None = None
SYMMETRY Symmetry
INVARIANTS WriterIsAlone
PROPERTIES FaultInvisible Isolated
