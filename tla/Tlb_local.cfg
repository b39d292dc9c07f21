SPECIFICATION Spec
CONSTANTS
    CPUs = {c1, c2}
    Envs = {e1, e2}
    VAs = {v1, v2}
    Pages = {p1, p2, p3}
    None = None
PROPERTIES StaleOnlyByRemoteCall
