SPECIFICATION FairSpec
CONSTANTS
    None = None
    MBOXSLOTS = 2
    Clients = {c1, c2}
    Boxes = {c1, c2, "tcpip"}
    Streams = {c1}
    Peers = {c1}
    Packets = {p1}
    QUEUE_SIZE = 3
    Flushes = 32
    Window = 2
    MaxBad = 1
INVARIANTS SlotsExact EachCallServedOnce PanicsOnlyWhenFull
PROPERTIES MailboxesAreQueues CallAnswered
CHECK_DEADLOCK FALSE
