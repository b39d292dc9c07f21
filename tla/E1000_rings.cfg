SPECIFICATION RingsSpec
CONSTANTS
    N = 3
    Packets = {p, q, big}
    TooLong = {big}
    Lag = 2
    NoPacket = NoPacket
PROPERTIES TransmitsInOrder ReceivesInOrder AllSent
