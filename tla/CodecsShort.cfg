\* The numbers and payloads of Codecs.cfg; every frame is to come back.
CONSTANTS
    Ids = {0, 16909060}
    Nums = {0, 2147483647}
    Ports = {258, 65535}
    Hosts <- SomeHosts
    Payloads <- SomePayloads
    Tokens <- SomeTokens
    Methods <- SomeMethods
    SocksHosts <- SomeSocksHosts
    Users <- SomeUsers
    Rests <- SomeRests
    Psks = {"absent", "a", "b"}
    PortWords = {"80", "1080"}
SPECIFICATION Spec
INVARIANT EveryFrameDecodes
CHECK_DEADLOCK FALSE
