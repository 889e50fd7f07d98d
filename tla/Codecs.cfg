\* Numbers at the edges of their octets, hosts at the limits of their length
\* octet, payloads around the length checks, remotes of up to four tokens.
CONSTANTS
    Ids = {0, 16909060}
    Nums = {0, 2147483647}
    Ports = {258, 65535}
    Hosts <- SomeHosts
    Payloads <- SomePayloads
    Tokens <- SomeTokens
    Methods <- SomeMethods
    SocksHosts <- SomeSocksHosts
    Users <- SomeUsers
    Rests <- SomeRests
    Psks = {"absent", "a", "b"}
    PortWords = {"80", "1080"}
SPECIFICATION Spec
INVARIANTS FrameRoundTrip DecodeCanonical RemoteRoundTrip SocksExact UpgradeExact
CHECK_DEADLOCK FALSE
