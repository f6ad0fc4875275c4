SPECIFICATION Spec
CONSTANTS
    SOCKET_MAXTCPCLENT = 2
    LAN_CLIENT_MAXLIVETIME = 1
    MaxFd = 3
    MaxUpgrades = 2
INVARIANTS
    TypeOK
    SlotsOwnTheirSockets
    NoSocketLeak
    LoginBelongsToPhone
    RecvDoesNotBlock
    LoginIsInTable
