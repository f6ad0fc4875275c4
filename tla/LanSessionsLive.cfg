SPECIFICATION FairSpec
CONSTANTS
    SOCKET_MAXTCPCLENT = 2
    LAN_CLIENT_MAXLIVETIME = 2
    MaxFd = 2
    MaxUpgrades = 0
PROPERTIES
    PhoneIsAnswered
    SilentPhoneIsDropped
