SPECIFICATION FairSpec
CONSTANTS
    DHCPS_HISTORY_CLIENT_NUM = 2
    DHCP_DEFFAULT_TIMEOUT = 2
    DHCP_DEFAULT_LEASE_TIME = 2
    ServerHost = 254
    HostMask = 255
    Station = {p1, p2, p3}
    NoMac = NoMac
INVARIANTS TypeOK ExclusiveAddresses OneEntryEach OneHistoryEach LeaseIsBacked
PROPERTIES PromiseKept AbsentStationFreesEntry
