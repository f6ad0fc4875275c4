SPECIFICATION FairSpec
CONSTANTS
    HTTP_TIMEOUT = 1
    MQTT_CONNECT_TIMEOUT = 3
    CLOUD_HB_TIMEOUT_ONESHOT = 2
    CLOUD_HB_TIMEOUT_CNT_MAX = 2
    CLOUD_HB_TIMEOUT_REDUNDANCE = 1
    StoredDids <- Registered
    MaxDid = 1
    MaxInFlight = 3
    MaxJumps = 1
    MaxReboots = 0
    Segmented = FALSE
    SendFails = FALSE
    Refuses = FALSE
PROPERTIES
    EventuallyLoggedIn
