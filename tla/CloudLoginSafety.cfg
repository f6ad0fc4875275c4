SPECIFICATION Spec
CONSTANTS
    HTTP_TIMEOUT = 1
    MQTT_CONNECT_TIMEOUT = 2
    CLOUD_HB_TIMEOUT_ONESHOT = 2
    CLOUD_HB_TIMEOUT_CNT_MAX = 2
    CLOUD_HB_TIMEOUT_REDUNDANCE = 1
    StoredDids <- AnyStart
    MaxDid = 2
    MaxInFlight = 2
    MaxJumps = 0
    MaxReboots = 1
    Segmented = TRUE
    SendFails = TRUE
    Refuses = TRUE
INVARIANTS
    TypeOK
    IdentityBeforeLogin
    DeadSocketIsTimed
    RunningIsSubscribed
    SessionDidIsStored
    SilenceIsBounded
