SPECIFICATION Spec
CONSTANTS
    FLASH_SECTOR_SIZE = 2
    AreaSectors = 3
    File = {"factory", "v1", "v2"}
    Factory = "factory"
    Size <- MCSize
    FlashOutcome = {"good", "late"}
    SecondUpdater = TRUE
    Aborts = 1
    MaxCommands = 4
CHECK_DEADLOCK FALSE
INVARIANTS TypeOK SuccessSinceReset OldFirmwareUntilDownloaded
