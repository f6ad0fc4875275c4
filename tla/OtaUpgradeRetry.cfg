SPECIFICATION Spec
CONSTANTS
    FLASH_SECTOR_SIZE = 2
    AreaSectors = 3
    File = {"factory", "v1", "v2"}
    Factory = "factory"
    Size <- MCSize
    FlashOutcome = {"good"}
    SecondUpdater = FALSE
    Aborts = 1
    MaxCommands = 2
CHECK_DEADLOCK FALSE
INVARIANT SuccessIsTheFile
