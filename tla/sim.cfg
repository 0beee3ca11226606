CONSTANTS
    LuSectors <- MCLuSectors
    Percent = 4
    MaxAlign = 4
    MaxLength = 6
    Word = 32
    Confs <- MCConfs
    UsrArea = 10
    EndCount = 4
    ShareWord = 16
SPECIFICATION Spec
INVARIANTS
    CommandsInArea
    RunAsConfigured
