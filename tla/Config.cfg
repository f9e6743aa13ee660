SPECIFICATION Spec
CONSTANTS
    Number <- MC_Number
    Argvs <- MC_Argvs
    Envs <- MC_Envs
    FileSystems <- MC_FileSystems
INVARIANTS
    PrecedenceKept
    OnlyOptionsStart
CHECK_DEADLOCK FALSE
