CONSTANTS
    Program = Program
    Reader = Reader
    Shell1 = Shell1
    Level1 = Level1
    Level2 = Level2
    Shells <- MCShells
    Levels <- MCLevels
    NoValue = NoValue
    Wrap = 4
    Slices = 2
    MaxCalls = 3
    MaxResets = 2

SPECIFICATION Spec

SYMMETRY LevelSymmetry

\* MaxCalls and MaxResets end every behaviour.
CHECK_DEADLOCK FALSE

INVARIANTS
    TypeOK
    NetReport
    LogFaithful

PROPERTY SettingsAtBoot
