CONSTANTS
    Program = Program
    Reader = Reader
    Shell1 = Shell1
    Level1 = Level1
    Level2 = Level2
    Shells <- NoShells
    Levels <- MCLevels
    NoValue = NoValue
    Wrap = 4
    Slices = 1
    MaxCalls = 0
    MaxResets = 2

SPECIFICATION Spec

SYMMETRY LevelSymmetry

\* MaxResets ends every behaviour.
CHECK_DEADLOCK FALSE

PROPERTY AutostartStaysOff
