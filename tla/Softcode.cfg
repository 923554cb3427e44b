SPECIFICATION SoftSpec
CONSTANTS
    MaxVars = 9
    Builtin <- MCBuiltin
    Macros <- MCMacros
    Libraries <- MCLibraries
    StrictComments = FALSE
    NoDirectives <- MCNone
    PathNames <- MCPathed
    SigilNames <- MCSigiled
    MaxSubstitutions = 3
    MaxCommentDepth = 3
    StackSize = 60
    MaxCallDepth = 4
    MaxCount = 40
    MaxTape = 2
    Deepest = 2
    Limits <- MCLimits
INVARIANTS RunsAsWritten  MessagesMeanWhatIsWritten
PROPERTY ProgramsGiveWay
CHECK_DEADLOCK FALSE
