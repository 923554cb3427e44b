SPECIFICATION Spec
CONSTANTS
    Short <- MCShort
    Size <- MCSize
    Number <- MCNumber
    Star <- MCStar
    SystemProps = {"@sys"}
    HiddenProps = {"~wiz"}
    Worlds <- MCWorlds
    Lines <- MCLines
    Keys <- MCKeys
    Expansion <- MCExpansion
    Override <- MCOverride
    AutoLook <- MCAutoLook
    PropqLimit = 2
    LookLimit = 2
    MetaLimit = 2
    MaxOps = 2
    MaxWaiting = 4
INVARIANTS NamesFindTheBest LocksMeanWhatWasTyped
PROPERTY TurnsEnd
CHECK_DEADLOCK FALSE
