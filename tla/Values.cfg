SPECIFICATION Spec
CONSTANTS
    Mortal = Mortal
    Wiz = Wiz
    Thing = Thing
    Blank = Blank
    Library = Library
    Home = Home
    Root = Root
    One = One
    Players = {Mortal, Wiz}
    Wizards = {Wiz}
    Objects = {Mortal, Wiz, Thing, Blank, Library}
    Kind <- MCKind
    Owner <- MCOwner
    Near <- MCNear
    NameOrder <- MCNameOrder
    Hidden <- MCHidden
    SeeOnly = {}
    ReadOnly <- MCReadOnly
    Private = {}
    MaxPennies = 10
    ObjectCost = 6
    MaxOps = 2
    Paths <- MCPaths
    Written <- MCWritten
    Amounts = {2}
    Directives <- MCDirectives
    Entries <- MCEntries
    Named = {1}
    Keys <- MCKeys
    Items <- MCItems
    MaxHeap = 6
    MaxPropFetch = 3
INVARIANTS RestartsTheSame  SettingsSurvive TuneNamesTheLiving
PROPERTIES MortalProps MoneyKept ValuesStay
CHECK_DEADLOCK FALSE
