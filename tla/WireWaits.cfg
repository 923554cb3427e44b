SPECIFICATION MCSpec
CONSTANTS
    c1 = c1
    c2 = c2
    Ann = Ann
    Wiz = Wiz
    p1 = p1
    p2 = p2
    Nobody = Nobody
    Conns = {c1, c2}
    Authors = {Ann, Wiz}
    Muckers = {Ann, Wiz}
    Masters = {Wiz}
    Programs = {p1, p2}
    Bad = "bad"
    Blank = " "
    PlayerOf <- MCPlayerOf
    RefOf <- MCRefOf
    VersionOf <- MCVersionOf
    LinesOf <- MCLinesOf
    Long = {"long"}
    HelpTypes = {"man"}
    Builtin <- MCBuiltin
    QueueDepth = 1
    Scenes <- MCScenes
    Begin <- MCBegin
INVARIANTS WorldNeverWaitsOnItself
CHECK_DEADLOCK FALSE
