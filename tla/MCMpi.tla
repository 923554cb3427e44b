-------------------------------- MODULE MCMpi ----------------------------------
(***************************************************************************)
(* Small MPI messages, shown.  A message is the description of o, which p  *)
(* owns and looks at twice; around o is r, which q owns, and around that   *)
(* #0.  Each is a simple part in two structures, with a property x to      *)
(* read, run and write, and a macro f to call.                             *)
(***************************************************************************)
EXTENDS Integers, Sequences, SequencesExt

VARIABLES
    mtree, mmarked,   \* the property trees, and the objects marked dirty
    scene,            \* the message, as a tree, and what else is written where
    looks             \* how often it has been looked at

mpivars == <<mtree, mmarked, scene, looks>>

MPlayers == {"p", "q"}
MObjects == MPlayers \cup {"o", "r", "g"}
MNames   == <<"#", "0", "1", "2", "3", "4", "5", "@x", "_msgmacs", "desc", "f", "x", "y", "~x">>

M == INSTANCE MpiReference WITH
    tree <- mtree, marked <- mmarked, rows <- <<>>, ops <- 0,
    Players <- MPlayers, Wizards <- {}, Objects <- MObjects,
    Kind <- [o \in MObjects |-> IF o \in MPlayers THEN "player" ELSE "thing"],
    Owner <- [o \in MObjects |-> IF o \in {"p", "o"} THEN "p" ELSE "q"],
    Near <- [o \in MPlayers |-> MObjects], NameOrder <- MNames,
    Hidden <- {"@x"}, SeeOnly <- {"~x"}, ReadOnly <- {"_msgmacs"}, Private <- {},
    MaxPennies <- 1, ObjectCost <- 1, MaxOps <- 0,
    Paths <- {}, Written <- {}, Amounts <- {}, Directives <- {}, Entries <- {}, Named <- {},
    Global <- "g", Nowhere <- "nowhere",
    Parent <- [o \in MObjects |-> CASE o = "g" -> "nowhere" [] o = "o" -> "r" [] OTHER -> "g"],
    Called <- (<<"o">> :> "o" @@ <<"r">> :> "r"), ReadLocks <- {},
    RecursionLimit <- 16, MaxVariables <- 8, MaxArgs <- 9, MaxFuncs <- 4, MaxListLen <- 6,
    MaxCommands <- 60, MaxNameLen <- 16, MaxEnvDepth <- 8, MaxNumber <- 9999

ASSUME M!MpiAssumption

Its(w) == <<<<"word", w>>>>
N == <<"var", "n">>

SimpleParts ==
    {<<"word", "3">>, N, <<"set", "n", Its("0")>>, <<"set", "z", Its("0")>>, <<"step", "INC", "n">>,
     <<"prop", "PROP", <<"x">>>>, <<"prop", "PROP!", <<"x">>>>, <<"prop", "EXEC", <<"x">>>>,
     <<"propof", "EXEC!", <<"x">>, "r">>, <<"prop", "PROP", <<"@x">>>>,
     <<"store", Its("4"), <<"x">>>>, <<"store", <<>>, <<"x">>>>, <<"store", Its("4"), <<"@x">>>>,
     <<"bless", <<"x">>>>, <<"call", "f", <<N>>>>}

\* What binds, goes round, defines or works on a copy, and the rest.
Scoping(b) ==
    {<<<<"with", "n", Its("5"), b>>>>, <<<<"set", "n", b>>>>,
     <<<<"eval", "EVAL", b>>>>, <<<<"eval", "EVAL!", b>>>>,
     <<<<"for", "i", 1, 2, b>>>>, <<<<"each", "FILTER", "n", <<"0", "1">>, b>>>>,
     <<<<"fold", "n", "i", <<"1", "2", "3">>, b>>>>, <<<<"while", <<<<"step", "DEC", "n">>>>, b>>>>,
     <<<<"func", "h", "n", b>>, <<"call", "h", Its("1")>>>>, <<<<"call", "f", b>>>>}
Whole(b) ==
    Scoping(b) \cup
    {<<<<"if", <<N>>, b, Its("5")>>>>, <<<<"both", "AND", b, <<N>>>>>>, <<<<"both", "OR", b, <<N>>>>>>,
     <<<<"default", b, Its("5")>>>>, <<<<"eval", "REVOKE", b>>>>,
     <<<<"store", b, <<"y">>>>, <<"prop", "PROP", <<"y">>>>>>,
     <<<<"each", "PARSE", "i", <<"0", "1">>, b>>>>, <<<<"each", "FOREACH", "i", <<"0", "1">>, b>>>>}

\* Lists of two or three, which the functions of lists work on.
Few == {<<"1">>, <<"1", "2">>, <<"2", "1", "2">>, <<"3", "1", "2">>}
Listed == {<<"sets", f, a, b>> : f \in {"LUNION", "LCOMMON", "LREMOVE"}, a \in Few, b \in Few}
          \cup {<<"sort", a>> : a \in Few} \cup {<<"quoted", "n">>, <<"escaped", "{">>}
          \cup {<<"slice", a, i, j>> : a \in Few, i \in -3 .. 3, j \in -3 .. 3}

WithN(b) == <<<<"with", "n", Its("2"), b \o <<N>>>>>>

\* What x may say, and where it and the macro may be.
Storing == <<<<"store", Its("4"), <<"@x">>>>, <<"word", "0">>>>
Exes == {<<<<"set", "n", Its("1")>>>>,
         <<<<"with", "k", Its("1"), <<<<"set", "n", Its("1")>>, <<"prop", "PROP", <<"@x">>>>>>>>>>,
         Storing}
Macro_ == <<<<"arg">>, <<"step", "INC", "n">>>>

Says(body, blessed) == [body |-> body, blessed |-> blessed]
At(o, path) == <<o, path>>

\* trust: whether the description is blessed, and x; places: where x is, and f.
Scenes(bodies, exes, trust, places) ==
    {(At("o", <<"desc">>) :> Says(WithN(b), t[1])
      @@ At(place[1], <<"x">>) :> Says(x, t[2])
      @@ At("o", <<"@x">>) :> Says(Its("9"), FALSE)
      @@ At(place[2], <<"_msgmacs", "f">>) :> Says(Macro_, FALSE)) :
         b \in bodies, x \in exes, t \in trust, place \in places}

One == {<<s>> : s \in SimpleParts}
Two == UNION {Whole(b) : b \in One}
Three == UNION {Scoping(b) : b \in Two}

Tree(s) == [o \in MObjects |->
    FoldLeft(LAMBDA t, at : M!Set(t, at[2], M!Text(M!Written_(s[at].body)), s[at].blessed),
             <<>>, SetToSeq({at \in DOMAIN s : at[1] = o}))]

Anyone == BOOLEAN \X BOOLEAN
MessageInit ==
    /\ scene \in Scenes(Two, Exes, Anyone, {<<"r", "o">>, <<"o", "r">>})
                 \cup Scenes(Three, {Storing}, {<<FALSE, TRUE>>}, {<<"r", "o">>})
                 \cup Scenes({<<m>> : m \in Listed}, {Its("0")}, {<<FALSE, FALSE>>}, {<<"r", "o">>})
    /\ mtree = Tree(scene) /\ mmarked = {} /\ looks = 0
NoMessage == mtree = <<>> /\ mmarked = {} /\ scene = <<>> /\ looks = 0

Look ==
    /\ scene # <<>> /\ looks = 0
    /\ looks' = 1
    /\ M!ShowMessage("p", "o", <<"desc">>, <<"H">>)
    /\ UNCHANGED scene

-----------------------------------------------------------------------------
\* What the message means, from what is written, the first time and the next.
Start ==
    [vars |-> <<<<"how", <<"H">>>>, <<"cmd", <<>>>>, <<"arg", <<>>>>>>, props |-> scene,
     funcs |-> <<>>, walls |-> <<>>, who |-> "p", what |-> "o", perms |-> "o", wild |-> FALSE,
     blessed |-> scene[At("o", <<"desc">>)].blessed, heeded |-> scene[At("o", <<"desc">>)].blessed]
Message == scene[At("o", <<"desc">>)].body
RECURSIVE Looked(_, _)
Looked(r, times) ==
    IF times = 0 THEN r
    ELSE Looked(M!Meaning([Start EXCEPT !.props = r.e.props, !.wild = r.e.wild, !.heeded = r.e.heeded],
                          Message), times - 1)
Meant_ == Looked(M!Ok(Start, <<>>), looks + 1)

Limits_ == {"Recursion limit exceeded.", "Instruction limit exceeded.",
            "Too many variables already defined.", "Too many functions defined."}
Why(r) == IF r.err = <<>> THEN "" ELSE r.err[1][2]

ValuesOf(t) ==
    [at \in {<<o, p>> \in MObjects \X UNION {DOMAIN t[q] : q \in MObjects} : M!Get(t[o], p) # M!None} |->
        [text |-> t[at[1]][at[2]].val.text, blessed |-> t[at[1]][at[2]].blessed]]
Kept_(props) == [at \in DOMAIN props |-> [text |-> M!Written_(props[at].body), blessed |-> props[at].blessed]]

\* What was shown, r, against what was meant, m.
SaysTheSame(r, m) ==
    \/ m.e.wild
    \/ Why(r) \in Limits_
    \/ Why(r) = Why(m) /\ r.s = m.s /\ ValuesOf(r.e.w.tree) = Kept_(m.e.props)
Unwritable == {<<"@x">>, <<"~x">>, <<"_msgmacs", "f">>}
Guards(r, m) ==
    m.e.wild \/ m.e.heeded
    \/ \A o \in MObjects, p \in Unwritable : M!Get(r.e.w.tree[o], p) = M!Get(Tree(scene)[o], p)
Saved_(r) == \A o \in MObjects : mtree[o] # r.e.w.tree[o] => o \in r.e.w.marked
Shows(r, m) == SaysTheSame(r, m) /\ Saved_(r) /\ Guards(r, m)

\* However a message nests its variables, loops, macros and the texts it has
\* evaluated, its reader sees what its structure says, or the error where it
\* says there is one, and what it leaves written and blessed is what it says,
\* on objects that are marked to be saved: the shared arrays, the copies of the
\* environment and the parser never show, but for the things the
\* implementation is known to answer differently (wild, in MpiReference) and
\* the limits.  And a message that is not blessed, and runs nothing that is,
\* leaves alone every name a player may not write, and every macro.
MessagesMeanWhatIsWritten ==
    scene # <<>> => Shows(M!Shown("p", "o", <<"desc">>, <<"H">>), Meant_)
===============================================================================
