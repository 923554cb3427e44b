------------------------------- MODULE MCValues -------------------------------
(***************************************************************************)
(* Properties and arrays checked together: a mortal and a wizard, the      *)
(* mortal's thing, program and a thing not yet given any property, and a   *)
(* world in which a list kept in the old spelling, a blessed directory and *)
(* some money are already there.                                           *)
(***************************************************************************)
EXTENDS MufArrays

CONSTANTS Mortal, Wiz, Thing, Blank, Library, Home, Root, One

VARIABLES
    tuned, kind, touched, stored, serving, configured,   \* as in Tuning
    view      \* the parameters a behaviour is about; none, and it is about the rest

\* The parameters: one of each type, one that its type of object keeps from
\* ever being set, and those that name a room and a player.
ParamTypes ==
    [flag |-> "boolean", count |-> "integer", motd |-> "string", title |-> "string",
     smtp_auth |-> "string", age |-> "timespan",
     player_start |-> "dbref", toad_recipient |-> "dbref", welcome_what |-> "dbref"]
Word(w)   == [form |-> "word", word |-> w]
Number(n) == [form |-> "number", number |-> n]
Clock(c)  == [form |-> "clock", clock |-> c]
Units(u)  == [form |-> "units", units |-> u]
RefTo(o)  == [form |-> "ref", ref |-> o]
Named_(o) == [form |-> "name", named |-> o]
Empty     == [form |-> "empty"]
Line(name, default, text) == [kind |-> "param", name |-> name, default |-> default, text |-> text]
Heading == [kind |-> "comment"]

T == INSTANCE Tuning WITH
        Params <- DOMAIN ParamTypes,
        ParamOf <- [p \in DOMAIN ParamTypes |-> p] @@ ("smtp_ssl" :> "smtp_auth"),
        Dropped <- {"ssl_port"},
        ParamType <- ParamTypes,
        Default <- [flag |-> TRUE, count |-> 1, motd |-> Empty, title |-> Word("on"),
                    smtp_auth |-> Word("no"), age |-> 3 * 3600,
                    player_start |-> Root, toad_recipient |-> One, welcome_what |-> Root],
        WriteLevel <- [p \in DOMAIN ParamTypes |->
                         IF p \in {"smtp_auth", "welcome_what"} THEN 255 ELSE 4],
        Nullable <- {"motd", "count"},
        RefType <- ("player_start" :> "room") @@ ("toad_recipient" :> "player")
                   @@ ("welcome_what" :> "none"),
        PlayerStart <- "player_start",
        Things <- {Root, One, Home, Mortal},
        God <- One,
        MadeAs <- (Root :> "room") @@ (One :> "player") @@ (Home :> "room") @@ (Mortal :> "player"),
        MadeTypes <- {"thing"},
        LevelOf <- (One :> 255) @@ (Mortal :> 1),
        FirstLetter <- [yes |-> "y", yellow |-> "y", no |-> "n", on |-> "o"],
        Typed <- [p \in DOMAIN ParamTypes |->
                    CASE ParamTypes[p] = "boolean" ->
                           {Word("yes"), Word("yellow"), Word("no"), Word("on"), Number(0), Empty}
                      [] ParamTypes[p] = "integer" -> {Number(0), Number(-2), Word("no"), Empty}
                      [] ParamTypes[p] = "string" -> {Word("yes"), Empty}
                      [] ParamTypes[p] = "timespan" ->
                           {Number(0), Number(90), Clock(<<0, 0, 0, 0>>), Clock(<<1, 2, 3, 4>>),
                            Units(<<<<1, "d">>, <<12, "h">>>>), Units(<<<<90, "m">>>>),
                            Units(<<<<1, "d">>>>), Units(<<<<5, "d">>>>), Clock(<<0, -1, 0, -30>>)}
                      [] OTHER -> {RefTo(Home), RefTo(One), Named_(Mortal)}],
        Dumps <- { << Heading, Line("ssl_port", FALSE, Number(1)), Line("gone", FALSE, Number(1)),
                      Line("flag", TRUE, Word("no")), Line("age", TRUE, Clock(<<0, 1, 0, 0>>)) >>,
                   << Line("smtp_ssl", FALSE, Word("yes")), Line("count", FALSE, Word("no")),
                      Line("motd", FALSE, Word("yes")) >> },
        TicksPerSecond <- 3,
        SpanWidth <- 2 ^ 20
tuning == <<tuned, kind, touched, stored, serving, configured>>

MCKind  == (Mortal :> "player") @@ (Wiz :> "player") @@ (Thing :> "thing")
           @@ (Blank :> "thing") @@ (Library :> "program")
MCOwner == [o \in {Mortal, Wiz, Thing, Blank, Library} |-> IF o = Wiz THEN Wiz ELSE Mortal]
MCNear  == (Mortal :> {Mortal, Thing}) @@ (Wiz :> {Wiz})

MCNameOrder == << "#", "-1", "0", "1", "2", "3", "@", "@b", "@b#", "_defs", "_r", "_r#",
                  "_reg", "a", "a#", "a1", "me", "value", "x" >>
MCHidden    == {"@", "@b", "@b#"}
MCReadOnly  == {"_defs", "_r", "_r#", "_reg"}

MCPaths   == {<<"a">>, <<"a", "@b">>, <<"_r">>}
MCWritten == {Int_(1)}
MCEntries == {<<"_reg", "me">>}

Def(name) == [delete |-> FALSE, keep |-> FALSE, path |-> <<"_defs", name>>, value |-> Str_(3)]
NoDefs    == [delete |-> TRUE, keep |-> FALSE, path |-> <<"_defs">>, value |-> None]
LibDef    == [Def("x") EXCEPT !.keep = TRUE]
MCDirectives == {<<NoDefs, Def("a")>>, <<LibDef>>, <<NoDefs>>}

MCKeys  == {Int_(1), NameKey("x")}
MCItems == {Str_(2)}

Programs == {[mlev |-> 1, uid |-> Mortal], [mlev |-> 3, uid |-> Mortal],
             [mlev |-> 4, uid |-> Wiz]}
Lesser   == {m \in Programs : m.mlev < 4}
God      == [mlev |-> 4, uid |-> Wiz]

values == <<tree, marked, rows, ops, heap>>
vars == <<values, tuning, view>>

Node(v, b)  == [val |-> v, blessed |-> b]
Purse(n)   == [p \in {<<"@">>, PropValue} |-> Node(IF p = PropValue THEN Int_(n) ELSE None, FALSE)]
InitialTree ==
    [o \in Objects |->
        CASE o = Mortal  -> Set(Set(Set(Purse(7), <<"a1">>, Str_(2), FALSE),
                                    <<"a", "@b">>, Int_(2), TRUE),
                                <<"a">>, Int_(2), TRUE)
          [] o = Wiz     -> Purse(9)
          [] o = Thing   -> Set(Purse(0), <<"a", "x">>, Int_(4), FALSE)
          [] o = Blank   -> <<>>
          [] o = Library -> Set(<<>>, <<"_defs", "x">>, Str_(3), FALSE)]

Init ==
    /\ tree = InitialTree
    /\ rows = [o \in Objects |-> Rows(InitialTree[o])]
    /\ marked = {}
    /\ ops = 0
    /\ heap = << List(<<Int_(2), Str_(1), Int_(1)>>),
                 Dict(Int_(1) :> Str_(1) @@ NameKey("a") :> Arr_(1)) >>
    /\ view \in {{}, {"flag"}, {"count"}, {"motd"}, {"title"}, {"smtp_auth"}, {"age"},
                 {"player_start", "toad_recipient"}, {"welcome_what"}}
    /\ T!TuneInit
    /\ view = {} => configured = {}

Programming == \E m \in Programs : Writes(m) \/ Blesses(m) \/ Pays(m)
Saving      == \E x \in Players, o \in Objects : McpSaves(x, o)
Playing     == \E x \in Players : Gives(x) \/ Commands(x)

\* Asked first: at the bound only a flush or a restart is left.
Going == view = {} /\ ops < MaxOps

Aside == UNCHANGED <<tuning, view>>
Next ==
    \/ Going /\ Programming /\ UNCHANGED heap /\ Aside
    \/ Going /\ Playing /\ UNCHANGED heap /\ Aside
    \/ Going /\ Saving /\ UNCHANGED heap /\ Aside
    \/ Going /\ Compiles /\ UNCHANGED heap /\ Aside
    \/ Going /\ (\E m \in Programs : Store(m)) /\ UNCHANGED heap /\ Aside
    \/ Going /\ (\E m \in Programs : Fetch(m)) /\ Aside
    \/ Going /\ (\E a \in DOMAIN heap : Edit(a) \/ Splice(a)) /\ Aside
    \/ Going /\ (\E a \in DOMAIN heap : Arrange(a) \/ Combine(a)) /\ Aside
    \/ Going /\ (\E a \in DOMAIN heap : Nest(a)) /\ Aside
    \/ view = {} /\ Flush /\ UNCHANGED heap /\ Aside
    \/ view = {} /\ Restart /\ UNCHANGED heap /\ Aside
    \/ view # {} /\ T!TuneNext(view) /\ UNCHANGED <<values, view>>

Spec == Init /\ [][Next]_vars

-----------------------------------------------------------------------------
\* What a directory holds is what has a value, and the way to it.
Held(t) == {p \in DOMAIN t : CountValues(t, p) > 0}
Whole(t) == [p \in Held(t) |-> t[p]]

\* An object nobody has marked reads the same after a restart: no operation,
\* of a program, a player or the compiler, changes a value or the blessing of
\* a node on the way to one and leaves the object out of the next flush.
RestartsTheSame ==
    view = {} => \A o \in Objects \ marked : Whole(Load(rows[o])) = Whole(tree[o])

\* The nodes of a tree a mortal may not write.
Guarded(t) == [p \in {p \in DOMAIN t : IsHidden(p) \/ IsSeeOnly(p)} |-> t[p]]

\* However a path is put together, from the caller's string, a list's count
\* and items or a dictionary's keys, a program below wizard level, or a
\* mortal's client that saves what it edited, leaves every
\* hidden or see-only node as it is, blessings and directories included.
MortalProps ==
    [][\A o \in Objects :
          tree[o]' # tree[o] /\ Guarded(tree[o])' # Guarded(tree[o])
             => /\ ~ \E m \in Lesser : WritesTo(m, o) \/ StoresTo(m, o)
                /\ ~McpSaves(Mortal, o)]_vars

\* A list written over whatever was there reads back as it was written, and
\* NEXTPROP from the start of any directory gives the names that may be read,
\* each once and in order.
ListsReadBack ==
    \A o \in Objects, p \in {<<"a">>, <<"_r">>}, s \in {<<Int_(1)>>, <<Str_(3), Int_(2)>>} :
        GetProplist(God, o, PutItems(World, o, p, s).tree[o], p) = s
WalksAll ==
    \A m \in Programs, o \in Objects, dir \in {<<>>, <<"a">>} :
        LET names == SelectSeq(Children(tree[o], dir),
                               LAMBDA n : ReadPerms(m, o, Append(dir, n)))
            walk[i \in 0 .. Len(names) + 1] ==
                IF i = 0 THEN "" ELSE NextProp(m, o, dir, walk[i - 1])
        IN  /\ \A i \in DOMAIN names : walk[i] = names[i]
            /\ walk[Len(names) + 1] = ""

\* Where the money is, and the steps that are a mortal's.
Worth    == MapThenSumSet(LAMBDA o : ValueOf(World, o), Objects)
InPurse(x) == ValueOf(World, x) \in 0 .. MaxPennies
MortalActs ==
    \/ Gives(Mortal)
    \/ Commands(Mortal)
    \/ \E o \in Objects : McpSaves(Mortal, o)
    \/ \E m \in Lesser :
          \/ Writes(m)
          \/ Store(m)
          \/ \E x, y \in Players, n \in Amounts : x # y /\ MovePennies(m, x, y, n)
MortalAdds == \E m \in Lesser, o \in Objects, n \in Amounts :
                  AddPennies(m, o, n) \/ AddPennies(m, o, -n)

\* Only wizards and ADDPENNIES make money: nothing a mortal's command or
\* program does adds to what the objects are worth together, or takes a
\* player's purse below nothing or above max_pennies.  A move from a purse to
\* itself is left out; it does make money.
MoneyKept ==
    [][tree' # tree =>
         /\ Worth' > Worth => ~MortalActs
         /\ (\E x \in Players : InPurse(x) /\ ~InPurse(x)') => ~(MortalActs \/ MortalAdds)]_vars

\* An array a program holds never changes under it, whatever else holds it and
\* whatever is made from it.
ValuesStay == [][\A a \in DOMAIN heap : heap'[a] = heap[a]]_vars

\* A parameter that is not to be written is in the store as it is in memory:
\* what the loader's reader makes of what Format wrote is the value SetParm
\* took, through a legacy name, a failed flush, the configurator and a dump.
\* A span that overflowed is left out: Format drops the fraction it then has.
SettingsSurvive ==
    serving /\ ~tuned.dirty =>
        \A p \in view :
            \/ T!LoadTune(stored.rows).value[p] = tuned.value[p]
            \/ ParamTypes[p] = "timespan" /\ tuned.value[p] % 3 # 0

\* The types the parameters that name objects ask for (tune/params_gen.go).
Wants == [player_start |-> "room", toad_recipient |-> "player"]

\* A parameter that names an object names a live one of the type it wants,
\* unless a dump or the configurator, which ask for neither, set it: whatever
\* is recycled or toaded, whatever takes a freed ref, and whichever write
\* fails or is lost in a crash.
TuneNamesTheLiving ==
    serving => \A p \in DOMAIN Wants \ configured : kind[tuned.value[p]] = Wants[p]

-----------------------------------------------------------------------------
Inserted(c, k) == DeleteItem(InsertItem(c, k, Int_(9)), k)
Cut(c, k)      == CutAt(c, k)
SetOf(c)       == Range(ValuesOf(c))
NoTwice(s)     == \A i, j \in DOMAIN s : i # j => s[i] # s[j]

ListLaws(c) ==
    \A k \in {k \in Keys : k.t = "int" /\ k.n <= Size(c)} :
        /\ Inserted(c, k) = c
        /\ ValuesOf(CutAt(c, k)[1]) \o ValuesOf(CutAt(c, k)[2]) = ValuesOf(c)
        /\ \A d \in Range(heap) :
              Size(d) > 0 =>
              GetRange(InsertRange(c, k, d), k, Int_(k.n + Size(d) - 1)).list = ValuesOf(d)
DictLaws(c) ==
    \A j, k \in Keys :
        LET within == GetRange(c, j, k).dict
            rest   == DelRange(c, j, k).dict
        IN  /\ DOMAIN within \cup DOMAIN rest = DOMAIN c.dict
            /\ DOMAIN within \cap DOMAIN rest = {}
SetLaws(c, d) ==
    /\ Range(Union(<<c, d>>)) = SetOf(c) \cup SetOf(d) /\ NoTwice(Union(<<c, d>>))
    /\ Range(Intersect(<<c, d>>)) = SetOf(c) \cap SetOf(d)
    /\ Range(Difference(<<c, d>>)) = SetOf(c) \ SetOf(d) /\ NoTwice(Difference(<<c, d>>))
NestLaws(a) ==
    \A j, k \in Keys :
        LET s == SetNested(heap, a, <<j, k>>, Int_(9)) IN NestedGet(s.h, s.at, <<j, k>>) = Int_(9)
WalkLaws(c) ==
    \A i \in 1 .. Size(c) - 1 : /\ Beside(c, KeysOf(c)[i], 1) = KeysOf(c)[i + 1]
                                /\ Beside(c, KeysOf(c)[i + 1], -1) = KeysOf(c)[i]

\* What the array primitives promise of each other, in every array made: what
\* is inserted is deleted again, the two halves of a cut are the whole, a range
\* of a dictionary and the rest of it share nothing, a range put in is the
\* range taken out, a nested value reads back, and the n-way operations are
\* those on sets.
ArrayLaws ==
    \A a \in {Len(heap) - 1, Len(heap)} :
        LET c == heap[a]
        IN  /\ IsList(c) => ListLaws(c)
            /\ ~IsList(c) => DictLaws(c)
            /\ \A d \in {heap[1], heap[2]} : SetLaws(c, d)
            /\ NestLaws(a)
            /\ WalkLaws(c)

\* What was put in comes out, of property lists, directories and arrays.
ReadsBack == view = {} => ListsReadBack /\ WalksAll /\ ArrayLaws
=============================================================================
