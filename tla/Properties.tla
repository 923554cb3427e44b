------------------------------ MODULE Properties ------------------------------
(***************************************************************************)
(* The property trees of internal/props, as players' commands and MUF      *)
(* primitives write them, as the store keeps them, and the money that is   *)
(* one of them.                                                            *)
(*                                                                         *)
(* A path is a sequence of names.  A tree is a function from the paths     *)
(* that have a node (every prefix of one has one too; the root is left     *)
(* out) to the node: a value, or none, and a blessing, which belongs to    *)
(* the node and not to its value.  Two names that differ in case only are  *)
(* one name here, as they are one key there.                               *)
(*                                                                         *)
(* A value is a record of its kind t and a number n, as in MufMachine; a   *)
(* string that is a list of refs has its refs instead.                     *)
(***************************************************************************)
EXTENDS Integers, FiniteSets, Sequences, SequencesExt

CONSTANTS
    Players,     \* who owns and acts
    Wizards,     \* the players among them who are wizards
    Objects,     \* whatever has properties: the players, things, programs
    Kind,        \* the type of each
    Owner,       \* and its owner
    Near,        \* what each player has at hand
    NameOrder,   \* every name there is, in strcasecmp's order
    Hidden, SeeOnly, ReadOnly, Private,   \* the names with each sigil
    MaxPennies,  \* the parameter max_pennies
    ObjectCost,  \* the parameter object_cost
    MaxOps       \* how many operations a history has

ASSUME PropertiesAssumption ==
    /\ Wizards \subseteq Players /\ Players \subseteq Objects
    /\ Owner \in [Objects -> Players]
    /\ \A x \in Players : Kind[x] = "player" /\ Owner[x] = x

VARIABLES
    tree,    \* the property tree of each object
    marked,  \* the objects marked dirty
    rows,    \* the property rows of each object in the store
    ops      \* how many operations there have been

props == <<tree, marked, rows, ops>>

Int_(n)  == [t |-> "int", n |-> n]
Str_(n)  == [t |-> "str", n |-> n]
Obj_(n)  == [t |-> "obj", n |-> n]
Refs(s)  == [t |-> "refs", refs |-> s]
None     == [t |-> "none", n |-> 0]

\* What a request to store it removes: "", 0, and NOTHING.
IsEmpty(v) == IF v.t = "refs" THEN v.refs = <<>>
              ELSE v.n = (IF v.t = "obj" THEN -1 ELSE 0)

-----------------------------------------------------------------------------
\* Trees (props.go).

Bare == [val |-> None, blessed |-> FALSE]

Nodes(p)    == Prefixes(p) \ {<<>>}
Get(t, p)   == IF p \in DOMAIN t THEN t[p].val ELSE None
Children(t, p) == SelectSeq(NameOrder, LAMBDA n : Append(p, n) \in DOMAIN t)

MakeDir(t, p) ==
    [q \in DOMAIN t \cup Nodes(p) |-> IF q \in DOMAIN t THEN t[q] ELSE Bare]

\* A node goes with the value when nothing but valueless nodes of the same
\* path is left beneath it.
Delete(t, p) ==
    IF p \notin DOMAIN t THEN t
    ELSE LET c    == [t EXCEPT ![p].val = None]
             Stays(q) == \E r \in DOMAIN c : /\ IsPrefix(q, r)
                                             /\ (~IsPrefix(r, p) \/ c[r].val # None)
         IN  [q \in {q \in DOMAIN c : ~IsPrefix(q, p) \/ Stays(q)} |-> c[q]]

Set(t, p, v, blessed) ==
    IF p = <<>> THEN t
    ELSE IF IsEmpty(v) THEN Delete(t, p)
    ELSE [MakeDir(t, p) EXCEPT ![p] = [val |-> v, blessed |-> blessed]]

Bless(t, p, blessed) ==
    IF p \in DOMAIN t THEN [t EXCEPT ![p].blessed = blessed] ELSE t

Beneath(t, p) == {q \in DOMAIN t : IsPrefix(p, q)}
DeleteDir(t, p) == [q \in DOMAIN t \ Beneath(t, p) |-> t[q]]
CountValues(t, p) == Cardinality({q \in Beneath(t, p) : t[q].val # None})

\* What the store keeps of a tree, and the tree it makes of that: a row with
\* no value is a blessed directory.
Rows(t) ==
    {[path |-> p, node |-> t[p]] :
        p \in {p \in DOMAIN t : t[p].val # None \/ t[p].blessed}}
Load(rs) ==
    [p \in UNION {Nodes(r.path) : r \in rs} |->
        IF \E r \in rs : r.path = p THEN (CHOOSE r \in rs : r.path = p).node ELSE Bare]

-----------------------------------------------------------------------------
\* Who may write what (perms.go, propperms.go).  A program is its mucker
\* level and whom it acts for.

Check(p, sigil) == \E i \in 1 .. Len(p) : p[i] \in sigil
IsHidden(p)     == Check(p, Hidden)
IsSeeOnly(p)    == Check(p, SeeOnly)
IsSystem(p)     == p # <<>> /\ p[1] = "@__sys__"

Permissions(who, o) ==
    o = who \/ (Kind[o] # "player" /\ Owner[o] = Owner[who])
Controls(who, o) == who \in Wizards \/ Owner[o] = who
Wizard(x)        == x \in Wizards

ReadPerms(m, o, p) ==
    /\ p # <<>> /\ ~IsSystem(p)
    /\ m.mlev < 3 /\ Check(p, Private) => Permissions(m.uid, o)
    /\ m.mlev < 4 => ~IsHidden(p)

Protected(p) == Check(p, Private) \/ Check(p, ReadOnly) \/ p = <<"sex">>
MutantFirstName(m, o, p) ==
    /\ p # <<>> /\ ~IsSystem(p)
    /\ m.mlev < 3 => /\ Permissions(m.uid, o) \/ ~Protected(p)
                     /\ p[1] # "_msgmacs"
    /\ m.mlev < 4 => p[1] \notin Hidden \cup SeeOnly
WritePerms(m, o, p) ==
    /\ p # <<>> /\ ~IsSystem(p)
    /\ m.mlev < 3 => /\ Permissions(m.uid, o) \/ ~Protected(p)
                     /\ p[1] # "_msgmacs"
    /\ m.mlev < 4 => ~IsSeeOnly(p) /\ ~IsHidden(p)

\* CHECKREMOTE.
Remote(m, o) == m.mlev >= 2 \/ o \in Near[m.uid] \/ Controls(m.uid, o)

-----------------------------------------------------------------------------
\* The world's operations on properties (world.go, muf.go), each of which
\* marks the object.

World == [tree |-> tree, marked |-> marked]

Changed(w, o, t)      == [w EXCEPT !.tree[o] = t, !.marked = @ \cup {o}]
SetProp(w, o, p, v)   == Changed(w, o, Set(w.tree[o], p, v, FALSE))
MutantUnmarked(w, o, p) == [w EXCEPT !.tree[o] = Delete(@, p)]
RemoveProp(w, o, p) == Changed(w, o, Delete(w.tree[o], p))
SetBlessed(w, o, p, blessed) ==
    IF p \in DOMAIN w.tree[o] THEN Changed(w, o, Bless(w.tree[o], p, blessed)) ELSE w

Become(w) == tree' = w.tree /\ marked' = w.marked

Step(w) ==
    /\ ops < MaxOps
    /\ ops' = ops + 1
    /\ Become(w)
    /\ UNCHANGED rows

-----------------------------------------------------------------------------
\* The primitives (prim_db.go, prim_props2.go).  One that is refused ends the
\* program and changes nothing, so it is not a step.

SetPropPrim(m, o, p, v) ==
    /\ Remote(m, o)
    /\ m.mlev >= 2 \/ Permissions(m.uid, o)
    /\ WritePerms(m, o, p)
    /\ Step(SetProp(World, o, p, v))

AddProp(m, o, p, s, n) ==
    SetPropPrim(m, o, p, IF ~IsEmpty(s) THEN s ELSE n)

RemovePropPrim(m, o, p) ==
    /\ Remote(m, o)
    /\ WritePerms(m, o, p)
    /\ Step(RemoveProp(World, o, p))

BlessProp(m, o, p, blessed) ==
    /\ m.mlev >= 4
    /\ Step(SetBlessed(World, o, p, blessed))

\* The name NEXTPROP gives after another in a directory, or after none: one
\* the program may not read is passed over, and a name that is gone ends the
\* walk.
NextProp(m, o, dir, name) ==
    LET c     == Children(tree[o], dir)
        after == {i \in DOMAIN c : /\ name # "" => \E j \in 1 .. i - 1 : c[j] = name
                                   /\ ReadPerms(m, o, Append(dir, c[i]))}
    IN  IF after = {} THEN "" ELSE c[Min(after)]

\* Reflists: a string of refs.  What is not one reads as none; REFLIST_DEL
\* cuts the first of those it is told out of the text.
ReadRefList(v) == IF v.t = "refs" THEN v.refs ELSE <<>>
WriteRefList(w, o, p, list) ==
    IF list = <<>> THEN RemoveProp(w, o, p) ELSE SetProp(w, o, p, Refs(list))
SpliceRef(v, r) == IF v.t = "str" THEN v ELSE Refs(RemoveFirst(ReadRefList(v), r))

ReflistAdd(m, o, p, r) ==
    LET list == ReadRefList(Get(tree[o], p))
    IN  /\ Remote(m, o)
        /\ WritePerms(m, o, p)
        /\ ~Contains(list, r)
        /\ Step(WriteRefList(World, o, p, Append(list, r)))

ReflistDel(m, o, p, r) ==
    /\ Remote(m, o)
    /\ WritePerms(m, o, p)
    /\ Step(SetProp(World, o, p, SpliceRef(Get(tree[o], p), r)))

-----------------------------------------------------------------------------
\* Money: the property @/value (world.go, prim_db.go, give.go).

PropValue == <<"@", "value">>
ValueOf(w, o) == LET v == Get(w.tree[o], PropValue) IN IF v.t = "int" THEN v.n ELSE 0
SetValue(w, o, n) == SetProp(w, o, PropValue, Int_(n))

Affords(w, x, cost) == Wizard(x) \/ ValueOf(w, x) >= cost
PayFor(w, x, cost)  == IF Wizard(x) THEN w ELSE SetValue(w, x, ValueOf(w, x) - cost)

PenniesRange(have, add) ==
    IF add > 0 THEN have + add <= MaxPennies ELSE have + add >= 0

AddPennies(m, o, n) ==
    /\ m.mlev >= 2
    /\ Kind[o] \in {"player", "thing"}
    /\ m.mlev < 4 => Kind[o] = "player" /\ PenniesRange(ValueOf(World, o), n)
    /\ Step(SetValue(World, o, ValueOf(World, o) + n))

\* Both purses are read before either is written.
MutantUncapped(m, from, to, n) ==
    /\ m.mlev >= 2
    /\ {from, to} \subseteq Players
    /\ LET has == ValueOf(World, from)
           had == ValueOf(World, to)
       IN  Step(SetValue(SetValue(World, from, has - n), to, had + n))
MovePennies(m, from, to, n) ==
    /\ m.mlev >= 2
    /\ {from, to} \subseteq Players
    /\ LET has == ValueOf(World, from)
           had == ValueOf(World, to)
       IN  /\ m.mlev < 4 => has - n >= 0 /\ had + n <= MaxPennies
           /\ Step(SetValue(SetValue(World, from, has - n), to, had + n))

Give(x, to, n) ==
    /\ n # 0 /\ (n > 0 \/ Wizard(x))
    /\ ~Wizard(x) => Kind[to] = "player" /\ ValueOf(World, to) + n <= MaxPennies
    /\ Affords(World, x, n)
    /\ LET w == PayFor(World, x, n)
       IN  Step(IF Kind[to] \in {"player", "thing"}
                THEN SetValue(w, to, ValueOf(w, to) + n) ELSE w)

-----------------------------------------------------------------------------
\* Commands (propset.go, build.go, action.go).

PropRestricted(p, wizard) == IsSystem(p) \/ (~wizard /\ (IsHidden(p) \/ IsSeeOnly(p)))

\* @propset, and @set with a property: an empty value, or erase, removes.
Propset(x, o, p, v) ==
    /\ Controls(x, o)
    /\ p # <<>> /\ ~PropRestricted(p, Wizard(x))
    /\ Step(IF IsEmpty(v) THEN RemoveProp(World, o, p) ELSE SetProp(World, o, p, v))

\* @set object=:clear.
UserOwned(p) == ~IsHidden(p) /\ ~IsSeeOnly(p) /\ ~(p[1] = "_" /\ Len(p) > 1)
ClearProperties(x, o) ==
    LET doomed == {p \in DOMAIN tree[o] : /\ tree[o][p].val # None
                                          /\ Wizard(x) \/ UserOwned(p)}
        Clear(t, s) == FoldSet(LAMBDA p, u : Delete(u, p), t, s)
    IN  /\ Controls(x, o)
        /\ doomed # {}
        /\ Step(Changed(World, o, Clear(tree[o], doomed)))

\* @bless and @unbless: every node under dir, or dir/** with what is beneath.
BlessMatches(dir, deep, p) ==
    IsStrictPrefix(dir, p) /\ (deep \/ Len(p) = Len(dir) + 1)
BlessProps(x, o, dir, deep, blessed) ==
    LET chosen == {p \in DOMAIN tree[o] : ~IsSystem(p) /\ BlessMatches(dir, deep, p)}
    IN  /\ Wizard(x)
        /\ chosen # {}
        /\ Step(Changed(World, o, FoldSet(LAMBDA p, t : Bless(t, p, blessed),
                                          tree[o], chosen)))

\* @clone: what is cloned onto the new object's empty tree.
Clone(x, o, c) ==
    LET copied == {p \in DOMAIN tree[o] : /\ tree[o][p].val # None
                                          /\ Wizard(x) \/ ~IsHidden(p)}
        copy   == FoldSet(LAMBDA p, t : Set(t, p, tree[o][p].val, tree[o][p].blessed),
                          <<>>, copied)
        cost   == Max({5 * ValueOf(World, o) + 5, ObjectCost})
    IN  /\ Kind[o] = "thing" /\ Kind[c] = "thing" /\ c # o
        /\ Controls(x, o) /\ Owner[c] = x
        /\ tree[c] = <<>>
        /\ Affords(World, x, cost)
        /\ Step(Changed(PayFor(World, x, cost), c,
                        Set(copy, PropValue, Int_(ValueOf(World, o)), FALSE)))

\* @register: a name under a directory of one's own, or with no object, removed.
\* The one room here is #0, where it looks unless it is told otherwise.
Register(x, o, p, r) ==
    /\ Controls(x, o) \/ Kind[o] = "room"
    /\ IF r = None
       THEN /\ Get(tree[o], p) # None
            /\ Step(RemoveProp(World, o, p))
       ELSE /\ Wizard(x) \/ (o = x /\ ~IsSeeOnly(p) /\ ~IsHidden(p))
            /\ Step(SetProp(World, o, p, r))

\* What a compile writes on its program: each directive in turn, and a mark
\* only when one of them changed something (game/muf.go applyCompileProps).
Directive(s, d) ==
    LET t == s.t IN
    IF d.delete THEN [t |-> DeleteDir(t, d.path),
                      changed |-> s.changed \/ CountValues(t, d.path) > 0]
    ELSE IF (d.keep /\ d.path \in DOMAIN t) \/ Get(t, d.path) = d.value THEN s
    ELSE [t |-> Set(t, d.path, d.value, FALSE), changed |-> TRUE]
Compiled(t, ds) == FoldLeft(Directive, [t |-> t, changed |-> FALSE], ds)

Compile(o, ds) ==
    LET s == Compiled(tree[o], ds)
    IN  /\ Kind[o] = "program"
        /\ Step([tree   |-> [tree EXCEPT ![o] = s.t],
                 marked |-> IF s.changed THEN marked \cup {o} ELSE marked])

-----------------------------------------------------------------------------
\* The store: a flush writes the marked objects' rows, a restart reads them.

Flush ==
    /\ marked # {}
    /\ rows' = [o \in Objects |-> IF o \in marked THEN Rows(tree[o]) ELSE rows[o]]
    /\ marked' = {}
    /\ UNCHANGED <<tree, ops>>

Restart ==
    /\ tree' = [o \in Objects |-> Load(rows[o])]
    /\ marked' = {}
    /\ UNCHANGED <<rows, ops>>

-----------------------------------------------------------------------------
\* What a program, a player and a boot may do.

CONSTANTS Paths, Written, Amounts, Directives, Entries, Named

WritesTo(m, o) ==
    \E p \in Paths :
        \/ \E v \in Written : SetPropPrim(m, o, p, v)
        \/ \E n \in Written \cup {Int_(0)} : AddProp(m, o, p, Str_(0), n)
        \/ RemovePropPrim(m, o, p)
        \/ \E r \in Named : ReflistAdd(m, o, p, r) \/ ReflistDel(m, o, p, r)
Writes(m) == \E o \in Objects : WritesTo(m, o)

Blesses(m) ==
    \E o \in Objects, p \in Paths, b \in BOOLEAN : BlessProp(m, o, p, b)

Pays(m) ==
    \E o, q \in Objects, n \in Amounts :
        AddPennies(m, o, n) \/ AddPennies(m, o, -n) \/ MovePennies(m, o, q, n)

Gives(x) == \E o \in Objects, n \in Amounts : Give(x, o, n) \/ Give(x, o, -n)

Commands(x) ==
    \E o \in Objects :
        \/ \E p \in Paths, v \in Written \cup {Str_(0)} : Propset(x, o, p, v)
        \/ ClearProperties(x, o)
        \/ \E p \in Paths \cup {<<>>}, deep, b \in BOOLEAN : BlessProps(x, o, p, deep, b)
        \/ \E c \in Objects : Clone(x, o, c)
        \/ \E p \in Entries, r \in {Obj_(1), None} : Register(x, o, p, r)

Compiles == \E o \in Objects, ds \in Directives : Compile(o, ds)
=============================================================================
