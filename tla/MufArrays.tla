------------------------------- MODULE MufArrays -------------------------------
(***************************************************************************)
(* MUF arrays (internal/muf: array.go, prim_array.go, prim_array2.go).     *)
(*                                                                         *)
(* An array is a list of values or a dictionary whose keys are integers    *)
(* and strings.  A value names an array by its place in the heap, as a Go  *)
(* value holds a pointer to one: what keeps a program's arrays from        *)
(* changing under it is that a primitive copies an array before it writes  *)
(* on the copy.                                                            *)
(***************************************************************************)
EXTENDS Properties

CONSTANTS
    Keys,         \* the keys programs use
    Items,        \* the values they store
    MaxHeap,      \* how many arrays there may be
    MaxPropFetch  \* the parameter max_propfetch

VARIABLE heap     \* the arrays there have been

Arr_(a) == [t |-> "arr", n |-> a]
Result(h, a) == [h |-> h, at |-> a]

IsList(c) == "list" \in DOMAIN c
List(s)   == [list |-> s]
Dict(f)   == [dict |-> f]
NoItems   == Dict(<<>>)

-----------------------------------------------------------------------------
\* An array's own operations (array.go).

Keyed(k) == k.t \in {"int", "str"}
KeyLess(j, k) == IF j.t # k.t THEN j.t = "int" ELSE j.n < k.n
Sorted(S) ==
    [i \in 1 .. Cardinality(S) |->
        CHOOSE k \in S : Cardinality({j \in S : KeyLess(j, k)}) = i - 1]

KeysOf(c)   == IF IsList(c) THEN [i \in DOMAIN c.list |-> Int_(i - 1)]
               ELSE Sorted(DOMAIN c.dict)
ValuesOf(c) == IF IsList(c) THEN c.list
               ELSE LET ks == KeysOf(c) IN [i \in DOMAIN ks |-> c.dict[ks[i]]]
Size(c)     == Len(KeysOf(c))

Has(c, k)  == IF IsList(c) THEN k.t = "int" /\ k.n \in 0 .. Len(c.list) - 1
              ELSE k \in DOMAIN c.dict
Item(c, k) == IF IsList(c) THEN c.list[k.n + 1] ELSE c.dict[k]

ToDict(c) == IF IsList(c) THEN Dict([k \in Range(KeysOf(c)) |-> c.list[k.n + 1]]) ELSE c

With(f, k, v) == [j \in DOMAIN f \cup {k} |-> IF j = k THEN v ELSE f[j]]
SetItem(c, k, v) ==
    IF IsList(c) /\ k.t = "int" /\ k.n \in 0 .. Len(c.list)
    THEN List([i \in 1 .. Len(c.list) + (IF k.n = Len(c.list) THEN 1 ELSE 0) |->
                  IF i = k.n + 1 THEN v ELSE c.list[i]])
    ELSE IF Keyed(k) THEN Dict(With(ToDict(c).dict, k, v)) ELSE ToDict(c)

DeleteItem(c, k) ==
    IF ~Has(c, k) THEN c
    ELSE IF IsList(c) THEN List(RemoveAt(c.list, k.n + 1))
    ELSE Dict([j \in DOMAIN c.dict \ {k} |-> c.dict[j]])

AppendItem(c, v) == IF IsList(c) THEN List(Append(c.list, v))
                    ELSE SetItem(c, Int_(Size(c)), v)

Clamp(n, c) == IF n < 0 THEN 0 ELSE IF n > Len(c.list) THEN Len(c.list) ELSE n
InsertItem(c, k, v) ==
    IF IsList(c) /\ k.t = "int" THEN List(InsertAt(c.list, Clamp(k.n, c) + 1, v))
    ELSE SetItem(c, k, v)

\* Numbers before everything else, and strings by themselves.
ValueLess(v, w) == IF v.t = "str" /\ w.t = "str" THEN v.n < w.n
                   ELSE v.t = "int" /\ (w.t = "int" => v.n < w.n)

\* The pairs of an array with given keys, as the same kind of array.
Only(c, S) == LET ks == SelectSeq(KeysOf(c), LAMBDA k : k \in S)
              IN  IF IsList(c) THEN List([i \in DOMAIN ks |-> Item(c, ks[i])])
                  ELSE Dict([k \in S |-> c.dict[k]])
InRange(k, from, to) == ~ValueLess(k, from) /\ ~ValueLess(to, k)
GetRange(c, from, to) ==
    LET within == {k \in Range(KeysOf(c)) : InRange(k, from, to)}
    IN  IF IsList(c) /\ from.t = "int" /\ to.t = "int" THEN Only(c, within)
        ELSE Only(ToDict(c), within)

CutAt(c, k) ==
    LET ks    == KeysOf(c)
        split == IF \E i \in DOMAIN ks : ~ValueLess(ks[i], k)
                 THEN CHOOSE i \in DOMAIN ks : /\ ~ValueLess(ks[i], k)
                                               /\ \A j \in 1 .. i - 1 : ValueLess(ks[j], k)
                 ELSE Len(ks) + 1
        left  == {ks[i] : i \in 1 .. split - 1}
    IN  <<Only(c, left), Only(c, Range(ks) \ left)>>

\* ARRAY_SORT: a stable sort, which for as few as these is by insertion.
InsertSorted(s, v, Less(_, _)) ==
    LET Stays(i) == \A j \in i .. Len(s) : Less(v, s[j])
        at == IF \E i \in DOMAIN s : Stays(i) THEN CHOOSE i \in DOMAIN s :
                     Stays(i) /\ \A j \in 1 .. i - 1 : ~Stays(j)
              ELSE Len(s) + 1
    IN  InsertAt(s, at, v)
SortBy(s, Less(_, _)) == FoldLeft(LAMBDA r, v : InsertSorted(r, v, Less), <<>>, s)
SortValues(s, descending) ==
    SortBy(s, LAMBDA v, w : IF descending THEN ValueLess(w, v) ELSE ValueLess(v, w))

\* The n-way set operations: values once each, in order.
Once(s) == FoldLeft(LAMBDA r, v : IF Contains(r, v) THEN r ELSE Append(r, v), <<>>, s)
Union(cs)      == SortValues(Once(FoldLeft(LAMBDA r, c : r \o ValuesOf(c), <<>>, cs)), FALSE)
Kept(cs, keep(_)) == SortValues(Once(SelectSeq(ValuesOf(cs[1]), keep)), FALSE)
Intersect(cs)  == Kept(cs, LAMBDA v : \A i \in 2 .. Len(cs) : Contains(ValuesOf(cs[i]), v))
Difference(cs) == Kept(cs, LAMBDA v : \A i \in 2 .. Len(cs) : ~Contains(ValuesOf(cs[i]), v))

\* ARRAY_NEXT and ARRAY_PREV: the key beside a key, or none.
Beside(c, k, d) ==
    LET ks == KeysOf(c)
        at == {i \in DOMAIN ks : ks[i] = k /\ i + d \in DOMAIN ks}
    IN  IF at = {} THEN None ELSE ks[(CHOOSE i \in at : TRUE) + d]

-----------------------------------------------------------------------------
\* Copies in the heap.

New(h, c)       == Result(Append(h, c), Len(h) + 1)
Mutate(h, a, c) == [h EXCEPT ![a] = c]
MutantShares(h, a) == IF IsList(h[a]) THEN New(h, h[a]) ELSE Result(h, a)
Copy(h, a) == New(h, h[a])

Edited(a, Op(_)) == LET r == Copy(heap, a) IN Mutate(r.h, r.at, Op(r.h[r.at]))

RECURSIVE SetNested(_, _, _, _), NestedDel(_, _, _)

SetNested(h, a, path, v) ==
    IF path = <<>> THEN Result(h, a)
    ELSE LET r == Copy(h, a)
             c == r.h[r.at]
             k == path[1]
             inner == IF Has(c, k) /\ Item(c, k).t = "arr" THEN Result(r.h, Item(c, k).n)
                      ELSE New(r.h, NoItems)
             s == SetNested(inner.h, inner.at, Tail(path), v)
         IN  IF Len(path) = 1 THEN Result(Mutate(r.h, r.at, SetItem(c, k, v)), r.at)
             ELSE Result(Mutate(s.h, r.at, SetItem(c, k, Arr_(s.at))), r.at)

NestedDel(h, a, path) ==
    IF path = <<>> THEN Result(h, a)
    ELSE LET r == Copy(h, a)
             c == r.h[r.at]
             k == path[1]
             s == NestedDel(r.h, Item(c, k).n, Tail(path))
         IN  IF Len(path) = 1 THEN Result(Mutate(r.h, r.at, DeleteItem(c, k)), r.at)
             ELSE IF Has(c, k) /\ Item(c, k).t = "arr"
             THEN Result(Mutate(s.h, r.at, SetItem(c, k, Arr_(s.at))), r.at)
             ELSE r

NestedGet(h, a, path) ==
    FoldLeft(LAMBDA v, k : IF v.t = "arr" /\ Has(h[v.n], k) THEN Item(h[v.n], k) ELSE Int_(0),
             Arr_(a), path)

-----------------------------------------------------------------------------
\* Arrays kept in properties.

ToProp(v) == IF v.t = "arr" THEN Str_(9) ELSE v

Suffixed(p, s) == [p EXCEPT ![Len(p)] = @ \o s]
CountPath(p)   == Suffixed(p, "#")
ItemPaths(p, i) == <<Append(CountPath(p), ToString(i)), Append(p, ToString(i)),
                     Suffixed(p, ToString(i))>>

ListCount(t, p) == LET v == Get(t, p) IN IF v.t = "int" THEN v.n ELSE 0
MutantOldSpelling(t, p, i) ==
    LET there == SelectSeq(Reverse(ItemPaths(p, i)), LAMBDA q : Get(t, q) # None)
    IN  IF there = <<>> THEN ItemPaths(p, i)[3] ELSE there[1]
ItemPath(t, p, i) ==
    LET there == SelectSeq(ItemPaths(p, i), LAMBDA q : Get(t, q) # None)
    IN  IF there = <<>> THEN ItemPaths(p, i)[3] ELSE there[1]

GetProplist(m, o, t, p) ==
    LET old == ListCount(t, CountPath(p))
        n   == IF old # 0 THEN old ELSE ListCount(t, Append(p, "#"))
        at  == [i \in 1 .. (IF n > MaxPropFetch THEN MaxPropFetch ELSE n) |-> ItemPath(t, p, i)]
        read == SelectSeq(at, LAMBDA q : ReadPerms(m, o, q))
    IN  [i \in DOMAIN read |-> IF Get(t, read[i]) = None THEN Int_(0) ELSE Get(t, read[i])]

PutItems(w, o, p, vals) ==
    FoldLeftDomain(LAMBDA x, i : SetProp(x, o, Append(CountPath(p), ToString(i)),
                                         ToProp(vals[i])),
                   SetProp(w, o, CountPath(p), Int_(Len(vals))), vals)
PutProplist(m, o, p, c) ==
    /\ WritePerms(m, o, CountPath(p))
    /\ Step(PutItems(World, o, p, ValuesOf(c)))

\* What a client's simpleedit saves: a property, or a list, for which nothing
\* but the count's own value is removed first.
EditableProp(x, o, p) == Controls(x, o) /\ ~PropRestricted(p, Wizard(x))
McpSaveProp(x, o, p, v) ==
    /\ EditableProp(x, o, p)
    /\ Step(SetProp(World, o, p, v))
McpSaveList(x, o, p, vals) ==
    /\ EditableProp(x, o, p)
    /\ LET w == SetProp(World, o, CountPath(p), Int_(0))
       IN  Step(IF vals = <<>> THEN w ELSE PutItems(w, o, p, vals))
McpSaves(x, o) ==
    \E p \in Paths :
        \/ McpSaveProp(x, o, p, Str_(0))
        \/ \E n \in {0, 2} : McpSaveList(x, o, p, [i \in 1 .. n |-> Str_(3)])

\* A dictionary's string keys are names.
NameKey(n) == Str_(100 + CHOOSE i \in DOMAIN NameOrder : NameOrder[i] = n)
NameOf(k)  == IF k.t = "int" THEN ToString(k.n) ELSE NameOrder[k.n - 100]

GetPropvals(m, o, t, p) ==
    LET names == {n \in Range(Children(t, p)) : /\ ReadPerms(m, o, Append(p, n))
                                                /\ Get(t, Append(p, n)) # None}
    IN  Dict([k \in {NameKey(n) : n \in names} |-> Get(t, Append(p, NameOf(k)))])
GetPropdirs(m, o, t, p) ==
    LET dirs == SelectSeq(Children(t, p), LAMBDA n : /\ ReadPerms(m, o, Append(p, n))
                                                     /\ Children(t, Append(p, n)) # <<>>)
    IN  List([i \in DOMAIN dirs |-> NameKey(dirs[i])])

\* ARRAY_PUT_PROPVALS: a key it may not write ends the program there, and what
\* was written stays.
PutPropvals(m, o, p, c) ==
    LET ks  == KeysOf(c)
        end == {i \in DOMAIN ks : ~WritePerms(m, o, Append(p, NameOf(ks[i])))}
        upto == {i \in DOMAIN ks : \A j \in end : i < j}
    IN  Step(FoldLeft(LAMBDA w, k : SetProp(w, o, Append(p, NameOf(k)), ToProp(Item(c, k))),
                      World, [i \in upto |-> ks[i]]))

PutReflist(m, o, p, c) ==
    LET refs == SelectSeq(ValuesOf(c), LAMBDA v : v.t = "obj")
    IN  /\ WritePerms(m, o, p)
        /\ Step(WriteRefList(World, o, p, [i \in DOMAIN refs |-> refs[i].n]))
GetReflist(t, p) ==
    LET refs == ReadRefList(Get(t, p)) IN List([i \in DOMAIN refs |-> Obj_(refs[i])])

-----------------------------------------------------------------------------
\* The primitives that make arrays: each leaves the heap longer.

MakesHeap(h) ==
    /\ ops < MaxOps
    /\ Len(h) <= MaxHeap
    /\ ops' = ops + 1
    /\ heap' = h
    /\ UNCHANGED <<tree, marked, rows>>
Makes(c) == MakesHeap(Append(heap, c))

Edit(a) ==
    \E k \in Keys, v \in Items :
        \/ MakesHeap(Edited(a, LAMBDA c : SetItem(c, k, v)))
        \/ MakesHeap(Edited(a, LAMBDA c : AppendItem(c, v)))
        \/ MakesHeap(Edited(a, LAMBDA c : InsertItem(c, k, v)))
        \/ MakesHeap(Edited(a, LAMBDA c : DeleteItem(c, k)))

SetRange(c, k, s) ==
    IF k.t # "int" THEN c
    ELSE FoldLeftDomain(LAMBDA d, i : SetItem(d, Int_(k.n + i - 1), s[i]), c, s)
InsertRange(c, k, d) ==
    IF k.t = "int"
    THEN FoldLeftDomain(LAMBDA e, i : InsertItem(e, Int_(k.n + i - 1), ValuesOf(d)[i]),
                        c, ValuesOf(d))
    ELSE FoldLeft(LAMBDA e, j : SetItem(e, j, Item(d, j)), c, KeysOf(d))
DelRange(c, j, k) ==
    FoldLeft(LAMBDA d, i : DeleteItem(d, i), c, KeysOf(GetRange(c, j, k)))

Splice(a) ==
    \E j, k \in Keys, b \in DOMAIN heap :
        \/ MakesHeap(Edited(a, LAMBDA c : SetRange(c, k, ValuesOf(heap[b]))))
        \/ MakesHeap(Edited(a, LAMBDA c : InsertRange(c, k, heap[b])))
        \/ MakesHeap(Edited(a, LAMBDA c : DelRange(c, j, k)))
        \/ Makes(GetRange(heap[a], j, k))
        \/ MakesHeap(heap \o CutAt(heap[a], k))

Extract(c, ks) == Dict([k \in {k \in Range(ks) : Keyed(k) /\ Has(c, k)} |-> Item(c, k)])
FindVal(c, v, equal) == List(SelectSeq(KeysOf(c), LAMBDA k : (Item(c, k) = v) = equal))
Row(v, k) == IF Has(heap[v.n], k) THEN Item(heap[v.n], k) ELSE None
SortIndexed(s, k) == SortBy(s, LAMBDA v, w : ValueLess(Row(v, k), Row(w, k)))

Arrange(a) ==
    \/ Makes(List(Reverse(ValuesOf(heap[a]))))
    \/ \E d \in BOOLEAN : Makes(List(SortValues(ValuesOf(heap[a]), d)))
    \/ \E v \in Items, e \in BOOLEAN : Makes(FindVal(heap[a], v, e))
    \/ \E k \in Keys : /\ IsList(heap[a]) /\ \A v \in Range(heap[a].list) : v.t = "arr"
                       /\ Makes(List(SortIndexed(heap[a].list, k)))

Combine(a) ==
    \E b \in DOMAIN heap :
        LET cs == <<heap[a], heap[b]>>
        IN  \/ Makes(List(Union(cs)))
            \/ Makes(List(Intersect(cs)))
            \/ Makes(List(Difference(cs)))
            \/ Makes(Extract(heap[a], ValuesOf(heap[b])))

Nest(a) ==
    \E j, k \in Keys, v \in Items \cup {Arr_(b) : b \in DOMAIN heap} :
        \/ MakesHeap(SetNested(heap, a, <<j>>, v).h)
        \/ MakesHeap(SetNested(heap, a, <<j, k>>, v).h)
        \/ MakesHeap(NestedDel(heap, a, <<j, k>>).h)

Fetch(m) ==
    \E o \in Objects, p \in Paths :
        \/ Makes(List(GetProplist(m, o, tree[o], p)))
        \/ Makes(GetPropvals(m, o, tree[o], p))
        \/ Makes(GetPropdirs(m, o, tree[o], p))
        \/ ReadPerms(m, o, p) /\ Makes(GetReflist(tree[o], p))

StoresTo(m, o) ==
    \E p \in Paths, a \in DOMAIN heap :
        \/ PutProplist(m, o, p, heap[a])
        \/ PutPropvals(m, o, p, heap[a])
        \/ PutReflist(m, o, p, heap[a])
Store(m) == \E o \in Objects : StoresTo(m, o)
=============================================================================
