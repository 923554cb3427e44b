----------------------------- MODULE MpiReference -----------------------------
(***************************************************************************)
(* What a message means: a tree, not text.  A body is a sequence of parts; *)
(* Written renders one as the text a builder types, and Meaning says what  *)
(* a reader should see of it and what should become of the properties,     *)
(* with no parser, no arrays and no limits but on going round: a variable is in scope while   *)
(* the part that binds it lasts, whatever is evaluated in between.         *)
(*                                                                         *)
(* wild is set by what the implementation is known to answer differently:  *)
(* on a copy of the environment (the text of {eval}, {revoke} and {exec})  *)
(* a {set} of a variable bound outside it is lost once the copy has        *)
(* outgrown the shared array, and a {func} is lost unless there was one    *)
(* before; and "{&v}" evaluates the value of v again.  heeded is set once  *)
(* blessed text has run.                                                   *)
(***************************************************************************)
EXTENDS Mpi

RECURSIVE Written_(_)

CallOf(f, args) == <<"{", f>> \o (IF args = <<>> THEN <<>> ELSE <<":">> \o Join(args, <<",">>)) \o <<"}">>
List_(words) == CallOf("MKLIST", [i \in DOMAIN words |-> <<words[i]>>])

\* The text of a part.
Spelt(m) ==
    LET B(i) == Written_(m[i]) IN
    CASE m[1] = "word"    -> <<m[2]>>
      [] m[1] = "escaped" -> <<"\\", m[2]>>
      [] m[1] = "quoted"  -> <<"tick", "{", m[2], ",", "tick">>
      [] m[1] = "with"    -> CallOf("WITH", <<<<m[2]>>, B(3), B(4)>>)
      [] m[1] = "set"     -> CallOf("SET", <<<<m[2]>>, B(3)>>)
      [] m[1] = "step"    -> CallOf(m[2], <<<<m[3]>>>>)
      [] m[1] = "var"     -> <<"{", "&", m[2], "}">>
      [] m[1] = "if"      -> CallOf("IF", <<B(2), B(3), B(4)>>)
      [] m[1] = "both"    -> CallOf(m[2], <<B(3), B(4)>>)
      [] m[1] = "default" -> CallOf("DEFAULT", <<B(2), B(3)>>)
      [] m[1] = "eval"    -> CallOf(m[2], <<IF m[2] = "REVOKE" THEN B(3) ELSE CallOf("LIT", <<B(3)>>)>>)
      [] m[1] = "prop"    -> CallOf(m[2], <<m[3]>>)
      [] m[1] = "propof"  -> CallOf(m[2], <<m[3], <<m[4]>>>>)
      [] m[1] = "store"   -> CallOf("STORE", <<B(2), m[3]>>)
      [] m[1] = "bless"   -> CallOf("BLESS", <<m[2]>>)
      [] m[1] = "for"     -> CallOf("FOR", <<<<m[2]>>, Itoa(m[3]), Itoa(m[4]), <<"1">>, B(5)>>)
      [] m[1] = "each"    -> CallOf(m[2], <<<<m[3]>>, List_(m[4]), B(5)>>)
      [] m[1] = "fold"    -> CallOf("FOLD", <<<<m[2]>>, <<m[3]>>, List_(m[4]), B(5)>>)
      [] m[1] = "while"   -> CallOf("WHILE", <<B(2), B(3)>>)
      [] m[1] = "func"    -> CallOf("FUNC", <<<<m[2]>>, <<m[3]>>, B(4)>>)
      [] m[1] = "call"    -> CallOf(m[2], <<B(3)>>)
      [] m[1] = "arg"     -> <<"{", ":", "1", "}">>
      [] m[1] = "sets"    -> CallOf(m[2], <<List_(m[3]), List_(m[4])>>)
      [] m[1] = "sort"    -> CallOf("LSORT", <<List_(m[2]), <<"a">>, <<"b">>,
                                  CallOf("GT", <<<<"{", "&", "a", "}">>, <<"{", "&", "b", "}">>>>)>>)
      [] m[1] = "slice"   -> CallOf("SUBLIST", <<List_(m[2]), Itoa(m[3]), Itoa(m[4])>>)
Written_(b) == FlattenSeq([i \in DOMAIN b |-> Spelt(b[i])])

\* Text that evaluates to itself, and the body it is.
Inert(s)  == \A i \in DOMAIN s : s[i] \notin {"{", "\\", "tick"}
Spoken(s) == [i \in DOMAIN s |-> <<"word", s[i]>>]

-----------------------------------------------------------------------------
\* The state of a meaning: vars, the pairs in scope; props, what is written
\* where, [body, blessed] by object and name; funcs, [param, body] by name;
\* and walls, the copies that are being worked on.

Scope(st, name) == SelectLastInSeq(st.vars, LAMBDA v : v[1] = name)

Binding(st, name, value) ==
    LET k == Len(st.walls)
    IN  [st EXCEPT !.vars = Append(@, <<name, value>>),
                   !.walls = IF k = 0 THEN @ ELSE [@ EXCEPT ![k].grown = TRUE]]
Unbinding(st, r) == [r EXCEPT !.e.vars = SubSeq(@, 1, Len(st.vars))]

Change(st, name, value) ==
    LET i == Scope(st, name)
    IN  [st EXCEPT !.vars[i] = <<name, value>>,
                   !.wild = @ \/ \E k \in DOMAIN st.walls : i <= st.walls[k].base /\ st.walls[k].grown]

\* On a copy, with the authority of blessed.
Apart(st, Work(_), blessed, what, perms) ==
    LET r == Work([st EXCEPT !.blessed = blessed, !.what = what, !.perms = perms,
                             !.heeded = @ \/ blessed,
                             !.walls = Append(@, [base |-> Len(st.vars), grown |-> FALSE])])
    IN  [r EXCEPT !.e.blessed = st.blessed, !.e.what = st.what, !.e.perms = st.perms,
                  !.e.walls = st.walls]

Place(name) == Segments(name)
Unread_(st, o, name) ==
    \/ ~st.blessed /\ IsHidden(Place(name))
    \/ ~st.blessed /\ Check(Place(name), Private) /\ Owner[st.perms] # Owner[o]
Nothing_ == [body |-> <<>>, blessed |-> FALSE]
There(st, o, name) == IF <<o, Place(name)>> \in DOMAIN st.props THEN st.props[<<o, Place(name)>>] ELSE Nothing_

\* Where a property is found from an object, looking outwards or not.
RECURSIVE Found(_, _, _, _)
Found(st, o, name, outwards) ==
    IF o = Nowhere THEN Ok(st, Nothing_)
    ELSE IF Unread_(st, o, name) THEN Bad(st, <<>>, "Failed read.")
    ELSE IF There(st, o, name) # Nothing_ \/ ~outwards THEN Ok(st, There(st, o, name))
    ELSE Found(st, Parent[o], name, TRUE)

May(st, o)   == o \in {Global, st.who, st.perms} \/ Owner[o] = Owner[st.perms] \/ st.blessed
Writes_(st, p) == st.blessed \/ ~(IsHidden(p) \/ IsSeeOnly(p) \/ p[1] = "_msgmacs")

RECURSIVE Meaning(_, _), Means(_, _), Rounds(_, _, _, _, _), Fetched(_, _, _, _)
RECURSIVE Accumulates(_, _, _), Repeats(_, _, _, _)

Meaning(st, b) ==
    IF b = <<>> THEN Ok(st, <<>>)
    ELSE Then(Means(st, Head(b)), LAMBDA t, s :
         Then(Meaning(t, Tail(b)), LAMBDA u, r : Ok(u, s \o r)))

\* The body for each of these values of a name, and what came of each.
Rounds(st, name, values, b, outs) ==
    IF values = <<>> THEN Ok(st, outs)
    ELSE Then(Meaning(Change(st, name, Head(values)), b), LAMBDA t, s :
             Rounds(t, name, Tail(values), b, Append(outs, s)))
Round(st, name, values, b) == Unbinding(st, Rounds(Binding(st, name, <<>>), name, values, b, <<>>))

Accumulates(st, m, words) ==
    IF words = <<>> THEN Ok(st, st.vars[Scope(st, m[2])][2])
    ELSE Then(Meaning(Change(st, m[3], <<Head(words)>>), m[5]), LAMBDA t, s :
             Accumulates(Change(t, m[2], s), m, Tail(words)))

Repeats(st, test, b, outs) ==
    IF Len(outs) = MaxListLen THEN Bad(st, <<>>, "Iteration limit exceeded")
    ELSE Then(Meaning(st, test), LAMBDA t, s :
             IF ~Truthy(s) THEN Ok(t, IF outs = <<>> THEN <<>> ELSE Last(outs))
             ELSE Then(Meaning(t, b), LAMBDA u, r : Repeats(u, test, b, Append(outs, r))))

\* What a property says: its text, or with run what its text means.
Fetched(st, f, name, o) ==
    Then(Found(st, o, name, f \notin {"PROP!", "EXEC!"}), LAMBDA t, v :
        IF f \in {"PROP", "PROP!"} THEN Ok(t, Written_(v.body))
        ELSE Apart(t, LAMBDA u : Meaning(u, v.body), v.blessed, o,
                   IF Check(Place(name), Hidden \cup SeeOnly \cup Private \cup ReadOnly) THEN o ELSE t.what))

\* The macro of a name, if it is no function: with the owner, near, or on #0.
RECURSIVE Around(_, _, _)
Around(st, o, path) ==
    LET Or(v) == IF v # Nothing_ /\ (Owner[o] = Owner[st.what] \/ v.blessed) THEN v
                 ELSE Around(st, Parent[o], path)
    IN  IF o = Nowhere THEN Nothing_ ELSE Or(There(st, o, path))
Stored(st, f) ==
    LET path == <<"_msgmacs", "/", f>>
        First(values) == LET some == {i \in 1 .. 3 : values[i] # Nothing_}
                         IN  IF some = {} THEN Nothing_ ELSE values[Min(some)]
    IN  First(<<There(st, Owner[st.what], path), Around(st, st.what, path), There(st, Global, path)>>)

Filled(b, arg) == FlattenSeq([i \in DOMAIN b |-> IF b[i] = <<"arg">> THEN arg ELSE <<b[i]>>])

Expansion(st, m, v) == IF v = Nothing_ THEN Bad(st, <<m[2]>>, "Unrecognized function.")
                       ELSE Meaning(st, Filled(v.body, m[3]))

Numbered(from, to) == [i \in 1 .. Max({to - from + 1, 0}) |-> Itoa(from + i - 1)]
Singles(words) == [i \in DOMAIN words |-> <<words[i]>>]
Chosen(words, Is(_)) ==
    LET at == {i \in DOMAIN words : Is(words[i]) /\ \A j \in 1 .. i - 1 : words[j] # words[i]}
    IN  Lines(Singles([i \in 1 .. Cardinality(at) |-> words[SetToSortSeq(at, <)[i]]]))

\* Something written, and nothing, which removes what was.
Keeps(st, at, s) ==
    LET Now(said) == IF s = <<>> THEN [q \in DOMAIN said \ {at} |-> said[q]]
                     ELSE [q \in DOMAIN said \cup {at} |->
                             IF q = at THEN [body |-> Spoken(s), blessed |-> FALSE] ELSE said[q]]
    IN  [st EXCEPT !.wild = @ \/ ~Inert(s), !.props = Now(@)]

Means(st, m) ==
    CASE m[1] \in {"word", "escaped"} -> Ok(st, <<m[2]>>)
      [] m[1] = "quoted"  -> Ok(st, <<"{", m[2], ",">>)
      [] m[1] = "with"    ->
             Then(Meaning(st, m[3]), LAMBDA t, v : Unbinding(t, Meaning(Binding(t, m[2], v), m[4])))
      [] m[1] = "set"     ->
             Then(Meaning(st, m[3]), LAMBDA t, v :
                 IF Scope(t, m[2]) = 0 THEN Bad(t, <<"SET">>, "No such variable currently defined.")
                 ELSE Ok(Change(t, m[2], v), v))
      [] m[1] = "step"    ->
             LET i == Scope(st, m[3])
                 n == Wrap(Atoi(st.vars[i][2]) + (IF m[2] = "INC" THEN 1 ELSE -1))
             IN  IF i = 0 THEN Bad(st, <<m[2]>>, "No such variable currently defined.")
                 ELSE Ok(Change(st, m[3], Itoa(n)), Itoa(n))
      [] m[1] = "var"     ->
             LET i == Scope(st, m[2])
             IN  IF i = 0 THEN Bad(st, <<"&", m[2]>>, "Unrecognized variable.")
                 ELSE Ok([st EXCEPT !.wild = @ \/ ~Inert(st.vars[i][2])], st.vars[i][2])
      [] m[1] = "if"      ->
             Then(Meaning(st, m[2]), LAMBDA t, s : Meaning(t, IF Truthy(s) THEN m[3] ELSE m[4]))
      [] m[1] = "both"    ->
             Then(Meaning(st, m[3]), LAMBDA t, s :
                 IF Truthy(s) = (m[2] = "OR") THEN Ok(t, BoolOf(Truthy(s)))
                 ELSE Then(Meaning(t, m[4]), LAMBDA u, r : Ok(u, BoolOf(Truthy(r)))))
      [] m[1] = "default" ->
             Then(Meaning(st, m[2]), LAMBDA t, s : IF Truthy(s) THEN Ok(t, s) ELSE Meaning(t, m[3]))
      [] m[1] = "eval"    ->
             IF m[2] = "EVAL!" THEN Meaning(st, m[3])
             ELSE Apart(st, LAMBDA t : Meaning(t, m[3]), FALSE, st.what, st.perms)
      [] m[1] = "prop"    -> Fetched(st, m[2], m[3], st.what)
      [] m[1] = "propof"  ->
             IF May(st, m[4]) THEN Fetched(st, m[2], m[3], m[4])
             ELSE Bad(st, <<m[2]>>, "Permission denied.")
      [] m[1] = "store"   ->
             Then(Meaning(st, m[2]), LAMBDA t, s :
                 IF ~Writes_(t, Place(m[3])) THEN Bad(t, <<"STORE">>, "Permission denied.")
                 ELSE Ok(Keeps(t, <<t.what, Place(m[3])>>, s), s))
      [] m[1] = "bless"   ->
             LET at == <<st.what, Place(m[2])>>
             IN  IF ~st.blessed THEN Bad(st, <<"BLESS">>, "Permission denied.")
                 ELSE Ok(IF at \in DOMAIN st.props THEN [st EXCEPT !.props[at].blessed = TRUE] ELSE st, <<>>)
      [] m[1] = "for"     ->
             Then(Round(st, m[2], Numbered(m[3], m[4]), m[5]), LAMBDA t, outs :
                 Ok(t, IF outs = <<>> THEN <<>> ELSE Last(outs)))
      [] m[1] = "each"    ->
             Then(Round(st, m[3], Singles(m[4]), m[5]), LAMBDA t, outs :
                 CASE m[2] = "FOREACH" -> Ok(t, Last(outs))
                   [] m[2] = "PARSE"   -> Ok(t, Lines(outs))
                   [] m[2] = "FILTER"  ->
                          LET kept == SelectSeq([i \in DOMAIN outs |-> i], LAMBDA i : Truthy(outs[i]))
                          IN  Ok(t, Lines([i \in DOMAIN kept |-> <<m[4][kept[i]]>>])))
      [] m[1] = "fold"    ->
             Unbinding(st, Accumulates(Binding(Binding(st, m[2], <<m[4][1]>>), m[3], <<>>), m, Tail(m[4])))
      [] m[1] = "while"   -> Repeats(st, m[2], m[3], <<>>)
      [] m[1] = "func"    ->
             Ok([st EXCEPT !.wild = @ \/ st.walls # <<>>,
                           !.funcs = [f \in DOMAIN @ \cup {m[2]} |->
                               IF f = m[2] THEN [param |-> m[3], body |-> m[4]] ELSE @[f]]], <<>>)
      [] m[1] = "call"    ->
             IF m[2] \in DOMAIN st.funcs
             THEN Means(st, <<"with", st.funcs[m[2]].param, m[3], st.funcs[m[2]].body>>)
             ELSE Expansion(st, m, Stored(st, m[2]))
      [] m[1] = "sets"    ->
             LET a == Range(m[3])
                 b == Range(m[4])
             IN  Ok(st, CASE m[2] = "LUNION"  -> Chosen(m[3] \o m[4], LAMBDA w : TRUE)
                          [] m[2] = "LCOMMON" -> Chosen(m[4], LAMBDA w : w \in a)
                          [] m[2] = "LREMOVE" -> Chosen(m[3], LAMBDA w : w \notin b))
      [] m[1] = "sort"    ->
             Ok(st, Lines(Singles(SortSeq(m[2], LAMBDA v, w : Rank(v) < Rank(w)))))
      [] m[1] = "slice"   ->
             LET n == Len(m[2])
                 At(i) == Max({1, Min({IF i < 0 THEN i + n + 1 ELSE i, n})})
                 Slice(from, to, d) ==
                     Lines([i \in 1 .. d * (to - from) + 1 |-> <<m[2][from + d * (i - 1)]>>])
                 Between(from, to) == Slice(from, to, IF from <= to THEN 1 ELSE -1)
             IN  Ok(st, IF m[3] = 0 \/ m[4] = 0 THEN <<>> ELSE Between(At(m[3]), At(m[4])))
===============================================================================
