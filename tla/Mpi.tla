--------------------------------- MODULE Mpi ----------------------------------
(***************************************************************************)
(* The second language of the server (internal/mpi): text with calls in    *)
(* braces, which a property holds and a message is evaluated from.         *)
(*                                                                         *)
(* A text is a sequence of tokens: a character the parser looks at (tick   *)
(* is the backtick, cr the carriage return), a digit, or a word of other   *)
(* characters, whose letters have one case.  A property's name is a text   *)
(* cut at its slashes, and its value is                                    *)
(* [t |-> "text", n |-> its length, text |-> the text].                    *)
(*                                                                         *)
(* An evaluation is one step of the world goroutine.  Its environment is   *)
(* a record: the bindings are a slice, of length len, of the array at of   *)
(* arrays, because {eval}, {revoke} and {exec} work on a copy of the       *)
(* environment that shares the array until one of the two outgrows it;     *)
(* the macros are a map, shared in the same way once it is made.           *)
(***************************************************************************)
EXTENDS Properties, Functions

CONSTANTS
    Global,          \* #0
    Parent,          \* one step out in the environment, or Nowhere
    Nowhere,
    Called,          \* what each name matches
    ReadLocks,       \* <<player, object>>: the read locks that pass
    RecursionLimit, MaxVariables, MaxArgs, MaxFuncs, MaxListLen, MaxCommands,
    MaxNameLen, MaxEnvDepth,
    MaxNumber        \* the greatest integer there is

MpiAssumption ==
    /\ Parent \in [Objects -> Objects \cup {Nowhere}] /\ Global \in Objects
    /\ MaxVariables >= 3 /\ MaxListLen > 0 /\ MaxCommands > 0

Text(s) == [t |-> "text", n |-> Len(s), text |-> s]

White == {" ", "cr"}
Digits == <<"0", "1", "2", "3", "4", "5", "6", "7", "8", "9">>

TrimLeft(s, from) ==
    LET i == SelectInSeq(s, LAMBDA c : c \notin from)
    IN  IF i = 0 THEN <<>> ELSE SubSeq(s, i, Len(s))
Trim(s) == Reverse(TrimLeft(Reverse(TrimLeft(s, White)), White))

\* A text split at a separator, and put together again.
RECURSIVE SplitAt(_, _)
SplitAt(s, sep) ==
    LET found  == {i \in 1 .. Len(s) - Len(sep) + 1 : SubSeq(s, i, i + Len(sep) - 1) = sep}
        Cut(i) == <<SubSeq(s, 1, i - 1)>> \o SplitAt(SubSeq(s, i + Len(sep), Len(s)), sep)
    IN  IF found = {} THEN <<s>> ELSE Cut(Min(found))
Join(parts, sep) ==
    IF parts = <<>> THEN <<>>
    ELSE FoldLeft(LAMBDA a, b : a \o sep \o b, parts[1], Tail(parts))

SplitLines(s) == IF s = <<>> THEN <<>> ELSE SplitAt(s, <<"cr">>)

Worth == [d \in Range(Digits) |-> CHOOSE n \in 0 .. 9 : Digits[n + 1] = d]

\* C's atoi, which saturates, and itoa.
RECURSIVE Itoa(_)
Itoa(n) == IF n < 0 THEN <<"-">> \o Itoa(-n)
           ELSE (IF n < 10 THEN <<>> ELSE Itoa(n \div 10)) \o <<Digits[(n % 10) + 1]>>

Sign(s)    == IF s # <<>> /\ s[1] = "-" THEN -1 ELSE 1
Unsigned(s) == IF s # <<>> /\ s[1] \in {"-", "+"} THEN Tail(s) ELSE s
Leading(s) == LET i == SelectInSeq(s, LAMBDA c : c \notin Range(Digits))
              IN  IF i = 0 THEN s ELSE SubSeq(s, 1, i - 1)
Spelled(digits, sign) ==
    LET Digit(n, d) == Min({10 * n + Worth[d], MaxNumber + 1})
    IN  Min({sign * FoldLeft(Digit, 0, digits), MaxNumber})
Atoi(s) == LET OfBare(t) == Spelled(Leading(Unsigned(t)), Sign(t)) IN OfBare(TrimLeft(s, White))
\* What arithmetic makes of a number that no longer fits.
Wrap(n) == ((n + MaxNumber + 1) % (2 * MaxNumber + 2)) - MaxNumber - 1
IsNumber(s) == LET AllDigits(t) == t # <<>> /\ Leading(t) = t IN AllDigits(Unsigned(TrimLeft(s, White)))

Rank(c) == SelectInSeq(NameOrder, LAMBDA d : d = c)
Order(x, y) == IF x < y THEN -1 ELSE IF x > y THEN 1 ELSE 0
CompareText(a, b) ==
    LET differ == {i \in DOMAIN a \cap DOMAIN b : a[i] # b[i]}
        At(i)  == Order(Rank(a[i]), Rank(b[i]))
    IN  IF differ = {} THEN Order(Len(a), Len(b)) ELSE At(Min(differ))
MsgCompare(a, b) ==
    IF IsNumber(a) /\ IsNumber(b) THEN Order(Atoi(a), Atoi(b)) ELSE CompareText(a, b)

\* Text with numbers in it (ascii/alphanum.go); the numbers fit.
CharAt(s, i) == IF i \in DOMAIN s THEN Rank(s[i]) ELSE 0
IsDigit(s, i) == i \in DOMAIN s /\ Contains(Digits, s[i])
Alphanum(a, b) ==
    LET Plainly(i)       == Order(CharAt(a, i), CharAt(b, i))
        Numbers(n, m, i) == IF n # 0 /\ m # 0 /\ n # m THEN Order(n, m) ELSE Plainly(i)
        From(k, i)       == Numbers(Atoi(SubSeq(a, k, Len(a))), Atoi(SubSeq(b, k, Len(b))), i)
        Zeros(k, i)      == From(IF IsDigit(a, k) THEN k ELSE k + 1, i)
        Back(i)          == IF i > 1 /\ CharAt(b, i) = Rank("0") THEN i - 1 ELSE i
        At(i)            == IF IsDigit(a, i) /\ IsDigit(b, i)
                            THEN Zeros(Max({1} \cup {k \in 1 .. Back(i) : a[k] # "0"}), i)
                            ELSE Plainly(i)
    IN  At(Min({k \in DOMAIN a : CharAt(a, k) # CharAt(b, k)} \cup {Len(a) + 1}))
Sorted(items) ==
    LET Insert(s, x) ==
            InsertAt(s, Max({0} \cup {k \in DOMAIN s : Alphanum(x, s[k]) >= 0}) + 1, x)
    IN  FoldLeft(Insert, <<>>, items)

Truthy(s) == Trim(s) \notin {<<>>, <<"0">>}
BoolOf(b) == IF b THEN <<"1">> ELSE <<"0">>

-----------------------------------------------------------------------------
\* A result: the environment after, what came of it, and the error with the
\* calls it passed through, or <<>>.

Ok(e, s)   == [e |-> e, s |-> s, err |-> <<>>]
Bad(e, fn, msg) == [e |-> e, s |-> <<>>, err |-> <<<<fn, msg>>>>]
Then(r, K(_, _)) == IF r.err # <<>> THEN r ELSE K(r.e, r.s)
Framed(r, fn, at) == IF r.err = <<>> THEN r ELSE [r EXCEPT !.err = Append(@, <<fn, at>>)]

Tell(e, what) == [e EXCEPT !.told = Append(@, what)]

-----------------------------------------------------------------------------
\* Variables (Var, BindVar, AssignVar, PopVar).

Bindings(e) == SubSeq(e.arrays[e.at], 1, e.len)
MutantOutermost(e, name) == SelectInSeq(Bindings(e), LAMBDA b : b.name = name)
Innermost(e, name) == SelectLastInSeq(Bindings(e), LAMBDA b : b.name = name)
Value(e, name) == e.arrays[e.at][Innermost(e, name)].value

Bind(e, fn, name, value) ==
    LET array == e.arrays[e.at]
        b     == [name |-> name, value |-> value]
        grown == Bindings(e) \o <<b>> \o [i \in 1 .. Max({e.len - 1, 0}) |-> b]
    IN  IF Len(name) > MaxNameLen THEN Bad(e, fn, "Variable name too long.")
        ELSE IF e.len >= MaxVariables THEN Bad(e, fn, "Too many variables already defined.")
        ELSE IF e.len < Len(array)
        THEN Ok([e EXCEPT !.arrays[e.at][e.len + 1] = b, !.len = @ + 1], <<>>)
        ELSE Ok([e EXCEPT !.arrays = Append(@, grown), !.at = Len(e.arrays) + 1, !.len = @ + 1], <<>>)

Assign(e, name, value) ==
    IF Innermost(e, name) = 0 THEN e
    ELSE [e EXCEPT !.arrays[e.at][Innermost(e, name)].value = value]

\* What is done with a name bound, which is popped whatever comes of it.
Scoped(e, fn, name, value, Body(_)) ==
    LET b == Bind(e, fn, name, value)
    IN  IF b.err # <<>> THEN b ELSE [Body(b.e) EXCEPT !.e.len = e.len]

\* What is done on a copy of the environment, which is dropped after.
Rejoin(e, r) ==
    [r EXCEPT !.e = [e EXCEPT !.w = r.e.w, !.arrays = r.e.arrays, !.maps = r.e.maps,
                              !.told = r.e.told]]

-----------------------------------------------------------------------------
\* Properties, as a message may reach them (safeprop.go, resolve.go).

Segments(name) ==
    LET Word_(g)   == FoldLeft(LAMBDA a, b : a \o b, "", g)
        Words(segs) == [i \in DOMAIN segs |-> Word_(segs[i])]
    IN  Words(SelectSeq(SplitAt(name, <<"/">>), LAMBDA g : g # <<>>))
\* Where a name leads in the tree: as far as its colon.
Path(name) ==
    LET colon == SelectInSeq(name, LAMBDA c : c = ":")
    IN  Segments(IF colon = 0 THEN name ELSE SubSeq(name, 1, colon - 1))

Read(e, o, p) == LET v == Get(e.w.tree[o], p) IN IF v.t = "text" THEN v.text ELSE <<>>
Blessed_(e, o, p) == Get(e.w.tree[o], p) # None /\ e.w.tree[o][p].blessed

\* A read gives the value and its own blessing.
MayGet(e, o, p) ==
    /\ ~IsSystem(p)
    /\ e.blessed \/ (~IsHidden(p) /\ (Check(p, Private) => Owner[e.perms] = Owner[o]))
ValueAt(e, o, p) == [text |-> Read(e, o, p), blessed |-> Blessed_(e, o, p)]
StrictGetProp(e, fn, o, name) ==
    LET Denied(why) == Bad(Tell(e, <<"PropFetch", why>>), fn, "Failed read.")
    IN  IF TrimLeft(name, {"/"}) = <<>> THEN Denied("Propname required.")
        ELSE IF ~MayGet(e, o, Segments(name)) THEN Denied("Permission denied.")
        ELSE Ok(e, ValueAt(e, o, Path(name)))

Unset == [text |-> <<>>, blessed |-> FALSE]

\* The walk outwards, to the first value there is: or the first on an object
\* whom owns, or blessed, if it asks for whom.  A refusal ends it.
RECURSIVE WalkProp(_, _, _, _, _, _)
WalkProp(e, fn, o, name, whom, n) ==
    IF o = Nowhere \/ n = 0 THEN Ok(e, Unset)
    ELSE Then(StrictGetProp(e, fn, o, name), LAMBDA f, v :
             IF v.text # <<>> /\ (whom = Nowhere \/ Owner[o] = whom \/ v.blessed) THEN Ok(f, v)
             ELSE WalkProp(f, fn, Parent[o], name, whom, n - 1))

GetProp(e, fn, o, name) == WalkProp(e, fn, o, name, Nowhere, MaxEnvDepth)
LimitedGetProp(e, o, whom, name) == WalkProp(e, <<>>, o, name, whom, MaxEnvDepth)

ValidPropName(name) == name # <<>> /\ ~Contains(name, "cr") /\ ~Contains(name, ":")

MayPut(e, p) == /\ ~IsSystem(p)
                /\ e.blessed \/ ~(IsHidden(p) \/ IsSeeOnly(p) \/ p[1] = "_msgmacs")
PutProp(w, o, p, val, set) == IF set THEN SetProp(w, o, p, Text(val)) ELSE RemoveProp(w, o, p)
SafePutProp(e, fn, o, name, val, set) ==
    LET Put(bare, p) ==
            IF ValidPropName(bare) /\ MayPut(e, p)
            THEN Ok([e EXCEPT !.w = PutProp(@, o, p, val, set)], <<>>)
            ELSE Bad(e, fn, "Permission denied.")
    IN  Put(TrimLeft(name, {"/"}), Segments(name))

ReadPerms_(e, o) ==
    \/ o \in {Global, e.who, e.perms} \/ Owner[e.perms] = Owner[o]
    \/ <<Owner[e.perms], o>> \in ReadLocks \/ e.blessed
StrictPerms(e, o) == e.blessed \/ Owner[e.perms] = Owner[o]

MatchRef(e, s) ==
    CASE s = <<"this">> -> e.what [] s = <<"me">> -> e.who
      [] s \in DOMAIN Called -> Called[s] [] OTHER -> Nowhere

\* The object an argument names: absent, what the message is on, untested.
Resolve(e, fn, args, at, strict) ==
    LET Tested(o) ==
            IF o \notin Objects THEN Bad(e, fn, "Match failed.")
            ELSE IF ~(IF strict THEN StrictPerms(e, o) ELSE ReadPerms_(e, o))
            THEN Bad(e, fn, "Permission denied.")
            ELSE Ok(e, o)
    IN  IF at > Len(args) THEN Ok(e, e.what) ELSE Tested(MatchRef(e, Trim(args[at])))

-----------------------------------------------------------------------------
\* The table of the functions modelled (funcs_gen.go).  A greatest number of
\* arguments of 0 or less is none at all.

Endless == 1000
Takes(least, most, names) == [min |-> least, max |-> most, names |-> names]
Table ==
    {Takes(0, 9, {"NULL", "MKLIST"}), Takes(0, Endless, {"NL"}), Takes(1, Endless, {"LIT", "STRIP"}),
     Takes(1, 1, {"ABS", "SIGN", "NOT", "V", "EVAL", "EVAL!", "REVOKE", "DEBUG", "LUNIQUE"}),
     Takes(1, 2, {"INC", "DEC", "BLESS", "UNBLESS", "DELPROP", "EXEC", "EXEC!", "INDEX", "INDEX!",
                  "PROP", "PROP!", "PROPDIR", "LIST", "LEXEC", "COUNT"}),
     Takes(1, 4, {"COMMAS", "SUBLIST", "LSORT"}),
     Takes(2, 2, {"EQ", "NE", "GT", "GE", "LT", "LE", "MAX", "MIN", "XOR", "SET", "DEFAULT",
                  "WHILE", "DEBUGIF", "LUNION", "LCOMMON", "LREMOVE"}),
     Takes(2, 3, {"IF", "SELECT", "STORE", "LMEMBER"}),
     Takes(2, 9, {"ADD", "SUBT", "MULT", "AND", "OR", "FUNC"}),
     Takes(3, 4, {"FOREACH"}), Takes(3, 5, {"PARSE", "FILTER"}), Takes(3, 9, {"WITH"}),
     Takes(4, 5, {"FOLD"}), Takes(5, 5, {"FOR"})}
Functions == UNION {t.names : t \in Table}
Arity(f)  == CHOOSE t \in Table : f \in t.names

\* Whose arguments are left for them to evaluate, and whose are trimmed.
Unparsed == {"AND", "OR", "IF", "DEFAULT", "LIT", "NL", "WITH", "WHILE", "FOR", "FOREACH",
             "PARSE", "FILTER", "FOLD", "FUNC", "COMMAS", "LSORT", "REVOKE", "DEBUG", "DEBUGIF"}
Stripped == {"ABS", "ADD", "SUBT", "MULT", "SIGN", "INC", "DEC", "MAX", "MIN", "GT", "GE", "LT",
             "LE", "NOT", "XOR", "AND", "OR", "V", "FUNC", "BLESS", "UNBLESS", "DELPROP", "EXEC",
             "EXEC!", "INDEX", "INDEX!", "PROP", "PROP!", "PROPDIR", "STORE",
             "LIST", "LEXEC", "SELECT"}

-----------------------------------------------------------------------------
\* What a text says: the call after a brace (evalCall, splitArgs).

NameEnd(t) == SelectInSeq(t, LAMBDA c : c \in {"{", ":", "}"} \cup White)
CallName(t) == SubSeq(t, 1, NameEnd(t) - 1)
IsVariable(name) == name # <<>> /\ name[1] = "&"
IsCall(t) ==
    /\ NameEnd(t) > 0 /\ t[NameEnd(t)] \in {":", "}"}
    /\ Len(CallName(t)) <= IF IsVariable(CallName(t)) THEN MaxNameLen + 1 ELSE MaxNameLen

Unread == [args |-> <<>>, cur |-> <<>>, depth |-> 0, literal |-> FALSE, escaped |-> FALSE,
           n |-> 0, err |-> "End brace not found.", done |-> FALSE]

SplitArgs(t) ==
    LET Arg(s)     == [s EXCEPT !.args = Append(@, s.cur), !.cur = <<>>]
        Enough(s)  == IF Len(s.args) > MaxArgs
                      THEN [s EXCEPT !.err = "Too many arguments.", !.done = TRUE] ELSE s
        Keep(s, c) == [s EXCEPT !.cur = Append(@, c)]
        Take(s, c) ==
            CASE s.escaped                 -> [Keep(s, c) EXCEPT !.escaped = FALSE]
              [] c = "\\"                  -> [Keep(s, c) EXCEPT !.escaped = TRUE]
              [] c = "tick"                -> [Keep(s, c) EXCEPT !.literal = ~@]
              [] s.literal                 -> Keep(s, c)
              [] c = "{"                   -> [Keep(s, c) EXCEPT !.depth = @ + 1]
              [] c = "}" /\ s.depth = 0    -> [Arg(s) EXCEPT !.err = "", !.done = TRUE]
              [] c = "}"                   -> [Keep(s, c) EXCEPT !.depth = @ - 1]
              [] c = "," /\ s.depth = 0    -> Enough(Arg(s))
              [] OTHER                     -> Keep(s, c)
    IN  FoldLeft(LAMBDA s, c : IF s.done THEN s ELSE [Take(s, c) EXCEPT !.n = @ + 1], Unread, t)

ReadCall(t) ==
    LET k == NameEnd(t)
        after == SubSeq(t, k + 1, Len(t))
        split == IF t[k] = "}" THEN [Unread EXCEPT !.err = ""] ELSE SplitArgs(after)
    IN  [name |-> CallName(t), args |-> split.args, err |-> split.err,
         rest |-> SubSeq(after, split.n + 1, Len(after))]

\* "{:1}" in the body of a macro (macro.go).
RECURSIVE Substitute(_, _)
Substitute(body, args) ==
    IF body = <<>> THEN <<>>
    ELSE IF Len(body) > 3 /\ body[1] = "{" /\ body[2] = ":" /\ Contains(Digits, body[3]) /\ body[4] = "}"
    THEN (IF Atoi(<<body[3]>>) \in DOMAIN args THEN args[Atoi(<<body[3]>>)] ELSE <<>>)
         \o Substitute(SubSeq(body, 5, Len(body)), args)
    ELSE <<Head(body)>> \o Substitute(Tail(body), args)

\* The body of a macro: a function of this evaluation, or one stored with the
\* owner, out from the object, or on #0.  A refusal is told and passed over.
Macro(e, name) ==
    LET path == <<"_msgmacs", "/">> \o name
        Body(q) == Ok(q.e, IF q.err # <<>> THEN <<>> ELSE q.s.text)
        OrGlobal(r) == IF r.s # <<>> THEN r ELSE Body(StrictGetProp(r.e, <<>>, Global, path))
        OrNear(r) == IF r.s # <<>> THEN r
                     ELSE OrGlobal(Body(LimitedGetProp(r.e, e.what, Owner[e.what], path)))
    IN  IF name = <<>> THEN Ok(e, <<>>)
        ELSE IF e.funcs # 0 /\ name \in DOMAIN e.maps[e.funcs] /\ e.maps[e.funcs][name] # <<>>
        THEN Ok(e, e.maps[e.funcs][name])
        ELSE OrNear(Body(StrictGetProp(e, <<>>, Owner[e.what], path)))

-----------------------------------------------------------------------------
\* Functions of their arguments alone (impl.go, impl_list.go, impl_misc.go).

Separator(a, at) == IF at > Len(a) THEN <<"cr">> ELSE a[at]
SeparatorAt(f) == CASE f = "COUNT" -> 2 [] f = "LMEMBER" -> 3 [] f = "SUBLIST" -> 4 [] OTHER -> 1

CountItems(list, sep) == IF list = <<>> THEN 0 ELSE Len(SplitAt(list, sep))
Clamp(i, count) ==
    LET low == IF i > count THEN count ELSE i
    IN  Max({1, IF low < 0 THEN low + count + 1 ELSE low})
Sublist(list, from, to, sep) ==
    LET Between(items, first, last) ==
            IF first <= last THEN SubSeq(items, first, last) ELSE Reverse(SubSeq(items, last, first))
        Within(count) == Between(SplitAt(list, sep), Clamp(from, count), Clamp(to, count))
    IN  IF from = 0 \/ to = 0 THEN <<>> ELSE Join(Within(CountItems(list, sep)), sep)

Distinct(lines) ==
    FoldLeft(LAMBDA out, l : IF Contains(out, l) THEN out ELSE Append(out, l), <<>>, lines)
Lines(lines) == Join(lines, <<"cr">>)

Plain == {"NULL", "NL", "LIT", "STRIP", "MKLIST", "ADD", "SUBT", "MULT", "ABS", "SIGN", "MAX", "MIN",
          "EQ", "NE", "GT", "GE", "LT", "LE", "NOT", "XOR", "COUNT", "SUBLIST", "LMEMBER",
          "LUNIQUE", "LUNION", "LCOMMON", "LREMOVE"}
Combined(f, x, y) == Wrap(CASE f = "ADD" -> x + y [] f = "SUBT" -> x - y [] f = "MULT" -> x * y)
\* n is the first argument as a number, c how the first two compare, one and
\* other_ their lines, for the functions that need them.
Answer_(f, a, n, c, one, other_) ==
        CASE f = "NULL"    -> <<>>
          [] f = "NL"      -> <<"cr">>
          [] f = "LIT"     -> Join(a, <<",">>)
          [] f = "STRIP"   -> Trim(a[1])
          [] f = "MKLIST"  -> Lines(a)
          [] f \in {"ADD", "SUBT", "MULT"} ->
                 Itoa(FoldLeft(LAMBDA m, s : Combined(f, m, Atoi(s)), n, Tail(a)))
          [] f = "ABS"     -> Itoa(Wrap(IF n < 0 THEN -n ELSE n))
          [] f = "SIGN"    -> Itoa(Order(n, 0))
          [] f = "MAX"     -> IF c >= 0 THEN a[1] ELSE a[2]
          [] f = "MIN"     -> IF c <= 0 THEN a[1] ELSE a[2]
          [] f = "EQ"      -> BoolOf(c = 0)
          [] f = "NE"      -> BoolOf(c # 0)
          [] f = "GT"      -> BoolOf(c > 0)
          [] f = "GE"      -> BoolOf(c >= 0)
          [] f = "LT"      -> BoolOf(c < 0)
          [] f = "LE"      -> BoolOf(c <= 0)
          [] f = "NOT"     -> BoolOf(~Truthy(a[1]))
          [] f = "XOR"     -> BoolOf(Truthy(a[1]) # Truthy(a[2]))
          [] f = "COUNT"   -> Itoa(CountItems(a[1], Separator(a, 2)))
          [] f = "SUBLIST" -> IF Len(a) < 2 THEN a[1]
                              ELSE Sublist(a[1], Atoi(a[2]), Atoi(a[Min({3, Len(a)})]), Separator(a, 4))
          [] f = "LMEMBER" -> Itoa(SelectInSeq(SplitAt(a[1], Separator(a, 3)), LAMBDA l : l = a[2]))
          [] f = "LUNIQUE" -> Lines(Distinct(one))
          [] f = "LUNION"  -> Lines(Distinct(one \o other_))
          [] f = "LCOMMON" -> Lines(Distinct(SelectSeq(other_, LAMBDA l : Contains(one, l))))
          [] f = "LREMOVE" -> Lines(Distinct(SelectSeq(one, LAMBDA l : ~Contains(other_, l))))

PlainCall(e, f, a) ==
    IF SeparatorAt(f) > 1 /\ Separator(a, SeparatorAt(f)) = <<>>
    THEN Bad(e, <<f>>, "Can't use null separator string.")
    ELSE Ok(e, Answer_(f, a, Atoi(a[1]), MsgCompare(a[1], a[2]), SplitLines(a[1]), SplitLines(a[2])))

-----------------------------------------------------------------------------
\* Parsing and calling.

Escaped_(c) == IF c = "r" THEN "cr" ELSE IF c = "[" THEN "escape" ELSE c

RECURSIVE Parse(_, _), Scan(_, _, _, _), InTurn(_, _, _), Evaluated(_, _, _, _), Apply(_, _, _)
RECURSIVE Bodies(_, _, _), Settled(_, _, _), While(_, _, _, _), For(_, _, _, _, _, _, _)
RECURSIVE Passes(_, _, _, _, _), Swapped(_, _, _, _, _, _), Params(_, _, _, _), Folded(_, _, _, _)

Parse(e, in) ==
    IF e.depth >= RecursionLimit THEN Bad(e, <<>>, "Recursion limit exceeded.")
    ELSE [Scan([e EXCEPT !.depth = @ + 1], in, <<>>, FALSE) EXCEPT !.e.depth = e.depth]

\* Texts evaluated, each in its turn, and so the arguments of a call.
InTurn(e, texts, done) ==
    IF Len(done) = Len(texts) THEN Ok(e, done)
    ELSE Then(Parse(e, texts[Len(done) + 1]), LAMBDA g, s : InTurn(g, texts, Append(done, s)))
Evaluated(e, f, args, done) ==
    IF Len(done) = Len(args) THEN Ok(e, done)
    ELSE Then(Framed(Parse(e, args[Len(done) + 1]), f, Len(done) + 1),
              LAMBDA g, s : Evaluated(g, f, args, Append(done, s)))

\* A function, once its arguments have come.
Applied(r, name, f) ==
    IF r.err # <<>> THEN r
    ELSE IF Len(r.s) < Arity(f).min THEN Bad(r.e, name, "Too few arguments.")
    ELSE IF Len(r.s) > Arity(f).max THEN Bad(r.e, name, "Too many arguments.")
    ELSE Apply(r.e, f, r.s)
Trimmed(f, args) == IF f \in Stripped THEN [i \in DOMAIN args |-> Trim(args[i])] ELSE args
Argued(e, name, f, args) ==
    Applied(IF f \in Unparsed THEN Ok(e, args) ELSE Evaluated(e, name, args, <<>>), name, f)

Expanded(r, name, args) ==
    IF r.s = <<>> THEN Bad(r.e, name, "Unrecognized function.")
    ELSE Parse(r.e, Substitute(r.s, args))

\* A variable is read by {sublist}, with its value for a first argument.
Invoke(e, c, name, f, var) ==
    IF c.err # "" THEN Bad(e, name, c.err)
    ELSE IF f \notin Functions THEN Expanded(Macro(e, name), name, c.args)
    ELSE IF var /\ Innermost(e, Tail(c.name)) = 0 THEN Bad(e, c.name, "Unrecognized variable.")
    ELSE Argued(e, name, f,
                Trimmed(f, IF var THEN <<Value(e, Tail(c.name))>> \o c.args ELSE c.args))
Call(e, c) ==
    LET As(name, var) == Invoke(e, c, name, IF Len(name) = 1 THEN name[1] ELSE "", var)
    IN  IF e.instr > MaxCommands THEN Bad(e, c.name, "Instruction limit exceeded.")
        ELSE As(IF IsVariable(c.name) THEN <<"SUBLIST">> ELSE c.name, IsVariable(c.name))

\* What follows a call, once it has come.
Spliced(r, rest, out, literal) ==
    IF r.err # <<>> THEN r ELSE Scan(r.e, rest, out \o r.s, literal)
Scanned(e, c, out, literal) ==
    Spliced(Call([e EXCEPT !.instr = @ + 1], c), c.rest, out, literal)

Scan(e, in, out, literal) ==
    IF in = <<>> THEN Ok(e, out)
    ELSE LET c == Head(in)
             rest == Tail(in)
         IN  CASE c = "\\" /\ rest # <<>> ->
                      Scan(e, Tail(rest), Append(out, Escaped_(Head(rest))), literal)
               [] c = "tick" -> Scan(e, rest, out, ~literal)
               [] c = "{" /\ ~literal /\ rest # <<>> /\ Head(rest) = "{" ->
                      Scan(e, Tail(rest), Append(out, "{"), literal)
               [] c = "{" /\ ~literal /\ IsCall(rest) -> Scanned(e, ReadCall(rest), out, literal)
               [] OTHER -> Scan(e, rest, Append(out, c), literal)

-----------------------------------------------------------------------------
\* Deciding and binding (impl.go, impl_misc.go).

\* {and} and {or}: as far as it takes.
Settled(e, stopOn, args) ==
    IF args = <<>> THEN Ok(e, BoolOf(~stopOn))
    ELSE Then(Parse(e, Head(args)), LAMBDA g, s :
             IF Truthy(s) = stopOn THEN Ok(g, BoolOf(stopOn)) ELSE Settled(g, stopOn, Tail(args)))

\* Each in turn; what comes is what comes of the last.
Bodies(e, args, out) ==
    IF args = <<>> THEN Ok(e, out)
    ELSE Then(Parse(e, Head(args)), LAMBDA g, s : Bodies(g, Tail(args), s))

If(e, a) ==
    Then(Parse(e, a[1]), LAMBDA g, s :
        IF Truthy(s) THEN Parse(g, a[2]) ELSE IF Len(a) > 2 THEN Parse(g, a[3]) ELSE Ok(g, <<>>))
Default(e, a) ==
    Then(Parse(e, a[1]), LAMBDA g, s : IF Truthy(s) THEN Ok(g, s) ELSE Parse(g, a[2]))
With(e, a) ==
    Then(Parse(e, a[2]), LAMBDA g, v :
        Scoped(g, <<"WITH">>, a[1], v, LAMBDA h : Bodies(h, SubSeq(a, 3, Len(a)), <<>>)))

SetTo(e, f, name, value) ==
    IF Innermost(e, name) = 0 THEN Bad(e, <<f>>, "No such variable currently defined.")
    ELSE Ok(Assign(e, name, value), value)
StepBy(e, f, a, sign) ==
    SetTo(e, f, a[1], IF Innermost(e, a[1]) = 0 THEN <<>>
                      ELSE Itoa(Wrap(Atoi(Value(e, a[1]))
                                     + sign * (IF Len(a) > 1 THEN Atoi(a[2]) ELSE 1))))
Var(e, a) == IF Innermost(e, a[1]) = 0 THEN Bad(e, <<"V">>, "No such variable defined.")
             ELSE Ok(e, Value(e, a[1]))

-----------------------------------------------------------------------------
\* Going round (impl_control.go, impl_list.go).

While(e, a, out, i) ==
    IF i = MaxListLen THEN Bad(e, <<"WHILE">>, "Iteration limit exceeded")
    ELSE Then(Parse(e, a[1]), LAMBDA g, s :
             IF ~Truthy(s) THEN Ok(g, out)
             ELSE Then(Parse(g, a[2]), LAMBDA h, body : While(h, a, body, i + 1)))

\* A step of nothing goes round once.
For(e, a, name, i, end, step, n) ==
    LET out == n.out IN
    IF IF step >= 0 THEN i > end ELSE i < end THEN Ok(e, out)
    ELSE IF n.count + 1 >= MaxListLen THEN Bad(e, <<"FOR">>, "Iteration limit exceeded")
    ELSE Then(Parse(Assign(e, name, Itoa(i)), a[5]), LAMBDA g, s :
             IF step = 0 THEN Ok(g, s)
             ELSE For(g, a, name, i + step, end, step, [out |-> s, count |-> n.count + 1]))
Counting(e, a) ==
    Then(InTurn(e, SubSeq(a, 1, 4), <<>>), LAMBDA g, v :
        Scoped(g, <<"FOR">>, v[1], <<>>, LAMBDA h :
            For(h, a, v[1], Atoi(v[2]), Atoi(v[3]), Atoi(v[4]), [out |-> <<>>, count |-> 0])))

\* The body once for each item, and what came of each.
Passes(e, name, items, body, outs) ==
    IF items = <<>> THEN Ok(e, outs)
    ELSE Then(Parse(Assign(e, name, Head(items)), body), LAMBDA g, s :
             Passes(g, name, Tail(items), body, Append(outs, s)))

ParseSep(e, f, a, at, fallback) ==
    IF at > Len(a) THEN Ok(e, fallback)
    ELSE Then(Parse(e, a[at]), LAMBDA g, s :
             IF s = <<>> THEN Bad(g, <<f>>, "Can't use null separator string") ELSE Ok(g, s))

\* A list and its separator, and the separator again for what comes out: its
\* error is left for the first to tell.
ParseList(e, f, a, at, sepAt) ==
    Then(Parse(e, a[at]), LAMBDA g, list :
    Then(ParseSep(g, f, a, sepAt, <<"cr">>), LAMBDA h, sep :
        LET items == IF list = <<>> THEN <<>> ELSE SplitAt(list, sep)
        IN  IF Len(items) > MaxListLen THEN Bad(h, <<f>>, "Iteration limit exceeded")
            ELSE Ok(h, items)))
SepOr(e, a, at) ==
    LET r == Parse(e, a[at])
    IN  IF at > Len(a) THEN Ok(e, <<"cr">>)
        ELSE Ok(r.e, IF r.err # <<>> \/ r.s = <<>> THEN <<"cr">> ELSE r.s)

EachOf(e, f, name, items, body) ==
    Scoped(e, <<f>>, name, <<>>, LAMBDA g : Passes(g, name, items, body, <<>>))

ForEach(e, a) ==
    Then(Parse(e, a[1]), LAMBDA g, name :
    Then(ParseList(g, "FOREACH", a, 2, 4), LAMBDA h, items :
    Then(EachOf(h, "FOREACH", name, items, a[3]), LAMBDA k, outs :
        Ok(k, IF outs = <<>> THEN <<>> ELSE Last(outs)))))

\* {parse} gives what came of each, {filter} the items that came true.
Mapped(e, f, a) ==
    Then(Parse(e, a[1]), LAMBDA g, name :
    Then(ParseList(g, f, a, 2, 4), LAMBDA h, items :
    Then(SepOr(h, a, 4), LAMBDA k, sep :
    Then(ParseSep(k, f, a, 5, sep), LAMBDA l, outSep :
    Then(EachOf(l, f, name, items, a[3]), LAMBDA m, outs :
        Ok(m, Join(IF f = "PARSE" THEN outs
                   ELSE LET true == {i \in DOMAIN items : Truthy(outs[i])}
                        IN  [i \in 1 .. Cardinality(true) |-> items[SetToSortSeq(true, <)[i]]],
                   outSep)))))))

Folded(e, a, names, state) ==
    IF state.items = <<>> THEN Ok(e, state.acc)
    ELSE Then(Parse(Assign(Assign(e, names[1], state.acc), names[2], Head(state.items)), a[4]),
              LAMBDA g, s : Folded(g, a, names, [acc |-> s, items |-> Tail(state.items)]))
Fold(e, a) ==
    Then(InTurn(e, SubSeq(a, 1, 2), <<>>), LAMBDA g, v :
    Then(ParseList(g, "FOLD", a, 3, 5), LAMBDA h, items :
        Scoped(h, <<"FOLD">>, v[1], <<>>, LAMBDA k :
        Scoped(k, <<"FOLD">>, v[2], <<>>, LAMBDA l :
            IF items = <<>> THEN Ok(l, <<>>)
            ELSE Folded(l, a, v, [acc |-> items[1], items |-> Tail(items)])))))

\* With four arguments, a body says of each pair in turn whether to swap it.
Swap(s, i, j) == [s EXCEPT ![i] = s[j], ![j] = s[i]]
Swapped(e, names, body, items, i, j) ==
    IF i > Len(items) THEN Ok(e, Lines(items))
    ELSE IF j > Len(items) THEN Swapped(e, names, body, items, i + 1, i + 2)
    ELSE Then(Parse(Assign(Assign(e, names[1], items[i]), names[2], items[j]), body), LAMBDA g, s :
             Swapped(g, names, body, IF Truthy(s) THEN Swap(items, i, j) ELSE items, i, j + 1))
SortedBy(e, x, y, body, items) ==
    Scoped(e, <<"LSORT">>, x, <<>>, LAMBDA g :
    Scoped(g, <<"LSORT">>, y, <<>>, LAMBDA h : Swapped(h, <<x, y>>, body, items, 1, 2)))
LSort(e, a) ==
    LET Of(g, items) ==
            IF Len(items) > MaxListLen THEN Bad(g, <<"LSORT">>, "Iteration limit exceeded")
            ELSE IF Len(a) = 1 THEN Ok(g, Lines(Sorted(items)))
            ELSE Then(InTurn(g, SubSeq(a, 2, 3), <<>>), LAMBDA h, v :
                     SortedBy(h, v[1], v[2], a[4], items))
    IN  IF Len(a) \in 2 .. 3 THEN Bad(e, <<"LSORT">>, "Takes 1 or 4 arguments.")
        ELSE Then(Parse(e, a[1]), LAMBDA g, list : Of(g, SplitLines(list)))

Commas(e, a) ==
    LET Said(items, last) ==
            IF Len(items) = 1 THEN items[1] ELSE Join(Front(items), <<",", " ">>) \o last \o Last(items)
        Ended(g, items) == IF Len(a) = 1 THEN Ok(g, <<" ", "and", " ">>) ELSE Parse(g, a[2])
    IN  IF Len(a) = 3 THEN Bad(e, <<"COMMAS">>, "Takes 1, 2, or 4 arguments.")
        ELSE Then(Parse(e, a[1]), LAMBDA g, list :
             IF list = <<>> THEN Ok(g, <<>>)
             ELSE Then(Ended(g, list), LAMBDA h, last :
                  IF Len(a) < 4 THEN Ok(h, Said(SplitLines(list), last))
                  ELSE Then(Parse(h, a[3]), LAMBDA k, name :
                       Then(EachOf(k, "COMMAS", name, SplitLines(list), a[4]), LAMBDA l, outs :
                           Ok(l, Said(outs, last))))))

-----------------------------------------------------------------------------
\* Properties read, written and run (impl.go, impl_prop.go, impl_list.go,
\* impl_control.go).

Fetch(e, f, o, name) ==
    IF f \in {"PROP!", "INDEX!", "EXEC!"} THEN StrictGetProp(e, <<f>>, o, name)
    ELSE GetProp(e, <<f>>, o, name)

\* {exec} runs what a property says on a copy: as blessed as the property, on
\* the object it is on, and for that object if the name is privileged.
Sigils == ReadOnly \cup Private \cup SeeOnly \cup Hidden
Exec(e, f, o, name) ==
    Then(Fetch(e, f, o, TrimLeft(name, {"/"})), LAMBDA g, v :
        Framed(Rejoin(g, Parse([g EXCEPT !.blessed = v.blessed, !.what = o,
                                         !.perms = IF Check(Segments(name), Sigils) THEN o ELSE g.what],
                               v.text)),
               <<f>>, "propval"))

Followed(r, f, o) ==
    IF r.err # <<>> THEN r ELSE IF r.s.text = <<>> THEN Ok(r.e, Unset) ELSE Fetch(r.e, f, o, r.s.text)
Index(e, f, o, name) == Followed(Fetch(e, f, o, name), f, o)

\* The lists that are properties (list.go).
ListName(name) == IF name # <<>> /\ Last(name) = "#" THEN Front(name) ELSE name
ListItem(e, f, o, name, n) == GetProp(e, <<f>>, o, ListName(name) \o <<"#", "/">> \o Itoa(n))

RECURSIVE Measured(_, _, _, _, _), CountAt(_, _, _, _, _), Collected(_, _, _, _, _, _)
RECURSIVE Nearest(_, _, _, _, _)
Measured(e, f, o, name, i) ==
    IF i >= MaxListLen THEN Ok(e, MaxListLen)
    ELSE Then(ListItem(e, f, o, name, i), LAMBDA g, v :
             IF v.text = <<>> THEN Ok(g, i - 1) ELSE Measured(g, f, o, name, i + 1))
CountAt(e, f, o, name, ends) ==
    LET Whole(s) == IF IsNumber(s) THEN Atoi(s) ELSE 0 IN
    IF ends = <<>> THEN Measured(e, f, o, name, 1)
    ELSE Then(GetProp(e, <<f>>, o, ListName(name) \o Head(ends)), LAMBDA g, v :
             IF v.text # <<>> THEN Ok(g, Whole(Trim(v.text))) ELSE CountAt(g, f, o, name, Tail(ends)))
ListCount(e, f, o, name) == CountAt(e, f, o, name, <<<<"#">>, <<"/", "#">>>>)
Collected(e, f, o, name, count, items) ==
    IF Len(items) >= count THEN Ok(e, items)
    ELSE Then(ListItem(e, f, o, name, Len(items) + 1), LAMBDA g, v :
             Collected(g, f, o, name, count, Append(items, v.text)))
CollectAll(r, f, o, name) ==
    IF r.err # <<>> THEN r ELSE Collected(r.e, f, o, name, Min({r.s, MaxListLen}), <<>>)
ListItems(e, f, o, name) == CollectAll(ListCount(e, f, o, name), f, o, name)

\* Items joined by lines; an empty first one leaves no line.
ConcatLines(items) ==
    FoldLeft(LAMBDA s, i : IF s = <<>> THEN i ELSE s \o <<"cr">> \o i, <<>>, items)
ConcatTight(items) == FoldLeft(LAMBDA s, i : s \o Trim(i), <<>>, items)

Nearest(e, f, o, name, i) ==
    IF i < 1 THEN Ok(e, <<>>)
    ELSE Then(ListItem(e, f, o, name, i), LAMBDA g, v :
             IF v.text # <<>> THEN Ok(g, v.text) ELSE Nearest(g, f, o, name, i - 1))

\* A read is of an object one may read; the four that write are stricter.
Reads  == {"PROP", "PROP!", "INDEX", "INDEX!", "EXEC", "EXEC!", "PROPDIR", "LIST", "LEXEC", "SELECT"}
Writing == {"STORE", "DELPROP", "BLESS", "UNBLESS"}
\* The text of a value that was read.
TextOf(r) == IF r.err # <<>> THEN r ELSE Ok(r.e, r.s.text)
\* The items of a list, shown or run.
ItemsOf(r, f) == IF r.err # <<>> THEN r
                 ELSE IF f = "LIST" THEN Ok(r.e, ConcatLines(r.s)) ELSE Parse(r.e, ConcatTight(r.s))

ReadFrom(e, f, o, a) ==
    CASE f \in {"PROP", "PROP!"}   -> TextOf(Fetch(e, f, o, a[1]))
      [] f \in {"INDEX", "INDEX!"} -> TextOf(Index(e, f, o, a[1]))
      [] f \in {"EXEC", "EXEC!"}   -> Exec(e, f, o, a[1])
      [] f = "PROPDIR" -> Ok(e, BoolOf(Children(e.w.tree[o], Path(a[1])) # <<>>))
      [] f \in {"LIST", "LEXEC"} ->
             ItemsOf(ListItems(e, f, o, IF f = "LIST" THEN a[1] ELSE TrimLeft(a[1], {"/"})), f)
      [] f = "SELECT" -> Nearest(e, f, o, a[2], Atoi(a[1]))

WriteTo(e, f, o, a) ==
    CASE f = "STORE"   -> Then(SafePutProp(e, <<f>>, o, a[2], a[1], TRUE), LAMBDA g, s : Ok(g, a[1]))
      [] f = "DELPROP" -> SafePutProp(e, <<f>>, o, a[1], <<>>, FALSE)
      [] f \in {"BLESS", "UNBLESS"} ->
             IF ValidPropName(TrimLeft(a[1], {"/"})) /\ e.blessed
             THEN Ok([e EXCEPT !.w = SetBlessed(@, o, Segments(a[1]), f = "BLESS")], <<>>)
             ELSE Bad(e, <<f>>, "Permission denied.")

On(r, f, a) ==
    IF r.err # <<>> THEN r
    ELSE IF f \in Reads THEN ReadFrom(r.e, f, r.s, a) ELSE WriteTo(r.e, f, r.s, a)

-----------------------------------------------------------------------------
\* {func}: the body, within a {with} for each parameter.
Params(e, a, i, body) ==
    IF i >= Len(a) - 1 THEN Ok(e, body)
    ELSE Then(Parse(e, a[i + 1]), LAMBDA g, param :
             Params(g, a, i + 1,
                    <<"{", "WITH", ":">> \o param \o <<",", "{", ":">> \o Itoa(i) \o <<"}", ",">>
                    \o body \o <<"}">>))
Define(e, name, body) ==
    LET made == IF e.funcs # 0 THEN e
                ELSE [e EXCEPT !.maps = Append(@, <<>>), !.funcs = Len(e.maps) + 1]
    IN  IF Cardinality(DOMAIN made.maps[made.funcs]) >= MaxFuncs
        THEN Bad(made, <<"FUNC">>, "Too many functions defined.")
        ELSE Ok([made EXCEPT !.maps[made.funcs] = [n \in DOMAIN @ \cup {name} |->
                    IF n = name THEN body ELSE @[n]]], <<>>)
Func(e, a) ==
    Then(Parse(e, a[1]), LAMBDA g, name :
    Then(Params(g, a, 1, Last(a)), LAMBDA h, body : Define(h, name, body)))

Unblessed(e, text) == Rejoin(e, Parse([e EXCEPT !.blessed = FALSE], text))

Apply(e, f, a) ==
    CASE f \in Plain -> PlainCall(e, f, a)
      [] f \in Reads \cup Writing ->
             On(Resolve(e, <<f>>, a, IF f \in {"STORE", "SELECT"} THEN 3 ELSE 2, f \in Writing), f, a)
      [] f \in {"AND", "OR"} -> Settled(e, f = "OR", a)
      [] f = "IF"      -> If(e, a)
      [] f = "DEFAULT" -> Default(e, a)
      [] f = "WITH"    -> With(e, a)
      [] f = "SET"     -> SetTo(e, f, a[1], a[2])
      [] f = "INC"     -> StepBy(e, f, a, 1)
      [] f = "DEC"     -> StepBy(e, f, a, -1)
      [] f = "V"       -> Var(e, a)
      [] f = "WHILE"   -> While(e, a, <<>>, 0)
      [] f = "FOR"     -> Counting(e, a)
      [] f = "FOREACH" -> ForEach(e, a)
      [] f \in {"PARSE", "FILTER"} -> Mapped(e, f, a)
      [] f = "FOLD"    -> Fold(e, a)
      [] f = "LSORT"   -> LSort(e, a)
      [] f = "COMMAS"  -> Commas(e, a)
      [] f = "FUNC"    -> Func(e, a)
      [] f \in {"EVAL!", "DEBUG"} -> Parse(e, a[1])
      [] f \in {"EVAL", "REVOKE"} -> Unblessed(e, a[1])
      [] f = "DEBUGIF" -> Bodies(e, a, <<>>)

-----------------------------------------------------------------------------
\* A message (Eval, game/mpi.go evalMPIAs): what its reader sees, an error
\* told and no text; with what it was called by, and a command's name and
\* argument.

NewEnv(w, who, what, blessed) ==
    [who |-> who, what |-> what, perms |-> what, blessed |-> blessed, w |-> w,
     arrays |-> <<<<>>>>, at |-> 1, len |-> 0, maps |-> <<>>, funcs |-> 0,
     depth |-> 0, instr |-> 0, told |-> <<>>]

\* The errors, told as whose they are.
Reported(r) ==
    LET how == IF Innermost(r.e, <<"how">>) = 0 THEN <<>> ELSE Value(r.e, <<"how">>)
    IN  [r EXCEPT !.e.told = @ \o [i \in DOMAIN r.err |-> <<how, r.err[i]>>]]
Eval(e, text) == Reported(Parse(e, text))

EvalMessage(w, who, what, text, how, cmd, arg, blessed) ==
    LET Bound(e, name, value) == Bind(e, <<>>, <<name>>, value).e
        hows == Bound(NewEnv(w, who, what, blessed), "how", how)
    IN  Eval(Bound(Bound(hows, "cmd", cmd), "arg", arg), text)

\* A message property is shown (execOrNotifyProp, execOrNotify, for one that
\* names no program).
Shown(who, o, p, how) ==
    EvalMessage(World, who, o, Get(tree[o], p).text, how, <<>>, <<>>, tree[o][p].blessed)
ShowMessage(who, o, p, how) ==
    /\ Get(tree[o], p).t = "text" /\ Head(Get(tree[o], p).text) # "@"
    /\ Become(Shown(who, o, p, how).e.w)
    /\ UNCHANGED <<rows, ops>>
===============================================================================
