-------------------------------- MODULE Locks ---------------------------------
(***************************************************************************)
(* Locks: internal/boolexp, with the world it asks about (game/boolexp.go) *)
(* and the MUF primitives that test locks (muf/prim_lock.go).              *)
(*                                                                         *)
(* The text of a lock is a sequence of tokens, <<"&">>, <<"|">>, <<"!">>,  *)
(* <<"(">>, <<")">>, <<"name", words>> or <<"prop", name, value>>.  The    *)
(* typed text names objects any way the matcher takes; the stored text     *)
(* names them "#N".  An expression is <<"true">> (TRUE_BOOLEXP), <<"and",  *)
(* a, b>>, <<"or", a, b>>, <<"not", a>>, <<"const", ref>> or <<"prop",     *)
(* name, value>>.                                                          *)
(*                                                                         *)
(* A world here also has                                                   *)
(*   locks   the stored texts, by <<ref, property>>                        *)
(*   props   the other properties of each object: name |-> value           *)
(*   does    what each program does                                        *)
(***************************************************************************)
EXTENDS Matching, TLC

CONSTANTS
    SystemProps,    \* the properties no lock may be typed with
    HiddenProps     \* those only a wizard may type

\* The deepest a TESTLOCK may be nested; the same for LOCKED?, which asks
\* max_interp_recursion.
MaxLevel == 8

\* A property that holds the number zero opens a lock whatever it asks for.
Zero == "zero"

-----------------------------------------------------------------------------
\* Parsing.  A parse is an expression and the position after it; the text
\* after a whole lock is not looked at.

Bad == [ok |-> FALSE]
Parsed(e, at) == [ok |-> TRUE, e |-> e, at |-> at]

\* What a typed name means in a lock.
MatchKey(w, player, name) ==
    LET m == [New(player, name) EXCEPT !.prefer = "thing"]
    IN  Result(Player(w, Registered(w, Absolute(w, Here(w, Me(w, Possession(w,
                   Neighbor(w, m))))))))

MayName(w, player, prop) ==
    prop \notin SystemProps /\ (prop \in HiddenProps => IsWizard(w, player))

Constant(r) == IF r \in {Nothing, Ambiguous} THEN <<"bad">> ELSE <<"const", r>>

\* The words of a typed lock, each as what it stands for, and those of a stored
\* one.
TypedKey(w, player, text) ==
    LET stands(t) ==
            CASE t[1] = "name" -> Constant(MatchKey(w, player, t[2]))
              [] t[1] = "prop" -> IF MayName(w, player, t[2]) THEN t ELSE <<"bad">>
              [] OTHER -> t
    IN  [i \in DOMAIN text |-> stands(text[i])]

StoredKey(text) ==
    [i \in DOMAIN text |->
        IF text[i][1] = "name" /\ IsNumber(text[i][2]) THEN <<"const", Number[text[i][2][1]]>>
        ELSE IF text[i][1] = "name" THEN <<"bad">>
        ELSE text[i]]

Parse(words) ==
    LET token(i) == IF i \in DOMAIN words THEN words[i] ELSE <<"end">>
        first(rule) == IF rule = "or" THEN "and" ELSE "atom"
        sign(rule)  == IF rule = "or" THEN "|" ELSE "&"
        p[rule \in {"or", "and", "atom"}, i \in Nat] ==
            IF rule # "atom"
            THEN LET a == p[first(rule), i]
                     b == p[rule, a.at + 1]
                 IN  IF ~a.ok \/ token(a.at)[1] # sign(rule) THEN a
                     ELSE IF ~b.ok THEN Bad
                     ELSE Parsed(<<rule, a.e, b.e>>, b.at)
            ELSE CASE token(i)[1] = "(" ->
                        LET a == p["or", i + 1]
                        IN  IF a.ok /\ token(a.at)[1] = ")" THEN Parsed(a.e, a.at + 1) ELSE Bad
                   [] token(i)[1] = "!" ->
                        LET a == p["atom", i + 1]
                        IN  IF a.ok THEN Parsed(<<"not", a.e>>, a.at) ELSE Bad
                   [] token(i)[1] \in {"const", "prop"} -> Parsed(token(i), i + 1)
                   [] OTHER -> Bad
    IN  p["or", 1]

-----------------------------------------------------------------------------
\* Back to text.

NumberWord(r) == CHOOSE word \in DOMAIN Number : Number[word] = r

MutantBare(inner, outer) == inner = "and" /\ outer = "not"

\* The operators that must be put in brackets inside others.
Bracketed(inner, outer) ==
    \/ inner = "and" /\ outer = "not"
    \/ inner = "or" /\ outer \in {"not", "and"}

RECURSIVE Unparse(_, _)
Unparse(e, outer) ==
    LET joined(sign) == Unparse(e[2], e[1]) \o <<<<sign>>>> \o Unparse(e[3], e[1])
        text == CASE e[1] = "and"   -> joined("&")
                  [] e[1] = "or"    -> joined("|")
                  [] e[1] = "not"   -> <<<<"!">>>> \o Unparse(e[2], "not")
                  [] e[1] = "const" -> <<<<"name", <<NumberWord(e[2])>>>>>>
                  [] OTHER          -> <<e>>
    IN  IF Bracketed(e[1], outer) THEN <<<<"(">>>> \o text \o <<<<")">>>> ELSE text

-----------------------------------------------------------------------------
\* Testing.

HoldsProp(w, r, name, value) ==
    /\ Exists(w, r)
    /\ name \in DOMAIN w.props[r]
    /\ w.props[r][name] \in {value, Zero}

\* On the locked thing, on the player or anything the player carries however
\* deep, or, with lock_envcheck, above one of these.
EvalProp(w, player, thing, name, value) ==
    LET carried == {player} \cup {r \in DOMAIN w.objs : Encloses(w, player, r)}
        above(r) == LET up[i \in 0 .. Cardinality(DOMAIN w.objs)] ==
                            IF i = 0 THEN r ELSE Parent(w, up[i - 1])
                    IN  {up[i] : i \in DOMAIN up}
        asked == {thing} \cup carried
                     \cup IF "lock_envcheck" \in w.tune THEN UNION {above(r) : r \in carried}
                          ELSE {}
    IN  \E r \in asked : HoldsProp(w, r, name, value)

\* Exits lead somewhere a player may go; the rules about where apply to the
\* first destination only.
Reachable(w, player, exit) ==
    LET first  == w.objs[exit].dest[1]
        source == Loc(w, player)
        jump   == Type(w, first) = "player"
        dest   == IF jump THEN Loc(w, first) ELSE first
        guest  == Has(w, player, "guest") /\ player # God
    IN  /\ w.objs[exit].dest # <<>>
        /\ first # Nil =>
              /\ jump => Has(w, first, "jump_ok") /\ ~Has(w, dest, "builder")
              /\ ~(Type(w, dest) = "room" /\ Has(w, dest, "guest") /\ guest)
              /\ Type(w, Loc(w, exit)) \notin {"room", "none"} =>
                    /\ ~(Type(w, dest) \in {"room", "player"} /\ Has(w, source, "builder"))
                    /\ ("secure_teleport" \in w.tune /\ Type(w, dest) = "room" =>
                           \/ Controls(w, w.objs[exit].owner, source)
                           \/ ~Exists(w, source)
                           \/ Has(w, source, "jump_ok"))

\* The lock a property holds; one that does not parse is no lock.
OrTrue(p) == IF p.ok THEN p.e ELSE <<"true">>

Key(w, thing, prop) ==
    IF <<thing, prop>> \in DOMAIN w.locks
    THEN OrTrue(Parse(StoredKey(w.locks[<<thing, prop>>]))) ELSE <<"true">>

\* What a program in a lock tests in its turn, one level deeper: another lock
\* (TESTLOCK, ARRAY_FILTER_LOCK), of the same player against the player or,
\* with consistent_lock_source, what is locked here; or whether the player is
\* locked out of something (LOCKED?).  Only the filter does not mind how deep
\* it is.  The program aborts if it is refused.
Tested(w, player, act, thing, level) ==
    LET against == IF "consistent_lock_source" \in w.tune THEN thing ELSE player
        deep == level + 1 > MaxLevel
        key(at) == {<<Key(w, act[2], "@lock"), at, level + 1>>}
    IN  IF \/ act[1] \notin {"testlock", "filter", "locked"}
           \/ deep /\ act[1] # "filter"
           \/ act[1] = "locked" /\ Type(w, act[2]) = "exit" /\ ~Reachable(w, player, act[2])
        THEN {} ELSE key(IF act[1] = "locked" THEN act[2] ELSE against)

\* What must be asked before an expression can be answered.
Asked(w, player, e, thing, level) ==
    CASE e[1] \in {"and", "or"} -> {<<e[2], thing, level>>, <<e[3], thing, level>>}
      [] e[1] = "not"           -> {<<e[2], thing, level>>}
      [] e[1] = "const" /\ Type(w, e[2]) = "program" ->
             Tested(w, player, w.does[e[2]], thing, level)
      [] OTHER -> {}

\* The player, what is around the player, what is carried, or the owner.
Related(w, player, r) ==
    /\ r # Nothing
    /\ \/ r \in {player, Loc(w, player)} \cup Elems(Contents(w, player))
       \/ Exists(w, player) /\ r = w.objs[player].owner

\* A program that tests nothing passes unless it fails.
RECURSIVE Eval(_, _, _, _, _)
Eval(w, player, e, thing, level) ==
    LET answers == {Eval(w, player, a[1], a[2], a[3]) : a \in Asked(w, player, e, thing, level)}
        tests == w.does[e[2]][1] \in {"testlock", "filter", "locked"}
    IN  CASE e[1] = "true" -> TRUE
          [] e[1] = "and"  -> FALSE \notin answers
          [] e[1] = "or"   -> TRUE \in answers
          [] e[1] = "not"  -> FALSE \in answers
          [] e[1] = "prop" -> EvalProp(w, player, thing, e[2], e[3])
          [] e[1] = "const" /\ Type(w, e[2]) = "program" ->
                 IF tests THEN TRUE \in answers ELSE w.does[e[2]][1] # "fails"
          [] OTHER -> Related(w, player, e[2])

\* What an unset lock answers depends on the lock.
LockPasses(w, player, thing, prop, unset) ==
    IF <<thing, prop>> \in DOMAIN w.locks
    THEN Eval(w, player, Key(w, thing, prop), thing, 1) ELSE unset

CouldDoit(w, player, thing) ==
    /\ Type(w, thing) = "exit" => Reachable(w, player, thing)
    /\ LockPasses(w, player, thing, "@lock", TRUE)

\* @lock and its family, and SETLOCKSTR: what does not parse leaves the lock
\* as it was.
StoreLock(w, key, p) ==
    IF p.ok THEN [w EXCEPT !.locks = (key :> Unparse(p.e, "const")) @@ @] ELSE w

\* A key of words whose names have been looked up; none clears the lock.
SetLock(w, key, words) ==
    IF words = <<>> THEN [w EXCEPT !.locks = [k \in DOMAIN @ \ {key} |-> @[k]]]
    ELSE StoreLock(w, key, Parse(words))
===============================================================================
