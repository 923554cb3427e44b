---------------------------- MODULE MufDirectives -----------------------------
(***************************************************************************)
(* What the MUF compiler makes of a program's text before any word of it   *)
(* is compiled (compiler/lexer.go, directive.go and next in compiler.go):  *)
(* comments, definitions, macros, and the directives that keep one half of *)
(* the text and drop the other.                                            *)
(*                                                                         *)
(* A text is a sequence of the words of MufCompiler, the ends of lines,    *)
(* and the brackets of comments.  The words are read one at a time:        *)
(*   src      what of the text has not been read                           *)
(*   pending  what a definition put before it                              *)
(*   tok      the word just read                                           *)
(*   defs     what each defined name stands for                            *)
(*   conds    how many conditionals are open on the half that is kept      *)
(*   mode     how comments are parsed                                      *)
(*   out      the words handed on, in order                                *)
(*   props    the writes to the program's properties that directives ask   *)
(*            for, in order (Properties applies them)                      *)
(*   entry    the procedure to start at, if one was named                  *)
(* Left out: what is told to whoever compiles ($echo, the warnings), and   *)
(* the tests of order in $ifdef.                                           *)
(***************************************************************************)
EXTENDS MufCompiler

CONSTANTS
    Builtin,            \* the definitions a compile starts with: name |-> words
    Macros,             \* the editor's macro table: ".name" |-> words
    Libraries,          \* what $include and its kin can name: the definitions,
                        \* the version and the callable functions of each
    StrictComments,     \* muf_comments_strict
    PathNames,          \* the names with a / or a : in them
    SigilNames,         \* those with a ~ or an @ before them
    NoDirectives,       \* words that begin with a $ and are no directive
    MaxSubstitutions,   \* twenty in the code
    MaxCommentDepth     \* seven in the code

Eol   == Word("end of line")
Open  == Word("(")
Close == Word(")")
End   == Word("end of text")

\* A word with a backslash before it, and a name to be tested for a value.
Escaped(w) == [w |-> w, n |-> -1]
Is(w, v)   == [w |-> w, is |-> v]

NewReader(text) ==
    [src |-> text, pending |-> <<>>, tok |-> Eol, defs |-> Builtin, conds |-> 0,
     mode |-> "loose", out |-> <<>>, props |-> <<>>, entry |-> "", err |-> ""]

-----------------------------------------------------------------------------
\* The lexer.

\* Where the comment at the head of a text ends, its brackets balanced, or 0.
NestedEnd(text) ==
    LET bracket(c, i) ==
            IF c.over THEN c
            ELSE CASE text[i] = Open  -> [c EXCEPT !.depth = @ + 1, !.over = c.depth = MaxCommentDepth]
                   [] text[i] = Close -> [c EXCEPT !.depth = @ - 1, !.over = c.depth = 1,
                                                   !.end = IF c.depth = 1 THEN i ELSE 0]
                   [] OTHER -> c
    IN  FoldLeft(bracket, [depth |-> 0, over |-> FALSE, end |-> 0], [i \in DOMAIN text |-> i]).end

FlatEnd(text) == SelectInSeq(text, LAMBDA t : t = Close)

\* Where one does not balance, the default is to look for the first bracket.
CommentEnd(text, mode) ==
    CASE mode = "strict"  -> FlatEnd(text)
      [] mode = "recurse" -> NestedEnd(text)
      [] OTHER -> IF NestedEnd(text) # 0 THEN NestedEnd(text) ELSE FlatEnd(text)

Past(r, i) == [r EXCEPT !.src = SubSeq(@, i + 1, Len(@))]

RECURSIVE Lex(_)
Lex(r) ==
    LET blank == CASE r.src = <<>> -> 0
                   [] r.src # <<>> /\ Head(r.src) = Eol  -> 1
                   [] r.src # <<>> /\ Head(r.src) = Open -> CommentEnd(r.src, r.mode)
                   [] OTHER -> 0
    IN  IF blank # 0 THEN Lex(Past(r, blank))
        ELSE IF r.src = <<>> THEN [r EXCEPT !.tok = End]
        ELSE IF Head(r.src) = Open THEN Fail(r, "Unterminated comment")
        ELSE [r EXCEPT !.tok = Head(r.src), !.src = Tail(@)]

\* The words of a definition, which is a text of its own, read on from l.
RECURSIVE LexTokens(_, _)
LexTokens(l, words) ==
    IF l.err # "" \/ l.tok = End THEN [words |-> words, err |-> l.err]
    ELSE LexTokens(Lex(l), Append(words, l.tok))

RawNext(r) ==
    IF r.pending # <<>> THEN [r EXCEPT !.tok = Head(r.pending), !.pending = Tail(@)] ELSE Lex(r)

\* What is left of the line being read, whatever is pending.
LineEnd(r) ==
    LET eol == SelectInSeq(r.src, LAMBDA t : t = Eol) IN IF eol = 0 THEN Len(r.src) ELSE eol - 1
RestOfLine(r) == SubSeq(r.src, 1, LineEnd(r))
PastLine(r)   == Past(r, LineEnd(r))

-----------------------------------------------------------------------------
\* Definitions.

Plain(t) == "n" \in DOMAIN t /\ t.n = 0 /\ t.w \notin {"string", "number"}

Stands(r, t) == Plain(t) /\ t.w \in DOMAIN r.defs \cup DOMAIN Macros

Body(r, t) == IF t.w \in DOMAIN Macros THEN Macros[t.w] ELSE r.defs[t.w]

Define(r, name, body) ==
    [r EXCEPT !.defs = [d \in DOMAIN @ \cup {name} |-> IF d = name THEN body ELSE @[d]]]

Put(n, lexed) ==
    IF lexed.err # "" THEN Fail(n, lexed.err) ELSE RawNext([n EXCEPT !.pending = lexed.words \o @])

\* What the word just read stands for, put in its place, and that again.
RECURSIVE Expanded(_, _)
Expanded(n, subs) ==
    CASE n.err # "" -> n
      [] n.err = "" /\ n.tok = Escaped(n.tok.w) -> [n EXCEPT !.tok = Word(n.tok.w)]
      [] n.err = "" /\ Stands(n, n.tok) ->
             IF subs >= MaxSubstitutions THEN Fail(n, "too many macro substitutions")
             ELSE Expanded(Put(n, LexTokens(Lex(NewReader(Body(n, n.tok))), <<>>)), subs + 1)
      [] OTHER -> n

\* An argument of a directive is read as it is written.
Wanted(n) == IF n.err = "" /\ n.tok = End THEN Fail(n, "unexpected end of program") ELSE n
Arg(r)    == Wanted(RawNext(r))

\* Whether there is one on the directive's own line.
MoreOnLine(r) == r.pending # <<>> \/ (r.src # <<>> /\ Head(r.src) # Eol)

RECURSIVE ReadBody(_, _, _)
ReadBody(n, name, body) ==
    IF n.err # "" THEN n
    ELSE IF n.tok = Word("$enddef") THEN Define(n, name, body)
    ELSE ReadBody(Arg(n), name, Append(body, n.tok))

-----------------------------------------------------------------------------
\* Conditionals.

Conditionals == {"$ifdef", "$ifndef", "$iflib", "$ifnlib", "$ifver", "$ifnver",
                 "$iflibver", "$ifnlibver", "$ifcancall", "$ifncancall"}

MutantShallow(t, depth) == depth

\* How deep the words being dropped are once this one is.
Within(t, depth) ==
    CASE Plain(t) /\ t.w \in Conditionals -> depth + 1
      [] t = Word("$endif") -> depth - 1
      [] OTHER -> depth

\* The half that is not wanted is dropped, up to its own $endif, or its $else
\* where the other half is wanted.
RECURSIVE Skip(_, _, _)
Skip(n, depth, toElse) ==
    LET other == depth = 0 /\ toElse /\ n.tok = Word("$else")
        over  == depth = 0 /\ n.tok = Word("$endif")
    IN  CASE n.err # "" -> n
          [] n.err = "" /\ other -> [n EXCEPT !.conds = @ + 1]
          [] n.err = "" /\ over  -> IF toElse THEN n ELSE [n EXCEPT !.conds = @ - 1]
          [] OTHER -> Skip(Arg(n), Within(n.tok, depth), toElse)

SkipConditional(r, taken) ==
    IF r.err # "" THEN r
    ELSE IF taken THEN [r EXCEPT !.conds = @ + 1]
    ELSE Skip(Arg(r), 0, TRUE)

TestDefined(r, t) ==
    /\ t.w \in DOMAIN r.defs
    /\ "is" \in DOMAIN t => r.defs[t.w] = <<t.is>>

\* The version wanted is at most the one there is.
Answers(d, library, t) ==
    CASE d \in {"$ifver", "$ifnver"}       -> t.n <= library.version
      [] d \in {"$iflibver", "$ifnlibver"} -> t.n <= library.libversion
      [] OTHER -> t.w \in library.calls

Negated == {"$ifndef", "$ifnlib", "$ifnver", "$ifnlibver", "$ifncancall"}

\* What the second argument of a question to a library asks of it; the rest of
\* the line is dropped.
AskLibrary(d, n, library) ==
    SkipConditional(PastLine(n), n.err = "" /\ Answers(d, library, n.tok) = (d \notin Negated))

Conditional(d, n) ==
    CASE d \in {"$ifdef", "$ifndef"} -> SkipConditional(n, TestDefined(n, n.tok) = (d \notin Negated))
      [] d \in {"$iflib", "$ifnlib"} ->
             SkipConditional(n, (n.tok.w \in DOMAIN Libraries) = (d \notin Negated))
      [] OTHER -> IF n.tok.w \notin DOMAIN Libraries THEN Fail(n, "I don't understand what object")
                  ELSE AskLibrary(d, Arg(n), Libraries[n.tok.w])

Else(r)  == IF r.conds = 0 THEN Fail(r, "$else without a conditional") ELSE Skip(Arg(r), 0, FALSE)
Endif(r) == IF r.conds = 0 THEN Fail(r, "$endif without a conditional") ELSE [r EXCEPT !.conds = @ - 1]

-----------------------------------------------------------------------------
\* The other directives.

Undef(n) == [n EXCEPT !.defs = [d \in DOMAIN @ \ {n.tok.w} |-> @[d]]]

\* Its argument is ignored, but read; nothing is put back.
ClearDefs(r) == [RawNext(r) EXCEPT !.defs = [d \in {} |-> <<>>], !.err = ""]

Include(n, given) ==
    [n EXCEPT !.defs = [d \in DOMAIN @ \cup DOMAIN given |->
                           IF d \in DOMAIN given THEN given[d] ELSE @[d]]]

\* A property to be written: the words of its value, or none to delete it, and
\* whether one that is there already is kept.
PropWrite(path, value, keep) ==
    [path |-> path, value |-> value, delete |-> value = <<>>, keep |-> keep]

\* What is left of the line is the value, or dropped.
Asks(r, write) == [PastLine(r) EXCEPT !.props = Append(@, write)]

MetaProps == ("$author" :> "_author" @@ "$doccmd" :> "_docs" @@ "$note" :> "_note" @@
              "$version" :> "_version" @@ "$lib-version" :> "_lib-version")

\* The program's own number is put where __PROG__ is.
This == Word("#program")
ExpandProg(words) == [i \in DOMAIN words |-> IF words[i] = Word("__PROG__") THEN This ELSE words[i]]

\* Only $doccmd's value is expanded, and a value without a word is written.
Records(r, name) ==
    LET value == IF name = "$doccmd" THEN ExpandProg(RestOfLine(r)) ELSE RestOfLine(r)
    IN  Asks(r, [PropWrite(<<MetaProps[name]>>, value, FALSE) EXCEPT !.delete = FALSE])

\* A backslash before the name keeps what is there.
Exports(n, value) == Asks(n, PropWrite(<<"_defs", n.tok.w>>, value, n.tok = Escaped(n.tok.w)))

\* Which a sigil after the backslash passes.
BadName(n) == n.tok.w \in PathNames \/ (n.tok.w \in SigilNames /\ n.tok # Escaped(n.tok.w))

PubDef(n) ==
    CASE n.tok = Word(":") -> Asks(n, PropWrite(<<"_defs">>, <<>>, FALSE))
      [] BadName(n)        -> Fail(n, "invalid $pubdef name")
      [] OTHER             -> Exports(n, ExpandProg(RestOfLine(n)))

\* Whoever includes it calls that function of this program.
LibDef(n) ==
    IF BadName(n) THEN Fail(n, "invalid $libdef name")
    ELSE Exports(n, <<This, [w |-> "string", call |-> n.tok.w], Word("call")>>)

Modes == [comment_strict |-> "strict", comment_recurse |-> "recurse", comment_loose |-> "loose"]

Pragma(n) == [PastLine(n) EXCEPT !.mode = IF n.tok.w \in DOMAIN Modes THEN Modes[n.tok.w] ELSE @]

\* The procedures defined so far, in order.
Named(words) ==
    LET at == SelectSeq([i \in DOMAIN words |-> i], LAMBDA i : i > 1 /\ words[i - 1] = Word(":"))
    IN  [k \in DOMAIN at |-> words[at[k]].w]

EntryPoint(n) ==
    IF n.tok.w \in Range(Named(n.out)) THEN [n EXCEPT !.entry = n.tok.w]
    ELSE Fail(n, "unrecognized function name")

Language(n) == IF n.tok = Text(0) THEN n ELSE Fail(n, "not implemented on this server")

\* Those that read an argument, which is n's word, and the others.
OnLine == {"$pragma", "$entrypoint", "$language"}
Taking == Conditionals \cup OnLine \cup
          {"$def", "$define", "$undef", "$include", "$pubdef", "$libdef"}

WithArg(d, n) ==
    CASE n.err # ""        -> n
      [] d = "$def"        -> Define(PastLine(n), n.tok.w, RestOfLine(n))
      [] d = "$define"     -> ReadBody(Arg(n), n.tok.w, <<>>)
      [] d = "$undef"      -> Undef(n)
      [] d = "$include"    -> IF n.tok.w \notin DOMAIN Libraries THEN Fail(n, "not a program")
                              ELSE Include(n, Libraries[n.tok.w].defs)
      [] d = "$pragma"     -> Pragma(n)
      [] d = "$entrypoint" -> EntryPoint(n)
      [] d = "$language"   -> Language(n)
      [] d = "$pubdef"     -> PubDef(n)
      [] d = "$libdef"     -> LibDef(n)
      [] OTHER             -> Conditional(d, n)

Directive(d, r) ==
    CASE d \in OnLine /\ ~MoreOnLine(r) -> Fail(r, "an argument is required")
      [] d \in Taking /\ (d \in OnLine => MoreOnLine(r)) -> WithArg(d, Arg(r))
      [] d = "$cleardefs" -> ClearDefs(r)
      [] d = "$else"      -> Else(r)
      [] d = "$endif"     -> Endif(r)
      [] d = "$echo"      -> PastLine(r)
      [] d = "$abort"     -> Fail(r, "aborted")
      [] d = "$enddef"    -> Fail(r, "$enddef without $define")
      [] d \in DOMAIN MetaProps -> Records(r, d)
      [] OTHER -> Fail(r, "I don't understand the compiler directive")

\* Any word that begins with a $ is one; those no directive has fail.
Directives ==
    Taking \cup DOMAIN MetaProps \cup NoDirectives \cup
    {"$enddef", "$cleardefs", "$else", "$endif", "$echo", "$abort"}

-----------------------------------------------------------------------------
\* A whole text.  A directive where a declaration wants a name is taken for
\* the name; a text has none there.

ReadWord(r) ==
    CASE r.err # "" \/ r.tok = End -> r
      [] r.err = "" /\ r.tok.w \in Directives -> Directive(r.tok.w, r)
      [] OTHER -> [r EXCEPT !.out = Append(@, r.tok)]

RECURSIVE ReadAll(_)
ReadAll(r) ==
    IF r.err # "" \/ r.tok = End THEN r ELSE ReadAll(ReadWord(Expanded(RawNext(r), 0)))

\* A program starts at its last procedure, unless another is named.
StartingAt(p, r) ==
    LET starts == SelectSeq([i \in DOMAIN p.code |-> i], LAMBDA i : p.code[i].op = "func")
        named == SelectInSeq(Named(r.out), LAMBDA w : w = r.entry)
    IN  IF r.err # "" THEN [p EXCEPT !.err = r.err]
        ELSE IF p.err # "" \/ r.entry = "" THEN p
        ELSE [p EXCEPT !.start = starts[named] - 1]

Program(r) == StartingAt(Compile(r.out), r)

Reader(text) == [NewReader(text) EXCEPT !.mode = IF StrictComments THEN "strict" ELSE @]

\* Nothing is asked of the properties of a program that does not compile.
CompileText(text) ==
    LET r == ReadAll(Reader(text))
        p == Program(r)
    IN  p @@ [props |-> IF p.err = "" THEN r.props ELSE <<>>]
===============================================================================
