------------------------------- MODULE MCMuf ----------------------------------
(***************************************************************************)
(* Small MUF programs, compiled and run: every nest of two control         *)
(* structures around each statement, and every single one at each of the   *)
(* levels and limits.                                                      *)
(***************************************************************************)
EXTENDS MufReference, MufDirectives

CONSTANTS MaxTape, Deepest    \* lines a user answers with; how deep to nest

VARIABLE source    \* the program as written; it never changes

Say(k) == <<"say", k>>

Simple == {<<"push", 5>>, <<"pop">>, <<"set", 4>>, <<"get">>, <<"doze">>, <<"throw">>,
           <<"exit">>, <<"break">>, <<"continue">>, <<"while">>, <<"call">>, <<"preempt">>, <<"background">>}

\* What may stand around a body.  A word is said after, so that where control
\* goes on shows.
Around(b) ==
    {<<"if", b, <<Say(1)>>>>, <<"loop", b \o <<<<"while">>>>>>, <<"until", b>>,
     <<"for", 2, b>>, <<"foruntil", 2, b>>, <<"each", b>>,
     <<"try", 0, b, <<Say(2)>>>>, <<"try", 1, b, <<<<"push", 6>>>>>>,
     <<"try", 0, <<<<"throw">>>>, b>>}

RECURSIVE Nests(_)
Nests(d) == IF d = 0 THEN {<<s>> : s \in Simple}
            ELSE UNION {{<<s, Say(3)>> : s \in Around(b)} : b \in Nests(d - 1)}

Subs == {<<Say(4)>>, <<<<"throw">>>>, <<<<"pop">>>>,
         <<<<"loop", <<<<"exit">>>>>>>>, <<<<"try", 0, <<<<"exit">>>>, <<>>>>>>,
         <<<<"for", 2, <<Say(5)>>>>>>, <<<<"for", 2, <<<<"exit">>>>>>>>,
         <<<<"set", 3>>, <<"get">>>>}

RECURSIVE HasCall(_)
HasCall(body) ==
    \E i \in DOMAIN body :
        LET s == body[i] IN
        CASE s[1] = "call" -> TRUE
          [] s[1] \in {"if"} -> HasCall(s[2]) \/ HasCall(s[3])
          [] s[1] \in {"loop", "until", "each"} -> HasCall(s[2])
          [] s[1] \in {"for", "foruntil"} -> HasCall(s[3])
          [] s[1] = "try" -> HasCall(s[3]) \/ HasCall(s[4])
          [] OTHER -> FALSE

Sources(d) ==
    UNION {{[main |-> m \o end, sub |-> b] :
               b \in (IF HasCall(m) THEN Subs ELSE {<<Say(4)>>}), end \in {<<>>, <<<<"throw">>>>}}
           : m \in Nests(d)}

Level(mlev, mode, slice, total, preempt) ==
    [mlev |-> mlev, mode |-> mode, slice |-> slice, total |-> total, preempt |-> preempt]

Free == Level(3, "foreground", 3, 12, 0)

MCLimits == {Free, Level(1, "foreground", 3, 9, 0), Level(2, "background", 2, 6, 0),
             Level(3, "preempt", 3, 12, 0), Level(4, "preempt", 3, 9, 14),
             Level(4, "preempt", 2, 9, 0)}

Pick(s, l) ==
    /\ source = s /\ lim = l
    /\ prog = Compile(Written(s)) /\ prog.err = ""
    /\ frame = NewFrame(prog)
    /\ told = <<>> /\ status = "running" /\ local = 0 /\ heard = <<>>

\* The same program written with directives.  One way at a time to write words
\* that come to these; other is what must not be compiled.
Line(words) == words \o <<Eol>>
Cond(test, yes, no) == test \o yes \o W(<<"$else">>) \o no \o W(<<"$endif">>)
other == W(<<"$bogus", "$pubdef", "x">>) \o <<Num(9), Text(9), Word("$ifdef"), Word("k"), Word("bogus"), Word("$else"), Word("("),
           Word("$endif"), Close, Word("$endif"), Word("bogus")>>

MCBuiltin   == [yes |-> <<Num(1)>>, k |-> <<Word("k")>>]
MCNone      == {"$bogus"}
MCPathed    == {"x/y", "x:y", ":"}
MCSigiled   == {"~y", "@y"}
MCMacros    == (".m" :> <<Word("m")>>)
MCLibraries == ("lib" :> [defs |-> [yes |-> <<Num(1)>>], version |-> 2, libversion |-> 1,
                          calls |-> {"f"}])

Tests == {<<Word("$ifdef"), Word("yes")>>, <<Word("$ifndef"), Word("no")>>,
          <<Word("$ifdef"), Is("yes", Num(1))>>, <<Word("$iflib"), Word("lib")>>,
          <<Word("$ifver"), Word("lib"), Num(2), Eol>>,
          <<Word("$ifnlibver"), Word("lib"), Num(2), Eol>>,
          <<Word("$ifcancall"), Word("lib"), Word("f"), Eol>>}
Fails == {<<Word("$ifndef"), Word("yes")>>, <<Word("$ifdef"), Word("no")>>,
          <<Word("$ifdef"), Is("yes", Num(2))>>, <<Word("$ifnlib"), Word("lib")>>,
          <<Word("$ifnver"), Word("lib"), Num(1), Eol>>}

\* A definition holds no directive that ends with its line, and no other.
Ways(words) ==
    {Cond(t, words, other) : t \in Tests} \cup {Cond(t, other, words) : t \in Fails}
    \cup {Line(W(<<"$def", "m">>) \o body) \o W(<<".m">>) : body \in {b \in {words} : ~Contains(b, Eol)}}
    \cup {W(<<"$define", "m">>) \o body \o W(<<"$enddef", "$define", "l", "m", "$enddef", "l">>) :
             body \in {b \in {words} : ~Contains(b, Eol) /\ ~Contains(b, Word("$enddef"))}}
    \cup {Line(<<Word("$def"), Word("if"), Num(8)>>) \o W(<<"$undef", "if">>) \o words,
          Line(W(<<"$def", "m", "bogus">>)) \o W(<<"$cleardefs", "m", "$include", "lib">>) \o words,
          <<Open, Word("$endif"), Open, Eol, Close, Close>> \o words,
          <<Open, Open, Word("bogus"), Close>> \o words,
          Line(W(<<"$pragma", "comment_strict">>)) \o <<Open, Open, Close>> \o Line(W(<<"$pragma", "comment_loose">>)) \o words,
          Line(W(<<"$note", "bogus">>)) \o Line(<<Word("$language"), Text(0)>>) \o words,
          Line(W(<<"$echo", "bogus">>)) \o Line(<<Word("$libdef"), Escaped("~y")>>) \o
              Line(W(<<"$pubdef", "x", "__PROG__", "bogus">>)) \o Line(W(<<"$pubdef", ":">>)) \o words}

\* What those ask of the program's properties, in order.
WritesAsked ==
    {<<>>, <<PropWrite(<<"_note">>, <<Word("bogus")>>, FALSE)>>,
     <<PropWrite(<<"_defs", "~y">>, <<This, [w |-> "string", call |-> "~y"], Word("call")>>, TRUE),
       PropWrite(<<"_defs", "x">>, <<This, Word("bogus")>>, FALSE),
       PropWrite(<<"_defs">>, <<>>, FALSE)>>}

\* All of it, the last procedure, or both, and the start named in words.
Once(words, half) ==
    {SubSeq(words, 1, half) \o t : t \in Ways(SubSeq(words, half + 1, Len(words)))} \cup Ways(words)

Twice(texts) == texts \cup UNION {Ways(t) : t \in texts}

Texts(words) == Once(words, SelectInSeq(words, LAMBDA t : t = Word(";")))

StartNamed(words) ==
    Line(words \o W(<<"$entrypoint", "main">>)) \o W(<<":", "z">>) \o <<Num(1), Word(";")>>

Plainest == [main |-> <<<<"push", 5>>>>, sub |-> <<Say(4)>>]

Typings(s, once) ==
    {StartNamed(Written(s))} \cup (IF s = Plainest THEN Twice(once) ELSE once)

Typed(s) ==
    /\ source = s /\ lim = Free
    /\ Compile(Written(s)).err = ""
    /\ prog \in {CompileText(t) : t \in Typings(s, Texts(Written(s)))}
    /\ frame = NewFrame(prog)
    /\ told = <<>> /\ status = "running" /\ local = 0 /\ heard = <<>>

Init ==
    \/ \E s \in Sources(0) : Typed(s)
    \/ \E s \in Sources(Deepest - 1), l \in Limits : Pick(s, l)
    \/ \E s \in Sources(Deepest) : Pick(s, Free)

Answer == \E line \in {0, 1} : Len(heard) < MaxTape /\ ReadLine(line)

Kept == UNCHANGED source

Next ==
    \/ Halt /\ Kept
    \/ Stop /\ Kept
    \/ Yield /\ Kept
    \/ Execute /\ Kept
    \/ Resume /\ Kept
    \/ Answer /\ Kept

mcvars == <<vars, source>>

\* The server keeps running what is its turn; a user need never answer.
Spec == Init /\ [][Next]_mcvars
        /\ WF_mcvars((Halt \/ Stop \/ Yield \/ Execute \/ Resume) /\ Kept)

-----------------------------------------------------------------------------
Prefix(a, b) == Len(a) <= Len(b) /\ a = SubSeq(b, 1, Len(a))

\* The run agrees, as far as it has got, with what the program means.
Agrees(m) ==
    CASE status = "done"   -> told = m.say /\ Items(frame.stack) = m.st /\ m.how \in {"on", "exit"}
      [] status = "failed" -> m.how = "throw" /\ told = m.say
      [] status = "read"   -> m.how = "wait" /\ told = m.say
      [] status = "over"   -> Prefix(told, m.say)
      [] OTHER             -> TRUE

\* However a program is dressed up with definitions, macros, comments and
\* conditionals, within each other too, what is compiled is the same program,
\* and what it asks of its properties is what its lines ask that are kept, and
\* in their order (compiler/directive.go, next in compiler.go and skipComment in
\* lexer.go).
DirectivesKeepTheProgram ==
    (status = "running" /\ local = 0 /\ frame = NewFrame(prog)) =>
        LET p == Compile(Written(source))
        IN  /\ prog.err = "" /\ prog.start = p.start /\ IsPrefix(p.code, prog.code)
            /\ "props" \in DOMAIN prog =>
                   \E once, again \in WritesAsked : prog.props = once \o again

\* What a word does to a stack.
Phrase(s, phrase) ==
    FoldLeft(LAMBDA t, p : IF p.w = "number" THEN Append(t, Int_(p.n)) ELSE Rearranged(p.w, t).s,
             s, phrase)

\* n word, with the number on top of the stack.
Deep(n, word) == <<Num(n), Word(word)>>

WordsAgree ==
    status = "done" =>
        LET s == Items(frame.stack)
            Same(a, b) == Phrase(s, a) = Phrase(s, b)
        IN  /\ \A n \in 1 .. Len(s) :
                  /\ Same(Deep(n, "rotate") \o Deep(-n, "rotate"), <<>>)
                  /\ Same(Deep(n, "reverse") \o Deep(n, "reverse"), <<>>)
                  /\ Same(Deep(n, "lreverse"), Deep(n, "reverse") \o <<Num(n)>>)
                  /\ Same(Deep(n, "dupn") \o Deep(n, "popn"), <<>>)
                  /\ Same(Deep(n, "ldup") \o W(<<"popn">>), <<Num(n)>>)
                  /\ Same(Deep(n, "pick"),
                          Deep(n, "rotate") \o W(<<"dup">>) \o Deep(-n - 1, "rotate"))
                  /\ Same(<<Num(5)>> \o Deep(n, "put"),
                          Deep(n, "rotate") \o W(<<"pop">>) \o <<Num(5)>> \o Deep(-n, "rotate"))
            /\ Len(s) > 1 =>
                  /\ Same(W(<<"swap">>), Deep(2, "rotate"))
                  /\ Same(W(<<"swap">>), Deep(2, "reverse"))
                  /\ Same(W(<<"over">>), Deep(2, "pick"))
                  /\ Same(W(<<"nip">>), W(<<"swap", "pop">>))
                  /\ Same(W(<<"tuck">>), W(<<"swap", "over">>))
            /\ Len(s) > 2 =>
                  /\ Same(W(<<"rot">>), Deep(3, "rotate"))
                  /\ Same(W(<<"rot", "rot">>), W(<<"-rot">>))

\* Compiled and run, a program does what its structure says, whatever it is
\* nested in, wherever its turns end, whatever its user answers and whatever
\* errors it raises: the jumps, the hidden stacks and the unwinding of the
\* compiler and the machine never show.  Excepted are the four things the
\* implementation is known to answer differently (wild, in MufReference).  And
\* on every stack a program ends with, each word that rearranges it does what
\* a longer phrase of the others does.
RunsAsWritten ==
    /\ status \in {"done", "failed", "read", "over"} =>
           LET m == Meant(source, heard) IN m.wild \/ m.how = "spent" \/ Agrees(m)
    /\ WordsAgree

TurnIsShort ==
    \/ lim.mlev = 4 /\ lim.preempt = 0
    \/ local <= Max({4 * lim.slice, IF lim.mlev = 4 THEN lim.preempt ELSE lim.total})

\* Only a program at level 4 with no cap on preempting can keep the world to
\* itself: any other has given its turn up, ended or been stopped after so many
\* instructions, whichever way it switches modes; and below level 3 no program
\* runs for ever, however often it yields or sleeps.
ProgramsGiveWay ==
    /\ []TurnIsShort
    /\ lim.mlev < 3 => []<>(status \in {"done", "failed", "over", "read"})
===============================================================================
