----------------------------- MODULE MufCompiler ------------------------------
(***************************************************************************)
(* The MUF compiler (internal/muf/compiler): one pass over the words of a  *)
(* program, emitting instructions and patching the jumps of what is still  *)
(* open.  The words are what the lexer and the directives hand on, comments  *)
(* and definitions already dealt with.  Addresses count from 0.            *)
(*                                                                         *)
(*   code     the instructions emitted                                     *)
(*   ctrl     what is open, innermost last: its kind, the address a later  *)
(*            word needs, and the jumps that leave it                      *)
(*   procs    the procedures by name, in the order they were defined       *)
(*   open     whether a procedure is being defined, and where it starts    *)
(*   want     what the next word is a name for                             *)
(*   err      what was wrong, if anything was                              *)
(***************************************************************************)
EXTENDS Integers, Sequences, SequencesExt

CONSTANT MaxVars    \* how many variables of a kind there may be

\* Words: plain, a string, a number, 'name, and a name with a [ at its end.
Word(w)   == [w |-> w, n |-> 0]
Text(n)   == [w |-> "string", n |-> n]
Num(n)    == [w |-> "number", n |-> n]
Quoted(w) == [w |-> "'", name |-> w]
Header(w) == [w |-> w, n |-> 1]

Inst(op, n) == [op |-> op, n |-> n, prim |-> "", args |-> 0]
Prim(p)     == [op |-> "prim", n |-> 0, prim |-> p, args |-> 0]

\* The primitives this model of the machine has.
StackWords == {"pop", "dup", "?dup", "swap", "over", "nip", "tuck", "rot", "-rot", "depth",
               "pick", "popn", "rotate", "put", "reverse", "lreverse", "dupn", "ldup"}
PrimWords == StackWords \cup
    {"@", "!", "{", "}", "array_make", "notify", "abort", "read", "sleep", "exit",
     "execute", "preempt", "foreground", "background"}

SpecialWords ==
    {":", ";", "if", "else", "then", "begin", "for", "foreach", "until", "while",
     "break", "continue", "repeat", "try", "catch", "endcatch", "lvar", "var",
     "var!", "public", "wizcall"}

NewCompiler ==
    [code |-> <<>>, ctrl |-> <<>>, procs |-> <<>>, publics |-> <<>>,
     open |-> FALSE, start |-> 0, vars |-> <<"me", "loc", "trigger", "command">>,
     lvars |-> <<>>, svars |-> <<>>, want |-> "", err |-> ""]

Fail(c, msg) == [c EXCEPT !.err = msg]

Here(c)            == Len(c.code)
Emit(c, in)        == [c EXCEPT !.code = Append(@, in)]
Patch(c, at, to)   == [c EXCEPT !.code[at + 1].n = to]

PushCtrl(c, kind, addr, exits) ==
    [c EXCEPT !.ctrl = Append(@, [kind |-> kind, addr |-> addr, exits |-> exits])]
PopCtrl(c) == [c EXCEPT !.ctrl = Front(@)]

Innermost(c) == IF c.ctrl = <<>> THEN "none" ELSE Last(c.ctrl).kind

ProcNamed(c, w) == SelectInSeq(c.procs, LAMBDA p : p.name = w)

-----------------------------------------------------------------------------
\* Conditionals.

DoElse(c) ==
    LET jumped == Emit(c, Inst("jmp", 0))
    IN  IF Innermost(c) # "if" THEN Fail(c, "ELSE without IF")
        ELSE PushCtrl(PopCtrl(Patch(jumped, Last(c.ctrl).addr, Here(jumped))),
                      "else", Here(c), <<>>)

DoThen(c) ==
    IF Innermost(c) \notin {"if", "else"} THEN Fail(c, "THEN without IF")
    ELSE PopCtrl(Patch(c, Last(c.ctrl).addr, Here(c)))

-----------------------------------------------------------------------------
\* Loops.  A loop over numbers or an array sets its iterator up, and asks it
\* for the next value at the top of each pass.

Loops == {"begin", "for"}

BeginFor(c, setup) ==
    LET ready == Emit(c, Prim(setup))
        asked == Emit(ready, Prim("foriter"))
    IN  PushCtrl(Emit(asked, Inst("if", 0)), "for", Here(ready), <<Here(asked)>>)

\* The way back, the iterator dropped, and every jump out brought here.
CloseLoop(c, back) ==
    LET loop == Last(c.ctrl)
        again == Emit(PopCtrl(c), Inst(back, loop.addr))
        dropped == IF loop.kind = "for" THEN Emit(again, Prim("forpop")) ELSE again
    IN  IF Innermost(c) \notin Loops THEN Fail(c, "loop start not found")
        ELSE FoldLeft(LAMBDA d, at : Patch(d, at, Here(dropped)), dropped, loop.exits)

EnclosingLoop(c) == SelectLastInSeq(c.ctrl, LAMBDA k : k.kind \in Loops)

MutantNoUnwind(c, loop) == c

\* One handler is dropped for each guarded block open inside the loop.
UnwindTrys(c, loop) ==
    FoldLeft(LAMBDA d, k : IF k.kind \in {"try", "catch"} THEN Emit(d, Prim("trypop")) ELSE d,
             c, SubSeq(c.ctrl, loop + 1, Len(c.ctrl)))

\* WHILE and BREAK leave the innermost loop, wherever it will turn out to end.
LeaveLoop(c, how) ==
    LET loop == EnclosingLoop(c)
        out == UnwindTrys(c, loop)
    IN  IF loop = 0 THEN Fail(c, "outside a loop")
        ELSE [Emit(out, Inst(how, 0)) EXCEPT
                 !.ctrl[loop].exits = Append(@, Here(out))]

DoContinue(c) ==
    LET loop == EnclosingLoop(c)
    IN  IF loop = 0 THEN Fail(c, "CONTINUE outside a loop")
        ELSE Emit(UnwindTrys(c, loop), Inst("jmp", c.ctrl[loop].addr))

-----------------------------------------------------------------------------
\* Guarded blocks: the normal path drops the handler and jumps past it.

DoCatch(c) ==
    LET jumped == Emit(Emit(c, Prim("trypop")), Inst("jmp", 0))
        caught == Emit(jumped, Prim("catch"))
    IN  IF Innermost(c) # "try" THEN Fail(c, "no TRY found for CATCH")
        ELSE PushCtrl(PopCtrl(Patch(caught, Last(c.ctrl).addr, Here(jumped))),
                      "catch", Here(c) + 1, <<>>)

DoEndCatch(c) ==
    IF Innermost(c) # "catch" THEN Fail(c, "no CATCH found for ENDCATCH")
    ELSE PopCtrl(Patch(c, Last(c.ctrl).addr, Here(c)))

-----------------------------------------------------------------------------
\* Procedures and variables.

BeginProc(c, name) ==
    IF ProcNamed(c, name) # 0 THEN Fail(c, "procedure is already defined")
    ELSE [Emit(c, Inst("func", 0)) EXCEPT
             !.open = TRUE, !.start = Here(c), !.svars = <<>>,
             !.procs = Append(@, [name |-> name, addr |-> Here(c)])]

\* The names up to -- are arguments, and the rest describe what is left.
ProcArg(c, w) ==
    CASE w = "]" -> [c EXCEPT !.want = "", !.code[c.start + 1].args = Len(c.svars)]
      [] w = "--" \/ c.want = "results" -> [c EXCEPT !.want = "results"]
      [] w \in Range(c.svars) -> Fail(c, "argument is declared twice")
      [] Len(c.svars) >= MaxVars -> Fail(c, "too many arguments")
      [] OTHER -> [c EXCEPT !.svars = Append(@, w)]

EndProc(c) ==
    IF c.ctrl # <<>> THEN Fail(c, "unterminated at the end of a procedure")
    ELSE [Emit(c, Prim("exit")) EXCEPT
             !.open = FALSE, !.code[c.start + 1].n = Len(c.svars), !.svars = <<>>]

\* VAR makes a variable of the procedure, or of the program outside one.
Declare(c, w) ==
    LET table == CASE c.want = "lvar" -> c.lvars [] c.open -> c.svars [] OTHER -> c.vars
        made == Append(table, w)
    IN  CASE c.want = "var!" /\ ~c.open -> Fail(c, "VAR! used outside a procedure")
          [] w \in Range(table)    -> Fail(c, "already declared")
          [] Len(table) >= MaxVars -> Fail(c, "too many variables")
          [] c.want = "lvar" -> [c EXCEPT !.lvars = made]
          [] ~c.open         -> [c EXCEPT !.vars = made]
          [] c.want = "var!" -> Emit([c EXCEPT !.svars = made], Inst("svar!", Len(table)))
          [] OTHER           -> [c EXCEPT !.svars = made]

DeclarePublic(c, w) ==
    IF ProcNamed(c, w) = 0 THEN Fail(c, "Subroutine unknown")
    ELSE IF w \in Range(c.publics) THEN Fail(c, "Function already declared public.")
    ELSE [c EXCEPT !.publics = Append(@, w)]

-----------------------------------------------------------------------------
\* One word.

\* A word a declaration was waiting for.
TakeName(c, t) ==
    LET then(d, want) == [d EXCEPT !.want = want]
    IN  CASE c.want = "proc" -> then(BeginProc(c, t.w), IF t.n = 1 THEN "args" ELSE "")
          [] c.want \in {"args", "results"} -> ProcArg(c, t.w)
          [] c.want = "public" -> then(DeclarePublic(c, t.w), "")
          [] OTHER -> then(Declare(c, t.w), "")

Special(c, w) ==
    CASE w = ":"  -> IF c.open THEN Fail(c, "definition inside a definition")
                     ELSE [c EXCEPT !.want = "proc"]
      [] w \in {"lvar", "var", "var!"} -> [c EXCEPT !.want = w]
      [] w \in {"public", "wizcall"}   -> [c EXCEPT !.want = "public"]
      [] ~c.open    -> Fail(c, "outside a procedure")
      [] w = ";"    -> EndProc(c)
      [] w = "if"   -> PushCtrl(Emit(c, Inst("if", 0)), "if", Here(c), <<>>)
      [] w = "else" -> DoElse(c)
      [] w = "then" -> DoThen(c)
      [] w = "begin" -> PushCtrl(c, "begin", Here(c), <<>>)
      [] w \in {"for", "foreach"} -> BeginFor(c, w)
      [] w = "until"    -> CloseLoop(c, "if")
      [] w = "repeat"   -> CloseLoop(c, "jmp")
      [] w = "while"    -> LeaveLoop(c, "if")
      [] w = "break"    -> LeaveLoop(c, "jmp")
      [] w = "continue" -> DoContinue(c)
      [] w = "try"      -> PushCtrl(Emit(c, Inst("try", 0)), "try", Here(c), <<>>)
      [] w = "catch"    -> DoCatch(c)
      [] w = "endcatch" -> DoEndCatch(c)

\* What a word means, in the order the meanings are looked for.
Meaning(c, t) ==
    LET index(names) == SelectInSeq(names, LAMBDA x : x = t.w)
        proc == ProcNamed(c, t.w)
    IN  CASE proc # 0 -> Emit(Emit(c, Inst("int", c.procs[proc].addr)), Inst("exec", 0))
          [] index(c.svars) # 0 -> Emit(c, Inst("svar", index(c.svars) - 1))
          [] index(c.lvars) # 0 -> Emit(c, Inst("lvar", index(c.lvars) - 1))
          [] index(c.vars) # 0  -> Emit(c, Inst("var", index(c.vars) - 1))
          [] t.w \in SpecialWords -> Special(c, t.w)
          [] t.w \in PrimWords -> IF c.open THEN Emit(c, Prim(t.w))
                                  ELSE Fail(c, "outside a procedure")
          [] t.w = "number" -> Emit(c, Inst("int", t.n))
          [] t.w = "'" -> IF ProcNamed(c, t.name) = 0 THEN Fail(c, "unrecognized procedure")
                          ELSE Emit(c, Inst("address", c.procs[ProcNamed(c, t.name)].addr))
          [] OTHER -> Fail(c, "Unrecognized word")

OneWord(c, t) ==
    CASE c.err # ""  -> c
      [] c.want # "" -> TakeName(c, t)
      [] t.w = "string" -> Emit(c, Inst("string", t.n))
      [] OTHER       -> Meaning(c, t)

\* The last procedure is where a program starts.
Finish(c) ==
    LET jumps == {i \in DOMAIN c.code : c.code[i].op \in {"if", "jmp", "try", "address"}}
        err == CASE c.err # ""    -> c.err
                 [] c.open        -> "unterminated procedure"
                 [] c.procs = <<>> -> "program has no procedures"
                 [] \E i \in jumps : c.code[i].n \notin 0 .. Here(c) -> "internal error"
                 [] OTHER         -> ""
    IN  [code |-> c.code, err |-> err, vars |-> Len(c.vars), lvars |-> Len(c.lvars),
         start |-> IF c.procs = <<>> THEN 0 ELSE Last(c.procs).addr]

Compile(words) == Finish(FoldLeft(OneWord, NewCompiler, words))
===============================================================================
