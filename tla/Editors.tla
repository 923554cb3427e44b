-------------------------------- MODULE Editors --------------------------------
(***************************************************************************)
(* Writing programs: the line editor (game/edit.go), the stored source,    *)
(* and the compiles the server keeps of it (game/muf.go).                  *)
(*                                                                         *)
(* A desk is a record:                                                     *)
(*   prog      each program: its owner (none for garbage), its source as   *)
(*             lines, whether it is INTERNAL, the source its cached        *)
(*             compile was made from, and the line its last editor was on  *)
(*   session   the open session of each player who has one                 *)
(*   inherited ghost: the programs whose cached compile was made of a      *)
(*             program that had their ref before them                      *)
(* A session holds its program, the buffer, the current line and whether   *)
(* it is inserting; its ghost, gap, is the buffer as a reference editor    *)
(* keeps it, the text before the insertion point and the text after.       *)
(*                                                                         *)
(* The table of macros, the listings and the switch for line numbers are   *)
(* left out.                                                               *)
(***************************************************************************)
EXTENDS Integers, FiniteSets, Sequences, SequencesExt, Functions

CONSTANTS
    Authors,     \* the players
    Muckers,     \* those with a mucker level
    Masters,     \* those who are wizards
    Programs,    \* the refs programs have
    Nobody,      \* the owner of garbage
    Bad,         \* a line that does not compile
    Blank        \* the line of one space

ASSUME EditorsAssumption ==
    /\ Muckers \subseteq Authors /\ Masters \subseteq Authors
    /\ Nobody \notin Authors

Live(d)         == {p \in Programs : d.prog[p].owner # Nobody}
MayEdit(d, who, p) == p \in Live(d) /\ (who \in Masters \/ d.prog[p].owner = who)
Editing(d, who) == who \in DOMAIN d.session

-----------------------------------------------------------------------------
\* Sessions.

\* How many lines of the buffer are before the insertion point a current line
\* stands for: past the end and before the beginning are both the end.
Place(curr, lines) == IF curr < 0 \/ curr > Len(lines) THEN Len(lines) ELSE curr
Gap(lines, at) ==
    [before |-> SubSeq(lines, 1, at), after |-> SubSeq(lines, at + 1, Len(lines))]

NewSession(d, p) ==
    LET src == d.prog[p].source
    IN  [program |-> p, lines |-> src, curr |-> d.prog[p].line, insert |-> FALSE,
         gap |-> Gap(src, Place(d.prog[p].line, src))]

\* edit: a session the player has open already is forgotten.
OpenEditor(d, who, p) ==
    IF ~MayEdit(d, who, p) \/ d.prog[p].internal THEN d
    ELSE [d EXCEPT !.session = [x \in DOMAIN @ \cup {who} |->
                                  IF x = who THEN NewSession(d, p) ELSE @[x]],
                   !.prog[p].internal = TRUE]

Invalidate(d, p) == [d EXCEPT !.prog[p].cache = <<>>, !.inherited = @ \ {p}]
SaveSource(d, p, lines) == [d EXCEPT !.prog[p].source = lines]

CloseEditor(d, who) ==
    LET e == d.session[who]
    IN  [d EXCEPT !.session = Restrict(@, DOMAIN @ \ {who}),
                  !.prog[e.program].line = e.curr,
                  !.prog[e.program].internal = FALSE]

MutantKeepsCompile(d, who, save) ==
    LET e == d.session[who]
    IN  CloseEditor(IF save THEN Invalidate(SaveSource(d, e.program, e.lines), e.program)
                    ELSE d, who)
LeaveEditor(d, who, save) ==
    LET e == d.session[who]
    IN  CloseEditor(Invalidate(IF save THEN SaveSource(d, e.program, e.lines) ELSE d,
                               e.program), who)

\* evictEditors closes, in no order, every session that has the program.
EvictEditors(d, p) ==
    LET out == {who \in DOMAIN d.session : d.session[who].program = p}
    IN  IF out = {} THEN d
        ELSE [d EXCEPT !.session = Restrict(@, DOMAIN @ \ out),
                       !.prog[p].line = d.session[CHOOSE who \in out : TRUE].curr,
                       !.prog[p].internal = FALSE]

-----------------------------------------------------------------------------
\* The buffer.

InsertLine(e, text) ==
    [(CASE e.lines = <<>> -> [e EXCEPT !.lines = <<text>>, !.curr = 2]
        [] e.lines # <<>> /\ e.curr = 0 -> [e EXCEPT !.lines = <<text>> \o @, !.curr = 1]
        [] e.lines # <<>> /\ (e.curr < 0 \/ e.curr - 1 >= Len(e.lines)) ->
             [e EXCEPT !.lines = Append(@, text), !.curr = Len(e.lines) + 2]
        [] OTHER -> [e EXCEPT !.lines = InsertAt(@, e.curr + 1, text), !.curr = @ + 1])
     EXCEPT !.gap.before = Append(@, text)]

\* "n i": text goes before line n; with no n, where it went last.
StartInsert(e, args) ==
    IF args = <<>> THEN [e EXCEPT !.insert = TRUE]
    ELSE [e EXCEPT !.insert = TRUE, !.curr = args[1] - 1,
                   !.gap = Gap(e.lines, Place(args[1] - 1, e.lines))]

\* The lines a command names: the current one, one, or a range.
LineRange(e, args) ==
    CASE args = <<>>    -> <<e.curr, e.curr>>
      [] Len(args) = 1  -> <<args[1], args[1]>>
      [] OTHER          -> <<args[1], args[2]>>

DeleteLines(e, args) ==
    LET from == LineRange(e, args)[1]
        asked == LineRange(e, args)[2]
        to   == IF asked > Len(e.lines) THEN Len(e.lines) ELSE asked
        left == SubSeq(e.lines, 1, from - 1) \o SubSeq(e.lines, to + 1, Len(e.lines))
    IN  IF from > asked \/ from < 1 \/ from > Len(e.lines) THEN e
        ELSE [e EXCEPT !.lines = left, !.curr = from, !.gap = Gap(left, Place(from, left))]

-----------------------------------------------------------------------------
\* Compiles.  What a source compiles to is named by the source, an error
\* included.

Compiles(lines) == Bad \notin Range(lines)

\* "c": a buffer that does not compile leaves the cache as it was.
CompileEdited(d, who) ==
    LET e == d.session[who]
    IN  IF Compiles(e.lines)
        THEN [d EXCEPT !.prog[e.program].cache = <<e.lines>>, !.inherited = @ \ {e.program}]
        ELSE d

\* compileProgram: what running a program asks for.
CompileProgram(d, p) ==
    IF d.prog[p].cache # <<>> THEN d
    ELSE [d EXCEPT !.prog[p].cache = <<d.prog[p].source>>]

-----------------------------------------------------------------------------
\* What a player in the editor types.  A line is a command and its numbers, or
\* the text itself.

EditCommand(d, who, line) ==
    LET e == d.session[who]
    IN  CASE line.cmd = "i" -> [d EXCEPT !.session[who] = StartInsert(e, line.args)]
          [] line.cmd = "d" -> [d EXCEPT !.session[who] = DeleteLines(e, line.args)]
          [] line.cmd = "q" -> LeaveEditor(d, who, TRUE)
          [] line.cmd = "x" -> LeaveEditor(d, who, FALSE)
          [] line.cmd = "c" -> CompileEdited(d, who)
          [] OTHER          -> d

EditInput(d, who, line) ==
    LET e == d.session[who]
    IN  CASE ~e.insert         -> EditCommand(d, who, line)
          [] line.cmd = "."    -> [d EXCEPT !.session[who].insert = FALSE]
          [] line.cmd = ""     -> [d EXCEPT !.session[who] = InsertLine(e, Blank)]
          [] OTHER             -> [d EXCEPT !.session[who] = InsertLine(e, line.cmd)]

-----------------------------------------------------------------------------
\* What else writes programs.

\* createProgram, on a ref that is free; the compile kept under that ref is
\* not looked at.
CreateProgram(d, who, p) ==
    IF p \in Live(d) THEN d
    ELSE [d EXCEPT !.prog[p].owner = who, !.prog[p].source = <<>>,
                   !.inherited = IF d.prog[p].cache # <<>> THEN @ \cup {p} ELSE @]

\* World.Recycle: the flags go with the object.
Recycled(d, p) == [d EXCEPT !.prog[p].owner = Nobody, !.prog[p].internal = FALSE]

\* cmdRecycle, for a program's owner only: whoever is editing the program is
\* put out of the editor first.
MutantNoEvict(d, who, p) ==
    IF d.prog[p].owner # who THEN d
    ELSE Recycled(d, p)
RecycleCommand(d, who, p) ==
    IF d.prog[p].owner # who THEN d
    ELSE Recycled(EvictEditors(d, p), p)

\* A client's save (the prog category of simpleedit), and PROGRAM_SETLINES.
SaveProgram(d, who, p, lines) ==
    IF MayEdit(d, who, p) /\ who \in Muckers /\ ~d.prog[p].internal
    THEN Invalidate(SaveSource(d, p, lines), p) ELSE d
SetLines(d, who, p, lines) ==
    IF MayEdit(d, who, p) /\ ~d.prog[p].internal
    THEN Invalidate(SaveSource(d, p, lines), p) ELSE d

\* What a player not in the editor types: the commands about programs.
ProgramCommand(d, who, line) ==
    LET p == line.args[1]
    IN  CASE line.cmd = "@edit" /\ who \in Muckers    -> OpenEditor(d, who, p)
          [] line.cmd = "@program" /\ who \in Muckers ->
               OpenEditor(CreateProgram(d, who, p), who, p)
          [] line.cmd = "@recycle"                    -> RecycleCommand(d, who, p)
          [] line.cmd = "run" /\ p \in Live(d)        -> CompileProgram(d, p)
          [] OTHER                                    -> d

\* What a start loads, and so what is left after a restart: no program is loaded
\* INTERNAL, and the sessions, the cache and the current lines were in memory.
Loaded(owner, source) ==
    [prog |-> [p \in Programs |-> [owner |-> owner[p], source |-> source[p], internal |-> FALSE,
                                   cache |-> <<>>, line |-> 0]],
     session |-> <<>>, inherited |-> {}]
Reloaded(d) ==
    Loaded([p \in Programs |-> d.prog[p].owner], [p \in Programs |-> d.prog[p].source])

-----------------------------------------------------------------------------
\* Properties of a desk.

\* No two players are in the editor for one program, nothing else writes it
\* meanwhile, and nobody is left in the editor for a program that is gone:
\* through @edit, @program, @mcpedit, a forced @edit, a recycling and the
\* reuse of the ref.
OneEditor(d) ==
    /\ \A x, y \in DOMAIN d.session :
          x # y => d.session[x].program # d.session[y].program
    /\ \A x \in DOMAIN d.session :
          LET p == d.session[x].program IN p \in Live(d) /\ d.prog[p].internal

\* The buffer and its current line say what a text editor's two halves do: what
\* is typed goes, in the order it is typed, where the insertion point is, at the
\* first line, past the last one, before line 0 and after a deletion.
TwoHalves(d) ==
    \A x \in DOMAIN d.session :
        LET e == d.session[x]
        IN  /\ e.lines = e.gap.before \o e.gap.after
            /\ Place(e.curr, e.lines) = Len(e.gap.before)

\* What runs is what is stored.  Two exceptions: while its program is INTERNAL
\* the cache may hold an unsaved buffer's compile, and a ref that is used again
\* has its last program's until something compiles.
StoredIsRun(d) ==
    \A p \in Live(d) :
        d.prog[p].internal \/ p \in d.inherited
          \/ d.prog[p].cache \in {<<>>, <<d.prog[p].source>>}
=============================================================================
