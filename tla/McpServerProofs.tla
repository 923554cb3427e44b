----------------------------- MODULE McpServerProofs -----------------------------
(***************************************************************************)
(* Proofs about the game server's side of MCP: the two tables of dialogs   *)
(* agree with each other, with the connections and with the queue          *)
(* (DialogsAgree), each program has one editor at most and its buffer is   *)
(* what was typed where it was typed (EditedByOne), and what runs is what  *)
(* is stored (RunsWhatIsStored).  The lines clients send and what programs *)
(* ask are whatever the scenes say.  Only what is said of the buffer needs *)
(* to know that a list in them is a list, and that what follows the        *)
(* editor's "i" and "d" is numbers; nothing is assumed of any name.        *)
(*                                                                         *)
(* A handler is a function from the world as it is to the world as it      *)
(* leaves it.  SoundWorld says what every one of them keeps, and TextWorld *)
(* what they keep of the text.                                             *)
(***************************************************************************)
EXTENDS McpServer, FiniteSetsExt, SequenceTheorems, WellFoundedInduction, TLAPS

-------------------------------------------------------------------------------
(* The desk.  None of its operations leaves two players in the editor for   *)
(* one program, or a cached compile that is not of the stored source.  Each *)
(* lemma takes a sound desk to a sound desk, whatever the player, the       *)
(* program and the line are: what a client sends is not assumed to name     *)
(* anything that exists.                                                    *)

\* What a desk is made of.
DeskShape(d) ==
    /\ DOMAIN d = {"prog", "session", "inherited"}
    /\ DOMAIN d.prog = Programs
    /\ \A p \in Programs :
          DOMAIN d.prog[p] = {"owner", "source", "internal", "cache", "line"}
    /\ \A x \in DOMAIN d.session :
          DOMAIN d.session[x] = {"program", "lines", "curr", "insert", "gap"}

\* A desk nobody has corrupted: the inductive invariant of the desk.
SoundDesk(d) == DeskShape(d) /\ OneEditor(d) /\ StoredIsRun(d)

-------------------------------------------------------------------------------
(* Sessions.                                                               *)

\* What a server has loaded is sound: nobody is editing and nothing is cached.
LEMMA LoadedSound ==
  ASSUME NEW owner, NEW source
  PROVE  SoundDesk(Loaded(owner, source))
<1> DEFINE d == Loaded(owner, source)
<1>1. DOMAIN d.session = {}
  BY DEF Loaded
<1>2. DeskShape(d)
  BY <1>1 DEF Loaded, DeskShape
<1>3. OneEditor(d)
  BY <1>1 DEF OneEditor
<1>4. StoredIsRun(d)
  BY DEF StoredIsRun, Live, Loaded
<1> QED BY <1>2, <1>3, <1>4 DEF SoundDesk

\* What each program's cached compile may be.
StoredAt(d, p) ==
    d.prog[p].internal \/ p \in d.inherited \/ d.prog[p].cache \in {<<>>, <<d.prog[p].source>>}

\* A change to one program, which its editor, if it has one, does not notice.
Touched(d, e, p) ==
    /\ DOMAIN e.prog[p] = DOMAIN d.prog[p]
    /\ p \in Live(e) => StoredAt(e, p)
    /\ p \in Live(d) /\ d.prog[p].internal => p \in Live(e) /\ e.prog[p].internal
Changes(d, e, p) ==
    /\ DOMAIN e = DOMAIN d
    /\ e.session = d.session
    /\ DOMAIN e.prog = Programs
    /\ \A q \in Programs \ {p} : e.prog[q] = d.prog[q]
    /\ d.inherited \ {p} \subseteq e.inherited
    /\ p \in Programs => Touched(d, e, p)

\* Such a change leaves the desk sound when what runs of the program is still
\* what is stored.
LEMMA OneProgramSound ==
  ASSUME NEW d, SoundDesk(d), NEW e, NEW p, Changes(d, e, p)
  PROVE  SoundDesk(e)
<1>1. \A q \in Programs : /\ DOMAIN e.prog[q] = DOMAIN d.prog[q]
                          /\ q \in Live(d) /\ d.prog[q].internal
                               => q \in Live(e) /\ e.prog[q].internal
  <2> SUFFICES ASSUME NEW q \in Programs
               PROVE  /\ DOMAIN e.prog[q] = DOMAIN d.prog[q]
                      /\ q \in Live(d) /\ d.prog[q].internal
                           => q \in Live(e) /\ e.prog[q].internal
    OBVIOUS
  <2>1. CASE q = p
    BY <2>1 DEF Changes, Touched
  <2>2. CASE q # p
    BY <2>2 DEF Changes, Live
  <2> QED BY <2>1, <2>2
<1>2. DeskShape(e)
  BY <1>1 DEF Changes, SoundDesk, DeskShape
<1>3. OneEditor(e)
  <2>1. e.session = d.session
    BY DEF Changes
  <2> QED BY <1>1, <2>1 DEF SoundDesk, OneEditor, Live
<1>4. StoredIsRun(e)
  <2> SUFFICES ASSUME NEW q \in Live(e) PROVE StoredAt(e, q)
    BY DEF StoredIsRun, StoredAt
  <2>0. q \in Programs
    BY DEF Live
  <2>1. CASE q = p
    BY <2>0, <2>1 DEF Changes, Touched
  <2>2. CASE q # p
    <3>1. e.prog[q] = d.prog[q] /\ (q \in d.inherited => q \in e.inherited)
      BY <2>0, <2>2 DEF Changes
    <3>2. StoredAt(d, q)
      BY <2>0, <3>1 DEF Live, SoundDesk, StoredIsRun, StoredAt
    <3> QED BY <3>1, <3>2 DEF StoredAt
  <2> QED BY <2>1, <2>2
<1> QED BY <1>2, <1>3, <1>4 DEF SoundDesk

\* Opening the editor: the program is INTERNAL from then on, nobody else had it
\* open since it was not, and the player's own last session is forgotten.
LEMMA OpenEditorSound ==
  ASSUME NEW d, SoundDesk(d), NEW who, NEW p
  PROVE  SoundDesk(OpenEditor(d, who, p))
<1> DEFINE e == OpenEditor(d, who, p)
<1>1. CASE ~MayEdit(d, who, p) \/ d.prog[p].internal
  BY <1>1 DEF OpenEditor
<1>2. CASE MayEdit(d, who, p) /\ ~d.prog[p].internal
  <2>0. p \in Programs /\ p \in Live(d)
    BY <1>2 DEF MayEdit, Live
  <2>1. /\ DOMAIN e = DOMAIN d /\ e.inherited = d.inherited
        /\ e.session = [x \in DOMAIN d.session \cup {who} |->
                          IF x = who THEN NewSession(d, p) ELSE d.session[x]]
        /\ e.prog = [d.prog EXCEPT ![p].internal = TRUE]
    BY <1>2 DEF OpenEditor, SoundDesk, DeskShape
  <2>2. /\ DOMAIN NewSession(d, p) = {"program", "lines", "curr", "insert", "gap"}
        /\ NewSession(d, p).program = p
    BY DEF NewSession
  <2>3. /\ DOMAIN e.prog = Programs
        /\ \A q \in Programs : e.prog[q] = IF q = p THEN [d.prog[p] EXCEPT !.internal = TRUE]
                                            ELSE d.prog[q]
    BY <2>1 DEF SoundDesk, DeskShape
  <2> HIDE DEF e
  <2>4. /\ \A q \in Programs : /\ DOMAIN e.prog[q] = DOMAIN d.prog[q]
                               /\ e.prog[q].owner = d.prog[q].owner
        /\ Live(e) = Live(d)
    <3>1. \A q \in Programs : /\ DOMAIN e.prog[q] = DOMAIN d.prog[q]
                              /\ e.prog[q].owner = d.prog[q].owner
      BY <2>3 DEF SoundDesk, DeskShape
    <3> QED BY <3>1 DEF Live
  <2>5. DeskShape(e)
    BY <2>1, <2>2, <2>3, <2>4 DEF SoundDesk, DeskShape
  <2>6. OneEditor(e)
    <3>1. \A x \in DOMAIN d.session : /\ d.session[x].program \in Programs \ {p}
                                     /\ d.session[x].program \in Live(d)
                                     /\ d.prog[d.session[x].program].internal
      BY <1>2 DEF SoundDesk, OneEditor, Live
    <3>2. \A x \in DOMAIN e.session :
             IF x = who THEN e.session[x].program = p
             ELSE x \in DOMAIN d.session /\ e.session[x].program = d.session[x].program
      BY <2>1, <2>2
    <3>3. e.prog[p].internal
      BY <2>0, <2>3 DEF SoundDesk, DeskShape
    <3>4. ASSUME NEW x \in DOMAIN e.session
          PROVE  e.session[x].program \in Live(e) /\ e.prog[e.session[x].program].internal
      BY <2>0, <2>3, <2>4, <3>1, <3>2, <3>3
    <3>5. ASSUME NEW x \in DOMAIN e.session, NEW y \in DOMAIN e.session, x # y
          PROVE  e.session[x].program # e.session[y].program
      BY <3>1, <3>2, <3>5 DEF SoundDesk, OneEditor
    <3> QED BY <3>4, <3>5 DEF OneEditor
  <2>7. StoredIsRun(e)
    BY <2>1, <2>3, <2>4 DEF SoundDesk, StoredIsRun, Live
  <2> QED BY <2>5, <2>6, <2>7 DEF SoundDesk, e
<1> QED BY <1>1, <1>2

\* Leaving the editor once the program's cached compile has been dropped.
LEMMA CloseEditorSound ==
  ASSUME NEW d, SoundDesk(d), NEW who \in DOMAIN d.session,
         d.prog[d.session[who].program].cache = <<>>
  PROVE  SoundDesk(CloseEditor(d, who))
<1> DEFINE e == CloseEditor(d, who)
           p == d.session[who].program
           f == [d.prog[p] EXCEPT !.line = d.session[who].curr]
           r == [f EXCEPT !.internal = FALSE]
<1>1. /\ DOMAIN e = DOMAIN d /\ e.inherited = d.inherited
      /\ e.session = Restrict(d.session, DOMAIN d.session \ {who})
      /\ e.prog = [[d.prog EXCEPT ![p].line = d.session[who].curr] EXCEPT ![p].internal = FALSE]
  BY DEF CloseEditor, SoundDesk, DeskShape
<1>2. p \in Programs /\ p \in Live(d)
  <2>1. p \in Live(d)
    BY ZenonT(60) DEF SoundDesk, OneEditor
  <2> QED BY <2>1 DEF Live
<1>3. DOMAIN e.prog = Programs /\ \A q \in Programs : e.prog[q] = IF q = p THEN r ELSE d.prog[q]
  <2>1. DOMAIN d.prog = Programs
    BY DEF SoundDesk, DeskShape
  <2> HIDE DEF e
  <2> QED BY <1>1, <2>1
<1>4. /\ DOMAIN r = DOMAIN d.prog[p] /\ r.owner = d.prog[p].owner
      /\ r.cache = <<>>
  BY <1>2 DEF SoundDesk, DeskShape
<1>5. /\ DOMAIN e.session = DOMAIN d.session \ {who}
      /\ \A x \in DOMAIN e.session : e.session[x] = d.session[x] /\ e.session[x].program # p
  <2>1. /\ DOMAIN e.session = DOMAIN d.session \ {who}
        /\ \A x \in DOMAIN e.session : e.session[x] = d.session[x]
    BY <1>1, Zenon DEF Restrict
  <2>2. \A x \in DOMAIN d.session \ {who} : d.session[x].program # p
    BY DEF SoundDesk, OneEditor
  <2> QED BY <2>1, <2>2
<1> HIDE DEF e, p, r
<1>6. \A q \in Programs : q \in Live(e) <=> q \in Live(d)
  BY <1>3, <1>4 DEF Live
<1>7. DeskShape(e)
  BY <1>1, <1>3, <1>4, <1>5 DEF SoundDesk, DeskShape
<1>8. OneEditor(e)
  BY <1>3, <1>5, <1>6 DEF SoundDesk, OneEditor, Live
<1>9. StoredIsRun(e)
  BY <1>1, <1>3, <1>4, <1>6 DEF SoundDesk, StoredIsRun, Live
<1> QED BY <1>7, <1>8, <1>9 DEF SoundDesk, e

\* evictEditors and the recycling after it: nobody is left in the editor for
\* what is garbage.
LEMMA RecycleSound ==
  ASSUME NEW d, SoundDesk(d), NEW who, NEW p
  PROVE  SoundDesk(RecycleCommand(d, who, p))
<1> DEFINE out == {x \in DOMAIN d.session : d.session[x].program = p}
           v == EvictEditors(d, p)
           e == Recycled(v, p)
<1>1. /\ DOMAIN v = DOMAIN d /\ v.inherited = d.inherited
      /\ DOMAIN v.prog = Programs
      /\ \A q \in Programs : DOMAIN v.prog[q] = DOMAIN d.prog[q]
      /\ \A q \in Programs \ {p} : v.prog[q] = d.prog[q]
  BY DEF EvictEditors, SoundDesk, DeskShape
<1>2. /\ DOMAIN v.session = DOMAIN d.session \ out
      /\ \A x \in DOMAIN v.session : v.session[x] = d.session[x] /\ v.session[x].program # p
  BY DEF EvictEditors, SoundDesk, DeskShape, Restrict
<1> HIDE DEF v, out
<1>3. /\ DOMAIN e = DOMAIN d /\ e.inherited = d.inherited /\ e.session = v.session
      /\ DOMAIN e.prog = Programs
      /\ \A q \in Programs : DOMAIN e.prog[q] = DOMAIN d.prog[q]
      /\ \A q \in Programs \ {p} : e.prog[q] = d.prog[q]
      /\ p \in Programs => e.prog[p].owner = Nobody
  BY <1>1 DEF Recycled, SoundDesk, DeskShape
<1> HIDE DEF e
<1>4. \A q \in Programs : q \in Live(e) <=> q \in Live(d) /\ q # p
  BY <1>3 DEF Live
<1>5. DeskShape(e)
  BY <1>2, <1>3 DEF SoundDesk, DeskShape
<1>6. OneEditor(e)
  BY <1>2, <1>3, <1>4 DEF SoundDesk, OneEditor, Live
<1>7. StoredIsRun(e)
  BY <1>3, <1>4 DEF SoundDesk, StoredIsRun, Live
<1>8. SoundDesk(Recycled(EvictEditors(d, p), p))
  BY <1>5, <1>6, <1>7 DEF SoundDesk, e, v
<1> QED BY <1>8 DEF RecycleCommand

-------------------------------------------------------------------------------
(* Compiles and stored sources.                                            *)

\* Dropping a cached compile.
LEMMA InvalidateSound ==
  ASSUME NEW d, SoundDesk(d), NEW p
  PROVE  SoundDesk(Invalidate(d, p))
<1> DEFINE e == Invalidate(d, p)
<1>1. /\ DOMAIN e = DOMAIN d /\ e.session = d.session /\ DOMAIN e.prog = Programs
      /\ \A q \in Programs \ {p} : e.prog[q] = d.prog[q]
      /\ d.inherited \ {p} \subseteq e.inherited
  BY DEF Invalidate, SoundDesk, DeskShape
<1>2. p \in Programs => /\ DOMAIN e.prog[p] = DOMAIN d.prog[p]
                       /\ e.prog[p].owner = d.prog[p].owner
                       /\ e.prog[p].internal = d.prog[p].internal
                       /\ e.prog[p].cache = <<>>
  BY DEF Invalidate, SoundDesk, DeskShape
<1> HIDE DEF e
<1>3. p \in Programs => Touched(d, e, p)
  BY <1>2 DEF Touched, StoredAt, Live
<1>4. Changes(d, e, p)
  BY <1>1, <1>3 DEF Changes
<1> QED BY <1>4, OneProgramSound DEF e

\* Storing another source, the cached compile dropped: a save from the editor,
\* from a client and from a program.
LEMMA StoreSound ==
  ASSUME NEW d, SoundDesk(d), NEW p, NEW lines
  PROVE  SoundDesk(Invalidate(SaveSource(d, p, lines), p))
<1> DEFINE e == Invalidate(SaveSource(d, p, lines), p)
<1>1. /\ DOMAIN e = DOMAIN d /\ e.session = d.session /\ DOMAIN e.prog = Programs
      /\ \A q \in Programs \ {p} : e.prog[q] = d.prog[q]
      /\ d.inherited \ {p} \subseteq e.inherited
  BY DEF Invalidate, SaveSource, SoundDesk, DeskShape
<1>2. p \in Programs => /\ DOMAIN e.prog[p] = DOMAIN d.prog[p]
                       /\ e.prog[p].owner = d.prog[p].owner
                       /\ e.prog[p].internal = d.prog[p].internal
                       /\ e.prog[p].cache = <<>>
  BY DEF Invalidate, SaveSource, SoundDesk, DeskShape
<1> HIDE DEF e
<1>3. p \in Programs => Touched(d, e, p)
  BY <1>2 DEF Touched, StoredAt, Live
<1>4. Changes(d, e, p)
  BY <1>1, <1>3 DEF Changes
<1> QED BY <1>4, OneProgramSound DEF e

\* Compiling the stored source, when nothing is cached.
LEMMA CompileSound ==
  ASSUME NEW d, SoundDesk(d), NEW p
  PROVE  SoundDesk(CompileProgram(d, p))
<1> DEFINE e == [d EXCEPT !.prog[p].cache = <<d.prog[p].source>>]
<1>1. /\ DOMAIN e = DOMAIN d /\ e.session = d.session /\ DOMAIN e.prog = Programs
      /\ \A q \in Programs \ {p} : e.prog[q] = d.prog[q]
      /\ e.inherited = d.inherited
  BY DEF SoundDesk, DeskShape
<1>2. p \in Programs => /\ DOMAIN e.prog[p] = DOMAIN d.prog[p]
                       /\ e.prog[p].owner = d.prog[p].owner
                       /\ e.prog[p].internal = d.prog[p].internal
                       /\ e.prog[p].cache = <<e.prog[p].source>>
  BY DEF SoundDesk, DeskShape
<1> HIDE DEF e
<1>3. p \in Programs => Touched(d, e, p)
  BY <1>2 DEF Touched, StoredAt, Live
<1>4. Changes(d, e, p)
  BY <1>1, <1>3 DEF Changes
<1>5. SoundDesk(e)
  BY <1>4, OneProgramSound
<1> QED BY <1>5 DEF CompileProgram, e

\* A new program, on a ref that is free: what is cached under the ref is what it
\* inherits.
LEMMA CreateSound ==
  ASSUME NEW d, SoundDesk(d), NEW who, NEW p
  PROVE  SoundDesk(CreateProgram(d, who, p))
<1>1. CASE p \in Live(d)
  BY <1>1 DEF CreateProgram
<1>2. CASE p \notin Live(d)
  <2> DEFINE e == [d EXCEPT !.prog[p].owner = who, !.prog[p].source = <<>>,
                            !.inherited = IF d.prog[p].cache # <<>> THEN @ \cup {p} ELSE @]
  <2>1. /\ DOMAIN e = DOMAIN d /\ e.session = d.session /\ DOMAIN e.prog = Programs
        /\ \A q \in Programs \ {p} : e.prog[q] = d.prog[q]
        /\ d.inherited \subseteq e.inherited
        /\ d.prog[p].cache # <<>> => p \in e.inherited
    BY DEF SoundDesk, DeskShape
  <2>2. p \in Programs => /\ DOMAIN e.prog[p] = DOMAIN d.prog[p]
                         /\ e.prog[p].cache = d.prog[p].cache
    BY DEF SoundDesk, DeskShape
  <2> HIDE DEF e
  <2>3. p \in Programs => Touched(d, e, p)
    BY <1>2, <2>1, <2>2 DEF Touched, StoredAt
  <2>4. Changes(d, e, p)
    BY <2>1, <2>3 DEF Changes
  <2>5. SoundDesk(e)
    BY <2>4, OneProgramSound
  <2> QED BY <1>2, <2>5 DEF CreateProgram, e
<1> QED BY <1>1, <1>2

-------------------------------------------------------------------------------
(* What players type.                                                      *)

\* A session that goes on with the same program.
LEMMA SessionSound ==
  ASSUME NEW d, SoundDesk(d), NEW who \in DOMAIN d.session, NEW s,
         DOMAIN s = DOMAIN d.session[who], s.program = d.session[who].program
  PROVE  SoundDesk([d EXCEPT !.session[who] = s])
<1> DEFINE e == [d EXCEPT !.session[who] = s]
<1>1. /\ DOMAIN e = DOMAIN d /\ e.inherited = d.inherited /\ e.prog = d.prog
      /\ DOMAIN e.session = DOMAIN d.session
      /\ \A x \in DOMAIN d.session : e.session[x] = IF x = who THEN s ELSE d.session[x]
  BY DEF SoundDesk, DeskShape
<1> HIDE DEF e
<1>2. \A x \in DOMAIN d.session : /\ DOMAIN e.session[x] = DOMAIN d.session[x]
                                 /\ e.session[x].program = d.session[x].program
  BY <1>1
<1>3. Live(e) = Live(d)
  BY <1>1 DEF Live
<1>4. DeskShape(e)
  BY <1>1, <1>2 DEF SoundDesk, DeskShape
<1>5. OneEditor(e)
  BY <1>1, <1>2, <1>3 DEF SoundDesk, OneEditor
<1>6. StoredIsRun(e)
  BY <1>1, <1>3 DEF SoundDesk, StoredIsRun
<1> QED BY <1>4, <1>5, <1>6 DEF SoundDesk, e

\* Compiling the buffer: the program is INTERNAL as long as its editor is open.
LEMMA CompileEditedSound ==
  ASSUME NEW d, SoundDesk(d), NEW who \in DOMAIN d.session
  PROVE  SoundDesk(CompileEdited(d, who))
<1> DEFINE p == d.session[who].program
           e == [d EXCEPT !.prog[p].cache = <<d.session[who].lines>>, !.inherited = @ \ {p}]
<1>1. p \in Programs /\ p \in Live(d) /\ d.prog[p].internal
  <2>1. p \in Live(d) /\ d.prog[p].internal
    BY Zenon DEF SoundDesk, OneEditor
  <2> QED BY <2>1 DEF Live
<1>2. /\ DOMAIN e = DOMAIN d /\ e.session = d.session /\ DOMAIN e.prog = Programs
      /\ \A q \in Programs \ {p} : e.prog[q] = d.prog[q]
      /\ d.inherited \ {p} \subseteq e.inherited
  BY DEF SoundDesk, DeskShape
<1>3. /\ DOMAIN e.prog[p] = DOMAIN d.prog[p]
      /\ e.prog[p].owner = d.prog[p].owner
      /\ e.prog[p].internal = d.prog[p].internal
  BY <1>1 DEF SoundDesk, DeskShape
<1> HIDE DEF e, p
<1>4. Touched(d, e, p)
  BY <1>1, <1>3 DEF Touched, StoredAt, Live
<1>5. Changes(d, e, p)
  BY <1>2, <1>4 DEF Changes
<1>6. SoundDesk(e)
  BY <1>5, OneProgramSound
<1> QED BY <1>6 DEF CompileEdited, e, p

\* "q" and "x": the compile of the buffer goes with the editor.
LEMMA LeaveSound ==
  ASSUME NEW d, SoundDesk(d), NEW who \in DOMAIN d.session, NEW save
  PROVE  SoundDesk(LeaveEditor(d, who, save))
<1> DEFINE p == d.session[who].program
           kept == IF save THEN SaveSource(d, p, d.session[who].lines) ELSE d
           e == Invalidate(kept, p)
<1>1. p \in Programs
  <2>1. p \in Live(d)
    BY Zenon DEF SoundDesk, OneEditor
  <2> QED BY <2>1 DEF Live
<1>2. SoundDesk(e)
  BY InvalidateSound, StoreSound
<1>3. e.session = d.session /\ e.prog[p].cache = <<>>
  BY <1>1 DEF Invalidate, SaveSource, SoundDesk, DeskShape
<1> HIDE DEF e
<1>4. SoundDesk(CloseEditor(e, who))
  BY <1>2, <1>3, CloseEditorSound
<1> QED BY <1>4 DEF LeaveEditor, e

\* A line typed in the editor.
LEMMA EditInputSound ==
  ASSUME NEW d, SoundDesk(d), NEW who \in DOMAIN d.session, NEW line
  PROVE  SoundDesk(EditInput(d, who, line))
<1> DEFINE e == d.session[who]
<1>0. DOMAIN e = {"program", "lines", "curr", "insert", "gap"}
  BY DEF SoundDesk, DeskShape
<1>1. \A text : /\ DOMAIN InsertLine(e, text) = DOMAIN e
                /\ InsertLine(e, text).program = e.program
  BY <1>0 DEF InsertLine
<1>2. \A args : /\ DOMAIN StartInsert(e, args) = DOMAIN e
                /\ StartInsert(e, args).program = e.program
  BY <1>0 DEF StartInsert
<1>3. \A args : /\ DOMAIN DeleteLines(e, args) = DOMAIN e
                /\ DeleteLines(e, args).program = e.program
  BY <1>0 DEF DeleteLines
<1>4. SoundDesk([d EXCEPT !.session[who].insert = FALSE])
  <2> DEFINE s == [e EXCEPT !.insert = FALSE]
  <2>1. DOMAIN s = DOMAIN e /\ s.program = e.program
    BY <1>0
  <2>2. SoundDesk([d EXCEPT !.session[who] = s])
    BY <2>1, SessionSound
  <2> QED BY <2>2
<1>5. \A text : SoundDesk([d EXCEPT !.session[who] = InsertLine(e, text)])
  BY <1>1, SessionSound
<1>6. SoundDesk(EditCommand(d, who, line))
  <2>1. SoundDesk([d EXCEPT !.session[who] = StartInsert(e, line.args)])
    BY <1>2, SessionSound
  <2>2. SoundDesk([d EXCEPT !.session[who] = DeleteLines(e, line.args)])
    BY <1>3, SessionSound
  <2> QED BY <2>1, <2>2, LeaveSound, CompileEditedSound DEF EditCommand
<1> QED BY <1>4, <1>5, <1>6 DEF EditInput

\* A command about programs, typed by a player who is not in the editor, or
\* forced on one who is.
LEMMA ProgramCommandSound ==
  ASSUME NEW d, SoundDesk(d), NEW who, NEW line
  PROVE  SoundDesk(ProgramCommand(d, who, line))
<1> DEFINE p == line.args[1]
<1>1. SoundDesk(OpenEditor(d, who, p))
  BY OpenEditorSound
<1>2. SoundDesk(OpenEditor(CreateProgram(d, who, p), who, p))
  <2>1. SoundDesk(CreateProgram(d, who, p))
    BY CreateSound
  <2> QED BY <2>1, OpenEditorSound
<1>3. SoundDesk(RecycleCommand(d, who, p)) /\ SoundDesk(CompileProgram(d, p))
  BY RecycleSound, CompileSound
<1> QED BY <1>1, <1>2, <1>3 DEF ProgramCommand

-------------------------------------------------------------------------------
(* The world.                                                              *)

\* The operations the world goroutine knows.
Kinds == {"line", "hangup", "event", "save", "help", "bound", "report"}

OpsShape(s) == IsList(s) /\ \A op \in Range(s) : op.kind \in Kinds

ConnsShape(cn) ==
    /\ DOMAIN cn = Conns
    /\ \A c \in Conns : DOMAIN cn[c] = {"status", "slice", "frame", "heard", "got"}

\* The operation that forgets a dialog its client has dismissed.
Dismissal(id) == [kind |-> "event", dialog |-> id, dismissed |-> TRUE]

\* What is known of an open dialog.
KeptValues(dlg) ==
    /\ DOMAIN dlg = {"conn", "values", "order", "dismissed"}
    /\ dlg.dismissed \in BOOLEAN
    /\ dlg.order \in Seq(DOMAIN dlg.values)
    /\ Range(dlg.order) = DOMAIN dlg.values
    /\ IsInjective(dlg.order)
Connected(cn, dlg) == dlg.conn \in Conns /\ cn[dlg.conn].status = "open"
Dialogs(cn, dg, ow, pending) ==
    /\ ow = DOMAIN dg
    /\ \A id \in DOMAIN dg : /\ KeptValues(dg[id])
                             /\ Connected(cn, dg[id])
                             /\ dg[id].dismissed => Dismissal(id) \in pending

\* A world a handler takes and leaves, while the operations in pending wait.
SoundWorld(w, pending) ==
    /\ DOMAIN w = {"conns", "dialogs", "owners", "desk", "then"}
    /\ ConnsShape(w.conns)
    /\ SoundDesk(w.desk)
    /\ OpsShape(w.then)
    /\ Dialogs(w.conns, w.dialogs, w.owners, pending \cup Range(w.then))
Taken(w, pending) == SoundWorld(w, pending) /\ w.then = <<>>

\* The server between two steps: the inductive invariant.
McpInvariant ==
    /\ OpsShape(ops) /\ OpsShape(running) /\ Len(running) <= 1
    /\ ConnsShape(conns)
    /\ SoundDesk(desk)
    /\ Dialogs(conns, dialogs, owners, Range(ops \o running))

-------------------------------------------------------------------------------
(* Lists.                                                                  *)

\* What a sequence is a sequence of, and the empty one.
LEMMA ListIs ==
  /\ IsList(<<>>) /\ Range(<<>>) = {}
  /\ \A S, s : s \in Seq(S) => IsList(s) /\ Range(s) \subseteq S
<1>1. ASSUME NEW S, NEW s \in Seq(S) PROVE IsList(s) /\ Range(s) \subseteq S
  <2>1. s \in [1..Len(s) -> S] /\ Len(s) \in Nat
    OBVIOUS
  <2>2. Range(s) = {s[x] : x \in 1..Len(s)}
    BY <2>1 DEF Range
  <2>3. s \in [1..Len(s) -> Range(s)]
    BY <2>1, <2>2
  <2>4. s \in Seq(Range(s))
    BY <2>1, <2>3
  <2> QED BY <2>1, <2>2, <2>4 DEF IsList
<1>2. DOMAIN <<>> = {}
  OBVIOUS
<1>3. Range(<<>>) = {}
  BY <1>2 DEF Range
<1>4. <<>> \in Seq({})
  OBVIOUS
<1> QED BY <1>1, <1>3, <1>4

\* One more.
LEMMA ListAppend ==
  ASSUME NEW s, IsList(s), NEW x
  PROVE  /\ IsList(Append(s, x)) /\ Range(Append(s, x)) = Range(s) \cup {x}
         /\ IsList(<<x>>) /\ Range(<<x>>) = {x}
<1> DEFINE S == Range(s) \cup {x}
           t == Append(s, x)
<1>1. s \in Seq(S) /\ x \in S
  BY DEF IsList
<1>2. /\ t \in Seq(S) /\ Len(t) = Len(s) + 1 /\ t[Len(s) + 1] = x
      /\ \A k \in 1..Len(s) : t[k] = s[k]
      /\ Len(s) \in Nat /\ DOMAIN s = 1..Len(s) /\ DOMAIN t = 1..Len(t)
  BY <1>1
<1> HIDE DEF t
<1>3. S \subseteq Range(t)
  <2>1. Len(s) + 1 \in DOMAIN t /\ \A k \in DOMAIN s : k \in DOMAIN t
    BY <1>2
  <2> QED BY <1>2, <2>1 DEF Range
<1>4. IsList(t) /\ Range(t) = S
  BY <1>2, <1>3, ListIs
<1>5. <<x>> \in Seq({x}) /\ DOMAIN <<x>> = {1} /\ <<x>>[1] = x
  OBVIOUS
<1>6. Range(<<x>>) = {x}
  BY <1>5 DEF Range
<1> QED BY <1>4, <1>5, <1>6 DEF t, IsList

\* Two lists, one after the other.
LEMMA ListConcat ==
  ASSUME NEW s, NEW t, IsList(s), IsList(t)
  PROVE  IsList(s \o t) /\ Range(s \o t) = Range(s) \cup Range(t)
<1> DEFINE S == Range(s) \cup Range(t)
           u == s \o t
<1>1. s \in Seq(S) /\ t \in Seq(S)
  BY DEF IsList
<1>2. /\ u \in Seq(S) /\ Len(u) = Len(s) + Len(t)
      /\ \A k \in 1..Len(s) : u[k] = s[k]
      /\ \A k \in 1..Len(t) : u[Len(s) + k] = t[k]
      /\ Len(s) \in Nat /\ DOMAIN s = 1..Len(s) /\ Len(t) \in Nat /\ DOMAIN t = 1..Len(t)
      /\ DOMAIN u = 1..Len(u)
  BY <1>1
<1> HIDE DEF u
<1>3. \A k \in DOMAIN s : k \in DOMAIN u
  BY <1>2
<1>4. \A k \in DOMAIN t : Len(s) + k \in DOMAIN u
  BY <1>2
<1>5. S \subseteq Range(u)
  BY <1>2, <1>3, <1>4 DEF Range
<1>6. IsList(u) /\ Range(u) = S
  BY <1>2, <1>5, ListIs
<1> QED BY <1>6 DEF u

\* The first of a list, and the rest.
LEMMA ListTaken ==
  ASSUME NEW s, IsList(s), s # <<>>
  PROVE  /\ IsList(Tail(s)) /\ IsList(<<Head(s)>>) /\ Range(<<Head(s)>>) = {Head(s)}
         /\ Range(s) = Range(Tail(s)) \cup {Head(s)}
<1> DEFINE S == Range(s)
           t == Tail(s)
<1>1. /\ s \in Seq(S) /\ Len(s) \in Nat \ {0} /\ DOMAIN s = 1..Len(s)
      /\ t \in Seq(S) /\ Len(t) = Len(s) - 1 /\ DOMAIN t = 1..Len(t)
      /\ Head(s) = s[1]
      /\ \A k \in 1..Len(t) : t[k] = s[k + 1]
  BY DEF IsList
<1> HIDE DEF t
<1>2. ASSUME NEW k \in DOMAIN s PROVE s[k] \in Range(t) \cup {s[1]}
  <2>1. k = 1 \/ (k - 1 \in DOMAIN t /\ t[k - 1] = s[k])
    BY <1>1
  <2> QED BY <2>1 DEF Range
<1>3. 1 \in DOMAIN s
  BY <1>1
<1>4. Range(t) \subseteq S /\ IsList(t)
  BY <1>1, ListIs
<1>5. s[1] \in S
  BY <1>3 DEF Range
<1>6. S = Range(t) \cup {s[1]}
  BY <1>2, <1>4, <1>5 DEF Range
<1> QED BY <1>1, <1>4, <1>6, ListIs, ListAppend DEF t

\* A list of one.
LEMMA ListOfOne ==
  ASSUME NEW s, IsList(s), s # <<>>, Len(s) <= 1
  PROVE  Range(s) = {s[1]}
<1> DEFINE S == Range(s)
           n == Len(s)
<1>1. s \in Seq(S)
  BY DEF IsList
<1> HIDE DEF S
<1>2. n \in Nat /\ DOMAIN s = 1..n
  BY <1>1
<1>3. n # 0
  BY <1>1, EmptySeq
<1> HIDE DEF n
<1>4. n = 1
  <2>1. n <= 1
    BY DEF n
  <2> QED BY <1>2, <1>3, <2>1
<1>5. DOMAIN s = {1}
  BY <1>2, <1>4
<1> QED BY <1>5 DEF Range

-------------------------------------------------------------------------------
(* Handlers.                                                               *)

\* What is known of the dialogs does not depend on what the connections that
\* stay open have read and been sent, and it survives more operations waiting.
LEMMA DialogsKept ==
  ASSUME NEW cn, NEW cm, NEW dg, NEW ow, NEW pending, NEW more,
         Dialogs(cn, dg, ow, pending), pending \subseteq more,
         \A c \in Conns : cn[c].status = "open" => cm[c].status = "open"
  PROVE  Dialogs(cm, dg, ow, more)
BY DEF Dialogs, Connected

\* A handler that writes to a connection, or reads from it: its frame.
LEMMA FrameSound ==
  ASSUME NEW w, NEW pending, Taken(w, pending), NEW c, NEW f
  PROVE  Taken(OnFrame(w, c, f), pending)
<1> DEFINE v == OnFrame(w, c, f)
<1>1. /\ DOMAIN v = DOMAIN w /\ v.dialogs = w.dialogs /\ v.owners = w.owners
      /\ v.desk = w.desk /\ v.then = w.then
      /\ v.conns = [w.conns EXCEPT ![c].frame = f]
  BY DEF OnFrame, Taken, SoundWorld
<1> HIDE DEF v
<1>2. DOMAIN w.conns = Conns /\ ConnsShape(w.conns)
  BY DEF Taken, SoundWorld, ConnsShape
<1>3. /\ DOMAIN v.conns = Conns
      /\ \A x \in Conns : /\ v.conns[x] = w.conns[x] \/ v.conns[x] = [w.conns[x] EXCEPT !.frame = f]
                          /\ DOMAIN v.conns[x] = DOMAIN w.conns[x]
  <2>1. DOMAIN v.conns = Conns
    BY <1>1, <1>2
  <2> SUFFICES ASSUME NEW x \in Conns
               PROVE  /\ v.conns[x] = w.conns[x] \/ v.conns[x] = [w.conns[x] EXCEPT !.frame = f]
                      /\ DOMAIN v.conns[x] = DOMAIN w.conns[x]
    BY <2>1
  <2>2. CASE x = c
    BY <1>1, <1>2, <2>2
  <2>3. CASE x # c
    BY <1>1, <1>2, <2>3
  <2> QED BY <2>2, <2>3
<1>4. \A x \in Conns : v.conns[x].status = w.conns[x].status
  BY <1>2, <1>3 DEF ConnsShape
<1>5. ConnsShape(v.conns)
  BY <1>2, <1>3 DEF ConnsShape
<1>6. Dialogs(w.conns, w.dialogs, w.owners, pending \cup Range(w.then))
  BY DEF Taken, SoundWorld
<1>7. Dialogs(v.conns, w.dialogs, w.owners, pending \cup Range(w.then))
  <2> DEFINE waiting == pending \cup Range(w.then)
  <2>1. \A x \in Conns : w.conns[x].status = "open" => v.conns[x].status = "open"
    BY <1>4
  <2>2. waiting \subseteq waiting
    OBVIOUS
  <2> HIDE DEF waiting
  <2> QED BY <1>6, <2>1, <2>2, DialogsKept, Zenon DEF waiting
<1> QED BY <1>1, <1>5, <1>7 DEF v, Taken, SoundWorld

\* What is written to a connection.
LEMMA TellSound ==
  ASSUME NEW w, NEW pending, Taken(w, pending), NEW c, NEW msg
  PROVE  /\ Taken(Tell(w, c, msg), pending) /\ Taken(Refuse(w, c, msg), pending)
         /\ Taken(GuiError(w, c, msg), pending)
BY FrameSound DEF Tell, Refuse, GuiError

\* A handler that changes the desk.
LEMMA DeskSound ==
  ASSUME NEW w, NEW pending, Taken(w, pending), NEW d, SoundDesk(d)
  PROVE  Taken([w EXCEPT !.desk = d], pending)
BY DEF Taken, SoundWorld

\* A handler that puts an operation in the queue.
LEMMA LaterSound ==
  ASSUME NEW w, NEW pending, Taken(w, pending), NEW op, op.kind \in Kinds
  PROVE  SoundWorld(Later(w, op), pending)
<1> DEFINE v == Later(w, op)
<1>1. /\ DOMAIN v = DOMAIN w /\ v.dialogs = w.dialogs /\ v.owners = w.owners
      /\ v.desk = w.desk /\ v.conns = w.conns /\ v.then = <<op>>
  BY DEF Later, Taken, SoundWorld
<1> HIDE DEF v
<1>2. IsList(<<op>>) /\ Range(<<op>>) = {op}
  BY ListIs, ListAppend
<1>3. OpsShape(v.then)
  BY <1>1, <1>2 DEF OpsShape
<1>4. w.then = <<>> /\ Range(w.then) = {}
  BY ListIs DEF Taken
<1>5. Dialogs(w.conns, w.dialogs, w.owners, pending)
  BY <1>4 DEF Taken, SoundWorld
<1>6. Dialogs(v.conns, v.dialogs, v.owners, pending \cup Range(v.then))
  BY <1>1, <1>5, DialogsKept
<1>7. ConnsShape(v.conns) /\ SoundDesk(v.desk) /\ DOMAIN v = {"conns", "dialogs", "owners", "desk", "then"}
  BY <1>1 DEF Taken, SoundWorld
<1> QED BY <1>3, <1>6, <1>7 DEF v, SoundWorld

\* A value a control has is listed once, whether it is its first or another.
LEMMA RememberSound ==
  ASSUME NEW dlg, KeptValues(dlg), NEW ctrl, NEW lines
  PROVE  /\ KeptValues(Remember(dlg, ctrl, lines))
         /\ Remember(dlg, ctrl, lines).conn = dlg.conn
         /\ Remember(dlg, ctrl, lines).dismissed = dlg.dismissed
<1> DEFINE r == Remember(dlg, ctrl, lines)
           V == DOMAIN dlg.values
<1>1. /\ DOMAIN r = DOMAIN dlg /\ r.conn = dlg.conn /\ r.dismissed = dlg.dismissed
      /\ DOMAIN r.values = V \cup {ctrl}
      /\ r.order = IF ctrl \in V THEN dlg.order ELSE Append(dlg.order, ctrl)
  BY DEF Remember, KeptValues
<1> HIDE DEF r
<1>2. dlg.order \in Seq(V) /\ Range(dlg.order) = V /\ IsInjective(dlg.order)
  BY DEF KeptValues
<1>3. CASE ctrl \in V
  <2>1. r.order = dlg.order /\ DOMAIN r.values = V
    BY <1>1, <1>3
  <2> QED BY <1>1, <1>2, <2>1 DEF KeptValues, r
<1>4. CASE ctrl \notin V
  <2> DEFINE s == dlg.order
             t == r.order
  <2>1. t = Append(s, ctrl)
    BY <1>1, <1>4
  <2>2. IsList(s)
    BY <1>2, ListIs
  <2>3. t \in Seq(V \cup {ctrl}) /\ Range(t) = V \cup {ctrl}
    <3>0. IsList(Append(s, ctrl)) /\ Range(Append(s, ctrl)) = Range(s) \cup {ctrl}
      BY <2>2, ListAppend, Zenon
    <3>1. IsList(t) /\ Range(t) = Range(s) \cup {ctrl}
      BY <2>1, <3>0, Zenon
    <3>2. Range(t) = V \cup {ctrl}
      BY <1>2, <3>1
    <3> HIDE DEF t, V
    <3> QED BY <3>1, <3>2 DEF IsList
  <2>4. /\ DOMAIN t = 1..(Len(s) + 1) /\ t[Len(s) + 1] = ctrl
        /\ DOMAIN s = 1..Len(s) /\ Len(s) \in Nat
        /\ \A k \in 1..Len(s) : t[k] = s[k] /\ s[k] # ctrl
    <3>1. \A k \in DOMAIN s : s[k] \in V
      BY <1>2 DEF Range
    <3>2. s \in Seq(V)
      BY <1>2
    <3> HIDE DEF s, t
    <3> QED BY <1>4, <2>1, <3>1, <3>2
  <2>5. IsInjective(t)
    <3> SUFFICES ASSUME NEW a \in DOMAIN t, NEW b \in DOMAIN t, t[a] = t[b] PROVE a = b
      BY DEF IsInjective
    <3> HIDE DEF s, t
    <3>1. IsInjective(s)
      BY <1>2 DEF s
    <3>2. CASE a \in 1..Len(s) /\ b \in 1..Len(s)
      BY <2>4, <3>1, <3>2 DEF IsInjective
    <3>3. CASE a = Len(s) + 1 \/ b = Len(s) + 1
      BY <2>4, <3>3
    <3> QED BY <2>4, <3>2, <3>3
  <2> QED BY <1>1, <2>3, <2>5 DEF KeptValues, r
<1> QED BY <1>1, <1>3, <1>4 DEF r

\* A handler that changes what one open dialog is, but not whose it is.
LEMMA DialogSound ==
  ASSUME NEW w, NEW pending, NEW more, Taken(w, pending), NEW id \in DOMAIN w.dialogs, NEW dlg,
         pending \subseteq more, KeptValues(dlg), dlg.conn = w.dialogs[id].conn,
         dlg.dismissed => Dismissal(id) \in more
  PROVE  /\ DOMAIN [w EXCEPT !.dialogs[id] = dlg] = DOMAIN w
         /\ Dialogs(w.conns, [w.dialogs EXCEPT ![id] = dlg], w.owners, more)
<1> DEFINE dg == [w.dialogs EXCEPT ![id] = dlg]
<1>1. Dialogs(w.conns, w.dialogs, w.owners, pending)
  <2>1. w.then = <<>> /\ Range(w.then) = {}
    BY ListIs DEF Taken
  <2> QED BY <2>1 DEF Taken, SoundWorld
<1>2. /\ DOMAIN dg = DOMAIN w.dialogs /\ dg[id] = dlg
      /\ \A x \in DOMAIN w.dialogs : x # id => dg[x] = w.dialogs[x]
  OBVIOUS
<1> HIDE DEF dg
<1>3. ASSUME NEW x \in DOMAIN dg
      PROVE  /\ KeptValues(dg[x]) /\ Connected(w.conns, dg[x])
             /\ dg[x].dismissed => Dismissal(x) \in more
  <2>1. CASE x = id
    BY <1>1, <1>2, <2>1 DEF Dialogs, Connected
  <2>2. CASE x # id
    BY <1>1, <1>2, <2>2 DEF Dialogs
  <2> QED BY <2>1, <2>2
<1>4. Dialogs(w.conns, dg, w.owners, more)
  BY <1>1, <1>2, <1>3 DEF Dialogs
<1> QED BY <1>4 DEF dg

\* A value is remembered.
LEMMA ValueSound ==
  ASSUME NEW w, NEW pending, Taken(w, pending), NEW id \in DOMAIN w.dialogs, NEW ctrl, NEW lines
  PROVE  Taken([w EXCEPT !.dialogs[id] = Remember(@, ctrl, lines)], pending)
<1> DEFINE dlg == Remember(w.dialogs[id], ctrl, lines)
           v == [w EXCEPT !.dialogs[id] = dlg]
           waiting == pending \cup Range(w.then)
<1>1. w.then = <<>> /\ Range(w.then) = {}
  BY ListIs DEF Taken
<1>2. KeptValues(w.dialogs[id]) /\ (w.dialogs[id].dismissed => Dismissal(id) \in pending)
  BY <1>1 DEF Taken, SoundWorld, Dialogs
<1>3. /\ KeptValues(dlg) /\ dlg.conn = w.dialogs[id].conn
      /\ dlg.dismissed => Dismissal(id) \in pending
  BY <1>2, RememberSound
<1> HIDE DEF dlg
<1>4. Dialogs(w.conns, [w.dialogs EXCEPT ![id] = dlg], w.owners, pending)
  BY <1>3, DialogSound
<1>5. /\ DOMAIN v = DOMAIN w /\ v.owners = w.owners /\ v.desk = w.desk /\ v.conns = w.conns
      /\ v.then = w.then /\ v.dialogs = [w.dialogs EXCEPT ![id] = dlg]
  BY DEF Taken, SoundWorld
<1> HIDE DEF v
<1>6. pending \cup Range(v.then) = pending
  BY <1>1, <1>5
<1>7. Taken(v, pending)
  BY <1>4, <1>5, <1>6 DEF Taken, SoundWorld
<1> QED BY <1>7 DEF v, dlg

\* A dialog is marked, and its dismissal queued with it.
LEMMA EventSound ==
  ASSUME NEW w, NEW pending, Taken(w, pending), NEW id \in DOMAIN w.dialogs,
         NEW dismissed \in BOOLEAN
  PROVE  SoundWorld(Later([w EXCEPT !.dialogs[id].dismissed = @ \/ dismissed],
                          [kind |-> "event", dialog |-> id, dismissed |-> dismissed]), pending)
<1> DEFINE old == w.dialogs[id]
           dlg == [old EXCEPT !.dismissed = @ \/ dismissed]
           op == [kind |-> "event", dialog |-> id, dismissed |-> dismissed]
           v == Later([w EXCEPT !.dialogs[id] = dlg], op)
           waiting == pending \cup {op}
<1>1. w.then = <<>> /\ Range(w.then) = {}
  BY ListIs DEF Taken
<1>2. KeptValues(old) /\ (old.dismissed => Dismissal(id) \in pending)
  BY <1>1 DEF Taken, SoundWorld, Dialogs
<1>3. op.kind = "event" /\ (dismissed => op = Dismissal(id))
  <2>1. CASE dismissed = TRUE
    BY <2>1 DEF Dismissal
  <2>2. CASE dismissed = FALSE
    BY <2>2
  <2> QED BY <2>1, <2>2
<1> HIDE DEF op
<1>4. /\ KeptValues(dlg) /\ dlg.conn = old.conn
      /\ dlg.dismissed => Dismissal(id) \in waiting
  <2>1. /\ DOMAIN dlg = DOMAIN old /\ dlg.conn = old.conn /\ dlg.values = old.values
        /\ dlg.order = old.order
    BY <1>2 DEF KeptValues
  <2>2. dlg.dismissed \in BOOLEAN /\ (dlg.dismissed => old.dismissed \/ dismissed)
    BY <1>2, Zenon DEF KeptValues
  <2> HIDE DEF dlg
  <2>3. KeptValues(dlg)
    BY <1>2, <2>1, <2>2 DEF KeptValues
  <2>4. dlg.dismissed => Dismissal(id) \in waiting
    BY <1>2, <1>3, <2>2
  <2> QED BY <2>1, <2>3, <2>4
<1>5. pending \subseteq waiting
  OBVIOUS
<1> HIDE DEF dlg, waiting
<1>6. Dialogs(w.conns, [w.dialogs EXCEPT ![id] = dlg], w.owners, waiting)
  BY <1>4, <1>5, DialogSound
<1>7. /\ DOMAIN v = DOMAIN w /\ v.owners = w.owners /\ v.desk = w.desk /\ v.conns = w.conns
      /\ v.then = <<op>> /\ v.dialogs = [w.dialogs EXCEPT ![id] = dlg]
  BY DEF Later, Taken, SoundWorld
<1> HIDE DEF v
<1>8. IsList(v.then) /\ Range(v.then) = {op}
  <2>1. IsList(<<op>>) /\ Range(<<op>>) = {op}
    BY ListIs, ListAppend
  <2> QED BY <1>7, <2>1, Zenon
<1>9. OpsShape(v.then)
  BY <1>3, <1>8 DEF OpsShape, Kinds
<1>10. SoundWorld(v, pending)
  BY <1>6, <1>7, <1>8, <1>9 DEF Taken, SoundWorld, waiting
<1> QED BY <1>10 DEF v, dlg, op

\* gui-ctrl-value and gui-ctrl-event: a value is remembered, and a dialog that
\* is dismissed waits for the operation that forgets it.
LEMMA GuiSound ==
  ASSUME NEW w, NEW pending, Taken(w, pending), NEW c, NEW msg
  PROVE  SoundWorld(GUIHandler(w, c, msg), pending)
<1> DEFINE id        == ArgOf(msg, "dlogid")
           ctrl      == ArgOf(msg, "id")
           lines     == LinesIn(msg, "value")
           dismissed == ~(HasArg(msg, "dismissed") /\ ArgOf(msg, "dismissed") \in {"false", "0"})
           valued    == [w EXCEPT !.dialogs[id] = Remember(@, ctrl, lines)]
           marked    == [w EXCEPT !.dialogs[id].dismissed = @ \/ dismissed]
           event     == [kind |-> "event", dialog |-> id, dismissed |-> dismissed]
<1>1. SoundWorld(w, pending)
  BY DEF Taken
<1>2. SoundWorld(GuiError(w, c, msg), pending)
  BY TellSound DEF Taken
<1>3. SoundWorld(Later(w, [kind |-> "report"]), pending)
  BY LaterSound DEF Kinds
<1>4. dismissed \in BOOLEAN
  OBVIOUS
<1> HIDE DEF id, ctrl, lines, dismissed
<1>5. ASSUME id \in DOMAIN w.dialogs PROVE SoundWorld(valued, pending)
  <2>1. Taken(valued, pending)
    BY <1>5, ValueSound
  <2> QED BY <2>1 DEF Taken
<1>6. ASSUME id \in DOMAIN w.dialogs PROVE SoundWorld(Later(marked, event), pending)
  BY <1>4, <1>6, EventSound
<1> DEFINE G == GUIHandler(w, c, msg)
           K == CASE msg.name = <<"ctrl", "value">> -> valued
                  [] msg.name = <<"ctrl", "event">> -> Later(marked, event)
                  [] msg.name = <<"error">> -> Later(w, [kind |-> "report"])
                  [] OTHER -> w
           empty == msg.name \in {<<"ctrl", "value">>, <<"ctrl", "event">>} /\ ctrl = ""
<1>7. G = IF id \notin DOMAIN w.dialogs \/ empty THEN GuiError(w, c, msg) ELSE K
  BY Zenon DEF GUIHandler, id, ctrl, lines, dismissed
<1> HIDE DEF valued, marked, event, G, empty
<1>8. K \in {w, Later(w, [kind |-> "report"]), valued, Later(marked, event)}
  BY Zenon
<1> HIDE DEF K
<1>9. SoundWorld(G, pending)
  BY <1>1, <1>2, <1>3, <1>5, <1>6, <1>7, <1>8
<1> QED BY <1>9 DEF G

\* dispatch: whatever package a message is of, agreed or not.
LEMMA DispatchSound ==
  ASSUME NEW w, NEW pending, Taken(w, pending), NEW c, NEW msg
  PROVE  SoundWorld(Dispatch(w, c, msg), pending)
<1>1. SoundWorld(w, pending)
  BY DEF Taken
<1>2. \A f : SoundWorld(OnFrame(w, c, f), pending)
  BY FrameSound DEF Taken
<1>3. \A m : SoundWorld(Tell(w, c, m), pending) /\ SoundWorld(Refuse(w, c, m), pending)
  BY TellSound DEF Taken
<1>4. \A op : op.kind \in Kinds => SoundWorld(Later(w, op), pending)
  BY LaterSound
<1>5. SoundWorld(LanguagesHandler(w, c, msg), pending)
  BY <1>1, <1>3, Zenon DEF LanguagesHandler
<1>6. SoundWorld(HelpHandler(w, c, msg), pending)
  <2> DEFINE op == [kind |-> "help", conn |-> c]
  <2>1. SoundWorld(Later(w, op), pending)
    BY <1>4 DEF Kinds
  <2> QED BY <1>1, <1>3, <2>1, Zenon DEF HelpHandler
<1>7. SoundWorld(SimpleEditHandler(w, c, msg), pending)
  <2> DEFINE op == [kind |-> "save", conn |-> c, ref |-> RefOf[ArgOf(msg, "reference")],
                    content |-> LinesIn(msg, "content")]
  <2>1. op.kind \in Kinds
    BY DEF Kinds
  <2>2. SoundWorld(Later(w, op), pending)
    BY <1>4, <2>1, Zenon
  <2> QED BY <1>1, <1>3, <2>2, Zenon DEF SimpleEditHandler
<1>8. SoundWorld(ProgramHandler(w, c, msg), pending)
  <2> DEFINE op == [kind |-> "bound", conn |-> c, name |-> FullName(msg)]
  <2>1. op.kind \in Kinds
    BY DEF Kinds
  <2>2. SoundWorld(Later(w, op), pending)
    BY <1>4, <2>1, Zenon
  <2> QED BY <2>2 DEF ProgramHandler
<1> QED BY <1>1, <1>2, <1>5, <1>6, <1>7, <1>8, GuiSound, Zenon DEF Dispatch

\* @mcpedit: the line editor, or the source sent.
LEMMA McpEditSound ==
  ASSUME NEW w, NEW pending, Taken(w, pending), NEW c, NEW p
  PROVE  Taken(McpEdit(w, c, p), pending)
<1>1. Taken([w EXCEPT !.desk = OpenEditor(@, PlayerOf[c], p)], pending)
  <2> DEFINE d == OpenEditor(w.desk, PlayerOf[c], p)
  <2>1. SoundDesk(d)
    BY OpenEditorSound DEF Taken, SoundWorld
  <2> HIDE DEF d
  <2>2. Taken([w EXCEPT !.desk = d], pending)
    BY <2>1, DeskSound
  <2> QED BY <2>2 DEF d
<1>2. \A m : Taken(Tell(w, c, m), pending) /\ Taken(Refuse(w, c, m), pending)
  BY TellSound
<1> QED BY <1>1, <1>2, Zenon DEF McpEdit

\* What is left of a line for the game.
LEMMA TextSound ==
  ASSUME NEW w, NEW pending, Taken(w, pending), NEW c, NEW line
  PROVE  Taken(TextHandler(w, c, line), pending)
<1> DEFINE d == w.desk
           who == PlayerOf[c]
<1>1. SoundDesk(d)
  BY DEF Taken, SoundWorld
<1>2. \A e : SoundDesk(e) => Taken([w EXCEPT !.desk = e], pending)
  BY DeskSound
<1>3. who \in DOMAIN d.session => SoundDesk(EditInput(d, who, line))
  BY <1>1, EditInputSound
<1>4. \A x, l : SoundDesk(ProgramCommand(d, x, l))
  BY <1>1, ProgramCommandSound
<1>5. Taken(McpEdit(w, c, line.args[1]), pending)
  BY McpEditSound
<1> QED BY <1>2, <1>3, <1>4, <1>5, Zenon DEF TextHandler, Editing

\* What a connection has read and made, where it is kept.
LEMMA GhostSound ==
  ASSUME NEW w, NEW pending, Taken(w, pending), NEW c, NEW line, NEW done
  PROVE  Taken([w EXCEPT !.conns[c].heard = Append(@, line), !.conns[c].got = @ \o done], pending)
<1> DEFINE v == [w EXCEPT !.conns[c].heard = Append(@, line), !.conns[c].got = @ \o done]
           heard == Append(w.conns[c].heard, line)
           first == [w.conns EXCEPT ![c].heard = heard]
           got == first[c].got \o done
<1>1. /\ DOMAIN v = DOMAIN w /\ v.dialogs = w.dialogs /\ v.owners = w.owners
      /\ v.desk = w.desk /\ v.then = w.then
      /\ v.conns = [first EXCEPT ![c].got = got]
  BY DEF Taken, SoundWorld
<1>2. DOMAIN w.conns = Conns /\ ConnsShape(w.conns)
  BY DEF Taken, SoundWorld, ConnsShape
<1> HIDE DEF v, heard, got
<1>3. /\ DOMAIN v.conns = Conns
      /\ \A x \in Conns : /\ DOMAIN v.conns[x] = DOMAIN w.conns[x]
                          /\ v.conns[x].status = w.conns[x].status
  <2>1. DOMAIN first = Conns /\ DOMAIN v.conns = Conns
    BY <1>1, <1>2
  <2> SUFFICES ASSUME NEW x \in Conns
               PROVE  /\ DOMAIN v.conns[x] = DOMAIN w.conns[x]
                      /\ v.conns[x].status = w.conns[x].status
    BY <2>1
  <2>2. DOMAIN first[x] = DOMAIN w.conns[x] /\ first[x].status = w.conns[x].status
    BY <1>2, <2>1 DEF ConnsShape
  <2> HIDE DEF first
  <2>3. v.conns[x] = IF x = c THEN [first[c] EXCEPT !.got = got] ELSE first[x]
    BY <1>1, <2>1
  <2>4. "status" \in DOMAIN first[x]
    BY <1>2, <2>2 DEF ConnsShape
  <2> QED BY <2>2, <2>3, <2>4
<1>4. ConnsShape(v.conns)
  BY <1>2, <1>3 DEF ConnsShape
<1>5. Dialogs(v.conns, w.dialogs, w.owners, pending \cup Range(w.then))
  <2> DEFINE waiting == pending \cup Range(w.then)
  <2>1. \A x \in Conns : w.conns[x].status = "open" => v.conns[x].status = "open"
    BY <1>3
  <2>2. waiting \subseteq waiting /\ Dialogs(w.conns, w.dialogs, w.owners, waiting)
    BY DEF Taken, SoundWorld
  <2> HIDE DEF waiting
  <2> QED BY <2>1, <2>2, DialogsKept, Zenon DEF waiting
<1> QED BY <1>1, <1>4, <1>5 DEF v, heard, got, Taken, SoundWorld

\* A line of the queue: the connection's frame reads it, and what it completes
\* or leaves is handled.
LEMMA LineSound ==
  ASSUME NEW pending, Taken(Now, pending), NEW c, NEW line
  PROVE  SoundWorld(HandleLine(c, line), pending)
<1> DEFINE f    == conns[c].frame
           done == Completed(f, Reg(c), line)
           next == OnFrame(Now, c, ReadLine(f, Reg(c), line))
           kept == [next EXCEPT !.conns[c].heard = Append(@, line), !.conns[c].got = @ \o done]
           read == IF scene.kept THEN kept ELSE next
<1>1. Taken(next, pending)
  BY FrameSound
<1>2. Taken(kept, pending)
  BY <1>1, GhostSound
<1> HIDE DEF next, kept
<1>3. Taken(read, pending)
  BY <1>1, <1>2, Zenon
<1> HIDE DEF read
<1>4. \A m : SoundWorld(Dispatch(read, c, m), pending)
  BY <1>3, DispatchSound
<1>5. \A l : SoundWorld(TextHandler(read, c, l), pending)
  BY <1>3, TextSound DEF Taken
<1>6. SoundWorld(read, pending)
  BY <1>3 DEF Taken
<1> QED BY <1>4, <1>5, <1>6, Zenon DEF HandleLine, read, kept, next, OnFrame

-------------------------------------------------------------------------------
(* Operations.                                                             *)

\* Dialogs that are left when others are forgotten, in both tables.
LEMMA FewerDialogs ==
  ASSUME NEW cn, NEW cm, NEW dg, NEW ow, NEW pending, NEW left \in SUBSET DOMAIN dg,
         Dialogs(cn, dg, ow, pending),
         \A id \in left : Connected(cm, dg[id])
  PROVE  Dialogs(cm, Restrict(dg, left), ow \ (DOMAIN dg \ left), pending)
<1>1. DOMAIN Restrict(dg, left) = left /\ \A id \in left : Restrict(dg, left)[id] = dg[id]
  BY Zenon DEF Restrict
<1>2. ow \ (DOMAIN dg \ left) = left
  BY DEF Dialogs
<1>3. \A id \in left : KeptValues(dg[id]) /\ (dg[id].dismissed => Dismissal(id) \in pending)
  BY DEF Dialogs
<1> DEFINE rest == Restrict(dg, left)
<1> HIDE DEF rest
<1>4. ASSUME NEW id \in left
      PROVE  /\ KeptValues(rest[id]) /\ Connected(cm, rest[id])
             /\ rest[id].dismissed => Dismissal(id) \in pending
  BY <1>1, <1>3 DEF rest
<1> QED BY <1>1, <1>2, <1>4, Zenon DEF Dialogs, rest

\* A hangup, and DESCRBOOT: the connection's dialogs go with it.
LEMMA GoneSound ==
  ASSUME NEW w, NEW pending, Taken(w, pending), NEW c
  PROVE  Taken(Gone(w, c), pending)
<1> DEFINE v    == Gone(w, c)
           left == {id \in DOMAIN w.dialogs : w.dialogs[id].conn # c}
           waiting == pending \cup Range(w.then)
<1>1. /\ DOMAIN v = DOMAIN w /\ v.desk = w.desk /\ v.then = w.then
      /\ v.dialogs = Restrict(w.dialogs, left)
      /\ v.owners = w.owners \ (DOMAIN w.dialogs \ left)
      /\ v.conns = [w.conns EXCEPT ![c].status = "gone"]
  BY DEF Gone, Taken, SoundWorld
<1>2. ConnsShape(w.conns) /\ Dialogs(w.conns, w.dialogs, w.owners, waiting)
  BY DEF Taken, SoundWorld
<1> HIDE DEF v, waiting
<1>3. /\ DOMAIN v.conns = Conns
      /\ \A x \in Conns : /\ DOMAIN v.conns[x] = DOMAIN w.conns[x]
                          /\ x # c => v.conns[x] = w.conns[x]
  BY <1>1, <1>2 DEF ConnsShape
<1>4. ConnsShape(v.conns)
  BY <1>2, <1>3 DEF ConnsShape
<1>5. \A id \in left : Connected(v.conns, w.dialogs[id])
  BY <1>2, <1>3 DEF Dialogs, Connected
<1>6. left \subseteq DOMAIN w.dialogs
  OBVIOUS
<1> HIDE DEF left
<1>7. Dialogs(v.conns, v.dialogs, v.owners, waiting)
  BY <1>1, <1>2, <1>5, <1>6, FewerDialogs
<1> QED BY <1>1, <1>4, <1>7 DEF v, waiting, Taken, SoundWorld

\* GUI_DLOG_CLOSE, and the dismissal a client's event queued.
LEMMA CloseSound ==
  ASSUME NEW w, NEW pending, Taken(w, pending), NEW id
  PROVE  Taken(CloseDialog(w, id), pending) /\ id \notin DOMAIN CloseDialog(w, id).dialogs
<1> DEFINE v    == CloseDialog(w, id)
           left == DOMAIN w.dialogs \ {id}
           waiting == pending \cup Range(w.then)
<1>1. /\ DOMAIN v = DOMAIN w /\ v.desk = w.desk /\ v.then = w.then /\ v.conns = w.conns
      /\ v.dialogs = Restrict(w.dialogs, left)
      /\ v.owners = w.owners \ {id}
  BY DEF CloseDialog, Taken, SoundWorld
<1>2. ConnsShape(w.conns) /\ Dialogs(w.conns, w.dialogs, w.owners, waiting)
  BY DEF Taken, SoundWorld
<1> HIDE DEF v, waiting
<1>3. w.owners \ {id} = w.owners \ (DOMAIN w.dialogs \ left)
  BY <1>2 DEF Dialogs
<1>4. \A x \in left : Connected(w.conns, w.dialogs[x])
  BY <1>2 DEF Dialogs
<1>5. left \subseteq DOMAIN w.dialogs /\ id \notin left
  OBVIOUS
<1> HIDE DEF left
<1>6. Dialogs(w.conns, Restrict(w.dialogs, left), w.owners \ (DOMAIN w.dialogs \ left), waiting)
  BY <1>2, <1>4, <1>5, FewerDialogs
<1>7. DOMAIN v.dialogs = left
  BY <1>1, Zenon DEF Restrict
<1>8. Taken(v, pending)
  BY <1>1, <1>2, <1>3, <1>6 DEF waiting, Taken, SoundWorld
<1> QED BY <1>5, <1>7, <1>8 DEF v

\* A client's save.
LEMMA SaveSound ==
  ASSUME NEW w, NEW pending, Taken(w, pending), NEW c, NEW op
  PROVE  Taken(SimpleEditSet(w, c, op), pending)
<1> DEFINE lines == [i \in DOMAIN op.content |-> IF op.content[i] = "" THEN Blank ELSE op.content[i]]
           d == SaveProgram(w.desk, PlayerOf[c], op.ref.obj, lines)
<1> HIDE DEF lines
<1>1. SoundDesk(w.desk)
  BY DEF Taken, SoundWorld
<1>2. SoundDesk(d)
  BY <1>1, StoreSound DEF SaveProgram
<1> HIDE DEF d
<1>3. Taken([w EXCEPT !.desk = d], pending)
  BY <1>2, DeskSound
<1>4. \A m : Taken(Refuse(w, c, m), pending)
  BY TellSound
<1> QED BY <1>3, <1>4, Zenon DEF SimpleEditSet, d, lines

\* An operation of the queue.  The one that forgets a dismissed dialog forgets it.
LEMMA PerformSound ==
  ASSUME NEW pending, Taken(Now, pending), NEW op, op.kind \in Kinds
  PROVE  /\ SoundWorld(Perform(op), pending)
         /\ \A id : op = Dismissal(id) => id \notin DOMAIN Perform(op).dialogs
<1> DEFINE w == Perform(op)
<1>0. SoundWorld(Now, pending) /\ SoundDesk(desk)
  BY DEF Taken, SoundWorld, Now
<1>1. CASE op.kind = "line"
  <2>1. w = HandleLine(op.conn, op.line)
    BY <1>1 DEF Perform
  <2>2. \A id : op # Dismissal(id)
    BY <1>1 DEF Dismissal
  <2> QED BY <2>1, <2>2, LineSound
<1>2. CASE op.kind = "hangup"
  <2>1. w = Gone(Now, op.conn)
    BY <1>2 DEF Perform
  <2>2. \A id : op # Dismissal(id)
    BY <1>2 DEF Dismissal
  <2> QED BY <2>1, <2>2, GoneSound DEF Taken
<1>3. CASE op.kind = "event"
  <2>1. w = IF op.dismissed THEN CloseDialog(Now, op.dialog) ELSE Now
    BY <1>3 DEF Perform
  <2>2. SoundWorld(w, pending)
    BY <1>0, <2>1, CloseSound DEF Taken
  <2>3. ASSUME NEW id, op = Dismissal(id) PROVE id \notin DOMAIN w.dialogs
    <3>1. op.dismissed = TRUE /\ op.dialog = id
      BY <2>3 DEF Dismissal
    <3>2. w = CloseDialog(Now, id)
      BY <2>1, <3>1
    <3> QED BY <3>2, CloseSound
  <2> QED BY <2>2, <2>3
<1>4. CASE op.kind = "save"
  <2>1. w = IF Reaches(op.conn) THEN SimpleEditSet(Now, op.conn, op) ELSE Now
    BY <1>4 DEF Perform
  <2>2. \A id : op # Dismissal(id)
    BY <1>4 DEF Dismissal
  <2> QED BY <1>0, <2>1, <2>2, SaveSound DEF Taken
<1>5. CASE op.kind = "help"
  <2>1. w = Tell(Now, op.conn, Message(HelpPackage, <<"entry">>,
                                       <<Multiline("text", <<"one", "two">>)>>))
    BY <1>5 DEF Perform
  <2>2. \A id : op # Dismissal(id)
    BY <1>5 DEF Dismissal
  <2> QED BY <2>1, <2>2, TellSound DEF Taken
<1>6. CASE op.kind = "bound"
  <2> DEFINE d == CompileProgram(desk, bound[op.name])
  <2>1. w = IF Reaches(op.conn) /\ op.name \in DOMAIN bound THEN [Now EXCEPT !.desk = d] ELSE Now
    BY <1>6 DEF Perform, Now
  <2>2. \A id : op # Dismissal(id)
    BY <1>6 DEF Dismissal
  <2>3. SoundDesk(d)
    BY <1>0, CompileSound
  <2> HIDE DEF d
  <2>4. Taken([Now EXCEPT !.desk = d], pending)
    BY <2>3, DeskSound
  <2> QED BY <1>0, <2>1, <2>2, <2>4 DEF Taken
<1>7. CASE op.kind = "report"
  <2>1. w = Now
    BY <1>7 DEF Perform
  <2>2. \A id : op # Dismissal(id)
    BY <1>7 DEF Dismissal
  <2> QED BY <1>0, <2>1, <2>2
<1> QED BY <1>1, <1>2, <1>3, <1>4, <1>5, <1>6, <1>7 DEF Kinds

-------------------------------------------------------------------------------
(* Steps.                                                                  *)

\* What the queue and the world goroutine hold, however it is shared out.
LEMMA PendingIs ==
  ASSUME NEW s, NEW t, OpsShape(s), OpsShape(t)
  PROVE  Range(s \o t) = Range(s) \cup Range(t)
BY ListConcat DEF OpsShape

\* One more operation in the queue.
LEMMA QueueSound ==
  ASSUME NEW s, OpsShape(s), NEW op, op.kind \in Kinds
  PROVE  OpsShape(Append(s, op)) /\ Range(Append(s, op)) = Range(s) \cup {op}
<1>1. IsList(Append(s, op)) /\ Range(Append(s, op)) = Range(s) \cup {op}
  BY ListAppend, Zenon DEF OpsShape
<1>2. \A x \in Range(s) \cup {op} : x.kind \in Kinds
  BY DEF OpsShape
<1> QED BY <1>1, <1>2 DEF OpsShape

\* The world as a handler finds it.
LEMMA NowSound ==
  ASSUME McpInvariant
  PROVE  Taken(Now, Range(ops \o running))
<1>1. IsList(<<>>) /\ Range(<<>>) = {}
  BY ListIs
<1>2. OpsShape(Now.then) /\ Now.then = <<>>
  BY <1>1 DEF Now, OpsShape
<1>3. Dialogs(conns, dialogs, owners, Range(ops \o running) \cup Range(<<>>))
  <2> DEFINE waiting == Range(ops \o running)
  <2>1. Dialogs(conns, dialogs, owners, waiting)
    BY DEF McpInvariant
  <2> HIDE DEF waiting
  <2>2. waiting \cup Range(<<>>) = waiting
    BY <1>1
  <2> QED BY <2>1, <2>2 DEF waiting
<1>4. /\ DOMAIN Now = {"conns", "dialogs", "owners", "desk", "then"}
      /\ Now.conns = conns /\ Now.dialogs = dialogs /\ Now.owners = owners /\ Now.desk = desk
  BY DEF Now
<1>5. ConnsShape(conns) /\ SoundDesk(desk)
  BY DEF McpInvariant
<1> QED BY <1>2, <1>3, <1>4, <1>5 DEF Taken, SoundWorld

\* A step that leaves the queue alone, and makes of the world what a handler does.
LEMMA BecomeSound ==
  ASSUME McpInvariant, NEW w, Taken(w, Range(ops \o running)), Become(w),
         UNCHANGED <<ops, running>>
  PROVE  McpInvariant'
<1>1. w.then = <<>> /\ Range(w.then) = {}
  BY ListIs DEF Taken
<1>2. /\ conns' = w.conns /\ dialogs' = w.dialogs /\ owners' = w.owners /\ desk' = w.desk
      /\ ops' = ops /\ running' = running
  BY DEF Become
<1>3. ConnsShape(w.conns) /\ SoundDesk(w.desk)
  BY DEF Taken, SoundWorld
<1>4. Dialogs(w.conns, w.dialogs, w.owners, Range(ops \o running))
  BY <1>1 DEF Taken, SoundWorld
<1> QED BY <1>2, <1>3, <1>4 DEF McpInvariant

\* The operation taken is run.
LEMMA RunSound ==
  ASSUME McpInvariant, Run
  PROVE  McpInvariant'
<1> DEFINE op == running[1]
           w == Perform(op)
           pending == Range(ops \o running)
<1>0. OpsShape(ops) /\ OpsShape(running) /\ Len(running) <= 1 /\ running # <<>>
  BY DEF McpInvariant, Run, Idle
<1>1. Range(running) = {op} /\ op.kind \in Kinds
  <2>1. Range(running) = {op}
    BY <1>0, ListOfOne DEF OpsShape
  <2> QED BY <1>0, <2>1 DEF OpsShape
<1>2. pending = Range(ops) \cup {op}
  BY <1>0, <1>1, PendingIs
<1>3. Taken(Now, pending)
  BY NowSound
<1> HIDE DEF op, pending
<1>4. /\ SoundWorld(w, pending)
      /\ \A id : op = Dismissal(id) => id \notin DOMAIN w.dialogs
  BY <1>1, <1>3, PerformSound
<1>5. /\ conns' = w.conns /\ dialogs' = w.dialogs /\ owners' = w.owners /\ desk' = w.desk
      /\ ops' = ops \o w.then /\ running' = <<>>
  BY DEF Run, Become, op
<1> HIDE DEF w
<1>6. /\ ConnsShape(w.conns) /\ SoundDesk(w.desk) /\ OpsShape(w.then)
      /\ Dialogs(w.conns, w.dialogs, w.owners, pending \cup Range(w.then))
  BY <1>4 DEF SoundWorld
<1>7. /\ OpsShape(ops \o w.then)
      /\ Range(ops \o w.then) = Range(ops) \cup Range(w.then)
  <2>1. IsList(ops \o w.then) /\ Range(ops \o w.then) = Range(ops) \cup Range(w.then)
    BY <1>0, <1>6, ListConcat DEF OpsShape
  <2>2. \A x \in Range(ops) \cup Range(w.then) : x.kind \in Kinds
    BY <1>0, <1>6 DEF OpsShape
  <2> QED BY <2>1, <2>2 DEF OpsShape
<1>8. OpsShape(<<>>) /\ Range(<<>>) = {} /\ Len(<<>>) <= 1
  BY ListIs DEF OpsShape
<1>9. Range(ops' \o running') = Range(ops) \cup Range(w.then)
  <2>1. Range(ops' \o running') = Range(ops') \cup Range(running')
    BY <1>5, <1>7, <1>8, PendingIs
  <2> QED BY <1>5, <1>7, <1>8, <2>1
<1>10. Dialogs(w.conns, w.dialogs, w.owners, Range(ops) \cup Range(w.then))
  <2>1. \A id \in DOMAIN w.dialogs : Dismissal(id) # op
    BY <1>4
  <2> QED BY <1>2, <1>6, <2>1 DEF Dialogs
<1> QED BY <1>5, <1>6, <1>7, <1>8, <1>9, <1>10 DEF McpInvariant

\* A transport hands something on, or the world goroutine takes an operation.
LEMMA QueueStepSound ==
  ASSUME McpInvariant, NEW c, Input(c) \/ Hangup(c) \/ TakeOp
  PROVE  McpInvariant'
<1>0. OpsShape(ops) /\ OpsShape(running) /\ Len(running) <= 1
  BY DEF McpInvariant
<1>1. UNCHANGED <<conns, dialogs, owners, desk>>
  BY DEF Input, Hangup, TakeOp
<1> DEFINE Kept == /\ OpsShape(ops') /\ OpsShape(running') /\ Len(running') <= 1
                   /\ Range(ops \o running) \subseteq Range(ops' \o running')
<1>2. Kept
  <2>1. ASSUME NEW op, ops' = Append(ops, op), op.kind \in Kinds, running' = running
        PROVE  Kept
    <3>1. OpsShape(ops') /\ Range(ops') = Range(ops) \cup {op}
      BY <1>0, <2>1, QueueSound
    <3>2. /\ Range(ops \o running) = Range(ops) \cup Range(running)
          /\ Range(ops' \o running') = Range(ops') \cup Range(running')
      BY <1>0, <2>1, <3>1, PendingIs
    <3> QED BY <1>0, <2>1, <3>1, <3>2
  <2>2. CASE Input(c)
    <3>1. PICK line \in scene.lines : ops' = Append(ops, [kind |-> "line", conn |-> c, line |-> line])
      BY <2>2 DEF Input
    <3>2. running' = running
      BY <2>2 DEF Input
    <3> DEFINE op == [kind |-> "line", conn |-> c, line |-> line]
    <3>3. op.kind \in Kinds
      BY DEF Kinds
    <3> HIDE DEF op
    <3> QED BY <2>1, <3>1, <3>2, <3>3 DEF op
  <2>3. CASE Hangup(c)
    <3> DEFINE op == [kind |-> "hangup", conn |-> c]
    <3>1. ops' = Append(ops, op) /\ running' = running /\ op.kind \in Kinds
      BY <2>3 DEF Hangup, Kinds
    <3> HIDE DEF op
    <3> QED BY <2>1, <3>1
  <2>4. CASE TakeOp
    <3>1. ops # <<>> /\ running = <<>> /\ ops' = Tail(ops) /\ running' = <<Head(ops)>>
      BY <2>4 DEF TakeOp, Idle
    <3>2. /\ IsList(Tail(ops)) /\ IsList(<<Head(ops)>>) /\ Range(<<Head(ops)>>) = {Head(ops)}
          /\ Range(ops) = Range(Tail(ops)) \cup {Head(ops)}
      BY <1>0, <3>1, ListTaken DEF OpsShape
    <3>3. OpsShape(ops') /\ OpsShape(running') /\ Range(ops) = Range(ops') \cup Range(running')
      BY <1>0, <3>1, <3>2 DEF OpsShape
    <3>4. Range(<<>>) = {}
      BY ListIs
    <3>5. Range(ops \o running) = Range(ops) /\ Range(ops' \o running') = Range(ops)
      BY <1>0, <3>1, <3>3, <3>4, PendingIs
    <3>6. Len(running') <= 1
      BY <3>1
    <3> QED BY <3>3, <3>5, <3>6
  <2> QED BY <2>2, <2>3, <2>4
<1>3. Dialogs(conns, dialogs, owners, Range(ops' \o running'))
  <2>1. Dialogs(conns, dialogs, owners, Range(ops \o running))
    BY DEF McpInvariant
  <2> QED BY <1>2, <2>1, DialogsKept
<1>4. ConnsShape(conns) /\ SoundDesk(desk)
  BY DEF McpInvariant
<1> QED BY <1>1, <1>2, <1>3, <1>4 DEF McpInvariant

\* A connection arrives: those that are open stay so.
LEMMA ConnectSound ==
  ASSUME McpInvariant, NEW c \in Conns, Connect(c)
  PROVE  McpInvariant'
<1> DEFINE new == [[[NewConn EXCEPT !.status = "open"] EXCEPT !.slice = offered]
                     EXCEPT !.frame = StartNegotiation(NewConn.frame)]
<1>1. /\ conns' = [conns EXCEPT ![c] = new] /\ conns[c].status = "new"
      /\ UNCHANGED <<ops, running, dialogs, owners, desk>>
  BY DEF Connect, NewConn
<1>2. new.status = "open" /\ DOMAIN new = {"status", "slice", "frame", "heard", "got"}
  BY DEF NewConn
<1> HIDE DEF new
<1>3. ConnsShape(conns)
  BY DEF McpInvariant
<1>4. ConnsShape(conns')
  BY <1>1, <1>2, <1>3 DEF ConnsShape
<1>5. \A x \in Conns : conns[x].status = "open" => conns'[x].status = "open"
  BY <1>1, <1>2, <1>3 DEF ConnsShape
<1> DEFINE waiting == Range(ops \o running)
<1>6. Dialogs(conns, dialogs, owners, waiting) /\ waiting \subseteq waiting
  BY DEF McpInvariant
<1> HIDE DEF waiting
<1>7. Dialogs(conns', dialogs, owners, waiting)
  BY <1>5, <1>6, DialogsKept
<1> QED BY <1>1, <1>4, <1>7 DEF McpInvariant, waiting

\* GUI_DLOG_CREATE: the dialog is open, and its connection is, whether what the
\* client is sent can be sent or not.
LEMMA CreateDialogSound ==
  ASSUME McpInvariant, NEW a, NEW c \in Conns, CreateDialog(a, c)
  PROVE  McpInvariant'
<1> DEFINE id  == ToString(issued + 1)
           dlg == [conn |-> c, values |-> <<>>, order |-> <<>>, dismissed |-> FALSE]
           dg  == [d \in DOMAIN dialogs \cup {id} |-> IF d = id THEN dlg ELSE dialogs[d]]
           w   == [Now EXCEPT !.dialogs = dg, !.owners = @ \cup {id}]
           msg == Message(GuiPackage, <<"dlog", "create">>, <<Arg("title", "title"), Arg("dlogid", id)>>)
           pending == Range(ops \o running)
<1>1. /\ conns[c].status = "open"
      /\ Become(IF a.sound THEN Tell(w, c, msg) ELSE w)
      /\ UNCHANGED <<ops, running>>
  BY DEF CreateDialog, Open, Now
<1>2. KeptValues(dlg) /\ dlg.conn = c /\ dlg.dismissed = FALSE
  <2>1. DOMAIN <<>> = {} /\ <<>> \in Seq({})
    OBVIOUS
  <2>2. Range(<<>>) = {} /\ IsInjective(<<>>)
    BY <2>1, ListIs DEF IsInjective
  <2> QED BY <2>1, <2>2 DEF KeptValues
<1>3. Taken(Now, pending)
  BY NowSound
<1> HIDE DEF dlg, id, msg, pending
<1>4. /\ DOMAIN dg = DOMAIN dialogs \cup {id} /\ dg[id] = dlg
      /\ \A d \in DOMAIN dialogs : d # id => dg[d] = dialogs[d]
  OBVIOUS
<1>5. /\ DOMAIN w = DOMAIN Now /\ w.dialogs = dg /\ w.owners = owners \cup {id}
      /\ w.conns = conns /\ w.desk = desk /\ w.then = <<>>
  BY DEF Now
<1> HIDE DEF dg, w
<1>6. /\ DOMAIN Now = {"conns", "dialogs", "owners", "desk", "then"}
      /\ ConnsShape(conns) /\ SoundDesk(desk) /\ OpsShape(<<>>)
      /\ Dialogs(conns, dialogs, owners, pending \cup Range(<<>>))
  BY <1>3 DEF Taken, SoundWorld, Now
<1>7. Dialogs(conns, dg, owners \cup {id}, pending \cup Range(<<>>))
  <2>1. ASSUME NEW d \in DOMAIN dg
        PROVE  /\ KeptValues(dg[d]) /\ Connected(conns, dg[d])
               /\ dg[d].dismissed => Dismissal(d) \in pending \cup Range(<<>>)
    <3>1. CASE d = id
      BY <1>1, <1>2, <1>4, <3>1 DEF Connected
    <3>2. CASE d # id
      BY <1>4, <1>6, <2>1, <3>2 DEF Dialogs
    <3> QED BY <3>1, <3>2
  <2> QED BY <1>4, <1>6, <2>1 DEF Dialogs
<1>8. Taken(w, pending)
  BY <1>5, <1>6, <1>7 DEF Taken, SoundWorld
<1>9. Taken(Tell(w, c, msg), pending)
  BY <1>8, TellSound
<1> QED BY <1>1, <1>8, <1>9, BecomeSound DEF pending

\* What programs send, and what they do to connections and dialogs.
LEMMA AskSound ==
  ASSUME McpInvariant, NEW a,
         \/ \E c \in Conns : Send(a, c) \/ Boot(a, c)
         \/ \E id \in DOMAIN dialogs : DialogCommand(a, id) \/ Control(a, id)
  PROVE  McpInvariant'
<1> DEFINE pending == Range(ops \o running)
<1>1. Taken(Now, pending) /\ Now.dialogs = dialogs
  BY NowSound DEF Now
<1>2. \A d, m : Taken(Tell(Now, d, m), pending)
  BY <1>1, TellSound
<1> HIDE DEF pending
<1>3. ASSUME NEW w, Taken(w, pending), Become(w), UNCHANGED <<ops, running>>
      PROVE  McpInvariant'
  BY <1>3, BecomeSound DEF pending
<1>4. ASSUME NEW c, Send(a, c) PROVE McpInvariant'
  <2>1. Become(Tell(Now, c, a.msg)) /\ UNCHANGED <<ops, running>>
    BY <1>4 DEF Send
  <2> QED BY <1>2, <1>3, <2>1
<1>5. ASSUME NEW c, Boot(a, c) PROVE McpInvariant'
  <2>1. Become(Gone(Now, c)) /\ UNCHANGED <<ops, running>>
    BY <1>5 DEF Boot
  <2>2. Taken(Gone(Now, c), pending)
    BY <1>1, GoneSound
  <2> QED BY <1>3, <2>1, <2>2
<1>6. ASSUME NEW id, DialogCommand(a, id) PROVE McpInvariant'
  <2> DEFINE d    == dialogs[id].conn
             name == IF a.closing THEN <<"dlog", "close">> ELSE <<"dlog", "show">>
             msg  == Message(GuiPackage, name, <<Arg("dlogid", id)>>)
             told == Tell(Now, d, msg)
  <2>1. Become(IF a.closing THEN CloseDialog(told, id) ELSE told) /\ UNCHANGED <<ops, running>>
    BY <1>6 DEF DialogCommand
  <2>2. Taken(told, pending)
    BY <1>2
  <2> HIDE DEF told
  <2>3. Taken(CloseDialog(told, id), pending)
    BY <2>2, CloseSound
  <2> QED BY <1>3, <2>1, <2>2, <2>3
<1>7. ASSUME NEW id \in DOMAIN dialogs, Control(a, id) PROVE McpInvariant'
  <2> DEFINE msg == Message(GuiPackage, a.name,
                       <<Arg("dlogid", id), Arg("id", a.ctrl), Multiline("value", a.lines)>>)
             valued == [Now EXCEPT !.dialogs[id] = Remember(@, a.ctrl, a.lines)]
             w == IF a.keeps THEN valued ELSE Now
             told == Tell(w, dialogs[id].conn, msg)
  <2>1. Become(told) /\ UNCHANGED <<ops, running>>
    BY <1>7 DEF Control
  <2>2. Taken(valued, pending)
    BY <1>1, ValueSound
  <2> HIDE DEF valued, msg
  <2>3. Taken(w, pending)
    BY <1>1, <2>2
  <2> HIDE DEF w
  <2>4. Taken(told, pending)
    BY <2>3, TellSound
  <2> HIDE DEF told
  <2> QED BY <1>3, <2>1, <2>4
<1> QED BY <1>4, <1>5, <1>6, <1>7

\* What a program registers or claims is no part of the dialogs or the desk.
LEMMA ClaimSound ==
  ASSUME McpInvariant, NEW a, Register(a) \/ Bind(a)
  PROVE  McpInvariant'
<1>1. UNCHANGED <<conns, ops, running, dialogs, owners, desk>>
  BY DEF Register, Bind
<1> QED BY <1>1 DEF McpInvariant

\* PROGRAM_SETLINES, COMPILE, UNCOMPILE and NEWPROGRAM.
LEMMA ScriptSound ==
  ASSUME McpInvariant, NEW a, NEW p, Script(a, p)
  PROVE  McpInvariant'
<1>1. SoundDesk(desk)
  BY DEF McpInvariant
<1>2. SoundDesk(SetLines(desk, a.who, p, a.lines))
  BY <1>1, StoreSound, Zenon DEF SetLines
<1>3. SoundDesk(Invalidate(desk, p))
  BY <1>1, InvalidateSound
<1>4. SoundDesk(CompileProgram(Invalidate(desk, p), p))
  BY <1>3, CompileSound
<1>5. SoundDesk(CreateProgram(desk, a.who, p))
  BY <1>1, CreateSound
<1>6. SoundDesk(desk')
  BY <1>1, <1>2, <1>3, <1>4, <1>5, Zenon DEF Script
<1>7. UNCHANGED <<conns, ops, running, dialogs, owners>>
  BY DEF Script
<1> QED BY <1>6, <1>7 DEF McpInvariant

\* A world with nothing open, nothing waiting and a sound desk.
LEMMA EmptySound ==
  ASSUME NEW cn, ConnsShape(cn)
  PROVE  /\ OpsShape(<<>>) /\ Len(<<>>) <= 1
         /\ Dialogs(cn, <<>>, {}, Range(<<>> \o <<>>))
<1>1. IsList(<<>>) /\ Range(<<>>) = {} /\ DOMAIN <<>> = {} /\ Len(<<>>) = 0
  <2>1. DOMAIN <<>> = {} /\ Len(<<>>) = 0
    OBVIOUS
  <2> QED BY <2>1, ListIs
<1>2. OpsShape(<<>>) /\ Len(<<>>) <= 1
  BY <1>1 DEF OpsShape
<1>3. Dialogs(cn, <<>>, {}, Range(<<>> \o <<>>))
  BY <1>1 DEF Dialogs
<1> QED BY <1>2, <1>3

\* The server stops and starts again: nothing that was open is left, and what
\* is loaded is sound.
LEMMA RestartSound ==
  ASSUME McpInvariant, NEW a, Restart(a)
  PROVE  McpInvariant'
<1>1. /\ conns' = [c \in Conns |-> NewConn] /\ ops' = <<>> /\ running' = running
      /\ running = <<>> /\ dialogs' = <<>> /\ owners' = {} /\ desk' = Reloaded(desk)
  BY DEF Restart, Asked, Idle
<1>2. ConnsShape(conns')
  BY <1>1 DEF ConnsShape, NewConn
<1>3. SoundDesk(desk')
  BY <1>1, LoadedSound DEF Reloaded
<1> QED BY <1>1, <1>2, <1>3, EmptySound DEF McpInvariant

\* A server that has loaded its programs, with nobody or one player in the
\* editor, whatever the scene says of connections and packages.
LEMMA InitSound ==
  ASSUME Init
  PROVE  McpInvariant
<1> DEFINE b      == Begin[scene.name]
           loaded == Loaded(b.owner, b.source)
<1>1. /\ conns = [c \in Conns |-> [NewConn EXCEPT !.status = b.status[c], !.slice = offered,
                                                  !.frame = b.frame]]
      /\ desk = IF b.editing = <<>> THEN loaded ELSE OpenEditor(loaded, b.editing[1], b.editing[2])
      /\ ops = <<>> /\ running = <<>> /\ dialogs = <<>> /\ owners = {}
  BY DEF Init
<1>2. SoundDesk(loaded)
  BY LoadedSound
<1> HIDE DEF loaded, b
<1>3. SoundDesk(desk)
  BY <1>1, <1>2, OpenEditorSound
<1>4. ConnsShape(conns)
  BY <1>1 DEF ConnsShape, NewConn
<1> QED BY <1>1, <1>3, <1>4, EmptySound DEF McpInvariant

-------------------------------------------------------------------------------
(* The text.  The buffer of a session is the two halves an editor keeps,    *)
(* joined, and its current line is where they meet.  What that rests on is  *)
(* that sources are lists of lines and current lines are numbers, wherever  *)
(* a source was written: by the editor, a client's message or a program.    *)

\* A session whose buffer is its two halves.
Halves(e) ==
    /\ DOMAIN e = {"program", "lines", "curr", "insert", "gap"}
    /\ DOMAIN e.gap = {"before", "after"}
    /\ e.curr \in Int
    /\ \E S : e.gap.before \in Seq(S) /\ e.gap.after \in Seq(S)
    /\ e.lines = e.gap.before \o e.gap.after
    /\ Place(e.curr, e.lines) = Len(e.gap.before)

\* A desk whose text is.
SoundText(d) ==
    /\ \A p \in Programs : IsList(d.prog[p].source) /\ d.prog[p].line \in Int
    /\ \A x \in DOMAIN d.session : Halves(d.session[x])

\* A list is cut in two anywhere.
LEMMA CutInTwo ==
  ASSUME NEW S, NEW s \in Seq(S), NEW n \in 0 .. Len(s)
  PROVE  /\ Gap(s, n).before \in Seq(S) /\ Gap(s, n).after \in Seq(S)
         /\ Len(Gap(s, n).before) = n
         /\ Gap(s, n).before \o Gap(s, n).after = s
         /\ DOMAIN Gap(s, n) = {"before", "after"}
<1>1. \A i \in 1 .. Len(s) : s[i] \in S
  OBVIOUS
<1>2. SubSeq(s, 1, n) \in Seq(S) /\ Len(SubSeq(s, 1, n)) = n
  <2>1. 1 \in Int /\ n \in Int /\ \A i \in 1 .. n : s[i] \in S
    BY <1>1
  <2> QED BY <2>1, SubSeqProperties
<1>3. SubSeq(s, n + 1, Len(s)) \in Seq(S)
  <2>1. n + 1 \in Int /\ Len(s) \in Int /\ \A i \in n + 1 .. Len(s) : s[i] \in S
    BY <1>1
  <2> QED BY <2>1, SubSeqProperties
<1>4. SubSeq(s, 1, n) \o SubSeq(s, n + 1, Len(s)) = s
  <2>1. 1 \in 1 .. Len(s) + 1 /\ n \in 1 - 1 .. Len(s) /\ Len(s) \in n .. Len(s)
    OBVIOUS
  <2>2. SubSeq(s, 1, n) \o SubSeq(s, n + 1, Len(s)) = SubSeq(s, 1, Len(s))
    BY <2>1, ConcatAdjacentSubSeq
  <2> QED BY <2>2, SubSeqFull
<1> QED BY <1>2, <1>3, <1>4 DEF Gap

\* A current line stands for a place in the buffer.
LEMMA PlaceIn ==
  ASSUME NEW S, NEW s \in Seq(S), NEW curr \in Int
  PROVE  Place(curr, s) \in 0 .. Len(s)
BY DEF Place

\* A session that has its insertion point put where its current line says.
LEMMA HalvesOf ==
  ASSUME NEW e, DOMAIN e = {"program", "lines", "curr", "insert", "gap"},
         NEW S, e.lines \in Seq(S), e.curr \in Int, e.gap = Gap(e.lines, Place(e.curr, e.lines))
  PROVE  Halves(e)
<1>1. Place(e.curr, e.lines) \in 0 .. Len(e.lines)
  BY PlaceIn
<1>2. /\ e.gap.before \in Seq(S) /\ e.gap.after \in Seq(S)
      /\ Len(e.gap.before) = Place(e.curr, e.lines)
      /\ e.gap.before \o e.gap.after = e.lines
      /\ DOMAIN e.gap = {"before", "after"}
  BY <1>1, CutInTwo, ZenonT(60)
<1> QED BY <1>2 DEF Halves

\* What a list is of, and where its editor is.
LEMMA BufferIs ==
  ASSUME NEW e, Halves(e)
  PROVE  \E S : /\ e.gap.before \in Seq(S) /\ e.gap.after \in Seq(S) /\ e.lines \in Seq(S)
                /\ Len(e.lines) = Len(e.gap.before) + Len(e.gap.after)
<1>1. PICK S : e.gap.before \in Seq(S) /\ e.gap.after \in Seq(S)
  BY DEF Halves
<1>2. e.lines = e.gap.before \o e.gap.after
  BY DEF Halves
<1>3. e.lines \in Seq(S) /\ Len(e.lines) = Len(e.gap.before) + Len(e.gap.after)
  BY <1>1, <1>2, ConcatProperties
<1> QED BY <1>1, <1>3

\* "n i": the insertion point goes before line n.
LEMMA StartInsertHalves ==
  ASSUME NEW e, Halves(e), NEW args \in Seq(Int)
  PROVE  Halves(StartInsert(e, args))
<1>1. CASE args = <<>>
  <2> DEFINE r == [e EXCEPT !.insert = TRUE]
  <2>1. /\ DOMAIN r = DOMAIN e /\ r.lines = e.lines /\ r.curr = e.curr /\ r.gap = e.gap
        /\ StartInsert(e, args) = r
    BY <1>1 DEF StartInsert, Halves
  <2> HIDE DEF r
  <2> QED BY <2>1 DEF Halves
<1>2. CASE args # <<>>
  <2> DEFINE r == StartInsert(e, args)
  <2>1. PICK S : e.lines \in Seq(S)
    BY BufferIs
  <2>2. args[1] \in Int
    BY <1>2
  <2>3. /\ DOMAIN r = DOMAIN e /\ r.lines = e.lines /\ r.curr = args[1] - 1
        /\ r.gap = Gap(e.lines, Place(args[1] - 1, e.lines))
    BY <1>2 DEF StartInsert, Halves
  <2> HIDE DEF r
  <2>4. /\ DOMAIN r = {"program", "lines", "curr", "insert", "gap"} /\ r.lines \in Seq(S)
        /\ r.curr \in Int /\ r.gap = Gap(r.lines, Place(r.curr, r.lines))
    BY <2>1, <2>2, <2>3 DEF Halves
  <2>5. Halves(r)
    BY <2>4, HalvesOf
  <2> QED BY <2>5 DEF r
<1> QED BY <1>1, <1>2

\* "n m d": what is left is cut where the lines were.
LEMMA DeleteHalves ==
  ASSUME NEW e, Halves(e), NEW args \in Seq(Int)
  PROVE  Halves(DeleteLines(e, args))
<1> DEFINE from  == LineRange(e, args)[1]
           asked == LineRange(e, args)[2]
           to    == IF asked > Len(e.lines) THEN Len(e.lines) ELSE asked
           left  == SubSeq(e.lines, 1, from - 1) \o SubSeq(e.lines, to + 1, Len(e.lines))
           r     == [e EXCEPT !.lines = left, !.curr = from, !.gap = Gap(left, Place(from, left))]
<1>1. PICK S : e.lines \in Seq(S)
  BY BufferIs
<1>2. from \in Int /\ asked \in Int
  <2>1. CASE args = <<>>
    BY <2>1 DEF LineRange, Halves
  <2>2. CASE args # <<>> /\ Len(args) = 1
    BY <2>2 DEF LineRange
  <2>3. CASE args # <<>> /\ Len(args) # 1
    <3> DEFINE n == Len(args)
    <3>1. n \in Nat /\ n # 0 /\ n # 1
      BY <2>3, EmptySeq
    <3> HIDE DEF n
    <3>2. 1 \in 1 .. n /\ 2 \in 1 .. n
      BY <3>1
    <3>3. args[1] \in Int /\ args[2] \in Int
      BY <3>2, ElementOfSeq DEF n
    <3> QED BY <2>3, <3>3 DEF LineRange
  <2> QED BY <2>1, <2>2, <2>3
<1> HIDE DEF from, asked
<1>3. CASE from > asked \/ from < 1 \/ from > Len(e.lines)
  BY <1>3 DEF DeleteLines, from, asked
<1>4. CASE ~(from > asked \/ from < 1 \/ from > Len(e.lines))
  <2>1. from \in 1 .. Len(e.lines) /\ to \in from .. Len(e.lines)
    BY <1>1, <1>2, <1>4
  <2>2. \A i \in 1 .. Len(e.lines) : e.lines[i] \in S
    BY <1>1
  <2> HIDE DEF to
  <2>3. SubSeq(e.lines, 1, from - 1) \in Seq(S)
    <3>1. 1 \in Int /\ from - 1 \in Int /\ \A i \in 1 .. from - 1 : e.lines[i] \in S
      BY <1>1, <2>1, <2>2
    <3> QED BY <3>1, SubSeqProperties
  <2>4. SubSeq(e.lines, to + 1, Len(e.lines)) \in Seq(S)
    <3>1. to + 1 \in Int /\ Len(e.lines) \in Int /\ \A i \in to + 1 .. Len(e.lines) : e.lines[i] \in S
      BY <1>1, <2>1, <2>2
    <3> QED BY <3>1, SubSeqProperties
  <2>5. left \in Seq(S)
    BY <2>3, <2>4, ConcatProperties
  <2> HIDE DEF left
  <2>6. /\ DOMAIN r = DOMAIN e /\ r.lines = left /\ r.curr = from
        /\ r.gap = Gap(left, Place(from, left))
    BY DEF Halves
  <2>7. DeleteLines(e, args) = r
    BY <1>4, Zenon DEF DeleteLines, from, asked, to, left
  <2> HIDE DEF r
  <2>8. Halves(r)
    BY <1>2, <2>5, <2>6, HalvesOf DEF Halves
  <2> QED BY <2>7, <2>8
<1> QED BY <1>3, <1>4

\* What is typed goes where the insertion point is.
LEMMA InsertHalves ==
  ASSUME NEW e, Halves(e), NEW text
  PROVE  Halves(InsertLine(e, text))
<1> DEFINE b == e.gap.before
           a == e.gap.after
           l == e.lines
           r == InsertLine(e, text)
           n == Len(l)
<1>1. PICK S0 : b \in Seq(S0) /\ a \in Seq(S0) /\ l \in Seq(S0)
  BY BufferIs
<1> DEFINE S == S0 \cup {text}
<1>2. /\ b \in Seq(S) /\ a \in Seq(S) /\ l \in Seq(S) /\ text \in S /\ <<text>> \in Seq(S)
      /\ Len(<<text>>) = 1 /\ <<text>>[1] = text
  BY <1>1
<1>3. /\ e.curr \in Int /\ l = b \o a /\ Place(e.curr, l) = Len(b)
      /\ Len(b) \in Nat /\ Len(a) \in Nat /\ n = Len(b) + Len(a)
  BY <1>2, ConcatProperties DEF Halves
<1>4. /\ Append(b, text) \in Seq(S) /\ Len(Append(b, text)) = Len(b) + 1
      /\ Append(b, text) = b \o <<text>>
  BY <1>2, AppendProperties, AppendIsConcat, SMTT(40)
<1>5. /\ DOMAIN r = DOMAIN e /\ DOMAIN r.gap = {"before", "after"}
      /\ r.gap.before = Append(b, text) /\ r.gap.after = a
  BY DEF InsertLine, Halves
<1> DEFINE K == CASE e.lines = <<>> -> [e EXCEPT !.lines = <<text>>, !.curr = 2]
                  [] e.lines # <<>> /\ e.curr = 0 -> [e EXCEPT !.lines = <<text>> \o @, !.curr = 1]
                  [] e.lines # <<>> /\ (e.curr < 0 \/ e.curr - 1 >= Len(e.lines)) ->
                       [e EXCEPT !.lines = Append(@, text), !.curr = Len(e.lines) + 2]
                  [] OTHER -> [e EXCEPT !.lines = InsertAt(@, e.curr + 1, text), !.curr = @ + 1]
<1>18. r = [K EXCEPT !.gap.before = Append(@, text)]
  BY DEF InsertLine
<1>19. l = <<>> => K = [e EXCEPT !.lines = <<text>>, !.curr = 2]
  OBVIOUS
<1>20. l # <<>> /\ e.curr = 0 => K = [e EXCEPT !.lines = <<text>> \o @, !.curr = 1]
  <2> SUFFICES ASSUME l # <<>>, e.curr = 0 PROVE K = [e EXCEPT !.lines = <<text>> \o @, !.curr = 1]
    OBVIOUS
  <2>1. n \in Nat
    BY <1>2, LenProperties
  <2> HIDE DEF n
  <2>2. ~(0 < 0 \/ 0 - 1 >= n)
    BY <2>1
  <2>3. ~(e.curr < 0 \/ e.curr - 1 >= Len(e.lines))
    BY <2>2 DEF n
  <2> QED BY <2>3
<1>21. l # <<>> /\ e.curr # 0 /\ (e.curr < 0 \/ e.curr - 1 >= n)
         => K = [e EXCEPT !.lines = Append(@, text), !.curr = Len(e.lines) + 2]
  OBVIOUS
<1>22. l # <<>> /\ e.curr # 0 /\ ~(e.curr < 0 \/ e.curr - 1 >= n)
         => K = [e EXCEPT !.lines = InsertAt(@, e.curr + 1, text), !.curr = @ + 1]
  OBVIOUS
<1> HIDE DEF K
<1>23. DOMAIN K = DOMAIN e => r.lines = K.lines /\ r.curr = K.curr
  BY <1>18 DEF Halves
<1>14. /\ l = <<>> => r.lines = <<text>> /\ r.curr = 2
       /\ l # <<>> /\ e.curr = 0 => r.lines = <<text>> \o l /\ r.curr = 1
       /\ l # <<>> /\ e.curr # 0 /\ (e.curr < 0 \/ e.curr - 1 >= n)
            => r.lines = Append(l, text) /\ r.curr = n + 2
       /\ l # <<>> /\ e.curr # 0 /\ ~(e.curr < 0 \/ e.curr - 1 >= n)
            => r.lines = InsertAt(l, e.curr + 1, text) /\ r.curr = e.curr + 1
  BY <1>19, <1>20, <1>21, <1>22, <1>23 DEF Halves
<1>15. Place(e.curr, l) = IF e.curr < 0 \/ e.curr > n THEN n ELSE e.curr
  BY DEF Place
<1> DEFINE joined == Append(b, text) \o a
<1>16. \A x : Place(x, joined) = IF x < 0 \/ x > Len(joined) THEN Len(joined) ELSE x
  BY DEF Place
<1>17. n = Len(l)
  OBVIOUS
<1> DEFINE one == <<text>>
<1> HIDE DEF b, a, l, r, n, S
<1>6. joined = b \o (<<text>> \o a) /\ joined = (b \o <<text>>) \o a
  <2>1. b \in Seq(S) /\ a \in Seq(S) /\ one \in Seq(S) /\ Append(b, text) = b \o one
    BY <1>2, <1>4
  <2> HIDE DEF one
  <2>2. (b \o one) \o a = b \o (one \o a)
    BY <2>1, ConcatAssociative
  <2> QED BY <2>1, <2>2 DEF one
<1>7. joined \in Seq(S) /\ Len(joined) = n + 1
  BY <1>2, <1>3, <1>4, ConcatProperties
<1>8. l = <<>> => n = 0
  BY <1>2, <1>17, EmptySeq
<1>9. n = 0 => l = <<>> /\ b = <<>> /\ a = <<>>
  BY <1>2, <1>3, EmptySeq
<1> SUFFICES r.curr \in Int /\ r.lines = joined /\ Place(r.curr, joined) = Len(b) + 1
  <2> HIDE DEF joined
  <2>1. ASSUME r.curr \in Int /\ r.lines = joined /\ Place(r.curr, joined) = Len(b) + 1
        PROVE  Halves(r)
    <3>1. joined = r.gap.before \o r.gap.after
      BY <1>5 DEF joined
    <3>2. r.gap.before \in Seq(S) /\ r.gap.after \in Seq(S) /\ Len(r.gap.before) = Len(b) + 1
      BY <1>2, <1>4, <1>5
    <3> QED BY <1>5, <2>1, <3>1, <3>2 DEF Halves
  <2> QED BY <2>1 DEF r
<1>10. CASE l = <<>>
  <2>1. r.lines = <<text>> /\ r.curr = 2
    BY <1>10, <1>14
  <2>2. b = <<>> /\ a = <<>>
    BY <1>8, <1>9, <1>10
  <2>3. joined = <<text>>
    BY <1>2, <1>6, <2>2, ConcatEmptySeq
  <2> QED BY <1>2, <2>1, <2>2, <2>3 DEF Place
<1>11. CASE l # <<>> /\ e.curr = 0
  <2>1. r.lines = <<text>> \o l /\ r.curr = 1
    BY <1>11, <1>14
  <2>2. Len(b) = 0
    BY <1>2, <1>3, <1>11 DEF Place
  <2>3. b = <<>>
    BY <1>2, <2>2, EmptySeq
  <2>4. l = a /\ joined = <<text>> \o a
    <3>1. <<text>> \o a \in Seq(S)
      BY <1>2, ConcatProperties
    <3> QED BY <1>2, <1>3, <1>6, <2>3, <3>1, ConcatEmptySeq
  <2>5. Place(1, joined) = 1
    BY <1>3, <1>7, <2>2 DEF Place
  <2> QED BY <2>1, <2>2, <2>4, <2>5
<1>12. CASE l # <<>> /\ e.curr # 0 /\ (e.curr < 0 \/ e.curr - 1 >= n)
  <2>1. r.lines = Append(l, text) /\ r.curr = n + 2
    BY <1>12, <1>14
  <2>2. Len(b) = n /\ Len(a) = 0
    BY <1>2, <1>3, <1>12 DEF Place
  <2>3. a = <<>>
    BY <1>2, <2>2, EmptySeq
  <2>4. l = b /\ joined = Append(b, text)
    BY <1>2, <1>3, <1>4, <2>3, ConcatEmptySeq
  <2>5. Place(n + 2, joined) = n + 1
    BY <1>3, <1>7 DEF Place
  <2> QED BY <1>3, <2>1, <2>2, <2>4, <2>5
<1>13. CASE l # <<>> /\ e.curr # 0 /\ ~(e.curr < 0 \/ e.curr - 1 >= n)
  <2>1. r.lines = InsertAt(l, e.curr + 1, text) /\ r.curr = e.curr + 1
    BY <1>13, <1>14
  <2>2. e.curr \in 1 .. n /\ Len(b) = e.curr
    BY <1>2, <1>3, <1>13 DEF Place
  <2>3. r.lines = SubSeq(l, 1, e.curr) \o <<text>> \o SubSeq(l, e.curr + 1, n)
    <3>1. (e.curr + 1) - 1 = e.curr
      BY <2>2
    <3> QED BY <1>17, <2>1, <3>1, Zenon DEF InsertAt
  <2>4. SubSeq(l, 1, e.curr) = b
    <3>1. 1 \in 1 .. Len(b) /\ e.curr \in 1 .. Len(b) /\ b \in Seq(S) /\ a \in Seq(S)
      BY <1>2, <2>2
    <3>2. SubSeq(b \o a, 1, e.curr) = SubSeq(b, 1, e.curr)
      BY <3>1, SubSeqOfConcat1
    <3> QED BY <1>2, <1>3, <2>2, <3>2, SubSeqFull
  <2>5. SubSeq(l, e.curr + 1, n) = a
    <3>1. CASE Len(a) = 0
      <4>1. SubSeq(l, e.curr + 1, n) = <<>>
        <5>1. e.curr + 1 \in Int /\ n \in Int /\ n < e.curr + 1
          BY <1>3, <2>2, <3>1
        <5> QED BY <5>1, SubSeqEmpty
      <4> QED BY <1>2, <3>1, <4>1, EmptySeq
    <3>2. CASE Len(a) # 0
      <4>1. /\ e.curr + 1 \in Len(b) + 1 .. Len(b) + Len(a) /\ n \in Len(b) + 1 .. Len(b) + Len(a)
            /\ b \in Seq(S) /\ a \in Seq(S)
        BY <1>2, <1>3, <2>2, <3>2
      <4>2. SubSeq(b \o a, e.curr + 1, n) = SubSeq(a, (e.curr + 1) - Len(b), n - Len(b))
        BY <4>1, SubSeqOfConcat2
      <4>3. (e.curr + 1) - Len(b) = 1 /\ n - Len(b) = Len(a)
        BY <1>3, <2>2
      <4> QED BY <1>2, <1>3, <4>2, <4>3, SubSeqFull
    <3> QED BY <3>1, <3>2
  <2>6. Place(e.curr + 1, joined) = e.curr + 1
    BY <1>3, <1>7, <2>2 DEF Place
  <2>7. r.lines = (b \o <<text>>) \o a
    BY <2>3, <2>4, <2>5
  <2>8. r.lines = joined
    BY <1>6, <2>7, Zenon
  <2> QED BY <1>3, <2>1, <2>2, <2>6, <2>8, SMTT(40)
<1> QED BY <1>10, <1>11, <1>12, <1>13


-------------------------------------------------------------------------------
(* The desk's operations, and the text.                                    *)

\* What a server has loaded.
LEMMA LoadedText ==
  ASSUME NEW owner, NEW source, \A p \in Programs : IsList(source[p])
  PROVE  SoundText(Loaded(owner, source))
<1>1. DOMAIN Loaded(owner, source).session = {}
  BY DEF Loaded
<1>2. \A p \in Programs : /\ Loaded(owner, source).prog[p].source = source[p]
                         /\ Loaded(owner, source).prog[p].line = 0
  BY DEF Loaded
<1> QED BY <1>1, <1>2 DEF SoundText

\* A change to one program which leaves the sessions alone.
LEMMA ProgramText ==
  ASSUME NEW d, SoundText(d), NEW e, NEW p, e.session = d.session,
         \A q \in Programs \ {p} : e.prog[q] = d.prog[q],
         p \in Programs => IsList(e.prog[p].source) /\ e.prog[p].line \in Int
  PROVE  SoundText(e)
<1>1. ASSUME NEW q \in Programs PROVE IsList(e.prog[q].source) /\ e.prog[q].line \in Int
  <2>1. CASE q = p
    BY <2>1
  <2>2. CASE q # p
    BY <2>2 DEF SoundText
  <2> QED BY <2>1, <2>2
<1> QED BY <1>1 DEF SoundText

\* Opening the editor: the insertion point is where the program's last editor was.
LEMMA OpenText ==
  ASSUME NEW d, SoundDesk(d), SoundText(d), NEW who, NEW p
  PROVE  SoundText(OpenEditor(d, who, p))
<1> DEFINE e == OpenEditor(d, who, p)
           s == NewSession(d, p)
<1>1. CASE ~MayEdit(d, who, p) \/ d.prog[p].internal
  BY <1>1 DEF OpenEditor
<1>2. CASE MayEdit(d, who, p) /\ ~d.prog[p].internal
  <2>0. p \in Programs
    BY <1>2 DEF MayEdit, Live
  <2>1. /\ e.session = [x \in DOMAIN d.session \cup {who} |-> IF x = who THEN s ELSE d.session[x]]
        /\ e.prog = [d.prog EXCEPT ![p].internal = TRUE]
    BY <1>2 DEF OpenEditor, SoundDesk, DeskShape
  <2>2. \A q \in Programs : e.prog[q].source = d.prog[q].source /\ e.prog[q].line = d.prog[q].line
    BY <2>1 DEF SoundDesk, DeskShape
  <2>3. Halves(s)
    <3>1. /\ DOMAIN s = {"program", "lines", "curr", "insert", "gap"}
          /\ s.lines = d.prog[p].source /\ s.curr = d.prog[p].line
          /\ s.gap = Gap(d.prog[p].source, Place(d.prog[p].line, d.prog[p].source))
      BY DEF NewSession
    <3> HIDE DEF s
    <3>2. s.lines \in Seq(Range(s.lines)) /\ s.curr \in Int /\ s.gap = Gap(s.lines, Place(s.curr, s.lines))
      BY <2>0, <3>1 DEF SoundText, IsList
    <3> QED BY <3>1, <3>2, HalvesOf
  <2> HIDE DEF e, s
  <2>4. \A x \in DOMAIN e.session : Halves(e.session[x])
    BY <2>1, <2>3 DEF SoundText
  <2>5. SoundText(e)
    BY <2>2, <2>4 DEF SoundText
  <2> QED BY <2>5 DEF e
<1> QED BY <1>1, <1>2

\* Dropping a cached compile, and storing another source.
LEMMA StoreText ==
  ASSUME NEW d, SoundDesk(d), SoundText(d), NEW p
  PROVE  /\ SoundText(Invalidate(d, p))
         /\ \A lines : IsList(lines) => /\ SoundText(SaveSource(d, p, lines))
                                        /\ SoundText(Invalidate(SaveSource(d, p, lines), p))
<1>1. ASSUME NEW e, DeskShape(e), SoundText(e) PROVE SoundText(Invalidate(e, p))
  <2> DEFINE f == Invalidate(e, p)
  <2>1. /\ f.session = e.session
        /\ \A q \in Programs \ {p} : f.prog[q] = e.prog[q]
        /\ p \in Programs => f.prog[p].source = e.prog[p].source /\ f.prog[p].line = e.prog[p].line
    BY <1>1 DEF Invalidate, DeskShape
  <2> HIDE DEF f
  <2>2. p \in Programs => IsList(e.prog[p].source) /\ e.prog[p].line \in Int
    BY <1>1 DEF SoundText
  <2>3. SoundText(f)
    BY <1>1, <2>1, <2>2, ProgramText
  <2> QED BY <2>3 DEF f
<1>2. ASSUME NEW lines, IsList(lines)
      PROVE  DeskShape(SaveSource(d, p, lines)) /\ SoundText(SaveSource(d, p, lines))
  <2> DEFINE f == SaveSource(d, p, lines)
  <2>1. /\ DOMAIN f = DOMAIN d /\ f.session = d.session
        /\ DOMAIN f.prog = Programs
        /\ \A q \in Programs \ {p} : f.prog[q] = d.prog[q]
        /\ p \in Programs => /\ f.prog[p].source = lines /\ f.prog[p].line = d.prog[p].line
                             /\ DOMAIN f.prog[p] = DOMAIN d.prog[p]
    BY DEF SaveSource, SoundDesk, DeskShape
  <2> HIDE DEF f
  <2>2. p \in Programs => d.prog[p].line \in Int
    BY DEF SoundText
  <2>3. SoundText(f)
    BY <1>2, <2>1, <2>2, ProgramText
  <2>4. \A q \in Programs : DOMAIN f.prog[q] = DOMAIN d.prog[q]
    <3> SUFFICES ASSUME NEW q \in Programs PROVE DOMAIN f.prog[q] = DOMAIN d.prog[q]
      OBVIOUS
    <3> QED BY <2>1
  <2>5. DeskShape(f)
    BY <2>1, <2>4 DEF SoundDesk, DeskShape
  <2> QED BY <2>3, <2>5 DEF f
<1> QED BY <1>1, <1>2 DEF SoundDesk

\* Leaving the editor: the program's line is where the session was.
LEMMA CloseText ==
  ASSUME NEW d, SoundDesk(d), SoundText(d), NEW who \in DOMAIN d.session
  PROVE  SoundText(CloseEditor(d, who))
<1> DEFINE e == CloseEditor(d, who)
           p == d.session[who].program
           curr == d.session[who].curr
<1>1. /\ e.session = Restrict(d.session, DOMAIN d.session \ {who})
      /\ e.prog = [[d.prog EXCEPT ![p].line = curr] EXCEPT ![p].internal = FALSE]
  BY DEF CloseEditor, SoundDesk, DeskShape
<1>2. \A q \in Programs : /\ e.prog[q].source = d.prog[q].source
                         /\ e.prog[q].line = IF q = p THEN curr ELSE d.prog[q].line
  BY <1>1 DEF SoundDesk, DeskShape
<1>3. \A x \in DOMAIN e.session : x \in DOMAIN d.session /\ e.session[x] = d.session[x]
  BY <1>1, Zenon DEF Restrict
<1>4. curr \in Int
  BY DEF SoundText, Halves
<1> HIDE DEF e, p, curr
<1>5. SoundText(e)
  BY <1>2, <1>3, <1>4 DEF SoundText
<1> QED BY <1>5 DEF e

\* Recycling: whoever was in the editor is put out of it.
LEMMA RecycleText ==
  ASSUME NEW d, SoundDesk(d), SoundText(d), NEW who, NEW p
  PROVE  SoundText(RecycleCommand(d, who, p))
<1> DEFINE out == {x \in DOMAIN d.session : d.session[x].program = p}
           one == CHOOSE x \in out : TRUE
           curr == d.session[one].curr
           v == EvictEditors(d, p)
           e == Recycled(v, p)
<1>1. out # {} => curr \in Int
  BY DEF SoundText, Halves
<1>2. /\ DOMAIN v = DOMAIN d /\ DOMAIN v.prog = Programs
      /\ \A q \in Programs : /\ v.prog[q].source = d.prog[q].source
                             /\ DOMAIN v.prog[q] = DOMAIN d.prog[q]
                             /\ v.prog[q].line = d.prog[q].line \/ (out # {} /\ v.prog[q].line = curr)
      /\ \A x \in DOMAIN v.session : x \in DOMAIN d.session /\ v.session[x] = d.session[x]
  <2>1. CASE out = {}
    BY <2>1 DEF EvictEditors, SoundDesk, DeskShape
  <2>2. CASE out # {}
    <3>1. /\ DOMAIN v = DOMAIN d
          /\ v.session = Restrict(d.session, DOMAIN d.session \ out)
          /\ v.prog = [[d.prog EXCEPT ![p].line = curr] EXCEPT ![p].internal = FALSE]
      BY <2>2 DEF EvictEditors, SoundDesk, DeskShape
    <3>2. \A x \in DOMAIN v.session : x \in DOMAIN d.session /\ v.session[x] = d.session[x]
      BY <3>1, Zenon DEF Restrict
    <3> HIDE DEF v, curr
    <3>3. /\ DOMAIN v.prog = Programs
          /\ \A q \in Programs : /\ v.prog[q].source = d.prog[q].source
                                 /\ DOMAIN v.prog[q] = DOMAIN d.prog[q]
                                 /\ v.prog[q].line = d.prog[q].line \/ v.prog[q].line = curr
      BY <3>1 DEF SoundDesk, DeskShape
    <3> QED BY <2>2, <3>1, <3>2, <3>3
  <2> QED BY <2>1, <2>2
<1> HIDE DEF v, out, curr
<1>3. /\ e.session = v.session
      /\ \A q \in Programs : e.prog[q].source = v.prog[q].source /\ e.prog[q].line = v.prog[q].line
  BY <1>2 DEF Recycled, SoundDesk, DeskShape
<1> HIDE DEF e
<1>4. SoundText(e)
  BY <1>1, <1>2, <1>3 DEF SoundText
<1>5. SoundText(Recycled(EvictEditors(d, p), p))
  BY <1>4 DEF e, v
<1> QED BY <1>5 DEF RecycleCommand


\* A program that compiles, or begins.
LEMMA CompileText ==
  ASSUME NEW d, SoundDesk(d), SoundText(d), NEW p
  PROVE  SoundText(CompileProgram(d, p)) /\ \A who : SoundText(CreateProgram(d, who, p))
<1>1. SoundText(CompileProgram(d, p))
  <2> DEFINE e == [d EXCEPT !.prog[p].cache = <<d.prog[p].source>>]
  <2>1. /\ e.session = d.session
        /\ \A q \in Programs \ {p} : e.prog[q] = d.prog[q]
        /\ p \in Programs => e.prog[p].source = d.prog[p].source /\ e.prog[p].line = d.prog[p].line
    BY DEF SoundDesk, DeskShape
  <2> HIDE DEF e
  <2>2. p \in Programs => IsList(d.prog[p].source) /\ d.prog[p].line \in Int
    BY DEF SoundText
  <2>3. SoundText(e)
    BY <2>1, <2>2, ProgramText
  <2> QED BY <2>3 DEF CompileProgram, e
<1>2. ASSUME NEW who PROVE SoundText(CreateProgram(d, who, p))
  <2> DEFINE e == [d EXCEPT !.prog[p].owner = who, !.prog[p].source = <<>>,
                            !.inherited = IF d.prog[p].cache # <<>> THEN @ \cup {p} ELSE @]
  <2>1. /\ e.session = d.session
        /\ \A q \in Programs \ {p} : e.prog[q] = d.prog[q]
        /\ p \in Programs => e.prog[p].source = <<>> /\ e.prog[p].line = d.prog[p].line
    BY DEF SoundDesk, DeskShape
  <2> HIDE DEF e
  <2>2. IsList(<<>>) /\ (p \in Programs => d.prog[p].line \in Int)
    BY ListIs DEF SoundText
  <2>3. SoundText(e)
    BY <2>1, <2>2, ProgramText, SMTT(40)
  <2> QED BY <2>3 DEF CreateProgram, e
<1> QED BY <1>1, <1>2

\* "c", "q" and "x": a buffer that is saved is a list.
LEMMA LeaveText ==
  ASSUME NEW d, SoundDesk(d), SoundText(d), NEW who \in DOMAIN d.session
  PROVE  /\ SoundText(CompileEdited(d, who))
         /\ \A save : SoundText(LeaveEditor(d, who, save))
<1> DEFINE s == d.session[who]
           p == s.program
<1>0. IsList(s.lines)
  <2>1. Halves(s)
    BY DEF SoundText
  <2> HIDE DEF s
  <2>2. PICK S : s.lines \in Seq(S)
    BY <2>1, BufferIs
  <2> QED BY <2>2, ListIs
<1>1. SoundText(CompileEdited(d, who))
  <2> DEFINE e == [d EXCEPT !.prog[p].cache = <<s.lines>>, !.inherited = @ \ {p}]
  <2>1. /\ e.session = d.session
        /\ \A q \in Programs \ {p} : e.prog[q] = d.prog[q]
        /\ p \in Programs => e.prog[p].source = d.prog[p].source /\ e.prog[p].line = d.prog[p].line
    BY DEF SoundDesk, DeskShape
  <2> HIDE DEF e, p, s
  <2>2. p \in Programs => IsList(d.prog[p].source) /\ d.prog[p].line \in Int
    BY DEF SoundText
  <2>3. SoundText(e)
    BY <2>1, <2>2, ProgramText
  <2> QED BY <2>3 DEF CompileEdited, e, p, s
<1>2. ASSUME NEW save PROVE SoundText(LeaveEditor(d, who, save))
  <2> DEFINE kept == IF save THEN SaveSource(d, p, s.lines) ELSE d
             e == Invalidate(kept, p)
  <2>1. SoundDesk(e)
    BY InvalidateSound, StoreSound
  <2>2. SoundText(e)
    BY <1>0, StoreText
  <2>3. e.session = d.session
    BY DEF Invalidate, SaveSource, SoundDesk, DeskShape
  <2> HIDE DEF e
  <2>4. SoundText(CloseEditor(e, who))
    BY <2>1, <2>2, <2>3, CloseText
  <2> QED BY <2>4 DEF LeaveEditor, e
<1> QED BY <1>1, <1>2

\* A line typed in the editor.
LEMMA EditInputText ==
  ASSUME NEW d, SoundDesk(d), SoundText(d), NEW who \in DOMAIN d.session,
         NEW line, Numbered(line)
  PROVE  SoundText(EditInput(d, who, line))
<1> DEFINE e == d.session[who]
<1>0. Halves(e)
  BY DEF SoundText
<1>1. ASSUME NEW s, Halves(s) PROVE SoundText([d EXCEPT !.session[who] = s])
  <2> DEFINE f == [d EXCEPT !.session[who] = s]
  <2>1. /\ f.prog = d.prog /\ DOMAIN f.session = DOMAIN d.session
        /\ \A x \in DOMAIN d.session : f.session[x] = IF x = who THEN s ELSE d.session[x]
    BY DEF SoundDesk, DeskShape
  <2> HIDE DEF f
  <2>2. SoundText(f)
    BY <1>1, <2>1 DEF SoundText
  <2> QED BY <2>2 DEF f
<1>2. SoundText([d EXCEPT !.session[who].insert = FALSE])
  <2> DEFINE s == [e EXCEPT !.insert = FALSE]
  <2>1. DOMAIN s = DOMAIN e /\ s.lines = e.lines /\ s.curr = e.curr /\ s.gap = e.gap
    BY <1>0 DEF Halves
  <2> HIDE DEF e
  <2>2. Halves(s)
    <3> HIDE DEF s
    <3> QED BY <1>0, <2>1 DEF Halves
  <2>3. SoundText([d EXCEPT !.session[who] = s])
    BY <1>1, <2>2
  <2> QED BY <2>3, SMTT(40) DEF e
<1>3. \A text : SoundText([d EXCEPT !.session[who] = InsertLine(e, text)])
  BY <1>0, <1>1, InsertHalves
<1>4. SoundText(EditCommand(d, who, line))
  <2>1. CASE line.cmd = "i"
    <3>1. Halves(StartInsert(e, line.args))
      BY <1>0, <2>1, StartInsertHalves DEF Numbered
    <3>2. EditCommand(d, who, line) = [d EXCEPT !.session[who] = StartInsert(e, line.args)]
      BY <2>1 DEF EditCommand
    <3> QED BY <1>1, <3>1, <3>2
  <2>2. CASE line.cmd = "d"
    <3>1. Halves(DeleteLines(e, line.args))
      BY <1>0, <2>2, DeleteHalves DEF Numbered
    <3>2. EditCommand(d, who, line) = [d EXCEPT !.session[who] = DeleteLines(e, line.args)]
      BY <2>2 DEF EditCommand
    <3> QED BY <1>1, <3>1, <3>2
  <2>3. CASE line.cmd \notin {"i", "d"}
    BY <2>3, LeaveText DEF EditCommand
  <2> QED BY <2>1, <2>2, <2>3
<1> QED BY <1>2, <1>3, <1>4 DEF EditInput

\* A command about programs.
LEMMA ProgramCommandText ==
  ASSUME NEW d, SoundDesk(d), SoundText(d), NEW who, NEW line
  PROVE  SoundText(ProgramCommand(d, who, line))
<1> DEFINE p == line.args[1]
<1>1. SoundText(OpenEditor(d, who, p))
  BY OpenText
<1>2. SoundText(OpenEditor(CreateProgram(d, who, p), who, p))
  <2>1. SoundDesk(CreateProgram(d, who, p)) /\ SoundText(CreateProgram(d, who, p))
    BY CreateSound, CompileText
  <2> QED BY <2>1, OpenText
<1>3. SoundText(RecycleCommand(d, who, p)) /\ SoundText(CompileProgram(d, p))
  BY RecycleText, CompileText
<1> QED BY <1>1, <1>2, <1>3 DEF ProgramCommand

\* What a client's message or a program stores.
LEMMA SetText ==
  ASSUME NEW d, SoundDesk(d), SoundText(d), NEW who, NEW p, NEW lines, IsList(lines)
  PROVE  SoundText(SaveProgram(d, who, p, lines)) /\ SoundText(SetLines(d, who, p, lines))
BY StoreText DEF SaveProgram, SetLines

-------------------------------------------------------------------------------
(* Messages.  However a message's arguments arrive, on its first line or a  *)
(* line at a time, they are a list of arguments, each with a list of lines. *)

\* The arguments of a message.
SoundArgs(args) == \E N, V : args \in Seq([name : N, lines : Seq(V)])

\* A frame whose unfinished messages have such arguments.
SoundFrame(f) ==
    /\ "partial" \in DOMAIN f
    /\ \A t \in DOMAIN f.partial : "args" \in DOMAIN f.partial[t] /\ SoundArgs(f.partial[t].args)

\* There is a first argument of a name, or there is none.
LEMMA NamedIn ==
  ASSUME NEW args, NEW name, Len(args) \in Nat
  PROVE  Named(args, name) \in 0 .. Len(args)
<1> DEFINE I == {i \in 1 .. Len(args) : args[i].name = name}
<1>1. Named(args, name) = IF I # {} THEN Min(I) ELSE 0
  BY DEF Named, SelectInSeq
<1>2. I \subseteq Nat
  OBVIOUS
<1>3. ASSUME I # {} PROVE Min(I) \in I
  <2>1. PICK x \in I : \A y \in I : ~(<<y, x>> \in OpToRel(<, Nat))
    BY <1>2, <1>3, NatLessThanWellFounded, WFMin
  <2> HIDE DEF I
  <2>3. \A y \in I : ~(y < x)
    BY <1>2, <2>1 DEF OpToRel
  <2>2. \A y \in I : x <= y
    BY <1>2, <2>3
  <2> QED BY <2>2 DEF Min
<1>4. CASE I = {}
  <2>1. Named(args, name) = 0
    BY <1>1, <1>4
  <2> QED BY <2>1
<1>5. CASE I # {}
  <2>1. Named(args, name) \in I
    BY <1>1, <1>3, <1>5
  <2> QED BY <2>1
<1> QED BY <1>4, <1>5

\* One more line of an argument, whether it is its first or another.
LEMMA AppendLineArgs ==
  ASSUME NEW N, NEW V, NEW args \in Seq([name : N, lines : Seq(V)]), NEW name \in N, NEW value \in V
  PROVE  AppendLine(args, name, value) \in Seq([name : N, lines : Seq(V)])
<1> DEFINE A == [name : N, lines : Seq(V)]
           i == Named(args, name)
<1>1. i \in 0 .. Len(args)
  BY NamedIn
<1>2. CASE i = 0
  <2>1. Arg(name, value) \in A
    BY DEF Arg
  <2> HIDE DEF A
  <2>2. Append(args, Arg(name, value)) \in Seq(A)
    BY <2>1 DEF A
  <2> QED BY <1>2, <2>2 DEF AppendLine, A
<1>3. CASE i # 0
  <2> DEFINE more == [args[i] EXCEPT !.lines = Append(@, value)]
  <2> HIDE DEF i
  <2>1. args[i] \in A
    <3>1. i \in 1 .. Len(args) /\ args \in Seq(A)
      BY <1>1, <1>3
    <3> HIDE DEF A
    <3> QED BY <3>1, ElementOfSeq
  <2>2. Append(args[i].lines, value) \in Seq(V)
    BY <2>1
  <2>3. more \in A
    BY <2>1, <2>2
  <2>4. i \in 1 .. Len(args) /\ args \in Seq(A)
    BY <1>1, <1>3
  <2> HIDE DEF A, more
  <2>5. [args EXCEPT ![i] = more] \in Seq(A)
    BY <2>3, <2>4, ExceptSeq
  <2>6. AppendLine(args, name, value) = [args EXCEPT ![i] = more]
    BY <1>3 DEF AppendLine, i, more
  <2> QED BY <2>5, <2>6 DEF A
<1> QED BY <1>2, <1>3

\* What a message's first line begins.
LEMMA StartedArgs ==
  ASSUME NEW reg, NEW line, IsList(line.args)
  PROVE  /\ DOMAIN Started(reg, line) = {"pkg", "name", "args"}
         /\ SoundArgs(Started(reg, line).args)
<1> DEFINE kvs == line.args
           N == {kvs[i].name : i \in 1 .. Len(kvs)}
           V == {kvs[i].value : i \in 1 .. Len(kvs)}
           A == [name : N, lines : Seq(V)]
<1>1. Len(kvs) \in Nat
  BY LenProperties DEF IsList
<1>2. \A i \in 1 .. Len(kvs) : kvs[i].name \in N /\ kvs[i].value \in V
  OBVIOUS
<1> HIDE DEF N, V
<1>3. \A y \in Seq(A), i \in 1 .. Len(kvs) : ReadKeyval(line, y, kvs[i]) \in Seq(A)
  <2> SUFFICES ASSUME NEW y \in Seq(A), NEW i \in 1 .. Len(kvs)
               PROVE  ReadKeyval(line, y, kvs[i]) \in Seq(A)
    OBVIOUS
  <2>1. AppendLine(y, kvs[i].name, kvs[i].value) \in Seq(A)
    BY <1>2, AppendLineArgs
  <2>2. Multiline(kvs[i].name, <<>>) \in A
    BY <1>2 DEF Multiline
  <2> HIDE DEF A
  <2>3. Append(y, Multiline(kvs[i].name, <<>>)) \in Seq(A)
    BY <2>2
  <2> QED BY <2>1, <2>3 DEF ReadKeyval
<1> HIDE DEF A
<1>4. <<>> \in Seq(A)
  OBVIOUS
<1>5. Reading!Over(line, <<>>, kvs) \in Seq(A)
  <2> DEFINE W == Seq(A)
  <2>1. /\ <<>> \in W
        /\ \A y \in W, i \in 1 .. Len(kvs) : ReadKeyval(line, y, kvs[i]) \in W
    BY <1>3, <1>4
  <2> HIDE DEF W, kvs
  <2>2. Reading!Over(line, <<>>, kvs) \in W
    BY <1>1, <2>1, Reading!Keeps
  <2> QED BY <2>2 DEF W
<1>6. Started(reg, line).args \in Seq(A)
  BY <1>5 DEF Started, Message
<1> QED BY <1>6 DEF SoundArgs, A, Started, Message

\* An argument is dropped.
LEMMA RemoveArgs ==
  ASSUME NEW args, SoundArgs(args), NEW name
  PROVE  SoundArgs(RemoveArg(args, name))
<1>1. PICK N, V : args \in Seq([name : N, lines : Seq(V)])
  BY DEF SoundArgs
<1> DEFINE A == [name : N, lines : Seq(V)]
           W == Seq(A)
<1>2. args \in Seq(A)
  BY <1>1
<1> HIDE DEF A
<1>3. Len(args) \in Nat /\ <<>> \in W
  BY <1>2
<1>4. \A y \in W, i \in 1 .. Len(args) : Left(name, y, args[i]) \in W
  BY <1>2 DEF Left
<1> HIDE DEF W
<1>5. Removing!Over(name, <<>>, args) \in W
  BY <1>3, <1>4, Removing!Keeps
<1> QED BY <1>5 DEF RemoveArg, SoundArgs, W, A

\* The lines of an argument.
LEMMA LinesInList ==
  ASSUME NEW msg, SoundArgs(msg.args), NEW name
  PROVE  IsList(LinesIn(msg, name))
<1>1. PICK N, V : msg.args \in Seq([name : N, lines : Seq(V)])
  BY DEF SoundArgs
<1> DEFINE i == Named(msg.args, name)
           A == [name : N, lines : Seq(V)]
<1>2. i \in 0 .. Len(msg.args)
  BY <1>1, NamedIn
<1> HIDE DEF i
<1>3. i # 0 => msg.args[i].lines \in Seq(V)
  <2> SUFFICES ASSUME i # 0 PROVE msg.args[i].lines \in Seq(V)
    OBVIOUS
  <2>1. msg.args[i] \in A
    <3>1. i \in 1 .. Len(msg.args) /\ msg.args \in Seq(A)
      BY <1>1, <1>2
    <3> HIDE DEF A
    <3> QED BY <3>1, ElementOfSeq
  <2> QED BY <2>1
<1>4. LinesIn(msg, name) = IF i = 0 THEN <<>> ELSE msg.args[i].lines
  BY DEF LinesIn, i
<1>5. LinesIn(msg, name) \in Seq(V)
  BY <1>3, <1>4
<1> QED BY <1>5, ListIs

\* What is sent leaves the messages still arriving alone.
LEMMA SendFrame ==
  ASSUME NEW f, SoundFrame(f), NEW msg, NEW tag
  PROVE  SoundFrame(SendMessage(f, msg, tag))
BY DEF SendMessage, SoundFrame

\* So does whatever the client's opening message settles.
LEMMA HandleInitFrame ==
  ASSUME NEW f, SoundFrame(f), NEW reg, Len(reg) \in Nat, NEW msg, NEW new
  PROVE  SoundFrame(HandleInit(f, reg, msg, new))
<1> DEFINE given == HasArg(msg, "authentication-key")
           keyed == [f EXCEPT !.key = IF given THEN ArgOf(msg, "authentication-key") ELSE new]
           told == IF given THEN keyed
                   ELSE SendMessage(keyed, InitMessage(<<Arg("authentication-key", new)>>), "")
           range == Range2(msg, "version", "to")
           own == VersionOf[ServerVersion]
           settled == IF range = <<>> THEN told
                      ELSE [told EXCEPT !.version = SelectVersion(own, own, range[1], range[2])]
           on == [settled EXCEPT !.enabled = TRUE]
           last == Reverse(reg)
           left == Offering!Over(reg, on, last)
<1>1. SoundFrame(keyed)
  BY DEF SoundFrame
<1> HIDE DEF keyed
<1>2. SoundFrame(told)
  BY <1>1, SendFrame
<1> HIDE DEF told
<1>3. SoundFrame(settled)
  BY <1>2 DEF SoundFrame
<1> HIDE DEF settled
<1>4. SoundFrame(on)
  BY <1>3 DEF SoundFrame
<1> HIDE DEF on
<1>5. Len(last) \in Nat
  <2>1. DOMAIN last = 1 .. Len(reg)
    BY DEF Reverse
  <2> HIDE DEF last
  <2> QED BY <2>1, LenProperties
<1> HIDE DEF last
<1>6. \A g, p : SoundFrame(g) => SoundFrame(Offer(reg, g, p))
  BY SendFrame DEF Offer
<1>7. SoundFrame(left)
  <2>1. PICK h : Offering!After(h, reg, on, last)
    BY <1>5, Offering!Unfolds
  <2>2. /\ h[0] = on
        /\ \A i \in 1 .. Len(last) : h[i] = Offer(reg, h[i - 1], last[i])
        /\ left = h[Len(last)]
    BY <2>1 DEF Offering!After
  <2> DEFINE T == {i \in Nat : i <= Len(last) => SoundFrame(h[i])}
  <2>3. 0 \in T
    BY <1>4, <2>2
  <2>4. ASSUME NEW i \in Nat, i \in T PROVE i + 1 \in T
    <3>1. CASE i + 1 <= Len(last)
      <4>1. i + 1 \in 1 .. Len(last) /\ SoundFrame(h[i]) /\ (i + 1) - 1 = i
        BY <1>5, <2>4, <3>1
      <4>2. h[i + 1] = Offer(reg, h[i], last[i + 1])
        BY <2>2, <4>1
      <4> QED BY <1>6, <4>1, <4>2
    <3> QED BY <3>1
  <2>5. Len(last) \in T
    <3> HIDE DEF T
    <3> QED BY <1>5, <2>3, <2>4, Offering!Numbers
  <2> QED BY <1>5, <2>2, <2>5
<1> HIDE DEF left
<1>8. \A m : SoundFrame(SendMessage(left, m, ""))
  BY <1>7, SendFrame
<1> QED BY <1>3, <1>8, Zenon DEF HandleInit, left, on, last, settled, told, keyed

\* And a package agreed on.
LEMMA NegotiateFrame ==
  ASSUME NEW f, SoundFrame(f), NEW reg, NEW msg
  PROVE  SoundFrame(NegotiateHandler(f, reg, msg))
BY DEF NegotiateHandler, SoundFrame

\* Arguments that are of some names and values are of more of them.
LEMMA MoreArgs ==
  ASSUME NEW N, NEW V, NEW M, NEW W, N \subseteq M, V \subseteq W,
         NEW args \in Seq([name : N, lines : Seq(V)])
  PROVE  args \in Seq([name : M, lines : Seq(W)])
<1> DEFINE A == [name : N, lines : Seq(V)]
           B == [name : M, lines : Seq(W)]
<1>1. A \subseteq B
  OBVIOUS
<1>2. args \in Seq(A)
  OBVIOUS
<1> HIDE DEF A, B
<1>3. args \in Seq(B)
  BY <1>1, <1>2
<1> QED BY <1>3 DEF B

\* One more line of a message that is still arriving.
LEMMA ArrivingArgs ==
  ASSUME NEW args, SoundArgs(args), NEW name, NEW value
  PROVE  SoundArgs(AppendLine(args, name, value))
<1>1. PICK N, V : args \in Seq([name : N, lines : Seq(V)])
  BY DEF SoundArgs
<1> DEFINE M == N \cup {name}
           W == V \cup {value}
<1>2. N \subseteq M /\ V \subseteq W /\ name \in M /\ value \in W
  OBVIOUS
<1> HIDE DEF M, W
<1>3. args \in Seq([name : M, lines : Seq(W)])
  BY <1>1, <1>2, MoreArgs
<1>4. AppendLine(args, name, value) \in Seq([name : M, lines : Seq(W)])
  BY <1>2, <1>3, AppendLineArgs
<1> QED BY <1>4 DEF SoundArgs

\* A frame that has read a line, and the message the line completes.
LEMMA ReadFrame ==
  ASSUME NEW f, SoundFrame(f), NEW reg, NEW line, Sendable(line)
  PROVE  /\ SoundFrame(ReadLine(f, reg, line))
         /\ Completed(f, reg, line) # <<>> => SoundArgs(Completed(f, reg, line)[1].args)
         /\ Passed(f, reg, line) # <<>> => Typed(Passed(f, reg, line)[1])
<1>1. CASE ~Understood(f, reg, line)
  <2>1. ReadLine(f, reg, line) = f /\ Completed(f, reg, line) = <<>>
    BY <1>1 DEF ReadLine, Completed
  <2>2. Passed(f, reg, line) \in {<<line>>} \cup (IF line.kind = "quoted" THEN {<<line.line>>} ELSE {})
    BY <1>1 DEF Passed
  <2>3. Typed(Passed(f, reg, line)[1])
    BY <2>2 DEF Sendable
  <2> QED BY <2>1, <2>3
<1>2. CASE Understood(f, reg, line)
  <2>0. Passed(f, reg, line) = <<>>
    BY <1>2 DEF Passed
  <2>1. \A t \in DOMAIN f.partial : "args" \in DOMAIN f.partial[t] /\ SoundArgs(f.partial[t].args)
    BY DEF SoundFrame
  <2>2. CASE line.kind = "continuation"
    <3> DEFINE tag == line.tag
               args == AppendLine(f.partial[tag].args, line.arg, line.value)
               msg == [f.partial[tag] EXCEPT !.args = args]
    <3>1. tag \in DOMAIN f.partial
      BY <1>2, <2>2 DEF Understood
    <3>2. SoundArgs(args)
      BY <2>1, <3>1, ArrivingArgs
    <3>3. ReadLine(f, reg, line) = [f EXCEPT !.partial = [@ EXCEPT ![tag] = msg]]
      BY <1>2, <2>2 DEF ReadLine
    <3> HIDE DEF args, tag
    <3>4. "args" \in DOMAIN msg /\ msg.args = args
      BY <2>1, <3>1
    <3> HIDE DEF msg
    <3>5. SoundFrame([f EXCEPT !.partial = [@ EXCEPT ![tag] = msg]])
      BY <2>1, <3>1, <3>2, <3>4 DEF SoundFrame
    <3>6. Completed(f, reg, line) = <<>>
      BY <1>2, <2>2 DEF Completed
    <3> QED BY <2>0, <3>3, <3>5, <3>6
  <2>3. CASE line.kind = "end"
    <3>1. line.tag \in DOMAIN f.partial
      BY <1>2, <2>3 DEF Understood
    <3>2. Completed(f, reg, line) = <<f.partial[line.tag]>>
      BY <1>2, <2>3 DEF Completed
    <3>3. ReadLine(f, reg, line) = [f EXCEPT !.partial = Restrict(@, DOMAIN @ \ {line.tag})]
      BY <1>2, <2>3 DEF ReadLine
    <3>4. SoundFrame([f EXCEPT !.partial = Restrict(@, DOMAIN @ \ {line.tag})])
      BY <2>1 DEF SoundFrame, Restrict
    <3> QED BY <2>0, <2>1, <3>1, <3>2, <3>3, <3>4
  <2>4. CASE line.kind \notin {"continuation", "end"}
    <3>1. line.kind = "start" /\ IsList(line.args)
      BY <1>2, <2>4 DEF Understood, Sendable
    <3> DEFINE msg == Started(reg, line)
    <3>2. DOMAIN msg = {"pkg", "name", "args"} /\ SoundArgs(msg.args)
      BY <3>1, StartedArgs
    <3> HIDE DEF msg
    <3>3. CASE Incomplete(line)
      <4> DEFINE tag == TagOf(reg, line)
                 kept == [msg EXCEPT !.args = RemoveArg(@, DataTag)]
      <4>1. ReadLine(f, reg, line) =
              [f EXCEPT !.partial = [t \in DOMAIN @ \cup {tag} |-> IF t = tag THEN kept ELSE @[t]]]
        BY <1>2, <3>1, <3>3 DEF ReadLine, Keep, msg
      <4>2. "args" \in DOMAIN kept /\ SoundArgs(kept.args)
        BY <3>2, RemoveArgs
      <4> HIDE DEF tag, kept
      <4>3. SoundFrame([f EXCEPT !.partial = [t \in DOMAIN @ \cup {tag} |->
                                                IF t = tag THEN kept ELSE @[t]]])
        BY <2>1, <4>2 DEF SoundFrame
      <4>4. Completed(f, reg, line) = <<>>
        BY <1>2, <3>1, <3>3 DEF Completed
      <4> QED BY <2>0, <4>1, <4>3, <4>4
    <3>4. CASE ~Incomplete(line)
      <4>1. ReadLine(f, reg, line) = f
        BY <1>2, <3>1, <3>4 DEF ReadLine
      <4>2. Completed(f, reg, line) = <<msg>>
        BY <1>2, <3>1, <3>4 DEF Completed, msg
      <4> QED BY <2>0, <3>2, <4>1, <4>2
    <3> QED BY <3>3, <3>4
  <2> QED BY <2>2, <2>3, <2>4
<1> QED BY <1>1, <1>2

-------------------------------------------------------------------------------
(* Handlers, again.  What they leave on the desk is text, whatever they are *)
(* given is lists of lines and, after "i" and "d", numbers.                 *)

\* An operation that names lines of text names a list of them.
SoundOp(op) ==
    /\ op.kind = "line" => op.conn \in Conns /\ Sendable(op.line)
    /\ op.kind = "save" => IsList(op.content)

\* The frames of the connections, and how many packages each sees.
TextConns(cn) == \A c \in Conns : SoundFrame(cn[c].frame) /\ cn[c].slice.len \in Nat

\* A world whose text is.
TextWorld(w) ==
    /\ SoundText(w.desk)
    /\ TextConns(w.conns)
    /\ \A op \in Range(w.then) : SoundOp(op)

\* A handler that leaves frames, packages and the desk alone, and queues nothing.
LEMMA SameText ==
  ASSUME NEW w, TextWorld(w), NEW v, v.desk = w.desk, v.conns = w.conns,
         v.then = w.then \/ v.then = <<>>
  PROVE  TextWorld(v)
BY ListIs DEF TextWorld

\* A handler that writes to a connection, or reads from it.
LEMMA FrameText ==
  ASSUME NEW w, NEW pending, Taken(w, pending), TextWorld(w), NEW c, NEW f,
         c \in Conns => SoundFrame(f)
  PROVE  TextWorld(OnFrame(w, c, f))
<1> DEFINE v == OnFrame(w, c, f)
<1>1. v.desk = w.desk /\ v.then = w.then /\ v.conns = [w.conns EXCEPT ![c].frame = f]
  BY DEF OnFrame, Taken, SoundWorld
<1> HIDE DEF v
<1>2. ConnsShape(w.conns) /\ TextConns(w.conns)
  BY DEF Taken, SoundWorld, TextWorld
<1>3. ASSUME NEW x \in Conns
      PROVE  SoundFrame(v.conns[x].frame) /\ v.conns[x].slice.len \in Nat
  <2>1. CASE x = c
    <3>1. v.conns[x] = [w.conns[x] EXCEPT !.frame = f]
      BY <1>1, <1>2, <2>1 DEF ConnsShape
    <3>2. v.conns[x].frame = f /\ v.conns[x].slice = w.conns[x].slice
      BY <1>2, <3>1 DEF ConnsShape
    <3> QED BY <1>2, <2>1, <3>2 DEF TextConns
  <2>2. CASE x # c
    <3>1. v.conns[x] = w.conns[x]
      BY <1>1, <1>2, <2>2 DEF ConnsShape
    <3> QED BY <1>2, <3>1 DEF TextConns
  <2> QED BY <2>1, <2>2
<1> QED BY <1>1, <1>3 DEF v, TextWorld, TextConns

\* What is written to a connection.
LEMMA TellText ==
  ASSUME NEW w, NEW pending, Taken(w, pending), TextWorld(w), NEW c, NEW msg
  PROVE  /\ TextWorld(Tell(w, c, msg)) /\ TextWorld(Refuse(w, c, msg))
         /\ TextWorld(GuiError(w, c, msg))
<1>1. c \in Conns => SoundFrame(Frame(w, c))
  BY DEF Frame, TextWorld, TextConns
<1>2. \A m, t : c \in Conns => SoundFrame(SendMessage(Frame(w, c), m, t))
  BY <1>1, SendFrame
<1>3. \A m, t : TextWorld(OnFrame(w, c, SendMessage(Frame(w, c), m, t)))
  BY <1>2, FrameText
<1> QED BY <1>3 DEF Tell, Refuse, GuiError, SendError

\* A handler that changes the desk.
LEMMA DeskText ==
  ASSUME NEW w, NEW pending, Taken(w, pending), TextWorld(w), NEW d, SoundText(d)
  PROVE  TextWorld([w EXCEPT !.desk = d])
BY DEF Taken, SoundWorld, TextWorld

\* A handler that puts an operation in the queue.
LEMMA LaterText ==
  ASSUME NEW w, DOMAIN w = {"conns", "dialogs", "owners", "desk", "then"}, TextWorld(w),
         NEW op, SoundOp(op)
  PROVE  TextWorld(Later(w, op))
<1> DEFINE v == Later(w, op)
<1>1. v.desk = w.desk /\ v.conns = w.conns /\ v.then = <<op>>
  BY DEF Later
<1> HIDE DEF v
<1>2. Range(<<op>>) = {op}
  BY ListIs, ListAppend
<1> QED BY <1>1, <1>2 DEF v, TextWorld

\* The packages a connection sees are a list.
LEMMA PackagesList ==
  ASSUME NEW c, conns[c].slice.len \in Nat
  PROVE  Len(Reg(c)) \in Nat
<1> DEFINE a == arrays[conns[c].slice.array]
           n == conns[c].slice.len
           S == {a[i] : i \in 1 .. n}
<1>1. 1 \in Int /\ n \in Int /\ \A i \in 1 .. n : a[i] \in S
  OBVIOUS
<1> HIDE DEF a, n, S
<1>2. SubSeq(a, 1, n) \in Seq(S)
  BY <1>1, SubSeqProperties
<1>3. Len(SubSeq(a, 1, n)) \in Nat
  BY <1>2, LenProperties
<1> QED BY <1>3 DEF Reg, Packages, a, n

\* gui-ctrl-value and gui-ctrl-event are not about text.
LEMMA GuiText ==
  ASSUME NEW w, NEW pending, Taken(w, pending), TextWorld(w), NEW c, NEW msg
  PROVE  TextWorld(GUIHandler(w, c, msg))
<1> DEFINE id        == ArgOf(msg, "dlogid")
           ctrl      == ArgOf(msg, "id")
           lines     == LinesIn(msg, "value")
           dismissed == ~(HasArg(msg, "dismissed") /\ ArgOf(msg, "dismissed") \in {"false", "0"})
           valued    == [w EXCEPT !.dialogs[id] = Remember(@, ctrl, lines)]
           marked    == [w EXCEPT !.dialogs[id].dismissed = @ \/ dismissed]
           event     == [kind |-> "event", dialog |-> id, dismissed |-> dismissed]
<1>0. DOMAIN w = {"conns", "dialogs", "owners", "desk", "then"}
  BY DEF Taken, SoundWorld
<1>1. TextWorld(GuiError(w, c, msg))
  BY TellText
<1>2. TextWorld(Later(w, [kind |-> "report"]))
  BY <1>0, LaterText DEF SoundOp
<1> HIDE DEF id, ctrl, lines, dismissed
<1>3. TextWorld(valued)
  <2>1. valued.desk = w.desk /\ valued.conns = w.conns /\ valued.then = w.then
    BY <1>0
  <2> HIDE DEF valued
  <2> QED BY <2>1, SameText
<1>4. TextWorld(Later(marked, event))
  <2>1. DOMAIN marked = DOMAIN w /\ marked.desk = w.desk /\ marked.conns = w.conns /\ marked.then = w.then
    BY <1>0
  <2>2. SoundOp(event)
    BY DEF SoundOp
  <2> HIDE DEF marked, event
  <2>3. TextWorld(marked)
    BY <2>1, SameText
  <2> QED BY <1>0, <2>1, <2>2, <2>3, LaterText
<1> DEFINE G == GUIHandler(w, c, msg)
           K == CASE msg.name = <<"ctrl", "value">> -> valued
                  [] msg.name = <<"ctrl", "event">> -> Later(marked, event)
                  [] msg.name = <<"error">> -> Later(w, [kind |-> "report"])
                  [] OTHER -> w
           empty == msg.name \in {<<"ctrl", "value">>, <<"ctrl", "event">>} /\ ctrl = ""
<1>7. G = IF id \notin DOMAIN w.dialogs \/ empty THEN GuiError(w, c, msg) ELSE K
  BY Zenon DEF GUIHandler, id, ctrl, lines, dismissed
<1> HIDE DEF valued, marked, event, G, empty
<1>8. K \in {w, Later(w, [kind |-> "report"]), valued, Later(marked, event)}
  BY Zenon
<1> HIDE DEF K
<1>9. TextWorld(G)
  BY <1>1, <1>2, <1>3, <1>4, <1>7, <1>8
<1> QED BY <1>9 DEF G

\* dispatch: what a client saves is a list of lines.
LEMMA DispatchText ==
  ASSUME NEW w, NEW pending, Taken(w, pending), TextWorld(w),
         NEW c \in Conns, conns[c].slice.len \in Nat, NEW msg, SoundArgs(msg.args)
  PROVE  TextWorld(Dispatch(w, c, msg))
<1>0. DOMAIN w = {"conns", "dialogs", "owners", "desk", "then"}
  BY DEF Taken, SoundWorld
<1>1. SoundFrame(Frame(w, c))
  BY DEF Frame, TextWorld, TextConns
<1>2. TextWorld(OnFrame(w, c, HandleInit(Frame(w, c), Reg(c), msg, "new")))
  <2>1. SoundFrame(HandleInit(Frame(w, c), Reg(c), msg, "new"))
    BY <1>1, HandleInitFrame, PackagesList
  <2> QED BY <2>1, FrameText
<1>3. TextWorld(OnFrame(w, c, NegotiateHandler(Frame(w, c), Reg(c), msg)))
  BY <1>1, NegotiateFrame, FrameText
<1>4. \A m : TextWorld(Tell(w, c, m)) /\ TextWorld(Refuse(w, c, m))
  BY TellText
<1>5. TextWorld(LanguagesHandler(w, c, msg))
  BY <1>4, Zenon DEF LanguagesHandler
<1>6. TextWorld(HelpHandler(w, c, msg))
  <2> DEFINE op == [kind |-> "help", conn |-> c]
  <2>1. TextWorld(Later(w, op))
    BY <1>0, LaterText DEF SoundOp
  <2> QED BY <1>4, <2>1, Zenon DEF HelpHandler
<1>7. TextWorld(SimpleEditHandler(w, c, msg))
  <2> DEFINE op == [kind |-> "save", conn |-> c, ref |-> RefOf[ArgOf(msg, "reference")],
                    content |-> LinesIn(msg, "content")]
  <2>1. SoundOp(op)
    BY LinesInList DEF SoundOp
  <2>2. TextWorld(Later(w, op))
    BY <1>0, <2>1, LaterText, Zenon
  <2> QED BY <1>4, <2>2, Zenon DEF SimpleEditHandler
<1>8. TextWorld(ProgramHandler(w, c, msg))
  <2> DEFINE op == [kind |-> "bound", conn |-> c, name |-> FullName(msg)]
  <2>1. SoundOp(op)
    BY DEF SoundOp
  <2>2. TextWorld(Later(w, op))
    BY <1>0, <2>1, LaterText, Zenon
  <2> QED BY <2>2 DEF ProgramHandler
<1> QED BY <1>2, <1>3, <1>5, <1>6, <1>7, <1>8, GuiText, Zenon DEF Dispatch

\* @mcpedit: the line editor, or the source sent.
LEMMA McpEditText ==
  ASSUME NEW w, NEW pending, Taken(w, pending), TextWorld(w), NEW c, NEW p
  PROVE  TextWorld(McpEdit(w, c, p))
<1>1. TextWorld([w EXCEPT !.desk = OpenEditor(@, PlayerOf[c], p)])
  <2> DEFINE d == OpenEditor(w.desk, PlayerOf[c], p)
  <2>1. SoundText(d)
    BY OpenText DEF Taken, SoundWorld, TextWorld
  <2> HIDE DEF d
  <2>2. TextWorld([w EXCEPT !.desk = d])
    BY <2>1, DeskText
  <2> QED BY <2>2 DEF d
<1>2. \A m : TextWorld(Tell(w, c, m)) /\ TextWorld(Refuse(w, c, m))
  BY TellText
<1> QED BY <1>1, <1>2, Zenon DEF McpEdit

\* What is left of a line for the game.
LEMMA TextText ==
  ASSUME NEW w, NEW pending, Taken(w, pending), TextWorld(w), NEW c, NEW line, Numbered(line)
  PROVE  TextWorld(TextHandler(w, c, line))
<1> DEFINE d == w.desk
           who == PlayerOf[c]
<1>1. SoundDesk(d) /\ SoundText(d)
  BY DEF Taken, SoundWorld, TextWorld
<1>2. \A e : SoundText(e) => TextWorld([w EXCEPT !.desk = e])
  BY DeskText
<1>3. who \in DOMAIN d.session => SoundText(EditInput(d, who, line))
  BY <1>1, EditInputText
<1>4. \A x, l : SoundText(ProgramCommand(d, x, l))
  BY <1>1, ProgramCommandText
<1>5. TextWorld(McpEdit(w, c, line.args[1]))
  BY McpEditText
<1> QED BY <1>2, <1>3, <1>4, <1>5, Zenon DEF TextHandler, Editing

\* What a connection has read and made, where it is kept.
LEMMA GhostText ==
  ASSUME NEW w, NEW pending, Taken(w, pending), TextWorld(w), NEW c, NEW line, NEW done
  PROVE  TextWorld([w EXCEPT !.conns[c].heard = Append(@, line), !.conns[c].got = @ \o done])
<1> DEFINE v == [w EXCEPT !.conns[c].heard = Append(@, line), !.conns[c].got = @ \o done]
           heard == Append(w.conns[c].heard, line)
           first == [w.conns EXCEPT ![c].heard = heard]
           got == first[c].got \o done
<1>1. v.desk = w.desk /\ v.then = w.then /\ v.conns = [first EXCEPT ![c].got = got]
  BY DEF Taken, SoundWorld
<1>2. ConnsShape(w.conns) /\ TextConns(w.conns)
  BY DEF Taken, SoundWorld, TextWorld
<1> HIDE DEF v, heard, got
<1>3. ASSUME NEW x \in Conns
      PROVE  v.conns[x].frame = w.conns[x].frame /\ v.conns[x].slice = w.conns[x].slice
  <2>1. DOMAIN first = Conns /\ DOMAIN v.conns = Conns
    BY <1>1, <1>2 DEF ConnsShape
  <2>2. /\ DOMAIN first[x] = {"status", "slice", "frame", "heard", "got"}
        /\ first[x].frame = w.conns[x].frame /\ first[x].slice = w.conns[x].slice
    BY <1>2 DEF ConnsShape
  <2> HIDE DEF first
  <2>3. v.conns[x] = IF x = c THEN [first[c] EXCEPT !.got = got] ELSE first[x]
    BY <1>1, <2>1
  <2> QED BY <2>2, <2>3
<1> QED BY <1>1, <1>2, <1>3 DEF v, TextWorld, TextConns

\* A line of the queue.
LEMMA LineText ==
  ASSUME NEW pending, Taken(Now, pending), TextWorld(Now), NEW c \in Conns, NEW line, Sendable(line)
  PROVE  TextWorld(HandleLine(c, line))
<1> DEFINE f    == conns[c].frame
           done == Completed(f, Reg(c), line)
           next == OnFrame(Now, c, ReadLine(f, Reg(c), line))
           kept == [next EXCEPT !.conns[c].heard = Append(@, line), !.conns[c].got = @ \o done]
           read == IF scene.kept THEN kept ELSE next
           text == Passed(f, Reg(c), line)
           words == IF text[1].kind = "text" THEN text[1].text ELSE [cmd |-> "#$#", args |-> <<>>]
<1>1. SoundFrame(f) /\ conns[c].slice.len \in Nat
  BY DEF TextWorld, TextConns, Now
<1>2. /\ SoundFrame(ReadLine(f, Reg(c), line))
      /\ done # <<>> => SoundArgs(done[1].args)
      /\ text # <<>> => Typed(text[1])
  BY <1>1, ReadFrame
<1>3. Taken(next, pending) /\ TextWorld(next)
  BY <1>2, FrameSound, FrameText
<1> HIDE DEF next, done, text
<1>4. Taken(kept, pending) /\ TextWorld(kept)
  BY <1>3, GhostSound, GhostText
<1> HIDE DEF kept
<1>5. Taken(read, pending) /\ TextWorld(read)
  BY <1>3, <1>4, Zenon
<1> HIDE DEF read
<1>6. done # <<>> => TextWorld(Dispatch(read, c, done[1]))
  BY <1>1, <1>2, <1>5, DispatchText
<1>7. text # <<>> => TextWorld(TextHandler(read, c, words))
  <2>1. text # <<>> => Numbered(words)
    BY <1>2 DEF Typed, Numbered
  <2> HIDE DEF words
  <2> QED BY <1>5, <2>1, TextText
<1>8. HandleLine(c, line) =
        CASE done # <<>>                 -> Dispatch(read, c, done[1])
          [] done = <<>> /\ text # <<>>  -> TextHandler(read, c, words)
          [] OTHER                       -> read
  BY Zenon DEF HandleLine, read, kept, next, done, text, OnFrame
<1> HIDE DEF words
<1> QED BY <1>5, <1>6, <1>7, <1>8

-------------------------------------------------------------------------------
(* Operations, again.                                                      *)

\* A hangup, and DESCRBOOT.
LEMMA GoneText ==
  ASSUME NEW w, NEW pending, Taken(w, pending), TextWorld(w), NEW c
  PROVE  TextWorld(Gone(w, c))
<1> DEFINE v == Gone(w, c)
<1>1. /\ v.desk = w.desk /\ v.then = w.then
      /\ v.conns = [w.conns EXCEPT ![c].status = "gone"]
  BY DEF Gone, Taken, SoundWorld
<1> HIDE DEF v
<1>2. ConnsShape(w.conns) /\ TextConns(w.conns)
  BY DEF Taken, SoundWorld, TextWorld
<1>3. ASSUME NEW x \in Conns
      PROVE  v.conns[x].frame = w.conns[x].frame /\ v.conns[x].slice = w.conns[x].slice
  BY <1>1, <1>2 DEF ConnsShape
<1> QED BY <1>1, <1>2, <1>3 DEF v, TextWorld, TextConns

\* A dialog closed.
LEMMA CloseDialogText ==
  ASSUME NEW w, NEW pending, Taken(w, pending), TextWorld(w), NEW id
  PROVE  TextWorld(CloseDialog(w, id))
<1> DEFINE v == CloseDialog(w, id)
<1>1. v.desk = w.desk /\ v.then = w.then /\ v.conns = w.conns
  BY DEF CloseDialog, Taken, SoundWorld
<1> HIDE DEF v
<1> QED BY <1>1, SameText DEF v

\* A client's save: its empty lines are the blank ones a program has.
LEMMA SaveText ==
  ASSUME NEW w, NEW pending, Taken(w, pending), TextWorld(w), NEW c, NEW op, IsList(op.content)
  PROVE  TextWorld(SimpleEditSet(w, c, op))
<1> DEFINE lines == [i \in DOMAIN op.content |-> IF op.content[i] = "" THEN Blank ELSE op.content[i]]
           d == SaveProgram(w.desk, PlayerOf[c], op.ref.obj, lines)
           n == Len(op.content)
           S == {lines[i] : i \in 1 .. n}
<1>0. n \in Nat /\ DOMAIN op.content = 1 .. n
  BY LenProperties DEF IsList
<1>1. IsList(lines)
  <2>1. lines \in [1 .. n -> S]
    BY <1>0
  <2> HIDE DEF lines, S, n
  <2>2. lines \in Seq(S)
    BY <1>0, <2>1
  <2> QED BY <2>2, ListIs
<1> HIDE DEF lines
<1>2. SoundDesk(w.desk) /\ SoundText(w.desk)
  BY DEF Taken, SoundWorld, TextWorld
<1>3. SoundText(d)
  BY <1>1, <1>2, SetText
<1> HIDE DEF d
<1>4. TextWorld([w EXCEPT !.desk = d])
  BY <1>3, DeskText
<1>5. \A m : TextWorld(Refuse(w, c, m))
  BY TellText
<1> QED BY <1>4, <1>5, Zenon DEF SimpleEditSet, d, lines

\* An operation of the queue.
LEMMA PerformText ==
  ASSUME NEW pending, Taken(Now, pending), TextWorld(Now), NEW op, op.kind \in Kinds, SoundOp(op)
  PROVE  TextWorld(Perform(op))
<1> DEFINE w == Perform(op)
<1>1. CASE op.kind = "line"
  <2>1. w = HandleLine(op.conn, op.line)
    BY <1>1 DEF Perform
  <2>2. op.conn \in Conns /\ Sendable(op.line)
    BY <1>1 DEF SoundOp
  <2> QED BY <2>1, <2>2, LineText
<1>2. CASE op.kind = "hangup"
  <2>1. w = Gone(Now, op.conn)
    BY <1>2 DEF Perform
  <2> QED BY <2>1, GoneText
<1>3. CASE op.kind = "event"
  <2>1. w = IF op.dismissed THEN CloseDialog(Now, op.dialog) ELSE Now
    BY <1>3 DEF Perform
  <2> QED BY <2>1, CloseDialogText
<1>4. CASE op.kind = "save"
  <2>1. w = IF Reaches(op.conn) THEN SimpleEditSet(Now, op.conn, op) ELSE Now
    BY <1>4 DEF Perform
  <2>2. IsList(op.content)
    BY <1>4 DEF SoundOp
  <2> QED BY <2>1, <2>2, SaveText
<1>5. CASE op.kind = "help"
  <2>1. w = Tell(Now, op.conn, Message(HelpPackage, <<"entry">>,
                                       <<Multiline("text", <<"one", "two">>)>>))
    BY <1>5 DEF Perform
  <2> QED BY <2>1, TellText
<1>6. CASE op.kind = "bound"
  <2> DEFINE d == CompileProgram(desk, bound[op.name])
  <2>1. w = IF Reaches(op.conn) /\ op.name \in DOMAIN bound THEN [Now EXCEPT !.desk = d] ELSE Now
    BY <1>6 DEF Perform, Now
  <2>2. SoundText(d)
    BY CompileText DEF Taken, SoundWorld, TextWorld, Now
  <2> HIDE DEF d
  <2>3. TextWorld([Now EXCEPT !.desk = d])
    BY <2>2, DeskText
  <2> QED BY <2>1, <2>3
<1>7. CASE op.kind = "report"
  BY <1>7 DEF Perform
<1> QED BY <1>1, <1>2, <1>3, <1>4, <1>5, <1>6, <1>7 DEF Kinds

-------------------------------------------------------------------------------
(* Steps, again.                                                           *)

\* What is written, everywhere: with McpInvariant, what keeps each buffer what
\* was typed where it was typed.
TextInvariant ==
    /\ SoundText(desk)
    /\ TextConns(conns)
    /\ \A op \in Range(ops) \cup Range(running) : SoundOp(op)
    /\ offered.len \in Nat
    /\ scene \in Scenes

\* The world as a handler finds it.
LEMMA NowText ==
  ASSUME TextInvariant
  PROVE  TextWorld(Now)
<1>1. Range(<<>>) = {}
  BY ListIs
<1> QED BY <1>1 DEF Now, TextWorld, TextInvariant

\* A step that leaves the queue alone, and makes of the world what a handler does.
LEMMA BecomeText ==
  ASSUME TextInvariant, NEW w, TextWorld(w), Become(w), UNCHANGED <<ops, running, offered, scene>>
  PROVE  TextInvariant'
<1>1. /\ conns' = w.conns /\ desk' = w.desk
      /\ ops' = ops /\ running' = running /\ offered' = offered /\ scene' = scene
  BY DEF Become
<1>2. SoundText(desk') /\ TextConns(conns')
  BY <1>1 DEF TextWorld
<1> QED BY <1>1, <1>2 DEF TextInvariant

\* The operation taken is run.
LEMMA RunText ==
  ASSUME McpInvariant, TextInvariant, Run
  PROVE  TextInvariant'
<1> DEFINE op == running[1]
           w == Perform(op)
           pending == Range(ops \o running)
<1>0. OpsShape(ops) /\ OpsShape(running) /\ Len(running) <= 1 /\ running # <<>>
  BY DEF McpInvariant, Run, Idle
<1>1. Range(running) = {op} /\ op.kind \in Kinds
  <2>1. Range(running) = {op}
    BY <1>0, ListOfOne DEF OpsShape
  <2> QED BY <1>0, <2>1 DEF OpsShape
<1>2. SoundOp(op)
  BY <1>1 DEF TextInvariant
<1>3. Taken(Now, pending) /\ TextWorld(Now)
  BY NowSound, NowText
<1> HIDE DEF op, pending
<1>4. SoundWorld(w, pending) /\ TextWorld(w)
  BY <1>1, <1>2, <1>3, PerformSound, PerformText
<1>5. /\ conns' = w.conns /\ desk' = w.desk /\ ops' = ops \o w.then /\ running' = <<>>
      /\ offered' = offered /\ scene' = scene
  BY DEF Run, Become, op
<1> HIDE DEF w
<1>6. Range(ops \o w.then) = Range(ops) \cup Range(w.then)
  <2>1. OpsShape(w.then)
    BY <1>4 DEF SoundWorld
  <2> QED BY <1>0, <2>1, PendingIs
<1>7. Range(<<>>) = {}
  BY ListIs
<1>8. \A o \in Range(ops') \cup Range(running') : SoundOp(o)
  <2>1. Range(ops') \cup Range(running') = Range(ops) \cup Range(w.then)
    BY <1>5, <1>6, <1>7
  <2>2. \A o \in Range(ops) \cup Range(w.then) : SoundOp(o)
    BY <1>4 DEF TextInvariant, TextWorld
  <2> QED BY <2>1, <2>2
<1>9. SoundText(desk') /\ TextConns(conns')
  BY <1>4, <1>5 DEF TextWorld
<1> QED BY <1>5, <1>8, <1>9 DEF TextInvariant

\* A transport hands something on, or the world goroutine takes an operation.
LEMMA QueueStepText ==
  ASSUME McpInvariant, TextInvariant, (\E c \in Conns : Input(c) \/ Hangup(c)) \/ TakeOp
  PROVE  TextInvariant'
<1>0. OpsShape(ops) /\ OpsShape(running)
  BY DEF McpInvariant
<1>1. UNCHANGED <<conns, desk, offered, scene>>
  BY DEF Input, Hangup, TakeOp
<1>2. \A op \in Range(ops) \cup Range(running) : SoundOp(op)
  BY DEF TextInvariant
<1>3. \A op \in Range(ops') \cup Range(running') : SoundOp(op)
  <2>1. ASSUME NEW op, ops' = Append(ops, op), SoundOp(op), running' = running
        PROVE  \A o \in Range(ops') \cup Range(running') : SoundOp(o)
    <3>1. Range(ops') = Range(ops) \cup {op}
      BY <1>0, <2>1, ListAppend DEF OpsShape
    <3> QED BY <1>2, <2>1, <3>1
  <2>2. ASSUME NEW c \in Conns, Input(c)
        PROVE  \A o \in Range(ops') \cup Range(running') : SoundOp(o)
    <3>1. PICK line \in scene.lines : ops' = Append(ops, [kind |-> "line", conn |-> c, line |-> line])
      BY <2>2 DEF Input
    <3>2. running' = running
      BY <2>2 DEF Input
    <3> DEFINE op == [kind |-> "line", conn |-> c, line |-> line]
    <3>3. Sendable(line)
      BY McpAssumption DEF TextInvariant
    <3>4. SoundOp(op)
      BY <3>3 DEF SoundOp
    <3> HIDE DEF op
    <3> QED BY <2>1, <3>1, <3>2, <3>4 DEF op
  <2>3. ASSUME NEW c \in Conns, Hangup(c)
        PROVE  \A o \in Range(ops') \cup Range(running') : SoundOp(o)
    <3> DEFINE op == [kind |-> "hangup", conn |-> c]
    <3>1. ops' = Append(ops, op) /\ running' = running /\ SoundOp(op)
      BY <2>3 DEF Hangup, SoundOp
    <3> HIDE DEF op
    <3> QED BY <2>1, <3>1
  <2>4. CASE TakeOp
    <3>1. ops # <<>> /\ running = <<>> /\ ops' = Tail(ops) /\ running' = <<Head(ops)>>
      BY <2>4 DEF TakeOp, Idle
    <3>2. /\ Range(<<Head(ops)>>) = {Head(ops)}
          /\ Range(ops) = Range(Tail(ops)) \cup {Head(ops)}
      BY <1>0, <3>1, ListTaken DEF OpsShape
    <3> QED BY <1>2, <3>1, <3>2
  <2> QED BY <2>2, <2>3, <2>4
<1> QED BY <1>1, <1>3 DEF TextInvariant

\* A connection that has just come, with the packages offered.
LEMMA NewConnText ==
  /\ SoundFrame(NewFrame) /\ SoundFrame(StartNegotiation(NewFrame))
  /\ NewConn.frame = NewFrame /\ NewConn.slice.len \in Nat
<1>1. SoundFrame(NewFrame)
  <2>1. DOMAIN <<>> = {}
    OBVIOUS
  <2> QED BY <2>1 DEF SoundFrame, NewFrame
<1>2. Len(Builtin) \in Nat
  <2>1. IsList(Builtin)
    BY McpAssumption
  <2> QED BY <2>1, LenProperties DEF IsList
<1> QED BY <1>1, <1>2, SendFrame DEF StartNegotiation, NewConn, BuiltinSlice

\* A connection arrives.
LEMMA ConnectText ==
  ASSUME McpInvariant, TextInvariant, NEW c \in Conns, Connect(c)
  PROVE  TextInvariant'
<1> DEFINE new == [[[NewConn EXCEPT !.status = "open"] EXCEPT !.slice = offered]
                     EXCEPT !.frame = StartNegotiation(NewConn.frame)]
<1>1. /\ conns' = [conns EXCEPT ![c] = new]
      /\ UNCHANGED <<ops, running, offered, desk, scene>>
  BY DEF Connect, NewConn
<1>2. new.frame = StartNegotiation(NewFrame) /\ new.slice = offered
  BY DEF NewConn
<1> HIDE DEF new
<1>3. ConnsShape(conns) /\ TextConns(conns)
  BY DEF McpInvariant, TextInvariant
<1>4. TextConns(conns')
  <2> SUFFICES ASSUME NEW x \in Conns
               PROVE  SoundFrame(conns'[x].frame) /\ conns'[x].slice.len \in Nat
    BY DEF TextConns
  <2>1. CASE x = c
    <3>1. conns'[x] = new
      BY <1>1, <1>3, <2>1 DEF ConnsShape
    <3> QED BY <1>2, <3>1, NewConnText DEF TextInvariant
  <2>2. CASE x # c
    <3>1. conns'[x] = conns[x]
      BY <1>1, <1>3, <2>2 DEF ConnsShape
    <3> QED BY <1>3, <3>1 DEF TextConns
  <2> QED BY <2>1, <2>2
<1> QED BY <1>1, <1>4 DEF TextInvariant

\* What programs send, and what they do to connections and dialogs.
LEMMA AskText ==
  ASSUME McpInvariant, TextInvariant, NEW a,
         \/ \E c \in Conns : Send(a, c) \/ CreateDialog(a, c) \/ Boot(a, c)
         \/ \E id \in DOMAIN dialogs : DialogCommand(a, id) \/ Control(a, id)
  PROVE  TextInvariant'
<1> DEFINE pending == Range(ops \o running)
<1>1. Taken(Now, pending) /\ TextWorld(Now) /\ Now.dialogs = dialogs
  BY NowSound, NowText DEF Now
<1>2. \A d, m : Taken(Tell(Now, d, m), pending) /\ TextWorld(Tell(Now, d, m))
  BY <1>1, TellSound, TellText
<1> HIDE DEF pending
<1>3. ASSUME NEW w, TextWorld(w), Become(w), UNCHANGED <<ops, running, offered, scene>>
      PROVE  TextInvariant'
  BY <1>3, BecomeText
<1>4. ASSUME NEW c, Send(a, c) PROVE TextInvariant'
  <2>1. Become(Tell(Now, c, a.msg)) /\ UNCHANGED <<ops, running, offered, scene>>
    BY <1>4 DEF Send
  <2> QED BY <1>2, <1>3, <2>1
<1>5. ASSUME NEW c, Boot(a, c) PROVE TextInvariant'
  <2>1. Become(Gone(Now, c)) /\ UNCHANGED <<ops, running, offered, scene>>
    BY <1>5 DEF Boot
  <2>2. TextWorld(Gone(Now, c))
    BY <1>1, GoneText
  <2> QED BY <1>3, <2>1, <2>2
<1>6. ASSUME NEW id, DialogCommand(a, id) PROVE TextInvariant'
  <2> DEFINE d    == dialogs[id].conn
             name == IF a.closing THEN <<"dlog", "close">> ELSE <<"dlog", "show">>
             msg  == Message(GuiPackage, name, <<Arg("dlogid", id)>>)
             told == Tell(Now, d, msg)
  <2>1. /\ Become(IF a.closing THEN CloseDialog(told, id) ELSE told)
        /\ UNCHANGED <<ops, running, offered, scene>>
    BY <1>6 DEF DialogCommand
  <2>2. Taken(told, pending) /\ TextWorld(told)
    BY <1>2
  <2> HIDE DEF told
  <2>3. TextWorld(CloseDialog(told, id))
    BY <2>2, CloseDialogText
  <2> QED BY <1>3, <2>1, <2>2, <2>3
<1>7. ASSUME NEW id \in DOMAIN dialogs, Control(a, id) PROVE TextInvariant'
  <2> DEFINE msg == Message(GuiPackage, a.name,
                       <<Arg("dlogid", id), Arg("id", a.ctrl), Multiline("value", a.lines)>>)
             valued == [Now EXCEPT !.dialogs[id] = Remember(@, a.ctrl, a.lines)]
             w == IF a.keeps THEN valued ELSE Now
             told == Tell(w, dialogs[id].conn, msg)
  <2>1. Become(told) /\ UNCHANGED <<ops, running, offered, scene>>
    BY <1>7 DEF Control
  <2>2. Taken(valued, pending)
    BY <1>1, ValueSound
  <2>3. valued.desk = Now.desk /\ valued.conns = Now.conns /\ valued.then = Now.then
    BY DEF Now
  <2> HIDE DEF valued, msg
  <2>4. TextWorld(valued)
    BY <1>1, <2>3, SameText
  <2>5. Taken(w, pending) /\ TextWorld(w)
    BY <1>1, <2>2, <2>4
  <2> HIDE DEF w
  <2>6. TextWorld(told)
    BY <2>5, TellText
  <2> HIDE DEF told
  <2> QED BY <1>3, <2>1, <2>6
<1>8. ASSUME NEW c, CreateDialog(a, c) PROVE TextInvariant'
  <2> DEFINE id  == ToString(issued + 1)
             dlg == [conn |-> c, values |-> <<>>, order |-> <<>>, dismissed |-> FALSE]
             dg  == [d \in DOMAIN dialogs \cup {id} |-> IF d = id THEN dlg ELSE dialogs[d]]
             w   == [Now EXCEPT !.dialogs = dg, !.owners = @ \cup {id}]
             msg == Message(GuiPackage, <<"dlog", "create">>, <<Arg("title", "title"), Arg("dlogid", id)>>)
             told == Tell(w, c, msg)
  <2>1. /\ Become(IF a.sound THEN told ELSE w)
        /\ UNCHANGED <<ops, running, offered, scene>>
    BY <1>8 DEF CreateDialog, Now
  <2>2. /\ w.desk = Now.desk /\ w.conns = Now.conns /\ w.then = Now.then
        /\ DOMAIN w = DOMAIN Now
    BY DEF Now
  <2> HIDE DEF dlg, id, msg, dg, w
  <2>3. TextWorld(w)
    BY <1>1, <2>2, SameText
  <2>4. TextWorld(told)
    <3>1. Frame(w, c) = Frame(Now, c) /\ told.desk = Tell(Now, c, msg).desk
          /\ told.conns = Tell(Now, c, msg).conns /\ told.then = Tell(Now, c, msg).then
      BY <2>2 DEF Tell, OnFrame, Frame, Now
    <3> QED BY <1>2, <3>1, SameText
  <2> HIDE DEF told
  <2> QED BY <1>3, <2>1, <2>3, <2>4
<1> QED BY <1>4, <1>5, <1>6, <1>7, <1>8

\* What a program registers or claims: one package more at most.
LEMMA ClaimText ==
  ASSUME TextInvariant, NEW a, Register(a) \/ Bind(a)
  PROVE  TextInvariant'
<1>1. UNCHANGED <<conns, ops, running, desk, scene>>
  BY DEF Register, Bind
<1>2. offered' = offered \/ offered' = [array |-> Len(arrays'), len |-> offered.len + 1]
  BY DEF Register, Bind
<1>3. offered'.len \in Nat
  BY <1>2 DEF TextInvariant
<1> QED BY <1>1, <1>3, SMTT(40) DEF TextInvariant

\* PROGRAM_SETLINES, COMPILE, UNCOMPILE and NEWPROGRAM.
LEMMA ScriptText ==
  ASSUME McpInvariant, TextInvariant, NEW a, NEW p, Script(a, p)
  PROVE  TextInvariant'
<1>1. SoundDesk(desk) /\ SoundText(desk)
  BY DEF McpInvariant, TextInvariant
<1>2. a.ask = "setlines" => SoundText(SetLines(desk, a.who, p, a.lines))
  <2>1. a \in scene.asks
    BY DEF Script, Asked
  <2>2. a.ask = "setlines" => IsList(a.lines)
    BY <2>1, McpAssumption DEF TextInvariant
  <2> QED BY <1>1, <2>2, SetText
<1>3. SoundDesk(Invalidate(desk, p)) /\ SoundText(Invalidate(desk, p))
  BY <1>1, InvalidateSound, StoreText
<1>4. SoundText(CompileProgram(Invalidate(desk, p), p))
  BY <1>3, CompileText
<1>5. SoundText(CreateProgram(desk, a.who, p))
  BY <1>1, CompileText
<1>6. SoundText(desk')
  BY <1>1, <1>2, <1>3, <1>4, <1>5, Zenon DEF Script
<1>7. UNCHANGED <<conns, ops, running, offered, scene>>
  BY DEF Script
<1> QED BY <1>6, <1>7 DEF TextInvariant

\* The server stops and starts again.
LEMMA RestartText ==
  ASSUME TextInvariant, NEW a, Restart(a)
  PROVE  TextInvariant'
<1>1. /\ conns' = [c \in Conns |-> NewConn] /\ ops' = <<>> /\ running' = running
      /\ running = <<>> /\ desk' = Reloaded(desk) /\ offered' = BuiltinSlice /\ scene' = scene
  BY DEF Restart, Asked, Idle
<1>2. Range(<<>>) = {}
  BY ListIs
<1>3. TextConns(conns')
  BY <1>1, NewConnText DEF TextConns
<1>4. SoundText(desk')
  BY <1>1, LoadedText DEF Reloaded, TextInvariant, SoundText
<1>5. offered'.len \in Nat
  BY <1>1, NewConnText DEF NewConn
<1> QED BY <1>1, <1>2, <1>3, <1>4, <1>5 DEF TextInvariant

\* A server that has loaded its programs, with nobody or one player in the
\* editor.
LEMMA InitText ==
  ASSUME Init
  PROVE  TextInvariant
<1> DEFINE b      == Begin[scene.name]
           loaded == Loaded(b.owner, b.source)
<1>0. /\ IsList(b.packages)
      /\ \A p \in Programs : IsList(b.source[p])
      /\ "partial" \in DOMAIN b.frame
      /\ \A t \in DOMAIN b.frame.partial : /\ "args" \in DOMAIN b.frame.partial[t]
                                           /\ IsArgs(b.frame.partial[t].args)
  BY McpAssumption DEF Init
<1>1. /\ conns = [c \in Conns |-> [NewConn EXCEPT !.status = b.status[c], !.slice = offered,
                                                  !.frame = b.frame]]
      /\ offered = [array |-> 1, len |-> Len(b.packages)]
      /\ desk = IF b.editing = <<>> THEN loaded ELSE OpenEditor(loaded, b.editing[1], b.editing[2])
      /\ ops = <<>> /\ running = <<>> /\ scene \in Scenes
  BY DEF Init
<1>2. SoundDesk(loaded) /\ SoundText(loaded)
  BY <1>0, LoadedSound, LoadedText
<1>3. SoundFrame(b.frame)
  BY <1>0 DEF SoundFrame, SoundArgs, IsArgs
<1>4. offered.len \in Nat
  <2>1. Len(b.packages) \in Nat
    BY <1>0, LenProperties DEF IsList
  <2> QED BY <1>1, <2>1
<1> HIDE DEF loaded, b
<1>5. SoundText(desk)
  BY <1>1, <1>2, OpenText
<1>6. \A c \in Conns : conns[c].frame = b.frame /\ conns[c].slice = offered
  BY <1>1 DEF NewConn
<1>7. TextConns(conns)
  BY <1>3, <1>4, <1>6 DEF TextConns
<1>8. Range(<<>>) = {}
  BY ListIs
<1> QED BY <1>1, <1>4, <1>5, <1>7, <1>8 DEF TextInvariant

-------------------------------------------------------------------------------
(* Theorems.                                                               *)

\* Every step keeps the server's two tables, its connections, its queue and
\* its desk in order.
THEOREM McpServerInvariant == Spec => []McpInvariant
<1>1. Init => McpInvariant
  BY InitSound
<1>2. McpInvariant /\ [Next]_vars => McpInvariant'
  <2> SUFFICES ASSUME McpInvariant, [Next]_vars PROVE McpInvariant'
    OBVIOUS
  <2>1. ASSUME NEW c \in Conns, Input(c) \/ Hangup(c) \/ Connect(c) PROVE McpInvariant'
    BY <2>1, QueueStepSound, ConnectSound
  <2>2. CASE TakeOp
    BY <2>2, QueueStepSound
  <2>3. CASE Run
    BY <2>3, RunSound
  <2>4. ASSUME NEW a, Register(a) \/ Bind(a) PROVE McpInvariant'
    BY <2>4, ClaimSound
  <2>5. ASSUME NEW a, NEW c \in Conns, Send(a, c) \/ CreateDialog(a, c) \/ Boot(a, c)
        PROVE  McpInvariant'
    BY <2>5, AskSound, CreateDialogSound
  <2>6. ASSUME NEW a, NEW id \in DOMAIN dialogs, DialogCommand(a, id) \/ Control(a, id)
        PROVE  McpInvariant'
    BY <2>6, AskSound
  <2>7. ASSUME NEW a, NEW p \in Programs, Script(a, p) PROVE McpInvariant'
    BY <2>7, ScriptSound
  <2>8. ASSUME NEW a, Restart(a) PROVE McpInvariant'
    BY <2>8, RestartSound
  <2>9. CASE UNCHANGED vars
    BY <2>9 DEF vars, McpInvariant
  <2> QED BY <2>1, <2>2, <2>3, <2>4, <2>5, <2>6, <2>7, <2>8, <2>9 DEF Next
<1> QED BY <1>1, <1>2, PTL DEF Spec

\* A dialog is in both tables or in neither, its connection is open, each of
\* its controls is listed once, and a dismissal is never lost.
THEOREM DialogsStayTrue == Spec => []DialogsAgree
<1>1. McpInvariant => DialogsAgree
  BY DEF McpInvariant, Dialogs, Connected, KeptValues, Dismissal, DialogsAgree, Open
<1> QED BY <1>1, McpServerInvariant, PTL

\* Whatever is typed, forced, sent by a client or run, no two players are in
\* the editor for one program, and nobody is in it for one that is gone.
THEOREM NobodyEditsTogether == Spec => []OneEditor(desk)
<1>1. McpInvariant => OneEditor(desk)
  BY DEF McpInvariant, SoundDesk
<1> QED BY <1>1, McpServerInvariant, PTL

\* What runs is what is stored, but for an edited program and a ref that is
\* used again.
THEOREM StoredIsWhatRuns == Spec => []RunsWhatIsStored
<1>1. McpInvariant => RunsWhatIsStored
  BY DEF McpInvariant, SoundDesk, RunsWhatIsStored
<1> QED BY <1>1, McpServerInvariant, PTL

\* Every step keeps what is written a list of lines, in two halves where it is
\* being edited.
THEOREM TextStays == Spec => []TextInvariant
<1>1. Init => TextInvariant
  BY InitText
<1>2. McpInvariant /\ TextInvariant /\ [Next]_vars => TextInvariant'
  <2> SUFFICES ASSUME McpInvariant, TextInvariant, [Next]_vars PROVE TextInvariant'
    OBVIOUS
  <2>1. ASSUME NEW c \in Conns, Input(c) \/ Hangup(c) PROVE TextInvariant'
    BY <2>1, QueueStepText
  <2>2. CASE TakeOp
    BY <2>2, QueueStepText
  <2>3. CASE Run
    BY <2>3, RunText
  <2>4. ASSUME NEW a, Register(a) \/ Bind(a) PROVE TextInvariant'
    BY <2>4, ClaimText
  <2>5. ASSUME NEW a, \/ \E c \in Conns : Send(a, c) \/ CreateDialog(a, c) \/ Boot(a, c)
                      \/ \E id \in DOMAIN dialogs : DialogCommand(a, id) \/ Control(a, id)
        PROVE  TextInvariant'
    BY <2>5, AskText
  <2>6. ASSUME NEW c \in Conns, Connect(c) PROVE TextInvariant'
    BY <2>6, ConnectText
  <2>7. ASSUME NEW a, NEW p \in Programs, Script(a, p) PROVE TextInvariant'
    BY <2>7, ScriptText
  <2>8. ASSUME NEW a, Restart(a) PROVE TextInvariant'
    BY <2>8, RestartText
  <2>9. CASE UNCHANGED vars
    BY <2>9 DEF vars, TextInvariant
  <2> QED BY <2>1, <2>2, <2>3, <2>4, <2>5, <2>6, <2>7, <2>8, <2>9 DEF Next
<1> QED BY <1>1, <1>2, McpServerInvariant, PTL DEF Spec

\* Whatever is typed, forced, sent by a client or run, each program has one
\* editor at most, and its buffer is what was typed where it was typed.
THEOREM EditedWhereTyped == Spec => []EditedByOne
<1>1. McpInvariant /\ TextInvariant => EditedByOne
  BY DEF McpInvariant, SoundDesk, TextInvariant, SoundText, Halves, EditedByOne, TwoHalves
<1> QED BY <1>1, McpServerInvariant, TextStays, PTL
===============================================================================
