------------------------------- MODULE Tuning -------------------------------
(***************************************************************************)
(* The @tune parameters (internal/tune): who sets them and with which of   *)
(* the two readers of a value, how the table goes to the store and comes   *)
(* back, and the objects the dbref parameters name.                        *)
(*                                                                         *)
(* A value somebody types is a record of its form: a word, a number, the   *)
(* clock form of a listing ("1d 2:03:04"), a run of units ("1d12h"), a     *)
(* ref ("#5"), a name that matches an object, or nothing.  SetParm, which  *)
(* @tune, SETSYSPARM and the client's editor use, and Parse, which the     *)
(* loader, the importer, the repairer and the configurator use, accept     *)
(* different ones.  A reader gives the set of the one value it read, and   *)
(* the empty set for a value it refuses.                                   *)
(***************************************************************************)
EXTENDS Integers, Sequences, SequencesExt, Functions

CONSTANTS
    Params,        \* the parameters of the table
    ParamOf,       \* the parameter of each name: its own, and a legacy one
    Dropped,       \* the names Fuzzball has and this server has not
    ParamType,     \* the type of each parameter
    Default,       \* the compiled-in value of each
    WriteLevel,    \* the level it takes to set each
    Nullable,      \* the parameters that may be empty
    RefType,       \* the type of object a dbref parameter wants
    PlayerStart,   \* the parameter player_start
    Things,        \* the objects of the world
    Root,          \* #0
    God,           \* #1
    MadeAs,        \* the type of each object when the world was made
    MadeTypes,     \* the types of the objects made in a freed ref
    LevelOf,       \* the level of each player
    FirstLetter,   \* the first letter of each word
    Typed,         \* the values offered for each parameter
    Dumps,         \* the parameter blocks of the dumps the world may come from
    TicksPerSecond,\* the unit of a time.Duration
    SpanWidth      \* and its width: durations are counted modulo this

VARIABLES
    tuned,       \* the live table: values, default marks, and whether it is dirty
    kind,        \* the type of each object
    touched,     \* the objects that are dirty
    stored,      \* the store: the parameter rows and the type of each object
    serving,     \* whether a server has the world
    configured   \* the parameters an import or the configurator has set

tuning == <<tuned, kind, touched, stored, serving, configured>>

-----------------------------------------------------------------------------
\* Values (tune.go).

Wrapped(n) == LET r == n % SpanWidth IN IF r < SpanWidth \div 2 THEN r ELSE r - SpanWidth
Span(secs) == Wrapped(secs * TicksPerSecond)

SecondsIn(unit) ==
    CASE unit = "d" -> 86400 [] unit = "h" -> 3600 [] unit = "m" -> 60 [] unit = "s" -> 1
ClockSeconds(c) == c[1] * 86400 + c[2] * 3600 + c[3] * 60 + c[4]
UnitSeconds(u)  == FoldLeft(LAMBDA sum, part : sum + part[1] * SecondsIn(part[2]), 0, u)

First(text) ==
    CASE text.form = "word" -> FirstLetter[text.word]
      [] text.form = "number" /\ text.number \in 0 .. 1 -> <<"0", "1">>[text.number + 1]
      [] OTHER -> "other"

TuneTimespanSeconds(text) ==
    CASE text.form = "clock" -> {ClockSeconds(text.clock)}
      [] text.form = "units" -> {UnitSeconds(text.units)} \ {0}
      [] OTHER -> {}

Resolved(text) ==
    CASE text.form = "ref" -> {text.ref} [] text.form = "name" -> {text.named} [] OTHER -> {}

\* What SetParm makes of a value that is not empty.
ReadStrictly(p, text) ==
    CASE ParamType[p] = "string" -> {text}
      [] ParamType[p] = "boolean" /\ First(text) \in {"y", "1"} -> {TRUE}
      [] ParamType[p] = "boolean" /\ First(text) \in {"n", "0"} -> {FALSE}
      [] ParamType[p] = "integer" /\ text.form = "number" -> {text.number}
      [] ParamType[p] = "timespan" -> {Span(s) : s \in TuneTimespanSeconds(text)}
      [] ParamType[p] = "dbref" -> {o \in Resolved(text) : kind[o] = RefType[p]}
      [] OTHER -> {}

ParseTimespan(text) ==
    CASE text.form = "clock" -> {Span(ClockSeconds(text.clock))}
      [] text.form = "units" /\ Len(text.units) = 1 /\ text.units[1][2] = "d" ->
           {Span(UnitSeconds(text.units))}
      [] text.form = "number" -> {Span(text.number)}
      [] OTHER -> {}

Yes == [form : {"word"}, word : {"yes", "y", "true", "on"}] \cup [form : {"number"}, number : {1}]
No  == [form : {"word"}, word : {"no", "n", "false", "off"}] \cup [form : {"number"}, number : {0}]

Parse(p, text) ==
    CASE ParamType[p] = "string" -> IF text.form = "empty" /\ p \notin Nullable THEN {} ELSE {text}
      [] ParamType[p] = "boolean" /\ text \in Yes -> {TRUE}
      [] ParamType[p] = "boolean" /\ text \in No -> {FALSE}
      [] ParamType[p] = "integer" /\ text.form = "number" -> {text.number}
      [] ParamType[p] = "timespan" -> ParseTimespan(text)
      [] ParamType[p] = "dbref" /\ text.form = "ref" -> {text.ref}
      [] OTHER -> {}

\* Go's division, which truncates.
Quotient(a, b)  == IF a < 0 THEN -(-a \div b) ELSE a \div b
Remainder(a, b) == a - b * Quotient(a, b)

MutantMinutes(d) ==
    LET secs == Quotient(d, TicksPerSecond)
        rest == Remainder(secs, 86400)
    IN  [form |-> "clock",
         clock |-> <<Quotient(secs, 86400), Quotient(rest, 3600), Quotient(rest, 60), Remainder(rest, 60)>>]

FormatTimespan(d) ==
    LET secs == Quotient(d, TicksPerSecond)
        rest == Remainder(secs, 86400)
    IN  [form |-> "clock",
         clock |-> <<Quotient(secs, 86400), Quotient(rest, 3600),
                     Quotient(Remainder(rest, 3600), 60), Remainder(rest, 60)>>]

Format(p, v) ==
    CASE ParamType[p] = "string" -> v
      [] ParamType[p] = "boolean" -> [form |-> "word", word |-> IF v THEN "yes" ELSE "no"]
      [] ParamType[p] = "integer" -> [form |-> "number", number |-> v]
      [] ParamType[p] = "dbref" -> [form |-> "ref", ref |-> v]
      [] ParamType[p] = "timespan" -> FormatTimespan(v)

-----------------------------------------------------------------------------
\* The table.

NewSet == [value |-> Default, default |-> Params, dirty |-> FALSE]

SetTo(t, p, v)  == [t EXCEPT !.value[p] = v, !.default = @ \ {p}]
Reset(t, p)     == [t EXCEPT !.value[p] = Default[p], !.default = @ \cup {p}]
Dirtied(t)      == [t EXCEPT !.dirty = TRUE]
SetString(t, p, text) ==
    IF Parse(p, text) = {} THEN t ELSE SetTo(t, p, CHOOSE v \in Parse(p, text) : TRUE)

\* World.SetParm: the permission first, the reset before the empty value.
SetParm(level, name, reset, text) ==
    /\ name \in DOMAIN ParamOf
    /\ WriteLevel[ParamOf[name]] <= level
    /\ LET p == ParamOf[name]
       IN  \/ reset /\ tuned' = Dirtied(Reset(tuned, p))
           \/ /\ ~reset
              /\ text.form = "empty" => p \in Nullable
              /\ \E v \in ReadStrictly(p, text) : tuned' = Dirtied(SetTo(tuned, p, v))

IsPlayer(x) == x \in DOMAIN LevelOf /\ kind[x] = "player"

\* @tune, which nothing forced reaches; SETSYSPARM, in a wizard's program and
\* not forced either, at the level of the player it runs for; and a wizard's
\* client saving a parameter, whose text has to be one line.
Tune(x, name, reset, text) ==
    /\ serving /\ IsPlayer(x)
    /\ SetParm(LevelOf[x], name, reset, text)
    /\ UNCHANGED <<kind, touched, stored, serving, configured>>
SetSysparm(x, name, reset, text) ==
    /\ serving /\ kind[x] # "garbage"
    /\ SetParm(LevelOf[x], name, reset, text)
    /\ UNCHANGED <<kind, touched, stored, serving, configured>>
EditorSaves(x, name, text) ==
    /\ serving /\ IsPlayer(x) /\ LevelOf[x] >= 4
    /\ SetParm(LevelOf[x], name, FALSE, text)
    /\ UNCHANGED <<kind, touched, stored, serving, configured>>

\* Fix puts a player_start that is not a room back to #0.
Fix ==
    /\ serving /\ PlayerStart \in Params
    /\ kind[tuned.value[PlayerStart]] # "room"
    /\ tuned' = Dirtied(SetString(tuned, PlayerStart, [form |-> "ref", ref |-> Root]))
    /\ UNCHANGED <<kind, touched, stored, serving, configured>>

-----------------------------------------------------------------------------
\* The objects the parameters name.

TuneNamesObject(o) == \E p \in Params : ParamType[p] = "dbref" /\ tuned.value[p] = o

Becomes(o, type) ==
    /\ kind' = [kind EXCEPT ![o] = type]
    /\ touched' = touched \cup {o}
    /\ UNCHANGED <<tuned, stored, serving, configured>>

Recycle(o) ==
    /\ serving /\ o # Root /\ kind[o] \in {"room", "thing"}
    /\ ~TuneNamesObject(o)
    /\ Becomes(o, "garbage")

\* A toad is a thing, or garbage under toad_recycle.
ToadPlayer(o) ==
    /\ serving /\ o # God /\ IsPlayer(o) /\ LevelOf[o] < 4
    /\ ~TuneNamesObject(o)
    /\ \E type \in {"thing", "garbage"} : Becomes(o, type)

\* A new object takes a freed ref.
Create(o) ==
    /\ serving /\ kind[o] = "garbage"
    /\ \E type \in MadeTypes : Becomes(o, type)

-----------------------------------------------------------------------------
\* The store: what has changed is written whole, in one transaction.

Rows(t) == [p \in Params |-> Format(p, t.value[p])]

FlushTune ==
    /\ serving
    /\ tuned.dirty \/ touched # {}
    /\ stored' = [rows |-> IF tuned.dirty THEN Rows(tuned) ELSE stored.rows,
                  kind |-> [o \in Things |-> IF o \in touched THEN kind[o] ELSE stored.kind[o]]]
    /\ tuned' = [tuned EXCEPT !.dirty = FALSE]
    /\ touched' = {}
    /\ UNCHANGED <<kind, serving, configured>>

MutantForgetsTune(t, snapshot) == t

\* Engine.requeue, for a snapshot that was not written; taking it had cleared
\* every mark.
Requeue(t, snapshot) == IF snapshot.dirty THEN Dirtied(t) ELSE t
FlushFails ==
    /\ serving /\ tuned.dirty
    /\ tuned' = Requeue([tuned EXCEPT !.dirty = FALSE], tuned)
    /\ UNCHANGED <<kind, touched, stored, serving, configured>>

\* A row that does not parse is left out; a server that stops forgets the rest.
LoadTune(rows) ==
    LET good == {p \in DOMAIN rows : Parse(p, rows[p]) # {}}
    IN  [value |-> [p \in Params |->
                      IF p \in good THEN CHOOSE v \in Parse(p, rows[p]) : TRUE ELSE Default[p]],
         default |-> Params \ good,
         dirty |-> FALSE]
StartServer ==
    /\ ~serving
    /\ serving' = TRUE
    /\ tuned' = LoadTune(stored.rows) /\ kind' = stored.kind /\ touched' = {}
    /\ UNCHANGED <<stored, configured>>
StopServer ==
    /\ serving
    /\ serving' = FALSE
    /\ tuned' = NewSet /\ kind' = stored.kind /\ touched' = {}
    /\ UNCHANGED <<stored, configured>>

\* The configurator writes the row of one parameter, read by Parse and written
\* by Format, or deletes it.
PostTune(p, text) ==
    /\ ~serving
    /\ \E v \in Parse(p, text) : stored' = [stored EXCEPT !.rows = (p :> Format(p, v)) @@ @]
    /\ configured' = configured \cup {p}
    /\ UNCHANGED <<tuned, kind, touched, serving>>
ResetTune(p) ==
    /\ ~serving /\ p \in DOMAIN stored.rows
    /\ stored' = [stored EXCEPT !.rows = Restrict(@, DOMAIN @ \ {p})]
    /\ UNCHANGED <<tuned, kind, touched, serving, configured>>

-----------------------------------------------------------------------------
Sets(line) == line.kind = "param" /\ line.name \in DOMAIN ParamOf /\ ~line.default

\* A dump's parameter block, a line at a time (importer/params.go): a comment,
\* a line without a value, a name of Fuzzball's that was dropped, a parameter
\* marked as a default, whatever its value, and a value of its own.
ApplyParam(t, line) ==
    CASE line.kind # "param" \/ line.name \in Dropped \/ line.name \notin DOMAIN ParamOf -> t
      [] OTHER ->
           LET p == ParamOf[line.name]
           IN  IF line.default THEN Reset(t, p)
               ELSE IF Parse(p, line.text) = {} THEN t
               ELSE Dirtied(SetString(t, p, line.text))
Imported(dump) == FoldLeft(ApplyParam, NewSet, dump)

TuneInit ==
    /\ \E dump \in Dumps :
          LET t == Imported(dump)
          IN  /\ stored = [rows |-> IF t.dirty THEN Rows(t) ELSE <<>>, kind |-> MadeAs]
              /\ configured = {ParamOf[dump[i].name] :
                                 i \in {i \in DOMAIN dump : Sets(dump[i])}}
    /\ tuned = NewSet /\ kind = MadeAs /\ touched = {} /\ serving = FALSE

\* A behaviour is about the parameters in view; the others keep their values.
TuneNext(view) ==
    \/ \E x \in DOMAIN LevelOf, name \in DOMAIN ParamOf, reset \in BOOLEAN :
          /\ ParamOf[name] \in view
          /\ \E text \in Typed[ParamOf[name]] :
                Tune(x, name, reset, text) \/ SetSysparm(x, name, reset, text)
    \/ \E x \in DOMAIN LevelOf, p \in view : \E text \in Typed[p] : EditorSaves(x, p, text)
    \/ PlayerStart \in view /\ Fix
    \/ FlushTune
    \/ FlushFails
    \/ StartServer
    \/ StopServer
    \/ \E p \in view : \E text \in Typed[p] : PostTune(p, text)
    \/ \E p \in view : ResetTune(p)
    \/ PlayerStart \in view /\ \E o \in Things : Recycle(o)
    \/ PlayerStart \in view /\ \E o \in Things : ToadPlayer(o)
    \/ PlayerStart \in view /\ \E o \in Things : Create(o)
=============================================================================
