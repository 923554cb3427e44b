------------------------------ MODULE MufMachine ------------------------------
(***************************************************************************)
(* The MUF virtual machine (internal/muf: interp.go, frame.go, prim.go,    *)
(* prim_stack.go): one frame running one compiled program, an instruction  *)
(* a step, within the instruction limits of its level; a READ or a SLEEP   *)
(* stops it until the server resumes it.                                   *)
(*                                                                         *)
(* The argument stack, the scopes, the calls and the loops are Go slices   *)
(* that are cut and grown in place: a slice cut to a length above its own  *)
(* has again what it last held there.  So each is the slots ever written   *)
(* and how many of them are in use.                                        *)
(*                                                                         *)
(* A value is a record of its kind t and a number n: the integer, the      *)
(* address, the ref, or which string; an array has its items instead.      *)
(***************************************************************************)
EXTENDS MufCompiler

CONSTANTS
    StackSize,     \* the argument stack's ceiling
    MaxCallDepth,  \* how deep calls may nest
    MaxCount,      \* the instructions after which a run is no longer followed
    Limits         \* the instruction limits in force: records of mlev, mode,
                   \* slice, total and preempt (the cap at level 4, 0 for none)

VARIABLES
    prog,       \* the program
    lim,        \* its level and limits
    frame,      \* the frame
    told,       \* what the program has told its user
    status,     \* running, yielded, read, asleep, done, failed, over
    local,      \* instructions since it was last resumed
    heard       \* the lines its user has answered with

vars == <<prog, lim, frame, told, status, local, heard>>

Int_(n)   == [t |-> "int", n |-> n]
Str_(n)   == [t |-> "str", n |-> n]
Obj_(n)   == [t |-> "obj", n |-> n]
Addr(n)   == [t |-> "addr", n |-> n]
Var_(k, n) == [t |-> k, n |-> n]
Arr_(s)   == [t |-> "arr", items |-> s]
Mark      == [t |-> "mark", n |-> 0]
Unset     == [t |-> "none", n |-> 0]     \* what a new scope holds

Truthy(v) == CASE v.t = "arr" -> v.items # <<>>
               [] v.t = "obj" -> v.n >= 0
               [] OTHER       -> v.n # 0 \/ v.t = "addr"

-----------------------------------------------------------------------------
\* Slices cut and grown in place.

Empty         == [slots |-> <<>>, n |-> 0]
Items(k)      == SubSeq(k.slots, 1, k.n)
Grow(k, v)    == [slots |-> IF k.n < Len(k.slots) THEN [k.slots EXCEPT ![k.n + 1] = v]
                            ELSE Append(k.slots, v),
                  n |-> k.n + 1]
Cut(k, n)     == [k EXCEPT !.n = n]
Top(k)        == k.slots[k.n]
Drop(k)       == IF k.n = 0 THEN k ELSE Cut(k, k.n - 1)
Write(k, s)   == [slots |-> s \o SubSeq(k.slots, Len(s) + 1, Len(k.slots)), n |-> Len(s)]

NewFrame(p) ==
    [pc |-> p.start, count |-> 0, mode |-> lim.mode, trys |-> <<>>,
     stack |-> Grow(Empty, Str_(1)), scopes |-> Empty, calls |-> Empty, fors |-> Empty,
     vars |-> <<Obj_(1), Obj_(0), Obj_(2), Str_(1)>> \o [i \in 1 .. p.vars - 4 |-> Int_(0)],
     lvars |-> [i \in 1 .. p.lvars |-> Int_(0)]]

-----------------------------------------------------------------------------
\* What an instruction comes to: the frame after it, whether it raised an
\* error, why the frame stops, and what it says.

Ok(f)  == [f |-> f, err |-> FALSE, stop |-> "", say |-> <<>>]
Bad(f) == [Ok(f) EXCEPT !.err = TRUE]

Ahead(f) == [f EXCEPT !.pc = @ + 1]

Push(f, v) ==
    IF f.stack.n >= StackSize THEN Bad(f) ELSE Ok([f EXCEPT !.stack = Grow(@, v)])

Literal(f, v) == Push(Ahead(f), v)

\* Pop one value for an instruction that then looks at it.
Popped(f, Use(_, _)) ==
    IF f.stack.n = 0 THEN Bad(f) ELSE Use([f EXCEPT !.stack = Drop(@)], Top(f.stack))

Call(f, addr) ==
    IF addr \notin 0 .. Len(prog.code) - 1 \/ f.calls.n >= MaxCallDepth THEN Bad(f)
    ELSE Ok([f EXCEPT !.calls = Grow(@, [pc |-> f.pc + 1, scopeBase |-> f.scopes.n]),
                      !.pc = addr])

\* From the outermost procedure, return is past the end of the program.
Ret(f) ==
    IF f.calls.n = 0 THEN [f EXCEPT !.pc = Len(prog.code)]
    ELSE [f EXCEPT !.calls = Drop(@), !.scopes = Cut(@, Top(f.calls).scopeBase),
                   !.pc = Top(f.calls).pc]

\* A scope for the procedure's variables, its arguments taken off the stack.
Enter(f, in) ==
    LET args == Items(f.stack)
        from == f.stack.n - in.args
        scope == [i \in 1 .. in.n |-> IF i <= in.args THEN args[from + i] ELSE Unset]
    IN  IF from < 0 THEN Bad(f)
        ELSE Ok(Ahead([f EXCEPT !.scopes = Grow(@, scope), !.stack = Cut(@, from)]))

-----------------------------------------------------------------------------
\* Variables, by the slot a variable value names.

Scope(f) == IF f.scopes.n = 0 THEN <<>> ELSE Top(f.scopes)

ReadVar(f, v) ==
    LET table == CASE v.t = "var" -> f.vars [] v.t = "lvar" -> f.lvars
                   [] v.t = "svar" -> Scope(f) [] OTHER -> <<>>
    IN  IF v.t # "arr" /\ v.n + 1 \in DOMAIN table THEN Push(f, table[v.n + 1]) ELSE Bad(f)

\* A scope grows to hold what is stored past its end.
SetScoped(f, slot, val) ==
    LET scope == Scope(f)
        room == scope \o [i \in 1 .. slot + 1 - Len(scope) |-> Obj_(-1)]
    IN  IF f.scopes.n = 0 THEN Bad(f)
        ELSE Ok([f EXCEPT !.scopes.slots[f.scopes.n] = [room EXCEPT ![slot + 1] = val]])

WriteVar(f, v, val) ==
    CASE v.t = "var" /\ v.n + 1 \in DOMAIN f.vars -> Ok([f EXCEPT !.vars[v.n + 1] = val])
      [] v.t = "lvar" /\ v.n + 1 \in DOMAIN f.lvars -> Ok([f EXCEPT !.lvars[v.n + 1] = val])
      [] v.t = "svar" -> SetScoped(f, v.n, val)
      [] OTHER -> Bad(f)

-----------------------------------------------------------------------------
\* Words that only rearrange the stack: how many values one looks at, and
\* which of them, from the deepest, it leaves.

Shuffle(p) ==
    CASE p = "pop"  -> <<1, <<>>>>
      [] p = "dup"  -> <<1, <<1, 1>>>>
      [] p = "swap" -> <<2, <<2, 1>>>>
      [] p = "over" -> <<2, <<1, 2, 1>>>>
      [] p = "nip"  -> <<2, <<2>>>>
      [] p = "tuck" -> <<2, <<2, 1, 2>>>>
      [] p = "rot"  -> <<3, <<2, 3, 1>>>>
      [] p = "-rot" -> <<3, <<3, 1, 2>>>>
      [] OTHER      -> <<0, <<>>>>

Lowest(s, k) == SubSeq(s, 1, Len(s) - k)
Highest(s, k) == SubSeq(s, Len(s) - k + 1, Len(s))

\* The group of n a rotation brings its deepest to the top of, or of -n its top
\* to the bottom.
Rotated(s, n) ==
    IF n > 1 THEN Lowest(s, n) \o Tail(Highest(s, n)) \o <<Highest(s, n)[1]>>
    ELSE IF n < -1 THEN Lowest(s, -n) \o <<Last(s)>> \o Front(Highest(s, -n))
    ELSE s

\* Words told how deep to reach by a number on the stack.
Counted(p, n, s) ==
    LET reach(k) == k \in 0 .. Len(s)
        none == [ok |-> FALSE, s |-> s]
        to(t) == [ok |-> TRUE, s |-> t]
    IN  CASE p = "pick" /\ n \in 1 .. Len(s) -> to(Append(s, s[Len(s) - n + 1]))
          [] p = "popn" /\ reach(n)          -> to(Lowest(s, n))
          [] p = "rotate" /\ (n \in -1 .. 1 \/ reach(n) \/ reach(-n)) -> to(Rotated(s, n))
          [] p = "put" /\ n \in 1 .. Len(s) - 1 ->
                to([Front(s) EXCEPT ![Len(s) - n] = Last(s)])
          [] p = "reverse" /\ reach(n)  -> to(Lowest(s, n) \o Reverse(Highest(s, n)))
          [] p = "lreverse" /\ reach(n) ->
                to(Append(Lowest(s, n) \o Reverse(Highest(s, n)), Int_(n)))
          [] p = "dupn" /\ reach(n)    -> to(s \o Highest(s, n))
          [] p = "ldup" /\ reach(n)    -> to(s \o <<Int_(n)>> \o Highest(s, n) \o <<Int_(n)>>)
          [] OTHER -> none

\* A mark is replaced by the number of values above it.
CloseMark(s) ==
    LET at == SelectLastInSeq(s, LAMBDA v : v = Mark)
    IN  IF at = 0 THEN [ok |-> FALSE, s |-> s]
        ELSE [ok |-> TRUE, s |-> Append(RemoveAt(s, at), Int_(Len(s) - at))]

Rearranged(p, s) ==
    LET none == [ok |-> FALSE, s |-> s]
        need == Shuffle(p)[1]
        from == Highest(s, need)
    IN  CASE need > Len(s) -> none
          [] need > 0 ->
                [ok |-> TRUE, s |-> Lowest(s, need) \o
                                    [i \in DOMAIN Shuffle(p)[2] |-> from[Shuffle(p)[2][i]]]]
          [] p = "{"     -> [ok |-> TRUE, s |-> Append(s, Mark)]
          [] p = "}"     -> CloseMark(s)
          [] p = "depth" -> [ok |-> TRUE, s |-> Append(s, Int_(Len(s)))]
          [] s = <<>>    -> none
          [] p = "?dup"  -> [ok |-> TRUE, s |-> IF Truthy(Last(s)) THEN Append(s, Last(s)) ELSE s]
          [] Last(s).t # "int" -> none
          [] OTHER -> Counted(p, Last(s).n, Front(s))

-----------------------------------------------------------------------------
\* Loops over numbers, and over the items an array had at the start.

BeginCounting(f) ==
    LET s == Items(f.stack)
        arg == Highest(s, 3)
    IN  IF \/ Len(s) < 3
           \/ \E i \in 1 .. 3 : arg[i].t # "int"
           \/ arg[3].n = 0
        THEN Bad(f)
        ELSE Ok(Ahead([f EXCEPT
                    !.stack = Cut(@, f.stack.n - 3),
                    !.fors = Grow(@, [items |-> <<>>, counting |-> TRUE, cur |-> arg[1].n,
                                      end |-> arg[2].n, step |-> arg[3].n])]))

BeginForeach(f) ==
    Popped(f, LAMBDA g, v :
        IF v.t # "arr" THEN Bad(g)
        ELSE Ok(Ahead([g EXCEPT
                 !.fors = Grow(@, [items |-> v.items, counting |-> FALSE, cur |-> 0,
                                   end |-> Len(v.items) - 1, step |-> 1])])))

PushAll(f, values) ==
    IF f.stack.n + Len(values) > StackSize THEN Bad(f)
    ELSE Ok([f EXCEPT !.stack = FoldLeft(Grow, @, values)])

\* The next value and true, or false; an exhausted loop stays where it is.
ForIterate(f) ==
    LET loop == Top(f.fors)
        past == IF loop.step > 0 THEN loop.cur > loop.end ELSE loop.cur < loop.end
        next == IF loop.counting THEN <<Int_(loop.cur)>>
                ELSE <<Int_(loop.cur), loop.items[loop.cur + 1]>>
    IN  IF f.fors.n = 0 THEN Bad(f)
        ELSE IF past THEN Push(Ahead(f), Int_(0))
        ELSE PushAll(Ahead([f EXCEPT !.fors.slots[f.fors.n].cur = @ + loop.step]),
                     Append(next, Int_(1)))

-----------------------------------------------------------------------------
\* Guarded blocks.

\* The handler, and how much of each stack the block may not disturb.
Guard(f, in, n) ==
    Ok(Ahead([f EXCEPT !.trys = Append(@, [catch |-> in.n, stack |-> f.stack.n - n,
                 calls |-> f.calls.n, fors |-> f.fors.n, scopes |-> f.scopes.n])]))

Try(f, in) ==
    Popped(f, LAMBDA g, v :
        IF \/ v.t # "int"
           \/ v.t = "int" /\ (v.n < 0 \/ v.n > g.stack.n)
        THEN Bad(g)
        ELSE IF g.trys # <<>> /\ g.stack.n - Last(g.trys).stack < v.n
        THEN Bad(g)   \* stack protection fault
        ELSE Guard(g, in, v.n))

Unwind(f) ==
    LET t == Last(f.trys)
    IN  [f EXCEPT !.trys = Front(@), !.pc = t.catch,
                  !.stack = Cut(@, t.stack), !.calls = Cut(@, t.calls),
                  !.fors = Cut(@, t.fors), !.scopes = Cut(@, t.scopes)]

-----------------------------------------------------------------------------
\* Primitives.

Notify(f) ==
    LET s == Items(f.stack)
        arg == Highest(s, 2)
    IN  IF Len(s) < 2 \/ arg[2].t # "str" \/ arg[1].t # "obj" THEN Bad(f)
        ELSE [Ok(Ahead([f EXCEPT !.stack = Cut(@, f.stack.n - 2)])) EXCEPT !.say = <<arg[2].n>>]

ArrayMake(f) ==
    LET s == Items(f.stack)
        n == Last(s).n
    IN  IF s = <<>> \/ Last(s).t # "int" \/ n \notin 0 .. Len(s) - 1 THEN Bad(f)
        ELSE Ok(Ahead([f EXCEPT
                 !.stack = Grow(Cut(@, f.stack.n - 1 - n), Arr_(Highest(Front(s), n)))]))

Then(r) == IF r.err THEN r ELSE [r EXCEPT !.f = Ahead(@)]

Primitive(f, p) ==
    CASE p = "exit"    -> Ok(Ret(f))
      [] p = "execute" -> Popped(f, LAMBDA g, v : IF v.t = "addr" THEN Call(g, v.n) ELSE Bad(g))
      [] p = "for"     -> BeginCounting(f)
      [] p = "foreach" -> BeginForeach(f)
      [] p = "foriter" -> ForIterate(f)
      [] p = "forpop"  -> Ok(Ahead([f EXCEPT !.fors = Drop(@)]))
      [] p = "trypop"  -> Ok(Ahead([f EXCEPT !.trys = IF @ = <<>> THEN @ ELSE Front(@)]))
      [] p = "catch"   -> Literal(f, Str_(-1))
      [] p = "read"    -> [Ok(Ahead(f)) EXCEPT !.stop = "read"]
      [] p = "sleep"   -> Popped(f, LAMBDA g, v : IF v.t = "int" /\ v.n >= 0
                              THEN [Ok(Ahead(g)) EXCEPT !.stop = "asleep"] ELSE Bad(g))
      [] p = "abort"   -> Bad(f)
      [] p = "notify"  -> Notify(f)
      [] p = "array_make" -> ArrayMake(f)
      [] p \in {"preempt", "foreground", "background"} -> Ok(Ahead([f EXCEPT !.mode = p]))
      [] p = "@" -> Then(Popped(f, ReadVar))
      [] p = "!" -> Then(Popped(f, LAMBDA g, v : Popped(g, LAMBDA h, val : WriteVar(h, v, val))))
      [] OTHER ->
            LET r == Rearranged(p, Items(f.stack))
            IN  IF r.ok /\ Len(r.s) <= StackSize
                THEN Ok(Ahead([f EXCEPT !.stack = Write(@, r.s)])) ELSE Bad(f)

Step(f, in) ==
    CASE in.op = "func"    -> Enter(f, in)
      [] in.op = "int"     -> Literal(f, Int_(in.n))
      [] in.op = "string"  -> Literal(f, Str_(in.n))
      [] in.op = "address" -> Literal(f, Addr(in.n))
      [] in.op \in {"var", "lvar", "svar"} -> Literal(f, Var_(in.op, in.n))
      [] in.op = "svar!" -> Then(Popped(f, LAMBDA g, v : SetScoped(g, in.n, v)))
      [] in.op = "jmp"   -> Ok([f EXCEPT !.pc = in.n])
      [] in.op = "if"    -> Popped(f, LAMBDA g, v : IF Truthy(v) THEN Ok(Ahead(g))
                                                    ELSE Ok([g EXCEPT !.pc = in.n]))
      [] in.op = "exec"  -> Popped(f, LAMBDA g, v : IF v.t \in {"int", "addr"}
                                                    THEN Call(g, v.n) ELSE Bad(g))
      [] in.op = "try"   -> Try(f, in)
      [] in.op = "prim"  -> Primitive(f, in.prim)

-----------------------------------------------------------------------------
\* The run loop: each instruction is counted, then the limits are looked at,
\* then it runs.

Inside == frame.pc \in 0 .. Len(prog.code) - 1

Count == frame.count + 1

Preempting == frame.mode = "preempt"

\* A preempting program has a cap on each run, at level 4 if one is set.
OverCap ==
    /\ Preempting
    /\ IF lim.mlev = 4 THEN lim.preempt > 0 /\ local + 1 >= lim.preempt
       ELSE local + 1 >= lim.total

SliceEnds == ~Preempting /\ Count > 4 * lim.slice /\ local + 1 >= lim.slice

MutantLevelOneOnly == ~OverCap /\ ~SliceEnds /\ lim.mlev = 1 /\ Count > lim.total

\* Below level 3 there is a ceiling on all its runs together.
OverTotal ==
    /\ ~OverCap /\ ~SliceEnds
    /\ lim.mlev < 3
    /\ Count > (IF lim.mlev = 2 THEN 4 * lim.total ELSE lim.total)

Halt ==
    /\ status = "running" /\ ~Inside
    /\ status' = "done"
    /\ UNCHANGED <<prog, lim, frame, told, local, heard>>

\* Neither limit can be caught.
Stop ==
    /\ status = "running" /\ Inside
    /\ OverCap \/ OverTotal
    /\ status' = "over"
    /\ frame' = [frame EXCEPT !.count = Count]
    /\ UNCHANGED <<prog, lim, told, local, heard>>

Yield ==
    /\ status = "running" /\ Inside
    /\ SliceEnds
    /\ status' = "yielded"
    /\ frame' = [frame EXCEPT !.count = Count]
    /\ UNCHANGED <<prog, lim, told, local, heard>>

After(r) ==
    /\ frame' = IF r.err /\ r.f.trys # <<>> THEN Unwind(r.f) ELSE r.f
    /\ status' = CASE r.err /\ r.f.trys = <<>> -> "failed"
                   [] r.err \/ r.stop = ""     -> "running"
                   [] OTHER                    -> r.stop
    /\ told' = told \o r.say

Execute ==
    /\ status = "running" /\ Inside
    /\ ~OverCap /\ ~SliceEnds /\ ~OverTotal
    /\ Count <= MaxCount
    /\ local' = IF Preempting /\ lim.mlev = 4 /\ lim.preempt = 0 THEN 0 ELSE local + 1
    /\ After(Step([frame EXCEPT !.count = Count], prog.code[frame.pc + 1]))
    /\ UNCHANGED <<prog, lim, heard>>

\* The server runs it again: its turn, the end of its sleep, or a line.
Resume ==
    /\ status \in {"yielded", "asleep"}
    /\ status' = "running"
    /\ local' = 0
    /\ UNCHANGED <<prog, lim, frame, told, heard>>

ReadLine(line) ==
    /\ status = "read"
    /\ local' = 0
    /\ heard' = Append(heard, line)
    /\ LET r == Push(frame, Str_(line))
       IN  frame' = r.f /\ status' = (IF r.err THEN "failed" ELSE "running")
    /\ UNCHANGED <<prog, lim, told>>
===============================================================================
