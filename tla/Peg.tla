-------------------------------- MODULE Peg --------------------------------
(***************************************************************************)
(* What a grammar means, independently of how the parser works it out: the *)
(* prioritized-choice reading that SABNF.md gives of the operators. Eval   *)
(* returns whether the opcode matches at an offset, the length matched,    *)
(* and the AST records of the match as a sequence of                       *)
(* <<index, "PRE" or "POST", offset, length>>.                             *)
(*                                                                         *)
(* env: g the grammar, input, end the offset that stops the phrase,        *)
(* behind the maximum look-behind distance, nodes the indexes recorded,    *)
(* frames the rules that hold a frame of parent-mode references, refs what *)
(* the references stand for at this point:                                 *)
(*   last      the last phrase of a name matched in universal mode         *)
(*   frame     the phrases of a name matched below the parent, in parent mode *)
(*   lastLost, frameLost  names a failed branch or a look-around matched   *)
(*   plain     no reference was taken that the documents leave undecided   *)
(* For checking only: the definitions are recursive.                       *)
(***************************************************************************)
EXTENDS Grammar, FiniteSets

LOCAL Fail(refs)        == [ok |-> FALSE, len |-> 0, tree |-> << >>, refs |-> refs]
LOCAL Found(n, t, refs) == [ok |-> TRUE, len |-> n, tree |-> t, refs |-> refs]
LOCAL Check(b, refs)    == IF b THEN Found(0, << >>, refs) ELSE Fail(refs)

LOCAL CharsAt(env, str, offset, fold) ==
  /\ offset + Len(str) =< env.end
  /\ \A j \in 1..Len(str) : str[j] = IF fold THEN Lower(env.input[offset + j]) ELSE env.input[offset + j]

-----------------------------------------------------------------------------
(* Back references.                                                        *)

BkrNames(g, mode) == {g.ops[i].index : i \in {i \in DOMAIN g.ops : g.ops[i].id = "BKR" /\ g.ops[i].min = mode}}

NoRefs(g) ==
  [last |-> [n \in BkrNames(g, ID_BKR_MODE_U) |-> << >>], lastLost |-> {},
   frame |-> [n \in BkrNames(g, ID_BKR_MODE_P) |-> << >>], frameLost |-> {}, plain |-> TRUE]

\* a branch that began with refs and got as far as after is given up
Withdraw(refs, after) ==
  [refs EXCEPT !.lastLost = after.lastLost \cup
                              {n \in DOMAIN refs.last : after.last[n] # refs.last[n]},
               !.frameLost = after.frameLost \cup
                              {n \in DOMAIN refs.frame : after.frame[n] # refs.frame[n]},
               !.plain = after.plain]

Note(refs, n, phrase) ==
  [refs EXCEPT !.last = [m \in DOMAIN @ |-> IF m = n THEN phrase ELSE @[m]],
               !.lastLost = @ \ {n},
               !.frame = [m \in DOMAIN @ |-> IF m = n THEN Append(@[m], phrase) ELSE @[m]]]

EnterFrame(refs) == [refs EXCEPT !.frame = [n \in DOMAIN @ |-> << >>], !.frameLost = {}]
LeaveFrame(refs, inner) ==
  [inner EXCEPT !.frame = [n \in DOMAIN @ |-> refs.frame[n] \o @[n]],
                !.frameLost = @ \cup refs.frameLost]

Refer(env, o, offset) ==
  LET refs == env.refs
      n == o.index
      universal == o.min = ID_BKR_MODE_U
      known == IF universal THEN refs.last[n] # << >> ELSE refs.frame[n] # << >>
      phrase == IF universal THEN refs.last[n] ELSE refs.frame[n][Len(refs.frame[n])]
      plain == IF universal THEN known /\ n \notin refs.lastLost
                            ELSE Len(refs.frame[n]) = 1 /\ n \notin refs.frameLost
      noted == [refs EXCEPT !.plain = @ /\ plain]
      Same(c, d) == IF o.max = ID_BKR_CASE_I THEN Lower(c) = Lower(d) ELSE c = d
  IN IF known /\ offset + phrase[2] =< env.end
           /\ \A j \in 1..phrase[2] : Same(env.input[offset + j], env.input[phrase[1] + j])
       THEN Found(phrase[2], << >>, noted) ELSE Fail(noted)

-----------------------------------------------------------------------------
\* F of a value that TLC evaluates once, wherever the definition is used
LOCAL With(v, F(_)) == CHOOSE x \in {F(r) : r \in {v}} : TRUE

RECURSIVE Eval(_, _, _), Choice(_, _, _), Sequence(_, _, _), Repeat(_, _, _, _)

\* the first of the opcodes kids that matches
Choice(env, kids, offset) ==
  IF kids = << >> THEN Fail(env.refs)
  ELSE With(Eval(env, Head(kids), offset), LAMBDA r :
         IF r.ok THEN r ELSE Choice([env EXCEPT !.refs = r.refs], Tail(kids), offset))

\* all of the opcodes kids, one after the other
Sequence(env, kids, offset) ==
  IF kids = << >> THEN Found(0, << >>, env.refs)
  ELSE With(Eval(env, Head(kids), offset), LAMBDA r :
         IF ~r.ok THEN r
         ELSE With(Sequence([env EXCEPT !.refs = r.refs], Tail(kids), offset + r.len), LAMBDA s :
                IF s.ok THEN Found(r.len + s.len, r.tree \o s.tree, s.refs) ELSE s))

\* as many nonempty matches of opcode i as there are, at most max
Repeat(env, i, offset, max) ==
  IF max = 0 THEN [count |-> 0, empty |-> FALSE, len |-> 0, tree |-> << >>, refs |-> env.refs]
  ELSE With(Eval(env, i, offset), LAMBDA r :
         IF ~r.ok \/ r.len = 0
           THEN [count |-> 0, empty |-> r.ok, len |-> 0, tree |-> r.tree, refs |-> r.refs]
           ELSE With(Repeat([env EXCEPT !.refs = r.refs], i, offset + r.len, max - 1), LAMBDA s :
                  [count |-> s.count + 1, empty |-> s.empty, len |-> r.len + s.len,
                   tree |-> r.tree \o s.tree, refs |-> s.refs]))

\* the child ends where the look-behind stands, k characters on
Behind(env, i, offset) ==
  With({[k |-> k, r |-> Eval([env EXCEPT !.end = offset, !.nodes = {}], i, offset - k)] :
          k \in 0..(IF offset < env.behind THEN offset ELSE env.behind)}, LAMBDA tries :
    LET lost == {Withdraw(env.refs, t.r.refs) : t \in tries} IN
    Check(\E t \in tries : t.r.ok /\ t.r.len = t.k,
          [env.refs EXCEPT !.lastLost = UNION {l.lastLost : l \in lost},
                           !.frameLost = UNION {l.frameLost : l \in lost},
                           !.plain = \A l \in lost : l.plain]))

Named(env, index, offset, r) ==
  IF ~r.ok THEN r
  ELSE LET s == [r EXCEPT !.refs = Note(@, index, <<offset, r.len>>)] IN
       IF index \notin env.nodes THEN s
       ELSE [s EXCEPT !.tree = <<<<index, "PRE", offset, r.len>>>> \o @
                                 \o <<<<index, "POST", offset, r.len>>>>]

EvalRule(env, rule, offset) ==
  LET framed == rule \in env.frames
      inner == [env EXCEPT !.refs = IF framed THEN EnterFrame(@) ELSE @]
  IN With(Eval(inner, env.g.rules[rule].op, offset), LAMBDA r :
       LET s == IF framed THEN [r EXCEPT !.refs = LeaveFrame(env.refs, @)] ELSE r IN
       Named(env, rule, offset, IF r.ok THEN s ELSE Fail(Withdraw(env.refs, s.refs))))

Eval(env, i, offset) ==
  LET o == env.g.ops[i]
      Ahead(Holds(_)) == With(Eval([env EXCEPT !.nodes = {}], i + 1, offset),
                              LAMBDA r : Check(Holds(r.ok), Withdraw(env.refs, r.refs)))
  IN CASE o.id = "ALT" -> Choice(env, o.kids, offset)
       [] o.id = "CAT" -> With(Sequence(env, o.kids, offset),
                               LAMBDA r : IF r.ok THEN r ELSE Fail(Withdraw(env.refs, r.refs)))
       [] o.id = "REP" -> With(Repeat(env, i + 1, offset, o.max), LAMBDA r :
                            IF r.empty \/ r.count >= o.min THEN Found(r.len, r.tree, r.refs)
                                                           ELSE Fail(Withdraw(env.refs, r.refs)))
       [] o.id = "RNM" -> EvalRule(env, o.index, offset)
       [] o.id = "BKR" -> Refer(env, o, offset)
       [] o.id = "TRG" -> IF offset < env.end /\ env.input[offset + 1] \in o.min..o.max
                            THEN Found(1, << >>, env.refs) ELSE Fail(env.refs)
       [] o.id \in {"TLS", "TBS"} ->
            IF CharsAt(env, o.str, offset, o.id = "TLS")
              THEN Found(Len(o.str), << >>, env.refs) ELSE Fail(env.refs)
       [] o.id = "AND" -> Ahead(LAMBDA ok : ok)
       [] o.id = "NOT" -> Ahead(LAMBDA ok : ~ok)
       [] o.id = "BKA" -> Behind(env, i + 1, offset)
       [] o.id = "BKN" -> With(Behind(env, i + 1, offset), LAMBDA r : [r EXCEPT !.ok = ~@])
       [] o.id = "ABG" -> Check(offset = 0, env.refs)
       [] o.id = "AEN" -> Check(offset = Len(env.input), env.refs)

\* the meaning of a parse from rule start
Meaning(env, start, offset) == EvalRule(env, start, offset)

-----------------------------------------------------------------------------
(* The rules that have a name of a set below them, however deep.           *)

RECURSIVE NamesIn(_, _), HavingBelow(_, _, _)

NamesIn(g, i) ==
  LET o == g.ops[i] IN
  CASE o.id = "RNM" -> {o.index}
    [] o.id = "UDT" -> {Len(g.rules) + o.index}
    [] o.id \in ListIds -> UNION {NamesIn(g, o.kids[k]) : k \in DOMAIN o.kids}
    [] o.id \in NextIds -> NamesIn(g, i + 1)
    [] OTHER -> {}

HavingBelow(g, names, rules) ==
  LET more == {r \in DOMAIN g.rules : NamesIn(g, g.rules[r].op) \cap (names \cup rules) # {}} IN
  IF more = rules THEN rules ELSE HavingBelow(g, names, more)
=============================================================================
