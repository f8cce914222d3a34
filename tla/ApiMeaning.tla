------------------------------ MODULE ApiMeaning ------------------------------
(***************************************************************************)
(* The phases of Api with what they compute, and what a parser that is     *)
(* handed out and the attributes that are reported are said to be.         *)
(***************************************************************************)
EXTENDS Api, AttributesMeaning

CONSTANTS
  LUINT_MAX,       \* the largest luint
  Probes           \* strings to try the maps of a parser on

P == INSTANCE Peg

\* vApiPppt refuses a grammar with the largest character there is
NoRoom(g) == AcharMax(g) = LUINT_MAX

(***************************************************************************)
(* What the maps of a grammar may say of an opcode or rule that fails,     *)
(* matches the next character, or matches nothing, for every string. Not   *)
(* of opcodes under a look-behind, which are given none.                   *)
(***************************************************************************)
Mapped(g) ==
  Lfp(g, LAMBDA known :
    {g.rules[r].op : r \in DOMAIN g.rules}
      \cup UNION {{g.ops[i].kids[k] : k \in DOMAIN g.ops[i].kids} : i \in known}
      \cup {Child(i) : i \in {i \in known : g.ops[i].id \in {"REP"} \cup LookAheadIds}})

Predicts(value, r) ==
  CASE value = "NOMATCH" -> ~ r.ok
    [] value = "MATCH"   -> r.ok /\ r.len = 1
    [] value = "EMPTY"   -> r.ok /\ r.len = 0
    [] OTHER             -> TRUE

MapsAreMeaning(g) ==
  \A s \in Probes :
    LET c == IF s = << >> THEN Eos(g) ELSE s[1]
        env == [g |-> g, input |-> s, end |-> Len(s), behind |-> Len(s), nodes |-> {},
                frames |-> {}, refs |-> P!NoRefs(g)]
    IN c \in g.pppt.min..Eos(g) =>
         /\ \A i \in Mapped(g) \ {i \in DOMAIN g.ops : g.ops[i].id \in {"RNM"} \cup NoMapIds} :
              g.pppt.op[i][c] # "ACTIVE" => Predicts(g.pppt.op[i][c], P!Eval(env, i, 0))
         /\ \A r \in DOMAIN g.rules :
              g.pppt.rule[r][c] # "ACTIVE" => Predicts(g.pppt.rule[r][c], P!EvalRule(env, r, 0))


HaveAttrs == valid.semantics /\ ~ vpAttrsCtx.none /\ vpAttrsCtx.ops = grammar.ops

\* no attribute is reported that the grammar does not have (rule-attributes.c), and the groups of
\* mutually recursive rules are the ones there are (rule-dependencies.c)
AttributesSound ==
  HaveAttrs => /\ Sound(grammar, vpAttrsCtx.rules)
               /\ GroupsAreComponents(grammar, vpAttrsCtx.groups)

(***************************************************************************)
(* Where no two rules are mutually recursive, the attributes are exact and *)
(* a grammar is accepted only if no rule of it is left recursive, cyclic   *)
(* or infinite (rule-attributes.c).                                        *)
(***************************************************************************)
AttributesExact ==
  HaveAttrs /\ (\A r \in DOMAIN grammar.rules : vpAttrsCtx.groups[r] = 0)
    => Exact(grammar, vpAttrsCtx.rules)

(***************************************************************************)
(* attributes.h:89: every input grammar is scanned to determine in advance *)
(* whether any rule is left recursive.                                     *)
(***************************************************************************)
LeftRecursionFound == HaveAttrs /\ valid.attributes => LeftRecursive(grammar) = {}
===============================================================================
