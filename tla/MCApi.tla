-------------------------------- MODULE MCApi --------------------------------
(***************************************************************************)
(* The generator over every grammar of three rules S, A and B whose bodies *)
(* are taken from a small family, and over short texts of single           *)
(* definitions, good and bad, for the order of the calls. The characters   *)
(* are x and y (120, 121).                                                 *)
(***************************************************************************)
EXTENDS ApiMeaning

E(e) == [pre |-> << >>, elem |-> e]
x == E([Sem("TLS") EXCEPT !.str = <<120>>])
y == E([Sem("TBS") EXCEPT !.str = <<121>>])
last == E([Sem("TBS") EXCEPT !.str = <<LUINT_MAX>>])
nothing == E(Sem("TLS"))
Mod(pre, e) == [pre |-> pre, elem |-> e.elem]
Name(n) == E([Sem("RNM") EXCEPT !.name = n])
Back(n) == E([Sem("BKR") EXCEPT !.name = n, !.min = ID_BKR_MODE_U, !.max = ID_BKR_CASE_I])
Udt(n, empty) == E([Sem("UDT") EXCEPT !.name = n, !.empty = empty])
Group(body) == E([id |-> "GROUP", body |-> body])
Option(body) == E([id |-> "OPTION", body |-> body])
Inf == 255
S == Name("S")
A == Name("A")
B == Name("B")

MCBodies ==
  {<<<<x>>>>,                                                   \* "x"
   <<<<x, A>>, <<nothing>>>>,                                   \* "x" A / ""
   <<<<B>>>>,                                                   \* B
   <<<<B, A, S, x>>, <<y>>>>,                                   \* B A S "x" / "y"
   <<<<Option(<<<<B>>>>), S>>, <<y>>>>,                         \* [B] S / "y"
   <<<<Mod(<<SemRep(0, Inf)>>, Group(<<<<A>>, <<x>>>>)), y>>>>, \* *(A / "x") "y"
   <<<<Mod(<<Sem("AND")>>, B), Udt("e_U", TRUE), A>>>>,         \* &B e_U A
   <<<<x, S, y>>, <<Back("B"), Mod(<<SemRep(1, 1)>>, x)>>>>,    \* "x" S "y" / \B 1*1"x"
   <<<<y, Mod(<<Sem("BKN"), SemRep(1, 2)>>, x)>>,               \* "y" !!1*2"x" / A / \e_U
     <<A>>, <<Back("e_U"), Udt("e_U", TRUE)>>>>}

Def(name, body, chars, syntax) ==
  [name |-> name, inc |-> FALSE, body |-> body, chars |-> chars, syntax |-> syntax]
More(name, body) == [Def(name, body, "lf", "abnf") EXCEPT !.inc = TRUE]

MCGrammars == {<<Def("S", s, "lf", "sabnf"), Def("A", a, "lf", "sabnf"), Def("B", b, "lf", "sabnf")>> :
                 s \in MCBodies, a \in MCBodies, b \in MCBodies}

MCPieces == {<<Def("S", <<<<A, x>>, <<y>>>>, "crlf", "abnf")>>,
             <<Def("A", <<<<y>>>>, "crlf", "sabnf")>>,
             <<More("A", <<<<x, x>>>>)>>,
             <<Def("B", <<<<y>>>>, "bad", "abnf")>>,
             <<Def("B", <<<<y>>>>, "lf", "error")>>,
             << >>}

\* a bad range, and the largest character there is
MCOdd == {<<Def("S", <<<<x>>>>, "lf", "abnf"), Def("B", <<<<elem>>>>, "lf", "abnf")>> :
            elem \in {Mod(<<SemRep(2, 1)>>, x), last}}

MCInputs == MCGrammars \cup MCPieces \cup MCOdd
MCProtected == {<< >>, <<1, 0>>}
MCProbes == BoundedSeq({120, 121}, 3)

\* B is done while S is open, by way of A, which is not: B A S "x" / "y" with an empty B and A = B
MCMutual == {<<Def("S", <<<<B, A, S, x>>, <<y>>>>, "lf", "sabnf"),
               Def("A", <<<<B>>>>, "lf", "sabnf"),
               Def("B", <<<<x, A>>, <<nothing>>>>, "lf", "sabnf")>>} \cup MCPieces
=============================================================================
