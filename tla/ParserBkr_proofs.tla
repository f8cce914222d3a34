--------------------------- MODULE ParserBkr_proofs ---------------------------
(***************************************************************************)
(* Proofs about the back reference objects, for every grammar, every input *)
(* and every callback: their stacks follow the parser's, and no reference  *)
(* stands for a phrase that its name did not match.                        *)
(***************************************************************************)
EXTENDS ParserBkr, WellFoundedInduction, SequenceTheorems, FiniteSetTheorems, TLAPS

-----------------------------------------------------------------------------
(* The inductive invariant.                                                *)

(***************************************************************************)
(* What an object sees of the parser's stack: of each frame, whether it is *)
(* a rule's, which rule's opcodes it is in (its own, for a rule), and how  *)
(* many checkpoints its operator sets.                                     *)
(***************************************************************************)
OpAt(g, c, i) == IF i = 0 THEN StartOp(c.start) ELSE g.ops[i]
RulesUpTo(g, c, st, n) == {m \in 1..n : OpAt(g, c, st[m].op).id = "RNM"}
LastRule(R) == CHOOSE m \in R : \A k \in R : k =< m

Hooks(id) == CASE id = "CAT" -> 1 [] id = "REP" -> 2 [] OTHER -> 0

SeenAt(g, c, st, n) ==
  [rule |-> OpAt(g, c, st[n].op).id = "RNM",
   index |-> OpAt(g, c, st[LastRule(RulesUpTo(g, c, st, n))].op).index,
   hooks |-> Hooks(OpAt(g, c, st[n].op).id)]

SeenIn(g, c, st) == [n \in 1..Len(st) |-> SeenAt(g, c, st, n)]

\* the first frame is a rule's, and an operator is in the rule of the frame below it
WellSeen(s, n) ==
  /\ n \in Nat /\ 1..n \subseteq DOMAIN s
  /\ \A k \in 1..n :
       /\ s[k].rule \in BOOLEAN
       /\ s[k].hooks \in 0..2
       /\ k = 1 => s[k].rule
       /\ s[k].rule \/ s[k].index = s[k - 1].index

(***************************************************************************)
(* Of the frames 1..n of s: how many are rules, how many are rules that    *)
(* hold a frame of parent mode, and how many checkpoints b has for them.   *)
(***************************************************************************)
UpTo(A, n) == Cardinality(A \cap (1..n))

IsRule(s) == {k \in DOMAIN s : s[k].rule}
Holds(b, s) == {k \in DOMAIN s : s[k].rule /\ s[k].index \in b.has}
Kept(b, f) ==
  IF f.rule THEN IF Concerned(b, f.index) THEN 1 ELSE 0
  ELSE IF f.index \in b.has THEN f.hooks ELSE 0
KeepsOne(b, s) == {k \in DOMAIN s : Kept(b, s[k]) >= 1}
KeepsTwo(b, s) == {k \in DOMAIN s : Kept(b, s[k]) = 2}

Rules(s, n) == UpTo(IsRule(s), n)
Held(b, s, n) == UpTo(Holds(b, s), n)
Saved(b, s, n) == UpTo(KeepsOne(b, s), n) + UpTo(KeepsTwo(b, s), n)

\* the checkpoints of h more hooks, above the first n frames
Extra(b, s, n, h) == IF h = 0 THEN 0 ELSE IF s[n].index \in b.has THEN h ELSE 0

(***************************************************************************)
(* An object b of the same mode and names as b0, whose phrases are in V.   *)
(***************************************************************************)
Object(b0, V) ==
  [on: {b0.on}, mode: {b0.mode}, is: {b0.is}, has: {b0.has},
   phrases: [b0.is -> Seq(V)], checkPoints: Seq([b0.is -> Nat]), openRules: Seq(BOOLEAN),
   error: {FALSE}]

\* the open rules of b are those of b0 and of the frames
OpenRulesFollow(b, b0, s, n) ==
  /\ Len(b.openRules) = Len(b0.openRules) + Rules(s, n)
  /\ \A k \in 1..n : b.openRules[Len(b0.openRules) + Rules(s, k)] = (s[k].index \in b0.has)

\* universal mode: no checkpoint above b0's reaches down among its phrases
High(b, b0) ==
  \A j \in (Len(b0.checkPoints) + 1)..Len(b.checkPoints) :
    \A x \in b0.is : b.checkPoints[j][x] >= Len(b0.phrases[x])

PointsAbove(b, b0, s, n, h) ==
  /\ Len(b.checkPoints) >= Len(b0.checkPoints) + (Saved(b0, s, n) + Extra(b0, s, n, h))
  /\ High(b, b0)

PhrasesAbove(b, b0, F) ==
  \A x \in b0.is :
    /\ Len(b.phrases[x]) >= Len(b0.phrases[x])
    /\ \A k \in 1..Len(b.phrases[x]) :
         IF k =< Len(b0.phrases[x]) THEN b.phrases[x][k] = b0.phrases[x][k]
         ELSE <<x, b.phrases[x][k]>> \in F

\* parent mode: the checkpoints above b0's are those of the frames, in their order, and each
\* holds as many entries as there are frames of parent mode below
Level(b0, s, n) == [x \in b0.is |-> Len(b0.phrases[x]) + Held(b0, s, n)]

PointsExact(b, b0, s, n, h) ==
  LET base == Len(b0.checkPoints) IN
  /\ Len(b.checkPoints) = base + (Saved(b0, s, n) + Extra(b0, s, n, h))
  /\ \A m \in 1..n : \A i \in 1..Kept(b0, s[m]) :
       b.checkPoints[base + (Saved(b0, s, m - 1) + i)] = Level(b0, s, m - 1)
  /\ \A i \in 1..Extra(b0, s, n, h) :
       b.checkPoints[base + (Saved(b0, s, n) + i)] = Level(b0, s, n)

PhrasesExact(b, b0, s, n, F) ==
  \A x \in b0.is :
    /\ Len(b.phrases[x]) = Len(b0.phrases[x]) + Held(b0, s, n)
    /\ \A k \in (Len(b0.phrases[x]) + 1)..Len(b.phrases[x]) :
         b.phrases[x][k] = EmptyPhrase \/ <<x, b.phrases[x][k]>> \in F

\* b, which was b0 when the parse began, above n frames and h more hooks
Follows(b, b0, s, n, h, F) ==
  /\ OpenRulesFollow(b, b0, s, n)
  /\ Universal(b0) => PointsAbove(b, b0, s, n, h) /\ PhrasesAbove(b, b0, F)
  /\ ~Universal(b0) => PointsExact(b, b0, s, n, h) /\ PhrasesExact(b, b0, s, n, F)

Tracks(b, b0, g, c, st, h, F) == b0.on => Follows(b, b0, SeenIn(g, c, st), Len(st), h, F)

\* the first frame is a rule's
Rooted(g, c, st) == Len(st) \in Nat /\ (Len(st) # 0 => OpAt(g, c, st[1].op).id = "RNM")

ObjectsIn(V) ==
  /\ bkru \in Object(bkruAtStart, V) /\ bkruAtStart \in Object(bkruAtStart, V)
  /\ bkrp \in Object(bkrpAtStart, V) /\ bkrpAtStart \in Object(bkrpAtStart, V)
  /\ EmptyPhrase \in V

\* the phrases are of any kind
ObjectsOK == \E V : ObjectsIn(V)

ModesOK ==
  /\ Universal(bkruAtStart) /\ ~Universal(bkrpAtStart)
  /\ bkruAtStart.on <=> bkruAtStart.is # {}
  /\ bkrpAtStart.on <=> bkrpAtStart.is # {}

StackOK ==
  /\ \E S : stack \in Seq(S)
  /\ pc = "call" /\ stack = << >> => callee = 0
  /\ Parsing => Rooted(grammar, config, stack)

ObjectsFollow ==
  Parsing => /\ Tracks(bkru, bkruAtStart, grammar, config, stack, 0, found)
             /\ Tracks(bkrp, bkrpAtStart, grammar, config, stack, 0, found)

BkrInv == ObjectsOK /\ ModesOK /\ StackOK /\ ObjectsFollow


-----------------------------------------------------------------------------
(* Stacks and counts.                                                      *)

LEMMA Pushed ==
  ASSUME NEW S, NEW s \in Seq(S), NEW x \in S
  PROVE  /\ Append(s, x) \in Seq(S)
         /\ Append(s, x) # << >>
         /\ Len(s) \in Nat /\ Len(Append(s, x)) = Len(s) + 1
         /\ \A n \in 1..Len(s) : Append(s, x)[n] = s[n]
         /\ Append(s, x)[Len(s) + 1] = x
         /\ Top(Append(s, x)) = x
BY AppendProperties, LenProperties DEF Top

LEMMA Shortened ==
  ASSUME NEW S, NEW s \in Seq(S), NEW i \in Nat, i =< Len(s)
  PROVE  /\ Popi(s, i) \in Seq(S)
         /\ Len(Popi(s, i)) = i
         /\ \A n \in 1..i : Popi(s, i)[n] = s[n]
<1>1. Len(s) \in Nat
  BY LenProperties
<1>2. \A n \in 1..i : s[n] \in S
  BY <1>1, ElementOfSeq
<1>3. SubSeq(s, 1, i) \in Seq(S)
  BY <1>1, <1>2, SubSeqProperties
<1>4. Len(SubSeq(s, 1, i)) = i
  BY <1>1, <1>2, SubSeqProperties
<1>5. \A n \in 1..i : SubSeq(s, 1, i)[n] = s[n]
  BY <1>1, <1>2, SubSeqProperties
<1> QED
  BY <1>3, <1>4, <1>5 DEF Popi

LEMMA Popped ==
  ASSUME NEW S, NEW s \in Seq(S), s # << >>
  PROVE  /\ Pop(s) \in Seq(S)
         /\ Len(s) \in Nat \ {0}
         /\ Len(Pop(s)) = Len(s) - 1
         /\ \A n \in 1..(Len(s) - 1) : Pop(s)[n] = s[n]
         /\ Top(s) \in S
         /\ Top(s) = s[Len(s)]
<1>1. Len(s) \in Nat \ {0}
  BY EmptySeq
<1>2. s[Len(s)] \in S
  BY <1>1, ElementOfSeq
<1>3. Pop(s) = Popi(s, Len(s) - 1)
  BY DEF Pop, Popi
<1>4. Len(s) - 1 \in Nat /\ Len(s) - 1 =< Len(s)
  BY <1>1
<1>5. /\ Popi(s, Len(s) - 1) \in Seq(S)
      /\ Len(Popi(s, Len(s) - 1)) = Len(s) - 1
      /\ \A n \in 1..(Len(s) - 1) : Popi(s, Len(s) - 1)[n] = s[n]
  BY <1>4, Shortened
<1> QED
  BY <1>1, <1>2, <1>3, <1>5 DEF Top

\* what is in a wider set of sequences
LEMMA Wider ==
  ASSUME NEW S, NEW T, S \subseteq T, NEW s \in Seq(S)
  PROVE  s \in Seq(T)
<1>1. Len(s) \in Nat /\ \A n \in 1..Len(s) : s[n] \in T
  BY LenProperties, ElementOfSeq
<1>2. s = [n \in 1..Len(s) |-> s[n]]
  BY LenProperties
<1> QED
  BY <1>1, <1>2

LEMMA CountNone ==
  ASSUME NEW A
  PROVE  UpTo(A, 0) = 0
<1>1. A \cap (1..0) = {}
  OBVIOUS
<1> QED
  BY <1>1, FS_EmptySet DEF UpTo

LEMMA CountType ==
  ASSUME NEW A, NEW n \in Nat
  PROVE  IsFiniteSet(A \cap (1..n)) /\ UpTo(A, n) \in Nat
<1>1. IsFiniteSet(1..n)
  BY FS_Interval
<1>2. A \cap (1..n) \in SUBSET (1..n)
  OBVIOUS
<1> QED
  BY <1>1, <1>2, FS_Subset, FS_CardinalityType DEF UpTo

LEMMA CountNext ==
  ASSUME NEW A, NEW n \in Nat
  PROVE  UpTo(A, n + 1) = IF n + 1 \in A THEN UpTo(A, n) + 1 ELSE UpTo(A, n)
<1> DEFINE m == n + 1
           B == A \cap (1..n)
           C == A \cap (1..m)
<1>1. IsFiniteSet(B)
  BY CountType
<1>2. m \notin B
  OBVIOUS
<1>3. CASE m \in A
  <2>1. C = B \cup {m}
    <3>1. \A k \in 1..m : k \in 1..n \/ k = m
      OBVIOUS
    <3>2. \A k \in 1..n : k \in 1..m
      OBVIOUS
    <3>3. m \in 1..m
      OBVIOUS
    <3> HIDE DEF m
    <3> QED
      BY <1>3, <3>1, <3>2, <3>3
  <2>2. Cardinality(C) = Cardinality(B) + 1
    <3> HIDE DEF B, C, m
    <3> QED
      BY <1>1, <1>2, <2>1, FS_AddElement
  <2> QED
    BY <1>3, <2>2 DEF UpTo
<1>4. CASE m \notin A
  <2>1. C = B
    <3>1. \A k \in 1..m : k \in 1..n \/ k = m
      OBVIOUS
    <3>2. \A k \in 1..n : k \in 1..m
      OBVIOUS
    <3> HIDE DEF m
    <3> QED
      BY <1>4, <3>1, <3>2
  <2> QED
    BY <1>4, <2>1 DEF UpTo
<1> QED
  BY <1>3, <1>4

\* a count depends on what is counted only
LEMMA CountSame ==
  ASSUME NEW A, NEW B, NEW n \in Nat, \A k \in 1..n : k \in A <=> k \in B
  PROVE  UpTo(A, n) = UpTo(B, n)
<1>1. A \cap (1..n) = B \cap (1..n)
  OBVIOUS
<1> QED
  BY <1>1 DEF UpTo

\* and grows with the frames
LEMMA CountGrows ==
  ASSUME NEW A, NEW n \in Nat, NEW m \in 0..n
  PROVE  UpTo(A, m) =< UpTo(A, n)
<1>1. IsFiniteSet(A \cap (1..n))
  BY CountType
<1>2. A \cap (1..m) \in SUBSET (A \cap (1..n))
  OBVIOUS
<1> QED
  BY <1>1, <1>2, FS_Subset DEF UpTo

-----------------------------------------------------------------------------
(* What the functions of BackRef change.                                   *)

LEMMA Fields ==
  ASSUME NEW b0, NEW V, NEW b \in Object(b0, V)
  PROVE  /\ b.on = b0.on /\ b.mode = b0.mode /\ b.is = b0.is /\ b.has = b0.has
         /\ b.phrases \in [b0.is -> Seq(V)] /\ b.checkPoints \in Seq([b0.is -> Nat])
         /\ b.openRules \in Seq(BOOLEAN) /\ b.error = FALSE
         /\ Len(b.checkPoints) \in Nat /\ Len(b.openRules) \in Nat
         /\ \A x \in b0.is : b.phrases[x] \in Seq(V) /\ Len(b.phrases[x]) \in Nat
<1>1. /\ b.on = b0.on /\ b.mode = b0.mode /\ b.is = b0.is /\ b.has = b0.has
      /\ b.phrases \in [b0.is -> Seq(V)] /\ b.checkPoints \in Seq([b0.is -> Nat])
      /\ b.openRules \in Seq(BOOLEAN) /\ b.error = FALSE
  BY DEF Object
<1>2. Len(b.checkPoints) \in Nat /\ Len(b.openRules) \in Nat
  BY <1>1, LenProperties
<1>3. \A x \in b0.is : b.phrases[x] \in Seq(V) /\ Len(b.phrases[x]) \in Nat
  <2> TAKE x \in b0.is
  <2>1. b.phrases[x] \in Seq(V)
    BY <1>1
  <2> QED
    BY <2>1, LenProperties
<1> QED
  BY <1>1, <1>2, <1>3

LEMMA PointPushed ==
  ASSUME NEW b0, NEW V, NEW b \in Object(b0, V)
  PROVE  /\ PushCheckPoint(b) \in Object(b0, V)
         /\ CheckPoint(b) \in [b0.is -> Nat]
         /\ \A x \in b0.is : CheckPoint(b)[x] = Len(b.phrases[x])
         /\ PushCheckPoint(b).checkPoints = Append(b.checkPoints, CheckPoint(b))
         /\ PushCheckPoint(b).phrases = b.phrases
         /\ PushCheckPoint(b).openRules = b.openRules
<1>1. /\ b.is = b0.is /\ b.checkPoints \in Seq([b0.is -> Nat])
      /\ \A x \in b0.is : Len(b.phrases[x]) \in Nat
  BY Fields
<1>2. CheckPoint(b) \in [b0.is -> Nat] /\ \A x \in b0.is : CheckPoint(b)[x] = Len(b.phrases[x])
  BY <1>1 DEF CheckPoint
<1>3. PICK p : p = CheckPoint(b)
  OBVIOUS
<1>4. PICK q : q = Append(b.checkPoints, p)
  OBVIOUS
<1>5. q \in Seq([b0.is -> Nat])
  BY <1>1, <1>2, <1>3, <1>4, Pushed
<1>6. PushCheckPoint(b) = [b EXCEPT !.checkPoints = q]
  BY <1>3, <1>4 DEF PushCheckPoint
<1>7. [b EXCEPT !.checkPoints = q] \in Object(b0, V)
  BY <1>5 DEF Object
<1>8. /\ [b EXCEPT !.checkPoints = q].checkPoints = q
      /\ [b EXCEPT !.checkPoints = q].phrases = b.phrases
      /\ [b EXCEPT !.checkPoints = q].openRules = b.openRules
  BY DEF Object
<1> QED
  BY <1>2, <1>3, <1>4, <1>6, <1>7, <1>8

\* the phrases of x after a pop that restores point, or does not
Left(b, x, point, restore) ==
  IF restore /\ point[x] < Len(b.phrases[x]) THEN Popi(b.phrases[x], point[x]) ELSE b.phrases[x]

LEMMA PointPopped ==
  ASSUME NEW b0, NEW V, NEW b \in Object(b0, V), b.checkPoints # << >>, NEW restore \in BOOLEAN
  PROVE  /\ PopCheckPoint(b, restore) \in Object(b0, V)
         /\ PopCheckPoint(b, restore).checkPoints = Pop(b.checkPoints)
         /\ PopCheckPoint(b, restore).openRules = b.openRules
         /\ \A x \in b0.is :
              PopCheckPoint(b, restore).phrases[x] = Left(b, x, Top(b.checkPoints), restore)
         /\ Top(b.checkPoints) \in [b0.is -> Nat]
<1>1. /\ b.is = b0.is /\ b.checkPoints \in Seq([b0.is -> Nat]) /\ b.phrases \in [b0.is -> Seq(V)]
      /\ \A x \in b0.is : b.phrases[x] \in Seq(V) /\ Len(b.phrases[x]) \in Nat
  BY Fields
<1>2. PICK q : q = Pop(b.checkPoints)
  OBVIOUS
<1>3. PICK point : point = Top(b.checkPoints)
  OBVIOUS
<1>4. q \in Seq([b0.is -> Nat]) /\ point \in [b0.is -> Nat]
  BY <1>1, <1>2, <1>3, Popped
<1> DEFINE c == [b EXCEPT !.checkPoints = q]
           d == [x \in b0.is |-> IF point[x] < Len(b.phrases[x]) THEN Popi(b.phrases[x], point[x])
                                 ELSE b.phrases[x]]
<1>5. c \in Object(b0, V) /\ c.checkPoints = q /\ c.phrases = b.phrases /\ c.openRules = b.openRules
      /\ c.is = b0.is
  BY <1>4 DEF Object
<1>6. CASE restore
  <2>1. d \in [b0.is -> Seq(V)]
    <3> SUFFICES ASSUME NEW x \in b0.is, point[x] < Len(b.phrases[x])
                 PROVE  Popi(b.phrases[x], point[x]) \in Seq(V)
      BY <1>1
    <3>1. point[x] \in Nat /\ point[x] =< Len(b.phrases[x])
      BY <1>1, <1>4
    <3> QED
      BY <1>1, <3>1, Shortened
  <2>2. PopCheckPoint(b, restore) = Restore(c, point)
    BY <1>2, <1>3, <1>6 DEF PopCheckPoint
  <2>3. Restore(c, point) = [c EXCEPT !.phrases = d]
    BY <1>5 DEF Restore
  <2> HIDE DEF c, d
  <2>4. /\ [c EXCEPT !.phrases = d] \in Object(b0, V)
        /\ [c EXCEPT !.phrases = d].phrases = d
        /\ [c EXCEPT !.phrases = d].checkPoints = c.checkPoints
        /\ [c EXCEPT !.phrases = d].openRules = c.openRules
    BY <1>5, <2>1 DEF Object
  <2>5. \A x \in b0.is : d[x] = Left(b, x, point, restore)
    BY <1>6 DEF d, Left
  <2> QED
    BY <1>2, <1>3, <1>4, <1>5, <2>2, <2>3, <2>4, <2>5
<1>7. CASE ~restore
  <2>1. PopCheckPoint(b, restore) = c
    BY <1>2, <1>7 DEF PopCheckPoint
  <2> HIDE DEF c
  <2>2. \A x \in b0.is : b.phrases[x] = Left(b, x, point, restore)
    BY <1>7 DEF Left
  <2> QED
    BY <1>2, <1>3, <1>4, <1>5, <2>1, <2>2
<1> QED
  BY <1>6, <1>7

LEMMA EmptiesPushed ==
  ASSUME NEW b0, NEW V, EmptyPhrase \in V, NEW b \in Object(b0, V)
  PROVE  /\ PushEmptyPhrase(b) \in Object(b0, V)
         /\ PushEmptyPhrase(b).checkPoints = b.checkPoints
         /\ PushEmptyPhrase(b).openRules = b.openRules
         /\ \A x \in b0.is : PushEmptyPhrase(b).phrases[x] = Append(b.phrases[x], EmptyPhrase)
<1>1. b.is = b0.is /\ \A x \in b0.is : b.phrases[x] \in Seq(V)
  BY Fields
<1> DEFINE d == [x \in b0.is |-> Append(b.phrases[x], EmptyPhrase)]
<1>2. d \in [b0.is -> Seq(V)]
  BY <1>1, Pushed
<1>3. PushEmptyPhrase(b) = [b EXCEPT !.phrases = d]
  BY <1>1 DEF PushEmptyPhrase
<1>4. \A x \in b0.is : d[x] = Append(b.phrases[x], EmptyPhrase)
  OBVIOUS
<1> HIDE DEF d
<1>5. /\ [b EXCEPT !.phrases = d] \in Object(b0, V)
      /\ [b EXCEPT !.phrases = d].phrases = d
      /\ [b EXCEPT !.phrases = d].checkPoints = b.checkPoints
      /\ [b EXCEPT !.phrases = d].openRules = b.openRules
  BY <1>2 DEF Object
<1> QED
  BY <1>3, <1>4, <1>5

\* what a sequence of phrases becomes
Written(b, s, phr) ==
  IF Universal(b) THEN Append(s, phr)
  ELSE [k \in DOMAIN s |-> IF s[k][1] = APG_UNDEFINED THEN phr ELSE s[k]]

LEMMA WrittenPhrases ==
  ASSUME NEW V, NEW b, NEW s \in Seq(V), NEW phr \in V
  PROVE  /\ Written(b, s, phr) \in Seq(V)
         /\ ~Universal(b) => /\ Len(Written(b, s, phr)) = Len(s)
                             /\ \A k \in 1..Len(s) : \/ Written(b, s, phr)[k] = s[k]
                                                     \/ Written(b, s, phr)[k] = phr
<1>1. CASE Universal(b)
  BY <1>1, Pushed DEF Written
<1>2. CASE ~Universal(b)
  <2> DEFINE w == [k \in 1..Len(s) |-> IF s[k][1] = APG_UNDEFINED THEN phr ELSE s[k]]
  <2>1. Written(b, s, phr) = w
    BY <1>2, LenProperties DEF Written
  <2>2. Len(s) \in Nat /\ \A k \in 1..Len(s) : s[k] \in V
    BY LenProperties, ElementOfSeq
  <2>3. \A k \in 1..Len(s) : (w[k] = s[k] \/ w[k] = phr) /\ w[k] \in V
    BY <2>2
  <2>4. w \in [1..Len(s) -> V]
    BY <2>3
  <2>5. w \in Seq(V) /\ Len(w) = Len(s)
    <3> HIDE DEF w
    <3> QED
      BY <2>2, <2>4
  <2> HIDE DEF w
  <2> QED
    BY <1>2, <2>1, <2>3, <2>5
<1> QED
  BY <1>1, <1>2

LEMMA PhraseSet ==
  ASSUME NEW b0, NEW V, NEW b \in Object(b0, V), NEW n, NEW state, NEW phr \in V
  PROVE  /\ PhraseFound(b, n, state, phr) \in Object(b0, V)
         /\ PhraseFound(b, n, state, phr).checkPoints = b.checkPoints
         /\ PhraseFound(b, n, state, phr).openRules = b.openRules
         /\ \A x \in b0.is : PhraseFound(b, n, state, phr).phrases[x] =
              IF x = n /\ state = "MATCH" THEN Written(b, b.phrases[x], phr) ELSE b.phrases[x]
<1>1. b.is = b0.is /\ b.phrases \in [b0.is -> Seq(V)] /\ \A x \in b0.is : b.phrases[x] \in Seq(V)
  BY Fields
<1>2. CASE n \in b0.is /\ state = "MATCH"
  <2> DEFINE d == [b.phrases EXCEPT ![n] = Written(b, b.phrases[n], phr)]
  <2>1. PhraseFound(b, n, state, phr) = SetPhrase(b, n, phr)
    BY <1>1, <1>2 DEF PhraseFound
  <2>2. SetPhrase(b, n, phr) = [b EXCEPT !.phrases = d]
    BY DEF SetPhrase, Written
  <2>3. Written(b, b.phrases[n], phr) \in Seq(V)
    BY <1>1, <1>2, WrittenPhrases
  <2>4. d \in [b0.is -> Seq(V)]
    BY <1>1, <2>3
  <2>5. \A x \in b0.is : d[x] = IF x = n /\ state = "MATCH" THEN Written(b, b.phrases[x], phr)
                                ELSE b.phrases[x]
    BY <1>1, <1>2
  <2> HIDE DEF d
  <2>6. /\ [b EXCEPT !.phrases = d] \in Object(b0, V)
        /\ [b EXCEPT !.phrases = d].phrases = d
        /\ [b EXCEPT !.phrases = d].checkPoints = b.checkPoints
        /\ [b EXCEPT !.phrases = d].openRules = b.openRules
    BY <2>4 DEF Object
  <2> QED
    BY <2>1, <2>2, <2>5, <2>6
<1>3. CASE ~(n \in b0.is /\ state = "MATCH")
  <2>1. PhraseFound(b, n, state, phr) = b
    BY <1>1, <1>3 DEF PhraseFound
  <2> QED
    BY <1>3, <2>1
<1> QED
  BY <1>2, <1>3

LEMMA RulesSet ==
  ASSUME NEW b0, NEW V, NEW b \in Object(b0, V), NEW q \in Seq(BOOLEAN)
  PROVE  /\ [b EXCEPT !.openRules = q] \in Object(b0, V)
         /\ [b EXCEPT !.openRules = q].checkPoints = b.checkPoints
         /\ [b EXCEPT !.openRules = q].phrases = b.phrases
         /\ [b EXCEPT !.openRules = q].openRules = q
BY DEF Object

LEMMA RulePopped ==
  ASSUME NEW b0, NEW V, NEW b \in Object(b0, V), b.openRules # << >>
  PROVE  /\ [b EXCEPT !.openRules = Pop(@)] \in Object(b0, V)
         /\ [b EXCEPT !.openRules = Pop(@)].checkPoints = b.checkPoints
         /\ [b EXCEPT !.openRules = Pop(@)].phrases = b.phrases
         /\ [b EXCEPT !.openRules = Pop(@)].openRules = Pop(b.openRules)
<1>1. PICK q : q = Pop(b.openRules)
  OBVIOUS
<1>2. q \in Seq(BOOLEAN)
  BY <1>1, Fields, Popped
<1>3. [b EXCEPT !.openRules = Pop(@)] = [b EXCEPT !.openRules = q]
  BY <1>1
<1>4. /\ [b EXCEPT !.openRules = q] \in Object(b0, V)
      /\ [b EXCEPT !.openRules = q].checkPoints = b.checkPoints
      /\ [b EXCEPT !.openRules = q].phrases = b.phrases
      /\ [b EXCEPT !.openRules = q].openRules = q
  BY <1>2 DEF Object
<1> QED
  BY <1>1, <1>3, <1>4

-----------------------------------------------------------------------------
(* The counts, frame by frame.                                             *)

LEMMA Counts ==
  ASSUME NEW b0, NEW s, NEW n \in Nat, WellSeen(s, n + 1)
  PROVE  /\ Rules(s, n) \in Nat /\ Held(b0, s, n) \in Nat /\ Saved(b0, s, n) \in Nat
         /\ Kept(b0, s[n + 1]) \in 0..2
         /\ Rules(s, n + 1) = IF s[n + 1].rule THEN Rules(s, n) + 1 ELSE Rules(s, n)
         /\ Held(b0, s, n + 1) = IF s[n + 1].rule /\ s[n + 1].index \in b0.has
                                   THEN Held(b0, s, n) + 1 ELSE Held(b0, s, n)
         /\ Saved(b0, s, n + 1) = Saved(b0, s, n) + Kept(b0, s[n + 1])
<1>0. n + 1 \in 1..(n + 1) /\ n + 1 \in Nat
  OBVIOUS
<1>1. n + 1 \in DOMAIN s /\ s[n + 1].hooks \in 0..2 /\ n + 1 \in Nat
  BY <1>0 DEF WellSeen
<1>2. /\ UpTo(IsRule(s), n) \in Nat /\ UpTo(Holds(b0, s), n) \in Nat
      /\ UpTo(KeepsOne(b0, s), n) \in Nat /\ UpTo(KeepsTwo(b0, s), n) \in Nat
  BY CountType
<1>3. Kept(b0, s[n + 1]) \in 0..2
  BY <1>1 DEF Kept
<1>4. n + 1 \in IsRule(s) <=> s[n + 1].rule
  BY <1>1 DEF IsRule
<1>5. n + 1 \in Holds(b0, s) <=> s[n + 1].rule /\ s[n + 1].index \in b0.has
  BY <1>1 DEF Holds
<1>6. /\ n + 1 \in KeepsOne(b0, s) <=> Kept(b0, s[n + 1]) >= 1
      /\ n + 1 \in KeepsTwo(b0, s) <=> Kept(b0, s[n + 1]) = 2
  BY <1>1 DEF KeepsOne, KeepsTwo
<1>7. Rules(s, n + 1) = IF s[n + 1].rule THEN Rules(s, n) + 1 ELSE Rules(s, n)
  BY <1>4, CountNext DEF Rules
<1>8. Held(b0, s, n + 1) = IF s[n + 1].rule /\ s[n + 1].index \in b0.has
                             THEN Held(b0, s, n) + 1 ELSE Held(b0, s, n)
  BY <1>5, CountNext DEF Held
<1>9. Saved(b0, s, n + 1) = Saved(b0, s, n) + Kept(b0, s[n + 1])
  <2> DEFINE one == UpTo(KeepsOne(b0, s), n)
             two == UpTo(KeepsTwo(b0, s), n)
             k == Kept(b0, s[n + 1])
  <2>1. UpTo(KeepsOne(b0, s), n + 1) = IF k >= 1 THEN one + 1 ELSE one
    BY <1>6, CountNext
  <2>2. UpTo(KeepsTwo(b0, s), n + 1) = IF k = 2 THEN two + 1 ELSE two
    BY <1>6, CountNext
  <2>3. k = 0 \/ k = 1 \/ k = 2
    BY <1>3
  <2>4. one \in Nat /\ two \in Nat
    BY <1>2
  <2> HIDE DEF one, two, k
  <2>5. (IF k >= 1 THEN one + 1 ELSE one) + (IF k = 2 THEN two + 1 ELSE two) = (one + two) + k
    BY <2>3, <2>4
  <2> QED
    BY <2>1, <2>2, <2>5 DEF Saved, one, two, k
<1> QED
  BY <1>2, <1>3, <1>7, <1>8, <1>9 DEF Rules, Held, Saved

LEMMA CountsStart ==
  ASSUME NEW b0, NEW s
  PROVE  Rules(s, 0) = 0 /\ Held(b0, s, 0) = 0 /\ Saved(b0, s, 0) = 0
<1>1. \A A : UpTo(A, 0) = 0
  BY CountNone
<1> QED
  BY <1>1 DEF Rules, Held, Saved

LEMMA CountsTyped ==
  ASSUME NEW b0, NEW s, NEW n \in Nat
  PROVE  Rules(s, n) \in Nat /\ Held(b0, s, n) \in Nat /\ Saved(b0, s, n) \in Nat
<1>1. \A A : UpTo(A, n) \in Nat
  BY CountType
<1>2. UpTo(KeepsOne(b0, s), n) \in Nat /\ UpTo(KeepsTwo(b0, s), n) \in Nat
  BY <1>1
<1> QED
  BY <1>1, <1>2 DEF Rules, Held, Saved

LEMMA CountsGrow ==
  ASSUME NEW b0, NEW s, NEW n \in Nat, NEW m \in 0..n
  PROVE  Rules(s, m) =< Rules(s, n) /\ Saved(b0, s, m) =< Saved(b0, s, n)
<1>1. \A A : UpTo(A, m) =< UpTo(A, n) /\ UpTo(A, m) \in Nat /\ UpTo(A, n) \in Nat
  <2>1. m \in Nat
    OBVIOUS
  <2> QED
    BY <2>1, CountGrows, CountType
<1> DEFINE a == UpTo(KeepsOne(b0, s), m)
           b == UpTo(KeepsTwo(b0, s), m)
           c == UpTo(KeepsOne(b0, s), n)
           d == UpTo(KeepsTwo(b0, s), n)
<1>2. a =< c /\ b =< d /\ a \in Nat /\ b \in Nat /\ c \in Nat /\ d \in Nat
  BY <1>1
<1>3. a + b =< c + d
  <2> HIDE DEF a, b, c, d
  <2> QED
    BY <1>2
<1> QED
  BY <1>1, <1>3 DEF Rules, Saved

\* from the first frame on there is an open rule
LEMMA RuleBelow ==
  ASSUME NEW s, NEW n, WellSeen(s, n), NEW k \in 1..n
  PROVE  Rules(s, k) \in 1..Rules(s, n)
<1>1. n \in Nat /\ k \in Nat /\ 1 \in 0..k /\ k \in 0..n /\ 1 \in 1..n
  BY DEF WellSeen
<1>2. WellSeen(s, 0 + 1)
  BY <1>1 DEF WellSeen
<1>3. s[0 + 1].rule
  <2>1. s[1].rule /\ 0 + 1 = 1
    BY <1>1 DEF WellSeen
  <2> QED
    BY <2>1
<1>4. Rules(s, 0 + 1) = Rules(s, 0) + 1
  BY <1>2, <1>3, Counts
<1>5. Rules(s, 1) = 1
  BY <1>4, CountsStart
<1>6. Rules(s, 1) =< Rules(s, k) /\ Rules(s, k) =< Rules(s, n)
  BY <1>1, CountsGrow
<1>7. Rules(s, k) \in Nat /\ Rules(s, n) \in Nat
  BY <1>1, CountsTyped
<1> QED
  BY <1>5, <1>6, <1>7

\* where the checkpoints of a frame are
LEMMA PointBelow ==
  ASSUME NEW b0, NEW s, NEW n, WellSeen(s, n), NEW m \in 1..n, NEW i \in 1..Kept(b0, s[m])
  PROVE  /\ Saved(b0, s, m - 1) \in Nat /\ Saved(b0, s, n) \in Nat /\ i \in Nat
         /\ Saved(b0, s, m - 1) + i \in 1..Saved(b0, s, n)
<1>1. n \in Nat /\ m \in Nat /\ m - 1 \in Nat /\ (m - 1) + 1 = m /\ m \in 0..n
  BY DEF WellSeen
<1>2. WellSeen(s, (m - 1) + 1)
  BY <1>1 DEF WellSeen
<1>3. Saved(b0, s, (m - 1) + 1) = Saved(b0, s, m - 1) + Kept(b0, s[(m - 1) + 1])
      /\ Kept(b0, s[(m - 1) + 1]) \in 0..2 /\ Saved(b0, s, m - 1) \in Nat
  BY <1>1, <1>2, Counts
<1>4. Saved(b0, s, m) = Saved(b0, s, m - 1) + Kept(b0, s[m]) /\ Kept(b0, s[m]) \in 0..2
  BY <1>1, <1>3
<1>5. Saved(b0, s, m) =< Saved(b0, s, n) /\ Saved(b0, s, n) \in Nat
  BY <1>1, CountsGrow, CountsTyped
<1> QED
  BY <1>3, <1>4, <1>5

-----------------------------------------------------------------------------
(* What a check point set or taken away leaves of the phrases: universal   *)
(* mode first, then parent mode.                                           *)

LEMMA HighPushed ==
  ASSUME NEW b0, NEW V, b0 \in Object(b0, V), NEW b \in Object(b0, V), NEW F,
         High(b, b0), PhrasesAbove(b, b0, F)
  PROVE  /\ High(PushCheckPoint(b), b0)
         /\ PhrasesAbove(PushCheckPoint(b), b0, F)
         /\ Len(PushCheckPoint(b).checkPoints) = Len(b.checkPoints) + 1
<1>1. PICK c : c = PushCheckPoint(b)
  OBVIOUS
<1>2. PICK p : p = CheckPoint(b)
  OBVIOUS
<1>3. /\ c.checkPoints = Append(b.checkPoints, p) /\ c.phrases = b.phrases
      /\ p \in [b0.is -> Nat] /\ \A x \in b0.is : p[x] = Len(b.phrases[x])
  BY <1>1, <1>2, PointPushed
<1>4. b.checkPoints \in Seq([b0.is -> Nat]) /\ Len(b.checkPoints) \in Nat
  BY Fields
<1>5. /\ Len(c.checkPoints) = Len(b.checkPoints) + 1
      /\ \A j \in 1..Len(b.checkPoints) : c.checkPoints[j] = b.checkPoints[j]
      /\ c.checkPoints[Len(b.checkPoints) + 1] = p
  BY <1>3, <1>4, Pushed
<1>6. Len(b0.checkPoints) \in Nat
  BY Fields
<1>7. High(c, b0)
  <2> SUFFICES ASSUME NEW j \in (Len(b0.checkPoints) + 1)..Len(c.checkPoints), NEW x \in b0.is
               PROVE  c.checkPoints[j][x] >= Len(b0.phrases[x])
    BY DEF High
  <2>1. CASE j = Len(b.checkPoints) + 1
    BY <1>3, <1>5, <2>1 DEF PhrasesAbove
  <2>2. CASE j # Len(b.checkPoints) + 1
    <3>1. j \in (Len(b0.checkPoints) + 1)..Len(b.checkPoints) /\ j \in 1..Len(b.checkPoints)
      BY <1>4, <1>5, <1>6, <2>2
    <3> QED
      BY <1>5, <3>1 DEF High
  <2> QED
    BY <2>1, <2>2
<1>8. PhrasesAbove(c, b0, F)
  BY <1>3 DEF PhrasesAbove
<1> QED
  BY <1>1, <1>5, <1>7, <1>8

LEMMA HighPopped ==
  ASSUME NEW b0, NEW V, b0 \in Object(b0, V), NEW b \in Object(b0, V), NEW F,
         High(b, b0), PhrasesAbove(b, b0, F), NEW restore \in BOOLEAN,
         Len(b.checkPoints) > Len(b0.checkPoints)
  PROVE  /\ PopCheckPoint(b, restore) \in Object(b0, V)
         /\ PopCheckPoint(b, restore).openRules = b.openRules
         /\ High(PopCheckPoint(b, restore), b0)
         /\ PhrasesAbove(PopCheckPoint(b, restore), b0, F)
         /\ Len(PopCheckPoint(b, restore).checkPoints) = Len(b.checkPoints) - 1
<1>1. PICK c : c = PopCheckPoint(b, restore)
  OBVIOUS
<1>2. PICK p : p = Top(b.checkPoints)
  OBVIOUS
<1>3. b.checkPoints \in Seq([b0.is -> Nat]) /\ Len(b.checkPoints) \in Nat /\ Len(b0.checkPoints) \in Nat
  BY Fields
<1>4. b.checkPoints # << >>
  BY <1>3
<1>5. /\ c \in Object(b0, V) /\ c.openRules = b.openRules
      /\ c.checkPoints = Pop(b.checkPoints)
      /\ \A x \in b0.is : c.phrases[x] = Left(b, x, p, restore)
      /\ p \in [b0.is -> Nat]
  BY <1>1, <1>2, <1>4, PointPopped
<1>6. /\ Len(c.checkPoints) = Len(b.checkPoints) - 1
      /\ \A j \in 1..(Len(b.checkPoints) - 1) : c.checkPoints[j] = b.checkPoints[j]
      /\ p = b.checkPoints[Len(b.checkPoints)]
  <2>1. PICK q \in Seq([b0.is -> Nat]) : q = b.checkPoints
    BY <1>3
  <2>2. q # << >> /\ c.checkPoints = Pop(q) /\ p = Top(q)
    BY <1>2, <1>4, <1>5, <2>1
  <2>3. /\ Len(Pop(q)) = Len(q) - 1
        /\ \A j \in 1..(Len(q) - 1) : Pop(q)[j] = q[j]
        /\ Top(q) = q[Len(q)]
    BY <2>2, Popped
  <2> QED
    BY <2>1, <2>2, <2>3
<1>7. High(c, b0)
  <2> SUFFICES ASSUME NEW j \in (Len(b0.checkPoints) + 1)..Len(c.checkPoints), NEW x \in b0.is
               PROVE  c.checkPoints[j][x] >= Len(b0.phrases[x])
    BY DEF High
  <2>1. j \in (Len(b0.checkPoints) + 1)..Len(b.checkPoints) /\ j \in 1..(Len(b.checkPoints) - 1)
    BY <1>3, <1>6
  <2> QED
    BY <1>6, <2>1 DEF High
<1>8. \A x \in b0.is : p[x] >= Len(b0.phrases[x]) /\ p[x] \in Nat
  <2>1. Len(b.checkPoints) \in (Len(b0.checkPoints) + 1)..Len(b.checkPoints)
    BY <1>3
  <2> QED
    BY <1>5, <1>6, <2>1 DEF High
<1>9. PhrasesAbove(c, b0, F)
  <2> SUFFICES ASSUME NEW x \in b0.is
               PROVE  /\ Len(c.phrases[x]) >= Len(b0.phrases[x])
                      /\ \A k \in 1..Len(c.phrases[x]) :
                           IF k =< Len(b0.phrases[x]) THEN c.phrases[x][k] = b0.phrases[x][k]
                           ELSE <<x, c.phrases[x][k]>> \in F
    BY DEF PhrasesAbove
  <2>1. b.phrases[x] \in Seq(V) /\ Len(b.phrases[x]) \in Nat /\ Len(b0.phrases[x]) \in Nat
    BY Fields
  <2>2. /\ Len(b.phrases[x]) >= Len(b0.phrases[x])
        /\ \A k \in 1..Len(b.phrases[x]) :
             IF k =< Len(b0.phrases[x]) THEN b.phrases[x][k] = b0.phrases[x][k]
             ELSE <<x, b.phrases[x][k]>> \in F
    BY DEF PhrasesAbove
  <2>3. CASE restore /\ p[x] < Len(b.phrases[x])
    <3>1. c.phrases[x] = Popi(b.phrases[x], p[x])
      BY <1>5, <2>3 DEF Left
    <3>2. p[x] \in Nat /\ p[x] =< Len(b.phrases[x])
      BY <1>8, <2>1, <2>3
    <3>3. Len(c.phrases[x]) = p[x] /\ \A k \in 1..p[x] : c.phrases[x][k] = b.phrases[x][k]
      <4>1. PICK q \in Seq(V) : q = b.phrases[x]
        BY <2>1
      <4>2. PICK i \in Nat : i = p[x]
        BY <3>2
      <4>3. Len(Popi(q, i)) = i /\ \A k \in 1..i : Popi(q, i)[k] = q[k]
        BY <3>2, <4>1, <4>2, Shortened
      <4> QED
        BY <3>1, <4>1, <4>2, <4>3
    <3>4. \A k \in 1..p[x] : k \in 1..Len(b.phrases[x])
      BY <2>1, <3>2
    <3> QED
      BY <1>8, <2>2, <3>3, <3>4
  <2>4. CASE ~(restore /\ p[x] < Len(b.phrases[x]))
    <3>1. c.phrases[x] = b.phrases[x]
      BY <1>5, <2>4 DEF Left
    <3> QED
      BY <2>2, <3>1
  <2> QED
    BY <2>3, <2>4
<1> QED
  BY <1>1, <1>5, <1>6, <1>7, <1>9

LEMMA ExactPushed ==
  ASSUME NEW b0, NEW V, b0 \in Object(b0, V), NEW b \in Object(b0, V), NEW F, NEW s, NEW n \in Nat,
         PhrasesExact(b, b0, s, n, F)
  PROVE  /\ PhrasesExact(PushCheckPoint(b), b0, s, n, F)
         /\ Len(PushCheckPoint(b).checkPoints) = Len(b.checkPoints) + 1
         /\ \A j \in 1..Len(b.checkPoints) : PushCheckPoint(b).checkPoints[j] = b.checkPoints[j]
         /\ PushCheckPoint(b).checkPoints[Len(b.checkPoints) + 1] = Level(b0, s, n)
<1>1. PICK c : c = PushCheckPoint(b)
  OBVIOUS
<1>2. PICK p : p = CheckPoint(b)
  OBVIOUS
<1>3. /\ c.checkPoints = Append(b.checkPoints, p) /\ c.phrases = b.phrases
      /\ p \in [b0.is -> Nat] /\ \A x \in b0.is : p[x] = Len(b.phrases[x])
  BY <1>1, <1>2, PointPushed
<1>4. b.checkPoints \in Seq([b0.is -> Nat]) /\ Len(b.checkPoints) \in Nat
  BY Fields
<1>5. /\ Len(c.checkPoints) = Len(b.checkPoints) + 1
      /\ \A j \in 1..Len(b.checkPoints) : c.checkPoints[j] = b.checkPoints[j]
      /\ c.checkPoints[Len(b.checkPoints) + 1] = p
  BY <1>3, <1>4, Pushed
<1>6. \A x \in b0.is : p[x] = Len(b0.phrases[x]) + Held(b0, s, n)
  BY <1>3 DEF PhrasesExact
<1>7. p = Level(b0, s, n)
  BY <1>3, <1>6 DEF Level
<1>8. PhrasesExact(c, b0, s, n, F)
  BY <1>3 DEF PhrasesExact
<1> QED
  BY <1>1, <1>5, <1>7, <1>8

\* the check point taken away is of the frames up to m
LEMMA ExactPopped ==
  ASSUME NEW b0, NEW V, b0 \in Object(b0, V), NEW b \in Object(b0, V), NEW F, NEW s,
         NEW n \in Nat, NEW m \in Nat, NEW restore \in BOOLEAN,
         PhrasesExact(b, b0, s, n, F), b.checkPoints # << >>, Top(b.checkPoints) = Level(b0, s, m),
         Held(b0, s, m) =< Held(b0, s, n), restore \/ Held(b0, s, m) = Held(b0, s, n)
  PROVE  /\ PopCheckPoint(b, restore) \in Object(b0, V)
         /\ PopCheckPoint(b, restore).openRules = b.openRules
         /\ PhrasesExact(PopCheckPoint(b, restore), b0, s, m, F)
         /\ Len(PopCheckPoint(b, restore).checkPoints) = Len(b.checkPoints) - 1
         /\ \A j \in 1..(Len(b.checkPoints) - 1) :
              PopCheckPoint(b, restore).checkPoints[j] = b.checkPoints[j]
<1>1. PICK c : c = PopCheckPoint(b, restore)
  OBVIOUS
<1>2. PICK p : p = Top(b.checkPoints)
  OBVIOUS
<1>3. b.checkPoints \in Seq([b0.is -> Nat]) /\ Len(b.checkPoints) \in Nat
  BY Fields
<1>4. /\ c \in Object(b0, V) /\ c.openRules = b.openRules
      /\ c.checkPoints = Pop(b.checkPoints)
      /\ \A x \in b0.is : c.phrases[x] = Left(b, x, p, restore)
  BY <1>1, <1>2, PointPopped
<1>5. /\ Len(c.checkPoints) = Len(b.checkPoints) - 1
      /\ \A j \in 1..(Len(b.checkPoints) - 1) : c.checkPoints[j] = b.checkPoints[j]
  BY <1>3, <1>4, Popped
<1>6. \A x \in b0.is : p[x] = Len(b0.phrases[x]) + Held(b0, s, m)
  BY <1>2 DEF Level
<1>7. PICK hm \in Nat : hm = Held(b0, s, m)
  BY CountsTyped
<1>8. PICK hn \in Nat : hn = Held(b0, s, n)
  BY CountsTyped
<1>9. PhrasesExact(c, b0, s, m, F)
  <2> SUFFICES ASSUME NEW x \in b0.is
               PROVE  /\ Len(c.phrases[x]) = Len(b0.phrases[x]) + hm
                      /\ \A k \in (Len(b0.phrases[x]) + 1)..Len(c.phrases[x]) :
                           c.phrases[x][k] = EmptyPhrase \/ <<x, c.phrases[x][k]>> \in F
    BY <1>7 DEF PhrasesExact
  <2>1. b.phrases[x] \in Seq(V) /\ Len(b.phrases[x]) \in Nat /\ Len(b0.phrases[x]) \in Nat
    BY Fields
  <2>2. /\ Len(b.phrases[x]) = Len(b0.phrases[x]) + hn
        /\ \A k \in (Len(b0.phrases[x]) + 1)..Len(b.phrases[x]) :
             b.phrases[x][k] = EmptyPhrase \/ <<x, b.phrases[x][k]>> \in F
    BY <1>8 DEF PhrasesExact
  <2>3. p[x] = Len(b0.phrases[x]) + hm /\ hm =< hn /\ (restore \/ hm = hn)
    BY <1>6, <1>7, <1>8
  <2>4. CASE restore /\ p[x] < Len(b.phrases[x])
    <3>1. c.phrases[x] = Popi(b.phrases[x], p[x])
      BY <1>4, <2>4 DEF Left
    <3>2. p[x] \in Nat /\ p[x] =< Len(b.phrases[x])
      BY <2>1, <2>3, <2>4
    <3>3. Len(c.phrases[x]) = p[x] /\ \A k \in 1..p[x] : c.phrases[x][k] = b.phrases[x][k]
      BY SMTT(40), <2>1, <3>1, <3>2, Shortened
    <3>4. \A k \in (Len(b0.phrases[x]) + 1)..p[x] :
            k \in (Len(b0.phrases[x]) + 1)..Len(b.phrases[x]) /\ k \in 1..p[x]
      BY <2>1, <3>2
    <3> QED
      BY <2>2, <2>3, <3>3, <3>4
  <2>5. CASE ~(restore /\ p[x] < Len(b.phrases[x]))
    <3>1. c.phrases[x] = b.phrases[x]
      BY <1>4, <2>5 DEF Left
    <3>2. hm = hn
      BY <2>1, <2>2, <2>3, <2>5
    <3> QED
      BY <2>2, <3>1, <3>2
  <2> QED
    BY <2>4, <2>5
<1> QED
  BY <1>1, <1>4, <1>5, <1>9

-----------------------------------------------------------------------------
(* The operators' hooks.                                                   *)

\* the innermost open rule is the one the last frame is in
LEMMA TopRule ==
  ASSUME NEW b0, NEW V, b0 \in Object(b0, V), NEW b \in Object(b0, V), NEW s, NEW n,
         WellSeen(s, n), n # 0, OpenRulesFollow(b, b0, s, n)
  PROVE  /\ b.openRules # << >>
         /\ Top(b.openRules) = (s[n].index \in b0.has)
<1>1. n \in Nat /\ n \in 1..n
  BY DEF WellSeen
<1>2. Rules(s, n) \in 1..Rules(s, n) /\ Rules(s, n) \in Nat
  BY <1>1, RuleBelow, CountsTyped
<1>3. /\ Len(b.openRules) = Len(b0.openRules) + Rules(s, n)
      /\ b.openRules[Len(b0.openRules) + Rules(s, n)] = (s[n].index \in b0.has)
  BY <1>1 DEF OpenRulesFollow
<1>4. Len(b0.openRules) \in Nat /\ b.openRules \in Seq(BOOLEAN)
  BY Fields
<1>5. Len(b.openRules) # 0
  BY <1>2, <1>3, <1>4
<1> QED
  BY <1>3, <1>5 DEF Top

LEMMA ExtraIs ==
  ASSUME NEW b0, NEW s, NEW n, NEW h \in 0..2
  PROVE  /\ Extra(b0, s, n, h) \in 0..2
         /\ s[n].index \in b0.has => Extra(b0, s, n, h) = h
         /\ s[n].index \notin b0.has => Extra(b0, s, n, h) = 0
BY DEF Extra

LEMMA OpOpened ==
  ASSUME NEW b0, NEW V, b0 \in Object(b0, V), NEW b \in Object(b0, V), NEW F, NEW s, NEW n,
         WellSeen(s, n), n # 0, NEW h \in 0..1, Follows(b, b0, s, n, h, F)
  PROVE  /\ BkrOpOpen(b) \in Object(b0, V)
         /\ Follows(BkrOpOpen(b), b0, s, n, h + 1, F)
<1>1. n \in Nat /\ h \in 0..2 /\ h + 1 \in 0..2
  BY DEF WellSeen
<1>2. OpenRulesFollow(b, b0, s, n)
  BY DEF Follows
<1>3. b.openRules # << >> /\ Top(b.openRules) = (s[n].index \in b0.has)
  BY <1>2, TopRule
<1>4. CASE s[n].index \notin b0.has
  <2>1. BkrOpOpen(b) = b
    BY <1>3, <1>4 DEF BkrOpOpen
  <2>2. Extra(b0, s, n, h) = Extra(b0, s, n, h + 1)
    BY <1>1, <1>4, ExtraIs
  <2>3. Universal(b0) => PointsAbove(b, b0, s, n, h + 1)
    BY <2>2 DEF Follows, PointsAbove
  <2>4. ~Universal(b0) => PointsExact(b, b0, s, n, h + 1)
    BY <2>2 DEF Follows, PointsExact
  <2> QED
    BY <2>1, <2>3, <2>4 DEF Follows
<1>5. CASE s[n].index \in b0.has
  <2>1. PICK c : c = PushCheckPoint(b)
    OBVIOUS
  <2>2. BkrOpOpen(b) = c
    BY <1>3, <1>5, <2>1 DEF BkrOpOpen
  <2>3. c \in Object(b0, V) /\ c.openRules = b.openRules
    BY <2>1, PointPushed
  <2>4. OpenRulesFollow(c, b0, s, n)
    BY <1>2, <2>3 DEF OpenRulesFollow
  <2>5. Extra(b0, s, n, h) = h /\ Extra(b0, s, n, h + 1) = h + 1
    BY <1>1, <1>5, ExtraIs
  <2>6. Saved(b0, s, n) \in Nat /\ Len(b0.checkPoints) \in Nat /\ Len(b.checkPoints) \in Nat
    BY <1>1, CountsTyped, Fields
  <2>7. CASE Universal(b0)
    <3>1. PointsAbove(b, b0, s, n, h) /\ PhrasesAbove(b, b0, F)
      BY <2>7 DEF Follows
    <3>2. High(b, b0)
      BY <3>1 DEF PointsAbove
    <3>3. High(c, b0) /\ PhrasesAbove(c, b0, F) /\ Len(c.checkPoints) = Len(b.checkPoints) + 1
      BY <2>1, <3>1, <3>2, HighPushed
    <3>4. Len(b.checkPoints) >= Len(b0.checkPoints) + (Saved(b0, s, n) + h)
      BY <2>5, <3>1 DEF PointsAbove
    <3>5. Len(c.checkPoints) >= Len(b0.checkPoints) + (Saved(b0, s, n) + (h + 1))
      BY <2>6, <3>3, <3>4
    <3>6. PointsAbove(c, b0, s, n, h + 1)
      BY <2>5, <3>3, <3>5 DEF PointsAbove
    <3> QED
      BY <2>2, <2>3, <2>4, <2>7, <3>3, <3>6 DEF Follows
  <2>8. CASE ~Universal(b0)
    <3> DEFINE base == Len(b0.checkPoints)
               saved == Saved(b0, s, n)
    <3>1. PointsExact(b, b0, s, n, h) /\ PhrasesExact(b, b0, s, n, F)
      BY <2>8 DEF Follows
    <3>2. /\ PhrasesExact(c, b0, s, n, F)
          /\ Len(c.checkPoints) = Len(b.checkPoints) + 1
          /\ \A j \in 1..Len(b.checkPoints) : c.checkPoints[j] = b.checkPoints[j]
          /\ c.checkPoints[Len(b.checkPoints) + 1] = Level(b0, s, n)
      BY <1>1, <2>1, <3>1, ExactPushed
    <3>3. /\ Len(b.checkPoints) = base + (saved + h)
          /\ \A m \in 1..n : \A i \in 1..Kept(b0, s[m]) :
               b.checkPoints[base + (Saved(b0, s, m - 1) + i)] = Level(b0, s, m - 1)
          /\ \A i \in 1..h : b.checkPoints[base + (saved + i)] = Level(b0, s, n)
      BY <2>5, <3>1 DEF PointsExact
    <3>4. \A m \in 1..n : \A i \in 1..Kept(b0, s[m]) :
            c.checkPoints[base + (Saved(b0, s, m - 1) + i)] = Level(b0, s, m - 1)
      <4> TAKE m \in 1..n
      <4> TAKE i \in 1..Kept(b0, s[m])
      <4>1. Saved(b0, s, m - 1) + i \in 1..saved
        BY PointBelow
      <4>2. base + (Saved(b0, s, m - 1) + i) \in 1..Len(b.checkPoints)
        BY SMTT(40), <2>6, <3>3, <4>1
      <4> QED
        BY <3>2, <3>3, <4>2
    <3>5. \A i \in 1..(h + 1) : c.checkPoints[base + (saved + i)] = Level(b0, s, n)
      <4> TAKE i \in 1..(h + 1)
      <4>1. CASE i = h + 1
        <5>1. base + (saved + i) = Len(b.checkPoints) + 1
          BY <2>6, <3>3, <4>1
        <5> QED
          BY <3>2, <5>1
      <4>2. CASE i # h + 1
        <5>1. i \in 1..h /\ base + (saved + i) \in 1..Len(b.checkPoints)
          BY <2>6, <3>3, <4>2
        <5> QED
          BY <3>2, <3>3, <5>1
      <4> QED
        BY <4>1, <4>2
    <3>6. Len(c.checkPoints) = base + (saved + (h + 1))
      BY <2>6, <3>2, <3>3
    <3>7. PointsExact(c, b0, s, n, h + 1)
      BY <2>5, <3>4, <3>5, <3>6 DEF PointsExact
    <3> QED
      BY <2>2, <2>3, <2>4, <2>8, <3>2, <3>7 DEF Follows
  <2> QED
    BY <2>7, <2>8
<1> QED
  BY <1>4, <1>5

LEMMA OpClosed ==
  ASSUME NEW b0, NEW V, b0 \in Object(b0, V), NEW b \in Object(b0, V), NEW F, NEW s, NEW n,
         WellSeen(s, n), n # 0, NEW h \in 0..1, Follows(b, b0, s, n, h + 1, F), NEW state
  PROVE  /\ BkrOpClose(b, state) \in Object(b0, V)
         /\ Follows(BkrOpClose(b, state), b0, s, n, h, F)
<1>1. n \in Nat /\ h \in 0..2 /\ h + 1 \in 0..2
  BY DEF WellSeen
<1>2. OpenRulesFollow(b, b0, s, n)
  BY DEF Follows
<1>3. b.openRules # << >> /\ Top(b.openRules) = (s[n].index \in b0.has)
  BY <1>2, TopRule
<1>4. CASE s[n].index \notin b0.has
  <2>1. BkrOpClose(b, state) = b
    BY <1>3, <1>4 DEF BkrOpClose
  <2>2. Extra(b0, s, n, h) = Extra(b0, s, n, h + 1)
    BY <1>1, <1>4, ExtraIs
  <2>3. Universal(b0) => PointsAbove(b, b0, s, n, h)
    BY <2>2 DEF Follows, PointsAbove
  <2>4. ~Universal(b0) => PointsExact(b, b0, s, n, h)
    BY <2>2 DEF Follows, PointsExact
  <2> QED
    BY <2>1, <2>3, <2>4 DEF Follows
<1>5. CASE s[n].index \in b0.has
  <2>1. PICK restore \in BOOLEAN : restore = (state = "NOMATCH")
    OBVIOUS
  <2>2. PICK c : c = PopCheckPoint(b, restore)
    OBVIOUS
  <2>3. BkrOpClose(b, state) = c
    BY <1>3, <1>5, <2>1, <2>2 DEF BkrOpClose
  <2>5. Extra(b0, s, n, h) = h /\ Extra(b0, s, n, h + 1) = h + 1
    BY <1>1, <1>5, ExtraIs
  <2>6. Saved(b0, s, n) \in Nat /\ Len(b0.checkPoints) \in Nat /\ Len(b.checkPoints) \in Nat
    BY <1>1, CountsTyped, Fields
  <2>7. CASE Universal(b0)
    <3>1. PointsAbove(b, b0, s, n, h + 1) /\ PhrasesAbove(b, b0, F)
      BY <2>7 DEF Follows
    <3>2. High(b, b0)
      BY <3>1 DEF PointsAbove
    <3>3. Len(b.checkPoints) >= Len(b0.checkPoints) + (Saved(b0, s, n) + (h + 1))
      BY <2>5, <3>1 DEF PointsAbove
    <3>4. Len(b.checkPoints) > Len(b0.checkPoints)
      BY <2>6, <3>3
    <3>5. /\ c \in Object(b0, V) /\ c.openRules = b.openRules
          /\ High(c, b0) /\ PhrasesAbove(c, b0, F) /\ Len(c.checkPoints) = Len(b.checkPoints) - 1
      BY <2>2, <3>1, <3>2, <3>4, HighPopped
    <3>6. Len(c.checkPoints) >= Len(b0.checkPoints) + (Saved(b0, s, n) + h)
      BY SMTT(40), <2>6, <3>3, <3>5
    <3>7. PointsAbove(c, b0, s, n, h)
      BY <2>5, <3>5, <3>6 DEF PointsAbove
    <3>8. OpenRulesFollow(c, b0, s, n)
      BY <1>2, <3>5 DEF OpenRulesFollow
    <3> QED
      BY <2>3, <2>7, <3>5, <3>7, <3>8 DEF Follows
  <2>8. CASE ~Universal(b0)
    <3> DEFINE base == Len(b0.checkPoints)
               saved == Saved(b0, s, n)
    <3>1. PointsExact(b, b0, s, n, h + 1) /\ PhrasesExact(b, b0, s, n, F)
      BY <2>8 DEF Follows
    <3>2. /\ Len(b.checkPoints) = base + (saved + (h + 1))
          /\ \A m \in 1..n : \A i \in 1..Kept(b0, s[m]) :
               b.checkPoints[base + (Saved(b0, s, m - 1) + i)] = Level(b0, s, m - 1)
          /\ \A i \in 1..(h + 1) : b.checkPoints[base + (saved + i)] = Level(b0, s, n)
      BY <2>5, <3>1 DEF PointsExact
    <3>3. Top(b.checkPoints) = Level(b0, s, n) /\ b.checkPoints # << >>
      <4>1. h + 1 \in 1..(h + 1) /\ Len(b.checkPoints) # 0
        BY <2>6, <3>2
      <4>2. b.checkPoints[Len(b.checkPoints)] = Level(b0, s, n)
        BY <3>2, <4>1
      <4>3. b.checkPoints \in Seq([b0.is -> Nat])
        BY Fields
      <4> QED
        BY <4>1, <4>2, <4>3 DEF Top
    <3>4. Held(b0, s, n) \in Nat
      BY <1>1, CountsTyped
    <3>5. /\ c \in Object(b0, V) /\ c.openRules = b.openRules
          /\ PhrasesExact(c, b0, s, n, F)
          /\ Len(c.checkPoints) = Len(b.checkPoints) - 1
          /\ \A j \in 1..(Len(b.checkPoints) - 1) : c.checkPoints[j] = b.checkPoints[j]
      BY <1>1, <2>2, <3>1, <3>3, <3>4, ExactPopped
    <3>6. \A m \in 1..n : \A i \in 1..Kept(b0, s[m]) :
            c.checkPoints[base + (Saved(b0, s, m - 1) + i)] = Level(b0, s, m - 1)
      <4> TAKE m \in 1..n
      <4> TAKE i \in 1..Kept(b0, s[m])
      <4>1. Saved(b0, s, m - 1) + i \in 1..saved
        BY PointBelow
      <4>2. base + (Saved(b0, s, m - 1) + i) \in 1..(Len(b.checkPoints) - 1)
        BY SMTT(40), <2>6, <3>2, <4>1
      <4> QED
        BY <3>2, <3>5, <4>2
    <3>7. \A i \in 1..h : c.checkPoints[base + (saved + i)] = Level(b0, s, n)
      <4> TAKE i \in 1..h
      <4>1. i \in 1..(h + 1) /\ base + (saved + i) \in 1..(Len(b.checkPoints) - 1)
        BY <2>6, <3>2
      <4> QED
        BY <3>2, <3>5, <4>1
    <3>8. Len(c.checkPoints) = base + (saved + h)
      BY <2>6, <3>2, <3>5
    <3>9. PointsExact(c, b0, s, n, h)
      BY <2>5, <3>6, <3>7, <3>8 DEF PointsExact
    <3>10. OpenRulesFollow(c, b0, s, n)
      BY <1>2, <3>5 DEF OpenRulesFollow
    <3> QED
      BY <2>3, <2>8, <3>5, <3>9, <3>10 DEF Follows
  <2> QED
    BY <2>7, <2>8
<1> QED
  BY <1>4, <1>5

-----------------------------------------------------------------------------
(* A phrase found.                                                         *)

LEMMA FoundAbove ==
  ASSUME NEW b0, NEW V, b0 \in Object(b0, V), NEW b \in Object(b0, V), NEW F, NEW G, F \subseteq G,
         NEW r, NEW state, NEW phr \in V, state = "MATCH" => <<r, phr>> \in G,
         Universal(b0), PhrasesAbove(b, b0, F)
  PROVE  PhrasesAbove(PhraseFound(b, r, state, phr), b0, G)
<1>1. PICK c : c = PhraseFound(b, r, state, phr)
  OBVIOUS
<1>2. /\ b.mode = b0.mode
      /\ \A x \in b0.is : c.phrases[x] = IF x = r /\ state = "MATCH" THEN Written(b, b.phrases[x], phr)
                                         ELSE b.phrases[x]
  <2>1. b.mode = b0.mode
    BY Fields
  <2>2. \A x \in b0.is : PhraseFound(b, r, state, phr).phrases[x] =
          IF x = r /\ state = "MATCH" THEN Written(b, b.phrases[x], phr) ELSE b.phrases[x]
    BY PhraseSet
  <2> QED
    BY <1>1, <2>1, <2>2
<1>3. Universal(b)
  BY <1>2 DEF Universal
<1> SUFFICES ASSUME NEW x \in b0.is
             PROVE  /\ Len(c.phrases[x]) >= Len(b0.phrases[x])
                    /\ \A k \in 1..Len(c.phrases[x]) :
                         IF k =< Len(b0.phrases[x]) THEN c.phrases[x][k] = b0.phrases[x][k]
                         ELSE <<x, c.phrases[x][k]>> \in G
  BY <1>1 DEF PhrasesAbove
<1> DEFINE q == b.phrases[x]
<1>4. q \in Seq(V) /\ Len(q) \in Nat /\ Len(b0.phrases[x]) \in Nat
  BY Fields
<1>5. /\ Len(q) >= Len(b0.phrases[x])
      /\ \A k \in 1..Len(q) : IF k =< Len(b0.phrases[x]) THEN q[k] = b0.phrases[x][k]
                              ELSE <<x, q[k]>> \in G
  BY DEF PhrasesAbove
<1>9. c.phrases[x] = IF x = r /\ state = "MATCH" THEN Written(b, q, phr) ELSE q
  BY <1>2
<1> HIDE DEF q
<1>6. CASE x = r /\ state = "MATCH"
  <2>1. c.phrases[x] = Append(q, phr)
    BY <1>3, <1>6, <1>9 DEF Written
  <2>2. /\ Len(Append(q, phr)) = Len(q) + 1 /\ Append(q, phr)[Len(q) + 1] = phr
        /\ \A k \in 1..Len(q) : Append(q, phr)[k] = q[k]
    BY <1>4, Pushed
  <2>3. PICK w : w = c.phrases[x]
    OBVIOUS
  <2>4. Len(w) = Len(q) + 1 /\ w[Len(q) + 1] = phr /\ \A k \in 1..Len(q) : w[k] = q[k]
    BY <2>1, <2>2, <2>3
  <2>5. <<x, phr>> \in G
    BY <1>6
  <2>6. \A k \in 1..Len(w) : k \in 1..Len(q) \/ (k = Len(q) + 1 /\ ~(k =< Len(b0.phrases[x])))
    BY <1>4, <1>5, <2>4
  <2>7. \A k \in 1..Len(w) : IF k =< Len(b0.phrases[x]) THEN w[k] = b0.phrases[x][k]
                             ELSE <<x, w[k]>> \in G
    BY <1>5, <2>4, <2>5, <2>6
  <2>8. Len(w) >= Len(b0.phrases[x])
    BY <1>4, <1>5, <2>4
  <2> QED
    BY <2>3, <2>7, <2>8
<1>7. CASE ~(x = r /\ state = "MATCH")
  BY <1>5, <1>7, <1>9
<1> QED
  BY <1>6, <1>7

LEMMA FoundExact ==
  ASSUME NEW b0, NEW V, b0 \in Object(b0, V), NEW b \in Object(b0, V), NEW F, NEW G, F \subseteq G,
         NEW r, NEW state, NEW phr \in V, state = "MATCH" => <<r, phr>> \in G, NEW s, NEW n,
         ~Universal(b0), PhrasesExact(b, b0, s, n, F)
  PROVE  PhrasesExact(PhraseFound(b, r, state, phr), b0, s, n, G)
<1>1. PICK c : c = PhraseFound(b, r, state, phr)
  OBVIOUS
<1>2. /\ b.mode = b0.mode
      /\ \A x \in b0.is : c.phrases[x] = IF x = r /\ state = "MATCH" THEN Written(b, b.phrases[x], phr)
                                         ELSE b.phrases[x]
  <2>1. b.mode = b0.mode
    BY Fields
  <2>2. \A x \in b0.is : PhraseFound(b, r, state, phr).phrases[x] =
          IF x = r /\ state = "MATCH" THEN Written(b, b.phrases[x], phr) ELSE b.phrases[x]
    BY PhraseSet
  <2> QED
    BY <1>1, <2>1, <2>2
<1>3. ~Universal(b)
  BY <1>2 DEF Universal
<1> SUFFICES ASSUME NEW x \in b0.is
             PROVE  /\ Len(c.phrases[x]) = Len(b0.phrases[x]) + Held(b0, s, n)
                    /\ \A k \in (Len(b0.phrases[x]) + 1)..Len(c.phrases[x]) :
                         c.phrases[x][k] = EmptyPhrase \/ <<x, c.phrases[x][k]>> \in G
  BY <1>1 DEF PhrasesExact
<1> DEFINE q == b.phrases[x]
<1>4. q \in Seq(V) /\ Len(q) \in Nat /\ Len(b0.phrases[x]) \in Nat
  BY Fields
<1>5. /\ Len(q) = Len(b0.phrases[x]) + Held(b0, s, n)
      /\ \A k \in (Len(b0.phrases[x]) + 1)..Len(q) : q[k] = EmptyPhrase \/ <<x, q[k]>> \in G
  BY DEF PhrasesExact
<1>9. c.phrases[x] = IF x = r /\ state = "MATCH" THEN Written(b, q, phr) ELSE q
  BY <1>2
<1> HIDE DEF q
<1>6. CASE x = r /\ state = "MATCH"
  <2>1. c.phrases[x] = Written(b, q, phr)
    BY <1>6, <1>9
  <2>2. PICK w : w = c.phrases[x]
    OBVIOUS
  <2>3. Len(w) = Len(q) /\ \A k \in 1..Len(q) : w[k] = q[k] \/ w[k] = phr
    <3>1. /\ Len(Written(b, q, phr)) = Len(q)
          /\ \A k \in 1..Len(q) : Written(b, q, phr)[k] = q[k] \/ Written(b, q, phr)[k] = phr
      BY <1>3, <1>4, WrittenPhrases
    <3> QED
      BY <2>1, <2>2, <3>1
  <2>4. <<x, phr>> \in G
    BY <1>6
  <2>5. \A k \in (Len(b0.phrases[x]) + 1)..Len(w) :
          k \in 1..Len(q) /\ k \in (Len(b0.phrases[x]) + 1)..Len(q)
    BY <1>4, <2>3
  <2>6. \A k \in (Len(b0.phrases[x]) + 1)..Len(w) : w[k] = EmptyPhrase \/ <<x, w[k]>> \in G
    BY <1>5, <2>3, <2>4, <2>5
  <2> QED
    BY <1>5, <2>2, <2>3, <2>6
<1>7. CASE ~(x = r /\ state = "MATCH")
  BY <1>5, <1>7, <1>9
<1> QED
  BY <1>6, <1>7

LEMMA FoundFollows ==
  ASSUME NEW b0, NEW V, b0 \in Object(b0, V), NEW b \in Object(b0, V), NEW F, NEW G, F \subseteq G,
         NEW r, NEW state, NEW phr \in V, state = "MATCH" => <<r, phr>> \in G, NEW s, NEW n, NEW h,
         Follows(b, b0, s, n, h, F)
  PROVE  /\ PhraseFound(b, r, state, phr) \in Object(b0, V)
         /\ Follows(PhraseFound(b, r, state, phr), b0, s, n, h, G)
<1>1. PICK c : c = PhraseFound(b, r, state, phr)
  OBVIOUS
<1>2. c \in Object(b0, V) /\ c.checkPoints = b.checkPoints /\ c.openRules = b.openRules
  BY <1>1, PhraseSet
<1>3. OpenRulesFollow(c, b0, s, n)
  BY <1>2 DEF Follows, OpenRulesFollow
<1>4. Universal(b0) => PointsAbove(c, b0, s, n, h)
  BY <1>2 DEF Follows, PointsAbove, High
<1>5. ~Universal(b0) => PointsExact(c, b0, s, n, h)
  BY <1>2 DEF Follows, PointsExact
<1>6. Universal(b0) => PhrasesAbove(c, b0, G)
  BY <1>1, FoundAbove DEF Follows
<1>7. ~Universal(b0) => PhrasesExact(c, b0, s, n, G)
  BY <1>1, FoundExact DEF Follows
<1> QED
  BY <1>1, <1>2, <1>3, <1>4, <1>5, <1>6, <1>7 DEF Follows

-----------------------------------------------------------------------------
(* A rule opens.                                                           *)

\* the open rules when one more is
LEMMA OpenRulesPushed ==
  ASSUME NEW b0, NEW V, b0 \in Object(b0, V), NEW b \in Object(b0, V), NEW s, NEW n \in Nat,
         WellSeen(s, n + 1), s[n + 1].rule, OpenRulesFollow(b, b0, s, n), NEW c,
         c.openRules = Append(b.openRules, s[n + 1].index \in b0.has)
  PROVE  OpenRulesFollow(c, b0, s, n + 1)
<1>1. WellSeen(s, n)
  BY DEF WellSeen
<1>2. Rules(s, n) \in Nat /\ Rules(s, n + 1) = Rules(s, n) + 1
  BY Counts
<1>3. b.openRules \in Seq(BOOLEAN) /\ Len(b.openRules) \in Nat /\ Len(b0.openRules) \in Nat
  BY Fields
<1> DEFINE has == s[n + 1].index \in b0.has
<1>4. has \in BOOLEAN
  OBVIOUS
<1>5. /\ Len(c.openRules) = Len(b.openRules) + 1
      /\ c.openRules[Len(b.openRules) + 1] = has
      /\ \A j \in 1..Len(b.openRules) : c.openRules[j] = b.openRules[j]
  <2>1. c.openRules = Append(b.openRules, has)
    OBVIOUS
  <2> HIDE DEF has
  <2> QED
    BY <1>3, <1>4, <2>1, Pushed
<1>6. Len(b.openRules) = Len(b0.openRules) + Rules(s, n)
  BY DEF OpenRulesFollow
<1>7. Len(c.openRules) = Len(b0.openRules) + Rules(s, n + 1)
  BY <1>2, <1>3, <1>5, <1>6
<1>8. \A k \in 1..(n + 1) :
        c.openRules[Len(b0.openRules) + Rules(s, k)] = (s[k].index \in b0.has)
  <2> TAKE k \in 1..(n + 1)
  <2>1. CASE k = n + 1
    <3>1. Len(b0.openRules) + Rules(s, k) = Len(b.openRules) + 1
      BY <1>2, <1>3, <1>6, <2>1
    <3> QED
      BY <1>5, <2>1, <3>1
  <2>2. CASE k # n + 1
    <3>1. k \in 1..n
      BY <2>2
    <3>2. Rules(s, k) \in 1..Rules(s, n) /\ Rules(s, n) \in Nat
      BY <1>1, <1>2, <3>1, RuleBelow
    <3>3. Len(b0.openRules) + Rules(s, k) \in 1..Len(b.openRules)
      BY <1>3, <1>6, <3>2
    <3>4. b.openRules[Len(b0.openRules) + Rules(s, k)] = (s[k].index \in b0.has)
      BY <3>1 DEF OpenRulesFollow
    <3> QED
      BY <1>5, <3>3, <3>4
  <2> QED
    BY <2>1, <2>2
<1> QED
  BY <1>7, <1>8 DEF OpenRulesFollow

\* and when one fewer is
LEMMA OpenRulesPopped ==
  ASSUME NEW b0, NEW V, b0 \in Object(b0, V), NEW b \in Object(b0, V), NEW s, NEW n \in Nat,
         WellSeen(s, n + 1), s[n + 1].rule, OpenRulesFollow(b, b0, s, n + 1), NEW c,
         c.openRules = Pop(b.openRules)
  PROVE  OpenRulesFollow(c, b0, s, n)
<1>1. WellSeen(s, n)
  BY DEF WellSeen
<1>2. Rules(s, n) \in Nat /\ Rules(s, n + 1) = Rules(s, n) + 1
  BY Counts
<1>3. b.openRules \in Seq(BOOLEAN) /\ Len(b.openRules) \in Nat /\ Len(b0.openRules) \in Nat
  BY Fields
<1>4. Len(b.openRules) = Len(b0.openRules) + Rules(s, n + 1)
  BY DEF OpenRulesFollow
<1>5. b.openRules # << >>
  BY <1>2, <1>3, <1>4
<1>6. PICK q \in Seq(BOOLEAN) : q = b.openRules
  BY <1>3
<1>7. /\ Len(Pop(q)) = Len(q) - 1
      /\ \A j \in 1..(Len(q) - 1) : Pop(q)[j] = q[j]
  BY <1>5, <1>6, Popped
<1>8. /\ Len(c.openRules) = Len(b.openRules) - 1
      /\ \A j \in 1..(Len(b.openRules) - 1) : c.openRules[j] = b.openRules[j]
  BY <1>6, <1>7
<1>9. Len(c.openRules) = Len(b0.openRules) + Rules(s, n)
  BY <1>2, <1>3, <1>4, <1>8
<1>10. \A k \in 1..n : c.openRules[Len(b0.openRules) + Rules(s, k)] = (s[k].index \in b0.has)
  <2> TAKE k \in 1..n
  <2>1. Rules(s, k) \in 1..Rules(s, n)
    BY <1>1, RuleBelow
  <2>2. Len(b0.openRules) + Rules(s, k) \in 1..(Len(b.openRules) - 1)
    BY <1>2, <1>3, <1>4, <2>1
  <2>3. b.openRules[Len(b0.openRules) + Rules(s, k)] = (s[k].index \in b0.has)
    BY DEF OpenRulesFollow
  <2> QED
    BY <1>8, <2>2, <2>3
<1> QED
  BY <1>9, <1>10 DEF OpenRulesFollow

\* the rule's own check point, and the empty phrases of a new frame in parent mode
RulePoint(b, r) == IF Concerned(b, r) THEN PushCheckPoint(b) ELSE b
RuleEmpties(b, c, r) == IF r \in b.has /\ ~Universal(b) THEN PushEmptyPhrase(c) ELSE c

LEMMA RulePointPushed ==
  ASSUME NEW b0, NEW V, b0 \in Object(b0, V), NEW b \in Object(b0, V), NEW F, NEW s, NEW n \in Nat,
         WellSeen(s, n + 1), s[n + 1].rule, NEW r, r = s[n + 1].index, Follows(b, b0, s, n, 0, F)
  PROVE  /\ RulePoint(b, r) \in Object(b0, V)
         /\ RulePoint(b, r).openRules = b.openRules
         /\ Universal(b0) => /\ PointsAbove(RulePoint(b, r), b0, s, n + 1, 0)
                             /\ PhrasesAbove(RulePoint(b, r), b0, F)
         /\ ~Universal(b0) => /\ PointsExact(RulePoint(b, r), b0, s, n + 1, 0)
                              /\ PhrasesExact(RulePoint(b, r), b0, s, n, F)
<1>1. PICK c : c = RulePoint(b, r)
  OBVIOUS
<1>2. b.has = b0.has /\ b.is = b0.is
  BY Fields
<1>3. Concerned(b, r) <=> Concerned(b0, r)
  BY <1>2 DEF Concerned
<1> DEFINE k == Kept(b0, s[n + 1])
           base == Len(b0.checkPoints)
           saved == Saved(b0, s, n)
<1>4. k = IF Concerned(b0, r) THEN 1 ELSE 0
  BY DEF Kept
<1>5. /\ saved \in Nat /\ base \in Nat /\ Len(b.checkPoints) \in Nat
      /\ Saved(b0, s, n + 1) = saved + k
  BY Fields, Counts
<1> HIDE DEF k
<1>6. Extra(b0, s, n, 0) = 0 /\ Extra(b0, s, n + 1, 0) = 0
  BY DEF Extra
<1>7. WellSeen(s, n)
  BY DEF WellSeen
<1>8. c \in Object(b0, V) /\ c.openRules = b.openRules
  BY <1>1, PointPushed DEF RulePoint
<1>9. CASE Universal(b0)
  <2>1. PointsAbove(b, b0, s, n, 0) /\ PhrasesAbove(b, b0, F)
    BY <1>9 DEF Follows
  <2>2. High(b, b0) /\ Len(b.checkPoints) >= base + (saved + 0)
    BY <1>6, <2>1 DEF PointsAbove
  <2>3. High(c, b0) /\ PhrasesAbove(c, b0, F) /\ Len(c.checkPoints) = Len(b.checkPoints) + k
    <3>1. CASE Concerned(b, r)
      BY <1>1, <1>3, <1>4, <2>1, <2>2, <3>1, HighPushed DEF RulePoint
    <3>2. CASE ~Concerned(b, r)
      <4>1. c = b /\ k = 0
        BY <1>1, <1>3, <1>4, <3>2 DEF RulePoint
      <4> QED
        BY <1>5, <2>1, <2>2, <4>1
    <3> QED
      BY <3>1, <3>2
  <2>4. Len(c.checkPoints) >= base + (Saved(b0, s, n + 1) + 0)
    <3>1. k = 0 \/ k = 1
      BY <1>4
    <3> QED
      BY <1>5, <2>2, <2>3, <3>1
  <2>5. PointsAbove(c, b0, s, n + 1, 0)
    BY <1>6, <2>3, <2>4 DEF PointsAbove
  <2> QED
    BY <1>1, <1>8, <1>9, <2>3, <2>5
<1>10. CASE ~Universal(b0)
  <2>1. PointsExact(b, b0, s, n, 0) /\ PhrasesExact(b, b0, s, n, F)
    BY <1>10 DEF Follows
  <2>2. /\ Len(b.checkPoints) = base + (saved + 0)
        /\ \A m \in 1..n : \A i \in 1..Kept(b0, s[m]) :
             b.checkPoints[base + (Saved(b0, s, m - 1) + i)] = Level(b0, s, m - 1)
    BY <1>6, <2>1 DEF PointsExact
  <2>3. /\ PhrasesExact(c, b0, s, n, F)
        /\ Len(c.checkPoints) = Len(b.checkPoints) + k
        /\ \A j \in 1..Len(b.checkPoints) : c.checkPoints[j] = b.checkPoints[j]
        /\ k = 1 => c.checkPoints[Len(b.checkPoints) + 1] = Level(b0, s, n)
    <3>1. CASE Concerned(b, r)
      BY <1>1, <1>3, <1>4, <2>1, <3>1, ExactPushed DEF RulePoint
    <3>2. CASE ~Concerned(b, r)
      <4>1. c = b /\ k = 0
        BY <1>1, <1>3, <1>4, <3>2 DEF RulePoint
      <4> QED
        BY <1>5, <2>1, <4>1
    <3> QED
      BY <3>1, <3>2
  <2>4. \A m \in 1..(n + 1) : \A i \in 1..Kept(b0, s[m]) :
          c.checkPoints[base + (Saved(b0, s, m - 1) + i)] = Level(b0, s, m - 1)
    <3> TAKE m \in 1..(n + 1)
    <3> TAKE i \in 1..Kept(b0, s[m])
    <3>1. CASE m = n + 1
      <4>1. m - 1 = n /\ k = 1 /\ i = 1
        BY <1>4, <3>1 DEF k
      <4>2. base + (Saved(b0, s, m - 1) + i) = Len(b.checkPoints) + 1
        BY <1>5, <2>2, <4>1
      <4> QED
        BY <2>3, <4>1, <4>2
    <3>2. CASE m # n + 1
      <4>1. m \in 1..n
        BY <3>2
      <4>2. Saved(b0, s, m - 1) + i \in 1..saved
        BY <1>7, <4>1, PointBelow
      <4>3. base + (Saved(b0, s, m - 1) + i) \in 1..Len(b.checkPoints)
        BY <1>5, <2>2, <4>2
      <4> QED
        BY <2>2, <2>3, <4>1, <4>3
    <3> QED
      BY <3>1, <3>2
  <2>5. Len(c.checkPoints) = base + (Saved(b0, s, n + 1) + 0)
    <3>1. k \in Nat
      BY <1>4
    <3>2. Len(c.checkPoints) = (base + (saved + 0)) + k
      BY <2>2, <2>3
    <3> HIDE DEF base, saved
    <3> QED
      BY <1>5, <3>1, <3>2
  <2>6. PointsExact(c, b0, s, n + 1, 0)
    BY <1>6, <2>4, <2>5 DEF PointsExact
  <2> QED
    BY <1>1, <1>8, <1>10, <2>3, <2>6
<1> QED
  BY <1>9, <1>10

LEMMA RuleEmptiesPushed ==
  ASSUME NEW b0, NEW V, b0 \in Object(b0, V), EmptyPhrase \in V, NEW b \in Object(b0, V),
         NEW c \in Object(b0, V), NEW F, NEW s, NEW n \in Nat,
         WellSeen(s, n + 1), s[n + 1].rule, NEW r, r = s[n + 1].index,
         ~Universal(b0), PhrasesExact(c, b0, s, n, F)
  PROVE  PhrasesExact(RuleEmpties(b, c, r), b0, s, n + 1, F)
<1>1. PICK d : d = RuleEmpties(b, c, r)
  OBVIOUS
<1>2. b.has = b0.has /\ ~Universal(b)
  BY Fields DEF Universal
<1> DEFINE held == Held(b0, s, n)
           k == IF r \in b0.has THEN 1 ELSE 0
<1>3. Held(b0, s, n + 1) = held + k /\ held \in Nat
  BY Counts
<1>4. k \in {0, 1} /\ (k = 1 <=> r \in b0.has)
  OBVIOUS
<1> HIDE DEF k
<1> SUFFICES ASSUME NEW x \in b0.is
             PROVE  /\ Len(d.phrases[x]) = Len(b0.phrases[x]) + Held(b0, s, n + 1)
                    /\ \A j \in (Len(b0.phrases[x]) + 1)..Len(d.phrases[x]) :
                         d.phrases[x][j] = EmptyPhrase \/ <<x, d.phrases[x][j]>> \in F
  BY <1>1 DEF PhrasesExact
<1> DEFINE q == c.phrases[x]
<1>5. q \in Seq(V) /\ Len(q) \in Nat /\ Len(b0.phrases[x]) \in Nat
  BY Fields
<1>6. /\ Len(q) = Len(b0.phrases[x]) + held
      /\ \A j \in (Len(b0.phrases[x]) + 1)..Len(q) : q[j] = EmptyPhrase \/ <<x, q[j]>> \in F
  BY DEF PhrasesExact
<1>7. CASE r \in b0.has
  <2>1. PushEmptyPhrase(c).phrases[x] = Append(q, EmptyPhrase)
    BY EmptiesPushed
  <2>2. d.phrases[x] = Append(q, EmptyPhrase)
    BY <1>1, <1>2, <1>7, <2>1 DEF RuleEmpties
  <2>3. PICK w : w = d.phrases[x]
    OBVIOUS
  <2>4. Len(w) = Len(q) + 1 /\ w[Len(q) + 1] = EmptyPhrase /\ \A j \in 1..Len(q) : w[j] = q[j]
    <3> HIDE DEF q
    <3> QED
      BY <1>5, <2>2, <2>3, Pushed
  <2> HIDE DEF q
  <2>5. Len(w) = Len(b0.phrases[x]) + Held(b0, s, n + 1)
    BY SMTT(40), <1>3, <1>4, <1>5, <1>6, <1>7, <2>4
  <2>6. \A j \in (Len(b0.phrases[x]) + 1)..Len(w) :
          j = Len(q) + 1 \/ (j \in (Len(b0.phrases[x]) + 1)..Len(q) /\ j \in 1..Len(q))
    BY <1>5, <2>4
  <2>7. \A j \in (Len(b0.phrases[x]) + 1)..Len(w) : w[j] = EmptyPhrase \/ <<x, w[j]>> \in F
    BY <1>6, <2>4, <2>6
  <2> QED
    BY <2>3, <2>5, <2>7
<1>8. CASE r \notin b0.has
  <2>1. d.phrases[x] = q
    BY <1>1, <1>2, <1>8 DEF RuleEmpties
  <2>2. Held(b0, s, n + 1) = held
    BY <1>3, <1>4, <1>8
  <2> HIDE DEF q
  <2> QED
    BY <1>6, <2>1, <2>2
<1> QED
  BY <1>7, <1>8

LEMMA RuleOpened ==
  ASSUME NEW b0, NEW V, b0 \in Object(b0, V), EmptyPhrase \in V, NEW b \in Object(b0, V),
         NEW F, NEW s, NEW n \in Nat,
         WellSeen(s, n + 1), s[n + 1].rule, NEW r, r = s[n + 1].index, Follows(b, b0, s, n, 0, F)
  PROVE  /\ BkrRuleOpen(b, r) \in Object(b0, V)
         /\ Follows(BkrRuleOpen(b, r), b0, s, n + 1, 0, F)
<1>1. PICK c : c = RulePoint(b, r)
  OBVIOUS
<1>2. PICK d : d = RuleEmpties(b, c, r)
  OBVIOUS
<1>3. b.has = b0.has /\ b.mode = b0.mode
  BY Fields
<1>4. /\ c \in Object(b0, V) /\ c.openRules = b.openRules
      /\ Universal(b0) => PointsAbove(c, b0, s, n + 1, 0) /\ PhrasesAbove(c, b0, F)
      /\ ~Universal(b0) => PointsExact(c, b0, s, n + 1, 0) /\ PhrasesExact(c, b0, s, n, F)
  BY <1>1, RulePointPushed
<1>5. d \in Object(b0, V) /\ d.openRules = b.openRules /\ d.checkPoints = c.checkPoints
  <2>1. /\ PushEmptyPhrase(c) \in Object(b0, V)
        /\ PushEmptyPhrase(c).checkPoints = c.checkPoints
        /\ PushEmptyPhrase(c).openRules = c.openRules
    BY <1>4, EmptiesPushed
  <2> QED
    BY <1>2, <1>4, <2>1 DEF RuleEmpties
<1>6. Universal(b0) => d = c
  BY <1>2, <1>3 DEF RuleEmpties, Universal
<1>7. ~Universal(b0) => PhrasesExact(d, b0, s, n + 1, F)
  BY <1>2, <1>4, RuleEmptiesPushed
<1>8. PICK e : e = [d EXCEPT !.openRules = Append(@, r \in b.has)]
  OBVIOUS
<1>9. e = BkrRuleOpen(b, r)
  BY <1>1, <1>2, <1>8 DEF BkrRuleOpen, RulePoint, RuleEmpties
<1>10. /\ e \in Object(b0, V) /\ e.checkPoints = d.checkPoints /\ e.phrases = d.phrases
       /\ e.openRules = Append(b.openRules, r \in b0.has)
  <2> DEFINE has == r \in b0.has
             q == Append(b.openRules, has)
  <2>1. has \in BOOLEAN
    OBVIOUS
  <2>2. q \in Seq(BOOLEAN)
    <3>1. b.openRules \in Seq(BOOLEAN)
      BY Fields
    <3> HIDE DEF has
    <3> QED
      BY <2>1, <3>1, Pushed
  <2>3. e = [d EXCEPT !.openRules = q]
    BY <1>3, <1>5, <1>8
  <2>4. q = Append(b.openRules, r \in b0.has)
    OBVIOUS
  <2> HIDE DEF q
  <2>5. /\ e \in Object(b0, V) /\ e.checkPoints = d.checkPoints /\ e.phrases = d.phrases
        /\ e.openRules = q
    BY <1>5, <2>2, <2>3, RulesSet
  <2> QED
    BY <2>4, <2>5
<1>11. OpenRulesFollow(b, b0, s, n)
  BY DEF Follows
<1>12. e.openRules = Append(b.openRules, s[n + 1].index \in b0.has)
  BY <1>10
<1>13. OpenRulesFollow(e, b0, s, n + 1)
  BY <1>11, <1>12, OpenRulesPushed
<1>14. Universal(b0) => PointsAbove(e, b0, s, n + 1, 0) /\ PhrasesAbove(e, b0, F)
  BY <1>4, <1>6, <1>10 DEF PointsAbove, PhrasesAbove, High
<1>15. ~Universal(b0) => PointsExact(e, b0, s, n + 1, 0) /\ PhrasesExact(e, b0, s, n + 1, F)
  BY <1>4, <1>5, <1>7, <1>10 DEF PointsExact, PhrasesExact
<1> QED
  BY <1>9, <1>10, <1>13, <1>14, <1>15 DEF Follows

-----------------------------------------------------------------------------
(* A rule closes.                                                          *)

LEMMA RulePointPopped ==
  ASSUME NEW b0, NEW V, b0 \in Object(b0, V), NEW b \in Object(b0, V), NEW F, NEW s, NEW n \in Nat,
         WellSeen(s, n + 1), s[n + 1].rule, NEW r, r = s[n + 1].index, NEW state,
         Follows(b, b0, s, n + 1, 0, F)
  PROVE  /\ RuleCheckPoint(b, r, state) \in Object(b0, V)
         /\ RuleCheckPoint(b, r, state).openRules = b.openRules
         /\ Universal(b0) => /\ PointsAbove(RuleCheckPoint(b, r, state), b0, s, n, 0)
                             /\ PhrasesAbove(RuleCheckPoint(b, r, state), b0, F)
         /\ ~Universal(b0) => /\ PointsExact(RuleCheckPoint(b, r, state), b0, s, n, 0)
                              /\ PhrasesExact(RuleCheckPoint(b, r, state), b0, s, n, F)
<1>1. PICK c : c = RuleCheckPoint(b, r, state)
  OBVIOUS
<1>2. b.has = b0.has /\ b.is = b0.is /\ b.mode = b0.mode
  BY Fields
<1>3. (Concerned(b, r) <=> Concerned(b0, r)) /\ (Universal(b) <=> Universal(b0))
  BY <1>2 DEF Concerned, Universal
<1> DEFINE k == Kept(b0, s[n + 1])
           base == Len(b0.checkPoints)
           saved == Saved(b0, s, n)
<1>4. k = IF Concerned(b0, r) THEN 1 ELSE 0
  BY DEF Kept
<1>5. /\ saved \in Nat /\ base \in Nat /\ Len(b.checkPoints) \in Nat
      /\ Saved(b0, s, n + 1) = saved + k
  BY Fields, Counts
<1> HIDE DEF k
<1>6. Extra(b0, s, n, 0) = 0 /\ Extra(b0, s, n + 1, 0) = 0
  BY DEF Extra
<1>7. WellSeen(s, n) /\ n + 1 \in Nat
  BY DEF WellSeen
<1>8. CASE Universal(b0)
  <2>1. PointsAbove(b, b0, s, n + 1, 0) /\ PhrasesAbove(b, b0, F)
    BY <1>8 DEF Follows
  <2>2. High(b, b0) /\ Len(b.checkPoints) >= base + ((saved + k) + 0)
    BY <1>5, <1>6, <2>1 DEF PointsAbove
  <2>3. CASE Concerned(b, r) /\ state # "MATCH"
    <3>1. c = PopCheckPoint(b, TRUE) /\ k = 1
      BY <1>1, <1>3, <1>4, <2>3 DEF RuleCheckPoint
    <3>2. Len(b.checkPoints) > base
      BY <1>5, <2>2, <3>1
    <3>3. /\ c \in Object(b0, V) /\ c.openRules = b.openRules /\ High(c, b0) /\ PhrasesAbove(c, b0, F)
          /\ Len(c.checkPoints) = Len(b.checkPoints) - 1
      BY <2>1, <2>2, <3>1, <3>2, HighPopped
    <3>4. Len(c.checkPoints) >= base + (saved + 0)
      <4>1. Len(c.checkPoints) = Len(b.checkPoints) - 1
        BY <3>3
      <4>2. Len(b.checkPoints) >= base + ((saved + 1) + 0)
        BY <2>2, <3>1
      <4> HIDE DEF base, saved
      <4> QED
        BY <1>5, <4>1, <4>2
    <3>5. PointsAbove(c, b0, s, n, 0)
      BY <1>6, <3>3, <3>4 DEF PointsAbove
    <3> QED
      BY <1>1, <1>8, <3>3, <3>5
  <2>4. CASE ~(Concerned(b, r) /\ state # "MATCH")
    <3>1. c = b
      BY <1>1, <1>3, <1>8, <2>4 DEF RuleCheckPoint
    <3>2. k \in Nat
      BY <1>4
    <3>3. Len(b.checkPoints) >= base + (saved + 0)
      BY <1>5, <2>2, <3>2
    <3>4. PointsAbove(c, b0, s, n, 0)
      BY <1>6, <2>2, <3>1, <3>3 DEF PointsAbove
    <3> QED
      BY <1>1, <1>8, <2>1, <3>1, <3>4
  <2> QED
    BY <2>3, <2>4
<1>9. CASE ~Universal(b0)
  <2>1. PointsExact(b, b0, s, n + 1, 0) /\ PhrasesExact(b, b0, s, n + 1, F)
    BY <1>9 DEF Follows
  <2>2. /\ Len(b.checkPoints) = base + ((saved + k) + 0)
        /\ \A m \in 1..(n + 1) : \A i \in 1..Kept(b0, s[m]) :
             b.checkPoints[base + (Saved(b0, s, m - 1) + i)] = Level(b0, s, m - 1)
    BY <1>5, <1>6, <2>1 DEF PointsExact
  <2>3. /\ Held(b0, s, n) \in Nat
        /\ Held(b0, s, n + 1) = IF r \in b0.has THEN Held(b0, s, n) + 1 ELSE Held(b0, s, n)
    BY Counts
  <2>4. CASE Concerned(b, r)
    <3>1. c = PopCheckPoint(b, TRUE) /\ k = 1
      BY <1>1, <1>3, <1>4, <1>9, <2>4 DEF RuleCheckPoint
    <3>2. Top(b.checkPoints) = Level(b0, s, n) /\ b.checkPoints # << >>
      <4>1. n + 1 \in 1..(n + 1) /\ (n + 1) - 1 = n /\ 1 \in 1..Kept(b0, s[n + 1])
        BY <3>1 DEF k
      <4>2. b.checkPoints[base + (saved + 1)] = Level(b0, s, n)
        BY <2>2, <4>1
      <4>3. Len(b.checkPoints) = base + (saved + 1) /\ Len(b.checkPoints) # 0
        BY <1>5, <2>2, <3>1
      <4> QED
        BY <4>2, <4>3 DEF Top
    <3>3. Held(b0, s, n) =< Held(b0, s, n + 1)
      BY <2>3
    <3>4. /\ c \in Object(b0, V) /\ c.openRules = b.openRules
          /\ PhrasesExact(c, b0, s, n, F)
          /\ Len(c.checkPoints) = Len(b.checkPoints) - 1
          /\ \A j \in 1..(Len(b.checkPoints) - 1) : c.checkPoints[j] = b.checkPoints[j]
      <4>1. PICK restore \in BOOLEAN : restore = TRUE
        OBVIOUS
      <4>2. c = PopCheckPoint(b, restore) /\ restore
        BY <3>1, <4>1
      <4>3. PICK m \in Nat : m = n + 1
        BY <1>7
      <4>4. PhrasesExact(b, b0, s, m, F) /\ Held(b0, s, n) =< Held(b0, s, m)
        BY <2>1, <3>3, <4>3
      <4>6. restore \/ Held(b0, s, n) = Held(b0, s, m)
        BY <4>2
      <4>5. /\ PopCheckPoint(b, restore) \in Object(b0, V)
            /\ PopCheckPoint(b, restore).openRules = b.openRules
            /\ PhrasesExact(PopCheckPoint(b, restore), b0, s, n, F)
            /\ Len(PopCheckPoint(b, restore).checkPoints) = Len(b.checkPoints) - 1
            /\ \A j \in 1..(Len(b.checkPoints) - 1) :
                 PopCheckPoint(b, restore).checkPoints[j] = b.checkPoints[j]
        <5> HIDE DEF base, saved
        <5> QED
          BY <3>2, <4>4, <4>6, ExactPopped
      <4> QED
        BY <4>2, <4>5
    <3>5. \A m \in 1..n : \A i \in 1..Kept(b0, s[m]) :
            c.checkPoints[base + (Saved(b0, s, m - 1) + i)] = Level(b0, s, m - 1)
      <4> TAKE m \in 1..n
      <4> TAKE i \in 1..Kept(b0, s[m])
      <4>1. Saved(b0, s, m - 1) + i \in 1..saved /\ m \in 1..(n + 1)
        BY <1>7, PointBelow
      <4>2. base + (Saved(b0, s, m - 1) + i) \in 1..(Len(b.checkPoints) - 1)
        BY SMTT(40), <1>5, <2>2, <3>1, <4>1
      <4> QED
        BY <2>2, <3>4, <4>1, <4>2
    <3>6. Len(c.checkPoints) = base + (saved + 0)
      <4>1. Len(c.checkPoints) = Len(b.checkPoints) - 1
        BY <3>4
      <4>2. Len(b.checkPoints) = base + ((saved + 1) + 0)
        BY <2>2, <3>1
      <4> HIDE DEF base, saved
      <4> QED
        BY <1>5, <4>1, <4>2
    <3>7. PointsExact(c, b0, s, n, 0)
      BY <1>6, <3>5, <3>6 DEF PointsExact
    <3> QED
      BY <1>1, <1>9, <3>4, <3>7
  <2>5. CASE ~Concerned(b, r)
    <3>1. c = b /\ k = 0 /\ r \notin b0.has
      BY <1>1, <1>2, <1>3, <1>4, <2>5 DEF RuleCheckPoint, Concerned
    <3>2. PhrasesExact(c, b0, s, n, F)
      BY <2>1, <2>3, <3>1 DEF PhrasesExact
    <3>3. Len(c.checkPoints) = base + (saved + 0)
      BY <1>5, <2>2, <3>1
    <3>4. \A m \in 1..n : m \in 1..(n + 1)
      OBVIOUS
    <3>5. PointsExact(c, b0, s, n, 0)
      BY <1>6, <2>2, <3>1, <3>3, <3>4 DEF PointsExact
    <3> QED
      BY <1>1, <1>9, <3>1, <3>2, <3>5
  <2> QED
    BY <2>4, <2>5
<1> QED
  BY <1>8, <1>9

LEMMA RuleClosed ==
  ASSUME NEW b0, NEW V, b0 \in Object(b0, V), NEW b \in Object(b0, V), NEW F, NEW G, F \subseteq G,
         NEW s, NEW n \in Nat, WellSeen(s, n + 1), s[n + 1].rule, NEW r, r = s[n + 1].index,
         NEW state, NEW phr \in V, state = "MATCH" => <<r, phr>> \in G,
         Follows(b, b0, s, n + 1, 0, F)
  PROVE  /\ BkrRuleClose(b, r, state, phr) \in Object(b0, V)
         /\ Follows(BkrRuleClose(b, r, state, phr), b0, s, n, 0, G)
<1>1. PICK c : c = RuleCheckPoint(b, r, state)
  OBVIOUS
<1>2. PICK d : d = PhraseFound(c, r, state, phr)
  OBVIOUS
<1>3. /\ c \in Object(b0, V) /\ c.openRules = b.openRules
      /\ Universal(b0) => PointsAbove(c, b0, s, n, 0) /\ PhrasesAbove(c, b0, F)
      /\ ~Universal(b0) => PointsExact(c, b0, s, n, 0) /\ PhrasesExact(c, b0, s, n, F)
  BY <1>1, RulePointPopped
<1>4. d \in Object(b0, V) /\ d.checkPoints = c.checkPoints /\ d.openRules = c.openRules
  BY <1>2, <1>3, PhraseSet
<1>5. Universal(b0) => PhrasesAbove(d, b0, G)
  BY <1>2, <1>3, FoundAbove
<1>6. ~Universal(b0) => PhrasesExact(d, b0, s, n, G)
  BY <1>2, <1>3, FoundExact
<1>7. OpenRulesFollow(b, b0, s, n + 1)
  BY DEF Follows
<1>8. d.openRules # << >> /\ d.error = FALSE
  <2>1. n + 1 # 0
    OBVIOUS
  <2>2. b.openRules # << >>
    BY <1>7, <2>1, TopRule
  <2>3. d.error = FALSE
    BY <1>4, Fields
  <2> QED
    BY <1>3, <1>4, <2>2, <2>3
<1>9. PICK e : e = [d EXCEPT !.openRules = Pop(@)]
  OBVIOUS
<1>10. e = BkrRuleClose(b, r, state, phr)
  BY <1>1, <1>2, <1>8, <1>9 DEF BkrRuleClose
<1>11. /\ e \in Object(b0, V) /\ e.checkPoints = d.checkPoints /\ e.phrases = d.phrases
       /\ e.openRules = Pop(d.openRules)
  <2> DEFINE f == [d EXCEPT !.openRules = Pop(@)]
  <2>1. /\ f \in Object(b0, V) /\ f.checkPoints = d.checkPoints /\ f.phrases = d.phrases
        /\ f.openRules = Pop(d.openRules)
    BY <1>4, <1>8, RulePopped
  <2>2. e = f
    BY <1>9
  <2> HIDE DEF f
  <2> QED
    BY <2>1, <2>2
<1>12. e.openRules = Pop(b.openRules)
  BY <1>3, <1>4, <1>11
<1>13. OpenRulesFollow(e, b0, s, n)
  BY <1>7, <1>12, OpenRulesPopped
<1>14. Universal(b0) => PointsAbove(e, b0, s, n, 0) /\ PhrasesAbove(e, b0, G)
  BY <1>3, <1>4, <1>5, <1>11 DEF PointsAbove, PhrasesAbove, High
<1>15. ~Universal(b0) => PointsExact(e, b0, s, n, 0) /\ PhrasesExact(e, b0, s, n, G)
  BY <1>3, <1>4, <1>6, <1>11 DEF PointsExact, PhrasesExact
<1> QED
  BY <1>10, <1>11, <1>13, <1>14, <1>15 DEF Follows

-----------------------------------------------------------------------------
(* The frames.                                                             *)

\* an operator's frame holds the check points that its hooks have set
LEMMA OperatorFrame ==
  ASSUME NEW b0, NEW V, b0 \in Object(b0, V), NEW b \in Object(b0, V), NEW F, NEW s, NEW n \in Nat,
         WellSeen(s, n + 1), n # 0, ~s[n + 1].rule, NEW h \in 0..2, h = s[n + 1].hooks
  PROVE  Follows(b, b0, s, n, h, F) <=> Follows(b, b0, s, n + 1, 0, F)
<1> DEFINE saved == Saved(b0, s, n)
           base == Len(b0.checkPoints)
           k == Kept(b0, s[n + 1])
<1>1. s[n + 1].index = s[n].index
  <2>1. n + 1 \in 1..(n + 1) /\ (n + 1) - 1 = n
    OBVIOUS
  <2> QED
    BY <2>1 DEF WellSeen
<1>2. /\ Rules(s, n + 1) = Rules(s, n) /\ Held(b0, s, n + 1) = Held(b0, s, n)
      /\ Saved(b0, s, n + 1) = saved + k /\ k \in 0..2 /\ saved \in Nat
  BY Counts
<1>3. k = Extra(b0, s, n, h) /\ Extra(b0, s, n + 1, 0) = 0
  BY <1>1 DEF Kept, Extra
<1>4. Len(b.checkPoints) \in Nat /\ base \in Nat
  BY Fields
<1> HIDE DEF k
<1>5. OpenRulesFollow(b, b0, s, n) <=> OpenRulesFollow(b, b0, s, n + 1)
  <2>1. \A j \in 1..(n + 1) : j \in 1..n \/ j = n + 1
    OBVIOUS
  <2>2. \A j \in 1..n : j \in 1..(n + 1)
    OBVIOUS
  <2>3. n \in 1..n /\ n + 1 \in 1..(n + 1)
    OBVIOUS
  <2> QED
    BY <1>1, <1>2, <2>1, <2>2, <2>3 DEF OpenRulesFollow
<1>6. (saved + Extra(b0, s, n, h)) = Saved(b0, s, n + 1) + Extra(b0, s, n + 1, 0)
  BY <1>2, <1>3
<1>7. PointsAbove(b, b0, s, n, h) <=> PointsAbove(b, b0, s, n + 1, 0)
  BY <1>6 DEF PointsAbove
<1>8. PhrasesExact(b, b0, s, n, F) <=> PhrasesExact(b, b0, s, n + 1, F)
  BY <1>2 DEF PhrasesExact
<1>9. PointsExact(b, b0, s, n, h) <=> PointsExact(b, b0, s, n + 1, 0)
  <2> DEFINE Below == \A m \in 1..n : \A i \in 1..Kept(b0, s[m]) :
                        b.checkPoints[base + (Saved(b0, s, m - 1) + i)] = Level(b0, s, m - 1)
             Here == \A i \in 1..k : b.checkPoints[base + (saved + i)] = Level(b0, s, n)
             Both == \A m \in 1..(n + 1) : \A i \in 1..Kept(b0, s[m]) :
                       b.checkPoints[base + (Saved(b0, s, m - 1) + i)] = Level(b0, s, m - 1)
  <2>1. Both <=> Below /\ Here
    <3>1. (n + 1) - 1 = n /\ k = Kept(b0, s[n + 1])
      BY DEF k
    <3>2. \A m \in 1..(n + 1) : m \in 1..n \/ m = n + 1
      OBVIOUS
    <3>3. \A m \in 1..n : m \in 1..(n + 1)
      OBVIOUS
    <3>4. n + 1 \in 1..(n + 1)
      OBVIOUS
    <3>5. ASSUME Both PROVE Below /\ Here
      BY <3>1, <3>3, <3>4, <3>5
    <3>6. ASSUME Below, Here PROVE Both
      <4> TAKE m \in 1..(n + 1)
      <4> TAKE i \in 1..Kept(b0, s[m])
      <4>1. CASE m = n + 1
        BY <3>1, <3>6, <4>1
      <4>2. CASE m \in 1..n
        BY <3>6, <4>2
      <4> QED
        BY <3>2, <4>1, <4>2
    <3> QED
      BY <3>5, <3>6
  <2>2. PointsExact(b, b0, s, n, h) <=>
          Len(b.checkPoints) = base + (saved + Extra(b0, s, n, h)) /\ Below /\ Here
    BY <1>3 DEF PointsExact
  <2>3. PointsExact(b, b0, s, n + 1, 0) <=>
          Len(b.checkPoints) = base + (Saved(b0, s, n + 1) + Extra(b0, s, n + 1, 0)) /\ Both
    <3>1. 1..Extra(b0, s, n + 1, 0) = {}
      BY <1>3
    <3> QED
      BY <3>1 DEF PointsExact
  <2> HIDE DEF Below, Here, Both, base, saved
  <2> QED
    BY <1>6, <2>1, <2>2, <2>3 DEF saved
<1> QED
  BY <1>5, <1>7, <1>8, <1>9 DEF Follows

\* only the frames below n matter
LEMMA SameFrames ==
  ASSUME NEW b0, NEW b, NEW F, NEW s, NEW t, NEW n \in Nat, NEW h, h = 0 \/ n # 0,
         1..n \subseteq DOMAIN s, 1..n \subseteq DOMAIN t, \A k \in 1..n : s[k] = t[k],
         Follows(b, b0, s, n, h, F)
  PROVE  Follows(b, b0, t, n, h, F)
<1>1. \A m \in 0..n : /\ Rules(s, m) = Rules(t, m)
                      /\ Held(b0, s, m) = Held(b0, t, m)
                      /\ Saved(b0, s, m) = Saved(b0, t, m)
  <2> TAKE m \in 0..n
  <2>1. m \in Nat /\ \A k \in 1..m : k \in DOMAIN s /\ k \in DOMAIN t /\ s[k] = t[k]
    OBVIOUS
  <2>2. \A k \in 1..m : k \in IsRule(s) <=> k \in IsRule(t)
    BY <2>1 DEF IsRule
  <2>3. \A k \in 1..m : k \in Holds(b0, s) <=> k \in Holds(b0, t)
    BY <2>1 DEF Holds
  <2>4. \A k \in 1..m : k \in KeepsOne(b0, s) <=> k \in KeepsOne(b0, t)
    BY <2>1 DEF KeepsOne
  <2>5. \A k \in 1..m : k \in KeepsTwo(b0, s) <=> k \in KeepsTwo(b0, t)
    BY <2>1 DEF KeepsTwo
  <2>6. UpTo(IsRule(s), m) = UpTo(IsRule(t), m)
    BY <2>1, <2>2, CountSame
  <2>7. UpTo(Holds(b0, s), m) = UpTo(Holds(b0, t), m)
    BY <2>1, <2>3, CountSame
  <2>8. UpTo(KeepsOne(b0, s), m) = UpTo(KeepsOne(b0, t), m)
    BY <2>1, <2>4, CountSame
  <2>9. UpTo(KeepsTwo(b0, s), m) = UpTo(KeepsTwo(b0, t), m)
    BY <2>1, <2>5, CountSame
  <2> QED
    BY <2>6, <2>7, <2>8, <2>9 DEF Rules, Held, Saved
<1>2. Extra(b0, s, n, h) = Extra(b0, t, n, h)
  <2>1. n # 0 => n \in 1..n
    OBVIOUS
  <2> QED
    BY <2>1 DEF Extra
<1>3. n \in 0..n /\ \A k \in 1..n : k \in 0..n /\ k - 1 \in 0..n
  OBVIOUS
<1>4. Rules(s, n) = Rules(t, n) /\ Held(b0, s, n) = Held(b0, t, n) /\ Saved(b0, s, n) = Saved(b0, t, n)
  BY <1>1, <1>3
<1>5. OpenRulesFollow(b, b0, t, n)
  BY <1>1, <1>3, <1>4 DEF Follows, OpenRulesFollow
<1>6. Universal(b0) => PointsAbove(b, b0, t, n, h) /\ PhrasesAbove(b, b0, F)
  BY <1>2, <1>4 DEF Follows, PointsAbove
<1>7. ~Universal(b0) => PhrasesExact(b, b0, t, n, F)
  BY <1>4 DEF Follows, PhrasesExact
<1>8. \A m \in 0..n : Level(b0, s, m) = Level(b0, t, m)
  BY <1>1 DEF Level
<1>9. ~Universal(b0) => PointsExact(b, b0, t, n, h)
  <2> SUFFICES ASSUME ~Universal(b0) PROVE PointsExact(b, b0, t, n, h)
    OBVIOUS
  <2>1. PointsExact(b, b0, s, n, h)
    BY DEF Follows
  <2>2. Len(b.checkPoints) = Len(b0.checkPoints) + (Saved(b0, t, n) + Extra(b0, t, n, h))
    BY <1>2, <1>4, <2>1 DEF PointsExact
  <2>3. \A m \in 1..n : \A i \in 1..Kept(b0, t[m]) :
          b.checkPoints[Len(b0.checkPoints) + (Saved(b0, t, m - 1) + i)] = Level(b0, t, m - 1)
    <3> TAKE m \in 1..n
    <3> TAKE i \in 1..Kept(b0, t[m])
    <3>1. s[m] = t[m] /\ m - 1 \in 0..n
      BY <1>3
    <3>2. Saved(b0, s, m - 1) = Saved(b0, t, m - 1) /\ Level(b0, s, m - 1) = Level(b0, t, m - 1)
      BY <1>1, <1>8, <3>1
    <3> QED
      BY <2>1, <3>1, <3>2 DEF PointsExact
  <2>4. \A i \in 1..Extra(b0, t, n, h) :
          b.checkPoints[Len(b0.checkPoints) + (Saved(b0, t, n) + i)] = Level(b0, t, n)
    <3>1. Level(b0, s, n) = Level(b0, t, n)
      BY <1>3, <1>8
    <3> QED
      BY <1>2, <1>4, <2>1, <3>1 DEF PointsExact
  <2> QED
    BY <2>2, <2>3, <2>4 DEF PointsExact
<1> QED
  BY <1>5, <1>6, <1>7, <1>9 DEF Follows

-----------------------------------------------------------------------------
(* What the objects see of a stack.                                        *)

IsLast(R, m) == m \in R /\ \A k \in R : k =< m

LEMMA LastIn ==
  ASSUME NEW n \in Nat, NEW R, R \subseteq 1..n, R # {}
  PROVE  IsLast(R, LastRule(R))
<1> DEFINE D == {n - m : m \in R}
           Less == OpToRel(<, Nat)
<1>1. D \subseteq Nat /\ D # {}
  <2>1. \A m \in R : m \in Nat /\ n - m \in Nat
    OBVIOUS
  <2> QED
    BY <2>1
<1>2. IsWellFoundedOn(Less, Nat)
  BY NatLessThanWellFounded
<1>3. \A i, j \in Nat : i < j => <<i, j>> \in Less
  BY DEF OpToRel
<1>4. PICK d \in D : \A e \in D : ~(<<e, d>> \in Less)
  <2> HIDE DEF Less, D
  <2> QED
    BY <1>1, <1>2, WFMin
<1>5. \A e \in D : ~(e < d)
  <2> HIDE DEF Less, D
  <2> QED
    BY <1>1, <1>3, <1>4
<1>6. PICK m \in R : d = n - m
  OBVIOUS
<1>7. \A k \in R : ~(n - k < n - m) /\ k \in Nat /\ m \in Nat
  <2>1. \A k \in R : n - k \in D /\ k \in Nat
    OBVIOUS
  <2> QED
    BY <1>5, <1>6, <2>1
<1>8. \A k \in R : k =< m
  <2> TAKE k \in R
  <2> QED
    BY <1>7
<1>9. \E l \in R : \A k \in R : k =< l
  BY <1>8
<1> QED
  BY <1>9 DEF LastRule, IsLast

\* there is but one
LEMMA OneLast ==
  ASSUME NEW n \in Nat, NEW R, R \subseteq 1..n, NEW l, IsLast(R, l)
  PROVE  l = LastRule(R)
<1>1. IsLast(R, LastRule(R))
  BY LastIn DEF IsLast
<1>2. PICK m : m = LastRule(R)
  OBVIOUS
<1>3. m \in R /\ l \in R
  BY <1>1, <1>2 DEF IsLast
<1>4. m =< l /\ l =< m
  BY <1>1, <1>2, <1>3 DEF IsLast
<1>5. m \in Nat /\ l \in Nat
  BY <1>3
<1> QED
  BY <1>2, <1>4, <1>5

\* the rule in whose opcodes a frame is
LEMMA LastRuleIn ==
  ASSUME NEW g, NEW c, NEW st, Rooted(g, c, st), NEW n \in 1..Len(st)
  PROVE  /\ IsLast(RulesUpTo(g, c, st, n), LastRule(RulesUpTo(g, c, st, n)))
         /\ RulesUpTo(g, c, st, n) \subseteq 1..n
<1>1. Len(st) \in Nat /\ n \in Nat /\ 1 \in 1..n
  BY DEF Rooted
<1>2. OpAt(g, c, st[1].op).id = "RNM"
  BY <1>1 DEF Rooted
<1>3. 1 \in RulesUpTo(g, c, st, n) /\ RulesUpTo(g, c, st, n) \subseteq 1..n
  BY <1>1, <1>2 DEF RulesUpTo
<1> QED
  BY <1>1, <1>3, LastIn

\* the same frames are seen in the same way
LEMMA SeenSame ==
  ASSUME NEW g, NEW c, NEW st, NEW tt, Rooted(g, c, st), NEW n \in 0..Len(st),
         \A k \in 1..n : st[k].op = tt[k].op, NEW m \in 1..n
  PROVE  SeenAt(g, c, st, m) = SeenAt(g, c, tt, m)
<1>1. Len(st) \in Nat /\ m \in 1..Len(st) /\ st[m].op = tt[m].op
  BY DEF Rooted
<1>2. RulesUpTo(g, c, st, m) = RulesUpTo(g, c, tt, m)
  <2>1. \A k \in 1..m : k \in 1..n
    OBVIOUS
  <2> QED
    BY <2>1 DEF RulesUpTo
<1> DEFINE l == LastRule(RulesUpTo(g, c, st, m))
<1>3. l \in 1..m
  BY <1>1, LastRuleIn DEF IsLast
<1>4. st[l].op = tt[l].op
  <2>1. l \in 1..n
    BY <1>3
  <2> HIDE DEF l
  <2> QED
    BY <2>1
<1> QED
  BY <1>1, <1>2, <1>4 DEF SeenAt

LEMMA SeenValue ==
  ASSUME NEW g, NEW c, NEW st, Rooted(g, c, st), NEW n \in 1..Len(st)
  PROVE  /\ n \in DOMAIN SeenIn(g, c, st)
         /\ SeenIn(g, c, st)[n] = SeenAt(g, c, st, n)
         /\ SeenIn(g, c, st)[n].rule = (OpAt(g, c, st[n].op).id = "RNM")
         /\ SeenIn(g, c, st)[n].hooks = Hooks(OpAt(g, c, st[n].op).id)
         /\ SeenIn(g, c, st)[n].index = OpAt(g, c, st[LastRule(RulesUpTo(g, c, st, n))].op).index
BY DEF SeenIn, SeenAt

\* a rule's frame is in its own rule
LEMMA SeenRule ==
  ASSUME NEW g, NEW c, NEW st, Rooted(g, c, st), NEW n \in 1..Len(st),
         OpAt(g, c, st[n].op).id = "RNM"
  PROVE  SeenIn(g, c, st)[n].index = OpAt(g, c, st[n].op).index
<1>1. n \in Nat /\ RulesUpTo(g, c, st, n) \subseteq 1..n
  BY LastRuleIn DEF Rooted
<1>2. IsLast(RulesUpTo(g, c, st, n), n)
  BY <1>1 DEF RulesUpTo, IsLast
<1>3. LastRule(RulesUpTo(g, c, st, n)) = n
  BY <1>1, <1>2, OneLast
<1> QED
  BY <1>3, SeenValue

LEMMA SeenWell ==
  ASSUME NEW g, NEW c, NEW st, Rooted(g, c, st), NEW n \in 0..Len(st)
  PROVE  WellSeen(SeenIn(g, c, st), n)
<1> DEFINE s == SeenIn(g, c, st)
<1>1. Len(st) \in Nat /\ n \in Nat /\ 1..n \subseteq 1..Len(st)
  BY DEF Rooted
<1>2. 1..n \subseteq DOMAIN s
  BY <1>1 DEF SeenIn
<1> SUFFICES ASSUME NEW k \in 1..n
             PROVE  /\ s[k].rule \in BOOLEAN
                    /\ s[k].hooks \in 0..2
                    /\ k = 1 => s[k].rule
                    /\ s[k].rule \/ s[k].index = s[k - 1].index
  BY <1>1, <1>2 DEF WellSeen
<1>3. k \in 1..Len(st)
  BY <1>1
<1>4. /\ s[k].rule = (OpAt(g, c, st[k].op).id = "RNM")
      /\ s[k].hooks = Hooks(OpAt(g, c, st[k].op).id)
      /\ s[k].index = OpAt(g, c, st[LastRule(RulesUpTo(g, c, st, k))].op).index
  BY <1>3, SeenValue
<1>5. s[k].rule \in BOOLEAN /\ s[k].hooks \in 0..2
  <2> HIDE DEF s
  <2> QED
    BY <1>4 DEF Hooks
<1>6. k = 1 => s[k].rule
  <2>1. Len(st) # 0
    BY <1>1, <1>3
  <2> HIDE DEF s
  <2> QED
    BY <1>4, <2>1 DEF Rooted
<1>7. s[k].rule \/ s[k].index = s[k - 1].index
  <2> SUFFICES ASSUME ~s[k].rule PROVE s[k].index = s[k - 1].index
    OBVIOUS
  <2>1. OpAt(g, c, st[k].op).id # "RNM" /\ k # 1
    BY <1>4, <1>6
  <2>2. k - 1 \in 1..Len(st) /\ k \in Nat
    BY <1>1, <1>3, <2>1
  <2>3. RulesUpTo(g, c, st, k) = RulesUpTo(g, c, st, k - 1)
    <3>1. \A m \in 1..k : m \in 1..(k - 1) \/ m = k
      BY <2>2
    <3>2. \A m \in 1..(k - 1) : m \in 1..k
      BY <2>2
    <3> QED
      BY <2>1, <3>1, <3>2 DEF RulesUpTo
  <2>4. s[k - 1].index = OpAt(g, c, st[LastRule(RulesUpTo(g, c, st, k - 1))].op).index
    BY <2>2, SeenValue
  <2> QED
    BY <1>4, <2>3, <2>4
<1> QED
  BY <1>5, <1>6, <1>7

-----------------------------------------------------------------------------
(* The stack grows by a frame, or shrinks by it.                           *)

\* tt is st and one frame more
Grows(g, c, st, tt) ==
  /\ Len(st) \in Nat /\ Len(tt) = Len(st) + 1
  /\ Rooted(g, c, tt)
  /\ \A k \in 1..Len(st) : st[k].op = tt[k].op

LEMMA GrownSeen ==
  ASSUME NEW g, NEW c, NEW st, NEW tt, Grows(g, c, st, tt)
  PROVE  /\ Rooted(g, c, st)
         /\ WellSeen(SeenIn(g, c, tt), Len(st) + 1)
         /\ 1..Len(st) \subseteq DOMAIN SeenIn(g, c, st)
         /\ 1..Len(st) \subseteq DOMAIN SeenIn(g, c, tt)
         /\ \A k \in 1..Len(st) : SeenIn(g, c, st)[k] = SeenIn(g, c, tt)[k]
<1>1. Len(st) \in Nat /\ Len(tt) = Len(st) + 1 /\ Rooted(g, c, tt)
  BY DEF Grows
<1>2. Rooted(g, c, st)
  <2>1. Len(st) # 0 => 1 \in 1..Len(st)
    BY <1>1
  <2> QED
    BY <1>1, <2>1 DEF Grows, Rooted
<1>3. WellSeen(SeenIn(g, c, tt), Len(st) + 1)
  <2>1. Len(st) + 1 \in 0..Len(tt)
    BY <1>1
  <2> QED
    BY <1>1, <2>1, SeenWell
<1>4. 1..Len(st) \subseteq DOMAIN SeenIn(g, c, st) /\ 1..Len(st) \subseteq DOMAIN SeenIn(g, c, tt)
  BY <1>1 DEF SeenIn
<1>5. \A k \in 1..Len(st) : SeenIn(g, c, st)[k] = SeenIn(g, c, tt)[k]
  <2> TAKE k \in 1..Len(st)
  <2>1. Len(st) \in 0..Len(st) /\ \A j \in 1..Len(st) : st[j].op = tt[j].op
    BY <1>1 DEF Grows
  <2>2. SeenAt(g, c, st, k) = SeenAt(g, c, tt, k)
    BY <1>2, <2>1, SeenSame
  <2>3. k \in 1..Len(tt)
    BY <1>1
  <2> QED
    BY <1>1, <1>2, <2>2, <2>3, SeenValue
<1> QED
  BY <1>2, <1>3, <1>4, <1>5

LEMMA OperatorGrown ==
  ASSUME NEW g, NEW c, NEW st, NEW tt, Grows(g, c, st, tt), Len(st) # 0,
         OpAt(g, c, tt[Len(tt)].op).id # "RNM",
         NEW h, h = Hooks(OpAt(g, c, tt[Len(tt)].op).id),
         NEW b0, NEW V, b0 \in Object(b0, V), NEW b \in Object(b0, V), NEW F
  PROVE  Tracks(b, b0, g, c, st, h, F) <=> Tracks(b, b0, g, c, tt, 0, F)
<1> DEFINE s == SeenIn(g, c, st)
           t == SeenIn(g, c, tt)
           n == Len(st)
<1>1. /\ WellSeen(t, n + 1) /\ 1..n \subseteq DOMAIN s /\ 1..n \subseteq DOMAIN t
      /\ \A k \in 1..n : s[k] = t[k]
  BY GrownSeen
<1>2. n \in Nat /\ Len(tt) = n + 1 /\ Rooted(g, c, tt)
  BY DEF Grows
<1>3. n + 1 \in 1..Len(tt) /\ n # 0
  BY <1>2
<1>4. t[n + 1].rule = (OpAt(g, c, tt[n + 1].op).id = "RNM")
      /\ t[n + 1].hooks = Hooks(OpAt(g, c, tt[n + 1].op).id)
  BY <1>2, <1>3, SeenValue
<1>5. ~t[n + 1].rule /\ h = t[n + 1].hooks /\ h \in 0..2
  <2>1. Hooks(OpAt(g, c, tt[n + 1].op).id) \in 0..2
    BY DEF Hooks
  <2> QED
    BY <1>2, <1>4, <2>1
<1> HIDE DEF s, t, n
<1>6. Follows(b, b0, t, n, h, F) <=> Follows(b, b0, t, n + 1, 0, F)
  BY <1>1, <1>2, <1>3, <1>5, OperatorFrame
<1>7. Follows(b, b0, s, n, h, F) => Follows(b, b0, t, n, h, F)
  BY <1>1, <1>2, <1>3, SameFrames
<1>8. Follows(b, b0, t, n, h, F) => Follows(b, b0, s, n, h, F)
  <2>1. \A k \in 1..n : t[k] = s[k]
    BY <1>1
  <2> QED
    BY <1>1, <1>2, <1>3, <2>1, SameFrames
<1> QED
  BY <1>2, <1>6, <1>7, <1>8 DEF Tracks, s, t, n

LEMMA RuleGrown ==
  ASSUME NEW g, NEW c, NEW st, NEW tt, Grows(g, c, st, tt),
         OpAt(g, c, tt[Len(tt)].op).id = "RNM", NEW r, r = OpAt(g, c, tt[Len(tt)].op).index,
         NEW b0, NEW V, b0 \in Object(b0, V), EmptyPhrase \in V, NEW b \in Object(b0, V), NEW F,
         Tracks(b, b0, g, c, st, 0, F)
  PROVE  /\ BKR_RULE_OPEN(b, r) \in Object(b0, V)
         /\ Tracks(BKR_RULE_OPEN(b, r), b0, g, c, tt, 0, F)
<1> DEFINE s == SeenIn(g, c, st)
           t == SeenIn(g, c, tt)
           n == Len(st)
<1>1. /\ WellSeen(t, n + 1) /\ 1..n \subseteq DOMAIN s /\ 1..n \subseteq DOMAIN t
      /\ \A k \in 1..n : s[k] = t[k]
  BY GrownSeen
<1>2. n \in Nat /\ Len(tt) = n + 1 /\ Rooted(g, c, tt)
  BY DEF Grows
<1>3. n + 1 \in 1..Len(tt)
  BY <1>2
<1>4. t[n + 1].rule = (OpAt(g, c, tt[n + 1].op).id = "RNM")
      /\ t[n + 1].index = OpAt(g, c, tt[n + 1].op).index
  BY <1>2, <1>3, SeenValue, SeenRule
<1>5. t[n + 1].rule /\ r = t[n + 1].index
  BY <1>2, <1>4
<1>6. b.on = b0.on
  BY Fields
<1> HIDE DEF s, t, n
<1>7. CASE b0.on
  <2>1. Follows(b, b0, s, n, 0, F)
    BY <1>7 DEF Tracks, s, n
  <2>2. Follows(b, b0, t, n, 0, F)
    BY <1>1, <1>2, <2>1, SameFrames
  <2>3. /\ BkrRuleOpen(b, r) \in Object(b0, V)
        /\ Follows(BkrRuleOpen(b, r), b0, t, n + 1, 0, F)
    BY <1>1, <1>2, <1>5, <2>2, RuleOpened
  <2> QED
    BY <1>2, <1>6, <1>7, <2>3 DEF BKR_RULE_OPEN, Tracks, t
<1>8. CASE ~b0.on
  BY <1>6, <1>8 DEF BKR_RULE_OPEN, Tracks
<1> QED
  BY <1>7, <1>8

LEMMA RuleShrunk ==
  ASSUME NEW g, NEW c, NEW st, NEW tt, Grows(g, c, st, tt),
         OpAt(g, c, tt[Len(tt)].op).id = "RNM", NEW r, r = OpAt(g, c, tt[Len(tt)].op).index,
         NEW b0, NEW V, b0 \in Object(b0, V), NEW b \in Object(b0, V), NEW F, NEW G, F \subseteq G,
         NEW state, NEW phr \in V, state = "MATCH" => <<r, phr>> \in G,
         Tracks(b, b0, g, c, tt, 0, F)
  PROVE  /\ BKR_RULE_CLOSE(b, r, state, phr) \in Object(b0, V)
         /\ Tracks(BKR_RULE_CLOSE(b, r, state, phr), b0, g, c, st, 0, G)
<1> DEFINE s == SeenIn(g, c, st)
           t == SeenIn(g, c, tt)
           n == Len(st)
<1>1. /\ WellSeen(t, n + 1) /\ 1..n \subseteq DOMAIN s /\ 1..n \subseteq DOMAIN t
      /\ \A k \in 1..n : t[k] = s[k]
  BY GrownSeen
<1>2. n \in Nat /\ Len(tt) = n + 1 /\ Rooted(g, c, tt)
  BY DEF Grows
<1>3. n + 1 \in 1..Len(tt)
  BY <1>2
<1>4. t[n + 1].rule = (OpAt(g, c, tt[n + 1].op).id = "RNM")
      /\ t[n + 1].index = OpAt(g, c, tt[n + 1].op).index
  BY <1>2, <1>3, SeenValue, SeenRule
<1>5. t[n + 1].rule /\ r = t[n + 1].index
  BY <1>2, <1>4
<1>6. b.on = b0.on
  BY Fields
<1> HIDE DEF s, t, n
<1>7. CASE b0.on
  <2>1. Follows(b, b0, t, n + 1, 0, F)
    BY <1>2, <1>7 DEF Tracks, t
  <2>2. /\ BkrRuleClose(b, r, state, phr) \in Object(b0, V)
        /\ Follows(BkrRuleClose(b, r, state, phr), b0, t, n, 0, G)
    BY <1>1, <1>2, <1>5, <2>1, RuleClosed
  <2>3. Follows(BkrRuleClose(b, r, state, phr), b0, s, n, 0, G)
    BY <1>1, <1>2, <2>2, SameFrames
  <2> QED
    BY <1>6, <1>7, <2>2, <2>3 DEF BKR_RULE_CLOSE, Tracks, s, n
<1>8. CASE ~b0.on
  BY <1>6, <1>8 DEF BKR_RULE_CLOSE, Tracks
<1> QED
  BY <1>7, <1>8

-----------------------------------------------------------------------------
(* The macros the operators use.                                           *)

LEMMA HookOpened ==
  ASSUME NEW g, NEW c, NEW st, Rooted(g, c, st), Len(st) # 0, NEW h \in 0..1,
         NEW b0, NEW V, b0 \in Object(b0, V), NEW b \in Object(b0, V), NEW F,
         Tracks(b, b0, g, c, st, h, F)
  PROVE  /\ BKR_OP_OPEN(b) \in Object(b0, V)
         /\ Tracks(BKR_OP_OPEN(b), b0, g, c, st, h + 1, F)
<1>1. b.on = b0.on
  BY Fields
<1>2. CASE b0.on
  <2>1. Len(st) \in 0..Len(st)
    BY DEF Rooted
  <2>2. WellSeen(SeenIn(g, c, st), Len(st))
    BY <2>1, SeenWell
  <2>3. Follows(b, b0, SeenIn(g, c, st), Len(st), h, F)
    BY <1>2 DEF Tracks
  <2>4. /\ BkrOpOpen(b) \in Object(b0, V)
        /\ Follows(BkrOpOpen(b), b0, SeenIn(g, c, st), Len(st), h + 1, F)
    BY <2>2, <2>3, OpOpened
  <2> QED
    BY <1>1, <1>2, <2>4 DEF BKR_OP_OPEN, Tracks
<1>3. CASE ~b0.on
  BY <1>1, <1>3 DEF BKR_OP_OPEN, Tracks
<1> QED
  BY <1>2, <1>3

LEMMA HookClosed ==
  ASSUME NEW g, NEW c, NEW st, Rooted(g, c, st), Len(st) # 0, NEW h \in 0..1,
         NEW b0, NEW V, b0 \in Object(b0, V), NEW b \in Object(b0, V), NEW F, NEW state,
         Tracks(b, b0, g, c, st, h + 1, F)
  PROVE  /\ BKR_OP_CLOSE(b, state) \in Object(b0, V)
         /\ Tracks(BKR_OP_CLOSE(b, state), b0, g, c, st, h, F)
<1>1. b.on = b0.on
  BY Fields
<1>2. CASE b0.on
  <2>1. Len(st) \in 0..Len(st)
    BY DEF Rooted
  <2>2. WellSeen(SeenIn(g, c, st), Len(st))
    BY <2>1, SeenWell
  <2>3. Follows(b, b0, SeenIn(g, c, st), Len(st), h + 1, F)
    BY <1>2 DEF Tracks
  <2>4. /\ BkrOpClose(b, state) \in Object(b0, V)
        /\ Follows(BkrOpClose(b, state), b0, SeenIn(g, c, st), Len(st), h, F)
    BY <2>2, <2>3, OpClosed
  <2> QED
    BY <1>1, <1>2, <2>4 DEF BKR_OP_CLOSE, Tracks
<1>3. CASE ~b0.on
  BY <1>1, <1>3 DEF BKR_OP_CLOSE, Tracks
<1> QED
  BY <1>2, <1>3

\* CAT and REP open
LEMMA OperatorOpened ==
  ASSUME NEW g, NEW c, NEW st, NEW tt, Grows(g, c, st, tt), Len(st) # 0,
         NEW id, id = OpAt(g, c, tt[Len(tt)].op).id, id # "RNM",
         NEW b0, NEW V, b0 \in Object(b0, V), NEW b \in Object(b0, V), NEW F,
         Tracks(b, b0, g, c, st, 0, F)
  PROVE  /\ id = "CAT" => /\ BKR_OP_OPEN(b) \in Object(b0, V)
                          /\ Tracks(BKR_OP_OPEN(b), b0, g, c, tt, 0, F)
         /\ id = "REP" => /\ BKR_OP_OPEN(BKR_OP_OPEN(b)) \in Object(b0, V)
                          /\ Tracks(BKR_OP_OPEN(BKR_OP_OPEN(b)), b0, g, c, tt, 0, F)
         /\ id \notin {"CAT", "REP"} => Tracks(b, b0, g, c, tt, 0, F)
<1>1. Rooted(g, c, st)
  BY GrownSeen
<1>2. 0 \in 0..1 /\ 1 \in 0..1 /\ 0 + 1 = 1 /\ 1 + 1 = 2
  OBVIOUS
<1> DEFINE d == BKR_OP_OPEN(b)
           e == BKR_OP_OPEN(d)
<1>3. d \in Object(b0, V) /\ Tracks(d, b0, g, c, st, 1, F)
  BY <1>1, <1>2, HookOpened
<1> HIDE DEF d
<1>4. e \in Object(b0, V) /\ Tracks(e, b0, g, c, st, 2, F)
  BY <1>1, <1>2, <1>3, HookOpened
<1> HIDE DEF e
<1>5. CASE id = "CAT"
  <2>1. Hooks(OpAt(g, c, tt[Len(tt)].op).id) = 1
    BY <1>5 DEF Hooks
  <2>2. Tracks(d, b0, g, c, tt, 0, F)
    BY <1>3, <2>1, OperatorGrown
  <2> QED
    BY <1>3, <1>5, <2>2 DEF d
<1>6. CASE id = "REP"
  <2>1. Hooks(OpAt(g, c, tt[Len(tt)].op).id) = 2
    BY <1>6 DEF Hooks
  <2>2. Tracks(e, b0, g, c, tt, 0, F)
    BY <1>4, <2>1, OperatorGrown
  <2> QED
    BY <1>4, <1>6, <2>2 DEF d, e
<1>7. CASE id \notin {"CAT", "REP"}
  <2>1. Hooks(OpAt(g, c, tt[Len(tt)].op).id) = 0
    BY <1>7 DEF Hooks
  <2>2. Tracks(b, b0, g, c, tt, 0, F)
    BY <2>1, OperatorGrown
  <2> QED
    BY <1>7, <2>2
<1> QED
  BY <1>5, <1>6, <1>7

\* CAT closes, and every operator without hooks
LEMMA OperatorClosed ==
  ASSUME NEW g, NEW c, NEW st, NEW tt, Grows(g, c, st, tt), Len(st) # 0,
         NEW id, id = OpAt(g, c, tt[Len(tt)].op).id, id # "RNM",
         NEW b0, NEW V, b0 \in Object(b0, V), NEW b \in Object(b0, V), NEW F, NEW state,
         Tracks(b, b0, g, c, tt, 0, F)
  PROVE  /\ id = "CAT" => /\ BKR_OP_CLOSE(b, state) \in Object(b0, V)
                          /\ Tracks(BKR_OP_CLOSE(b, state), b0, g, c, st, 0, F)
         /\ id \notin {"CAT", "REP"} => Tracks(b, b0, g, c, st, 0, F)
<1>1. Rooted(g, c, st) /\ 0 \in 0..1 /\ 0 + 1 = 1
  BY GrownSeen
<1>2. CASE id = "CAT"
  <2>1. Hooks(OpAt(g, c, tt[Len(tt)].op).id) = 1
    BY <1>2 DEF Hooks
  <2>2. Tracks(b, b0, g, c, st, 0 + 1, F)
    BY <1>1, <2>1, OperatorGrown
  <2> QED
    BY <1>1, <1>2, <2>2, HookClosed
<1>3. CASE id \notin {"CAT", "REP"}
  <2>1. Hooks(OpAt(g, c, tt[Len(tt)].op).id) = 0
    BY <1>3 DEF Hooks
  <2> QED
    BY <1>3, <2>1, OperatorGrown
<1> QED
  BY <1>2, <1>3

\* REP closes a repetition, and then itself or else opens the next
LEMMA RepetitionClosed ==
  ASSUME NEW g, NEW c, NEW st, NEW tt, Grows(g, c, st, tt), Len(st) # 0,
         OpAt(g, c, tt[Len(tt)].op).id = "REP",
         NEW b0, NEW V, b0 \in Object(b0, V), NEW b \in Object(b0, V), NEW F, NEW state, NEW again,
         Tracks(b, b0, g, c, tt, 0, F)
  PROVE  LET d == BKR_OP_CLOSE(b, state) IN
         /\ BKR_OP_CLOSE(d, again) \in Object(b0, V)
         /\ Tracks(BKR_OP_CLOSE(d, again), b0, g, c, st, 0, F)
         /\ BKR_OP_OPEN(d) \in Object(b0, V)
         /\ Tracks(BKR_OP_OPEN(d), b0, g, c, tt, 0, F)
<1>1. Rooted(g, c, st)
  BY GrownSeen
<1>2. 0 \in 0..1 /\ 1 \in 0..1 /\ 0 + 1 = 1 /\ 1 + 1 = 2
  OBVIOUS
<1>3. Hooks(OpAt(g, c, tt[Len(tt)].op).id) = 2 /\ OpAt(g, c, tt[Len(tt)].op).id # "RNM"
  BY DEF Hooks
<1>4. Tracks(b, b0, g, c, st, 1 + 1, F)
  BY <1>2, <1>3, OperatorGrown
<1> DEFINE d == BKR_OP_CLOSE(b, state)
<1>5. d \in Object(b0, V) /\ Tracks(d, b0, g, c, st, 1, F)
  BY <1>1, <1>2, <1>4, HookClosed
<1> HIDE DEF d
<1>6. BKR_OP_CLOSE(d, again) \in Object(b0, V) /\ Tracks(BKR_OP_CLOSE(d, again), b0, g, c, st, 0, F)
  <2>1. Tracks(d, b0, g, c, st, 0 + 1, F)
    BY <1>2, <1>5
  <2> QED
    BY <1>1, <1>2, <1>5, <2>1, HookClosed
<1>7. BKR_OP_OPEN(d) \in Object(b0, V) /\ Tracks(BKR_OP_OPEN(d), b0, g, c, st, 2, F)
  BY <1>1, <1>2, <1>5, HookOpened
<1>8. Tracks(BKR_OP_OPEN(d), b0, g, c, tt, 0, F)
  <2> DEFINE e == BKR_OP_OPEN(d)
  <2> HIDE DEF e
  <2>1. e \in Object(b0, V) /\ Tracks(e, b0, g, c, st, 2, F)
    BY <1>7 DEF e
  <2>2. Tracks(e, b0, g, c, tt, 0, F)
    BY <1>3, <2>1, OperatorGrown
  <2> QED
    BY <2>2 DEF e
<1> QED
  BY <1>6, <1>7, <1>8 DEF d

LEMMA NameFound ==
  ASSUME NEW g, NEW c, NEW st, NEW b0, NEW V, b0 \in Object(b0, V), NEW b \in Object(b0, V),
         NEW F, NEW G, F \subseteq G, NEW r, NEW state, NEW phr \in V,
         state = "MATCH" => <<r, phr>> \in G,
         Tracks(b, b0, g, c, st, 0, F)
  PROVE  /\ BKR_UDT_CLOSE(b, r, state, phr) \in Object(b0, V)
         /\ Tracks(BKR_UDT_CLOSE(b, r, state, phr), b0, g, c, st, 0, G)
<1>1. b.on = b0.on
  BY Fields
<1>2. CASE b0.on
  <2>1. Follows(b, b0, SeenIn(g, c, st), Len(st), 0, F)
    BY <1>2 DEF Tracks
  <2>2. /\ PhraseFound(b, r, state, phr) \in Object(b0, V)
        /\ Follows(PhraseFound(b, r, state, phr), b0, SeenIn(g, c, st), Len(st), 0, G)
    BY <2>1, FoundFollows
  <2> QED
    BY <1>1, <1>2, <2>2 DEF BKR_UDT_CLOSE, Tracks
<1>3. CASE ~b0.on
  BY <1>1, <1>3 DEF BKR_UDT_CLOSE, Tracks
<1> QED
  BY <1>2, <1>3

\* a parse begins
LEMMA Started ==
  ASSUME NEW g, NEW c, NEW b, NEW V, b \in Object(b, V)
  PROVE  Tracks(b, b, g, c, << >>, 0, {})
<1> DEFINE s == SeenIn(g, c, << >>)
<1>1. /\ Len(b.checkPoints) \in Nat /\ Len(b.openRules) \in Nat
      /\ \A x \in b.is : Len(b.phrases[x]) \in Nat
  BY Fields
<1>2. Rules(s, 0) = 0 /\ Held(b, s, 0) = 0 /\ Saved(b, s, 0) = 0
  BY CountsStart
<1>3. Extra(b, s, 0, 0) = 0
  BY DEF Extra
<1> HIDE DEF s
<1>4. OpenRulesFollow(b, b, s, 0)
  BY <1>1, <1>2 DEF OpenRulesFollow
<1>5. PointsAbove(b, b, s, 0, 0)
  <2>1. High(b, b)
    BY <1>1 DEF High
  <2> QED
    BY <1>1, <1>2, <1>3, <2>1 DEF PointsAbove
<1>6. PhrasesAbove(b, b, {})
  <2> SUFFICES ASSUME NEW x \in b.is
               PROVE  /\ Len(b.phrases[x]) >= Len(b.phrases[x])
                      /\ \A k \in 1..Len(b.phrases[x]) : k =< Len(b.phrases[x])
    BY DEF PhrasesAbove
  <2>1. Len(b.phrases[x]) \in Nat
    BY <1>1
  <2> QED
    BY <2>1
<1>7. PointsExact(b, b, s, 0, 0)
  BY <1>1, <1>2, <1>3 DEF PointsExact
<1>8. PhrasesExact(b, b, s, 0, {})
  BY <1>1, <1>2 DEF PhrasesExact
<1>9. Follows(b, b, s, 0, 0, {})
  BY <1>4, <1>5, <1>6, <1>7, <1>8 DEF Follows
<1> QED
  BY <1>9 DEF Tracks, s

\* phrases of more kinds
LEMMA WiderObject ==
  ASSUME NEW b0, NEW V, NEW W, V \subseteq W, NEW b \in Object(b0, V)
  PROVE  b \in Object(b0, W)
<1>1. \A q \in Seq(V) : q \in Seq(W)
  BY Wider
<1>2. [b0.is -> Seq(V)] \subseteq [b0.is -> Seq(W)]
  BY <1>1
<1> QED
  BY <1>2 DEF Object

\* an object is its own beginning
LEMMA OwnObject ==
  ASSUME NEW b0, NEW V, NEW b \in Object(b0, V)
  PROVE  /\ b \in Object(b, V)
         /\ b.on = b0.on /\ b.mode = b0.mode /\ b.is = b0.is
<1>1. /\ b.on = b0.on /\ b.mode = b0.mode /\ b.is = b0.is /\ b.has = b0.has
  BY Fields
<1>2. Object(b, V) = Object(b0, V)
  BY <1>1 DEF Object
<1> QED
  BY <1>1, <1>2

-----------------------------------------------------------------------------
(* The stack.                                                              *)

LEMMA Pushing ==
  ASSUME NEW g, NEW c, NEW S, NEW st \in Seq(S), Rooted(g, c, st), NEW f, NEW tt, tt = Append(st, f),
         st = << >> => OpAt(g, c, f.op).id = "RNM"
  PROVE  /\ Grows(g, c, st, tt)
         /\ Rooted(g, c, tt)
         /\ tt[Len(tt)] = f
         /\ tt # << >>
         /\ tt \in Seq(S \cup {f})
<1>1. st \in Seq(S \cup {f})
  BY Wider
<1>2. /\ tt \in Seq(S \cup {f}) /\ tt # << >>
      /\ Len(st) \in Nat /\ Len(tt) = Len(st) + 1
      /\ \A n \in 1..Len(st) : tt[n] = st[n]
      /\ tt[Len(st) + 1] = f
  BY <1>1, Pushed
<1>3. Rooted(g, c, tt)
  <2>1. CASE Len(st) = 0
    <3>1. st = << >> /\ tt[1] = f /\ Len(tt) = 1
      BY <1>2, <2>1, EmptySeq
    <3> QED
      BY <3>1 DEF Rooted
  <2>2. CASE Len(st) # 0
    <3>1. 1 \in 1..Len(st)
      BY <1>2, <2>2
    <3>2. tt[1] = st[1]
      BY <1>2, <3>1
    <3> QED
      BY <1>2, <2>2, <3>2 DEF Rooted
  <2> QED
    BY <2>1, <2>2
<1> QED
  BY <1>2, <1>3 DEF Grows

LEMMA Popping ==
  ASSUME NEW g, NEW c, NEW S, NEW tt \in Seq(S), Rooted(g, c, tt), tt # << >>
  PROVE  /\ Grows(g, c, Pop(tt), tt)
         /\ Rooted(g, c, Pop(tt))
         /\ Pop(tt) \in Seq(S)
         /\ tt[Len(tt)] = Top(tt)
<1>1. /\ Pop(tt) \in Seq(S)
      /\ Len(tt) \in Nat \ {0}
      /\ Len(Pop(tt)) = Len(tt) - 1
      /\ \A n \in 1..(Len(tt) - 1) : Pop(tt)[n] = tt[n]
      /\ Top(tt) = tt[Len(tt)]
  BY Popped
<1>2. Grows(g, c, Pop(tt), tt)
  BY <1>1 DEF Grows
<1>3. Rooted(g, c, Pop(tt))
  BY <1>2, GrownSeen
<1> QED
  BY <1>1, <1>2, <1>3

\* the frame on top changes, its operator does not
LEMMA Replacing ==
  ASSUME NEW g, NEW c, NEW S, NEW tt \in Seq(S), Rooted(g, c, tt), tt # << >>,
         NEW f, f.op = Top(tt).op, NEW uu, uu = Append(Pop(tt), f)
  PROVE  /\ Rooted(g, c, uu)
         /\ uu # << >>
         /\ uu \in Seq(S \cup {f})
         /\ \A b, b0, F : Tracks(b, b0, g, c, tt, 0, F) => Tracks(b, b0, g, c, uu, 0, F)
<1>1. /\ Pop(tt) \in Seq(S)
      /\ Len(tt) \in Nat \ {0}
      /\ Len(Pop(tt)) = Len(tt) - 1
      /\ \A n \in 1..(Len(tt) - 1) : Pop(tt)[n] = tt[n]
      /\ Top(tt) = tt[Len(tt)]
  BY Popped
<1>2. Pop(tt) \in Seq(S \cup {f})
  BY <1>1, Wider
<1>3. /\ uu \in Seq(S \cup {f}) /\ uu # << >>
      /\ Len(uu) = Len(Pop(tt)) + 1
      /\ \A n \in 1..Len(Pop(tt)) : uu[n] = Pop(tt)[n]
      /\ uu[Len(Pop(tt)) + 1] = f
  BY <1>2, Pushed
<1>4. Len(uu) = Len(tt)
  BY <1>1, <1>3
<1>5. \A n \in 1..Len(tt) : tt[n].op = uu[n].op
  <2> TAKE n \in 1..Len(tt)
  <2>1. CASE n = Len(tt)
    <3>1. uu[n] = f
      BY <1>1, <1>3, <2>1
    <3> QED
      BY <1>1, <2>1, <3>1
  <2>2. CASE n # Len(tt)
    <3>1. n \in 1..(Len(tt) - 1) /\ n \in 1..Len(Pop(tt))
      BY <1>1, <2>2
    <3> QED
      BY <1>1, <1>3, <3>1
  <2> QED
    BY <2>1, <2>2
<1>6. Rooted(g, c, uu)
  <2>1. 1 \in 1..Len(tt)
    BY <1>1
  <2> QED
    BY <1>1, <1>4, <1>5, <2>1 DEF Rooted
<1>7. SeenIn(g, c, tt) = SeenIn(g, c, uu)
  <2>1. \A n \in 1..Len(tt) : SeenAt(g, c, tt, n) = SeenAt(g, c, uu, n)
    <3>1. Len(tt) \in 0..Len(tt)
      BY <1>1
    <3> QED
      BY <1>5, <3>1, SeenSame
  <2> QED
    BY <1>4, <2>1 DEF SeenIn
<1> QED
  BY <1>3, <1>4, <1>6, <1>7 DEF Tracks

-----------------------------------------------------------------------------
(* The steps.                                                              *)

\* what the invariant holds of a step that goes on parsing
Goes ==
  /\ UNCHANGED <<grammar, config>>
  /\ Rooted(grammar, config, stack')
  /\ Tracks(bkru', bkruAtStart, grammar, config, stack', 0, found')
  /\ Tracks(bkrp', bkrpAtStart, grammar, config, stack', 0, found')

LEMMA Concluded ==
  ASSUME ModesOK, UNCHANGED atStart, NEW V, EmptyPhrase \in V,
         bkruAtStart \in Object(bkruAtStart, V), bkrpAtStart \in Object(bkrpAtStart, V),
         bkru' \in Object(bkruAtStart, V), bkrp' \in Object(bkrpAtStart, V),
         NEW S, stack' \in Seq(S), pc' = "call" /\ stack' = << >> => callee' = 0,
         pc' # "idle" => Goes
  PROVE  BkrInv'
<1>1. ObjectsOK'
  <2>1. bkruAtStart' = bkruAtStart /\ bkrpAtStart' = bkrpAtStart
    BY DEF atStart
  <2>2. ObjectsIn(V)'
    BY <2>1 DEF ObjectsIn
  <2> QED
    BY <2>2 DEF ObjectsOK
<1>2. ModesOK'
  BY DEF ModesOK, atStart, Universal
<1>3. StackOK'
  <2>1. Parsing' => Goes
    BY DEF Parsing
  <2> QED
    BY <2>1 DEF StackOK, Goes
<1>4. ObjectsFollow'
  <2>1. Parsing' => Goes
    BY DEF Parsing
  <2>2. bkruAtStart' = bkruAtStart /\ bkrpAtStart' = bkrpAtStart
    BY DEF atStart
  <2> QED
    BY <2>1, <2>2 DEF ObjectsFollow, Goes
<1> QED
  BY <1>1, <1>2, <1>3, <1>4 DEF BkrInv

\* what the invariant says while an operator runs
LEMMA Running ==
  ASSUME BkrInv, pc \in {"call", "return"}
  PROVE  /\ ModesOK
         /\ \E V : ObjectsIn(V)
         /\ \E S : stack \in Seq(S)
         /\ Rooted(grammar, config, stack)
         /\ Tracks(bkru, bkruAtStart, grammar, config, stack, 0, found)
         /\ Tracks(bkrp, bkrpAtStart, grammar, config, stack, 0, found)
         /\ pc = "call" /\ stack = << >> => callee = 0
BY DEF BkrInv, ObjectsOK, StackOK, ObjectsFollow, Parsing

\* control goes back to the application, which has the objects as they are
LEMMA Idles ==
  ASSUME BkrInv, pc' = "idle", NEW S, stack' \in Seq(S), UNCHANGED <<objects, atStart>>
  PROVE  BkrInv'
<1>1. PICK V : ObjectsIn(V)
  BY DEF BkrInv, ObjectsOK
<1>2. ModesOK
  BY DEF BkrInv
<1>3. bkru' = bkru /\ bkrp' = bkrp
  BY DEF objects
<1>4. UNCHANGED atStart
  OBVIOUS
<1> QED
  BY <1>1, <1>2, <1>3, <1>4, Concluded DEF ObjectsIn

LEMMA NoFrames == \A S : << >> \in Seq(S)
OBVIOUS

\* an operator without a frame ends
LEMMA LeafEnds ==
  ASSUME BkrInv, pc = "call", pc' = "return", stack' = stack,
         UNCHANGED <<grammar, config, objects, found, atStart>>
  PROVE  BkrInv'
<1>1. /\ ModesOK /\ Rooted(grammar, config, stack)
      /\ Tracks(bkru, bkruAtStart, grammar, config, stack, 0, found)
      /\ Tracks(bkrp, bkrpAtStart, grammar, config, stack, 0, found)
  BY Running
<1>2. PICK V : ObjectsIn(V)
  BY Running
<1>3. PICK S : stack \in Seq(S)
  BY Running
<1>4. bkru' = bkru /\ bkrp' = bkrp /\ found' = found /\ UNCHANGED atStart
  BY DEF objects
<1>5. Goes
  BY <1>1, <1>4 DEF Goes
<1> QED
  BY <1>1, <1>2, <1>3, <1>4, <1>5, Concluded DEF ObjectsIn

\* what CAT, REP and the other operators do to an object when they begin
OpenedBy(id, b, c) ==
  /\ id = "CAT" => c = BKR_OP_OPEN(b)
  /\ id = "REP" => c = BKR_OP_OPEN(BKR_OP_OPEN(b))
  /\ id \notin {"CAT", "REP"} => c = b

LEMMA OperatorOpens ==
  ASSUME BkrInv, pc = "call", NEW id, id = OpAt(grammar, config, callee).id, id # "RNM",
         NEW f, f.op = callee, pc' = "call", stack' = Append(stack, f),
         OpenedBy(id, bkru, bkru'), OpenedBy(id, bkrp, bkrp'),
         UNCHANGED <<grammar, config, found, atStart>>
  PROVE  BkrInv'
<1>1. /\ ModesOK /\ Rooted(grammar, config, stack)
      /\ Tracks(bkru, bkruAtStart, grammar, config, stack, 0, found)
      /\ Tracks(bkrp, bkrpAtStart, grammar, config, stack, 0, found)
      /\ stack = << >> => callee = 0
  BY Running
<1>2. PICK V : ObjectsIn(V)
  BY Running
<1>3. PICK S : stack \in Seq(S)
  BY Running
<1>4. stack # << >>
  BY <1>1 DEF OpAt, StartOp
<1>5. Len(stack) # 0
  BY <1>3, <1>4, EmptySeq
<1>0. PICK tt : tt = Append(stack, f)
  OBVIOUS
<1>6. /\ Grows(grammar, config, stack, tt) /\ Rooted(grammar, config, tt)
      /\ tt[Len(tt)] = f /\ tt # << >> /\ tt \in Seq(S \cup {f})
  <2>1. stack = << >> => OpAt(grammar, config, f.op).id = "RNM"
    BY <1>4
  <2>2. Rooted(grammar, config, stack)
    BY <1>1
  <2>3. Grows(grammar, config, stack, tt)
    BY <1>0, <1>3, <2>1, <2>2, Pushing
  <2>4. Rooted(grammar, config, tt)
    BY <1>0, <1>3, <2>1, <2>2, Pushing
  <2>5. tt[Len(tt)] = f /\ tt # << >> /\ tt \in Seq(S \cup {f})
    BY <1>0, <1>3, <2>1, <2>2, Pushing
  <2> QED
    BY <2>3, <2>4, <2>5
<1>7. id = OpAt(grammar, config, tt[Len(tt)].op).id
  BY <1>6
<1>8. ASSUME NEW b0, b0 \in Object(b0, V), NEW b \in Object(b0, V),
             Tracks(b, b0, grammar, config, stack, 0, found), NEW d, OpenedBy(id, b, d)
      PROVE  d \in Object(b0, V) /\ Tracks(d, b0, grammar, config, tt, 0, found)
  <2>1. /\ id = "CAT" => /\ BKR_OP_OPEN(b) \in Object(b0, V)
                         /\ Tracks(BKR_OP_OPEN(b), b0, grammar, config, tt, 0, found)
        /\ id = "REP" => /\ BKR_OP_OPEN(BKR_OP_OPEN(b)) \in Object(b0, V)
                         /\ Tracks(BKR_OP_OPEN(BKR_OP_OPEN(b)), b0, grammar, config, tt, 0, found)
        /\ id \notin {"CAT", "REP"} => Tracks(b, b0, grammar, config, tt, 0, found)
    BY <1>5, <1>6, <1>7, <1>8, OperatorOpened
  <2> QED
    BY <1>8, <2>1 DEF OpenedBy
<1>9. bkru' \in Object(bkruAtStart, V) /\ Tracks(bkru', bkruAtStart, grammar, config, tt, 0, found)
  BY <1>1, <1>2, <1>8 DEF ObjectsIn
<1>10. bkrp' \in Object(bkrpAtStart, V) /\ Tracks(bkrp', bkrpAtStart, grammar, config, tt, 0, found)
  BY <1>1, <1>2, <1>8 DEF ObjectsIn
<1>11. Goes
  BY <1>0, <1>6, <1>9, <1>10 DEF Goes
<1>12. stack' \in Seq(S \cup {f}) /\ stack' # << >>
  BY <1>0, <1>6
<1>13. UNCHANGED atStart
  OBVIOUS
<1> QED
  BY <1>1, <1>2, <1>9, <1>10, <1>11, <1>12, <1>13, Concluded DEF ObjectsIn

\* what they do to it when a child has returned
ReturnedTo(id, b, c) ==
  /\ id = "CAT" => c = IF pc' = "return" THEN BKR_OP_CLOSE(b, uiOpState') ELSE b
  /\ id = "REP" => c = RepHooks(b)
  /\ id \notin {"CAT", "REP"} => c = b

LEMMA OperatorReturns ==
  ASSUME BkrInv, pc = "return", stack # << >>,
         NEW id, id = OpAt(grammar, config, Top(stack).op).id, id # "RNM",
         \/ pc' = "return" /\ stack' = Pop(stack)
         \/ pc' = "call" /\ \E f : f.op = Top(stack).op /\ stack' = Append(Pop(stack), f)
         \/ pc' = "idle" /\ stack' = << >>,
         ReturnedTo(id, bkru, bkru'), ReturnedTo(id, bkrp, bkrp'),
         UNCHANGED <<grammar, config, found, atStart>>
  PROVE  BkrInv'
<1>1. /\ ModesOK /\ Rooted(grammar, config, stack)
      /\ Tracks(bkru, bkruAtStart, grammar, config, stack, 0, found)
      /\ Tracks(bkrp, bkrpAtStart, grammar, config, stack, 0, found)
  BY Running
<1>2. PICK V : ObjectsIn(V)
  BY Running
<1>3. PICK S : stack \in Seq(S)
  BY Running
<1>4. PICK st : st = Pop(stack)
  OBVIOUS
<1>5. /\ Grows(grammar, config, st, stack) /\ Rooted(grammar, config, st)
      /\ st \in Seq(S) /\ stack[Len(stack)] = Top(stack)
  BY <1>1, <1>3, <1>4, Popping
<1>6. Len(st) # 0
  <2>1. Len(stack) = Len(st) + 1 /\ Len(st) \in Nat
    BY <1>5 DEF Grows
  <2>2. ASSUME Len(st) = 0 PROVE FALSE
    <3>1. Len(stack) = 1
      BY <2>1, <2>2
    <3>2. OpAt(grammar, config, stack[1].op).id = "RNM"
      BY <1>1, <3>1 DEF Rooted
    <3> QED
      BY <1>5, <3>1, <3>2
  <2> QED
    BY <2>2
<1>7. id = OpAt(grammar, config, stack[Len(stack)].op).id
  BY <1>5
<1>8. UNCHANGED atStart /\ found' = found /\ UNCHANGED <<grammar, config>>
  OBVIOUS
<1>9. CASE pc' = "return" /\ stack' = Pop(stack)
  <2>1. ASSUME NEW b0, b0 \in Object(b0, V), NEW b \in Object(b0, V),
               Tracks(b, b0, grammar, config, stack, 0, found), NEW d, ReturnedTo(id, b, d)
        PROVE  d \in Object(b0, V) /\ Tracks(d, b0, grammar, config, st, 0, found)
    <3>1. /\ id = "CAT" => /\ BKR_OP_CLOSE(b, uiOpState') \in Object(b0, V)
                           /\ Tracks(BKR_OP_CLOSE(b, uiOpState'), b0, grammar, config, st, 0, found)
          /\ id \notin {"CAT", "REP"} => Tracks(b, b0, grammar, config, st, 0, found)
      BY <1>5, <1>6, <1>7, <2>1, OperatorClosed
    <3>2. ASSUME id = "REP"
          PROVE  d \in Object(b0, V) /\ Tracks(d, b0, grammar, config, st, 0, found)
      <4>1. d = BKR_OP_CLOSE(BKR_OP_CLOSE(b, uiOpState), uiOpState')
        BY <1>9, <2>1, <3>2 DEF ReturnedTo, RepHooks
      <4>2. /\ BKR_OP_CLOSE(BKR_OP_CLOSE(b, uiOpState), uiOpState') \in Object(b0, V)
            /\ Tracks(BKR_OP_CLOSE(BKR_OP_CLOSE(b, uiOpState), uiOpState'), b0,
                      grammar, config, st, 0, found)
        BY <1>5, <1>6, <1>7, <2>1, <3>2, RepetitionClosed
      <4> QED
        BY <4>1, <4>2
    <3> QED
      BY <1>9, <2>1, <3>1, <3>2 DEF ReturnedTo
  <2>2. bkru' \in Object(bkruAtStart, V) /\ Tracks(bkru', bkruAtStart, grammar, config, st, 0, found)
    BY <1>1, <1>2, <2>1 DEF ObjectsIn
  <2>3. bkrp' \in Object(bkrpAtStart, V) /\ Tracks(bkrp', bkrpAtStart, grammar, config, st, 0, found)
    BY <1>1, <1>2, <2>1 DEF ObjectsIn
  <2>4. Goes
    BY <1>4, <1>5, <1>8, <1>9, <2>2, <2>3 DEF Goes
  <2>5. stack' \in Seq(S) /\ ~(pc' = "call")
    BY <1>4, <1>5, <1>9
  <2> QED
    BY <1>1, <1>2, <1>8, <2>2, <2>3, <2>4, <2>5, Concluded DEF ObjectsIn
<1>10. CASE pc' # "return"
  <2>1. ASSUME NEW b0, b0 \in Object(b0, V), NEW b \in Object(b0, V),
               Tracks(b, b0, grammar, config, stack, 0, found), NEW d, ReturnedTo(id, b, d)
        PROVE  d \in Object(b0, V) /\ Tracks(d, b0, grammar, config, stack, 0, found)
    <3>1. ASSUME id = "REP"
          PROVE  d \in Object(b0, V) /\ Tracks(d, b0, grammar, config, stack, 0, found)
      <4>1. d = BKR_OP_OPEN(BKR_OP_CLOSE(b, uiOpState))
        BY <1>10, <2>1, <3>1 DEF ReturnedTo, RepHooks
      <4>2. /\ BKR_OP_OPEN(BKR_OP_CLOSE(b, uiOpState)) \in Object(b0, V)
            /\ Tracks(BKR_OP_OPEN(BKR_OP_CLOSE(b, uiOpState)), b0, grammar, config, stack, 0, found)
        BY <1>5, <1>6, <1>7, <2>1, <3>1, RepetitionClosed
      <4> QED
        BY <4>1, <4>2
    <3> QED
      BY <1>10, <2>1, <3>1 DEF ReturnedTo
  <2>2. bkru' \in Object(bkruAtStart, V) /\ Tracks(bkru', bkruAtStart, grammar, config, stack, 0, found)
    BY <1>1, <1>2, <2>1 DEF ObjectsIn
  <2>3. bkrp' \in Object(bkrpAtStart, V) /\ Tracks(bkrp', bkrpAtStart, grammar, config, stack, 0, found)
    BY <1>1, <1>2, <2>1 DEF ObjectsIn
  <2>4. CASE pc' = "call" /\ \E f : f.op = Top(stack).op /\ stack' = Append(Pop(stack), f)
    <3>1. PICK f : f.op = Top(stack).op /\ stack' = Append(Pop(stack), f)
      BY <2>4
    <3>2. PICK uu : uu = Append(Pop(stack), f)
      OBVIOUS
    <3>3. /\ Rooted(grammar, config, uu) /\ uu # << >> /\ uu \in Seq(S \cup {f})
          /\ \A b, b0, F : Tracks(b, b0, grammar, config, stack, 0, F)
                             => Tracks(b, b0, grammar, config, uu, 0, F)
      BY <1>1, <1>3, <3>1, <3>2, Replacing
    <3>4. stack' = uu
      BY <3>1, <3>2
    <3>5. Goes
      BY <1>8, <2>2, <2>3, <3>3, <3>4 DEF Goes
    <3>6. stack' \in Seq(S \cup {f}) /\ stack' # << >>
      BY <3>3, <3>4
    <3> QED
      BY <1>1, <1>2, <1>8, <2>2, <2>3, <3>5, <3>6, Concluded DEF ObjectsIn
  <2>5. CASE pc' = "idle" /\ stack' = << >>
    <3>1. stack' \in Seq(S) /\ ~(pc' = "call")
      BY <2>5
    <3> QED
      BY <1>1, <1>2, <1>8, <2>2, <2>3, <2>5, <3>1, Concluded DEF ObjectsIn
  <2> QED
    BY <1>10, <2>4, <2>5
<1> QED
  BY <1>9, <1>10

\* a phrase more
LEMMA WithPhrase ==
  ASSUME NEW V, ObjectsIn(V), NEW phr
  PROVE  \E W : ObjectsIn(W) /\ phr \in W
<1> DEFINE W == V \cup {phr}
<1>1. V \subseteq W
  OBVIOUS
<1> HIDE DEF W
<1>2. /\ bkru \in Object(bkruAtStart, W) /\ bkruAtStart \in Object(bkruAtStart, W)
      /\ bkrp \in Object(bkrpAtStart, W) /\ bkrpAtStart \in Object(bkrpAtStart, W)
  BY <1>1, WiderObject DEF ObjectsIn
<1>3. ObjectsIn(W)
  BY <1>1, <1>2 DEF ObjectsIn
<1> QED
  BY <1>3 DEF W

LEMMA RuleOpens ==
  ASSUME BkrInv, pc = "call", OpAt(grammar, config, callee).id = "RNM",
         NEW r, r = OpAt(grammar, config, callee).index, NEW f, f.op = callee,
         \/ pc' \in {"call", "return"} /\ stack' = Append(stack, f)
         \/ pc' = "idle" /\ stack' = << >>,
         RuleOpen(r), UNCHANGED <<grammar, config, atStart>>
  PROVE  BkrInv'
<1>1. /\ ModesOK /\ Rooted(grammar, config, stack)
      /\ Tracks(bkru, bkruAtStart, grammar, config, stack, 0, found)
      /\ Tracks(bkrp, bkrpAtStart, grammar, config, stack, 0, found)
  BY Running
<1>2. PICK V : ObjectsIn(V)
  BY Running
<1>3. PICK S : stack \in Seq(S)
  BY Running
<1>4. PICK tt : tt = Append(stack, f)
  OBVIOUS
<1>5. stack = << >> => OpAt(grammar, config, f.op).id = "RNM"
  OBVIOUS
<1>6. Rooted(grammar, config, stack)
  BY <1>1
<1>7. Grows(grammar, config, stack, tt)
  BY <1>3, <1>4, <1>5, <1>6, Pushing
<1>8. Rooted(grammar, config, tt)
  BY <1>3, <1>4, <1>5, <1>6, Pushing
<1>9. tt[Len(tt)] = f /\ tt # << >> /\ tt \in Seq(S \cup {f})
  BY <1>3, <1>4, <1>5, <1>6, Pushing
<1>10. OpAt(grammar, config, tt[Len(tt)].op).id = "RNM" /\ r = OpAt(grammar, config, tt[Len(tt)].op).index
  BY <1>9
<1>11. /\ bkru' \in Object(bkruAtStart, V)
       /\ Tracks(bkru', bkruAtStart, grammar, config, tt, 0, found)
  BY <1>1, <1>2, <1>7, <1>10, RuleGrown DEF ObjectsIn, RuleOpen
<1>12. /\ bkrp' \in Object(bkrpAtStart, V)
       /\ Tracks(bkrp', bkrpAtStart, grammar, config, tt, 0, found)
  BY <1>1, <1>2, <1>7, <1>10, RuleGrown DEF ObjectsIn, RuleOpen
<1>13. UNCHANGED atStart /\ found' = found
  BY DEF RuleOpen
<1>14. CASE pc' \in {"call", "return"} /\ stack' = Append(stack, f)
  <2>1. Goes
    BY <1>4, <1>8, <1>11, <1>12, <1>13, <1>14 DEF Goes
  <2>2. stack' \in Seq(S \cup {f}) /\ stack' # << >>
    BY <1>4, <1>9, <1>14
  <2> QED
    BY <1>1, <1>2, <1>11, <1>12, <1>13, <2>1, <2>2, Concluded DEF ObjectsIn
<1>15. CASE pc' = "idle" /\ stack' = << >>
  <2>1. stack' \in Seq(S) /\ ~(pc' = "call")
    BY <1>15
  <2> QED
    BY <1>1, <1>2, <1>11, <1>12, <1>13, <1>15, <2>1, Concluded DEF ObjectsIn
<1> QED
  BY <1>14, <1>15

LEMMA RuleAtOnce ==
  ASSUME BkrInv, pc = "call", OpAt(grammar, config, callee).id = "RNM",
         NEW r, r = OpAt(grammar, config, callee).index, NEW f, f.op = callee,
         pc' = "return", stack' = stack,
         RuleClose(BKR_RULE_OPEN(bkru, r), BKR_RULE_OPEN(bkrp, r), r, uiOpState', Returned),
         UNCHANGED <<grammar, config, atStart>>
  PROVE  BkrInv'
<1>1. /\ ModesOK /\ Rooted(grammar, config, stack)
      /\ Tracks(bkru, bkruAtStart, grammar, config, stack, 0, found)
      /\ Tracks(bkrp, bkrpAtStart, grammar, config, stack, 0, found)
  BY Running
<1>2. PICK phr : phr = Returned
  OBVIOUS
<1>3. PICK V : ObjectsIn(V) /\ phr \in V
  BY Running, WithPhrase
<1>4. PICK S : stack \in Seq(S)
  BY Running
<1>5. PICK tt : tt = Append(stack, f)
  OBVIOUS
<1>6. stack = << >> => OpAt(grammar, config, f.op).id = "RNM"
  OBVIOUS
<1>7. Rooted(grammar, config, stack)
  BY <1>1
<1>8. Grows(grammar, config, stack, tt)
  BY <1>4, <1>5, <1>6, <1>7, Pushing
<1>9. tt[Len(tt)] = f /\ tt # << >> /\ tt \in Seq(S \cup {f})
  BY <1>4, <1>5, <1>6, <1>7, Pushing
<1>10. OpAt(grammar, config, tt[Len(tt)].op).id = "RNM" /\ r = OpAt(grammar, config, tt[Len(tt)].op).index
  BY <1>9
<1>11. /\ BKR_RULE_OPEN(bkru, r) \in Object(bkruAtStart, V)
       /\ Tracks(BKR_RULE_OPEN(bkru, r), bkruAtStart, grammar, config, tt, 0, found)
  BY <1>1, <1>3, <1>8, <1>10, RuleGrown DEF ObjectsIn
<1>12. /\ BKR_RULE_OPEN(bkrp, r) \in Object(bkrpAtStart, V)
       /\ Tracks(BKR_RULE_OPEN(bkrp, r), bkrpAtStart, grammar, config, tt, 0, found)
  BY <1>1, <1>3, <1>8, <1>10, RuleGrown DEF ObjectsIn
<1>13. found \subseteq found' /\ (uiOpState' = "MATCH" => <<r, phr>> \in found')
  BY <1>2 DEF RuleClose, Find
<1>14. /\ bkru' = BKR_RULE_CLOSE(BKR_RULE_OPEN(bkru, r), r, uiOpState', phr)
       /\ bkrp' = BKR_RULE_CLOSE(BKR_RULE_OPEN(bkrp, r), r, uiOpState', phr)
  BY <1>2 DEF RuleClose
<1>15. /\ bkru' \in Object(bkruAtStart, V)
       /\ Tracks(bkru', bkruAtStart, grammar, config, stack, 0, found')
  <2> DEFINE d == BKR_RULE_OPEN(bkru, r)
  <2> HIDE DEF d
  <2>1. d \in Object(bkruAtStart, V) /\ Tracks(d, bkruAtStart, grammar, config, tt, 0, found)
    BY <1>11 DEF d
  <2>2. /\ BKR_RULE_CLOSE(d, r, uiOpState', phr) \in Object(bkruAtStart, V)
        /\ Tracks(BKR_RULE_CLOSE(d, r, uiOpState', phr), bkruAtStart, grammar, config, stack, 0, found')
    BY <1>3, <1>8, <1>10, <1>13, <2>1, RuleShrunk DEF ObjectsIn
  <2> QED
    BY <1>14, <2>2 DEF d
<1>16. /\ bkrp' \in Object(bkrpAtStart, V)
       /\ Tracks(bkrp', bkrpAtStart, grammar, config, stack, 0, found')
  <2> DEFINE d == BKR_RULE_OPEN(bkrp, r)
  <2> HIDE DEF d
  <2>1. d \in Object(bkrpAtStart, V) /\ Tracks(d, bkrpAtStart, grammar, config, tt, 0, found)
    BY <1>12 DEF d
  <2>2. /\ BKR_RULE_CLOSE(d, r, uiOpState', phr) \in Object(bkrpAtStart, V)
        /\ Tracks(BKR_RULE_CLOSE(d, r, uiOpState', phr), bkrpAtStart, grammar, config, stack, 0, found')
    BY <1>3, <1>8, <1>10, <1>13, <2>1, RuleShrunk DEF ObjectsIn
  <2> QED
    BY <1>14, <2>2 DEF d
<1>17. Goes
  BY <1>1, <1>15, <1>16 DEF Goes
<1>18. stack' \in Seq(S) /\ ~(pc' = "call") /\ UNCHANGED atStart
  BY <1>4
<1> QED
  BY <1>1, <1>3, <1>15, <1>16, <1>17, <1>18, Concluded DEF ObjectsIn

LEMMA RuleReturns ==
  ASSUME BkrInv, pc = "return", stack # << >>, OpAt(grammar, config, Top(stack).op).id = "RNM",
         NEW r, r = OpAt(grammar, config, Top(stack).op).index,
         pc' = "return", stack' = Pop(stack),
         RuleClose(bkru, bkrp, r, uiOpState', Returned), UNCHANGED <<grammar, config, atStart>>
  PROVE  BkrInv'
<1>1. /\ ModesOK /\ Rooted(grammar, config, stack)
      /\ Tracks(bkru, bkruAtStart, grammar, config, stack, 0, found)
      /\ Tracks(bkrp, bkrpAtStart, grammar, config, stack, 0, found)
  BY Running
<1>2. PICK phr : phr = Returned
  OBVIOUS
<1>3. PICK V : ObjectsIn(V) /\ phr \in V
  BY Running, WithPhrase
<1>4. PICK S : stack \in Seq(S)
  BY Running
<1>5. PICK st : st = Pop(stack)
  OBVIOUS
<1>6. /\ Grows(grammar, config, st, stack) /\ Rooted(grammar, config, st)
      /\ st \in Seq(S) /\ stack[Len(stack)] = Top(stack)
  BY <1>1, <1>4, <1>5, Popping
<1>7. /\ OpAt(grammar, config, stack[Len(stack)].op).id = "RNM"
      /\ r = OpAt(grammar, config, stack[Len(stack)].op).index
  BY <1>6
<1>8. found \subseteq found' /\ (uiOpState' = "MATCH" => <<r, phr>> \in found')
  BY <1>2 DEF RuleClose, Find
<1>9. /\ bkru' = BKR_RULE_CLOSE(bkru, r, uiOpState', phr)
      /\ bkrp' = BKR_RULE_CLOSE(bkrp, r, uiOpState', phr)
  BY <1>2 DEF RuleClose
<1>10. /\ BKR_RULE_CLOSE(bkru, r, uiOpState', phr) \in Object(bkruAtStart, V)
       /\ Tracks(BKR_RULE_CLOSE(bkru, r, uiOpState', phr), bkruAtStart, grammar, config, st, 0, found')
  BY <1>1, <1>3, <1>6, <1>7, <1>8, RuleShrunk DEF ObjectsIn
<1>11. /\ BKR_RULE_CLOSE(bkrp, r, uiOpState', phr) \in Object(bkrpAtStart, V)
       /\ Tracks(BKR_RULE_CLOSE(bkrp, r, uiOpState', phr), bkrpAtStart, grammar, config, st, 0, found')
  BY <1>1, <1>3, <1>6, <1>7, <1>8, RuleShrunk DEF ObjectsIn
<1>12. Goes
  BY <1>5, <1>6, <1>9, <1>10, <1>11 DEF Goes
<1>13. stack' \in Seq(S) /\ ~(pc' = "call") /\ UNCHANGED atStart
  BY <1>5, <1>6
<1> QED
  BY <1>1, <1>3, <1>9, <1>10, <1>11, <1>12, <1>13, Concluded DEF ObjectsIn

LEMMA NameEnds ==
  ASSUME BkrInv, pc = "call", pc' = "return", stack' = stack,
         NEW r, UdtClose(r, uiOpState', Returned), UNCHANGED <<grammar, config, atStart>>
  PROVE  BkrInv'
<1>1. /\ ModesOK /\ Rooted(grammar, config, stack)
      /\ Tracks(bkru, bkruAtStart, grammar, config, stack, 0, found)
      /\ Tracks(bkrp, bkrpAtStart, grammar, config, stack, 0, found)
  BY Running
<1>2. PICK phr : phr = Returned
  OBVIOUS
<1>3. PICK V : ObjectsIn(V) /\ phr \in V
  BY Running, WithPhrase
<1>4. PICK S : stack \in Seq(S)
  BY Running
<1>5. found \subseteq found' /\ (uiOpState' = "MATCH" => <<r, phr>> \in found')
  BY <1>2 DEF UdtClose, Find
<1>6. /\ bkru' = BKR_UDT_CLOSE(bkru, r, uiOpState', phr)
      /\ bkrp' = BKR_UDT_CLOSE(bkrp, r, uiOpState', phr)
  BY <1>2 DEF UdtClose
<1>7. /\ BKR_UDT_CLOSE(bkru, r, uiOpState', phr) \in Object(bkruAtStart, V)
      /\ Tracks(BKR_UDT_CLOSE(bkru, r, uiOpState', phr), bkruAtStart, grammar, config, stack, 0, found')
  BY <1>1, <1>3, <1>5, NameFound DEF ObjectsIn
<1>8. /\ BKR_UDT_CLOSE(bkrp, r, uiOpState', phr) \in Object(bkrpAtStart, V)
      /\ Tracks(BKR_UDT_CLOSE(bkrp, r, uiOpState', phr), bkrpAtStart, grammar, config, stack, 0, found')
  BY <1>1, <1>3, <1>5, NameFound DEF ObjectsIn
<1>9. Goes
  BY <1>1, <1>6, <1>7, <1>8 DEF Goes
<1>10. stack' \in Seq(S) /\ ~(pc' = "call") /\ UNCHANGED atStart
  BY <1>4
<1> QED
  BY <1>1, <1>3, <1>6, <1>7, <1>8, <1>9, <1>10, Concluded DEF ObjectsIn

\* a parse begins with the objects as the last one left them
LEMMA Begins ==
  ASSUME BkrInv, pc' = "call", callee' = 0, stack' = << >>, UNCHANGED objects, found' = {},
         bkruAtStart' = bkru, bkrpAtStart' = bkrp
  PROVE  BkrInv'
<1>1. PICK V : ObjectsIn(V)
  BY DEF BkrInv, ObjectsOK
<1>2. /\ bkru \in Object(bkru, V) /\ bkru.on = bkruAtStart.on
      /\ bkru.mode = bkruAtStart.mode /\ bkru.is = bkruAtStart.is
  BY <1>1, OwnObject DEF ObjectsIn
<1>3. /\ bkrp \in Object(bkrp, V) /\ bkrp.on = bkrpAtStart.on
      /\ bkrp.mode = bkrpAtStart.mode /\ bkrp.is = bkrpAtStart.is
  BY <1>1, OwnObject DEF ObjectsIn
<1>4. bkru' = bkru /\ bkrp' = bkrp
  BY DEF objects
<1>5. ObjectsOK'
  <2>1. ObjectsIn(V)'
    BY <1>1, <1>2, <1>3, <1>4 DEF ObjectsIn
  <2> QED
    BY <2>1 DEF ObjectsOK
<1>6. ModesOK'
  BY <1>2, <1>3 DEF BkrInv, ModesOK, Universal
<1>7. StackOK'
  <2>1. stack' \in Seq({}) /\ Len(stack') = 0
    OBVIOUS
  <2> QED
    BY <2>1 DEF StackOK, Rooted
<1>8. ObjectsFollow'
  <2>1. Tracks(bkru, bkru, grammar', config', << >>, 0, {})
    BY <1>2, Started
  <2>2. Tracks(bkrp, bkrp, grammar', config', << >>, 0, {})
    BY <1>3, Started
  <2> QED
    BY <1>4, <2>1, <2>2 DEF ObjectsFollow
<1> QED
  BY <1>5, <1>6, <1>7, <1>8 DEF BkrInv

-----------------------------------------------------------------------------
(* The actions.                                                            *)

LEMMA OpcodeAt == \A i : Opcode(i) = OpAt(grammar, config, i)
BY DEF Opcode, OpAt

LEMMA ListOpens ==
  ASSUME BkrInv, BkrCatOpen \/ BkrRepOpen
  PROVE  BkrInv'
<1>2. CASE BkrCatOpen
  <2>1. /\ pc = "call" /\ OpAt(grammar, config, callee).id = "CAT"
        /\ pc' = "call" /\ stack' = Append(stack, NewFrame(1))
        /\ UNCHANGED <<grammar, config, found, atStart>>
    BY <1>2, OpcodeAt DEF BkrCatOpen, CatOpen, Calling, Call, app, parse
  <2>2. NewFrame(1).op = callee
    BY DEF NewFrame
  <2>3. OpenedBy("CAT", bkru, bkru') /\ OpenedBy("CAT", bkrp, bkrp')
    BY <1>2 DEF BkrCatOpen, OpOpen, OpenedBy
  <2> QED
    BY <2>1, <2>2, <2>3, OperatorOpens
<1>3. CASE BkrRepOpen
  <2>1. /\ pc = "call" /\ OpAt(grammar, config, callee).id = "REP"
        /\ pc' = "call" /\ stack' = Append(stack, NewFrame(0))
        /\ UNCHANGED <<grammar, config, found, atStart>>
    BY <1>3, OpcodeAt DEF BkrRepOpen, RepOpen, Calling, Call, app, parse
  <2>2. NewFrame(0).op = callee
    BY DEF NewFrame
  <2>3. OpenedBy("REP", bkru, bkru') /\ OpenedBy("REP", bkrp, bkrp')
    BY <1>3 DEF BkrRepOpen, OpenedBy
  <2> QED
    BY <2>1, <2>2, <2>3, OperatorOpens
<1> QED
  BY <1>2, <1>3

LEMMA OtherOpens ==
  ASSUME BkrInv, AltOpen \/ LookAheadOpen \/ LookBackOpen, UNCHANGED <<objects, found, atStart>>
  PROVE  BkrInv'
<1>1. PICK id : id = OpAt(grammar, config, callee).id
  OBVIOUS
<1>2. /\ pc = "call" /\ id \in {"ALT"} \cup LookAheadIds \cup LookBackIds
      /\ pc' = "call" /\ \E k \in {0, 1} : stack' = Append(stack, NewFrame(k))
      /\ UNCHANGED <<grammar, config, found, atStart>>
  <2>1. CASE AltOpen
    BY <1>1, <2>1, OpcodeAt DEF AltOpen, Calling, Call, app, parse
  <2>2. CASE LookAheadOpen
    BY <1>1, <2>2, OpcodeAt DEF LookAheadOpen, Calling, Call, app, parse
  <2>3. CASE LookBackOpen
    BY <1>1, <2>3, OpcodeAt DEF LookBackOpen, Calling, Call, app, parse
  <2> QED
    BY <2>1, <2>2, <2>3
<1>3. id \notin {"CAT", "REP", "RNM"}
  BY <1>2 DEF LookAheadIds, LookBackIds
<1>4. PICK k \in {0, 1} : stack' = Append(stack, NewFrame(k))
  BY <1>2
<1>5. NewFrame(k).op = callee
  BY DEF NewFrame
<1>6. OpenedBy(id, bkru, bkru') /\ OpenedBy(id, bkrp, bkrp')
  BY <1>3 DEF OpenedBy, objects
<1> QED
  BY <1>1, <1>2, <1>3, <1>4, <1>5, <1>6, OperatorOpens

\* how an operator with a frame goes on from a child's return
GoesOn ==
  \/ pc' = "return" /\ stack' = Pop(stack)
  \/ pc' = "call" /\ \E f : f.op = Top(stack).op /\ stack' = Append(Pop(stack), f)
  \/ pc' = "idle" /\ stack' = << >>

LEMMA ListReturns ==
  ASSUME BkrInv, BkrCatNext \/ BkrRepNext
  PROVE  BkrInv'
<1>1. CASE BkrCatNext
  <2>1. /\ pc = "return" /\ stack # << >> /\ OpAt(grammar, config, Top(stack).op).id = "CAT"
        /\ UNCHANGED <<grammar, config, found, atStart>>
    BY <1>1, OpcodeAt DEF BkrCatNext, CatNext, Returning, app, parse
  <2>2. GoesOn
    <3> DEFINE f == Top(stack)
               len == Plus(f.len, uiPhraseLength)
    <3>1. \/ \E a, state, offset, length : OpReturn(a, state, offset, length)
          \/ \E child : Call(Append(Pop(stack), [f EXCEPT !.k = @ + 1, !.len = len]), child)
      BY <1>1 DEF BkrCatNext, CatNext
    <3>2. [f EXCEPT !.k = @ + 1, !.len = len].op = f.op
      OBVIOUS
    <3> QED
      BY <3>1, <3>2 DEF GoesOn, OpReturn, Finish, Return, Throw, Call
  <2>3. ReturnedTo("CAT", bkru, bkru') /\ ReturnedTo("CAT", bkrp, bkrp')
    BY <1>1 DEF BkrCatNext, OpClose, ReturnedTo, objects
  <2> QED
    BY <2>1, <2>2, <2>3, OperatorReturns DEF GoesOn
<1>2. CASE BkrRepNext
  <2>1. /\ pc = "return" /\ stack # << >> /\ OpAt(grammar, config, Top(stack).op).id = "REP"
        /\ UNCHANGED <<grammar, config, found, atStart>>
    BY <1>2, OpcodeAt DEF BkrRepNext, RepNext, Returning, app, parse
  <2>2. GoesOn
    <3> DEFINE f == Top(stack)
               len == Plus(f.len, uiPhraseLength)
    <3>1. \/ \E a, state, offset, length : OpReturn(a, state, offset, length)
          \/ \E child, a : Continue(Append(Pop(stack), [f EXCEPT !.k = @ + 1, !.len = len]), child, a)
      BY <1>2 DEF BkrRepNext, RepNext
    <3>2. [f EXCEPT !.k = @ + 1, !.len = len].op = f.op
      OBVIOUS
    <3> QED
      BY <3>1, <3>2 DEF GoesOn, OpReturn, Finish, Continue, Return, Throw, Call
  <2>3. ReturnedTo("REP", bkru, bkru') /\ ReturnedTo("REP", bkrp, bkrp')
    BY <1>2 DEF BkrRepNext, ReturnedTo
  <2> QED
    BY <2>1, <2>2, <2>3, OperatorReturns DEF GoesOn
<1> QED
  BY <1>1, <1>2

LEMMA OtherReturns ==
  ASSUME BkrInv, AltNext \/ LookAheadClose \/ LookBackAgain \/ LookBackClose,
         UNCHANGED <<objects, found, atStart>>
  PROVE  BkrInv'
<1>1. PICK id : id = OpAt(grammar, config, Top(stack).op).id
  OBVIOUS
<1>2. /\ pc = "return" /\ stack # << >> /\ id \in {"ALT"} \cup LookAheadIds \cup LookBackIds
      /\ UNCHANGED <<grammar, config, found, atStart>>
  <2>1. CASE AltNext
    BY <1>1, <2>1, OpcodeAt DEF AltNext, Returning, app, parse
  <2>2. CASE LookAheadClose
    BY <1>1, <2>2, OpcodeAt DEF LookAheadClose, Returning, app, parse
  <2>3. CASE LookBackAgain
    BY <1>1, <2>3, OpcodeAt DEF LookBackAgain, Returning, app, parse
  <2>4. CASE LookBackClose
    BY <1>1, <2>4, OpcodeAt DEF LookBackClose, Returning, app, parse
  <2> QED
    BY <2>1, <2>2, <2>3, <2>4
<1>3. GoesOn
  <2>1. NextTry(Top(stack)).op = Top(stack).op
    BY DEF NextTry
  <2>2. CASE AltNext
    <3>1. \/ \E a, state, offset, length : OpReturn(a, state, offset, length)
          \/ \E child : Call(Append(Pop(stack), NextTry(Top(stack))), child)
      BY <2>2 DEF AltNext
    <3> QED
      BY <2>1, <3>1 DEF GoesOn, OpReturn, Finish, Return, Throw, Call
  <2>3. CASE LookAheadClose
    BY <2>3 DEF LookAheadClose, GoesOn, OpReturn, Finish, Return, Throw
  <2>4. CASE LookBackAgain
    BY <2>1, <2>4 DEF LookBackAgain, GoesOn, Call
  <2>5. CASE LookBackClose
    BY <2>5 DEF LookBackClose, GoesOn, Finish, Return, Throw
  <2> QED
    BY <2>2, <2>3, <2>4, <2>5
<1>4. id \notin {"CAT", "REP", "RNM"}
  BY <1>2 DEF LookAheadIds, LookBackIds
<1>5. ReturnedTo(id, bkru, bkru') /\ ReturnedTo(id, bkrp, bkrp')
  BY <1>4 DEF ReturnedTo, objects
<1> QED
  BY <1>1, <1>2, <1>3, <1>4, <1>5, OperatorReturns DEF GoesOn

LEMMA RuleOpenStep ==
  ASSUME BkrInv, BkrRnmOpen
  PROVE  BkrInv'
<1> DEFINE r == OpAt(grammar, config, callee).index
<1>1. /\ pc = "call" /\ OpAt(grammar, config, callee).id = "RNM"
      /\ UNCHANGED <<grammar, config, atStart>>
  BY OpcodeAt DEF BkrRnmOpen, RnmOpen, Calling, app, parse
<1>2. NewFrame(0).op = callee
  BY DEF NewFrame
<1>3. \/ pc' \in {"call", "return"} /\ stack' = Append(stack, NewFrame(0))
      \/ pc' = "idle" /\ stack' = << >>
      \/ pc' = "return" /\ stack' = stack
  <2>1. \/ \E a : RnmDown(a)
        \/ \E a : Throw("callback", a)
        \/ \E a, state, offset, length : Finish(stack, a, state, offset, length)
    BY DEF BkrRnmOpen, RnmOpen
  <2>2. ASSUME NEW a, RnmDown(a)
        PROVE  pc' \in {"call", "return"} /\ stack' = Append(stack, NewFrame(0))
    BY <2>2 DEF RnmDown, Call, Return
  <2>3. ASSUME NEW a, Throw("callback", a)
        PROVE  pc' = "idle" /\ stack' = << >>
    BY <2>3 DEF Throw
  <2>4. ASSUME NEW a, NEW state, NEW offset, NEW length, Finish(stack, a, state, offset, length)
        PROVE  \/ pc' = "return" /\ stack' = stack
               \/ pc' = "idle" /\ stack' = << >>
    BY <2>4 DEF Finish, Return, Throw
  <2> QED
    BY <2>1, <2>2, <2>3, <2>4
<1>4. /\ pc' = "return" /\ stack' = stack =>
           RuleClose(BKR_RULE_OPEN(bkru, r), BKR_RULE_OPEN(bkrp, r), r, uiOpState', Returned)
      /\ ~(pc' = "return" /\ stack' = stack) => RuleOpen(r)
  BY OpcodeAt DEF BkrRnmOpen
<1> HIDE DEF r
<1>5. PICK q : q = r
  OBVIOUS
<1>6. q = OpAt(grammar, config, callee).index
  BY <1>5 DEF r
<1>7. CASE pc' = "return" /\ stack' = stack
  BY <1>1, <1>2, <1>4, <1>5, <1>6, <1>7, RuleAtOnce
<1>8. CASE ~(pc' = "return" /\ stack' = stack)
  <2>1. RuleOpen(q)
    BY <1>4, <1>5, <1>8
  <2>2. \/ pc' \in {"call", "return"} /\ stack' = Append(stack, NewFrame(0))
        \/ pc' = "idle" /\ stack' = << >>
    BY <1>3, <1>8
  <2> QED
    BY <1>1, <1>2, <1>6, <2>1, <2>2, RuleOpens
<1> QED
  BY <1>7, <1>8

LEMMA RuleCloseStep ==
  ASSUME BkrInv, BkrRnmClose
  PROVE  BkrInv'
<1> DEFINE r == OpAt(grammar, config, Top(stack).op).index
<1>1. /\ pc = "return" /\ stack # << >> /\ OpAt(grammar, config, Top(stack).op).id = "RNM"
      /\ UNCHANGED <<grammar, config, atStart>>
  BY OpcodeAt DEF BkrRnmClose, RnmClose, Returning, app, parse
<1>2. \/ pc' = "return" /\ stack' = Pop(stack)
      \/ pc' = "idle" /\ stack' = << >>
  <2>1. \/ \E q, state, offset, length : RnmReturn(q, state, offset, length)
        \/ \E a : Throw("callback", a)
    BY DEF BkrRnmClose, RnmClose
  <2> QED
    BY <2>1 DEF RnmReturn, OpReturn, Finish, Return, Throw
<1>3. /\ pc' = "return" => RuleClose(bkru, bkrp, r, uiOpState', Returned)
      /\ pc' # "return" => UNCHANGED objects
  BY OpcodeAt DEF BkrRnmClose
<1> HIDE DEF r
<1>4. PICK q : q = r
  OBVIOUS
<1>5. q = OpAt(grammar, config, Top(stack).op).index
  BY <1>4 DEF r
<1>6. CASE pc' = "return" /\ stack' = Pop(stack)
  BY <1>1, <1>3, <1>4, <1>5, <1>6, RuleReturns
<1>7. CASE pc' = "idle" /\ stack' = << >>
  BY <1>1, <1>3, <1>7, NoFrames, Idles
<1> QED
  BY <1>2, <1>6, <1>7

LEMMA UdtStep ==
  ASSUME BkrInv, BkrUdt
  PROVE  BkrInv'
<1>1. pc = "call" /\ UNCHANGED <<grammar, config, atStart>>
  BY DEF BkrUdt, Udt, Calling, app, parse
<1>2. \/ pc' = "return" /\ stack' = stack
      \/ pc' = "idle" /\ stack' = << >>
  <2>1. \/ \E a : Throw("callback", a)
        \/ \E a, state, offset, length : Finish(stack, a, state, offset, length)
    BY DEF BkrUdt, Udt
  <2> QED
    BY <2>1 DEF Finish, Return, Throw
<1>3. CASE pc' = "return" /\ stack' = stack
  <2>1. PICK q : q = uiRuleCount + Opcode(callee).index
    OBVIOUS
  <2>2. UdtClose(q, uiOpState', Returned)
    BY <1>3, <2>1 DEF BkrUdt
  <2> QED
    BY <1>1, <1>3, <2>2, NameEnds
<1>4. CASE pc' = "idle" /\ stack' = << >>
  <2>1. UNCHANGED objects
    BY <1>4 DEF BkrUdt
  <2> QED
    BY <1>1, <1>4, <2>1, NoFrames, Idles
<1> QED
  BY <1>2, <1>3, <1>4

LEMMA LeafStep ==
  ASSUME BkrInv, Bkr \/ MatchTerminal \/ Anchor, UNCHANGED <<objects, found, atStart>>
  PROVE  BkrInv'
<1>1. pc = "call" /\ UNCHANGED <<grammar, config>>
  <2>1. CASE Bkr
    BY <2>1 DEF Bkr, Calling, app, parse
  <2>2. CASE MatchTerminal
    BY <2>2 DEF MatchTerminal, LeafReturn, Calling, app, parse
  <2>3. CASE Anchor
    BY <2>3 DEF Anchor, LeafReturn, Calling, app, parse
  <2> QED
    BY <2>1, <2>2, <2>3
<1>2. \/ pc' = "return" /\ stack' = stack
      \/ pc' = "idle" /\ stack' = << >>
  <2>1. CASE Bkr
    <3>1. \/ Throw("bkr", ast)
          \/ \E state, offset, length : Return(stack, state, offset, length)
      BY <2>1 DEF Bkr
    <3> QED
      BY <3>1 DEF Return, Throw
  <2>2. CASE MatchTerminal
    BY <2>2 DEF MatchTerminal, LeafReturn, Return
  <2>3. CASE Anchor
    BY <2>3 DEF Anchor, LeafReturn, Return
  <2> QED
    BY <2>1, <2>2, <2>3
<1>3. CASE pc' = "return" /\ stack' = stack
  BY <1>1, <1>3, LeafEnds
<1>4. CASE pc' = "idle" /\ stack' = << >>
  <2>1. UNCHANGED objects /\ UNCHANGED atStart
    OBVIOUS
  <2> QED
    BY <1>4, <2>1, NoFrames, Idles
<1> QED
  BY <1>2, <1>3, <1>4

LEMMA ApplicationHolds ==
  ASSUME BkrInv, UNCHANGED <<objects, found, atStart>>,
         \/ ParserFinish
         \/ \E c \in Configs : ParserParseThrows(c)
         \/ \E r \in AppRules : SetRuleCallback(r)
         \/ \E u \in 1..Len(grammar.udts) : SetUdtCallback(u)
  PROVE  BkrInv'
<1>1. pc' = "idle" /\ (stack' = stack \/ stack' = << >>)
  BY DEF ParserFinish, ParserParseThrows, Throw, SetRuleCallback, SetUdtCallback, control
<1>2. \E S : stack' \in Seq(S)
  BY <1>1, NoFrames DEF BkrInv, StackOK
<1>3. UNCHANGED objects /\ UNCHANGED atStart
  OBVIOUS
<1> QED
  BY <1>1, <1>2, <1>3, Idles

LEMMA ParseBegins ==
  ASSUME BkrInv, NEW c, BkrParserParse(c)
  PROVE  BkrInv'
<1>1. /\ pc' = "call" /\ callee' = 0 /\ stack' = << >> /\ UNCHANGED objects /\ found' = {}
      /\ bkruAtStart' = bkru /\ bkrpAtStart' = bkrp
  BY DEF BkrParserParse, ParserParse, Call
<1> QED
  BY <1>1, Begins

LEMMA UnhookedStep ==
  ASSUME BkrInv, Unhooked
  PROVE  BkrInv'
<1>1. UNCHANGED <<objects, found, atStart>>
  BY DEF Unhooked
<1>2. CASE AltOpen \/ LookAheadOpen \/ LookBackOpen
  BY <1>1, <1>2, OtherOpens
<1>3. CASE AltNext \/ LookAheadClose \/ LookBackAgain \/ LookBackClose
  BY <1>1, <1>3, OtherReturns
<1>4. CASE MatchTerminal \/ Anchor
  BY <1>1, <1>4, LeafStep
<1>5. CASE \/ ParserFinish
           \/ \E c \in Configs : ParserParseThrows(c)
           \/ \E r \in AppRules : SetRuleCallback(r)
           \/ \E u \in 1..Len(grammar.udts) : SetUdtCallback(u)
  BY <1>1, <1>5, ApplicationHolds
<1> QED
  BY <1>2, <1>3, <1>4, <1>5 DEF Unhooked

LEMMA BkrStutter ==
  ASSUME BkrInv, UNCHANGED bkrVars
  PROVE  BkrInv'
<1>1. /\ bkru' = bkru /\ bkrp' = bkrp /\ found' = found
      /\ bkruAtStart' = bkruAtStart /\ bkrpAtStart' = bkrpAtStart
      /\ grammar' = grammar /\ config' = config
      /\ pc' = pc /\ callee' = callee /\ stack' = stack
  BY DEF bkrVars, vars, objects, atStart, app, parse, control
<1>2. ObjectsOK'
  <2>1. PICK V : ObjectsIn(V)
    BY DEF BkrInv, ObjectsOK
  <2>2. ObjectsIn(V)'
    BY <1>1, <2>1 DEF ObjectsIn
  <2> QED
    BY <2>2 DEF ObjectsOK
<1>3. ModesOK'
  BY <1>1 DEF BkrInv, ModesOK, Universal
<1>4. StackOK'
  BY <1>1 DEF BkrInv, StackOK, Parsing
<1>5. ObjectsFollow'
  BY <1>1 DEF BkrInv, ObjectsFollow, Parsing
<1> QED
  BY <1>2, <1>3, <1>4, <1>5 DEF BkrInv

LEMMA BkrStep == BkrInv /\ [BkrNext]_bkrVars => BkrInv'
<1> SUFFICES ASSUME BkrInv, [BkrNext]_bkrVars PROVE BkrInv'
  OBVIOUS
<1>1. CASE BkrCatOpen \/ BkrRepOpen
  BY <1>1, ListOpens
<1>2. CASE BkrCatNext \/ BkrRepNext
  BY <1>2, ListReturns
<1>3. CASE BkrRnmOpen
  BY <1>3, RuleOpenStep
<1>4. CASE BkrRnmClose
  BY <1>4, RuleCloseStep
<1>5. CASE BkrUdt
  BY <1>5, UdtStep
<1>6. CASE Bkr
  <2>1. UNCHANGED <<objects, found, atStart>>
    BY <1>6 DEF Bkr
  <2> QED
    BY <1>6, <2>1, LeafStep
<1>7. CASE \E c \in Configs : BkrParserParse(c)
  BY <1>7, ParseBegins
<1>8. CASE Unhooked
  BY <1>8, UnhookedStep
<1>9. CASE UNCHANGED bkrVars
  BY <1>9, BkrStutter
<1> QED
  BY <1>1, <1>2, <1>3, <1>4, <1>5, <1>6, <1>7, <1>8, <1>9 DEF BkrNext

LEMMA BkrBegins == BkrInit => BkrInv
<1> SUFFICES ASSUME BkrInit PROVE BkrInv
  OBVIOUS
<1> DEFINE V == {EmptyPhrase}
<1>1. ASSUME NEW g, NEW mode, NEW has
      PROVE  LET b == BkrCtor(g, mode, has) IN
             b \in Object(b, V) /\ b.mode = mode /\ (b.on <=> b.is # {})
  <2> DEFINE b == BkrCtor(g, mode, has)
  <2>1. /\ b.on = (b.is # {}) /\ b.mode = mode /\ b.has = has /\ b.is = Referenced(g, mode)
        /\ b.phrases = [n \in b.is |-> << >>] /\ b.checkPoints = << >> /\ b.openRules = << >>
        /\ b.error = FALSE
        /\ b = [on |-> b.on, mode |-> b.mode, is |-> b.is, has |-> b.has, phrases |-> b.phrases,
                checkPoints |-> b.checkPoints, openRules |-> b.openRules, error |-> b.error]
    BY DEF BkrCtor
  <2> HIDE DEF b, V
  <2>2. b.phrases \in [b.is -> Seq(V)]
    BY <2>1
  <2>3. b.checkPoints \in Seq([b.is -> Nat]) /\ b.openRules \in Seq(BOOLEAN)
    BY <2>1
  <2>4. b \in Object(b, V)
    BY <2>1, <2>2, <2>3 DEF Object
  <2> QED
    BY <2>1, <2>4 DEF b
<1> HIDE DEF V
<1>2. EmptyPhrase \in V
  BY DEF V
<1>3. ObjectsIn(V) /\ ModesOK
  <2>1. /\ bkru \in Object(bkru, V) /\ bkru.mode = ID_BKR_MODE_U /\ (bkru.on <=> bkru.is # {})
        /\ bkrp \in Object(bkrp, V) /\ bkrp.mode = ID_BKR_MODE_P /\ (bkrp.on <=> bkrp.is # {})
        /\ bkruAtStart = bkru /\ bkrpAtStart = bkrp
    BY <1>1 DEF BkrInit
  <2> QED
    BY <1>2, <2>1 DEF ObjectsIn, ModesOK, Universal, ID_BKR_MODE_U, ID_BKR_MODE_P
<1>4. StackOK
  BY NoFrames DEF BkrInit, Init, StackOK, Parsing
<1>5. ObjectsFollow
  BY DEF BkrInit, Init, ObjectsFollow, Parsing
<1> QED
  BY <1>3, <1>4, <1>5 DEF BkrInv, ObjectsOK

LEMMA BkrInvariant == BkrSpec => []BkrInv
BY BkrBegins, BkrStep, PTL DEF BkrSpec

-----------------------------------------------------------------------------
(* The properties.                                                         *)

\* the frames of the parser's stack, as the properties see them
LEMMA FrameSeen ==
  ASSUME Rooted(grammar, config, stack), NEW s, s = SeenIn(grammar, config, stack),
         NEW n \in 1..Len(stack)
  PROVE  /\ Len(stack) \in Nat /\ DOMAIN s = 1..Len(stack)
         /\ s[n].rule <=> n \in RnmFrames
         /\ s[n].rule => RuleOf(n) = s[n].index
         /\ Opcode(stack[n].op).id \in {"CAT", "REP"} => RuleOf(Within(n)) = s[n].index
<1> DEFINE R == RulesUpTo(grammar, config, stack, n)
           l == LastRule(R)
<1>1. /\ s[n].rule = (Opcode(stack[n].op).id = "RNM")
      /\ s[n].index = Opcode(stack[l].op).index
  BY OpcodeAt, SeenValue
<1>2. s[n].rule <=> n \in RnmFrames
  BY <1>1 DEF RnmFrames
<1>3. ASSUME s[n].rule PROVE RuleOf(n) = s[n].index
  <2>1. OpAt(grammar, config, stack[n].op).id = "RNM"
    BY <1>1, <1>3, OpcodeAt
  <2>2. SeenIn(grammar, config, stack)[n].index = OpAt(grammar, config, stack[n].op).index
    BY <2>1, SeenRule
  <2> QED
    BY <2>2, OpcodeAt DEF RuleOf
<1>4. Opcode(stack[n].op).id \in {"CAT", "REP"} => RuleOf(Within(n)) = s[n].index
  <2> SUFFICES ASSUME Opcode(stack[n].op).id \in {"CAT", "REP"}
               PROVE  RuleOf(Within(n)) = s[n].index
    OBVIOUS
  <2>1. IsLast(R, l) /\ R \subseteq 1..n
    BY LastRuleIn
  <2>2. n \in Nat /\ Len(stack) \in Nat /\ 1..n \subseteq 1..Len(stack)
    BY DEF Rooted
  <2>3. R = {m \in RnmFrames : m < n}
    <3>1. R = {m \in 1..n : Opcode(stack[m].op).id = "RNM"}
      BY OpcodeAt DEF RulesUpTo
    <3>2. ASSUME NEW m PROVE m \in R <=> m \in RnmFrames /\ m < n
      <4>1. m \in R => m \in RnmFrames /\ m \in 1..n /\ m # n
        BY <2>2, <3>1 DEF RnmFrames
      <4>2. m \in RnmFrames /\ m < n => m \in R
        BY <2>2, <3>1 DEF RnmFrames
      <4> QED
        BY <2>2, <4>1, <4>2
    <3> QED
      BY <3>2
  <2> HIDE DEF R, l
  <2>4. l \in RnmFrames /\ l < n /\ \A k \in RnmFrames : k < n => k =< l
    BY <2>1, <2>3 DEF IsLast
  <2>5. PICK w : w = Within(n)
    OBVIOUS
  <2>6. w \in RnmFrames /\ w < n /\ \A k \in RnmFrames : k < n => k =< w
    BY <2>4, <2>5 DEF Within
  <2>7. IsLast(R, w)
    BY <2>3, <2>6 DEF IsLast
  <2>8. w = l
    BY <2>1, <2>2, <2>7, OneLast DEF l
  <2> QED
    BY <1>1, <2>5, <2>8 DEF RuleOf
<1>5. Len(stack) \in Nat /\ DOMAIN s = 1..Len(stack)
  BY DEF Rooted, SeenIn
<1> QED
  BY <1>2, <1>3, <1>4, <1>5

\* the same number of rules, frames and checkpoints
LEMMA SeenCounts ==
  ASSUME Rooted(grammar, config, stack), NEW s, s = SeenIn(grammar, config, stack),
         NEW b, NEW b0, b.has = b0.has, b.is = b0.is
  PROVE  /\ Rules(s, Len(stack)) = Cardinality(RnmFrames)
         /\ Held(b0, s, Len(stack)) = Cardinality({m \in RnmFrames : RuleOf(m) \in b.has})
         /\ Saved(b0, s, Len(stack)) = Points(b)
<1> DEFINE n == Len(stack)
<1>0. DOMAIN s = 1..n
  BY DEF SeenIn
<1>1. IsRule(s) \cap (1..n) = RnmFrames
  <2>1. \A k \in 1..n : s[k].rule <=> k \in RnmFrames
    BY FrameSeen
  <2>2. RnmFrames \subseteq 1..n
    BY DEF RnmFrames
  <2> QED
    BY <1>0, <2>1, <2>2 DEF IsRule
<1>2. Holds(b0, s) \cap (1..n) = {m \in RnmFrames : RuleOf(m) \in b.has}
  <2>1. \A k \in 1..n : /\ s[k].rule <=> k \in RnmFrames
                        /\ s[k].rule => RuleOf(k) = s[k].index
    BY FrameSeen
  <2>2. RnmFrames \subseteq 1..n
    BY DEF RnmFrames
  <2> QED
    BY <1>0, <2>1, <2>2 DEF Holds
<1>3. \A k \in 1..n : Kept(b0, s[k]) = OpenPoints(b, k)
  <2> TAKE k \in 1..n
  <2>1. /\ s[k].rule <=> k \in RnmFrames
        /\ s[k].rule => RuleOf(k) = s[k].index
        /\ Opcode(stack[k].op).id \in {"CAT", "REP"} => RuleOf(Within(k)) = s[k].index
    BY FrameSeen
  <2>2. s[k].hooks = Hooks(Opcode(stack[k].op).id)
    BY OpcodeAt, SeenValue
  <2>3. CASE s[k].rule
    <3>1. Concerned(b, RuleOf(k)) <=> Concerned(b0, s[k].index)
      BY <2>1, <2>3 DEF Concerned
    <3>2. OpenPoints(b, k) = IF Concerned(b, RuleOf(k)) THEN 1 ELSE 0
      <4>1. k \in RnmFrames /\ Opcode(stack[k].op).id = "RNM"
        BY <2>1, <2>3 DEF RnmFrames
      <4> QED
        BY <4>1 DEF OpenPoints
    <3>3. Kept(b0, s[k]) = IF Concerned(b0, s[k].index) THEN 1 ELSE 0
      BY <2>3 DEF Kept
    <3> QED
      BY <3>1, <3>2, <3>3
  <2>4. CASE ~s[k].rule
    <3>1. CASE Opcode(stack[k].op).id = "CAT"
      BY <2>1, <2>2, <2>4, <3>1 DEF Kept, OpenPoints, Hooks
    <3>2. CASE Opcode(stack[k].op).id = "REP"
      BY <2>1, <2>2, <2>4, <3>2 DEF Kept, OpenPoints, Hooks
    <3>3. CASE Opcode(stack[k].op).id \notin {"CAT", "REP"}
      BY <2>1, <2>2, <2>4, <3>3 DEF Kept, OpenPoints, Hooks
    <3> QED
      BY <3>1, <3>2, <3>3
  <2> QED
    BY <2>3, <2>4
<1>4. /\ KeepsOne(b0, s) \cap (1..n) = {k \in 1..n : OpenPoints(b, k) >= 1}
      /\ KeepsTwo(b0, s) \cap (1..n) = {k \in 1..n : OpenPoints(b, k) = 2}
  BY <1>0, <1>3 DEF KeepsOne, KeepsTwo
<1> QED
  BY <1>1, <1>2, <1>4 DEF Rules, Held, Saved, UpTo, Points

LEMMA SeenSaved ==
  ASSUME Rooted(grammar, config, stack), NEW s, s = SeenIn(grammar, config, stack), NEW b0
  PROVE  Saved(b0, s, Len(stack)) \in Nat
<1>1. Len(stack) \in Nat
  BY DEF Rooted
<1>2. /\ UpTo(KeepsOne(b0, s), Len(stack)) \in Nat
      /\ UpTo(KeepsTwo(b0, s), Len(stack)) \in Nat
  BY <1>1, CountType
<1> QED
  BY <1>2 DEF Saved

\* what the invariant says of the two objects during a parse
LEMMA Followed ==
  ASSUME BkrInv, Parsing, NEW s, s = SeenIn(grammar, config, stack), NEW n, n = Len(stack)
  PROVE  /\ Rooted(grammar, config, stack)
         /\ bkru.on = bkruAtStart.on /\ bkru.has = bkruAtStart.has /\ bkru.is = bkruAtStart.is
         /\ bkrp.on = bkrpAtStart.on /\ bkrp.has = bkrpAtStart.has /\ bkrp.is = bkrpAtStart.is
         /\ bkru.on => /\ OpenRulesFollow(bkru, bkruAtStart, s, n)
                       /\ PointsAbove(bkru, bkruAtStart, s, n, 0)
                       /\ PhrasesAbove(bkru, bkruAtStart, found)
         /\ bkrp.on => /\ OpenRulesFollow(bkrp, bkrpAtStart, s, n)
                       /\ PointsExact(bkrp, bkrpAtStart, s, n, 0)
                       /\ PhrasesExact(bkrp, bkrpAtStart, s, n, found)
         /\ bkru.on <=> bkru.is # {}
         /\ bkrp.on <=> bkrp.is # {}
<1>1. PICK V : ObjectsIn(V)
  BY DEF BkrInv, ObjectsOK
<1>2. bkru.on = bkruAtStart.on /\ bkru.has = bkruAtStart.has /\ bkru.is = bkruAtStart.is
  BY <1>1, Fields DEF ObjectsIn
<1>3. bkrp.on = bkrpAtStart.on /\ bkrp.has = bkrpAtStart.has /\ bkrp.is = bkrpAtStart.is
  BY <1>1, Fields DEF ObjectsIn
<1>4. Rooted(grammar, config, stack)
  BY DEF BkrInv, StackOK
<1>5. ModesOK
  BY DEF BkrInv
<1>6. bkru.on => /\ OpenRulesFollow(bkru, bkruAtStart, s, n)
                 /\ PointsAbove(bkru, bkruAtStart, s, n, 0)
                 /\ PhrasesAbove(bkru, bkruAtStart, found)
  BY <1>2, <1>5 DEF BkrInv, ObjectsFollow, Tracks, Follows, ModesOK
<1>7. bkrp.on => /\ OpenRulesFollow(bkrp, bkrpAtStart, s, n)
                 /\ PointsExact(bkrp, bkrpAtStart, s, n, 0)
                 /\ PhrasesExact(bkrp, bkrpAtStart, s, n, found)
  BY <1>3, <1>5 DEF BkrInv, ObjectsFollow, Tracks, Follows, ModesOK
<1>8. (bkru.on <=> bkru.is # {}) /\ (bkrp.on <=> bkrp.is # {})
  BY <1>2, <1>3, <1>5 DEF ModesOK
<1> QED
  BY <1>2, <1>3, <1>4, <1>6, <1>7, <1>8

\* Whatever a grammar, its callbacks and earlier parses do, no stack of a back reference
\* object is popped or read when it is empty (the XTHROWs of backrefu.c and backrefp.c).
THEOREM StacksSuffice == BkrSpec => []StacksNeverEmpty
<1>1. BkrInv => StacksNeverEmpty
  <2> SUFFICES ASSUME BkrInv PROVE StacksNeverEmpty
    OBVIOUS
  <2>1. PICK V : ObjectsIn(V)
    BY DEF BkrInv, ObjectsOK
  <2>2. bkru.error = FALSE /\ bkrp.error = FALSE
    BY <2>1, Fields DEF ObjectsIn
  <2> QED
    BY <2>2 DEF StacksNeverEmpty
<1> QED
  BY <1>1, BkrInvariant, PTL

\* In every parse the open rules of both objects, and in parent mode the checkpoints and the
\* frames of every name, are exactly those of the operators on the parser's stack.
THEOREM ObjectsBalanced == BkrSpec => []FramesBalanced
<1>1. BkrInv => FramesBalanced
  <2> SUFFICES ASSUME BkrInv, Parsing
               PROVE  FramesBalanced
    BY DEF FramesBalanced
  <2>1. PICK s : s = SeenIn(grammar, config, stack)
    OBVIOUS
  <2>2. PICK n : n = Len(stack)
    OBVIOUS
  <2>3. /\ Rooted(grammar, config, stack)
        /\ bkru.has = bkruAtStart.has /\ bkru.is = bkruAtStart.is
        /\ bkrp.has = bkrpAtStart.has /\ bkrp.is = bkrpAtStart.is
        /\ bkru.on => OpenRulesFollow(bkru, bkruAtStart, s, n)
        /\ bkrp.on => /\ OpenRulesFollow(bkrp, bkrpAtStart, s, n)
                      /\ PointsExact(bkrp, bkrpAtStart, s, n, 0)
                      /\ PhrasesExact(bkrp, bkrpAtStart, s, n, found)
    BY <2>1, <2>2, Followed
  <2>4. Rules(s, n) = Cardinality(RnmFrames)
    BY <2>1, <2>2, <2>3, SeenCounts
  <2>5. /\ Held(bkrpAtStart, s, n) = Cardinality({m \in RnmFrames : RuleOf(m) \in bkrp.has})
        /\ Saved(bkrpAtStart, s, n) = Points(bkrp)
    <3>1. Held(bkrpAtStart, s, n) = Cardinality({m \in RnmFrames : RuleOf(m) \in bkrp.has})
      BY <2>1, <2>2, <2>3, SeenCounts
    <3>2. Saved(bkrpAtStart, s, n) = Points(bkrp)
      BY <2>1, <2>2, <2>3, SeenCounts
    <3> QED
      BY <3>1, <3>2
  <2>6. bkru.on => Len(bkru.openRules) = Len(bkruAtStart.openRules) + Cardinality(RnmFrames)
    BY <2>3, <2>4 DEF OpenRulesFollow
  <2>7. bkrp.on => Len(bkrp.openRules) = Len(bkrpAtStart.openRules) + Cardinality(RnmFrames)
    BY <2>3, <2>4 DEF OpenRulesFollow
  <2>8. bkrp.on => Len(bkrp.checkPoints) = Len(bkrpAtStart.checkPoints) + Points(bkrp)
    <3>1. Extra(bkrpAtStart, s, n, 0) = 0
      BY DEF Extra
    <3>2. Points(bkrp) + 0 = Points(bkrp)
      BY <2>1, <2>2, <2>3, <2>5, SeenSaved
    <3> QED
      BY <2>3, <2>5, <3>1, <3>2 DEF PointsExact
  <2>9. bkrp.on => \A x \in bkrp.is :
          Len(bkrp.phrases[x]) = Len(bkrpAtStart.phrases[x])
                                   + Cardinality({m \in RnmFrames : RuleOf(m) \in bkrp.has})
    BY <2>3, <2>5 DEF PhrasesExact
  <2>10. \A b \in {<<bkru, bkruAtStart>>, <<bkrp, bkrpAtStart>>} : b[1].on =>
           Len(b[1].openRules) = Len(b[2].openRules) + Cardinality(RnmFrames)
    BY <2>6, <2>7
  <2> QED
    BY <2>8, <2>9, <2>10 DEF FramesBalanced
<1> QED
  BY <1>1, BkrInvariant, PTL

\* Universal mode never has fewer checkpoints than the open operators need.
THEOREM CheckPointsSuffice == BkrSpec => []PointsSuffice
<1>1. BkrInv => PointsSuffice
  <2> SUFFICES ASSUME BkrInv, Parsing, bkru.on
               PROVE  Len(bkru.checkPoints) >= Len(bkruAtStart.checkPoints) + Points(bkru)
    BY DEF PointsSuffice
  <2>1. PICK s : s = SeenIn(grammar, config, stack)
    OBVIOUS
  <2>2. PICK n : n = Len(stack)
    OBVIOUS
  <2>3. /\ Rooted(grammar, config, stack)
        /\ bkru.has = bkruAtStart.has /\ bkru.is = bkruAtStart.is
        /\ PointsAbove(bkru, bkruAtStart, s, n, 0)
    BY <2>1, <2>2, Followed
  <2>4. Saved(bkruAtStart, s, n) = Points(bkru)
    BY <2>1, <2>2, <2>3, SeenCounts
  <2>5. Saved(bkruAtStart, s, n) \in Nat
    BY <2>1, <2>2, <2>3, SeenSaved
  <2>6. Saved(bkruAtStart, s, n) + Extra(bkruAtStart, s, n, 0) = Points(bkru)
    BY <2>4, <2>5 DEF Extra
  <2> QED
    BY <2>3, <2>6 DEF PointsAbove
<1> QED
  BY <1>1, BkrInvariant, PTL

\* No back reference is ever compared with a phrase that its name did not match in this
\* parse, unless an earlier parse left it at the bottom of the stack; those are never lost.
THEOREM ReferencesMatched == BkrSpec => []PhrasesFound
<1>1. BkrInv => PhrasesFound
  <2> SUFFICES ASSUME BkrInv, Parsing
               PROVE  PhrasesFound
    BY DEF PhrasesFound
  <2>1. PICK s : s = SeenIn(grammar, config, stack)
    OBVIOUS
  <2>2. PICK n : n = Len(stack)
    OBVIOUS
  <2>3. /\ bkru.is = bkruAtStart.is /\ bkrp.is = bkrpAtStart.is
        /\ bkru.on => PhrasesAbove(bkru, bkruAtStart, found)
        /\ bkrp.on => PhrasesExact(bkrp, bkrpAtStart, s, n, found)
        /\ bkru.on <=> bkru.is # {}
        /\ bkrp.on <=> bkrp.is # {}
    BY <2>1, <2>2, Followed
  <2>4. /\ \A x \in bkru.is : \A k \in 1..Len(bkru.phrases[x]) :
             IF k =< Len(bkruAtStart.phrases[x])
               THEN bkru.phrases[x][k] = bkruAtStart.phrases[x][k]
               ELSE <<x, bkru.phrases[x][k]>> \in found
        /\ \A x \in bkru.is : Len(bkru.phrases[x]) >= Len(bkruAtStart.phrases[x])
    BY <2>3 DEF PhrasesAbove
  <2>5. \A x \in bkrp.is : \A k \in (Len(bkrpAtStart.phrases[x]) + 1)..Len(bkrp.phrases[x]) :
          bkrp.phrases[x][k] = EmptyPhrase \/ <<x, bkrp.phrases[x][k]>> \in found
    BY <2>3 DEF PhrasesExact
  <2> QED
    BY <2>4, <2>5 DEF PhrasesFound
<1> QED
  BY <1>1, BkrInvariant, PTL
=============================================================================
