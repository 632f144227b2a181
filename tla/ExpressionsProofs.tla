------------------------- MODULE ExpressionsProofs -------------------------
(***************************************************************************)
(* formatExpr writes what the Go expression says, for expressions of any   *)
(* length and depth, and where the C compiler then builds the Go tree.     *)
(***************************************************************************)
EXTENDS Expressions, FiniteSetTheorems, WellFoundedInduction, TLAPS

\* What a weight is: a natural number, and between operators of different depths
\* the depth decides.
LEMMA WeightsType ==
  ASSUME NEW expr \in Seq(Element), NEW prec \in {GoPrec, CPrec}
  PROVE  /\ Len(Weights(prec, expr)) = Len(expr)
         /\ \A k \in 1..Len(expr) :
              /\ prec[expr[k].op] \in 1..10
              /\ expr[k].depth \in Nat
              /\ Weights(prec, expr)[k] = 11 * expr[k].depth + prec[expr[k].op]
<1>1. Len(Weights(prec, expr)) = Len(expr)
  <2>1. Len(expr) \in Nat
    OBVIOUS
  <2> QED BY <2>1 DEF Weights
<1>2. ASSUME NEW k \in 1..Len(expr)
      PROVE  /\ prec[expr[k].op] \in 1..10
             /\ expr[k].depth \in Nat
             /\ Weights(prec, expr)[k] = 11 * expr[k].depth + prec[expr[k].op]
  <2>1. expr[k] \in Element
    OBVIOUS
  <2>2. expr[k].op \in Operators /\ expr[k].depth \in Nat
    BY <2>1, ExpressionsAssumption DEF Element
  <2>3. prec[expr[k].op] \in 1..10
    BY <2>2 DEF Operators, GoPrec, CPrec
  <2> QED BY <2>2, <2>3 DEF Weights, Stronger
<1> QED BY <1>1, <1>2

\* The depths decide before the ranks do.
LEMMA DepthFirst ==
  ASSUME NEW d \in Nat, NEW e \in Nat, NEW p \in 1..10, NEW q \in 1..10,
         11 * d + q >= 11 * e + p, e >= d
  PROVE  e = d
<1>1. ASSUME e >= d + 1 PROVE FALSE
  <2>1. 11 * e >= 11 * d + 11
    BY <1>1
  <2> QED
    BY <2>1
<1> QED
  BY <1>1

\* The tree is decided by the order of the weights of pairs of operators alone.
LEMMA OrderDecides ==
  ASSUME NEW v, NEW w, NEW n \in Nat,
         Len(v) = n, Len(w) = n,
         \A k \in 1..n : v[k] \in Nat /\ w[k] \in Nat,
         OrderedAlike(v, w)
  PROVE  Groups(v) = Groups(w)
<1>1. ASSUME NEW k \in 1..n
      PROVE  Leftmost(v, k) = Leftmost(w, k)
  <2>1. ASSUME NEW i \in 1..k, NEW j \in i..(k - 1)
        PROVE  (v[j] >= v[k]) <=> (w[j] >= w[k])
    BY DEF OrderedAlike
  <2>2. {i \in 1..k : \A j \in i..(k - 1) : v[j] >= v[k]}
          = {i \in 1..k : \A j \in i..(k - 1) : w[j] >= w[k]}
    BY <2>1
  <2> QED BY <2>2 DEF Leftmost
<1>2. ASSUME NEW k \in 1..n
      PROVE  Rightmost(v, k) = Rightmost(w, k)
  <2>1. ASSUME NEW i \in k..n, NEW j \in (k + 1)..i
        PROVE  (v[j] > v[k]) <=> (w[j] > w[k])
    <3>1. j \in 1..n /\ k < j
      OBVIOUS
    <3>2. (v[k] >= v[j]) <=> (w[k] >= w[j])
      BY <3>1 DEF OrderedAlike
    <3> QED BY <3>1, <3>2
  <2>2. {i \in k..n : \A j \in (k + 1)..i : v[j] > v[k]}
          = {i \in k..n : \A j \in (k + 1)..i : w[j] > w[k]}
    BY <2>1
  <2> QED BY <2>2 DEF Rightmost
<1> QED BY <1>1, <1>2 DEF Groups

-----------------------------------------------------------------------------
\* What formatExpr has written and what it has still to do.

Tokens == {Operand(k) : k \in 0..MaxOps} \cup {Op(op) : op \in Operators}
          \cup {Bracket("open"), Bracket("close")}
Items == Parts \cup Tokens

\* A place in the expression: operators and operands passed, and open brackets.
Point == [ops : Nat, args : Nat, depth : Nat]
Now == [ops |-> Written("op", Len(text)), args |-> Written("operand", Len(text)),
        depth |-> Written("open", Len(text)) - Written("close", Len(text))]
End == [ops |-> Len(source), args |-> Len(source) + 1, depth |-> 0]

\* Item x leads from place a to place b; l: brackets may be missing from the text.
PartSpan(a, x, b, l) ==
  /\ x.do = "expr" /\ x.lo = a.ops + 1 /\ x.hi = b.ops /\ (l \/ x.depth = a.depth)
  /\ a.args = a.ops /\ b.args = b.ops + 1 /\ b.depth = a.depth
  /\ a.ops <= b.ops /\ b.ops <= Len(source)
  /\ \A k \in x.lo..x.hi : source[k].depth >= x.depth
OperandSpan(a, x, b) ==
  /\ x.do = "operand" /\ x.at = a.ops
  /\ a.args = a.ops /\ b.ops = a.ops /\ b.args = a.args + 1 /\ b.depth = a.depth
OpSpan(a, x, b, l) ==
  /\ x.do = "op" /\ a.ops + 1 \in 1..Len(source)
  /\ x.op = source[a.ops + 1].op /\ (l \/ a.depth = source[a.ops + 1].depth)
  /\ b.ops = a.ops + 1 /\ b.args = a.args /\ b.depth = a.depth
BracketSpan(a, x, b) ==
  /\ b.ops = a.ops /\ b.args = a.args
  /\ \/ x.do = "open" /\ b.depth = a.depth + 1
     \/ x.do = "close" /\ a.depth = b.depth + 1
Span(a, x, b, l) ==
  PartSpan(a, x, b, l) \/ OperandSpan(a, x, b) \/ OpSpan(a, x, b, l) \/ BracketSpan(a, x, b)

\* The items lead from place a to the end of the expression.
Chain(items, a, l) ==
  \E at \in [1..(Len(items) + 1) -> Point] :
    /\ at[1] = a /\ at[Len(items) + 1] = End
    /\ \A n \in 1..Len(items) : Span(at[n], items[n], at[n + 1], l)

\* Each token written is the one the source has at its place.
TextInv ==
  \A n \in 1..Len(text) :
    /\ text[n].do = "op" =>
         /\ Written("op", n) \in 1..Len(source)
         /\ text[n].op = source[Written("op", n)].op
         /\ bare \/ Written("open", n) - Written("close", n) = source[Written("op", n)].depth
    /\ text[n].do = "operand" => text[n].at = Written("operand", n) - 1

EInv ==
  /\ pc \in {"format", "done", "error"} /\ bare \in BOOLEAN
  /\ source \in Seq(Element) /\ Len(source) <= MaxOps
  /\ todo \in Seq(Items) /\ text \in Seq(Tokens)
  /\ pc = "done" => todo = <<>>
  /\ Chain(todo, Now, bare)
  /\ TextInv

\* A token is an operand, an operator or a bracket.
LEMMA TokenForms ==
  ASSUME NEW e \in Tokens
  PROVE  e.do \in {"operand", "op", "open", "close"}
  BY DEF Tokens, Operand, Op, Bracket

LEMMA LeastOf ==
  ASSUME NEW S \in SUBSET Nat, S # {}
  PROVE  \E n \in S : \A m \in S : n <= m
<1>1. PICK n \in S : \A m \in S : ~ (<<m, n>> \in OpToRel(<, Nat))
  BY NatLessThanWellFounded, WFMin
<1>2. ASSUME NEW m \in S, ~ (n <= m) PROVE FALSE
  <2>1. m \in Nat /\ n \in Nat /\ m < n
    BY <1>2
  <2>2. <<m, n>> \in Nat \X Nat /\ <<m, n>>[1] < <<m, n>>[2]
    BY <2>1
  <2>3. <<m, n>> \in OpToRel(<, Nat)
    BY <2>2, Zenon DEF OpToRel
  <2> QED
    BY <2>3, <1>1
<1> QED
  BY <1>2

-----------------------------------------------------------------------------
\* Counting tokens.

LEMMA WrittenNone == ASSUME NEW do PROVE Written(do, 0) = 0
<1>1. {n \in 1..0 : text[n].do = do} = {}
  OBVIOUS
<1> QED
  BY <1>1, FS_EmptySet DEF Written

LEMMA WrittenStep ==
  ASSUME NEW do, NEW n \in Nat
  PROVE  /\ Written(do, n) \in Nat
         /\ text[n + 1].do = do => Written(do, n + 1) = Written(do, n) + 1
         /\ text[n + 1].do # do => Written(do, n + 1) = Written(do, n)
<1>1. PICK S : S = {i \in 1..n : text[i].do = do}
  OBVIOUS
<1>2. IsFiniteSet(S)
  <2>1. 1 \in Int /\ n \in Int
    OBVIOUS
  <2>2. IsFiniteSet(1..n)
    BY <2>1, FS_Interval
  <2> QED
    BY <2>2, <1>1, FS_Subset
<1>3. Cardinality(S) \in Nat /\ Written(do, n) = Cardinality(S)
  BY <1>1, <1>2, FS_CardinalityType DEF Written
<1>4. CASE text[n + 1].do = do
  <2>1. {i \in 1..(n + 1) : text[i].do = do} = S \cup {n + 1}
    BY <1>1, <1>4
  <2>2. n + 1 \notin S
    BY <1>1
  <2>3. Cardinality(S \cup {n + 1}) = Cardinality(S) + 1
    BY <1>2, <2>2, FS_AddElement
  <2> QED
    BY <2>1, <2>3, <1>3, <1>4 DEF Written
<1>5. CASE text[n + 1].do # do
  <2>1. {i \in 1..(n + 1) : text[i].do = do} = S
    BY <1>1, <1>5
  <2> QED
    BY <2>1, <1>3, <1>5 DEF Written
<1> QED
  BY <1>3, <1>4, <1>5

\* Every place up to the count is taken.
LEMMA PlacesExist ==
  ASSUME NEW do, NEW L \in Nat, NEW k \in 1..Written(do, L)
  PROVE  \E n \in 1..L : text[n].do = do /\ Written(do, n) = k
<1>1. PICK S : S = {n \in 0..L : Written(do, n) >= k}
  OBVIOUS
<1>2. S \in SUBSET Nat /\ L \in S
  <2>1. Written(do, L) \in Nat
    BY WrittenStep
  <2> QED
    BY <2>1, <1>1
<1>3. PICK n \in S : \A m \in S : n <= m
  BY <1>2, LeastOf
<1>4. n \in 0..L /\ Written(do, n) >= k
  BY <1>1, <1>3
<1>5. n # 0
  BY <1>4, WrittenNone
<1>6. PICK i \in Nat : n = i + 1
  BY <1>4, <1>5
<1>7. i \in 0..L /\ i \notin S
  BY <1>3, <1>4, <1>6
<1>8. ~(Written(do, i) >= k) /\ Written(do, i) \in Nat
  BY <1>1, <1>7, WrittenStep
<1>9. /\ text[n].do = do => Written(do, n) = Written(do, i) + 1
      /\ text[n].do # do => Written(do, n) = Written(do, i)
  BY <1>6, WrittenStep
<1>10. text[n].do = do /\ Written(do, n) = k
  BY <1>4, <1>8, <1>9
<1> QED
  BY <1>4, <1>5, <1>10

\* One token more.
LEMMA WrittenAppend ==
  ASSUME NEW T, text \in Seq(T), NEW e \in T, text' = Append(text, e), NEW do
  PROVE  /\ \A n \in 0..Len(text) : Written(do, n)' = Written(do, n)
         /\ e.do = do => Written(do, Len(text))' = Written(do, Len(text)) + 1
         /\ e.do # do => Written(do, Len(text))' = Written(do, Len(text))
<1>1. /\ Len(text') = Len(text) + 1 /\ text'[Len(text) + 1] = e /\ Len(text) \in Nat
      /\ \A n \in 1..Len(text) : text'[n] = text[n]
  OBVIOUS
<1>2. ASSUME NEW n \in 0..Len(text) PROVE Written(do, n)' = Written(do, n)
  <2>1. \A i \in 1..n : text'[i] = text[i]
    BY <1>1
  <2>2. {i \in 1..n : text'[i].do = do} = {i \in 1..n : text[i].do = do}
    BY <2>1
  <2> QED
    BY <2>2 DEF Written
<1>3. PICK S : S = {i \in 1..Len(text) : text[i].do = do}
  OBVIOUS
<1>4. IsFiniteSet(S) /\ Written(do, Len(text)) = Cardinality(S)
  <2>1. 1 \in Int /\ Len(text) \in Int
    BY <1>1
  <2>2. IsFiniteSet(1..Len(text))
    BY <2>1, FS_Interval
  <2> QED
    BY <2>2, <1>3, FS_Subset DEF Written
<1>5. ASSUME e.do = do PROVE Written(do, Len(text))' = Written(do, Len(text)) + 1
  <2>1. {i \in 1..(Len(text) + 1) : text'[i].do = do} = S \cup {Len(text) + 1}
    BY <1>1, <1>3, <1>5
  <2>2. Len(text) + 1 \notin S
    BY <1>1, <1>3
  <2>3. Cardinality(S \cup {Len(text) + 1}) = Cardinality(S) + 1
    BY <1>4, <2>2, FS_AddElement
  <2>4. Written(do, Len(text))' = Cardinality({i \in 1..(Len(text) + 1) : text'[i].do = do})
    BY <1>1 DEF Written
  <2> QED
    BY <2>1, <2>3, <2>4, <1>4
<1>6. ASSUME e.do # do PROVE Written(do, Len(text))' = Written(do, Len(text))
  <2>1. {i \in 1..(Len(text) + 1) : text'[i].do = do} = S
    BY <1>1, <1>3, <1>6
  <2>2. Written(do, Len(text))' = Cardinality({i \in 1..(Len(text) + 1) : text'[i].do = do})
    BY <1>1 DEF Written
  <2> QED
    BY <2>1, <2>2, <1>4
<1> QED
  BY <1>2, <1>5, <1>6

-----------------------------------------------------------------------------
\* Chains.

\* The items after the first one lead on from where it ends.
LEMMA ChainHead ==
  ASSUME NEW items \in Seq(Items), items # <<>>, NEW a, NEW l, Chain(items, a, l)
  PROVE  \E b \in Point : a \in Point /\ Span(a, Head(items), b, l) /\ Chain(Tail(items), b, l)
<1>1. PICK at \in [1..(Len(items) + 1) -> Point] :
        /\ at[1] = a /\ at[Len(items) + 1] = End
        /\ \A n \in 1..Len(items) : Span(at[n], items[n], at[n + 1], l)
  BY DEF Chain
<1>2. /\ Len(items) \in Nat \ {0} /\ Head(items) = items[1] /\ Tail(items) \in Seq(Items)
      /\ Len(Tail(items)) = Len(items) - 1
      /\ \A n \in 1..Len(Tail(items)) : Tail(items)[n] = items[n + 1]
  OBVIOUS
<1>3. at[1] \in Point /\ at[2] \in Point /\ Span(at[1], items[1], at[2], l)
  BY <1>1, <1>2
<1>4. PICK t \in Seq(Items) : t = Tail(items)
  BY <1>2
<1>5. PICK on : on = [n \in 1..(Len(t) + 1) |-> at[n + 1]]
  OBVIOUS
<1>6. /\ on \in [1..(Len(t) + 1) -> Point] /\ on[1] = at[2] /\ on[Len(t) + 1] = End
  BY <1>1, <1>2, <1>4, <1>5
<1>7. ASSUME NEW n \in 1..Len(t) PROVE Span(on[n], t[n], on[n + 1], l)
  <2>1. n + 1 \in 1..Len(items) /\ t[n] = items[n + 1]
    BY <1>2, <1>4
  <2>2. Span(at[n + 1], items[n + 1], at[n + 1 + 1], l)
    BY <2>1, <1>1
  <2>3. on[n] = at[n + 1] /\ on[n + 1] = at[n + 1 + 1]
    BY <1>5, <1>2, <1>4
  <2> QED
    BY <2>1, <2>2, <2>3
<1>8. Chain(t, at[2], l)
  BY <1>6, <1>7 DEF Chain
<1> QED
  BY <1>1, <1>2, <1>3, <1>4, <1>8

\* An item put in front.
LEMMA ChainCons ==
  ASSUME NEW t \in Seq(Items), NEW x \in Items, NEW a \in Point, NEW b, NEW l, Span(a, x, b, l), Chain(t, b, l)
  PROVE  Chain(<<x>> \o t, a, l) /\ <<x>> \o t \in Seq(Items)
<1>1. PICK at \in [1..(Len(t) + 1) -> Point] :
        /\ at[1] = b /\ at[Len(t) + 1] = End
        /\ \A n \in 1..Len(t) : Span(at[n], t[n], at[n + 1], l)
  BY DEF Chain
<1>2. PICK s : s = <<x>> \o t
  OBVIOUS
<1>3. /\ s \in Seq(Items) /\ Len(s) = Len(t) + 1 /\ Len(t) \in Nat /\ s[1] = x
      /\ \A n \in 1..Len(t) : s[n + 1] = t[n]
  BY <1>2
<1>4. PICK on : on = [n \in 1..(Len(s) + 1) |-> IF n = 1 THEN a ELSE at[n - 1]]
  OBVIOUS
<1>5. /\ on \in [1..(Len(s) + 1) -> Point] /\ on[1] = a /\ on[2] = b /\ on[Len(s) + 1] = End
      /\ \A n \in 1..(Len(t) + 1) : on[n + 1] = at[n]
  BY <1>1, <1>3, <1>4
<1>6. ASSUME NEW n \in 1..Len(s) PROVE Span(on[n], s[n], on[n + 1], l)
  <2>1. CASE n = 1
    BY <2>1, <1>3, <1>5
  <2>2. CASE n # 1
    <3>1. PICK m \in 1..Len(t) : n = m + 1
      <4>1. n - 1 \in 1..Len(t) /\ n = (n - 1) + 1
        BY <2>2, <1>3
      <4> QED
        BY <4>1
    <3>2. Span(at[m], t[m], at[m + 1], l)
      BY <1>1
    <3>3. on[n] = at[m] /\ s[n] = t[m]
      BY <3>1, <1>3, <1>5
    <3>4. PICK i \in 1..(Len(t) + 1) : i = m + 1
      BY <3>1, <1>3
    <3>5. on[n + 1] = at[m + 1]
      BY <3>1, <3>4, <1>5
    <3> QED
      BY <3>2, <3>3, <3>5
  <2> QED
    BY <2>1, <2>2
<1>7. Chain(s, a, l)
  BY <1>5, <1>6 DEF Chain
<1> QED
  BY <1>2, <1>3, <1>7

\* A chain that misses no brackets is also one that may.
LEMMA ChainLoosens ==
  ASSUME NEW items, NEW a, NEW l \in BOOLEAN, NEW m \in BOOLEAN, l => m, Chain(items, a, l)
  PROVE  Chain(items, a, m)
<1>1. PICK at \in [1..(Len(items) + 1) -> Point] :
        /\ at[1] = a /\ at[Len(items) + 1] = End
        /\ \A n \in 1..Len(items) : Span(at[n], items[n], at[n + 1], l)
  BY DEF Chain
<1>2. ASSUME NEW b, NEW x, NEW c, Span(b, x, c, l) PROVE Span(b, x, c, m)
  BY <1>2 DEF Span, PartSpan, OpSpan
<1> QED
  BY <1>1, <1>2 DEF Chain

\* Chains are about the source alone.
LEMMA ChainStays ==
  ASSUME NEW items, NEW a, NEW l, Chain(items, a, l), source' = source
  PROVE  Chain(items, a, l)'
<1>1. PICK at \in [1..(Len(items) + 1) -> Point] :
        /\ at[1] = a /\ at[Len(items) + 1] = End
        /\ \A n \in 1..Len(items) : Span(at[n], items[n], at[n + 1], l)
  BY DEF Chain
<1>2. End' = End
  BY DEF End
<1>3. ASSUME NEW b, NEW x, NEW c, Span(b, x, c, l) PROVE Span(b, x, c, l)'
  BY <1>3 DEF Span, PartSpan, OperandSpan, OpSpan, BracketSpan
<1>4. \A n \in 1..Len(items) : Span(at[n], items[n], at[n + 1], l)'
  BY <1>1, <1>3
<1>5. at[Len(items) + 1] = End'
  BY <1>1, <1>2
<1> QED
  BY <1>1, <1>4, <1>5 DEF Chain

\* A step that replaces the first item and writes nothing.
LEMMA InsteadInv ==
  ASSUME EInv, pc = "format", pc' = pc, source' = source, text' = text,
         NEW m \in BOOLEAN, bare' = m, bare => m,
         NEW s \in Seq(Items), todo' = s, Chain(s, Now, m)
  PROVE  EInv'
<1>1. PICK a : a = Now
  OBVIOUS
<1>2. Now' = a
  BY <1>1 DEF Now, Written
<1>3. Chain(s, a, m)'
  BY <1>1, ChainStays
<1>4. Chain(todo, Now, bare)'
  BY <1>2, <1>3 DEF Chain
<1>5. TextInv'
  BY DEF EInv, TextInv, Written
<1>6. /\ pc' = "format" /\ source' \in Seq(Element) /\ Len(source') <= MaxOps
      /\ todo' \in Seq(Items) /\ text' \in Seq(Tokens) /\ bare' \in BOOLEAN
  BY DEF EInv
<1> QED
  BY <1>4, <1>5, <1>6 DEF EInv

-----------------------------------------------------------------------------
\* The tree.

LEMMA RootEffect ==
  ASSUME NEW lo \in Nat, NEW hi \in Nat, lo <= hi, NEW w, \A j \in lo..hi : w[j] \in Nat
  PROVE  /\ Root(w, lo, hi) \in lo..hi
         /\ \A j \in lo..hi : w[j] >= w[Root(w, lo, hi)]
<1>1. PICK V : V = {w[j] : j \in lo..hi}
  OBVIOUS
<1>2. V \in SUBSET Nat /\ V # {}
  <2>1. lo \in lo..hi
    OBVIOUS
  <2> QED
    BY <2>1, <1>1
<1>3. PICK v \in V : \A u \in V : v <= u
  BY <1>2, LeastOf
<1>4. PICK D : D = {d \in 0..hi : hi - d \in lo..hi /\ w[hi - d] = v}
  OBVIOUS
<1>5. D \in SUBSET Nat /\ D # {}
  <2>1. PICK j \in lo..hi : w[j] = v
    BY <1>1, <1>3
  <2>2. PICK d \in 0..hi : d = hi - j
    OBVIOUS
  <2>3. hi - d = j
    BY <2>2
  <2>4. d \in D
    BY <2>1, <2>3, <1>4
  <2>5. \A e \in D : e \in Nat
    BY <1>4
  <2> QED
    BY <2>4, <2>5
<1>6. PICK d \in D : \A e \in D : d <= e
  BY <1>5, LeastOf
<1>7. PICK k \in lo..hi : k = hi - d /\ w[k] = v
  BY <1>4, <1>6
<1>8. ASSUME NEW j \in lo..hi PROVE w[j] > w[k] \/ (w[j] = w[k] /\ j <= k)
  <2>1. v <= w[j] /\ v \in Nat /\ w[j] \in Nat
    BY <1>1, <1>2, <1>3
  <2>2. CASE w[j] = v
    <3>1. PICK e \in 0..hi : e = hi - j
      OBVIOUS
    <3>2. hi - e = j
      BY <3>1
    <3>3. e \in D
      BY <3>2, <2>2, <1>4
    <3>4. d <= e /\ d \in Nat
      BY <3>3, <1>5, <1>6
    <3> QED
      BY <3>1, <3>4, <2>2, <1>7
  <2> QED
    BY <2>1, <2>2, <1>7
<1>9. \E i \in lo..hi : \A j \in lo..hi : w[j] > w[i] \/ (w[j] = w[i] /\ j <= i)
  BY <1>8
<1>10. PICK r : r = Root(w, lo, hi)
  OBVIOUS
<1>11. r \in lo..hi /\ \A j \in lo..hi : w[j] > w[r] \/ (w[j] = w[r] /\ j <= r)
  BY <1>9, <1>10 DEF Root
<1>12. ASSUME NEW j \in lo..hi PROVE w[j] >= w[r]
  BY <1>11
<1> QED
  BY <1>10, <1>11, <1>12

\* A part without brackets around all of it splits at an operator that has just
\* the brackets around the part.
LEMMA RootDepth ==
  ASSUME source \in Seq(Element), NEW lo \in Nat \ {0}, NEW hi \in Nat, lo <= hi, hi <= Len(source),
         NEW d \in Nat, \A k \in lo..hi : source[k].depth >= d,
         ~\A k \in lo..hi : source[k].depth > d,
         NEW k, k = Root(Weights(GoPrec, source), lo, hi)
  PROVE  k \in lo..hi /\ k \in 1..Len(source) /\ source[k].depth = d
<1>1. PICK w : w = Weights(GoPrec, source)
  OBVIOUS
<1>2. \A i \in 1..Len(source) :
        /\ GoPrec[source[i].op] \in 1..10 /\ source[i].depth \in Nat
        /\ w[i] = 11 * source[i].depth + GoPrec[source[i].op]
  BY <1>1, WeightsType
<1>3. \A i \in lo..hi : i \in 1..Len(source)
  OBVIOUS
<1>4. \A i \in lo..hi : w[i] \in Nat
  <2> SUFFICES ASSUME NEW i \in lo..hi PROVE w[i] \in Nat
    OBVIOUS
  <2>1. PICK p \in 1..10, e \in Nat : w[i] = 11 * e + p
    BY <1>2, <1>3
  <2> QED
    BY <2>1
<1>5. k \in lo..hi /\ \A j \in lo..hi : w[j] >= w[k]
  BY <1>1, <1>4, RootEffect
<1>6. PICK j \in lo..hi : ~(source[j].depth > d)
  OBVIOUS
<1>7. PICK p \in 1..10, e \in Nat : p = GoPrec[source[k].op] /\ e = source[k].depth /\ w[k] = 11 * e + p
  <2>1. k \in 1..Len(source)
    BY <1>3, <1>5
  <2> QED
    BY <2>1, <1>2
<1>8. PICK q \in 1..10, f \in Nat : q = GoPrec[source[j].op] /\ f = source[j].depth /\ w[j] = 11 * f + q
  <2>1. j \in 1..Len(source)
    BY <1>3
  <2> QED
    BY <2>1, <1>2
<1>9. f = d
  BY <1>6, <1>8
<1>10. 11 * f + q >= 11 * e + p
  BY <1>5, <1>6, <1>7, <1>8
<1>11. e >= d
  BY <1>5, <1>7
<1>12. e = d
  BY <1>9, <1>10, <1>11, DepthFirst
<1> QED
  BY <1>3, <1>5, <1>7, <1>12

-----------------------------------------------------------------------------
\* Steps of formatExpr.

\* What is known of the part that is to be formatted.
LEMMA PartEffect ==
  ASSUME EInv, NEW x \in Parts, Formats(x)
  PROVE  \E b \in Point :
           /\ Now \in Point /\ PartSpan(Now, x, b, bare) /\ Chain(Tail(todo), b, bare) /\ Tail(todo) \in Seq(Items)
           /\ x.lo \in 1..(MaxOps + 1) /\ x.hi \in 0..MaxOps /\ x.depth \in 0..MaxDepth
           /\ x.lo = b.ops + 1 \/ x.lo <= x.hi
<1>1. todo \in Seq(Items) /\ todo # <<>> /\ Chain(todo, Now, bare) /\ Head(todo) = x /\ x.do = "expr"
  BY DEF EInv, Formats
<1>2. PICK b \in Point : Now \in Point /\ Span(Now, Head(todo), b, bare) /\ Chain(Tail(todo), b, bare)
  BY <1>1, ChainHead
<1>3. PICK a \in Point : a = Now
  BY <1>2
<1>4. PartSpan(a, x, b, bare)
  BY <1>1, <1>2, <1>3 DEF Span, OperandSpan, OpSpan, BracketSpan
<1>5. Tail(todo) \in Seq(Items)
  BY <1>1
<1>6. x.lo \in 1..(MaxOps + 1) /\ x.hi \in 0..MaxOps /\ x.depth \in 0..MaxDepth
  BY DEF Parts, Expr
<1>7. a.ops \in Nat /\ b.ops \in Nat
  BY DEF Point
<1>8. x.lo = b.ops + 1 \/ x.lo <= x.hi
  BY <1>4, <1>6, <1>7 DEF PartSpan
<1> QED
  BY <1>2, <1>3, <1>4, <1>5, <1>6, <1>8

\* One piece in place of the first item.
LEMMA FormatOperandInv ==
  ASSUME EInv, NEW x \in Parts, FormatOperand(x)
  PROVE  EInv'
<1>1. /\ Formats(x) /\ x.lo > x.hi /\ pc = "format" /\ pc' = pc /\ source' = source /\ text' = text
      /\ todo' = <<Operand(x.lo - 1)>> \o Tail(todo)
  BY DEF FormatOperand, Instead, Formats
<1>m. PICK m \in BOOLEAN : m = bare /\ m = bare'
  BY DEF FormatOperand, EInv
<1>2. PICK b \in Point :
        /\ Now \in Point /\ PartSpan(Now, x, b, bare) /\ Chain(Tail(todo), b, bare) /\ Tail(todo) \in Seq(Items)
        /\ x.lo \in 1..(MaxOps + 1) /\ x.hi \in 0..MaxOps /\ x.depth \in 0..MaxDepth
        /\ x.lo = b.ops + 1 \/ x.lo <= x.hi
  BY <1>1, PartEffect
<1>3. PICK a \in Point : a = Now
  BY <1>2
<1>4. PICK y : y = Operand(x.lo - 1)
  OBVIOUS
<1>5. y.do = "operand" /\ y.at = x.lo - 1
  BY <1>4 DEF Operand
<1>6. /\ a.ops \in Nat /\ a.args \in Nat /\ a.depth \in Nat
      /\ b.ops \in Nat /\ b.args \in Nat /\ b.depth \in Nat
  BY DEF Point
<1>7. PartSpan(a, x, b, bare)
  BY <1>2, <1>3
<1>8. OperandSpan(a, y, b)
  BY <1>1, <1>5, <1>6, <1>7 DEF PartSpan, OperandSpan
<1>9. y \in Items
  <2>1. x.lo - 1 \in 0..MaxOps
    BY <1>2, ExpressionsAssumption
  <2> QED
    BY <2>1, <1>4 DEF Items, Tokens
<1>10. PICK t \in Seq(Items) : t = Tail(todo)
  BY <1>2
<1>11. Chain(<<y>> \o t, a, bare) /\ <<y>> \o t \in Seq(Items)
  BY <1>2, <1>8, <1>9, <1>10, ChainCons DEF Span
<1>12. PICK s \in Seq(Items) : s = <<y>> \o t
  BY <1>11
<1>13. todo' = s /\ Chain(s, Now, bare)
  BY <1>1, <1>3, <1>4, <1>10, <1>11, <1>12
<1> QED
  BY <1>1, <1>m, <1>13, InsteadInv

LEMMA Three ==
  ASSUME NEW S, NEW x \in S, NEW y \in S, NEW z \in S, NEW t \in Seq(S), NEW u, u = <<x, y, z>> \o t
  PROVE  /\ u \in Seq(S) /\ Len(u) = Len(t) + 3 /\ Len(t) \in Nat
         /\ u[1] = x /\ u[2] = y /\ u[3] = z
         /\ \A n \in 1..Len(t) : u[n + 3] = t[n]
<1>1. PICK m : m = <<x, y, z>>
  OBVIOUS
<1>2. Len(m) = 3 /\ m[1] = x /\ m[2] = y /\ m[3] = z /\ m \in Seq(S)
  BY <1>1
<1> QED
  BY <1>1, <1>2

\* Three pieces in place of the first item.
LEMMA ThreePieces ==
  ASSUME NEW t \in Seq(Items), NEW x \in Items, NEW y \in Items, NEW z \in Items,
         NEW a \in Point, NEW b \in Point, NEW c \in Point, NEW d \in Point, NEW l,
         Span(a, x, b, l), Span(b, y, c, l), Span(c, z, d, l), Chain(t, d, l)
  PROVE  Chain(<<x, y, z>> \o t, a, l) /\ <<x, y, z>> \o t \in Seq(Items)
<1>1. PICK r \in Seq(Items) : r = <<z>> \o t
  BY ChainCons
<1>2. Chain(r, c, l)
  BY <1>1, ChainCons
<1>3. PICK q \in Seq(Items) : q = <<y>> \o r
  BY <1>2, ChainCons
<1>4. Chain(q, b, l)
  BY <1>2, <1>3, ChainCons
<1>5. Chain(<<x>> \o q, a, l) /\ <<x>> \o q \in Seq(Items)
  BY <1>4, ChainCons
<1>6. <<x, y, z>> \o t = <<x>> \o q
  <2>1. PICK u : u = <<x, y, z>> \o t
    OBVIOUS
  <2>2. PICK v \in Seq(Items) : v = <<x>> \o q
    BY <1>5
  <2>3. u \in Seq(Items) /\ Len(u) = Len(t) + 3 /\ Len(t) \in Nat
    BY <2>1, Three
  <2>4. u[1] = x /\ u[2] = y /\ u[3] = z /\ \A n \in 1..Len(t) : u[n + 3] = t[n]
    BY <2>1, Three
  <2>l. Len(v) = Len(t) + 3
    BY <2>2, <1>1, <1>3
  <2>5. v[1] = x /\ v[2] = y /\ v[3] = z
    BY <2>2, <1>1, <1>3
  <2>6. \A n \in 1..Len(t) : v[n + 3] = t[n]
    <3> SUFFICES ASSUME NEW n \in 1..Len(t) PROVE v[n + 3] = t[n]
      OBVIOUS
    <3>1. r[n + 1] = t[n] /\ Len(r) = Len(t) + 1
      BY <1>1
    <3>2. q[n + 2] = r[n + 1] /\ Len(q) = Len(r) + 1
      <4>1. PICK i \in 1..Len(r) : i = n + 1
        BY <3>1
      <4>2. q[i + 1] = r[i] /\ Len(q) = Len(r) + 1
        BY <1>3
      <4>3. i + 1 = n + 2
        BY <4>1
      <4> QED
        BY <4>1, <4>2, <4>3
    <3>3. v[n + 3] = q[n + 2]
      BY <3>1, <3>2, <2>2
    <3> QED
      BY <3>1, <3>2, <3>3
  <2>7. ASSUME NEW n \in 1..(Len(t) + 3) PROVE u[n] = v[n]
    <3>1. CASE n \in {1, 2, 3}
      BY <3>1, <2>4, <2>5
    <3>2. CASE n \notin {1, 2, 3}
      <4>1. PICK m \in 1..Len(t) : n = m + 3
        BY <3>2, <2>3
      <4> QED
        BY <4>1, <2>4, <2>6
    <3> QED
      BY <3>1, <3>2
  <2>8. u = v
    BY <2>3, <2>l, <2>7
  <2> QED
    BY <2>1, <2>2, <2>8
<1> QED
  BY <1>5, <1>6

\* The operators of a part in brackets.
LEMMA DeeperInside ==
  ASSUME EInv, NEW x \in Parts, InBrackets(x), NEW a \in Point, NEW d \in Point, NEW l, PartSpan(a, x, d, l),
         x.depth \in 0..MaxDepth
  PROVE  \A k \in x.lo..x.hi : source[k].depth \in 0..MaxDepth /\ source[k].depth >= x.depth + 1
<1> SUFFICES ASSUME NEW k \in x.lo..x.hi
             PROVE  source[k].depth \in 0..MaxDepth /\ source[k].depth >= x.depth + 1
  OBVIOUS
<1>0. a.ops \in Nat /\ d.ops \in Nat
  BY DEF Point
<1>1. k \in 1..Len(source) /\ source \in Seq(Element)
  BY <1>0 DEF PartSpan, EInv
<1>2. source[k] \in Element
  BY <1>1
<1>3. source[k].depth \in 0..MaxDepth
  BY <1>2 DEF Element
<1>4. source[k].depth > x.depth
  BY DEF InBrackets
<1> QED
  BY <1>3, <1>4

\* The part between brackets.
LEMMA BracketedChain ==
  ASSUME EInv, NEW x \in Parts, Formats(x), InBrackets(x),
         NEW s, s = <<Bracket("open"), Expr(x.lo, x.hi, x.depth + 1), Bracket("close")>> \o Tail(todo)
  PROVE  s \in Seq(Items) /\ Chain(s, Now, bare)
<1>2. PICK d \in Point :
        /\ Now \in Point /\ PartSpan(Now, x, d, bare) /\ Chain(Tail(todo), d, bare) /\ Tail(todo) \in Seq(Items)
        /\ x.lo \in 1..(MaxOps + 1) /\ x.hi \in 0..MaxOps /\ x.depth \in 0..MaxDepth
        /\ x.lo = d.ops + 1 \/ x.lo <= x.hi
  BY PartEffect
<1>3. PICK a \in Point : a = Now
  BY <1>2
<1>4. /\ a.ops \in Nat /\ a.args \in Nat /\ a.depth \in Nat
      /\ d.ops \in Nat /\ d.args \in Nat /\ d.depth \in Nat
  BY DEF Point
<1>5. PICK b : b = [ops |-> a.ops, args |-> a.args, depth |-> a.depth + 1]
  OBVIOUS
<1>6. PICK c : c = [ops |-> d.ops, args |-> d.args, depth |-> d.depth + 1]
  OBVIOUS
<1>7. /\ b \in Point /\ b.ops = a.ops /\ b.args = a.args /\ b.depth = a.depth + 1
      /\ c \in Point /\ c.ops = d.ops /\ c.args = d.args /\ c.depth = d.depth + 1
  BY <1>4, <1>5, <1>6 DEF Point
<1>8. PICK p, y, q : p = Bracket("open") /\ y = Expr(x.lo, x.hi, x.depth + 1) /\ q = Bracket("close")
  OBVIOUS
<1>9. /\ p.do = "open" /\ q.do = "close"
      /\ y.do = "expr" /\ y.lo = x.lo /\ y.hi = x.hi /\ y.depth = x.depth + 1
  BY <1>8 DEF Bracket, Expr
<1>10. PartSpan(a, x, d, bare)
  BY <1>2, <1>3
<1>11. \A k \in x.lo..x.hi : source[k].depth \in 0..MaxDepth /\ source[k].depth >= x.depth + 1
  BY <1>2, <1>10, DeeperInside
<1>12. Span(a, p, b, bare) /\ Span(c, q, d, bare)
  BY <1>7, <1>9 DEF Span, BracketSpan
<1>13. PartSpan(b, y, c, bare)
  BY <1>4, <1>7, <1>9, <1>10, <1>11 DEF PartSpan
<1>14. p \in Items /\ q \in Items
  BY <1>8 DEF Items, Tokens
<1>15. y \in Items
  <2>1. x.lo \in x.lo..x.hi
    BY <1>2 DEF InBrackets
  <2>d. PICK i \in 0..MaxDepth, j \in 0..MaxDepth : i = x.depth /\ j = source[x.lo].depth /\ j >= i + 1
    BY <2>1, <1>2, <1>11
  <2>2. x.depth + 1 \in 0..MaxDepth
    BY <2>d, ExpressionsAssumption
  <2> QED
    BY <2>2, <1>2, <1>8 DEF Items, Parts
<1>16. PICK t \in Seq(Items) : t = Tail(todo)
  BY <1>2
<1>17. Span(b, y, c, bare)
  BY <1>13 DEF Span
<1>18. Chain(<<p, y, q>> \o t, a, bare) /\ <<p, y, q>> \o t \in Seq(Items)
  BY <1>2, <1>7, <1>12, <1>14, <1>15, <1>16, <1>17, ThreePieces
<1> QED
  BY <1>3, <1>8, <1>16, <1>18

LEMMA FormatBracketedInv ==
  ASSUME EInv, NEW x \in Parts, FormatBracketed(x) \/ FormatCast(x)
  PROVE  EInv'
<1>1. /\ Formats(x) /\ InBrackets(x) /\ pc = "format" /\ pc' = pc /\ source' = source /\ text' = text
      /\ todo' = <<Bracket("open"), Expr(x.lo, x.hi, x.depth + 1), Bracket("close")>> \o Tail(todo)
      /\ bare' = bare \/ bare' = TRUE
  BY DEF FormatBracketed, FormatCast, Instead, Formats
<1>2. PICK s : s = <<Bracket("open"), Expr(x.lo, x.hi, x.depth + 1), Bracket("close")>> \o Tail(todo)
  OBVIOUS
<1>3. s \in Seq(Items) /\ Chain(s, Now, bare) /\ todo' = s
  BY <1>1, <1>2, BracketedChain
<1>4. PICK l \in BOOLEAN, m \in BOOLEAN : l = bare /\ m = bare' /\ (l => m)
  BY <1>1 DEF EInv
<1>5. PICK a : a = Now
  OBVIOUS
<1>6. Chain(s, a, m)
  BY <1>3, <1>4, <1>5, ChainLoosens
<1> QED
  BY <1>1, <1>3, <1>4, <1>5, <1>6, InsteadInv

\* An argument without its brackets.
LEMMA FormatPointerInv ==
  ASSUME EInv, NEW x \in Parts, FormatPointer(x)
  PROVE  EInv'
<1>1. /\ Formats(x) /\ InBrackets(x) /\ pc = "format" /\ pc' = pc /\ source' = source /\ text' = text
      /\ todo' = <<Expr(x.lo, x.hi, x.depth + 1)>> \o Tail(todo) /\ bare' = TRUE
  BY DEF FormatPointer, Instead, Formats
<1>2. PICK d \in Point :
        /\ Now \in Point /\ PartSpan(Now, x, d, bare) /\ Chain(Tail(todo), d, bare) /\ Tail(todo) \in Seq(Items)
        /\ x.lo \in 1..(MaxOps + 1) /\ x.hi \in 0..MaxOps /\ x.depth \in 0..MaxDepth
        /\ x.lo = d.ops + 1 \/ x.lo <= x.hi
  BY <1>1, PartEffect
<1>3. PICK a \in Point : a = Now
  BY <1>2
<1>4. PICK l \in BOOLEAN, m \in BOOLEAN : l = bare /\ m = TRUE
  BY DEF EInv
<1>5. PICK y : y = Expr(x.lo, x.hi, x.depth + 1)
  OBVIOUS
<1>6. y.do = "expr" /\ y.lo = x.lo /\ y.hi = x.hi /\ y.depth = x.depth + 1
  BY <1>5 DEF Expr
<1>7. PartSpan(a, x, d, l)
  BY <1>2, <1>3, <1>4
<1>8. \A k \in x.lo..x.hi : source[k].depth \in 0..MaxDepth /\ source[k].depth >= x.depth + 1
  BY <1>1, <1>2, <1>3, <1>7, DeeperInside
<1>9. PartSpan(a, y, d, m)
  BY <1>4, <1>6, <1>7, <1>8 DEF PartSpan
<1>10. y \in Items
  <2>1. x.lo \in x.lo..x.hi
    BY <1>1, <1>2 DEF InBrackets
  <2>d. PICK i \in 0..MaxDepth, j \in 0..MaxDepth : i = x.depth /\ j = source[x.lo].depth /\ j >= i + 1
    BY <2>1, <1>2, <1>8
  <2>2. x.depth + 1 \in 0..MaxDepth
    BY <2>d, ExpressionsAssumption
  <2> QED
    BY <2>2, <1>2, <1>5 DEF Items, Parts
<1>11. PICK t \in Seq(Items) : t = Tail(todo)
  BY <1>2
<1>12. Chain(t, d, m)
  BY <1>2, <1>4, <1>11, ChainLoosens
<1>13. PICK s : s = <<y>> \o t
  OBVIOUS
<1>14. s \in Seq(Items) /\ Chain(s, a, m)
  BY <1>9, <1>10, <1>12, <1>13, ChainCons DEF Span
<1>15. todo' = s
  BY <1>1, <1>5, <1>11, <1>13
<1> QED
  BY <1>1, <1>3, <1>4, <1>14, <1>15, InsteadInv

LEMMA FormatBinaryInv ==
  ASSUME EInv, NEW x \in Parts, FormatBinary(x)
  PROVE  EInv'
<1>1. PICK k : k = Root(Weights(GoPrec, source), x.lo, x.hi)
  OBVIOUS
<1>2. /\ Formats(x) /\ x.lo <= x.hi /\ ~InBrackets(x)
      /\ pc = "format" /\ pc' = pc /\ source' = source /\ text' = text
      /\ todo' = <<Expr(x.lo, k - 1, x.depth), Op(source[k].op), Expr(k + 1, x.hi, x.depth)>> \o Tail(todo)
  BY <1>1 DEF FormatBinary, Instead, Formats
<1>m. PICK m \in BOOLEAN : m = bare /\ m = bare'
  BY DEF FormatBinary, EInv
<1>3. PICK d \in Point :
        /\ Now \in Point /\ PartSpan(Now, x, d, bare) /\ Chain(Tail(todo), d, bare) /\ Tail(todo) \in Seq(Items)
        /\ x.lo \in 1..(MaxOps + 1) /\ x.hi \in 0..MaxOps /\ x.depth \in 0..MaxDepth
        /\ x.lo = d.ops + 1 \/ x.lo <= x.hi
  BY <1>2, PartEffect
<1>4. PICK a \in Point : a = Now
  BY <1>3
<1>5. /\ a.ops \in Nat /\ a.args \in Nat /\ a.depth \in Nat
      /\ d.ops \in Nat /\ d.args \in Nat /\ d.depth \in Nat
  BY DEF Point
<1>6. PartSpan(a, x, d, bare)
  BY <1>3, <1>4
<1>7. /\ source \in Seq(Element) /\ x.lo \in Nat \ {0} /\ x.hi \in Nat /\ x.hi <= Len(source)
      /\ x.depth \in Nat /\ \A i \in x.lo..x.hi : source[i].depth >= x.depth
  <2>1. x.lo \in Nat \ {0} /\ x.hi \in Nat /\ x.depth \in Nat
    BY <1>3, ExpressionsAssumption
  <2>2. x.hi <= Len(source) /\ \A i \in x.lo..x.hi : source[i].depth >= x.depth
    BY <1>6 DEF PartSpan
  <2> QED
    BY <2>1, <2>2 DEF EInv
<1>n. ~\A i \in x.lo..x.hi : source[i].depth > x.depth
  BY <1>2 DEF InBrackets
<1>8. k \in x.lo..x.hi /\ k \in 1..Len(source) /\ source[k].depth = x.depth
  <2>1. PICK lo \in Nat \ {0}, hi \in Nat, e \in Nat : lo = x.lo /\ hi = x.hi /\ e = x.depth
    BY <1>7
  <2>2. source \in Seq(Element) /\ lo <= hi /\ hi <= Len(source)
    BY <2>1, <1>2, <1>7
  <2>3. \A i \in lo..hi : source[i].depth >= e
    BY <2>1, <1>7
  <2>4. ~\A i \in lo..hi : source[i].depth > e
    BY <2>1, <1>n
  <2>5. k = Root(Weights(GoPrec, source), lo, hi)
    BY <2>1, <1>1
  <2>6. k \in lo..hi /\ k \in 1..Len(source) /\ source[k].depth = e
    BY <2>2, <2>3, <2>4, <2>5, RootDepth, SMTT(30)
  <2> QED
    BY <2>1, <2>6
<1>9. k \in Nat \ {0}
  BY <1>7, <1>8
<1>10. PICK b : b = [ops |-> k - 1, args |-> k, depth |-> a.depth]
  OBVIOUS
<1>11. PICK c : c = [ops |-> k, args |-> k, depth |-> a.depth]
  OBVIOUS
<1>12. /\ b \in Point /\ b.ops = k - 1 /\ b.args = k /\ b.depth = a.depth
       /\ c \in Point /\ c.ops = k /\ c.args = k /\ c.depth = a.depth
  BY <1>5, <1>9, <1>10, <1>11 DEF Point
<1>13. PICK l, o, r : l = Expr(x.lo, k - 1, x.depth) /\ o = Op(source[k].op) /\ r = Expr(k + 1, x.hi, x.depth)
  OBVIOUS
<1>14. /\ l.do = "expr" /\ l.lo = x.lo /\ l.hi = k - 1 /\ l.depth = x.depth
       /\ r.do = "expr" /\ r.lo = k + 1 /\ r.hi = x.hi /\ r.depth = x.depth
       /\ o.do = "op" /\ o.op = source[k].op
  BY <1>13 DEF Expr, Op
<1>15. PartSpan(a, l, b, bare)
  BY SMTT(30), <1>5, <1>6, <1>7, <1>8, <1>9, <1>12, <1>14 DEF PartSpan
<1>16. OpSpan(b, o, c, bare)
  <2>1. b.ops + 1 = k
    BY <1>9, <1>12
  <2>2. bare \/ a.depth = x.depth
    BY <1>6 DEF PartSpan
  <2> QED
    BY <2>1, <2>2, <1>8, <1>12, <1>14 DEF OpSpan
<1>17. PartSpan(c, r, d, bare)
  BY SMTT(30), <1>5, <1>6, <1>7, <1>8, <1>9, <1>12, <1>14 DEF PartSpan
<1>18. Span(a, l, b, bare) /\ Span(b, o, c, bare) /\ Span(c, r, d, bare)
  BY <1>15, <1>16, <1>17 DEF Span
<1>19. l \in Items /\ r \in Items
  <2>1. /\ x.lo \in 1..(MaxOps + 1) /\ k - 1 \in 0..MaxOps /\ x.depth \in 0..MaxDepth
        /\ k + 1 \in 1..(MaxOps + 1) /\ x.hi \in 0..MaxOps
    BY SMTT(30), <1>3, <1>8, <1>9, ExpressionsAssumption
  <2> QED
    BY <2>1, <1>13 DEF Items, Parts
<1>20. o \in Items
  <2>1. source[k] \in Element
    BY <1>7, <1>8
  <2>2. source[k].op \in Operators
    BY <2>1 DEF Element
  <2> QED
    BY <2>2, <1>13 DEF Items, Tokens
<1>21. PICK t \in Seq(Items) : t = Tail(todo)
  BY <1>3
<1>22. Chain(<<l, o, r>> \o t, a, bare) /\ <<l, o, r>> \o t \in Seq(Items)
  BY <1>3, <1>12, <1>18, <1>19, <1>20, <1>21, ThreePieces
<1>23. PICK s \in Seq(Items) : s = <<l, o, r>> \o t
  BY <1>22
<1>24. todo' = s /\ Chain(s, Now, bare)
  BY <1>2, <1>4, <1>13, <1>21, <1>22, <1>23
<1> QED
  BY <1>2, <1>m, <1>24, InsteadInv

\* A token is the one that the place it is written at asks for.
LEMMA WriteTokenInv ==
  ASSUME EInv, WriteToken
  PROVE  EInv'
<1>1. PICK e : e = Head(todo)
  OBVIOUS
<1>2. /\ pc = "format" /\ pc' = pc /\ source' = source /\ todo # <<>> /\ e.do # "expr"
      /\ text' = Append(text, e) /\ todo' = Tail(todo) /\ bare' = bare
  BY <1>1 DEF WriteToken
<1>3. todo \in Seq(Items) /\ text \in Seq(Tokens) /\ source \in Seq(Element) /\ TextInv /\ Chain(todo, Now, bare)
  BY DEF EInv
<1>4. PICK b \in Point : Now \in Point /\ Span(Now, Head(todo), b, bare) /\ Chain(Tail(todo), b, bare)
  BY <1>2, <1>3, ChainHead
<1>5. e \in Tokens
  <2>1. e \in Items
    BY <1>1, <1>2, <1>3
  <2>2. \A x \in Parts : x.do = "expr"
    BY DEF Parts, Expr
  <2> QED
    BY <2>1, <2>2, <1>2 DEF Items
<1>6. e.do \in {"operand", "op", "open", "close"}
  BY <1>5, TokenForms
<1>7. PICK a \in Point : a = Now
  BY <1>4
<1>8. /\ a.ops = Written("op", Len(text)) /\ a.args = Written("operand", Len(text))
      /\ a.depth = Written("open", Len(text)) - Written("close", Len(text))
      /\ a.ops \in Nat /\ a.args \in Nat /\ a.depth \in Nat
      /\ b.ops \in Nat /\ b.args \in Nat /\ b.depth \in Nat
  BY <1>7 DEF Now, Point
<1>9. OperandSpan(a, e, b) \/ OpSpan(a, e, b, bare) \/ BracketSpan(a, e, b)
  BY <1>1, <1>2, <1>4, <1>7 DEF Span, PartSpan
<1>10. /\ Len(text') = Len(text) + 1 /\ text'[Len(text) + 1] = e /\ Len(text) \in Nat
       /\ text' \in Seq(Tokens)
       /\ \A n \in 1..Len(text) : text'[n] = text[n]
  BY <1>2, <1>3, <1>5
<1>11. \A do : \A n \in 0..Len(text) : Written(do, n)' = Written(do, n)
  BY <1>2, <1>3, <1>5, WrittenAppend
<1>12. \A do : /\ e.do = do => Written(do, Len(text))' = Written(do, Len(text)) + 1
               /\ e.do # do => Written(do, Len(text))' = Written(do, Len(text))
  BY <1>2, <1>3, <1>5, WrittenAppend
<1>13. /\ Written("open", Len(text)) \in Nat /\ Written("close", Len(text)) \in Nat
  BY <1>10, WrittenStep
<1>14. /\ Written("op", Len(text))' = b.ops /\ Written("operand", Len(text))' = b.args
       /\ Written("open", Len(text))' - Written("close", Len(text))' = b.depth
  <2>1. CASE e.do = "operand"
    <3>1. b.ops = a.ops /\ b.args = a.args + 1 /\ b.depth = a.depth
      BY <2>1, <1>9 DEF OperandSpan, OpSpan, BracketSpan
    <3> QED
      BY <3>1, <2>1, <1>8, <1>12
  <2>2. CASE e.do = "op"
    <3>1. b.ops = a.ops + 1 /\ b.args = a.args /\ b.depth = a.depth
      BY <2>2, <1>9 DEF OperandSpan, OpSpan, BracketSpan
    <3> QED
      BY <3>1, <2>2, <1>8, <1>12
  <2>3. CASE e.do = "open"
    <3>1. b.ops = a.ops /\ b.args = a.args /\ b.depth = a.depth + 1
      BY <2>3, <1>9 DEF OperandSpan, OpSpan, BracketSpan
    <3>2. /\ Written("op", Len(text))' = Written("op", Len(text))
          /\ Written("operand", Len(text))' = Written("operand", Len(text))
          /\ Written("open", Len(text))' = Written("open", Len(text)) + 1
          /\ Written("close", Len(text))' = Written("close", Len(text))
      BY <2>3, <1>12
    <3> QED
      BY <3>1, <3>2, <1>8, <1>13
  <2>4. CASE e.do = "close"
    <3>1. b.ops = a.ops /\ b.args = a.args /\ a.depth = b.depth + 1
      BY <2>4, <1>9 DEF OperandSpan, OpSpan, BracketSpan
    <3>2. /\ Written("op", Len(text))' = Written("op", Len(text))
          /\ Written("operand", Len(text))' = Written("operand", Len(text))
          /\ Written("open", Len(text))' = Written("open", Len(text))
          /\ Written("close", Len(text))' = Written("close", Len(text)) + 1
      BY <2>4, <1>12
    <3> QED
      BY <3>1, <3>2, <1>8, <1>13
  <2> QED
    BY <2>1, <2>2, <2>3, <2>4, <1>6
<1>15. Now' = b
  <2>1. Now' = [ops |-> b.ops, args |-> b.args, depth |-> b.depth]
    BY <1>14 DEF Now
  <2>2. b = [ops |-> b.ops, args |-> b.args, depth |-> b.depth]
    BY DEF Point
  <2> QED
    BY <2>1, <2>2
<1>16. PICK t \in Seq(Items) : t = Tail(todo)
  <2>1. todo \in Seq(Items) /\ todo # <<>>
    BY <1>2, <1>3
  <2>2. Tail(todo) \in Seq(Items)
    BY <2>1
  <2> QED
    BY <2>2
<1>17. Chain(todo, Now, bare)'
  <2>0. PICK l : l = bare /\ l = bare'
    BY <1>2
  <2>1. Chain(t, b, l)'
    BY <1>2, <1>4, <1>16, <2>0, ChainStays
  <2>2. todo' = t
    BY <1>2, <1>16
  <2> QED
    BY <2>0, <2>1, <2>2, <1>15 DEF Chain
<1>18. TextInv'
  <2>1. ASSUME NEW n \in 1..Len(text)
        PROVE  /\ text'[n].do = "op" =>
                    /\ Written("op", n)' \in 1..Len(source)
                    /\ text'[n].op = source[Written("op", n)'].op
                    /\ bare \/ Written("open", n)' - Written("close", n)' = source[Written("op", n)'].depth
               /\ text'[n].do = "operand" => text'[n].at = Written("operand", n)' - 1
    <3>1. n \in 0..Len(text)
      BY <1>10
    <3>2. /\ Written("op", n)' = Written("op", n) /\ Written("open", n)' = Written("open", n)
          /\ Written("close", n)' = Written("close", n) /\ Written("operand", n)' = Written("operand", n)
      BY <3>1, <1>11
    <3>3. text'[n] = text[n]
      BY <1>10
    <3> QED
      BY <3>2, <3>3, <1>3 DEF TextInv
  <2>2. ASSUME NEW n, n = Len(text)'
        PROVE  /\ text'[n].do = "op" =>
                    /\ Written("op", n)' \in 1..Len(source)
                    /\ text'[n].op = source[Written("op", n)'].op
                    /\ bare \/ Written("open", n)' - Written("close", n)' = source[Written("op", n)'].depth
               /\ text'[n].do = "operand" => text'[n].at = Written("operand", n)' - 1
    <3>1. text'[n] = e
      BY <2>2, <1>10
    <3>2. /\ Written("op", n)' = b.ops /\ Written("operand", n)' = b.args
          /\ Written("open", n)' - Written("close", n)' = b.depth
      BY <2>2, <1>14 DEF Written
    <3>3. CASE e.do = "op"
      <4>1. OpSpan(a, e, b, bare)
        BY <3>3, <1>9 DEF OperandSpan, BracketSpan
      <4> QED
        BY <4>1, <3>1, <3>2, <3>3, <1>8 DEF OpSpan
    <3>4. CASE e.do = "operand"
      <4>1. OperandSpan(a, e, b)
        BY <3>4, <1>9 DEF OpSpan, BracketSpan
      <4> QED
        BY <4>1, <3>1, <3>2, <3>4, <1>8 DEF OperandSpan
    <3> QED
      BY <3>1, <3>3, <3>4
  <2>3. \A n \in 1..Len(text)' : n \in 1..Len(text) \/ n = Len(text)'
    BY <1>10
  <2> QED
    BY <2>1, <2>2, <2>3, <1>2 DEF TextInv
<1> QED
  BY <1>2, <1>3, <1>10, <1>16, <1>17, <1>18 DEF EInv

\* A step that leaves the items and the text alone.
LEMMA EInvStays ==
  ASSUME EInv, source' = source, todo' = todo, text' = text, bare' = bare,
         pc' \in {"format", "done", "error"}, pc' = "done" => todo = <<>>
  PROVE  EInv'
<1>1. PICK s, a, l : s = todo /\ a = Now /\ l = bare /\ l = bare'
  OBVIOUS
<1>2. Now' = a
  BY <1>1 DEF Now, Written
<1>3. Chain(s, a, l)'
  BY <1>1, ChainStays DEF EInv
<1>4. Chain(todo, Now, bare)'
  BY <1>1, <1>2, <1>3 DEF Chain
<1>5. TextInv'
  BY DEF EInv, TextInv, Written
<1> QED
  BY <1>4, <1>5 DEF EInv

LEMMA EInvNext == EInv /\ [Next]_vars => EInv'
<1> SUFFICES ASSUME EInv, [Next]_vars PROVE EInv'
  OBVIOUS
<1>1. ASSUME NEW x \in Parts, Unsupported(x) PROVE EInv'
  BY <1>1, EInvStays DEF Unsupported
<1>2. CASE Return
  BY <1>2, EInvStays DEF Return
<1>3. CASE UNCHANGED vars
  BY <1>3, EInvStays DEF vars, EInv
<1> QED
  BY <1>1, <1>2, <1>3, FormatOperandInv, FormatBracketedInv, FormatPointerInv, FormatBinaryInv,
     WriteTokenInv DEF Next

LEMMA EInvInit == Init => EInv
<1> SUFFICES ASSUME Init PROVE EInv
  OBVIOUS
<1>1. source \in Seq(Element) /\ Len(source) \in Nat /\ Len(source) <= MaxOps
  <2>1. source \in UNION {[1..m -> Element] : m \in 0..MaxOps}
    BY DEF Init, BoundedSeq, SeqOf
  <2>2. PICK m \in 0..MaxOps : source \in [1..m -> Element]
    BY <2>1
  <2>3. m \in Nat
    BY ExpressionsAssumption
  <2> QED
    BY <2>2, <2>3, ExpressionsAssumption
<1>2. PICK x : x = Expr(1, Len(source), 0)
  OBVIOUS
<1>3. x.do = "expr" /\ x.lo = 1 /\ x.hi = Len(source) /\ x.depth = 0
  BY <1>2 DEF Expr
<1>4. x \in Items
  <2>1. 1 \in 1..(MaxOps + 1) /\ Len(source) \in 0..MaxOps /\ 0 \in 0..MaxDepth
    BY <1>1, ExpressionsAssumption
  <2> QED
    BY <2>1, <1>2 DEF Items, Parts
<1>5. todo = <<x>> /\ text = <<>> /\ pc = "format" /\ bare = FALSE
  BY <1>2 DEF Init
<1>6. Now = [ops |-> 0, args |-> 0, depth |-> 0]
  <2>1. Len(text) = 0
    BY <1>5
  <2>2. /\ Written("op", Len(text)) = 0 /\ Written("operand", Len(text)) = 0
        /\ Written("open", Len(text)) = 0 /\ Written("close", Len(text)) = 0
    BY <2>1, WrittenNone
  <2> QED
    BY <2>2 DEF Now
<1>7. PICK a, b : a = Now /\ b = End
  OBVIOUS
<1>8. /\ a \in Point /\ a.ops = 0 /\ a.args = 0 /\ a.depth = 0
      /\ b \in Point /\ b.ops = Len(source) /\ b.args = Len(source) + 1 /\ b.depth = 0
  BY <1>1, <1>6, <1>7 DEF End, Point
<1>9. Span(a, x, b, bare)
  <2>1. \A k \in 1..Len(source) : source[k].depth >= 0
    <3> SUFFICES ASSUME NEW k \in 1..Len(source) PROVE source[k].depth >= 0
      OBVIOUS
    <3>1. source[k] \in Element
      BY <1>1
    <3>2. source[k].depth \in 0..MaxDepth
      BY <3>1 DEF Element
    <3> QED
      BY <3>2
  <2>2. PartSpan(a, x, b, bare)
    BY <2>1, <1>1, <1>3, <1>8 DEF PartSpan
  <2> QED
    BY <2>2 DEF Span
<1>10. Chain(<<>>, b, bare)
  <2>1. PICK at : at = [n \in 1..1 |-> b]
    OBVIOUS
  <2>2. at \in [1..(Len(<<>>) + 1) -> Point] /\ at[1] = b /\ at[Len(<<>>) + 1] = End
    BY <2>1, <1>7, <1>8
  <2> QED
    BY <2>2 DEF Chain
<1>11. Chain(<<x>> \o <<>>, a, bare)
  <2>1. <<>> \in Seq(Items)
    OBVIOUS
  <2> QED
    BY <2>1, <1>4, <1>8, <1>9, <1>10, ChainCons
<1>12. todo \in Seq(Items) /\ <<x>> \o <<>> = todo
  BY <1>4, <1>5
<1>13. Chain(todo, Now, bare)
  BY <1>7, <1>11, <1>12
<1>14. TextInv /\ text \in Seq(Tokens)
  BY <1>5 DEF TextInv
<1> QED
  BY <1>1, <1>5, <1>12, <1>13, <1>14 DEF EInv

-----------------------------------------------------------------------------
\* The inductive invariant of formatExpr.
THEOREM ExpressionsInvariant == Spec => []EInv
  BY EInvInit, EInvNext, PTL DEF Spec

\* The calls of formatExpr stay within the expression and its brackets.
THEOREM ExpressionsTyped == Spec => []TypeOK
<1>1. ASSUME EInv PROVE TypeOK
  <2>1. todo \in Seq(Items) /\ text \in Seq(Tokens) /\ source \in Seq(Element) /\ bare \in BOOLEAN
        /\ pc \in {"format", "done", "error"}
    BY <1>1 DEF EInv
  <2>2. Range(todo) \subseteq Items
    BY <2>1 DEF Range
  <2>3. ASSUME NEW n \in 1..Len(text) PROVE text[n].do \in {"operand", "op", "open", "close"}
    <3>1. text[n] \in Tokens
      BY <2>1
    <3> QED
      BY <3>1, TokenForms
  <2> QED
    BY <2>1, <2>2, <2>3 DEF TypeOK, Items, Tokens
<1> QED
  BY ExpressionsInvariant, <1>1, PTL

\* The places of the tokens of one form.
LEMMA PlacesEffect ==
  ASSUME NEW do, text \in Seq(Tokens)
  PROVE  /\ Written(do, Len(text)) \in Nat
         /\ Len(Places(do)) = Written(do, Len(text))
         /\ \A k \in 1..Written(do, Len(text)) :
              /\ Places(do)[k] \in 1..Len(text)
              /\ text[Places(do)[k]].do = do /\ Written(do, Places(do)[k]) = k
<1>1. Len(text) \in Nat
  OBVIOUS
<1>2. Written(do, Len(text)) \in Nat
  BY <1>1, WrittenStep
<1>3. Len(Places(do)) = Written(do, Len(text))
  BY <1>2 DEF Places
<1>4. ASSUME NEW k \in 1..Written(do, Len(text))
      PROVE  /\ Places(do)[k] \in 1..Len(text)
             /\ text[Places(do)[k]].do = do /\ Written(do, Places(do)[k]) = k
  <2>1. \E n \in 1..Len(text) : text[n].do = do /\ Written(do, n) = k
    BY <1>1, PlacesExist
  <2>2. PICK p : p = CHOOSE n \in 1..Len(text) : text[n].do = do /\ Written(do, n) = k
    OBVIOUS
  <2>3. p \in 1..Len(text) /\ text[p].do = do /\ Written(do, p) = k
    BY <2>1, <2>2
  <2>4. Places(do)[k] = p
    BY <2>2 DEF Places
  <2> QED
    BY <2>3, <2>4
<1> QED
  BY <1>2, <1>3, <1>4

\* What the reader has found when formatExpr has returned.
LEMMA ReadIsSource ==
  ASSUME EInv, pc = "done"
  PROVE  /\ Len(Read) = Len(source) /\ \A k \in 1..Len(source) : Read[k].op = source[k].op
         /\ bare \/ Read = source
         /\ Len(OperandsRead) = Len(source) + 1
<1>1. /\ source \in Seq(Element) /\ text \in Seq(Tokens) /\ todo = <<>> /\ Chain(todo, Now, bare) /\ TextInv
  BY DEF EInv
<1>2. Now = End
  <2>1. PICK at : at[1] = Now /\ at[Len(todo) + 1] = End
    BY <1>1 DEF Chain
  <2>2. Len(todo) + 1 = 1
    BY <1>1
  <2> QED
    BY <2>1, <2>2
<1>3. Written("op", Len(text)) = Len(source) /\ Written("operand", Len(text)) = Len(source) + 1
  <2>1. Now.ops = End.ops /\ Now.args = End.args
    BY <1>2
  <2> QED
    BY <2>1 DEF Now, End
<1>4. PICK P : P = Places("op")
  OBVIOUS
<1>5. /\ Len(P) = Len(source) /\ Len(source) \in Nat
      /\ \A k \in 1..Len(source) :
           P[k] \in 1..Len(text) /\ text[P[k]].do = "op" /\ Written("op", P[k]) = k
  BY <1>1, <1>3, <1>4, PlacesEffect
<1>6. Read = [k \in 1..Len(P) |->
                [op |-> text[P[k]].op, depth |-> Written("open", P[k]) - Written("close", P[k])]]
  BY <1>4 DEF Read
<1>o. ASSUME NEW k \in 1..Len(source) PROVE text[P[k]].op = source[k].op
  <2>1. PICK n \in 1..Len(text) : n = P[k]
    BY <1>5
  <2>2. text[n].do = "op" /\ Written("op", n) = k
    BY <2>1, <1>5
  <2> QED
    BY <2>1, <2>2, <1>1 DEF TextInv
<1>p. Len(Read) = Len(source) /\ \A k \in 1..Len(source) : Read[k].op = source[k].op
  BY <1>5, <1>6, <1>o
<1>7. ASSUME ~bare, NEW k \in 1..Len(source)
      PROVE  [op |-> text[P[k]].op, depth |-> Written("open", P[k]) - Written("close", P[k])] = source[k]
  <2>1. PICK n \in 1..Len(text) : n = P[k]
    BY <1>5
  <2>2. text[n].do = "op" /\ Written("op", n) = k
    BY <2>1, <1>5
  <2>3. text[n].op = source[k].op /\ Written("open", n) - Written("close", n) = source[k].depth
    BY <2>2, <1>1, <1>7 DEF TextInv
  <2>4. source[k] \in Element
    BY <1>1
  <2>5. source[k] = [op |-> source[k].op, depth |-> source[k].depth]
    BY <2>4 DEF Element
  <2> QED
    BY <2>1, <2>3, <2>5
<1>8. ASSUME ~bare PROVE Read = [k \in 1..Len(source) |-> source[k]]
  BY <1>5, <1>6, <1>7, <1>8
<1>9. Len(OperandsRead) = Len(source) + 1
  <2>1. Len(Places("operand")) = Len(source) + 1 /\ Len(source) + 1 \in Nat
    BY <1>1, <1>3, <1>5, PlacesEffect
  <2> QED
    BY <2>1 DEF OperandsRead
<1>10. ASSUME ~bare PROVE Read = source
  BY <1>1, <1>8, <1>10
<1> QED
  BY <1>p, <1>9, <1>10

\* The operands read so far, at any time.
LEMMA OperandsInOrder ==
  ASSUME EInv
  PROVE  OperandsRead = [k \in 1..Len(OperandsRead) |-> k - 1]
<1>1. text \in Seq(Tokens) /\ TextInv
  BY DEF EInv
<1>2. PICK P : P = Places("operand")
  OBVIOUS
<1>3. /\ Len(P) = Written("operand", Len(text)) /\ Len(P) \in Nat
      /\ \A k \in 1..Len(P) :
           P[k] \in 1..Len(text) /\ text[P[k]].do = "operand" /\ Written("operand", P[k]) = k
  BY <1>1, <1>2, PlacesEffect
<1>4. OperandsRead = [k \in 1..Len(P) |-> text[P[k]].at]
  BY <1>2 DEF OperandsRead
<1>5. ASSUME NEW k \in 1..Len(P) PROVE text[P[k]].at = k - 1
  <2>1. PICK n \in 1..Len(text) : n = P[k]
    BY <1>3
  <2>2. text[n].do = "operand" /\ Written("operand", n) = k
    BY <2>1, <1>3
  <2> QED
    BY <2>1, <2>2, <1>1 DEF TextInv
<1>6. OperandsRead = [k \in 1..Len(P) |-> k - 1]
  BY <1>4, <1>5
<1>7. Len(OperandsRead) = Len(P)
  BY <1>3, <1>6
<1> QED
  BY <1>6, <1>7

\* The text formatExpr returns has the operators and the operands of the Go
\* expression, in order, and all its brackets unless an argument was written bare,
\* for expressions of any length and depth.
THEOREM TextReadsBack == Spec => []ReadsBack
<1>1. ASSUME EInv PROVE ReadsBack
  BY <1>1, ReadIsSource, OperandsInOrder DEF ReadsBack
<1> QED
  BY ExpressionsInvariant, <1>1, PTL

\* A C compiler that reads what formatExpr returned builds the tree of the Go
\* expression wherever the two languages rank its operators alike and no argument
\* was written bare.
THEOREM GroupsKept == Spec => []GroupsWhereRanksAgree
<1>1. ASSUME EInv PROVE GroupsWhereRanksAgree
  <2> SUFFICES ASSUME pc = "done", ~bare, OrderedAlike(Weights(GoPrec, source), Weights(CPrec, source))
               PROVE  Groups(Weights(CPrec, Read)) = Groups(Weights(GoPrec, source))
    BY DEF GroupsWhereRanksAgree
  <2>1. Read = source /\ source \in Seq(Element) /\ Len(source) \in Nat
    BY <1>1, ReadIsSource DEF EInv
  <2>2. PICK v, w : v = Weights(GoPrec, source) /\ w = Weights(CPrec, source)
    OBVIOUS
  <2>3. Len(v) = Len(source) /\ Len(w) = Len(source)
    BY <2>1, <2>2, WeightsType
  <2>4. ASSUME NEW k \in 1..Len(source) PROVE v[k] \in Nat /\ w[k] \in Nat
    <3>1. PICK d \in Nat, p \in 1..10, q \in 1..10 : v[k] = 11 * d + p /\ w[k] = 11 * d + q
      BY <2>1, <2>2, WeightsType
    <3> QED
      BY <3>1
  <2>5. Groups(v) = Groups(w)
    BY <2>1, <2>2, <2>3, <2>4, OrderDecides
  <2> QED
    BY <2>1, <2>2, <2>5
<1> QED
  BY ExpressionsInvariant, <1>1, PTL

=============================================================================
