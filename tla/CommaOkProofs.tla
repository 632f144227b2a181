---------------------------- MODULE CommaOkProofs ----------------------------
(***************************************************************************)
(* Theorems about module CommaOk, for programs of any size, with any names *)
(* and any nesting of branches: the type invariant; no C block declares a  *)
(* name twice as long as no comma-ok reuses a variable; and the C text of  *)
(* every variable means what the Go variable holds as long as, besides, no *)
(* declaration hides another, until the other half of its pair is assigned.*)
(***************************************************************************)
EXTENDS CommaOk, SequenceTheorems, WellFoundedInduction, TLAPS

\* The C names a file can contain.
CNames == Names \cup (Prefixes \X (Nat \ {0}))

GoVarSet == [decl : Nat, type : {"ptr", "bool"}, val : Nat, over : BOOLEAN]
GoScopes == UNION {[D -> GoVarSet] : D \in SUBSET Names}
CScopes == UNION {[D -> Nat] : D \in SUBSET CNames}
ScopeSet == [go : GoScopes, c : CScopes]

Objects == Nat \X (Names \cup {Blank})
AliasSet == UNION {[D -> CNames] : D \in SUBSET Objects}

\* The C text of a Go variable of block s, with aliases A.
CText(s, A, x) ==
  LET obj == <<s.go[x].decl, x>> IN IF obj \in DOMAIN A THEN A[obj] ELSE x

\* What every block keeps, whatever the program's forms, with aliases A, the
\* counter at t and n nodes visited: a C variable is a Go variable of the block
\* or synthetic; the C text of a Go variable is a C variable of the same block.
Fits(s, A, t, n) ==
  /\ \A c \in DOMAIN s.c : c \in DOMAIN s.go \/ c \in Prefixes \X (1..t)
  /\ \A x \in DOMAIN s.go : s.go[x].decl \in 1..n /\ CText(s, A, x) \in DOMAIN s.c

\* Later aliases name variables of later nodes.
Grows(A, B, n) ==
  /\ DOMAIN A \subseteq DOMAIN B
  /\ \A o \in DOMAIN A : B[o] = A[o]
  /\ \A o \in DOMAIN B : o \in DOMAIN A \/ o[1] = n + 1

\* The blocks of one path.
Stack(S, A, t, n) ==
  /\ S \in Seq(ScopeSet)
  /\ \A d \in 1..Len(S) : Fits(S[d], A, t, n)

\* Without a hidden or a reused variable that C variable holds what the Go variable
\* holds, until the other half of its pair is assigned.
Shown(v) == IF v = Zero THEN Junk ELSE v

Agrees(s, A) ==
  \A x \in DOMAIN s.go :
    /\ CText(s, A, x) \in DOMAIN s.c
    /\ ~s.go[x].over => s.c[CText(s, A, x)] = Shown(s.go[x].val)

Apart(S) ==
  \A d, e \in 1..Len(S) : d # e =>
    /\ DOMAIN S[d].go \cap DOMAIN S[e].go = {}
    /\ DOMAIN S[d].c \cap DOMAIN S[e].c = {}

Meant(S, A) == Apart(S) /\ \A d \in 1..Len(S) : Agrees(S[d], A)

\* The stack the walk is in, and the ones its open statements can lead to.
Known ==
  {scopes} \cup {paths[k].pre : k \in 1..Len(paths)}
           \cup UNION {paths[k].alts : k \in 1..Len(paths)}

PathSet == [pre : Seq(ScopeSet), alts : SUBSET Seq(ScopeSet)]

\* The inductive invariant has two layers.
TextInv ==
  /\ nodes \in Nat
  /\ blocks \in Seq(Block)
  /\ tmpSeq \in 0..nodes
  /\ clash \in BOOLEAN

NameInv ==
  /\ aliases \in AliasSet
  /\ \A o \in DOMAIN aliases :
       o[1] \in 1..nodes /\ aliases[o] \in Names \cup (Prefixes \X (1..tmpSeq))

PathInv ==
  /\ Len(scopes) = Len(blocks)
  /\ paths \in Seq(PathSet) /\ Len(paths) = Len(blocks)
  /\ \A k \in 1..Len(paths) :
       /\ Len(paths[k].pre) = k - 1
       /\ \A S \in paths[k].alts : Len(S) = k - 1

StackInv == \A S \in Known : Stack(S, aliases, tmpSeq, nodes)

CInv == TextInv /\ NameInv /\ PathInv /\ StackInv

MeantInv == \A S \in Known : Meant(S, aliases)

-----------------------------------------------------------------------------
\* Put adds one value to a function.
LEMMA PutTyped ==
  ASSUME NEW T, NEW R, NEW f \in UNION {[D -> R] : D \in SUBSET T},
         NEW x \in T, NEW v \in R
  PROVE  Put(f, x, v) \in UNION {[D -> R] : D \in SUBSET T}
<1>1. PICK D \in SUBSET T : f \in [D -> R]
  OBVIOUS
<1>2. Put(f, x, v) \in [D \cup {x} -> R]
  BY <1>1 DEF Put
<1>3. D \cup {x} \in SUBSET T
  BY <1>1
<1> QED
  BY <1>2, <1>3

\* The same for the three kinds of functions here.
LEMMA PutGo ==
  ASSUME NEW g \in GoScopes, NEW x \in Names, NEW v \in GoVarSet
  PROVE  Put(g, x, v) \in GoScopes
  BY PutTyped, Zenon DEF GoScopes

LEMMA PutC ==
  ASSUME NEW g \in CScopes, NEW x \in CNames, NEW v \in Nat
  PROVE  Put(g, x, v) \in CScopes
  BY PutTyped, Zenon DEF CScopes

LEMMA PutAlias ==
  ASSUME NEW g \in AliasSet, NEW x \in Objects, NEW v \in CNames
  PROVE  Put(g, x, v) \in AliasSet
  BY PutTyped, Zenon DEF AliasSet

\* What membership in the three sets gives.
LEMMA GoScopeType ==
  ASSUME NEW g \in GoScopes
  PROVE  /\ DOMAIN g \subseteq Names
         /\ \A x \in DOMAIN g : g[x] \in GoVarSet
<1>1. PICK D \in SUBSET Names : g \in [D -> GoVarSet]
  BY DEF GoScopes
<1> QED
  BY <1>1

LEMMA CScopeType ==
  ASSUME NEW g \in CScopes
  PROVE  /\ DOMAIN g \subseteq CNames
         /\ \A x \in DOMAIN g : g[x] \in Nat
<1>1. PICK D \in SUBSET CNames : g \in [D -> Nat]
  BY DEF CScopes
<1> QED
  BY <1>1

LEMMA AliasType ==
  ASSUME NEW g \in AliasSet
  PROVE  /\ DOMAIN g \subseteq Objects
         /\ \A x \in DOMAIN g : g[x] \in CNames
<1>1. PICK D \in SUBSET Objects : g \in [D -> CNames]
  BY DEF AliasSet
<1> QED
  BY <1>1

\* An assignment to an entry that is there keeps the type.
SetVal(g, x, v) == [g EXCEPT ![x].val = v, ![x].over = FALSE]

LEMMA SetGo ==
  ASSUME NEW g \in GoScopes, NEW x \in DOMAIN g, NEW v \in Nat
  PROVE  /\ SetVal(g, x, v) \in GoScopes
         /\ DOMAIN SetVal(g, x, v) = DOMAIN g
         /\ SetVal(g, x, v)[x].val = v
         /\ \A y \in DOMAIN g : /\ SetVal(g, x, v)[y].decl = g[y].decl
                                /\ SetVal(g, x, v)[y].type = g[y].type
         /\ \A y \in DOMAIN g : y # x => SetVal(g, x, v)[y] = g[y]
<1> PICK h : h = SetVal(g, x, v)
  OBVIOUS
<1>1. PICK D \in SUBSET Names : g \in [D -> GoVarSet]
  BY DEF GoScopes
<1>2. g[x] \in GoVarSet
  BY <1>1
<1> DEFINE r == [g[x] EXCEPT !.val = v, !.over = FALSE]
<1>3. r \in GoVarSet /\ r.val = v /\ r.decl = g[x].decl /\ r.type = g[x].type
  BY <1>2 DEF GoVarSet
<1>4. h = [g EXCEPT ![x] = r]
  BY <1>1 DEF SetVal
<1> HIDE DEF r
<1>5. h \in [D -> GoVarSet]
  BY <1>1, <1>3, <1>4
<1>6. h \in GoScopes
  BY <1>5 DEF GoScopes
<1> QED
  BY <1>1, <1>3, <1>4, <1>6

LEMMA SetC ==
  ASSUME NEW g \in CScopes, NEW x \in DOMAIN g, NEW v \in Nat
  PROVE  /\ [g EXCEPT ![x] = v] \in CScopes
         /\ DOMAIN [g EXCEPT ![x] = v] = DOMAIN g
<1>1. PICK D \in SUBSET CNames : g \in [D -> Nat]
  BY DEF CScopes
<1>2. [g EXCEPT ![x] = v] \in [D -> Nat]
  BY <1>1
<1> QED
  BY <1>1, <1>2 DEF CScopes

\* A fresh block.
LEMMA EmptyTyped == EmptyScope \in ScopeSet /\ DOMAIN EmptyScope.go = {} /\ DOMAIN EmptyScope.c = {}
<1>1. <<>> \in [{} -> GoVarSet] /\ <<>> \in [{} -> Nat] /\ DOMAIN <<>> = {}
  OBVIOUS
<1>2. <<>> \in GoScopes /\ <<>> \in CScopes
  BY <1>1 DEF GoScopes, CScopes
<1> QED
  BY <1>1, <1>2 DEF EmptyScope, ScopeSet

-----------------------------------------------------------------------------
\* A set of block numbers that is not empty has a greatest member.
LEMMA Greatest ==
  ASSUME NEW L \in Nat, NEW T \in SUBSET (1..L), T # {}
  PROVE  \E d \in T : \A e \in (d + 1)..L : e \notin T
<1> DEFINE U == {L - d : d \in T}
<1>1. U \subseteq Nat /\ U # {}
  <2>1. \A d \in T : L - d \in Nat
    OBVIOUS
  <2> QED
    BY <2>1
<1>2. PICK u \in U : \A w \in U : ~ (<<w, u>> \in OpToRel(<, Nat))
  BY <1>1, NatLessThanWellFounded, WFMin
<1>3. \A w \in U : u <= w
  <2> SUFFICES ASSUME NEW w \in U, ~ (u <= w) PROVE FALSE
    OBVIOUS
  <2>1. w \in Nat /\ u \in Nat /\ w < u
    BY <1>1
  <2>2. <<w, u>> \in OpToRel(<, Nat)
    <3>1. <<w, u>> \in Nat \X Nat /\ <<w, u>>[1] < <<w, u>>[2]
      BY <2>1
    <3> QED
      BY <3>1, Zenon DEF OpToRel
  <2> QED
    BY <1>2, <2>2
<1>4. PICK d \in T : u = L - d
  BY <1>2
<1>5. ASSUME NEW e \in (d + 1)..L PROVE e \notin T
  <2> SUFFICES ASSUME e \in T PROVE FALSE
    OBVIOUS
  <2>1. L - e \in U
    OBVIOUS
  <2>2. L - d <= L - e
    BY <1>3, <1>4, <2>1
  <2>3. d \in Nat /\ e \in Nat
    OBVIOUS
  <2> QED
    BY <2>2, <2>3
<1> QED
  BY <1>5

\* A name that some open block declares has an innermost such block.
LEMMA InnermostGo ==
  ASSUME scopes \in Seq(ScopeSet), NEW x \in Visible
  PROVE  /\ Innermost("go", x) \in 1..Len(scopes)
         /\ x \in DOMAIN scopes[Innermost("go", x)].go
<1> DEFINE T == {d \in 1..Len(scopes) : x \in DOMAIN scopes[d].go}
<1>1. T # {} /\ T \in SUBSET (1..Len(scopes)) /\ Len(scopes) \in Nat
  BY DEF Visible
<1>2. \E d \in T : \A e \in (d + 1)..Len(scopes) : e \notin T
  <2> HIDE DEF T
  <2> QED
    BY <1>1, Greatest
<1>3. \E d \in 1..Len(scopes) :
        /\ x \in DOMAIN scopes[d].go
        /\ \A e \in (d + 1)..Len(scopes) : x \notin DOMAIN scopes[e].go
  BY <1>1, <1>2
<1> QED
  BY <1>3 DEF Innermost

LEMMA InnermostC ==
  ASSUME scopes \in Seq(ScopeSet), NEW x,
         \E d \in 1..Len(scopes) : x \in DOMAIN scopes[d].c
  PROVE  /\ Innermost("c", x) \in 1..Len(scopes)
         /\ x \in DOMAIN scopes[Innermost("c", x)].c
<1> DEFINE T == {d \in 1..Len(scopes) : x \in DOMAIN scopes[d].c}
<1>1. T # {} /\ T \in SUBSET (1..Len(scopes)) /\ Len(scopes) \in Nat
  OBVIOUS
<1>2. \E d \in T : \A e \in (d + 1)..Len(scopes) : e \notin T
  <2> HIDE DEF T
  <2> QED
    BY <1>1, Greatest
<1>3. \E d \in 1..Len(scopes) :
        /\ x \in DOMAIN scopes[d].c
        /\ \A e \in (d + 1)..Len(scopes) : x \notin DOMAIN scopes[e].c
  <2>1. PICK d \in T : \A e \in (d + 1)..Len(scopes) : e \notin T
    BY <1>2
  <2>2. d \in 1..Len(scopes) /\ x \in DOMAIN scopes[d].c
    OBVIOUS
  <2>3. ASSUME NEW e \in (d + 1)..Len(scopes) PROVE x \notin DOMAIN scopes[e].c
    <3>1. e \in 1..Len(scopes)
      BY <2>2
    <3> QED
      BY <3>1, <2>1, <2>3
  <2> QED
    BY <2>2, <2>3
<1> QED
  BY <1>3 DEF Innermost

\* What a stack of blocks gives about one block.
LEMMA ScopeType ==
  ASSUME NEW s \in ScopeSet
  PROVE  /\ s.go \in GoScopes /\ s.c \in CScopes
         /\ DOMAIN s.go \subseteq Names
         /\ DOMAIN s.c \subseteq CNames
         /\ \A x \in DOMAIN s.go : s.go[x] \in GoVarSet
         /\ \A x \in DOMAIN s.c : s.c[x] \in Nat
<1>1. s.go \in GoScopes /\ s.c \in CScopes
  BY DEF ScopeSet
<1> QED
  BY <1>1, GoScopeType, CScopeType

\* A variable in scope has a declaration, a type and a value.
LEMMA GoVarType ==
  ASSUME scopes \in Seq(ScopeSet), NEW x \in Visible
  PROVE  /\ x \in Names
         /\ GoVar(x).type \in {"ptr", "bool"}
         /\ GoVar(x).val \in Nat
         /\ GoVar(x).over \in BOOLEAN
<1> PICK g : g = Innermost("go", x)
  OBVIOUS
<1>1. g \in 1..Len(scopes) /\ x \in DOMAIN scopes[g].go
  BY InnermostGo
<1>2. scopes[g] \in ScopeSet
  BY <1>1
<1>3. x \in Names /\ scopes[g].go[x] \in GoVarSet
  BY <1>1, <1>2, ScopeType
<1> QED
  BY <1>3 DEF GoVar, GoVarSet

\* So does the C text of anything.
LEMMA CValType ==
  ASSUME scopes \in Seq(ScopeSet), NEW c
  PROVE  CVal(c) \in Nat
<1>1. CASE \E d \in 1..Len(scopes) : c \in DOMAIN scopes[d].c
  <2> PICK k : k = Innermost("c", c)
    OBVIOUS
  <2>1. k \in 1..Len(scopes) /\ c \in DOMAIN scopes[k].c
    BY <1>1, InnermostC
  <2>2. scopes[k] \in ScopeSet
    BY <2>1
  <2>3. scopes[k].c[c] \in Nat
    BY <2>1, <2>2, ScopeType
  <2> QED
    BY <1>1, <2>3 DEF CVal
<1>2. CASE ~ \E d \in 1..Len(scopes) : c \in DOMAIN scopes[d].c
  BY <1>2 DEF CVal, Junk
<1> QED
  BY <1>1, <1>2

\* Later aliases, a later counter and more nodes change nothing for the blocks.
LEMMA TextLater ==
  ASSUME NEW s, NEW A, NEW B, NEW t, NEW n \in Nat, Fits(s, A, t, n), Grows(A, B, n),
         NEW x \in DOMAIN s.go
  PROVE  CText(s, B, x) = CText(s, A, x)
<1> PICK obj : obj = <<s.go[x].decl, x>>
  OBVIOUS
<1>1. s.go[x].decl \in 1..n
  BY DEF Fits
<1>2. obj[1] = s.go[x].decl /\ obj[1] # n + 1
  BY <1>1
<1>3. (obj \in DOMAIN A <=> obj \in DOMAIN B) /\ (obj \in DOMAIN A => B[obj] = A[obj])
  BY <1>2 DEF Grows
<1> QED
  BY <1>3 DEF CText

LEMMA GrowsSame == \A A, n : Grows(A, A, n)
  BY DEF Grows

LEMMA FitsLater ==
  ASSUME NEW s \in ScopeSet, NEW A, NEW B, NEW t \in Nat, NEW u \in Nat,
         NEW n \in Nat, NEW m \in Nat,
         Fits(s, A, t, n), Grows(A, B, n), t <= u, n <= m
  PROVE  Fits(s, B, u, m)
<1>1. 1..t \subseteq 1..u /\ 1..n \subseteq 1..m
  OBVIOUS
<1>2. Prefixes \X (1..t) \subseteq Prefixes \X (1..u)
  BY <1>1
<1>3. ASSUME NEW c \in DOMAIN s.c PROVE c \in DOMAIN s.go \/ c \in Prefixes \X (1..u)
  BY <1>2 DEF Fits
<1>4. ASSUME NEW x \in DOMAIN s.go
      PROVE  /\ s.go[x].decl \in 1..m
             /\ CText(s, B, x) \in DOMAIN s.c
  BY <1>1, TextLater DEF Fits
<1> QED
  BY <1>3, <1>4 DEF Fits

LEMMA StackLater ==
  ASSUME NEW S, NEW A, NEW B, NEW t \in Nat, NEW u \in Nat,
         NEW n \in Nat, NEW m \in Nat,
         Stack(S, A, t, n), Grows(A, B, n), t <= u, n <= m
  PROVE  Stack(S, B, u, m)
<1>1. \A d \in 1..Len(S) : S[d] \in ScopeSet
  BY DEF Stack
<1>2. \A d \in 1..Len(S) : Fits(S[d], B, u, m)
  BY <1>1, FitsLater DEF Stack
<1> QED
  BY <1>2 DEF Stack

\* Opening and closing a block, and a change to the innermost one.
LEMMA StackOpen ==
  ASSUME NEW S, NEW A, NEW t, NEW n, Stack(S, A, t, n)
  PROVE  /\ Stack(Append(S, EmptyScope), A, t, n)
         /\ Len(Append(S, EmptyScope)) = Len(S) + 1
<1> DEFINE R == Append(S, EmptyScope)
<1>1. S \in Seq(ScopeSet) /\ EmptyScope \in ScopeSet
  BY EmptyTyped DEF Stack
<1>2. /\ R \in Seq(ScopeSet) /\ Len(R) = Len(S) + 1
      /\ \A d \in 1..Len(S) : R[d] = S[d]
      /\ R[Len(S) + 1] = EmptyScope
      /\ Len(S) \in Nat
  BY <1>1
<1>3. Fits(EmptyScope, A, t, n)
  BY EmptyTyped DEF Fits
<1> HIDE DEF R
<1>4. \A d \in 1..Len(R) : Fits(R[d], A, t, n)
  BY <1>2, <1>3 DEF Stack
<1> QED
  BY <1>2, <1>4 DEF Stack, R

LEMMA CutLast ==
  ASSUME NEW T, NEW S \in Seq(T), Len(S) # 0
  PROVE  /\ SubSeq(S, 1, Len(S) - 1) \in Seq(T)
         /\ Len(SubSeq(S, 1, Len(S) - 1)) = Len(S) - 1
         /\ \A d \in 1..(Len(S) - 1) : d \in 1..Len(S) /\ SubSeq(S, 1, Len(S) - 1)[d] = S[d]
<1>1. Len(S) \in Nat /\ Len(S) - 1 \in Nat
  OBVIOUS
<1> PICK k \in Nat : k = Len(S) - 1
  BY <1>1
<1>2. \A i \in 1..k : i \in 1..Len(S) /\ S[i] \in T
  BY <1>1
<1>3. /\ SubSeq(S, 1, k) \in Seq(T)
      /\ Len(SubSeq(S, 1, k)) = IF 1 <= k THEN k - 1 + 1 ELSE 0
      /\ \A i \in 1 .. k - 1 + 1 : SubSeq(S, 1, k)[i] = S[1 + i - 1]
  BY <1>2, SubSeqProperties
<1>4. Len(SubSeq(S, 1, k)) = k
  BY <1>3
<1>5. \A i \in 1..k : SubSeq(S, 1, k)[i] = S[i]
  <2> TAKE i \in 1..k
  <2>1. i \in 1 .. k - 1 + 1 /\ 1 + i - 1 = i
    OBVIOUS
  <2> QED
    BY <1>3, <2>1
<1> QED
  BY <1>2, <1>3, <1>4, <1>5

LEMMA StackClose ==
  ASSUME NEW S, NEW A, NEW t, NEW n, Stack(S, A, t, n), Len(S) # 0
  PROVE  /\ Stack(SubSeq(S, 1, Len(S) - 1), A, t, n)
         /\ Len(SubSeq(S, 1, Len(S) - 1)) = Len(S) - 1
<1> DEFINE R == SubSeq(S, 1, Len(S) - 1)
<1>1. S \in Seq(ScopeSet) /\ Len(S) \in Nat
  BY DEF Stack
<1>2. /\ R \in Seq(ScopeSet) /\ Len(R) = Len(S) - 1
      /\ \A d \in 1..Len(R) : d \in 1..Len(S) /\ R[d] = S[d]
  BY <1>1, CutLast
<1> HIDE DEF R
<1>4. \A d \in 1..Len(R) : Fits(R[d], A, t, n)
  BY <1>2 DEF Stack
<1> QED
  BY <1>2, <1>4 DEF Stack, R

SetAt(S, k, s) == [S EXCEPT ![k] = s]

LEMMA StackSet ==
  ASSUME NEW S, NEW A, NEW t, NEW n, Stack(S, A, t, n),
         NEW k \in 1..Len(S), NEW s \in ScopeSet, Fits(s, A, t, n)
  PROVE  /\ Stack(SetAt(S, k, s), A, t, n)
         /\ Len(SetAt(S, k, s)) = Len(S)
<1> DEFINE R == SetAt(S, k, s)
<1>1. S \in Seq(ScopeSet)
  BY DEF Stack
<1>2. /\ R \in Seq(ScopeSet) /\ Len(R) = Len(S)
      /\ \A d \in 1..Len(R) : R[d] = IF d = k THEN s ELSE S[d]
  BY <1>1 DEF SetAt
<1> HIDE DEF R
<1>3. \A d \in 1..Len(R) : Fits(R[d], A, t, n)
  BY <1>2 DEF Stack
<1> QED
  BY <1>2, <1>3 DEF Stack, R

-----------------------------------------------------------------------------
\* What the type layer says of the state a statement meets.
LEMMA Typed ==
  ASSUME CInv
  PROVE  /\ nodes \in Nat /\ tmpSeq \in Nat /\ tmpSeq <= nodes
         /\ Stack(scopes, aliases, tmpSeq, nodes)
         /\ scopes \in Seq(ScopeSet)
         /\ Len(scopes) = Len(blocks) /\ Len(paths) = Len(blocks) /\ Len(scopes) \in Nat
         /\ aliases \in AliasSet
<1>1. scopes \in Known
  BY DEF Known
<1> QED
  BY <1>1 DEF CInv, TextInv, NameInv, PathInv, StackInv, Stack

\* The stacks of the open statements keep their shape while names are added.
LEMMA PathsStay ==
  ASSUME CInv, paths' = paths, blocks' = blocks, Len(scopes') = Len(scopes),
         nodes' \in Nat, nodes <= nodes', tmpSeq' \in Nat, tmpSeq <= tmpSeq',
         Grows(aliases, aliases', nodes),
         Stack(scopes', aliases', tmpSeq', nodes')
  PROVE  PathInv' /\ StackInv'
<1>1. Known' \subseteq Known \cup {scopes'}
  BY DEF Known
<1>2. ASSUME NEW S \in Known PROVE Stack(S, aliases', tmpSeq', nodes')
  <2>1. Stack(S, aliases, tmpSeq, nodes) /\ nodes \in Nat /\ tmpSeq \in Nat
    BY Typed DEF CInv, StackInv
  <2> QED
    BY <2>1, StackLater
<1>3. StackInv'
  BY <1>1, <1>2 DEF StackInv
<1>4. PathInv'
  BY DEF CInv, PathInv
<1> QED
  BY <1>3, <1>4

\* What := does to the Go side of a block.
LEMMA GoTargetEffect ==
  ASSUME NEW g \in GoScopes, NEW x \in Names \cup {Blank}, NEW type \in {"ptr", "bool"},
         Node \in Nat
  PROVE  /\ GoTarget(g, x, type) \in GoScopes
         /\ DOMAIN GoTarget(g, x, type) = DOMAIN g \cup ({x} \ {Blank})
         /\ \A y \in DOMAIN g : GoTarget(g, x, type)[y].decl = g[y].decl
         /\ \A y \in DOMAIN g : y # x => GoTarget(g, x, type)[y] = g[y]
         /\ x # Blank => GoTarget(g, x, type)[x].val = Node
         /\ x # Blank /\ x \notin DOMAIN g => GoTarget(g, x, type)[x].decl = Node
<1> PICK n \in Nat : n = Node
  OBVIOUS
<1>0. DOMAIN g \subseteq Names /\ Blank \notin Names
  BY GoScopeType, NamesAssumption DEF Blank
<1>1. CASE x = Blank
  <2>1. GoTarget(g, x, type) = g
    BY <1>0, <1>1 DEF GoTarget
  <2> QED
    BY <1>0, <1>1, <2>1
<1>2. CASE x # Blank /\ x \in DOMAIN g
  <2>1. GoTarget(g, x, type) = SetVal(g, x, n)
    BY <1>2 DEF GoTarget, SetVal
  <2>2. x \in DOMAIN g
    BY <1>2
  <2> PICK h : h = SetVal(g, x, n)
    OBVIOUS
  <2>3. /\ SetVal(g, x, n) \in GoScopes
        /\ DOMAIN SetVal(g, x, n) = DOMAIN g
        /\ SetVal(g, x, n)[x].val = n
        /\ \A y \in DOMAIN g : /\ SetVal(g, x, n)[y].decl = g[y].decl
                               /\ SetVal(g, x, n)[y].type = g[y].type
        /\ \A y \in DOMAIN g : y # x => SetVal(g, x, n)[y] = g[y]
    <3> HIDE DEF SetVal
    <3> QED
      BY <2>2, SetGo
  <2> QED
    BY <1>2, <2>1, <2>3
<1>3. CASE x # Blank /\ x \notin DOMAIN g
  <2> DEFINE r == [decl |-> n, type |-> type, val |-> n, over |-> FALSE]
  <2>1. GoTarget(g, x, type) = Put(g, x, r)
    BY <1>3 DEF GoTarget, Declared
  <2>2. r \in GoVarSet /\ r.decl = n /\ r.val = n
    BY DEF GoVarSet
  <2>3. x \in Names
    BY <1>3
  <2> HIDE DEF r
  <2>4. Put(g, x, r) \in GoScopes
    BY <2>2, <2>3, PutGo
  <2>5. /\ DOMAIN Put(g, x, r) = DOMAIN g \cup {x} /\ Put(g, x, r)[x] = r
        /\ \A y \in DOMAIN g : y # x => Put(g, x, r)[y] = g[y]
    BY DEF Put
  <2> QED
    BY <1>3, <2>1, <2>2, <2>4, <2>5
<1> QED
  BY <1>1, <1>2, <1>3

\* What a statement of a body does to the text side.
LEMMA StatementStep ==
  ASSUME CInv, WriteSimple \/ WriteDecl(1)
  PROVE  /\ nodes' = nodes + 1 /\ nodes + 1 <= MaxNodes
         /\ blocks' = blocks
         /\ Len(scopes) \in 1..Len(scopes)
         /\ Inner \in ScopeSet /\ Fits(Inner, aliases, tmpSeq, nodes)
<1>1. nodes' = nodes + 1 /\ nodes + 1 <= MaxNodes /\ blocks' = blocks /\ blocks # <<>>
  BY DEF WriteSimple, WriteDecl, Statement, Visit, Node
<1>2. blocks \in Seq(Block) /\ Len(scopes) = Len(blocks)
  BY DEF CInv, TextInv, PathInv
<1>3. Len(scopes) \in 1..Len(scopes)
  BY <1>1, <1>2
<1>4. Stack(scopes, aliases, tmpSeq, nodes)
  BY Typed
<1> QED
  BY <1>1, <1>3, <1>4 DEF Stack, Inner

\* The block a comma-ok leaves.
AfterCommaOk(prefix, v, ok) ==
  [go |-> GoTarget(GoTarget(Inner.go, v, "ptr"), ok, "bool"),
   c  |-> Put(Inner.c, LHSName(v, prefix), Node)]

LEMMA CommaOkBlock ==
  ASSUME Inner \in ScopeSet, nodes \in Nat, tmpSeq \in Nat, NEW prefix \in Prefixes,
         NEW v \in Names \cup {Blank}, NEW ok \in Names \cup {Blank}, v # ok,
         NEW b, b = AfterCommaOk(prefix, v, ok),
         NEW s, s = Inner, NEW name, name = LHSName(v, prefix)
  PROVE  /\ b \in ScopeSet
         /\ DOMAIN b.go = DOMAIN s.go \cup ({v, ok} \ {Blank})
         /\ \A y \in DOMAIN s.go : b.go[y].decl = s.go[y].decl
         /\ \A y \in DOMAIN b.go : y \notin DOMAIN s.go => b.go[y].decl = nodes + 1
         /\ \A y \in {v, ok} \ {Blank} : b.go[y].val = nodes + 1
         /\ \A y \in DOMAIN s.go : y \notin {v, ok} => b.go[y] = s.go[y]
         /\ DOMAIN b.c = DOMAIN s.c \cup {name}
         /\ b.c[name] = nodes + 1
         /\ \A y \in DOMAIN s.c : y # name => b.c[y] = s.c[y]
         /\ name \in CNames
<1> DEFINE g1 == GoTarget(s.go, v, "ptr")
           g2 == GoTarget(g1, ok, "bool")
           h == Put(s.c, name, Node)
<1>0. Node \in Nat /\ Node = nodes + 1 /\ s.go \in GoScopes /\ s.c \in CScopes
  BY ScopeType DEF Node
<1>1. name \in CNames
  <2>1. CASE v = Blank
    <3>1. name = <<prefix, tmpSeq + 1>>
      BY <2>1 DEF LHSName
    <3>2. tmpSeq + 1 \in Nat \ {0}
      OBVIOUS
    <3> QED
      BY <3>1, <3>2 DEF CNames
  <2>2. CASE v # Blank
    BY <2>2 DEF LHSName, CNames
  <2> QED
    BY <2>1, <2>2
<1>2. b = [go |-> g2, c |-> h]
  BY DEF AfterCommaOk
<1>3. /\ g1 \in GoScopes
      /\ DOMAIN g1 = DOMAIN s.go \cup ({v} \ {Blank})
      /\ \A y \in DOMAIN s.go : g1[y].decl = s.go[y].decl
      /\ \A y \in DOMAIN s.go : y # v => g1[y] = s.go[y]
      /\ v # Blank => g1[v].val = Node
      /\ v # Blank /\ v \notin DOMAIN s.go => g1[v].decl = Node
  BY <1>0, GoTargetEffect
<1> HIDE DEF g1
<1>4. /\ g2 \in GoScopes
      /\ DOMAIN g2 = DOMAIN g1 \cup ({ok} \ {Blank})
      /\ \A y \in DOMAIN g1 : g2[y].decl = g1[y].decl
      /\ \A y \in DOMAIN g1 : y # ok => g2[y] = g1[y]
      /\ ok # Blank => g2[ok].val = Node
      /\ ok # Blank /\ ok \notin DOMAIN g1 => g2[ok].decl = Node
  <2>1. g1 \in GoScopes /\ Node \in Nat
    BY <1>0, <1>3
  <2> QED
    BY <2>1, GoTargetEffect
<1>5. /\ h \in CScopes
      /\ DOMAIN h = DOMAIN s.c \cup {name}
      /\ h[name] = Node
      /\ \A y \in DOMAIN s.c : y # name => h[y] = s.c[y]
  <2>1. h \in CScopes
    BY <1>0, <1>1, PutC
  <2> QED
    BY <2>1 DEF Put
<1> HIDE DEF g2, h
<1>6. b.go = g2 /\ b.c = h
  BY <1>2
<1>7. b \in ScopeSet
  BY <1>2, <1>4, <1>5 DEF ScopeSet
<1>8. DOMAIN b.go = DOMAIN s.go \cup ({v, ok} \ {Blank})
  BY <1>3, <1>4, <1>6
<1>9. \A y \in DOMAIN s.go : b.go[y].decl = s.go[y].decl
  BY <1>3, <1>4, <1>6
<1>10. ASSUME NEW y \in DOMAIN b.go, y \notin DOMAIN s.go PROVE b.go[y].decl = nodes + 1
  BY <1>0, <1>3, <1>4, <1>6, <1>8, <1>10
<1>11. ASSUME NEW y \in {v, ok} \ {Blank} PROVE b.go[y].val = nodes + 1
  BY <1>0, <1>3, <1>4, <1>6, <1>8
<1>12. ASSUME NEW y \in DOMAIN s.go, y \notin {v, ok} PROVE b.go[y] = s.go[y]
  BY <1>3, <1>4, <1>6, <1>12
<1> QED
  BY <1>0, <1>1, <1>5, <1>6, <1>7, <1>8, <1>9, <1>10, <1>11, <1>12

\* The aliases a comma-ok leaves.
LEMMA CommaOkAliases ==
  ASSUME CInv, NEW prefix \in Prefixes,
         NEW v \in Names \cup {Blank}, NEW ok \in Names \cup {Blank},
         CommaOk(prefix, v, ok), NEW name, name = LHSName(v, prefix)
  PROVE  /\ NameInv'
         /\ tmpSeq' \in 0..nodes' /\ tmpSeq <= tmpSeq'
         /\ Grows(aliases, aliases', nodes)
         /\ \A o \in DOMAIN aliases' : o \in DOMAIN aliases \/ o = <<nodes + 1, ok>>
         /\ ok \notin DOMAIN Inner.go =>
              <<nodes + 1, ok>> \in DOMAIN aliases' /\ aliases'[<<nodes + 1, ok>>] = name
         /\ name \in {v} \cup (Prefixes \X (1..tmpSeq'))
         /\ v # Blank => name = v
         /\ v = Blank => name = <<prefix, tmpSeq + 1>> /\ tmpSeq' = tmpSeq + 1
<1> DEFINE obj == <<nodes + 1, ok>>
<1>1. /\ nodes \in Nat /\ tmpSeq \in Nat /\ tmpSeq <= nodes /\ aliases \in AliasSet
      /\ nodes' = nodes + 1
  BY Typed, StatementStep DEF CommaOk
<1>2. /\ DOMAIN aliases \subseteq Objects
      /\ \A o \in DOMAIN aliases : o[1] \in 1..nodes /\ aliases[o] \in Names \cup (Prefixes \X (1..tmpSeq))
  BY <1>1, AliasType DEF CInv, NameInv
<1>3. tmpSeq' = IF v = Blank THEN tmpSeq + 1 ELSE tmpSeq
  BY DEF CommaOk
<1>4. tmpSeq' \in Nat /\ tmpSeq' \in 0..nodes' /\ tmpSeq <= tmpSeq' /\ 1..tmpSeq \subseteq 1..tmpSeq' /\ 1..nodes \subseteq 1..nodes'
  BY <1>1, <1>3
<1>5. /\ v # Blank => name = v
      /\ v = Blank => name = <<prefix, tmpSeq + 1>>
  BY DEF LHSName
<1>6. name \in {v} \cup (Prefixes \X (1..tmpSeq')) /\ (v = Blank => name \in Prefixes \X (1..tmpSeq'))
  <2>1. CASE v = Blank
    <3>1. tmpSeq + 1 \in 1..tmpSeq'
      BY <1>1, <1>3, <2>1
    <3> QED
      BY <1>5, <2>1, <3>1
  <2> QED
    BY <2>1, <1>5
<1>7. name \in CNames /\ name \in Names \cup (Prefixes \X (1..tmpSeq'))
  <2>1. 1..tmpSeq' \subseteq Nat \ {0}
    BY <1>4
  <2>2. Prefixes \X (1..tmpSeq') \subseteq Prefixes \X (Nat \ {0})
    BY <2>1
  <2> QED
    BY <1>5, <1>6, <2>2 DEF CNames
<1>8. Prefixes \X (1..tmpSeq) \subseteq Prefixes \X (1..tmpSeq')
  BY <1>4
<1>9. obj \in Objects /\ obj[1] = nodes' /\ nodes' \in 1..nodes'
  BY <1>1 DEF Objects
<1>10. CASE ok \in DOMAIN Inner.go
  <2>1. aliases' = aliases
    BY <1>10 DEF CommaOk, RegisterAlias
  <2>2. \A o \in DOMAIN aliases : o[1] \in 1..nodes' /\ aliases[o] \in Names \cup (Prefixes \X (1..tmpSeq'))
    BY <1>2, <1>4, <1>8
  <2>3. NameInv'
    BY <1>1, <2>1, <2>2 DEF NameInv
  <2> QED
    BY <1>3, <1>4, <1>5, <1>6, <1>10, <2>1, <2>3, GrowsSame
<1>11. CASE ok \notin DOMAIN Inner.go
  <2>1. aliases' = Put(aliases, obj, name)
    BY <1>11 DEF CommaOk, RegisterAlias, Node
  <2> HIDE DEF obj
  <2>2. aliases' \in AliasSet
    BY <1>1, <1>7, <1>9, <2>1, PutAlias
  <2>3. /\ DOMAIN aliases' = DOMAIN aliases \cup {obj}
        /\ aliases'[obj] = name
        /\ \A o \in DOMAIN aliases : o # obj => aliases'[o] = aliases[o]
    BY <2>1 DEF Put
  <2>4. obj \notin DOMAIN aliases
    <3>1. obj[1] \notin 1..nodes
      BY <1>1, <1>9
    <3> QED
      BY <1>2, <3>1
  <2>5. \A o \in DOMAIN aliases : aliases'[o] = aliases[o]
    BY <2>3, <2>4
  <2>6. ASSUME NEW o \in DOMAIN aliases'
        PROVE  o[1] \in 1..nodes' /\ aliases'[o] \in Names \cup (Prefixes \X (1..tmpSeq'))
    <3>1. CASE o = obj
      BY <1>7, <1>9, <2>3, <3>1
    <3>2. CASE o \in DOMAIN aliases
      BY <1>2, <1>4, <1>8, <2>5, <3>2
    <3> QED
      BY <2>3, <3>1, <3>2
  <2>7. NameInv'
    BY <2>2, <2>6 DEF NameInv
  <2>8. Grows(aliases, aliases', nodes)
    BY <1>1, <1>9, <2>3, <2>5 DEF Grows
  <2> QED
    BY <1>3, <1>4, <1>5, <1>6, <2>3, <2>7, <2>8 DEF obj
<1> QED
  BY <1>10, <1>11

\* A comma-ok keeps the type layer.
LEMMA CommaOkTypes ==
  ASSUME CInv, NEW prefix \in Prefixes,
         NEW v \in Names \cup {Blank}, NEW ok \in Names \cup {Blank},
         CommaOk(prefix, v, ok)
  PROVE  CInv'
<1> PICK s : s = Inner
  OBVIOUS
<1> PICK name : name = LHSName(v, prefix)
  OBVIOUS
<1> PICK b : b = AfterCommaOk(prefix, v, ok)
  OBVIOUS
<1>1. /\ nodes \in Nat /\ tmpSeq \in Nat /\ scopes \in Seq(ScopeSet)
      /\ Stack(scopes, aliases, tmpSeq, nodes)
  BY Typed
<1>2. /\ nodes' = nodes + 1 /\ blocks' = blocks /\ Len(scopes) \in 1..Len(scopes)
      /\ Inner \in ScopeSet /\ Fits(s, aliases, tmpSeq, nodes)
  BY StatementStep DEF CommaOk
<1>3. scopes' = SetAt(scopes, Len(scopes), b) /\ paths' = paths /\ v # ok
  BY <1>1, <1>2 DEF CommaOk, AfterCommaOk, Inner, SetAt
<1>4. /\ b \in ScopeSet
      /\ DOMAIN b.go = DOMAIN s.go \cup ({v, ok} \ {Blank})
      /\ \A y \in DOMAIN s.go : b.go[y].decl = s.go[y].decl
      /\ \A y \in DOMAIN b.go : y \notin DOMAIN s.go => b.go[y].decl = nodes + 1
      /\ DOMAIN b.c = DOMAIN s.c \cup {name}
  BY <1>1, <1>2, <1>3, CommaOkBlock
<1>5. /\ NameInv'
      /\ tmpSeq' \in 0..nodes' /\ tmpSeq <= tmpSeq'
      /\ Grows(aliases, aliases', nodes)
      /\ \A o \in DOMAIN aliases' : o \in DOMAIN aliases \/ o = <<nodes + 1, ok>>
      /\ ok \notin DOMAIN s.go =>
           <<nodes + 1, ok>> \in DOMAIN aliases' /\ aliases'[<<nodes + 1, ok>>] = name
      /\ name \in {v} \cup (Prefixes \X (1..tmpSeq'))
      /\ v # Blank => name = v
      /\ v = Blank => name = <<prefix, tmpSeq + 1>> /\ tmpSeq' = tmpSeq + 1
  BY CommaOkAliases
<1>6. nodes' \in Nat /\ tmpSeq' \in Nat /\ nodes <= nodes'
  BY <1>1, <1>2, <1>5
<1>7. Fits(s, aliases', tmpSeq', nodes')
  BY <1>1, <1>2, <1>5, <1>6, FitsLater
<1>8. Fits(b, aliases', tmpSeq', nodes')
  <2>1. ASSUME NEW c \in DOMAIN b.c
        PROVE  c \in DOMAIN b.go \/ c \in Prefixes \X (1..tmpSeq')
    <3>1. CASE c = name /\ v = Blank
      <4>1. tmpSeq + 1 \in 1..tmpSeq'
        BY <1>1, <1>5, <3>1
      <4> QED
        BY <1>5, <3>1, <4>1
    <3>2. CASE c = name /\ v # Blank
      BY <1>4, <1>5, <3>2
    <3>3. CASE c \in DOMAIN s.c
      BY <1>4, <1>7, <3>3 DEF Fits
    <3> QED
      BY <1>4, <3>1, <3>2, <3>3
  <2>2. ASSUME NEW y \in DOMAIN b.go
        PROVE  /\ b.go[y].decl \in 1..nodes'
               /\ CText(b, aliases', y) \in DOMAIN b.c
    <3>1. CASE y \in DOMAIN s.go
      BY <1>4, <1>7, <3>1 DEF Fits, CText
    <3>2. CASE y \notin DOMAIN s.go
      <4>1. b.go[y].decl = nodes + 1 /\ nodes + 1 \in 1..nodes'
        BY <1>1, <1>2, <1>4, <3>2
      <4>2. y \in {v, ok} \ {Blank}
        BY <1>4, <3>2
      <4>3. CASE y = v
        <5>1. <<nodes + 1, v>> \notin DOMAIN aliases'
          <6>1. <<nodes + 1, v>>[1] = nodes + 1 /\ nodes + 1 \notin 1..nodes
            BY <1>1
          <6>2. \A o \in DOMAIN aliases : o[1] \in 1..nodes
            BY DEF CInv, NameInv
          <6>3. <<nodes + 1, v>> # <<nodes + 1, ok>>
            BY <1>3
          <6> QED
            BY <1>5, <6>1, <6>2, <6>3
        <5>2. CText(b, aliases', y) = v
          BY <4>1, <4>3, <5>1 DEF CText
        <5> QED
          BY <1>4, <1>5, <4>1, <4>2, <4>3, <5>2
      <4>4. CASE y = ok
        <5>1. CText(b, aliases', y) = name
          BY <1>5, <3>2, <4>1, <4>4 DEF CText
        <5> QED
          BY <1>4, <4>1, <5>1
      <4> QED
        BY <4>2, <4>3, <4>4
    <3> QED
      BY <3>1, <3>2
  <2> QED
    BY <2>1, <2>2 DEF Fits
<1>9. Stack(scopes, aliases', tmpSeq', nodes')
  BY <1>1, <1>5, <1>6, StackLater
<1>10. Stack(scopes', aliases', tmpSeq', nodes') /\ Len(scopes') = Len(scopes)
  <2> PICK k : k = Len(scopes)
    OBVIOUS
  <2>1. k \in 1..Len(scopes) /\ b \in ScopeSet
    BY <1>2, <1>4
  <2>2. Stack(SetAt(scopes, k, b), aliases', tmpSeq', nodes') /\ Len(SetAt(scopes, k, b)) = Len(scopes)
    BY <1>8, <1>9, <2>1, StackSet
  <2> QED
    BY <1>3, <2>2
<1>11. PathInv' /\ StackInv'
  BY <1>1, <1>2, <1>3, <1>5, <1>6, <1>10, PathsStay
<1>12. TextInv'
  <2>1. clash' \in BOOLEAN
    BY DEF CommaOk, CInv, TextInv
  <2> QED
    BY <1>2, <1>5, <1>6, <2>1 DEF CInv, TextInv
<1> QED
  BY <1>5, <1>11, <1>12 DEF CInv

\* The block a declaration of x leaves.
AfterDeclare(x, r, w) == [go |-> Put(Inner.go, x, r), c |-> Put(Inner.c, x, w)]

LEMMA DeclareBlock ==
  ASSUME Inner \in ScopeSet, NEW x \in Names, NEW r \in GoVarSet, NEW w \in Nat,
         NEW b, b = AfterDeclare(x, r, w), NEW s, s = Inner
  PROVE  /\ b \in ScopeSet
         /\ DOMAIN b.go = DOMAIN s.go \cup {x} /\ DOMAIN b.c = DOMAIN s.c \cup {x}
         /\ b.go[x] = r /\ b.c[x] = w
         /\ \A y \in DOMAIN s.go : y # x => b.go[y] = s.go[y]
         /\ \A y \in DOMAIN s.c : y # x => b.c[y] = s.c[y]
<1> DEFINE g == Put(s.go, x, r)
           h == Put(s.c, x, w)
<1>0. s.go \in GoScopes /\ s.c \in CScopes /\ x \in CNames
  BY ScopeType DEF CNames
<1>1. g \in GoScopes
  BY <1>0, PutGo
<1>2. h \in CScopes
  BY <1>0, PutC
<1>3. /\ DOMAIN g = DOMAIN s.go \cup {x} /\ g[x] = r
      /\ \A y \in DOMAIN s.go : y # x => g[y] = s.go[y]
  BY DEF Put
<1>4. /\ DOMAIN h = DOMAIN s.c \cup {x} /\ h[x] = w
      /\ \A y \in DOMAIN s.c : y # x => h[y] = s.c[y]
  BY DEF Put
<1>5. b = [go |-> g, c |-> h]
  BY DEF AfterDeclare
<1> HIDE DEF g, h
<1>6. b.go = g /\ b.c = h /\ b \in ScopeSet
  BY <1>1, <1>2, <1>5 DEF ScopeSet
<1> QED
  BY <1>3, <1>4, <1>6

\* A declaration keeps the type layer.
LEMMA DeclareTypes ==
  ASSUME CInv, WriteSimple \/ WriteDecl(1),
         NEW x \in Names, NEW r \in GoVarSet, NEW w \in Nat, r.decl = nodes + 1,
         scopes' = SetAt(scopes, Len(scopes), AfterDeclare(x, r, w)),
         clash' \in BOOLEAN, aliases' = aliases, tmpSeq' = tmpSeq, paths' = paths
  PROVE  CInv'
<1> PICK s : s = Inner
  OBVIOUS
<1> PICK b : b = AfterDeclare(x, r, w)
  OBVIOUS
<1>1. /\ nodes \in Nat /\ tmpSeq \in Nat /\ tmpSeq <= nodes /\ scopes \in Seq(ScopeSet)
      /\ Stack(scopes, aliases, tmpSeq, nodes)
  BY Typed
<1>2. /\ nodes' = nodes + 1 /\ blocks' = blocks /\ Len(scopes) \in 1..Len(scopes)
      /\ Inner \in ScopeSet /\ Fits(s, aliases, tmpSeq, nodes)
  BY StatementStep
<1>3. /\ b \in ScopeSet
      /\ DOMAIN b.go = DOMAIN s.go \cup {x} /\ DOMAIN b.c = DOMAIN s.c \cup {x}
      /\ b.go[x] = r
      /\ \A y \in DOMAIN s.go : y # x => b.go[y] = s.go[y]
  BY <1>2, DeclareBlock
<1>4. nodes' \in Nat /\ tmpSeq \in 0..nodes' /\ nodes <= nodes' /\ nodes + 1 \in 1..nodes'
  BY <1>1, <1>2
<1>5. Fits(s, aliases, tmpSeq, nodes')
  <2>1. s \in ScopeSet /\ Grows(aliases, aliases, nodes) /\ tmpSeq <= tmpSeq
    BY <1>1, <1>2, GrowsSame
  <2> QED
    BY <1>1, <1>2, <1>4, <2>1, FitsLater
<1>6. Fits(b, aliases, tmpSeq, nodes')
  <2>1. ASSUME NEW c \in DOMAIN b.c
        PROVE  c \in DOMAIN b.go \/ c \in Prefixes \X (1..tmpSeq)
    BY <1>3, <1>5 DEF Fits
  <2>2. ASSUME NEW y \in DOMAIN b.go
        PROVE  /\ b.go[y].decl \in 1..nodes'
               /\ CText(b, aliases, y) \in DOMAIN b.c
    <3>1. CASE y = x
      <4>1. <<nodes + 1, x>>[1] = nodes + 1 /\ nodes + 1 \notin 1..nodes
        BY <1>1
      <4>2. <<nodes + 1, x>> \notin DOMAIN aliases
        BY <4>1 DEF CInv, NameInv
      <4>3. CText(b, aliases, y) = x
        BY <1>3, <3>1, <4>2 DEF CText
      <4> QED
        BY <1>3, <1>4, <3>1, <4>3
    <3>2. CASE y # x
      BY <1>3, <1>5, <3>2 DEF Fits, CText
    <3> QED
      BY <3>1, <3>2
  <2> QED
    BY <2>1, <2>2 DEF Fits
<1>7. Stack(scopes, aliases, tmpSeq, nodes')
  <2>1. Grows(aliases, aliases, nodes) /\ tmpSeq <= tmpSeq
    BY <1>1, GrowsSame
  <2> QED
    BY <1>1, <1>4, <2>1, StackLater
<1>8. Stack(scopes', aliases', tmpSeq', nodes') /\ Len(scopes') = Len(scopes)
  <2> PICK k : k = Len(scopes)
    OBVIOUS
  <2>1. k \in 1..Len(scopes) /\ b \in ScopeSet
    BY <1>2, <1>3
  <2>2. Stack(SetAt(scopes, k, b), aliases, tmpSeq, nodes') /\ Len(SetAt(scopes, k, b)) = Len(scopes)
    BY <1>6, <1>7, <2>1, StackSet
  <2> QED
    BY <2>2
<1>9. PathInv' /\ StackInv'
  <2>1. Grows(aliases, aliases', nodes)
    BY GrowsSame
  <2> QED
    BY <1>1, <1>2, <1>4, <1>8, <2>1, PathsStay
<1>10. NameInv'
  <2>1. \A o \in DOMAIN aliases : o[1] \in 1..nodes'
    BY <1>1, <1>2 DEF CInv, NameInv
  <2> QED
    BY <2>1 DEF CInv, NameInv
<1> QED
  BY <1>2, <1>4, <1>9, <1>10 DEF CInv, TextInv

LEMMA DefineTypes ==
  ASSUME CInv, NEW x \in Names, NEW y \in Visible, Define(x, y)
  PROVE  CInv'
<1> DEFINE r == Declared(GoVar(y).type, GoVar(y).val, GoVar(y).over)
           w == IF FormatIdent(y) = x THEN Junk ELSE CVal(FormatIdent(y))
<1>1. nodes \in Nat /\ scopes \in Seq(ScopeSet)
  BY Typed
<1>2. r \in GoVarSet /\ r.decl = nodes + 1
  <2>1. GoVar(y).type \in {"ptr", "bool"} /\ GoVar(y).val \in Nat /\ GoVar(y).over \in BOOLEAN
    BY <1>1, GoVarType
  <2> QED
    BY <1>1, <2>1 DEF GoVarSet, Node, Declared
<1>3. w \in Nat
  BY <1>1, CValType DEF Junk
<1>4. scopes' = SetAt(scopes, Len(scopes), AfterDeclare(x, r, w))
  <2>1. Len(scopes) \in 1..Len(scopes)
    BY StatementStep DEF Define
  <2> QED
    BY <2>1, <1>1 DEF Define, AfterDeclare, Inner, SetAt
<1>5. /\ WriteSimple
      /\ clash' \in BOOLEAN
      /\ aliases' = aliases /\ tmpSeq' = tmpSeq /\ paths' = paths
  BY DEF Define, CInv, TextInv
<1> HIDE DEF r, w
<1> QED
  BY <1>2, <1>3, <1>4, <1>5, DeclareTypes

LEMMA DeclareVarTypes ==
  ASSUME CInv, NEW x \in Names, NEW type \in {"ptr", "bool"}, DeclareVar(x, type)
  PROVE  CInv'
<1> DEFINE r == Declared(type, Zero, FALSE)
<1>1. nodes \in Nat /\ scopes \in Seq(ScopeSet)
  BY Typed
<1>2. r \in GoVarSet /\ r.decl = nodes + 1 /\ Junk \in Nat
  BY <1>1, EmitterAssumption DEF GoVarSet, Node, Zero, Junk, Declared
<1>3. scopes' = SetAt(scopes, Len(scopes), AfterDeclare(x, r, Junk))
  <2>1. Len(scopes) \in 1..Len(scopes)
    BY StatementStep DEF DeclareVar
  <2> QED
    BY <2>1, <1>1 DEF DeclareVar, AfterDeclare, Inner, SetAt
<1>4. /\ WriteDecl(1)
      /\ clash' \in BOOLEAN
      /\ aliases' = aliases /\ tmpSeq' = tmpSeq /\ paths' = paths
  BY DEF DeclareVar, CInv, TextInv
<1> HIDE DEF r
<1> QED
  BY <1>2, <1>3, <1>4, DeclareTypes

-----------------------------------------------------------------------------
\* What an assignment does to the Go side of a block.
LEMMA GoAssignEffect ==
  ASSUME NEW g \in GoScopes, NEW x \in DOMAIN g, NEW r, r.val \in Nat, r.over \in BOOLEAN,
         NEW h, h = GoAssign(g, x, r)
  PROVE  /\ h \in GoScopes /\ DOMAIN h = DOMAIN g
         /\ \A z \in DOMAIN g : h[z].decl = g[z].decl
         /\ h[x].val = r.val /\ h[x].over = r.over
         /\ \A z \in DOMAIN g : z # x /\ ~h[z].over =>
              /\ h[z].val = g[z].val /\ ~g[z].over
              /\ TextOf(<<g[z].decl, z>>) # FormatIdent(x)
<1>1. PICK D \in SUBSET Names : g \in [D -> GoVarSet]
  BY DEF GoScopes
<1>2. DOMAIN h = D /\ DOMAIN g = D
  BY <1>1 DEF GoAssign
<1>3. ASSUME NEW z \in D
      PROVE  /\ h[z] \in GoVarSet /\ h[z].decl = g[z].decl
             /\ z = x => h[z].val = r.val /\ h[z].over = r.over
             /\ z # x /\ ~h[z].over =>
                  /\ h[z].val = g[z].val /\ ~g[z].over
                  /\ TextOf(<<g[z].decl, z>>) # FormatIdent(x)
  <2>0. g[z] \in GoVarSet
    BY <1>1
  <2>1. CASE z = x
    <3>1. h[z] = [g[z] EXCEPT !.val = r.val, !.over = r.over]
      BY <1>2, <2>1 DEF GoAssign
    <3> QED
      BY <2>0, <2>1, <3>1 DEF GoVarSet
  <2>2. CASE z # x
    <3> DEFINE same == TextOf(<<g[z].decl, z>>) = FormatIdent(x)
               q == g[z].over \/ same
    <3>1. h[z] = [g[z] EXCEPT !.over = q]
      BY <1>2, <2>2 DEF GoAssign
    <3>2. q \in BOOLEAN /\ (~q => ~g[z].over /\ ~same)
      BY Zenon
    <3> HIDE DEF q
    <3>3. h[z] \in GoVarSet /\ h[z].decl = g[z].decl /\ h[z].val = g[z].val /\ h[z].over = q
      BY <2>0, <3>1, <3>2 DEF GoVarSet
    <3> QED
      BY <2>2, <3>2, <3>3
  <2> QED
    BY <2>1, <2>2
<1>4. h \in [D -> GoVarSet]
  <2>1. h = [z \in D |-> h[z]]
    BY <1>2 DEF GoAssign
  <2> QED
    BY <1>3, <2>1
<1>5. h \in GoScopes
  BY <1>4 DEF GoScopes
<1> QED
  BY <1>2, <1>3, <1>5

\* The values of a right-hand side.
Rhs == {Variable(y) : y \in Visible} \cup {Created}

LEMMA RhsType ==
  ASSUME CInv, NEW r \in Rhs
  PROVE  r.val \in Nat /\ r.over \in BOOLEAN /\ r.c \in Nat
<1>1. scopes \in Seq(ScopeSet) /\ nodes \in Nat
  BY Typed
<1>2. CASE r = Created
  BY <1>1, <1>2 DEF Created, Node
<1>3. ASSUME NEW y \in Visible, r = Variable(y)
      PROVE  r.val \in Nat /\ r.over \in BOOLEAN /\ r.c \in Nat
  <2>1. GoVar(y).val \in Nat /\ GoVar(y).over \in BOOLEAN /\ CVal(FormatIdent(y)) \in Nat
    BY <1>1, GoVarType, CValType
  <2> QED
    BY <1>3, <2>1 DEF Variable
<1> QED
  BY <1>2, <1>3 DEF Rhs

\* The two writes of an assignment: the Go variable at its block and the C one at
\* its own.
LEMMA AssignBlocks ==
  ASSUME CInv, NEW x \in Visible, NEW r \in Rhs, Assign(x, r),
         NEW g, g = Innermost("go", x), NEW f, f = FormatIdent(x),
         NEW c, c = Innermost("c", f), NEW w, w = r.c
  PROVE  /\ g \in 1..Len(scopes) /\ x \in DOMAIN scopes[g].go
         /\ f = CText(scopes[g], aliases, x) /\ f \in DOMAIN scopes[g].c
         /\ c \in 1..Len(scopes) /\ f \in DOMAIN scopes[c].c
         /\ scopes' \in Seq(ScopeSet) /\ Len(scopes') = Len(scopes)
         /\ \A d \in 1..Len(scopes) :
              /\ scopes'[d].go = IF d = g THEN GoAssign(scopes[d].go, x, r) ELSE scopes[d].go
              /\ scopes'[d].c = IF d = c THEN SetAt(scopes[d].c, f, w) ELSE scopes[d].c
<1>1. nodes \in Nat /\ scopes \in Seq(ScopeSet) /\ Stack(scopes, aliases, tmpSeq, nodes)
  BY Typed
<1>2. g \in 1..Len(scopes) /\ x \in DOMAIN scopes[g].go
  BY <1>1, InnermostGo
<1>3. GoVar(x) = scopes[g].go[x]
  BY DEF GoVar
<1>5. f = CText(scopes[g], aliases, x)
  BY <1>3 DEF FormatIdent, TextOf, CText
<1>6. f \in DOMAIN scopes[g].c
  BY <1>1, <1>2, <1>5 DEF Stack, Fits
<1>7. c \in 1..Len(scopes) /\ f \in DOMAIN scopes[c].c
  BY <1>1, <1>2, <1>6, InnermostC
<1>8. r.val \in Nat /\ r.over \in BOOLEAN /\ w \in Nat
  BY RhsType
<1> PICK h : h = GoAssign(scopes[g].go, x, r)
  OBVIOUS
<1> DEFINE a == [scopes[g] EXCEPT !.go = h]
           S == SetAt(scopes, g, a)
           m == SetAt(S[c].c, f, w)
           b == [S[c] EXCEPT !.c = m]
<1>9. scopes[g] \in ScopeSet /\ scopes[c] \in ScopeSet
  BY <1>1, <1>2, <1>7
<1>10. h \in GoScopes
  <2> PICK e : e = scopes[g].go
    OBVIOUS
  <2>1. e \in GoScopes /\ x \in DOMAIN e /\ h = GoAssign(e, x, r)
    BY <1>2, <1>9, ScopeType
  <2> QED
    BY <1>8, <2>1, GoAssignEffect
<1>11. [scopes EXCEPT ![g].go = GoAssign(@, x, r)] = S
  BY <1>1, <1>2, <1>9 DEF SetAt
<1>12. scopes' = SetAt(S, c, b)
  <2>1. scopes' = [S EXCEPT ![c].c[f] = w]
    BY <1>11 DEF Assign
  <2> HIDE DEF S
  <2> QED
    BY <2>1 DEF SetAt
<1>13. a \in ScopeSet /\ a.go = h /\ a.c = scopes[g].c
  BY <1>9, <1>10 DEF ScopeSet
<1> HIDE DEF a
<1>14. /\ S \in Seq(ScopeSet) /\ Len(S) = Len(scopes)
       /\ \A d \in 1..Len(scopes) : S[d] = IF d = g THEN a ELSE scopes[d]
  BY <1>1, <1>2, <1>13 DEF SetAt
<1> HIDE DEF S
<1>15. S[c] \in ScopeSet /\ S[c].c = scopes[c].c
  BY <1>7, <1>9, <1>13, <1>14
<1>16. m \in CScopes /\ m = SetAt(scopes[c].c, f, w)
  <2>1. S[c].c \in CScopes /\ f \in DOMAIN S[c].c
    BY <1>7, <1>15, ScopeType
  <2> QED
    BY <1>8, <1>15, <2>1, SetC DEF SetAt
<1> HIDE DEF m
<1>17. b \in ScopeSet /\ b.c = m /\ b.go = S[c].go
  BY <1>15, <1>16 DEF ScopeSet
<1> HIDE DEF b
<1>18. /\ scopes' \in Seq(ScopeSet) /\ Len(scopes') = Len(S)
       /\ \A d \in 1..Len(S) : scopes'[d] = IF d = c THEN b ELSE S[d]
  <2>1. c \in 1..Len(S)
    BY <1>7, <1>14
  <2> QED
    BY <1>12, <1>14, <1>17, <2>1 DEF SetAt
<1>19. ASSUME NEW d \in 1..Len(scopes)
       PROVE  /\ scopes'[d].go = IF d = g THEN GoAssign(scopes[d].go, x, r) ELSE scopes[d].go
              /\ scopes'[d].c = IF d = c THEN SetAt(scopes[d].c, f, w) ELSE scopes[d].c
  <2>1. scopes'[d].go = S[d].go
    BY <1>14, <1>17, <1>18
  <2>2. S[d].go = IF d = g THEN h ELSE scopes[d].go
    BY <1>13, <1>14
  <2>3. S[d].c = scopes[d].c
    BY <1>13, <1>14
  <2>4. scopes'[d].c = IF d = c THEN m ELSE S[d].c
    BY <1>14, <1>17, <1>18
  <2> QED
    BY <1>16, <2>1, <2>2, <2>3, <2>4
<1> QED
  BY <1>2, <1>5, <1>6, <1>7, <1>14, <1>18, <1>19

LEMMA AssignTypes ==
  ASSUME CInv, NEW x \in Visible, NEW r \in Rhs, Assign(x, r)
  PROVE  CInv'
<1> PICK g : g = Innermost("go", x)
  OBVIOUS
<1> PICK f : f = FormatIdent(x)
  OBVIOUS
<1> PICK c : c = Innermost("c", f)
  OBVIOUS
<1> PICK w : w = r.c
  OBVIOUS
<1>1. /\ nodes \in Nat /\ tmpSeq \in Nat /\ tmpSeq <= nodes /\ scopes \in Seq(ScopeSet)
      /\ Stack(scopes, aliases, tmpSeq, nodes)
  BY Typed
<1>2. /\ g \in 1..Len(scopes) /\ x \in DOMAIN scopes[g].go
      /\ c \in 1..Len(scopes) /\ f \in DOMAIN scopes[c].c
      /\ scopes' \in Seq(ScopeSet) /\ Len(scopes') = Len(scopes)
      /\ \A d \in 1..Len(scopes) :
           /\ scopes'[d].go = IF d = g THEN GoAssign(scopes[d].go, x, r) ELSE scopes[d].go
           /\ scopes'[d].c = IF d = c THEN SetAt(scopes[d].c, f, w) ELSE scopes[d].c
  BY AssignBlocks
<1>3. /\ nodes' = nodes + 1 /\ blocks' = blocks
      /\ aliases' = aliases /\ tmpSeq' = tmpSeq /\ paths' = paths /\ clash' = clash
  BY StatementStep DEF Assign
<1>4. nodes' \in Nat /\ tmpSeq \in 0..nodes' /\ nodes <= nodes'
      /\ Grows(aliases, aliases, nodes) /\ tmpSeq <= tmpSeq
  BY <1>1, <1>3, GrowsSame
<1>5. ASSUME NEW d \in 1..Len(scopes)
      PROVE  /\ DOMAIN scopes'[d].go = DOMAIN scopes[d].go
             /\ DOMAIN scopes'[d].c = DOMAIN scopes[d].c
             /\ \A z \in DOMAIN scopes[d].go : scopes'[d].go[z].decl = scopes[d].go[z].decl
  <2>1. scopes[d] \in ScopeSet
    BY <1>1
  <2>2. scopes[d].go \in GoScopes
    BY <2>1, ScopeType
  <2>3. DOMAIN scopes'[d].c = DOMAIN scopes[d].c
    BY <1>2 DEF SetAt
  <2>4. CASE d = g
    <3> PICK e : e = scopes[d].go
      OBVIOUS
    <3> PICK h : h = GoAssign(e, x, r)
      OBVIOUS
    <3>1. e \in GoScopes /\ x \in DOMAIN e /\ scopes'[d].go = h
      BY <1>2, <2>2, <2>4
    <3>2. r.val \in Nat /\ r.over \in BOOLEAN
      BY RhsType
    <3>3. DOMAIN h = DOMAIN e /\ \A z \in DOMAIN e : h[z].decl = e[z].decl
      BY <3>1, <3>2, GoAssignEffect
    <3> QED
      BY <2>3, <3>1, <3>3
  <2>5. CASE d # g
    BY <1>2, <2>3, <2>5
  <2> QED
    BY <2>4, <2>5
<1>6. ASSUME NEW d \in 1..Len(scopes) PROVE Fits(scopes'[d], aliases, tmpSeq, nodes')
  <2>1. scopes[d] \in ScopeSet /\ Fits(scopes[d], aliases, tmpSeq, nodes)
    BY <1>1 DEF Stack
  <2>2. Fits(scopes[d], aliases, tmpSeq, nodes')
    BY <1>1, <1>4, <2>1, FitsLater
  <2> QED
    BY <1>5, <2>2 DEF Fits, CText
<1>7. Stack(scopes', aliases', tmpSeq', nodes')
  BY <1>2, <1>3, <1>6 DEF Stack
<1>8. PathInv' /\ StackInv'
  BY <1>1, <1>2, <1>3, <1>4, <1>7, PathsStay
<1>9. NameInv'
  <2>1. \A o \in DOMAIN aliases : o[1] \in 1..nodes'
    BY <1>1, <1>3 DEF CInv, NameInv
  <2> QED
    BY <1>3, <2>1 DEF CInv, NameInv
<1> QED
  BY <1>3, <1>4, <1>8, <1>9 DEF CInv, TextInv

-----------------------------------------------------------------------------
\* Steps that only move between known stacks keep what holds of the names.
LEMMA MoveTypes ==
  ASSUME CInv, aliases' = aliases, tmpSeq' = tmpSeq, clash' = clash,
         nodes' \in {nodes, nodes + 1}, blocks' \in Seq(Block)
  PROVE  /\ TextInv' /\ NameInv' /\ nodes' \in Nat
         /\ \A S \in Known : Stack(S, aliases', tmpSeq', nodes')
<1>1. nodes \in Nat /\ tmpSeq \in Nat /\ tmpSeq <= nodes
  BY Typed
<1>2. nodes' \in Nat /\ nodes <= nodes' /\ tmpSeq \in 0..nodes' /\ 1..nodes \subseteq 1..nodes'
  BY <1>1
<1>3. TextInv'
  BY <1>2 DEF CInv, TextInv
<1>4. NameInv'
  <2>1. \A o \in DOMAIN aliases : o[1] \in 1..nodes'
    BY <1>2 DEF CInv, NameInv
  <2> QED
    BY <2>1 DEF CInv, NameInv
<1>5. ASSUME NEW S \in Known PROVE Stack(S, aliases, tmpSeq, nodes')
  <2>1. Stack(S, aliases, tmpSeq, nodes) /\ Grows(aliases, aliases, nodes) /\ tmpSeq <= tmpSeq
    BY <1>1, GrowsSame DEF CInv, StackInv
  <2> QED
    BY <1>1, <1>2, <2>1, StackLater
<1> QED
  BY <1>2, <1>3, <1>4, <1>5

\* Known stacks are sequences of blocks, of the length of their place.
LEMMA PathTypes ==
  ASSUME CInv
  PROVE  /\ paths \in Seq(PathSet) /\ Len(paths) = Len(blocks) /\ Len(paths) \in Nat
         /\ \A k \in 1..Len(paths) :
              /\ paths[k] \in PathSet
              /\ paths[k].pre \in Known /\ paths[k].pre \in Seq(ScopeSet)
              /\ Len(paths[k].pre) = k - 1
              /\ \A S \in paths[k].alts : S \in Known /\ S \in Seq(ScopeSet) /\ Len(S) = k - 1
<1>1. /\ paths \in Seq(PathSet) /\ Len(paths) = Len(blocks)
      /\ \A k \in 1..Len(paths) :
           /\ Len(paths[k].pre) = k - 1
           /\ \A S \in paths[k].alts : Len(S) = k - 1
  BY DEF CInv, PathInv
<1>2. Len(paths) \in Nat /\ \A k \in 1..Len(paths) : paths[k] \in PathSet
  BY <1>1
<1>3. \A k \in 1..Len(paths) : paths[k].pre \in Known /\ \A S \in paths[k].alts : S \in Known
  BY DEF Known
<1>4. \A S \in Known : S \in Seq(ScopeSet)
  BY DEF CInv, StackInv, Stack
<1> QED
  BY <1>1, <1>2, <1>3, <1>4

LEMMA OpenTypes ==
  ASSUME CInv, NEW skips \in BOOLEAN, OpenScope(skips), nodes' = nodes + 1,
         blocks' \in Seq(Block), Len(blocks') = Len(blocks) + 1
  PROVE  CInv' /\ Known' \subseteq Known \cup {scopes'}
<1> PICK p : p = [pre |-> scopes, alts |-> IF skips THEN {scopes} ELSE {}]
  OBVIOUS
<1>1. /\ aliases' = aliases /\ tmpSeq' = tmpSeq /\ clash' = clash
      /\ scopes' = Append(scopes, EmptyScope)
      /\ paths' = Append(paths, p)
  BY DEF OpenScope
<1>2. /\ scopes \in Seq(ScopeSet) /\ Len(scopes) = Len(blocks) /\ scopes \in Known
      /\ paths \in Seq(PathSet) /\ Len(paths) = Len(blocks) /\ Len(paths) \in Nat
  BY Typed, PathTypes DEF Known
<1>3. TextInv' /\ NameInv' /\ nodes' \in Nat /\ \A S \in Known : Stack(S, aliases', tmpSeq', nodes')
  BY <1>1, MoveTypes
<1>4. p \in PathSet /\ p.pre = scopes /\ p.alts \subseteq {scopes}
  BY <1>2 DEF PathSet
<1>5. /\ paths' \in Seq(PathSet) /\ Len(paths') = Len(paths) + 1
      /\ \A k \in 1..Len(paths) : paths'[k] = paths[k]
      /\ paths'[Len(paths) + 1] = p
  BY <1>1, <1>2, <1>4
<1>6. Stack(scopes', aliases', tmpSeq', nodes') /\ Len(scopes') = Len(scopes) + 1
  BY <1>1, <1>2, <1>3, StackOpen
<1>7. ASSUME NEW k \in 1..Len(paths')
      PROVE  /\ paths'[k].pre \in Known /\ Len(paths'[k].pre) = k - 1
             /\ \A S \in paths'[k].alts : S \in Known /\ Len(S) = k - 1
  <2>1. CASE k \in 1..Len(paths)
    BY <1>5, <2>1, PathTypes
  <2>2. CASE k = Len(paths) + 1
    BY <1>2, <1>4, <1>5, <2>2
  <2> QED
    BY <1>2, <1>5, <2>1, <2>2
<1>8. Known' \subseteq Known \cup {scopes'}
  BY <1>7 DEF Known
<1>9. StackInv'
  BY <1>3, <1>6, <1>8 DEF StackInv
<1>10. PathInv'
  BY <1>2, <1>5, <1>6, <1>7 DEF PathInv
<1> QED
  BY <1>3, <1>8, <1>9, <1>10 DEF CInv

LEMMA BranchTypes ==
  ASSUME CInv, NEW neither \in BOOLEAN, Branch(neither), nodes' \in {nodes, nodes + 1},
         blocks # <<>>, blocks' \in Seq(Block), Len(blocks') = Len(blocks),
         NEW S, S = SubSeq(scopes, 1, Len(scopes) - 1)
  PROVE  CInv' /\ Known' \subseteq Known \cup {scopes', S}
<1> PICK top : top = Len(scopes)
  OBVIOUS
<1> PICK alts : alts = {S} \cup (IF neither THEN paths[top].alts ELSE {})
  OBVIOUS
<1>1. /\ aliases' = aliases /\ tmpSeq' = tmpSeq /\ clash' = clash
      /\ scopes' = Append(paths[top].pre, EmptyScope)
      /\ paths' = [paths EXCEPT ![top].alts = alts]
  BY DEF Branch
<1>2. /\ scopes \in Seq(ScopeSet) /\ Len(scopes) = Len(blocks) /\ scopes \in Known
      /\ paths \in Seq(PathSet) /\ Len(paths) = Len(blocks) /\ Len(paths) \in Nat
      /\ blocks \in Seq(Block)
  BY Typed, PathTypes DEF Known, CInv, TextInv
<1>3. top \in 1..Len(paths) /\ Len(scopes) # 0
  BY <1>2
<1>4. TextInv' /\ NameInv' /\ nodes' \in Nat /\ \A R \in Known : Stack(R, aliases', tmpSeq', nodes')
  BY <1>1, MoveTypes
<1>5. S \in Seq(ScopeSet) /\ Len(S) = top - 1 /\ Stack(S, aliases', tmpSeq', nodes')
  BY <1>2, <1>3, <1>4, StackClose DEF Stack
<1> DEFINE p == [paths[top] EXCEPT !.alts = alts]
<1>6. paths' = [paths EXCEPT ![top] = p]
  BY <1>1
<1>7. /\ paths[top] \in PathSet /\ paths[top].pre \in Known /\ Len(paths[top].pre) = top - 1
      /\ \A R \in paths[top].alts : R \in Known /\ R \in Seq(ScopeSet) /\ Len(R) = top - 1
  BY <1>3, PathTypes
<1>8. alts \in SUBSET Seq(ScopeSet) /\ \A R \in alts : R \in Known \cup {S} /\ Len(R) = top - 1
  BY <1>5, <1>7
<1>9. p \in PathSet /\ p.pre = paths[top].pre /\ p.alts = alts
  BY <1>7, <1>8 DEF PathSet
<1> HIDE DEF p
<1>10. /\ paths' \in Seq(PathSet) /\ Len(paths') = Len(paths)
       /\ \A k \in 1..Len(paths) : paths'[k] = IF k = top THEN p ELSE paths[k]
  BY <1>2, <1>3, <1>6, <1>9
<1>11. Stack(scopes', aliases', tmpSeq', nodes') /\ Len(scopes') = top
  <2>1. Stack(paths[top].pre, aliases', tmpSeq', nodes')
    BY <1>4, <1>7
  <2>2. Len(scopes') = Len(paths[top].pre) + 1 /\ Stack(scopes', aliases', tmpSeq', nodes')
    BY <1>1, <2>1, StackOpen
  <2> QED
    BY <1>2, <1>7, <2>2
<1>12. ASSUME NEW k \in 1..Len(paths')
       PROVE  /\ paths'[k].pre \in Known /\ Len(paths'[k].pre) = k - 1
              /\ \A R \in paths'[k].alts : R \in Known \cup {S} /\ Len(R) = k - 1
  <2>1. CASE k = top
    BY <1>7, <1>8, <1>9, <1>10, <2>1
  <2>2. CASE k # top
    <3>1. k \in 1..Len(paths) /\ paths'[k] = paths[k]
      BY <1>10, <2>2
    <3> QED
      BY <3>1, PathTypes
  <2> QED
    BY <2>1, <2>2
<1>13. Known' \subseteq Known \cup {scopes', S}
  <2> SUFFICES ASSUME NEW R \in Known' PROVE R \in Known \cup {scopes', S}
    OBVIOUS
  <2>1. CASE R = scopes'
    BY <2>1
  <2>2. CASE \E k \in 1..Len(paths') : R = paths'[k].pre
    BY <1>12, <2>2
  <2>3. CASE \E k \in 1..Len(paths') : R \in paths'[k].alts
    BY <1>12, <2>3
  <2> QED
    BY <2>1, <2>2, <2>3 DEF Known
<1>14. StackInv'
  BY <1>4, <1>5, <1>11, <1>13 DEF StackInv
<1>15. PathInv'
  BY <1>2, <1>10, <1>11, <1>12 DEF PathInv
<1> QED
  BY <1>4, <1>13, <1>14, <1>15 DEF CInv

LEMMA CloseTypes ==
  ASSUME CInv, CloseScope, nodes' = nodes, blocks # <<>>,
         blocks' \in Seq(Block), Len(blocks') = Len(blocks) - 1,
         NEW S, S = SubSeq(scopes, 1, Len(scopes) - 1)
  PROVE  CInv' /\ Known' \subseteq Known \cup {S}
<1> PICK top : top = Len(scopes)
  OBVIOUS
<1>1. /\ aliases' = aliases /\ tmpSeq' = tmpSeq /\ clash' = clash
      /\ scopes' \in {S} \cup paths[top].alts
      /\ paths' = SubSeq(paths, 1, top - 1)
  BY DEF CloseScope
<1>2. /\ scopes \in Seq(ScopeSet) /\ Len(scopes) = Len(blocks) /\ scopes \in Known
      /\ paths \in Seq(PathSet) /\ Len(paths) = Len(blocks) /\ Len(paths) \in Nat
      /\ blocks \in Seq(Block)
  BY Typed, PathTypes DEF Known, CInv, TextInv
<1>3. top \in 1..Len(paths) /\ Len(scopes) # 0 /\ Len(paths) # 0 /\ top = Len(paths)
  BY <1>2
<1>4. TextInv' /\ NameInv' /\ nodes' \in Nat /\ \A R \in Known : Stack(R, aliases', tmpSeq', nodes')
  BY <1>1, MoveTypes
<1>5. S \in Seq(ScopeSet) /\ Len(S) = top - 1 /\ Stack(S, aliases', tmpSeq', nodes')
  BY <1>2, <1>3, <1>4, StackClose DEF Stack
<1>6. \A R \in paths[top].alts : R \in Known /\ Len(R) = top - 1
  BY <1>3, PathTypes
<1>7. /\ paths' \in Seq(PathSet) /\ Len(paths') = top - 1
      /\ \A k \in 1..(top - 1) : k \in 1..Len(paths) /\ paths'[k] = paths[k]
  <2>1. /\ SubSeq(paths, 1, Len(paths) - 1) \in Seq(PathSet)
        /\ Len(SubSeq(paths, 1, Len(paths) - 1)) = Len(paths) - 1
        /\ \A k \in 1..(Len(paths) - 1) :
             k \in 1..Len(paths) /\ SubSeq(paths, 1, Len(paths) - 1)[k] = paths[k]
    BY <1>2, <1>3, CutLast
  <2> QED
    BY <1>1, <1>3, <2>1
<1>8. scopes' \in Known \cup {S} /\ Len(scopes') = top - 1
  BY <1>1, <1>5, <1>6
<1>9. ASSUME NEW k \in 1..Len(paths')
      PROVE  /\ paths'[k].pre \in Known /\ Len(paths'[k].pre) = k - 1
             /\ \A R \in paths'[k].alts : R \in Known /\ Len(R) = k - 1
  <2>1. k \in 1..Len(paths) /\ paths'[k] = paths[k]
    BY <1>7
  <2> QED
    BY <2>1, PathTypes
<1>10. Known' \subseteq Known \cup {S}
  BY <1>8, <1>9 DEF Known
<1>11. StackInv'
  BY <1>4, <1>5, <1>10 DEF StackInv
<1>12. PathInv'
  BY <1>2, <1>7, <1>8, <1>9 DEF PathInv
<1> QED
  BY <1>4, <1>10, <1>11, <1>12 DEF CInv

-----------------------------------------------------------------------------
\* What the block structure of the text does, for the three moves.
LEMMA OpenStep ==
  ASSUME CInv, NEW skips \in BOOLEAN, OpenScope(skips),
         OpenHelper \/ OpenProgram \/ \E kind \in {"if", "for", "block"} : Open(kind)
  PROVE  CInv' /\ Known' \subseteq Known \cup {scopes'}
<1>1. nodes \in Nat /\ blocks \in Seq(Block)
  BY DEF CInv, TextInv
<1>2. /\ nodes' = nodes + 1
      /\ \E kind \in BlockKinds : blocks' = Append(blocks, [kind |-> kind, node |-> nodes + 1])
  BY DEF OpenHelper, OpenProgram, Open, Statement, Visit, Node, Push, BlockKinds
<1>3. PICK kind \in BlockKinds : blocks' = Append(blocks, [kind |-> kind, node |-> nodes + 1])
  BY <1>2
<1>4. [kind |-> kind, node |-> nodes + 1] \in Block
  BY <1>1 DEF Block
<1>5. blocks' \in Seq(Block) /\ Len(blocks') = Len(blocks) + 1
  BY <1>1, <1>3, <1>4
<1> QED
  BY <1>2, <1>5, OpenTypes

LEMMA BranchStep ==
  ASSUME CInv, NEW neither \in BOOLEAN, Branch(neither), Else \/ ElseIf(0),
         NEW S, S = SubSeq(scopes, 1, Len(scopes) - 1)
  PROVE  /\ CInv' /\ Known' \subseteq Known \cup {scopes', S}
         /\ blocks # <<>>
<1>1. nodes \in Nat /\ blocks \in Seq(Block) /\ blocks # <<>>
  BY DEF CInv, TextInv, Else, ElseIf
<1>2. Top \in Block
  BY <1>1 DEF Top
<1>3. Top.node \in Nat
  BY <1>2 DEF Block
<1>4. /\ nodes' \in {nodes, nodes + 1}
      /\ \E kind \in BlockKinds, n \in Nat : blocks' = [blocks EXCEPT ![Len(blocks)] = [kind |-> kind, node |-> n]]
  BY <1>1, <1>3 DEF Else, ElseIf, Visit, Node, Retop, BlockKinds
<1>5. PICK kind \in BlockKinds, n \in Nat : blocks' = [blocks EXCEPT ![Len(blocks)] = [kind |-> kind, node |-> n]]
  BY <1>4
<1>6. [kind |-> kind, node |-> n] \in Block
  BY DEF Block
<1>7. blocks' \in Seq(Block) /\ Len(blocks') = Len(blocks)
  BY <1>1, <1>5, <1>6
<1> QED
  BY <1>1, <1>4, <1>7, BranchTypes

LEMMA CloseStep ==
  ASSUME CInv, CloseBlock, NEW S, S = SubSeq(scopes, 1, Len(scopes) - 1)
  PROVE  /\ CInv' /\ Known' \subseteq Known \cup {S}
         /\ blocks # <<>>
<1>1. nodes \in Nat /\ blocks \in Seq(Block) /\ blocks # <<>> /\ Len(blocks) # 0
  BY DEF CInv, TextInv, CloseBlock, Close, CloseElseIf, CloseFunction
<1>2. nodes' = nodes /\ blocks' = SubSeq(blocks, 1, Len(blocks) - 1) /\ CloseScope
  BY <1>1 DEF CloseBlock, Close, CloseElseIf, CloseFunction, Pop
<1>3. blocks' \in Seq(Block) /\ Len(blocks') = Len(blocks) - 1
  BY <1>1, <1>2, CutLast
<1> QED
  BY <1>1, <1>2, <1>3, CloseTypes

\* The start, and the end of a failed emit.
LEMMA NothingOpen ==
  ASSUME NEW A, NEW t, NEW n
  PROVE  Stack(<<>>, A, t, n) /\ Len(<<>>) = 0
  BY DEF Stack

LEMMA TypesInit ==
  ASSUME CInit
  PROVE  CInv
<1>1. TextInv
  <2>1. nodes = 0 /\ blocks = <<>> /\ tmpSeq = 0 /\ clash = FALSE
    BY DEF CInit, Init
  <2>2. nodes \in Nat /\ blocks \in Seq(Block) /\ tmpSeq \in 0..nodes
    BY <2>1
  <2>3. clash \in BOOLEAN
    BY <2>1, Zenon
  <2> QED
    BY <2>2, <2>3 DEF TextInv
<1>2. NameInv
  <2>1. <<>> \in [{} -> CNames] /\ DOMAIN <<>> = {}
    OBVIOUS
  <2>2. <<>> \in AliasSet
    BY <2>1 DEF AliasSet
  <2> QED
    BY <2>1, <2>2 DEF CInit, NameInv
<1>3. PathInv
  BY DEF CInit, Init, PathInv
<1>4. Known = {<<>>}
  BY DEF CInit, Known
<1> QED
  BY <1>1, <1>2, <1>3, <1>4, NothingOpen DEF CInv, StackInv

LEMMA AbortStep ==
  ASSUME CInv, Abort
  PROVE  CInv' /\ Known' = {<<>>}
<1>1. /\ blocks' = <<>> /\ scopes' = <<>> /\ paths' = <<>> /\ nodes' = nodes
      /\ aliases' = aliases /\ tmpSeq' = tmpSeq /\ clash' = clash
  BY DEF Abort, Fail
<1>2. TextInv' /\ NameInv'
  BY <1>1, MoveTypes
<1>3. Known' = {<<>>}
  BY <1>1 DEF Known
<1>4. PathInv'
  BY <1>1 DEF PathInv
<1> QED
  BY <1>2, <1>3, <1>4, NothingOpen DEF CInv, StackInv

LEMMA OtherStep ==
  ASSUME CInv, Other \/ UNCHANGED allVars
  PROVE  CInv' /\ Known' = Known
<1>1. UNCHANGED <<blocks, nodes, aliases, tmpSeq, scopes, paths, clash>>
  BY DEF Other, WriteHeader, Finish, ownVars, allVars, vars
<1>2. Known' = Known
  BY <1>1 DEF Known
<1> QED
  BY <1>1, <1>2 DEF CInv, TextInv, NameInv, PathInv, StackInv

LEMMA TypesNext ==
  ASSUME CInv, [CNext]_allVars
  PROVE  CInv'
<1> PICK S : S = SubSeq(scopes, 1, Len(scopes) - 1)
  OBVIOUS
<1>1. ASSUME NEW prefix \in Prefixes, NEW v \in Names \cup {Blank}, NEW ok \in Names \cup {Blank},
             CommaOk(prefix, v, ok)
      PROVE  CInv'
  BY <1>1, CommaOkTypes
<1>2. ASSUME NEW x \in Names, NEW y \in Visible, Define(x, y) PROVE CInv'
  BY <1>2, DefineTypes
<1>3. ASSUME NEW x \in Names, NEW type \in {"ptr", "bool"}, DeclareVar(x, type) PROVE CInv'
  BY <1>3, DeclareVarTypes
<1>4. ASSUME NEW x \in Visible, NEW r \in Rhs, Assign(x, r) PROVE CInv'
  BY <1>4, AssignTypes
<1>5. CASE OpenFunction
  BY <1>5, OpenStep DEF OpenFunction
<1>6. ASSUME NEW kind \in {"if", "for", "block"}, OpenBlock(kind) PROVE CInv'
  <2>1. Open(kind) /\ OpenScope(kind # "block") /\ (kind # "block") \in BOOLEAN
    BY <1>6 DEF OpenBlock
  <2> QED
    BY <2>1, OpenStep
<1>7. CASE ElseBranch
  BY <1>7, BranchStep DEF ElseBranch
<1>8. CASE ElseIfBranch
  BY <1>8, BranchStep DEF ElseIfBranch
<1>9. CASE CloseBlock
  BY <1>9, CloseStep
<1>10. CASE Abort
  BY <1>10, AbortStep
<1>11. CASE Other \/ UNCHANGED allVars
  BY <1>11, OtherStep
<1> QED
  BY <1>1, <1>2, <1>3, <1>4, <1>5, <1>6, <1>7, <1>8, <1>9, <1>10, <1>11 DEF CNext, Rhs

\* The invariant of the type layer holds in every state.
THEOREM CommaOkInvariant == CSpec => []CInv
  BY TypesInit, TypesNext, PTL DEF CSpec

\* The aliases, the counter and the blocks of comma-ok translation keep their types for
\* programs of any size and in any form: the stacks of Go and C blocks grow and
\* shrink together with the walk's, and an alias is a Go name or a synthetic one
\* that resolveLHSName has given out.
THEOREM CommaOkTyped == CSpec => []CTypeOK
<1>1. ASSUME CInv PROVE CTypeOK
  <2>1. Len(scopes) = Len(blocks) /\ Len(paths) = Len(blocks) /\ tmpSeq \in 0..nodes /\ clash \in BOOLEAN
    BY <1>1 DEF CInv, PathInv, TextInv
  <2>2. ASSUME NEW o \in DOMAIN aliases
        PROVE  /\ o \in (1..nodes) \X (Names \cup {Blank})
               /\ aliases[o] \in Names \cup (Prefixes \X (1..tmpSeq))
    <3>1. aliases \in AliasSet /\ o[1] \in 1..nodes /\ aliases[o] \in Names \cup (Prefixes \X (1..tmpSeq))
      BY <1>1 DEF CInv, NameInv
    <3>2. o \in Objects
      BY <3>1, AliasType
    <3> QED
      BY <3>1, <3>2 DEF Objects
  <2>3. ASSUME NEW d \in 1..Len(scopes)
        PROVE  /\ DOMAIN scopes[d].go \subseteq Names
               /\ \A x \in DOMAIN scopes[d].go : scopes[d].go[x].type \in {"ptr", "bool"}
    <3>1. scopes[d] \in ScopeSet
      BY <1>1, Typed
    <3>2. /\ DOMAIN scopes[d].go \subseteq Names
          /\ \A x \in DOMAIN scopes[d].go : scopes[d].go[x] \in GoVarSet
      BY <3>1, ScopeType
    <3> QED
      BY <3>2 DEF GoVarSet
  <2> QED
    BY <2>1, <2>2, <2>3 DEF CTypeOK
<1> QED
  BY <1>1, CommaOkInvariant, PTL

-----------------------------------------------------------------------------
\* An ordinary identifier is no synthetic name and not `_`.
LEMMA OrdinaryNames ==
  ASSUME NEW x \in Names
  PROVE  x # Blank /\ \A p, k : k # 0 => x # <<p, k>>
<1>1. x # Blank
  BY NamesAssumption DEF Blank
<1>2. x \in STRING \X {0}
  BY NamesAssumption
<1>3. x[2] = 0
  BY <1>2
<1>4. ASSUME NEW p, NEW k, k # 0 PROVE x # <<p, k>>
  <2>1. <<p, k>>[2] = k
    OBVIOUS
  <2> QED
    BY <1>3, <1>4, <2>1
<1> QED
  BY <1>1, <1>4

\* A name a block does not declare in Go it does not declare in C, and the next
\* synthetic name is in no block at all.
LEMMA FreshInC ==
  ASSUME NEW s \in ScopeSet, NEW A, NEW t \in Nat, NEW n, Fits(s, A, t, n)
  PROVE  /\ \A x \in Names : x \notin DOMAIN s.go => x \notin DOMAIN s.c
         /\ \A p \in Prefixes : <<p, t + 1>> \notin DOMAIN s.c
<1>1. ASSUME NEW x \in Names, x \in DOMAIN s.c PROVE x \in DOMAIN s.go
  <2>1. ASSUME x \in Prefixes \X (1..t) PROVE FALSE
    <3>1. PICK p \in Prefixes, k \in 1..t : x = <<p, k>>
      BY <2>1
    <3> QED
      BY <3>1, OrdinaryNames
  <2> QED
    BY <1>1, <2>1 DEF Fits
<1>2. ASSUME NEW p \in Prefixes, <<p, t + 1>> \in DOMAIN s.c PROVE FALSE
  <2>1. CASE <<p, t + 1>> \in DOMAIN s.go
    <3>1. <<p, t + 1>> \in Names /\ t + 1 # 0
      BY <2>1, ScopeType
    <3> QED
      BY <3>1, OrdinaryNames
  <2>2. CASE <<p, t + 1>> \in Prefixes \X (1..t)
    BY <2>2
  <2> QED
    BY <1>2, <2>1, <2>2 DEF Fits
<1> QED
  BY <1>1, <1>2

\* Without reuse both targets of a comma-ok are new in the block.
LEMMA FreshTargets ==
  ASSUME CInv, "reuse" \notin Forms, NEW prefix \in Prefixes,
         NEW v \in Names \cup {Blank}, NEW ok \in Names \cup {Blank},
         CommaOk(prefix, v, ok)
  PROVE  /\ v \notin DOMAIN Inner.go /\ ok \notin DOMAIN Inner.go
         /\ \A x \in {v, ok} \ {Blank} : MayDeclare(x)
         /\ LHSName(v, prefix) \notin DOMAIN Inner.c
<1> PICK s : s = Inner
  OBVIOUS
<1>1. s \in ScopeSet /\ Fits(s, aliases, tmpSeq, nodes) /\ tmpSeq \in Nat
  BY Typed, StatementStep DEF CommaOk
<1>2. DOMAIN s.go \subseteq Names
  BY <1>1, ScopeType
<1>3. Blank \notin DOMAIN s.go
  BY <1>2, OrdinaryNames
<1>4. \A x \in {v, ok} \ {Blank} : x \notin DOMAIN s.go /\ MayDeclare(x)
  BY DEF CommaOk
<1>5. v \notin DOMAIN s.go /\ ok \notin DOMAIN s.go
  BY <1>3, <1>4
<1>6. LHSName(v, prefix) \notin DOMAIN s.c
  BY <1>1, <1>5, FreshInC DEF LHSName
<1> QED
  BY <1>4, <1>5, <1>6

LEMMA ClashNext ==
  ASSUME CInv, "reuse" \notin Forms, ~clash, [CNext]_allVars
  PROVE  ~clash'
<1>1. ASSUME NEW prefix \in Prefixes, NEW v \in Names \cup {Blank}, NEW ok \in Names \cup {Blank},
             CommaOk(prefix, v, ok)
      PROVE  ~clash'
  <2>1. LHSName(v, prefix) \notin DOMAIN Inner.c
    BY <1>1, FreshTargets
  <2> QED
    BY <1>1, <2>1 DEF CommaOk
<1>2. ASSUME WriteSimple \/ WriteDecl(1), NEW x \in Names, MayDeclare(x)
      PROVE  x \notin DOMAIN Inner.c
  <2> PICK s : s = Inner
    OBVIOUS
  <2>1. s \in ScopeSet /\ Fits(s, aliases, tmpSeq, nodes) /\ tmpSeq \in Nat
    BY <1>2, Typed, StatementStep
  <2>2. x \notin DOMAIN s.go
    BY <1>2 DEF MayDeclare
  <2> QED
    BY <2>1, <2>2, FreshInC
<1>3. ASSUME NEW x \in Names, NEW y \in Visible, Define(x, y) PROVE ~clash'
  BY <1>2, <1>3 DEF Define
<1>4. ASSUME NEW x \in Names, NEW type \in {"ptr", "bool"}, DeclareVar(x, type) PROVE ~clash'
  BY <1>2, <1>4 DEF DeclareVar
<1>5. ASSUME NEW x \in Visible, NEW r \in Rhs, Assign(x, r) PROVE ~clash'
  BY <1>5 DEF Assign
<1>6. CASE OpenFunction \/ \E kind \in {"if", "for", "block"} : OpenBlock(kind)
  BY <1>6 DEF OpenFunction, OpenBlock, OpenScope
<1>7. CASE ElseBranch \/ ElseIfBranch \/ CloseBlock
  BY <1>7 DEF ElseBranch, ElseIfBranch, CloseBlock, Branch, CloseScope
<1>8. CASE Abort \/ Other \/ UNCHANGED allVars
  BY <1>8 DEF Abort, Other, ownVars, allVars
<1> QED
  BY <1>1, <1>3, <1>4, <1>5, <1>6, <1>7, <1>8 DEF CNext, Rhs

\* No C block declares a name twice (resolveLHSName, "must not emit duplicate
\* decls"), in a program of any size whose comma-oks declare both their targets,
\* whether or not its declarations hide one another.
THEOREM NoDuplicateDecls == "reuse" \notin Forms => (CSpec => []NoClash)
<1> SUFFICES ASSUME "reuse" \notin Forms PROVE CSpec => []NoClash
  OBVIOUS
<1>1. CInit => ~clash
  BY DEF CInit
<1>2. CInv /\ ~clash /\ [CNext]_allVars => ~clash'
  BY ClashNext
<1>3. NoClash <=> ~clash
  BY DEF NoClash
<1> QED
  BY <1>1, <1>2, <1>3, CommaOkInvariant, PTL DEF CSpec

-----------------------------------------------------------------------------
\* Later aliases leave the meaning of the known blocks.
LEMMA MeantLater ==
  ASSUME NEW S, NEW A, NEW B, NEW t, NEW n \in Nat, Stack(S, A, t, n), Meant(S, A),
         Grows(A, B, n)
  PROVE  Meant(S, B)
<1>1. ASSUME NEW d \in 1..Len(S), NEW x \in DOMAIN S[d].go
      PROVE  CText(S[d], B, x) = CText(S[d], A, x)
  <2>1. Fits(S[d], A, t, n)
    BY DEF Stack
  <2> QED
    BY <2>1, TextLater
<1>2. ASSUME NEW d \in 1..Len(S) PROVE Agrees(S[d], B)
  <2>1. Agrees(S[d], A)
    BY DEF Meant
  <2> QED
    BY <1>1, <2>1 DEF Agrees
<1> QED
  BY <1>2 DEF Meant

\* Opening and closing a block, and a change to one of them.
LEMMA MeantOpen ==
  ASSUME NEW S \in Seq(ScopeSet), NEW A, Meant(S, A)
  PROVE  Meant(Append(S, EmptyScope), A)
<1> DEFINE R == Append(S, EmptyScope)
<1>1. EmptyScope \in ScopeSet /\ DOMAIN EmptyScope.go = {} /\ DOMAIN EmptyScope.c = {}
  BY EmptyTyped
<1>2. /\ Len(R) = Len(S) + 1 /\ Len(S) \in Nat
      /\ \A d \in 1..Len(S) : R[d] = S[d]
      /\ R[Len(S) + 1] = EmptyScope
  BY <1>1
<1> HIDE DEF R
<1>3. Agrees(EmptyScope, A)
  BY <1>1 DEF Agrees
<1>4. \A d \in 1..Len(R) : Agrees(R[d], A)
  BY <1>2, <1>3 DEF Meant
<1>5. Apart(R)
  BY <1>1, <1>2 DEF Apart, Meant
<1> QED
  BY <1>4, <1>5 DEF Meant, R

LEMMA MeantClose ==
  ASSUME NEW S \in Seq(ScopeSet), NEW A, Meant(S, A), Len(S) # 0
  PROVE  Meant(SubSeq(S, 1, Len(S) - 1), A)
<1> DEFINE R == SubSeq(S, 1, Len(S) - 1)
<1>1. Len(R) = Len(S) - 1 /\ \A d \in 1..(Len(S) - 1) : d \in 1..Len(S) /\ R[d] = S[d]
  BY CutLast
<1> HIDE DEF R
<1>2. \A d \in 1..Len(R) : Agrees(R[d], A)
  BY <1>1 DEF Meant
<1>3. Apart(R)
  BY <1>1 DEF Apart, Meant
<1> QED
  BY <1>2, <1>3 DEF Meant, R

LEMMA MeantSet ==
  ASSUME NEW S \in Seq(ScopeSet), NEW A, Meant(S, A), NEW k \in 1..Len(S), NEW b,
         Agrees(b, A),
         \A d \in 1..Len(S) : d # k =>
           /\ DOMAIN S[d].go \cap DOMAIN b.go = {}
           /\ DOMAIN S[d].c \cap DOMAIN b.c = {}
  PROVE  Meant(SetAt(S, k, b), A)
<1> DEFINE R == SetAt(S, k, b)
<1>1. Len(R) = Len(S) /\ \A d \in 1..Len(S) : R[d] = IF d = k THEN b ELSE S[d]
  BY DEF SetAt
<1> HIDE DEF R
<1>2. \A d \in 1..Len(R) : Agrees(R[d], A)
  BY <1>1 DEF Meant
<1>3. ASSUME NEW d \in 1..Len(R), NEW e \in 1..Len(R), d # e
      PROVE  /\ DOMAIN R[d].go \cap DOMAIN R[e].go = {}
             /\ DOMAIN R[d].c \cap DOMAIN R[e].c = {}
  <2>1. CASE d = k
    BY <1>1, <1>3, <2>1
  <2>2. CASE e = k
    BY <1>1, <1>3, <2>2
  <2>3. CASE d # k /\ e # k
    BY <1>1, <1>3, <2>3 DEF Meant, Apart
  <2> QED
    BY <2>1, <2>2, <2>3
<1> QED
  BY <1>2, <1>3 DEF Meant, Apart, R

\* The C text of a variable in scope evaluates, in C's own scoping, to what its
\* block says.
LEMMA MeantSimulates ==
  ASSUME CInv, MeantInv, NEW x \in Visible
  PROVE  /\ ~GoVar(x).over => CVal(FormatIdent(x)) = Shown(GoVar(x).val)
         /\ \E d \in 1..Len(scopes) : FormatIdent(x) \in DOMAIN scopes[d].c
<1> PICK g : g = Innermost("go", x)
  OBVIOUS
<1> PICK f : f = CText(scopes[g], aliases, x)
  OBVIOUS
<1> PICK k : k = Innermost("c", f)
  OBVIOUS
<1>1. scopes \in Seq(ScopeSet) /\ Meant(scopes, aliases)
  BY Typed DEF MeantInv, Known
<1>2. g \in 1..Len(scopes) /\ x \in DOMAIN scopes[g].go
  BY <1>1, InnermostGo
<1>3. GoVar(x) = scopes[g].go[x]
  BY DEF GoVar
<1>4. FormatIdent(x) = f
  BY <1>3 DEF FormatIdent, TextOf, CText
<1>5. f \in DOMAIN scopes[g].c /\ (~scopes[g].go[x].over => scopes[g].c[f] = Shown(scopes[g].go[x].val))
  BY <1>1, <1>2 DEF Meant, Agrees
<1>6. k \in 1..Len(scopes) /\ f \in DOMAIN scopes[k].c
  BY <1>1, <1>2, <1>5, InnermostC
<1>7. k = g
  BY <1>1, <1>2, <1>5, <1>6 DEF Meant, Apart
<1>8. CVal(f) = scopes[g].c[f]
  BY <1>2, <1>5, <1>7 DEF CVal
<1> QED
  BY <1>2, <1>3, <1>4, <1>5, <1>8

\* A name that may be declared, where none hides another, is in no block yet.
LEMMA NotHiding ==
  ASSUME CInv, "shadow" \notin Forms, NEW x \in Names, MayDeclare(x)
  PROVE  \A d \in 1..Len(scopes) : x \notin DOMAIN scopes[d].go /\ x \notin DOMAIN scopes[d].c
<1>1. Stack(scopes, aliases, tmpSeq, nodes) /\ tmpSeq \in Nat
  BY Typed
<1>2. ASSUME NEW d \in 1..Len(scopes)
      PROVE  x \notin DOMAIN scopes[d].go /\ x \notin DOMAIN scopes[d].c
  <2>1. scopes[d] \in ScopeSet /\ Fits(scopes[d], aliases, tmpSeq, nodes)
    BY <1>1 DEF Stack
  <2>2. x \notin DOMAIN scopes[d].go
    BY DEF MayDeclare, Visible
  <2> QED
    BY <1>1, <2>1, <2>2, FreshInC
<1> QED
  BY <1>2

\* Where the other stacks stay, only the changed one has to be looked at.
LEMMA MeantStays ==
  ASSUME CInv, MeantInv, paths' = paths, Meant(scopes', aliases'),
         Grows(aliases, aliases', nodes)
  PROVE  MeantInv'
<1>1. Known' \subseteq Known \cup {scopes'}
  BY DEF Known
<1>2. ASSUME NEW S \in Known PROVE Meant(S, aliases')
  <2>1. Stack(S, aliases, tmpSeq, nodes) /\ Meant(S, aliases) /\ nodes \in Nat
    BY Typed DEF MeantInv, CInv, StackInv
  <2> QED
    BY <2>1, MeantLater
<1> QED
  BY <1>1, <1>2 DEF MeantInv

\* A declaration whose C value is that of the Go variable.
LEMMA DeclareMeant ==
  ASSUME CInv, MeantInv, "shadow" \notin Forms, WriteSimple \/ WriteDecl(1),
         NEW x \in Names, NEW r \in GoVarSet, NEW w \in Nat, r.decl = nodes + 1,
         ~r.over => w = Shown(r.val), MayDeclare(x),
         scopes' = SetAt(scopes, Len(scopes), AfterDeclare(x, r, w)),
         aliases' = aliases, paths' = paths
  PROVE  MeantInv'
<1> PICK s : s = Inner
  OBVIOUS
<1> PICK b : b = AfterDeclare(x, r, w)
  OBVIOUS
<1> PICK k : k = Len(scopes)
  OBVIOUS
<1>1. /\ nodes \in Nat /\ scopes \in Seq(ScopeSet) /\ Meant(scopes, aliases)
      /\ \A o \in DOMAIN aliases : o[1] \in 1..nodes
  BY Typed DEF MeantInv, Known, CInv, NameInv
<1>2. k \in 1..Len(scopes) /\ s \in ScopeSet /\ s = scopes[k]
  BY StatementStep DEF Inner
<1>3. /\ DOMAIN b.go = DOMAIN s.go \cup {x} /\ DOMAIN b.c = DOMAIN s.c \cup {x}
      /\ b.go[x] = r /\ b.c[x] = w
      /\ \A y \in DOMAIN s.go : y # x => b.go[y] = s.go[y]
      /\ \A y \in DOMAIN s.c : y # x => b.c[y] = s.c[y]
  BY <1>2, DeclareBlock
<1>4. \A d \in 1..Len(scopes) : x \notin DOMAIN scopes[d].go /\ x \notin DOMAIN scopes[d].c
  BY NotHiding
<1>5. Agrees(s, aliases)
  BY <1>1, <1>2 DEF Meant
<1>6. ASSUME NEW y \in DOMAIN b.go
      PROVE  /\ CText(b, aliases, y) \in DOMAIN b.c
             /\ ~b.go[y].over => b.c[CText(b, aliases, y)] = Shown(b.go[y].val)
  <2>1. CASE y = x
    <3>1. <<nodes + 1, x>>[1] = nodes + 1 /\ nodes + 1 \notin 1..nodes
      BY <1>1
    <3>2. <<nodes + 1, x>> \notin DOMAIN aliases
      BY <1>1, <3>1
    <3>3. CText(b, aliases, y) = x
      BY <1>3, <2>1, <3>2 DEF CText
    <3> QED
      BY <1>3, <2>1, <3>3
  <2>2. CASE y # x
    <3> PICK f : f = CText(s, aliases, y)
      OBVIOUS
    <3>1. y \in DOMAIN s.go /\ b.go[y] = s.go[y]
      BY <1>3, <2>2
    <3>2. CText(b, aliases, y) = f
      BY <3>1 DEF CText
    <3>3. f \in DOMAIN s.c /\ (~s.go[y].over => s.c[f] = Shown(s.go[y].val))
      BY <1>5, <3>1 DEF Agrees
    <3>4. f # x
      BY <1>2, <1>4, <3>3
    <3> QED
      BY <1>3, <3>1, <3>2, <3>3, <3>4
  <2> QED
    BY <2>1, <2>2
<1>7. Agrees(b, aliases)
  BY <1>6 DEF Agrees
<1>8. ASSUME NEW d \in 1..Len(scopes), d # k
      PROVE  /\ DOMAIN scopes[d].go \cap DOMAIN b.go = {}
             /\ DOMAIN scopes[d].c \cap DOMAIN b.c = {}
  <2>1. /\ DOMAIN scopes[d].go \cap DOMAIN s.go = {}
        /\ DOMAIN scopes[d].c \cap DOMAIN s.c = {}
    BY <1>1, <1>2, <1>8 DEF Meant, Apart
  <2> QED
    BY <1>3, <1>4, <2>1
<1>9. Meant(SetAt(scopes, k, b), aliases)
  BY <1>1, <1>2, <1>7, <1>8, MeantSet
<1>10. Grows(aliases, aliases', nodes)
  BY GrowsSame
<1> QED
  BY <1>9, <1>10, MeantStays

LEMMA DefineMeant ==
  ASSUME CInv, MeantInv, "shadow" \notin Forms, NEW x \in Names, NEW y \in Visible,
         Define(x, y)
  PROVE  MeantInv'
<1> DEFINE r == Declared(GoVar(y).type, GoVar(y).val, GoVar(y).over)
<1> PICK f : f = FormatIdent(y)
  OBVIOUS
<1> PICK w : w = CVal(f)
  OBVIOUS
<1>1. nodes \in Nat /\ scopes \in Seq(ScopeSet)
  BY Typed
<1>2. r \in GoVarSet /\ r.decl = nodes + 1 /\ r.val = GoVar(y).val /\ r.over = GoVar(y).over
  <2>1. GoVar(y).type \in {"ptr", "bool"} /\ GoVar(y).val \in Nat /\ GoVar(y).over \in BOOLEAN
    BY <1>1, GoVarType
  <2> QED
    BY <1>1, <2>1 DEF GoVarSet, Node, Declared
<1>3. w \in Nat
  BY <1>1, CValType
<1>4. (~GoVar(y).over => w = Shown(GoVar(y).val)) /\ \E d \in 1..Len(scopes) : f \in DOMAIN scopes[d].c
  BY MeantSimulates
<1>5. WriteSimple /\ MayDeclare(x) /\ aliases' = aliases /\ paths' = paths
  BY DEF Define
<1>6. f # x
  BY <1>4, <1>5, NotHiding
<1>7. scopes' = SetAt(scopes, Len(scopes), AfterDeclare(x, r, w))
  <2>1. Len(scopes) \in 1..Len(scopes)
    BY <1>5, StatementStep
  <2> QED
    BY <2>1, <1>1, <1>6 DEF Define, AfterDeclare, Inner, SetAt
<1>8. ~r.over => w = Shown(r.val)
  BY <1>2, <1>4
<1> HIDE DEF r
<1> QED
  BY <1>2, <1>3, <1>5, <1>7, <1>8, DeclareMeant

LEMMA DeclareVarMeant ==
  ASSUME CInv, MeantInv, "shadow" \notin Forms, NEW x \in Names,
         NEW type \in {"ptr", "bool"}, DeclareVar(x, type)
  PROVE  MeantInv'
<1> DEFINE r == Declared(type, Zero, FALSE)
<1>1. nodes \in Nat /\ scopes \in Seq(ScopeSet)
  BY Typed
<1>2. r \in GoVarSet /\ r.decl = nodes + 1 /\ Junk \in Nat /\ Junk = Shown(r.val)
  BY <1>1, EmitterAssumption DEF GoVarSet, Node, Zero, Junk, Shown, Declared
<1>3. WriteDecl(1) /\ MayDeclare(x) /\ aliases' = aliases /\ paths' = paths
  BY DEF DeclareVar
<1>4. scopes' = SetAt(scopes, Len(scopes), AfterDeclare(x, r, Junk))
  <2>1. Len(scopes) \in 1..Len(scopes)
    BY <1>3, StatementStep
  <2> QED
    BY <2>1, <1>1 DEF DeclareVar, AfterDeclare, Inner, SetAt
<1> HIDE DEF r
<1> QED
  BY <1>2, <1>3, <1>4, DeclareMeant

\* A comma-ok: the pointer and the ok get one C variable, which holds what both hold.
LEMMA CommaOkMeant ==
  ASSUME CInv, MeantInv, "reuse" \notin Forms, "shadow" \notin Forms, NEW prefix \in Prefixes,
         NEW v \in Names \cup {Blank}, NEW ok \in Names \cup {Blank},
         CommaOk(prefix, v, ok)
  PROVE  MeantInv'
<1> PICK s : s = Inner
  OBVIOUS
<1> PICK name : name = LHSName(v, prefix)
  OBVIOUS
<1> PICK b : b = AfterCommaOk(prefix, v, ok)
  OBVIOUS
<1> PICK k : k = Len(scopes)
  OBVIOUS
<1>1. /\ nodes \in Nat /\ tmpSeq \in Nat /\ scopes \in Seq(ScopeSet)
      /\ Stack(scopes, aliases, tmpSeq, nodes) /\ Meant(scopes, aliases)
      /\ \A o \in DOMAIN aliases : o[1] \in 1..nodes
  BY Typed DEF MeantInv, Known, CInv, NameInv
<1>2. k \in 1..Len(scopes) /\ s \in ScopeSet /\ s = scopes[k] /\ nodes + 1 <= MaxNodes
  BY StatementStep DEF CommaOk, Inner
<1>3. scopes' = SetAt(scopes, k, b) /\ paths' = paths /\ v # ok
  BY <1>1, <1>2 DEF CommaOk, AfterCommaOk, Inner, SetAt
<1>4. /\ DOMAIN b.go = DOMAIN s.go \cup ({v, ok} \ {Blank})
      /\ \A y \in DOMAIN b.go : y \notin DOMAIN s.go => b.go[y].decl = nodes + 1
      /\ \A y \in {v, ok} \ {Blank} : b.go[y].val = nodes + 1
      /\ \A y \in DOMAIN s.go : y \notin {v, ok} => b.go[y] = s.go[y]
      /\ DOMAIN b.c = DOMAIN s.c \cup {name}
      /\ b.c[name] = nodes + 1
      /\ \A y \in DOMAIN s.c : y # name => b.c[y] = s.c[y]
  BY <1>1, <1>2, <1>3, CommaOkBlock
<1>5. /\ Grows(aliases, aliases', nodes)
      /\ \A o \in DOMAIN aliases' : o \in DOMAIN aliases \/ o = <<nodes + 1, ok>>
      /\ ok \notin DOMAIN s.go =>
           <<nodes + 1, ok>> \in DOMAIN aliases' /\ aliases'[<<nodes + 1, ok>>] = name
      /\ v # Blank => name = v
      /\ v = Blank => name = <<prefix, tmpSeq + 1>>
  BY CommaOkAliases
<1>6. /\ v \notin DOMAIN s.go /\ ok \notin DOMAIN s.go
      /\ \A x \in {v, ok} \ {Blank} : MayDeclare(x)
      /\ name \notin DOMAIN s.c
  BY FreshTargets
<1>7. \A x \in {v, ok} \ {Blank} :
        \A d \in 1..Len(scopes) : x \notin DOMAIN scopes[d].go /\ x \notin DOMAIN scopes[d].c
  BY <1>6, NotHiding
<1>8. \A d \in 1..Len(scopes) : name \notin DOMAIN scopes[d].c
  <2>1. CASE v = Blank
    <3>1. ASSUME NEW d \in 1..Len(scopes) PROVE <<prefix, tmpSeq + 1>> \notin DOMAIN scopes[d].c
      <4>1. scopes[d] \in ScopeSet /\ Fits(scopes[d], aliases, tmpSeq, nodes)
        BY <1>1 DEF Stack
      <4> QED
        BY <1>1, <4>1, FreshInC
    <3> QED
      BY <1>5, <2>1, <3>1
  <2>2. CASE v # Blank
    BY <1>5, <1>7, <2>2
  <2> QED
    BY <2>1, <2>2
<1>11. Meant(scopes, aliases')
  BY <1>1, <1>5, MeantLater
<1>12. Agrees(s, aliases')
  BY <1>2, <1>11 DEF Meant
<1>13. Shown(nodes + 1) = nodes + 1
  BY <1>1, <1>2, EmitterAssumption DEF Shown, Zero
<1>14. ASSUME NEW y \in DOMAIN b.go
       PROVE  /\ CText(b, aliases', y) \in DOMAIN b.c
              /\ ~b.go[y].over => b.c[CText(b, aliases', y)] = Shown(b.go[y].val)
  <2>1. CASE y \in DOMAIN s.go
    <3> PICK f : f = CText(s, aliases', y)
      OBVIOUS
    <3>1. b.go[y] = s.go[y]
      BY <1>4, <1>6, <2>1
    <3>2. CText(b, aliases', y) = f
      BY <3>1 DEF CText
    <3>3. f \in DOMAIN s.c /\ (~s.go[y].over => s.c[f] = Shown(s.go[y].val))
      BY <1>12, <2>1 DEF Agrees
    <3>4. f # name
      BY <1>6, <3>3
    <3>5. f \in DOMAIN b.c /\ b.c[f] = s.c[f]
      BY <1>4, <3>3, <3>4
    <3> QED
      BY <3>1, <3>2, <3>3, <3>5
  <2>2. CASE y = v /\ v # Blank
    <3>1. y \notin DOMAIN s.go /\ b.go[y].decl = nodes + 1 /\ b.go[y].val = nodes + 1
      BY <1>4, <1>6, <2>2
    <3>2. <<nodes + 1, v>> \notin DOMAIN aliases'
      <4>1. <<nodes + 1, v>>[1] = nodes + 1 /\ nodes + 1 \notin 1..nodes
        BY <1>1
      <4>2. <<nodes + 1, v>> \notin DOMAIN aliases
        BY <1>1, <4>1
      <4>3. <<nodes + 1, v>> # <<nodes + 1, ok>>
        BY <1>3
      <4> QED
        BY <1>5, <4>2, <4>3
    <3>3. CText(b, aliases', y) = v /\ name = v
      BY <1>5, <2>2, <3>1, <3>2 DEF CText
    <3> QED
      BY <1>4, <1>13, <2>2, <3>1, <3>3
  <2>3. CASE y = ok /\ ok # Blank
    <3>1. y \notin DOMAIN s.go /\ b.go[y].decl = nodes + 1 /\ b.go[y].val = nodes + 1
      BY <1>4, <1>6, <2>3
    <3>2. CText(b, aliases', y) = name
      BY <1>5, <1>6, <2>3, <3>1 DEF CText
    <3> QED
      BY <1>4, <1>13, <3>1, <3>2
  <2> QED
    BY <1>4, <2>1, <2>2, <2>3
<1>15. Agrees(b, aliases')
  BY <1>14 DEF Agrees
<1>16. ASSUME NEW d \in 1..Len(scopes), d # k
       PROVE  /\ DOMAIN scopes[d].go \cap DOMAIN b.go = {}
              /\ DOMAIN scopes[d].c \cap DOMAIN b.c = {}
  <2>1. /\ DOMAIN scopes[d].go \cap DOMAIN s.go = {}
        /\ DOMAIN scopes[d].c \cap DOMAIN s.c = {}
    BY <1>1, <1>2, <1>16 DEF Meant, Apart
  <2> QED
    BY <1>4, <1>7, <1>8, <2>1
<1>17. Meant(SetAt(scopes, k, b), aliases')
  BY <1>1, <1>2, <1>11, <1>15, <1>16, MeantSet
<1> QED
  BY <1>3, <1>5, <1>17, MeantStays

\* A right-hand side evaluates in C to what it is in Go, unless it is overwritten.
LEMMA RhsMeant ==
  ASSUME CInv, MeantInv, WriteSimple, NEW r \in Rhs
  PROVE  ~r.over => r.c = Shown(r.val)
<1>1. CASE r = Created
  <2>1. nodes \in Nat /\ nodes + 1 <= MaxNodes
    BY Typed, StatementStep
  <2>2. Shown(nodes + 1) = nodes + 1
    BY <2>1, EmitterAssumption DEF Shown, Zero
  <2> QED
    BY <1>1, <2>2 DEF Created, Node
<1>2. ASSUME NEW y \in Visible, r = Variable(y) PROVE ~r.over => r.c = Shown(r.val)
  <2>1. ~GoVar(y).over => CVal(FormatIdent(y)) = Shown(GoVar(y).val)
    BY MeantSimulates
  <2>2. r.over = GoVar(y).over /\ r.c = CVal(FormatIdent(y)) /\ r.val = GoVar(y).val
    BY <1>2 DEF Variable
  <2> QED
    BY <2>1, <2>2
<1> QED
  BY <1>1, <1>2 DEF Rhs

\* An assignment: another variable with the same C text is overwritten.
LEMMA AssignMeant ==
  ASSUME CInv, MeantInv, NEW x \in Visible, NEW r \in Rhs, Assign(x, r)
  PROVE  MeantInv'
<1> PICK g : g = Innermost("go", x)
  OBVIOUS
<1> PICK f : f = FormatIdent(x)
  OBVIOUS
<1> PICK c : c = Innermost("c", f)
  OBVIOUS
<1> PICK w : w = r.c
  OBVIOUS
<1>1. scopes \in Seq(ScopeSet) /\ Meant(scopes, aliases)
  BY Typed DEF MeantInv, Known
<1>2. /\ g \in 1..Len(scopes) /\ x \in DOMAIN scopes[g].go
      /\ f = CText(scopes[g], aliases, x) /\ f \in DOMAIN scopes[g].c
      /\ c \in 1..Len(scopes) /\ f \in DOMAIN scopes[c].c
      /\ scopes' \in Seq(ScopeSet) /\ Len(scopes') = Len(scopes)
      /\ \A d \in 1..Len(scopes) :
           /\ scopes'[d].go = IF d = g THEN GoAssign(scopes[d].go, x, r) ELSE scopes[d].go
           /\ scopes'[d].c = IF d = c THEN SetAt(scopes[d].c, f, w) ELSE scopes[d].c
  BY AssignBlocks
<1>3. r.val \in Nat /\ r.over \in BOOLEAN /\ (~r.over => w = Shown(r.val))
  BY RhsType, RhsMeant DEF Assign
<1> DEFINE s == scopes[g]
           b == scopes'[g]
<1>4. Agrees(s, aliases) /\ s \in ScopeSet
  BY <1>1, <1>2 DEF Meant
<1>7. c = g
  BY <1>1, <1>2 DEF Meant, Apart
<1>8. /\ DOMAIN b.go = DOMAIN s.go
      /\ b.go[x].val = r.val /\ b.go[x].over = r.over
      /\ \A z \in DOMAIN s.go : b.go[z].decl = s.go[z].decl
      /\ \A z \in DOMAIN s.go : z # x /\ ~b.go[z].over =>
           /\ b.go[z].val = s.go[z].val /\ ~s.go[z].over
           /\ CText(s, aliases, z) # f
  <2> PICK e : e = s.go
    OBVIOUS
  <2> PICK h : h = GoAssign(e, x, r)
    OBVIOUS
  <2>1. e \in GoScopes /\ x \in DOMAIN e /\ b.go = h
    BY <1>2, <1>4, ScopeType
  <2>2. /\ DOMAIN h = DOMAIN e
        /\ \A z \in DOMAIN e : h[z].decl = e[z].decl
        /\ h[x].val = r.val /\ h[x].over = r.over
        /\ \A z \in DOMAIN e : z # x /\ ~h[z].over =>
             /\ h[z].val = e[z].val /\ ~e[z].over
             /\ TextOf(<<e[z].decl, z>>) # FormatIdent(x)
    <3>1. r.val \in Nat /\ r.over \in BOOLEAN
      BY <1>3
    <3> QED
      BY SMTT(30), <3>1, <2>1, GoAssignEffect
  <2>3. \A z \in DOMAIN s.go : TextOf(<<s.go[z].decl, z>>) = CText(s, aliases, z)
    BY DEF TextOf, CText
  <2> QED
    BY <2>1, <2>2, <2>3
<1>9. /\ DOMAIN b.c = DOMAIN s.c /\ b.c[f] = w
      /\ \A z \in DOMAIN s.c : z # f => b.c[z] = s.c[z]
  <2>1. b.c = SetAt(s.c, f, w) /\ f \in DOMAIN s.c /\ s.c \in CScopes
    BY <1>2, <1>4, <1>7, ScopeType
  <2>2. PICK D \in SUBSET CNames : s.c \in [D -> Nat]
    BY <2>1 DEF CScopes
  <2> QED
    BY <2>1, <2>2 DEF SetAt
<1> PICK q : q = CText(s, aliases, x)
  OBVIOUS
<1>6. q = f
  BY <1>2
<1> HIDE DEF s, b
<1>10. ASSUME NEW z \in DOMAIN b.go
       PROVE  /\ CText(b, aliases, z) \in DOMAIN b.c
              /\ ~b.go[z].over => b.c[CText(b, aliases, z)] = Shown(b.go[z].val)
  <2> PICK t : t = CText(s, aliases, z)
    OBVIOUS
  <2>1. z \in DOMAIN s.go /\ b.go[z].decl = s.go[z].decl
    BY <1>8
  <2>2. CText(b, aliases, z) = t
    BY <2>1 DEF CText
  <2>3. t \in DOMAIN s.c /\ (~s.go[z].over => s.c[t] = Shown(s.go[z].val))
    BY <1>4, <2>1 DEF Agrees
  <2>4. CASE z = x
    <3>1. t = f
      BY <1>6, <2>4
    <3> QED
      BY <1>3, <1>8, <1>9, <2>2, <2>3, <2>4, <3>1
  <2>5. ASSUME z # x, ~b.go[z].over PROVE b.c[t] = Shown(b.go[z].val)
    <3>1. b.go[z].val = s.go[z].val /\ ~s.go[z].over /\ t # f
      BY <1>8, <2>1, <2>5
    <3> QED
      BY <1>9, <2>3, <3>1
  <2> QED
    BY <1>9, <2>2, <2>3, <2>4, <2>5
<1>11. Agrees(b, aliases)
  BY <1>10 DEF Agrees
<1>12. ASSUME NEW d \in 1..Len(scopes)
       PROVE  /\ Agrees(scopes'[d], aliases)
              /\ DOMAIN scopes'[d].go = DOMAIN scopes[d].go
              /\ DOMAIN scopes'[d].c = DOMAIN scopes[d].c
  <2>1. CASE d = g
    BY <1>8, <1>9, <1>11, <2>1 DEF s, b
  <2>2. CASE d # g
    <3>1. scopes'[d].go = scopes[d].go /\ scopes'[d].c = scopes[d].c
      BY <1>2, <1>7, <2>2
    <3>2. Agrees(scopes[d], aliases)
      BY <1>1 DEF Meant
    <3> QED
      BY <3>1, <3>2 DEF Agrees, CText
  <2> QED
    BY <2>1, <2>2
<1>13. Apart(scopes')
  <2>1. Apart(scopes)
    BY <1>1 DEF Meant
  <2> QED
    BY <1>2, <1>12, <2>1 DEF Apart
<1>14. Meant(scopes', aliases)
  BY <1>2, <1>12, <1>13 DEF Meant
<1>15. aliases' = aliases /\ paths' = paths /\ Grows(aliases, aliases', nodes)
  BY GrowsSame DEF Assign
<1> QED
  BY <1>14, <1>15, MeantStays

LEMMA MeantNext ==
  ASSUME CInv, MeantInv, "reuse" \notin Forms, "shadow" \notin Forms, [CNext]_allVars
  PROVE  MeantInv'
<1> PICK S : S = SubSeq(scopes, 1, Len(scopes) - 1)
  OBVIOUS
<1>0. /\ scopes \in Seq(ScopeSet) /\ Meant(scopes, aliases)
      /\ blocks \in Seq(Block) /\ Len(scopes) = Len(blocks)
  BY Typed DEF MeantInv, Known, CInv, TextInv
<1>1. ASSUME NEW prefix \in Prefixes, NEW v \in Names \cup {Blank}, NEW ok \in Names \cup {Blank},
             CommaOk(prefix, v, ok)
      PROVE  MeantInv'
  BY <1>1, CommaOkMeant
<1>2. ASSUME NEW x \in Names, NEW y \in Visible, Define(x, y) PROVE MeantInv'
  BY <1>2, DefineMeant
<1>3. ASSUME NEW x \in Names, NEW type \in {"ptr", "bool"}, DeclareVar(x, type) PROVE MeantInv'
  BY <1>3, DeclareVarMeant
<1>4. ASSUME NEW x \in Visible, NEW r \in Rhs, Assign(x, r) PROVE MeantInv'
  BY <1>4, AssignMeant
<1>5. ASSUME NEW skips \in BOOLEAN, OpenScope(skips), Known' \subseteq Known \cup {scopes'} PROVE MeantInv'
  <2>1. Meant(scopes', aliases) /\ aliases' = aliases
    BY <1>0, <1>5, MeantOpen DEF OpenScope
  <2> QED
    BY <1>5, <2>1 DEF MeantInv
<1>6. CASE OpenFunction
  BY <1>5, <1>6, OpenStep DEF OpenFunction
<1>7. ASSUME NEW kind \in {"if", "for", "block"}, OpenBlock(kind) PROVE MeantInv'
  <2>1. Open(kind) /\ OpenScope(kind # "block") /\ (kind # "block") \in BOOLEAN
    BY <1>7 DEF OpenBlock
  <2>2. Known' \subseteq Known \cup {scopes'}
    BY <2>1, OpenStep
  <2> QED
    BY <1>5, <2>1, <2>2
<1>8. blocks # <<>> => Meant(S, aliases)
  <2>1. blocks # <<>> => Len(scopes) # 0
    BY <1>0
  <2> QED
    BY <1>0, <2>1, MeantClose
<1>9. ASSUME NEW neither \in BOOLEAN, Branch(neither), Else \/ ElseIf(0) PROVE MeantInv'
  <2> PICK top : top = Len(scopes)
    OBVIOUS
  <2>1. Known' \subseteq Known \cup {scopes', S} /\ blocks # <<>>
    BY <1>9, BranchStep
  <2>2. top \in 1..Len(paths)
    BY <1>0, <2>1, PathTypes
  <2>3. paths[top].pre \in Known /\ paths[top].pre \in Seq(ScopeSet)
    BY <2>2, PathTypes
  <2>4. Meant(paths[top].pre, aliases)
    BY <2>3 DEF MeantInv
  <2>5. Meant(scopes', aliases) /\ aliases' = aliases
    BY <1>9, <2>3, <2>4, MeantOpen DEF Branch
  <2> QED
    BY <1>8, <2>1, <2>5 DEF MeantInv
<1>10. CASE ElseBranch
  BY <1>9, <1>10 DEF ElseBranch
<1>11. CASE ElseIfBranch
  BY <1>9, <1>11 DEF ElseIfBranch
<1>12. CASE CloseBlock
  <2>1. Known' \subseteq Known \cup {S} /\ blocks # <<>>
    BY <1>12, CloseStep
  <2>2. aliases' = aliases
    BY <1>12 DEF CloseBlock, CloseScope
  <2> QED
    BY <1>8, <2>1, <2>2 DEF MeantInv
<1>13. CASE Abort
  <2>1. Known' = {<<>>}
    BY <1>13, AbortStep
  <2>2. Meant(<<>>, aliases')
    BY DEF Meant, Apart
  <2> QED
    BY <2>1, <2>2 DEF MeantInv
<1>14. CASE Other \/ UNCHANGED allVars
  <2>1. Known' = Known
    BY <1>14, OtherStep
  <2>2. aliases' = aliases
    BY <1>14 DEF Other, ownVars, allVars
  <2> QED
    BY <2>1, <2>2 DEF MeantInv
<1> QED
  BY <1>1, <1>2, <1>3, <1>4, <1>6, <1>7, <1>10, <1>11, <1>12, <1>13, <1>14 DEF CNext, Rhs

\* In a program of any size, along every path through its branches, the C text that
\* formatIdent writes for a Go variable evaluates in C to what the Go variable
\* holds (or is unset where a `var` still has Go's zero value), until the other
\* half of a comma-ok pair is assigned, as long as each comma-ok declares both its
\* targets and no declaration hides another.
THEOREM AliasesSimulate ==
  "reuse" \notin Forms /\ "shadow" \notin Forms => (CSpec => []Simulates)
<1> SUFFICES ASSUME "reuse" \notin Forms, "shadow" \notin Forms PROVE CSpec => []Simulates
  OBVIOUS
<1>1. CInit => MeantInv
  <2> SUFFICES ASSUME CInit PROVE MeantInv
    OBVIOUS
  <2>1. Known = {<<>>}
    BY DEF CInit, Known
  <2>2. Meant(<<>>, aliases)
    BY DEF Meant, Apart
  <2> QED
    BY <2>1, <2>2 DEF MeantInv
<1>2. CInv /\ MeantInv /\ [CNext]_allVars => MeantInv'
  BY MeantNext
<1>3. CInv /\ MeantInv => Simulates
  BY MeantSimulates DEF Simulates, Shown
<1> QED
  BY <1>1, <1>2, <1>3, CommaOkInvariant, PTL DEF CSpec
=============================================================================
