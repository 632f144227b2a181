------------------------------- MODULE CommaOk -------------------------------
(***************************************************************************)
(* The name side of internal/transpile/emit.go, composed with the text     *)
(* side of module Emitter: resolveLHSName, the alias the three comma-ok    *)
(* forms (map Lookup, storage Get, RingBuf Reserve) leave for their ok     *)
(* variable, and formatIdent, which turns a Go identifier into the C text  *)
(* that stands for it.                                                     *)
(*                                                                         *)
(* Beside the emitter runs the program it translates, along one path       *)
(* through its branches: `scopes` holds for every open block what the Go   *)
(* variables declared in it hold, and what the C variables declared in the *)
(* matching C block hold.  A value is the number of the comma-ok that      *)
(* produced it: for a pointer, the entry that comma-ok returned; for a     *)
(* bool, whether that comma-ok found one.  In C the pointer carries both,  *)
(* so an assignment to one of the pair overwrites the other (`over`).      *)
(*                                                                         *)
(* Identifiers are pairs <<spelling, suffix>>: a synthetic name is a       *)
(* prefix with a counter, and an ordinary Go name has suffix 0.            *)
(***************************************************************************)
EXTENDS Emitter

CONSTANTS
  Names,   \* Go identifiers the program declares
  Forms    \* the Go forms it uses beyond declaring fresh names, see below

\* "reuse": a comma-ok with one target already declared in the block;
\* "shadow": a declaration that hides one of an enclosing block;
\* "var": a `var x T` without a value.
ASSUME FormsAssumption == Forms \subseteq {"reuse", "shadow", "var"}

\* The program declares ordinary identifiers: none is `_`, and none is spelt like
\* a synthetic name (a program with a `_lookup1` of its own is left out).
ASSUME NamesAssumption == Names \subseteq STRING \X {0} /\ <<"_", 0>> \notin Names

VARIABLES
  aliases,  \* e.aliases: Go object -> C name
  tmpSeq,   \* e.tmpSeq
  scopes,   \* open blocks, innermost last: what Go and C variables hold
  paths,    \* for each open block: the scopes if its statement takes another branch
  clash     \* history: some C block declares the same name twice

ownVars == <<aliases, tmpSeq, scopes, paths, clash>>
allVars == <<vars, ownVars>>

Blank == <<"_", 0>>
Prefixes == {"lookup", "get", "reserve"}
Junk == 0            \* the value of a C variable read before it is set
Zero == MaxNodes + 1 \* Go's nil and false: no comma-ok has this number

EmptyScope == [go |-> <<>>, c |-> <<>>]
Inner == scopes[Len(scopes)]
Innermost(side, x) ==
  CHOOSE d \in 1..Len(scopes) :
    /\ x \in DOMAIN scopes[d][side]
    /\ \A e \in (d + 1)..Len(scopes) : x \notin DOMAIN scopes[e][side]

\* Go's view: the variables in scope and what go/types knows of them.  An
\* object is the node that declared it together with its name.
Visible == UNION {DOMAIN scopes[d].go : d \in 1..Len(scopes)}
GoVar(x) == scopes[Innermost("go", x)].go[x]

\* C's view of a name.
CVal(c) == IF \E d \in 1..Len(scopes) : c \in DOMAIN scopes[d].c
           THEN scopes[Innermost("c", c)].c[c] ELSE Junk

\* Mutant of FormatIdent: aliases looked up by spelling, not by object.
FormatIdentByName(x) ==
  IF \E o \in DOMAIN aliases : o[2] = x
  THEN aliases[CHOOSE o \in DOMAIN aliases : o[2] = x] ELSE x

\* formatIdent: the alias of the object the identifier uses, or its own name.
TextOf(obj) == IF obj \in DOMAIN aliases THEN aliases[obj] ELSE obj[2]
FormatIdent(x) == TextOf(<<GoVar(x).decl, x>>)

Put(f, x, v) == [y \in DOMAIN f \cup {x} |-> IF y = x THEN v ELSE f[y]]

\* A declaration of x the program may contain.
MayDeclare(x) ==
  /\ x \notin DOMAIN Inner.go
  /\ x \in Visible => "shadow" \in Forms

-----------------------------------------------------------------------------
\* Mutants of LHSName: a synthetic name without its counter, and one that counts
\* twice for a single increment of e.tmpSeq.
LHSNameNoCounter(v, prefix) == IF v = Blank THEN <<prefix, 0>> ELSE v
LHSNameCountsTwice(v, prefix) == IF v = Blank THEN <<prefix, tmpSeq + 2>> ELSE v

\* resolveLHSName
LHSName(v, prefix) == IF v = Blank THEN <<prefix, tmpSeq + 1>> ELSE v

\* The ok target gets an alias only if this statement defines it: Info.Defs has
\* an entry for a new variable (and for `_`, which nothing can refer to).
RegisterAlias(ok, valName) ==
  aliases' = IF ok \notin DOMAIN Inner.go
             THEN Put(aliases, <<Node, ok>>, valName) ELSE aliases

\* A Go variable: the node that declares it, its type and value, and (history)
\* whether its C text has been overwritten through the other half of its pair.
Declared(type, val, over) == [decl |-> Node, type |-> type, val |-> val, over |-> over]

\* Go: a target of := that the block already declares is assigned, a new one is
\* declared.
GoTarget(g, x, type) ==
  CASE x = Blank -> g
    [] x \in DOMAIN g -> [g EXCEPT ![x].val = Node, ![x].over = FALSE]
    [] OTHER -> Put(g, x, Declared(type, Node, FALSE))

\* v, ok := M.Lookup(&k) / S.Get(obj) / R.Reserve(): one C declaration of the
\* pointer, whatever Go does with v.
CommaOk(prefix, v, ok) ==
  LET fresh == {x \in {v, ok} \ {Blank} : x \notin DOMAIN Inner.go}
      old   == {v, ok} \ (fresh \cup {Blank})
      name  == LHSName(v, prefix)
  IN  /\ WriteSimple
      /\ v # ok
      /\ fresh # {}                                  \* Go: something new on the left
      /\ \A x \in fresh : MayDeclare(x)
      /\ old # {} => "reuse" \in Forms
      /\ \A x \in old : Inner.go[x].type = IF x = v THEN "ptr" ELSE "bool"
      /\ RegisterAlias(ok, name)
      /\ tmpSeq' = IF v = Blank THEN tmpSeq + 1 ELSE tmpSeq
      /\ clash' = (clash \/ name \in DOMAIN Inner.c)
      /\ scopes' = [scopes EXCEPT ![Len(scopes)] =
                      [go |-> GoTarget(GoTarget(@.go, v, "ptr"), ok, "bool"),
                       c  |-> Put(@.c, name, Node)]]
      /\ UNCHANGED paths

\* x := y.  The C declarator is in scope in its own initialiser, Go's is not.
Define(x, y) ==
  LET rhs == FormatIdent(y)
  IN  /\ WriteSimple
      /\ MayDeclare(x)
      /\ clash' = (clash \/ x \in DOMAIN Inner.c)
      /\ scopes' = [scopes EXCEPT ![Len(scopes)] =
                      [go |-> Put(@.go, x, Declared(GoVar(y).type, GoVar(y).val, GoVar(y).over)),
                       c  |-> Put(@.c, x, IF rhs = x THEN Junk ELSE CVal(rhs))]]
      /\ UNCHANGED <<aliases, tmpSeq, paths>>

\* var x T: Go's zero value, and a C declaration without an initialiser.
DeclareVar(x, type) ==
  /\ "var" \in Forms
  /\ WriteDecl(1)
  /\ MayDeclare(x)
  /\ clash' = (clash \/ x \in DOMAIN Inner.c)
  /\ scopes' = [scopes EXCEPT ![Len(scopes)] =
                  [go |-> Put(@.go, x, Declared(type, Zero, FALSE)),
                   c  |-> Put(@.c, x, Junk)]]
  /\ UNCHANGED <<aliases, tmpSeq, paths>>

\* The right-hand side of an assignment: another variable, or a call that returns
\* a pointer (S.GetOrCreate).  c is what its C text evaluates to.
Variable(y) == [type |-> GoVar(y).type, val |-> GoVar(y).val, over |-> GoVar(y).over,
                c |-> CVal(FormatIdent(y))]
Created == [type |-> "ptr", val |-> Node, over |-> FALSE, c |-> Node]

\* The Go side of x = r in x's block g: the other half of x's pair, whose C text
\* is the same, is overwritten.
GoAssign(g, x, r) ==
  [z \in DOMAIN g |->
     IF z = x THEN [g[z] EXCEPT !.val = r.val, !.over = r.over]
     ELSE [g[z] EXCEPT !.over = @ \/ TextOf(<<g[z].decl, z>>) = FormatIdent(x)]]

\* x = r: both sides go through formatExpr.
Assign(x, r) ==
  LET lhs == FormatIdent(x)
      set == [scopes EXCEPT ![Innermost("go", x)].go = GoAssign(@, x, r)]
  IN  /\ WriteSimple
      /\ GoVar(x).type = r.type
      /\ scopes' = [set EXCEPT ![Innermost("c", lhs)].c[lhs] = r.c]
      /\ UNCHANGED <<aliases, tmpSeq, paths, clash>>

-----------------------------------------------------------------------------
\* Blocks: a Go block and the C block it becomes open and close together.
OpenScope(skips) ==
  /\ scopes' = Append(scopes, EmptyScope)
  /\ paths' = Append(paths, [pre |-> scopes, alts |-> IF skips THEN {scopes} ELSE {}])
  /\ UNCHANGED <<aliases, tmpSeq, clash>>

OpenFunction == (OpenHelper \/ OpenProgram) /\ OpenScope(FALSE)

OpenBlock(kind) == Open(kind) /\ OpenScope(kind # "block")

\* After the then branch the path may have been that branch; this one starts
\* from what held before the statement.
Branch(neither) ==
  LET top == Len(scopes)
      alts == {SubSeq(scopes, 1, top - 1)} \cup (IF neither THEN paths[top].alts ELSE {})
  IN  /\ scopes' = Append(paths[top].pre, EmptyScope)
      /\ paths' = [paths EXCEPT ![top].alts = alts]
      /\ UNCHANGED <<aliases, tmpSeq, clash>>

ElseBranch == Else /\ Branch(FALSE)
ElseIfBranch == ElseIf(0) /\ Branch(TRUE)

CloseScope ==
  LET top == Len(scopes)
  IN  /\ scopes' \in {SubSeq(scopes, 1, top - 1)} \cup paths[top].alts
      /\ paths' = SubSeq(paths, 1, top - 1)
      /\ UNCHANGED <<aliases, tmpSeq, clash>>

CloseBlock == (Close \/ CloseElseIf(0) \/ CloseFunction) /\ CloseScope

\* An error of one of the forms (a target that is not an identifier, a wrong
\* number of arguments) fails the whole emit.
Abort ==
  /\ Fail
  /\ scopes' = <<>> /\ paths' = <<>>
  /\ UNCHANGED <<aliases, tmpSeq, clash>>

\* The rest of the file, which declares no pointer or bool variable.
Other ==
  /\ \/ WriteHeader(FALSE, FALSE, 0)
     \/ Finish
  /\ UNCHANGED ownVars

CInit ==
  /\ Init
  /\ aliases = <<>>
  /\ tmpSeq = 0
  /\ scopes = <<>>
  /\ paths = <<>>
  /\ clash = FALSE

CNext ==
  \/ \E prefix \in Prefixes, v, ok \in Names \cup {Blank} : CommaOk(prefix, v, ok)
  \/ \E x \in Names, y \in Visible : Define(x, y)
  \/ \E x \in Names, type \in {"ptr", "bool"} : DeclareVar(x, type)
  \/ \E x \in Visible : \E r \in {Variable(y) : y \in Visible} \cup {Created} : Assign(x, r)
  \/ OpenFunction
  \/ \E kind \in {"if", "for", "block"} : OpenBlock(kind)
  \/ ElseBranch
  \/ ElseIfBranch
  \/ CloseBlock
  \/ Abort
  \/ Other

CSpec == CInit /\ [][CNext]_allVars

-----------------------------------------------------------------------------
\* Type invariant.
CTypeOK ==
  /\ Len(scopes) = Len(blocks) /\ Len(paths) = Len(blocks)
  /\ tmpSeq \in 0..nodes
  /\ clash \in BOOLEAN
  /\ \A o \in DOMAIN aliases :
       /\ o \in (1..nodes) \X (Names \cup {Blank})
       /\ aliases[o] \in Names \cup (Prefixes \X (1..tmpSeq))
  /\ \A d \in 1..Len(scopes) :
       /\ DOMAIN scopes[d].go \subseteq Names
       /\ \A x \in DOMAIN scopes[d].go : scopes[d].go[x].type \in {"ptr", "bool"}

\* The C program computes what the Go program computes: at every point of every
\* path, the C text that stands for a Go variable evaluates to what that variable
\* holds.  For an ok variable: the pointer it is aliased to is the pointer of the
\* comma-ok that set it.  There are two differences.  A `var x T` (writeDeclStmt):
\* until a path assigns it, x and its copies are unset in C exactly where Go has
\* the zero value, and never the other way round.  And ok is "the pointer's
\* truthiness", so after `c, ok := S.Get(t)` and `c = S.GetOrCreate(t, &z)` the
\* text of ok tests the new c: nothing is said of a variable overwritten through
\* the other half of its pair, until it is assigned again.
Simulates ==
  \A x \in Visible : ~GoVar(x).over =>
    CVal(FormatIdent(x)) = IF GoVar(x).val = Zero THEN Junk ELSE GoVar(x).val

\* "Two `_, ok := Map.Lookup(...)` calls in the same scope must not emit duplicate
\* decls" (resolveLHSName): no C block declares a name twice.
NoClash == ~clash
=============================================================================
