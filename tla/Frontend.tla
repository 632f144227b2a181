------------------------------ MODULE Frontend ------------------------------
(***************************************************************************)
(* ParseFile and Validate: internal/transpile/parse.go, directives.go and  *)
(* validate.go.  The walk over the comments and declarations of one file,  *)
(* then over the functions it collected.                                   *)
(*                                                                         *)
(* The file is the input of the steps, one comment or declaration at a     *)
(* time.  go/parser and go/types are external: the files here type-check.  *)
(* A function's faults are the offsets in it at which it leaves the        *)
(* supported subset; Position turns them into positions in the file.       *)
(***************************************************************************)
EXTENDS Naturals, Sequences, FiniteSets, SequencesExt

CONSTANTS
  MaxDecls,   \* bound: declarations of the file
  FaultSets,  \* the sets of faults its functions have
  Structs     \* the field lists its struct types have

VARIABLES
  pc,        \* where ParseFile or Validate is, or what came out
  file,      \* the declarations read so far
  license,   \* prog.License is set
  programs, helpers, maps, types, consts,   \* prog: places in file
  todo,      \* Validate: functions left to check
  diags      \* v.diags: the positions

prog == <<programs, helpers, maps, types, consts>>
vars == <<pc, file, license, programs, helpers, maps, types, consts, todo, diags>>

\* Offsets of faults in a function: its receiver, its signature (type
\* parameters, several results), and in its body the definition of a string, a
\* construct ast.Inspect finds, and another string.
Receiver == 0
Signature == 1
Construct == 3
Strings == {2, 4}
Position(k, offset) == 10 * k + offset
ImportPosition == 0

ASSUME FrontendAssumption ==
  MaxDecls \in Nat /\ FaultSets \subseteq SUBSET ({Signature, Construct} \cup Strings)

\* What parseDirective makes of a //bpf: comment, and docDirective of the comments
\* above a function (the first section among them).
Directive == {"license", "bare license", "section", "empty"}
Section == {"none", "bare", "named"}

Func == [form : {"func"}, section : Section, recv : BOOLEAN, main : BOOLEAN,
         faults : FaultSets]
\* A package variable, its type one of the bpf maps or not, and what it is
\* initialised with: nothing, an expression that is not a literal, a literal
\* without MaxEntries, with a bad element, or with a positive MaxEntries.
Plain == [form |-> "var", kind |-> "plain", init |-> "none"]
Var == [form : {"var"}, kind : {"map", "autosized map"},
        init : {"none", "expr", "empty", "bad", "sized"}] \cup {Plain}
NotStruct == <<"not a struct">>
Type == [form : {"type"}, fields : Structs \cup {NotStruct}]
\* A name of a const block: the first one of its block or not, and whether its
\* value is an expression of its own, iota, or left to repeat the one above.
Const == [form : {"const"}, first : BOOLEAN, value : {"own", "iota", "none"}]
Decl == Func \cup Var \cup Type \cup Const

\* Go: a block goes on only below a const, and its first name has a value.
MayFollow(f, c) ==
  IF c.first THEN c.value # "none" ELSE f # <<>> /\ Last(f).form = "const"

FaultsOf(d) == d.faults \cup (IF d.recv THEN {Receiver} ELSE {})

Init ==
  /\ pc = "comments"
  /\ file = <<>>
  /\ license = FALSE
  /\ programs = <<>> /\ helpers = <<>> /\ maps = <<>> /\ types = <<>> /\ consts = <<>>
  /\ todo = <<>>
  /\ diags = <<>>

-----------------------------------------------------------------------------
\* ParseFile.

\* collectFileDirectives: a //bpf: comment.  A second license replaces the first.
ReadDirective(c) ==
  /\ pc = "comments"
  /\ CASE c = "license" -> license' = TRUE /\ UNCHANGED pc
       [] c = "section" -> UNCHANGED <<license, pc>>
       [] c \in {"empty", "bare license"} -> pc' = "malformed" /\ UNCHANGED license
  /\ UNCHANGED <<file, prog, todo, diags>>

CommentsRead ==
  /\ pc = "comments"
  /\ pc' = "decls"
  /\ UNCHANGED <<file, license, prog, todo, diags>>

\* The next declaration is d.
Here == Len(file) + 1
Declares(d) ==
  /\ pc = "decls"
  /\ Len(file) < MaxDecls
  /\ file' = Append(file, d)
  /\ UNCHANGED <<license, todo, diags>>

\* Mutant of CollectFunc: no `continue` after the section branch.
CollectFuncTwice(d) ==
  /\ Declares(d)
  /\ pc' = IF d.section = "bare" THEN "malformed" ELSE pc
  /\ programs' = IF d.section = "named" THEN Append(programs, Here) ELSE programs
  /\ helpers' = IF ~d.main /\ ~d.recv THEN Append(helpers, Here) ELSE helpers
  /\ UNCHANGED <<maps, types, consts>>

\* collectDecls: a function with a section is a program, whatever else it is;
\* main and methods are dropped; the rest are helpers.
CollectFunc(d) ==
  /\ Declares(d)
  /\ pc' = IF d.section = "bare" THEN "malformed" ELSE pc
  /\ programs' = IF d.section = "named" THEN Append(programs, Here) ELSE programs
  /\ helpers' = IF d.section = "none" /\ ~d.main /\ ~d.recv THEN Append(helpers, Here) ELSE helpers
  /\ UNCHANGED <<maps, types, consts>>

\* tryBuildMapDecl: a map needs a struct literal with MaxEntries, unless the
\* kernel sizes it.
MapError(v) ==
  \/ v.init \in {"expr", "bad"}
  \/ v.init \in {"none", "empty"} /\ v.kind # "autosized map"

CollectVar(v) ==
  /\ Declares(v)
  /\ pc' = IF v.kind # "plain" /\ MapError(v) THEN "malformed" ELSE pc
  /\ maps' = IF v.kind # "plain" /\ ~MapError(v) THEN Append(maps, Here) ELSE maps
  /\ UNCHANGED <<programs, helpers, types, consts>>

CollectType(t) ==
  /\ Declares(t)
  /\ types' = IF t.fields # NotStruct THEN Append(types, Here) ELSE types
  /\ UNCHANGED <<pc, programs, helpers, maps, consts>>

\* A constant without an expression of its own (after iota) is left out.
CollectConst(c) ==
  /\ Declares(c)
  /\ MayFollow(file, c)
  /\ consts' = IF c.value # "none" THEN Append(consts, Here) ELSE consts
  /\ UNCHANGED <<pc, programs, helpers, maps, types>>

\* The end of ParseFile.
Parsed ==
  /\ pc = "decls"
  /\ pc' = IF license /\ programs # <<>> THEN "imports" ELSE "malformed"
  /\ UNCHANGED <<file, license, prog, todo, diags>>

-----------------------------------------------------------------------------
\* Validate.

\* Mutant of CheckImports: only the section functions are checked.
CheckImportsProgramsOnly(foreign) ==
  /\ pc = "imports"
  /\ diags' = IF foreign THEN <<ImportPosition>> ELSE <<>>
  /\ todo' = programs
  /\ pc' = "functions"
  /\ UNCHANGED <<file, license, prog>>

\* checkImports, and what is checked next: programs, then helpers.
CheckImports(foreign) ==
  /\ pc = "imports"
  /\ diags' = IF foreign THEN <<ImportPosition>> ELSE <<>>
  /\ todo' = programs \o helpers
  /\ pc' = "functions"
  /\ UNCHANGED <<file, license, prog>>

\* checkFunc: the receiver, the signature and what ast.Inspect finds, in source
\* order; then checkBodyTypes, which ranges over a Go map: its findings come in
\* any order.
CheckFunc ==
  /\ pc = "functions" /\ todo # <<>>
  /\ \E found \in SetToSeqs(FaultsOf(file[Head(todo)])) :
       /\ \A m, n \in 1..Len(found) :
            m < n /\ found[n] \notin Strings => found[m] \notin Strings /\ found[m] < found[n]
       /\ diags' = diags \o [n \in 1..Len(found) |-> Position(Head(todo), found[n])]
  /\ todo' = Tail(todo)
  /\ UNCHANGED <<pc, file, license, prog>>

\* sort.SliceStable: the n-th number is the one that n - 1 others come before.
Sorted(s) ==
  LET before(i) == {j \in 1..Len(s) : s[j] < s[i] \/ (s[j] = s[i] /\ j < i)}
  IN  [n \in 1..Len(s) |-> s[CHOOSE i \in 1..Len(s) : Cardinality(before(i)) = n - 1]]

\* Mutant of Report: the findings are returned as they were found.
ReportUnsorted ==
  /\ pc = "functions" /\ todo = <<>>
  /\ pc' = IF diags = <<>> THEN "accepted" ELSE "invalid"
  /\ UNCHANGED <<file, license, prog, todo, diags>>

\* The sort by position; translateOne goes on only when nothing was found.
Report ==
  /\ pc = "functions" /\ todo = <<>>
  /\ diags' = Sorted(diags)
  /\ pc' = IF diags = <<>> THEN "accepted" ELSE "invalid"
  /\ UNCHANGED <<file, license, prog, todo>>

Next ==
  \/ \E c \in Directive : ReadDirective(c)
  \/ CommentsRead
  \/ \E d \in Func : CollectFunc(d)
  \/ \E v \in Var : CollectVar(v)
  \/ \E t \in Type : CollectType(t)
  \/ \E c \in Const : CollectConst(c)
  \/ Parsed
  \/ \E foreign \in BOOLEAN : CheckImports(foreign)
  \/ CheckFunc
  \/ Report

Spec == Init /\ [][Next]_vars

-----------------------------------------------------------------------------
Emitted == Range(programs) \cup Range(helpers)
Increasing(s) == \A m, n \in 1..Len(s) : m < n => s[m] < s[n]

\* Type invariant.  Each list names declarations of the file in source order, and
\* no function is both a program and a helper.
TypeOK ==
  /\ pc \in {"comments", "decls", "imports", "functions", "accepted", "invalid", "malformed"}
  /\ file \in Seq(Decl)
  /\ license \in BOOLEAN
  /\ \A list \in {programs, helpers, maps, types, consts} :
       Range(list) \subseteq 1..Len(file) /\ Increasing(list)
  /\ Range(programs) \cap Range(helpers) = {}
  /\ Range(todo) \subseteq Emitted
  /\ diags \in Seq(Nat)

\* "Returns all findings sorted by source position" (Validate): every fault of
\* every function that would be emitted is reported, once, in the order of the
\* file, although programs are checked before helpers and checkBodyTypes finds
\* things in the order of a Go map.
FindingsExact ==
  pc \in {"accepted", "invalid"} =>
    /\ Increasing(diags)
    /\ Range(diags) \ {ImportPosition} =
         UNION {{Position(k, offset) : offset \in FaultsOf(file[k])} : k \in Emitted}

\* What Emit is given: a licensed file with a program; every top-level function but
\* main is emitted, whatever directives it has; what is emitted is within the
\* subset; and the maps have a size or need none.
AcceptedSound ==
  pc = "accepted" =>
    /\ license /\ programs # <<>>
    /\ \A k \in 1..Len(file) :
         file[k].form = "func" /\ ~file[k].recv /\ ~file[k].main => k \in Emitted
    /\ \A k \in Emitted : FaultsOf(file[k]) = {}
    /\ \A k \in Range(maps) : file[k].kind = "autosized map" \/ file[k].init = "sized"
=============================================================================
