---------------------------- MODULE Expressions ----------------------------
(***************************************************************************)
(* formatExpr and formatBinary (internal/transpile/emit.go): an expression *)
(* tree is written as text, and a C compiler reads the text.               *)
(*                                                                         *)
(* An expression is a sequence of operators, each with the number of       *)
(* brackets around it; operand k stands before operator k + 1.  The tree   *)
(* is the one go/parser builds (external): all these operators are         *)
(* left-associative, in C too.  An operator name stands for the operators  *)
(* with its rank in both languages: mul * / %, shl << >>, and &, add + -,  *)
(* or |, xor ^, eq == !=, less < <= > >=, land &&, lor ||.                 *)
(***************************************************************************)
EXTENDS Naturals, Sequences, FiniteSets, FiniteSetsExt, SequencesExt

CONSTANTS
  MaxOps,    \* bound: operators of an expression
  MaxDepth   \* bound: nested brackets

ASSUME ExpressionsAssumption == MaxOps \in Nat /\ MaxDepth \in Nat

VARIABLES
  pc,        \* "format", "done" or "error"
  source,    \* the Go expression
  todo,      \* the calls of formatExpr to make and the tokens to write, in order
  text,      \* the C tokens written
  bare       \* history: an argument was written without brackets of its own

vars == <<pc, source, todo, text, bare>>

\* Binding strength of the binary operators in Go and in C (external).
GoPrec == [mul |-> 5, shl |-> 5, and |-> 5, add |-> 4, or |-> 4, xor |-> 4,
           eq |-> 3, less |-> 3, land |-> 2, lor |-> 1]
CPrec == [mul |-> 10, add |-> 9, shl |-> 8, less |-> 7, eq |-> 6, and |-> 5,
          xor |-> 4, or |-> 3, land |-> 2, lor |-> 1]
Operators == DOMAIN GoPrec
Stronger == 11   \* a bracket outweighs every rank

Element == [op : Operators, depth : 0..MaxDepth]

\* How tightly each operator of an expression binds.
Weights(prec, expr) == [k \in 1..Len(expr) |-> Stronger * expr[k].depth + prec[expr[k].op]]

\* The operators under operator k on its left and on its right, as far as they go.
Leftmost(w, k) == Min({i \in 1..k : \A j \in i..(k - 1) : w[j] >= w[k]})
Rightmost(w, k) == Max({i \in k..Len(w) : \A j \in (k + 1)..i : w[j] > w[k]})
Groups(w) == [k \in 1..Len(w) |-> <<Leftmost(w, k), Rightmost(w, k)>>]

\* The operator at the root of lo..hi.
Root(w, lo, hi) ==
  CHOOSE k \in lo..hi : \A j \in lo..hi : w[j] > w[k] \/ (w[j] = w[k] /\ j <= k)

\* go/types (external): what an operator takes and gives; a lone operand may be
\* of either kind.
Arithmetic == {"mul", "shl", "and", "add", "or", "xor"}
Takes(op) == CASE op \in Arithmetic \cup {"less"} -> {"int"}
               [] op = "eq" -> {"int", "bool"}
               [] op \in {"land", "lor"} -> {"bool"}
Kinds(expr, lo, hi) ==
  IF lo > hi THEN {"int", "bool"}
  ELSE IF expr[Root(Weights(GoPrec, expr), lo, hi)].op \in Arithmetic THEN {"int"} ELSE {"bool"}
WellTyped(expr) ==
  LET group == Groups(Weights(GoPrec, expr))
  IN  \A k \in 1..Len(expr) :
        Takes(expr[k].op) \cap Kinds(expr, group[k][1], k - 1) \cap Kinds(expr, k + 1, group[k][2]) # {}

\* What remains to be done: format a part of the tree, or write a token.
Expr(lo, hi, depth) == [do |-> "expr", lo |-> lo, hi |-> hi, depth |-> depth]
Operand(k) == [do |-> "operand", at |-> k]
Op(op) == [do |-> "op", op |-> op]
Bracket(b) == [do |-> b]

Init ==
  /\ pc = "format"
  /\ source \in {expr \in BoundedSeq(Element, MaxOps) : WellTyped(expr)}
  /\ todo = <<Expr(1, Len(source), 0)>>
  /\ text = <<>>
  /\ bare = FALSE

-----------------------------------------------------------------------------
\* The next call of formatExpr is for the part x of the tree.
Formats(x) == pc = "format" /\ todo # <<>> /\ Head(todo) = x /\ x.do = "expr"
InBrackets(x) == x.lo <= x.hi /\ \A k \in x.lo..x.hi : source[k].depth > x.depth
Instead(pieces) == todo' = pieces \o Tail(todo) /\ UNCHANGED <<pc, source, text>>

\* Mutant of FormatOperand: the operand after the one of this part.
FormatNextOperand(x) ==
  /\ Formats(x) /\ x.lo > x.hi
  /\ Instead(<<Operand(x.lo)>>)
  /\ UNCHANGED bare

\* Literals, identifiers, fields and CO-RE reads: no operator can come between
\* the parts of what is written.
FormatOperand(x) ==
  /\ Formats(x) /\ x.lo > x.hi
  /\ Instead(<<Operand(x.lo - 1)>>)
  /\ UNCHANGED bare

\* Mutant of FormatBracketed: `case *ast.ParenExpr: return e.formatExpr(x.X)`.
FormatUnbracketed(x) ==
  /\ Formats(x) /\ InBrackets(x)
  /\ Instead(<<Expr(x.lo, x.hi, x.depth + 1)>>)
  /\ UNCHANGED bare

\* ParenExpr, the index of an IndexExpr, the operand of a conversion, an argument
\* between the brackets and commas of a call.
FormatBracketed(x) ==
  /\ Formats(x) /\ InBrackets(x)
  /\ Instead(<<Bracket("open"), Expr(x.lo, x.hi, x.depth + 1), Bracket("close")>>)
  /\ UNCHANGED bare

\* The argument of unsafe.Pointer: what is written is the argument, with nothing
\* around it.
FormatPointer(x) ==
  /\ Formats(x) /\ InBrackets(x)
  /\ Instead(<<Expr(x.lo, x.hi, x.depth + 1)>>)
  /\ bare' = TRUE

\* The address argument of GetUserString and GetUserArgv: a cast goes between the
\* bracket of the call and the argument, and in C takes the first operand of the
\* argument alone.  Casts are not among the operators; bare remembers it.
FormatCast(x) ==
  /\ Formats(x) /\ InBrackets(x)
  /\ Instead(<<Bracket("open"), Expr(x.lo, x.hi, x.depth + 1), Bracket("close")>>)
  /\ bare' = TRUE

\* Mutant of FormatBinary: Sprintf("%s %s %s", r, op, l).
FormatBinarySwapped(x) ==
  /\ Formats(x) /\ x.lo <= x.hi /\ ~InBrackets(x)
  /\ LET k == Root(Weights(GoPrec, source), x.lo, x.hi)
     IN  Instead(<<Expr(k + 1, x.hi, x.depth), Op(source[k].op), Expr(x.lo, k - 1, x.depth)>>)
  /\ UNCHANGED bare

\* formatBinary: left, operator, right, and no brackets of its own.
FormatBinary(x) ==
  /\ Formats(x) /\ x.lo <= x.hi /\ ~InBrackets(x)
  /\ LET k == Root(Weights(GoPrec, source), x.lo, x.hi)
     IN  Instead(<<Expr(x.lo, k - 1, x.depth), Op(source[k].op), Expr(k + 1, x.hi, x.depth)>>)
  /\ UNCHANGED bare

\* An expression outside the subset: every caller passes the error on.
Unsupported(x) ==
  /\ Formats(x)
  /\ pc' = "error"
  /\ UNCHANGED <<source, todo, text, bare>>

WriteToken ==
  /\ pc = "format" /\ todo # <<>> /\ Head(todo).do # "expr"
  /\ text' = Append(text, Head(todo))
  /\ todo' = Tail(todo)
  /\ UNCHANGED <<pc, source, bare>>

Return ==
  /\ pc = "format" /\ todo = <<>>
  /\ pc' = "done"
  /\ UNCHANGED <<source, todo, text, bare>>

Parts == {Expr(lo, hi, depth) : lo \in 1..(MaxOps + 1), hi \in 0..MaxOps, depth \in 0..MaxDepth}

Next ==
  \/ \E x \in Parts : \/ FormatOperand(x) \/ FormatBinary(x) \/ Unsupported(x)
                     \/ FormatBracketed(x) \/ FormatPointer(x) \/ FormatCast(x)
  \/ WriteToken
  \/ Return

Spec == Init /\ [][Next]_vars

-----------------------------------------------------------------------------
\* The C compiler's reading of the text (external).
Written(do, upto) == Cardinality({n \in 1..upto : text[n].do = do})
Places(do) ==
  [k \in 1..Written(do, Len(text)) |->
     CHOOSE n \in 1..Len(text) : text[n].do = do /\ Written(do, n) = k]
Read ==
  [k \in 1..Len(Places("op")) |->
     LET n == Places("op")[k]
     IN  [op |-> text[n].op, depth |-> Written("open", n) - Written("close", n)]]
OperandsRead == [k \in 1..Len(Places("operand")) |-> text[Places("operand")[k]].at]

\* Of two operators, the earlier one binds at least as tightly: the two weights
\* agree on that.
OrderedAlike(v, w) ==
  \A i, j \in 1..Len(v) : i < j => (v[i] >= v[j] <=> w[i] >= w[j])

\* Type invariant.
TypeOK ==
  /\ pc \in {"format", "done", "error"} /\ bare \in BOOLEAN
  /\ source \in Seq(Element)
  /\ Range(todo) \subseteq Parts \cup {Operand(k) : k \in 0..MaxOps} \cup {Op(op) : op \in Operators}
                           \cup {Bracket("open"), Bracket("close")}
  /\ \A n \in 1..Len(text) : text[n].do \in {"operand", "op", "open", "close"}

\* The recursive calls leave nothing out, add nothing and keep the order: at every
\* return the text has the operators and the operands of the Go expression, the
\* operators in as many brackets unless an argument was written bare, and an
\* unfinished text has a beginning of its operands.
ReadsBack ==
  /\ pc = "done" => /\ Len(Read) = Len(source)
                    /\ \A k \in 1..Len(source) : Read[k].op = source[k].op
                    /\ bare \/ Read = source
                    /\ Len(OperandsRead) = Len(source) + 1
  /\ OperandsRead = [k \in 1..Len(OperandsRead) |-> k - 1]

\* Where Go and C agree on which of two operators of the expression binds tighter,
\* those in different brackets included, and no argument is written bare, the C
\* compiler builds Go's tree from the text.
GroupsWhereRanksAgree ==
  (pc = "done" /\ ~bare /\ OrderedAlike(Weights(GoPrec, source), Weights(CPrec, source))) =>
    Groups(Weights(CPrec, Read)) = Groups(Weights(GoPrec, source))

\* docs/status.md:63-66 lists arithmetic, bitwise, comparison and logical
\* operators as supported without conditions: the C compiler would build the tree
\* of the Go expression, whatever operators it combines.
SameGrouping ==
  pc = "done" => Groups(Weights(CPrec, Read)) = Groups(Weights(GoPrec, source))
=============================================================================
