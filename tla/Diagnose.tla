------------------------------ MODULE Diagnose ------------------------------
(***************************************************************************)
(* From the mappings of a finished Emit to an annotated verifier log:      *)
(* FormatSourceMap and the .map file (sourcemap.go, pipeline.go),          *)
(* ParseSourceMap, annotateLine, Rewrite and AnnotateLines (diagnose.go),  *)
(* the `gobee diagnose` command and the annotator WriteBindings generates, *)
(* composed with module Emitter, which says which Go node wrote each line. *)
(*                                                                         *)
(* A line of the log is the sequence of its `<stem>.bpf.c:<N>` references. *)
(* A reference is `own` if its stem is the file the map belongs to.        *)
(***************************************************************************)
EXTENDS Emitter, SequencesExt

CONSTANTS
  MaxRefs    \* bound: references in one line of the log (one, under a map cut short)

ASSUME DiagnoseAssumption == MaxRefs \in Nat

VARIABLES
  step,     \* how far the reader of the log has got
  text,     \* the entries of the sourcemap text, in file order
  sm,       \* the SourceMap read from it: C line -> Go node
  line,     \* the line of the log being annotated
  added     \* what annotateLine appended to it

diagVars == <<step, text, sm, line, added>>
allVars == <<vars, diagVars>>

\* What is left of a Go position that was cut off in the middle.
Garbled == 0

\* FormatSourceMap: the stable sort by C line.  The n-th entry of the text is the
\* one that n - 1 others come before.
FormatSourceMap(ms) ==
  LET before(i) == {j \in 1..Len(ms) : \/ ms[j].cLine < ms[i].cLine
                                       \/ ms[j].cLine = ms[i].cLine /\ j < i}
  IN  [n \in 1..Len(ms) |-> ms[CHOOSE i \in 1..Len(ms) : Cardinality(before(i)) = n - 1]]

\* The text the generated bindings embed, or the whole .map file.
Publish ==
  /\ phase = "done" /\ step = "idle"
  /\ text' = FormatSourceMap(mappings)
  /\ step' = "published"
  /\ UNCHANGED <<sm, line, added>>

\* A write of the .map file that a kill or a full disk cut off after n entries:
\* between two lines, inside the number of the next one, or inside its position.
PublishCut(n, where) ==
  LET whole == FormatSourceMap(mappings)
      rest == CASE where = "line"     -> <<>>
                [] where = "number"   -> <<[cLine |-> 0, pos |-> Garbled]>>
                [] where = "position" -> <<[cLine |-> whole[n + 1].cLine, pos |-> Garbled]>>
  IN  /\ phase = "done" /\ step = "idle"
      /\ text' = SubSeq(whole, 1, n) \o rest
      /\ step' = "published"
      /\ UNCHANGED <<sm, line, added>>

\* Mutant of Parsed: the first entry of a line is kept.
ParsedFirst(t) ==
  [l \in {t[i].cLine : i \in 1..Len(t)} |->
     t[CHOOSE i \in 1..Len(t) : t[i].cLine = l /\ \A j \in 1..(i - 1) : t[j].cLine # l].pos]

\* ParseSourceMap: a later entry replaces an earlier one of the same line.
Parsed(t) ==
  [l \in {t[i].cLine : i \in 1..Len(t)} |->
     t[CHOOSE i \in 1..Len(t) : t[i].cLine = l /\ \A j \in (i + 1)..Len(t) : t[j].cLine # l].pos]

\* Mutant of Read: the error of a malformed line is dropped.
ReadLenient ==
  /\ step = "published"
  /\ step' = "reading"
  /\ sm' = Parsed(text)
  /\ UNCHANGED <<text, line, added>>

\* A number without its tab is a malformed line: `gobee diagnose` stops, the
\* generated annotator returns the error it was given.
Read ==
  /\ step = "published"
  /\ IF \E i \in 1..Len(text) : text[i].cLine = 0
     THEN step' = "refused" /\ UNCHANGED sm
     ELSE step' = "reading" /\ sm' = Parsed(text)
  /\ UNCHANGED <<text, line, added>>

\* The references that do not repeat the number of an earlier one.
Fresh(refs) ==
  {i \in 1..Len(refs) : \A j \in 1..(i - 1) : refs[j].line # refs[i].line}

\* The members of S, a set of numbers up to n, from the smallest to the largest.
InOrder(S, n) ==
  CHOOSE s \in UNION {[1..m -> S] : m \in 0..n} :
    /\ \A j, k \in 1..Len(s) : j < k => s[j] < s[k]
    /\ S = {s[k] : k \in 1..Len(s)}

\* Mutant of Annotate: an unknown number takes the closest entry above it.
AnnotateNearest(refs) ==
  LET fresh == InOrder({i \in Fresh(refs) : \E l \in DOMAIN sm : l <= refs[i].line}, Len(refs))
      nearest(i) == Max({l \in DOMAIN sm : l <= refs[i].line})
  IN  [n \in 1..Len(fresh) |-> sm[nearest(fresh[n])]]

\* annotateLine: one position per number the map knows.  The stem is not looked at.
Annotate(refs) ==
  LET known == InOrder({i \in Fresh(refs) : refs[i].line \in DOMAIN sm}, Len(refs))
  IN  [n \in 1..Len(known) |-> sm[refs[known[n]].line]]

\* One line of Rewrite or AnnotateLines.  Lines are annotated one by one, so a log
\* of one line is enough (line = <<>> in Diagnosis and LineTooLong: the bound).
AnnotateLine(refs) ==
  /\ step = "reading"
  /\ line' = refs
  /\ added' = Annotate(refs)
  /\ UNCHANGED <<step, text, sm>>

\* Rewrite's scanner refuses a line of more than a megabyte; what follows is lost
\* and the command fails.
LineTooLong ==
  /\ step = "reading" /\ line = <<>>
  /\ step' = "stopped"
  /\ UNCHANGED <<text, sm, line, added>>

\* The file is all there.
Whole == text = FormatSourceMap(mappings)

\* The lines a reference is about: those a node of the Go program wrote, one of
\* the header, and one past the end.
Ref == [own : BOOLEAN, line : {1, Len(out) + 1} \cup {l \in 1..Len(out) : out[l].by # 0}]
LogLines == UNION {[1..n -> Ref] : n \in {m \in 1..MaxRefs : Whole \/ m = 1}}

DInit ==
  /\ Init
  /\ step = "idle"
  /\ text = <<>> /\ sm = <<>> /\ line = <<>> /\ added = <<>>

Diagnosis ==
  \/ Publish
  \/ \E n \in 0..(Len(mappings) - 1), where \in {"line", "number", "position"} : PublishCut(n, where)
  \/ Read
  \/ step = "reading" /\ line = <<>> /\ \E refs \in LogLines : AnnotateLine(refs)
  \/ LineTooLong

DNext ==
  \/ Next /\ UNCHANGED diagVars
  \/ Diagnosis /\ UNCHANGED vars

DSpec == DInit /\ [][DNext]_allVars

-----------------------------------------------------------------------------
\* Type invariant.
DTypeOK ==
  /\ step \in {"idle", "published", "refused", "reading", "stopped"}
  /\ text \in Seq(Mapping)
  /\ step # "idle" => Len(text) <= Len(mappings)
  /\ DOMAIN sm \subseteq 1..(Len(out) + 1)
  /\ Len(added) <= Len(line)

\* A line of the log that refers to the first C line of a statement, type, map or
\* function is annotated with the Go position of that node, whatever else the
\* line refers to, unless the map file was cut off.
HeadsAnnotated ==
  \A r \in Range(line) :
    r.own /\ r.line <= Len(out) /\ out[r.line].kind = "head" =>
      out[r.line].by \in Range(added) \/ ~Whole

\* "Unknown refs are left alone (no false rewrites)" (annotateLine): a position is
\* only ever the node that wrote the C line referred to, never another statement
\* above or below it.  The exceptions: a `var ()`, which records the line of
\* whatever comes next; a position cut off with the file; and a number that
\* belongs to another .bpf.c, which the pattern takes for this one's.
PositionsTrue ==
  \A a \in Range(added) : \E r \in Range(line) :
    /\ r.line \in DOMAIN sm /\ sm[r.line] = a
    /\ \/ r.line <= Len(out) /\ out[r.line].by = a
       \/ a \in silent
       \/ a = Garbled /\ ~Whole
       \/ ~r.own
=============================================================================
