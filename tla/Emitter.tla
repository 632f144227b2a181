------------------------------- MODULE Emitter -------------------------------
(***************************************************************************)
(* The text side of internal/transpile/emit.go: the walk over a parsed     *)
(* program that fills the C buffer and records the sourcemap as it goes.   *)
(*                                                                         *)
(* The buffer is a sequence of finished lines.  A line remembers the AST   *)
(* node that wrote it; its wording and its indentation are left out.  AST  *)
(* nodes are numbered in the order the walk meets them and the number      *)
(* stands for the node's Go position, so a mapping pairs a C line with a   *)
(* node.  Which node comes next is the input of every step.  What the walk *)
(* knows of Go names (aliases, tmpSeq) is added by module CommaOk.         *)
(***************************************************************************)
EXTENDS Naturals, Sequences

CONSTANTS
  MaxNodes,      \* bound: AST nodes of one program
  MaxDepth,      \* bound: blocks open at once, the function body included
  MaxFields,     \* bound: fields of a struct
  MaxVars,       \* bound: names declared by one var statement
  PreludeLines,  \* lines of one static prelude helper
  ElseParts      \* what an else-if may carry besides its condition and its body

ASSUME EmitterAssumption ==
  /\ MaxNodes \in Nat /\ MaxDepth \in Nat /\ MaxFields \in Nat /\ MaxVars \in Nat
  /\ PreludeLines \in Nat \ {0}
  /\ ElseParts \subseteq {"init", "else"}

VARIABLES
  phase,     \* how far Emit has got
  out,       \* e.buf: the lines written so far
  cLine,     \* e.cLine: the number of the line being written, from 1
  mappings,  \* e.mappings, in the order they were recorded
  blocks,    \* the Go call stack of the walk: blocks still open, innermost last
  nodes,     \* how many AST nodes the walk has met
  silent     \* history: the nodes Go itself gives no text to write (`var ()`)

vars == <<phase, out, cLine, mappings, blocks, nodes, silent>>

-----------------------------------------------------------------------------
\* Emit writes the sections of the file in this order.
Phases == <<"header", "types", "maps", "helpers", "programs", "done">>
Rank(p) == CHOOSE i \in 1..Len(Phases) : Phases[i] = p

\* Lines between the opening line of a map and its closing one, by the shape
\* of the map: its type, its key and value types, its flags, max_entries.
MapLines == [ringbuf |-> 2, valueOnly |-> 3, keyed |-> 4, storage |-> 4, autosized |-> 3]

\* "head" is the first line of a node that has a mapping of its own, "text" any
\* other line: a later one of the node, or one of an else-if.
Line(n, k) == [by |-> n, kind |-> k]
Lines(k, n, kind) == [i \in 1..k |-> Line(n, kind)]
Boilerplate(k) == Lines(k, 0, "text")

\* Mutants of Write: one line counted per call; every line counted twice, by the
\* writer and by the writer it calls.
WriteCountsCalls(ls) ==
  /\ out' = out \o ls
  /\ cLine' = IF ls = <<>> THEN cLine ELSE cLine + 1
WriteCountsTwice(ls) ==
  /\ out' = out \o ls
  /\ cLine' = cLine + 2 * Len(ls)

\* writef, writeln and writeRaw: append text, count its newlines.
Write(ls) ==
  /\ out' = out \o ls
  /\ cLine' = cLine + Len(ls)

\* recordPos: called before the first line of a node is written.
RecordPos(n) ==
  mappings' = Append(mappings, [cLine |-> cLine, pos |-> n])

\* The next AST node of the walk, and that it may still be visited.
Node == nodes + 1
Visit(n) == n <= MaxNodes /\ nodes' = n

Top == blocks[Len(blocks)]
Push(kind, n) == blocks' = Append(blocks, [kind |-> kind, node |-> n])
Pop == blocks' = SubSeq(blocks, 1, Len(blocks) - 1)
Retop(kind, n) == blocks' = [blocks EXCEPT ![Len(blocks)] = [kind |-> kind, node |-> n]]

\* Mutant of Init: lines counted from 0.
InitZeroBased ==
  /\ phase = "header"
  /\ out = <<>>
  /\ cLine = 0
  /\ mappings = <<>>
  /\ blocks = <<>>
  /\ nodes = 0
  /\ silent = {}

Init ==
  /\ phase = "header"
  /\ out = <<>>
  /\ cLine = 1
  /\ mappings = <<>>
  /\ blocks = <<>>
  /\ nodes = 0
  /\ silent = {}

-----------------------------------------------------------------------------
\* Top level of the file.

\* writeHeader, writeLicense and the static helpers of usedPreludeHelpers.
WriteHeader(core, endian, preludes) ==
  /\ phase = "header"
  /\ phase' = "types"
  /\ Write(Boilerplate(  3 + (IF core THEN 3 ELSE 2) + (IF endian THEN 1 ELSE 0) + 1
                       + 2 + preludes * (PreludeLines + 1)))
  /\ UNCHANGED <<mappings, blocks, nodes, silent>>

\* The walk is between two declarations and has not gone past section p.
AtSection(p) ==
  /\ blocks = <<>>
  /\ phase \notin {"header", "done", "failed"}
  /\ Rank(phase) <= Rank(p)
  /\ phase' = p

WriteUserType(fields) ==
  /\ AtSection("types")
  /\ Visit(Node)
  /\ RecordPos(Node)
  /\ Write(<<Line(Node, "head")>> \o Lines(fields + 2, Node, "text"))
  /\ UNCHANGED <<blocks, silent>>

WriteMap(shape) ==
  /\ AtSection("maps")
  /\ Visit(Node)
  /\ RecordPos(Node)
  /\ Write(<<Line(Node, "head")>> \o Lines(MapLines[shape] + 2, Node, "text"))
  /\ UNCHANGED <<blocks, silent>>

\* writeHelper up to its body: one signature line.
OpenHelper ==
  /\ AtSection("helpers")
  /\ Visit(Node)
  /\ RecordPos(Node)
  /\ Write(<<Line(Node, "head")>>)
  /\ Push("helper", Node)
  /\ UNCHANGED silent

\* writeProgram up to its body: the SEC line takes the mapping, the signature
\* below it has none.
OpenProgram ==
  /\ AtSection("programs")
  /\ Visit(Node)
  /\ RecordPos(Node)
  /\ Write(<<Line(Node, "head"), Line(Node, "text")>>)
  /\ Push("program", Node)
  /\ UNCHANGED silent

\* The end of writeHelper ("}" and a blank line) or of writeProgram ("}").
CloseFunction ==
  /\ blocks # <<>>
  /\ Top.kind \in {"helper", "program"}
  /\ Write(Lines(IF Top.kind = "helper" THEN 2 ELSE 1, Top.node, "text"))
  /\ Pop
  /\ UNCHANGED <<phase, mappings, nodes, silent>>

-----------------------------------------------------------------------------
\* writeStmt: record the position, then dispatch on the statement.
Statement ==
  /\ blocks # <<>>
  /\ phase # "failed"
  /\ Visit(Node)
  /\ RecordPos(Node)
  /\ UNCHANGED phase

\* Assignments, comma-ok, return, call and ++/-- statements: one line each.
WriteSimple ==
  /\ Statement
  /\ Write(<<Line(Node, "head")>>)
  /\ UNCHANGED <<blocks, silent>>

\* writeDeclStmt: one line per declared name, none for an empty `var ()`.
WriteDecl(k) ==
  /\ Statement
  /\ Write([i \in 1..k |-> Line(Node, IF i = 1 THEN "head" ELSE "text")])
  /\ silent' = IF k = 0 THEN silent \cup {Node} ELSE silent
  /\ UNCHANGED blocks

\* The opening line of writeIfStmt, writeForStmt and a bare block.
Open(kind) ==
  /\ Len(blocks) < MaxDepth
  /\ Statement
  /\ Write(<<Line(Node, "head")>>)
  /\ Push(kind, Node)
  /\ UNCHANGED silent

\* "} else {": still part of the same if statement.
Else ==
  /\ blocks # <<>>
  /\ Top.kind = "if"
  /\ Write(<<Line(Top.node, "text")>>)
  /\ Retop("else", Top.node)
  /\ UNCHANGED <<phase, mappings, nodes, silent>>

\* The nodes of one such part of an else-if: one statement, where the Go source
\* has it.
PartNodes(part) == IF part \in ElseParts THEN 0..1 ELSE {0}

\* Mutant of ElseIf: the condition is lost and "} else {" is written.
ElseIfAsElse(init) ==
  /\ blocks # <<>>
  /\ Top.kind = "if"
  /\ Visit(Node + init)
  /\ Write(<<Line(Top.node, "text")>>)
  /\ Retop("elseif", Top.node)
  /\ UNCHANGED <<phase, mappings, silent>>

\* "} else if (...) {": the inner if is an AST node, written without recordPos.
\* Its init clause (`else if y = f(); y > 0`, a statement of `init` nodes) is
\* neither written nor rejected: writeIfStmt looks at the Init of the outer if
\* only.
ElseIf(init) ==
  /\ blocks # <<>>
  /\ Top.kind = "if"
  /\ Visit(Node + init)
  /\ Write(<<Line(Node, "text")>>)
  /\ Retop("elseif", Node)
  /\ UNCHANGED <<phase, mappings, silent>>

Close ==
  /\ blocks # <<>>
  /\ Top.kind \in {"if", "else", "for", "block"}
  /\ Write(<<Line(Top.node, "text")>>)
  /\ Pop
  /\ UNCHANGED <<phase, mappings, nodes, silent>>

\* The end of an else-if.  Its own else branch, when the Go source has one
\* (a statement of `tail` nodes), is built into a value nobody reads, and the
\* chain is closed.
CloseElseIf(tail) ==
  /\ blocks # <<>>
  /\ Top.kind = "elseif"
  /\ nodes + tail <= MaxNodes
  /\ nodes' = nodes + tail
  /\ Write(<<Line(Top.node, "text")>>)
  /\ Pop
  /\ UNCHANGED <<phase, mappings, silent>>

-----------------------------------------------------------------------------
\* A construct with no C form: Emit returns (nil, nil, err).
Fail ==
  /\ phase \notin {"header", "done", "failed"}
  /\ phase' = "failed"
  /\ out' = <<>> /\ mappings' = <<>> /\ blocks' = <<>>
  /\ UNCHANGED <<cLine, nodes, silent>>

\* ParseFile only lets through files with a section function, so the walk ends
\* in the programs section.
Finish ==
  /\ phase = "programs" /\ blocks = <<>>
  /\ phase' = "done"
  /\ UNCHANGED <<out, cLine, mappings, blocks, nodes, silent>>

TopLevel ==
  \/ \E core, endian \in BOOLEAN, preludes \in 0..1 : WriteHeader(core, endian, preludes)
  \/ \E fields \in 0..MaxFields : WriteUserType(fields)
  \/ \E shape \in DOMAIN MapLines : WriteMap(shape)
  \/ OpenHelper
  \/ OpenProgram
  \/ Fail
  \/ Finish

Body ==
  \/ WriteSimple
  \/ \E k \in 0..MaxVars : WriteDecl(k)
  \/ \E kind \in {"if", "for", "block"} : Open(kind)
  \/ Else
  \/ \E init \in PartNodes("init") : ElseIf(init)
  \/ Close
  \/ \E tail \in PartNodes("else") : CloseElseIf(tail)
  \/ CloseFunction

Next == TopLevel \/ Body

Spec == Init /\ [][Next]_vars

-----------------------------------------------------------------------------
\* What ParseSourceMap reads back out of the file FormatSourceMap wrote: the
\* stable sort keeps the recording order of equal lines and the reader's map
\* keeps the last one, so i is the entry that decides line l.
Decides(i, l) ==
  /\ mappings[i].cLine = l
  /\ \A j \in 1..Len(mappings) : mappings[j].cLine = l => j <= i

\* Type invariant.
BlockKinds == {"helper", "program", "if", "else", "elseif", "for", "block"}
LineSet == [by : Nat, kind : {"head", "text"}]
Mapping == [cLine : Nat, pos : Nat]
Block == [kind : BlockKinds, node : Nat]

TypeOK ==
  /\ phase \in {"header", "types", "maps", "helpers", "programs", "done", "failed"}
  /\ out \in Seq(LineSet)
  /\ cLine \in Nat \ {0}
  /\ mappings \in Seq(Mapping)
  /\ blocks \in Seq(Block)
  /\ nodes \in Nat
  /\ silent \subseteq Nat

\* The sourcemap read back by gobee diagnose sends the first line of every
\* statement, type, map and function to the Go node that produced it, even
\* where several nodes recorded the same line (an empty `var ()` records a line
\* it never writes, and the next statement records it again).
HeadsResolve ==
  \A l \in 1..Len(out) : out[l].kind = "head" =>
    \E i \in 1..Len(mappings) : Decides(i, l) /\ mappings[i].pos = out[l].by

\* FormatSourceMap's sort never has to move an entry, and no entry lies beyond
\* the end of the file: recordPos always runs before the text it describes.
MappingsInOrder ==
  phase # "failed" =>
    /\ \A i, j \in 1..Len(mappings) : i < j => mappings[i].cLine <= mappings[j].cLine
    /\ \A i \in 1..Len(mappings) : mappings[i].cLine <= Len(out) + 1

\* Every statement of the Go program has text in the finished C file: the walk
\* of writeStmt, writeIfStmt and writeBlock either writes a node or fails.
NothingDropped ==
  phase = "done" =>
    \A n \in (1..nodes) \ silent : \E l \in 1..Len(out) : out[l].by = n
=============================================================================
