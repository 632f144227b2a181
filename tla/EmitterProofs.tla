---------------------------- MODULE EmitterProofs ----------------------------
(***************************************************************************)
(* Theorems about modules Emitter and Diagnose, for every value of their   *)
(* bounds: the type invariants; that the sourcemap sends every statement's *)
(* C line to the statement that wrote it; that no statement is left out;   *)
(* and that what annotateLine adds to a line of the log is the statement   *)
(* that wrote the C line the log refers to.                                *)
(***************************************************************************)
EXTENDS Diagnose, SequenceTheorems, FiniteSetTheorems, WellFoundedInduction, TLAPS

\* What HeadsResolve needs to be inductive: e.cLine is the number of the line
\* about to be written, and a failed emit leaves nothing behind.
LineCount ==
  IF phase = "failed" THEN out = <<>> /\ mappings = <<>> /\ blocks = <<>>
                      ELSE cLine = Len(out) + 1

MapInv == LineCount /\ MappingsInOrder /\ HeadsResolve

IInv == TypeOK /\ MapInv

-----------------------------------------------------------------------------
\* Lines(k, n, kind) is a sequence of k lines of node n.
LEMMA LinesType ==
  ASSUME NEW k \in Nat, NEW n \in Nat, NEW kind \in {"head", "text"}
  PROVE  /\ Lines(k, n, kind) \in Seq(LineSet)
         /\ Len(Lines(k, n, kind)) = k
         /\ \A i \in 1..k : Lines(k, n, kind)[i] = Line(n, kind)
  BY DEF Lines, Line, LineSet

\* The entries of the sourcemap have numbers for their lines.
LEMMA MappingLines ==
  ASSUME NEW ms \in Seq(Mapping)
  PROVE  /\ Len(ms) \in Nat
         /\ \A i \in 1..Len(ms) : ms[i].cLine \in Nat /\ ms[i].pos \in Nat
<1>1. \A i \in 1..Len(ms) : ms[i] \in Mapping
  OBVIOUS
<1> QED
  BY <1>1 DEF Mapping

\* What a write leaves in the buffer.
LEMMA WriteExtends ==
  ASSUME out \in Seq(LineSet), NEW ls \in Seq(LineSet), Write(ls)
  PROVE  /\ out' \in Seq(LineSet)
         /\ Len(out) \in Nat /\ Len(ls) \in Nat
         /\ Len(out') = Len(out) + Len(ls)
         /\ \A l \in 1..Len(out) : out'[l] = out[l]
         /\ \A l \in 1..Len(out') : l \in 1..Len(out) \/ l - Len(out) \in 1..Len(ls)
         /\ \A l \in 1..Len(out') : l \notin 1..Len(out) => out'[l] = ls[l - Len(out)]
  BY DEF Write

\* A write without recordPos of lines that head no node keeps the sourcemap
\* right: the new lines are not heads and the old ones keep their entry.
LEMMA WriteKeepsMap ==
  ASSUME TypeOK, MapInv, phase # "failed", phase' # "failed",
         NEW ls \in Seq(LineSet), Write(ls), mappings' = mappings,
         \A i \in 1..Len(ls) : ls[i].kind # "head"
  PROVE  MapInv'
<1>1. out \in Seq(LineSet) /\ mappings \in Seq(Mapping) /\ cLine \in Nat
  BY DEF TypeOK
<1>2. LineCount'
  BY <1>1, WriteExtends DEF Write, MapInv, LineCount
<1>3. MappingsInOrder'
  BY <1>1, WriteExtends, MappingLines DEF MapInv, MappingsInOrder
<1>4. HeadsResolve'
  <2> SUFFICES ASSUME NEW l \in 1..Len(out'), out'[l].kind = "head"
               PROVE  \E i \in 1..Len(mappings) : Decides(i, l) /\ mappings[i].pos = out'[l].by
    BY DEF HeadsResolve, Decides
  <2>1. l \in 1..Len(out)
    BY <1>1, WriteExtends
  <2>2. QED
    BY <2>1, <1>1, WriteExtends DEF MapInv, HeadsResolve
<1> QED
  BY <1>2, <1>3, <1>4 DEF MapInv

\* recordPos followed by a write whose only head is its first line, written by
\* the node that was recorded, keeps the sourcemap right: the new entry is the
\* last one of its line, and the lines written before have smaller numbers.
LEMMA RecordKeepsMap ==
  ASSUME TypeOK, MapInv, phase # "failed", phase' # "failed",
         NEW n \in Nat, NEW ls \in Seq(LineSet), Write(ls), RecordPos(n),
         \A i \in 1..Len(ls) : ls[i].kind = "head" => i = 1 /\ ls[1].by = n
  PROVE  MapInv'
<1>0. PICK m : m = Len(mappings) + 1
  OBVIOUS
<1>1. out \in Seq(LineSet) /\ mappings \in Seq(Mapping) /\ cLine \in Nat
  BY DEF TypeOK
<1>2. [cLine |-> cLine, pos |-> n] \in Mapping
  BY <1>1 DEF Mapping
<1>3. /\ mappings' \in Seq(Mapping)
      /\ Len(mappings) \in Nat
      /\ Len(mappings') = m
      /\ \A i \in 1..Len(mappings) : mappings'[i] = mappings[i]
      /\ \A i \in 1..Len(mappings') : i \in 1..Len(mappings) \/ i = m
      /\ mappings'[m].cLine = cLine /\ mappings'[m].pos = n
  BY <1>0, <1>1, <1>2 DEF RecordPos
<1>4. cLine = Len(out) + 1
  BY DEF MapInv, LineCount
<1>5. LineCount'
  BY <1>1, <1>4, WriteExtends DEF Write, LineCount
<1>6. MappingsInOrder'
  <2>1. \A i \in 1..Len(mappings) : mappings[i].cLine <= cLine /\ mappings[i].cLine \in Nat
    BY <1>1, <1>4, MappingLines DEF MapInv, MappingsInOrder
  <2>2. ASSUME NEW i \in 1..Len(mappings')
        PROVE  mappings'[i].cLine \in Nat /\ mappings'[i].cLine <= cLine
    <3>1. CASE i = m
      <4>1. mappings'[i].cLine = cLine
        BY <3>1, <1>3
      <4> QED
        BY <4>1, <1>1
    <3>2. CASE i \in 1..Len(mappings)
      <4>1. mappings'[i] = mappings[i]
        BY <3>2, <1>3
      <4> QED
        BY <4>1, <3>2, <2>1
    <3> QED
      BY <3>1, <3>2, <1>3
  <2>3. ASSUME NEW i \in 1..Len(mappings'), NEW j \in 1..Len(mappings'), i < j
        PROVE  mappings'[i].cLine <= mappings'[j].cLine
    <3>1. CASE j = m
      BY <3>1, <2>2, <1>3
    <3>2. CASE j \in 1..Len(mappings)
      <4>1. i \in 1..Len(mappings)
        BY <2>3, <3>2, <1>3
      <4> QED
        BY <4>1, <2>3, <3>2, <1>3 DEF MapInv, MappingsInOrder
    <3> QED
      BY <3>1, <3>2, <1>3
  <2>4. cLine <= Len(out') + 1
    BY <1>1, <1>4, WriteExtends
  <2>5. Len(out') \in Nat
    BY <1>1, WriteExtends
  <2> QED
    BY <2>2, <2>3, <2>4, <2>5, <1>1 DEF MappingsInOrder
<1>7. HeadsResolve'
  <2> SUFFICES ASSUME NEW l \in 1..Len(out'), out'[l].kind = "head"
               PROVE  \E i \in 1..Len(mappings') : Decides(i, l)' /\ mappings'[i].pos = out'[l].by
    BY DEF HeadsResolve
  <2>1. CASE l \in 1..Len(out)
    <3>1. PICK i \in 1..Len(mappings) : Decides(i, l) /\ mappings[i].pos = out[l].by
      BY <2>1, <1>1, WriteExtends DEF MapInv, HeadsResolve
    <3>2. l # cLine
      BY <2>1, <1>1, <1>4
    <3>3. Decides(i, l)'
      BY <3>1, <3>2, <1>0, <1>3 DEF Decides
    <3> QED
      BY <2>1, <3>1, <3>3, <1>0, <1>1, <1>3, WriteExtends
  <2>2. CASE l \notin 1..Len(out)
    <3>1. l - Len(out) \in 1..Len(ls) /\ out'[l] = ls[l - Len(out)]
      BY <2>2, <1>1, WriteExtends
    <3>2. l - Len(out) = 1 /\ out'[l].by = n
      BY <3>1
    <3>3. l = cLine
      BY <3>2, <1>1, <1>4, WriteExtends
    <3>4. Decides(m, l)'
      BY <3>3, <1>0, <1>3 DEF Decides
    <3> QED
      BY <3>2, <3>4, <1>0, <1>3
  <2> QED
    BY <2>1, <2>2
<1> QED
  BY <1>5, <1>6, <1>7 DEF MapInv

-----------------------------------------------------------------------------
\* The shapes of text the actions write: plain text, and a head followed by
\* lines that are not heads.
LEMMA TextShape ==
  ASSUME NEW k \in Nat, NEW n \in Nat
  PROVE  /\ Lines(k, n, "text") \in Seq(LineSet)
         /\ \A i \in 1..Len(Lines(k, n, "text")) : Lines(k, n, "text")[i].kind # "head"
<1>1. Line(n, "text").kind # "head"
  BY DEF Line
<1> QED
  BY <1>1, LinesType

LEMMA HeadShape ==
  ASSUME NEW k \in Nat, NEW n \in Nat, NEW ls,
         ls = <<Line(n, "head")>> \o Lines(k, n, "text")
  PROVE  /\ ls \in Seq(LineSet)
         /\ \A i \in 1..Len(ls) : ls[i].kind = "head" => i = 1 /\ ls[1].by = n
<1>1. Line(n, "head") \in LineSet /\ Line(n, "head").by = n
  BY DEF Line, LineSet
<1>2. /\ Lines(k, n, "text") \in Seq(LineSet) /\ Len(Lines(k, n, "text")) = k
      /\ \A i \in 1..k : Lines(k, n, "text")[i].kind # "head"
  BY LinesType, TextShape
<1>3. ls \in Seq(LineSet) /\ Len(ls) = k + 1 /\ ls[1] = Line(n, "head")
  BY <1>1, <1>2
<1>4. ASSUME NEW i \in 1..(k + 1), i # 1
      PROVE  ls[i].kind # "head"
  <2>1. i - 1 \in 1..k /\ ls[i] = Lines(k, n, "text")[i - 1]
    BY <1>1, <1>2, <1>4
  <2> QED
    BY <2>1, <1>2
<1> QED
  BY <1>1, <1>3, <1>4

LEMMA OneLineShape ==
  ASSUME NEW n \in Nat, NEW ls, ls = <<Line(n, "head")>>
  PROVE  /\ ls \in Seq(LineSet)
         /\ \A i \in 1..Len(ls) : ls[i].kind = "head" => i = 1 /\ ls[1].by = n
<1>1. Line(n, "head") \in LineSet /\ Line(n, "head").by = n
  BY DEF Line, LineSet
<1>2. ls \in Seq(LineSet) /\ Len(ls) = 1 /\ ls[1] = Line(n, "head")
  BY <1>1
<1> QED
  BY <1>1, <1>2

LEMMA TwoLineShape ==
  ASSUME NEW n \in Nat, NEW ls, ls = <<Line(n, "head"), Line(n, "text")>>
  PROVE  /\ ls \in Seq(LineSet)
         /\ \A i \in 1..Len(ls) : ls[i].kind = "head" => i = 1 /\ ls[1].by = n
<1>1. /\ Line(n, "head") \in LineSet /\ Line(n, "head").by = n
      /\ Line(n, "text") \in LineSet /\ Line(n, "text").kind # "head"
  BY DEF Line, LineSet
<1>2. /\ ls \in Seq(LineSet) /\ Len(ls) = 2
      /\ ls[1] = Line(n, "head") /\ ls[2] = Line(n, "text")
  BY <1>1
<1> QED
  BY <1>1, <1>2

LEMMA DeclShape ==
  ASSUME NEW k \in Nat, NEW n \in Nat, NEW ls,
         ls = [i \in 1..k |-> Line(n, IF i = 1 THEN "head" ELSE "text")]
  PROVE  /\ ls \in Seq(LineSet)
         /\ \A i \in 1..Len(ls) : ls[i].kind = "head" => i = 1 /\ ls[1].by = n
<1>1. \A i \in 1..k : Line(n, IF i = 1 THEN "head" ELSE "text") \in LineSet
  BY DEF Line, LineSet
<1>2. ls \in Seq(LineSet) /\ Len(ls) = k
  BY <1>1
<1>3. ASSUME NEW i \in 1..k, ls[i].kind = "head"
      PROVE  i = 1 /\ ls[1].by = n
  BY <1>3 DEF Line
<1> QED
  BY <1>2, <1>3

\* What the walk does to its stack keeps it well formed.
LEMMA StackType ==
  ASSUME blocks \in Seq(Block)
  PROVE  /\ blocks # <<>> => Top \in Block /\ Top.node \in Nat /\ Top.kind \in BlockKinds
         /\ \A n \in Nat, kind \in BlockKinds : Push(kind, n) => blocks' \in Seq(Block)
         /\ blocks # <<>> /\ Pop => blocks' \in Seq(Block)
         /\ \A n \in Nat, kind \in BlockKinds :
              blocks # <<>> /\ Retop(kind, n) => blocks' \in Seq(Block)
<1>1. blocks # <<>> => Len(blocks) \in 1..Len(blocks) /\ Top \in Block
  BY DEF Top
<1>2. ASSUME NEW n \in Nat, NEW kind \in BlockKinds
      PROVE  [kind |-> kind, node |-> n] \in Block
  BY DEF Block
<1>3. ASSUME NEW b \in Block
      PROVE  b.node \in Nat /\ b.kind \in BlockKinds
  BY DEF Block
<1>4. \A n \in Nat, kind \in BlockKinds : Push(kind, n) => blocks' \in Seq(Block)
  BY <1>2 DEF Push
<1>5. blocks # <<>> /\ Pop => blocks' \in Seq(Block)
  BY <1>1 DEF Pop
<1>6. ASSUME NEW n \in Nat, NEW kind \in BlockKinds, blocks # <<>>, Retop(kind, n)
      PROVE  blocks' \in Seq(Block)
  <2> DEFINE b == [kind |-> kind, node |-> n]
  <2>1. b \in Block
    BY <1>2
  <2> HIDE DEF b
  <2>2. blocks' = [blocks EXCEPT ![Len(blocks)] = b]
    BY <1>6 DEF Retop, b
  <2> QED
    BY <2>1, <2>2, <1>1, <1>6, ExceptSeq
<1> QED
  BY <1>1, <1>3, <1>4, <1>5, <1>6

-----------------------------------------------------------------------------
\* A step that writes ls and either records node n first or records nothing.
LEMMA WriteStep ==
  ASSUME IInv, phase # "failed", phase' # "failed",
         NEW ls \in Seq(LineSet), Write(ls), mappings' = mappings,
         \A i \in 1..Len(ls) : ls[i].kind # "head"
  PROVE  MapInv' /\ out' \in Seq(LineSet) /\ cLine' \in Nat \ {0} /\ mappings' \in Seq(Mapping)
<1>1. MapInv'
  BY WriteKeepsMap DEF IInv
<1> QED
  BY <1>1 DEF IInv, TypeOK, Write

LEMMA RecordStep ==
  ASSUME IInv, phase # "failed", phase' # "failed",
         NEW n \in Nat, NEW ls \in Seq(LineSet), Write(ls), RecordPos(n),
         \A i \in 1..Len(ls) : ls[i].kind = "head" => i = 1 /\ ls[1].by = n
  PROVE  MapInv' /\ out' \in Seq(LineSet) /\ cLine' \in Nat \ {0} /\ mappings' \in Seq(Mapping)
<1>1. MapInv'
  BY RecordKeepsMap DEF IInv
<1>2. cLine \in Nat \ {0} /\ mappings \in Seq(Mapping) /\ out \in Seq(LineSet)
  BY DEF IInv, TypeOK
<1>3. [cLine |-> cLine, pos |-> n] \in Mapping
  BY <1>2 DEF Mapping
<1> QED
  BY <1>1, <1>2, <1>3 DEF Write, RecordPos

\* Every line count of WriteMap is a number.
LEMMA MapLinesNat == \A shape \in DOMAIN MapLines : MapLines[shape] \in Nat
  BY DEF MapLines

LEMMA InitInv == Init => IInv
<1> SUFFICES ASSUME Init PROVE IInv
  OBVIOUS
<1>1. TypeOK
  BY DEF Init, TypeOK
<1>2. LineCount /\ MappingsInOrder /\ HeadsResolve
  BY DEF Init, LineCount, MappingsInOrder, HeadsResolve
<1> QED
  BY <1>1, <1>2 DEF IInv, MapInv

\* Each step of the top level keeps the invariant.
LEMMA TopLevelInv == IInv /\ TopLevel => IInv'
<1> SUFFICES ASSUME IInv, TopLevel PROVE IInv'
  OBVIOUS
<1>c. MaxFields \in Nat /\ MaxVars \in Nat /\ PreludeLines \in Nat \ {0}
  BY EmitterAssumption
<1>t. /\ out \in Seq(LineSet) /\ cLine \in Nat /\ cLine # 0 /\ mappings \in Seq(Mapping)
      /\ blocks \in Seq(Block) /\ nodes \in Nat /\ silent \subseteq Nat
      /\ Node \in Nat
  BY DEF IInv, TypeOK, Node
<1>1. ASSUME NEW core \in BOOLEAN, NEW endian \in BOOLEAN, NEW preludes \in 0..1,
             WriteHeader(core, endian, preludes)
      PROVE  IInv'
  <2>1. PICK k \in Nat : Write(Lines(k, 0, "text"))
    <3>1. 3 + (IF core THEN 3 ELSE 2) + (IF endian THEN 1 ELSE 0) + 1
            + 2 + preludes * (PreludeLines + 1) \in Nat
      <4>1. preludes * (PreludeLines + 1) \in Nat
        <5>1. CASE preludes = 0
          BY <5>1, <1>c
        <5>2. CASE preludes = 1
          BY <5>2, <1>c
        <5> QED
          BY <5>1, <5>2
      <4> QED
        BY <4>1
    <3> QED
      BY <1>1, <3>1 DEF WriteHeader, Boilerplate
  <2>2. phase # "failed" /\ phase' # "failed" /\ mappings' = mappings
    BY <1>1 DEF WriteHeader
  <2>3. MapInv' /\ out' \in Seq(LineSet) /\ cLine' \in Nat \ {0} /\ mappings' \in Seq(Mapping)
    BY <2>1, <2>2, TextShape, WriteStep
  <2> QED
    BY <1>1, <1>t, <2>3 DEF WriteHeader, IInv, TypeOK
<1>2. ASSUME NEW fields \in 0..MaxFields, WriteUserType(fields)
      PROVE  IInv'
  <2>0. PICK k \in Nat : k = fields + 2
    BY <1>c
  <2>1. PICK ls : ls = <<Line(Node, "head")>> \o Lines(k, Node, "text")
    OBVIOUS
  <2>3. /\ phase # "failed" /\ phase' = "types"
        /\ Write(ls) /\ RecordPos(Node)
    BY <1>2, <2>0, <2>1 DEF WriteUserType, AtSection
  <2>4. /\ ls \in Seq(LineSet)
        /\ \A i \in 1..Len(ls) : ls[i].kind = "head" => i = 1 /\ ls[1].by = Node
    BY <2>1, <1>t, HeadShape, ZenonT(60)
  <2>5. MapInv' /\ out' \in Seq(LineSet) /\ cLine' \in Nat \ {0} /\ mappings' \in Seq(Mapping)
    BY <2>3, <2>4, <1>t, RecordStep, ZenonT(60)
  <2> QED
    BY <1>2, <1>t, <2>3, <2>5 DEF WriteUserType, Visit, IInv, TypeOK
<1>3. ASSUME NEW shape \in DOMAIN MapLines, WriteMap(shape)
      PROVE  IInv'
  <2>0. PICK k \in Nat : k = MapLines[shape] + 2
    BY MapLinesNat
  <2>1. PICK ls : ls = <<Line(Node, "head")>> \o Lines(k, Node, "text")
    OBVIOUS
  <2>3. /\ phase # "failed" /\ phase' = "maps"
        /\ Write(ls) /\ RecordPos(Node)
    BY <1>3, <2>0, <2>1 DEF WriteMap, AtSection
  <2>4. /\ ls \in Seq(LineSet)
        /\ \A i \in 1..Len(ls) : ls[i].kind = "head" => i = 1 /\ ls[1].by = Node
    BY <2>1, <1>t, HeadShape, ZenonT(60)
  <2>5. MapInv' /\ out' \in Seq(LineSet) /\ cLine' \in Nat \ {0} /\ mappings' \in Seq(Mapping)
    BY <2>3, <2>4, <1>t, RecordStep, ZenonT(60)
  <2> QED
    BY <1>3, <1>t, <2>3, <2>5 DEF WriteMap, Visit, IInv, TypeOK
<1>4. ASSUME OpenHelper PROVE IInv'
  <2>1. PICK ls : ls = <<Line(Node, "head")>>
    OBVIOUS
  <2>3. /\ phase # "failed" /\ phase' = "helpers"
        /\ Write(ls) /\ RecordPos(Node) /\ Push("helper", Node)
    BY <1>4, <2>1 DEF OpenHelper, AtSection
  <2>4. /\ ls \in Seq(LineSet)
        /\ \A i \in 1..Len(ls) : ls[i].kind = "head" => i = 1 /\ ls[1].by = Node
    BY <2>1, <1>t, OneLineShape
  <2>5. MapInv' /\ out' \in Seq(LineSet) /\ cLine' \in Nat \ {0} /\ mappings' \in Seq(Mapping)
    BY <2>3, <2>4, <1>t, RecordStep, ZenonT(60)
  <2>6. blocks' \in Seq(Block)
    BY <2>3, <1>t, StackType DEF BlockKinds
  <2> QED
    BY <1>4, <1>t, <2>3, <2>5, <2>6 DEF OpenHelper, Visit, IInv, TypeOK
<1>5. ASSUME OpenProgram PROVE IInv'
  <2>1. PICK ls : ls = <<Line(Node, "head"), Line(Node, "text")>>
    OBVIOUS
  <2>3. /\ phase # "failed" /\ phase' = "programs"
        /\ Write(ls) /\ RecordPos(Node) /\ Push("program", Node)
    BY <1>5, <2>1 DEF OpenProgram, AtSection
  <2>4. /\ ls \in Seq(LineSet)
        /\ \A i \in 1..Len(ls) : ls[i].kind = "head" => i = 1 /\ ls[1].by = Node
    BY <2>1, <1>t, TwoLineShape
  <2>5. MapInv' /\ out' \in Seq(LineSet) /\ cLine' \in Nat \ {0} /\ mappings' \in Seq(Mapping)
    BY <2>3, <2>4, <1>t, RecordStep, ZenonT(60)
  <2>6. blocks' \in Seq(Block)
    BY <2>3, <1>t, StackType DEF BlockKinds
  <2> QED
    BY <1>5, <1>t, <2>3, <2>5, <2>6 DEF OpenProgram, Visit, IInv, TypeOK
<1>6. ASSUME Fail PROVE IInv'
  <2>1. TypeOK'
    BY <1>6, <1>t DEF Fail, TypeOK
  <2>2. MapInv'
    BY <1>6 DEF Fail, MapInv, LineCount, MappingsInOrder, HeadsResolve
  <2> QED
    BY <2>1, <2>2 DEF IInv
<1>7. ASSUME Finish PROVE IInv'
  <2>1. TypeOK'
    BY <1>7, <1>t DEF Finish, TypeOK
  <2>2. MapInv'
    BY <1>7 DEF Finish, IInv, MapInv, LineCount, MappingsInOrder, HeadsResolve, Decides
  <2> QED
    BY <2>1, <2>2 DEF IInv
<1> QED
  BY <1>1, <1>2, <1>3, <1>4, <1>5, <1>6, <1>7 DEF TopLevel

\* Each step inside a function body keeps the invariant.
LEMMA BodyInv == IInv /\ Body => IInv'
<1> SUFFICES ASSUME IInv, Body PROVE IInv'
  OBVIOUS
<1>c. MaxFields \in Nat /\ MaxVars \in Nat /\ PreludeLines \in Nat \ {0}
  BY EmitterAssumption
<1>t. /\ out \in Seq(LineSet) /\ cLine \in Nat /\ cLine # 0 /\ mappings \in Seq(Mapping)
      /\ blocks \in Seq(Block) /\ nodes \in Nat /\ silent \subseteq Nat
      /\ Node \in Nat
  BY DEF IInv, TypeOK, Node
<1>f. blocks # <<>> => phase # "failed" /\ Top.node \in Nat
  BY <1>t, StackType DEF IInv, MapInv, LineCount
<1>1. ASSUME WriteSimple PROVE IInv'
  <2>1. PICK ls : ls = <<Line(Node, "head")>>
    OBVIOUS
  <2>2. phase # "failed" /\ phase' = phase /\ Write(ls) /\ RecordPos(Node)
    BY <1>1, <2>1 DEF WriteSimple, Statement
  <2>3. /\ ls \in Seq(LineSet)
        /\ \A i \in 1..Len(ls) : ls[i].kind = "head" => i = 1 /\ ls[1].by = Node
    BY <2>1, <1>t, OneLineShape
  <2>4. MapInv' /\ out' \in Seq(LineSet) /\ cLine' \in Nat \ {0} /\ mappings' \in Seq(Mapping)
    BY <2>2, <2>3, <1>t, RecordStep, ZenonT(60)
  <2> QED
    BY <1>1, <1>t, <2>2, <2>4 DEF WriteSimple, Statement, Visit, IInv, TypeOK
<1>2. ASSUME NEW k \in 0..MaxVars, WriteDecl(k) PROVE IInv'
  <2>1. PICK ls : ls = [i \in 1..k |-> Line(Node, IF i = 1 THEN "head" ELSE "text")]
    OBVIOUS
  <2>2. phase # "failed" /\ phase' = phase /\ Write(ls) /\ RecordPos(Node)
    BY <1>2, <2>1 DEF WriteDecl, Statement
  <2>3. /\ ls \in Seq(LineSet)
        /\ \A i \in 1..Len(ls) : ls[i].kind = "head" => i = 1 /\ ls[1].by = Node
    <3>1. k \in Nat /\ Node \in Nat
      BY <1>t, <1>c
    <3> QED
      BY <2>1, <3>1, DeclShape
  <2>4. MapInv' /\ out' \in Seq(LineSet) /\ cLine' \in Nat \ {0} /\ mappings' \in Seq(Mapping)
    BY <2>2, <2>3, <1>t, RecordStep, ZenonT(60)
  <2>5. silent' \subseteq Nat
    BY <1>2, <1>t DEF WriteDecl
  <2> QED
    BY <1>2, <1>t, <2>2, <2>4, <2>5 DEF WriteDecl, Statement, Visit, IInv, TypeOK
<1>3. ASSUME NEW kind \in {"if", "for", "block"}, Open(kind) PROVE IInv'
  <2>1. PICK ls : ls = <<Line(Node, "head")>>
    OBVIOUS
  <2>2. /\ phase # "failed" /\ phase' = phase
        /\ Write(ls) /\ RecordPos(Node) /\ Push(kind, Node)
    BY <1>3, <2>1 DEF Open, Statement
  <2>3. /\ ls \in Seq(LineSet)
        /\ \A i \in 1..Len(ls) : ls[i].kind = "head" => i = 1 /\ ls[1].by = Node
    BY <2>1, <1>t, OneLineShape
  <2>4. MapInv' /\ out' \in Seq(LineSet) /\ cLine' \in Nat \ {0} /\ mappings' \in Seq(Mapping)
    BY <2>2, <2>3, <1>t, RecordStep, ZenonT(60)
  <2>5. blocks' \in Seq(Block)
    BY <2>2, <1>t, StackType DEF BlockKinds
  <2> QED
    BY <1>3, <1>t, <2>2, <2>4, <2>5 DEF Open, Statement, Visit, IInv, TypeOK
<1>4. ASSUME NEW n \in Nat, NEW k \in Nat,
             phase # "failed", phase' = phase, mappings' = mappings, silent' = silent,
             Write(Lines(k, n, "text")), blocks' \in Seq(Block), nodes' \in Nat
      PROVE  IInv'
  <2>1. Line(n, "text").kind # "head"
    BY DEF Line
  <2>2. /\ Lines(k, n, "text") \in Seq(LineSet)
        /\ \A i \in 1..Len(Lines(k, n, "text")) : Lines(k, n, "text")[i].kind # "head"
    BY <2>1, LinesType
  <2>3. MapInv' /\ out' \in Seq(LineSet) /\ cLine' \in Nat \ {0} /\ mappings' \in Seq(Mapping)
    BY <2>2, <1>4, WriteStep
  <2> QED
    BY <1>4, <1>t, <2>3 DEF IInv, TypeOK
<1>s. \A n : \A kind : <<Line(n, kind)>> = Lines(1, n, kind)
  BY DEF Lines
<1>5. ASSUME Else PROVE IInv'
  <2>1. blocks' \in Seq(Block)
    BY <1>5, <1>t, <1>f, StackType DEF Else, BlockKinds
  <2>3. /\ blocks # <<>> /\ phase' = phase /\ mappings' = mappings /\ silent' = silent
        /\ Write(Lines(1, Top.node, "text")) /\ nodes' \in Nat
    BY <1>5, <1>s, <1>t DEF Else
  <2> QED
    BY <1>4, <1>t, <1>f, <2>1, <2>3
<1>6. ASSUME NEW init \in PartNodes("init"), ElseIf(init) PROVE IInv'
  <2>1. blocks' \in Seq(Block)
    BY <1>6, <1>t, <1>f, StackType DEF ElseIf, BlockKinds
  <2>3. /\ blocks # <<>> /\ phase' = phase /\ mappings' = mappings /\ silent' = silent
        /\ Write(Lines(1, Node, "text")) /\ nodes' \in Nat
    BY <1>6, <1>s, <1>t DEF ElseIf, Visit, PartNodes
  <2> QED
    BY <1>4, <1>t, <1>f, <2>1, <2>3
<1>7. ASSUME Close PROVE IInv'
  <2>1. blocks' \in Seq(Block)
    BY <1>7, <1>t, StackType DEF Close
  <2>3. /\ blocks # <<>> /\ phase' = phase /\ mappings' = mappings /\ silent' = silent
        /\ Write(Lines(1, Top.node, "text")) /\ nodes' \in Nat
    BY <1>7, <1>s, <1>t DEF Close
  <2> QED
    BY <1>4, <1>t, <1>f, <2>1, <2>3
<1>8. ASSUME NEW tail \in PartNodes("else"), CloseElseIf(tail) PROVE IInv'
  <2>1. blocks' \in Seq(Block)
    BY <1>8, <1>t, StackType DEF CloseElseIf
  <2>3. /\ blocks # <<>> /\ phase' = phase /\ mappings' = mappings /\ silent' = silent
        /\ Write(Lines(1, Top.node, "text")) /\ nodes' \in Nat
    BY <1>8, <1>s, <1>t DEF CloseElseIf, PartNodes
  <2> QED
    BY <1>4, <1>t, <1>f, <2>1, <2>3
<1>9. ASSUME CloseFunction PROVE IInv'
  <2>1. blocks' \in Seq(Block)
    BY <1>9, <1>t, StackType DEF CloseFunction
  <2> QED
    BY <1>9, <1>4, <1>t, <1>f, <2>1 DEF CloseFunction
<1> QED
  BY <1>1, <1>2, <1>3, <1>5, <1>6, <1>7, <1>8, <1>9 DEF Body

LEMMA StutterInv == IInv /\ UNCHANGED vars => IInv'
<1> SUFFICES ASSUME IInv, UNCHANGED vars PROVE IInv'
  OBVIOUS
<1> USE DEF vars
<1>1. TypeOK'
  BY DEF IInv, TypeOK
<1>2. LineCount'
  BY DEF IInv, MapInv, LineCount
<1>3. MappingsInOrder'
  BY DEF IInv, MapInv, MappingsInOrder
<1>4. HeadsResolve'
  BY DEF IInv, MapInv, HeadsResolve, Decides
<1> QED
  BY <1>1, <1>2, <1>3, <1>4 DEF IInv, MapInv

-----------------------------------------------------------------------------
\* The inductive invariant.
THEOREM EmitterInvariant == Spec => []IInv
<1>1. IInv /\ [Next]_vars => IInv'
  BY TopLevelInv, BodyInv, StutterInv DEF Next
<1> QED
  BY InitInv, <1>1, PTL DEF Spec

\* The emitter's state stays well typed (type invariant of emit.go's emitter).
THEOREM EmitterTyped == Spec => []TypeOK
<1>1. IInv => TypeOK
  BY DEF IInv
<1> QED
  BY EmitterInvariant, <1>1, PTL

\* For programs of any size and nesting: recordPos and the newline counting of
\* writef/writeln/writeRaw give a sourcemap in which the first line of every
\* statement, type, map and function resolves to the node that wrote it.
THEOREM SourcemapCorrect == Spec => []HeadsResolve
<1>1. IInv => HeadsResolve
  BY DEF IInv, MapInv
<1> QED
  BY EmitterInvariant, <1>1, PTL

\* FormatSourceMap's stable sort is the identity on what the emitter records,
\* and no entry points past the end of the emitted file.
THEOREM SourcemapSorted == Spec => []MappingsInOrder
<1>1. IInv => MappingsInOrder
  BY DEF IInv, MapInv
<1> QED
  BY EmitterInvariant, <1>1, PTL

-----------------------------------------------------------------------------
\* Nothing is dropped: a node that was met has text, unless Go gives it none.
Written(n) == \E l \in 1..Len(out) : out[l].by = n
Covered == phase # "failed" => \A n \in (1..nodes) \ silent : Written(n)

LEMMA WriteKeepsWritten ==
  ASSUME out \in Seq(LineSet), NEW ls \in Seq(LineSet), Write(ls), NEW n, Written(n)
  PROVE  Written(n)'
<1>1. PICK l \in 1..Len(out) : out[l].by = n
  BY DEF Written
<1>2. l \in 1..Len(out') /\ out'[l] = out[l]
  BY WriteExtends
<1> QED
  BY <1>1, <1>2 DEF Written

LEMMA WriteWrites ==
  ASSUME out \in Seq(LineSet), NEW ls \in Seq(LineSet), Write(ls), NEW n, Len(ls) > 0, ls[1].by = n
  PROVE  Written(n)'
<1>1. PICK l : l = Len(out) + 1
  OBVIOUS
<1>2. l \in 1..Len(out') /\ l \notin 1..Len(out) /\ l - Len(out) = 1
  BY <1>1, WriteExtends
<1>3. out'[l] = ls[1]
  BY <1>2, WriteExtends
<1> QED
  BY <1>2, <1>3 DEF Written

\* A step that writes more text of nodes it has met.
LEMMA CoveredSame ==
  ASSUME TypeOK, Covered, NEW ls \in Seq(LineSet), Write(ls), phase # "failed",
         nodes' = nodes, silent' = silent
  PROVE  Covered'
<1>1. ASSUME NEW n, Written(n) PROVE Written(n)'
  BY <1>1, WriteKeepsWritten DEF TypeOK
<1> QED
  BY <1>1 DEF Covered

\* A step that meets a node and writes it, or meets an empty `var ()`.
LEMMA CoveredNext ==
  ASSUME TypeOK, Covered, NEW ls \in Seq(LineSet), Write(ls), phase # "failed",
         nodes' = Node, silent \subseteq silent',
         Node \in silent' \/ (Len(ls) > 0 /\ ls[1].by = Node)
  PROVE  Covered'
<1>1. ASSUME NEW n, Written(n) PROVE Written(n)'
  BY <1>1, WriteKeepsWritten DEF TypeOK
<1>2. PICK i : i = Node
  OBVIOUS
<1>3. i \in silent' \/ Written(i)'
  BY <1>2, WriteWrites DEF TypeOK
<1>4. 1..nodes' = (1..nodes) \cup {i}
  BY <1>2 DEF TypeOK, Node
<1> QED
  BY <1>1, <1>3, <1>4 DEF Covered

LEMMA CoveredInit == Init => Covered
  BY DEF Init, Covered

LEMMA TopLevelCovered == IInv /\ Covered /\ TopLevel => Covered'
<1> SUFFICES ASSUME IInv, Covered, TopLevel PROVE Covered'
  OBVIOUS
<1>t. TypeOK /\ nodes \in Nat /\ Node \in Nat
  BY DEF IInv, TypeOK, Node
<1>n. /\ Line(Node, "head") \in LineSet /\ Line(Node, "head").by = Node
      /\ Line(Node, "text") \in LineSet
  BY <1>t DEF Line, LineSet
<1>h. ASSUME NEW k \in Nat, NEW ls, ls = <<Line(Node, "head")>> \o Lines(k, Node, "text")
      PROVE  ls \in Seq(LineSet) /\ Len(ls) > 0 /\ ls[1].by = Node
  <2>1. Lines(k, Node, "text") \in Seq(LineSet) /\ Len(Lines(k, Node, "text")) = k
    BY <1>t, LinesType
  <2> QED
    BY <1>h, <1>n, <2>1
<1>1. ASSUME NEW core \in BOOLEAN, NEW endian \in BOOLEAN, NEW preludes \in 0..1,
             WriteHeader(core, endian, preludes)
      PROVE  Covered'
  <2>1. PICK k \in Nat : Write(Lines(k, 0, "text"))
    <3>1. preludes * (PreludeLines + 1) \in Nat
      <4>1. CASE preludes = 0
        BY <4>1, EmitterAssumption
      <4>2. CASE preludes = 1
        BY <4>2, EmitterAssumption
      <4> QED
        BY <4>1, <4>2
    <3>2. 3 + (IF core THEN 3 ELSE 2) + (IF endian THEN 1 ELSE 0) + 1
            + 2 + preludes * (PreludeLines + 1) \in Nat
      BY <3>1
    <3> QED
      BY <1>1, <3>2 DEF WriteHeader, Boilerplate
  <2>2. Lines(k, 0, "text") \in Seq(LineSet)
    BY LinesType
  <2> QED
    BY <1>1, <1>t, <2>1, <2>2, CoveredSame DEF WriteHeader
<1>2. ASSUME NEW fields \in 0..MaxFields, WriteUserType(fields) PROVE Covered'
  <2>1. PICK k \in Nat : k = fields + 2
    BY EmitterAssumption
  <2>2. PICK ls : ls = <<Line(Node, "head")>> \o Lines(k, Node, "text")
    OBVIOUS
  <2>3. phase # "failed" /\ Write(ls) /\ nodes' = Node /\ silent' = silent
    BY <1>2, <2>1, <2>2 DEF WriteUserType, AtSection, Visit
  <2> QED
    BY <1>t, <1>h, <2>2, <2>3, CoveredNext
<1>3. ASSUME NEW shape \in DOMAIN MapLines, WriteMap(shape) PROVE Covered'
  <2>1. PICK k \in Nat : k = MapLines[shape] + 2
    BY MapLinesNat
  <2>2. PICK ls : ls = <<Line(Node, "head")>> \o Lines(k, Node, "text")
    OBVIOUS
  <2>3. phase # "failed" /\ Write(ls) /\ nodes' = Node /\ silent' = silent
    BY <1>3, <2>1, <2>2 DEF WriteMap, AtSection, Visit
  <2> QED
    BY <1>t, <1>h, <2>2, <2>3, CoveredNext
<1>4. ASSUME OpenHelper PROVE Covered'
  <2>1. PICK ls : ls = <<Line(Node, "head")>>
    OBVIOUS
  <2>2. ls \in Seq(LineSet) /\ Len(ls) > 0 /\ ls[1].by = Node
    BY <1>n, <2>1
  <2>3. phase # "failed" /\ Write(ls) /\ nodes' = Node /\ silent' = silent
    BY <1>4, <2>1 DEF OpenHelper, AtSection, Visit
  <2> QED
    BY <1>t, <2>2, <2>3, CoveredNext
<1>5. ASSUME OpenProgram PROVE Covered'
  <2>1. PICK ls : ls = <<Line(Node, "head"), Line(Node, "text")>>
    OBVIOUS
  <2>2. ls \in Seq(LineSet) /\ Len(ls) > 0 /\ ls[1].by = Node
    BY <1>n, <2>1
  <2>3. phase # "failed" /\ Write(ls) /\ nodes' = Node /\ silent' = silent
    BY <1>5, <2>1 DEF OpenProgram, AtSection, Visit
  <2> QED
    BY <1>t, <2>2, <2>3, CoveredNext
<1>6. ASSUME Fail \/ Finish PROVE Covered'
  BY <1>6 DEF Fail, Finish, Covered, Written
<1> QED
  BY <1>1, <1>2, <1>3, <1>4, <1>5, <1>6 DEF TopLevel

\* An else-if with neither an init clause nor an else of its own drops nothing.
LEMMA BodyCovered == ASSUME ElseParts = {}, IInv, Covered, Body PROVE Covered'
<1>t. TypeOK /\ nodes \in Nat /\ Node \in Nat /\ blocks \in Seq(Block)
  BY DEF IInv, TypeOK, Node
<1>f. blocks # <<>> => phase # "failed" /\ Top.node \in Nat
  BY <1>t, StackType DEF IInv, MapInv, LineCount
<1>o. ASSUME NEW n \in Nat, NEW kind \in {"head", "text"}
      PROVE  <<Line(n, kind)>> \in Seq(LineSet) /\ Len(<<Line(n, kind)>>) > 0 /\ <<Line(n, kind)>>[1].by = n
  <2>1. Line(n, kind) \in LineSet /\ Line(n, kind).by = n
    BY DEF Line, LineSet
  <2> QED
    BY <2>1
<1>1. CASE WriteSimple \/ \E kind \in {"if", "for", "block"} : Open(kind)
  <2>1. PICK ls : ls = <<Line(Node, "head")>>
    OBVIOUS
  <2>2. ls \in Seq(LineSet) /\ Len(ls) > 0 /\ ls[1].by = Node
    BY <1>o, <1>t, <2>1
  <2>3. phase # "failed" /\ Write(ls) /\ nodes' = Node /\ silent' = silent
    BY <1>1, <2>1 DEF WriteSimple, Open, Statement, Visit
  <2> QED
    BY <1>t, <2>2, <2>3, CoveredNext
<1>2. ASSUME NEW k \in 0..MaxVars, WriteDecl(k) PROVE Covered'
  <2>0. k \in Nat
    BY EmitterAssumption
  <2>1. PICK ls : ls = [i \in 1..k |-> Line(Node, IF i = 1 THEN "head" ELSE "text")]
    OBVIOUS
  <2>2. ls \in Seq(LineSet)
    BY <1>t, <2>0, <2>1, DeclShape
  <2>3. Len(ls) = k /\ (k > 0 => ls[1].by = Node)
    BY <2>0, <2>1 DEF Line
  <2>4. /\ phase # "failed" /\ Write(ls) /\ nodes' = Node /\ silent \subseteq silent'
        /\ k = 0 => Node \in silent'
    BY <1>2, <2>1 DEF WriteDecl, Statement, Visit
  <2>5. Node \in silent' \/ (Len(ls) > 0 /\ ls[1].by = Node)
    BY <2>0, <2>3, <2>4
  <2> QED
    BY <1>t, <2>2, <2>4, <2>5, CoveredNext
<1>3. CASE ElseIf(0)
  <2>1. PICK ls : ls = <<Line(Node, "text")>>
    OBVIOUS
  <2>2. ls \in Seq(LineSet) /\ Len(ls) > 0 /\ ls[1].by = Node
    BY <1>o, <1>t, <2>1
  <2>3. phase # "failed" /\ Write(ls) /\ nodes' = Node /\ silent' = silent
    BY <1>3, <1>f, <1>t, <2>1 DEF ElseIf, Visit
  <2> QED
    BY <1>t, <2>2, <2>3, CoveredNext
<1>4. CASE Else \/ Close \/ CloseElseIf(0)
  <2>1. /\ blocks # <<>> /\ Write(<<Line(Top.node, "text")>>) /\ nodes' = nodes /\ silent' = silent
    BY <1>4, <1>t DEF Else, Close, CloseElseIf
  <2> QED
    BY <1>o, <1>t, <1>f, <2>1, CoveredSame
<1>5. CASE CloseFunction
  <2>1. PICK k \in {1, 2} : Write(Lines(k, Top.node, "text"))
    BY <1>5 DEF CloseFunction
  <2>2. Lines(k, Top.node, "text") \in Seq(LineSet)
    BY <1>5, <1>f, LinesType DEF CloseFunction
  <2> QED
    BY <1>5, <1>t, <1>f, <2>1, <2>2, CoveredSame DEF CloseFunction
<1> QED
  BY <1>1, <1>2, <1>3, <1>4, <1>5 DEF Body, PartNodes

\* For a program of any size in which no else-if carries an init clause or an
\* else of its own: the finished C file has text of every statement, type, map
\* and function.
THEOREM NoStatementDropped == ElseParts = {} => (Spec => []NothingDropped)
<1>1. ASSUME ElseParts = {} PROVE Spec => []NothingDropped
  <2>1. IInv /\ Covered /\ [Next]_vars => Covered'
    <3>1. Covered /\ UNCHANGED vars => Covered'
      BY DEF Covered, Written, vars
    <3> QED
      BY <1>1, <3>1, TopLevelCovered, BodyCovered DEF Next
  <2>2. Covered => NothingDropped
    BY DEF Covered, NothingDropped, Written
  <2> QED
    BY CoveredInit, EmitterInvariant, <2>1, <2>2, PTL DEF Spec
<1> QED
  BY <1>1

-----------------------------------------------------------------------------
\* What the reader of the sourcemap needs of the emitter: an entry gives a line
\* its node wrote, unless Go gives the node no text, and a finished emit has
\* nothing open, and so takes no further step.
EntriesTrue ==
  \A i \in 1..Len(mappings) :
    /\ mappings[i].cLine # 0 /\ mappings[i].pos # 0
    /\ \/ mappings[i].pos \in silent
       \/ mappings[i].cLine <= Len(out) /\ out[mappings[i].cLine].by = mappings[i].pos
Finished == phase = "done" => blocks = <<>>

EmitInv == IInv /\ EntriesTrue /\ Finished

\* The three shapes of a step that does not fail: more text of nodes met before,
\* a new node recorded and then written (or an empty `var ()`), and Finish.
MoreText ==
  /\ \E ls \in Seq(LineSet) : Write(ls)
  /\ mappings' = mappings /\ silent' = silent
NewNode ==
  /\ \E ls \in Seq(LineSet) : Write(ls) /\ (Node \in silent' \/ (Len(ls) > 0 /\ ls[1].by = Node))
  /\ RecordPos(Node) /\ silent \subseteq silent' /\ phase # "failed"

LEMMA TopLevelShape ==
  ASSUME IInv, TopLevel
  PROVE  MoreText \/ NewNode \/ Fail \/ Finish
<1>t. nodes \in Nat /\ Node \in Nat
  BY DEF IInv, TypeOK, Node
<1>n. /\ Line(Node, "head") \in LineSet /\ Line(Node, "head").by = Node
      /\ Line(Node, "text") \in LineSet
  BY <1>t DEF Line, LineSet
<1>h. ASSUME NEW k \in Nat, NEW ls, ls = <<Line(Node, "head")>> \o Lines(k, Node, "text")
      PROVE  ls \in Seq(LineSet) /\ Len(ls) > 0 /\ ls[1].by = Node
  <2>1. Lines(k, Node, "text") \in Seq(LineSet) /\ Len(Lines(k, Node, "text")) = k
    BY <1>t, LinesType
  <2> QED
    BY <1>h, <1>n, <2>1
<1>1. ASSUME NEW core \in BOOLEAN, NEW endian \in BOOLEAN, NEW preludes \in 0..1,
             WriteHeader(core, endian, preludes)
      PROVE  MoreText
  <2>1. PICK k \in Nat : Write(Lines(k, 0, "text"))
    <3>1. preludes * (PreludeLines + 1) \in Nat
      <4>1. CASE preludes = 0
        BY <4>1, EmitterAssumption
      <4>2. CASE preludes = 1
        BY <4>2, EmitterAssumption
      <4> QED
        BY <4>1, <4>2
    <3>2. 3 + (IF core THEN 3 ELSE 2) + (IF endian THEN 1 ELSE 0) + 1
            + 2 + preludes * (PreludeLines + 1) \in Nat
      BY <3>1
    <3> QED
      BY <1>1, <3>2 DEF WriteHeader, Boilerplate
  <2>2. Lines(k, 0, "text") \in Seq(LineSet)
    BY LinesType
  <2> QED
    BY <1>1, <2>1, <2>2 DEF WriteHeader, MoreText
<1>2. ASSUME NEW fields \in 0..MaxFields, WriteUserType(fields) PROVE NewNode
  <2>1. PICK k \in Nat : k = fields + 2
    BY EmitterAssumption
  <2>2. PICK ls : ls = <<Line(Node, "head")>> \o Lines(k, Node, "text")
    OBVIOUS
  <2>3. phase # "failed" /\ Write(ls) /\ RecordPos(Node) /\ silent' = silent
    BY <1>2, <2>1, <2>2 DEF WriteUserType, AtSection
  <2> QED
    BY <1>h, <2>2, <2>3 DEF NewNode
<1>3. ASSUME NEW shape \in DOMAIN MapLines, WriteMap(shape) PROVE NewNode
  <2>1. PICK k \in Nat : k = MapLines[shape] + 2
    BY MapLinesNat
  <2>2. PICK ls : ls = <<Line(Node, "head")>> \o Lines(k, Node, "text")
    OBVIOUS
  <2>3. phase # "failed" /\ Write(ls) /\ RecordPos(Node) /\ silent' = silent
    BY <1>3, <2>1, <2>2 DEF WriteMap, AtSection
  <2> QED
    BY <1>h, <2>2, <2>3 DEF NewNode
<1>4. CASE OpenHelper
  <2>1. PICK ls : ls = <<Line(Node, "head")>>
    OBVIOUS
  <2>2. ls \in Seq(LineSet) /\ Len(ls) > 0 /\ ls[1].by = Node
    BY <1>n, <2>1
  <2>3. phase # "failed" /\ Write(ls) /\ RecordPos(Node) /\ silent' = silent
    BY <1>4, <2>1 DEF OpenHelper, AtSection
  <2> QED
    BY <2>2, <2>3 DEF NewNode
<1>5. CASE OpenProgram
  <2>1. PICK ls : ls = <<Line(Node, "head"), Line(Node, "text")>>
    OBVIOUS
  <2>2. ls \in Seq(LineSet) /\ Len(ls) > 0 /\ ls[1].by = Node
    BY <1>n, <2>1
  <2>3. phase # "failed" /\ Write(ls) /\ RecordPos(Node) /\ silent' = silent
    BY <1>5, <2>1 DEF OpenProgram, AtSection
  <2> QED
    BY <2>2, <2>3 DEF NewNode
<1> QED
  BY <1>1, <1>2, <1>3, <1>4, <1>5 DEF TopLevel

LEMMA BodyShape ==
  ASSUME IInv, Body
  PROVE  MoreText \/ NewNode
<1>t. nodes \in Nat /\ Node \in Nat /\ blocks \in Seq(Block)
  BY DEF IInv, TypeOK, Node
<1>f. blocks # <<>> => phase # "failed" /\ Top.node \in Nat
  BY <1>t, StackType DEF IInv, MapInv, LineCount
<1>o. ASSUME NEW n \in Nat, NEW kind \in {"head", "text"}, NEW ls, ls = <<Line(n, kind)>>
      PROVE  ls \in Seq(LineSet) /\ Len(ls) > 0 /\ ls[1].by = n
  <2>1. Line(n, kind) \in LineSet /\ Line(n, kind).by = n
    BY DEF Line, LineSet
  <2> QED
    BY <1>o, <2>1
<1>1. CASE WriteSimple \/ \E kind \in {"if", "for", "block"} : Open(kind)
  <2>1. PICK ls : ls = <<Line(Node, "head")>>
    OBVIOUS
  <2>2. ls \in Seq(LineSet) /\ Len(ls) > 0 /\ ls[1].by = Node
    BY <1>o, <1>t, <2>1
  <2>3. phase # "failed" /\ Write(ls) /\ RecordPos(Node) /\ silent' = silent
    BY <1>1, <2>1 DEF WriteSimple, Open, Statement
  <2> QED
    BY <2>2, <2>3 DEF NewNode
<1>2. ASSUME NEW k \in 0..MaxVars, WriteDecl(k) PROVE NewNode
  <2>0. k \in Nat
    BY EmitterAssumption
  <2>1. PICK ls : ls = [i \in 1..k |-> Line(Node, IF i = 1 THEN "head" ELSE "text")]
    OBVIOUS
  <2>2. ls \in Seq(LineSet)
    BY <1>t, <2>0, <2>1, DeclShape
  <2>3. Len(ls) = k /\ (k > 0 => ls[1].by = Node)
    BY <2>0, <2>1 DEF Line
  <2>4. /\ phase # "failed" /\ Write(ls) /\ RecordPos(Node) /\ silent \subseteq silent'
        /\ k = 0 => Node \in silent'
    BY <1>2, <2>1 DEF WriteDecl, Statement
  <2>5. Node \in silent' \/ (Len(ls) > 0 /\ ls[1].by = Node)
    BY <2>0, <2>3, <2>4
  <2> QED
    BY <2>2, <2>4, <2>5 DEF NewNode
<1>3. CASE \E init \in PartNodes("init") : ElseIf(init)
  <2>1. PICK ls : ls = <<Line(Node, "text")>>
    OBVIOUS
  <2>2. ls \in Seq(LineSet)
    BY <1>o, <1>t, <2>1
  <2>3. Write(ls) /\ mappings' = mappings /\ silent' = silent
    BY <1>3, <2>1 DEF ElseIf
  <2> QED
    BY <2>2, <2>3 DEF MoreText
<1>4. CASE Else \/ Close \/ \E tail \in PartNodes("else") : CloseElseIf(tail)
  <2>1. PICK ls : ls = <<Line(Top.node, "text")>>
    OBVIOUS
  <2>2. blocks # <<>> /\ Write(ls) /\ mappings' = mappings /\ silent' = silent
    BY <1>4, <2>1 DEF Else, Close, CloseElseIf
  <2>3. ls \in Seq(LineSet)
    BY <1>o, <1>f, <2>1, <2>2
  <2> QED
    BY <2>2, <2>3 DEF MoreText
<1>5. CASE CloseFunction
  <2>1. PICK k \in {1, 2} : Write(Lines(k, Top.node, "text"))
    BY <1>5 DEF CloseFunction
  <2>2. Lines(k, Top.node, "text") \in Seq(LineSet)
    BY <1>5, <1>f, LinesType DEF CloseFunction
  <2> QED
    BY <1>5, <2>1, <2>2 DEF CloseFunction, MoreText
<1> QED
  BY <1>1, <1>2, <1>3, <1>4, <1>5 DEF Body

LEMMA MoreTextEntries ==
  ASSUME IInv, EntriesTrue, MoreText
  PROVE  EntriesTrue'
<1>1. PICK ls \in Seq(LineSet) : Write(ls)
  BY DEF MoreText
<1>2. out \in Seq(LineSet) /\ mappings \in Seq(Mapping)
  BY DEF IInv, TypeOK
<1>3. Len(out) <= Len(out') /\ Len(out) \in Nat /\ \A l \in 1..Len(out) : out'[l] = out[l]
  BY <1>1, <1>2, WriteExtends
<1>4. Len(out') \in Nat
  BY <1>1, <1>2, WriteExtends
<1>5. \A i \in 1..Len(mappings) : mappings[i].cLine \in Nat
  BY <1>2, MappingLines
<1> QED
  BY <1>3, <1>4, <1>5 DEF EntriesTrue, MoreText

LEMMA NewNodeEntries ==
  ASSUME IInv, EntriesTrue, NewNode
  PROVE  EntriesTrue'
<1>1. PICK ls \in Seq(LineSet) : Write(ls) /\ (Node \in silent' \/ (Len(ls) > 0 /\ ls[1].by = Node))
  BY DEF NewNode
<1>2. out \in Seq(LineSet) /\ mappings \in Seq(Mapping) /\ cLine \in Nat \ {0} /\ nodes \in Nat
  BY DEF IInv, TypeOK
<1>3. /\ Len(out) \in Nat /\ Len(out') \in Nat /\ Len(out) <= Len(out')
      /\ \A l \in 1..Len(out) : out'[l] = out[l]
  BY <1>1, <1>2, WriteExtends
<1>4. PICK m : m = Len(mappings) + 1
  OBVIOUS
<1>5. PICK n : n = Node
  OBVIOUS
<1>6. n \in Nat /\ n # 0
  BY <1>2, <1>5 DEF Node
<1>7. /\ Len(mappings) \in Nat /\ Len(mappings') = m
      /\ \A i \in 1..Len(mappings) : mappings'[i] = mappings[i]
      /\ mappings'[m].cLine = cLine /\ mappings'[m].pos = n
  <2>1. [cLine |-> cLine, pos |-> n] \in Mapping
    BY <1>2, <1>6 DEF Mapping
  <2> QED
    BY <1>2, <1>4, <1>5, <2>1 DEF NewNode, RecordPos
<1>8. cLine = Len(out) + 1
  BY DEF IInv, MapInv, LineCount, NewNode
<1>9. n \in silent' \/ (cLine <= Len(out') /\ out'[cLine].by = n)
  <2>1. CASE Len(ls) > 0 /\ ls[1].by = Node
    <3>1. cLine \in 1..Len(out') /\ cLine \notin 1..Len(out) /\ cLine - Len(out) = 1
      BY <2>1, <1>1, <1>2, <1>8, WriteExtends
    <3>2. out'[cLine] = ls[1]
      BY <3>1, <1>1, <1>2, WriteExtends
    <3> QED
      BY <2>1, <3>1, <3>2, <1>5
  <2> QED
    BY <2>1, <1>1, <1>5
<1>10. ASSUME NEW i \in 1..Len(mappings')
       PROVE  /\ mappings'[i].cLine # 0 /\ mappings'[i].pos # 0
              /\ \/ mappings'[i].pos \in silent'
                 \/ mappings'[i].cLine <= Len(out') /\ out'[mappings'[i].cLine].by = mappings'[i].pos
  <2>1. CASE i = m
    <3>1. mappings'[i].cLine = cLine /\ mappings'[i].pos = n
      BY <2>1, <1>7
    <3> QED
      BY <3>1, <1>2, <1>6, <1>9
  <2>2. CASE i \in 1..Len(mappings)
    <3>1. mappings'[i] = mappings[i]
      BY <2>2, <1>7
    <3>2. mappings[i].cLine \in Nat
      BY <2>2, <1>2, MappingLines
    <3>3. silent \subseteq silent'
      BY DEF NewNode
    <3> QED
      BY <3>1, <3>2, <3>3, <2>2, <1>3 DEF EntriesTrue
  <2> QED
    BY <2>1, <2>2, <1>4, <1>7
<1> QED
  BY <1>10 DEF EntriesTrue

LEMMA EmitInit == Init => EmitInv
<1>1. Init => EntriesTrue /\ Finished
  BY DEF Init, EntriesTrue, Finished
<1> QED
  BY <1>1, InitInv DEF EmitInv

LEMMA EmitNext == EmitInv /\ Next => EmitInv'
<1> SUFFICES ASSUME EmitInv, Next PROVE EmitInv'
  OBVIOUS
<1>1. IInv'
  BY TopLevelInv, BodyInv DEF EmitInv, Next
<1>2. EntriesTrue'
  <2>1. MoreText \/ NewNode \/ Fail \/ Finish
    BY TopLevelShape, BodyShape DEF EmitInv, Next
  <2>2. Fail \/ Finish => EntriesTrue'
    BY DEF EmitInv, Fail, Finish, EntriesTrue
  <2> QED
    BY <2>1, <2>2, MoreTextEntries, NewNodeEntries DEF EmitInv
<1>3. Finished'
  <2>1. TopLevel => Finished'
    BY DEF TopLevel, WriteHeader, WriteUserType, WriteMap, OpenHelper, OpenProgram, AtSection,
           Fail, Finish, Finished
  <2>2. Body => blocks # <<>> /\ phase' = phase
    BY DEF Body, WriteSimple, WriteDecl, Open, Statement, Else, ElseIf, Close, CloseElseIf, CloseFunction
  <2> QED
    BY <2>1, <2>2 DEF EmitInv, Finished, Next
<1> QED
  BY <1>1, <1>2, <1>3 DEF EmitInv

LEMMA DoneStops == ASSUME EmitInv, phase = "done", Next PROVE FALSE
<1>1. blocks = <<>>
  BY DEF EmitInv, Finished
<1>2. ~ Body
  BY <1>1 DEF Body, WriteSimple, WriteDecl, Open, Statement, Else, ElseIf, Close, CloseElseIf, CloseFunction
<1>3. ~ TopLevel
  BY DEF TopLevel, WriteHeader, WriteUserType, WriteMap, OpenHelper, OpenProgram, AtSection, Fail, Finish
<1> QED
  BY <1>2, <1>3 DEF Next

-----------------------------------------------------------------------------
\* FormatSourceMap, ParseSourceMap and annotateLine.

\* A set of numbers that has a member has a least one, and a greatest one if it
\* is bounded.
LEMMA Least ==
  ASSUME NEW T \in SUBSET Nat, T # {}
  PROVE  \E d \in T : \A e \in T : d <= e
<1>1. PICK d \in T : \A e \in T : ~ (<<e, d>> \in OpToRel(<, Nat))
  BY NatLessThanWellFounded, WFMin
<1>2. ASSUME NEW e \in T, ~ (d <= e) PROVE FALSE
  <2>1. e \in Nat /\ d \in Nat /\ e < d
    BY <1>2
  <2>2. <<e, d>> \in Nat \X Nat /\ <<e, d>>[1] < <<e, d>>[2]
    BY <2>1
  <2>3. <<e, d>> \in OpToRel(<, Nat)
    BY <2>2, Zenon DEF OpToRel
  <2> QED
    BY <1>1, <2>3
<1> QED
  BY <1>2

LEMMA GreatestIndex ==
  ASSUME NEW L \in Nat, NEW T \in SUBSET (1..L), T # {}
  PROVE  \E d \in T : \A e \in T : e <= d
<1>1. PICK U : U = {L - d : d \in T}
  OBVIOUS
<1>2. U \in SUBSET Nat /\ U # {}
  <2>1. \A d \in T : L - d \in Nat
    OBVIOUS
  <2> QED
    BY <1>1, <2>1
<1>3. PICK u \in U : \A w \in U : u <= w
  BY <1>2, Least
<1>4. PICK d \in T : u = L - d
  BY <1>1
<1>5. ASSUME NEW e \in T PROVE e <= d
  <2>1. L - e \in U
    BY <1>1
  <2>2. L - d <= L - e
    BY <1>3, <1>4, <2>1
  <2> QED
    BY <2>2
<1> QED
  BY <1>5

\* The entries of a sourcemap, by line.
InLineOrder(ms) == \A i, j \in 1..Len(ms) : i < j => ms[i].cLine <= ms[j].cLine

\* The sort leaves entries alone that are in order.
LEMMA SortKeeps ==
  ASSUME NEW ms \in Seq(Mapping), InLineOrder(ms)
  PROVE  FormatSourceMap(ms) = ms
<1> DEFINE before(i) == {j \in 1..Len(ms) : \/ ms[j].cLine < ms[i].cLine
                                            \/ ms[j].cLine = ms[i].cLine /\ j < i}
           at(n) == CHOOSE i \in 1..Len(ms) : Cardinality(before(i)) = n - 1
<1>1. Len(ms) \in Nat /\ \A i \in 1..Len(ms) : ms[i].cLine \in Nat
  BY MappingLines
<1>2. ASSUME NEW i \in 1..Len(ms) PROVE Cardinality(before(i)) = i - 1
  <2>1. before(i) = 1..(i - 1)
    <3>1. ASSUME NEW j \in 1..Len(ms), j < i
          PROVE  ms[j].cLine < ms[i].cLine \/ ms[j].cLine = ms[i].cLine
      <4>1. ms[j].cLine <= ms[i].cLine
        BY <3>1 DEF InLineOrder
      <4> QED
        BY <4>1, <1>1
    <3>2. ASSUME NEW j \in 1..Len(ms), ~ (j < i)
          PROVE  ~ (ms[j].cLine < ms[i].cLine)
      <4>1. j = i \/ i < j
        BY <3>2, <1>1
      <4>2. ms[i].cLine <= ms[j].cLine
        BY <4>1, <1>1 DEF InLineOrder
      <4> QED
        BY <4>2, <1>1
    <3>3. \A j : j \in 1..(i - 1) <=> j \in 1..Len(ms) /\ j < i
      BY <1>1
    <3> QED
      BY <3>1, <3>2, <3>3
  <2>2. Cardinality(1..(i - 1)) = i - 1
    <3>1. 1 \in Int /\ i - 1 \in Int /\ i >= 1
      BY <1>1
    <3>2. Cardinality(1..(i - 1)) = IF 1 > i - 1 THEN 0 ELSE (i - 1) - 1 + 1
      BY <3>1, FS_Interval
    <3> QED
      BY <3>1, <3>2
  <2> QED
    BY <2>1, <2>2
<1> HIDE DEF before
<1>3. ASSUME NEW n \in 1..Len(ms) PROVE at(n) = n
  <2>1. at(n) \in 1..Len(ms) /\ Cardinality(before(at(n))) = n - 1
    BY <1>2
  <2>2. at(n) - 1 = n - 1
    BY <2>1, <1>2
  <2> QED
    BY <2>1, <2>2, <1>1
<1>4. FormatSourceMap(ms) = [n \in 1..Len(ms) |-> ms[at(n)]]
  BY DEF FormatSourceMap, before
<1> HIDE DEF at
<1>5. FormatSourceMap(ms) = [n \in 1..Len(ms) |-> ms[n]]
  BY <1>3, <1>4
<1> QED
  BY <1>5

\* i is the entry of t that decides line l.
LastOf(t, i, l) == t[i].cLine = l /\ \A j \in (i + 1)..Len(t) : t[j].cLine # l

\* The map a reader gets has every line of the text, with its last entry.
LEMMA ParsedEffect ==
  ASSUME NEW t \in Seq(Mapping)
  PROVE  /\ DOMAIN Parsed(t) = {t[i].cLine : i \in 1..Len(t)}
         /\ \A l \in DOMAIN Parsed(t) :
              \E i \in 1..Len(t) : LastOf(t, i, l) /\ Parsed(t)[l] = t[i].pos
<1>1. DOMAIN Parsed(t) = {t[i].cLine : i \in 1..Len(t)}
  BY DEF Parsed
<1>2. ASSUME NEW l \in {t[i].cLine : i \in 1..Len(t)}
      PROVE  \E i \in 1..Len(t) : LastOf(t, i, l) /\ Parsed(t)[l] = t[i].pos
  <2>1. PICK T : T = {i \in 1..Len(t) : t[i].cLine = l}
    OBVIOUS
  <2>2. Len(t) \in Nat /\ T \in SUBSET (1..Len(t)) /\ T # {}
    BY <2>1
  <2>3. PICK d \in T : \A e \in T : e <= d
    BY <2>2, GreatestIndex
  <2>4. d \in 1..Len(t) /\ LastOf(t, d, l)
    <3>1. ASSUME NEW j \in (d + 1)..Len(t), t[j].cLine = l PROVE FALSE
      <4>1. j \in T
        BY <3>1, <2>1, <2>2
      <4> QED
        BY <4>1, <2>3, <2>2
    <3> QED
      BY <3>1, <2>1 DEF LastOf
  <2>5. PICK c : c = CHOOSE i \in 1..Len(t) : t[i].cLine = l /\ \A j \in (i + 1)..Len(t) : t[j].cLine # l
    OBVIOUS
  <2>6. c \in 1..Len(t) /\ LastOf(t, c, l)
    BY <2>4, <2>5 DEF LastOf
  <2>7. Parsed(t)[l] = t[c].pos
    BY <2>5 DEF Parsed
  <2> QED
    BY <2>6, <2>7
<1> QED
  BY <1>1, <1>2

\* s lists the members of S from the smallest to the largest.
Lists(s, S) ==
  /\ \A j, k \in 1..Len(s) : j < k => s[j] < s[k]
  /\ S = {s[k] : k \in 1..Len(s)}
Listed(S, n) == \E s \in UNION {[1..m -> S] : m \in 0..n} : Lists(s, S)

\* With one more number at the end.
LEMMA ListedMore ==
  ASSUME NEW n \in Nat, NEW S \in SUBSET (1..(n + 1)), Listed(S \ {n + 1}, n)
  PROVE  Listed(S, n + 1)
<1>1. PICK P : P = S \ {n + 1}
  OBVIOUS
<1>2. PICK s \in UNION {[1..m -> P] : m \in 0..n} : Lists(s, P)
  BY <1>1 DEF Listed
<1>3. PICK m \in 0..n : s \in [1..m -> P]
  BY <1>2
<1>4. Len(s) = m /\ m \in Nat
  BY <1>3
<1>5. CASE n + 1 \notin S
  <2>1. S = P
    BY <1>1, <1>5
  <2>2. m \in 0..(n + 1) /\ s \in [1..m -> S]
    BY <1>3, <2>1
  <2> QED
    BY <2>1, <2>2, <1>2 DEF Listed
<1>6. CASE n + 1 \in S
  <2>1. PICK r : r = [k \in 1..(m + 1) |-> IF k <= m THEN s[k] ELSE n + 1]
    OBVIOUS
  <2>2. m + 1 \in 0..(n + 1) /\ r \in [1..(m + 1) -> S]
    BY <1>1, <1>3, <1>6, <2>1
  <2>3. Len(r) = m + 1
    BY <1>4, <2>2
  <2>4. \A k \in 1..m : r[k] = s[k] /\ s[k] \in P
    BY <1>3, <2>1
  <2>5. r[m + 1] = n + 1
    BY <1>4, <2>1
  <2>6. ASSUME NEW j \in 1..(m + 1), NEW k \in 1..(m + 1), j < k PROVE r[j] < r[k]
    <3>1. j \in 1..m
      BY <1>4, <2>6
    <3>2. CASE k \in 1..m
      BY <3>1, <3>2, <2>4, <2>6, <1>2, <1>4 DEF Lists
    <3>3. CASE k = m + 1
      <4>1. s[j] \in 1..(n + 1) /\ s[j] # n + 1
        BY <3>1, <2>4, <1>1
      <4> QED
        BY <4>1, <3>1, <3>3, <2>4, <2>5
    <3> QED
      BY <3>2, <3>3, <1>4
  <2>7. S = {r[k] : k \in 1..(m + 1)}
    <3>1. P = {s[k] : k \in 1..m}
      BY <1>2, <1>4 DEF Lists
    <3>2. S = P \cup {n + 1}
      BY <1>1, <1>6
    <3>3. 1..(m + 1) = (1..m) \cup {m + 1}
      BY <1>4
    <3>4. {r[k] : k \in (1..m) \cup {m + 1}} = {r[k] : k \in 1..m} \cup {r[m + 1]}
      OBVIOUS
    <3>5. {r[k] : k \in 1..m} = {s[k] : k \in 1..m}
      BY <2>4
    <3> QED
      BY <3>1, <3>2, <3>3, <3>4, <3>5, <2>5
  <2>8. Lists(r, S)
    BY <2>3, <2>6, <2>7 DEF Lists
  <2> QED
    BY <2>2, <2>8 DEF Listed
<1> QED
  BY <1>5, <1>6

LEMMA AlwaysListed ==
  ASSUME NEW n \in Nat, NEW S \in SUBSET (1..n)
  PROVE  Listed(S, n)
<1>1. PICK B : B = {m \in Nat : \E T \in SUBSET (1..m) : ~ Listed(T, m)}
  OBVIOUS
<1>2. B = {}
  <2> SUFFICES ASSUME B # {} PROVE FALSE
    OBVIOUS
  <2>1. PICK m \in B : \A k \in B : m <= k
    BY <1>1, Least
  <2>2. m \in Nat
    BY <1>1
  <2>3. PICK T \in SUBSET (1..m) : ~ Listed(T, m)
    BY <1>1
  <2>4. CASE m = 0
    <3>1. T = {}
      BY <2>4
    <3>2. <<>> \in [1..0 -> T] /\ Lists(<<>>, T)
      BY <3>1 DEF Lists
    <3>3. <<>> \in UNION {[1..k -> T] : k \in 0..m}
      BY <3>2, <2>4
    <3> QED
      BY <3>2, <3>3, <2>3 DEF Listed
  <2>5. CASE m # 0
    <3>1. PICK k \in Nat : m = k + 1
      BY <2>2, <2>5
    <3>2. k \notin B
      BY <2>1, <3>1
    <3>3. T \ {k + 1} \in SUBSET (1..k)
      BY <3>1
    <3>4. Listed(T \ {k + 1}, k)
      BY <3>2, <3>3, <1>1
    <3> QED
      BY <3>1, <3>4, <2>3, ListedMore
  <2> QED
    BY <2>4, <2>5
<1> QED
  BY <1>1, <1>2

LEMMA InOrderEffect ==
  ASSUME NEW n \in Nat, NEW S \in SUBSET (1..n)
  PROVE  /\ InOrder(S, n) \in Seq(S)
         /\ Len(InOrder(S, n)) <= n
         /\ S = {InOrder(S, n)[k] : k \in 1..Len(InOrder(S, n))}
<1> DEFINE K == UNION {[1..m -> S] : m \in 0..n}
           s == CHOOSE r \in K : Lists(r, S)
<1>1. s \in K /\ Lists(s, S)
  <2>1. \E r \in K : Lists(r, S)
    BY AlwaysListed DEF Listed
  <2> HIDE DEF K
  <2> QED
    BY <2>1
<1>2. InOrder(S, n) = s
  BY DEF InOrder, Lists
<1>3. PICK m \in 0..n : s \in [1..m -> S]
  BY <1>1
<1> HIDE DEF s
<1>4. s \in Seq(S) /\ Len(s) = m
  BY <1>3
<1>5. S = {s[k] : k \in 1..Len(s)} /\ Len(s) <= n
  BY <1>1, <1>4 DEF Lists
<1> QED
  BY <1>2, <1>4, <1>5

\* The annotations of a line: one position for every number the map knows.
Refs == [own : BOOLEAN, line : Nat \ {0}]
Answers(refs, ans) ==
  /\ ans \in Seq(Range(sm)) /\ Len(ans) <= Len(refs)
  /\ \A a \in Range(ans) : \E r \in Range(refs) : r.line \in DOMAIN sm /\ sm[r.line] = a
  /\ \A r \in Range(refs) : r.line \in DOMAIN sm => sm[r.line] \in Range(ans)

LEMMA AnnotateEffect ==
  ASSUME NEW refs \in Seq(Refs)
  PROVE  Answers(refs, Annotate(refs))
<1> DEFINE S == {i \in Fresh(refs) : refs[i].line \in DOMAIN sm}
           known == InOrder(S, Len(refs))
           ans == [n \in 1..Len(known) |-> sm[refs[known[n]].line]]
<1>0. Len(refs) \in Nat /\ DOMAIN refs = 1..Len(refs)
  OBVIOUS
<1>1. S \in SUBSET (1..Len(refs)) /\ \A i \in S : refs[i].line \in DOMAIN sm
  BY DEF Fresh
<1>2. Annotate(refs) = ans
  BY DEF Annotate
<1>3. ASSUME NEW i \in 1..Len(refs), refs[i].line \in DOMAIN sm
      PROVE  \E k \in S : refs[k].line = refs[i].line
  <2>1. PICK T : T = {j \in 1..Len(refs) : refs[j].line = refs[i].line}
    OBVIOUS
  <2>2. T \in SUBSET Nat /\ T # {}
    BY <2>1
  <2>3. PICK d \in T : \A e \in T : d <= e
    BY <2>2, Least
  <2>4. d \in 1..Len(refs) /\ refs[d].line = refs[i].line
    BY <2>1
  <2>5. ASSUME NEW j \in 1..(d - 1), refs[j].line = refs[d].line PROVE FALSE
    <3>1. j \in T
      BY <2>1, <2>4, <2>5, <1>0
    <3> QED
      BY <3>1, <2>3, <2>4
  <2>6. d \in Fresh(refs)
    BY <2>4, <2>5 DEF Fresh
  <2> QED
    BY <1>3, <2>4, <2>6
<1> HIDE DEF S
<1>4. /\ known \in Seq(S) /\ Len(known) <= Len(refs)
      /\ S = {known[k] : k \in 1..Len(known)}
  BY <1>0, <1>1, InOrderEffect
<1> HIDE DEF known
<1>5. Len(known) \in Nat /\ \A k \in 1..Len(known) : known[k] \in S
  BY <1>4
<1>6. /\ ans \in Seq(Range(sm)) /\ Len(ans) = Len(known) /\ DOMAIN ans = 1..Len(known)
      /\ \A k \in 1..Len(known) : ans[k] = sm[refs[known[k]].line]
  <2>1. \A k \in 1..Len(known) : sm[refs[known[k]].line] \in Range(sm)
    BY <1>1, <1>5 DEF Range
  <2> QED
    BY <1>5, <2>1
<1> HIDE DEF ans
<1>7. ASSUME NEW a \in Range(ans)
      PROVE  \E r \in Range(refs) : r.line \in DOMAIN sm /\ sm[r.line] = a
  <2>1. PICK k \in 1..Len(known) : a = ans[k]
    BY <1>6 DEF Range
  <2>2. PICK i : i = known[k]
    OBVIOUS
  <2>3. i \in S /\ a = sm[refs[i].line]
    BY <1>5, <1>6, <2>1, <2>2
  <2>4. refs[i].line \in DOMAIN sm /\ refs[i] \in Range(refs)
    BY <1>0, <1>1, <2>3 DEF Range
  <2> QED
    BY <2>3, <2>4
<1>8. ASSUME NEW r \in Range(refs), r.line \in DOMAIN sm
      PROVE  sm[r.line] \in Range(ans)
  <2>1. PICK i \in 1..Len(refs) : r = refs[i]
    BY <1>0 DEF Range
  <2>2. PICK d \in S : refs[d].line = r.line
    BY <1>3, <1>8, <2>1
  <2>3. PICK k \in 1..Len(known) : d = known[k]
    BY <1>4
  <2>4. ans[k] = sm[r.line]
    BY <1>6, <2>2, <2>3
  <2> QED
    BY <1>6, <2>4 DEF Range
<1> QED
  BY <1>2, <1>4, <1>6, <1>7, <1>8 DEF Answers

-----------------------------------------------------------------------------
\* The invariant of the reader.  An entry of the text is one of the emitter's,
\* or what a cut left of one.
FromMappings(e) ==
  \/ e.cLine = 0
  \/ \E j \in 1..Len(mappings) : e.cLine = mappings[j].cLine /\ e.pos \in {mappings[j].pos, Garbled}

TextInv ==
  /\ text \in Seq(Mapping)
  /\ step # "idle" => phase = "done" /\ Len(text) <= Len(mappings)
  /\ \A i \in 1..Len(text) : FromMappings(text[i])
  /\ step = "idle" => text = <<>>

ReadInv ==
  /\ step \in {"idle", "published", "refused", "reading", "stopped"}
  /\ step \in {"idle", "published", "refused"} => sm = <<>> /\ line = <<>> /\ added = <<>>
  /\ step \in {"reading", "stopped"} => sm = Parsed(text) /\ \A i \in 1..Len(text) : text[i].cLine # 0

LineInv == line \in Seq(Refs) /\ Answers(line, added)

DInv == EmitInv /\ TextInv /\ ReadInv /\ LineInv

\* A finished emit leaves its entries in order.
LEMMA DoneInOrder ==
  ASSUME EmitInv, phase = "done"
  PROVE  /\ mappings \in Seq(Mapping) /\ out \in Seq(LineSet)
         /\ FormatSourceMap(mappings) = mappings
         /\ \A i \in 1..Len(mappings) : mappings[i].cLine <= Len(out) + 1
<1>1. mappings \in Seq(Mapping) /\ out \in Seq(LineSet)
  BY DEF EmitInv, IInv, TypeOK
<1>2. MappingsInOrder /\ phase # "failed"
  BY DEF EmitInv, IInv, MapInv
<1>3. InLineOrder(mappings)
  BY <1>2 DEF MappingsInOrder, InLineOrder
<1> QED
  BY <1>1, <1>2, <1>3, SortKeeps DEF MappingsInOrder

\* A reader that has read nothing has annotated nothing.
LEMMA NothingAnswered ==
  ASSUME NEW refs, NEW ans, refs = <<>>, ans = <<>>
  PROVE  /\ refs \in Seq(Refs) /\ Len(ans) <= Len(refs)
         /\ Range(refs) = {} /\ Range(ans) = {}
         /\ \A S : ans \in Seq(S)
  BY DEF Range

LEMMA NothingRead == ASSUME line' = <<>>, added' = <<>> PROVE LineInv'
  BY NothingAnswered DEF LineInv, Answers

LEMMA DInvInit == DInit => DInv
<1> SUFFICES ASSUME DInit PROVE DInv
  OBVIOUS
<1>1. EmitInv
  BY EmitInit DEF DInit
<1>2. TextInv /\ ReadInv
  BY DEF DInit, TextInv, ReadInv
<1>3. LineInv
  BY NothingAnswered DEF DInit, LineInv, Answers
<1> QED
  BY <1>1, <1>2, <1>3 DEF DInv

\* The text a write that was cut off leaves.
LEMMA CutText ==
  ASSUME EmitInv, phase = "done", NEW n \in 0..(Len(mappings) - 1),
         NEW where \in {"line", "number", "position"}, PublishCut(n, where)
  PROVE  /\ text' \in Seq(Mapping) /\ Len(text') <= Len(mappings)
         /\ \A i \in 1..Len(text') : FromMappings(text'[i])
<1>1. mappings \in Seq(Mapping) /\ Len(mappings) \in Nat /\ FormatSourceMap(mappings) = mappings
  BY DoneInOrder
<1>2. n \in Nat /\ n + 1 \in 1..Len(mappings)
  BY <1>1
<1>3. PICK kept : kept = SubSeq(mappings, 1, n)
  OBVIOUS
<1>4. /\ kept \in Seq(Mapping) /\ Len(kept) = n
      /\ \A i \in 1..n : kept[i] = mappings[i]
  <2>1. \A i \in 1..n : mappings[i] \in Mapping
    BY <1>1, <1>2
  <2>2. /\ SubSeq(mappings, 1, n) \in Seq(Mapping)
        /\ Len(SubSeq(mappings, 1, n)) = (IF 1 <= n THEN n - 1 + 1 ELSE 0)
        /\ \A i \in 1..(n - 1 + 1) : SubSeq(mappings, 1, n)[i] = mappings[1 + i - 1]
    BY <2>1, <1>2, SubSeqProperties
  <2> QED
    BY <1>2, <1>3, <2>2
<1>5. PICK rest : /\ text' = kept \o rest
                  /\ rest = CASE where = "line"     -> <<>>
                              [] where = "number"   -> <<[cLine |-> 0, pos |-> Garbled]>>
                              [] where = "position" -> <<[cLine |-> mappings[n + 1].cLine, pos |-> Garbled]>>
  BY <1>1, <1>3 DEF PublishCut
<1>6. \/ rest = <<>>
      \/ \E e \in Mapping : rest = <<e>> /\ FromMappings(e)
  <2>1. CASE where = "line"
    BY <2>1, <1>5
  <2>2. CASE where = "number"
    <3>1. PICK e : e = [cLine |-> 0, pos |-> Garbled]
      OBVIOUS
    <3>2. e \in Mapping /\ e.cLine = 0
      BY <3>1 DEF Mapping, Garbled
    <3>3. rest = <<e>>
      BY <2>2, <3>1, <1>5
    <3> QED
      BY <3>2, <3>3 DEF FromMappings
  <2>3. CASE where = "position"
    <3>1. PICK e : e = [cLine |-> mappings[n + 1].cLine, pos |-> Garbled]
      OBVIOUS
    <3>2. mappings[n + 1].cLine \in Nat
      BY <1>1, <1>2, MappingLines
    <3>3. e \in Mapping /\ e.cLine = mappings[n + 1].cLine /\ e.pos = Garbled
      BY <3>1, <3>2 DEF Mapping, Garbled
    <3>4. rest = <<e>>
      BY <2>3, <3>1, <1>5
    <3> QED
      BY <3>3, <3>4, <1>2 DEF FromMappings
  <2> QED
    BY <2>1, <2>2, <2>3
<1>7. \A i \in 1..Len(mappings) : FromMappings(mappings[i])
  BY DEF FromMappings
<1>8. CASE rest = <<>>
  <2>1. text' = kept
    BY <1>4, <1>5, <1>8
  <2> QED
    BY <2>1, <1>1, <1>2, <1>4, <1>7
<1>9. ASSUME NEW e \in Mapping, rest = <<e>>, FromMappings(e)
      PROVE  /\ text' \in Seq(Mapping) /\ Len(text') <= Len(mappings)
             /\ \A i \in 1..Len(text') : FromMappings(text'[i])
  <2>1. rest \in Seq(Mapping) /\ Len(rest) = 1 /\ rest[1] = e
    BY <1>9
  <2>2. /\ text' \in Seq(Mapping) /\ Len(text') = n + 1
        /\ \A i \in 1..n : text'[i] = mappings[i]
        /\ text'[n + 1] = e
    BY <2>1, <1>2, <1>4, <1>5
  <2>3. 1..(n + 1) = (1..n) \cup {n + 1} /\ 1..n \subseteq 1..Len(mappings)
    BY <1>1, <1>2
  <2> QED
    BY <2>2, <2>3, <1>2, <1>7, <1>9
<1> QED
  BY <1>6, <1>8, <1>9

\* Every step of the diagnosis keeps the invariant.
LEMMA DiagnosisInv ==
  ASSUME DInv, Diagnosis, UNCHANGED vars
  PROVE  DInv'
<1>e. EmitInv'
  <2>1. IInv'
    BY StutterInv DEF DInv, EmitInv
  <2>2. EntriesTrue' /\ Finished'
    BY DEF DInv, EmitInv, EntriesTrue, Finished, vars
  <2> QED
    BY <2>1, <2>2 DEF EmitInv
<1>u. mappings' = mappings /\ phase' = phase /\ out' = out
  BY DEF vars
<1>f. ASSUME NEW e, FromMappings(e) PROVE FromMappings(e)'
  BY <1>f, <1>u DEF FromMappings
<1>1. CASE Publish
  <2>1. /\ step = "idle" /\ phase = "done" /\ step' = "published"
        /\ text' = mappings /\ sm' = sm /\ line' = line /\ added' = added
    BY <1>1, DoneInOrder DEF Publish, DInv
  <2>2. mappings \in Seq(Mapping)
    BY DoneInOrder, <2>1 DEF DInv
  <2>3. \A i \in 1..Len(mappings) : FromMappings(mappings[i])
    BY DEF FromMappings
  <2>4. TextInv'
    BY <2>1, <2>2, <2>3, <1>u, <1>f DEF TextInv
  <2>5. ReadInv' /\ line' = <<>> /\ added' = <<>>
    BY <2>1 DEF DInv, ReadInv
  <2>6. LineInv'
    BY <2>5, NothingRead
  <2> QED
    BY <1>e, <2>4, <2>5, <2>6 DEF DInv
<1>2. ASSUME NEW n \in 0..(Len(mappings) - 1), NEW where \in {"line", "number", "position"},
             PublishCut(n, where)
      PROVE  DInv'
  <2>1. /\ step = "idle" /\ phase = "done" /\ step' = "published"
        /\ sm' = sm /\ line' = line /\ added' = added
    BY <1>2 DEF PublishCut
  <2>2. /\ text' \in Seq(Mapping) /\ Len(text') <= Len(mappings)
        /\ \A i \in 1..Len(text') : FromMappings(text'[i])
    BY <1>2, <2>1, CutText DEF DInv
  <2>4. TextInv'
    BY <2>1, <2>2, <1>u, <1>f DEF TextInv
  <2>5. ReadInv' /\ line' = <<>> /\ added' = <<>>
    BY <2>1 DEF DInv, ReadInv
  <2>6. LineInv'
    BY <2>5, NothingRead
  <2> QED
    BY <1>e, <2>4, <2>5, <2>6 DEF DInv
<1>3. CASE Read
  <2>1. /\ step = "published" /\ step' \in {"refused", "reading"}
        /\ text' = text /\ line' = line /\ added' = added
        /\ step' = "refused" => sm' = sm
        /\ step' = "reading" => sm' = Parsed(text) /\ \A i \in 1..Len(text) : text[i].cLine # 0
    BY <1>3 DEF Read
  <2>4. TextInv'
    BY <2>1, <1>u, <1>f DEF DInv, TextInv
  <2>5. ReadInv' /\ line' = <<>> /\ added' = <<>>
    BY <2>1 DEF DInv, ReadInv
  <2>6. LineInv'
    BY <2>5, NothingRead
  <2> QED
    BY <1>e, <2>4, <2>5, <2>6 DEF DInv
<1>4. ASSUME step = "reading", NEW refs \in LogLines, AnnotateLine(refs) PROVE DInv'
  <2>1. /\ line' = refs /\ added' = Annotate(refs)
        /\ step' = step /\ text' = text /\ sm' = sm
    BY <1>4 DEF AnnotateLine
  <2>2. out \in Seq(LineSet) /\ Len(out) \in Nat
    BY DEF DInv, EmitInv, IInv, TypeOK
  <2>3. Ref \subseteq Refs
    BY <2>2 DEF Ref, Refs
  <2>4. refs \in Seq(Refs)
    <3>1. PICK k \in 1..MaxRefs : refs \in [1..k -> Ref]
      BY <1>4 DEF LogLines
    <3>2. k \in Nat
      BY DiagnoseAssumption
    <3> QED
      BY <3>1, <3>2, <2>3
  <2>5. Answers(refs, Annotate(refs))
    BY <2>4, AnnotateEffect
  <2>6. LineInv'
    BY <2>1, <2>4, <2>5 DEF LineInv, Answers
  <2>7. TextInv'
    BY <2>1, <1>u, <1>f DEF DInv, TextInv
  <2>8. ReadInv'
    BY <2>1, <1>4 DEF DInv, ReadInv
  <2> QED
    BY <1>e, <2>6, <2>7, <2>8 DEF DInv
<1>5. CASE LineTooLong
  <2>1. /\ step = "reading" /\ step' = "stopped"
        /\ text' = text /\ sm' = sm /\ line' = line /\ added' = added
    BY <1>5 DEF LineTooLong
  <2>2. TextInv' /\ ReadInv'
    BY <2>1, <1>u, <1>f DEF DInv, TextInv, ReadInv
  <2>3. LineInv'
    BY <2>1 DEF DInv, LineInv, Answers
  <2> QED
    BY <1>e, <2>2, <2>3 DEF DInv
<1> QED
  BY <1>1, <1>2, <1>3, <1>4, <1>5 DEF Diagnosis

\* A step of the emitter, which has not finished, finds the reader idle.
LEMMA EmitterKeepsDInv ==
  ASSUME DInv, Next, UNCHANGED diagVars
  PROVE  DInv'
<1>1. step = "idle"
  BY DoneStops DEF DInv, TextInv
<1>2. EmitInv'
  BY EmitNext DEF DInv
<1>3. TextInv'
  BY <1>1 DEF DInv, TextInv, diagVars
<1>4. ReadInv' /\ line' = <<>> /\ added' = <<>>
  BY <1>1 DEF DInv, ReadInv, diagVars
<1>5. LineInv'
  BY <1>4, NothingRead
<1> QED
  BY <1>2, <1>3, <1>4, <1>5 DEF DInv

LEMMA DStutter == DInv /\ UNCHANGED allVars => DInv'
<1> SUFFICES ASSUME DInv, UNCHANGED allVars PROVE DInv'
  OBVIOUS
<1>1. UNCHANGED vars /\ UNCHANGED diagVars
  BY DEF allVars
<1>2. IInv'
  BY <1>1, StutterInv DEF DInv, EmitInv
<1>3. EntriesTrue' /\ Finished'
  BY <1>1 DEF DInv, EmitInv, EntriesTrue, Finished, vars
<1>4. TextInv'
  BY <1>1 DEF DInv, TextInv, FromMappings, vars, diagVars
<1>5. ReadInv'
  BY <1>1 DEF DInv, ReadInv, diagVars
<1>6. LineInv'
  BY <1>1 DEF DInv, LineInv, Answers, diagVars
<1> QED
  BY <1>2, <1>3, <1>4, <1>5, <1>6 DEF DInv, EmitInv

\* The inductive invariant of the emitter and the reader of its sourcemap.
THEOREM DiagnoseInvariant == DSpec => []DInv
<1>1. DInv /\ [DNext]_allVars => DInv'
  BY EmitterKeepsDInv, DiagnosisInv, DStutter DEF DNext
<1> QED
  BY DInvInit, <1>1, PTL DEF DSpec

\* The reader's state stays well typed: a sourcemap that was read has only lines
\* of the emitted file, and no line of the log gets more positions than it has
\* references.
THEOREM DiagnoseTyped == DSpec => []DTypeOK
<1>1. ASSUME DInv PROVE DTypeOK
  <2>1. DOMAIN sm \subseteq 1..(Len(out) + 1)
    <3>1. CASE sm = <<>>
      BY <3>1
    <3>2. CASE step \in {"reading", "stopped"}
      <4>1. /\ sm = Parsed(text) /\ text \in Seq(Mapping) /\ phase = "done" /\ EmitInv
            /\ \A i \in 1..Len(text) : text[i].cLine # 0 /\ FromMappings(text[i])
        BY <1>1, <3>2 DEF DInv, TextInv, ReadInv
      <4>2. /\ mappings \in Seq(Mapping) /\ Len(out) \in Nat
            /\ \A j \in 1..Len(mappings) : mappings[j].cLine <= Len(out) + 1
        BY <4>1, DoneInOrder
      <4>3. \A j \in 1..Len(mappings) : mappings[j].cLine \in Nat
        BY <4>2, MappingLines
      <4>4. ASSUME NEW i \in 1..Len(text) PROVE text[i].cLine \in 1..(Len(out) + 1)
        <5>1. text[i].cLine # 0 /\ FromMappings(text[i])
          BY <4>1
        <5>2. PICK j \in 1..Len(mappings) : text[i].cLine = mappings[j].cLine
          BY <5>1 DEF FromMappings
        <5> QED
          BY <5>1, <5>2, <4>2, <4>3
      <4>5. DOMAIN sm = {text[i].cLine : i \in 1..Len(text)}
        BY <4>1, ParsedEffect
      <4> QED
        BY <4>4, <4>5
    <3> QED
      BY <1>1, <3>1, <3>2 DEF DInv, ReadInv
  <2> QED
    BY <1>1, <2>1 DEF DInv, TextInv, ReadInv, LineInv, Answers, DTypeOK
<1> QED
  BY DiagnoseInvariant, <1>1, PTL

\* Whatever the program and whatever the log line refers to: a reference to the
\* first C line of a statement, type, map or function is annotated with the Go
\* position of that node, from recordPos through the .map file, ParseSourceMap
\* and annotateLine, unless the file was cut off.
THEOREM HeadsFound == DSpec => []HeadsAnnotated
<1>1. ASSUME DInv PROVE HeadsAnnotated
  <2> SUFFICES ASSUME NEW r \in Range(line), r.line <= Len(out), out[r.line].kind = "head", Whole
               PROVE  out[r.line].by \in Range(added)
    BY DEF HeadsAnnotated
  <2>1. r \in Refs /\ line # <<>>
    <3>1. line \in Seq(Refs)
      BY <1>1 DEF DInv, LineInv
    <3> QED
      BY <3>1 DEF Range
  <2>2. r.line \in Nat \ {0}
    BY <2>1 DEF Refs
  <2>3. step \in {"reading", "stopped"} /\ sm = Parsed(text) /\ phase = "done" /\ EmitInv
    BY <1>1, <2>1 DEF DInv, ReadInv, TextInv
  <2>4. mappings \in Seq(Mapping) /\ out \in Seq(LineSet) /\ text = mappings
    BY <2>3, DoneInOrder DEF Whole
  <2>5. r.line \in 1..Len(out)
    BY <2>2, <2>4
  <2>6. PICK i \in 1..Len(mappings) : Decides(i, r.line) /\ mappings[i].pos = out[r.line].by
    BY <2>3, <2>5 DEF EmitInv, IInv, MapInv, HeadsResolve
  <2>7. r.line \in DOMAIN sm
    <3>1. r.line = mappings[i].cLine
      BY <2>6 DEF Decides
    <3> QED
      BY <3>1, <2>3, <2>4, ParsedEffect
  <2>8. PICK k \in 1..Len(mappings) : LastOf(mappings, k, r.line) /\ sm[r.line] = mappings[k].pos
    BY <2>3, <2>4, <2>7, ParsedEffect
  <2>9. i = k
    BY <2>4, <2>6, <2>8 DEF Decides, LastOf
  <2> QED
    BY <1>1, <2>6, <2>7, <2>8, <2>9 DEF DInv, LineInv, Answers
<1> QED
  BY DiagnoseInvariant, <1>1, PTL

\* "Unknown refs are left alone (no false rewrites)" for every program and every
\* log line: a position that is added is the node that wrote the C line referred
\* to, but for the four exceptions PositionsTrue names.
THEOREM NoFalseRewrites == DSpec => []PositionsTrue
<1>1. ASSUME DInv PROVE PositionsTrue
  <2> SUFFICES ASSUME NEW a \in Range(added)
               PROVE  \E r \in Range(line) :
                        /\ r.line \in DOMAIN sm /\ sm[r.line] = a
                        /\ \/ r.line <= Len(out) /\ out[r.line].by = a
                           \/ a \in silent
                           \/ a = Garbled /\ ~ Whole
    BY DEF PositionsTrue
  <2>1. PICK r \in Range(line) : r.line \in DOMAIN sm /\ sm[r.line] = a
    BY <1>1 DEF DInv, LineInv, Answers
  <2>2. line # <<>>
    BY <2>1 DEF Range
  <2>3. /\ step \in {"reading", "stopped"} /\ sm = Parsed(text) /\ phase = "done"
        /\ EmitInv /\ text \in Seq(Mapping)
        /\ \A i \in 1..Len(text) : text[i].cLine # 0 /\ FromMappings(text[i])
    BY <1>1, <2>2 DEF DInv, ReadInv, TextInv
  <2>4. PICK i \in 1..Len(text) : text[i].cLine = r.line /\ a = text[i].pos
    <3>1. \E i \in 1..Len(text) : LastOf(text, i, r.line) /\ sm[r.line] = text[i].pos
      BY <2>1, <2>3, ParsedEffect
    <3> QED
      BY <3>1, <2>1 DEF LastOf
  <2>5. text[i].cLine # 0 /\ FromMappings(text[i])
    BY <2>3
  <2>6. PICK j \in 1..Len(mappings) : r.line = mappings[j].cLine /\ a \in {mappings[j].pos, Garbled}
    BY <2>4, <2>5 DEF FromMappings
  <2>7. CASE a = mappings[j].pos
    BY <2>1, <2>3, <2>6, <2>7 DEF EmitInv, EntriesTrue
  <2>8. CASE a = Garbled
    <3>1. ~ Whole
      <4> SUFFICES ASSUME Whole PROVE FALSE
        OBVIOUS
      <4>1. text = mappings
        BY <2>3, DoneInOrder DEF Whole
      <4>2. mappings[i].pos # 0
        BY <4>1, <2>3, <2>4 DEF EmitInv, EntriesTrue
      <4> QED
        BY <4>1, <4>2, <2>4, <2>8 DEF Garbled
    <3> QED
      BY <3>1, <2>1, <2>8
  <2> QED
    BY <2>6, <2>7, <2>8
<1> QED
  BY DiagnoseInvariant, <1>1, PTL
=============================================================================
