---------------------------- MODULE PipelineProofs ----------------------------
(***************************************************************************)
(* Theorems about module Pipeline, for any number of files and edits: what *)
(* a run reports as translated is on disk in one version, exit status 0    *)
(* means all inputs, and only accepted files are written.                  *)
(***************************************************************************)
EXTENDS Pipeline, WellFoundedInduction, TLAPS

Writing == {"writeC", "writeMap", "createBindings", "writeBindings"}

\* Between the writes of one file the earlier artifacts already have the new
\* version, and the file being written is not one of the results.
Progress ==
  /\ pc # "idle" => todo # {}
  /\ inputs = todo \cup DOMAIN results
  /\ todo \cap DOMAIN results = {}
  /\ pc \in Writing => Current \in accepted
  /\ pc \in Writing \ {"writeC"} => disk[Current].c = ver
  /\ pc \in {"createBindings", "writeBindings"} => disk[Current].map = ver /\ bindings
  /\ exit = "ok" => todo = {} /\ inputs # {}

IInv == TypeOK /\ Progress /\ ResultsOnDisk

-----------------------------------------------------------------------------
\* Run takes the first of the files it has left.
LEMMA CurrentInTodo ==
  ASSUME todo \subseteq Files, todo # {}, NFiles \in Nat
  PROVE  Current \in todo
<1>1. todo \subseteq Nat
  BY DEF Files
<1>2. PICK f \in todo : \A g \in todo : ~ (<<g, f>> \in OpToRel(<, Nat))
  BY <1>1, NatLessThanWellFounded, WFMin
<1>3. \A g \in todo : f <= g
  <2> SUFFICES ASSUME NEW g \in todo, ~ (f <= g) PROVE FALSE
    OBVIOUS
  <2>1. g \in Nat /\ f \in Nat /\ g < f
    BY <1>1
  <2>2. <<g, f>> \in OpToRel(<, Nat)
    <3>1. <<g, f>> \in Nat \X Nat /\ <<g, f>>[1] < <<g, f>>[2]
      BY <2>1
    <3> QED
      BY <3>1, Zenon DEF OpToRel
  <2> QED
    BY <1>2, <2>2
<1> QED
  BY <1>3 DEF Current

\* A write of one artifact of the current file: the others, and other files, stay.
LEMMA PutEffect ==
  ASSUME disk \in [Files -> Artifacts], NEW art \in {"c", "map", "bind"},
         NEW v \in Content, Current \in Files, Put(art, v)
  PROVE  /\ disk' \in [Files -> Artifacts]
         /\ disk'[Current][art] = v
         /\ \A a \in {"c", "map", "bind"} \ {art} : disk'[Current][a] = disk[Current][a]
         /\ \A f \in Files \ {Current} : disk'[f] = disk[f]
<1>1. disk[Current] \in Artifacts
  OBVIOUS
<1>2. [disk[Current] EXCEPT ![art] = v] \in Artifacts
  BY <1>1 DEF Artifacts
<1> DEFINE new == [disk[Current] EXCEPT ![art] = v]
<1>3. disk' = [disk EXCEPT ![Current] = new]
  BY DEF Put
<1>4. new[art] = v /\ \A a \in {"c", "map", "bind"} \ {art} : new[a] = disk[Current][a]
  BY <1>1 DEF Artifacts
<1> HIDE DEF new
<1> QED
  BY <1>2, <1>3, <1>4 DEF new

\* Whatever happens to the artifacts of a file that is not a result, the results
\* stay on disk.
LEMMA ResultsKept ==
  ASSUME IInv, results' = results, bindings' = bindings,
         \A f \in Files \ {Current} : disk'[f] = disk[f],
         Current \notin DOMAIN results \/ disk' = disk
  PROVE  ResultsOnDisk'
  BY DEF IInv, TypeOK, ResultsOnDisk, SameVersion

\* The process stops before its run is complete.
LEMMA StopInv ==
  ASSUME IInv, pc # "idle", NEW how \in {"error", "killed"}, Stop(how),
         UNCHANGED <<source, bindings, inputs, todo, ver, results, accepted>>,
         \/ disk' = disk
         \/ \E art \in {"c", "map", "bind"}, v \in Content : Put(art, v)
  PROVE  IInv'
<1>1. Current \in todo /\ Current \in Files /\ Current \notin DOMAIN results
  BY PipelineAssumption, CurrentInTodo DEF IInv, TypeOK, Progress
<1>2. disk' \in [Files -> Artifacts] /\ \A f \in Files \ {Current} : disk'[f] = disk[f]
  BY <1>1, PutEffect DEF IInv, TypeOK
<1>3. ResultsOnDisk'
  BY <1>1, <1>2, ResultsKept
<1>4. TypeOK'
  BY <1>2 DEF IInv, TypeOK, Stop
<1>5. Progress'
  BY DEF IInv, TypeOK, Progress, Stop, Writing
<1> QED
  BY <1>3, <1>4, <1>5 DEF IInv

\* The end of translateOne for the current file, once all its artifacts are written.
LEMMA CollectInv ==
  ASSUME IInv, pc # "idle", Current \in todo, Collect,
         UNCHANGED <<source, bindings, inputs, ver, accepted>>,
         disk' \in [Files -> Artifacts],
         \A f \in Files \ {Current} : disk'[f] = disk[f],
         disk'[Current].c = ver, disk'[Current].map = ver,
         bindings => disk'[Current].bind = ver
  PROVE  IInv'
<1>1. /\ Current \in Files /\ Current \notin DOMAIN results
      /\ DOMAIN results' = DOMAIN results \cup {Current}
      /\ \A f \in DOMAIN results' : results'[f] = IF f = Current THEN ver ELSE results[f]
  BY DEF IInv, TypeOK, Progress, Collect
<1>2. ResultsOnDisk'
  <2> SUFFICES ASSUME NEW f \in DOMAIN results'
               PROVE  /\ disk'[f].c = results'[f] /\ disk'[f].map = results'[f]
                      /\ bindings' => disk'[f].bind = results'[f]
    BY DEF ResultsOnDisk, SameVersion
  <2>1. CASE f = Current
    BY <2>1, <1>1
  <2>2. CASE f # Current
    BY <2>2, <1>1 DEF IInv, TypeOK, ResultsOnDisk, SameVersion
  <2> QED
    BY <2>1, <2>2
<1>3. TypeOK'
  BY <1>1 DEF IInv, TypeOK, Collect, Stop
<1>4. Progress'
  BY <1>1 DEF IInv, TypeOK, Progress, Collect, Stop, Writing
<1> QED
  BY <1>2, <1>3, <1>4 DEF IInv

LEMMA InitInv == Init => IInv
<1> SUFFICES ASSUME Init PROVE IInv
  OBVIOUS
<1> USE PipelineAssumption
<1>1. [c |-> 0, map |-> 0, bind |-> 0] \in Artifacts
  BY DEF Artifacts, Content
<1>2. source \in [Files -> [ver : Nat, form : Forms]]
  BY DEF Init
<1>3. TypeOK
  BY <1>1, <1>2 DEF Init, TypeOK
<1>4. Progress /\ ResultsOnDisk
  BY DEF Init, Progress, ResultsOnDisk, Writing
<1> QED
  BY <1>3, <1>4 DEF IInv

-----------------------------------------------------------------------------
LEMMA EditInv ==
  ASSUME IInv, NEW f \in Files, NEW form \in Forms, Edit(f, form)
  PROVE  IInv'
<1>1. source' \in [Files -> [ver : Nat, form : Forms]]
  BY DEF IInv, TypeOK, Edit
<1>2. TypeOK'
  BY <1>1 DEF IInv, TypeOK, Edit
<1>3. Current' = Current
  BY DEF Edit, Current
<1>4. Progress'
  BY <1>3 DEF IInv, Progress, Edit
<1>5. ResultsOnDisk'
  BY DEF IInv, ResultsOnDisk, SameVersion, Edit
<1> QED
  BY <1>2, <1>4, <1>5 DEF IInv

LEMMA RunInv ==
  ASSUME IInv, NEW flag \in BindingsFlags, Run(flag)
  PROVE  IInv'
<1> USE PipelineAssumption
<1>1. inputs' \subseteq Files /\ todo' = inputs' /\ DOMAIN results' = {}
  BY DEF Run
<1>2. TypeOK'
  BY <1>1 DEF IInv, TypeOK, Run, Stop
<1>3. Progress'
  BY <1>1 DEF Progress, Run, Stop, Writing
<1>4. ResultsOnDisk'
  BY <1>1 DEF ResultsOnDisk
<1> QED
  BY <1>2, <1>3, <1>4 DEF IInv

LEMMA TranslateInv == ASSUME IInv, Translate PROVE IInv'
<1>1. Current \in todo /\ Current \in Files
  BY PipelineAssumption, CurrentInTodo DEF IInv, TypeOK, Progress, Translate
<1>2. Current' = Current
  BY DEF Translate, Current
<1>3. source[Current].ver \in Nat
  BY <1>1 DEF IInv, TypeOK
<1>4. TypeOK'
  BY <1>1, <1>3 DEF IInv, TypeOK, Translate, Stop
<1>5. Progress'
  BY <1>1, <1>2 DEF IInv, Progress, Translate, Stop, Writing
<1>6. ResultsOnDisk'
  BY DEF IInv, ResultsOnDisk, SameVersion, Translate
<1> QED
  BY <1>4, <1>5, <1>6 DEF IInv

\* One write of one artifact: done, failed, or the file complete.
LEMMA WriteInv ==
  ASSUME IInv, WriteC \/ WriteMap \/ CreateBindings \/ WriteBindings PROVE IInv'
<1>1. /\ pc # "idle" /\ Current \in todo /\ Current \in Files /\ Current \notin DOMAIN results
      /\ ver \in Content /\ Torn \in Content
      /\ disk \in [Files -> Artifacts]
  BY PipelineAssumption, CurrentInTodo
     DEF IInv, TypeOK, Progress, WriteC, WriteMap, CreateBindings, WriteBindings, Content
<1>2. ASSUME NEW art \in {"c", "map", "bind"}, WriteFails(art) PROVE IInv'
  BY <1>1, <1>2, StopInv DEF WriteFails
<1>3. ASSUME NEW art \in {"c", "map", "bind"}, NEW v \in Content, Put(art, v),
             pc' \in Writing, Current' = Current,
             UNCHANGED <<source, bindings, inputs, todo, ver, results, accepted, exit>>
      PROVE  TypeOK' /\ ResultsOnDisk'
  <2>1. disk' \in [Files -> Artifacts] /\ \A f \in Files \ {Current} : disk'[f] = disk[f]
    BY <1>1, <1>3, PutEffect
  <2> QED
    BY <2>1, <1>1, <1>3, ResultsKept DEF IInv, TypeOK, Writing
<1>4. ASSUME WriteC PROVE IInv'
  <2>1. CASE WriteFails("c")
    BY <2>1, <1>2
  <2>2. CASE /\ Put("c", ver) /\ pc' = "writeMap"
             /\ UNCHANGED <<source, bindings, inputs, todo, ver, results, accepted, exit>>
    <3>1. Current' = Current
      BY <2>2 DEF Current
    <3>2. disk'[Current]["c"] = ver
      BY <2>2, <1>1, PutEffect
    <3>3. Progress'
      BY <2>2, <3>1, <3>2, <1>1, <1>4 DEF IInv, Progress, Writing, WriteC
    <3> QED
      BY <2>2, <3>1, <3>3, <1>1, <1>3 DEF IInv, Writing
  <2> QED
    BY <1>4, <2>1, <2>2 DEF WriteC
<1>5. ASSUME WriteMap PROVE IInv'
  <2>1. CASE WriteFails("map")
    BY <2>1, <1>2
  <2>2. CASE Put("map", ver) /\ ~WriteFails("map")
    <3>1. /\ disk' \in [Files -> Artifacts] /\ disk'[Current]["map"] = ver
          /\ disk'[Current]["c"] = disk[Current]["c"]
          /\ \A f \in Files \ {Current} : disk'[f] = disk[f]
      BY <2>2, <1>1, PutEffect
    <3>2. disk[Current].c = ver
      BY <1>5 DEF IInv, Progress, Writing, WriteMap
    <3>3. CASE bindings
      <4>1. /\ pc' = "createBindings"
            /\ UNCHANGED <<source, bindings, inputs, todo, ver, results, accepted, exit>>
        BY <1>5, <2>2, <3>3 DEF WriteMap
      <4>2. Current' = Current
        BY <4>1 DEF Current
      <4>3. Progress'
        BY <4>1, <4>2, <3>1, <3>2, <3>3, <1>1, <1>5 DEF IInv, Progress, Writing, WriteMap
      <4> QED
        BY <2>2, <4>1, <4>2, <4>3, <1>1, <1>3 DEF IInv, Writing
    <3>4. CASE ~bindings
      <4>1. Collect /\ UNCHANGED <<source, bindings, inputs, ver, accepted>>
        BY <1>5, <2>2, <3>4 DEF WriteMap
      <4> QED
        BY <4>1, <3>1, <3>2, <3>4, <1>1, CollectInv
    <3> QED
      BY <3>3, <3>4
  <2> QED
    BY <1>5, <2>1, <2>2 DEF WriteMap
<1>6. ASSUME CreateBindings PROVE IInv'
  <2>1. CASE UNCHANGED disk /\ Stop("error")
    BY <2>1, <1>6, <1>1, StopInv DEF CreateBindings
  <2>2. CASE Put("bind", Torn) /\ pc' = "writeBindings" /\ UNCHANGED exit
    <3>1. Current' = Current
      BY <1>6 DEF Current, CreateBindings
    <3>2. /\ disk'[Current]["c"] = disk[Current]["c"]
          /\ disk'[Current]["map"] = disk[Current]["map"]
      BY <2>2, <1>1, PutEffect
    <3>3. Progress'
      BY <2>2, <3>1, <3>2, <1>1, <1>6 DEF IInv, Progress, Writing, CreateBindings
    <3> QED
      BY <2>2, <3>1, <3>3, <1>1, <1>3, <1>6 DEF IInv, Writing, CreateBindings
  <2> QED
    BY <1>6, <2>1, <2>2 DEF CreateBindings
<1>7. ASSUME WriteBindings PROVE IInv'
  <2>1. CASE WriteFails("bind")
    BY <2>1, <1>2
  <2>2. CASE Put("bind", ver) /\ Collect /\ UNCHANGED <<source, bindings, inputs, ver, accepted>>
    <3>1. /\ disk' \in [Files -> Artifacts] /\ disk'[Current]["bind"] = ver
          /\ disk'[Current]["c"] = disk[Current]["c"]
          /\ disk'[Current]["map"] = disk[Current]["map"]
          /\ \A f \in Files \ {Current} : disk'[f] = disk[f]
      BY <2>2, <1>1, PutEffect
    <3>2. disk[Current].c = ver /\ disk[Current].map = ver
      BY <1>7 DEF IInv, Progress, Writing, WriteBindings
    <3> QED
      BY <2>2, <3>1, <3>2, <1>1, CollectInv
  <2> QED
    BY <1>7, <2>1, <2>2 DEF WriteBindings
<1> QED
  BY <1>4, <1>5, <1>6, <1>7

LEMMA KillInv == ASSUME IInv, Kill PROVE IInv'
<1>1. Torn \in Content
  BY DEF Content
<1> QED
  BY <1>1, StopInv DEF Kill

LEMMA StutterInv == ASSUME IInv, UNCHANGED vars PROVE IInv'
<1>1. Current' = Current
  BY DEF vars, Current
<1>2. TypeOK'
  BY DEF vars, IInv, TypeOK
<1>3. Progress' /\ ResultsOnDisk'
  BY <1>1 DEF vars, IInv, Progress, ResultsOnDisk, SameVersion
<1> QED
  BY <1>2, <1>3 DEF IInv

LEMMA NextInv == IInv /\ [Next]_vars => IInv'
  BY EditInv, RunInv, TranslateInv, WriteInv, KillInv, StutterInv DEF Next, Process

-----------------------------------------------------------------------------
\* The inductive invariant.
THEOREM PipelineInvariant == Spec => []IInv
  BY InitInv, NextInv, PTL DEF Spec

\* Every variable of the translate command keeps its type.
THEOREM PipelineTyped == Spec => []TypeOK
<1>1. IInv => TypeOK
  BY DEF IInv
<1> QED
  BY PipelineInvariant, <1>1, PTL

\* For any number of files, edits, failures and kills: every Result that Run has
\* collected is on disk, its C file, sourcemap and bindings of one version.
THEOREM ResultsAreOnDisk == Spec => []ResultsOnDisk
<1>1. IInv => ResultsOnDisk
  BY DEF IInv
<1> QED
  BY PipelineInvariant, <1>1, PTL

\* gobee translate exits 0 only when it translated every input findInputs returned.
THEOREM ExitZero == Spec => []ExitZeroIsComplete
<1>1. IInv => ExitZeroIsComplete
  BY DEF IInv, Progress, ExitZeroIsComplete
<1> QED
  BY PipelineInvariant, <1>1, PTL

\* A file that was rejected, or never reached, keeps its old artifacts.
THEOREM RejectedFilesKept == Spec => OnlyAcceptedTouched
<1>1. IInv /\ [Next]_vars => [\A f \in Files : disk'[f] # disk[f] => f \in accepted]_vars
  <2> SUFFICES ASSUME IInv, Next, NEW f \in Files, disk'[f] # disk[f] PROVE f \in accepted
    OBVIOUS
  <2>1. disk \in [Files -> Artifacts] /\ Torn \in Content
    BY DEF IInv, TypeOK, Content
  <2>2. /\ pc \in Writing
        /\ \E art \in {"c", "map", "bind"}, v \in Content : Put(art, v)
    BY <2>1 DEF Next, Process, Edit, Run, Translate, WriteC, WriteMap, CreateBindings,
                WriteBindings, WriteFails, Kill, Writing, IInv, TypeOK, Content
  <2>3. Current \in todo /\ Current \in Files /\ Current \in accepted
    BY <2>2, PipelineAssumption, CurrentInTodo DEF IInv, TypeOK, Progress, Writing
  <2>4. f = Current
    BY <2>1, <2>2, <2>3, PutEffect
  <2> QED
    BY <2>3, <2>4
<1> QED
  BY PipelineInvariant, <1>1, PTL DEF Spec, OnlyAcceptedTouched
=============================================================================
