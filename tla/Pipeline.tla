------------------------------- MODULE Pipeline -------------------------------
(***************************************************************************)
(* `gobee translate`: internal/transpile/pipeline.go as the command in     *)
(* cmd/gobee/app/translate.go runs it, over a directory of Go files that   *)
(* somebody edits, with writes that fail and a process that can be killed. *)
(*                                                                         *)
(* Files are numbered in the order os.ReadDir lists them.  A file's text   *)
(* is a version number and what the transpiler makes of it; an artifact's  *)
(* text is the version it was generated from.                              *)
(***************************************************************************)
EXTENDS Naturals, FiniteSets

CONSTANTS
  NFiles,       \* .go files in the input directory
  MaxVersion,   \* bound: edits of one file
  BindingsFlags,\* subset of BOOLEAN: runs with and without --bindings-dir
  Torn          \* the content of a file whose write was cut short

ASSUME PipelineAssumption ==
  /\ NFiles \in Nat \ {0}
  /\ MaxVersion \in Nat \ {0}
  /\ BindingsFlags \subseteq BOOLEAN /\ BindingsFlags # {}
  /\ Torn \notin Nat

VARIABLES
  source,    \* the input directory
  disk,      \* the artifacts of each file; 0 when it does not exist
  pc,        \* where the gobee process is; "idle" when none runs
  bindings,  \* opts.BindingsDir of this run is set
  inputs,    \* what findInputs returned
  todo,      \* inputs Run has not translated yet
  ver,       \* the version translateOne parsed
  results,   \* the Result values Run has collected: file -> version
  accepted,  \* history: files this run parsed, validated and emitted
  exit       \* how the last process ended

vars == <<source, disk, pc, bindings, inputs, todo, ver, results, accepted, exit>>

Files == 1..NFiles

\* "good": accepted by ParseFile, Validate and Emit; "bad": rejected by one of
\* them; "plain": without //bpf:license, or a _test.go file.
Forms == {"good", "bad", "plain"}
Content == Nat \cup {Torn}

Current == CHOOSE f \in todo : \A g \in todo : f <= g

Init ==
  /\ source \in [Files -> [ver : {1}, form : Forms]]
  /\ disk = [f \in Files |-> [c |-> 0, map |-> 0, bind |-> 0]]
  /\ pc = "idle"
  /\ bindings \in BindingsFlags
  /\ inputs = {}
  /\ todo = {}
  /\ ver = 0
  /\ results = [f \in {} |-> 0]
  /\ accepted = {}
  /\ exit = "none"

-----------------------------------------------------------------------------
\* The user saves a file; nothing stops that while gobee runs.
Edit(f, form) ==
  /\ source[f].ver < MaxVersion
  /\ source' = [source EXCEPT ![f] = [ver |-> @.ver + 1, form |-> form]]
  /\ UNCHANGED <<disk, pc, bindings, inputs, todo, ver, results, accepted, exit>>

Stop(how) ==
  /\ pc' = "idle"
  /\ exit' = how

\* findInputs, then the output directory.
Run(flag) ==
  /\ pc = "idle"
  /\ bindings' = flag
  /\ inputs' = {f \in Files : source[f].form # "plain"}
  /\ todo' = inputs'
  /\ results' = [f \in {} |-> 0]
  /\ accepted' = {}
  /\ \/ inputs' # {} /\ pc' = "translate" /\ exit' = "none"
     \/ Stop("error")                      \* no input, or ReadDir or MkdirAll failed
  /\ UNCHANGED <<source, disk, ver>>

\* Mutants of Translate: a file that is rejected is skipped; a rejection is
\* noticed only after the artifacts are written.
TranslateSkips ==
  /\ pc = "translate"
  /\ IF source[Current].form = "good"
     THEN /\ pc' = "writeC"
          /\ ver' = source[Current].ver
          /\ accepted' = accepted \cup {Current}
          /\ UNCHANGED <<todo, exit>>
     ELSE /\ todo' = todo \ {Current}
          /\ IF todo' = {} THEN Stop("ok") ELSE UNCHANGED <<pc, exit>>
          /\ UNCHANGED <<ver, accepted>>
  /\ UNCHANGED <<source, disk, bindings, inputs, results>>
TranslateWritesAnyway ==
  /\ pc = "translate"
  /\ pc' = "writeC"
  /\ ver' = source[Current].ver
  /\ accepted' = IF source[Current].form = "good" THEN accepted \cup {Current} ELSE accepted
  /\ UNCHANGED <<source, disk, bindings, inputs, todo, results, exit>>

\* translateOne up to Emit.  ParseFile reads the file again, so what it sees may
\* be newer than what findInputs saw.
Translate ==
  /\ pc = "translate"
  /\ IF source[Current].form = "good"
     THEN /\ pc' = "writeC"
          /\ ver' = source[Current].ver
          /\ accepted' = accepted \cup {Current}
          /\ UNCHANGED exit
     ELSE Stop("error") /\ UNCHANGED <<ver, accepted>>
  /\ UNCHANGED <<source, disk, bindings, inputs, todo, results>>

\* Mutants of Collect: the file stays in the list; the Result is read back from
\* the bindings on disk.
CollectKeepsTodo ==
  /\ results' = [f \in DOMAIN results \cup {Current} |-> IF f = Current THEN ver ELSE results[f]]
  /\ pc' = "translate"
  /\ UNCHANGED <<todo, exit>>
CollectFromDisk ==
  /\ results' = [f \in DOMAIN results \cup {Current} |->
                  IF f = Current THEN disk[Current].bind ELSE results[f]]
  /\ todo' = todo \ {Current}
  /\ IF todo' = {} THEN Stop("ok") ELSE pc' = "translate" /\ UNCHANGED exit

\* The end of translateOne, and Run's loop: the last file ends the run, and the
\* command prints its summary and exits 0.
Collect ==
  /\ results' = [f \in DOMAIN results \cup {Current} |-> IF f = Current THEN ver ELSE results[f]]
  /\ todo' = todo \ {Current}
  /\ IF todo' = {} THEN Stop("ok") ELSE pc' = "translate" /\ UNCHANGED exit

\* os.WriteFile of one artifact.  It fails before it truncates the file, after,
\* or when it closes a file it has written;
\* translateOne returns the error, Run stops, the command prints it and exits 1.
Put(art, content) == disk' = [disk EXCEPT ![Current][art] = content]

WriteFails(art) ==
  /\ UNCHANGED disk \/ Put(art, Torn) \/ Put(art, ver)
  /\ Stop("error")
  /\ UNCHANGED <<source, bindings, inputs, todo, ver, results, accepted>>

WriteC ==
  /\ pc = "writeC"
  /\ \/ /\ Put("c", ver)
        /\ pc' = "writeMap"
        /\ UNCHANGED <<source, bindings, inputs, todo, ver, results, accepted, exit>>
     \/ WriteFails("c")

\* Mutant of WriteMap: the error of the write is dropped.
WriteMapUnchecked ==
  /\ pc = "writeMap"
  /\ Put("map", ver) \/ UNCHANGED disk
  /\ IF bindings
     THEN pc' = "createBindings" /\ UNCHANGED <<todo, results, exit>>
     ELSE Collect
  /\ UNCHANGED <<source, bindings, inputs, ver, accepted>>

WriteMap ==
  /\ pc = "writeMap"
  /\ \/ /\ Put("map", ver)
        /\ IF bindings
           THEN pc' = "createBindings" /\ UNCHANGED <<todo, results, exit>>
           ELSE Collect
        /\ UNCHANGED <<source, bindings, inputs, ver, accepted>>
     \/ WriteFails("map")

\* MkdirAll and os.Create, which truncates.
CreateBindings ==
  /\ pc = "createBindings"
  /\ \/ Put("bind", Torn) /\ pc' = "writeBindings" /\ UNCHANGED exit
     \/ UNCHANGED disk /\ Stop("error")
  /\ UNCHANGED <<source, bindings, inputs, todo, ver, results, accepted>>

\* WriteBindings and f.Close.
WriteBindings ==
  /\ pc = "writeBindings"
  /\ \/ /\ Put("bind", ver)
        /\ Collect
        /\ UNCHANGED <<source, bindings, inputs, ver, accepted>>
     \/ WriteFails("bind")

\* The process dies between two steps, or inside a write.
Kill ==
  /\ pc # "idle"
  /\ Stop("killed")
  /\ \/ UNCHANGED disk
     \/ pc = "writeC" /\ Put("c", Torn)
     \/ pc = "writeMap" /\ Put("map", Torn)
  /\ UNCHANGED <<source, bindings, inputs, todo, ver, results, accepted>>

Process == Translate \/ WriteC \/ WriteMap \/ CreateBindings \/ WriteBindings

Next ==
  \/ \E f \in Files, form \in Forms : Edit(f, form)
  \/ \E flag \in BindingsFlags : Run(flag)
  \/ Process
  \/ Kill

\* A process that was started keeps running.
Spec == Init /\ [][Next]_vars /\ WF_vars(Process)

-----------------------------------------------------------------------------
\* Type invariant.
Artifacts == [c : Content, map : Content, bind : Content]
TypeOK ==
  /\ source \in [Files -> [ver : Nat, form : Forms]]
  /\ disk \in [Files -> Artifacts]
  /\ pc \in {"idle", "translate", "writeC", "writeMap", "createBindings", "writeBindings"}
  /\ bindings \in BOOLEAN
  /\ inputs \subseteq Files
  /\ todo \subseteq Files
  /\ ver \in Nat
  /\ DOMAIN results \subseteq Files
  /\ \A f \in DOMAIN results : results[f] \in Nat
  /\ accepted \subseteq Files
  /\ exit \in {"none", "ok", "error", "killed"}

\* The C file, its sourcemap and, when asked for, the bindings (which embed that
\* sourcemap) come from the same version of the Go file.
SameVersion(f, v) ==
  /\ disk[f].c = v
  /\ disk[f].map = v
  /\ bindings => disk[f].bind = v

\* What translateOne returned as a Result stays true for the rest of the run and
\* after it: a sourcemap that belongs to another version would send verifier
\* errors to the wrong Go lines.  Whatever earlier runs left behind, torn files
\* included, is replaced.
ResultsOnDisk ==
  \A f \in DOMAIN results : SameVersion(f, results[f])

\* Exit status 0 means that every input of the run was translated.
ExitZeroIsComplete ==
  exit = "ok" => inputs # {} /\ DOMAIN results = inputs

\* A file rejected by the parser, the validator or the emitter, or never reached
\* because an earlier one failed, keeps the artifacts it had.
OnlyAcceptedTouched ==
  [][\A f \in Files : disk'[f] # disk[f] => f \in accepted]_vars

\* Every run ends.
RunEnds == (pc # "idle") ~> (pc = "idle")
=============================================================================
