# A TLA+ verification of gobee

gobee translates a small subset of Go into C for BPF, with a sourcemap that
leads verifier errors back to Go lines and with generated Go bindings that load
and attach the result.  This directory holds TLA+ models of its core, the TLC
configurations that check them on small instances, and proofs, checked by
TLAPS, that every safety property of the passing runs holds for every size.

Run from this directory:

    tlc -workers 2 -config MCEmitter.cfg MCEmitter      # one of the runs below
    tlapm EmitterProofs.tla                             # one of the proof modules

`PROJECT.json` lists the runs, the theorems, the hazards the properties answer
to, the seeded faults ("mutants") each property catches, and for every
definition the source lines it models.

## 1. Inventory

| Part | Source | State it keeps | Operations | What makes it correct |
|---|---|---|---|---|
| Command line | `cmd/gobee/app`, `cmd/gobee/main.go` | none | `translate`, `diagnose` | exit status tells whether everything was translated |
| Pipeline | `internal/transpile/pipeline.go` | the artifacts on disk; `results` | `findInputs`, `Run`, `translateOne` | a reported result is on disk, in one version; a rejected file keeps its artifacts |
| Parser, directives | `parse.go`, `directives.go`, `program.go` | `Program` | `ParseFile`, `collectDecls`, `tryBuildMapDecl` | each declaration is classified once and none is lost |
| Validator | `validate.go` | diagnostics | `Validate`, `checkFunc`, `visit` | what it accepts the emitter can write |
| Emitter, text | `emit.go`, `sourcemap.go` | `buf`, `cLine`, `mappings`, the walk's stack | `writef`/`writeln`/`writeRaw`, `recordPos`, `writeStmt` and its cases | each node's first C line resolves to its Go position; nothing is left out |
| Emitter, names | `emit.go` | `aliases`, `tmpSeq` | `resolveLHSName`, `writeMapLookup`, `writeStorageGet`, `writeRingbufReserve`, `formatIdent` | the C text of a variable means what the Go variable holds |
| Emitter, expressions and calls | `emit.go`, `helpers.go`, `types.go` | none | `formatExpr`, `formatCall`, `goTypeToC` | the C expression groups and means what the Go one does |
| Emitter, headers and order | `emit.go`, `helpers.go` | none | `writeHeader`, the three scans, the order of `Emit`, `goNameToBpfHelper` | clang finds every name declared above its use |
| Diagnose | `diagnose/diagnose.go`, `cmd/gobee/app/diagnose.go` | the parsed sourcemap | `ParseSourceMap`, `Rewrite`, `AnnotateLines`, `annotateLine` | a reference gets the position of the statement that wrote its C line, or none |
| Bindings generator | `bindings.go` | sorted field lists | `WriteBindings`, `attachFor`, `pascalCase` | every program, map, type and constant of the unit is published; constants have the kernel's values and structs its layout |
| Generated runtime | text in `bindings.go` | objects held, links | `Load`, `AttachAll`, `Close` | all or nothing; nothing stays behind |
| sysmon, counter | `example/sysmon` | one map entry, the ticker | `OnPacket`, `readPkts` | packets are counted once |
| sysmon, events | `example/sysmon` | the ring buffer, `seenExec` | the five programs, the reader goroutine, shutdown | records arrive whole and in order; shutdown ends |
| helloworld | `example/helloworld` | one map entry | `CountPackets` | as the counter above |
| genhelpers | `tools/genhelpers` | none | a generator run by hand | every prototype of the header becomes a stub whose name leads the emitter back to it |

How they interact: `translate` calls `Run`, which for each input calls the
parser, the validator and the emitter in turn and then writes the C file, the
sourcemap and the bindings one after another.  The bindings embed the sourcemap
the emitter produced and call `diagnose` on a verifier log when a load fails.
The examples call the generated `Load`, `AttachAll` and `Close`; their BPF
programs and their goroutines share maps and a ring buffer through the kernel.

What is hard about it:

* the sourcemap rests on a line counter that three writers keep by hand, and on
  which of several entries for one line a reader believes;
* `ok` of a comma-ok does not exist in C: every use of it is rewritten to a name
  fixed at its declaration, under two languages' scoping rules;
* three artifacts that must agree are written by separate calls that can fail or
  be cut short, from files that may change under the run;
* the C file and the bindings are two texts made from one Go file that have to
  agree with headers and with each other (names, constants, layouts), and nothing
  in gobee compares them;
* `AttachAll` can fail with probes already live in the kernel;
* the examples' programs run on several CPUs at once, and beside goroutines that
  main does not wait for.

## 2. Modules

| Module | Models | State and actions |
|---|---|---|
| `Emitter` | `emit.go`: sections and statements, their lines and their sourcemap entries | `out` is `buf` as a sequence of lines that remember the node that wrote them; `cLine`, `mappings` as in the code; `blocks` is the Go call stack of the walk.  `Write` is the three writers, `RecordPos` is `recordPos`; one action per section and per statement form |
| `CommaOk` | `emit.go`: aliases and synthetic names, composed with `Emitter` | extends `Emitter` and conjoins its actions; `aliases`, `tmpSeq` as in the code; `scopes` holds what the Go variables and the C variables of each open block hold, along one path through the branches |
| `Diagnose` | `sourcemap.go`, `diagnose.go`, the `diagnose` command and the generated annotator, composed with `Emitter` | extends `Emitter`: `text` is the sourcemap text of a finished emit, whole or cut off, `sm` the map read from it, `line` and `added` a log line and what `annotateLine` appends; one action per publication, read and line |
| `Expressions` | `emit.go`: `formatExpr`, `formatBinary`, the arguments of `formatCall` | `todo` is the calls of `formatExpr` still to make and the tokens still to write, `text` the tokens written, `bare` whether an argument was written without brackets of its own; one action per case of `formatExpr`.  `Read` and `Groups` are what a C compiler makes of the text |
| `Frontend` | `parse.go`, `directives.go`, `validate.go` | the fields of `Program` as places in the file, `diags` of the validator; one action per kind of comment and declaration, one per function checked |
| `Artifacts` | `emit.go` (scans, headers, order of declarations, names of calls and of constants), `helpers.go`, `types.go`, `bindings.go` (structs and constants), `goNameFor` of genhelpers, composed with `Frontend` | extends `Frontend` and goes on where it accepts: `includes`, `preludes`, the declarations `written` in order, what was `undeclared` where it was used, the `published` constants; one action per function scanned and declaration written |
| `Pipeline` | `pipeline.go` under `translate.go` | `source`, `disk`, the local variables of `Run` and `translateOne`; one action per call that reads or writes a file, `Edit` by the user, `Kill` |
| `AttachPromise` | what `AttachAll` promises its caller | one indivisible step that attaches everything or nothing |
| `Bindings` | the code `bindings.go` generates, as the examples call it | one action per attach, per link closed, per object closed; implements `AttachPromise` |
| `PacketCounter` | `OnPacket` of sysmon, the polling goroutine, the deferred calls | the map entry, each CPU's place in `OnPacket`, the ticker's channel |
| `Sysmon` | `main` of sysmon as far as loader and counter go | extends `Bindings` and `PacketCounter` and says when each may step: packets arrive from the moment the XDP program is attached, the goroutine starts after `AttachAll`, the deferred calls are steps of both |
| `EventRing` | the five publishing programs of sysmon, the ring, the reader goroutine, main's shutdown | one task per pid that reserves, fills and submits; the ring's memory in units, a record being `RecLen` of them; positions of producer and consumer |
| `EmitterProofs` (with `Diagnose`), `CommaOkProofs`, `ExpressionsProofs`, `FrontendProofs` (with `Artifacts`), `PipelineProofs`, `BindingsProofs`, `PacketCounterProofs`, `EventRingProofs` | | the theorems, see section 4 |
| `MCEmitter`, `MCCommaOk`, `MCExpressions`, `MCFrontend`, `MCPipeline`, `MCSysmon`, `MCEventRing` | | values for the constants |

A definition whose comment begins with "Mutant of" is a seeded fault.  It is not
part of any specification; it stands before the definition it replaces when the
properties themselves are tested.

What is abstracted. In `Emitter` a line is who wrote it and whether it is the
first line of a node: the wording is left out, the number of lines is not. In
`CommaOk` a value is the number of the comma-ok that produced it, which is all
that `ok` and the pointer can differ in; a pointer also comes from
`GetOrCreate`, under a number of its own. In `Expressions` an operator stands for
those of its rank in both languages, and one bracket for parentheses, an index,
a conversion or an argument; `unsafe.Pointer` and the address arguments of
`GetUserString` and `GetUserArgv` have actions of their own, because their text
lacks brackets or has a cast before it. In `Diagnose` a log line is the sequence of its
`<stem>.bpf.c:<N>` references. In `Frontend` a function is its section, its
receiver and the places where it leaves the subset. In `Artifacts` a declaration
mentions at most one other name and one kernel type, since each mention is
declared or not by itself; of the constants of package `bpf` there is one of
each kind (an enumerator of `bpf.h`, a macro of `pkt_cls.h`, a literal); a struct is its fields' widths and lengths, and a
constant its expression (its own, iota, or the repeated one). In `Pipeline` a
file's text is its version and whether the transpiler accepts it. In `Bindings`
a program is its section and its place in the order of Go names. In `EventRing`
an event is its kind, its pid and whether its uid is 0, asked anew at every
event; the fields only some programs set, and formatting, are left out.  432
bytes of record in a ring of 65536 become 2 units in a ring of 5: records do not
fall into the places of older ones when the ring wraps.

What is external and modelled from its use: the trees go/parser builds, the
typing of go/types and the ranks of operators in C (`Expressions`), Go's and C's
block scoping (`CommaOk`), what the C headers declare, C's struct layout,
`encoding/binary` and the values of constants (`Artifacts`), a write that is cut
off (`Diagnose`, `Pipeline`), `LoadAndAssign`, the link package and the kernel
(`Bindings`), the hash map and the ticker (`PacketCounter`), the ring buffer and
processes (`EventRing`).

`AttachPromise` states the all-or-nothing part of the comment on `AttachAll`
(`bindings.go:200-206`).  Its other clause, "in declaration order", is not part of
it: the generated calls are in the order of Go names (section 5).

## 3. Runs

Passing runs:

| Run | Bounds | Shows |
|---|---|---|
| `emitter_map` | 4 nodes, depth 2, structs of 0-1 fields, `var` of 0-2 names, log lines of 1-2 references | the first C line of each node resolves to it through the sourcemap as `ParseSourceMap` reads it (`HeadsResolve`); entries are recorded in line order (`MappingsInOrder`); every statement has text, where no else-if carries more than a condition and a body (`NothingDropped`); a log line that refers to a first line is annotated with its node, whatever else it refers to (`HeadsAnnotated`), and no position is that of another statement, with the exceptions the property lists (`PositionsTrue`) |
| `commaok` | 5 nodes, depth 2, 3 names | on every path the C text of a variable evaluates to what the Go variable holds, or is unset where Go has the zero value of a `var`, unless it was overwritten through the other half of its pair (`Simulates`); no C block declares a name twice (`NoClash`) |
| `frontend` | 3 declarations of any form, functions with no fault or with every kind of fault, comments in any number, 2 struct shapes, a helper name of several words, constants of each kind | each declaration is classified once, in source order (`TypeOK`); the findings are the faults of what would be emitted, once each and sorted (`FindingsExact`); what reaches the emitter is licensed, within the subset, and includes every function without a receiver but `main` (`AcceptedSound`); names in the C text are declared above their use, with the exceptions listed (`UndeclaredExplained`); structs without gaps are read where they were written (`LayoutWhenAligned`) |
| `expressions` | 3 operators, brackets 1 deep, all well-typed expressions | the text has the operators, brackets and operands of the source in order, but for the brackets of a bare argument (`ReadsBack`); where no argument is bare and Go and C rank the operators of one bracket alike, C builds Go's tree (`GroupsWhereRanksAgree`) |
| `pipeline` | 2 files, 2 versions each, with and without bindings | a reported result is on disk in one version (`ResultsOnDisk`); exit 0 means every input (`ExitZeroIsComplete`); a step writes only artifacts of accepted files (`OnlyAcceptedTouched`); a run ends (`RunEnds`) |
| `sysmon` | 4 programs of different kinds, 2 maps, with and without an interface, 3 CPUs, 4 packets | `AttachAll` implements `AttachPromise` (`KeepsPromise`); every kernel link can still be closed (`NoOrphanLink`); `Close` leaves nothing (`CloseReleases`); no packet counts twice (`NeverOver`); none is lost once the entry is stable (`LossOnlyAtCreation`); a `[stats]` line falls short only after `objs.Close` (`StatsSound`) |
| `events` | 2 pids (one that dies of signals and is root at some events), 5 units, records of 2, 3 records, 3 processes per pid | no unread record is overwritten (`NoTornRecord`); an `[exit]` line has an `[exec]` line of its own, of the same process unless the ends since then are unknown to the reader (`ExitsExplained`); every record is read unless main closes the reader (`EventuallyRead`); a signal ends the process (`ShutdownEnds`) |

Runs that find a disagreement between the code and what the repository says:

| Run | The code | The text |
|---|---|---|
| `else_if_dropped` | the init clause of an `else if` is neither written nor rejected (`emit.go:744-748`; `:720` is about the outer `if` only), and its `else` is built into a value nobody reads (`emit.go:755-759`): their statements are missing from the C, without an error | `docs/status.md:41` supports `if` / `else` / `else if` without restriction |
| `commaok_reused_ok` | a second comma-ok that assigns an `ok` already declared leaves it aliased to the first pointer (`emit.go:681`) | `docs/design.md:71`: "`ok` aliased to the pointer's truthiness for later checks" |
| `operator_ranks` | `formatBinary` adds no brackets (`emit.go:1129`), so `a & b == c` and `a << b * c` get another tree in C | `docs/status.md:63-66` supports arithmetic, bitwise, comparison and logical operators without a note |
| `republished` | a struct is re-published as it stands (`bindings.go:255-265`) and `encoding/binary` reads it without gaps, while clang pads the struct `writeUserType` emits; constants are printed into one block, in which iota counts anew (`bindings.go:272-279`) | `docs/status.md:179`: "Layout matches byte-for-byte, so `binary.Read` works"; `bindings.go:267-268`: "the same values the kernel uses" |
| `undeclared_names` | `bpf.TcOk` is written `TC_ACT_OK` (`helpers.go:151`), which no header of the `.bpf.c` declares (`emit.go:123-144`) | `docs/design.md:3`: "clang compiles the C"; `docs/go-subset.md:170` lists `bpf.TcOk` as `0` |

One counterexample ends a run.  In `else_if_dropped` each member of `ElseParts`
alone violates `NothingDropped` too.  `republished` stops at the padded struct; with
that struct taken out of `MCStructs` it stops at a displaced iota.
`undeclared_names` has files of one declaration, where the macro is the only way;
with two it also finds the other exceptions of `UndeclaredExplained`, among them a
prelude missing for a helper where `emit.go:251-253` says "used anywhere in the
program".

Why the bounds are enough.  The proofs of section 4 remove them for every
invariant and action property; they have to be enough for the liveness properties
and for a seeded fault to show.  `emitter_map`: four nodes allow a function with an
if, an else-if and a statement, an empty `var ()` before a statement that shares
its line, and types and maps before the function.  Two references make a repeated
number, an unknown one before a known one, and a foreign file's number beside this
one's; under a map that was cut off one is enough, since what a cut loses is lost
for each number by itself.  `commaok`: two comma-oks, a copy and an assignment
inside and after a branch need four nodes besides the function, and three names
make a pointer, an ok and a copy distinct, and room for the storage idiom of
`docs/go-subset.md:71-78` (a comma-ok, a branch that assigns the pointer); `tmpSeq` runs over function boundaries
within five nodes.  `frontend`: two functions are enough for a helper before a
program, whose findings have to be sorted back, and for a dropped function beside
an emitted one; an accepted file needs a program, and two more declarations are a
struct that contains a later one, a helper that calls a later one, or a const
block with a displaced iota.  `expressions`: which of two operators takes the
operand between them is settled by pairs, and three operators put a pair beside a
third one.  `pipeline`: two files make "the later one fails" happen, two versions
make "changed between `findInputs` and `ParseFile`" and "left by an earlier run"
happen.  `sysmon`: one program of each way through `attachFor` and an order of
names different from the order of declarations; the loss needs two CPUs in the
lookup and a third that counts in between.  `events`: three records of two units
in a ring of five fill it, lie across its end and reuse parts of two older
records; three processes per pid (`MaxLives` complete ones and a last) make one
that called exec, one whose end the reader is not told of and one that never
called exec.

The exceptions in the properties of `Diagnose` and `Artifacts` are behaviours of
the code, each reached within the bounds.  `PositionsTrue`: an empty `var ()`
leaves an entry for the line of whatever follows it; a cut-off file can end in a
mangled position; a number that belongs to another `.bpf.c` is looked up in this
map, because the pattern is not anchored to a stem (`diagnose.go:84-87`).
`UndeclaredExplained`: Go's freedom in the order of declarations is not undone
beyond the four sections; types other than structs, plain variables, `main` and
methods have no C text; the prelude and `vmlinux.h` are chosen by looking at
programs only; and the header of the `TC_ACT_` macros is never included.
`ExitsExplained`: the comment at `main.go:107-109` says the `[exit]` of a fork that
never called exec is hidden.  It is shown when the pid was that of a process that
did call exec and whose end the reader was not told of: a signal, a full ring, or
an exit with uid 0 (sudo) that the filter at `main.go:124` drops before
`seenExec` is looked at.

In `emitter_map` the constant `ElseParts` is empty: `NothingDropped` fails
without that restriction, which is what `else_if_dropped` shows.  The
sourcemap theorems hold for every value.  In `commaok` the constant `Forms` is
`{"var"}`: a comma-ok declares two fresh names, and nothing hides an outer
variable.  `commaok_reused_ok` shows one reason; with `Forms = {"shadow"}` TLC
finds two others, an inner variable that captures the alias of an outer `ok`
(`emit.go:914`) and `x := x`.  Assignments are not restricted.  The text of `ok`
is its pointer, so an assignment to one of the two changes what the text of the
other means; `over` marks the other one, and its copies, and `Simulates` says
nothing of it until it is assigned itself.  That is what `docs/design.md:71`
describes, and a Go program that goes on to test `ok` after
`c = S.GetOrCreate(...)` gets another answer in C.

CHECK_DEADLOCK is off in all runs but `pipeline`: an emitter finishes or fails,
a process exits, and the models of the examples stop at their bounds on packets
and records.  In `pipeline` another run can always start, and TLC checks that.

Fairness.  `Pipeline` assumes weak fairness of the process's own steps: a
process that was started and is not killed keeps running, and each of its steps
ends.  Nothing is assumed of edits, of new runs or of kills.  `EventRing` assumes
that a BPF program that was called runs to its end (the verifier and the kernel
guarantee it), that the Go scheduler runs a goroutine that is not blocked (the
reader, and main once it has its signal).  No event and no signal is ever
guaranteed.

## 4. Proofs

Each theorem holds for every value of the constants that satisfies the named
`ASSUME` of its module.  Most of these give a bound or a flag its type.  The
others: `GoOrder` is a permutation (`BindingsAssumption`); `Torn` is not a version
(`PipelineAssumption`); there are finitely many CPUs (`CounterAssumption`); the
counter's map is one of the maps (`SysmonAssumption`); the ring and a record have
some length and there is a first process (`RingAssumption`); the Go names of
`CommaOk` are not spelled like synthetic ones and not blank (`NamesAssumption`,
see `emit.go:77` in section 5); fields of structs have basic types or are arrays
of them (`StructsAssumption`, what `writeUserType` can lay out without nesting).
TLC evaluates all of them on the runs' constants.

Each component has one inductive invariant, proved first
(`...Invariant == Spec => []...`); the theorems about the properties follow from it.

`EmitterProofs`.  `HeadsResolve` is not inductive: a step that writes lines would
have to know that the mapping just recorded is the last one for the line about
to be written.  `IInv` adds `LineCount`, that `cLine` is one more than the lines
written unless the emit failed, and `MappingsInOrder`, which gives that no earlier
entry lies past the end of the text.  Then an entry recorded now decides line
`cLine` (`RecordKeepsMap`), and text without a head leaves every decision alone
(`WriteKeepsMap`); every action is one of these two steps.  Results:
`EmitterTyped`, `SourcemapCorrect`, `SourcemapSorted`.  `NoStatementDropped` has
the hypothesis `ElseParts = {}`, without which it is false (`else_if_dropped`); its invariant `Covered` says that every node met so far,
but for an empty `var ()`, already has a line.

The same module goes on to the reader of the sourcemap.  `EntriesTrue` says that
an entry's node wrote the entry's line or is an empty `var ()`, and `DInv` adds
that the published text is a part of the mappings, that the map read is what
`ParseSourceMap` makes of that text (the last entry for each line,
`ParsedEffect`), and that the positions added to a log line answer its
references.  Since the mappings are in order, the sort of `FormatSourceMap` does
nothing.  Results: `DiagnoseTyped`, `HeadsFound` (from `recordPos` to
`annotateLine`), `NoFalseRewrites`.

`CommaOkProofs`.  What a block holds is known along one path; the branches
already walked and the state before them are kept for the join.  So the
invariants speak of every stack in `Known`: the current one and all those the
open statements can lead to.  `CInv` is the layer of types: stacks as deep as the
walk, aliases that lead from nodes met to Go names or to synthetic names issued
so far.  `CommaOkTyped` follows for all forms of program.  `NoDuplicateDecls` needs
in addition that comma-oks declare both targets (`"reuse" \notin Forms`): a new
synthetic name has a number above every one in use.  `MeantInv` is the layer of
meaning: the variable an alias leads to is still in scope, is not hidden, and
holds what the Go variable holds unless that one is `over`; for an assignment one
has to know that two Go variables have the same text only when they are a pair
of the same block.  `AliasesSimulate` needs in addition that no
declaration hides another (`"shadow" \notin Forms`); both hypotheses are
necessary, as TLC shows (section 3).

`ExpressionsProofs`.  `todo` is a stack of calls and tokens of different kinds;
what makes the text right is that they fit together.  Each item spans from one
point (operators, operands and brackets so far) to another, and `EInv` says that
the items of `todo` form a chain from the point the text has reached to the end
of the expression, and that each token written is the one the source has at its
place; once an argument was written bare, the brackets no longer count.  One action replaces the first item by a chain with the same ends
(`Three` for a binary node, whose root is the loosest operator: `RootEffect`).
Results: `ExpressionsTyped`, `TextReadsBack`.  The tree a language builds depends
only on which of two operators binds at least as tightly (`OrderDecides`), and a
bracket outweighs every rank (`DepthFirst`); with
`TextReadsBack` that gives `GroupsKept`.

`FrontendProofs`.  `ParseInv` says that each list of the `Program` is exactly the
declarations of its class met so far, increasing.  `CheckInv` says that the
findings are the faults of the functions checked so far, without repetition, and
sorted at the end; that the sort exists and loses nothing is a pigeonhole
argument over the positions.  Results: `FrontendTyped`, `ValidateComplete`,
`AcceptedFilesSound`.  `ArtInv` continues for an accepted file: what was written
and what is left are together the four sections in the order of `Emit`, the
headers and preludes chosen cover what the scans have seen, an undeclared name
was mentioned by a declaration written, and the published constants are those
collected.  Results: `ArtifactsTyped`, `ConstantsPublished`, and `NamesDeclared`,
by cases over what a mention can be and which section or header declares it
(`ConstantsPublished` says exactly which published constants differ from the
kernel's: the displaced iotas).
`NamesDeclared` has the hypothesis `NamesRoundTrip`, that `goNameToBpfHelper` inverts
`goNameFor` on the helpers: the two are built from `SelectSeq` and `FlattenSeq`,
which are opaque to the provers.  The `frontend` run checks it on a name of
several words, two of a single letter and one with a digit.
`AlignedStructsAgree` compares two offsets that are defined recursively along
the fields; the first field on which they differ would have to be off its
alignment.

`PipelineProofs`.  `ResultsOnDisk` speaks of finished files only.  `Progress`
adds what holds between the writes of one file (the artifacts already written
have the new version, the file is accepted and is not yet a result) and that
inputs are the disjoint union of what is left and what is done.  Results:
`PipelineTyped`, `ResultsAreOnDisk`, `ExitZero`, and from the same invariant the
action property `RejectedFilesKept`.

`BindingsProofs`.  `Attaching` says what `AttachAll` has attached when it is at
program i (the wanted ones among the first i - 1 names, all of them in the
slice), `Releasing` what `Close` still has to release.  `BindingsTyped`,
`LinksTracked` and `CloseIsComplete` follow, and `AttachAllKeepsPromise` shows by
cases that every step is a step of `AttachPromise` or leaves its variables alone:
only the return of `AttachAll`, closing one link, and the exit change what the
caller sees.

`PacketCounterProofs`.  `NeverOver` counts the CPUs inside `OnPacket`, so each
step is a step of a cardinality.  It is inductive together with
`NoEntryNoCount` (no entry, no count; a pointer that was found leads to an entry).
Results: `PacketTypes`, `CountedAtMostOnce`, `StatsLineSound` and the action
property `LossOnlyInTheRace`.  `SysmonImplements`: every step of the composition is
a step, or no step, of the loader and of the counter, so what is proved of each
holds of `main`; `SysmonCounts` is that for the counter.

`EventRingProofs`.  `RingInv`: every reserved position belongs to one program, the
unread records are shorter together than the ring, and so no two of them share a
unit (`ModApart`: positions less than a turn apart are different units); from this
`RingTyped` and `RecordsNotTorn`.  `LivesInv` orders the records of a pid by its
processes, says that a process that is over left an exit record or none at all,
and that a pid is in `seenExec` because of an `[exec]` line since which each end is
untold or its record not yet read (`ExitLines`).

Only model-checked: the liveness properties `RunEnds`, `EventuallyRead` and
`ShutdownEnds`, since fairness and ENABLED are out of the prover's reach, and
`NamesRoundTrip`.  Sorts are stated by what they return (the element of each rank)
instead of with `SortSeq`, which the provers cannot open either.

## 5. Not modelled

* Wording and indentation of the C text, of summaries and of log lines: no
  property here is about them.
* `go/packages` loading, the file system beyond single writes, clang, the
  verifier: external programs.  `Pipeline` uses of the front end only whether it accepts.
* Unary operators, whose reading depends on how characters join into tokens;
  pointer and kernel types of `types.go`, tables without state.
* Name mangling of the bindings (`pascalCase`, `sanitizePackageName`): a collision
  is a Go compile error in the generated file.
* `sysmon`'s and `helloworld`'s printing, and the flags and environment of the
  command line.
* `bpf/*.go`: declarations whose bodies panic and never run;
  `helpers_generated.go` and the vendored headers: generated or third-party.
* `genhelpers` but for its naming: a generator run by hand over a vendored header.

Seen while modelling and not given a run:

* an assignment to the pointer or the ok of a comma-ok changes both in C
  (`emit.go:645`, the case `Simulates` leaves out);
* `x := x` in an inner block initialises the C variable from itself
  (`emit.go:643`);
* `var x T` has no initialiser in C (`emit.go:595`, the case `Simulates`
  allows), where Go has zero;
* `OnExec`, `OnOpen` and `OnTcpConnect` leave `Ret`, and all programs but
  `OnExec` leave `Args`, as the reused memory has them (`sysmon.go:68`), which
  after a wrap is some other part of two older records, where `sysmon.go:19`
  and `:22` say zero; the bytes of a record are not modelled;
* the cast that `GetUserString` and `GetUserArgv` put before their address takes
  only the first operand of `p + 8` (`helpers.go:57`, `:63`; the case
  `GroupsWhereRanksAgree` leaves out with `bare`), and these expansions write their
  first argument twice;
* `GetUserArgv` called from a helper only has no prelude (`emit.go:257`)
  although the comment above says "used anywhere in the program";
* a named type that is no struct is written `struct Name` (`types.go:110-113`);
* `Rewrite` stops at a log line of more than a megabyte (`diagnose.go:95`);
* a const `event` and a type `Event` get one name in the bindings
  (`bindings.go:275`);
* `a &^ b` keeps Go's spelling in C (`emit.go:1129`);
* a program that declares `_lookup1` itself collides with a synthetic name
  (`emit.go:77`);
* an else-if line and the later names of a `var` statement have no sourcemap
  entry, so the verifier's messages about them stay unannotated
  (`HeadsAnnotated` is about first lines for that reason);
* sysmon's polling goroutine can print `packets=0` after `objs.Close`
  (`main.go:158`, the case `StatsSound` allows);
* `OnPacket` loses packets while the entry is created, because CPUs that miss
  the lookup store 1 over each other's count (`sysmon.go:57`, the case
  `LossOnlyAtCreation` allows);
* `AttachAll` returns links in the order of Go names (`bindings.go:39`) where
  its comment says declaration order (`bindings.go:202`);
* a method without a section is dropped by `collectDecls` (`parse.go:99`), so
  the validator that is to reject it (`parse.go:96-98`, `docs/go-subset.md:27`
  and `:39`) never sees it; `Frontend` drops it too, and `AcceptedSound` is about
  functions without a receiver;
* `- -x` is written as `--x` (`emit.go:1112`).

## 6. Plan

1. Done: `Emitter` with `Diagnose`, `CommaOk`, `Expressions`, `Frontend` with
   `Artifacts`, `Pipeline`, `Bindings` with `AttachPromise`, `PacketCounter`,
   `Sysmon`, `EventRing`; a theorem for every invariant, action property and refinement of
   the passing runs.
2. Proofs: shorter ones where several actions repeat one argument (`CommaOkProofs`,
   `FrontendProofs`).
3. If the code grows there: unary operators with C's tokens, name mangling of the
   bindings.
