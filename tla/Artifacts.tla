------------------------------ MODULE Artifacts ------------------------------
(***************************************************************************)
(* What Emit and WriteBindings make of an accepted file, composed with     *)
(* module Frontend: internal/transpile/emit.go (headers, preludes, the     *)
(* order of the declarations, C names), types.go, helpers.go,              *)
(* bindings.go (re-published structs and constants) and the names          *)
(* tools/genhelpers gives the functions of package bpf.                    *)
(*                                                                         *)
(* What a declaration mentions is the input of the step that first looks   *)
(* at it.  C names are pairs <<where it is declared, which one>>; a helper *)
(* name is spelled in letters "a", digits "1" and "_", after its "bpf_".   *)
(***************************************************************************)
EXTENDS Frontend

CONSTANTS
  HelperDefs  \* the helpers bpf_helpers.h declares: their names after "bpf_"

VARIABLES
  stage,       \* where Emit or WriteBindings is
  left,        \* what the stage has still to look at
  includes,    \* the #include lines
  preludes,    \* the static helpers of bpfPreludeHelpers that were emitted
  mentions,    \* what each declaration looked at so far mentions
  written,     \* the declarations written to the .bpf.c, in order
  undeclared,  \* history: <<declaration, C name>> with nothing above declaring it
  published    \* the constants of the bindings file: place and value

artVars == <<stage, left, includes, preludes, mentions, written, undeclared, published>>
allVars == <<vars, artVars>>

-----------------------------------------------------------------------------
\* Names of helpers.

\* Mutant of GoNameFor: only the first word is capitalised.
GoNameForFirstWord(c) ==
  LET at == SelectSeq([i \in 1..Len(c) |-> i], LAMBDA i : c[i] # "_")
  IN  [n \in 1..Len(at) |-> IF n = 1 /\ c[at[n]] = "a" THEN "A" ELSE c[at[n]]]

\* goNameFor (genhelpers): split at "_", capitalise the words, join.
GoNameFor(c) ==
  LET at == SelectSeq([i \in 1..Len(c) |-> i], LAMBDA i : c[i] # "_")
      opensWord(i) == i = 1 \/ c[i - 1] = "_"
  IN  [n \in 1..Len(at) |-> IF opensWord(at[n]) /\ c[at[n]] = "a" THEN "A" ELSE c[at[n]]]

\* goNameToBpfHelper (emit): a capital that is not the first letter opens a word.
GoNameToBpfHelper(g) ==
  FlattenSeq([i \in 1..Len(g) |-> IF g[i] # "A" THEN <<g[i]>>
                                  ELSE IF i = 1 THEN <<"a">> ELSE <<"_", "a">>])

-----------------------------------------------------------------------------
\* What a declaration can mention: nothing but itself, a declaration of the file,
\* and in a function a byte-order call, GetUserArgv, a generated stub or one of
\* bpf's constants.  A function also has a parameter whose type only vmlinux.h
\* defines, or not.
IsFunc(k) == file[k].form = "func"
Nothing == <<"nothing", <<>>>>
InFile(j) == <<"file", <<j>>>>
Endian == <<"endian", <<>>>>
Argv == <<"argv", <<>>>>
Stub(c) == <<"stub", c>>
Constant(name) == <<"bpf", <<name>>>>

\* bpfConstants, by its kinds of entry: an enumerator of the kernel's bpf.h, a macro
\* of its pkt_cls.h, which vmlinux.h cannot have either, and a literal.
Uapi == <<"uapi", <<>>>>
PktCls == <<"pkt_cls", <<>>>>
BpfConstants == [XdpPass |-> Uapi, TcOk |-> PktCls, TpOk |-> Nothing]

MayMention(k, j) ==
  /\ j # k
  /\ \/ file[j].form = "type"
     \/ IsFunc(k) /\ file[j].form = "var"
     \/ IsFunc(k) /\ IsFunc(j) /\ ~file[j].recv
Sayings(k) ==
  {Nothing} \cup {InFile(j) : j \in {j \in 1..Len(file) : MayMention(k, j)}}
  \cup (IF IsFunc(k) THEN {Endian, Argv} \cup {Stub(c) : c \in HelperDefs}
                                 \cup {Constant(name) : name \in DOMAIN BpfConstants}
      ELSE {})
Mention(k) == [says : Sayings(k), kernelCtx : IF IsFunc(k) THEN BOOLEAN ELSE {FALSE}]

\* formatCall, formatSelector and goTypeToC: the C names the text of a mention
\* contains.
Text(says) ==
  IF says[1] = "stub" THEN <<"helper", GoNameToBpfHelper(GoNameFor(says[2]))>>
  ELSE IF says[1] = "bpf" THEN BpfConstants[says[2][1]] ELSE says
CNames(m) ==
  ({Text(m.says)} \ {Nothing}) \cup (IF m.kernelCtx THEN {<<"kernel", <<>>>>} ELSE {})

\* What the headers declare.
HeaderNames(h) ==
  CASE h = "bpf_helpers.h" -> {<<"helper", c>> : c \in HelperDefs}
    [] h = "bpf_endian.h"  -> {Endian}
    [] h = "linux/bpf.h"   -> {Uapi}
    [] h = "vmlinux.h"     -> {<<"kernel", <<>>>>, Uapi}
    [] OTHER -> {}
Declared ==
  (UNION {HeaderNames(h) : h \in includes}) \cup preludes \cup {InFile(j) : j \in Range(written)}

\* Mutant of Sections: the user types are left out.
SectionsWithoutTypes == maps \o helpers \o programs

\* User types, maps, helpers, then programs: the order Emit writes them in.
Sections == types \o maps \o helpers \o programs

-----------------------------------------------------------------------------
\* Emit starts on an accepted file with the scans over its functions.
StartEmit ==
  /\ pc = "accepted" /\ stage = "idle"
  /\ stage' = "scan"
  /\ left' = programs \o helpers
  /\ includes' = {"linux/bpf.h", "bpf_helpers.h"}
  /\ UNCHANGED <<preludes, mentions, written, undeclared, published>>

\* The next function of the scans is k and mentions m.
Looks(k, m) ==
  /\ stage = "scan" /\ left # <<>> /\ k = Head(left)
  /\ mentions' = Append(mentions, <<k, m>>)
  /\ left' = Tail(left)
  /\ UNCHANGED <<stage, written, undeclared, published>>

\* writeHeader: the lines for a kernel context and for byte-order calls.
With(core, endian) ==
  (IF core THEN (includes \ {"linux/bpf.h"}) \cup {"vmlinux.h", "bpf_core_read.h"} ELSE includes)
  \cup (IF endian THEN {"bpf_endian.h"} ELSE {})

\* Mutant of Scan: the byte-order scan looks at programs only, like the others.
ScanProgramsOnly(k, m) ==
  LET program == k \in Range(programs)
  IN  /\ Looks(k, m)
      /\ includes' = With(program /\ m.kernelCtx, program /\ m.says = Endian)
      /\ preludes' = IF program /\ m.says = Argv THEN {Argv} ELSE preludes

\* usesKernelFieldAccess and usedPreludeHelpers look at the programs,
\* usesEndianHelpers at the helpers too.
Scan(k, m) ==
  LET program == k \in Range(programs)
  IN  /\ Looks(k, m)
      /\ includes' = With(program /\ m.kernelCtx, m.says = Endian)
      /\ preludes' = IF program /\ m.says = Argv THEN {Argv} ELSE preludes

HeaderWritten ==
  /\ stage = "scan" /\ left = <<>>
  /\ stage' = "write"
  /\ left' = Sections
  /\ UNCHANGED <<includes, preludes, mentions, written, undeclared, published>>

\* Go: no struct contains itself.
NoCycle(k, m) == \A s \in Range(mentions) : ~(m.says = InFile(s[1]) /\ s[2].says = InFile(k) /\ ~IsFunc(k))

\* writeUserType, writeMap, writeHelper or writeProgram of the next declaration.
WriteDecl(k, m) ==
  /\ stage = "write" /\ left # <<>> /\ k = Head(left)
  /\ IF IsFunc(k) THEN <<k, m>> \in Range(mentions) ELSE NoCycle(k, m)
  /\ mentions' = IF IsFunc(k) THEN mentions ELSE Append(mentions, <<k, m>>)
  /\ undeclared' = undeclared \cup {<<k, c>> : c \in CNames(m) \ Declared}
  /\ written' = Append(written, k)
  /\ left' = Tail(left)
  /\ UNCHANGED <<stage, includes, preludes, published>>

\* A declaration without a C form (a second parameter of a program, a type
\* goTypeToC does not know): Emit returns an error and nothing is kept.
EmitFails ==
  /\ stage = "write" /\ left # <<>>
  /\ stage' = "failed"
  /\ left' = <<>> /\ written' = <<>> /\ undeclared' = {}
  /\ UNCHANGED <<includes, preludes, mentions, published>>

-----------------------------------------------------------------------------
\* The bindings.

\* go/types: the value of constant k, which formatIdent writes into the C.  iota
\* counts from the first name of the block; a name without a value repeats the
\* expression above it.
Upto(k) == {m \in 1..k : file[m].form = "const"}
BlockIndex(k) == k - Max({m \in Upto(k) : file[m].first})
Expression(k) == Max({m \in Upto(k) : file[m].value # "none"})
ValueAt(m, index) == IF file[m].value = "iota" THEN <<"iota", index>> ELSE <<"own", m>>
KernelValue(k) == ValueAt(Expression(k), BlockIndex(k))

\* The n-th line of the one const block of the bindings: the name and its
\* expression, printed as it stands, which the Go compiler then evaluates.
Publish(n) == [of |-> consts[n], value |-> ValueAt(consts[n], n - 1)]

WriteBindings ==
  /\ stage = "write" /\ left = <<>>
  /\ stage' = "done"
  /\ published' = [n \in 1..Len(consts) |-> Publish(n)]
  /\ UNCHANGED <<left, includes, preludes, mentions, written, undeclared>>

\* Mutant of BasicToC: a 16-bit integer becomes a 32-bit one.
BasicToCWide == [uint8 |-> "__u8", uint16 |-> "__u32", uint32 |-> "__u32", uint64 |-> "__u64"]

\* basicToC; signed and unsigned are alike here, and bool is like uint8.
BasicToC == [uint8 |-> "__u8", uint16 |-> "__u16", uint32 |-> "__u32", uint64 |-> "__u64"]
CWidth == [__u8 |-> 1, __u16 |-> 2, __u32 |-> 4, __u64 |-> 8]
GoWidth == [uint8 |-> 1, uint16 |-> 2, uint32 |-> 4, uint64 |-> 8]

\* A struct's fields: a basic type, or an array of one.
StructField == [kind : DOMAIN GoWidth, len : Nat]
ASSUME StructsAssumption == Structs \subseteq Seq(StructField)

\* writeUserType and C: where the fields of a struct lie.  `T name[N]` takes N
\* times its element; a field starts at the next multiple of its width.
COffset(fields) ==
  LET width(n) == CWidth[BasicToC[fields[n].kind]]
      up(x, w) == ((x + w - 1) \div w) * w
      at[n \in 1..Len(fields)] ==
        IF n = 1 THEN 0 ELSE up(at[n - 1] + width(n - 1) * fields[n - 1].len, width(n))
  IN  at

\* The struct re-published in the bindings, as encoding/binary reads it: one
\* field after the other.
ReadOffset(fields) ==
  LET at[n \in 1..Len(fields)] ==
        IF n = 1 THEN 0 ELSE at[n - 1] + GoWidth[fields[n - 1].kind] * fields[n - 1].len
  IN  at

-----------------------------------------------------------------------------
ArtInit ==
  /\ Init
  /\ stage = "idle" /\ left = <<>>
  /\ includes = {} /\ preludes = {} /\ mentions = <<>> /\ written = <<>>
  /\ undeclared = {} /\ published = <<>>

Emission ==
  \/ StartEmit
  \/ \E k \in Range(left) : \E m \in Mention(k) : Scan(k, m) \/ WriteDecl(k, m)
  \/ HeaderWritten
  \/ EmitFails
  \/ WriteBindings

ArtNext ==
  \/ Next /\ UNCHANGED artVars
  \/ Emission /\ UNCHANGED vars

ArtSpec == ArtInit /\ [][ArtNext]_allVars

-----------------------------------------------------------------------------
\* The section of the C file that holds declaration j; 0 for what has no C form:
\* a plain variable, a type that is no struct, main, a method.
SectionOf(j) ==
  CASE file[j].form = "type" -> IF file[j].fields = NotStruct THEN 0 ELSE 1
    [] file[j].form = "var"  -> IF file[j].kind = "plain" THEN 0 ELSE 2
    [] IsFunc(j) -> IF file[j].section = "named" THEN 4 ELSE IF file[j].main \/ file[j].recv THEN 0 ELSE 3
    [] OTHER -> 0

\* Type invariant.  Emit writes every declaration that was collected, once.
ArtTypeOK ==
  /\ stage \in {"idle", "scan", "write", "done", "failed"}
  /\ includes \subseteq {"linux/bpf.h", "vmlinux.h", "bpf_helpers.h", "bpf_core_read.h", "bpf_endian.h"}
  /\ preludes \subseteq {Argv}
  /\ \A m \in Range(mentions) : m[2] \in Mention(m[1])
  /\ stage \in {"write", "done"} =>
       /\ IsInjective(written \o left)
       /\ Range(written \o left) = {k \in 1..Len(file) : SectionOf(k) # 0}
  /\ undeclared \subseteq {<<k, c>> : k \in Range(written), c \in UNION {CNames(m[2]) : m \in Range(mentions)}}
  /\ Range(published) \subseteq {[of |-> k, value |-> ValueAt(k, n)] : k \in Range(consts), n \in 0..Len(consts)}

\* A mention in a section function.
InProgram(says) == \E m \in Range(mentions) : m[1] \in Range(programs) /\ m[2].says = says

\* clang finds every name of the C file declared above its use, whatever the
\* order of the Go file and whichever functions use it, with these exceptions:
\* a declaration without a C form; one that the sections put below the use (the
\* same section and further down in the Go file, or a program called by a
\* helper); what only helpers use of vmlinux.h and of the preludes, which the
\* scans for those do not look at; and the TC_ACT_ macros, whose header is never
\* included.  In particular bpf_endian.h is there whenever it is needed, every
\* generated stub is written as the name of its helper, and what linux/bpf.h
\* declares stays declared when vmlinux.h takes its place.  That there are
\* exceptions at all is the run of AllDeclared.
UndeclaredExplained ==
  \A u \in undeclared :
    \/ /\ u[2][1] = "file"
       /\ LET j == u[2][2][1]
          IN  \/ SectionOf(j) = 0
              \/ SectionOf(j) > SectionOf(u[1])
              \/ SectionOf(j) = SectionOf(u[1]) /\ j > u[1]
    \/ u[2] = Argv /\ ~InProgram(Argv)
    \/ u[2][1] = "kernel" /\ "vmlinux.h" \notin includes /\ u[1] \in Range(helpers)
    \/ u[2] = PktCls

\* "clang compiles the C" (docs/design.md:3): every name of the C file is declared
\* above its use.
AllDeclared == undeclared = {}

\* Which published constants have the value that was compiled into the C: all but
\* an iota whose place in its Go block is not its place in the published block.
ConstantsMirrored ==
  \A n \in 1..Len(published) :
    LET k == published[n].of IN
    published[n].value # KernelValue(k) <=> (file[k].value = "iota" /\ BlockIndex(k) # n - 1)

\* "Field layout uses only 4-byte-aligned types so Go's binary.Read and clang's
\* struct layout agree without padding surprises" (sysmon.go:10): where every
\* field, read without gaps, falls on a multiple of its width, the re-published
\* struct reads each field where the C struct has it.
LayoutWhenAligned ==
  stage = "done" => \A k \in Range(types) : LET fields == file[k].fields IN
    (\A n \in 1..Len(fields) : ReadOffset(fields)[n] % GoWidth[fields[n].kind] = 0)
      => COffset(fields) = ReadOffset(fields)

\* What the bindings say of the kernel's side holds of it: for every re-published
\* struct "layout matches byte-for-byte, so `binary.Read` works"
\* (docs/status.md:179), and the constants are "the same values the kernel uses"
\* (bindings.go:267).
Republished ==
  stage = "done" =>
    /\ \A k \in Range(types) : COffset(file[k].fields) = ReadOffset(file[k].fields)
    /\ \A n \in 1..Len(published) : published[n].value = KernelValue(published[n].of)
=============================================================================
