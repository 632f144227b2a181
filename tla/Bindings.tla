------------------------------- MODULE Bindings -------------------------------
(***************************************************************************)
(* The Go code that internal/transpile/bindings.go generates, as it runs   *)
(* in a userspace program: Load with its kernel check, AttachAll, and      *)
(* Close, called in the order of example/sysmon and example/helloworld.    *)
(* LoadAndAssign, the link package and the kernel are external.            *)
(*                                                                         *)
(* Programs are numbered in declaration order.  An object (a map or a      *)
(* program) is held while the process has its file descriptor.             *)
(***************************************************************************)
EXTENDS Naturals, Sequences, FiniteSets

CONSTANTS
  NProgs,       \* programs of the transpilation unit
  NMaps,        \* its maps
  Section,      \* Section[p]: the kind of //bpf:section of program p
  GoOrder,      \* GoOrder[i]: the program whose Go name sorts i-th
  Versions,     \* kernel versions
  Ifindexes     \* interface indexes the caller may pass; 0 is "no XDP"

Progs == 1..NProgs
Sections == {"xdp", "tracepoint", "kprobe", "kretprobe", "other"}

ASSUME BindingsAssumption ==
  /\ NProgs \in Nat /\ NMaps \in Nat
  /\ Section \in [Progs -> Sections]
  /\ GoOrder \in [Progs -> Progs]
  /\ \A j, k \in Progs : GoOrder[j] = GoOrder[k] => j = k
  /\ \A p \in Progs : \E k \in Progs : GoOrder[k] = p
  /\ Versions \subseteq Nat /\ Versions # {}
  /\ Ifindexes \subseteq Nat /\ Ifindexes # {}

VARIABLES
  pc,       \* where the process is
  ifindex,  \* the argument of AttachAll
  held,     \* objects the process holds
  i,        \* AttachAll, cleanup, the caller's loop, Close: the step it is at
  ls,       \* AttachAll's slice of links, then the caller's
  links,    \* kernel: the programs attached
  errs      \* Close: the objects whose Close returned an error

vars == <<pc, ifindex, held, i, ls, links, errs>>

Maps == {<<"map", m>> : m \in 1..NMaps}
Objects == Maps \cup {<<"prog", p>> : p \in Progs}

\* Mutant of ClosedAt: the programs are counted from the start of the list.
ClosedAtUnshifted(k) == IF k <= NMaps THEN <<"map", k>> ELSE <<"prog", k>>

\* Objects in the order the generated Close names them: maps, then programs,
\* each sorted by Go name (the maps are numbered in that order).
ClosedAt(k) == IF k <= NMaps THEN <<"map", k>> ELSE <<"prog", GoOrder[k - NMaps]>>

\* attachFor, and AttachAll's test of its XDP argument.
Attachable(p) == Section[p] # "other"
Wants(p, ifx) == Attachable(p) /\ (Section[p] = "xdp" => ifx # 0)
Wanted == {p \in Progs : Wants(p, ifindex)}

Init ==
  /\ pc = "check"
  /\ ifindex \in Ifindexes
  /\ held = {}
  /\ i = 0
  /\ ls = <<>>
  /\ links = {}
  /\ errs = {}

-----------------------------------------------------------------------------
\* The check of the running kernel.  An analysis or a uname that fails lets the
\* load go ahead.
Refused(analyzed, needs, known, running) == analyzed /\ known /\ running < needs

CheckKernel(analyzed, needs, known, running) ==
  /\ pc = "check"
  /\ pc' = IF Refused(analyzed, needs, known, running) THEN "fatal" ELSE "load"
  /\ UNCHANGED <<ifindex, held, i, ls, links, errs>>

\* LoadAndAssign: every object or, with an error the caller gets annotated, none.
Load ==
  /\ pc = "load"
  /\ \/ held' = Objects /\ pc' = "attach" /\ i' = 1
     \/ UNCHANGED <<held, i>> /\ pc' = "fatal"
  /\ UNCHANGED <<ifindex, ls, links, errs>>

-----------------------------------------------------------------------------
\* AttachAll: one program of the sorted list.
Skip ==
  /\ pc = "attach" /\ i <= NProgs
  /\ ~Wants(GoOrder[i], ifindex)
  /\ i' = i + 1
  /\ UNCHANGED <<pc, ifindex, held, ls, links, errs>>

\* Mutant of Attach: the link is not put into the slice.
AttachUnrecorded ==
  /\ pc = "attach" /\ i <= NProgs
  /\ Wants(GoOrder[i], ifindex)
  /\ links' = links \cup {GoOrder[i]}
  /\ i' = i + 1
  /\ UNCHANGED <<pc, ifindex, held, ls, errs>>

Attach ==
  /\ pc = "attach" /\ i <= NProgs
  /\ Wants(GoOrder[i], ifindex)
  /\ links' = links \cup {GoOrder[i]}
  /\ ls' = Append(ls, GoOrder[i])
  /\ i' = i + 1
  /\ UNCHANGED <<pc, ifindex, held, errs>>

\* Mutant of AttachFails: the error is returned without the cleanup.
AttachFailsKeepsLinks ==
  /\ pc = "attach" /\ i <= NProgs
  /\ Wants(GoOrder[i], ifindex)
  /\ pc' = "failed"
  /\ i' = 1
  /\ ls' = <<>>
  /\ UNCHANGED <<ifindex, held, links, errs>>

\* An attach that fails: cleanup closes the links of the slice in order.
AttachFails ==
  /\ pc = "attach" /\ i <= NProgs
  /\ Wants(GoOrder[i], ifindex)
  /\ pc' = "cleanup"
  /\ i' = 1
  /\ UNCHANGED <<ifindex, held, ls, links, errs>>

Cleanup ==
  /\ pc = "cleanup" /\ i <= Len(ls)
  /\ links' = links \ {ls[i]}
  /\ i' = i + 1
  /\ UNCHANGED <<pc, ifindex, held, ls, errs>>

\* return nil, err
CleanedUp ==
  /\ pc = "cleanup" /\ i > Len(ls)
  /\ pc' = "failed"
  /\ ls' = <<>>
  /\ UNCHANGED <<ifindex, held, i, links, errs>>

AttachReturns ==
  /\ pc = "attach" /\ i > NProgs
  /\ pc' = "attached"
  /\ i' = 1
  /\ UNCHANGED <<ifindex, held, ls, links, errs>>

-----------------------------------------------------------------------------
\* The caller, told to stop: its deferred loop closes the links, then the
\* deferred objs.Close runs.
CloseLink ==
  /\ pc = "attached" /\ i <= Len(ls)
  /\ links' = links \ {ls[i]}
  /\ i' = i + 1
  /\ UNCHANGED <<pc, ifindex, held, ls, errs>>

Detached ==
  /\ pc = "attached" /\ i > Len(ls)
  /\ pc' = "close"
  /\ i' = 1
  /\ UNCHANGED <<ifindex, held, ls, links, errs>>

\* Mutant of CloseObject: the first error ends Close.
CloseObjectStops(fails) ==
  /\ pc = "close" /\ i <= NMaps + NProgs
  /\ held' = held \ {ClosedAt(i)}
  /\ errs' = IF fails THEN errs \cup {ClosedAt(i)} ELSE errs
  /\ i' = IF fails THEN NMaps + NProgs + 1 ELSE i + 1
  /\ UNCHANGED <<pc, ifindex, ls, links>>

\* objs.Close: one object.  Its descriptor is gone whether or not Close reports
\* an error, and an error does not stop the rest.
CloseObject(fails) ==
  /\ pc = "close" /\ i <= NMaps + NProgs
  /\ held' = held \ {ClosedAt(i)}
  /\ errs' = IF fails THEN errs \cup {ClosedAt(i)} ELSE errs
  /\ i' = i + 1
  /\ UNCHANGED <<pc, ifindex, ls, links>>

Closed ==
  /\ pc = "close" /\ i > NMaps + NProgs
  /\ pc' = "closed"
  /\ UNCHANGED <<ifindex, held, i, ls, links, errs>>

\* log.Fatalf after an error (no deferred call runs), the end of main, or a
\* signal that kills the process.
Exit ==
  /\ pc # "exited"
  /\ pc' = "exited"
  /\ held' = {} /\ links' = {}
  /\ UNCHANGED <<ifindex, i, ls, errs>>

AttachAll == Skip \/ Attach \/ AttachFails \/ Cleanup \/ CleanedUp \/ AttachReturns
CloseAll == CloseLink \/ Detached \/ (\E fails \in BOOLEAN : CloseObject(fails)) \/ Closed

Next ==
  \/ \E analyzed, known \in BOOLEAN, needs, running \in Versions :
       CheckKernel(analyzed, needs, known, running)
  \/ Load
  \/ AttachAll
  \/ CloseAll
  \/ Exit

Spec == Init /\ [][Next]_vars

-----------------------------------------------------------------------------
\* Type invariant.
TypeOK ==
  /\ pc \in {"check", "load", "attach", "cleanup", "failed", "attached", "close", "closed",
             "fatal", "exited"}
  /\ ifindex \in Ifindexes
  /\ held \subseteq Objects
  /\ i \in 0..(NMaps + NProgs + 1)
  /\ ls \in Seq(Progs)
  /\ links \subseteq Progs
  /\ errs \subseteq Objects

InSlice(from) == {ls[k] : k \in from..Len(ls)}

\* AttachAll and its caller can close every link the kernel has: it is in the
\* slice, at a place the loop that is closing links has not passed yet.
NoOrphanLink ==
  links \subseteq InSlice(IF pc \in {"cleanup", "attached"} THEN i ELSE 1)

\* "Close releases every map and program owned by o": once the deferred calls
\* have run nothing is held or attached, whichever Close calls failed.
CloseReleases ==
  pc = "closed" => held = {} /\ links = {}

\* AttachAll as its caller sees it: one step that attaches every program it
\* understands, or an error with nothing attached.
Status ==
  IF pc \in {"failed", "exited"} THEN pc
  ELSE IF pc \in {"attached", "close", "closed"} THEN "ok" ELSE "before"
Promise == INSTANCE AttachPromise WITH
  Programs <- Progs,
  wanted   <- Wanted,
  status   <- Status,
  attached <- IF Status = "before" THEN {} ELSE links
KeepsPromise == Promise!Spec
=============================================================================
