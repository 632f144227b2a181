---------------------------- MODULE BindingsProofs ----------------------------
(***************************************************************************)
(* Theorems about module Bindings, for any number of programs and maps,    *)
(* any sections and any order of the Go names: no link is orphaned, Close  *)
(* releases everything, and AttachAll implements AttachPromise.            *)
(***************************************************************************)
EXTENDS Bindings, TLAPS

\* What AttachAll has attached when it has dealt with the first n - 1 names.
AttachedBefore(n) == {p \in Progs : \E j \in 1..(n - 1) : GoOrder[j] = p /\ Wants(p, ifindex)}

\* What Close still has to release when it is at object n.
ReleasedFrom(n) == {ClosedAt(k) : k \in n..(NMaps + NProgs)}

Attaching ==
  /\ pc \in {"check", "load"} => ls = <<>> /\ links = {} /\ held = {}
  /\ pc = "attach" => /\ i \in 1..(NProgs + 1)
                      /\ Len(ls) < i
                      /\ links = AttachedBefore(i)
  /\ Len(ls) <= NProgs

Releasing ==
  /\ pc \in {"cleanup", "attached"} => i \in 1..(Len(ls) + 1)
  /\ pc \in {"failed", "close", "closed", "fatal", "exited"} => links = {}
  /\ pc = "close" => i \in 1..(NMaps + NProgs + 1) /\ held \subseteq ReleasedFrom(i)
  /\ pc \in {"closed", "fatal", "exited"} => held = {}

IInv == TypeOK /\ Attaching /\ Releasing /\ NoOrphanLink

-----------------------------------------------------------------------------
LEMMA SliceAppend ==
  ASSUME ls \in Seq(Progs), NEW p \in Progs, ls' = Append(ls, p)
  PROVE  /\ ls' \in Seq(Progs) /\ Len(ls') = Len(ls) + 1
         /\ {ls'[k] : k \in 1..Len(ls')} = {ls[k] : k \in 1..Len(ls)} \cup {p}
  OBVIOUS

\* A loop that closes link n of the slice leaves the later ones to itself.
LEMMA SliceRest ==
  ASSUME ls \in Seq(Progs), NEW n \in 1..Len(ls)
  PROVE  InSlice(n) \ {ls[n]} \subseteq InSlice(n + 1)
  BY DEF InSlice

LEMMA ClosedAtType ==
  ASSUME NEW k \in 1..(NMaps + NProgs) PROVE ClosedAt(k) \in Objects
<1>1. NMaps \in Nat /\ NProgs \in Nat /\ GoOrder \in [Progs -> Progs]
  BY BindingsAssumption
<1>2. CASE k <= NMaps
  BY <1>1, <1>2 DEF ClosedAt, Objects, Maps
<1>3. CASE ~(k <= NMaps)
  <2>1. k - NMaps \in Progs
    BY <1>1, <1>3 DEF Progs
  <2>2. GoOrder[k - NMaps] \in Progs
    BY <1>1, <2>1
  <2> QED
    BY <1>3, <2>2 DEF ClosedAt, Objects
<1> QED
  BY <1>2, <1>3

\* Close names every object.
LEMMA ClosesAll == Objects \subseteq ReleasedFrom(1)
<1>1. NMaps \in Nat /\ NProgs \in Nat /\ \A p \in Progs : \E j \in Progs : GoOrder[j] = p
  BY BindingsAssumption
<1>2. ASSUME NEW m \in 1..NMaps PROVE <<"map", m>> \in ReleasedFrom(1)
  <2>1. m \in 1..(NMaps + NProgs) /\ ClosedAt(m) = <<"map", m>>
    BY <1>1, <1>2 DEF ClosedAt
  <2> QED
    BY <2>1 DEF ReleasedFrom
<1>3. ASSUME NEW p \in Progs PROVE <<"prog", p>> \in ReleasedFrom(1)
  <2>1. PICK j \in Progs : GoOrder[j] = p
    BY <1>1
  <2>2. j + NMaps \in 1..(NMaps + NProgs) /\ ~(j + NMaps <= NMaps) /\ (j + NMaps) - NMaps = j
    BY <1>1, <2>1 DEF Progs
  <2>3. ClosedAt(j + NMaps) = <<"prog", p>>
    BY <2>1, <2>2 DEF ClosedAt
  <2> QED
    BY <2>2, <2>3 DEF ReleasedFrom
<1> QED
  BY <1>2, <1>3 DEF Objects, Maps

\* The last name attached, AttachAll has attached what it was asked to.
LEMMA AllAttached == AttachedBefore(NProgs + 1) = Wanted
  BY BindingsAssumption DEF AttachedBefore, Wanted, Progs

LEMMA InitInv == Init => IInv
  BY BindingsAssumption DEF Init, IInv, TypeOK, Attaching, Releasing, NoOrphanLink, InSlice

-----------------------------------------------------------------------------
LEMMA LoadInv ==
  ASSUME IInv,
         \/ Load
         \/ \E analyzed, known \in BOOLEAN, needs, running \in Versions :
              CheckKernel(analyzed, needs, known, running)
  PROVE  IInv'
<1>1. links' = {} /\ ls' = <<>>
  BY DEF IInv, Attaching, Load, CheckKernel
<1>2. TypeOK'
  BY BindingsAssumption DEF IInv, TypeOK, Load, CheckKernel, Refused
<1>3. AttachedBefore(1)' = {}
  BY DEF AttachedBefore
<1>4. Attaching'
  BY <1>1, <1>3, BindingsAssumption DEF IInv, TypeOK, Attaching, Load, CheckKernel, AttachedBefore
<1>5. Releasing'
  BY <1>1 DEF IInv, Attaching, Releasing, Load, CheckKernel
<1>6. NoOrphanLink'
  BY <1>1 DEF NoOrphanLink
<1> QED
  BY <1>2, <1>4, <1>5, <1>6 DEF IInv

\* A step of AttachAll's loop over the sorted names.
LEMMA LoopInv == ASSUME IInv, Skip \/ Attach PROVE IInv'
<1> USE BindingsAssumption
<1>1. /\ pc = "attach" /\ pc' = "attach" /\ i \in 1..NProgs /\ i' = i + 1 /\ i \in Progs
      /\ GoOrder[i] \in Progs /\ ifindex' = ifindex /\ held' = held /\ errs' = errs
      /\ ls \in Seq(Progs) /\ Len(ls) < i /\ links = AttachedBefore(i)
  BY DEF IInv, TypeOK, Attaching, Skip, Attach, Progs
<1>4. 1..((i + 1) - 1) = (1..(i - 1)) \cup {i}
  BY <1>1
<1>2. CASE Skip
  <2>1. AttachedBefore(i + 1) = AttachedBefore(i)
    BY <1>2, <1>4 DEF AttachedBefore, Skip
  <2>2. AttachedBefore(i)' = AttachedBefore(i + 1)
    BY <1>1 DEF AttachedBefore, Wants
  <2>3. TypeOK'
    BY <1>1, <1>2 DEF IInv, TypeOK, Skip
  <2>4. Attaching'
    BY <1>1, <1>2, <2>1, <2>2 DEF IInv, Attaching, Skip
  <2>5. Releasing' /\ NoOrphanLink'
    BY <1>1, <1>2 DEF IInv, Releasing, NoOrphanLink, InSlice, Skip
  <2> QED
    BY <2>3, <2>4, <2>5 DEF IInv
<1>3. CASE Attach
  <2>1. AttachedBefore(i + 1) = AttachedBefore(i) \cup {GoOrder[i]}
    BY <1>1, <1>3, <1>4, ZenonT(60) DEF AttachedBefore, Attach
  <2>2. AttachedBefore(i)' = AttachedBefore(i + 1)
    BY <1>1 DEF AttachedBefore, Wants
  <2>3. /\ ls' \in Seq(Progs) /\ Len(ls') = Len(ls) + 1 /\ links' = links \cup {GoOrder[i]}
        /\ {ls'[k] : k \in 1..Len(ls')} = {ls[k] : k \in 1..Len(ls)} \cup {GoOrder[i]}
    BY <1>1, <1>3, SliceAppend DEF Attach
  <2>4. TypeOK'
    BY <1>1, <2>3 DEF IInv, TypeOK
  <2>5. Attaching'
    BY <1>1, <2>1, <2>2, <2>3 DEF IInv, Attaching
  <2>6. Releasing' /\ NoOrphanLink'
    BY <1>1, <2>3 DEF IInv, Releasing, NoOrphanLink, InSlice
  <2> QED
    BY <2>4, <2>5, <2>6 DEF IInv
<1> QED
  BY <1>2, <1>3

\* AttachAll changes to its cleanup, or returns the slice.
LEMMA LoopEndInv == ASSUME IInv, AttachFails \/ AttachReturns PROVE IInv'
<1>1. pc = "attach" /\ pc' \in {"cleanup", "attached"} /\ i' = 1 /\ ls \in Seq(Progs)
      /\ UNCHANGED <<ifindex, held, ls, links, errs>>
  BY DEF IInv, TypeOK, AttachFails, AttachReturns
<1>2. TypeOK'
  BY <1>1, BindingsAssumption DEF IInv, TypeOK
<1>3. Attaching' /\ Releasing'
  BY <1>1 DEF IInv, Attaching, Releasing
<1>4. NoOrphanLink'
  BY <1>1 DEF IInv, NoOrphanLink, InSlice
<1> QED
  BY <1>2, <1>3, <1>4 DEF IInv

\* The cleanup loop and the caller's loop: one link closed.
LEMMA CloseLinkInv == ASSUME IInv, Cleanup \/ CloseLink PROVE IInv'
<1> USE BindingsAssumption
<1>1. /\ pc \in {"cleanup", "attached"} /\ i \in 1..Len(ls) /\ i' = i + 1
      /\ links' = links \ {ls[i]} /\ ls \in Seq(Progs) /\ Len(ls) <= NProgs
      /\ UNCHANGED <<pc, ifindex, held, ls, errs>>
  BY DEF IInv, TypeOK, Attaching, Releasing, Cleanup, CloseLink
<1>2. TypeOK'
  BY <1>1 DEF IInv, TypeOK
<1>3. Attaching' /\ Releasing'
  BY <1>1 DEF IInv, Attaching, Releasing
<1>4. links \subseteq InSlice(i)
  BY <1>1 DEF IInv, NoOrphanLink
<1>5. links' \subseteq InSlice(i + 1)
  BY <1>1, <1>4, SliceRest
<1>6. NoOrphanLink'
  BY <1>1, <1>5 DEF NoOrphanLink, InSlice
<1> QED
  BY <1>2, <1>3, <1>6 DEF IInv

\* Either loop has closed its last link: none is left.
LEMMA LinksClosedInv == ASSUME IInv, CleanedUp \/ Detached PROVE IInv'
<1> USE BindingsAssumption
<1>1. /\ pc \in {"cleanup", "attached"} /\ i > Len(ls) /\ i \in Nat /\ ls \in Seq(Progs)
      /\ links' = links /\ UNCHANGED <<ifindex, held, errs>>
  BY DEF IInv, TypeOK, CleanedUp, Detached
<1>2. InSlice(i) = {}
  BY <1>1 DEF InSlice
<1>3. links = {}
  BY <1>1, <1>2 DEF IInv, NoOrphanLink
<1>4. held \subseteq ReleasedFrom(1)
  BY ClosesAll DEF IInv, TypeOK
<1>5. ReleasedFrom(1)' = ReleasedFrom(1)
  BY DEF ReleasedFrom, ClosedAt
<1>6. TypeOK'
  <2>1. (ls' = <<>> \/ ls' = ls) /\ (i' = i \/ i' = 1) /\ pc' \in {"failed", "close"}
    BY DEF CleanedUp, Detached
  <2>2. ls' \in Seq(Progs)
    <3>1. <<>> \in Seq(Progs)
      OBVIOUS
    <3> QED
      BY <1>1, <2>1, <3>1, Zenon
  <2>3. i' \in 0..(NMaps + NProgs + 1)
    BY <2>1 DEF IInv, TypeOK
  <2> QED
    BY <1>1, <2>1, <2>2, <2>3 DEF IInv, TypeOK
<1>7. Attaching'
  BY <1>1 DEF IInv, Attaching, CleanedUp, Detached
<1>8. Releasing'
  BY <1>1, <1>3, <1>4, <1>5 DEF Releasing, CleanedUp, Detached
<1>9. NoOrphanLink'
  BY <1>1, <1>3 DEF NoOrphanLink
<1> QED
  BY <1>6, <1>7, <1>8, <1>9 DEF IInv

LEMMA CloseObjectInv ==
  ASSUME IInv, NEW fails \in BOOLEAN, CloseObject(fails) PROVE IInv'
<1> USE BindingsAssumption
<1>1. /\ pc = "close" /\ i \in 1..(NMaps + NProgs) /\ i' = i + 1
      /\ held \subseteq ReleasedFrom(i) /\ held' = held \ {ClosedAt(i)} /\ links = {}
      /\ UNCHANGED <<pc, ifindex, ls, links>>
  BY DEF IInv, TypeOK, Releasing, CloseObject
<1>2. ReleasedFrom(i) \ {ClosedAt(i)} \subseteq ReleasedFrom(i + 1)
  BY <1>1 DEF ReleasedFrom
<1>3. ReleasedFrom(i)' = ReleasedFrom(i + 1)
  BY <1>1 DEF ReleasedFrom, ClosedAt
<1>4. ClosedAt(i) \in Objects
  BY <1>1, ClosedAtType
<1>5. TypeOK'
  BY <1>1, <1>4 DEF IInv, TypeOK, CloseObject
<1>6. Attaching'
  BY <1>1 DEF IInv, Attaching
<1>7. Releasing'
  BY <1>1, <1>2, <1>3 DEF Releasing
<1>8. NoOrphanLink'
  BY <1>1 DEF NoOrphanLink
<1> QED
  BY <1>5, <1>6, <1>7, <1>8 DEF IInv

\* Close returns, or the process exits.
LEMMA EndInv == ASSUME IInv, Closed \/ Exit PROVE IInv'
<1> USE BindingsAssumption
<1>1. ReleasedFrom(NMaps + NProgs + 1) = {}
  BY DEF ReleasedFrom
<1>2. CASE Closed
  <2>1. /\ pc = "close" /\ i = NMaps + NProgs + 1 /\ links = {} /\ held = {}
        /\ UNCHANGED <<ifindex, held, i, ls, links, errs>>
    BY <1>1, <1>2 DEF IInv, TypeOK, Releasing, Closed
  <2> QED
    BY <1>2, <2>1 DEF IInv, TypeOK, Attaching, Releasing, NoOrphanLink, Closed
<1>3. CASE Exit
  BY <1>3 DEF IInv, TypeOK, Attaching, Releasing, NoOrphanLink, Exit
<1> QED
  BY <1>2, <1>3

LEMMA StutterInv == ASSUME IInv, UNCHANGED vars PROVE IInv'
<1>1. \A n \in Nat : AttachedBefore(n)' = AttachedBefore(n) /\ ReleasedFrom(n)' = ReleasedFrom(n)
  BY DEF vars, AttachedBefore, ReleasedFrom, ClosedAt, Wants
<1>2. i \in Nat
  BY BindingsAssumption DEF IInv, TypeOK
<1> QED
  BY <1>1, <1>2 DEF vars, IInv, TypeOK, Attaching, Releasing, NoOrphanLink, InSlice

LEMMA NextInv == IInv /\ [Next]_vars => IInv'
  BY LoadInv, LoopInv, LoopEndInv, CloseLinkInv, LinksClosedInv, CloseObjectInv, EndInv,
     StutterInv DEF Next, AttachAll, CloseAll

-----------------------------------------------------------------------------
\* The inductive invariant.
THEOREM BindingsInvariant == Spec => []IInv
  BY InitInv, NextInv, PTL DEF Spec

\* Every variable of the loader keeps its type.
THEOREM BindingsTyped == Spec => []TypeOK
<1>1. IInv => TypeOK
  BY DEF IInv
<1> QED
  BY BindingsInvariant, <1>1, PTL

\* AttachAll and its caller never lose track of a link the kernel has.
THEOREM LinksTracked == Spec => []NoOrphanLink
<1>1. IInv => NoOrphanLink
  BY DEF IInv
<1> QED
  BY BindingsInvariant, <1>1, PTL

\* Close releases every map and program, whichever of its calls fail.
THEOREM CloseIsComplete == Spec => []CloseReleases
<1>1. IInv => CloseReleases
  BY DEF IInv, Releasing, CloseReleases
<1> QED
  BY BindingsInvariant, <1>1, PTL

\* The step-by-step AttachAll, with its cleanup, implements the indivisible
\* all-or-nothing call of AttachPromise.
THEOREM AttachAllKeepsPromise == Spec => KeepsPromise
<1>1. Init => Promise!Init
  BY DEF Init, Promise!Init, Status, Wanted
<1>2. IInv /\ IInv' /\ [Next]_vars
      => [Promise!Next]_<<Wanted, Status, IF Status = "before" THEN {} ELSE links>>
  <2> SUFFICES ASSUME IInv, IInv', [Next]_vars
      PROVE [Promise!Next]_<<Wanted, Status, IF Status = "before" THEN {} ELSE links>>
    OBVIOUS
  <2>1. Wanted' = Wanted
    BY DEF Next, AttachAll, CloseAll, CheckKernel, Load, Skip, Attach, AttachFails, Cleanup,
           CleanedUp, AttachReturns, CloseLink, Detached, CloseObject, Closed, Exit, vars,
           Wanted, Wants
  <2>2. CASE \/ \E analyzed, known \in BOOLEAN, needs, running \in Versions :
                  CheckKernel(analyzed, needs, known, running)
             \/ Load \/ Skip \/ Attach \/ AttachFails \/ Cleanup
    BY <2>1, <2>2 DEF CheckKernel, Load, Skip, Attach, AttachFails, Cleanup, Status
  <2>3. CASE CleanedUp
    BY <2>1, <2>3 DEF CleanedUp, IInv, Releasing, Status, Promise!Next, Promise!Refuse
  <2>4. CASE AttachReturns
    <3>1. links = Wanted
      BY <2>4, AllAttached, BindingsAssumption DEF AttachReturns, IInv, TypeOK, Attaching
    <3> QED
      BY <2>1, <2>4, <3>1 DEF AttachReturns, Status, Promise!Next, Promise!Succeed
  <2>5. CASE CloseLink
    <3>1. /\ Status = "ok" /\ Status' = "ok" /\ links' = links \ {ls[i]} /\ ls[i] \in Progs
      BY <2>5 DEF CloseLink, Status, IInv, TypeOK, Releasing
    <3>2. CASE ls[i] \in links
      BY <2>1, <3>1, <3>2 DEF Promise!Next, Promise!Detach
    <3>3. CASE ls[i] \notin links
      BY <2>1, <3>1, <3>3
    <3> QED
      BY <3>2, <3>3
  <2>6. CASE Detached \/ (\E fails \in BOOLEAN : CloseObject(fails)) \/ Closed \/ UNCHANGED vars
    BY <2>1, <2>6 DEF Detached, CloseObject, Closed, vars, Status
  <2>7. CASE Exit
    BY <2>1, <2>7 DEF Exit, Status, Promise!Next, Promise!Leave
  <2> QED
    BY <2>2, <2>3, <2>4, <2>5, <2>6, <2>7 DEF Next, AttachAll, CloseAll
<1> QED
  BY BindingsInvariant, <1>1, <1>2, PTL DEF Spec, KeepsPromise, Promise!Spec
=============================================================================
