------------------------- MODULE PacketCounterProofs -------------------------
(***************************************************************************)
(* Theorems about module PacketCounter, for any finite set of CPUs and any *)
(* number of packets: nothing is counted twice, packets are lost only      *)
(* while the entry is created, and what the [stats] line says is sound.    *)
(***************************************************************************)
EXTENDS Sysmon, FiniteSetTheorems, TLAPS

Busy == {c \in CPUs : cpu[c].at # "idle"}

\* Before the entry exists there is nothing to count, and no pointer to it.
NoEntryNoCount ==
  /\ elem = 0 => val = 0
  /\ \A c \in CPUs : cpu[c].at = "hit" => cpu[c].elem # 0

IInv == CounterTypeOK /\ NeverOver /\ NoEntryNoCount /\ StatsSound

-----------------------------------------------------------------------------
LEMMA BusyFinite == IsFiniteSet(Busy) /\ InFlight \in Nat /\ InFlight = Cardinality(Busy)
<1>1. IsFiniteSet(Busy)
  BY CounterAssumption, FS_Subset DEF Busy
<1> QED
  BY <1>1, FS_CardinalityType DEF InFlight, Busy

\* A CPU that takes a packet is one more in OnPacket, a CPU that returns one less.
LEMMA EntersOnPacket ==
  ASSUME CounterTypeOK, NEW c \in CPUs, Lookup(c)
  PROVE  InFlight' = InFlight + 1
<1>1. Busy' = Busy \cup {c} /\ c \notin Busy
  BY DEF CounterTypeOK, Lookup, Busy
<1>2. Cardinality(Busy \cup {c}) = Cardinality(Busy) + 1
  BY <1>1, BusyFinite, FS_AddElement
<1>3. InFlight' = Cardinality(Busy')
  BY DEF InFlight, Busy
<1> QED
  BY <1>1, <1>2, <1>3, BusyFinite

LEMMA LeavesOnPacket ==
  ASSUME CounterTypeOK, NEW c \in CPUs, Update(c) \/ AtomicAdd(c)
  PROVE  InFlight' = InFlight - 1 /\ InFlight > 0
<1>1. Busy' = Busy \ {c} /\ c \in Busy
  BY DEF CounterTypeOK, Update, AtomicAdd, Busy, Idle
<1>2. Cardinality(Busy \ {c}) = Cardinality(Busy) - 1
  BY <1>1, BusyFinite, FS_RemoveElement
<1>3. InFlight' = Cardinality(Busy')
  BY DEF InFlight, Busy
<1>4. Cardinality(Busy \ {c}) \in Nat
  BY BusyFinite, FS_Subset, FS_CardinalityType
<1> QED
  BY <1>1, <1>2, <1>3, <1>4, BusyFinite

\* A step of main, of the ticker or of the polling goroutine moves no CPU.
LEMMA KernelStands ==
  ASSUME UNCHANGED kernelVars
  PROVE  InFlight' = InFlight /\ (EntryStable => EntryStable')
  BY DEF kernelVars, InFlight, EntryStable

-----------------------------------------------------------------------------
LEMMA InitInv == CounterInit => IInv
<1> SUFFICES ASSUME CounterInit PROVE IInv
  OBVIOUS
<1>1. CounterTypeOK
  BY DEF CounterInit, CounterTypeOK, Idle, Deferred
<1>2. Busy = {}
  BY DEF CounterInit, Busy, Idle
<1>3. InFlight = 0
  BY <1>2, BusyFinite, FS_EmptySet
<1> QED
  BY <1>1, <1>3 DEF CounterInit, IInv, NeverOver, NoEntryNoCount, StatsSound, Idle

LEMMA PacketTyped ==
  ASSUME CounterTypeOK, NEW c \in CPUs, OnPacket(c) PROVE CounterTypeOK'
<1>1. CASE Lookup(c)
  BY <1>1 DEF CounterTypeOK, OnPacket, Lookup, userVars
<1>2. CASE Update(c)
  BY <1>2 DEF CounterTypeOK, OnPacket, Update, userVars, Idle
<1>3. CASE AtomicAdd(c)
  BY <1>3 DEF CounterTypeOK, OnPacket, AtomicAdd, userVars, Idle
<1> QED
  BY <1>1, <1>2, <1>3 DEF OnPacket

\* OnPacket: an update replaces the count by its own packet alone, which is no
\* more than what arrived, the packet being one of those in flight.
LEMMA PacketInv ==
  ASSUME IInv, NEW c \in CPUs, OnPacket(c) PROVE IInv'
<1>1. CounterTypeOK'
  BY PacketTyped DEF IInv
<1>2. NeverOver'
  <2>1. CASE Lookup(c)
    <3>1. InFlight' = InFlight + 1 /\ InFlight \in Nat
      BY <2>1, EntersOnPacket, BusyFinite DEF IInv
    <3> QED
      BY <2>1, <3>1 DEF IInv, CounterTypeOK, NeverOver, Lookup
  <2>2. CASE Update(c)
    <3>1. InFlight' = InFlight - 1 /\ InFlight \in Nat
      BY <2>2, LeavesOnPacket, BusyFinite DEF IInv
    <3> QED
      BY <2>2, <3>1 DEF IInv, CounterTypeOK, NeverOver, Update
  <2>3. CASE AtomicAdd(c)
    <3>1. InFlight' = InFlight - 1 /\ InFlight \in Nat
      BY <2>3, LeavesOnPacket, BusyFinite DEF IInv
    <3> QED
      BY <2>3, <3>1 DEF IInv, CounterTypeOK, NeverOver, AtomicAdd
  <2> QED
    BY <2>1, <2>2, <2>3 DEF OnPacket
<1>3. NoEntryNoCount'
  BY DEF IInv, CounterTypeOK, NoEntryNoCount, OnPacket, Lookup, Update, AtomicAdd, Idle
<1>4. arrived' >= arrived
  BY DEF IInv, CounterTypeOK, OnPacket, Lookup, Update, AtomicAdd
<1>5. StatsSound'
  BY <1>4 DEF IInv, CounterTypeOK, StatsSound, OnPacket, userVars, Lookup, Update, AtomicAdd
<1> QED
  BY <1>1, <1>2, <1>3, <1>5 DEF IInv

\* The polling goroutine reads what is there, or 0 where there is nothing or the
\* map is closed.
LEMMA UserInv ==
  ASSUME IInv, Tick \/ TakeTick \/ ReadPkts \/ Unwind \/ Kill PROVE IInv'
<1>1. UNCHANGED kernelVars
  BY DEF Tick, TakeTick, ReadPkts, Unwind, Kill
<1>2. CounterTypeOK'
  <2>1. CASE Tick \/ TakeTick
    BY <2>1 DEF IInv, CounterTypeOK, kernelVars, Tick, TakeTick
  <2>2. CASE ReadPkts
    BY <2>2 DEF IInv, CounterTypeOK, kernelVars, ReadPkts
  <2>3. CASE Unwind
    <3>1. main' \in DOMAIN Deferred \cup {"exited"}
      BY <2>3 DEF Unwind, Deferred
    <3> QED
      BY <2>3, <3>1 DEF IInv, CounterTypeOK, kernelVars, Unwind
  <2>4. CASE Kill
    BY <2>4 DEF IInv, CounterTypeOK, kernelVars, Kill
  <2> QED
    BY <2>1, <2>2, <2>3, <2>4
<1>3. NeverOver' /\ NoEntryNoCount'
  BY <1>1, KernelStands DEF IInv, NeverOver, NoEntryNoCount, kernelVars
<1>4. val <= arrived
  BY BusyFinite DEF IInv, CounterTypeOK, NeverOver
<1>5. StatsSound'
  BY <1>1, <1>4 DEF IInv, CounterTypeOK, NoEntryNoCount, StatsSound, kernelVars, Tick, TakeTick, ReadPkts, Unwind, Kill, Deferred
<1> QED
  BY <1>2, <1>3, <1>5 DEF IInv

LEMMA StutterInv == ASSUME IInv, UNCHANGED counterVars PROVE IInv'
  BY DEF IInv, CounterTypeOK, NeverOver, NoEntryNoCount, StatsSound, InFlight, counterVars

LEMMA StepInv == IInv /\ [CounterNext]_counterVars => IInv'
  BY PacketInv, UserInv, StutterInv DEF CounterNext

\* The invariant holds in every reachable state.
THEOREM PacketInvariant == CounterSpec => []IInv
  BY InitInv, StepInv, PTL DEF CounterSpec

\* Every variable keeps its type.
THEOREM PacketTypes == CounterSpec => []CounterTypeOK
<1>1. IInv => CounterTypeOK
  BY DEF IInv
<1> QED
  BY <1>1, PacketInvariant, PTL

\* OnPacket counts no packet twice, on however many CPUs it runs.
THEOREM CountedAtMostOnce == CounterSpec => []NeverOver
<1>1. IInv => NeverOver
  BY DEF IInv
<1> QED
  BY <1>1, PacketInvariant, PTL

\* A [stats] line shows no more than what arrived, and less than the map holds
\* only when objs.Close has closed the map under the polling goroutine.
THEOREM StatsLineSound == CounterSpec => []StatsSound
<1>1. IInv => StatsSound
  BY DEF IInv
<1> QED
  BY <1>1, PacketInvariant, PTL

-----------------------------------------------------------------------------
\* With the entry there, no CPU about to create it and every pointer leading to
\* it, a step of OnPacket keeps things so and loses nothing.
LEMMA PacketLosesNothing ==
  ASSUME CounterTypeOK, EntryStable, NEW c \in CPUs, OnPacket(c)
  PROVE  EntryStable' /\ arrived' - (val' + InFlight') = arrived - (val + InFlight)
<1>1. CASE Lookup(c)
  <2>1. InFlight' = InFlight + 1 /\ InFlight \in Nat
    BY <1>1, EntersOnPacket, BusyFinite
  <2>2. EntryStable'
    BY <1>1 DEF CounterTypeOK, EntryStable, Lookup
  <2> QED
    BY <1>1, <2>1, <2>2 DEF CounterTypeOK, Lookup
<1>2. CASE Update(c)
  BY <1>2 DEF EntryStable, Update
<1>3. CASE AtomicAdd(c)
  <2>1. InFlight' = InFlight - 1 /\ InFlight \in Nat
    BY <1>3, LeavesOnPacket, BusyFinite
  <2>2. EntryStable' /\ val' = val + 1
    BY <1>3 DEF CounterTypeOK, EntryStable, AtomicAdd, Idle
  <2> QED
    BY <1>3, <2>1, <2>2 DEF CounterTypeOK, AtomicAdd
<1> QED
  BY <1>1, <1>2, <1>3 DEF OnPacket

LEMMA OthersLoseNothing ==
  ASSUME UNCHANGED kernelVars, EntryStable
  PROVE  EntryStable' /\ arrived' - (val' + InFlight') = arrived - (val + InFlight)
  BY KernelStands DEF kernelVars

\* Once the entry is settled, each packet that arrives is counted: packets are
\* lost only in the race of the first lookups to create the entry.
THEOREM LossOnlyInTheRace == CounterSpec => LossOnlyAtCreation
<1>1. ASSUME CounterTypeOK, [CounterNext]_counterVars, EntryStable
      PROVE  EntryStable' /\ arrived' - (val' + InFlight') = arrived - (val + InFlight)
  <2>1. CASE \E c \in CPUs : OnPacket(c)
    BY <1>1, <2>1, PacketLosesNothing
  <2>2. CASE UNCHANGED kernelVars
    BY <1>1, <2>2, OthersLoseNothing
  <2>3. CASE Tick \/ TakeTick \/ ReadPkts \/ Unwind \/ Kill
    BY <2>2, <2>3 DEF Tick, TakeTick, ReadPkts, Unwind, Kill
  <2>4. CASE UNCHANGED counterVars
    BY <2>2, <2>4 DEF counterVars, kernelVars
  <2> QED
    BY <1>1, <2>1, <2>3, <2>4 DEF CounterNext
<1>2. CounterTypeOK /\ [CounterNext]_counterVars =>
        [EntryStable => EntryStable' /\ arrived' - (val' + InFlight') = arrived - (val + InFlight)]_counterVars
  BY <1>1
<1> QED
  BY <1>2, PacketTypes, PTL DEF CounterSpec, LossOnlyAtCreation

-----------------------------------------------------------------------------
LEMMA SysmonStep ==
  ASSUME [SysmonNext]_sysmonVars
  PROVE  [Next]_vars /\ [CounterNext]_counterVars
<1>1. CASE Start
  BY <1>1 DEF Start, Next
<1>2. ASSUME NEW c \in CPUs, Packet(c) PROVE UNCHANGED vars /\ CounterNext
  BY <1>2 DEF Packet, CounterNext
<1>3. CASE Poll
  BY <1>3 DEF Poll, CounterNext
<1>4. CASE Stop
  BY <1>4 DEF Stop, CounterNext
<1>5. CASE CloseLinks
  BY <1>5 DEF CloseLinks, Next, CloseAll, CounterNext
<1>6. CASE CloseObjects
  BY <1>6 DEF CloseObjects, Next, CloseAll, CounterNext
<1>7. CASE Leave
  BY <1>7 DEF Leave, Next, CounterNext
<1>8. CASE UNCHANGED sysmonVars
  BY <1>8 DEF sysmonVars
<1> QED
  BY <1>1, <1>2, <1>3, <1>4, <1>5, <1>6, <1>7, <1>8 DEF SysmonNext

\* The main function of sysmon runs the generated loader and the packet counter as
\* they are specified on their own: what is proved of either, from any start of
\* theirs, holds while the other runs beside it.
THEOREM SysmonImplements == SysmonSpec => Spec /\ CounterSpec
<1>1. SysmonInit => Init /\ CounterInit
  BY DEF SysmonInit
<1> QED
  BY <1>1, SysmonStep, PTL DEF SysmonSpec, Spec, CounterSpec

\* In sysmon as a whole, too, a packet is counted at most once and a [stats] line
\* is short only after objs.Close, whenever programs fail to attach, the process is
\* told to stop or is killed.
THEOREM SysmonCounts == SysmonSpec => [](NeverOver /\ StatsSound) /\ LossOnlyAtCreation
  BY SysmonImplements, CountedAtMostOnce, StatsLineSound, LossOnlyInTheRace, PTL
=============================================================================
