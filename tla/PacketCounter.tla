---------------------------- MODULE PacketCounter ----------------------------
(***************************************************************************)
(* The packet counter of example/sysmon: the XDP program OnPacket running  *)
(* on several CPUs over one entry of a hash map, the goroutine that polls  *)
(* that entry, and the deferred calls that close the map under it.         *)
(* CountPackets of example/helloworld is the same program.                 *)
(*                                                                         *)
(* The hash map and the ticker are external: an update puts a new element  *)
(* in place of the old one, and a pointer to the old one stays usable but  *)
(* no longer leads to the entry; a ticker that is stopped keeps the tick   *)
(* its channel already holds.  Module Sysmon says when the XDP program is  *)
(* attached and when the goroutine runs.                                   *)
(***************************************************************************)
EXTENDS Integers, FiniteSets

CONSTANTS
  CPUs,
  MaxPackets    \* bound: packets that arrive

ASSUME CounterAssumption ==
  IsFiniteSet(CPUs) /\ MaxPackets \in Nat

VARIABLES
  elem,     \* the element the entry is in; 0 when there is none yet
  val,      \* its count
  cpu,      \* where each CPU is in OnPacket, and what its lookup found
  arrived,  \* history: packets OnPacket was run for
  main,     \* how far the main goroutine's deferred calls have got
  tick,     \* ticker.C holds a tick
  poll,     \* the polling goroutine
  report,   \* the count it last printed
  truth     \* history: the count at the time of that lookup

kernelVars == <<elem, val, cpu, arrived>>
userVars == <<main, tick, poll, report, truth>>
counterVars == <<elem, val, cpu, arrived, main, tick, poll, report, truth>>

Idle == [at |-> "idle", elem |-> 0, val |-> 0]

CounterInit ==
  /\ elem = 0 /\ val = 0
  /\ cpu = [c \in CPUs |-> Idle]
  /\ arrived = 0
  /\ main = "run"
  /\ tick = FALSE
  /\ poll = "read"              \* the goroutine polls once before its loop
  /\ report = 0 /\ truth = 0

-----------------------------------------------------------------------------
\* A packet: the lookup.
Lookup(c) ==
  /\ cpu[c].at = "idle"
  /\ main \in {"run", "stopped"}            \* the XDP link is still there
  /\ arrived < MaxPackets
  /\ arrived' = arrived + 1
  /\ cpu' = [cpu EXCEPT ![c] = [at   |-> IF elem = 0 THEN "miss" ELSE "hit",
                                elem |-> elem, val |-> val]]
  /\ UNCHANGED <<elem, val>>

\* Mutant of Update: no return after it, the packet is counted again.
UpdateFallsThrough(c) ==
  /\ cpu[c].at = "miss"
  /\ elem' = elem + 1 /\ val' = 2
  /\ cpu' = [cpu EXCEPT ![c] = Idle]
  /\ UNCHANGED arrived

\* !ok: packetsByIface.Update(&idx, &one), BPF_ANY: whatever is there is replaced.
Update(c) ==
  /\ cpu[c].at = "miss"
  /\ elem' = elem + 1 /\ val' = 1
  /\ cpu' = [cpu EXCEPT ![c] = Idle]
  /\ UNCHANGED arrived

\* Mutant of AtomicAdd: `*count = *count + 1`, with the value read at the lookup.
PlainAdd(c) ==
  /\ cpu[c].at = "hit"
  /\ val' = IF cpu[c].elem = elem THEN cpu[c].val + 1 ELSE val
  /\ cpu' = [cpu EXCEPT ![c] = Idle]
  /\ UNCHANGED <<elem, arrived>>

\* ok: bpf.AtomicAdd64(count, 1), through the pointer the lookup returned.
AtomicAdd(c) ==
  /\ cpu[c].at = "hit"
  /\ val' = IF cpu[c].elem = elem THEN val + 1 ELSE val
  /\ cpu' = [cpu EXCEPT ![c] = Idle]
  /\ UNCHANGED <<elem, arrived>>

OnPacket(c) == (Lookup(c) \/ Update(c) \/ AtomicAdd(c)) /\ UNCHANGED userVars

-----------------------------------------------------------------------------
\* time.Ticker: a tick that finds the channel full is dropped.
Tick ==
  /\ main = "run" /\ ~tick
  /\ tick' = TRUE
  /\ UNCHANGED <<kernelVars, main, poll, report, truth>>

\* for range ticker.C
TakeTick ==
  /\ poll = "wait" /\ tick /\ main # "exited"
  /\ tick' = FALSE
  /\ poll' = "read"
  /\ UNCHANGED <<kernelVars, main, report, truth>>

\* Mutant of ReadPkts: the count before the last packet.
ReadPktsOffByOne ==
  /\ poll = "read" /\ main # "exited"
  /\ report' = val - 1
  /\ truth' = val
  /\ poll' = "wait"
  /\ UNCHANGED <<kernelVars, main, tick>>

\* readPkts and the line it is printed in: Lookup's error is dropped, and leaves
\* the zero that count was declared with.
ReadPkts ==
  /\ poll = "read" /\ main # "exited"
  /\ report' = IF elem = 0 \/ main = "closed" THEN 0 ELSE val
  /\ truth' = val
  /\ poll' = "wait"
  /\ UNCHANGED <<kernelVars, main, tick>>

\* Mutant of Deferred: objs.Close deferred after the links, so that it runs first.
DeferredSwapped == [run |-> "stopped", stopped |-> "closed", closed |-> "detached", detached |-> "exited"]

\* <-sig, and the deferred calls, last first: ticker.Stop, the links, objs.Close;
\* then the process ends and its goroutines with it.
Deferred == [run |-> "stopped", stopped |-> "detached", detached |-> "closed", closed |-> "exited"]
Unwind ==
  /\ main \in DOMAIN Deferred
  /\ main' = Deferred[main]
  /\ UNCHANGED <<kernelVars, tick, poll, report, truth>>

\* log.Fatalf, or a signal that kills the process.
Kill ==
  /\ main # "exited"
  /\ main' = "exited"
  /\ UNCHANGED <<kernelVars, tick, poll, report, truth>>

CounterNext == (\E c \in CPUs : OnPacket(c)) \/ Tick \/ TakeTick \/ ReadPkts \/ Unwind \/ Kill

CounterSpec == CounterInit /\ [][CounterNext]_counterVars

-----------------------------------------------------------------------------
\* Type invariant.
CounterTypeOK ==
  /\ elem \in Nat /\ val \in Nat /\ arrived \in Nat
  /\ cpu \in [CPUs -> [at : {"idle", "miss", "hit"}, elem : Nat, val : Nat]]
  /\ main \in DOMAIN Deferred \cup {"exited"}
  /\ tick \in BOOLEAN
  /\ poll \in {"wait", "read"}
  /\ report \in Nat /\ truth \in Nat

InFlight == Cardinality({c \in CPUs : cpu[c].at # "idle"})

\* No packet is counted twice: the count and the packets still in OnPacket never
\* add up to more than arrived.
NeverOver == val + InFlight <= arrived

\* Packets are lost only while the entry is being created.  Once it exists, no
\* CPU is about to create it and every pointer leads to it, each packet that
\* arrives is counted, in whatever order the CPUs run.
EntryStable ==
  /\ elem # 0
  /\ \A c \in CPUs : cpu[c].at # "miss" /\ (cpu[c].at = "hit" => cpu[c].elem = elem)
LossOnlyAtCreation ==
  [][EntryStable => EntryStable' /\ arrived' - (val' + InFlight') = arrived - (val + InFlight)]_counterVars

\* A [stats] line never shows more packets than arrived.  It shows less than the
\* map holds only after objs.Close, the last of the deferred calls, when the
\* goroutine nobody waits for finds the map closed under it and prints 0.
StatsSound ==
  /\ report <= arrived
  /\ report < truth => main \in {"closed", "exited"}
=============================================================================
