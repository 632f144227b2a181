------------------------------- MODULE Sysmon -------------------------------
(***************************************************************************)
(* The main function of example/sysmon as far as the loader and the packet *)
(* counter go: the generated Load, AttachAll and Close (Bindings) and      *)
(* OnPacket with the goroutine that polls its count (PacketCounter).       *)
(* Packets reach OnPacket from the moment AttachAll has attached it, while *)
(* later programs may still fail to attach; the goroutine starts after     *)
(* AttachAll, and the deferred calls take link, map and process away from  *)
(* under both.  The ring buffer reader is module EventRing.                *)
(***************************************************************************)
EXTENDS Bindings, PacketCounter

CONSTANT PacketMap    \* the map packetsByIface

ASSUME SysmonAssumption == PacketMap \in 1..NMaps

sysmonVars == <<vars, counterVars>>

SysmonInit == Init /\ CounterInit

-----------------------------------------------------------------------------
\* Load and AttachAll; main waits for a signal afterwards.
Start ==
  /\ \/ \E analyzed, known \in BOOLEAN, needs, running \in Versions :
          CheckKernel(analyzed, needs, known, running)
     \/ Load
     \/ AttachAll
  /\ UNCHANGED counterVars

\* OnPacket runs for a packet while its link is there, and finishes what it began.
Packet(c) ==
  /\ cpu[c].at = "idle" => \E p \in links : Section[p] = "xdp"
  /\ OnPacket(c)
  /\ UNCHANGED vars

\* The polling goroutine and its ticker, if there is an interface to poll for.
Poll ==
  /\ Status = "ok" /\ ifindex # 0
  /\ Tick \/ TakeTick \/ ReadPkts
  /\ UNCHANGED vars

-----------------------------------------------------------------------------
\* <-sig, and the first deferred call, ticker.Stop.
Stop ==
  /\ pc = "attached" /\ main = "run"
  /\ Unwind
  /\ UNCHANGED vars

\* The deferred loop over the links.
CloseLinks ==
  /\ main # "run"
  /\ \/ CloseLink /\ UNCHANGED counterVars
     \/ Detached /\ Unwind

\* objs.Close, which closes the map of the counter among the others.
CloseObjects ==
  \/ \E fails \in BOOLEAN :
       /\ CloseObject(fails)
       /\ IF ClosedAt(i) = <<"map", PacketMap>> THEN Unwind ELSE UNCHANGED counterVars
  \/ Closed /\ UNCHANGED counterVars

\* The end of main, log.Fatalf or a signal: links, objects and goroutines go.
Leave == Exit /\ Kill

SysmonNext ==
  \/ Start \/ (\E c \in CPUs : Packet(c)) \/ Poll
  \/ Stop \/ CloseLinks \/ CloseObjects \/ Leave

SysmonSpec == SysmonInit /\ [][SysmonNext]_sysmonVars
=============================================================================
