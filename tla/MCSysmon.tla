------------------------------ MODULE MCSysmon ------------------------------
(* One program of each kind, two maps, and OnPacket on several CPUs. *)
EXTENDS Sysmon

MCSection == <<"tracepoint", "xdp", "other", "kprobe">>
MCGoOrder == <<2, 4, 3, 1>>
=============================================================================
