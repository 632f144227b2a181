------------------------------ MODULE EventRing ------------------------------
(***************************************************************************)
(* The event side of example/sysmon: the five BPF programs that publish to *)
(* one ring buffer (bpf/src/sysmon.go), the goroutine that reads it, and   *)
(* the shutdown of main (main.go).                                         *)
(*                                                                         *)
(* The ring buffer is external: Reserve takes the memory behind the last   *)
(* record and fails when the reader has not made room for it, Submit       *)
(* publishes the record, and records are handed over in the order of       *)
(* Reserve.  Memory is counted in units; a record, with the header the     *)
(* ring puts before it, takes RecLen of them, and since RecLen need not    *)
(* divide Size (432 bytes in 65536), a record may lie across the end of    *)
(* the ring, and the records of the next turn lie over parts of two others.*)
(*                                                                         *)
(* An event is its kind, its pid and whether its uid is 0.  `life` tells   *)
(* the processes that had the same pid apart, and `pos` the records; the   *)
(* program sees neither.  Ret, Path and Args, which only some of the       *)
(* programs write, are left out.                                           *)
(***************************************************************************)
EXTENDS Naturals, Sequences

CONSTANTS
  Kinds,      \* the events that happen, of the kinds sysmon.go numbers
  Pids,       \* one task per pid at a time
  Size,       \* units of memory the ring buffer has
  RecLen,     \* units that a record takes
  MaxEvents,  \* bound: records reserved
  MaxLives,   \* bound: processes that have the same pid one after another
  Signals,    \* bound: the pids whose processes may die of a signal, without exit_group
  Roots,      \* bound: the pids whose processes have uid 0 at some events
  All, ShowOpen, AllExits  \* BOOLEAN: the flags of sysmon

ASSUME RingAssumption ==
  /\ {Size, RecLen, MaxLives} \subseteq Nat \ {0} /\ MaxEvents \in Nat
  /\ Signals \subseteq Pids /\ Roots \subseteq Pids
  /\ {All, ShowOpen, AllExits} \subseteq BOOLEAN
  /\ Kinds \subseteq {"exec", "open", "tcp", "execFailed", "procExit"}

VARIABLES
  task,      \* per pid: its life, whether execve was its last call, the program it is in
  mem,       \* per unit of the ring's memory, the event last written over it
  pending,   \* positions reserved and not submitted
  prod,      \* records reserved so far
  cons,      \* records read so far
  sent,      \* history: what each submitted record held
  seenExec,  \* reader: the pids it has seen exec
  unseen,    \* history: the processes whose end left no record
  shown,     \* history: what the reader printed
  reader,    \* "run", or "done": close(done)
  closed,    \* rd.Close has been called
  main       \* the main goroutine

kernelVars == <<task, mem, pending, prod, sent, unseen>>
readerVars == <<cons, seenExec, shown, reader>>
mainVars == <<closed, main>>
vars == <<task, mem, pending, prod, sent, unseen, cons, seenExec, shown, reader, closed, main>>

\* The memory of record n, whose first unit holds the header that fillHeader wrote.
Unit(n, k) == (n * RecLen + k) % Size
Units(n) == {Unit(n, k) : k \in 0..(RecLen - 1)}
First(n) == Unit(n, 0)

Blank == [kind |-> "none", pid |-> "none", root |-> FALSE, life |-> 0, pos |-> 0]

Running(life, exec) == [life |-> life, exec |-> exec, at |-> "user", kind |-> "none", pos |-> 0]

Init ==
  /\ task = [p \in Pids |-> Running(1, FALSE)]
  /\ mem = [u \in 0..(Size - 1) |-> Blank]
  /\ pending = {}
  /\ prod = 0 /\ cons = 0
  /\ sent = <<>>
  /\ unseen = {}
  /\ seenExec = {}
  /\ shown = <<>>
  /\ reader = "run"
  /\ closed = FALSE
  /\ main = "run"

-----------------------------------------------------------------------------
\* A process has the pid and is not inside a program already.
Alive(p) == task[p].at = "user" /\ task[p].life <= MaxLives

\* The kernel calls the program of an event; main has not closed the links.
\* OnExecExit only goes on for an execve that failed.
Fires(p, k) ==
  /\ Alive(p)
  /\ main # "exited"
  /\ k = "execFailed" => task[p].exec

\* What is left of the process when the program returns: exit_group ends it, and
\* the pid is free for another one.
After(p, k) ==
  IF k = "procExit" THEN Running(task[p].life + 1, FALSE) ELSE Running(task[p].life, k = "exec")

\* Another record would leave no unit free between the producer and the reader.
Full == (prod + 1 - cons) * RecLen > Size - 1

\* Mutant of Reserve: a ring that takes one record too many.
ReserveOneTooMany(p, k) ==
  /\ Fires(p, k)
  /\ prod < MaxEvents
  /\ (prod - cons) * RecLen <= Size - 1
  /\ task' = [task EXCEPT ![p].at = "fill", ![p].kind = k, ![p].pos = prod]
  /\ pending' = pending \cup {prod}
  /\ prod' = prod + 1
  /\ sent' = Append(sent, Blank)
  /\ UNCHANGED <<mem, unseen>>

\* e, ok := events.Reserve()
Reserve(p, k) ==
  /\ Fires(p, k)
  /\ prod < MaxEvents
  /\ ~Full
  /\ task' = [task EXCEPT ![p].at = "fill", ![p].kind = k, ![p].pos = prod]
  /\ pending' = pending \cup {prod}
  /\ prod' = prod + 1
  /\ sent' = Append(sent, Blank)
  /\ UNCHANGED <<mem, unseen>>

\* !ok: the program returns and the event is lost.
ReserveFails(p, k) ==
  /\ Fires(p, k)
  /\ Full
  /\ task' = [task EXCEPT ![p] = After(p, k)]
  /\ unseen' = IF k = "procExit" THEN unseen \cup {<<p, task[p].life>>} ELSE unseen
  /\ UNCHANGED <<mem, pending, prod, sent>>

\* fillHeader, and the fields of the kind; GetCurrentUid is asked at every event,
\* and a process may change its uid between two of them.
Fill(p, root) ==
  LET n == task[p].pos
      ev == [kind |-> task[p].kind, pid |-> p, root |-> root, life |-> task[p].life, pos |-> n]
  IN  /\ task[p].at = "fill"
      /\ root => p \in Roots
      /\ mem' = [u \in 0..(Size - 1) |-> IF u \in Units(n) THEN ev ELSE mem[u]]
      /\ task' = [task EXCEPT ![p].at = "submit"]
      /\ UNCHANGED <<pending, prod, sent, unseen>>

\* Mutant of Submit: a program that returns without it on one of its paths.
SubmitForgotten(p) ==
  LET k == task[p].kind
      n == task[p].pos
  IN  /\ task[p].at = "submit"
      /\ pending' = IF k = "execFailed" THEN pending ELSE pending \ {n}
      /\ sent' = [sent EXCEPT ![n + 1] = mem[First(n)]]
      /\ task' = [task EXCEPT ![p] = After(p, k)]
      /\ UNCHANGED <<mem, prod, unseen>>

\* events.Submit(e)
Submit(p) ==
  LET n == task[p].pos
  IN  /\ task[p].at = "submit"
      /\ pending' = pending \ {n}
      /\ sent' = [sent EXCEPT ![n + 1] = mem[First(n)]]
      /\ task' = [task EXCEPT ![p] = After(p, task[p].kind)]
      /\ UNCHANGED <<mem, prod, unseen>>

\* A death that calls no program.
Killed(p) ==
  /\ p \in Signals
  /\ Alive(p) /\ main # "exited"
  /\ task' = [task EXCEPT ![p] = Running(@.life + 1, FALSE)]
  /\ unseen' = unseen \cup {<<p, task[p].life>>}
  /\ UNCHANGED <<mem, pending, prod, sent>>

Finishes(p) == ((\E root \in BOOLEAN : Fill(p, root)) \/ Submit(p)) /\ UNCHANGED <<readerVars, mainVars>>
Task(p) ==
  /\ (\E k \in Kinds : Reserve(p, k) \/ ReserveFails(p, k)) \/ Killed(p)
  /\ UNCHANGED <<readerVars, mainVars>>

-----------------------------------------------------------------------------
\* Mutant of Forget: a shown exit does not clear the pid.
ForgetNothing(pid) == seenExec

Forget(pid) == seenExec \ {pid}

\* The reader's flags, and its switch over the kinds.
Skips(ev) ==
  \/ ~All /\ ev.root
  \/ ~ShowOpen /\ ev.kind = "open"
  \/ ev.kind = "procExit" /\ ev.pid \notin seenExec /\ ~AllExits

Handle(ev) ==
  IF Skips(ev)
  THEN UNCHANGED <<seenExec, shown>>
  ELSE /\ seenExec' = IF ev.kind = "exec" THEN seenExec \cup {ev.pid}
                      ELSE IF ev.kind = "procExit" THEN Forget(ev.pid) ELSE seenExec
       /\ shown' = Append(shown, ev)

\* Mutant of Read: the producer's position is not looked at.
ReadPastEnd ==
  /\ reader = "run" /\ ~closed
  /\ cons < MaxEvents /\ cons \notin pending
  /\ cons' = cons + 1
  /\ Handle(mem[First(cons)])
  /\ UNCHANGED reader

\* rd.Read: the next record, once it is submitted.
Read ==
  /\ reader = "run" /\ ~closed
  /\ cons < prod /\ cons \notin pending
  /\ cons' = cons + 1
  /\ Handle(mem[First(cons)])
  /\ UNCHANGED reader

\* Mutant of ReadClosed: ErrClosed treated like any other error, `continue`.
ReadClosedContinues ==
  /\ reader = "run" /\ closed
  /\ UNCHANGED <<cons, seenExec, shown, reader>>

\* rd.Read returns ErrClosed: the goroutine ends, closing done.
ReadClosed ==
  /\ reader = "run" /\ closed
  /\ reader' = "done"
  /\ UNCHANGED <<cons, seenExec, shown>>

Reader == (Read \/ ReadClosed) /\ UNCHANGED <<kernelVars, mainVars>>

\* The signal, then rd.Close.
Signal ==
  /\ main = "run"
  /\ main' = "signalled"
  /\ UNCHANGED <<kernelVars, readerVars, closed>>

CloseReader ==
  /\ main = "signalled"
  /\ closed' = TRUE
  /\ main' = "waiting"
  /\ UNCHANGED <<kernelVars, readerVars>>

\* <-done, the deferred calls, and the end of the process.
Return ==
  /\ main = "waiting" /\ reader = "done"
  /\ main' = "exited"
  /\ UNCHANGED <<kernelVars, readerVars, closed>>

Next == (\E p \in Pids : Task(p) \/ Finishes(p)) \/ Reader \/ Signal \/ CloseReader \/ Return

\* A BPF program that was called runs to its end, Go runs every goroutine that
\* is not blocked; nothing says that an event or a signal ever comes.
Fairness ==
  /\ \A p \in Pids : WF_vars(Finishes(p))
  /\ WF_vars(Reader)
  /\ WF_vars(CloseReader \/ Return)

Spec == Init /\ [][Next]_vars /\ Fairness

-----------------------------------------------------------------------------
\* Type invariant.
Events == [kind : Kinds \cup {"none"}, pid : Pids \cup {"none"}, root : BOOLEAN,
           life : 0..(MaxLives + 1), pos : Nat]
TypeOK ==
  /\ task \in [Pids -> [life : 1..(MaxLives + 1), exec : BOOLEAN, at : {"user", "fill", "submit"},
                        kind : Kinds \cup {"none"}, pos : Nat]]
  /\ mem \in [0..(Size - 1) -> Events]
  /\ prod \in Nat /\ cons \in 0..prod
  /\ pending \subseteq 0..(prod - 1)
  /\ sent \in Seq(Events) /\ Len(sent) = prod
  /\ unseen \subseteq Pids \X (1..(MaxLives + 1))
  /\ seenExec \subseteq Pids
  /\ shown \in Seq(Events)
  /\ reader \in {"run", "done"}
  /\ closed \in BOOLEAN
  /\ main \in {"run", "signalled", "waiting", "exited"}

\* A record the reader has not read yet still holds what its program submitted, in
\* every unit: no program fills the memory of another's record, however far the
\* ring wraps and wherever its end falls.
NoTornRecord ==
  \A n \in cons..(prod - 1) : n \notin pending => \A u \in Units(n) : mem[u] = sent[n + 1]

\* The reader cannot know that life l of pid p ended: there is no record of it, or
\* the reader drops the record because of its uid before it looks at the kind.
Untold(p, l) ==
  \/ <<p, l>> \in unseen
  \/ ~All /\ \E m \in 1..Len(sent) :
       sent[m].kind = "procExit" /\ sent[m].pid = p /\ sent[m].life = l /\ sent[m].root

\* Without -all-exits, "[exit] events from shell forks that never called exec" are
\* hidden (main.go:107), as far as the reader knows: an [exit] line follows an
\* [exec] line of the same pid, with no other [exit] line of that pid between
\* them, and of every process that had the pid in between the end is untold: a
\* signal, the ring full, or an exit with uid 0 while -all is off.
ExitsExplained ==
  ~AllExits =>
    \A n \in 1..Len(shown) : shown[n].kind = "procExit" =>
      \E m \in 1..(n - 1) :
        /\ shown[m].kind = "exec" /\ shown[m].pid = shown[n].pid
        /\ \A j \in (m + 1)..(n - 1) : ~(shown[j].kind = "procExit" /\ shown[j].pid = shown[n].pid)
        /\ \A l \in shown[m].life..(shown[n].life - 1) : Untold(shown[n].pid, l)

\* Every reserved record is read, unless main shuts the reader down: no program
\* holds up the records behind its own for good.
EventuallyRead ==
  \A n \in 0..(MaxEvents - 1) : (prod > n) ~> (cons > n \/ closed)

\* After a signal main gets past <-done and the process ends, whatever the
\* programs are doing and whatever is still in the ring.
ShutdownEnds == (main = "signalled") ~> (main = "exited")
=============================================================================
