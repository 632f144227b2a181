--------------------------- MODULE EventRingProofs ---------------------------
(***************************************************************************)
(* Theorems about module EventRing, for any pids, any size of the ring and *)
(* any number of events and processes: no record is torn, and which [exit] *)
(* lines the reader shows.                                                 *)
(*                                                                         *)
(* The invariant has two layers, the second inductive given the first:     *)
(* who owns which memory of the ring (RingInv), and how the records follow *)
(* the lives of the processes (LivesInv).                                  *)
(***************************************************************************)
EXTENDS EventRing, Integers, TLAPS

Busy(p) == task[p].at # "user"

\* A program that is running has a reserved record of its own, which holds what it
\* filled in, and a process behind it.
OwnRecord ==
  \A p \in Pids : Busy(p) =>
    /\ task[p].kind \in Kinds
    /\ task[p].life <= MaxLives
    /\ task[p].pos \in pending
    /\ task[p].at = "submit" => LET r == mem[First(task[p].pos)] IN
         /\ r.kind = task[p].kind /\ r.pid = p /\ r.life = task[p].life
         /\ \A u \in Units(task[p].pos) : mem[u] = r
NotShared ==
  \A p, q \in Pids : Busy(p) /\ Busy(q) /\ task[p].pos = task[q].pos => p = q

\* The reserved records lie between the reader and the producer, at most one turn
\* of the ring apart; the history of a record starts when it is submitted.
Window ==
  /\ pending \subseteq cons..(prod - 1)
  /\ (prod - cons) * RecLen <= Size - 1
  /\ \A n \in pending : sent[n + 1] = Blank

\* Memory that was ever filled names a process.
Named == \A u \in 0..(Size - 1) : mem[u].kind # "none" => mem[u].pid \in Pids

RingInv == TypeOK /\ OwnRecord /\ NotShared /\ Window /\ Named /\ NoTornRecord

Submitted(m) == sent[m].kind # "none"
ExitOf(m, p, l) == sent[m].kind = "procExit" /\ sent[m].pid = p /\ sent[m].life = l

\* The records of a pid are in the order of its lives, an exit last; a life that is
\* over left an exit record, or none at all.
RecordsFollowLives ==
  \A m \in 1..Len(sent), p \in Pids : Submitted(m) /\ sent[m].pid = p =>
    /\ sent[m].life \in 1..task[p].life
    /\ sent[m].kind = "procExit" => sent[m].life < task[p].life
    /\ Busy(p) => m <= task[p].pos
InOrder ==
  \A m, n \in 1..Len(sent) : m < n /\ Submitted(m) /\ Submitted(n) /\ sent[m].pid = sent[n].pid =>
    /\ sent[m].life <= sent[n].life
    /\ sent[m].kind = "procExit" => sent[m].life < sent[n].life
EndsAccounted ==
  \A p \in Pids : \A l \in 1..(task[p].life - 1) :
    <<p, l>> \in unseen \/ \E m \in 1..Len(sent) : ExitOf(m, p, l)

\* The reader remembers a pid because of line m: an [exec] with no [exit] of the pid
\* below it, and of the lives since then each end is untold or its record unread.
Because(m, p) ==
  /\ shown[m].kind = "exec" /\ shown[m].pid = p
  /\ \A j \in (m + 1)..Len(shown) : ~(shown[j].kind = "procExit" /\ shown[j].pid = p)
  /\ \A l \in shown[m].life..(task[p].life - 1) :
       Untold(p, l) \/ \E n \in (cons + 1)..Len(sent) : ExitOf(n, p, l)
Remembers == \A p \in seenExec : \E m \in 1..Len(shown) : Because(m, p)

LivesInv == RecordsFollowLives /\ InOrder /\ EndsAccounted /\ Remembers /\ ExitsExplained

-----------------------------------------------------------------------------
\* Two positions of the ring share a unit when they are a whole number of turns apart.
LEMMA ModApart ==
  ASSUME NEW a \in Nat, NEW b \in Nat, a < b, b - a < Size
  PROVE  a % Size # b % Size
<1>0. Size \in Nat /\ Size > 0
  BY RingAssumption
<1> DEFINE qa == a \div Size
           qb == b \div Size
           ra == a % Size
           rb == b % Size
<1>1. /\ a = Size * qa + ra /\ ra \in 0..(Size - 1) /\ qa \in Int
      /\ b = Size * qb + rb /\ rb \in 0..(Size - 1) /\ qb \in Int
  BY <1>0
<1>2. ASSUME ra = rb PROVE FALSE
  <2> HIDE DEF qa, qb, ra, rb
  <2>1. b - a = (qb - qa) * Size
    BY <1>0, <1>1, <1>2
  <2>2. PICK k \in Int : k = qb - qa
    BY <1>1
  <2>3. b - a = k * Size
    BY <2>1, <2>2
  <2> QED
    BY <1>0, <2>2, <2>3
<1> QED
  BY <1>2

LEMMA Scaled ==
  ASSUME NEW m \in Nat, NEW n \in Nat, m <= n, NEW r \in Nat
  PROVE  m * r \in Nat /\ n * r \in Nat /\ m * r <= n * r
<1>1. PICK d \in Nat : n = m + d
  <2>1. n - m \in Nat /\ n = m + (n - m)
    OBVIOUS
  <2> QED
    BY <2>1
<1>2. n * r = m * r + d * r
  BY <1>1
<1> QED
  BY <1>1, <1>2

LEMMA UnitsType ==
  ASSUME NEW n \in Nat
  PROVE  /\ Units(n) \subseteq 0..(Size - 1) /\ First(n) \in Units(n) /\ First(n) \in 0..(Size - 1)
<1>0. Size \in Nat /\ Size > 0 /\ RecLen \in Nat /\ RecLen > 0
  BY RingAssumption
<1>1. ASSUME NEW k \in 0..(RecLen - 1) PROVE Unit(n, k) \in 0..(Size - 1)
  <2>1. n * RecLen \in Nat
    BY <1>0, Scaled
  <2>2. n * RecLen + k \in Nat
    BY <1>0, <2>1
  <2> QED
    BY <1>0, <2>2 DEF Unit
<1>2. 0 \in 0..(RecLen - 1)
  BY <1>0
<1> QED
  BY <1>1, <1>2 DEF Units, First

\* Records less than a turn of the ring apart are in different memory.
LEMMA UnitsApart ==
  ASSUME NEW a \in Nat, NEW b \in Nat, a < b, (b + 1 - a) * RecLen <= Size - 1
  PROVE  Units(a) \cap Units(b) = {}
<1>0. Size \in Nat /\ Size > 0 /\ RecLen \in Nat /\ RecLen > 0
  BY RingAssumption
<1> SUFFICES ASSUME NEW i \in 0..(RecLen - 1), NEW j \in 0..(RecLen - 1), Unit(a, i) = Unit(b, j)
    PROVE  FALSE
  BY DEF Units
<1>1. PICK d \in Nat : d >= 1 /\ b = a + d
  <2>1. b - a \in Nat /\ b - a >= 1 /\ b = a + (b - a)
    OBVIOUS
  <2> QED
    BY <2>1
<1>2. PICK x \in Nat, y \in Nat : x = a * RecLen /\ y = d * RecLen /\ y >= RecLen
  <2>1. 1 * RecLen <= d * RecLen /\ d * RecLen \in Nat /\ a * RecLen \in Nat
    BY <1>0, <1>1, Scaled
  <2>2. 1 * RecLen = RecLen
    BY <1>0
  <2> QED
    BY <2>1, <2>2
<1>3. b * RecLen = x + y
  BY <1>0, <1>1, <1>2
<1>4. (b + 1 - a) * RecLen = y + RecLen
  <2>1. b + 1 - a = d + 1
    BY <1>1
  <2>2. (d + 1) * RecLen = d * RecLen + RecLen
    BY <1>0, <1>1
  <2> QED
    BY <1>2, <2>1, <2>2
<1>5. x + i \in Nat /\ (x + y) + j \in Nat /\ x + i < (x + y) + j /\ ((x + y) + j) - (x + i) < Size
  BY <1>0, <1>2, <1>4
<1>6. (x + i) % Size = ((x + y) + j) % Size
  BY <1>2, <1>3 DEF Unit
<1>7. PICK v \in Nat, w \in Nat : v = x + i /\ w = (x + y) + j
  BY <1>5
<1> QED
  BY <1>5, <1>6, <1>7, ModApart

-----------------------------------------------------------------------------
\* What each step of a program does to its own task, and to no other.
Tasks == [life : 1..(MaxLives + 1), exec : BOOLEAN, at : {"user", "fill", "submit"},
          kind : Kinds \cup {"none"}, pos : Nat]

LEMMA TaskType ==
  ASSUME TypeOK, NEW p \in Pids
  PROVE  /\ task \in [Pids -> Tasks] /\ task[p] \in Tasks
         /\ task[p].life \in 1..(MaxLives + 1) /\ task[p].exec \in BOOLEAN
         /\ task[p].at \in {"user", "fill", "submit"}
         /\ task[p].kind \in Kinds \cup {"none"} /\ task[p].pos \in Nat
  BY DEF TypeOK, Tasks

LEMMA BlankType == Blank \in Events
  BY RingAssumption DEF Blank, Events

LEMMA ReserveEffect ==
  ASSUME TypeOK, NEW p \in Pids, NEW k \in Kinds, Reserve(p, k)
  PROVE  /\ task' \in [Pids -> Tasks]
         /\ task'[p].life = task[p].life /\ task'[p].at = "fill"
         /\ task'[p].kind = k /\ task'[p].pos = prod
         /\ \A q \in Pids \ {p} : task'[q] = task[q]
         /\ sent' \in Seq(Events) /\ Len(sent') = prod + 1
         /\ sent'[prod + 1] = Blank /\ \A m \in 1..prod : sent'[m] = sent[m]
<1>1. task' = [task EXCEPT ![p] = [task[p] EXCEPT !.at = "fill", !.kind = k, !.pos = prod]]
  BY DEF Reserve
<1>2. [task[p] EXCEPT !.at = "fill", !.kind = k, !.pos = prod] \in Tasks
  BY TaskType DEF Tasks, TypeOK
<1>3. sent \in Seq(Events) /\ Len(sent) = prod /\ sent' = Append(sent, Blank) /\ prod \in Nat
  BY DEF TypeOK, Reserve
<1>4. /\ sent' \in Seq(Events) /\ Len(sent') = prod + 1
      /\ sent'[prod + 1] = Blank /\ \A m \in 1..prod : sent'[m] = sent[m]
  <2> HIDE DEF Events, Blank
  <2> QED
    BY <1>3, BlankType
<1> QED
  BY <1>1, <1>2, <1>4, TaskType

\* The program returns: After.
LEMMA AfterType ==
  ASSUME TypeOK, NEW p \in Pids, NEW k, task[p].life <= MaxLives
  PROVE  /\ After(p, k) \in Tasks /\ After(p, k).at = "user"
         /\ After(p, k).life = IF k = "procExit" THEN task[p].life + 1 ELSE task[p].life
<1>1. MaxLives \in Nat /\ task[p].life \in 1..(MaxLives + 1)
  BY RingAssumption, TaskType
<1> QED
  BY <1>1 DEF After, Running, Tasks

LEMMA FillEffect ==
  ASSUME TypeOK, NEW p \in Pids, NEW root \in BOOLEAN, Fill(p, root), task[p].kind \in Kinds
  PROVE  LET n == task[p].pos IN
         /\ task' \in [Pids -> Tasks]
         /\ task'[p].life = task[p].life /\ task'[p].at = "submit"
         /\ task'[p].kind = task[p].kind /\ task'[p].pos = n
         /\ \A q \in Pids \ {p} : task'[q] = task[q]
         /\ mem' \in [0..(Size - 1) -> Events]
         /\ \A u \in 0..(Size - 1) \ Units(n) : mem'[u] = mem[u]
         /\ \A u \in Units(n) :
              /\ mem'[u].kind = task[p].kind /\ mem'[u].pid = p /\ mem'[u].life = task[p].life
              /\ mem'[u] = mem'[First(n)]
<1> DEFINE n == task[p].pos
<1>0. n \in Nat /\ task[p].life \in 0..(MaxLives + 1) /\ mem \in [0..(Size - 1) -> Events]
  BY TaskType, RingAssumption DEF TypeOK
<1>1. PICK ev : ev = [kind |-> task[p].kind, pid |-> p, root |-> root, life |-> task[p].life, pos |-> n]
  OBVIOUS
<1>2. ev \in Events /\ ev.kind = task[p].kind /\ ev.pid = p /\ ev.life = task[p].life
  BY <1>0, <1>1 DEF Events
<1>3. mem' = [u \in 0..(Size - 1) |-> IF u \in Units(n) THEN ev ELSE mem[u]]
  BY <1>1 DEF Fill
<1>4. task' = [task EXCEPT ![p] = [task[p] EXCEPT !.at = "submit"]]
  BY DEF Fill
<1>5. [task[p] EXCEPT !.at = "submit"] \in Tasks
  BY TaskType DEF Tasks
<1>6. /\ task' \in [Pids -> Tasks]
      /\ task'[p].life = task[p].life /\ task'[p].at = "submit"
      /\ task'[p].kind = task[p].kind /\ task'[p].pos = n
      /\ \A q \in Pids \ {p} : task'[q] = task[q]
  BY <1>4, <1>5, TaskType
<1>7. Units(n) \subseteq 0..(Size - 1) /\ First(n) \in Units(n)
  BY <1>0, UnitsType
<1> HIDE DEF n
<1>8. /\ mem' \in [0..(Size - 1) -> Events]
      /\ \A u \in 0..(Size - 1) \ Units(n) : mem'[u] = mem[u]
      /\ \A u \in Units(n) : mem'[u] = ev
  BY <1>0, <1>2, <1>3, <1>7
<1>9. \A u \in Units(n) : mem'[u] = ev /\ mem'[First(n)] = ev
  BY <1>7, <1>8
<1> QED
  BY <1>2, <1>6, <1>8, <1>9 DEF n

LEMMA SubmitEffect ==
  ASSUME TypeOK, NEW p \in Pids, Submit(p), task[p].pos \in pending,
         task[p].life <= MaxLives
  PROVE  LET n == task[p].pos IN
         /\ task' \in [Pids -> Tasks] /\ task'[p].at = "user"
         /\ task'[p].life = IF task[p].kind = "procExit" THEN task[p].life + 1 ELSE task[p].life
         /\ \A q \in Pids \ {p} : task'[q] = task[q]
         /\ sent' \in Seq(Events) /\ Len(sent') = prod
         /\ n + 1 \in 1..prod /\ mem[First(n)] \in Events
         /\ sent'[n + 1] = mem[First(n)] /\ \A m \in 1..prod : m # n + 1 => sent'[m] = sent[m]
<1> DEFINE n == task[p].pos
<1>1. task' = [task EXCEPT ![p] = After(p, task[p].kind)] /\ sent' = [sent EXCEPT ![n + 1] = mem[First(n)]]
  BY DEF Submit
<1>2. n + 1 \in 1..prod /\ sent \in Seq(Events) /\ Len(sent) = prod
  BY TaskType DEF TypeOK
<1>3. mem[First(n)] \in Events
  BY TaskType, UnitsType DEF TypeOK
<1>4. /\ sent' \in Seq(Events) /\ Len(sent') = prod
      /\ sent'[n + 1] = mem[First(n)] /\ \A m \in 1..prod : m # n + 1 => sent'[m] = sent[m]
  <2> HIDE DEF n, Events
  <2> QED
    BY <1>1, <1>2, <1>3
<1>5. /\ task' \in [Pids -> Tasks] /\ task'[p] = After(p, task[p].kind)
      /\ \A q \in Pids \ {p} : task'[q] = task[q]
  <2> HIDE DEF Tasks
  <2> QED
    BY <1>1, AfterType, TaskType
<1> QED
  BY <1>2, <1>3, <1>4, <1>5, AfterType

-----------------------------------------------------------------------------
\* First layer: who owns which record.
LEMMA RingInit == Init => RingInv
<1> SUFFICES ASSUME Init PROVE RingInv
  OBVIOUS
<1>1. TypeOK
  <2>1. <<>> \in Seq(Events)
    OBVIOUS
  <2>2. task \in [Pids -> Tasks]
    BY RingAssumption DEF Init, Running, Tasks
  <2>3. mem \in [0..(Size - 1) -> Events]
    BY BlankType DEF Init
  <2>4. sent \in Seq(Events) /\ Len(sent) = prod /\ shown \in Seq(Events)
    BY <2>1 DEF Init
  <2>5. prod \in Nat /\ cons \in 0..prod /\ pending \subseteq 0..(prod - 1)
    BY DEF Init
  <2>6. unseen \subseteq Pids \X (1..(MaxLives + 1)) /\ seenExec \subseteq Pids
    BY DEF Init
  <2>7. closed \in BOOLEAN /\ reader \in {"run", "done"} /\ main \in {"run", "signalled", "waiting", "exited"}
    BY DEF Init
  <2> HIDE DEF Events
  <2> QED
    BY <2>2, <2>3, <2>4, <2>5, <2>6, <2>7, Zenon DEF TypeOK, Tasks
<1>2. OwnRecord /\ NotShared
  BY DEF Init, OwnRecord, NotShared, Busy, Running
<1>3. Window /\ NoTornRecord
  <2>1. prod = 0 /\ cons = 0 /\ pending = {} /\ 0 * RecLen <= Size - 1
    BY RingAssumption DEF Init
  <2> QED
    BY <2>1 DEF Window, NoTornRecord
<1>4. Named
  BY DEF Init, Named, Blank
<1> QED
  BY <1>1, <1>2, <1>3, <1>4 DEF RingInv

\* Two records that have not been read are in different memory.
LEMMA OwnMemory ==
  ASSUME RingInv, NEW a \in cons..(prod - 1), NEW b \in cons..(prod - 1), a # b
  PROVE  Units(a) \cap Units(b) = {}
<1>1. /\ cons \in Nat /\ prod \in Nat /\ (prod - cons) * RecLen <= Size - 1
      /\ Size \in Nat /\ RecLen \in Nat
  BY RingAssumption DEF RingInv, TypeOK, Window
<1>2. ASSUME NEW x \in cons..(prod - 1), NEW y \in cons..(prod - 1), x < y
      PROVE  Units(x) \cap Units(y) = {}
  <2>1. x \in Nat /\ y \in Nat /\ y + 1 - x \in Nat /\ prod - cons \in Nat /\ y + 1 - x <= prod - cons
    BY <1>1, <1>2
  <2>2. PICK m \in Nat, n \in Nat : m = y + 1 - x /\ n = prod - cons /\ m <= n
    BY <2>1
  <2>3. m * RecLen <= n * RecLen /\ m * RecLen \in Nat /\ n * RecLen \in Nat
    BY <1>1, <2>2, Scaled
  <2>4. (y + 1 - x) * RecLen <= Size - 1
    BY <1>1, <2>2, <2>3
  <2> QED
    BY <1>2, <2>1, <2>4, UnitsApart
<1>3. a < b \/ b < a
  BY <1>1
<1> QED
  BY <1>2, <1>3

LEMMA Room == ASSUME TypeOK, ~Full PROVE (prod + 1 - cons) * RecLen <= Size - 1
<1>1. RecLen \in Nat /\ Size \in Nat /\ prod + 1 - cons \in Nat
  BY RingAssumption DEF TypeOK
<1>2. PICK d \in Nat : d = prod + 1 - cons
  BY <1>1
<1>3. d * RecLen \in Nat
  BY <1>1, Scaled
<1> QED
  BY <1>1, <1>2, <1>3 DEF Full

LEMMA RingReserve ==
  ASSUME RingInv, NEW p \in Pids, NEW k \in Kinds, Reserve(p, k),
         UNCHANGED <<readerVars, mainVars>>
  PROVE  RingInv'
<1>1. /\ pending' = pending \cup {prod} /\ prod' = prod + 1
      /\ (prod + 1 - cons) * RecLen <= Size - 1
      /\ UNCHANGED <<mem, unseen, cons, seenExec, shown, reader, closed, main>>
      /\ prod \in Nat /\ cons \in 0..prod /\ pending \subseteq 0..(prod - 1)
      /\ task[p].at = "user" /\ task[p].life <= MaxLives
  BY RingAssumption, Room DEF Reserve, Fires, Alive, readerVars, mainVars, RingInv, TypeOK
<1>2. /\ task' \in [Pids -> Tasks]
      /\ task'[p].life = task[p].life /\ task'[p].at = "fill"
      /\ task'[p].kind = k /\ task'[p].pos = prod
      /\ \A q \in Pids \ {p} : task'[q] = task[q]
  BY ReserveEffect DEF RingInv
<1>3. /\ sent' \in Seq(Events) /\ Len(sent') = prod + 1
      /\ sent'[prod + 1] = Blank /\ \A m \in 1..prod : sent'[m] = sent[m]
  BY ReserveEffect DEF RingInv
<1>4. TypeOK'
  BY <1>1, <1>2, <1>3 DEF RingInv, TypeOK, Tasks
<1>5. OwnRecord'
  <2> SUFFICES ASSUME NEW q \in Pids, Busy(q)'
      PROVE  /\ task'[q].kind \in Kinds
             /\ task'[q].life <= MaxLives
             /\ task'[q].pos \in pending'
             /\ task'[q].at = "submit" => LET r == mem'[First(task'[q].pos)] IN
                  /\ r.kind = task'[q].kind /\ r.pid = q /\ r.life = task'[q].life
                  /\ \A u \in Units(task'[q].pos) : mem'[u] = r
    BY DEF OwnRecord, First, Units, Unit
  <2>1. CASE q = p
    BY <1>1, <1>2, <2>1
  <2>2. CASE q # p
    BY <1>1, <1>2, <2>2 DEF RingInv, OwnRecord, Busy
  <2> QED
    BY <2>1, <2>2
<1>6. NotShared'
  <2>1. \A q \in Pids : Busy(q) => task[q].pos # prod
    BY <1>1 DEF RingInv, OwnRecord
  <2> QED
    BY <1>1, <1>2, <2>1 DEF RingInv, NotShared, Busy
<1>7. Window'
  BY <1>1, <1>3 DEF RingInv, Window, Blank
<1>8. Named'
  BY <1>1 DEF RingInv, Named
<1>9. NoTornRecord'
  <2> SUFFICES ASSUME NEW n \in cons..prod, n \notin pending', NEW u \in Units(n)
      PROVE  mem[u] = sent'[n + 1]
    BY <1>1 DEF NoTornRecord, Units, Unit
  <2>1. n \in cons..(prod - 1) /\ n \notin pending /\ n + 1 \in 1..prod
    BY <1>1
  <2> QED
    BY <1>3, <2>1 DEF RingInv, NoTornRecord
<1> QED
  BY <1>4, <1>5, <1>6, <1>7, <1>8, <1>9 DEF RingInv

\* A program that returns without a record, or a process that is killed.
LEMMA RingLeaves ==
  ASSUME RingInv, NEW p \in Pids, (\E k \in Kinds : ReserveFails(p, k)) \/ Killed(p),
         UNCHANGED <<readerVars, mainVars>>
  PROVE  RingInv'
<1>1. UNCHANGED <<mem, pending, prod, sent, cons, seenExec, shown, reader, closed, main>>
  BY DEF ReserveFails, Killed, readerVars, mainVars
<1>2. /\ task' \in [Pids -> Tasks] /\ task'[p].at = "user" /\ \A q \in Pids \ {p} : task'[q] = task[q]
      /\ unseen' \subseteq unseen \cup {<<p, task[p].life>>}
  <2>1. CASE \E k \in Kinds : ReserveFails(p, k)
    <3>1. PICK k \in Kinds : ReserveFails(p, k)
      BY <2>1
    <3>2. task' = [task EXCEPT ![p] = After(p, k)] /\ task[p].life <= MaxLives
      BY <3>1 DEF ReserveFails, Fires, Alive
    <3> QED
      BY <3>1, <3>2, AfterType, TaskType DEF RingInv, ReserveFails
  <2>2. CASE Killed(p)
    <3>1. task' = [task EXCEPT ![p] = After(p, "procExit")] /\ task[p].life <= MaxLives
      BY <2>2 DEF Killed, Alive, After
    <3> QED
      BY <2>2, <3>1, AfterType, TaskType DEF RingInv, Killed
  <2> QED
    BY <2>1, <2>2
<1>3. TypeOK'
  BY SMTT(30), <1>1, <1>2, TaskType DEF RingInv, TypeOK, Tasks
<1>4. OwnRecord' /\ NotShared'
  BY <1>1, <1>2 DEF RingInv, OwnRecord, NotShared, Busy, First, Units, Unit
<1>5. Window' /\ Named' /\ NoTornRecord'
  BY <1>1 DEF RingInv, Window, Named, NoTornRecord, Units, Unit, Blank
<1> QED
  BY <1>3, <1>4, <1>5 DEF RingInv

LEMMA RingFill ==
  ASSUME RingInv, NEW p \in Pids, NEW root \in BOOLEAN, Fill(p, root), UNCHANGED <<readerVars, mainVars>>
  PROVE  RingInv'
<1> DEFINE n0 == task[p].pos
<1>1. /\ UNCHANGED <<pending, prod, sent, unseen, cons, seenExec, shown, reader, closed, main>>
      /\ Busy(p) /\ task[p].kind \in Kinds /\ task[p].pos \in pending /\ task[p].pos \in Nat
      /\ task[p].life <= MaxLives
  BY TaskType DEF Fill, readerVars, mainVars, RingInv, OwnRecord, Busy
<1>2. /\ task' \in [Pids -> Tasks]
      /\ task'[p].life = task[p].life /\ task'[p].at = "submit"
      /\ task'[p].kind = task[p].kind /\ task'[p].pos = n0
      /\ \A q \in Pids \ {p} : task'[q] = task[q]
      /\ mem' \in [0..(Size - 1) -> Events]
      /\ \A u \in 0..(Size - 1) \ Units(n0) : mem'[u] = mem[u]
      /\ \A u \in Units(n0) :
           /\ mem'[u].kind = task[p].kind /\ mem'[u].pid = p /\ mem'[u].life = task[p].life
           /\ mem'[u] = mem'[First(n0)]
  BY <1>1, FillEffect DEF RingInv
<1>10. First(n0) \in Units(n0) /\ Units(n0) \subseteq 0..(Size - 1)
  BY <1>1, UnitsType
<1> HIDE DEF n0
<1>3. ASSUME NEW n \in cons..(prod - 1), n # n0
      PROVE  First(n) \in Units(n) /\ \A u \in Units(n) : mem'[u] = mem[u]
  <2>1. n0 \in cons..(prod - 1) /\ n \in Nat
    BY <1>1 DEF RingInv, TypeOK, Window, n0
  <2>2. Units(n) \cap Units(n0) = {}
    BY <1>3, <2>1, OwnMemory
  <2>3. Units(n) \subseteq 0..(Size - 1) /\ First(n) \in Units(n)
    BY <2>1, UnitsType
  <2> QED
    BY <1>2, <2>2, <2>3
<1>4. TypeOK'
  BY <1>1, <1>2 DEF RingInv, TypeOK, Tasks
<1>5. OwnRecord'
  <2> SUFFICES ASSUME NEW q \in Pids, Busy(q)'
      PROVE  /\ task'[q].kind \in Kinds
             /\ task'[q].life <= MaxLives
             /\ task'[q].pos \in pending'
             /\ task'[q].at = "submit" => LET r == mem'[First(task'[q].pos)] IN
                  /\ r.kind = task'[q].kind /\ r.pid = q /\ r.life = task'[q].life
                  /\ \A u \in Units(task'[q].pos) : mem'[u] = r
    BY DEF OwnRecord, First, Units, Unit
  <2>1. CASE q = p
    BY <1>1, <1>2, <1>10, <2>1 DEF n0
  <2>2. CASE q # p
    <3>1. task'[q] = task[q] /\ Busy(q) /\ task[q].pos # n0
      BY <1>1, <1>2, <2>2 DEF RingInv, NotShared, Busy, n0
    <3>2. task[q].pos \in cons..(prod - 1)
      BY <3>1 DEF RingInv, OwnRecord, Window
    <3>3. First(task[q].pos) \in Units(task[q].pos) /\ \A u \in Units(task[q].pos) : mem'[u] = mem[u]
      BY <1>3, <3>1, <3>2
    <3> QED
      BY <1>1, <3>1, <3>3 DEF RingInv, OwnRecord
  <2> QED
    BY <2>1, <2>2
<1>6. NotShared'
  BY <1>1, <1>2 DEF RingInv, NotShared, Busy, n0
<1>7. Window'
  BY <1>1 DEF RingInv, Window, Blank
<1>8. Named'
  BY <1>2 DEF RingInv, Named
<1>9. NoTornRecord'
  <2> SUFFICES ASSUME NEW n \in cons..(prod - 1), n \notin pending, NEW u \in Units(n)
      PROVE  mem'[u] = sent[n + 1]
    BY <1>1 DEF NoTornRecord, Units, Unit
  <2>1. n # n0
    BY <1>1 DEF n0
  <2> QED
    BY <1>3, <2>1 DEF RingInv, NoTornRecord
<1> QED
  BY <1>4, <1>5, <1>6, <1>7, <1>8, <1>9 DEF RingInv

LEMMA RingSubmit ==
  ASSUME RingInv, NEW p \in Pids, Submit(p), UNCHANGED <<readerVars, mainVars>>
  PROVE  RingInv'
<1>1. /\ pending' = pending \ {task[p].pos}
      /\ UNCHANGED <<mem, prod, unseen, cons, seenExec, shown, reader, closed, main>>
      /\ Busy(p) /\ task[p].pos \in pending
      /\ task[p].life <= MaxLives /\ task[p].pos \in Nat
      /\ \A u \in Units(task[p].pos) : mem[u] = mem[First(task[p].pos)]
  BY TaskType DEF Submit, readerVars, mainVars, RingInv, OwnRecord, Busy
<1>2. /\ task' \in [Pids -> Tasks] /\ task'[p].at = "user"
      /\ \A q \in Pids \ {p} : task'[q] = task[q]
  BY <1>1, SubmitEffect DEF RingInv
<1>3. /\ sent' \in Seq(Events) /\ Len(sent') = prod
      /\ sent'[task[p].pos + 1] = mem[First(task[p].pos)]
      /\ \A m \in 1..prod : m # task[p].pos + 1 => sent'[m] = sent[m]
  BY <1>1, SubmitEffect DEF RingInv
<1>4. TypeOK'
  BY <1>1, <1>2, <1>3 DEF RingInv, TypeOK, Tasks
<1>5. OwnRecord' /\ NotShared'
  BY <1>1, <1>2 DEF RingInv, OwnRecord, NotShared, Busy, First, Units, Unit
<1>6. pending \subseteq 0..(prod - 1) /\ prod \in Nat /\ cons \in Nat
  BY DEF RingInv, TypeOK
<1>7. Window'
  <2>1. \A n \in pending' : sent'[n + 1] = Blank
    BY <1>1, <1>3, <1>6 DEF RingInv, Window
  <2> QED
    BY <1>1, <2>1 DEF RingInv, Window, Blank
<1>8. Named'
  BY <1>1 DEF RingInv, Named
<1>9. NoTornRecord'
  <2> SUFFICES ASSUME NEW n \in cons..(prod - 1), n \notin pending'
      PROVE  \A u \in Units(n) : mem[u] = sent'[n + 1]
    BY <1>1 DEF NoTornRecord, Units, Unit
  <2>1. CASE n = task[p].pos
    BY <1>1, <1>3, <2>1
  <2>2. CASE n # task[p].pos
    <3>1. n + 1 \in 1..prod /\ n + 1 # task[p].pos + 1 /\ n \notin pending
      BY <1>1, <1>6, <2>2, TaskType DEF RingInv
    <3> QED
      BY <1>3, <3>1 DEF RingInv, NoTornRecord
  <2> QED
    BY <2>1, <2>2
<1> QED
  BY <1>4, <1>5, <1>7, <1>8, <1>9 DEF RingInv

\* What the reader is handed is what was submitted.
LEMMA ReadsSent ==
  ASSUME RingInv, Read
  PROVE  /\ mem[First(cons)] = sent[cons + 1] /\ cons + 1 \in 1..Len(sent)
         /\ mem[First(cons)] \in Events /\ cons \in Nat
         /\ mem[First(cons)].kind # "none" => mem[First(cons)].pid \in Pids
<1>1. cons \in Nat /\ prod \in Nat /\ cons \in cons..(prod - 1) /\ cons \notin pending
  BY DEF RingInv, TypeOK, Read
<1>2. First(cons) \in 0..(Size - 1) /\ First(cons) \in Units(cons)
  BY <1>1, UnitsType
<1> QED
  BY <1>1, <1>2 DEF RingInv, TypeOK, NoTornRecord, Named

LEMMA RingRead ==
  ASSUME RingInv, Read, UNCHANGED <<kernelVars, mainVars>>
  PROVE  RingInv'
<1>1. /\ UNCHANGED <<task, mem, pending, prod, sent, unseen, reader, closed, main>>
      /\ cons < prod /\ cons \notin pending /\ cons' = cons + 1
  BY DEF Read, kernelVars, mainVars
<1>2. seenExec' \subseteq Pids
  BY ReadsSent DEF Read, Handle, Forget, RingInv, TypeOK
<1>3. shown' \in Seq(Events)
  <2>1. shown \in Seq(Events)
    BY DEF RingInv, TypeOK
  <2>2. mem[First(cons)] \in Events
    BY ReadsSent
  <2>3. shown' = shown \/ shown' = Append(shown, mem[First(cons)])
    BY DEF Read, Handle
  <2> HIDE DEF Events
  <2> QED
    BY <2>1, <2>2, <2>3
<1>4. TypeOK'
  BY <1>1, <1>2, <1>3 DEF RingInv, TypeOK
<1>5. OwnRecord' /\ NotShared' /\ Named'
  BY <1>1 DEF RingInv, OwnRecord, NotShared, Named, Busy, First, Units, Unit
<1>6. Window' /\ NoTornRecord'
  <2>1. /\ cons \in Nat /\ prod \in Nat /\ Size \in Nat /\ RecLen \in Nat
        /\ (prod - cons) * RecLen <= Size - 1
    BY RingAssumption DEF RingInv, TypeOK, Window
  <2>2. pending' \subseteq cons'..(prod' - 1) /\ (prod' - cons') * RecLen <= Size - 1
    <3>1. pending' \subseteq cons'..(prod' - 1)
      BY <1>1, <2>1 DEF RingInv, Window
    <3>2. PICK m \in Nat, n \in Nat : m = prod' - cons' /\ n = prod - cons /\ m <= n
      BY <1>1, <2>1
    <3>3. m * RecLen <= n * RecLen /\ m * RecLen \in Nat /\ n * RecLen \in Nat
      BY <2>1, <3>2, Scaled
    <3> QED
      BY <2>1, <3>1, <3>2, <3>3
  <2>3. Window'
    BY <1>1, <2>2 DEF RingInv, Window, Blank
  <2>4. cons'..(prod' - 1) \subseteq cons..(prod - 1)
    BY <1>1, <2>1
  <2>5. NoTornRecord'
    BY <1>1, <2>4 DEF RingInv, NoTornRecord, First, Units, Unit
  <2> QED
    BY <2>3, <2>5
<1> QED
  BY <1>4, <1>5, <1>6 DEF RingInv

LEMMA RingRest ==
  ASSUME RingInv,
         \/ ReadClosed /\ UNCHANGED <<kernelVars, mainVars>>
         \/ Signal \/ CloseReader \/ Return
         \/ UNCHANGED vars
  PROVE  RingInv'
<1>1. /\ UNCHANGED <<task, mem, pending, prod, sent, unseen, cons, seenExec, shown>>
      /\ reader' \in {reader, "done"} /\ closed' \in {closed, TRUE}
      /\ main' \in {main, "signalled", "waiting", "exited"}
  BY DEF ReadClosed, Signal, CloseReader, Return, vars, kernelVars, readerVars, mainVars
<1>2. TypeOK'
  BY <1>1 DEF RingInv, TypeOK
<1> QED
  BY <1>1, <1>2 DEF RingInv, OwnRecord, NotShared, Window, Named, NoTornRecord, Busy, First, Units, Unit, Blank

LEMMA RingStep == RingInv /\ [Next]_vars => RingInv'
  BY RingReserve, RingLeaves, RingFill, RingSubmit, RingRead, RingRest
     DEF Next, Task, Finishes, Reader

\* The records and their owners, in every reachable state.
THEOREM RingInvariant == Spec => []RingInv
  BY RingInit, RingStep, PTL DEF Spec

\* Every variable of the event side of sysmon keeps its type.
THEOREM RingTyped == Spec => []TypeOK
<1>1. RingInv => TypeOK
  BY DEF RingInv
<1> QED
  BY RingInvariant, <1>1, PTL

\* The reader gets every record as its program submitted it, however often the
\* ring wraps and however many programs are filling records.
THEOREM RecordsNotTorn == Spec => []NoTornRecord
<1>1. RingInv => NoTornRecord
  BY DEF RingInv
<1> QED
  BY RingInvariant, <1>1, PTL

-----------------------------------------------------------------------------
\* Second layer: the records and the lives of the processes.
LEMMA HistoryType ==
  ASSUME TypeOK
  PROVE  /\ Len(sent) = prod /\ prod \in Nat /\ cons \in Nat /\ Len(shown) \in Nat
         /\ \A m \in 1..Len(sent) : sent[m].life \in Nat
         /\ \A m \in 1..Len(shown) : shown[m].life \in Nat
         /\ \A p \in Pids : task[p].life \in Nat /\ task[p].life >= 1 /\ task[p].pos \in Nat
<1>1. \A e \in Events : e.life \in Nat
  BY RingAssumption DEF Events
<1>2. sent \in Seq(Events) /\ shown \in Seq(Events)
  BY DEF TypeOK
<1>3. /\ \A m \in 1..Len(sent) : sent[m].life \in Nat
      /\ \A m \in 1..Len(shown) : shown[m].life \in Nat
      /\ Len(shown) \in Nat
  <2> HIDE DEF Events
  <2> QED
    BY <1>1, <1>2
<1>4. \A p \in Pids : task[p].life \in Nat /\ task[p].life >= 1 /\ task[p].pos \in Nat
  BY RingAssumption, TaskType
<1> QED
  BY <1>3, <1>4 DEF TypeOK

LEMMA LivesInit == Init => LivesInv
<1> SUFFICES ASSUME Init PROVE LivesInv
  OBVIOUS
<1>1. sent = <<>> /\ shown = <<>> /\ seenExec = {} /\ \A p \in Pids : task[p].life = 1
  BY DEF Init, Running
<1> QED
  BY <1>1 DEF LivesInv, RecordsFollowLives, InOrder, EndsAccounted, Remembers, ExitsExplained

\* A step that submits nothing: the records stay, and a life that ends is unseen.
Quiet(p) ==
  /\ \A q \in Pids \ {p} : task'[q] = task[q]
  /\ \/ task'[p].life = task[p].life
     \/ task'[p].life = task[p].life + 1 /\ <<p, task[p].life>> \in unseen'
  /\ task'[p].at # "user" => \/ task'[p].pos = prod
                             \/ task[p].at # "user" /\ task'[p].pos = task[p].pos
  /\ unseen \subseteq unseen'
  /\ UNCHANGED <<cons, seenExec, shown>>
  /\ \A m \in 1..Len(sent) : m \in 1..Len(sent') /\ sent'[m] = sent[m]
  /\ \A m \in 1..Len(sent') : sent'[m].kind # "none" => m \in 1..Len(sent)

LEMMA QuietSteps ==
  ASSUME RingInv, NEW p \in Pids,
         Task(p) \/ ((\E root \in BOOLEAN : Fill(p, root)) /\ UNCHANGED <<readerVars, mainVars>>)
  PROVE  Quiet(p)
<1>0. Len(sent) = prod /\ prod \in Nat /\ UNCHANGED <<cons, seenExec, shown>>
  BY DEF RingInv, TypeOK, Task, readerVars
<1>1. ASSUME NEW k \in Kinds, Reserve(p, k) PROVE Quiet(p)
  <2>1. /\ task'[p].life = task[p].life /\ task'[p].at = "fill" /\ task'[p].pos = prod
        /\ \A q \in Pids \ {p} : task'[q] = task[q]
        /\ Len(sent') = prod + 1 /\ sent'[prod + 1] = Blank /\ \A m \in 1..prod : sent'[m] = sent[m]
    BY <1>1, ReserveEffect DEF RingInv
  <2>2. UNCHANGED unseen
    BY <1>1 DEF Reserve
  <2> QED
    BY <1>0, <2>1, <2>2 DEF Quiet, Blank
<1>2. ASSUME NEW k \in Kinds, ReserveFails(p, k) PROVE Quiet(p)
  <2>1. /\ task' = [task EXCEPT ![p] = After(p, k)] /\ task[p].life <= MaxLives
        /\ unseen' = IF k = "procExit" THEN unseen \cup {<<p, task[p].life>>} ELSE unseen
        /\ UNCHANGED sent
    BY <1>2 DEF ReserveFails, Fires, Alive
  <2>2. /\ task'[p] = After(p, k) /\ task'[p].at = "user"
        /\ task'[p].life = IF k = "procExit" THEN task[p].life + 1 ELSE task[p].life
        /\ \A q \in Pids \ {p} : task'[q] = task[q]
    BY <2>1, AfterType, TaskType DEF RingInv
  <2> QED
    BY <1>0, <2>1, <2>2 DEF Quiet
<1>3. ASSUME Killed(p) PROVE Quiet(p)
  <2>1. /\ task' = [task EXCEPT ![p] = After(p, "procExit")] /\ task[p].life <= MaxLives
        /\ unseen' = unseen \cup {<<p, task[p].life>>}
        /\ UNCHANGED sent
    BY <1>3 DEF Killed, Alive, After
  <2>2. /\ task'[p].at = "user" /\ task'[p].life = task[p].life + 1
        /\ \A q \in Pids \ {p} : task'[q] = task[q]
    BY <2>1, AfterType, TaskType DEF RingInv
  <2> QED
    BY <1>0, <2>1, <2>2 DEF Quiet
<1>4. ASSUME NEW root \in BOOLEAN, Fill(p, root) PROVE Quiet(p)
  <2>1. task[p].kind \in Kinds /\ task[p].at = "fill"
    BY <1>4 DEF RingInv, OwnRecord, Busy, Fill
  <2>2. /\ task'[p].life = task[p].life /\ task'[p].pos = task[p].pos
        /\ \A q \in Pids \ {p} : task'[q] = task[q]
    BY <1>4, <2>1, FillEffect DEF RingInv
  <2>3. UNCHANGED <<sent, unseen>>
    BY <1>4 DEF Fill
  <2> QED
    BY <1>0, <2>1, <2>2, <2>3 DEF Quiet
<1> QED
  BY <1>1, <1>2, <1>3, <1>4 DEF Task

LEMMA LivesQuiet ==
  ASSUME RingInv, RingInv', LivesInv, NEW p \in Pids, Quiet(p)
  PROVE  LivesInv'
<1>0. /\ Len(sent) = prod /\ prod \in Nat /\ cons \in Nat
      /\ \A m \in 1..Len(sent) : sent[m].life \in Nat
      /\ \A m \in 1..Len(shown) : shown[m].life \in Nat
      /\ \A q \in Pids : task[q].life \in Nat /\ task[q].life >= 1 /\ task[q].pos \in Nat
  BY HistoryType DEF RingInv
<1>1. RecordsFollowLives'
  <2> SUFFICES ASSUME NEW m \in 1..Len(sent'), NEW q \in Pids, sent'[m].kind # "none", sent'[m].pid = q
      PROVE  /\ sent'[m].life \in 1..task'[q].life
             /\ sent'[m].kind = "procExit" => sent'[m].life < task'[q].life
             /\ task'[q].at # "user" => m <= task'[q].pos
    BY DEF RecordsFollowLives, Submitted, Busy
  <2>1. m \in 1..Len(sent) /\ sent'[m] = sent[m]
    BY DEF Quiet
  <2>2. /\ sent[m].life \in 1..task[q].life
        /\ sent[m].kind = "procExit" => sent[m].life < task[q].life
        /\ task[q].at # "user" => m <= task[q].pos
    BY <2>1 DEF LivesInv, RecordsFollowLives, Submitted, Busy
  <2>3. CASE q # p
    BY <2>1, <2>2, <2>3 DEF Quiet
  <2>4. CASE q = p
    BY <1>0, <2>1, <2>2, <2>4 DEF Quiet
  <2> QED
    BY <2>3, <2>4
<1>2. InOrder'
  BY DEF LivesInv, InOrder, Submitted, Quiet
<1>3. EndsAccounted'
  <2> SUFFICES ASSUME NEW q \in Pids, NEW l \in 1..(task'[q].life - 1)
      PROVE  <<q, l>> \in unseen' \/ \E m \in 1..Len(sent') : ExitOf(m, q, l)'
    BY DEF EndsAccounted, ExitOf
  <2>1. CASE l \in 1..(task[q].life - 1)
    <3>1. <<q, l>> \in unseen \/ \E m \in 1..Len(sent) : ExitOf(m, q, l)
      BY <2>1 DEF LivesInv, EndsAccounted
    <3> QED
      BY <3>1 DEF Quiet, ExitOf
  <2>2. CASE l \notin 1..(task[q].life - 1)
    <3>1. q = p /\ l = task[p].life /\ <<p, task[p].life>> \in unseen'
      BY <1>0, <2>2 DEF Quiet
    <3> QED
      BY <3>1
  <2> QED
    BY <2>1, <2>2
<1>6. ASSUME NEW q, NEW l, Untold(q, l) PROVE Untold(q, l)'
  BY <1>6 DEF Untold, Quiet
<1>4. Remembers'
  <2> SUFFICES ASSUME NEW q \in seenExec PROVE \E m \in 1..Len(shown) : Because(m, q)'
    BY DEF LivesInv, Remembers, Quiet
  <2>1. PICK m \in 1..Len(shown) : Because(m, q)
    BY DEF LivesInv, Remembers
  <2>2. q \in Pids
    BY DEF RingInv, TypeOK
  <2>3. ASSUME NEW l \in shown[m].life..(task'[q].life - 1)
        PROVE  Untold(q, l)' \/ \E n \in (cons + 1)..Len(sent') : ExitOf(n, q, l)'
    <3>1. CASE l \in shown[m].life..(task[q].life - 1)
      <4>1. Untold(q, l) \/ \E n \in (cons + 1)..Len(sent) : ExitOf(n, q, l)
        BY <2>1, <3>1 DEF Because
      <4>2. ASSUME NEW n \in (cons + 1)..Len(sent), ExitOf(n, q, l)
            PROVE  n \in (cons + 1)..Len(sent') /\ ExitOf(n, q, l)'
        <5>1. n \in 1..Len(sent)
          BY <1>0
        <5> QED
          BY <1>0, <4>2, <5>1 DEF Quiet, ExitOf
      <4> QED
        BY <1>6, <4>1, <4>2
    <3>2. CASE l \notin shown[m].life..(task[q].life - 1)
      <4>1. q = p /\ l = task[p].life /\ <<p, task[p].life>> \in unseen'
        BY SMTT(30), <1>0, <2>1, <2>2, <3>2 DEF Quiet
      <4> QED
        BY <4>1 DEF Untold
    <3> QED
      BY <3>1, <3>2
  <2> QED
    BY <2>1, <2>3 DEF Because, Quiet, ExitOf, Untold
<1>5. ExitsExplained'
  <2>1. UNCHANGED shown
    BY DEF Quiet
  <2> QED
    BY <1>6, <2>1 DEF LivesInv, ExitsExplained, Untold
<1> QED
  BY <1>1, <1>2, <1>3, <1>4, <1>5 DEF LivesInv

\* A submitted record is the last one of its pid so far, and of the pid's life.
LEMMA LivesSubmit ==
  ASSUME RingInv, RingInv', LivesInv, NEW p \in Pids, Submit(p), UNCHANGED <<readerVars, mainVars>>
  PROVE  LivesInv'
<1>0. /\ Len(sent) = prod /\ prod \in Nat /\ cons \in Nat
      /\ \A m \in 1..Len(sent) : sent[m].life \in Nat
      /\ \A m \in 1..Len(shown) : shown[m].life \in Nat
      /\ \A q \in Pids : task[q].life \in Nat /\ task[q].life >= 1 /\ task[q].pos \in Nat
  BY HistoryType DEF RingInv
<1>1. PICK n : n = task[p].pos + 1
  OBVIOUS
<1>2. /\ task[p].at # "user" /\ task[p].kind \in Kinds /\ task[p].kind # "none"
      /\ task[p].life <= MaxLives
      /\ task[p].pos \in pending
      /\ mem[First(task[p].pos)].kind = task[p].kind /\ mem[First(task[p].pos)].pid = p
      /\ mem[First(task[p].pos)].life = task[p].life
      /\ UNCHANGED <<cons, seenExec, shown, unseen>>
  BY RingAssumption DEF RingInv, OwnRecord, Busy, Submit, readerVars
<1>3. /\ n \in (cons + 1)..prod /\ n \in 1..prod
      /\ sent[n] = Blank
  BY <1>0, <1>1, <1>2 DEF RingInv, Window
<1>4. /\ task'[p].at = "user"
      /\ task'[p].life = IF task[p].kind = "procExit" THEN task[p].life + 1 ELSE task[p].life
      /\ \A q \in Pids \ {p} : task'[q] = task[q]
      /\ Len(sent') = prod
      /\ \A m \in 1..prod : m # n => sent'[m] = sent[m]
  BY <1>1, <1>2, SubmitEffect DEF RingInv
<1>5. sent'[n].kind = task[p].kind /\ sent'[n].pid = p /\ sent'[n].life = task[p].life
  BY <1>1, <1>2, SubmitEffect DEF RingInv
<1>6. ASSUME NEW m \in 1..prod, m # n, sent'[m].kind # "none", sent'[m].pid = p
      PROVE  /\ sent'[m] = sent[m] /\ m < n /\ sent[m].life \in 1..task[p].life
             /\ sent[m].kind = "procExit" => sent[m].life < task[p].life
  <2>1. sent'[m] = sent[m]
    BY <1>4, <1>6
  <2>2. /\ sent[m].life \in 1..task[p].life /\ m <= task[p].pos
        /\ sent[m].kind = "procExit" => sent[m].life < task[p].life
    BY <1>0, <1>2, <1>6, <2>1 DEF LivesInv, RecordsFollowLives, Submitted, Busy
  <2> QED
    BY <1>0, <1>1, <2>1, <2>2
<1>7. RecordsFollowLives'
  <2> SUFFICES ASSUME NEW m \in 1..prod, NEW q \in Pids, sent'[m].kind # "none", sent'[m].pid = q
      PROVE  /\ sent'[m].life \in 1..task'[q].life
             /\ sent'[m].kind = "procExit" => sent'[m].life < task'[q].life
             /\ task'[q].at # "user" => m <= task'[q].pos
    BY <1>4 DEF RecordsFollowLives, Submitted, Busy
  <2>1. CASE m = n
    BY <1>0, <1>4, <1>5, <2>1
  <2>2. CASE m # n /\ q = p
    BY <1>0, <1>4, <1>6, <2>2
  <2>3. CASE m # n /\ q # p
    BY <1>0, <1>4, <2>3 DEF LivesInv, RecordsFollowLives, Submitted, Busy
  <2> QED
    BY <2>1, <2>2, <2>3
<1>8. InOrder'
  <2> SUFFICES ASSUME NEW i \in 1..prod, NEW j \in 1..prod, i < j, sent'[i].kind # "none",
                      sent'[j].kind # "none", sent'[i].pid = sent'[j].pid
      PROVE  /\ sent'[i].life <= sent'[j].life
             /\ sent'[i].kind = "procExit" => sent'[i].life < sent'[j].life
    BY <1>4 DEF InOrder, Submitted
  <2>1. CASE j = n
    BY <1>0, <1>5, <1>6, <2>1
  <2>2. CASE i = n
    BY <1>0, <1>3, <1>5, <1>6, <2>2
  <2>3. CASE i # n /\ j # n
    BY <1>0, <1>4, <2>3 DEF LivesInv, InOrder, Submitted
  <2> QED
    BY <2>1, <2>2, <2>3
<1>9. ASSUME NEW q, NEW l, NEW m \in 1..prod, ExitOf(m, q, l) PROVE ExitOf(m, q, l)'
  BY <1>3, <1>4, <1>9 DEF ExitOf, Blank
<1>10. ASSUME NEW q \in Pids, NEW l \in Nat, l <= task'[q].life - 1, ~(l <= task[q].life - 1)
       PROVE  ExitOf(n, q, l)'
  BY <1>0, <1>4, <1>5, <1>10 DEF ExitOf
<1>11. EndsAccounted'
  <2> SUFFICES ASSUME NEW q \in Pids, NEW l \in 1..(task'[q].life - 1)
      PROVE  <<q, l>> \in unseen' \/ \E m \in 1..Len(sent') : ExitOf(m, q, l)'
    BY DEF EndsAccounted, ExitOf
  <2>1. CASE l <= task[q].life - 1
    <3>1. <<q, l>> \in unseen \/ \E m \in 1..prod : ExitOf(m, q, l)
      BY <1>0, <2>1 DEF LivesInv, EndsAccounted
    <3> QED
      BY <1>2, <1>4, <1>9, <3>1
  <2>2. CASE ~(l <= task[q].life - 1)
    <3>1. l \in Nat /\ l <= task'[q].life - 1
      BY <1>0, <1>4
    <3> QED
      BY <1>3, <1>4, <1>10, <2>2, <3>1
  <2> QED
    BY <2>1, <2>2
<1>14. ASSUME NEW q, NEW l, Untold(q, l) PROVE Untold(q, l)'
  <2>1. ASSUME NEW m \in 1..prod, sent[m].kind = "procExit" PROVE sent'[m] = sent[m]
    BY <1>3, <1>4, <2>1 DEF Blank
  <2> QED
    BY <1>0, <1>2, <1>4, <1>14, <2>1 DEF Untold
<1>12. Remembers'
  <2> SUFFICES ASSUME NEW q \in seenExec PROVE \E m \in 1..Len(shown) : Because(m, q)'
    BY <1>2 DEF LivesInv, Remembers
  <2>1. PICK m \in 1..Len(shown) : Because(m, q)
    BY DEF LivesInv, Remembers
  <2>2. q \in Pids
    BY DEF RingInv, TypeOK
  <2>3. ASSUME NEW l \in shown[m].life..(task'[q].life - 1)
        PROVE  Untold(q, l)' \/ \E i \in (cons + 1)..prod : ExitOf(i, q, l)'
    <3>1. CASE l <= task[q].life - 1
      <4>1. Untold(q, l) \/ \E i \in (cons + 1)..prod : ExitOf(i, q, l)
        BY <1>0, <2>1, <2>2, <3>1 DEF Because
      <4>2. (cons + 1)..prod \subseteq 1..prod
        BY <1>0
      <4> QED
        BY <1>9, <1>14, <4>1, <4>2
    <3>2. CASE ~(l <= task[q].life - 1)
      <4>1. l \in Nat /\ l <= task'[q].life - 1
        BY <1>0, <1>4, <2>2
      <4> QED
        BY <1>3, <1>10, <2>2, <3>2, <4>1
    <3> QED
      BY <3>1, <3>2
  <2> QED
    BY <1>2, <1>4, <2>1, <2>3 DEF Because, ExitOf, Untold
<1>13. ExitsExplained'
  BY SMTT(30), <1>2, <1>14 DEF LivesInv, ExitsExplained, Untold
<1> QED
  BY <1>7, <1>8, <1>11, <1>12, <1>13 DEF LivesInv

\* The reader meets the exit of a pid it remembers: the lives since the [exec] line
\* are untold, for the records of their exits would lie before this one, and are read.
LEMMA ExitRead ==
  ASSUME RingInv, LivesInv, Read, NEW p \in Pids, NEW l \in Nat, ExitOf(cons + 1, p, l),
         NEW m \in 1..Len(shown), Because(m, p)
  PROVE  \A i \in shown[m].life..(l - 1) : Untold(p, i)
<1>0. /\ Len(sent) = prod /\ prod \in Nat /\ cons \in Nat
      /\ \A j \in 1..Len(sent) : sent[j].life \in Nat
      /\ shown[m].life \in Nat /\ task[p].life \in Nat
  BY HistoryType DEF RingInv
<1>1. cons + 1 \in 1..Len(sent)
  BY ReadsSent
<1>2. l < task[p].life
  BY <1>1 DEF LivesInv, RecordsFollowLives, Submitted, ExitOf
<1> SUFFICES ASSUME NEW i \in shown[m].life..(l - 1) PROVE Untold(p, i)
  OBVIOUS
<1>3. i \in shown[m].life..(task[p].life - 1)
  BY <1>0, <1>2
<1>4. ASSUME NEW n \in (cons + 1)..Len(sent), ExitOf(n, p, i) PROVE FALSE
  <2>1. cons + 1 < n /\ n \in 1..Len(sent)
    BY <1>0, <1>4 DEF ExitOf
  <2>2. sent[cons + 1].life <= sent[n].life
    BY <1>1, <1>4, <2>1 DEF LivesInv, InOrder, Submitted, ExitOf
  <2> QED
    BY <1>0, <1>4, <2>2 DEF ExitOf
<1> QED
  BY <1>3, <1>4 DEF Because

\* An [exec] that is shown: the lives from then on left no record or an unread one.
LEMMA ExecRead ==
  ASSUME RingInv, LivesInv, Read, NEW p \in Pids, sent[cons + 1].kind = "exec", sent[cons + 1].pid = p,
         NEW l \in sent[cons + 1].life..(task[p].life - 1)
  PROVE  <<p, l>> \in unseen \/ \E n \in (cons + 2)..Len(sent) : ExitOf(n, p, l)
<1>0. /\ Len(sent) = prod /\ prod \in Nat /\ cons \in Nat
      /\ \A j \in 1..Len(sent) : sent[j].life \in Nat
      /\ task[p].life \in Nat
  BY HistoryType DEF RingInv
<1>1. cons + 1 \in 1..Len(sent)
  BY ReadsSent
<1>2. sent[cons + 1].life \in 1..task[p].life
  BY <1>1 DEF LivesInv, RecordsFollowLives, Submitted
<1>3. l \in 1..(task[p].life - 1)
  BY <1>0, <1>2
<1>4. ASSUME NEW n \in 1..Len(sent), ExitOf(n, p, l) PROVE n \in (cons + 2)..Len(sent)
  <2>1. n # cons + 1
    BY <1>4 DEF ExitOf
  <2>2. ~(n < cons + 1)
    <3>1. ASSUME n < cons + 1 PROVE sent[n].life < sent[cons + 1].life
      BY <1>1, <1>4, <3>1 DEF LivesInv, InOrder, Submitted, ExitOf
    <3> QED
      BY <1>0, <1>1, <1>2, <1>4, <3>1 DEF ExitOf
  <2> QED
    BY <1>0, <2>1, <2>2
<1> QED
  BY <1>3, <1>4 DEF LivesInv, EndsAccounted

LEMMA LivesRead ==
  ASSUME RingInv, RingInv', LivesInv, Read, UNCHANGED <<kernelVars, mainVars>>
  PROVE  LivesInv'
<1>0. /\ Len(sent) = prod /\ prod \in Nat /\ cons \in Nat /\ Len(shown) \in Nat
      /\ \A m \in 1..Len(sent) : sent[m].life \in Nat
      /\ \A m \in 1..Len(shown) : shown[m].life \in Nat
  BY HistoryType DEF RingInv
<1>1. PICK ev : ev = sent[cons + 1]
  OBVIOUS
<1>2. /\ Handle(ev) /\ cons' = cons + 1 /\ UNCHANGED <<task, sent, unseen>>
      /\ cons + 1 \in 1..Len(sent) /\ ev \in Events
      /\ ev.kind # "none" => ev.pid \in Pids
  BY <1>1, ReadsSent DEF Read, kernelVars
<1>3. RecordsFollowLives' /\ InOrder' /\ EndsAccounted'
  BY <1>2 DEF LivesInv, RecordsFollowLives, InOrder, EndsAccounted, Submitted, Busy, ExitOf
\* A pid that stays remembered stays so for the same reason.
<1>8. ASSUME NEW q, NEW l, Untold(q, l) PROVE Untold(q, l)'
  BY <1>2, <1>8 DEF Untold
<1>4. ASSUME NEW q \in seenExec, ~(ev.kind = "procExit" /\ ev.pid = q) \/ (Skips(ev) /\ ~All /\ ev.root)
      PROVE  \E m \in 1..Len(shown') : Because(m, q)'
  <2>1. PICK m \in 1..Len(shown) : Because(m, q)
    BY DEF LivesInv, Remembers
  <2>2. /\ m \in 1..Len(shown') /\ shown'[m] = shown[m]
        /\ \A j \in (m + 1)..Len(shown') : ~(shown'[j].kind = "procExit" /\ shown'[j].pid = q)
    <3>1. shown \in Seq(Events) /\ (shown' = shown \/ shown' = Append(shown, ev))
      BY <1>2 DEF Handle, RingInv, TypeOK
    <3>5. shown' = Append(shown, ev) => ~(ev.kind = "procExit" /\ ev.pid = q)
      BY <1>2, <1>4, <3>1 DEF Handle, Skips
    <3>2. \A j \in (m + 1)..Len(shown) : ~(shown[j].kind = "procExit" /\ shown[j].pid = q)
      BY <2>1 DEF Because
    <3>3. CASE shown' = shown
      BY <3>2, <3>3
    <3>4. CASE shown' = Append(shown, ev)
      <4>1. /\ Len(shown') = Len(shown) + 1 /\ shown'[Len(shown) + 1] = ev
            /\ \A j \in 1..Len(shown) : shown'[j] = shown[j]
        <5> HIDE DEF Events
        <5> QED
          BY <1>2, <3>1, <3>4
      <4> QED
        BY SMTT(30), <1>0, <3>2, <3>4, <3>5, <4>1
    <3> QED
      BY <3>1, <3>3, <3>4
  <2>3. ASSUME NEW l \in shown[m].life..(task[q].life - 1)
        PROVE  Untold(q, l) \/ \E n \in (cons + 2)..Len(sent) : ExitOf(n, q, l)
    <3>1. Untold(q, l) \/ \E n \in (cons + 1)..Len(sent) : ExitOf(n, q, l)
      BY <2>1 DEF Because
    <3>2. ExitOf(cons + 1, q, l) => Untold(q, l)
      BY <1>1, <1>2, <1>4 DEF ExitOf, Untold
    <3> QED
      BY <1>0, <3>1, <3>2
  <2>4. (cons + 1) + 1 = cons + 2
    BY <1>0
  <2>5. shown'[m].kind = "exec" /\ shown'[m].pid = q
    BY <2>1, <2>2 DEF Because
  <2>6. ASSUME NEW l \in shown'[m].life..(task'[q].life - 1)
        PROVE  Untold(q, l)' \/ \E n \in (cons' + 1)..Len(sent') : ExitOf(n, q, l)'
    BY <1>2, <1>8, <2>2, <2>3, <2>4 DEF ExitOf
  <2>7. Because(m, q)'
    BY <2>2, <2>5, <2>6 DEF Because, ExitOf, Untold
  <2> QED
    BY <2>2, <2>7
<1>5. CASE Skips(ev)
  <2>1. UNCHANGED <<seenExec, shown>>
    BY <1>2, <1>5 DEF Handle
  <2>2. ~(ev.kind = "procExit" /\ ev.pid \in seenExec) \/ (~All /\ ev.root)
    BY <1>5 DEF Skips
  <2>3. Remembers'
    <3>1. ASSUME NEW q \in seenExec PROVE \E m \in 1..Len(shown') : Because(m, q)'
      BY <1>4, <1>5, <2>2
    <3> QED
      BY <2>1, <3>1 DEF Remembers
  <2>4. ExitsExplained'
    BY <1>8, <2>1 DEF LivesInv, ExitsExplained, Untold
  <2> QED
    BY <1>3, <2>3, <2>4 DEF LivesInv
<1>6. CASE ~Skips(ev)
  <2>1. /\ seenExec' = IF ev.kind = "exec" THEN seenExec \cup {ev.pid}
                        ELSE IF ev.kind = "procExit" THEN seenExec \ {ev.pid} ELSE seenExec
        /\ shown' = Append(shown, ev)
    BY <1>2, <1>6 DEF Handle, Forget
  <2>2. /\ Len(shown') = Len(shown) + 1 /\ shown'[Len(shown) + 1] = ev
        /\ \A j \in 1..Len(shown) : shown'[j] = shown[j]
    <3>1. shown \in Seq(Events)
      BY DEF RingInv, TypeOK
    <3> HIDE DEF Events
    <3> QED
      BY <1>2, <2>1, <3>1
  <2>3. Remembers'
    <3>2. ASSUME NEW q \in seenExec' PROVE \E m \in 1..Len(shown') : Because(m, q)'
      <4>1. CASE q \in seenExec /\ ~(ev.kind = "procExit" /\ ev.pid = q)
        BY <1>4, <4>1
      <4>2. CASE q \notin seenExec
        <5>1. ev.kind = "exec" /\ ev.pid = q /\ q \in Pids
          BY <1>2, <2>1, <3>2, <4>2
        <5>2. ASSUME NEW l \in ev.life..(task[q].life - 1)
              PROVE  <<q, l>> \in unseen \/ \E n \in (cons + 2)..Len(sent) : ExitOf(n, q, l)
          BY <1>1, <5>1, ExecRead
        <5>3. (cons + 1) + 1 = cons + 2 /\ Len(shown) + 1 \in 1..Len(shown')
          BY <1>0, <2>2
        <5>4. \A j \in ((Len(shown) + 1) + 1)..Len(shown') : FALSE
          BY <1>0, <2>2
        <5>5. PICK m : m = Len(shown) + 1
          OBVIOUS
        <5>6. Because(m, q)'
          BY <1>2, <2>2, <5>1, <5>2, <5>3, <5>4, <5>5 DEF Because, ExitOf, Untold
        <5> QED
          BY <5>3, <5>5, <5>6
      <4> QED
        BY <2>1, <3>2, <4>1, <4>2
    <3> QED
      BY <3>2 DEF Remembers
  <2>4. ExitsExplained'
    <3> SUFFICES ASSUME ~AllExits, NEW n \in 1..Len(shown'), shown'[n].kind = "procExit"
        PROVE  \E m \in 1..(n - 1) :
                 /\ shown'[m].kind = "exec" /\ shown'[m].pid = shown'[n].pid
                 /\ \A j \in (m + 1)..(n - 1) : ~(shown'[j].kind = "procExit" /\ shown'[j].pid = shown'[n].pid)
                 /\ \A l \in shown'[m].life..(shown'[n].life - 1) : Untold(shown'[n].pid, l)
      BY SMTT(30), <1>2 DEF ExitsExplained, Untold
    <3>1. CASE n # Len(shown) + 1
      <4>1. n \in 1..Len(shown) /\ \A j \in 1..n : shown'[j] = shown[j]
        BY SMTT(30), <1>0, <2>2, <3>1
      <4>2. PICK m \in 1..(n - 1) :
              /\ shown[m].kind = "exec" /\ shown[m].pid = shown[n].pid
              /\ \A j \in (m + 1)..(n - 1) : ~(shown[j].kind = "procExit" /\ shown[j].pid = shown[n].pid)
              /\ \A l \in shown[m].life..(shown[n].life - 1) : Untold(shown[n].pid, l)
        BY SMTT(30), <4>1 DEF LivesInv, ExitsExplained
      <4>3. m \in 1..n /\ n \in 1..n /\ (m + 1)..(n - 1) \subseteq 1..n
        BY <1>0, <4>1, <4>2
      <4>4. shown'[m] = shown[m] /\ shown'[n] = shown[n] /\ \A j \in (m + 1)..(n - 1) : shown'[j] = shown[j]
        BY <4>1, <4>3
      <4> QED
        BY <1>2, <4>2, <4>4
    <3>2. CASE n = Len(shown) + 1
      <4>1. shown'[n] = ev /\ ev.kind = "procExit" /\ ev.pid \in seenExec /\ ev.pid \in Pids
        BY <1>2, <1>6, <2>2, <3>2 DEF Skips
      <4>2. PICK m \in 1..Len(shown) : Because(m, ev.pid)
        BY <4>1 DEF LivesInv, Remembers
      <4>3. ExitOf(cons + 1, ev.pid, ev.life) /\ ev.life \in Nat
        BY <1>0, <1>1, <1>2, <4>1 DEF ExitOf
      <4>4. \A l \in shown[m].life..(ev.life - 1) : Untold(ev.pid, l)
        BY <4>1, <4>2, <4>3, ExitRead
      <4>5. n - 1 = Len(shown) /\ shown'[m] = shown[m]
        BY <1>0, <2>2, <3>2
      <4>6. \A j \in (m + 1)..Len(shown) : shown'[j] = shown[j]
        BY <1>0, <2>2
      <4>7. shown'[m].kind = "exec" /\ shown'[m].pid = shown'[n].pid
        BY <4>1, <4>2, <4>5 DEF Because
      <4>8. \A j \in (m + 1)..(n - 1) : ~(shown'[j].kind = "procExit" /\ shown'[j].pid = shown'[n].pid)
        BY <4>1, <4>2, <4>5, <4>6 DEF Because
      <4>9. \A l \in shown'[m].life..(shown'[n].life - 1) : Untold(shown'[n].pid, l)
        BY <1>2, <4>1, <4>4, <4>5
      <4>10. m \in 1..(n - 1)
        BY <4>5
      <4> QED
        BY <4>7, <4>8, <4>9, <4>10
    <3> QED
      BY <3>1, <3>2
  <2> QED
    BY <1>3, <2>3, <2>4 DEF LivesInv
<1> QED
  BY <1>5, <1>6

LEMMA LivesRest ==
  ASSUME RingInv, LivesInv,
         \/ ReadClosed /\ UNCHANGED <<kernelVars, mainVars>>
         \/ Signal \/ CloseReader \/ Return
         \/ UNCHANGED vars
  PROVE  LivesInv'
<1>1. UNCHANGED <<task, sent, unseen, cons, seenExec, shown>>
  BY DEF ReadClosed, Signal, CloseReader, Return, vars, kernelVars, readerVars, mainVars
<1> QED
  BY <1>1 DEF LivesInv, RecordsFollowLives, InOrder, EndsAccounted, Remembers, Because,
     ExitsExplained, Submitted, Busy, ExitOf, Untold

LEMMA LivesStep == RingInv /\ RingInv' /\ LivesInv /\ [Next]_vars => LivesInv'
<1> SUFFICES ASSUME RingInv, RingInv', LivesInv, [Next]_vars PROVE LivesInv'
  OBVIOUS
<1>1. ASSUME NEW p \in Pids, Task(p) \/ Finishes(p) PROVE LivesInv'
  BY <1>1, QuietSteps, LivesQuiet, LivesSubmit DEF Finishes
<1>2. CASE Reader
  BY <1>2, LivesRead, LivesRest DEF Reader
<1> QED
  BY <1>1, <1>2, LivesRest DEF Next

\* Without -all-exits, an [exit] line is one of a process that was shown to exec, or
\* of a later process of its pid, the ends of all those in between being untold: no
\* record, or one the uid test drops.
THEOREM ExitLines == Spec => []ExitsExplained
<1>1. LivesInv => ExitsExplained
  BY DEF LivesInv
<1> QED
  BY LivesInit, RingInvariant, LivesStep, <1>1, PTL DEF Spec
=============================================================================
