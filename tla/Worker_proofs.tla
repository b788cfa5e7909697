--------------------------- MODULE Worker_proofs ---------------------------
(***************************************************************************)
(* What a Worker does with a run, for any number of commands, events,      *)
(* retries and mishaps and any size of the queue: the Host hears the       *)
(* events of the run in order and without a silent gap, and the run leaves *)
(* the manager only after its terminal status was heard or given up.       *)
(*                                                                         *)
(* The argument follows an event through the transport: queued, in the     *)
(* batch of a flush loop, heard, or excused.  It holds while the sequence  *)
(* numbers of the code are those of the events (Fresh), that is until the  *)
(* cleanup of the run starts them anew; and the cleanup only happens after *)
(* the end was heard, or given up with its POST.                           *)
(***************************************************************************)
EXTENDS Worker, FiniteSetTheorems, FunctionTheorems, SequenceTheorems, WellFoundedInduction, TLAPS

Loop == [batch : Seq(Event) \ {<<>>}, tries : 0..MaxRetries]
Transport == [n : Nat, seq : Nat, open : BOOLEAN, queue : Seq(Event), loops : SUBSET Loop,
              ends : SUBSET Nat, lost : SUBSET Nat, dropped : SUBSET Nat]

Rising(q) == \A i, j \in DOMAIN q : i < j => q[i].n < q[j].n

(* An event the transport t has numbered; only a terminal status triggers  *)
(* something when it settles.                                              *)
Known(t, e) ==
    /\ e.n \in 1..t.n /\ e.seq \in 1..t.n
    /\ e.end <=> e.n \in t.ends
    /\ e.after # "nothing" => e.end

TransportOK(t) ==
    /\ t \in Transport
    /\ t.seq <= t.n
    /\ t.ends \cup t.lost \cup t.dropped \subseteq 1..t.n /\ IsFiniteSet(t.ends)
    /\ Len(t.queue) <= QueueMax + Cardinality(t.ends)
    /\ Rising(t.queue)
    /\ \A i \in DOMAIN t.queue : Known(t, t.queue[i])
    /\ \A l \in t.loops : Rising(l.batch) /\ \A i \in DOMAIN l.batch : Known(t, l.batch[i])

InQueue(t, k) == \E i \in DOMAIN t.queue : t.queue[i].n = k
InBatch(l, k) == \E i \in DOMAIN l.batch : l.batch[i].n = k
Numbered(q) == \A i \in DOMAIN q : q[i].seq = q[i].n

(* The way of the events while they keep their numbers, with what the Host *)
(* has heard (h) and its cursor (c): one loop posts, its batch is above    *)
(* the cursor or was taken by an earlier attempt, and no event is nowhere. *)
FlowOK(t, h, c) ==
    /\ t.seq = t.n
    /\ ~t.open => t.loops = {} /\ t.queue = <<>>
    /\ \A l, m \in t.loops : l = m
    /\ Numbered(t.queue) /\ \A i \in DOMAIN t.queue : t.queue[i].n > c
    /\ \A l \in t.loops :
         /\ Numbered(l.batch)
         /\ \A i \in DOMAIN l.batch, j \in DOMAIN t.queue : l.batch[i].n < t.queue[j].n
         /\ \/ \A i \in DOMAIN l.batch : l.batch[i].n > c
            \/ \A i \in DOMAIN l.batch : l.batch[i].n <= c /\ ~l.batch[i].end
    /\ \A k \in 1..t.n : k \in h \cup Excused(t) \/ InQueue(t, k) \/ \E l \in t.loops : InBatch(l, k)
    /\ \A k \in 1..c : k \in h \cup Excused(t)
    /\ \A k \in h : k <= c

EndLost == out.ends \cap out.lost # {}
Fresh == ~ended /\ ~EndLost /\ Working

(* Types, and a Runner gets no more commands than were dispatched.         *)
ProcessOK ==
    /\ DeliveryTypeOK
    /\ dispatched \in 0..MaxCommands
    /\ busy \in {"no", "fetching", "reporting"}
    /\ runner \in {"none", "active", "cleaned"}
    /\ {terminalSeen, cancellationRequested, deadline, killed, forceTimer, exitTaken, ended} \subseteq BOOLEAN
    /\ proc \in {"none", "booting", "running", "ended", "exited"}
    /\ config \in {"no", "sending", "sent", "failed"}
    /\ toRunner \in 0..dispatched /\ agentEvents \in 0..MaxEvents
    /\ fromRunner \in Seq({"event", "end"})
    /\ mishaps \in 0..MaxMishaps

HostOK(h, c) == h \subseteq 1..out.n /\ c \in 0..out.n

FlowInv ==
    /\ HostOK(heard, cursor)
    /\ TransportOK(out)
    /\ Fresh => FlowOK(out, heard, cursor)
    /\ NothingSkipped
    /\ LeavesAfterEnd

(* The inductive invariant.                                                *)
IInv == ProcessOK /\ FlowInv

-----------------------------------------------------------------------------
(* Sequences and the queue.                                                *)

LEMMA WithoutFacts ==
  ASSUME NEW S, NEW q \in Seq(S), NEW i \in 1..Len(q)
  PROVE  /\ Without(q, i) \in Seq(S)
         /\ Len(Without(q, i)) = Len(q) - 1
         /\ \A j \in 1..(Len(q) - 1) : Without(q, i)[j] = IF j < i THEN q[j] ELSE q[j + 1]
<1> DEFINE a == SubSeq(q, 1, i - 1)
           b == SubSeq(q, i + 1, Len(q))
<1>1. Len(q) \in Nat
  OBVIOUS
<1>2. /\ a \in Seq(S) /\ Len(a) = i - 1 /\ \A j \in 1..(i - 1) : a[j] = q[j]
  BY <1>1
<1>3. /\ b \in Seq(S) /\ Len(b) = Len(q) - i
      /\ \A j \in 1..(Len(q) - i) : b[j] = q[i + j]
  BY <1>1
<1>4. Without(q, i) = a \o b
  <2>1. i # 0
    BY <1>1
  <2> QED BY <2>1, Zenon DEF Without
<1> HIDE DEF a, b
<1>5. /\ a \o b \in Seq(S) /\ Len(a \o b) = Len(a) + Len(b)
      /\ \A j \in 1..(Len(a) + Len(b)) :
           (a \o b)[j] = IF j <= Len(a) THEN a[j] ELSE b[j - Len(a)]
  BY <1>2, <1>3, ConcatProperties, Zenon
<1>7. Len(a) + Len(b) = Len(q) - 1
  BY <1>1, <1>2, <1>3
<1>6. ASSUME NEW j \in 1..(Len(q) - 1) PROVE (a \o b)[j] = IF j < i THEN q[j] ELSE q[j + 1]
  <2>1. CASE j < i
    BY <2>1, <1>1, <1>2, <1>5, <1>7
  <2>2. CASE ~(j < i)
    <3>1. (a \o b)[j] = b[j - (i - 1)]
      BY <2>2, <1>1, <1>2, <1>5, <1>7
    <3>2. j - (i - 1) \in 1..(Len(q) - i) /\ i + (j - (i - 1)) = j + 1
      BY <2>2, <1>1
    <3> QED BY <2>2, <3>1, <3>2, <1>3
  <2> QED BY <2>1, <2>2
<1> QED BY <1>4, <1>5, <1>6, <1>7

(* A set of naturals has a first element, and below a bound a last one.    *)
LEMMA FirstExists ==
  ASSUME NEW T \in SUBSET Nat, T # {}
  PROVE  \E x \in T : \A y \in T : x <= y
<1>1. PICK x \in T : \A y \in T : ~(<<y, x>> \in OpToRel(<, Nat))
  BY NatLessThanWellFounded, WFMin, Zenon
<1>2. \A y \in T : ~(y < x)
  BY <1>1, T \subseteq Nat, Zenon DEF OpToRel
<1> QED BY <1>2

LEMMA LastExists ==
  ASSUME NEW N \in Nat, NEW T \in SUBSET (1..N), T # {}
  PROVE  \E x \in T : \A y \in T : y <= x
<1> DEFINE R == {N - y : y \in T}
<1>1. R \in SUBSET Nat
  <2>1. \A y \in T : N - y \in Nat
    OBVIOUS
  <2> QED BY <2>1
<1>5. R # {}
  <2>1. PICK y \in T : TRUE
    OBVIOUS
  <2>2. N - y \in R
    BY <2>1
  <2> QED BY <2>2
<1>2. PICK m \in R : \A k \in R : m <= k
  BY <1>1, <1>5, FirstExists
<1>3. PICK x \in T : m = N - x
  OBVIOUS
<1>4. \A y \in T : m <= N - y
  BY <1>2
<1> QED BY <1>3, <1>4

LEMMA OverflowFacts ==
  ASSUME NEW q \in Seq(Event)
  PROVE  /\ Overflow(q) # 0 => Overflow(q) \in 1..Len(q) /\ ~q[Overflow(q)].end
         /\ Overflow(q) = 0 => Len(q) <= QueueMax \/ \A i \in 1..Len(q) : q[i].end
<1>1. DOMAIN q = 1..Len(q) /\ Len(q) \in Nat /\ QueueMax \in Nat
  BY WorkerAssumption
<1>2. CASE Len(q) > QueueMax /\ Droppable(q) # {}
  <2>1. Droppable(q) \in SUBSET Nat
    BY <1>1 DEF Droppable
  <2>2. \E i \in Droppable(q) : \A j \in Droppable(q) : i <= j
    BY <2>1, <1>2, FirstExists
  <2>3. Overflow(q) \in Droppable(q)
    BY <2>2, <1>2 DEF Overflow
  <2> QED BY <2>3, <1>1 DEF Droppable
<1>3. CASE ~(Len(q) > QueueMax /\ Droppable(q) # {})
  <2>1. Overflow(q) = 0
    BY <1>3 DEF Overflow
  <2> QED BY <2>1, <1>1, <1>3 DEF Droppable
<1> QED BY <1>2, <1>3

(* A queue of terminal statuses is no longer than there are of them.       *)
LEMMA EndsAreFew ==
  ASSUME NEW q \in Seq(Event), Rising(q), NEW ends, IsFiniteSet(ends),
         \A i \in 1..Len(q) : q[i].n \in ends
  PROVE  Len(q) <= Cardinality(ends)
<1> DEFINE f == [i \in 1..Len(q) |-> q[i].n]
<1>1. DOMAIN q = 1..Len(q) /\ Len(q) \in Nat /\ \A i \in 1..Len(q) : q[i].n \in Nat
  <2>1. \A e \in Event : e.n \in Nat
    BY DEF Event
  <2>2. \A i \in 1..Len(q) : q[i] \in Event
    OBVIOUS
  <2> QED BY <2>1, <2>2
<1>2. \A i, j \in 1..Len(q) : f[i] = f[j] => i = j
  <2> SUFFICES ASSUME NEW i \in 1..Len(q), NEW j \in 1..Len(q), i # j PROVE f[i] # f[j]
    OBVIOUS
  <2>1. CASE i < j
    BY <1>1, <2>1 DEF Rising
  <2>2. CASE j < i
    BY <1>1, <2>2 DEF Rising
  <2> QED BY <2>1, <2>2, <1>1
<1>3. f \in Injection(1..Len(q), ends)
  <2>1. f \in [1..Len(q) -> ends]
    OBVIOUS
  <2> HIDE DEF f
  <2> QED BY <1>2, <2>1, Fun_IsInj
<1>4. Cardinality(1..Len(q)) <= Cardinality(ends)
  BY <1>3, FS_Injection
<1>5. Cardinality(1..Len(q)) = Len(q)
  <2> DEFINE N == Len(q)
  <2>1. N \in Int /\ 1 \in Int /\ N >= 0
    BY <1>1
  <2> HIDE DEF N
  <2>2. Cardinality(1..N) = IF 1 > N THEN 0 ELSE N - 1 + 1
    BY <2>1, FS_Interval, Zenon
  <2>3. Cardinality(1..N) = N
    BY <2>1, <2>2
  <2> QED BY <2>3 DEF N
<1> QED BY <1>4, <1>5
-----------------------------------------------------------------------------
(* The transport keeps its events in order, whatever is done to it.        *)

NewEvent(t, end, after) == [n |-> t.n + 1, seq |-> t.seq + 1, end |-> end, after |-> after]

(* emit of the event new, case by case: a loop of its own, room in the     *)
(* queue, or an event dropped that is no terminal status.                  *)
Emitted(t, end, new, full, t2) ==
    /\ t2.n = t.n + 1 /\ t2.seq = t.seq + 1 /\ t2.open = TRUE
    /\ t2.ends = (IF end THEN t.ends \cup {t.n + 1} ELSE t.ends) /\ t2.lost = t.lost
    /\ new \in Event /\ full \in Seq(Event) /\ t2 \in Transport
    /\ \/ /\ ~t.open
          /\ t2.queue = t.queue /\ t2.dropped = t.dropped
          /\ t2.loops = t.loops \cup {[batch |-> <<new>>, tries |-> 0]}
       \/ /\ t.open /\ t2.loops = t.loops
          /\ t2.queue = full /\ t2.dropped = t.dropped
          /\ Len(full) <= QueueMax \/ \A i \in 1..Len(full) : full[i].end
       \/ /\ t.open /\ t2.loops = t.loops
          /\ \E i \in 1..Len(full) :
               /\ ~full[i].end
               /\ t2.queue = Without(full, i)
               /\ t2.dropped = t.dropped \cup {full[i].n}

LEMMA EmitCases ==
  ASSUME NEW t \in Transport, NEW end \in BOOLEAN, NEW after \in Afters
  PROVE  Emitted(t, end, NewEvent(t, end, after), Append(t.queue, NewEvent(t, end, after)),
                 Emit(t, end, after))
<1> DEFINE new  == NewEvent(t, end, after)
           full == Append(t.queue, new)
           t2   == Emit(t, end, after)
           gone == Overflow(full)
           numbered == [t EXCEPT !.n = @ + 1, !.seq = @ + 1,
                                 !.ends = IF end THEN @ \cup {new.n} ELSE @]
<1>1. /\ t.n \in Nat /\ t.seq \in Nat /\ t.open \in BOOLEAN /\ t.queue \in Seq(Event)
      /\ t.loops \in SUBSET Loop /\ t.ends \in SUBSET Nat /\ {t.lost, t.dropped} \subseteq SUBSET Nat
  BY DEF Transport
<1>2. new \in Event /\ new.n = t.n + 1
  BY <1>1 DEF NewEvent, Event
<1>3. full \in Seq(Event) /\ Len(full) \in Nat
  BY <1>1, <1>2
<1>4. /\ numbered \in Transport
      /\ numbered.n = t.n + 1 /\ numbered.seq = t.seq + 1
      /\ numbered.ends = (IF end THEN t.ends \cup {t.n + 1} ELSE t.ends)
      /\ numbered.open = t.open /\ numbered.queue = t.queue
      /\ numbered.loops = t.loops /\ numbered.lost = t.lost /\ numbered.dropped = t.dropped
  <2> DEFINE ends == IF end THEN t.ends \cup {t.n + 1} ELSE t.ends
  <2>1. ends \in SUBSET Nat
    BY <1>1
  <2>2. numbered = [t EXCEPT !.n = t.n + 1, !.seq = t.seq + 1, !.ends = ends]
    BY <1>2
  <2> HIDE DEF ends, numbered, new, full, t2, gone
  <2>3. /\ numbered \in Transport
        /\ numbered.n = t.n + 1 /\ numbered.seq = t.seq + 1 /\ numbered.ends = ends
        /\ numbered.open = t.open /\ numbered.queue = t.queue
        /\ numbered.loops = t.loops /\ numbered.lost = t.lost /\ numbered.dropped = t.dropped
    <3>1. t.n + 1 \in Nat /\ t.seq + 1 \in Nat
      BY <1>1
    <3>2. DOMAIN t = {"n", "seq", "open", "queue", "loops", "ends", "lost", "dropped"}
      BY DEF Transport
    <3>3. /\ numbered.n = t.n + 1 /\ numbered.seq = t.seq + 1 /\ numbered.ends = ends
          /\ numbered.open = t.open /\ numbered.queue = t.queue
          /\ numbered.loops = t.loops /\ numbered.lost = t.lost /\ numbered.dropped = t.dropped
      BY <2>2, <3>2
    <3>4. numbered \in Transport
      BY <2>1, <2>2, <3>1 DEF Transport
    <3> QED BY <3>3, <3>4
  <2> QED BY <2>3 DEF ends
<1>5. CASE ~t.open
  <2>1. [batch |-> <<new>>, tries |-> 0] \in Loop
    <3>1. <<new>> \in Seq(Event) /\ <<new>> # <<>>
      BY <1>2
    <3>2. 0 \in 0..MaxRetries
      BY WorkerAssumption
    <3> QED BY <3>1, <3>2 DEF Loop
  <2>2. t2 = [numbered EXCEPT !.open = TRUE, !.loops = @ \cup {[batch |-> <<new>>, tries |-> 0]}]
    BY <1>5, Zenon DEF Emit, Joins, NewEvent
  <2> HIDE DEF new, full, t2, gone, numbered
  <2>3. t2 \in Transport /\ t2.n = numbered.n /\ t2.seq = numbered.seq /\ t2.ends = numbered.ends
        /\ t2.open = TRUE /\ t2.queue = numbered.queue /\ t2.lost = numbered.lost
        /\ t2.dropped = numbered.dropped
        /\ t2.loops = numbered.loops \cup {[batch |-> <<new>>, tries |-> 0]}
    BY <1>4, <2>1, <2>2 DEF Transport
  <2>4. /\ t2.n = t.n + 1 /\ t2.seq = t.seq + 1
        /\ t2.ends = (IF end THEN t.ends \cup {t.n + 1} ELSE t.ends)
        /\ t2.queue = t.queue /\ t2.lost = t.lost /\ t2.dropped = t.dropped /\ t2.open = TRUE
        /\ t2.loops = t.loops \cup {[batch |-> <<new>>, tries |-> 0]}
    BY <1>4, <2>3
  <2> QED BY <1>2, <1>3, <1>5, <2>3, <2>4 DEF Emitted, new, full, t2
<1>6. CASE t.open
  <2>1. t2 = [numbered EXCEPT !.queue = Without(full, gone),
                              !.dropped = IF gone = 0 THEN @ ELSE @ \cup {full[gone].n}]
    BY <1>6, Zenon DEF Emit, Joins, NewEvent
  <2>2. /\ gone # 0 => gone \in 1..Len(full) /\ ~full[gone].end
        /\ gone = 0 => Len(full) <= QueueMax \/ \A i \in 1..Len(full) : full[i].end
    BY <1>3, OverflowFacts, Zenon
  <2>3. Without(full, gone) \in Seq(Event) /\ (gone = 0 => Without(full, gone) = full)
    <3>1. CASE gone = 0
      BY <3>1, <1>3 DEF Without
    <3>2. CASE gone # 0
      <4> HIDE DEF gone, full, new
      <4> QED BY <3>2, <2>2, <1>3, WithoutFacts
    <3> QED BY <3>1, <3>2
  <2>4. gone # 0 => full[gone].n \in Nat
    <3>1. \A e \in Event : e.n \in Nat
      BY DEF Event
    <3> HIDE DEF gone, full, new
    <3>2. gone # 0 => full[gone] \in Event
      BY <2>2, <1>3
    <3> QED BY <3>1, <3>2
  <2> HIDE DEF new, full, t2, gone, numbered
  <2>5. /\ t2 \in Transport /\ t2.n = numbered.n /\ t2.seq = numbered.seq
        /\ t2.ends = numbered.ends /\ t2.open = numbered.open /\ t2.loops = numbered.loops
        /\ t2.queue = Without(full, gone)
        /\ t2.lost = numbered.lost
        /\ t2.dropped = (IF gone = 0 THEN numbered.dropped ELSE numbered.dropped \cup {full[gone].n})
    BY <1>4, <2>1, <2>3, <2>4 DEF Transport
  <2>6. /\ t2.n = t.n + 1 /\ t2.seq = t.seq + 1
        /\ t2.ends = (IF end THEN t.ends \cup {t.n + 1} ELSE t.ends)
        /\ t2.open = TRUE /\ t2.lost = t.lost /\ t2.loops = t.loops
    BY <1>4, <1>6, <2>5
  <2>7. CASE gone = 0
    <3>1. t2.queue = full /\ t2.dropped = t.dropped
      BY <2>7, <2>5, <2>3, <1>4
    <3> QED BY <1>2, <1>3, <1>6, <2>2, <2>5, <2>6, <2>7, <3>1 DEF Emitted, new, full, t2
  <2>8. CASE gone # 0
    <3>1. t2.queue = Without(full, gone) /\ t2.dropped = t.dropped \cup {full[gone].n}
      BY <2>8, <2>5, <1>4
    <3> QED BY <1>2, <1>3, <1>6, <2>2, <2>5, <2>6, <2>8, <3>1 DEF Emitted, new, full, t2
  <2> QED BY <2>7, <2>8
<1> QED BY <1>1, <1>5, <1>6

(* The events of the queue when the new one is appended to it.             *)
Queued(t, new, full, t2) ==
    /\ full \in Seq(Event) /\ Len(full) = Len(t.queue) + 1
    /\ \A i \in 1..Len(t.queue) : full[i] = t.queue[i]
    /\ full[Len(full)] = new
    /\ \A e \in Event : Known(t, e) => Known(t2, e)
    /\ Known(t2, new)
    /\ \A i \in 1..Len(full) : Known(t2, full[i])
    /\ Rising(full)

LEMMA QueueFacts ==
  ASSUME NEW t, TransportOK(t), NEW end \in BOOLEAN, NEW after \in Afters,
         after # "nothing" => end,
         NEW new, new = NewEvent(t, end, after),
         NEW full, full = Append(t.queue, new),
         NEW t2, Emitted(t, end, new, full, t2)
  PROVE  Queued(t, new, full, t2)
<1>0. t \in Transport /\ t2.n = t.n + 1 /\ t2.ends = (IF end THEN t.ends \cup {t.n + 1} ELSE t.ends)
  BY DEF TransportOK, Emitted
<1>1. /\ t.n \in Nat /\ t.seq \in Nat /\ t.queue \in Seq(Event) /\ t.seq <= t.n
  BY <1>0 DEF Transport, TransportOK
<1>2. new \in Event /\ new.n = t.n + 1 /\ new.seq = t.seq + 1 /\ new.end = end /\ new.after = after
  BY <1>1 DEF NewEvent, Event
<1>3. /\ full \in Seq(Event) /\ Len(full) = Len(t.queue) + 1 /\ Len(t.queue) \in Nat
      /\ \A i \in 1..Len(t.queue) : full[i] = t.queue[i]
      /\ full[Len(full)] = new
  BY <1>1, <1>2
<1>4. \A e \in Event : e.n \in Nat /\ e.seq \in Nat
  BY DEF Event
<1>5. \A e \in Event : Known(t, e) => Known(t2, e)
  <2> SUFFICES ASSUME NEW e \in Event, Known(t, e) PROVE Known(t2, e)
    OBVIOUS
  <2>1. e.n \in 1..t.n /\ e.seq \in 1..t.n /\ (e.after # "nothing" => e.end)
        /\ (e.end <=> e.n \in t.ends)
    BY DEF Known
  <2>2. e.n # t.n + 1 /\ e.n \in 1..t2.n /\ e.seq \in 1..t2.n
    BY <2>1, <1>0, <1>1
  <2>3. e.n \in t.ends <=> e.n \in t2.ends
    BY <2>2, <1>0
  <2> QED BY <2>1, <2>2, <2>3, Zenon DEF Known
<1>6. Known(t2, new)
  <2>1. t.n + 1 \notin t.ends
    BY <1>1 DEF TransportOK
  <2> QED BY <2>1, <1>0, <1>1, <1>2 DEF Known
<1>7. \A i \in 1..Len(full) : Known(t2, full[i])
  <2> TAKE i \in 1..Len(full)
  <2>1. CASE i <= Len(t.queue)
    <3>1. i \in 1..Len(t.queue) /\ full[i] = t.queue[i] /\ i \in DOMAIN t.queue
      BY <2>1, <1>1, <1>3
    <3>2. Known(t, t.queue[i]) /\ t.queue[i] \in Event
      BY <3>1, <1>1 DEF TransportOK
    <3> QED BY <3>1, <3>2, <1>5
  <2>2. CASE ~(i <= Len(t.queue))
    <3>1. i = Len(full)
      BY <2>2, <1>3
    <3> QED BY <3>1, <1>3, <1>6
  <2> QED BY <2>1, <2>2
<1>8. Rising(full)
  <2> SUFFICES ASSUME NEW i \in DOMAIN full, NEW j \in DOMAIN full, i < j
               PROVE  full[i].n < full[j].n
    BY DEF Rising
  <2>1. i \in 1..Len(full) /\ j \in 1..Len(full) /\ i \in 1..Len(t.queue) /\ i \in DOMAIN t.queue
    BY <1>1, <1>3
  <2>2. full[i] = t.queue[i] /\ t.queue[i] \in Event /\ Known(t, t.queue[i])
    BY <2>1, <1>1, <1>3 DEF TransportOK
  <2>3. CASE j <= Len(t.queue)
    <3>1. j \in DOMAIN t.queue /\ full[j] = t.queue[j]
      BY <2>1, <2>3, <1>1, <1>3
    <3> QED BY <2>1, <2>2, <3>1 DEF TransportOK, Rising
  <2>4. CASE ~(j <= Len(t.queue))
    <3>1. j = Len(full)
      BY <2>1, <2>4, <1>3
    <3>2. t.queue[i].n <= t.n /\ t.queue[i].n \in Nat
      BY <2>2, <1>1, <1>4 DEF Known
    <3> QED BY <2>2, <3>1, <3>2, <1>1, <1>2, <1>3
  <2> QED BY <2>3, <2>4
<1> QED BY <1>3, <1>5, <1>6, <1>7, <1>8 DEF Queued

(* A queue without one of its events.                                      *)
Shrunk(q, i, w) ==
    /\ w \in Seq(Event) /\ Rising(w)
    /\ DOMAIN w = 1..(Len(q) - 1) /\ Len(w) = Len(q) - 1
    /\ \A j \in 1..(Len(q) - 1) : \E k \in 1..Len(q) : w[j] = q[k]
    /\ \A k \in 1..Len(q) : k # i => \E j \in 1..(Len(q) - 1) : w[j] = q[k]

LEMMA WithoutKeeps ==
  ASSUME NEW q \in Seq(Event), Rising(q), NEW i \in 1..Len(q)
  PROVE  Shrunk(q, i, Without(q, i))
<1> DEFINE w == Without(q, i)
<1>1. /\ w \in Seq(Event) /\ Len(w) = Len(q) - 1 /\ Len(q) \in Nat
      /\ \A j \in 1..(Len(q) - 1) : w[j] = IF j < i THEN q[j] ELSE q[j + 1]
  BY WithoutFacts
<1> HIDE DEF w
<1>2. DOMAIN w = 1..(Len(q) - 1) /\ DOMAIN q = 1..Len(q)
  BY <1>1
<1>3. Rising(w)
  <2> SUFFICES ASSUME NEW j \in 1..(Len(q) - 1), NEW k \in 1..(Len(q) - 1), j < k
               PROVE  w[j].n < w[k].n
    BY <1>2 DEF Rising
  <2> DEFINE a == IF j < i THEN j ELSE j + 1
             b == IF k < i THEN k ELSE k + 1
  <2>1. a \in DOMAIN q /\ b \in DOMAIN q /\ a < b /\ w[j] = q[a] /\ w[k] = q[b]
    BY <1>1, <1>2
  <2> QED BY <2>1 DEF Rising
<1>4. \A j \in 1..(Len(q) - 1) : \E k \in 1..Len(q) : w[j] = q[k]
  <2> TAKE j \in 1..(Len(q) - 1)
  <2>1. j \in 1..Len(q) /\ j + 1 \in 1..Len(q)
    BY <1>1
  <2> QED BY <2>1, <1>1
<1>5. \A k \in 1..Len(q) : k # i => \E j \in 1..(Len(q) - 1) : w[j] = q[k]
  <2> SUFFICES ASSUME NEW k \in 1..Len(q), k # i
               PROVE  \E j \in 1..(Len(q) - 1) : w[j] = q[k]
    OBVIOUS
  <2>1. CASE k < i
    <3>1. k \in 1..(Len(q) - 1) /\ w[k] = q[k]
      BY <2>1, <1>1
    <3> QED BY <3>1
  <2>2. CASE k > i
    <3>1. k - 1 \in 1..(Len(q) - 1) /\ ~(k - 1 < i) /\ (k - 1) + 1 = k
      BY <2>2, <1>1
    <3>2. w[k - 1] = q[k]
      BY <3>1, <1>1
    <3> QED BY <3>1, <3>2
  <2> QED BY <2>1, <2>2
<1> QED BY <1>1, <1>2, <1>3, <1>4, <1>5 DEF Shrunk, w

LEMMA EmitKeeps ==
  ASSUME NEW t, TransportOK(t), NEW end \in BOOLEAN, NEW after \in Afters,
         after # "nothing" => end
  PROVE  TransportOK(Emit(t, end, after))
<1> DEFINE new  == NewEvent(t, end, after)
           full == Append(t.queue, new)
           t2   == Emit(t, end, after)
<1>0. new = NewEvent(t, end, after) /\ full = Append(t.queue, new)
  OBVIOUS
<1>e. Emitted(t, end, new, full, t2)
  <2>1. t \in Transport
    BY DEF TransportOK
  <2> QED BY <2>1, EmitCases
<1> HIDE DEF new, full, t2
<1>q. Queued(t, new, full, t2)
  BY <1>0, <1>e, QueueFacts
<1>1. /\ t \in Transport /\ t.n \in Nat /\ t.seq \in Nat /\ t.queue \in Seq(Event) /\ t.seq <= t.n
      /\ t.ends \cup t.lost \cup t.dropped \subseteq 1..t.n /\ IsFiniteSet(t.ends)
      /\ Len(t.queue) <= QueueMax + Cardinality(t.ends) /\ Rising(t.queue)
      /\ \A i \in DOMAIN t.queue : Known(t, t.queue[i])
  BY DEF Transport, TransportOK
<1>2. /\ t2 \in Transport /\ t2.n = t.n + 1 /\ t2.seq = t.seq + 1
      /\ t2.ends = (IF end THEN t.ends \cup {t.n + 1} ELSE t.ends) /\ t2.lost = t.lost
      /\ new \in Event
  BY <1>e DEF Emitted
<1>3. \/ /\ t2.queue = t.queue /\ t2.dropped = t.dropped
         /\ t2.loops = t.loops \cup {[batch |-> <<new>>, tries |-> 0]}
      \/ /\ t2.loops = t.loops /\ t2.queue = full /\ t2.dropped = t.dropped
         /\ Len(full) <= QueueMax \/ \A i \in 1..Len(full) : full[i].end
      \/ /\ t2.loops = t.loops
         /\ \E i \in 1..Len(full) :
              t2.queue = Without(full, i) /\ t2.dropped = t.dropped \cup {full[i].n}
  BY <1>e DEF Emitted
<1>4. /\ full \in Seq(Event) /\ Len(full) = Len(t.queue) + 1
      /\ \A e \in Event : Known(t, e) => Known(t2, e)
      /\ Known(t2, new)
      /\ \A i \in 1..Len(full) : Known(t2, full[i])
      /\ Rising(full)
  BY <1>q DEF Queued
<1>5. t2.ends \subseteq 1..t2.n /\ IsFiniteSet(t2.ends)
      /\ Cardinality(t.ends) <= Cardinality(t2.ends)
      /\ Cardinality(t.ends) \in Nat /\ Cardinality(t2.ends) \in Nat
  <2>1. IsFiniteSet(t2.ends)
    <3>1. IsFiniteSet(t.ends \cup {t.n + 1})
      BY <1>1, FS_AddElement
    <3> QED BY <1>1, <1>2, <3>1
  <2>2. t.ends \subseteq t2.ends
    BY <1>2
  <2>3. Cardinality(t.ends) <= Cardinality(t2.ends)
    BY <2>1, <2>2, FS_Subset
  <2> QED BY <1>1, <1>2, <2>1, <2>3, FS_CardinalityType
<1>6. \A l \in t.loops : Rising(l.batch) /\ \A i \in DOMAIN l.batch : Known(t2, l.batch[i])
  <2> SUFFICES ASSUME NEW l \in t.loops
               PROVE  Rising(l.batch) /\ \A i \in DOMAIN l.batch : Known(t2, l.batch[i])
    OBVIOUS
  <2>1. Rising(l.batch) /\ \A i \in DOMAIN l.batch : Known(t, l.batch[i])
    BY DEF TransportOK
  <2>2. l.batch \in Seq(Event)
    BY <1>1 DEF Transport, Loop
  <2>3. \A i \in DOMAIN l.batch : l.batch[i] \in Event
    BY <2>2
  <2> QED BY <2>1, <2>3, <1>4
<1>7. \A i \in DOMAIN t.queue : Known(t2, t.queue[i])
  <2>1. \A i \in DOMAIN t.queue : t.queue[i] \in Event
    BY <1>1
  <2> QED BY <2>1, <1>1, <1>4
<1>8. QueueMax \in Nat
  BY WorkerAssumption
<1>9. CASE /\ t2.queue = t.queue /\ t2.dropped = t.dropped
           /\ t2.loops = t.loops \cup {[batch |-> <<new>>, tries |-> 0]}
  <2> DEFINE m == [batch |-> <<new>>, tries |-> 0]
  <2>1. Rising(m.batch) /\ \A i \in DOMAIN m.batch : Known(t2, m.batch[i])
    BY <1>4 DEF Rising
  <2> HIDE DEF m
  <2>2. \A l \in t2.loops : Rising(l.batch) /\ \A i \in DOMAIN l.batch : Known(t2, l.batch[i])
    BY <2>1, <1>6, <1>9 DEF m
  <2>3. Len(t2.queue) <= QueueMax + Cardinality(t2.ends)
    BY <1>1, <1>5, <1>8, <1>9
  <2>4. t2.ends \cup t2.lost \cup t2.dropped \subseteq 1..t2.n /\ t2.seq <= t2.n
    BY <1>1, <1>2, <1>5, <1>9
  <2> QED BY <2>2, <2>3, <2>4, <1>1, <1>2, <1>5, <1>7, <1>9 DEF TransportOK, t2
<1>10. CASE /\ t2.loops = t.loops /\ t2.queue = full /\ t2.dropped = t.dropped
            /\ Len(full) <= QueueMax \/ \A i \in 1..Len(full) : full[i].end
  <2>1. Len(t2.queue) <= QueueMax + Cardinality(t2.ends)
    <3>1. CASE Len(full) <= QueueMax
      BY <3>1, <1>5, <1>8, <1>10, <1>4
    <3>2. CASE \A i \in 1..Len(full) : full[i].end
      <4>1. \A i \in 1..Len(full) : full[i].n \in t2.ends
        BY <3>2, <1>4 DEF Known
      <4>2. Len(full) <= Cardinality(t2.ends)
        BY <4>1, <1>4, <1>5, EndsAreFew
      <4> QED BY <4>2, <1>4, <1>5, <1>8, <1>10
    <3> QED BY <3>1, <3>2, <1>10
  <2>2. t2.ends \cup t2.lost \cup t2.dropped \subseteq 1..t2.n /\ t2.seq <= t2.n
    BY <1>1, <1>2, <1>5, <1>10
  <2>3. \A i \in DOMAIN full : Known(t2, full[i])
    BY <1>4
  <2> QED BY <2>1, <2>2, <2>3, <1>2, <1>4, <1>5, <1>6, <1>10 DEF TransportOK, t2
<1>11. CASE /\ t2.loops = t.loops
            /\ \E i \in 1..Len(full) :
                 t2.queue = Without(full, i) /\ t2.dropped = t.dropped \cup {full[i].n}
  <2>1. PICK i \in 1..Len(full) :
          t2.queue = Without(full, i) /\ t2.dropped = t.dropped \cup {full[i].n}
    BY <1>11
  <2>2. /\ Rising(t2.queue) /\ Len(t2.queue) = Len(t.queue)
        /\ DOMAIN t2.queue = 1..Len(t.queue)
        /\ \A j \in 1..Len(t.queue) : \E k \in 1..Len(full) : t2.queue[j] = full[k]
    <3>1. Len(full) - 1 = Len(t.queue)
      BY <1>1, <1>4
    <3>2. Shrunk(full, i, t2.queue)
      BY <1>4, <2>1, WithoutKeeps
    <3> QED BY <3>1, <3>2 DEF Shrunk
  <2>3. \A j \in DOMAIN t2.queue : Known(t2, t2.queue[j])
    BY <2>2, <1>4
  <2>4. full[i].n \in 1..t2.n
    BY <1>4 DEF Known
  <2>5. t2.ends \cup t2.lost \cup t2.dropped \subseteq 1..t2.n /\ t2.seq <= t2.n
    BY <1>1, <1>2, <1>5, <2>1, <2>4
  <2>6. Len(t2.queue) <= QueueMax + Cardinality(t2.ends)
    BY <1>1, <1>5, <1>8, <2>2
  <2> QED BY <2>2, <2>3, <2>5, <2>6, <1>2, <1>5, <1>6, <1>11 DEF TransportOK, t2
<1> QED BY <1>3, <1>9, <1>10, <1>11

(* Nothing but the event that is dropped comes to be excused.              *)
LEMMA EmitExcuses ==
  ASSUME NEW t, TransportOK(t), NEW end, NEW new, NEW full, NEW t2,
         Emitted(t, end, new, full, t2), Queued(t, new, full, t2)
  PROVE  /\ t2.dropped = t.dropped => Excused(t2) = Excused(t)
         /\ \A i \in 1..Len(full) :
              ~full[i].end /\ t2.dropped = t.dropped \cup {full[i].n} =>
                Excused(t2) = Excused(t) \cup {full[i].n}
<1>1. /\ t2.lost = t.lost /\ t.n \in Nat /\ t.dropped \subseteq 1..t.n
      /\ t2.ends = (IF end THEN t.ends \cup {t.n + 1} ELSE t.ends)
  BY DEF Emitted, TransportOK, Transport
<1>2. t.dropped \cap t2.ends = t.dropped \cap t.ends
  <2>1. t.n + 1 \notin t.dropped
    BY <1>1
  <2> QED BY <1>1, <2>1
<1>3. \A i \in 1..Len(full) : full[i].end <=> full[i].n \in t2.ends
  BY DEF Queued, Known
<1> QED BY <1>1, <1>2, <1>3 DEF Excused

LEMMA EmitGrows ==
  ASSUME NEW t, TransportOK(t), NEW end \in BOOLEAN, NEW after \in Afters,
         after # "nothing" => end
  PROVE  Excused(t) \subseteq Excused(Emit(t, end, after))
<1> DEFINE new  == NewEvent(t, end, after)
           full == Append(t.queue, new)
           t2   == Emit(t, end, after)
<1>0. new = NewEvent(t, end, after) /\ full = Append(t.queue, new)
  OBVIOUS
<1>e. Emitted(t, end, new, full, t2)
  <2>1. t \in Transport
    BY DEF TransportOK
  <2> QED BY <2>1, EmitCases
<1> HIDE DEF new, full, t2
<1>q. Queued(t, new, full, t2)
  BY <1>0, <1>e, QueueFacts
<1>1. /\ t2.dropped = t.dropped => Excused(t2) = Excused(t)
      /\ \A i \in 1..Len(full) :
           ~full[i].end /\ t2.dropped = t.dropped \cup {full[i].n} =>
             Excused(t2) = Excused(t) \cup {full[i].n}
  BY <1>e, <1>q, EmitExcuses
<1> QED BY <1>e, <1>1 DEF Emitted, t2

LEMMA EmitFlows ==
  ASSUME NEW t, TransportOK(t), NEW end \in BOOLEAN, NEW after \in Afters,
         after # "nothing" => end,
         NEW h, NEW c \in 0..t.n, FlowOK(t, h, c)
  PROVE  FlowOK(Emit(t, end, after), h, c)
<1> DEFINE new  == NewEvent(t, end, after)
           full == Append(t.queue, new)
           t2   == Emit(t, end, after)
<1>0. new = NewEvent(t, end, after) /\ full = Append(t.queue, new)
  OBVIOUS
<1>e. Emitted(t, end, new, full, t2)
  <2>1. t \in Transport
    BY DEF TransportOK
  <2> QED BY <2>1, EmitCases
<1> HIDE DEF new, full, t2
<1>q. Queued(t, new, full, t2)
  BY <1>0, <1>e, QueueFacts
<1>1. /\ t \in Transport /\ t.n \in Nat /\ t.seq \in Nat /\ t.queue \in Seq(Event)
      /\ t.loops \subseteq Loop /\ t.seq = t.n /\ t.open \in BOOLEAN
  BY DEF Transport, TransportOK, FlowOK
<1>2. /\ t2 \in Transport /\ t2.n = t.n + 1 /\ t2.seq = t.seq + 1 /\ t2.open = TRUE
      /\ new \in Event
      /\ t2.ends = (IF end THEN t.ends \cup {t.n + 1} ELSE t.ends)
  BY <1>e DEF Emitted
<1>3. \/ /\ ~t.open /\ t2.queue = t.queue /\ Excused(t2) = Excused(t)
         /\ t2.loops = t.loops \cup {[batch |-> <<new>>, tries |-> 0]}
      \/ /\ t2.loops = t.loops
         /\ t2.queue = full /\ Excused(t2) = Excused(t)
      \/ /\ t2.loops = t.loops
         /\ \E i \in 1..Len(full) :
              t2.queue = Without(full, i) /\ Excused(t2) = Excused(t) \cup {full[i].n}
  <2>1. /\ t2.dropped = t.dropped => Excused(t2) = Excused(t)
        /\ \A i \in 1..Len(full) :
             ~full[i].end /\ t2.dropped = t.dropped \cup {full[i].n} =>
               Excused(t2) = Excused(t) \cup {full[i].n}
    BY <1>e, <1>q, EmitExcuses
  <2> QED BY <1>e, <2>1 DEF Emitted
<1>4. /\ full \in Seq(Event) /\ Len(full) = Len(t.queue) + 1
      /\ \A i \in 1..Len(t.queue) : full[i] = t.queue[i]
      /\ full[Len(full)] = new
  BY <1>q DEF Queued
<1>5. new.n = t.n + 1 /\ new.seq = new.n
  BY <1>0, <1>1 DEF NewEvent
<1>6. /\ \A l, m \in t.loops : l = m
      /\ \A i \in DOMAIN t.queue : t.queue[i].seq = t.queue[i].n /\ t.queue[i].n > c
      /\ \A k \in 1..c : k \in h \cup Excused(t)
      /\ \A k \in h : k <= c
      /\ \A k \in 1..t.n : k \in h \cup Excused(t) \/ InQueue(t, k) \/ \E l \in t.loops : InBatch(l, k)
  BY DEF FlowOK, Numbered
<1>7. \A k \in 1..t2.n : k \in 1..t.n \/ k = new.n
  BY <1>1, <1>2, <1>5
<1>8. DOMAIN t.queue = 1..Len(t.queue) /\ Len(t.queue) \in Nat
  BY <1>1
<1>9. CASE /\ ~t.open /\ t2.queue = t.queue /\ Excused(t2) = Excused(t)
           /\ t2.loops = t.loops \cup {[batch |-> <<new>>, tries |-> 0]}
  <2> DEFINE m == [batch |-> <<new>>, tries |-> 0]
  <2>1. t.loops = {} /\ t.queue = <<>>
    BY <1>9 DEF FlowOK
  <2>2. m.batch = <<new>> /\ DOMAIN m.batch = {1} /\ m.batch[1] = new
    OBVIOUS
  <2> HIDE DEF m
  <2>3. t2.loops = {m}
    BY <2>1, <1>9 DEF m
  <2>4. Numbered(m.batch) /\ (\A i \in DOMAIN m.batch : m.batch[i].n > c) /\ InBatch(m, new.n)
    BY <2>2, <1>1, <1>5 DEF Numbered, InBatch
  <2>5. DOMAIN t2.queue = {}
    BY <2>1, <1>9
  <2>6. \A k \in 1..t2.n : k \in h \cup Excused(t2) \/ InQueue(t2, k) \/ \E l \in t2.loops : InBatch(l, k)
    <3>1. \A k : ~InQueue(t, k)
      BY <2>1 DEF InQueue
    <3> QED BY <3>1, <2>1, <2>3, <2>4, <1>6, <1>7, <1>9
  <2> QED BY <2>1, <2>3, <2>4, <2>5, <2>6, <1>1, <1>2, <1>6, <1>9 DEF FlowOK, Numbered, t2
<1>10. ASSUME t2.loops = t.loops, Excused(t) \subseteq Excused(t2),
              \A j \in DOMAIN t2.queue : \E k \in 1..Len(full) : t2.queue[j] = full[k],
              \A k \in 1..Len(full) : full[k].n \in Excused(t2) \/ InQueue(t2, full[k].n)
       PROVE  FlowOK(t2, h, c)
  <2>1. \A k \in 1..Len(full) : full[k].seq = full[k].n /\ full[k].n > c
    <3> TAKE k \in 1..Len(full)
    <3>1. k \in 1..Len(t.queue) \/ k = Len(full)
      BY <1>4, <1>8
    <3>2. CASE k \in 1..Len(t.queue)
      BY <3>2, <1>4, <1>6, <1>8
    <3>3. CASE k = Len(full)
      <4>1. full[k] = new
        BY <3>3, <1>4
      <4> QED BY <4>1, <1>1, <1>5
    <3> QED BY <3>1, <3>2, <3>3
  <2>2. Numbered(t2.queue) /\ \A j \in DOMAIN t2.queue : t2.queue[j].n > c
    BY <2>1, <1>10 DEF Numbered
  <2>3. ASSUME NEW l \in t2.loops
        PROVE  /\ Numbered(l.batch)
               /\ \A i \in DOMAIN l.batch, j \in DOMAIN t2.queue : l.batch[i].n < t2.queue[j].n
               /\ \/ \A i \in DOMAIN l.batch : l.batch[i].n > c
                  \/ \A i \in DOMAIN l.batch : l.batch[i].n <= c /\ ~l.batch[i].end
    <3>1. l \in t.loops
      BY <1>10
    <3>2. /\ Numbered(l.batch)
          /\ \A i \in DOMAIN l.batch, j \in DOMAIN t.queue : l.batch[i].n < t.queue[j].n
          /\ \/ \A i \in DOMAIN l.batch : l.batch[i].n > c
             \/ \A i \in DOMAIN l.batch : l.batch[i].n <= c /\ ~l.batch[i].end
      BY <3>1 DEF FlowOK
    <3>3. ASSUME NEW i \in DOMAIN l.batch, NEW j \in DOMAIN t2.queue
          PROVE  l.batch[i].n < t2.queue[j].n
      <4>1. PICK k \in 1..Len(full) : t2.queue[j] = full[k]
        BY <1>10
      <4>2. k \in 1..Len(t.queue) \/ k = Len(full)
        BY <1>4, <1>8
      <4>3. CASE k \in 1..Len(t.queue)
        BY <4>1, <4>3, <3>2, <1>4, <1>8
      <4>4. CASE k = Len(full)
        <5>1. l.batch[i].n \in 1..t.n
          BY <3>1 DEF TransportOK, Known
        <5> QED BY <4>1, <4>4, <5>1, <1>1, <1>4, <1>5
      <4> QED BY <4>2, <4>3, <4>4
    <3> QED BY <3>2, <3>3
  <2>4. ASSUME NEW k \in 1..t2.n
        PROVE  k \in h \cup Excused(t2) \/ InQueue(t2, k) \/ \E l \in t2.loops : InBatch(l, k)
    <3>1. CASE k = new.n
      <4>1. Len(full) \in 1..Len(full)
        BY <1>4, <1>8
      <4> QED BY <3>1, <4>1, <1>4, <1>10
    <3>2. CASE k \in 1..t.n
      <4>1. CASE InQueue(t, k)
        <5>1. PICK i \in 1..Len(t.queue) : t.queue[i].n = k
          BY <4>1, <1>8 DEF InQueue
        <5>2. i \in 1..Len(full) /\ full[i] = t.queue[i]
          BY <1>4, <1>8
        <5> QED BY <5>1, <5>2, <1>10
      <4>2. CASE ~InQueue(t, k)
        BY <3>2, <4>2, <1>6, <1>10
      <4> QED BY <4>1, <4>2
    <3> QED BY <3>1, <3>2, <1>7
  <2>5. \A k \in 1..c : k \in h \cup Excused(t2)
    BY <1>6, <1>10
  <2>6. \A l, m \in t2.loops : l = m
    BY <1>6, <1>10
  <2>7. t2.seq = t2.n /\ t2.open = TRUE /\ \A k \in h : k <= c
    BY <1>1, <1>2, <1>6
  <2> QED BY <2>2, <2>3, <2>4, <2>5, <2>6, <2>7 DEF FlowOK
<1>11. CASE t2.loops = t.loops /\ t2.queue = full /\ Excused(t2) = Excused(t)
  <2>1. DOMAIN t2.queue = 1..Len(full)
    BY <1>4, <1>11
  <2>2. \A k \in 1..Len(full) : InQueue(t2, full[k].n)
    BY <2>1, <1>11 DEF InQueue
  <2> QED BY <2>1, <2>2, <1>10, <1>11 DEF t2
<1>12. CASE /\ t2.loops = t.loops
            /\ \E i \in 1..Len(full) :
                 t2.queue = Without(full, i) /\ Excused(t2) = Excused(t) \cup {full[i].n}
  <2>1. PICK i \in 1..Len(full) :
          t2.queue = Without(full, i) /\ Excused(t2) = Excused(t) \cup {full[i].n}
    BY <1>12
  <2>2. Rising(full)
    BY <1>q DEF Queued
  <2>3. /\ DOMAIN t2.queue = 1..(Len(full) - 1)
        /\ \A j \in 1..(Len(full) - 1) : \E k \in 1..Len(full) : t2.queue[j] = full[k]
        /\ \A k \in 1..Len(full) : k # i => \E j \in 1..(Len(full) - 1) : t2.queue[j] = full[k]
    <3>1. Shrunk(full, i, t2.queue)
      BY <1>4, <2>1, <2>2, WithoutKeeps
    <3> QED BY <3>1 DEF Shrunk
  <2>4. \A k \in 1..Len(full) : full[k].n \in Excused(t2) \/ InQueue(t2, full[k].n)
    BY <2>1, <2>3 DEF InQueue
  <2> QED BY <2>1, <2>3, <2>4, <1>10, <1>12 DEF t2
<1> QED BY <1>3, <1>9, <1>11, <1>12 DEF t2

(* flushLoop goes on or ends, and the cleanup of the run.                  *)
LEMMA ContinuedFacts ==
  ASSUME NEW t \in Transport, NEW l
  PROVE  /\ Continued(t, l) \in Transport
         /\ Continued(t, l).n = t.n /\ Continued(t, l).seq = t.seq
         /\ Continued(t, l).ends = t.ends /\ Continued(t, l).lost = t.lost
         /\ Continued(t, l).dropped = t.dropped
         /\ Continued(t, l).queue = <<>>
         /\ t.queue = <<>> => Continued(t, l).open = FALSE /\ Continued(t, l).loops = t.loops \ {l}
         /\ t.queue # <<>> =>
              /\ Continued(t, l).open = t.open
              /\ Continued(t, l).loops = (t.loops \ {l}) \cup {[batch |-> t.queue, tries |-> 0]}
<1>1. /\ t.queue \in Seq(Event) /\ t.loops \in SUBSET Loop
      /\ DOMAIN t = {"n", "seq", "open", "queue", "loops", "ends", "lost", "dropped"}
  BY DEF Transport
<1>2. <<>> \in Seq(Event)
  OBVIOUS
<1>3. CASE t.queue = <<>>
  <2>1. Continued(t, l) = [t EXCEPT !.open = FALSE, !.loops = t.loops \ {l}]
    BY <1>3 DEF Continued
  <2>2. t.loops \ {l} \in SUBSET Loop
    BY <1>1
  <2>3. Continued(t, l) \in Transport
    BY <2>1, <2>2 DEF Transport
  <2> QED BY <1>1, <1>3, <2>1, <2>3
<1>4. CASE t.queue # <<>>
  <2> DEFINE m == [batch |-> t.queue, tries |-> 0]
  <2>1. Continued(t, l) = [t EXCEPT !.queue = <<>>, !.loops = (t.loops \ {l}) \cup {m}]
    BY <1>4 DEF Continued
  <2>2. m \in Loop
    <3>1. 0 \in 0..MaxRetries
      BY WorkerAssumption
    <3> QED BY <1>1, <1>4, <3>1 DEF Loop
  <2> HIDE DEF m
  <2>3. (t.loops \ {l}) \cup {m} \in SUBSET Loop
    BY <1>1, <2>2
  <2>4. Continued(t, l) \in Transport
    BY <1>2, <2>1, <2>3 DEF Transport
  <2> QED BY <1>1, <1>4, <2>1, <2>4 DEF m
<1> QED BY <1>3, <1>4

LEMMA ContinuedKeeps ==
  ASSUME NEW t, TransportOK(t), NEW l
  PROVE  TransportOK(Continued(t, l))
<1> DEFINE t2 == Continued(t, l)
<1>1. t \in Transport
  BY DEF TransportOK
<1>2. /\ t2 \in Transport /\ t2.n = t.n /\ t2.seq = t.seq /\ t2.ends = t.ends
      /\ t2.lost = t.lost /\ t2.dropped = t.dropped
      /\ t2.queue = <<>>
      /\ t.queue = <<>> => t2.loops = t.loops \ {l}
      /\ t.queue # <<>> => t2.loops = (t.loops \ {l}) \cup {[batch |-> t.queue, tries |-> 0]}
  BY <1>1, ContinuedFacts, Zenon
<1> HIDE DEF t2
<1>3. \A m \in t2.loops : m \in t.loops \/ m.batch = t.queue
  BY <1>2
<1>4. \A m \in t2.loops : Rising(m.batch) /\ \A i \in DOMAIN m.batch : Known(t2, m.batch[i])
  BY <1>2, <1>3 DEF TransportOK, Known
<1>5. Len(t2.queue) = 0 /\ DOMAIN t2.queue = {}
  BY <1>2
<1>6. Cardinality(t2.ends) \in Nat /\ QueueMax \in Nat
  BY <1>2, FS_CardinalityType, WorkerAssumption DEF TransportOK
<1>7. Len(t2.queue) <= QueueMax + Cardinality(t2.ends)
  BY <1>5, <1>6
<1> QED BY <1>2, <1>4, <1>5, <1>7 DEF TransportOK, Rising, t2

LEMMA ForgottenKeeps ==
  ASSUME NEW t, TransportOK(t)
  PROVE  /\ TransportOK(Forgotten(t))
         /\ Forgotten(t).ends = t.ends /\ Forgotten(t).lost = t.lost
         /\ Forgotten(t).dropped = t.dropped /\ Forgotten(t).n = t.n
<1> DEFINE t2 == Forgotten(t)
<1>1. t \in Transport /\ t.n \in Nat
  BY DEF TransportOK, Transport
<1>2. DOMAIN t = {"n", "seq", "open", "queue", "loops", "ends", "lost", "dropped"}
  BY <1>1 DEF Transport
<1>3. /\ t2.n = t.n /\ t2.seq = 0 /\ t2.ends = t.ends /\ t2.lost = t.lost /\ t2.dropped = t.dropped
      /\ t2.queue = <<>> /\ t2.loops = t.loops
  BY <1>2 DEF Forgotten
<1>4. t2 \in Transport
  <2>1. <<>> \in Seq(Event) /\ 0 \in Nat
    OBVIOUS
  <2>2. t2 = [t EXCEPT !.seq = 0, !.open = FALSE, !.queue = <<>>]
    BY DEF Forgotten
  <2> HIDE DEF t2
  <2> QED BY <1>1, <2>1, <2>2 DEF Transport
<1> HIDE DEF t2
<1>5. Len(t2.queue) = 0 /\ DOMAIN t2.queue = {}
  BY <1>3
<1>6. Cardinality(t2.ends) \in Nat /\ QueueMax \in Nat
  BY <1>3, FS_CardinalityType, WorkerAssumption DEF TransportOK
<1>7. Len(t2.queue) <= QueueMax + Cardinality(t2.ends)
  BY <1>5, <1>6
<1>8. \A m \in t2.loops : Rising(m.batch) /\ \A i \in DOMAIN m.batch : Known(t2, m.batch[i])
  BY <1>3 DEF TransportOK, Known
<1>9. TransportOK(t2)
  BY <1>1, <1>3, <1>4, <1>5, <1>7, <1>8 DEF TransportOK, Rising
<1> QED BY <1>3, <1>9 DEF t2

(* The posted batch is settled and the loop takes the queue as the next.   *)
LEMMA ContinuedFlows ==
  ASSUME NEW t, TransportOK(t), NEW h, NEW c, FlowOK(t, h, c), NEW l \in t.loops,
         \A i \in DOMAIN l.batch : l.batch[i].n \in h \cup Excused(t)
  PROVE  FlowOK(Continued(t, l), h, c)
<1> DEFINE t2 == Continued(t, l)
<1>1. t \in Transport /\ t.queue \in Seq(Event)
  BY DEF TransportOK, Transport
<1>2. /\ t2.n = t.n /\ t2.seq = t.seq /\ Excused(t2) = Excused(t) /\ t2.queue = <<>>
      /\ t.queue = <<>> => t2.open = FALSE /\ t2.loops = t.loops \ {l}
      /\ t.queue # <<>> => /\ t2.open = t.open
                          /\ t2.loops = (t.loops \ {l}) \cup {[batch |-> t.queue, tries |-> 0]}
  <2>1. t2.lost = t.lost /\ t2.dropped = t.dropped /\ t2.ends = t.ends
    BY <1>1, ContinuedFacts, Zenon
  <2>2. Excused(t2) = Excused(t)
    BY <2>1 DEF Excused
  <2> QED BY <1>1, <2>2, ContinuedFacts, Zenon
<1>3. t.loops = {l} /\ t.open
  BY DEF FlowOK
<1> HIDE DEF t2
<1>4. DOMAIN t2.queue = {}
  BY <1>2
<1>5. \A k : InBatch(l, k) => k \in h \cup Excused(t)
  BY DEF InBatch
<1>6. CASE t.queue = <<>>
  <2>1. t2.loops = {} /\ t2.open = FALSE
    BY <1>2, <1>3, <1>6
  <2>2. \A k : ~InQueue(t, k)
    BY <1>6 DEF InQueue
  <2>3. \A k \in 1..t2.n : k \in h \cup Excused(t2)
    BY <1>2, <1>3, <1>5, <2>2 DEF FlowOK
  <2> QED BY <1>2, <1>4, <2>1, <2>3 DEF FlowOK, Numbered, t2
<1>7. CASE t.queue # <<>>
  <2>1. PICK m : t2.loops = {m} /\ m.batch = t.queue
    <3> DEFINE m == [batch |-> t.queue, tries |-> 0]
    <3>1. t2.loops = {m} /\ m.batch = t.queue
      BY <1>2, <1>3, <1>7
    <3> HIDE DEF m
    <3> QED BY <3>1
  <2>2. Numbered(m.batch) /\ \A i \in DOMAIN m.batch : m.batch[i].n > c
    BY <2>1 DEF FlowOK
  <2>3. \A k : InQueue(t, k) => InBatch(m, k)
    BY <2>1 DEF InQueue, InBatch
  <2>4. \A k \in 1..t2.n : k \in h \cup Excused(t2) \/ \E x \in t2.loops : InBatch(x, k)
    BY <1>2, <1>3, <1>5, <2>1, <2>3 DEF FlowOK
  <2>5. t2.open = TRUE \/ t2.open
    BY <1>2, <1>3, <1>7
  <2> QED BY <1>2, <1>4, <2>1, <2>2, <2>4, <2>5 DEF FlowOK, Numbered, t2
<1> QED BY <1>6, <1>7

(* Events that are given up are accounted for as lost.                     *)
LEMMA LostFlows ==
  ASSUME NEW t, TransportOK(t), NEW s \in SUBSET (1..t.n)
  PROVE  /\ TransportOK([t EXCEPT !.lost = @ \cup s])
         /\ [t EXCEPT !.lost = @ \cup s].lost = t.lost \cup s
         /\ [t EXCEPT !.lost = @ \cup s].ends = t.ends
         /\ [t EXCEPT !.lost = @ \cup s].dropped = t.dropped
         /\ [t EXCEPT !.lost = @ \cup s].loops = t.loops
         /\ [t EXCEPT !.lost = @ \cup s].n = t.n
         /\ \A h, c : FlowOK(t, h, c) => FlowOK([t EXCEPT !.lost = @ \cup s], h, c)
<1> DEFINE t2 == [t EXCEPT !.lost = @ \cup s]
<1>1. t \in Transport /\ t.n \in Nat /\ t.lost \in SUBSET Nat
  BY DEF TransportOK, Transport
<1>2. DOMAIN t = {"n", "seq", "open", "queue", "loops", "ends", "lost", "dropped"}
  BY <1>1 DEF Transport
<1>3. /\ t2.n = t.n /\ t2.seq = t.seq /\ t2.ends = t.ends /\ t2.lost = t.lost \cup s
      /\ t2.dropped = t.dropped
      /\ t2.open = t.open /\ t2.queue = t.queue /\ t2.loops = t.loops
  BY <1>2
<1>4. t2 \in Transport
  <2>1. t.lost \cup s \in SUBSET Nat
    <3>1. \A k \in s : k \in Nat
      BY <1>1
    <3> QED BY <1>1, <3>1
  <2>2. t2 = [t EXCEPT !.lost = t.lost \cup s]
    OBVIOUS
  <2> HIDE DEF t2
  <2> QED BY <1>1, <2>1, <2>2 DEF Transport
<1> HIDE DEF t2
<1>5. TransportOK(t2)
  BY <1>3, <1>4 DEF TransportOK, Known
<1>6. ASSUME NEW h, NEW c, FlowOK(t, h, c) PROVE FlowOK(t2, h, c)
  <2>1. \A k : InQueue(t2, k) <=> InQueue(t, k)
    BY <1>3 DEF InQueue
  <2>4. Excused(t) \subseteq Excused(t2)
    BY <1>3 DEF Excused
  <2>2. \A k \in 1..t2.n : k \in h \cup Excused(t2) \/ InQueue(t2, k) \/ \E x \in t2.loops : InBatch(x, k)
    BY <1>3, <1>6, <2>1, <2>4 DEF FlowOK
  <2>3. \A k \in 1..c : k \in h \cup Excused(t2)
    BY <1>3, <1>6, <2>4 DEF FlowOK
  <2> QED BY <1>3, <1>6, <2>2, <2>3 DEF FlowOK
<1> QED BY <1>3, <1>5, <1>6 DEF t2

-----------------------------------------------------------------------------
(* What the Host takes of a batch.                                         *)

LEMMA NewsFacts ==
  ASSUME NEW b \in Seq(Event), b # <<>>, HostTakes(b)
  PROVE  /\ heard' = heard \cup {b[i].n : i \in News(b)}
         /\ ended' = (ended \/ \E i \in News(b) : b[i].end)
         /\ News(b) \subseteq DOMAIN b
         /\ ended => heard' = heard /\ ended'
         /\ \/ News(b) = {} /\ cursor' = cursor
            \/ \E i \in News(b) : (\A j \in News(b) : j <= i) /\ cursor' = b[i].seq
<1>1. DOMAIN b = 1..Len(b) /\ Len(b) \in Nat
  OBVIOUS
<1>2. /\ heard' = heard \cup {b[i].n : i \in News(b)}
      /\ ended' = (ended \/ \E i \in News(b) : b[i].end)
  BY Zenon DEF HostTakes
<1>3. News(b) \subseteq DOMAIN b
  BY DEF News
<1>4. ended => News(b) = {}
  BY DEF News
<1>5. ended => heard' = heard /\ ended'
  BY <1>2, <1>4
<1>6. CASE News(b) = {}
  BY <1>2, <1>3, <1>5, <1>6 DEF HostTakes
<1>7. CASE News(b) # {}
  <2> DEFINE i == CHOOSE i \in News(b) : \A j \in News(b) : j <= i
  <2>1. \E x \in News(b) : \A y \in News(b) : y <= x
    BY <1>1, <1>3, <1>7, LastExists
  <2>2. i \in News(b) /\ \A j \in News(b) : j <= i
    BY <2>1
  <2>3. cursor' = b[i].seq
    BY <1>7, Zenon DEF HostTakes
  <2> HIDE DEF i
  <2> QED BY <1>2, <1>3, <1>5, <2>2, <2>3
<1> QED BY <1>6, <1>7

LEMMA TakesTyped ==
  ASSUME TransportOK(out), heard \subseteq 1..out.n, cursor \in 0..out.n,
         NEW l \in out.loops, HostTakes(l.batch)
  PROVE  /\ heard' \subseteq 1..out.n /\ heard \subseteq heard' /\ cursor' \in 0..out.n
         /\ ended => heard' = heard /\ ended'
<1>1. l.batch \in Seq(Event) /\ l.batch # <<>> /\ out.n \in Nat
  BY DEF TransportOK, Transport, Loop
<1>2. \A i \in DOMAIN l.batch : l.batch[i].n \in 1..out.n /\ l.batch[i].seq \in 1..out.n
  BY DEF TransportOK, Known
<1>3. /\ heard' = heard \cup {l.batch[i].n : i \in News(l.batch)}
      /\ News(l.batch) \subseteq DOMAIN l.batch
      /\ ended => heard' = heard /\ ended'
      /\ \/ cursor' = cursor
         \/ \E i \in News(l.batch) : cursor' = l.batch[i].seq
  BY <1>1, NewsFacts
<1>4. cursor' \in 0..out.n
  BY <1>1, <1>2, <1>3
<1> QED BY <1>2, <1>3, <1>4

(* As long as the numbers hold, the Host takes the whole batch up to a     *)
(* terminal status, leaves no gap, and hears every terminal status.        *)
LEMMA TakesFlows ==
  ASSUME TransportOK(out), heard \subseteq 1..out.n, cursor \in 0..out.n, ~ended,
         FlowOK(out, heard, cursor), NEW l \in out.loops, HostTakes(l.batch)
  PROVE  /\ \A k \in heard' : 1..k \subseteq heard' \cup Excused(out)
         /\ (\E i \in DOMAIN l.batch : l.batch[i].end) => ended'
         /\ ~ended' => /\ FlowOK(out, heard', cursor')
                      /\ \A i \in DOMAIN l.batch : l.batch[i].n \in heard' \cup Excused(out)
<1> DEFINE b == l.batch
<1>1. /\ b \in Seq(Event) /\ b # <<>> /\ out.n \in Nat /\ Rising(b)
      /\ \A i \in DOMAIN b : b[i].n \in 1..out.n
  BY DEF TransportOK, Transport, Loop, Known
<1>2. DOMAIN b = 1..Len(b) /\ Len(b) \in Nat
  BY <1>1
<1>3. /\ heard' = heard \cup {b[i].n : i \in News(b)}
      /\ ended' = (ended \/ \E i \in News(b) : b[i].end)
      /\ News(b) \subseteq DOMAIN b
      /\ \/ News(b) = {} /\ cursor' = cursor
         \/ \E i \in News(b) : (\A j \in News(b) : j <= i) /\ cursor' = b[i].seq
  BY <1>1, NewsFacts
<1>4. /\ Numbered(b)
      /\ \A i \in DOMAIN b, j \in DOMAIN out.queue : b[i].n < out.queue[j].n
      /\ \/ \A i \in DOMAIN b : b[i].n > cursor
         \/ \A i \in DOMAIN b : b[i].n <= cursor /\ ~b[i].end
      /\ out.loops = {l}
      /\ Numbered(out.queue) /\ \A i \in DOMAIN out.queue : out.queue[i].n > cursor
      /\ \A k \in 1..out.n : k \in heard \cup Excused(out) \/ InQueue(out, k) \/ InBatch(l, k)
      /\ \A k \in 1..cursor : k \in heard \cup Excused(out)
      /\ \A k \in heard : k <= cursor
  BY DEF FlowOK
<1>5. \A i \in DOMAIN b : i \in News(b) <=> b[i].n > cursor /\ \A j \in 1..(i - 1) : ~b[j].end
  BY <1>4 DEF News, Numbered
<1> HIDE DEF b
<1>6. CASE \A i \in DOMAIN b : b[i].n <= cursor /\ ~b[i].end
  <2>1. News(b) = {}
    <3>1. \A i \in DOMAIN b : ~(b[i].n > cursor)
      BY <1>1, <1>6
    <3> QED BY <1>3, <1>5, <3>1
  <2>2. heard' = heard /\ cursor' = cursor
    BY <2>1, <1>3
  <2>3. \A k \in heard' : 1..k \subseteq heard' \cup Excused(out)
    BY <2>2, <1>4
  <2>4. \A i \in DOMAIN b : b[i].n \in heard' \cup Excused(out)
    BY <2>2, <1>1, <1>4, <1>6
  <2> QED BY <1>6, <2>2, <2>3, <2>4 DEF b
<1>7. CASE \A i \in DOMAIN b : b[i].n > cursor
  <2>1. \A i \in DOMAIN b : i \in News(b) <=> \A j \in 1..(i - 1) : ~b[j].end
    BY <1>5, <1>7
  <2>2. \A k \in 1..out.n, i \in News(b) : k <= b[i].n => k \in heard' \cup Excused(out)
    <3> TAKE k \in 1..out.n, i \in News(b)
    <3> HAVE k <= b[i].n
    <3>1. i \in DOMAIN b /\ \A j \in 1..(i - 1) : ~b[j].end
      BY <1>3, <2>1
    <3>2. CASE k \in heard \cup Excused(out)
      BY <3>2, <1>3
    <3>3. CASE InQueue(out, k)
      <4>1. PICK j \in DOMAIN out.queue : out.queue[j].n = k
        BY <3>3 DEF InQueue
      <4>2. b[i].n < k
        BY <4>1, <3>1, <1>4
      <4> QED BY <4>2, <3>1, <1>1
    <3>4. CASE InBatch(l, k)
      <4>1. PICK j \in DOMAIN b : b[j].n = k
        BY <3>4 DEF InBatch, b
      <4>2. j <= i
        <5>1. ~(i < j)
          BY <3>1, <4>1, <1>1, <1>2 DEF Rising
        <5> QED BY <5>1, <3>1, <1>2
      <4>3. \A x \in 1..(j - 1) : ~b[x].end
        BY <3>1, <4>2, <1>2
      <4>4. j \in News(b)
        BY <4>3, <2>1
      <4> QED BY <4>1, <4>4, <1>3
    <3> QED BY <3>2, <3>3, <3>4, <1>4
  <2>3. \A k \in heard' : 1..k \subseteq heard' \cup Excused(out)
    <3> SUFFICES ASSUME NEW k \in heard', NEW x \in 1..k PROVE x \in heard' \cup Excused(out)
      OBVIOUS
    <3>1. CASE k \in heard
      <4>0. k \in Nat /\ cursor \in Nat /\ k <= cursor
        <5>1. k \in 1..out.n
          BY <3>1
        <5> QED BY <5>1, <3>1, <1>1, <1>4
      <4>1. x \in 1..cursor
        BY <4>0
      <4> QED BY <4>1, <1>3, <1>4
    <3>2. CASE \E i \in News(b) : k = b[i].n
      <4>1. PICK i \in News(b) : k = b[i].n
        BY <3>2
      <4>2. b[i].n \in 1..out.n
        BY <1>1, <1>3
      <4>3. x \in 1..out.n /\ x <= b[i].n
        BY <4>1, <4>2, <1>1
      <4> QED BY <4>3, <2>2
    <3> QED BY <3>1, <3>2, <1>3
  <2>4. (\E i \in DOMAIN b : b[i].end) => ended'
    <3> SUFFICES ASSUME \E i \in DOMAIN b : b[i].end PROVE ended'
      OBVIOUS
    <3> DEFINE E == {i \in DOMAIN b : b[i].end}
    <3>1. E \in SUBSET Nat /\ E # {}
      BY <1>2
    <3>2. PICK i \in E : \A j \in E : i <= j
      BY <3>1, FirstExists
    <3>3. \A j \in 1..(i - 1) : ~b[j].end
      BY <3>2, <1>2
    <3>4. i \in News(b)
      BY <3>2, <3>3, <2>1
    <3> QED BY <3>2, <3>4, <1>3
  <2>5. ASSUME ~ended'
        PROVE  FlowOK(out, heard', cursor') /\ \A i \in DOMAIN b : b[i].n \in heard' \cup Excused(out)
    <3>1. \A i \in DOMAIN b : ~b[i].end
      BY <2>4, <2>5
    <3>2. News(b) = DOMAIN b
      <4>1. \A i \in DOMAIN b : \A j \in 1..(i - 1) : j \in DOMAIN b
        BY <1>2
      <4>2. \A i \in DOMAIN b : i \in News(b)
        BY <4>1, <3>1, <2>1
      <4> QED BY <4>2, <1>3
    <3>3. Len(b) \in DOMAIN b
      BY <1>1, <1>2
    <3>4. PICK i \in News(b) : (\A j \in News(b) : j <= i) /\ cursor' = b[i].seq
      BY <3>2, <3>3, <1>3
    <3>5. i \in DOMAIN b /\ cursor' = b[i].n
      BY <3>2, <3>4, <1>4 DEF Numbered
    <3>6. \A j \in DOMAIN b : b[j].n <= cursor' /\ ~b[j].end
      <4> TAKE j \in DOMAIN b
      <4>1. j <= i
        BY <3>2, <3>4
      <4>2. CASE j = i
        BY <4>2, <3>1, <3>5, <1>1
      <4>3. CASE j < i
        <5>1. b[j].n < b[i].n
          BY <4>3, <3>5, <1>1 DEF Rising
        <5> QED BY <5>1, <3>1, <3>5, <1>1
      <4> QED BY <4>1, <4>2, <4>3, <3>5, <1>2
    <3>7. \A j \in DOMAIN out.queue : out.queue[j].n > cursor'
      <4> TAKE j \in DOMAIN out.queue
      <4>1. b[i].n < out.queue[j].n
        BY <3>5, <1>4
      <4>2. out.queue[j].n \in Nat /\ b[i].n \in Nat
        <5>1. out.queue[j].n \in 1..out.n
          BY DEF TransportOK, Known
        <5> QED BY <5>1, <3>5, <1>1
      <4> QED BY <4>1, <4>2, <3>5
    <3>8. \A k \in 1..cursor' : k \in heard' \cup Excused(out)
      <4> TAKE k \in 1..cursor'
      <4>1. k \in 1..out.n /\ k <= b[i].n
        BY <3>5, <1>1
      <4> QED BY <4>1, <3>4, <2>2
    <3>9. \A k \in heard' : k <= cursor'
      <4> TAKE k \in heard'
      <4>1. CASE k \in heard
        <5>1. k <= cursor /\ cursor < b[i].n /\ k \in Nat
          BY <4>1, <3>5, <1>4, <1>7
        <5> QED BY <5>1, <3>5, <1>1
      <4>2. CASE \E j \in News(b) : k = b[j].n
        BY <4>2, <3>2, <3>6
      <4> QED BY <4>1, <4>2, <1>3
    <3>10. \A k \in 1..out.n : k \in heard' \cup Excused(out) \/ InQueue(out, k) \/ InBatch(l, k)
      BY <1>3, <1>4
    <3>11. \A j \in DOMAIN b : b[j].n \in heard' \cup Excused(out)
      BY <3>2, <1>3
    <3>12. /\ out.seq = out.n
           /\ ~out.open => out.loops = {} /\ out.queue = <<>>
           /\ \A x, y \in out.loops : x = y
      BY DEF FlowOK
    <3> QED BY <1>4, <3>6, <3>7, <3>8, <3>9, <3>10, <3>11, <3>12 DEF FlowOK, b
  <2> QED BY <2>3, <2>4, <2>5 DEF b
<1> QED BY <1>4, <1>6, <1>7

-----------------------------------------------------------------------------
(* The steps of the transport.                                             *)

(* A transport that events of this step were emitted to.                   *)
Reached(t) ==
    /\ TransportOK(t)
    /\ Fresh => FlowOK(t, heard, cursor)
    /\ out.lost \subseteq t.lost /\ Excused(out) \subseteq Excused(t)
    /\ out.ends \subseteq t.ends /\ t.n >= out.n

LEMMA EmitReaches ==
  ASSUME FlowInv, NEW t, Reached(t), NEW end \in BOOLEAN, NEW after \in Afters,
         after # "nothing" => end
  PROVE  Reached(Emit(t, end, after))
<1> DEFINE t2 == Emit(t, end, after)
<1>1. t \in Transport /\ t.n \in Nat /\ out.n \in Nat /\ t.n >= out.n /\ cursor \in 0..out.n
  BY DEF Reached, FlowInv, HostOK, TransportOK, Transport
<1>2. cursor \in 0..t.n
  BY <1>1
<1>3. TransportOK(t2)
  BY EmitKeeps DEF Reached
<1>4. Fresh => FlowOK(t2, heard, cursor)
  BY <1>2, EmitFlows DEF Reached
<1>5. t2.n = t.n + 1 /\ t.ends \subseteq t2.ends /\ t.lost \subseteq t2.lost /\ Excused(t) \subseteq Excused(t2)
  <2>1. Emitted(t, end, NewEvent(t, end, after), Append(t.queue, NewEvent(t, end, after)), t2)
    BY <1>1, EmitCases
  <2>2. Excused(t) \subseteq Excused(t2)
    BY EmitGrows DEF Reached
  <2> HIDE DEF t2
  <2> QED BY <2>1, <2>2 DEF Emitted
<1> HIDE DEF t2
<1>6. t2.n >= out.n
  BY <1>1, <1>5
<1> QED BY <1>3, <1>4, <1>5, <1>6 DEF Reached, t2

(* A step that emits, or that leaves the transport alone.                  *)
LEMMA QuietFlows ==
  ASSUME FlowInv, Reached(out'), UNCHANGED hostVars,
         worker = "down" => worker' = "down", runner' = "cleaned" => runner = "cleaned"
  PROVE  FlowInv'
<1>1. heard' = heard /\ cursor' = cursor /\ ended' = ended
  BY DEF hostVars
<1>2. /\ TransportOK(out') /\ out.lost \subseteq out'.lost
      /\ Excused(out) \subseteq Excused(out') /\ out.ends \subseteq out'.ends
      /\ out'.n >= out.n /\ out'.n \in Nat /\ out.n \in Nat
  BY DEF Reached, TransportOK, Transport, FlowInv
<1>3. HostOK(heard, cursor)'
  BY <1>1, <1>2 DEF FlowInv, HostOK
<1>4. EndLost => EndLost'
  BY <1>2 DEF EndLost
<1>5. Fresh' => Fresh
  BY <1>1, <1>4 DEF Fresh, Working
<1>6. (Fresh => FlowOK(out, heard, cursor))'
  BY <1>1, <1>5 DEF Reached
<1>7. NothingSkipped'
  BY <1>1, <1>2, <1>4 DEF FlowInv, NothingSkipped, EndLost
<1>8. LeavesAfterEnd'
  BY <1>1, <1>2 DEF FlowInv, LeavesAfterEnd
<1> QED BY <1>2, <1>3, <1>6, <1>7, <1>8 DEF FlowInv

LEMMA OutReached ==
  ASSUME FlowInv
  PROVE  Reached(out)
<1>1. out.n >= out.n
  BY DEF FlowInv, TransportOK, Transport
<1> QED BY <1>1 DEF FlowInv, Reached

(* What the Host does with a POST of the batch of l.                       *)
HostTook(l) ==
    /\ HostOK(heard', cursor')
    /\ ended => ended'
    /\ ~EndLost => \A k \in heard' : 1..k \subseteq heard' \cup Excused(out)
    /\ (\E i \in DOMAIN l.batch : l.batch[i].end) => ended' \/ EndLost
    /\ ~ended' /\ ~EndLost => /\ FlowOK(out, heard', cursor')
                             /\ \A i \in DOMAIN l.batch : l.batch[i].n \in heard' \cup Excused(out)

LEMMA HostStep ==
  ASSUME FlowInv, Working, NEW l \in out.loops, HostTakes(l.batch)
  PROVE  HostTook(l)
<1>1. /\ TransportOK(out) /\ heard \subseteq 1..out.n /\ cursor \in 0..out.n
      /\ Fresh => FlowOK(out, heard, cursor)
  BY DEF FlowInv, HostOK
<1>2. /\ heard' \subseteq 1..out.n /\ cursor' \in 0..out.n
      /\ ended => heard' = heard /\ ended'
  BY <1>1, TakesTyped
<1>3. CASE EndLost
  BY <1>2, <1>3 DEF HostTook, HostOK
<1>4. CASE ~EndLost /\ ended
  BY <1>2, <1>4 DEF HostTook, HostOK, FlowInv, NothingSkipped, EndLost
<1>5. CASE ~EndLost /\ ~ended
  <2>1. FlowOK(out, heard, cursor)
    BY <1>1, <1>5 DEF Fresh
  <2>2. /\ \A k \in heard' : 1..k \subseteq heard' \cup Excused(out)
        /\ (\E i \in DOMAIN l.batch : l.batch[i].end) => ended'
        /\ ~ended' => /\ FlowOK(out, heard', cursor')
                     /\ \A i \in DOMAIN l.batch : l.batch[i].n \in heard' \cup Excused(out)
    BY <1>1, <1>5, <2>1, TakesFlows
  <2> QED BY <1>2, <1>5, <2>2 DEF HostTook, HostOK
<1> QED BY <1>3, <1>4, <1>5

(* What settles triggers nothing without a terminal status.                *)
Settled(l, t) ==
    /\ TransportOK(out') /\ out'.n = t.n /\ out'.ends = t.ends /\ out'.lost = t.lost
    /\ out'.dropped = t.dropped
    /\ (\A i \in DOMAIN l.batch : ~l.batch[i].end) => out' = Continued(t, l)
    /\ runner' = "cleaned" => runner = "cleaned" \/ \E i \in DOMAIN l.batch : l.batch[i].end

LEMMA SettleStep ==
  ASSUME NEW t, TransportOK(t), NEW l \in t.loops, Settle(l, t)
  PROVE  Settled(l, t)
<1> DEFINE afters == {l.batch[i].after : i \in DOMAIN l.batch}
           cleaning == runner = "active" /\ CleansUp(afters)
<1>1. /\ out' = IF cleaning \/ "forget" \in afters THEN Forgotten(Continued(t, l)) ELSE Continued(t, l)
      /\ runner' = IF cleaning THEN "cleaned" ELSE runner
  BY Zenon DEF Settle
<1>2. (\A i \in DOMAIN l.batch : ~l.batch[i].end) => \A a \in afters : a = "nothing"
  BY DEF TransportOK, Known
<1>3. cleaning \/ "forget" \in afters => \E a \in afters : a # "nothing"
  BY DEF CleansUp
<1>4. TransportOK(Continued(t, l))
  BY ContinuedKeeps
<1>5. /\ Continued(t, l).n = t.n /\ Continued(t, l).ends = t.ends /\ Continued(t, l).lost = t.lost
      /\ Continued(t, l).dropped = t.dropped
  BY ContinuedFacts, Zenon DEF TransportOK
<1> HIDE DEF afters, cleaning
<1>6. TransportOK(out') /\ out'.n = t.n /\ out'.ends = t.ends /\ out'.lost = t.lost /\ out'.dropped = t.dropped
  <2>1. CASE cleaning \/ "forget" \in afters
    <3>1. out' = Forgotten(Continued(t, l))
      BY <1>1, <2>1
    <3> QED BY <1>4, <1>5, <3>1, ForgottenKeeps
  <2>2. CASE ~(cleaning \/ "forget" \in afters)
    BY <1>1, <1>4, <1>5, <2>2
  <2> QED BY <2>1, <2>2
<1> QED BY <1>1, <1>2, <1>3, <1>6 DEF Settled

LEMMA PostOkFlows ==
  ASSUME FlowInv, NEW l \in out.loops, PostOk(l)
  PROVE  FlowInv'
<1>1. Working /\ HostTakes(l.batch) /\ Settle(l, out) /\ worker' = worker
  BY DEF PostOk, Ready, deliveryVars
<1>2. HostTook(l)
  BY <1>1, HostStep
<1>3. Settled(l, out) /\ TransportOK(out)
  BY <1>1, SettleStep DEF FlowInv
<1>4. /\ TransportOK(out') /\ out'.n = out.n /\ out'.ends = out.ends /\ out'.lost = out.lost
      /\ out'.dropped = out.dropped
      /\ EndLost' <=> EndLost
  BY <1>3 DEF Settled, EndLost
<1>5. HostOK(heard, cursor)'
  BY <1>2, <1>4 DEF HostTook, HostOK
<1>6. (Fresh => FlowOK(out, heard, cursor))'
  <2> SUFFICES ASSUME Fresh' PROVE FlowOK(out', heard', cursor')
    OBVIOUS
  <2>1. ~ended' /\ ~EndLost
    BY <1>4 DEF Fresh
  <2>2. /\ FlowOK(out, heard', cursor')
        /\ \A i \in DOMAIN l.batch : l.batch[i].n \in heard' \cup Excused(out)
        /\ \A i \in DOMAIN l.batch : ~l.batch[i].end
    BY <2>1, <1>2 DEF HostTook
  <2>3. out' = Continued(out, l)
    BY <2>2, <1>3 DEF Settled
  <2>4. FlowOK(Continued(out, l), heard', cursor')
    BY <2>2, <1>3, ContinuedFlows
  <2> QED BY <2>3, <2>4
<1>7. NothingSkipped'
  BY <1>2, <1>4 DEF NothingSkipped, Excused, HostTook, EndLost
<1>8. LeavesAfterEnd'
  BY <1>2, <1>3, <1>4 DEF LeavesAfterEnd, HostTook, Settled, FlowInv, EndLost
<1> QED BY <1>4, <1>5, <1>6, <1>7, <1>8 DEF FlowInv

LEMMA PostGivesUpFlows ==
  ASSUME FlowInv, NEW l \in out.loops, PostGivesUp(l)
  PROVE  FlowInv'
<1> DEFINE s == {l.batch[i].n : i \in DOMAIN l.batch}
           t == [out EXCEPT !.lost = @ \cup s]
<1>1. /\ Working /\ Settle(l, t) /\ worker' = worker
      /\ heard' = heard /\ cursor' = cursor /\ ended' = ended
  BY DEF PostGivesUp, Ready, deliveryVars, hostVars
<1>2. TransportOK(out) /\ HostOK(heard, cursor)
  BY DEF FlowInv
<1>3. \A i \in DOMAIN l.batch : Known(out, l.batch[i])
  BY <1>2 DEF TransportOK
<1>4. s \in SUBSET (1..out.n)
  BY <1>3 DEF Known
<1>5. l.batch \in Seq(Event) /\ \A i \in DOMAIN l.batch : l.batch[i].n \in s
  BY <1>2 DEF TransportOK, Transport, Loop
<1> HIDE DEF s
<1>6. /\ TransportOK(t) /\ t.lost = out.lost \cup s /\ t.dropped = out.dropped
      /\ t.ends = out.ends /\ t.loops = out.loops
      /\ t.n = out.n /\ \A h, c : FlowOK(out, h, c) => FlowOK(t, h, c)
  BY <1>2, <1>4, LostFlows
<1> HIDE DEF t
<1>7. l \in t.loops /\ Settled(l, t)
  BY <1>1, <1>6, SettleStep
<1>8. /\ TransportOK(out') /\ out'.n = out.n /\ out'.ends = out.ends /\ out'.lost = out.lost \cup s
      /\ out'.dropped = out.dropped
      /\ EndLost => EndLost'
  BY <1>6, <1>7 DEF Settled, EndLost
<1>9. (\E i \in DOMAIN l.batch : l.batch[i].end) => EndLost'
  BY <1>3, <1>5, <1>8 DEF Known, EndLost
<1>10. HostOK(heard, cursor)'
  BY <1>1, <1>2, <1>8 DEF HostOK
<1>11. (Fresh => FlowOK(out, heard, cursor))'
  <2> SUFFICES ASSUME Fresh' PROVE FlowOK(out', heard, cursor)
    BY <1>1
  <2>1. Fresh /\ ~EndLost'
    BY <1>1, <1>8 DEF Fresh
  <2>2. FlowOK(t, heard, cursor)
    BY <2>1, <1>6 DEF FlowInv
  <2>3. out' = Continued(t, l)
    BY <2>1, <1>7, <1>9 DEF Settled
  <2>4. \A i \in DOMAIN l.batch : l.batch[i].n \in heard \cup Excused(t)
    BY <1>5, <1>6 DEF Excused
  <2>5. FlowOK(Continued(t, l), heard, cursor)
    BY <2>2, <2>4, <1>6, <1>7, ContinuedFlows
  <2> QED BY <2>3, <2>5
<1>12. NothingSkipped'
  BY <1>1, <1>8 DEF FlowInv, NothingSkipped, Excused
<1>13. LeavesAfterEnd'
  BY <1>1, <1>7, <1>8, <1>9 DEF LeavesAfterEnd, Settled, FlowInv, EndLost
<1> QED BY <1>8, <1>10, <1>11, <1>12, <1>13 DEF FlowInv

(* A batch that is posted again is the same batch.                         *)
LEMMA RetryFlows ==
  ASSUME NEW t, TransportOK(t), NEW l \in t.loops, l.tries < MaxRetries
  PROVE  LET t2 == [t EXCEPT !.loops = (@ \ {l}) \cup {[l EXCEPT !.tries = @ + 1]}]
         IN /\ TransportOK(t2) /\ t2.n = t.n /\ t2.ends = t.ends /\ t2.lost = t.lost /\ t2.dropped = t.dropped
            /\ \A h, c : FlowOK(t, h, c) => FlowOK(t2, h, c)
<1> DEFINE m  == [l EXCEPT !.tries = l.tries + 1]
           t2 == [t EXCEPT !.loops = (t.loops \ {l}) \cup {m}]
<1>1. t \in Transport /\ t.loops \in SUBSET Loop /\ l \in Loop
  BY DEF TransportOK, Transport
<1>2. l.batch \in Seq(Event) \ {<<>>} /\ l.tries \in 0..MaxRetries /\ DOMAIN l = {"batch", "tries"}
  BY <1>1 DEF Loop
<1>3. m.batch = l.batch /\ m \in Loop
  <2>1. m = [batch |-> l.batch, tries |-> l.tries + 1]
    BY <1>1 DEF Loop
  <2>2. l.tries + 1 \in 0..MaxRetries
    BY <1>2, WorkerAssumption
  <2> QED BY <2>1, <2>2, <1>2 DEF Loop
<1> HIDE DEF m
<1>4. DOMAIN t = {"n", "seq", "open", "queue", "loops", "ends", "lost", "dropped"}
  BY <1>1 DEF Transport
<1>5. /\ t2.n = t.n /\ t2.seq = t.seq /\ t2.ends = t.ends /\ t2.lost = t.lost /\ t2.dropped = t.dropped
      /\ t2.open = t.open /\ t2.queue = t.queue /\ t2.loops = (t.loops \ {l}) \cup {m}
  BY <1>4
<1>6. t2 \in Transport
  <2>1. (t.loops \ {l}) \cup {m} \in SUBSET Loop
    BY <1>1, <1>3
  <2> QED BY <1>1, <2>1 DEF Transport
<1> HIDE DEF t2
<1>7. \A x \in t2.loops : \E y \in t.loops : x.batch = y.batch
  BY <1>3, <1>5
<1>8. TransportOK(t2)
  BY <1>5, <1>6, <1>7 DEF TransportOK, Known
<1>9. ASSUME NEW h, NEW c, FlowOK(t, h, c) PROVE FlowOK(t2, h, c)
  <2>1. t.loops = {l} /\ t2.loops = {m}
    BY <1>5, <1>9 DEF FlowOK
  <2>2. \A k : (InQueue(t2, k) <=> InQueue(t, k)) /\ (InBatch(m, k) <=> InBatch(l, k))
    BY <1>3, <1>5 DEF InQueue, InBatch
  <2>6. Excused(t2) = Excused(t)
    BY <1>5 DEF Excused
  <2>3. \A k \in 1..t2.n : k \in h \cup Excused(t2) \/ InQueue(t2, k) \/ \E x \in t2.loops : InBatch(x, k)
    BY <1>5, <1>9, <2>1, <2>2, <2>6 DEF FlowOK
  <2>4. /\ t2.seq = t2.n /\ (~t2.open => t2.loops = {} /\ t2.queue = <<>>)
        /\ Numbered(t2.queue) /\ \A i \in DOMAIN t2.queue : t2.queue[i].n > c
        /\ (\A k \in 1..c : k \in h \cup Excused(t2)) /\ (\A k \in h : k <= c)
    BY <1>5, <1>9, <2>1, <2>6 DEF FlowOK
  <2>5. /\ Numbered(l.batch)
        /\ \A i \in DOMAIN l.batch, j \in DOMAIN t.queue : l.batch[i].n < t.queue[j].n
        /\ \/ \A i \in DOMAIN l.batch : l.batch[i].n > c
           \/ \A i \in DOMAIN l.batch : l.batch[i].n <= c /\ ~l.batch[i].end
    BY <1>9 DEF FlowOK
  <2> QED BY <1>3, <1>5, <2>1, <2>3, <2>4, <2>5 DEF FlowOK
<1> QED BY <1>5, <1>8, <1>9 DEF t2, m

LEMMA PostFailsFlows ==
  ASSUME FlowInv, NEW l \in out.loops, PostFails(l)
  PROVE  FlowInv'
<1>1. /\ Working /\ worker' = worker /\ runner' = runner /\ l.tries < MaxRetries
      /\ out' = [out EXCEPT !.loops = (@ \ {l}) \cup {[l EXCEPT !.tries = @ + 1]}]
      /\ HostTakes(l.batch) \/ UNCHANGED hostVars
  BY DEF PostFails, Ready, deliveryVars, managerVars
<1>2. TransportOK(out)
  BY DEF FlowInv
<1>3. /\ TransportOK(out') /\ out'.n = out.n /\ out'.ends = out.ends /\ out'.lost = out.lost
      /\ out'.dropped = out.dropped
      /\ \A h, c : FlowOK(out, h, c) => FlowOK(out', h, c)
  BY <1>1, <1>2, RetryFlows
<1>4. EndLost' <=> EndLost
  BY <1>3 DEF EndLost
<1>5. CASE UNCHANGED hostVars
  <2>1. heard' = heard /\ cursor' = cursor /\ ended' = ended
    BY <1>5 DEF hostVars
  <2>2. HostOK(heard, cursor)' /\ NothingSkipped' /\ LeavesAfterEnd'
    BY <2>1, <1>1, <1>3 DEF FlowInv, HostOK, NothingSkipped, Excused, LeavesAfterEnd
  <2>3. (Fresh => FlowOK(out, heard, cursor))'
    BY <2>1, <1>1, <1>3, <1>4 DEF FlowInv, Fresh, Working
  <2> QED BY <1>3, <2>2, <2>3 DEF FlowInv
<1>6. CASE HostTakes(l.batch)
  <2>1. HostTook(l)
    BY <1>1, <1>6, HostStep
  <2>2. HostOK(heard, cursor)' /\ NothingSkipped' /\ LeavesAfterEnd'
    BY <2>1, <1>1, <1>3, <1>4 DEF HostTook, FlowInv, HostOK, NothingSkipped, Excused, LeavesAfterEnd, EndLost
  <2>3. (Fresh => FlowOK(out, heard, cursor))'
    BY <2>1, <1>3, <1>4 DEF HostTook, Fresh
  <2> QED BY <1>3, <2>2, <2>3 DEF FlowInv
<1> QED BY <1>1, <1>5, <1>6

LEMMA GoneFlows ==
  ASSUME FlowInv, Gone
  PROVE  FlowInv'
<1> DEFINE t == [out EXCEPT !.open = FALSE, !.queue = <<>>, !.loops = {}]
<1>1. /\ Working /\ worker' = "down" /\ runner' = runner /\ out' = t
      /\ UNCHANGED hostVars \/ \E l \in out.loops : HostTakes(l.batch)
  BY DEF Gone, ExitWorker, Working
<1>2. TransportOK(out) /\ out \in Transport
  BY DEF FlowInv, TransportOK
<1>3. DOMAIN out = {"n", "seq", "open", "queue", "loops", "ends", "lost", "dropped"}
  BY <1>2 DEF Transport
<1>4. /\ t.n = out.n /\ t.seq = out.seq /\ t.ends = out.ends /\ t.lost = out.lost
      /\ t.dropped = out.dropped
      /\ t.queue = <<>> /\ t.loops = {}
  BY <1>3
<1>5. t \in Transport
  <2>1. <<>> \in Seq(Event)
    OBVIOUS
  <2> QED BY <1>2, <2>1 DEF Transport
<1> HIDE DEF t
<1>6. DOMAIN t.queue = {} /\ Len(t.queue) = 0 /\ QueueMax + Cardinality(t.ends) >= 0
  <2>1. Cardinality(t.ends) \in Nat /\ QueueMax \in Nat
    BY <1>2, <1>4, FS_CardinalityType, WorkerAssumption DEF TransportOK
  <2> QED BY <1>4, <2>1
<1>7. TransportOK(t)
  BY <1>2, <1>4, <1>5, <1>6 DEF TransportOK, Rising
<1>8. (EndLost' <=> EndLost) /\ ~Fresh'
  BY <1>1, <1>4 DEF EndLost, Fresh, Working
<1>9. CASE UNCHANGED hostVars
  <2>1. heard' = heard /\ cursor' = cursor /\ ended' = ended
    BY <1>9 DEF hostVars
  <2> QED BY <2>1, <1>1, <1>4, <1>7, <1>8 DEF FlowInv, HostOK, NothingSkipped, Excused, LeavesAfterEnd
<1>10. CASE \E l \in out.loops : HostTakes(l.batch)
  <2>1. PICK l \in out.loops : HostTakes(l.batch)
    BY <1>10
  <2>2. HostTook(l)
    BY <1>1, <2>1, HostStep
  <2>3. HostOK(heard, cursor)' /\ NothingSkipped' /\ LeavesAfterEnd'
    BY <2>2, <1>1, <1>4, <1>8
       DEF HostTook, FlowInv, HostOK, NothingSkipped, Excused, LeavesAfterEnd, EndLost
  <2> QED BY <2>3, <1>1, <1>7, <1>8 DEF FlowInv
<1> QED BY <1>1, <1>9, <1>10

(* Every step.                                                             *)
LEMMA FlowStep ==
  ASSUME FlowInv, [Next]_vars
  PROVE  FlowInv'
<1> USE DEF deliveryVars, managerVars, runnerVars, hostVars
<1>1. Reached(out)
  BY OutReached
<1>2. \A t : Reached(t) => /\ Reached(Receipt(t))
                          /\ \A after \in Afters : Reached(EndStatus(t, after))
  BY EmitReaches DEF Receipt, EndStatus, Afters
<1>3. {"cleanup", "kill", "report", "forget"} \subseteq Afters
  BY DEF Afters
<1>4. ASSUME NEW l \in out.loops, PostOk(l) PROVE FlowInv'
  BY <1>4, PostOkFlows
<1>5. ASSUME NEW l \in out.loops, PostGivesUp(l) PROVE FlowInv'
  BY <1>5, PostGivesUpFlows
<1>6. ASSUME NEW l \in out.loops, PostFails(l) PROVE FlowInv'
  BY <1>6, PostFailsFlows
<1>7. CASE Gone
  BY <1>7, GoneFlows
<1>8. ASSUME /\ Reached(out') /\ UNCHANGED hostVars
             /\ (worker = "down" => worker' = "down") /\ (runner' = "cleaned" => runner = "cleaned")
      PROVE FlowInv'
  BY <1>8, QuietFlows
<1>10. CASE UserMessage
  BY <1>10, <1>1, <1>2, <1>8 DEF UserMessage
<1>11. CASE FetchFailed
  BY <1>11, <1>1, <1>2, <1>3, <1>8 DEF FetchFailed
<1>12. CASE Forked
  BY <1>12, <1>1, <1>8 DEF Forked
<1>13. CASE ForkFailed
  BY <1>13, <1>1, <1>2, <1>3, <1>8 DEF ForkFailed
<1>14. CASE ConfigSent
  BY <1>14, <1>1, <1>2, <1>8 DEF ConfigSent
<1>15. CASE ConfigNotSent
  BY <1>15, <1>1, <1>2, <1>3, <1>8 DEF ConfigNotSent
<1>16. CASE CancelRun
  <2>1. out' = out \/ out' = Receipt(out)
    BY <1>16 DEF CancelRun
  <2> QED BY <1>16, <2>1, <1>1, <1>2, <1>8 DEF CancelRun
<1>17. CASE TakeMessage
  <2>1. out' = EndStatus(out, "cleanup") \/ out' = Receipt(out)
    BY <1>17 DEF TakeMessage
  <2> QED BY <1>17, <2>1, <1>1, <1>2, <1>3, <1>8 DEF TakeMessage
<1>18. CASE TakeExit
  <2>1. out' = out \/ out' = EndStatus(out, "cleanup")
    BY <1>18 DEF TakeExit
  <2> QED BY <1>18, <2>1, <1>1, <1>2, <1>3, <1>8 DEF TakeExit
<1>19. CASE DeadlineFires
  BY <1>19, <1>1, <1>8 DEF DeadlineFires
<1>20. CASE ForceKill
  BY <1>20, <1>1, <1>8 DEF ForceKill
<1>21. CASE ShutDown
  <2>1. out' = out \/ out' = EndStatus(out, "kill")
    BY <1>21 DEF ShutDown
  <2>2. worker = "up"
    BY <1>21 DEF ShutDown, StopWorker
  <2> QED BY <1>21, <2>1, <2>2, <1>1, <1>2, <1>3, <1>8 DEF ShutDown
<1>22. CASE Booted \/ AgentEvent \/ RunnerCommand \/ Finalize \/ Quit \/ Die
  BY <1>22, <1>1, <1>8 DEF Booted, AgentEvent, RunnerCommand, Finalize, Quit, Die
<1>23. CASE Commanded \/ Polled \/ Evicted
  BY <1>23, <1>1, <1>8 DEF Commanded, SendCommand, Polled, HandOver, Evicted, EvictWorker, Local
<1>24. CASE UNCHANGED vars
  BY <1>24, <1>1, <1>8 DEF vars
<1> QED
  BY <1>4, <1>5, <1>6, <1>7, <1>10, <1>11, <1>12, <1>13, <1>14, <1>15, <1>16, <1>17, <1>18,
     <1>19, <1>20, <1>21, <1>22, <1>23, <1>24
     DEF Next, Due, Posts, ProcessExit, Refused, Crash

-----------------------------------------------------------------------------
(* The types of the rest.                                                  *)
LEMMA ProcessStep ==
  ASSUME ProcessOK, [Next]_vars
  PROVE  ProcessOK'
<1> USE DEF deliveryVars, managerVars, runnerVars, hostVars, ProcessOK, DeliveryTypeOK
<1>0. MaxCommands \in Nat /\ MaxEvents \in Nat /\ MaxMishaps \in Nat
  BY DeliveryAssumption, WorkerAssumption
<1>1. \A l : HostTakes(l.batch) => ended' \in BOOLEAN
  BY DEF HostTakes
<1>2. Mishap => mishaps' \in 0..MaxMishaps
  BY <1>0 DEF Mishap
<1>3. \A c : NextCommand(c) => c = dispatched + 1 /\ dispatched' = c /\ c \in 1..MaxCommands
  BY DEF NextCommand, Commands
<1>4. Append(fromRunner, "event") \in Seq({"event", "end"}) /\ Append(fromRunner, "end") \in Seq({"event", "end"})
  OBVIOUS
<1>5. Terminate => killed' \in BOOLEAN /\ forceTimer' \in BOOLEAN
  BY DEF Terminate
<1>6. ASSUME NEW l, NEW t, Settle(l, t)
      PROVE  /\ deadline' \in BOOLEAN /\ killed' \in BOOLEAN /\ forceTimer' \in BOOLEAN
             /\ runner' \in {"none", "active", "cleaned"} /\ busy' \in {"no", "fetching", "reporting"}
             /\ UNCHANGED <<dispatched, terminalSeen, cancellationRequested, exitTaken>>
  BY <1>5, <1>6 DEF Settle
<1>7. ASSUME NEW l \in out.loops, PostOk(l) PROVE ProcessOK'
  BY <1>7, <1>1, <1>6 DEF PostOk
<1>8. ASSUME NEW l \in out.loops, PostGivesUp(l) PROVE ProcessOK'
  <2> DEFINE t == [out EXCEPT !.lost = @ \cup {l.batch[i].n : i \in DOMAIN l.batch}]
  <2>1. Settle(l, t) /\ Mishap /\ UNCHANGED hostVars /\ UNCHANGED <<deliveryVars, runnerVars>>
    BY <1>8 DEF PostGivesUp
  <2> HIDE DEF t
  <2> QED BY <2>1, <1>2, <1>6
<1>9. ASSUME NEW l \in out.loops, PostFails(l) PROVE ProcessOK'
  BY <1>9, <1>1, <1>2 DEF PostFails
<1>10. ASSUME Gone, UNCHANGED mishaps \/ Mishap PROVE ProcessOK'
  <2>1. ended' \in BOOLEAN
    BY <1>1, <1>10 DEF Gone
  <2>2. <<>> \in Seq({"event", "end"})
    OBVIOUS
  <2>3. mishaps' \in 0..MaxMishaps
    BY <1>2, <1>10
  <2> QED BY <1>10, <2>1, <2>2, <2>3 DEF Gone, ExitWorker
<1>11. CASE UserMessage
  BY <1>11, <1>3 DEF UserMessage
<1>12. CASE FetchFailed
  BY <1>12, <1>2 DEF FetchFailed
<1>13. CASE Forked
  BY <1>13 DEF Forked
<1>14. CASE ForkFailed
  BY <1>14, <1>2 DEF ForkFailed
<1>15. CASE ConfigSent
  BY <1>15 DEF ConfigSent
<1>16. CASE ConfigNotSent
  BY <1>16, <1>2 DEF ConfigNotSent
<1>17. CASE CancelRun
  <2>1. dispatched' = dispatched + 1 /\ dispatched' \in 0..MaxCommands
    BY <1>0, <1>3, <1>17 DEF CancelRun
  <2>2. toRunner' \in 0..dispatched'
    BY <2>1, <1>0, <1>17 DEF CancelRun
  <2>3. cancellationRequested' \in BOOLEAN /\ deadline' \in BOOLEAN
    BY <1>17 DEF CancelRun
  <2> QED BY <1>17, <2>1, <2>2, <2>3 DEF CancelRun
<1>18. CASE TakeMessage
  <2>1. Tail(fromRunner) \in Seq({"event", "end"})
    BY <1>18 DEF TakeMessage
  <2>2. terminalSeen' \in BOOLEAN
    BY <1>18 DEF TakeMessage
  <2> QED BY <1>18, <2>1, <2>2 DEF TakeMessage
<1>19. CASE TakeExit
  BY <1>19 DEF TakeExit
<1>20. CASE DeadlineFires
  <2>1. deadline' \in BOOLEAN /\ killed' \in BOOLEAN /\ forceTimer' \in BOOLEAN
    BY <1>5, <1>20 DEF DeadlineFires
  <2> QED BY <1>20, <2>1 DEF DeadlineFires
<1>21. CASE ForceKill
  BY <1>21 DEF ForceKill
<1>22. CASE ShutDown
  BY <1>22, <1>2 DEF ShutDown, StopWorker
<1>23. CASE Booted
  BY <1>23, <1>4 DEF Booted
<1>24. CASE AgentEvent
  BY <1>24, <1>0, <1>4 DEF AgentEvent
<1>25. CASE RunnerCommand
  <2>1. toRunner' \in 0..dispatched
    BY <1>0, <1>25 DEF RunnerCommand
  <2> QED BY <1>25, <2>1, <1>4 DEF RunnerCommand
<1>26. CASE Finalize
  BY <1>26, <1>4 DEF Finalize
<1>27. CASE Quit
  BY <1>27 DEF Quit
<1>28. CASE Die
  BY <1>28, <1>2 DEF Die
<1>29. CASE Commanded
  BY <1>29, <1>0 DEF Commanded, SendCommand, Local
<1>30. CASE Polled
  <2>1. times' \in [Commands -> 0..1]
    BY <1>30 DEF Polled, HandOver
  <2> QED BY <1>30, <2>1 DEF Polled, HandOver, Local
<1>31. CASE Evicted
  BY <1>31, <1>2 DEF Evicted, EvictWorker, Local
<1>32. CASE UNCHANGED vars
  BY <1>32 DEF vars
<1> HIDE DEF ProcessOK, DeliveryTypeOK, deliveryVars, managerVars, runnerVars, hostVars
<1> QED
  BY <1>7, <1>8, <1>9, <1>10, <1>11, <1>12, <1>13, <1>14, <1>15, <1>16, <1>17, <1>18, <1>19,
     <1>20, <1>21, <1>22, <1>23, <1>24, <1>25, <1>26, <1>27, <1>28, <1>29, <1>30, <1>31, <1>32
     DEF Next, Due, Posts, ProcessExit, Refused, Crash

LEMMA InitHolds ==
  ASSUME Init
  PROVE  IInv
<1>1. /\ out.n = 0 /\ out.seq = 0 /\ out.open = FALSE /\ out.queue = <<>> /\ out.loops = {}
      /\ out.ends = {} /\ out.lost = {} /\ out.dropped = {} /\ cursor = 0 /\ heard = {}
  BY DEF Init
<1>2. out \in Transport
  <2>1. <<>> \in Seq(Event)
    OBVIOUS
  <2> QED BY <2>1 DEF Init, Transport
<1>3. DOMAIN out.queue = {} /\ Len(out.queue) = 0 /\ QueueMax + Cardinality(out.ends) >= 0
  <2>1. Cardinality({}) = 0 /\ QueueMax \in Nat
    BY FS_EmptySet, WorkerAssumption
  <2> QED BY <2>1, <1>1
<1>4. TransportOK(out)
  <2>1. IsFiniteSet({})
    BY FS_EmptySet
  <2> QED BY <1>1, <1>2, <1>3, <2>1 DEF TransportOK, Rising
<1>5. FlowOK(out, heard, cursor)
  BY <1>1, <1>3 DEF FlowOK, Numbered
<1>6. HostOK(heard, cursor) /\ NothingSkipped /\ LeavesAfterEnd
  BY <1>1 DEF Init, HostOK, NothingSkipped, LeavesAfterEnd
<1>7. ProcessOK
  <2>0. MaxCommands \in Nat /\ MaxEvents \in Nat /\ MaxMishaps \in Nat
    BY DeliveryAssumption, WorkerAssumption
  <2>1. DeliveryTypeOK
    <3>1. times \in [Commands -> 0..1]
      BY DEF Init, DeliveryInit
    <3>2. sent \in 0..MaxCommands
      BY <2>0 DEF Init, DeliveryInit
    <3>3. evicted \in BOOLEAN /\ worker \in {"up", "stopping", "down"}
      BY DEF Init, DeliveryInit
    <3> QED BY <3>1, <3>2, <3>3 DEF DeliveryTypeOK
  <2>2. <<>> \in Seq({"event", "end"})
    OBVIOUS
  <2>3. /\ {dispatched, toRunner} \subseteq 0..MaxCommands /\ toRunner \in 0..dispatched
        /\ agentEvents \in 0..MaxEvents /\ mishaps \in 0..MaxMishaps
    BY <2>0 DEF Init
  <2>4. {terminalSeen, cancellationRequested, deadline, killed, forceTimer, exitTaken, ended} \subseteq BOOLEAN
    BY DEF Init
  <2> QED BY <2>1, <2>2, <2>3, <2>4 DEF Init, ProcessOK
<1> QED BY <1>4, <1>5, <1>6, <1>7 DEF IInv, FlowInv

LEMMA WellTyped ==
  ASSUME IInv
  PROVE  WorkerTypeOK
<1>1. ProcessOK /\ TransportOK(out) /\ HostOK(heard, cursor)
  BY DEF IInv, FlowInv
<1>2. toRunner \in 0..MaxCommands
  BY <1>1, DeliveryAssumption DEF ProcessOK
<1>3. /\ out.n \in Nat /\ out.seq \in 0..out.n /\ out.open \in BOOLEAN
      /\ out.queue \in Seq(Event) /\ Len(out.queue) <= QueueMax + Cardinality(out.ends)
      /\ \A l \in out.loops : l.batch \in Seq(Event) /\ l.batch # <<>> /\ l.tries \in 0..MaxRetries
      /\ out.ends \cup out.lost \cup out.dropped \subseteq 1..out.n
  BY <1>1 DEF TransportOK, Transport, Loop
<1> QED BY <1>1, <1>2, <1>3 DEF WorkerTypeOK, ProcessOK, HostOK

-----------------------------------------------------------------------------
(* The inductive invariant holds of every behaviour of the Worker, its     *)
(* Runner and the Host's end of the upstream: crashes, evictions, failed   *)
(* and repeated POSTs and dropped events included.                         *)
THEOREM WorkerInvariant == Spec => []IInv
<1>1. Init => IInv
  BY InitHolds
<1>2. IInv /\ [Next]_vars => IInv'
  BY FlowStep, ProcessStep DEF IInv
<1> QED BY <1>1, <1>2, PTL DEF Spec

(* The state of the Worker is well typed; in particular the upstream queue *)
(* never holds more than EMIT_QUEUE_MAX events besides terminal statuses   *)
(* (enforceQueueCap drops no terminal status).                             *)
THEOREM WorkerTyped == Spec => []WorkerTypeOK
<1>1. IInv => WorkerTypeOK
  BY WellTyped
<1> QED BY <1>1, WorkerInvariant, PTL

(* flushLoop, the retries of a POST and the Host's cursor together: no     *)
(* event is heard before an earlier one, unless that one was given up or   *)
(* dropped, and no terminal status is ever dropped; although the cleanup   *)
(* of a run starts the sequence numbers anew, until an end is given up.    *)
THEOREM NoEventIsSkipped == Spec => []NothingSkipped
<1>1. IInv => NothingSkipped
  BY DEF IInv, FlowInv
<1> QED BY <1>1, WorkerInvariant, PTL

(* cleanupRunner: a run leaves the manager's map only when the Host has    *)
(* its terminal status, or the POST of one was given up.                   *)
THEOREM RunEndsBeforeItLeaves == Spec => []LeavesAfterEnd
<1>1. IInv => LeavesAfterEnd
  BY DEF IInv, FlowInv
<1> QED BY <1>1, WorkerInvariant, PTL
=============================================================================
