---------------------------- MODULE ReliableFeed ----------------------------
(***************************************************************************)
(* What the tunnel promises to the run core of the server: a Runtime Host  *)
(* feeds it notifications, each at least once, those of one run in their   *)
(* order, and forgets one only when the server has handled it or when the  *)
(* buffer is full.                                                         *)
(***************************************************************************)
EXTENDS Naturals, Sequences, FiniteSets

CONSTANTS
  Runs,        \* the runs the notifications are about
  MaxSends,    \* bound: notifications of one Host process
  MaxBuffered  \* notifications the Host keeps at most

VARIABLES
  sent,        \* all notifications in their order, a seq is an index
  kept,        \* seqs the Host still keeps
  dropped,     \* seqs that gave way to newer ones
  handled      \* seqs the server has handled

vars == <<sent, kept, dropped, handled>>

(* "event": agui and other messages of a worker, which may be dropped; "fact": a
   status, or a failure reported by the Host. *)
Notifications == [run : Runs, kind : {"event", "fact"}]

Init == sent = << >> /\ kept = {} /\ dropped = {} /\ handled = {}

(* A full buffer gives up one notification, a fact only when it has no event. *)
Send(m) ==
  LET n == Len(sent) + 1
      all == kept \cup {n} IN
  /\ n <= MaxSends
  /\ sent' = Append(sent, m)
  /\ \/ Cardinality(all) <= MaxBuffered /\ kept' = all /\ UNCHANGED dropped
     \/ /\ Cardinality(all) > MaxBuffered
        /\ \E v \in all :
             /\ sent'[v].kind = "fact" => \A x \in all : sent'[x].kind = "fact"
             /\ kept' = all \ {v}
             /\ dropped' = dropped \cup {v}
  /\ UNCHANGED handled

(* Never before an earlier notification of the same run. *)
Handle(n) ==
  /\ \A i \in 1..(n - 1) : sent[i].run = sent[n].run => i \in handled \cup dropped
  /\ handled' = handled \cup {n}
  /\ UNCHANGED <<sent, kept, dropped>>

Forget(gone) ==
  /\ gone \subseteq kept \cap handled
  /\ kept' = kept \ gone
  /\ UNCHANGED <<sent, dropped, handled>>

Next == \/ \E m \in Notifications : Send(m)
        \/ \E n \in 1..Len(sent) : Handle(n)
        \/ \E gone \in SUBSET kept : Forget(gone)

Spec == Init /\ [][Next]_vars
-----------------------------------------------------------------------------
(* What the promise means for a state: nothing disappears unless it was handled
   or dropped, and what was handled of a run has no gap. *)
NothingLost == \A n \in 1..Len(sent) : n \in kept \cup handled \cup dropped

NoGap ==
  \A m, n \in 1..Len(sent) :
    m < n /\ sent[m].run = sent[n].run /\ n \in handled => m \in handled \cup dropped
=============================================================================
