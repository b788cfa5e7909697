------------------------- MODULE HostTunnel_proofs -------------------------
(***************************************************************************)
(* The tunnel implements the reliable feed, for any runs, buffer size and  *)
(* bounds.                                                                 *)
(*                                                                         *)
(* The argument follows a notification: everything numbered before it has  *)
(* been settled (handled, or dropped by a full buffer), or stands before   *)
(* it on the same connection: in the channel, among the entries of the     *)
(* session, in the chain of its run.                                       *)
(***************************************************************************)
EXTENDS HostTunnel, FiniteSetTheorems, WellFoundedInduction, TLAPS

Settled == handled \cup dropped

Holds(q, m) == \E j \in DOMAIN q : q[j] = m
HoldsBefore(q, i, m) == \E j \in DOMAIN q : j < i /\ q[j] = m

(* Only what was sent is anywhere, and chains hold notifications of their run. *)
Known(n) == n \in 1..Len(sent)
KnownInv ==
  /\ Len(sent) <= MaxSends
  /\ \A n \in buffer \cup Settled : Known(n)
  /\ buffer \cap dropped = {}
  /\ \A c \in Conns : \A i \in DOMAIN up[c] : up[c][i] # Handshake => Known(up[c][i])
  /\ \A c \in Conns : \A i \in DOMAIN ackEntries[c] : Known(ackEntries[c][i])
  /\ \A r \in Runs : \A i \in DOMAIN chain[r] :
       Known(chain[r][i].seq) /\ sent[chain[r][i].seq].run = r

(* Who is wired or bound has registered; before that only register is under way,
   and it is so once. *)
WireInv ==
  /\ ws # NoConn => client[ws] = "open" /\ registering[ws] = "over"
  /\ connection # NoConn => registering[connection] = "over"
  /\ \A c \in Conns :
       /\ client[c] = "none" => registering[c] = "no" /\ socket[c] = "none"
       /\ registering[c] = "no" => down[c] = << >> /\ up[c] \in {<< >>, <<Handshake>>}
       /\ registering[c] = "waiting" => down[c] = << >> /\ up[c] = << >>
       /\ registering[c] = "over" => \A i \in DOMAIN up[c] : up[c][i] # Handshake

(* What the server takes from a connection now becomes an entry of its session. *)
Routed(c) == connection = c /\ c \notin failed

EntriesInv ==
  \A c \in Conns : \A i \in DOMAIN ackEntries[c] : \A m \in 1..(ackEntries[c][i] - 1) :
    m \in Settled \/ HoldsBefore(ackEntries[c], i, m)

UpInv ==
  \A c \in Conns : Routed(c) =>
    \A i \in DOMAIN up[c] : \A m \in 1..(up[c][i] - 1) :
      m \in Settled \/ Holds(ackEntries[c], m) \/ HoldsBefore(up[c], i, m)

WiredInv ==
  \A c \in Conns : Routed(c) /\ ws = c /\ socket[c] = "open" =>
    \A m \in 1..Len(sent) : m \in Settled \/ Holds(ackEntries[c], m) \/ Holds(up[c], m)

(* An acknowledgement covers only what is settled. *)
AckInv ==
  \A c \in Conns :
    /\ \A m \in 1..pendingAck[c] : m \in Settled
    /\ \A i \in DOMAIN down[c] : \A m \in 1..down[c][i] : m \in Settled

(* An entry of a session that has not failed is handled or in the chain. *)
LinkInv ==
  \A c \in Conns \ failed : \A i \in DOMAIN ackEntries[c] :
    \/ ackEntries[c][i] \in handled
    \/ Holds(chain[sent[ackEntries[c][i]].run], [conn |-> c, seq |-> ackEntries[c][i]])

ChainInv ==
  \A r \in Runs : \A i \in DOMAIN chain[r] : chain[r][i].conn \notin failed =>
    \A m \in 1..(chain[r][i].seq - 1) : sent[m].run = r =>
      m \in Settled \/ HoldsBefore(chain[r], i, [conn |-> chain[r][i].conn, seq |-> m])

(* A link that waits for the port may outlive its session. *)
BusyInv ==
  \A r \in busy :
    /\ chain[r] # << >>
    /\ \A m \in 1..(chain[r][1].seq - 1) : sent[m].run = r => m \in Settled

HandledInv ==
  /\ \A c \in Conns : processed[c] \subseteq handled
  /\ Feed!NothingLost
  /\ HandledInOrder

IInv == /\ TypeOK /\ KnownInv /\ WireInv /\ EntriesInv /\ UpInv /\ WiredInv
        /\ AckInv /\ LinkInv /\ ChainInv /\ BusyInv /\ HandledInv
-----------------------------------------------------------------------------
(* Operators on sets of numbers *)

(* A nonempty set of numbers has a least element. *)
LEMMA OldestExists ==
  ASSUME NEW S \in SUBSET Nat, S # {}
  PROVE  Oldest(S) \in S /\ \A k \in S : Oldest(S) <= k
<1>1. PICK x \in S : \A y \in S : ~(<<y, x>> \in OpToRel(<, Nat))
  BY NatLessThanWellFounded, WFMin, Zenon
<1>2. \A y \in S : ~(y < x)
  BY <1>1, S \subseteq Nat, Zenon DEF OpToRel
<1>3. \A y \in S : x <= y
  BY <1>2
<1> QED BY <1>3 DEF Oldest

(* A bounded one has a greatest element. *)
LEMMA LastExists ==
  ASSUME NEW N \in Nat, NEW S \in SUBSET (1..N), S # {}
  PROVE  Last(S) \in S /\ \A k \in S : k <= Last(S)
<1> DEFINE B == {m \in Nat : \A k \in S : k <= m}
<1>1. N \in B
  OBVIOUS
<1>2. Oldest(B) \in B /\ \A k \in B : Oldest(B) <= k
  <2>1. B \in SUBSET Nat /\ B # {}
    BY <1>1
  <2> QED BY <2>1, OldestExists
<1> DEFINE x == Oldest(B)
<1> HIDE DEF x
<1>3. x \in Nat /\ (\A k \in S : k <= x) /\ \A y \in Nat : (\A k \in S : k <= y) => x <= y
  BY <1>2 DEF x
<1>4. x \in S
  <2> SUFFICES ASSUME x \notin S PROVE FALSE
    OBVIOUS
  <2>1. \A k \in S : k \in Nat /\ k >= 1 /\ k <= x - 1
    BY <1>3
  <2>2. PICK k \in S : TRUE
    OBVIOUS
  <2>3. k \in Nat /\ k >= 1 /\ k <= x - 1
    BY <2>1, <2>2
  <2>4. x - 1 \in Nat
    BY <2>3, <1>3
  <2>5. x <= x - 1
    BY <1>3, <2>1, <2>4
  <2> QED BY <1>3, <2>5
<1>5. \E n \in S : \A k \in S : n >= k
  BY <1>3, <1>4
<1>6. Last(S) \in S /\ \A k \in S : Last(S) >= k
  BY <1>5, Zenon DEF Last
<1> QED BY <1>6

(* Every set of seqs can be listed in order. *)
Listed(S) == \E q \in [1..Cardinality(S) -> S] :
               /\ \A i, j \in DOMAIN q : i < j => q[i] < q[j]
               /\ \A n \in S : \E i \in DOMAIN q : q[i] = n

LEMMA SeqsFinite ==
  ASSUME TunnelAssumption, NEW S \in SUBSET Seqs
  PROVE  IsFiniteSet(S) /\ Cardinality(S) \in Nat
<1>1. IsFiniteSet(1..MaxSends)
  BY FS_Interval DEF TunnelAssumption
<1> QED BY <1>1, FS_Subset, FS_CardinalityType DEF Seqs

LEMMA AllListed ==
  ASSUME TunnelAssumption
  PROVE  \A S \in SUBSET Seqs : Listed(S)
<1> DEFINE Bad == {S \in SUBSET Seqs : ~Listed(S)}
           T == {k \in Nat : \E S \in Bad : Cardinality(S) = k}
<1> SUFFICES ASSUME Bad # {} PROVE FALSE
  OBVIOUS
<1>1. T # {}
  BY SeqsFinite
<1> DEFINE x == Oldest(T)
<1>2. x \in T
  BY <1>1, OldestExists
<1>3. \A y \in T : x <= y
  BY <1>1, OldestExists
<1> HIDE DEF x
<1>4. PICK S \in Bad : Cardinality(S) = x
  BY <1>2
<1>5. CASE S = {}
  <2>1. Cardinality(S) = 0
    BY <1>5, FS_EmptySet
  <2> DEFINE q == [i \in 1..0 |-> i]
  <2>2. q \in [1..Cardinality(S) -> S] /\ DOMAIN q = {}
    BY <2>1
  <2> QED BY <2>2, <1>5 DEF Listed
<1>6. CASE S # {}
  <2> DEFINE z == Last(S)
             R == S \ {z}
             k == Cardinality(R)
  <2>1. z \in S /\ \A n \in S : n <= z
    BY <1>6, LastExists DEF TunnelAssumption, Seqs
  <2>2. /\ IsFiniteSet(S) /\ Cardinality(S) \in Nat
        /\ Cardinality(R) = Cardinality(S) - 1 /\ k \in Nat
    BY <2>1, SeqsFinite, FS_RemoveElement
  <2> HIDE DEF z, k
  <2>a. S \subseteq Nat /\ z \in Nat
    BY <2>1 DEF Seqs
  <2>3. Listed(R)
    <3> SUFFICES ASSUME ~Listed(R) PROVE FALSE
      OBVIOUS
    <3>1. R \in Bad
      OBVIOUS
    <3>2. k \in T
      BY <3>1, <2>2 DEF k
    <3>3. x = k + 1 /\ x <= k
      BY <3>2, <2>2, <1>3, <1>4 DEF k
    <3> QED BY <3>3, <2>2
  <2>4. PICK q \in [1..k -> R] :
          /\ \A i, j \in DOMAIN q : i < j => q[i] < q[j]
          /\ \A n \in R : \E i \in DOMAIN q : q[i] = n
    BY <2>3 DEF Listed, k
  <2> DEFINE p == [i \in 1..(k + 1) |-> IF i = k + 1 THEN z ELSE q[i]]
  <2>5. k + 1 = Cardinality(S)
    BY <2>2 DEF k
  <2>6. p \in [1..Cardinality(S) -> S] /\ DOMAIN p = 1..(k + 1)
    BY <2>1, <2>2, <2>4, <2>5
  <2>7. \A i \in 1..k : p[i] = q[i] /\ q[i] \in R
    BY <2>2, <2>4
  <2>8. p[k + 1] = z
    BY <2>2
  <2>9. \A n \in R : n < z
    BY <2>1, <2>a
  <2>10. \A i, j \in DOMAIN p : i < j => p[i] < p[j]
    <3> TAKE i, j \in DOMAIN p
    <3> HAVE i < j
    <3>1. i \in 1..k
      BY <2>2, <2>6
    <3>2. CASE j = k + 1
      BY <3>1, <3>2, <2>7, <2>8, <2>9
    <3>3. CASE j \in 1..k
      BY <3>1, <3>3, <2>7, <2>4
    <3> QED BY <3>2, <3>3, <2>2, <2>6
  <2>11. \A n \in S : \E i \in DOMAIN p : p[i] = n
    <3> TAKE n \in S
    <3>1. CASE n = z
      BY <3>1, <2>2, <2>6, <2>8
    <3>2. CASE n # z
      <4>1. PICK i \in 1..k : q[i] = n
        BY <3>2, <2>4
      <4> QED BY <4>1, <2>2, <2>6, <2>7
    <3> QED BY <3>1, <3>2
  <2> QED BY <2>6, <2>10, <2>11 DEF Listed
<1> QED BY <1>5, <1>6

(* So the replay holds all that is buffered, in order. *)
LEMMA ReplayLists ==
  ASSUME TunnelAssumption, NEW S \in SUBSET Seqs
  PROVE  /\ Replay(S) \in Seq(S)
         /\ \A i, j \in DOMAIN Replay(S) : i < j => Replay(S)[i] < Replay(S)[j]
         /\ \A n \in S : \E i \in DOMAIN Replay(S) : Replay(S)[i] = n
<1> DEFINE k == Cardinality(S)
           q == InOrder(S)
<1>1. k \in Nat /\ IsFiniteSet(S)
  BY SeqsFinite
<1>2. \E p \in [1..k -> S] : \A i, j \in DOMAIN p : i < j => p[i] < p[j]
  BY AllListed DEF Listed
<1>3. q \in [1..k -> S] /\ \A i, j \in DOMAIN q : i < j => q[i] < q[j]
  BY <1>2 DEF InOrder
<1>4. \A n \in S : \E i \in DOMAIN q : q[i] = n
  <2>a. S \subseteq Nat
    BY DEF Seqs
  <2>b. \A i, j \in 1..k : q[i] = q[j] => i = j
    <3> SUFFICES ASSUME NEW i \in 1..k, NEW j \in 1..k, q[i] = q[j], i # j PROVE FALSE
      OBVIOUS
    <3> DEFINE a == q[i]
               b == q[j]
    <3>1. a \in Nat /\ b \in Nat /\ a = b
      BY <1>3, <2>a
    <3>2. i < j => a < b
      BY <1>3
    <3>3. j < i => b < a
      BY <1>3
    <3> HIDE DEF a, b
    <3> QED BY <3>1, <3>2, <3>3, <1>1
  <2>1. q \in Injection(1..k, S)
    BY <1>3, <2>b DEF Injection, IsInjective
  <2>2. IsFiniteSet(1..k) /\ Cardinality(1..k) = k
    BY <1>1, FS_Interval
  <2>3. q \in Surjection(1..k, S)
    BY <2>1, <2>2, <1>1, FS_Injection
  <2> QED BY <2>3, <1>3 DEF Surjection
<1>5. q \in Seq(S)
  BY <1>1, <1>3
<1> QED BY <1>3, <1>4, <1>5 DEF Replay
-----------------------------------------------------------------------------
(* Operators on sequences: what a step of a queue does to the order in it *)

LEMMA AppendOrder ==
  ASSUME NEW S, NEW q \in Seq(S), NEW x \in S
  PROVE  /\ Append(q, x) \in Seq(S)
         /\ \A m : Holds(q, m) \/ m = x => Holds(Append(q, x), m)
         /\ \A i \in DOMAIN Append(q, x) :
              \/ /\ i \in DOMAIN q /\ Append(q, x)[i] = q[i]
                 /\ \A m : HoldsBefore(q, i, m) => HoldsBefore(Append(q, x), i, m)
              \/ /\ Append(q, x)[i] = x
                 /\ \A m : Holds(q, m) => HoldsBefore(Append(q, x), i, m)
<1> DEFINE p == Append(q, x)
<1>1. /\ p \in Seq(S) /\ Len(q) \in Nat
      /\ DOMAIN p = 1..(Len(q) + 1) /\ DOMAIN q = 1..Len(q)
      /\ p[Len(q) + 1] = x /\ \A i \in 1..Len(q) : p[i] = q[i]
  OBVIOUS
<1> HIDE DEF p
<1>2. p \in Seq(S)
  BY <1>1
<1>3. \A m : Holds(q, m) \/ m = x => Holds(p, m)
  BY <1>1 DEF Holds
<1>4. ASSUME NEW i \in DOMAIN p
      PROVE  \/ /\ i \in DOMAIN q /\ p[i] = q[i]
                /\ \A m : HoldsBefore(q, i, m) => HoldsBefore(p, i, m)
             \/ /\ p[i] = x
                /\ \A m : Holds(q, m) => HoldsBefore(p, i, m)
  <2>1. CASE i \in 1..Len(q)
    BY <1>1, <2>1 DEF HoldsBefore
  <2>2. CASE i = Len(q) + 1
    BY <1>1, <2>2 DEF HoldsBefore, Holds
  <2> QED BY <1>1, <2>1, <2>2
<1> QED BY <1>2, <1>3, <1>4 DEF p

LEMMA TailOrder ==
  ASSUME NEW S, NEW q \in Seq(S), q # << >>
  PROVE  /\ Tail(q) \in Seq(S) /\ 1 \in DOMAIN q /\ Head(q) = q[1] /\ q[1] \in S
         /\ \A m : Holds(q, m) => m = q[1] \/ Holds(Tail(q), m)
         /\ \A i \in DOMAIN Tail(q) : \E j \in DOMAIN q :
              /\ Tail(q)[i] = q[j]
              /\ \A m : HoldsBefore(q, j, m) => m = q[1] \/ HoldsBefore(Tail(q), i, m)
<1> DEFINE p == Tail(q)
<1>1. /\ p \in Seq(S) /\ Len(q) \in Nat /\ Len(q) >= 1 /\ Head(q) = q[1]
      /\ DOMAIN p = 1..(Len(q) - 1) /\ DOMAIN q = 1..Len(q)
      /\ \A i \in 1..(Len(q) - 1) : p[i] = q[i + 1]
      /\ q[1] \in S
  OBVIOUS
<1> HIDE DEF p
<1>2. \A j \in DOMAIN q : j = 1 \/ (j - 1 \in DOMAIN p /\ p[j - 1] = q[j])
  BY <1>1
<1>3. \A m : Holds(q, m) => m = q[1] \/ Holds(p, m)
  BY <1>2 DEF Holds
<1>4. ASSUME NEW i \in DOMAIN p
      PROVE  /\ i + 1 \in DOMAIN q /\ p[i] = q[i + 1]
             /\ \A m : HoldsBefore(q, i + 1, m) => m = q[1] \/ HoldsBefore(p, i, m)
  <2>1. i + 1 \in DOMAIN q /\ p[i] = q[i + 1]
    BY <1>1
  <2>2. ASSUME NEW m, HoldsBefore(q, i + 1, m), m # q[1] PROVE HoldsBefore(p, i, m)
    <3>1. PICK j \in DOMAIN q : j < i + 1 /\ q[j] = m
      BY <2>2 DEF HoldsBefore
    <3>2. j - 1 \in DOMAIN p /\ p[j - 1] = m
      BY <3>1, <2>2, <1>2
    <3>3. j - 1 < i
      BY <3>1, <1>1
    <3> QED BY <3>2, <3>3 DEF HoldsBefore
  <2> QED BY <2>1, <2>2
<1> QED BY <1>1, <1>3, <1>4 DEF p

LEMMA ConcatOrder ==
  ASSUME NEW S, NEW q \in Seq(S), NEW t \in Seq(S)
  PROVE  /\ q \o t \in Seq(S)
         /\ \A m : Holds(q, m) \/ Holds(t, m) => Holds(q \o t, m)
         /\ \A i \in DOMAIN (q \o t) :
              \/ /\ i \in DOMAIN q /\ (q \o t)[i] = q[i]
                 /\ \A m : HoldsBefore(q, i, m) => HoldsBefore(q \o t, i, m)
              \/ \E j \in DOMAIN t :
                   /\ (q \o t)[i] = t[j]
                   /\ \A m : Holds(q, m) \/ HoldsBefore(t, j, m) => HoldsBefore(q \o t, i, m)
<1> DEFINE p == q \o t
<1>1. /\ p \in Seq(S) /\ Len(q) \in Nat /\ Len(t) \in Nat
      /\ DOMAIN p = 1..(Len(q) + Len(t)) /\ DOMAIN q = 1..Len(q) /\ DOMAIN t = 1..Len(t)
      /\ \A i \in 1..(Len(q) + Len(t)) :
           p[i] = IF i <= Len(q) THEN q[i] ELSE t[i - Len(q)]
  OBVIOUS
<1> HIDE DEF p
<1>2. \A i \in DOMAIN q : i \in DOMAIN p /\ p[i] = q[i]
  BY <1>1
<1>3. \A j \in DOMAIN t : j + Len(q) \in DOMAIN p /\ p[j + Len(q)] = t[j]
  BY <1>1
<1>4. \A m : Holds(q, m) \/ Holds(t, m) => Holds(p, m)
  BY <1>2, <1>3 DEF Holds
<1>5. ASSUME NEW i \in DOMAIN p
      PROVE  \/ /\ i \in DOMAIN q /\ p[i] = q[i]
                /\ \A m : HoldsBefore(q, i, m) => HoldsBefore(p, i, m)
             \/ \E j \in DOMAIN t :
                  /\ p[i] = t[j]
                  /\ \A m : Holds(q, m) \/ HoldsBefore(t, j, m) => HoldsBefore(p, i, m)
  <2>1. CASE i <= Len(q)
    <3>1. i \in DOMAIN q
      BY <2>1, <1>1
    <3> QED BY <3>1, <1>2 DEF HoldsBefore
  <2>2. CASE ~(i <= Len(q))
    <3> DEFINE j == i - Len(q)
    <3>1. j \in DOMAIN t /\ i = j + Len(q) /\ j \in Nat /\ Len(q) \in Nat
      BY <2>2, <1>1
    <3>2. p[i] = t[j]
      BY <3>1, <1>3
    <3>3. \A k \in DOMAIN q : k < i
      BY <2>2, <1>1
    <3>4. \A k \in DOMAIN t : k < j => k + Len(q) < i
      BY <3>1, <1>1
    <3> HIDE DEF j
    <3>5. \A m : Holds(q, m) => HoldsBefore(p, i, m)
      BY <3>3, <1>2 DEF Holds, HoldsBefore
    <3>6. \A m : HoldsBefore(t, j, m) => HoldsBefore(p, i, m)
      BY <3>4, <1>3 DEF HoldsBefore
    <3> QED BY <3>1, <3>2, <3>5, <3>6
  <2> QED BY <2>1, <2>2
<1> QED BY <1>1, <1>4, <1>5 DEF p

LEMMA RestOrder ==
  ASSUME NEW S, NEW q \in Seq(S), NEW k \in 1..Len(q)
  PROVE  LET p == SubSeq(q, k + 1, Len(q)) IN
         /\ p \in Seq(S)
         /\ \A m : Holds(q, m) => (\E l \in 1..k : q[l] = m) \/ Holds(p, m)
         /\ \A i \in DOMAIN p : \E j \in DOMAIN q :
              /\ p[i] = q[j]
              /\ \A m : HoldsBefore(q, j, m) =>
                   (\E l \in 1..k : q[l] = m) \/ HoldsBefore(p, i, m)
<1> DEFINE p == SubSeq(q, k + 1, Len(q))
<1>1. /\ p \in Seq(S) /\ Len(q) \in Nat /\ k \in Nat /\ k <= Len(q)
      /\ DOMAIN p = 1..(Len(q) - k) /\ DOMAIN q = 1..Len(q)
      /\ \A i \in 1..(Len(q) - k) : p[i] = q[i + k]
  OBVIOUS
<1> HIDE DEF p
<1>2. \A j \in DOMAIN q : j \in 1..k \/ (j - k \in DOMAIN p /\ p[j - k] = q[j])
  BY <1>1
<1>3. \A m : Holds(q, m) => (\E l \in 1..k : q[l] = m) \/ Holds(p, m)
  BY <1>2 DEF Holds
<1>4. ASSUME NEW i \in DOMAIN p
      PROVE  /\ i + k \in DOMAIN q /\ p[i] = q[i + k]
             /\ \A m : HoldsBefore(q, i + k, m) =>
                  (\E l \in 1..k : q[l] = m) \/ HoldsBefore(p, i, m)
  <2>1. i + k \in DOMAIN q /\ p[i] = q[i + k]
    BY <1>1
  <2>2. ASSUME NEW m, HoldsBefore(q, i + k, m), ~(\E l \in 1..k : q[l] = m)
        PROVE  HoldsBefore(p, i, m)
    <3>1. PICK j \in DOMAIN q : j < i + k /\ q[j] = m
      BY <2>2 DEF HoldsBefore
    <3>2. j - k \in DOMAIN p /\ p[j - k] = m
      BY <3>1, <2>2, <1>2
    <3>3. j - k < i
      BY <3>1, <1>1
    <3> QED BY <3>2, <3>3 DEF HoldsBefore
  <2> QED BY <2>1, <2>2
<1> QED BY <1>1, <1>3, <1>4 DEF p

(* A full buffer gives up one notification, a fact only when it has no event. *)
LEMMA TrimGivesUpOne ==
  ASSUME TunnelAssumption, NEW S \in SUBSET Seqs, Cardinality(S) <= MaxBuffered + 1,
         NEW s, \A n \in S : s[n].kind \in {"event", "fact"}
  PROVE  /\ Trim(S, s) \subseteq S /\ Cardinality(Trim(S, s)) <= MaxBuffered
         /\ \/ Cardinality(S) <= MaxBuffered /\ Trim(S, s) = S
            \/ /\ Cardinality(S) > MaxBuffered
               /\ \E v \in S : /\ Trim(S, s) = S \ {v}
                               /\ s[v].kind = "fact" => \A x \in S : s[x].kind = "fact"
<1>0. Cardinality(S) \in Nat /\ IsFiniteSet(S) /\ MaxBuffered \in Nat
  BY SeqsFinite DEF TunnelAssumption
<1>1. CASE Cardinality(S) <= MaxBuffered
  BY <1>1 DEF Trim
<1>2. CASE ~(Cardinality(S) <= MaxBuffered)
  <2> DEFINE events == {n \in S : s[n].kind = "event"}
             pool == IF events # {} THEN events ELSE S
             v == Oldest(pool)
  <2>1. pool # {} /\ pool \subseteq S
    BY <1>2, <1>0, FS_EmptySet DEF TunnelAssumption
  <2>2. v \in pool
    <3> HIDE DEF pool
    <3>1. pool \in SUBSET Nat
      BY <2>1 DEF Seqs
    <3>2. pool # {}
      BY <2>1
    <3> QED BY <3>1, <3>2, OldestExists
  <2>3. Trim(S, s) = S \ {v}
    BY <1>2, Zenon DEF Trim
  <2>4. s[v].kind = "fact" => \A x \in S : s[x].kind = "fact"
    <3>1. ASSUME s[v].kind = "fact" PROVE events = {}
      <4>1. CASE events # {}
        <5>1. v \in events
          BY <4>1, <2>2
        <5> QED BY <5>1, <3>1
      <4> QED BY <4>1
    <3>2. events = {} => \A x \in S : s[x].kind = "fact"
      OBVIOUS
    <3> QED BY <3>1, <3>2
  <2> HIDE DEF v, pool
  <2>5. v \in S
    BY <2>1, <2>2
  <2>6. Cardinality(S \ {v}) = Cardinality(S) - 1
    BY <2>5, <1>0, FS_RemoveElement
  <2> QED BY <2>3, <2>4, <2>5, <2>6, <1>0, <1>2
<1> QED BY <1>1, <1>2
-----------------------------------------------------------------------------
(* The invariant is inductive *)

LEMMA InitIInv ==
  ASSUME TunnelAssumption, Init
  PROVE  IInv
<1>1. TypeOK
  <2>1. Cardinality(buffer) <= MaxBuffered
    BY FS_EmptySet DEF Init, TunnelAssumption
  <2> QED BY <2>1 DEF Init, TypeOK, Conns, NoConn
<1>2. KnownInv /\ WireInv /\ EntriesInv /\ UpInv /\ WiredInv
  BY DEF Init, TunnelAssumption, KnownInv, Known, Settled, WireInv, EntriesInv, UpInv,
         WiredInv, Routed, NoConn, Conns
<1>3. AckInv /\ LinkInv /\ ChainInv /\ BusyInv /\ HandledInv
  BY DEF Init, AckInv, LinkInv, ChainInv, BusyInv, HandledInv, HandledInOrder,
         Feed!NothingLost, Feed!NoGap
<1> QED BY <1>1, <1>2, <1>3 DEF IInv

(* What a step that handles nothing and touches no session keeps. *)
SessionsInv ==
  /\ EntriesInv /\ LinkInv /\ ChainInv /\ BusyInv /\ HandledInOrder
  /\ \A c \in Conns : processed[c] \subseteq handled

LEMMA SessionsUntouched ==
  ASSUME SessionsInv,
         UNCHANGED <<sent, dropped, handled, ackEntries, processed, failed, chain, busy>>
  PROVE  SessionsInv'
<1>1. EntriesInv' /\ LinkInv' /\ ChainInv'
  BY DEF SessionsInv, EntriesInv, LinkInv, ChainInv, Settled
<1>2. BusyInv' /\ HandledInOrder'
  BY DEF SessionsInv, BusyInv, HandledInOrder, Feed!NoGap, Settled
<1> QED BY <1>1, <1>2 DEF SessionsInv

LEMMA IInvParts ==
  IInv <=> /\ TypeOK /\ KnownInv /\ WireInv /\ UpInv /\ WiredInv /\ AckInv
           /\ SessionsInv /\ Feed!NothingLost
BY DEF IInv, SessionsInv, HandledInv

LEMMA ConnectStep ==
  ASSUME TunnelAssumption, IInv, NEW c \in Conns, Connect(c)
  PROVE  IInv'
<1> USE DEF Connect, hostVars, serverVars, ackVars
<1>0. TypeOK /\ KnownInv /\ WireInv /\ UpInv /\ WiredInv /\ AckInv /\ SessionsInv /\ Feed!NothingLost
  BY IInvParts
<1>1. TypeOK'
  <2>1. <<Handshake>> \in Seq(Seqs \cup {Handshake})
    OBVIOUS
  <2> QED BY <1>0, <2>1 DEF TypeOK
<1>u. /\ up'[c] = <<Handshake>> /\ \A d \in Conns \ {c} : up'[d] = up[d] /\ socket'[d] = socket[d]
      /\ ws # c
  BY <1>0 DEF TypeOK, WireInv, NoConn, Conns
<1>v. \A i \in DOMAIN up'[c] : up'[c][i] = Handshake
  BY <1>u
<1>2. KnownInv'
  <2>1. \A d \in Conns : \A i \in DOMAIN up'[d] : up'[d][i] # Handshake => up'[d][i] \in 1..Len(sent)
    <3>1. \A d \in Conns : \A i \in DOMAIN up[d] : up[d][i] # Handshake => up[d][i] \in 1..Len(sent)
      BY <1>0 DEF KnownInv, Known
    <3> QED BY <3>1, <1>u, <1>v
  <2> QED BY <1>0, <2>1 DEF KnownInv, Known, Settled
<1>3. WireInv'
  <2>1. client' = [client EXCEPT ![c] = "open"] /\ registering[c] = "no" /\ down[c] = << >>
    BY <1>0 DEF WireInv
  <2>2. \A d \in Conns \ {c} : client'[d] = client[d]
    BY <1>0 DEF TypeOK
  <2>3. client'[c] = "open"
    BY <1>0, <2>1 DEF TypeOK
  <2>4. UNCHANGED <<ws, connection, registering, down>>
    OBVIOUS
  <2>5. /\ ws # NoConn => client'[ws] = "open" /\ registering[ws] = "over"
        /\ connection # NoConn => registering[connection] = "over"
    BY <1>0, <2>2, <2>3 DEF WireInv, TypeOK
  <2>6. ASSUME NEW d \in Conns
        PROVE  /\ client'[d] = "none" => registering[d] = "no" /\ socket'[d] = "none"
               /\ registering[d] = "no" => down[d] = << >> /\ up'[d] \in {<< >>, <<Handshake>>}
               /\ registering[d] = "waiting" => down[d] = << >> /\ up'[d] = << >>
               /\ registering[d] = "over" => \A i \in DOMAIN up'[d] : up'[d][i] # Handshake
    <3>1. CASE d = c
      BY <3>1, <1>u, <2>1, <2>3
    <3>2. CASE d # c
      BY <3>2, <1>0, <1>u, <2>2 DEF WireInv
    <3> QED BY <3>1, <3>2
  <2> QED BY <2>4, <2>5, <2>6 DEF WireInv
<1>4. UpInv'
  BY <1>0 DEF TypeOK, UpInv, Routed, Settled, Handshake
<1>5. WiredInv'
  BY <1>0, <1>u DEF WiredInv, Routed, Settled
<1>6. AckInv'
  BY <1>0 DEF AckInv, Settled
<1>7. SessionsInv'
  BY <1>0, SessionsUntouched
<1>8. Feed!NothingLost'
  BY <1>0 DEF Feed!NothingLost
<1> QED BY <1>1, <1>2, <1>3, <1>4, <1>5, <1>6, <1>7, <1>8
        DEF IInv, SessionsInv, HandledInv

(* The feed counts with the same Cardinality. *)
LEMMA FeedCardinality == \A S : Feed!Cardinality(S) = Cardinality(S)
BY Zenon DEF Feed!Cardinality, Cardinality, Feed!IsFiniteSet, IsFiniteSet

LEMMA SendStep ==
  ASSUME TunnelAssumption, IInv, NEW m \in Notifications, Send(m)
  PROVE  IInv' /\ Feed!Send(m)
<1> DEFINE n == Len(sent) + 1
           all == buffer \cup {n}
<1>0. TypeOK /\ KnownInv /\ WireInv /\ UpInv /\ WiredInv /\ AckInv /\ SessionsInv /\ Feed!NothingLost
  BY IInvParts
<1>1. /\ sent' \in Seq(Notifications) /\ Len(sent) \in Nat /\ n \in Seqs /\ n \in Nat /\ Len(sent') = n
      /\ sent'[n] = m /\ \A x \in 1..Len(sent) : sent'[x] = sent[x]
  BY <1>0 DEF TypeOK, Send, Seqs, TunnelAssumption
<1>2. /\ all \subseteq Seqs /\ Cardinality(all) <= MaxBuffered + 1
      /\ \A x \in all : x \in 1..Len(sent') /\ sent'[x].kind \in {"event", "fact"}
  <2>1. buffer \subseteq Seqs /\ IsFiniteSet(buffer) /\ Cardinality(buffer) \in Nat
    <3>1. buffer \in SUBSET Seqs
      BY <1>0 DEF TypeOK
    <3> QED BY <3>1, SeqsFinite
  <2> HIDE DEF n
  <2>2. Cardinality(all) <= Cardinality(buffer) + 1
    <3>1. Cardinality(buffer \cup {n}) = IF n \in buffer THEN Cardinality(buffer)
                                        ELSE Cardinality(buffer) + 1
      BY <2>1, FS_AddElement
    <3> QED BY <2>1, <3>1
  <2>3. \A x \in 1..Len(sent') : sent'[x] \in Notifications
    BY <1>1
  <2>4. \A x \in all : x \in 1..Len(sent')
    BY <1>0, <1>1 DEF KnownInv, Known, n
  <2>5. all \subseteq Seqs
    BY <1>1, <2>1
  <2>6. Cardinality(all) \in Nat
    BY <2>5, SeqsFinite
  <2>7. Cardinality(all) <= MaxBuffered + 1
    BY <2>1, <2>2, <2>6, <1>0 DEF TypeOK, TunnelAssumption
  <2> QED BY <2>3, <2>4, <2>5, <2>7 DEF Notifications
<1>3. buffer' = Trim(all, sent') /\ dropped' = dropped \cup (all \ buffer')
  BY DEF Send
<1> HIDE DEF n
<1>4. buffer' \subseteq all /\ Cardinality(buffer') <= MaxBuffered
  <2> HIDE DEF all
  <2> QED BY <1>2, <1>3, TrimGivesUpOne
<1>5. UNCHANGED <<ws, client, socket, down, serverVars, handled, mishaps>>
  BY DEF Send
<1>6. \/ up' = up /\ (ws # NoConn => socket[ws] # "open")
      \/ /\ ws # NoConn /\ ws \in Conns /\ up' = [up EXCEPT ![ws] = Append(@, n)]
  <2>1. ws # NoConn => up[ws] \o <<n>> = Append(up[ws], n)
    BY <1>0 DEF TypeOK
  <2> QED BY <2>1, <1>0 DEF Send, Write, TypeOK, n
<1>7. /\ \A c \in Conns : /\ up'[c] \in Seq(Seqs \cup {Handshake})
                          /\ \A x : Holds(up[c], x) => Holds(up'[c], x)
      /\ ws # NoConn /\ socket[ws] = "open" => Holds(up'[ws], n)
      /\ \A c \in Conns : \A i \in DOMAIN up'[c] :
          \/ /\ i \in DOMAIN up[c] /\ up'[c][i] = up[c][i]
             /\ \A x : HoldsBefore(up[c], i, x) => HoldsBefore(up'[c], i, x)
          \/ /\ c = ws /\ up'[c][i] = n
             /\ \A x : Holds(up[c], x) => HoldsBefore(up'[c], i, x)
  <2>1. CASE up' = up /\ (ws # NoConn => socket[ws] # "open")
    BY <2>1, <1>0 DEF TypeOK
  <2>2. CASE ws # NoConn /\ ws \in Conns /\ up' = [up EXCEPT ![ws] = Append(@, n)]
    <3> DEFINE S == Seqs \cup {Handshake}
    <3>1. up[ws] \in Seq(S) /\ n \in S
      BY <2>2, <1>0, <1>1 DEF TypeOK
    <3>2. up'[ws] = Append(up[ws], n) /\ \A c \in Conns \ {ws} : up'[c] = up[c]
      BY <2>2, <1>0 DEF TypeOK
    <3>3. /\ Append(up[ws], n) \in Seq(S)
          /\ \A x : Holds(up[ws], x) \/ x = n => Holds(Append(up[ws], n), x)
          /\ \A i \in DOMAIN Append(up[ws], n) :
              \/ /\ i \in DOMAIN up[ws] /\ Append(up[ws], n)[i] = up[ws][i]
                 /\ \A x : HoldsBefore(up[ws], i, x) => HoldsBefore(Append(up[ws], n), i, x)
              \/ /\ Append(up[ws], n)[i] = n
                 /\ \A x : Holds(up[ws], x) => HoldsBefore(Append(up[ws], n), i, x)
      BY <3>1, AppendOrder
    <3>4. \A c \in Conns : up[c] \in Seq(S)
      BY <1>0 DEF TypeOK
    <3> QED BY <3>2, <3>3, <3>4
  <2> QED BY <1>6, <2>1, <2>2
<1>8. Settled \subseteq Settled'
  BY <1>3, <1>5 DEF Settled
<1>9. TypeOK'
  <2>1. up' \in [Conns -> Seq(Seqs \cup {Handshake})]
    <3>1. up' = [c \in Conns |-> up'[c]]
      BY <1>6, <1>0 DEF TypeOK
    <3> QED BY <1>7, <3>1
  <2>2. buffer' \subseteq Seqs /\ dropped' \subseteq Seqs
    BY <1>0, <1>2, <1>3, <1>4 DEF TypeOK
  <2> QED BY <1>0, <1>1, <1>4, <1>5, <2>1, <2>2 DEF TypeOK, serverVars, ackVars
<1>10. KnownInv'
  <2>1. Len(sent') <= MaxSends /\ \A x \in 1..Len(sent) : x \in 1..Len(sent')
    BY <1>1 DEF Seqs, TunnelAssumption, n
  <2>2. \A x \in buffer' \cup Settled' : x \in 1..Len(sent')
    BY <1>0, <1>2, <1>3, <1>4, <1>5, <2>1 DEF KnownInv, Known, Settled
  <2>3. buffer' \cap dropped' = {}
    <3>1. n \notin dropped
      BY <1>0, <1>1 DEF KnownInv, Known, Settled, n
    <3> QED BY <3>1, <1>3, <1>4, <1>0 DEF KnownInv
  <2>4. \A c \in Conns : \A i \in DOMAIN up'[c] :
          up'[c][i] # Handshake => up'[c][i] \in 1..Len(sent')
    <3>1. n \in 1..Len(sent')
      BY <1>1 DEF n
    <3> QED BY <1>0, <1>7, <2>1, <3>1 DEF KnownInv, Known
  <2>5. /\ \A c \in Conns : \A i \in DOMAIN ackEntries[c] : ackEntries[c][i] \in 1..Len(sent')
        /\ \A r \in Runs : \A i \in DOMAIN chain[r] :
             chain[r][i].seq \in 1..Len(sent') /\ sent'[chain[r][i].seq].run = r
    BY <1>0, <1>1, <2>1 DEF KnownInv, Known
  <2> QED BY <1>5, <2>1, <2>2, <2>3, <2>4, <2>5 DEF KnownInv, Known, serverVars, ackVars
<1>11. WireInv'
  <2>1. \A c \in Conns : registering[c] # "over" => up'[c] = up[c]
    BY <1>0, <1>6 DEF WireInv, TypeOK
  <2>2. \A c \in Conns : registering[c] = "over" => \A i \in DOMAIN up'[c] : up'[c][i] # Handshake
    <3>1. n # Handshake
      BY <1>1 DEF Seqs, Handshake, n
    <3> QED BY <1>0, <1>7, <3>1 DEF WireInv
  <2> QED BY <1>0, <1>5, <2>1, <2>2 DEF WireInv, serverVars
<1>12. UpInv'
  <2> SUFFICES ASSUME NEW c \in Conns, Routed(c), NEW i \in DOMAIN up'[c],
                      NEW x \in 1..(up'[c][i] - 1)
               PROVE  x \in Settled' \/ Holds(ackEntries[c], x) \/ HoldsBefore(up'[c], i, x)
    BY <1>5 DEF UpInv, Routed, serverVars, ackVars
  <2>1. CASE /\ i \in DOMAIN up[c] /\ up'[c][i] = up[c][i]
             /\ \A y : HoldsBefore(up[c], i, y) => HoldsBefore(up'[c], i, y)
    <3>1. x \in Settled \/ Holds(ackEntries[c], x) \/ HoldsBefore(up[c], i, x)
      BY <2>1, <1>0 DEF UpInv
    <3> QED BY <2>1, <3>1, <1>8
  <2>2. CASE /\ c = ws /\ up'[c][i] = n
             /\ \A y : Holds(up[c], y) => HoldsBefore(up'[c], i, y)
    <3>1. x \in 1..Len(sent)
      BY <2>2, <1>1 DEF n
    <3>2. socket[c] = "open" \/ up'[c] = up[c]
      BY <2>2, <1>6 DEF Send, Write, NoConn, Conns
    <3>3. CASE socket[c] = "open"
      <4>1. x \in Settled \/ Holds(ackEntries[c], x) \/ Holds(up[c], x)
        BY <3>1, <3>3, <2>2, <1>0 DEF WiredInv
      <4> QED BY <4>1, <2>2, <1>8
    <3>4. CASE up'[c] = up[c]
      <4>1. x \in Settled \/ Holds(ackEntries[c], x) \/ HoldsBefore(up[c], i, x)
        BY <3>4, <1>0 DEF UpInv
      <4> QED BY <4>1, <3>4, <1>8
    <3> QED BY <3>2, <3>3, <3>4
  <2> QED BY <2>1, <2>2, <1>7
<1>13. WiredInv'
  <2> SUFFICES ASSUME NEW c \in Conns, Routed(c), ws = c, socket[c] = "open",
                      NEW x \in 1..Len(sent')
               PROVE  x \in Settled' \/ Holds(ackEntries[c], x) \/ Holds(up'[c], x)
    BY <1>5 DEF WiredInv, Routed, serverVars, ackVars
  <2>1. x = n \/ x \in 1..Len(sent)
    BY <1>1 DEF n
  <2>2. CASE x = n
    BY <2>2, <1>7 DEF Conns, NoConn
  <2>3. CASE x \in 1..Len(sent)
    <3>1. x \in Settled \/ Holds(ackEntries[c], x) \/ Holds(up[c], x)
      BY <2>3, <1>0 DEF WiredInv
    <3> QED BY <3>1, <1>7, <1>8
  <2> QED BY <2>1, <2>2, <2>3
<1>14. AckInv'
  BY <1>0, <1>5, <1>8 DEF AckInv, serverVars, ackVars
<1>15. SessionsInv'
  <2>1. UNCHANGED <<ackEntries, processed, failed, chain, busy, handled>>
    BY <1>5 DEF serverVars, ackVars
  <2>2. EntriesInv'
    BY <1>0, <1>8, <2>1 DEF SessionsInv, EntriesInv
  <2>3. LinkInv'
    <3>1. \A c \in Conns : \A i \in DOMAIN ackEntries[c] : sent'[ackEntries[c][i]] = sent[ackEntries[c][i]]
      BY <1>0, <1>1 DEF KnownInv, Known
    <3> QED BY <1>0, <2>1, <3>1 DEF SessionsInv, LinkInv
  <2>4. \A r \in Runs : \A i \in DOMAIN chain[r] : \A x \in 1..(chain[r][i].seq - 1) :
          sent'[x] = sent[x]
    BY <1>0, <1>1 DEF KnownInv, Known
  <2>5. ChainInv'
    BY <1>0, <1>8, <2>1, <2>4 DEF SessionsInv, ChainInv
  <2>6. BusyInv'
    <3>1. \A r \in busy : r \in Runs /\ chain[r] # << >> /\ 1 \in DOMAIN chain[r]
      BY <1>0 DEF SessionsInv, BusyInv, TypeOK
    <3> QED BY <1>0, <1>8, <2>1, <2>4, <3>1 DEF SessionsInv, BusyInv
  <2>7. HandledInOrder'
    <3>1. \A x \in handled : x \in 1..Len(sent)
      BY <1>0 DEF KnownInv, Known, Settled
    <3> QED BY <1>0, <1>1, <1>8, <2>1, <3>1
            DEF SessionsInv, HandledInOrder, Feed!NoGap, Settled
  <2> QED BY <1>0, <2>1, <2>2, <2>3, <2>5, <2>6, <2>7 DEF SessionsInv
<1>16. Feed!NothingLost'
  <2>1. \A x \in 1..Len(sent') : x \in 1..Len(sent) \/ x = n
    BY <1>1 DEF n
  <2> QED BY <1>0, <1>3, <1>4, <1>5, <2>1 DEF Feed!NothingLost
<1>17. IInv'
  BY <1>9, <1>10, <1>11, <1>12, <1>13, <1>14, <1>15, <1>16 DEF IInv, SessionsInv, HandledInv
<1>18. Feed!Send(m)
  <2>1. \/ Cardinality(all) <= MaxBuffered /\ buffer' = all
        \/ /\ Cardinality(all) > MaxBuffered
           /\ \E v \in all : /\ buffer' = all \ {v}
                             /\ sent'[v].kind = "fact" => \A x \in all : sent'[x].kind = "fact"
    <3> HIDE DEF all
    <3>1. \/ Cardinality(all) <= MaxBuffered /\ Trim(all, sent') = all
          \/ /\ Cardinality(all) > MaxBuffered
             /\ \E v \in all : /\ Trim(all, sent') = all \ {v}
                               /\ sent'[v].kind = "fact" => \A x \in all : sent'[x].kind = "fact"
      <4>1. /\ all \in SUBSET Seqs /\ Cardinality(all) <= MaxBuffered + 1
            /\ \A x \in all : sent'[x].kind \in {"event", "fact"}
        BY <1>2
      <4> QED BY <4>1, TrimGivesUpOne, Zenon
    <3> QED BY <3>1, <1>3
  <2>2. /\ Len(sent) + 1 <= MaxSends /\ sent' = Append(sent, m)
        /\ all = buffer \cup {Len(sent) + 1}
    BY DEF Send, n
  <2> HIDE DEF all
  <2>3. CASE Cardinality(all) <= MaxBuffered /\ buffer' = all
    <3>1. dropped' = dropped
      BY <2>3, <1>3
    <3> QED BY <2>2, <2>3, <3>1, <1>5, FeedCardinality DEF Feed!Send
  <2>4. CASE /\ Cardinality(all) > MaxBuffered
             /\ \E v \in all : /\ buffer' = all \ {v}
                               /\ sent'[v].kind = "fact" => \A x \in all : sent'[x].kind = "fact"
    <3>1. PICK v \in all : /\ buffer' = all \ {v}
                           /\ sent'[v].kind = "fact" => \A x \in all : sent'[x].kind = "fact"
      BY <2>4
    <3>2. dropped' = dropped \cup {v}
      BY <3>1, <1>3
    <3> QED BY <2>2, <2>4, <3>1, <3>2, <1>5, FeedCardinality DEF Feed!Send
  <2> QED BY <2>1, <2>3, <2>4
<1> QED BY <1>17, <1>18

LEMMA HostReceiveStep ==
  ASSUME TunnelAssumption, IInv, NEW c \in Conns, HostReceive(c)
  PROVE  IInv'
<1> DEFINE m == Head(down[c])
           S == Seqs \cup {Handshake}
<1>0. TypeOK /\ KnownInv /\ WireInv /\ UpInv /\ WiredInv /\ AckInv /\ SessionsInv /\ Feed!NothingLost
  BY IInvParts
<1>1. /\ client[c] = "open" /\ down[c] # << >> /\ down' = [down EXCEPT ![c] = Tail(@)]
      /\ UNCHANGED <<sent, dropped, client, socket, serverVars, handled, mishaps>>
  BY DEF HostReceive
<1>2. /\ Tail(down[c]) \in Seq(S) /\ m \in S /\ 1 \in DOMAIN down[c] /\ m = down[c][1]
      /\ \A i \in DOMAIN Tail(down[c]) : \E j \in DOMAIN down[c] : Tail(down[c])[i] = down[c][j]
  <2>1. down[c] \in Seq(S)
    BY <1>0 DEF TypeOK
  <2> QED BY <2>1, <1>1, TailOrder
<1>3. registering[c] = "over"
  BY <1>0, <1>1 DEF WireInv, TypeOK
<1>4. down' \in [Conns -> Seq(S)] /\ \A d \in Conns : registering[d] # "over" => down'[d] = down[d]
  BY <1>0, <1>1, <1>2, <1>3 DEF TypeOK
<1>5. AckInv'
  <2>1. \A d \in Conns : \A i \in DOMAIN down'[d] : \E j \in DOMAIN down[d] : down'[d][i] = down[d][j]
    BY <1>0, <1>1, <1>2 DEF TypeOK
  <2> QED BY <2>1, <1>0, <1>1 DEF AckInv, Settled, serverVars, ackVars
<1>6. SessionsInv'
  BY <1>0, <1>1, SessionsUntouched DEF serverVars, ackVars
<1>7. CASE m = Handshake
  <2> DEFINE t == Replay(buffer)
  <2>1. ws' = c /\ up' = Write(c, t) /\ buffer' = buffer
    BY <1>7 DEF HostReceive
  <2>2. /\ t \in Seq(buffer)
        /\ \A i, j \in DOMAIN t : i < j => t[i] < t[j]
        /\ \A n \in buffer : \E i \in DOMAIN t : t[i] = n
    BY <1>0, ReplayLists DEF TypeOK
  <2> HIDE DEF t
  <2>3. \A j \in DOMAIN t : j \in Nat /\ t[j] \in buffer /\ t[j] \in 1..Len(sent) /\ t[j] # Handshake
    BY <2>2, <1>0 DEF KnownInv, Known, Handshake
  <2>4. \A j \in DOMAIN t : \A x \in 1..(t[j] - 1) : x \in Settled \/ HoldsBefore(t, j, x)
    <3> SUFFICES ASSUME NEW j \in DOMAIN t, NEW x \in 1..(t[j] - 1), x \notin Settled
                 PROVE  HoldsBefore(t, j, x)
      OBVIOUS
    <3>0. Len(sent) \in Nat /\ t[j] \in 1..Len(sent)
      BY <2>3, <1>0 DEF TypeOK
    <3>1. x \in 1..Len(sent) /\ x < t[j] /\ x \in Nat /\ Len(sent) \in Nat
      BY <3>0
    <3>2. x \in buffer
      BY <3>1, <1>0 DEF Feed!NothingLost, Settled
    <3>3. PICK i \in DOMAIN t : t[i] = x
      BY <3>2, <2>2
    <3>4. i < j
      <4>1. j < i => t[j] < t[i]
        BY <2>2
      <4>2. i = j => t[i] = t[j]
        OBVIOUS
      <4>3. t[j] \in Nat /\ t[i] \in Nat /\ i \in Nat /\ j \in Nat
        BY <2>3
      <4> QED BY <4>1, <4>2, <4>3, <3>1, <3>3
    <3> QED BY <3>3, <3>4 DEF HoldsBefore
  <2>5. /\ up' \in [Conns -> Seq(S)]
        /\ \A d \in Conns \ {c} : up'[d] = up[d]
        /\ socket[c] = "open" => \A x : Holds(up[c], x) \/ Holds(t, x) => Holds(up'[c], x)
        /\ \A i \in DOMAIN up'[c] :
             \/ /\ i \in DOMAIN up[c] /\ up'[c][i] = up[c][i]
                /\ \A x : HoldsBefore(up[c], i, x) => HoldsBefore(up'[c], i, x)
             \/ \E j \in DOMAIN t :
                  /\ up'[c][i] = t[j]
                  /\ \A x : Holds(up[c], x) \/ HoldsBefore(t, j, x) => HoldsBefore(up'[c], i, x)
    <3>0. up[c] \in Seq(S) /\ buffer \subseteq S
      BY <1>0 DEF TypeOK
    <3>1. up[c] \in Seq(S) /\ t \in Seq(S)
      BY <3>0, <2>2
    <3>2. CASE socket[c] = "open"
      <4>1. up' = [up EXCEPT ![c] = up[c] \o t]
        BY <3>2, <2>1 DEF Write
      <4>2. /\ up[c] \o t \in Seq(S)
            /\ \A x : Holds(up[c], x) \/ Holds(t, x) => Holds(up[c] \o t, x)
            /\ \A i \in DOMAIN (up[c] \o t) :
                 \/ /\ i \in DOMAIN up[c] /\ (up[c] \o t)[i] = up[c][i]
                    /\ \A x : HoldsBefore(up[c], i, x) => HoldsBefore(up[c] \o t, i, x)
                 \/ \E j \in DOMAIN t :
                      /\ (up[c] \o t)[i] = t[j]
                      /\ \A x : Holds(up[c], x) \/ HoldsBefore(t, j, x)
                                => HoldsBefore(up[c] \o t, i, x)
        BY <3>1, ConcatOrder
      <4>3. up \in [Conns -> Seq(S)]
        BY <1>0 DEF TypeOK
      <4>4. up'[c] = up[c] \o t
        BY <4>1, <4>3
      <4>5. up' \in [Conns -> Seq(S)] /\ \A d \in Conns \ {c} : up'[d] = up[d]
        BY <4>1, <4>2, <4>3
      <4> QED BY <4>2, <4>4, <4>5
    <3>3. CASE socket[c] # "open"
      BY <3>3, <2>1, <1>0 DEF Write, TypeOK
    <3> QED BY <3>2, <3>3
  <2>6. TypeOK'
    BY <1>0, <1>1, <1>4, <2>1, <2>5 DEF TypeOK, serverVars, ackVars
  <2>7. KnownInv'
    <3>1. \A d \in Conns : \A i \in DOMAIN up'[d] : up'[d][i] # Handshake => up'[d][i] \in 1..Len(sent)
      BY <2>3, <2>5, <1>0 DEF KnownInv, Known
    <3> QED BY <3>1, <2>1, <1>0, <1>1 DEF KnownInv, Known, Settled, serverVars, ackVars
  <2>8. WireInv'
    <3>1. \A i \in DOMAIN up'[c] : up'[c][i] # Handshake
      BY <2>3, <2>5, <1>0, <1>3 DEF WireInv
    <3>2. ws' = c /\ client'[c] = "open" /\ registering'[c] = "over"
      BY <2>1, <1>1, <1>3 DEF serverVars
    <3>3. connection' # NoConn => registering'[connection'] = "over"
      BY <1>0, <1>1 DEF WireInv, serverVars
    <3>4. ASSUME NEW d \in Conns
          PROVE  /\ client[d] = "none" => registering[d] = "no" /\ socket[d] = "none"
                 /\ registering[d] = "no" => down'[d] = << >> /\ up'[d] \in {<< >>, <<Handshake>>}
                 /\ registering[d] = "waiting" => down'[d] = << >> /\ up'[d] = << >>
                 /\ registering[d] = "over" => \A i \in DOMAIN up'[d] : up'[d][i] # Handshake
      <4>1. CASE d = c
        BY <4>1, <3>1, <1>1, <1>3
      <4>2. CASE d # c
        <5>1. up'[d] = up[d] /\ (registering[d] # "over" => down'[d] = down[d])
          BY <4>2, <2>5, <1>4
        <5> QED BY <5>1, <1>0, SMTT(30) DEF WireInv
      <4> QED BY <4>1, <4>2
    <3> QED BY <3>2, <3>3, <3>4, <1>1 DEF WireInv, serverVars
  <2>9. UpInv'
    <3> SUFFICES ASSUME NEW d \in Conns, Routed(d), NEW i \in DOMAIN up'[d],
                        NEW x \in 1..(up'[d][i] - 1)
                 PROVE  x \in Settled \/ Holds(ackEntries[d], x) \/ HoldsBefore(up'[d], i, x)
      BY <1>1 DEF UpInv, Routed, Settled, serverVars, ackVars
    <3>1. CASE d # c
      BY <3>1, <2>5, <1>0 DEF UpInv
    <3>2. CASE d = c
      <4>1. CASE /\ i \in DOMAIN up[c] /\ up'[c][i] = up[c][i]
                 /\ \A y : HoldsBefore(up[c], i, y) => HoldsBefore(up'[c], i, y)
        BY <3>2, <4>1, <1>0 DEF UpInv
      <4>2. CASE \E j \in DOMAIN t :
                   /\ up'[c][i] = t[j]
                   /\ \A y : Holds(up[c], y) \/ HoldsBefore(t, j, y) => HoldsBefore(up'[c], i, y)
        BY <3>2, <4>2, <2>4
      <4> QED BY <3>2, <4>1, <4>2, <2>5
    <3> QED BY <3>1, <3>2
  <2>10. WiredInv'
    <3>1. \A x \in 1..Len(sent) : x \in Settled \/ Holds(t, x)
      BY <2>2, <1>0 DEF Feed!NothingLost, Settled, Holds
    <3> QED BY <3>1, <2>1, <2>5, <1>1 DEF WiredInv, Routed, Settled, serverVars, ackVars
  <2>11. Feed!NothingLost'
    BY <2>1, <1>0, <1>1 DEF Feed!NothingLost
  <2> QED BY <1>5, <1>6, <2>6, <2>7, <2>8, <2>9, <2>10, <2>11
          DEF IInv, SessionsInv, HandledInv
<1>8. CASE m # Handshake
  <2>1. buffer' = buffer \ 1..m /\ ws' = ws /\ up' = up
    BY <1>8 DEF HostReceive
  <2>2. \A x \in 1..m : x \in Settled
    BY <1>0, <1>2 DEF AckInv
  <2>3. TypeOK'
    <3>1. buffer' \subseteq Seqs /\ Cardinality(buffer') <= MaxBuffered
      <4>1. IsFiniteSet(buffer) /\ Cardinality(buffer) \in Nat
        BY <1>0, SeqsFinite DEF TypeOK
      <4>2. buffer' \subseteq buffer /\ buffer' \in SUBSET Seqs
        BY <2>1, <1>0 DEF TypeOK
      <4>3. Cardinality(buffer') <= Cardinality(buffer)
        BY <4>1, <4>2, FS_Subset
      <4>4. Cardinality(buffer') \in Nat
        BY <4>2, SeqsFinite
      <4> QED BY <4>1, <4>2, <4>3, <4>4, <1>0, SMTT(30) DEF TypeOK, TunnelAssumption
    <3> QED BY <3>1, <2>1, <1>0, <1>1, <1>4 DEF TypeOK, serverVars, ackVars
  <2>4. KnownInv'
    BY <2>1, <1>0, <1>1 DEF KnownInv, Known, Settled, serverVars, ackVars
  <2>5. WireInv'
    BY <2>1, <1>0, <1>1, <1>4 DEF WireInv, serverVars
  <2>6. UpInv' /\ WiredInv'
    BY <2>1, <1>0, <1>1 DEF UpInv, WiredInv, Routed, Settled, serverVars, ackVars
  <2>7. Feed!NothingLost'
    BY <2>1, <2>2, <1>0, <1>1 DEF Feed!NothingLost, Settled
  <2> QED BY <1>5, <1>6, <2>3, <2>4, <2>5, <2>6, <2>7 DEF IInv, SessionsInv, HandledInv
<1> QED BY <1>7, <1>8

LEMMA HostCloseStep ==
  ASSUME TunnelAssumption, IInv, NEW c \in Conns, HostClose(c)
  PROVE  IInv'
<1>0. TypeOK /\ KnownInv /\ WireInv /\ UpInv /\ WiredInv /\ AckInv /\ SessionsInv /\ Feed!NothingLost
  BY IInvParts
<1>1. /\ client[c] = "open" /\ client' = [client EXCEPT ![c] = "closed"]
      /\ ws' = NoConn /\ down' = [down EXCEPT ![c] = << >>]
      /\ mishaps' \in {mishaps, mishaps + 1}
      /\ UNCHANGED <<sent, buffer, dropped, socket, up, serverVars, handled>>
  BY DEF HostClose, Mishap
<1>2. TypeOK'
  <2>1. mishaps' \in Nat /\ ws' \in Conns \cup {NoConn}
    BY <1>0, <1>1 DEF TypeOK
  <2>2. client' \in [Conns -> {"none", "open", "closed"}]
    BY <1>0, <1>1 DEF TypeOK
  <2>3. down' \in [Conns -> Seq(Seqs \cup {Handshake})]
    <3>1. << >> \in Seq(Seqs \cup {Handshake})
      OBVIOUS
    <3> QED BY <3>1, <1>0, <1>1 DEF TypeOK
  <2> QED BY <1>0, <1>1, <2>1, <2>2, <2>3 DEF TypeOK, serverVars, ackVars
<1>3. KnownInv' /\ UpInv' /\ Feed!NothingLost'
  BY <1>0, <1>1 DEF KnownInv, Known, UpInv, Feed!NothingLost, Routed, Settled, serverVars, ackVars
<1>4. WireInv'
  BY <1>0, <1>1 DEF TypeOK, WireInv, serverVars, NoConn
<1>5. WiredInv'
  BY <1>1 DEF WiredInv, NoConn, Conns
<1>6. AckInv'
  BY <1>0, <1>1 DEF TypeOK, AckInv, Settled, serverVars, ackVars
<1>7. SessionsInv'
  BY <1>0, <1>1, SessionsUntouched DEF serverVars, ackVars
<1> QED BY <1>2, <1>3, <1>4, <1>5, <1>6, <1>7 DEF IInv, SessionsInv, HandledInv

LEMMA ServerCloseStep ==
  ASSUME TunnelAssumption, IInv, NEW c \in Conns, ServerClose(c)
  PROVE  IInv'
<1>0. TypeOK /\ KnownInv /\ WireInv /\ UpInv /\ WiredInv /\ AckInv /\ SessionsInv /\ Feed!NothingLost
  BY IInvParts
<1>1. /\ socket[c] # "none" /\ socket' = [socket EXCEPT ![c] = "closed"]
      /\ up' = [up EXCEPT ![c] = << >>]
      /\ connection' \in {connection, NoConn}
      /\ UNCHANGED <<hostVars, client, down, registering, session, ackVars, failed, chain,
                     busy, handled, mishaps>>
  BY DEF ServerClose
<1> USE DEF hostVars, ackVars
<1>2. TypeOK'
  <2>1. socket' \in [Conns -> {"none", "open", "closing", "closed"}]
    BY <1>0, <1>1 DEF TypeOK
  <2>2. up' \in [Conns -> Seq(Seqs \cup {Handshake})]
    <3>1. << >> \in Seq(Seqs \cup {Handshake})
      OBVIOUS
    <3> QED BY <3>1, <1>0, <1>1 DEF TypeOK
  <2>3. connection' \in Conns \cup {NoConn}
    BY <1>0, <1>1 DEF TypeOK
  <2> QED BY <1>0, <1>1, <2>1, <2>2, <2>3 DEF TypeOK
<1>3. KnownInv' /\ Feed!NothingLost'
  BY <1>0, <1>1 DEF TypeOK, KnownInv, Known, Feed!NothingLost, Settled
<1>4. WireInv'
  BY <1>0, <1>1 DEF TypeOK, WireInv
<1>5. UpInv'
  BY <1>0, <1>1, SMTT(30) DEF TypeOK, UpInv, Routed, Settled, NoConn, Conns
<1>6. WiredInv'
  BY <1>0, <1>1, SMTT(30) DEF TypeOK, WiredInv, Routed, Settled, NoConn, Conns
<1>7. AckInv'
  BY <1>0, <1>1 DEF AckInv, Settled
<1>8. SessionsInv'
  BY <1>0, <1>1, SessionsUntouched
<1> QED BY <1>2, <1>3, <1>4, <1>5, <1>6, <1>7, <1>8 DEF IInv, SessionsInv, HandledInv

LEMMA RegisterStep ==
  ASSUME TunnelAssumption, IInv, NEW c \in Conns, Register(c)
  PROVE  IInv'
<1>0. TypeOK /\ KnownInv /\ WireInv /\ UpInv /\ WiredInv /\ AckInv /\ SessionsInv /\ Feed!NothingLost
  BY IInvParts
<1>1. /\ socket[c] = "open" /\ up[c] # << >> /\ Head(up[c]) = Handshake
      /\ up' = [up EXCEPT ![c] = Tail(@)]
      /\ registering' = [registering EXCEPT ![c] = "waiting"]
      /\ UNCHANGED <<hostVars, client, socket, down, connection, session, ackVars, failed,
                     chain, busy, handled, mishaps>>
  BY DEF Register
<1> USE DEF hostVars, ackVars
<1>2. 1 \in DOMAIN up[c] /\ up[c][1] = Handshake
  BY <1>0, <1>1 DEF TypeOK
<1>3. registering[c] = "no" /\ up'[c] = << >> /\ \A d \in Conns \ {c} : up'[d] = up[d]
  <2>1. registering[c] = "no" /\ up[c] = <<Handshake>>
    BY <1>0, <1>1, <1>2 DEF TypeOK, WireInv
  <2> QED BY <1>0, <1>1, <2>1 DEF TypeOK
<1>4. TypeOK'
  <2>1. up' \in [Conns -> Seq(Seqs \cup {Handshake})]
    BY <1>0, <1>1, <1>3, SMTT(30) DEF TypeOK
  <2> QED BY <1>0, <1>1, <2>1 DEF TypeOK
<1>5. KnownInv' /\ Feed!NothingLost'
  BY <1>0, <1>1, <1>3 DEF KnownInv, Known, Feed!NothingLost, Settled
<1>6. WireInv'
  BY <1>0, <1>1, <1>3 DEF TypeOK, WireInv
<1>7. UpInv'
  BY <1>0, <1>1, <1>3 DEF UpInv, Routed, Settled
<1>8. WiredInv'
  BY <1>0, <1>1, <1>3 DEF WireInv, WiredInv, Routed, Settled, NoConn, Conns
<1>9. AckInv'
  BY <1>0, <1>1 DEF AckInv, Settled
<1>10. SessionsInv'
  BY <1>0, <1>1, SessionsUntouched
<1> QED BY <1>4, <1>5, <1>6, <1>7, <1>8, <1>9, <1>10 DEF IInv, SessionsInv, HandledInv

LEMMA BindStep ==
  ASSUME TunnelAssumption, IInv, NEW c \in Conns, Bind(c)
  PROVE  IInv'
<1>0. TypeOK /\ KnownInv /\ WireInv /\ UpInv /\ WiredInv /\ AckInv /\ SessionsInv /\ Feed!NothingLost
  BY IInvParts
<1>1. /\ registering[c] = "waiting"
      /\ registering' = [registering EXCEPT ![c] = "over"]
      /\ connection' = c /\ session' = c
      /\ down' = Reply(c, Handshake)
      /\ UNCHANGED <<hostVars, client, up, ackVars, failed, chain, busy, handled, mishaps>>
  BY DEF Bind
<1> USE DEF hostVars, ackVars
<1>2. /\ socket' \in [Conns -> {"none", "open", "closing", "closed"}]
      /\ \A d \in Conns : /\ socket[d] = "none" => socket'[d] = "none"
                          /\ socket'[d] = "open" => socket[d] = "open"
  BY <1>0 DEF Bind, TypeOK
<1>3. up[c] = << >> /\ down[c] = << >> /\ ws # c
  BY <1>0, <1>1 DEF WireInv, NoConn, Conns
<1>4. down'[c] \in {<< >>, <<Handshake>>} /\ \A d \in Conns \ {c} : down'[d] = down[d]
  <2>1. Append(down[c], Handshake) = <<Handshake>>
    BY <1>3
  <2> QED BY <1>0, <1>1, <1>3, <2>1 DEF Reply, TypeOK
<1>5. TypeOK'
  <2>1. down' \in [Conns -> Seq(Seqs \cup {Handshake})]
    <3>1. down' = [d \in Conns |-> down'[d]]
      BY <1>0, <1>1 DEF Reply, TypeOK
    <3>2. down'[c] \in Seq(Seqs \cup {Handshake})
      <4>1. << >> \in Seq(Seqs \cup {Handshake}) /\ <<Handshake>> \in Seq(Seqs \cup {Handshake})
        OBVIOUS
      <4> QED BY <4>1, <1>4
    <3>3. \A d \in Conns : down'[d] \in Seq(Seqs \cup {Handshake})
      BY <3>2, <1>0, <1>4 DEF TypeOK
    <3> QED BY <3>1, <3>3
  <2> QED BY <1>0, <1>1, <1>2, <2>1 DEF TypeOK
<1>6. KnownInv' /\ Feed!NothingLost'
  BY <1>0, <1>1 DEF KnownInv, Known, Feed!NothingLost, Settled
<1>7. WireInv'
  BY <1>0, <1>1, <1>2, <1>3, <1>4 DEF TypeOK, WireInv
<1>8. UpInv'
  BY <1>0, <1>1, <1>3 DEF UpInv, Routed, Settled
<1>9. WiredInv'
  BY <1>0, <1>1, <1>2, <1>3 DEF WiredInv, Routed, Settled
<1>10. AckInv'
  <2>1. \A i \in DOMAIN down'[c] : down'[c][i] = 0
    BY <1>4 DEF Handshake
  <2> QED BY <1>0, <1>1, <1>4, <2>1 DEF AckInv, Settled
<1>11. SessionsInv'
  BY <1>0, <1>1, SessionsUntouched
<1> QED BY <1>5, <1>6, <1>7, <1>8, <1>9, <1>10, <1>11 DEF IInv, SessionsInv, HandledInv

LEMMA RegisterFailStep ==
  ASSUME TunnelAssumption, IInv, NEW c \in Conns, RegisterFail(c)
  PROVE  IInv'
<1>0. TypeOK /\ KnownInv /\ WireInv /\ UpInv /\ WiredInv /\ AckInv /\ SessionsInv /\ Feed!NothingLost
  BY IInvParts
<1>1. /\ registering[c] = "waiting" /\ mishaps' = mishaps + 1
      /\ registering' = [registering EXCEPT ![c] = "over"]
      /\ UNCHANGED <<hostVars, netVars, connection, session, ackVars, failed, chain, busy,
                     handled>>
  BY DEF RegisterFail, Mishap
<1> USE DEF hostVars, netVars, ackVars
<1>2. TypeOK'
  <2>1. registering' \in [Conns -> {"no", "waiting", "over"}] /\ mishaps' \in Nat
    BY <1>0, <1>1 DEF TypeOK
  <2> QED BY <1>0, <1>1, <2>1 DEF TypeOK
<1>3. KnownInv' /\ UpInv' /\ Feed!NothingLost'
  BY <1>0, <1>1 DEF KnownInv, Known, UpInv, Feed!NothingLost, Routed, Settled
<1>4. WireInv'
  BY <1>0, <1>1 DEF TypeOK, WireInv
<1>5. WiredInv' /\ AckInv'
  BY <1>0, <1>1 DEF WiredInv, AckInv, Routed, Settled
<1>6. SessionsInv'
  BY <1>0, <1>1, SessionsUntouched
<1> QED BY <1>2, <1>3, <1>4, <1>5, <1>6 DEF IInv, SessionsInv, HandledInv

LEMMA RegisterTimeoutStep ==
  ASSUME TunnelAssumption, IInv, NEW c \in Conns, RegisterTimeout(c)
  PROVE  IInv'
<1>0. TypeOK /\ KnownInv /\ WireInv /\ UpInv /\ WiredInv /\ AckInv /\ SessionsInv /\ Feed!NothingLost
  BY IInvParts
<1>1. /\ socket[c] = "open" /\ socket' = [socket EXCEPT ![c] = "closing"]
      /\ mishaps' \in {mishaps, mishaps + 1}
      /\ UNCHANGED <<hostVars, client, up, down, serverVars, handled>>
  BY DEF RegisterTimeout, Mishap
<1> USE DEF hostVars, serverVars, ackVars
<1>2. TypeOK'
  <2>1. socket' \in [Conns -> {"none", "open", "closing", "closed"}] /\ mishaps' \in Nat
    BY <1>0, <1>1 DEF TypeOK
  <2> QED BY <1>0, <1>1, <2>1 DEF TypeOK
<1>3. KnownInv' /\ UpInv' /\ AckInv' /\ Feed!NothingLost'
  BY <1>0, <1>1 DEF KnownInv, Known, UpInv, AckInv, Feed!NothingLost, Routed, Settled
<1>4. WireInv' /\ WiredInv'
  BY <1>0, <1>1 DEF TypeOK, WireInv, WiredInv, Routed, Settled
<1>5. SessionsInv'
  BY <1>0, <1>1, SessionsUntouched
<1> QED BY <1>2, <1>3, <1>4, <1>5 DEF IInv, SessionsInv, HandledInv

LEMMA ReceiveStep ==
  ASSUME TunnelAssumption, IInv, NEW c \in Conns, Receive(c)
  PROVE  IInv'
<1> DEFINE n == Head(up[c])
           r == sent[n].run
           e == [conn |-> c, seq |-> n]
           S == Seqs \cup {Handshake}
           E == [conn : Conns, seq : Seqs]
<1>0. TypeOK /\ KnownInv /\ WireInv /\ UpInv /\ WiredInv /\ AckInv /\ SessionsInv /\ Feed!NothingLost
  BY IInvParts
<1> USE DEF hostVars
<1>1. /\ socket[c] = "open" /\ up[c] # << >> /\ n # Handshake
      /\ up' = [up EXCEPT ![c] = Tail(@)]
      /\ UNCHANGED <<hostVars, client, socket, down, registering, connection, session,
                     processed, pendingAck, failed, busy, handled, mishaps>>
  BY DEF Receive
<1>2. /\ Tail(up[c]) \in Seq(S) /\ 1 \in DOMAIN up[c] /\ n = up[c][1] /\ up[c][1] \in S
      /\ \A x : Holds(up[c], x) => x = up[c][1] \/ Holds(Tail(up[c]), x)
      /\ \A i \in DOMAIN Tail(up[c]) : \E j \in DOMAIN up[c] :
           /\ Tail(up[c])[i] = up[c][j]
           /\ \A x : HoldsBefore(up[c], j, x) => x = up[c][1] \/ HoldsBefore(Tail(up[c]), i, x)
  <2>1. up[c] \in Seq(S)
    BY <1>0 DEF TypeOK
  <2> QED BY <2>1, <1>1, TailOrder
<1>3. n \in 1..Len(sent) /\ n \in Seqs /\ r \in Runs
  <2>1. n \in 1..Len(sent) /\ n \in Seqs
    BY <1>0, <1>1, <1>2 DEF KnownInv, Known
  <2>2. sent[n] \in Notifications
    BY <2>1, <1>0, SMTT(30) DEF TypeOK
  <2> QED BY <2>1, <2>2 DEF Notifications
<1>4. /\ IF Routed(c)
         THEN /\ ackEntries' = [ackEntries EXCEPT ![c] = Append(@, n)]
              /\ chain' = [chain EXCEPT ![r] = Append(@, e)]
         ELSE UNCHANGED <<ackEntries, chain>>
  BY DEF Receive, Routed
<1> HIDE DEF n, r
<1>5. /\ up' \in [Conns -> Seq(S)]
      /\ up'[c] = Tail(up[c]) /\ \A d \in Conns \ {c} : up'[d] = up[d]
  BY <1>0, <1>1, <1>2 DEF TypeOK
<1>6. /\ e \in E
      /\ Append(ackEntries[c], n) \in Seq(Seqs)
      /\ \A x : Holds(ackEntries[c], x) \/ x = n => Holds(Append(ackEntries[c], n), x)
      /\ \A i \in DOMAIN Append(ackEntries[c], n) :
           \/ /\ i \in DOMAIN ackEntries[c] /\ Append(ackEntries[c], n)[i] = ackEntries[c][i]
              /\ \A x : HoldsBefore(ackEntries[c], i, x) => HoldsBefore(Append(ackEntries[c], n), i, x)
           \/ /\ Append(ackEntries[c], n)[i] = n
              /\ \A x : Holds(ackEntries[c], x) => HoldsBefore(Append(ackEntries[c], n), i, x)
  <2>1. ackEntries[c] \in Seq(Seqs) /\ n \in Seqs
    BY <1>0, <1>3 DEF TypeOK
  <2>2. e \in E
    BY <1>3
  <2> QED BY <2>1, <2>2, AppendOrder
<1>7. /\ Append(chain[r], e) \in Seq(E)
      /\ \A x : Holds(chain[r], x) \/ x = e => Holds(Append(chain[r], e), x)
      /\ \A i \in DOMAIN Append(chain[r], e) :
           \/ /\ i \in DOMAIN chain[r] /\ Append(chain[r], e)[i] = chain[r][i]
              /\ \A x : HoldsBefore(chain[r], i, x) => HoldsBefore(Append(chain[r], e), i, x)
           \/ /\ Append(chain[r], e)[i] = e
              /\ \A x : Holds(chain[r], x) => HoldsBefore(Append(chain[r], e), i, x)
  <2>1. chain[r] \in Seq(E) /\ e \in E
    BY <1>0, <1>3, <1>6 DEF TypeOK
  <2> HIDE DEF e, E
  <2> QED BY <2>1, AppendOrder
<1>8. ackEntries \in [Conns -> Seq(Seqs)] /\ chain \in [Runs -> Seq(E)]
  BY <1>0 DEF TypeOK
<1> HIDE DEF e
<1>9. /\ ackEntries' \in [Conns -> Seq(Seqs)]
      /\ \A d \in Conns : \A x : Holds(ackEntries[d], x) => Holds(ackEntries'[d], x)
      /\ Routed(c) => Holds(ackEntries'[c], n)
      /\ \A d \in Conns : \A i \in DOMAIN ackEntries'[d] :
           \/ /\ i \in DOMAIN ackEntries[d] /\ ackEntries'[d][i] = ackEntries[d][i]
              /\ \A x : HoldsBefore(ackEntries[d], i, x) => HoldsBefore(ackEntries'[d], i, x)
           \/ /\ d = c /\ Routed(c) /\ ackEntries'[d][i] = n
              /\ \A x : Holds(ackEntries[d], x) => HoldsBefore(ackEntries'[d], i, x)
  <2>1. CASE Routed(c)
    <3>1. /\ ackEntries'[c] = Append(ackEntries[c], n)
          /\ \A d \in Conns \ {c} : ackEntries'[d] = ackEntries[d]
          /\ ackEntries' \in [Conns -> Seq(Seqs)]
      BY <2>1, <1>4, <1>6, <1>8
    <3>2. /\ \A x : Holds(ackEntries[c], x) => Holds(ackEntries'[c], x)
          /\ Holds(ackEntries'[c], n)
      BY <3>1, <1>6, Zenon
    <3>3. \A i \in DOMAIN ackEntries'[c] :
            \/ /\ i \in DOMAIN ackEntries[c] /\ ackEntries'[c][i] = ackEntries[c][i]
               /\ \A x : HoldsBefore(ackEntries[c], i, x) => HoldsBefore(ackEntries'[c], i, x)
            \/ /\ ackEntries'[c][i] = n
               /\ \A x : Holds(ackEntries[c], x) => HoldsBefore(ackEntries'[c], i, x)
      BY <3>1, <1>6
    <3> QED BY <3>1, <3>2, <3>3, <2>1
  <2>2. CASE ~Routed(c)
    BY <2>2, <1>4, <1>8
  <2> QED BY <2>1, <2>2
<1>10. /\ chain' \in [Runs -> Seq(E)]
       /\ \A s \in Runs : \A x : Holds(chain[s], x) => Holds(chain'[s], x)
       /\ Routed(c) => Holds(chain'[r], e)
       /\ \A s \in Runs : \A i \in DOMAIN chain'[s] :
            \/ /\ i \in DOMAIN chain[s] /\ chain'[s][i] = chain[s][i]
               /\ \A x : HoldsBefore(chain[s], i, x) => HoldsBefore(chain'[s], i, x)
            \/ /\ s = r /\ Routed(c) /\ chain'[s][i] = e
               /\ \A x : Holds(chain[s], x) => HoldsBefore(chain'[s], i, x)
       /\ \A s \in Runs : chain[s] # << >> => chain'[s] # << >> /\ chain'[s][1] = chain[s][1]
  <2>1. CASE Routed(c)
    <3>1. /\ chain'[r] = Append(chain[r], e)
          /\ \A s \in Runs \ {r} : chain'[s] = chain[s]
          /\ chain' \in [Runs -> Seq(E)]
      BY <2>1, <1>3, <1>4, <1>7, <1>8
    <3>2. chain[r] # << >> => Append(chain[r], e) # << >> /\ Append(chain[r], e)[1] = chain[r][1]
      <4>1. chain[r] \in Seq(E) /\ e \in E
        BY <1>3, <1>6, <1>8 DEF e
      <4> HIDE DEF E
      <4> QED BY <4>1
    <3>3. /\ \A s \in Runs : \A x : Holds(chain[s], x) => Holds(chain'[s], x)
          /\ Holds(chain'[r], e)
      BY <3>1, <1>7
    <3>4. ASSUME NEW s \in Runs, NEW i \in DOMAIN chain'[s]
          PROVE  \/ /\ i \in DOMAIN chain[s] /\ chain'[s][i] = chain[s][i]
                    /\ \A x : HoldsBefore(chain[s], i, x) => HoldsBefore(chain'[s], i, x)
                 \/ /\ s = r /\ chain'[s][i] = e
                    /\ \A x : Holds(chain[s], x) => HoldsBefore(chain'[s], i, x)
      <4>1. CASE s = r
        BY <4>1, <3>1, <1>7
      <4>2. CASE s # r
        BY <4>2, <3>1
      <4> QED BY <4>1, <4>2
    <3>5. \A s \in Runs : chain[s] # << >> => chain'[s] # << >> /\ chain'[s][1] = chain[s][1]
      BY <3>1, <3>2
    <3> QED BY <3>1, <3>3, <3>4, <3>5, <2>1
  <2>2. CASE ~Routed(c)
    BY <2>2, <1>4, <1>8
  <2> QED BY <2>1, <2>2
<1>11. \A x \in 1..(n - 1) : Routed(c) => x \in Settled \/ Holds(ackEntries[c], x)
  <2> SUFFICES ASSUME NEW x \in 1..(n - 1), Routed(c), ~HoldsBefore(up[c], 1, x)
               PROVE  x \in Settled \/ Holds(ackEntries[c], x)
    <3>1. up[c] \in Seq(S)
      BY <1>0 DEF TypeOK
    <3>2. \A x : ~HoldsBefore(up[c], 1, x)
      BY <3>1 DEF HoldsBefore
    <3> QED BY <3>2
  <2> QED BY <1>0, <1>2 DEF UpInv
<1>12. TypeOK'
  BY <1>0, <1>1, <1>5, <1>9, <1>10 DEF TypeOK
<1>13. KnownInv'
  <2>1. \A d \in Conns : \A i \in DOMAIN up'[d] : up'[d][i] # Handshake => up'[d][i] \in 1..Len(sent)
    <3>1. \A i \in DOMAIN up'[c] : \E j \in DOMAIN up[c] : up'[c][i] = up[c][j]
      BY <1>2, <1>5
    <3>2. \A d \in Conns : \A i \in DOMAIN up'[d] : \E j \in DOMAIN up[d] : up'[d][i] = up[d][j]
      BY <3>1, <1>5
    <3> QED BY <3>2, <1>0 DEF KnownInv, Known
  <2>2. \A d \in Conns : \A i \in DOMAIN ackEntries'[d] : ackEntries'[d][i] \in 1..Len(sent)
    BY <1>0, <1>3, <1>9 DEF KnownInv, Known
  <2>3. \A s \in Runs : \A i \in DOMAIN chain'[s] :
          chain'[s][i].seq \in 1..Len(sent) /\ sent[chain'[s][i].seq].run = s
    BY <1>0, <1>3, <1>10 DEF KnownInv, Known, e, r
  <2> QED BY <1>0, <1>1, <2>1, <2>2, <2>3 DEF KnownInv, Known, Settled
<1>14. WireInv'
  <2>1. registering[c] = "over"
    <3>1. ~(up[c] \in {<< >>, <<Handshake>>})
      BY <1>1, <1>2
    <3> QED BY <3>1, <1>0 DEF WireInv, TypeOK
  <2>2. \A i \in DOMAIN up'[c] : up'[c][i] # Handshake
    BY <2>1, <1>0, <1>2, <1>5 DEF WireInv
  <2>3. ASSUME NEW d \in Conns
        PROVE  /\ client[d] = "none" => registering[d] = "no" /\ socket[d] = "none"
               /\ registering[d] = "no" => down[d] = << >> /\ up'[d] \in {<< >>, <<Handshake>>}
               /\ registering[d] = "waiting" => down[d] = << >> /\ up'[d] = << >>
               /\ registering[d] = "over" => \A i \in DOMAIN up'[d] : up'[d][i] # Handshake
    <3>1. CASE d = c
      BY <3>1, <2>1, <2>2, <1>0 DEF WireInv
    <3>2. CASE d # c
      BY <3>2, <1>0, <1>5 DEF WireInv
    <3> QED BY <3>1, <3>2
  <2> QED BY <2>3, <1>0, <1>1 DEF WireInv
<1>15. UpInv'
  <2> SUFFICES ASSUME NEW d \in Conns, Routed(d), NEW i \in DOMAIN up'[d],
                      NEW x \in 1..(up'[d][i] - 1)
               PROVE  x \in Settled \/ Holds(ackEntries'[d], x) \/ HoldsBefore(up'[d], i, x)
    BY <1>1 DEF UpInv, Routed, Settled
  <2>1. CASE d # c
    BY <2>1, <1>0, <1>5, <1>9 DEF UpInv
  <2>2. CASE d = c
    <3>1. PICK j \in DOMAIN up[c] :
            /\ up'[c][i] = up[c][j]
            /\ \A y : HoldsBefore(up[c], j, y) => y = n \/ HoldsBefore(up'[c], i, y)
      BY <2>2, <1>2, <1>5
    <3>2. x \in Settled \/ Holds(ackEntries[c], x) \/ HoldsBefore(up[c], j, x)
      BY <2>2, <3>1, <1>0 DEF UpInv
    <3> QED BY <2>2, <3>1, <3>2, <1>9
  <2> QED BY <2>1, <2>2
<1>16. WiredInv'
  <2> SUFFICES ASSUME NEW d \in Conns, Routed(d), ws = d, socket[d] = "open",
                      NEW x \in 1..Len(sent)
               PROVE  x \in Settled \/ Holds(ackEntries'[d], x) \/ Holds(up'[d], x)
    BY <1>1 DEF WiredInv, Routed, Settled
  <2>1. x \in Settled \/ Holds(ackEntries[d], x) \/ Holds(up[d], x)
    BY <1>0 DEF WiredInv
  <2> QED BY <2>1, <1>2, <1>5, <1>9
<1>17. AckInv'
  BY <1>0, <1>1 DEF AckInv, Settled
<1>18. EntriesInv'
  <2> SUFFICES ASSUME NEW d \in Conns, NEW i \in DOMAIN ackEntries'[d],
                      NEW x \in 1..(ackEntries'[d][i] - 1)
               PROVE  x \in Settled \/ HoldsBefore(ackEntries'[d], i, x)
    BY <1>1 DEF EntriesInv, Settled
  <2>1. CASE /\ i \in DOMAIN ackEntries[d] /\ ackEntries'[d][i] = ackEntries[d][i]
             /\ \A y : HoldsBefore(ackEntries[d], i, y) => HoldsBefore(ackEntries'[d], i, y)
    BY <2>1, <1>0 DEF SessionsInv, EntriesInv
  <2>2. CASE /\ d = c /\ Routed(c) /\ ackEntries'[d][i] = n
             /\ \A y : Holds(ackEntries[d], y) => HoldsBefore(ackEntries'[d], i, y)
    BY <2>2, <1>11
  <2> QED BY <2>1, <2>2, <1>9
<1>19. LinkInv'
  <2> SUFFICES ASSUME NEW d \in Conns \ failed, NEW i \in DOMAIN ackEntries'[d]
               PROVE  \/ ackEntries'[d][i] \in handled
                      \/ Holds(chain'[sent[ackEntries'[d][i]].run],
                               [conn |-> d, seq |-> ackEntries'[d][i]])
    BY <1>1 DEF LinkInv
  <2>1. CASE i \in DOMAIN ackEntries[d] /\ ackEntries'[d][i] = ackEntries[d][i]
    <3>1. sent[ackEntries[d][i]].run \in Runs
      <4>1. sent[ackEntries[d][i]] \in Notifications
        BY <2>1, <1>0 DEF KnownInv, Known, TypeOK
      <4> QED BY <4>1 DEF Notifications
    <3> QED BY <2>1, <3>1, <1>0, <1>10 DEF SessionsInv, LinkInv
  <2>2. CASE d = c /\ Routed(c) /\ ackEntries'[d][i] = n
    BY <2>2, <1>10 DEF e, r
  <2> QED BY <2>1, <2>2, <1>9
<1>20. ChainInv'
  <2> SUFFICES ASSUME NEW s \in Runs, NEW i \in DOMAIN chain'[s], chain'[s][i].conn \notin failed,
                      NEW x \in 1..(chain'[s][i].seq - 1), sent[x].run = s
               PROVE  \/ x \in Settled
                      \/ HoldsBefore(chain'[s], i, [conn |-> chain'[s][i].conn, seq |-> x])
    BY <1>1 DEF ChainInv, Settled
  <2>1. CASE /\ i \in DOMAIN chain[s] /\ chain'[s][i] = chain[s][i]
             /\ \A y : HoldsBefore(chain[s], i, y) => HoldsBefore(chain'[s], i, y)
    BY <2>1, <1>0 DEF SessionsInv, ChainInv
  <2>2. CASE /\ s = r /\ Routed(c) /\ chain'[s][i] = e
             /\ \A y : Holds(chain[s], y) => HoldsBefore(chain'[s], i, y)
    <3>1. chain'[s][i].conn = c /\ chain'[s][i].seq = n
      BY <2>2 DEF e
    <3>2. x \in Settled \/ Holds(ackEntries[c], x)
      BY <2>2, <3>1, <1>11
    <3>3. Holds(ackEntries[c], x) => x \in handled \/ Holds(chain[s], [conn |-> c, seq |-> x])
      BY <2>2, <1>0 DEF Holds, SessionsInv, LinkInv, Routed
    <3> QED BY <2>2, <3>1, <3>2, <3>3 DEF Settled
  <2> QED BY <2>1, <2>2, <1>10
<1>21. BusyInv'
  <2>1. busy \subseteq Runs
    BY <1>0 DEF TypeOK
  <2> QED BY <2>1, <1>0, <1>1, <1>10 DEF SessionsInv, BusyInv, Settled
<1>22. SessionsInv'
  BY <1>0, <1>1, <1>18, <1>19, <1>20, <1>21 DEF SessionsInv, HandledInOrder, Feed!NoGap
<1>23. Feed!NothingLost'
  BY <1>0, <1>1 DEF Feed!NothingLost
<1> QED BY <1>12, <1>13, <1>14, <1>15, <1>16, <1>17, <1>22, <1>23
        DEF IInv, SessionsInv, HandledInv

LEMMA SendAckStep ==
  ASSUME TunnelAssumption, IInv, NEW c \in Conns, SendAck(c)
  PROVE  IInv'
<1>0. TypeOK /\ KnownInv /\ WireInv /\ UpInv /\ WiredInv /\ AckInv /\ SessionsInv /\ Feed!NothingLost
  BY IInvParts
<1> USE DEF hostVars
<1>1. /\ pendingAck' = [pendingAck EXCEPT ![c] = 0]
      /\ UNCHANGED <<hostVars, client, socket, up, registering, connection, session,
                     ackEntries, processed, failed, chain, busy, handled, mishaps>>
  BY DEF SendAck
<1>2. \/ down' = down
      \/ connection = c /\ down' = [down EXCEPT ![c] = Append(@, pendingAck[c])]
  BY DEF SendAck, Reply
<1>3. /\ down' \in [Conns -> Seq(Seqs \cup {Handshake})]
      /\ \A d \in Conns : \A i \in DOMAIN down'[d] :
           (\E j \in DOMAIN down[d] : down'[d][i] = down[d][j]) \/ down'[d][i] = pendingAck[d]
  <2>1. down[c] \in Seq(Seqs \cup {Handshake}) /\ pendingAck[c] \in Seqs \cup {Handshake}
    BY <1>0 DEF TypeOK, Handshake
  <2>2. /\ Append(down[c], pendingAck[c]) \in Seq(Seqs \cup {Handshake})
        /\ \A i \in DOMAIN Append(down[c], pendingAck[c]) :
             \/ i \in DOMAIN down[c] /\ Append(down[c], pendingAck[c])[i] = down[c][i]
             \/ Append(down[c], pendingAck[c])[i] = pendingAck[c]
    BY <2>1, AppendOrder
  <2>3. down \in [Conns -> Seq(Seqs \cup {Handshake})]
    BY <1>0 DEF TypeOK
  <2> QED BY <1>2, <2>2, <2>3
<1>4. \A d \in Conns : registering[d] # "over" => down'[d] = down[d]
  BY <1>0, <1>2 DEF WireInv, TypeOK, NoConn, Conns
<1>5. TypeOK'
  <2>1. pendingAck' \in [Conns -> Seqs \cup {0}]
    BY <1>0, <1>1 DEF TypeOK
  <2> QED BY <1>0, <1>1, <1>3, <2>1 DEF TypeOK
<1>6. KnownInv' /\ Feed!NothingLost'
  BY <1>0, <1>1 DEF KnownInv, Known, Feed!NothingLost, Settled
<1>7. WireInv'
  BY <1>0, <1>1, <1>4 DEF WireInv
<1>8. UpInv' /\ WiredInv'
  BY <1>0, <1>1 DEF UpInv, WiredInv, Routed, Settled
<1>9. AckInv'
  <2>1. \A d \in Conns : \A x \in 1..pendingAck'[d] : x \in Settled
    BY <1>0, <1>1 DEF TypeOK, AckInv
  <2>2. \A d \in Conns : \A i \in DOMAIN down'[d] : \A x \in 1..down'[d][i] : x \in Settled
    BY <1>0, <1>3 DEF AckInv
  <2> QED BY <1>1, <2>1, <2>2 DEF AckInv, Settled
<1>10. SessionsInv'
  BY <1>0, <1>1, SessionsUntouched
<1> QED BY <1>5, <1>6, <1>7, <1>8, <1>9, <1>10 DEF IInv, SessionsInv, HandledInv

(* A chain that goes on keeps its order but for its first link. *)
LEMMA ChainAdvances ==
  ASSUME TypeOK, NEW r \in Runs, chain[r] # << >>, chain' = [chain EXCEPT ![r] = Tail(@)]
  PROVE  /\ chain' \in [Runs -> Seq([conn : Conns, seq : Seqs])]
         /\ 1 \in DOMAIN chain[r] /\ Head(chain[r]) = chain[r][1]
         /\ chain[r][1].conn \in Conns /\ chain[r][1].seq \in Seqs
         /\ \A s \in Runs : \A x :
              Holds(chain[s], x) => (s = r /\ x = chain[r][1]) \/ Holds(chain'[s], x)
         /\ \A s \in Runs : \A i \in DOMAIN chain'[s] : \E j \in DOMAIN chain[s] :
              /\ chain'[s][i] = chain[s][j]
              /\ \A x : HoldsBefore(chain[s], j, x) =>
                   (s = r /\ x = chain[r][1]) \/ HoldsBefore(chain'[s], i, x)
         /\ \A s \in Runs \ {r} : chain'[s] = chain[s]
<1> DEFINE E == [conn : Conns, seq : Seqs]
<1>1. chain \in [Runs -> Seq(E)]
  BY DEF TypeOK
<1>e. \A x \in E : x.conn \in Conns /\ x.seq \in Seqs
  OBVIOUS
<1> HIDE DEF E
<1>2. /\ Tail(chain[r]) \in Seq(E) /\ 1 \in DOMAIN chain[r] /\ Head(chain[r]) = chain[r][1]
      /\ chain[r][1] \in E
      /\ \A x : Holds(chain[r], x) => x = chain[r][1] \/ Holds(Tail(chain[r]), x)
      /\ \A i \in DOMAIN Tail(chain[r]) : \E j \in DOMAIN chain[r] :
           /\ Tail(chain[r])[i] = chain[r][j]
           /\ \A x : HoldsBefore(chain[r], j, x) =>
                x = chain[r][1] \/ HoldsBefore(Tail(chain[r]), i, x)
  <2>1. chain[r] \in Seq(E)
    BY <1>1
  <2> QED BY <2>1, TailOrder
<1>3. /\ chain' \in [Runs -> Seq(E)] /\ chain'[r] = Tail(chain[r])
      /\ \A s \in Runs \ {r} : chain'[s] = chain[s]
  BY <1>1, <1>2
<1>4. \A s \in Runs : \A x :
        Holds(chain[s], x) => (s = r /\ x = chain[r][1]) \/ Holds(chain'[s], x)
  BY <1>2, <1>3
<1>5. \A s \in Runs : \A i \in DOMAIN chain'[s] : \E j \in DOMAIN chain[s] :
        /\ chain'[s][i] = chain[s][j]
        /\ \A x : HoldsBefore(chain[s], j, x) =>
             (s = r /\ x = chain[r][1]) \/ HoldsBefore(chain'[s], i, x)
  <2> TAKE s \in Runs
  <2>1. CASE s = r
    BY <2>1, <1>2, <1>3
  <2>2. CASE s # r
    BY <2>2, <1>3
  <2> QED BY <2>1, <2>2
<1> QED BY <1>2, <1>3, <1>4, <1>5, <1>e DEF E

LEMMA ChainStartStep ==
  ASSUME TunnelAssumption, IInv, NEW r \in Runs, ChainStart(r)
  PROVE  IInv'
<1>0. TypeOK /\ KnownInv /\ WireInv /\ UpInv /\ WiredInv /\ AckInv /\ SessionsInv /\ Feed!NothingLost
  BY IInvParts
<1> USE DEF hostVars, netVars, ackVars
<1>1. /\ chain[r] # << >> /\ r \notin busy
      /\ UNCHANGED <<hostVars, netVars, registering, connection, session, ackVars, failed,
                     handled, mishaps>>
  BY DEF ChainStart
<1>2. WireInv' /\ UpInv' /\ WiredInv' /\ AckInv' /\ Feed!NothingLost'
  BY <1>0, <1>1 DEF WireInv, UpInv, WiredInv, AckInv, Feed!NothingLost, Routed, Settled
<1>3. EntriesInv' /\ HandledInOrder' /\ (\A c \in Conns : processed[c] \subseteq handled)'
  BY <1>0, <1>1 DEF SessionsInv, EntriesInv, HandledInOrder, Feed!NoGap, Settled
<1>4. CASE chain[r][1].conn \in failed /\ chain' = [chain EXCEPT ![r] = Tail(@)] /\ busy' = busy
  <2> DEFINE h == chain[r][1]
  <2>1. /\ chain' \in [Runs -> Seq([conn : Conns, seq : Seqs])]
        /\ \A s \in Runs : \A x :
             Holds(chain[s], x) => (s = r /\ x = h) \/ Holds(chain'[s], x)
        /\ \A s \in Runs : \A i \in DOMAIN chain'[s] : \E j \in DOMAIN chain[s] :
             /\ chain'[s][i] = chain[s][j]
             /\ \A x : HoldsBefore(chain[s], j, x) => (s = r /\ x = h) \/ HoldsBefore(chain'[s], i, x)
        /\ \A s \in Runs \ {r} : chain'[s] = chain[s]
    BY <1>0, <1>1, <1>4, ChainAdvances
  <2>2. h.conn \in failed
    BY <1>4
  <2> HIDE DEF h
  <2>3. TypeOK'
    BY <2>1, <1>0, <1>1, <1>4 DEF TypeOK
  <2>4. KnownInv'
    BY <2>1, <1>0, <1>1 DEF KnownInv, Known, Settled
  <2>5. LinkInv'
    <3> SUFFICES ASSUME NEW c \in Conns \ failed, NEW i \in DOMAIN ackEntries[c],
                        ackEntries[c][i] \notin handled
                 PROVE  Holds(chain'[sent[ackEntries[c][i]].run], [conn |-> c, seq |-> ackEntries[c][i]])
      BY <1>1 DEF LinkInv
    <3>1. Holds(chain[sent[ackEntries[c][i]].run], [conn |-> c, seq |-> ackEntries[c][i]])
      BY <1>0 DEF SessionsInv, LinkInv
    <3>2. sent[ackEntries[c][i]].run \in Runs
      <4>1. sent[ackEntries[c][i]] \in Notifications
        BY <1>0 DEF KnownInv, Known, TypeOK
      <4> QED BY <4>1 DEF Notifications
    <3>3. [conn |-> c, seq |-> ackEntries[c][i]] # h
      BY <2>2
    <3> QED BY <2>1, <3>1, <3>2, <3>3
  <2>6. ChainInv'
    <3> SUFFICES ASSUME NEW s \in Runs, NEW i \in DOMAIN chain'[s], chain'[s][i].conn \notin failed,
                        NEW x \in 1..(chain'[s][i].seq - 1), sent[x].run = s, x \notin Settled
                 PROVE  HoldsBefore(chain'[s], i, [conn |-> chain'[s][i].conn, seq |-> x])
      BY <1>1 DEF ChainInv, Settled
    <3>1. PICK j \in DOMAIN chain[s] :
            /\ chain'[s][i] = chain[s][j]
            /\ \A y : HoldsBefore(chain[s], j, y) => (s = r /\ y = h) \/ HoldsBefore(chain'[s], i, y)
      BY <2>1
    <3>2. HoldsBefore(chain[s], j, [conn |-> chain'[s][i].conn, seq |-> x])
      BY <3>1, <1>0 DEF SessionsInv, ChainInv
    <3>3. [conn |-> chain'[s][i].conn, seq |-> x] # h
      BY <2>2
    <3> QED BY <3>1, <3>2, <3>3
  <2>7. BusyInv'
    <3>1. \A s \in busy : s \in Runs \ {r}
      BY <1>0, <1>1 DEF TypeOK
    <3> QED BY <3>1, <2>1, <1>0, <1>1, <1>4 DEF SessionsInv, BusyInv, Settled
  <2> QED BY <1>2, <1>3, <2>3, <2>4, <2>5, <2>6, <2>7 DEF IInv, SessionsInv, HandledInv
<1>5. CASE chain[r][1].conn \notin failed /\ busy' = busy \cup {r} /\ chain' = chain
  <2>1. TypeOK'
    BY <1>0, <1>1, <1>5 DEF TypeOK
  <2>2. KnownInv' /\ LinkInv' /\ ChainInv'
    BY <1>0, <1>1, <1>5 DEF KnownInv, Known, SessionsInv, LinkInv, ChainInv, Settled
  <2>3. 1 \in DOMAIN chain[r] /\ \A x : ~HoldsBefore(chain[r], 1, x)
    <3>1. chain[r] \in Seq([conn : Conns, seq : Seqs])
      BY <1>0 DEF TypeOK
    <3> QED BY <3>1, <1>1 DEF HoldsBefore
  <2>4. \A x \in 1..(chain[r][1].seq - 1) : sent[x].run = r => x \in Settled
    BY <2>3, <1>0, <1>5 DEF SessionsInv, ChainInv
  <2>5. BusyInv'
    BY <2>4, <1>0, <1>1, <1>5 DEF SessionsInv, BusyInv, Settled
  <2> QED BY <1>2, <1>3, <2>1, <2>2, <2>5 DEF IInv, SessionsInv, HandledInv
<1>6. Head(chain[r]) = chain[r][1]
  BY <1>0, <1>1 DEF TypeOK
<1> QED BY <1>4, <1>5, <1>6 DEF ChainStart, Skips

LEMMA ChainFailStep ==
  ASSUME TunnelAssumption, IInv, NEW r \in Runs, ChainFail(r)
  PROVE  IInv'
<1> DEFINE h == chain[r][1]
           c == h.conn
<1>0. TypeOK /\ KnownInv /\ WireInv /\ UpInv /\ WiredInv /\ AckInv /\ SessionsInv /\ Feed!NothingLost
  BY IInvParts
<1> USE DEF hostVars, ackVars
<1>1. /\ r \in busy /\ busy' = busy \ {r} /\ chain' = [chain EXCEPT ![r] = Tail(@)]
      /\ mishaps' = mishaps + 1
      /\ UNCHANGED <<hostVars, client, up, down, registering, connection, session, ackVars,
                     handled>>
  BY DEF ChainFail, ChainNext, Mishap
<1>2. chain[r] # << >>
  BY <1>0, <1>1 DEF SessionsInv, BusyInv
<1>3. /\ chain' \in [Runs -> Seq([conn : Conns, seq : Seqs])]
      /\ Head(chain[r]) = h /\ c \in Conns
      /\ \A s \in Runs : \A x :
           Holds(chain[s], x) => (s = r /\ x = h) \/ Holds(chain'[s], x)
      /\ \A s \in Runs : \A i \in DOMAIN chain'[s] : \E j \in DOMAIN chain[s] :
           /\ chain'[s][i] = chain[s][j]
           /\ \A x : HoldsBefore(chain[s], j, x) => (s = r /\ x = h) \/ HoldsBefore(chain'[s], i, x)
      /\ \A s \in Runs \ {r} : chain'[s] = chain[s]
  BY <1>0, <1>1, <1>2, ChainAdvances
<1>4. failed' = failed \cup {c} /\ socket' = Terminate(c)
  BY <1>3 DEF ChainFail
<1>5. /\ socket' \in [Conns -> {"none", "open", "closing", "closed"}]
      /\ \A d \in Conns : /\ socket[d] = "none" => socket'[d] = "none"
                          /\ socket'[d] = "open" => socket[d] = "open"
  BY <1>0, <1>3, <1>4 DEF TypeOK, Terminate
<1> HIDE DEF h
<1>6. TypeOK'
  <2>1. mishaps' \in Nat /\ failed' \subseteq Conns /\ busy' \subseteq Runs
    <3>1. failed \subseteq Conns /\ busy \subseteq Runs /\ mishaps \in Nat
      BY <1>0 DEF TypeOK
    <3>2. c \in Conns
      BY <1>3
    <3> HIDE DEF c
    <3> QED BY <3>1, <3>2, <1>1, <1>4
  <2> QED BY <1>0, <1>1, <1>3, <1>5, <2>1 DEF TypeOK
<1>7. KnownInv'
  BY <1>0, <1>1, <1>3 DEF KnownInv, Known, Settled
<1>8. WireInv'
  BY <1>0, <1>1, <1>5 DEF WireInv
<1>9. UpInv' /\ WiredInv'
  BY <1>0, <1>1, <1>4, <1>5 DEF UpInv, WiredInv, Routed, Settled
<1>10. AckInv' /\ Feed!NothingLost'
  BY <1>0, <1>1 DEF AckInv, Feed!NothingLost, Settled
<1>11. EntriesInv' /\ HandledInOrder' /\ (\A d \in Conns : processed[d] \subseteq handled)'
  BY <1>0, <1>1 DEF SessionsInv, EntriesInv, HandledInOrder, Feed!NoGap, Settled
<1>12. LinkInv'
  <2> SUFFICES ASSUME NEW d \in Conns \ failed', NEW i \in DOMAIN ackEntries[d],
                      ackEntries[d][i] \notin handled
               PROVE  Holds(chain'[sent[ackEntries[d][i]].run], [conn |-> d, seq |-> ackEntries[d][i]])
    BY <1>1 DEF LinkInv
  <2>1. Holds(chain[sent[ackEntries[d][i]].run], [conn |-> d, seq |-> ackEntries[d][i]])
    BY <1>0, <1>4 DEF SessionsInv, LinkInv
  <2>2. sent[ackEntries[d][i]].run \in Runs
    <3>1. sent[ackEntries[d][i]] \in Notifications
      BY <1>0 DEF KnownInv, Known, TypeOK
    <3> QED BY <3>1 DEF Notifications
  <2>3. [conn |-> d, seq |-> ackEntries[d][i]] # h
    BY <1>4
  <2> QED BY <1>3, <2>1, <2>2, <2>3
<1>13. ChainInv'
  <2> SUFFICES ASSUME NEW s \in Runs, NEW i \in DOMAIN chain'[s], chain'[s][i].conn \notin failed',
                      NEW x \in 1..(chain'[s][i].seq - 1), sent[x].run = s, x \notin Settled
               PROVE  HoldsBefore(chain'[s], i, [conn |-> chain'[s][i].conn, seq |-> x])
    BY <1>1 DEF ChainInv, Settled
  <2>1. PICK j \in DOMAIN chain[s] :
          /\ chain'[s][i] = chain[s][j]
          /\ \A y : HoldsBefore(chain[s], j, y) => (s = r /\ y = h) \/ HoldsBefore(chain'[s], i, y)
    BY <1>3
  <2>2. HoldsBefore(chain[s], j, [conn |-> chain'[s][i].conn, seq |-> x])
    BY <2>1, <1>0, <1>4 DEF SessionsInv, ChainInv
  <2>3. [conn |-> chain'[s][i].conn, seq |-> x] # h
    BY <1>4
  <2> QED BY <2>1, <2>2, <2>3
<1>14. BusyInv'
  <2>1. \A s \in busy' : s \in Runs \ {r} /\ s \in busy
    BY <1>0, <1>1 DEF TypeOK
  <2> QED BY <2>1, <1>0, <1>1, <1>3 DEF SessionsInv, BusyInv, Settled
<1> QED BY <1>6, <1>7, <1>8, <1>9, <1>10, <1>11, <1>12, <1>13, <1>14
        DEF IInv, SessionsInv, HandledInv

LEMMA CrashStep ==
  ASSUME TunnelAssumption, IInv, Crash
  PROVE  IInv'
<1>0. TypeOK /\ KnownInv /\ WireInv /\ UpInv /\ WiredInv /\ AckInv /\ SessionsInv /\ Feed!NothingLost
  BY IInvParts
<1> USE DEF Crash, Mishap, hostVars
<1>1. TypeOK'
  <2>1. /\ socket' \in [Conns -> {"none", "open", "closing", "closed"}]
        /\ registering' \in [Conns -> {"no", "waiting", "over"}]
        /\ mishaps' \in Nat
    BY <1>0 DEF TypeOK
  <2>2. up' \in [Conns -> Seq(Seqs \cup {Handshake})] /\ ackEntries' \in [Conns -> Seq(Seqs)]
    OBVIOUS
  <2>3. chain' \in [Runs -> Seq([conn : Conns, seq : Seqs])]
    OBVIOUS
  <2>4. processed' \in [Conns -> SUBSET Seqs] /\ pendingAck' \in [Conns -> Seqs \cup {0}]
    OBVIOUS
  <2> QED BY <1>0, <2>1, <2>2, <2>3, <2>4 DEF TypeOK
<1>2. KnownInv' /\ Feed!NothingLost'
  BY <1>0 DEF KnownInv, Known, Feed!NothingLost, Settled
<1>3. WireInv'
  BY <1>0 DEF TypeOK, WireInv
<1>4. UpInv' /\ WiredInv'
  BY <1>0 DEF UpInv, WiredInv, Routed, NoConn, Conns
<1>5. AckInv'
  BY <1>0 DEF AckInv, Settled
<1>6. EntriesInv' /\ LinkInv' /\ ChainInv' /\ BusyInv'
  BY DEF EntriesInv, LinkInv, ChainInv, BusyInv
<1>7. HandledInOrder' /\ (\A c \in Conns : processed[c] \subseteq handled)'
  BY <1>0 DEF SessionsInv, HandledInOrder, Feed!NoGap
<1> QED BY <1>1, <1>2, <1>3, <1>4, <1>5, <1>6, <1>7 DEF IInv, SessionsInv, HandledInv

LEMMA ChainOkStep ==
  ASSUME TunnelAssumption, IInv, NEW r \in Runs, ChainOk(r)
  PROVE  /\ IInv'
         /\ \E n \in 1..Len(sent) :
              /\ \A x \in 1..(n - 1) : sent[x].run = sent[n].run => x \in Settled
              /\ handled' = handled \cup {n}
<1> DEFINE h == chain[r][1]
           c == h.conn
           n == h.seq
           q == ackEntries[c]
           done == processed[c] \cup {n}
           ends == Ackables(q, done)
           k == Last(ends)
           moved == /\ ends # {}
                    /\ ackEntries' = [ackEntries EXCEPT ![c] = SubSeq(q, k + 1, Len(q))]
                    /\ pendingAck' = [pendingAck EXCEPT ![c] = q[k]]
<1>0. TypeOK /\ KnownInv /\ WireInv /\ UpInv /\ WiredInv /\ AckInv /\ SessionsInv /\ Feed!NothingLost
  BY IInvParts
<1> USE DEF hostVars, netVars
<1>1. /\ r \in busy /\ busy' = busy \ {r} /\ chain' = [chain EXCEPT ![r] = Tail(@)]
      /\ UNCHANGED <<hostVars, netVars, registering, connection, session, failed, mishaps>>
  BY DEF ChainOk, ChainNext
<1>2. chain[r] # << >> /\ \A x \in 1..(n - 1) : sent[x].run = r => x \in Settled
  BY <1>0, <1>1 DEF SessionsInv, BusyInv
<1>3. /\ chain' \in [Runs -> Seq([conn : Conns, seq : Seqs])]
      /\ 1 \in DOMAIN chain[r] /\ Head(chain[r]) = h /\ c \in Conns /\ n \in Seqs
      /\ \A s \in Runs : \A x :
           Holds(chain[s], x) => (s = r /\ x = h) \/ Holds(chain'[s], x)
      /\ \A s \in Runs : \A i \in DOMAIN chain'[s] : \E j \in DOMAIN chain[s] :
           /\ chain'[s][i] = chain[s][j]
           /\ \A x : HoldsBefore(chain[s], j, x) => (s = r /\ x = h) \/ HoldsBefore(chain'[s], i, x)
      /\ \A s \in Runs \ {r} : chain'[s] = chain[s]
  BY <1>0, <1>1, <1>2, ChainAdvances
<1>4. /\ handled' = handled \cup {n}
      /\ processed' = [processed EXCEPT ![c] = done]
      /\ UNCHANGED <<ackEntries, pendingAck>> \/ moved
  BY <1>3 DEF ChainOk
<1>5. n \in 1..Len(sent) /\ sent[n].run = r
  BY <1>0, <1>3 DEF KnownInv, Known
<1>6. done \subseteq handled' /\ done \subseteq Seqs
  <2>1. processed[c] \subseteq handled /\ processed[c] \subseteq Seqs
    BY <1>0, <1>3 DEF SessionsInv, TypeOK
  <2> QED BY <2>1, <1>3, <1>4
<1> HIDE DEF h, c, n, done, ends, k, moved
<1>7. Settled \subseteq Settled' /\ done \subseteq Settled' /\ n \in Settled'
  BY <1>1, <1>4, <1>6 DEF Settled
(* What an acknowledgement takes from the entries is settled. *)
<1>8. /\ ackEntries' \in [Conns -> Seq(Seqs)]
      /\ pendingAck' \in [Conns -> Seqs \cup {0}]
      /\ \A d \in Conns : \A x \in 1..pendingAck'[d] : x \in Settled'
      /\ \A d \in Conns : \A x : Holds(ackEntries[d], x) => x \in Settled' \/ Holds(ackEntries'[d], x)
      /\ \A d \in Conns : \A i \in DOMAIN ackEntries'[d] : \E j \in DOMAIN ackEntries[d] :
           /\ ackEntries'[d][i] = ackEntries[d][j]
           /\ \A x : HoldsBefore(ackEntries[d], j, x) =>
                x \in Settled' \/ HoldsBefore(ackEntries'[d], i, x)
  <2>0. /\ ackEntries \in [Conns -> Seq(Seqs)] /\ pendingAck \in [Conns -> Seqs \cup {0}]
        /\ \A d \in Conns : \A x \in 1..pendingAck[d] : x \in Settled
    BY <1>0 DEF TypeOK, AckInv
  <2>1. CASE UNCHANGED <<ackEntries, pendingAck>>
    BY <2>0, <2>1, <1>7
  <2>2. CASE moved
    <3>1. q \in Seq(Seqs) /\ Len(q) \in Nat /\ DOMAIN q = 1..Len(q)
      BY <2>0, <1>3
    <3>2. k \in ends
      <4>1. ends \in SUBSET (1..Len(q)) /\ ends # {}
        BY <2>2 DEF ends, Ackables, moved
      <4> QED BY <4>1, <3>1, LastExists DEF k
    <3>3. k \in 1..Len(q) /\ k \in Nat /\ \A l \in 1..k : q[l] \in done
      BY <3>2, <3>1 DEF ends, Ackables
    <3>4. LET p == SubSeq(q, k + 1, Len(q)) IN
          /\ p \in Seq(Seqs)
          /\ \A x : Holds(q, x) => (\E l \in 1..k : q[l] = x) \/ Holds(p, x)
          /\ \A i \in DOMAIN p : \E j \in DOMAIN q :
               /\ p[i] = q[j]
               /\ \A x : HoldsBefore(q, j, x) =>
                    (\E l \in 1..k : q[l] = x) \/ HoldsBefore(p, i, x)
      BY <3>1, <3>3, RestOrder
    <3>5. q[k] \in Seqs /\ q[k] \in done /\ k \in DOMAIN q
      BY <3>1, <3>3, <1>6
    <3>6. \A x \in 1..q[k] : x \in Settled'
      <4> SUFFICES ASSUME NEW x \in 1..q[k], x # q[k], x \notin Settled PROVE x \in Settled'
        BY <3>5, <1>7
      <4>1. x \in 1..(q[k] - 1)
        BY <3>5 DEF Seqs
      <4>2. HoldsBefore(q, k, x)
        BY <4>1, <3>5, <1>0, <1>3 DEF SessionsInv, EntriesInv
      <4>3. PICK l \in DOMAIN q : l < k /\ q[l] = x
        BY <4>2 DEF HoldsBefore
      <4>4. l \in 1..k
        BY <4>3, <3>1, <3>3
      <4> QED BY <4>3, <4>4, <3>3, <1>7
    <3> DEFINE p == SubSeq(q, k + 1, Len(q))
    <3>7. /\ ackEntries' \in [Conns -> Seq(Seqs)] /\ ackEntries'[c] = p
          /\ \A d \in Conns \ {c} : ackEntries'[d] = ackEntries[d]
      BY <2>0, <2>2, <3>4, <1>3 DEF moved
    <3>8. pendingAck' \in [Conns -> Seqs \cup {0}]
      BY <2>0, <2>2, <3>5, <1>3 DEF moved
    <3>9. pendingAck'[c] = q[k] /\ \A d \in Conns \ {c} : pendingAck'[d] = pendingAck[d]
      BY <2>0, <2>2, <1>3 DEF moved
    <3>10. /\ \A x : Holds(q, x) => x \in Settled' \/ Holds(p, x)
           /\ \A i \in DOMAIN p : \E j \in DOMAIN q :
                /\ p[i] = q[j]
                /\ \A x : HoldsBefore(q, j, x) => x \in Settled' \/ HoldsBefore(p, i, x)
      BY <3>3, <3>4, <1>7
    <3> HIDE DEF p
    <3>11. \A d \in Conns : \A x \in 1..pendingAck'[d] : x \in Settled'
      BY <3>6, <3>9, <2>0, <1>7
    <3>12. \A d \in Conns : \A x : Holds(ackEntries[d], x) => x \in Settled' \/ Holds(ackEntries'[d], x)
      BY <3>7, <3>10
    <3>13. ASSUME NEW d \in Conns, NEW i \in DOMAIN ackEntries'[d]
           PROVE  \E j \in DOMAIN ackEntries[d] :
                    /\ ackEntries'[d][i] = ackEntries[d][j]
                    /\ \A x : HoldsBefore(ackEntries[d], j, x) =>
                         x \in Settled' \/ HoldsBefore(ackEntries'[d], i, x)
      <4>1. CASE d = c
        BY <4>1, <3>7, <3>10
      <4>2. CASE d # c
        BY <4>2, <3>7
      <4> QED BY <4>1, <4>2
    <3> QED BY <3>7, <3>8, <3>11, <3>12, <3>13
  <2> QED BY <2>1, <2>2, <1>4
<1>9. TypeOK'
  <2>1. handled' \subseteq Seqs /\ busy' \subseteq Runs
    BY <1>0, <1>1, <1>3, <1>4 DEF TypeOK
  <2>2. processed' \in [Conns -> SUBSET Seqs]
    BY <1>0, <1>3, <1>4, <1>6 DEF TypeOK
  <2> QED BY <1>0, <1>1, <1>3, <1>8, <2>1, <2>2 DEF TypeOK
<1>10. KnownInv'
  <2>1. \A x \in Settled' : x \in 1..Len(sent)
    BY <1>0, <1>1, <1>4, <1>5 DEF KnownInv, Known, Settled
  <2>2. \A d \in Conns : \A i \in DOMAIN ackEntries'[d] : ackEntries'[d][i] \in 1..Len(sent)
    BY <1>0, <1>8 DEF KnownInv, Known
  <2>3. \A s \in Runs : \A i \in DOMAIN chain'[s] :
          chain'[s][i].seq \in 1..Len(sent) /\ sent[chain'[s][i].seq].run = s
    BY <1>0, <1>3 DEF KnownInv, Known
  <2> QED BY <1>0, <1>1, <2>1, <2>2, <2>3 DEF KnownInv, Known
<1>11. WireInv' /\ Feed!NothingLost'
  BY <1>0, <1>1, <1>4 DEF WireInv, Feed!NothingLost
<1>12. UpInv'
  BY <1>0, <1>1, <1>7, <1>8 DEF UpInv, Routed
<1>13. WiredInv'
  BY <1>0, <1>1, <1>7, <1>8 DEF WiredInv, Routed
<1>14. AckInv'
  BY <1>0, <1>1, <1>7, <1>8 DEF AckInv
<1>15. EntriesInv'
  <2> SUFFICES ASSUME NEW d \in Conns, NEW i \in DOMAIN ackEntries'[d],
                      NEW x \in 1..(ackEntries'[d][i] - 1)
               PROVE  x \in Settled' \/ HoldsBefore(ackEntries'[d], i, x)
    BY DEF EntriesInv
  <2>1. PICK j \in DOMAIN ackEntries[d] :
          /\ ackEntries'[d][i] = ackEntries[d][j]
          /\ \A y : HoldsBefore(ackEntries[d], j, y) =>
               y \in Settled' \/ HoldsBefore(ackEntries'[d], i, y)
    BY <1>8
  <2>2. x \in Settled \/ HoldsBefore(ackEntries[d], j, x)
    BY <2>1, <1>0 DEF SessionsInv, EntriesInv
  <2> QED BY <2>1, <2>2, <1>7
<1>16. LinkInv'
  <2> SUFFICES ASSUME NEW d \in Conns \ failed, NEW i \in DOMAIN ackEntries'[d],
                      ackEntries'[d][i] \notin handled'
               PROVE  Holds(chain'[sent[ackEntries'[d][i]].run],
                            [conn |-> d, seq |-> ackEntries'[d][i]])
    BY <1>1 DEF LinkInv
  <2> DEFINE x == ackEntries'[d][i]
  <2>1. PICK j \in DOMAIN ackEntries[d] : x = ackEntries[d][j]
    BY <1>8
  <2>2. Holds(chain[sent[x].run], [conn |-> d, seq |-> x])
    BY <2>1, <1>0, <1>4 DEF SessionsInv, LinkInv
  <2>3. sent[x].run \in Runs
    <3>1. sent[x] \in Notifications
      BY <2>1, <1>0 DEF KnownInv, Known, TypeOK
    <3> QED BY <3>1 DEF Notifications
  <2>4. [conn |-> d, seq |-> x] # h
    BY <1>4 DEF n
  <2> QED BY <2>2, <2>3, <2>4, <1>3
<1>17. ChainInv'
  <2> SUFFICES ASSUME NEW s \in Runs, NEW i \in DOMAIN chain'[s], chain'[s][i].conn \notin failed,
                      NEW x \in 1..(chain'[s][i].seq - 1), sent[x].run = s, x \notin Settled'
               PROVE  HoldsBefore(chain'[s], i, [conn |-> chain'[s][i].conn, seq |-> x])
    BY <1>1 DEF ChainInv
  <2>1. PICK j \in DOMAIN chain[s] :
          /\ chain'[s][i] = chain[s][j]
          /\ \A y : HoldsBefore(chain[s], j, y) => (s = r /\ y = h) \/ HoldsBefore(chain'[s], i, y)
    BY <1>3
  <2>2. HoldsBefore(chain[s], j, [conn |-> chain'[s][i].conn, seq |-> x])
    BY <2>1, <1>0, <1>7 DEF SessionsInv, ChainInv
  <2>3. [conn |-> chain'[s][i].conn, seq |-> x] # h
    BY <1>7 DEF n
  <2> QED BY <2>1, <2>2, <2>3
<1>18. BusyInv'
  <2>1. \A s \in busy' : s \in Runs \ {r} /\ s \in busy
    BY <1>0, <1>1 DEF TypeOK
  <2> QED BY <2>1, <1>0, <1>1, <1>3, <1>7 DEF SessionsInv, BusyInv
<1>19. HandledInOrder'
  <2> SUFFICES ASSUME NEW x \in 1..Len(sent), NEW y \in 1..Len(sent), x < y,
                      sent[x].run = sent[y].run, y \in handled'
               PROVE  x \in Settled'
    BY <1>1 DEF HandledInOrder, Feed!NoGap, Settled
  <2>1. CASE y \in handled
    BY <2>1, <1>0, <1>7 DEF SessionsInv, HandledInOrder, Feed!NoGap, Settled
  <2>2. CASE y = n
    <3>1. x \in 1..(n - 1)
      BY <2>2, <1>5
    <3> QED BY <2>2, <3>1, <1>2, <1>5, <1>7
  <2> QED BY <2>1, <2>2, <1>4
<1>20. (\A d \in Conns : processed[d] \subseteq handled)'
  <2>1. \A d \in Conns : processed[d] \subseteq handled
    BY <1>0 DEF SessionsInv
  <2>2. \A d \in Conns : processed'[d] = IF d = c THEN done ELSE processed[d]
    BY <1>0, <1>4 DEF TypeOK
  <2> QED BY <2>1, <2>2, <1>4, <1>6
<1>21. IInv'
  BY <1>9, <1>10, <1>11, <1>12, <1>13, <1>14, <1>15, <1>16, <1>17, <1>18, <1>19, <1>20
     DEF IInv, HandledInv
<1> QED BY <1>2, <1>4, <1>5, <1>21

LEMMA StutterStep ==
  ASSUME IInv, UNCHANGED vars
  PROVE  IInv'
<1> USE DEF vars, hostVars, netVars, ackVars, serverVars
<1>0. TypeOK /\ KnownInv /\ WireInv /\ UpInv /\ WiredInv /\ AckInv /\ SessionsInv /\ Feed!NothingLost
  BY IInvParts
<1>1. TypeOK' /\ KnownInv' /\ WireInv' /\ Feed!NothingLost'
  BY <1>0 DEF TypeOK, KnownInv, Known, WireInv, Settled, Feed!NothingLost
<1>2. UpInv' /\ WiredInv' /\ AckInv'
  BY <1>0 DEF UpInv, WiredInv, AckInv, Routed, Settled
<1>3. SessionsInv'
  BY <1>0, SessionsUntouched
<1> QED BY <1>1, <1>2, <1>3 DEF IInv, SessionsInv, HandledInv

-----------------------------------------------------------------------------
(* The theorems *)

LEMMA NextStep ==
  ASSUME TunnelAssumption, IInv, [Next]_vars
  PROVE  IInv'
<1>1. CASE UNCHANGED vars
  BY <1>1, StutterStep
<1>2. CASE Next
  <2>1. ASSUME NEW m \in Notifications, Send(m) PROVE IInv'
    BY <2>1, SendStep
  <2>2. ASSUME NEW c \in Conns,
               Connect(c) \/ HostReceive(c) \/ HostClose(c) \/ ServerClose(c) \/ Register(c)
        PROVE  IInv'
    BY <2>2, ConnectStep, HostReceiveStep, HostCloseStep, ServerCloseStep, RegisterStep
  <2>3. ASSUME NEW c \in Conns,
               Bind(c) \/ RegisterFail(c) \/ RegisterTimeout(c) \/ Receive(c) \/ SendAck(c)
        PROVE  IInv'
    BY <2>3, BindStep, RegisterFailStep, RegisterTimeoutStep, ReceiveStep, SendAckStep
  <2>4. ASSUME NEW r \in Runs, ChainStart(r) \/ ChainOk(r) \/ ChainFail(r) PROVE IInv'
    BY <2>4, ChainStartStep, ChainOkStep, ChainFailStep
  <2>5. CASE Crash
    BY <2>5, CrashStep
  <2> QED BY <1>2, <2>1, <2>2, <2>3, <2>4, <2>5 DEF Next
<1> QED BY <1>1, <1>2

(* The invariant holds in every behaviour of the tunnel. *)
THEOREM TunnelInvariant == Spec => []IInv
<1>1. Init => IInv
  BY TunnelAssumption, InitIInv
<1>2. IInv /\ [Next]_vars => IInv'
  BY TunnelAssumption, NextStep
<1> QED BY <1>1, <1>2, PTL DEF Spec

(* Every variable of the two ends keeps its type, and TunnelUpstream's buffer its
   cap, whatever the number of runs, notifications, connections and mishaps. *)
THEOREM TunnelTyped == Spec => []TypeOK
<1>1. IInv => TypeOK
  BY DEF IInv
<1> QED BY <1>1, TunnelInvariant, PTL

(* The run core never handles a notification before an earlier one of its run: the
   chains of HostTunnelHandler, a failed session and the replay of setSession keep
   the order of a run across any number of connections and crashes. *)
THEOREM TunnelInOrder == Spec => []HandledInOrder
<1>1. IInv => HandledInOrder
  BY DEF IInv, HandledInv
<1> QED BY <1>1, TunnelInvariant, PTL

(* What a step of the tunnel is to the reliable feed. *)
LEMMA StepOfFeed ==
  ASSUME TunnelAssumption, IInv, [Next]_vars
  PROVE  [Feed!Next]_(Feed!vars)
<1>1. CASE UNCHANGED <<sent, buffer, dropped, handled>>
  BY <1>1 DEF Feed!vars
<1>2. ASSUME NEW m \in Notifications, Send(m) PROVE Feed!Next
  <2>1. Feed!Send(m) /\ m \in Feed!Notifications
    BY <1>2, SendStep DEF Notifications, Feed!Notifications
  <2> QED BY <2>1 DEF Feed!Next
<1>3. ASSUME NEW r \in Runs, ChainOk(r) PROVE Feed!Next
  <2>1. PICK n \in 1..Len(sent) :
          /\ \A x \in 1..(n - 1) : sent[x].run = sent[n].run => x \in Settled
          /\ handled' = handled \cup {n}
    BY <1>3, ChainOkStep
  <2>2. UNCHANGED <<sent, buffer, dropped>>
    BY <1>3 DEF ChainOk, hostVars
  <2>3. Feed!Handle(n)
    BY <2>1, <2>2 DEF Feed!Handle, Settled
  <2> QED BY <2>3 DEF Feed!Next
<1>4. ASSUME NEW c \in Conns, HostReceive(c), ~UNCHANGED <<sent, buffer, dropped, handled>>
      PROVE  Feed!Next
  <2> DEFINE m == Head(down[c])
             gone == buffer \cap 1..m
  <2>1. buffer' = buffer \ 1..m /\ UNCHANGED <<sent, dropped, handled>> /\ down[c] # << >>
    BY <1>4 DEF HostReceive
  <2>2. 1 \in DOMAIN down[c] /\ m = down[c][1]
    BY <2>1 DEF IInv, TypeOK
  <2>3. \A x \in 1..m : x \in Settled
    BY <2>2 DEF IInv, AckInv
  <2>4. gone \subseteq buffer \cap handled
    BY <2>3 DEF IInv, KnownInv, Settled
  <2>5. buffer' = buffer \ gone
    BY <2>1
  <2>6. Feed!Forget(gone)
    BY <2>1, <2>4, <2>5 DEF Feed!Forget
  <2> QED BY <2>6 DEF Feed!Next
<1>5. ASSUME NEW c \in Conns,
             Connect(c) \/ HostClose(c) \/ ServerClose(c) \/ Register(c) \/ Bind(c)
               \/ RegisterFail(c) \/ RegisterTimeout(c) \/ Receive(c) \/ SendAck(c)
      PROVE  UNCHANGED <<sent, buffer, dropped, handled>>
  BY <1>5 DEF Connect, HostClose, ServerClose, Register, Bind, RegisterFail, RegisterTimeout,
              Receive, SendAck, hostVars
<1>6. ASSUME NEW r \in Runs, ChainStart(r) \/ ChainFail(r)
      PROVE  UNCHANGED <<sent, buffer, dropped, handled>>
  BY <1>6 DEF ChainStart, ChainFail, hostVars
<1>7. CASE Crash
  BY <1>1, <1>7 DEF Crash, hostVars
<1>8. CASE UNCHANGED vars
  BY <1>1, <1>8 DEF vars, hostVars
<1>9. CASE Next
  BY <1>1, <1>2, <1>3, <1>4, <1>5, <1>6, <1>7, <1>9 DEF Next
<1> QED BY <1>8, <1>9

(* The tunnel implements the reliable feed: a notification leaves TunnelUpstream's
   buffer only when the run core has handled it or a full buffer gave it up, and it
   is handled only after the earlier ones of its run. *)
THEOREM TunnelIsReliableFeed == Spec => IsReliableFeed
<1>1. Init => Feed!Init
  BY DEF Init, Feed!Init
<1>2. IInv /\ [Next]_vars => [Feed!Next]_(Feed!vars)
  BY TunnelAssumption, StepOfFeed
<1> QED BY <1>1, <1>2, TunnelInvariant, PTL DEF Spec, IsReliableFeed, Feed!Spec

-----------------------------------------------------------------------------
(* What the promise of the feed means for its states. *)

(* The strengthening of NoGap and NothingLost: only what was sent is kept, handled
   or dropped. *)
FeedInv ==
  /\ sent \in Seq(Notifications)
  /\ buffer \cup handled \cup dropped \subseteq 1..Len(sent)
  /\ Feed!NothingLost
  /\ Feed!NoGap

LEMMA StepFeed == FeedInv /\ [Feed!Next]_(Feed!vars) => FeedInv'
<1> SUFFICES ASSUME FeedInv, [Feed!Next]_(Feed!vars) PROVE FeedInv'
  OBVIOUS
<1> USE DEF FeedInv, Feed!NothingLost, Feed!NoGap
<1>1. ASSUME NEW m \in Notifications, Feed!Send(m) PROVE FeedInv'
  <2> DEFINE n == Len(sent) + 1
  <2>1. /\ sent' = Append(sent, m) /\ handled' = handled
        /\ sent' \in Seq(Notifications) /\ Len(sent') = n
        /\ \A i \in 1..Len(sent) : sent'[i] = sent[i]
    BY <1>1 DEF Feed!Send
  <2>2. buffer' \cup dropped' = buffer \cup dropped \cup {n}
    BY <1>1 DEF Feed!Send
  <2>3. dropped \subseteq dropped'
    BY <1>1 DEF Feed!Send
  <2>4. (buffer \cup handled \cup dropped \subseteq 1..Len(sent))'
    BY <2>1, <2>2
  <2>5. Feed!NothingLost'
    BY <2>1, <2>2
  <2>6. Feed!NoGap'
    BY <2>1, <2>3
  <2> QED BY <2>1, <2>4, <2>5, <2>6
<1>2. ASSUME NEW n \in 1..Len(sent), Feed!Handle(n) PROVE FeedInv'
  BY <1>2 DEF Feed!Handle
<1>3. ASSUME NEW gone \in SUBSET buffer, Feed!Forget(gone) PROVE FeedInv'
  BY <1>3 DEF Feed!Forget
<1>4. CASE UNCHANGED Feed!vars
  BY <1>4 DEF Feed!vars
<1> QED BY <1>1, <1>2, <1>3, <1>4 DEF Feed!Next, Notifications, Feed!Notifications

(* A feed never loses a notification that it neither handled nor gave up for want
   of room, and never handles one of a run before an earlier one. *)
THEOREM FeedKeepsAll == Feed!Spec => [](Feed!NothingLost /\ Feed!NoGap)
<1>1. Feed!Init => FeedInv
  BY DEF Feed!Init, FeedInv, Feed!NothingLost, Feed!NoGap
<1>2. FeedInv => Feed!NothingLost /\ Feed!NoGap
  BY DEF FeedInv
<1> QED BY <1>1, <1>2, StepFeed, PTL DEF Feed!Spec
=============================================================================
