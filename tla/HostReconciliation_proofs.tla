--------------------- MODULE HostReconciliation_proofs ---------------------
(***************************************************************************)
(* What the reconciliation of a Host keeps, for any runs, workspaces,      *)
(* versions of the user, connections and mishaps.                          *)
(*                                                                         *)
(* The argument follows what the Host had to give back when it was bound   *)
(* through the stages of the attempt of its epoch: not asked yet, listed,  *)
(* to do, requested, gone.  What is gone stays gone, because a release     *)
(* leaves its fence and a run is submitted once.                           *)
(***************************************************************************)
EXTENDS HostReconciliation, SequenceTheorems, TLAPS

Kinds == {"listRunIds", "cancel", "listClaims", "releaseResources", "releaseRun", "submitRun"}
Requests ==
    {m \in [kind : Kinds, from : Conns \cup {None}, run : Runs \cup {NoRun}, target : Targets \cup {NoTarget}] :
        /\ m.kind \in {"cancel", "releaseRun", "submitRun"} => m.run \in Runs
        /\ m.kind = "releaseResources" => m.target \in Targets
        /\ m.kind \in {"releaseRun", "submitRun"} => m.from = None}

Stages == {"none", "runs", "rows", "cancel", "claims", "claimed", "spaces", "users", "retry"}
ClaimSets == [spaces : SUBSET Spaces, user : BOOLEAN, pending : SUBSET Targets]
Attempts ==
    {a \in [at : Stages, todo : SUBSET (Runs \cup Targets), waiting : BOOLEAN, failed : BOOLEAN, claims : ClaimSets] :
        /\ a.todo \subseteq IF a.at \in {"spaces", "users"} THEN Targets ELSE Runs
        /\ a.at \in {"claims", "claimed"} => a.todo = {}}

Debts == [runs : SUBSET Runs, workers : SUBSET Workers, spaces : SUBSET Spaces,
          version : 0..MaxVersion, cleanups : SUBSET Cleanups]

(* The types of TypeOK, with those that only the proofs need.              *)
DbTypes ==
    /\ user \in [version : 1..MaxVersion, active : BOOLEAN]
    /\ deleted \subseteq Spaces
    /\ row \in [Runs -> {"none", "active", "ended"}]
    /\ version \in [Runs -> 0..MaxVersion]
    /\ stored \in Nat /\ process \in Nat \ {0}
    /\ launching \subseteq Runs /\ notices \subseteq 1..MaxVersion

ConnTypes ==
    /\ open \subseteq Conns
    /\ registering \in [Conns -> {"no", "list", "reap", "over"}]
    /\ zombies \in [Conns -> SUBSET Runs]
    /\ {bound, epoch, socket} \subseteq Conns \cup {None}
    /\ admission \in {"none", "reconciling", "ready", "reconcile_failed"}
    /\ madeBy \in [Conns -> Nat]
    /\ wire # << >> => bound = socket /\ bound # None

HostTypes ==
    /\ held \subseteq Runs /\ workers \subseteq Workers
    /\ tomb \subseteq Spaces /\ revoked \in 0..MaxVersion /\ maxSeen \in 0..MaxVersion
    /\ pending \subseteq Cleanups
    /\ acceptedBy \in [Runs -> Nat]
    /\ owed \in Debts
    /\ reapLost \in BOOLEAN /\ mishaps \in 0..MaxMishaps

RequestTypes == attempt \in [Conns -> Attempts] /\ wire \in Seq(Requests)

Types == DbTypes /\ ConnTypes /\ HostTypes /\ RequestTypes

-----------------------------------------------------------------------------
(* The requests under way.                                                 *)
Msgs(q) == {q[i] : i \in DOMAIN q}
Under == Msgs(wire)

(* Requests that an attempt waits for at once, or that submit one run.     *)
Clash(m, n) == \/ m.from = n.from /\ m.from # None
               \/ m.kind = "submitRun" /\ n.kind = "submitRun" /\ m.run = n.run
OneEach(q) == \A i, j \in DOMAIN q : Clash(q[i], q[j]) => i = j

LEMMA NothingUnder == Msgs(<< >>) = {} /\ OneEach(<< >>) /\ \A S : << >> \in Seq(S)
<1>1. DOMAIN << >> = {}
  OBVIOUS
<1>2. \A S : << >> \in Seq(S)
  OBVIOUS
<1> QED BY <1>1, <1>2 DEF Msgs, OneEach

LEMMA AppendUnder ==
  ASSUME NEW S, NEW q \in Seq(S), NEW m \in S
  PROVE  /\ Append(q, m) \in Seq(S)
         /\ Msgs(Append(q, m)) = Msgs(q) \cup {m}
         /\ OneEach(q) /\ (\A x \in Msgs(q) : ~Clash(x, m) /\ ~Clash(m, x)) => OneEach(Append(q, m))
<1> DEFINE w == Append(q, m)
           N == Len(q) + 1
<1>1. /\ w \in Seq(S) /\ DOMAIN w = 1..N /\ w[N] = m /\ Len(q) \in Nat
      /\ DOMAIN q = 1..Len(q) /\ \A i \in 1..Len(q) : w[i] = q[i]
  OBVIOUS
<1> HIDE DEF w
<1>2. \A i \in 1..N : i \in 1..Len(q) \/ i = N
  BY <1>1
<1>3. N \in 1..N /\ \A i \in 1..Len(q) : i \in 1..N
  BY <1>1
<1> HIDE DEF N
<1>4. Msgs(w) = Msgs(q) \cup {m}
  BY <1>1, <1>2, <1>3 DEF Msgs
<1>5. ASSUME OneEach(q), \A x \in Msgs(q) : ~Clash(x, m) /\ ~Clash(m, x)
      PROVE  OneEach(w)
  <2> SUFFICES ASSUME NEW i \in 1..N, NEW j \in 1..N, Clash(w[i], w[j]) PROVE i = j
    BY <1>1 DEF OneEach
  <2>1. CASE i \in 1..Len(q) /\ j \in 1..Len(q)
    BY <2>1, <1>1, <1>5 DEF OneEach
  <2>2. CASE i \in 1..Len(q) /\ j = N
    BY <2>2, <1>1, <1>5 DEF Msgs
  <2>3. CASE i = N /\ j \in 1..Len(q)
    BY <2>3, <1>1, <1>5 DEF Msgs
  <2> QED BY <2>1, <2>2, <2>3, <1>2
<1> QED BY <1>1, <1>4, <1>5 DEF w

LEMMA TailUnder ==
  ASSUME NEW S, NEW q \in Seq(S), q # << >>
  PROVE  /\ Tail(q) \in Seq(S) /\ Head(q) \in Msgs(q) /\ Head(q) \in S
         /\ Msgs(Tail(q)) \subseteq Msgs(q) /\ Msgs(q) \subseteq Msgs(Tail(q)) \cup {Head(q)}
         /\ OneEach(q) => OneEach(Tail(q)) /\ \A x \in Msgs(Tail(q)) : ~Clash(Head(q), x) /\ ~Clash(x, Head(q))
<1> DEFINE w == Tail(q)
           N == Len(q)
<1>1. /\ w \in Seq(S) /\ N \in Nat /\ N >= 1 /\ DOMAIN w = 1..(N - 1) /\ DOMAIN q = 1..N
      /\ Head(q) = q[1] /\ \A i \in 1..(N - 1) : w[i] = q[i + 1]
  OBVIOUS
<1> HIDE DEF w, N
<1>2. /\ 1 \in 1..N /\ \A i \in 1..(N - 1) : i + 1 \in 1..N /\ i + 1 # 1
      /\ \A i \in 1..N : i = 1 \/ (i - 1 \in 1..(N - 1) /\ (i - 1) + 1 = i)
  BY <1>1
<1>3. Head(q) \in Msgs(q) /\ Head(q) \in S
  BY SMTT(40), <1>1, <1>2 DEF Msgs
<1>4. Msgs(w) \subseteq Msgs(q)
  <2>1. \A i \in DOMAIN w : w[i] = q[i + 1] /\ i + 1 \in DOMAIN q
    BY <1>1, <1>2
  <2> QED BY <2>1, Zenon DEF Msgs
<1>5. \A i \in 1..N : i = 1 \/ q[i] = w[i - 1]
  BY <1>1, <1>2
<1>6. Msgs(q) \subseteq Msgs(w) \cup {Head(q)}
  <2> SUFFICES ASSUME NEW i \in 1..N PROVE q[i] \in Msgs(w) \cup {Head(q)}
    BY <1>1 DEF Msgs
  <2>1. i = 1 \/ (q[i] = w[i - 1] /\ i - 1 \in DOMAIN w)
    BY <1>1, <1>2, <1>5
  <2> QED BY <2>1, <1>1 DEF Msgs
<1>7. ASSUME OneEach(q) PROVE OneEach(w)
  <2> SUFFICES ASSUME NEW i \in 1..(N - 1), NEW j \in 1..(N - 1), Clash(w[i], w[j]) PROVE i = j
    BY <1>1 DEF OneEach
  <2>1. i + 1 = j + 1
    BY <1>1, <1>2, <1>7 DEF OneEach
  <2> QED BY <2>1, <1>1
<1>8. ASSUME OneEach(q), NEW x \in Msgs(w) PROVE ~Clash(Head(q), x) /\ ~Clash(x, Head(q))
  <2>1. PICK i \in 1..(N - 1) : x = w[i]
    BY <1>1 DEF Msgs
  <2>2. x = q[i + 1] /\ i + 1 \in 1..N /\ i + 1 # 1
    BY <2>1, <1>1, <1>2
  <2> QED BY SMTT(40), <2>2, <1>1, <1>2, <1>8 DEF OneEach
<1> QED BY <1>1, <1>3, <1>4, <1>6, <1>7, <1>8 DEF w

(* What the server writes.                                                 *)
Wrote(m) == wire' = wire \/ (wire' = Append(wire, m) /\ bound = socket /\ bound # None)

LEMMA SentWrote ==
  ASSUME NEW m, wire' = Sent(m) \/ wire' = Notified(m) \/ wire' = wire
  PROVE  Wrote(m)
BY DEF Sent, Notified, Wrote

(* The stages of an attempt that wait for the answer of a request.         *)
StagesOf(kind) == CASE kind = "listRunIds" -> {"runs"}
                    [] kind = "cancel" -> {"cancel"}
                    [] kind = "listClaims" -> {"claims"}
                    [] kind = "releaseResources" -> {"spaces", "users"}
                    [] OTHER -> {}

(* An attempt in the state a makes a request.                              *)
Called(c, a, m) ==
    /\ Wrote(m)
    /\ \E b \in Attempts :
         /\ attempt' = [attempt EXCEPT ![c] = b]
         /\ b.at = a.at /\ b.todo = a.todo /\ b.claims = a.claims
         /\ \/ wire' = Sent(m) /\ b.waiting = TRUE /\ b.failed = a.failed
            \/ wire' = wire /\ b.waiting = a.waiting /\ b.failed = TRUE

LEMMA CallFacts ==
  ASSUME NEW c, NEW a \in Attempts, NEW m, Call(c, a, m)
  PROVE  Called(c, a, m)
<1>1. /\ [a EXCEPT !.waiting = TRUE] \in Attempts /\ [a EXCEPT !.failed = TRUE] \in Attempts
  BY DEF Attempts
<1>2. DOMAIN a = {"at", "todo", "waiting", "failed", "claims"}
  BY DEF Attempts
<1>3. CASE bound \in open
  <2> DEFINE b == [a EXCEPT !.waiting = TRUE]
  <2>1. /\ b.at = a.at /\ b.todo = a.todo /\ b.claims = a.claims /\ b.waiting = TRUE /\ b.failed = a.failed
    BY <1>2
  <2>2. wire' = Sent(m) /\ attempt' = [attempt EXCEPT ![c] = b]
    BY <1>3 DEF Call
  <2>3. b \in Attempts
    BY <1>1
  <2> HIDE DEF b
  <2> QED BY <2>1, <2>2, <2>3, SentWrote DEF Called
<1>4. CASE bound \notin open
  <2> DEFINE b == [a EXCEPT !.failed = TRUE]
  <2>1. /\ b.at = a.at /\ b.todo = a.todo /\ b.claims = a.claims /\ b.waiting = a.waiting /\ b.failed = TRUE
    BY <1>2
  <2>2. wire' = wire /\ attempt' = [attempt EXCEPT ![c] = b]
    BY <1>4 DEF Call
  <2>3. b \in Attempts
    BY <1>1
  <2> HIDE DEF b
  <2> QED BY <2>1, <2>2, <2>3, SentWrote DEF Called
<1> QED BY <1>3, <1>4

LEMMA TargetKinds ==
  /\ \A s \in Spaces : SpaceTarget(s) \in Targets /\ SpaceTarget(s).kind = "workspace" /\ SpaceTarget(s).space = s
  /\ \A v \in 1..MaxVersion : UserTarget(v) \in Targets /\ UserTarget(v).kind = "user" /\ UserTarget(v).version = v
  /\ \A t \in Targets : \/ t.kind = "workspace" /\ t.space \in Spaces /\ t = SpaceTarget(t.space)
                        \/ t.kind = "user" /\ t.version \in 1..MaxVersion /\ t = UserTarget(t.version)
BY DEF Targets, SpaceTarget, UserTarget

(* The requests of the code are such.                                      *)
LEMMA RequestKinds ==
  /\ \A c \in Conns : /\ Request("listRunIds", c, NoRun, NoTarget) \in Requests
                      /\ Request("listClaims", c, NoRun, NoTarget) \in Requests
                      /\ \A r \in Runs : Request("cancel", c, r, NoTarget) \in Requests
  /\ \A c \in Conns \cup {None}, t \in Targets : Request("releaseResources", c, NoRun, t) \in Requests
  /\ \A r \in Runs : Free(r) \in Requests /\ Request("submitRun", None, r, NoTarget) \in Requests
  /\ \A kind, c, r, t : LET m == Request(kind, c, r, t)
                        IN m.kind = kind /\ m.from = c /\ m.run = r /\ m.target = t
BY DEF Request, Free, Requests, Kinds

(* The states of an attempt.                                               *)
LEMMA AttemptStates ==
  /\ NoAttempt \in Attempts /\ Begun \in Attempts /\ Rescheduled \in Attempts
  /\ NoClaims \in ClaimSets
  /\ Begun.at = "runs" /\ Begun.waiting = FALSE
  /\ NoAttempt.at = "none" /\ Rescheduled.at = "retry"
  /\ NoAttempt.todo = {} /\ Begun.todo = {} /\ Rescheduled.todo = {}
  /\ NoAttempt.claims = NoClaims /\ Begun.claims = NoClaims /\ Rescheduled.claims = NoClaims
<1>1. NoClaims \in ClaimSets
  BY DEF NoClaims, ClaimSets
<1> HIDE DEF NoClaims
<1>2. NoAttempt \in Attempts
  BY <1>1 DEF NoAttempt, Attempts, Stages
<1>3. Begun \in Attempts /\ Rescheduled \in Attempts
  BY <1>1 DEF NoAttempt, Begun, Rescheduled, Attempts, Stages
<1> QED BY <1>1, <1>2, <1>3 DEF NoAttempt, Begun, Rescheduled

LEMMA RejectedFacts ==
  ASSUME NEW a \in Attempts
  PROVE  /\ Rejected(a) \in Attempts
         /\ Rejected(a).at = a.at /\ Rejected(a).todo = a.todo /\ Rejected(a).claims = a.claims
         /\ Rejected(a).waiting = FALSE
         /\ Rejected(a).failed = (a.failed \/ a.waiting)
BY DEF Rejected, Attempts

-----------------------------------------------------------------------------
(* What the steps of an attempt do to it.                                  *)
Becomes(c, b) ==
    /\ attempt' \in [Conns -> Attempts] /\ attempt'[c] = b
    /\ \A d \in Conns : d # c => attempt'[d] = attempt[d]

LEMMA Become ==
  ASSUME attempt \in [Conns -> Attempts], NEW c \in Conns, NEW b \in Attempts,
         attempt' = [attempt EXCEPT ![c] = b]
  PROVE  Becomes(c, b)
BY DEF Becomes

(* A request that leaves the attempt at the stage at with todo.            *)
Asks(c, at, todo, m) ==
    /\ Wrote(m) /\ m \in Requests /\ m.from = c /\ m.kind \in Kinds /\ at \in StagesOf(m.kind)
    /\ ~attempt[c].waiting
    /\ \E b \in Attempts :
         /\ Becomes(c, b)
         /\ b.at = at /\ b.todo = todo /\ b.claims = attempt[c].claims
         /\ \/ wire' = Sent(m) /\ b.waiting = TRUE /\ b.failed = attempt[c].failed
            \/ wire' = wire /\ b.waiting = attempt[c].waiting /\ b.failed = TRUE

LEMMA AskFacts ==
  ASSUME attempt \in [Conns -> Attempts], NEW c \in Conns, NEW a \in Attempts, NEW m \in Requests,
         m.from = c, a.at \in StagesOf(m.kind), ~attempt[c].waiting,
         a.claims = attempt[c].claims, a.waiting = attempt[c].waiting, a.failed = attempt[c].failed,
         Call(c, a, m)
  PROVE  Asks(c, a.at, a.todo, m)
<1>1. Called(c, a, m)
  BY CallFacts
<1>2. PICK b \in Attempts :
         /\ attempt' = [attempt EXCEPT ![c] = b]
         /\ b.at = a.at /\ b.todo = a.todo /\ b.claims = a.claims
         /\ \/ wire' = Sent(m) /\ b.waiting = TRUE /\ b.failed = a.failed
            \/ wire' = wire /\ b.waiting = a.waiting /\ b.failed = TRUE
  BY <1>1 DEF Called
<1>3. Becomes(c, b)
  BY <1>2, Become
<1>4. m.kind \in Kinds
  BY DEF Requests
<1> QED BY <1>1, <1>2, <1>3, <1>4 DEF Asks, Called

LEMMA AskRunsFacts ==
  ASSUME RequestTypes, NEW c \in Conns, AskRuns(c)
  PROVE  /\ attempt[c].at = "runs" /\ ~attempt[c].failed /\ attempt[c].todo = {}
         /\ Asks(c, "runs", {}, Request("listRunIds", c, NoRun, NoTarget))
<1> DEFINE m == Request("listRunIds", c, NoRun, NoTarget)
<1>1. attempt \in [Conns -> Attempts] /\ attempt[c] \in Attempts
  BY DEF RequestTypes
<1>2. m \in Requests /\ m.from = c /\ m.kind = "listRunIds"
  BY RequestKinds
<1>3. /\ attempt[c].at = "runs" /\ ~attempt[c].waiting /\ attempt[c].todo = {} /\ ~attempt[c].failed
      /\ Call(c, attempt[c], m)
  BY DEF AskRuns, Unhindered, IdleAt
<1>4. attempt[c].at \in StagesOf(m.kind)
  BY <1>2, <1>3 DEF StagesOf
<1> HIDE DEF m
<1> QED BY <1>1, <1>2, <1>3, <1>4, AskFacts DEF m

LEMMA AskClaimsFacts ==
  ASSUME RequestTypes, NEW c \in Conns, AskClaims(c)
  PROVE  /\ attempt[c].at = "cancel" /\ ~attempt[c].failed /\ attempt[c].todo = {} /\ ~attempt[c].waiting
         /\ Asks(c, "claims", {}, Request("listClaims", c, NoRun, NoTarget))
<1> DEFINE m == Request("listClaims", c, NoRun, NoTarget)
           a == [attempt[c] EXCEPT !.at = "claims"]
<1>1. attempt \in [Conns -> Attempts] /\ attempt[c] \in Attempts
  BY DEF RequestTypes
<1>2. m \in Requests /\ m.from = c /\ m.kind = "listClaims"
  BY RequestKinds
<1>3. /\ attempt[c].at = "cancel" /\ ~attempt[c].waiting /\ attempt[c].todo = {} /\ ~attempt[c].failed
      /\ Call(c, a, m)
  BY DEF AskClaims, Unhindered, IdleAt
<1>4. /\ a \in Attempts /\ a.at = "claims" /\ a.todo = {} /\ a.claims = attempt[c].claims
      /\ a.waiting = attempt[c].waiting /\ a.failed = attempt[c].failed
  BY <1>1, <1>3 DEF Attempts, Stages
<1>5. a.at \in StagesOf(m.kind)
  BY <1>2, <1>4 DEF StagesOf
<1> HIDE DEF m, a
<1>6. Asks(c, a.at, a.todo, m)
  BY <1>1, <1>2, <1>3, <1>4, <1>5, AskFacts
<1> QED BY <1>3, <1>4, <1>6 DEF m

LEMMA CancelNextFacts ==
  ASSUME RequestTypes, NEW c \in Conns, NEW r \in Runs, CancelNext(c, r)
  PROVE  /\ attempt[c].at = "cancel" /\ r \in attempt[c].todo
         /\ Asks(c, "cancel", attempt[c].todo \ {r}, Request("cancel", c, r, NoTarget))
<1> DEFINE m == Request("cancel", c, r, NoTarget)
           a == [attempt[c] EXCEPT !.todo = @ \ {r}]
<1>1. attempt \in [Conns -> Attempts] /\ attempt[c] \in Attempts
  BY DEF RequestTypes
<1>2. m \in Requests /\ m.from = c /\ m.kind = "cancel"
  BY RequestKinds
<1>3. attempt[c].at = "cancel" /\ ~attempt[c].waiting /\ r \in attempt[c].todo /\ Call(c, a, m)
  BY DEF CancelNext, IdleAt
<1>4. /\ a \in Attempts /\ a.at = "cancel" /\ a.todo = attempt[c].todo \ {r}
      /\ a.claims = attempt[c].claims
      /\ a.waiting = attempt[c].waiting /\ a.failed = attempt[c].failed
  BY <1>1, <1>3 DEF Attempts
<1>5. a.at \in StagesOf(m.kind)
  BY <1>2, <1>4 DEF StagesOf
<1> HIDE DEF m, a
<1>6. Asks(c, a.at, a.todo, m)
  BY <1>1, <1>2, <1>3, <1>4, <1>5, AskFacts
<1> QED BY <1>3, <1>4, <1>6 DEF m

LEMMA ReleaseNextFacts ==
  ASSUME RequestTypes, NEW c \in Conns, NEW t \in Targets, ReleaseNext(c, t)
  PROVE  /\ attempt[c].at \in {"spaces", "users"} /\ t \in attempt[c].todo
         /\ Asks(c, attempt[c].at, attempt[c].todo \ {t}, Request("releaseResources", c, NoRun, t))
<1> DEFINE m == Request("releaseResources", c, NoRun, t)
           a == [attempt[c] EXCEPT !.todo = @ \ {t}]
<1>1. attempt \in [Conns -> Attempts] /\ attempt[c] \in Attempts
  BY DEF RequestTypes
<1>2. m \in Requests /\ m.from = c /\ m.kind = "releaseResources"
  BY RequestKinds
<1>3. /\ attempt[c].at \in {"spaces", "users"} /\ ~attempt[c].waiting /\ t \in attempt[c].todo
      /\ Call(c, a, m)
  BY DEF ReleaseNext, IdleAt
<1>4. /\ a \in Attempts /\ a.at = attempt[c].at /\ a.todo = attempt[c].todo \ {t}
      /\ a.claims = attempt[c].claims
      /\ a.waiting = attempt[c].waiting /\ a.failed = attempt[c].failed
  BY <1>1, <1>3 DEF Attempts
<1>5. a.at \in StagesOf(m.kind)
  BY <1>2, <1>3, <1>4 DEF StagesOf
<1> HIDE DEF m, a
<1>6. Asks(c, a.at, a.todo, m)
  BY <1>1, <1>2, <1>3, <1>4, <1>5, AskFacts
<1> QED BY <1>3, <1>4, <1>6 DEF m

(* The attempt reads the database.                                         *)
Reads(c, at, todo, claims) ==
    /\ wire' = wire
    /\ \E b \in Attempts :
         /\ Becomes(c, b)
         /\ b.at = at /\ b.todo = todo /\ b.claims = claims
         /\ b.waiting = attempt[c].waiting /\ b.failed = attempt[c].failed

LEMMA ReadFacts ==
  ASSUME Types, NEW c \in Conns
  PROVE  /\ ReadRows(c) =>
              /\ attempt[c].at = "rows"
              /\ Reads(c, "cancel", {r \in attempt[c].todo : row[r] # "active"}, attempt[c].claims)
         /\ ReadSpaces(c) =>
              /\ attempt[c].at = "claimed"
              /\ Reads(c, "spaces", SpacesToRelease(attempt[c].claims), attempt[c].claims)
         /\ ReadUsers(c) =>
              /\ attempt[c].at = "spaces" /\ ~attempt[c].waiting /\ attempt[c].todo = {} /\ ~attempt[c].failed
              /\ Reads(c, "users", UsersToRelease(attempt[c].claims), NoClaims)
<1>1. attempt \in [Conns -> Attempts] /\ attempt[c] \in Attempts
  BY DEF Types, RequestTypes
<1>2. DOMAIN attempt[c] = {"at", "todo", "waiting", "failed", "claims"}
  BY <1>1 DEF Attempts
<1>3. ASSUME ReadRows(c)
      PROVE  /\ attempt[c].at = "rows"
             /\ Reads(c, "cancel", {r \in attempt[c].todo : row[r] # "active"}, attempt[c].claims)
  <2> DEFINE todo == {r \in attempt[c].todo : row[r] # "active"}
             b == [attempt[c] EXCEPT !.at = "cancel", !.todo = todo]
  <2>1. attempt[c].at = "rows" /\ wire' = wire /\ attempt' = [attempt EXCEPT ![c] = b]
    BY <1>1, <1>3 DEF ReadRows
  <2>2. todo \subseteq Runs
    BY <1>1, <2>1 DEF Attempts
  <2> HIDE DEF todo
  <2>3. /\ b \in Attempts /\ b.at = "cancel" /\ b.todo = todo /\ b.claims = attempt[c].claims
        /\ b.waiting = attempt[c].waiting /\ b.failed = attempt[c].failed
    BY <1>1, <1>2, <2>2 DEF Attempts, Stages
  <2> HIDE DEF b
  <2>4. Becomes(c, b)
    BY <1>1, <2>1, <2>3, Become
  <2> QED BY <2>1, <2>3, <2>4 DEF Reads, todo
<1>4. ASSUME ReadSpaces(c)
      PROVE  /\ attempt[c].at = "claimed"
             /\ Reads(c, "spaces", SpacesToRelease(attempt[c].claims), attempt[c].claims)
  <2> DEFINE todo == SpacesToRelease(attempt[c].claims)
             b == [attempt[c] EXCEPT !.at = "spaces", !.todo = todo]
  <2>1. attempt[c].at = "claimed" /\ wire' = wire /\ attempt' = [attempt EXCEPT ![c] = b]
    BY <1>1, <1>4 DEF ReadSpaces
  <2>2. todo \subseteq Targets
    <3>1. attempt[c].claims \in ClaimSets
      BY <1>1 DEF Attempts
    <3> QED BY <3>1, TargetKinds DEF SpacesToRelease, ClaimSets
  <2> HIDE DEF todo
  <2>3. /\ b \in Attempts /\ b.at = "spaces" /\ b.todo = todo /\ b.claims = attempt[c].claims
        /\ b.waiting = attempt[c].waiting /\ b.failed = attempt[c].failed
    BY <1>1, <1>2, <2>2 DEF Attempts, Stages
  <2> HIDE DEF b
  <2>4. Becomes(c, b)
    BY <1>1, <2>1, <2>3, Become
  <2> QED BY <2>1, <2>3, <2>4 DEF Reads, todo
<1>5. ASSUME ReadUsers(c)
      PROVE  /\ attempt[c].at = "spaces" /\ ~attempt[c].waiting /\ attempt[c].todo = {} /\ ~attempt[c].failed
             /\ Reads(c, "users", UsersToRelease(attempt[c].claims), NoClaims)
  <2> DEFINE todo == UsersToRelease(attempt[c].claims)
             b == [attempt[c] EXCEPT !.at = "users", !.claims = NoClaims, !.todo = todo]
  <2>1. /\ attempt[c].at = "spaces" /\ ~attempt[c].waiting /\ attempt[c].todo = {} /\ ~attempt[c].failed
        /\ wire' = wire /\ attempt' = [attempt EXCEPT ![c] = b]
    BY <1>1, <1>5 DEF ReadUsers, Unhindered, IdleAt
  <2>2. todo \subseteq Targets
    <3>1. attempt[c].claims \in ClaimSets /\ UserTarget(user.version) \in Targets
      BY <1>1, TargetKinds DEF Attempts, Types, DbTypes
    <3> QED BY <3>1 DEF UsersToRelease, ClaimSets
  <2> HIDE DEF todo
  <2>3. /\ b \in Attempts /\ b.at = "users" /\ b.todo = todo /\ b.claims = NoClaims
        /\ b.waiting = attempt[c].waiting /\ b.failed = attempt[c].failed
    BY <1>1, <1>2, <2>2, AttemptStates DEF Attempts, Stages
  <2> HIDE DEF b
  <2>4. Becomes(c, b)
    BY <1>1, <2>1, <2>3, Become
  <2> QED BY <2>1, <2>3, <2>4 DEF Reads, todo
<1> QED BY <1>3, <1>4, <1>5

(* An attempt ends, is scheduled again, or begins.                         *)
Turns(c, b) == wire' = wire /\ b \in Attempts /\ Becomes(c, b) /\ b.todo = {} /\ b.claims = NoClaims

LEMMA TurnFacts ==
  ASSUME RequestTypes, NEW c \in Conns
  PROVE  /\ Reconciled(c) =>
              /\ attempt[c].at = "users" /\ ~attempt[c].waiting /\ attempt[c].todo = {} /\ ~attempt[c].failed
              /\ Turns(c, NoAttempt)
         /\ AttemptStale(c) => Turns(c, NoAttempt) /\ ~attempt[c].waiting
         /\ AttemptFailed(c) => Turns(c, Rescheduled) /\ ~attempt[c].waiting
         /\ Retry(c) => /\ attempt[c].at = "retry"
                        /\ Turns(c, NoAttempt) \/ Turns(c, Begun)
<1>1. attempt \in [Conns -> Attempts] /\ attempt[c] \in Attempts
  BY DEF RequestTypes
<1>2. \A b \in {NoAttempt, Begun, Rescheduled} :
         attempt' = [attempt EXCEPT ![c] = b] /\ wire' = wire => Turns(c, b)
  BY <1>1, AttemptStates, Become DEF Turns
<1>3. ASSUME Reconciled(c)
      PROVE  /\ attempt[c].at = "users" /\ ~attempt[c].waiting /\ attempt[c].todo = {} /\ ~attempt[c].failed
             /\ Turns(c, NoAttempt)
  BY <1>2, <1>3 DEF Reconciled, Unhindered, IdleAt, netVars
<1>4. ASSUME AttemptStale(c) PROVE Turns(c, NoAttempt) /\ ~attempt[c].waiting
  BY <1>2, <1>4 DEF AttemptStale, StageEnded
<1>5. ASSUME AttemptFailed(c) PROVE Turns(c, Rescheduled) /\ ~attempt[c].waiting
  BY <1>2, <1>5 DEF AttemptFailed, StageEnded, netVars
<1>6. ASSUME Retry(c)
      PROVE  attempt[c].at = "retry" /\ (Turns(c, NoAttempt) \/ Turns(c, Begun))
  BY <1>2, <1>6 DEF Retry
<1> QED BY <1>3, <1>4, <1>5, <1>6

(* A request that is the request y, perhaps with nobody waiting any more.  *)
Stems(x, y) == x.kind = y.kind /\ x.run = y.run /\ x.target = y.target /\ x.from \in {y.from, None}

(* A timeout forgets who waits.                                            *)
TimesOut(c) ==
    /\ wire' \in Seq(Requests)
    /\ \A x \in Under' : x.from # c /\ \E y \in Under : Stems(x, y)
    /\ \A y \in Under : y.from # c => y \in Under'
    /\ OneEach(wire) => OneEach(wire')
    /\ wire = << >> => wire' = << >>

LEMMA TimeoutFacts ==
  ASSUME RequestTypes, NEW c \in Conns, RpcTimeout(c)
  PROVE  /\ attempt[c].waiting /\ Becomes(c, Rejected(attempt[c]))
         /\ TimesOut(c)
<1> DEFINE orphan(m) == IF m.from = c THEN [m EXCEPT !.from = None] ELSE m
<1>1. attempt \in [Conns -> Attempts] /\ attempt[c] \in Attempts /\ wire \in Seq(Requests)
  BY DEF RequestTypes
<1>2. attempt[c].waiting /\ attempt' = [attempt EXCEPT ![c] = Rejected(attempt[c])]
  BY <1>1 DEF RpcTimeout
<1>3. Becomes(c, Rejected(attempt[c]))
  BY <1>1, <1>2, RejectedFacts, Become
<1>4. \A m \in Requests : /\ orphan(m) \in Requests /\ Stems(orphan(m), m)
                          /\ orphan(m).from # c /\ (m.from # c => orphan(m) = m)
  <2> TAKE m \in Requests
  <2>1. CASE m.from = c
    <3>1. DOMAIN m = {"kind", "from", "run", "target"}
      BY DEF Requests
    <3> DEFINE o == [m EXCEPT !.from = None]
    <3>2. o.from = None /\ o.kind = m.kind /\ o.run = m.run /\ o.target = m.target
      BY <3>1
    <3>3. o \in Requests
      BY DEF Requests
    <3> HIDE DEF o
    <3>4. orphan(m) = o
      BY <2>1 DEF o
    <3>5. c # None
      BY DEF Conns, None
    <3> HIDE DEF orphan
    <3> QED BY <3>2, <3>3, <3>4, <3>5, <2>1 DEF Stems
  <2>2. CASE m.from # c
    BY <2>2 DEF Stems
  <2> QED BY <2>1, <2>2
<1>5. /\ DOMAIN wire' = DOMAIN wire /\ \A i \in DOMAIN wire : wire'[i] = orphan(wire[i])
      /\ wire' = [i \in DOMAIN wire |-> orphan(wire[i])]
  BY DEF RpcTimeout
<1> HIDE DEF orphan
<1>6. \A i \in DOMAIN wire : wire[i] \in Requests
  BY <1>1
<1>7. wire' \in Seq(Requests)
  <2>1. PICK n \in Nat : wire \in [1..n -> Requests]
    BY <1>1, SeqDef
  <2>2. wire' \in [1..n -> Requests]
    BY <2>1, <1>4, <1>5, <1>6
  <2> QED BY <2>1, <2>2, SeqDef
<1>8. \A x \in Under' : x.from # c /\ \E y \in Under : Stems(x, y)
  BY <1>4, <1>5, <1>6 DEF Under, Msgs
<1>9. \A y \in Under : y.from # c => y \in Under'
  BY <1>4, <1>5, <1>6 DEF Under, Msgs
<1>10. ASSUME OneEach(wire) PROVE OneEach(wire')
  <2> SUFFICES ASSUME NEW i \in DOMAIN wire, NEW j \in DOMAIN wire, Clash(wire'[i], wire'[j]) PROVE i = j
    BY <1>5 DEF OneEach
  <2>1. Stems(wire'[i], wire[i]) /\ Stems(wire'[j], wire[j])
    BY <1>4, <1>5, <1>6
  <2>2. Clash(wire[i], wire[j])
    BY <2>1 DEF Clash, Stems
  <2> QED BY <2>2, <1>10 DEF OneEach
<1>11. wire = << >> => wire' = << >>
  BY <1>1, <1>5, <1>7
<1> QED BY <1>2, <1>3, <1>7, <1>8, <1>9, <1>10, <1>11 DEF TimesOut

-----------------------------------------------------------------------------
(* What the Host's answers do to the attempt that waits.                   *)

(* An attempt waits for one answer at a time, of its stage.                *)
Waits ==
    /\ \A m \in Under : m.from # None => /\ attempt[m.from].waiting
                                         /\ attempt[m.from].at \in StagesOf(m.kind)
    /\ OneEach(wire)

(* The one that waits for m becomes b, if any waits.                       *)
Hears(m, at, todo, claims, failed) ==
    \/ m.from = None /\ attempt' = attempt
    \/ /\ m.from \in Conns /\ attempt[m.from].waiting
       /\ \E b \in Attempts :
            /\ Becomes(m.from, b) /\ b.waiting = FALSE
            /\ b.at = at /\ b.todo = todo /\ b.claims = claims /\ b.failed = failed

LEMMA HeadFacts ==
  ASSUME RequestTypes, Waits, wire # << >>
  PROVE  /\ Head(wire) \in Under /\ Head(wire) \in Requests
         /\ Head(wire).from # None =>
              /\ Head(wire).from \in Conns /\ attempt[Head(wire).from].waiting
              /\ attempt[Head(wire).from] \in Attempts
              /\ attempt[Head(wire).from].at \in StagesOf(Head(wire).kind)
         /\ Tail(wire) \in Seq(Requests) /\ OneEach(Tail(wire))
         /\ Msgs(Tail(wire)) \subseteq Under /\ Under \subseteq Msgs(Tail(wire)) \cup {Head(wire)}
         /\ \A x \in Msgs(Tail(wire)) : ~Clash(Head(wire), x) /\ ~Clash(x, Head(wire))
<1>1. wire \in Seq(Requests)
  BY DEF RequestTypes
<1>2. Head(wire) \in Under /\ Head(wire) \in Requests
  BY <1>1, TailUnder DEF Under
<1>3. Head(wire).from \in Conns \cup {None}
  BY <1>2 DEF Requests
<1>4. \A c \in Conns : attempt[c] \in Attempts
  BY DEF RequestTypes
<1> QED BY <1>1, <1>2, <1>3, <1>4, TailUnder DEF Under, Waits

(* The answer b to the head.                                               *)
LEMMA HearFacts ==
  ASSUME RequestTypes, Waits, wire # << >>, NEW b,
         attempt' = Answered(Head(wire), b),
         Head(wire).from # None => b \in Attempts /\ b.waiting = FALSE
  PROVE  Hears(Head(wire), b.at, b.todo, b.claims, b.failed)
<1>1. CASE Head(wire).from = None
  BY <1>1 DEF Answered, Hears
<1>2. CASE Head(wire).from # None
  <2>1. /\ Head(wire).from \in Conns /\ attempt[Head(wire).from].waiting
        /\ attempt \in [Conns -> Attempts] /\ b \in Attempts /\ b.waiting = FALSE
    BY <1>2, HeadFacts DEF RequestTypes
  <2>2. attempt' = [attempt EXCEPT ![Head(wire).from] = b]
    BY <1>2 DEF Answered
  <2>3. Becomes(Head(wire).from, b)
    BY <2>1, <2>2, Become
  <2> QED BY <2>1, <2>3 DEF Hears
<1> QED BY <1>1, <1>2

(* The attempt without its wait.                                           *)
LEMMA WaiterFacts ==
  ASSUME RequestTypes, Waits, wire # << >>, Head(wire).from # None
  PROVE  LET a == attempt[Head(wire).from]
             w == Waiter(Head(wire))
         IN /\ w \in Attempts /\ w.waiting = FALSE
            /\ w.at = a.at /\ w.todo = a.todo /\ w.claims = a.claims /\ w.failed = a.failed
            /\ DOMAIN w = {"at", "todo", "waiting", "failed", "claims"}
<1> DEFINE a == attempt[Head(wire).from]
<1>1. a \in Attempts
  BY HeadFacts
<1>2. Waiter(Head(wire)) = [a EXCEPT !.waiting = FALSE]
  BY DEF Waiter
<1> HIDE DEF a
<1>3. DOMAIN a = {"at", "todo", "waiting", "failed", "claims"}
  BY <1>1 DEF Attempts
<1>4. [a EXCEPT !.waiting = FALSE] \in Attempts
  BY <1>1, <1>3 DEF Attempts
<1> QED BY <1>1, <1>2, <1>3, <1>4 DEF a

LEMMA ListRunIdsFacts ==
  ASSUME Types, Waits, ListRunIds
  PROVE  /\ wire # << >> /\ wire' = Tail(wire) /\ Head(wire).kind = "listRunIds"
         /\ \/ Head(wire).from = None /\ attempt' = attempt
            \/ /\ Head(wire).from \in Conns /\ attempt[Head(wire).from].at = "runs"
               /\ Hears(Head(wire), "rows", held, attempt[Head(wire).from].claims,
                        attempt[Head(wire).from].failed)
<1> DEFINE m == Head(wire)
           w == Waiter(m)
           b == [w EXCEPT !.at = "rows", !.todo = held]
<1>1. /\ wire # << >> /\ wire' = Tail(wire) /\ m.kind = "listRunIds"
      /\ attempt' = Answered(m, b) /\ RequestTypes /\ held \subseteq Runs
  BY DEF ListRunIds, Takes, Types, HostTypes
<1>2. CASE m.from = None
  BY <1>1, <1>2 DEF Answered
<1>3. CASE m.from # None
  <2>1. /\ w \in Attempts /\ w.waiting = FALSE /\ w.claims = attempt[m.from].claims
        /\ w.failed = attempt[m.from].failed
        /\ DOMAIN w = {"at", "todo", "waiting", "failed", "claims"}
    BY <1>1, <1>3, WaiterFacts
  <2>2. m.from \in Conns /\ attempt[m.from].at = "runs"
    BY <1>1, <1>3, HeadFacts DEF StagesOf
  <2> HIDE DEF w
  <2>3. b.waiting = FALSE /\ b.at = "rows" /\ b.todo = held /\ b.claims = w.claims /\ b.failed = w.failed
    BY <2>1
  <2>4. b \in Attempts
    BY <1>1, <2>1 DEF Attempts, Stages
  <2> HIDE DEF b
  <2>5. Hears(m, b.at, b.todo, b.claims, b.failed)
    BY <1>1, <2>3, <2>4, HearFacts
  <2> QED BY <1>1, <2>1, <2>2, <2>3, <2>5
<1> QED BY <1>1, <1>2, <1>3

LEMMA ListClaimsFacts ==
  ASSUME Types, Waits, ListClaims
  PROVE  /\ wire # << >> /\ wire' = Tail(wire) /\ Head(wire).kind = "listClaims"
         /\ \/ Head(wire).from = None /\ attempt' = attempt
            \/ /\ Head(wire).from \in Conns /\ attempt[Head(wire).from].at = "claims"
               /\ Hears(Head(wire), "claimed", {}, Claims, attempt[Head(wire).from].failed)
<1> DEFINE m == Head(wire)
           w == Waiter(m)
           b == [w EXCEPT !.at = "claimed", !.claims = Claims]
<1>1. /\ wire # << >> /\ wire' = Tail(wire) /\ m.kind = "listClaims"
      /\ attempt' = Answered(m, b) /\ RequestTypes
  BY DEF ListClaims, Takes, Types
<1>2. CASE m.from = None
  BY <1>1, <1>2 DEF Answered
<1>3. CASE m.from # None
  <2>1. /\ w \in Attempts /\ w.waiting = FALSE /\ w.todo = attempt[m.from].todo
        /\ w.failed = attempt[m.from].failed /\ w.at = attempt[m.from].at
        /\ DOMAIN w = {"at", "todo", "waiting", "failed", "claims"}
    BY <1>1, <1>3, WaiterFacts
  <2>2. m.from \in Conns /\ attempt[m.from].at = "claims"
    BY <1>1, <1>3, HeadFacts DEF StagesOf
  <2>3. w.todo = {}
    BY <2>1, <2>2 DEF Attempts
  <2>4. Claims \in ClaimSets
    <3>1. /\ held \subseteq Runs /\ workers \subseteq Workers /\ pending \subseteq Cleanups
          /\ SpaceOf \in [Runs -> Spaces]
      BY ReconciliationAssumption DEF Types, HostTypes
    <3>2. {SpaceOf[r] : r \in held} \cup {x.space : x \in workers} \subseteq Spaces
      BY <3>1 DEF Workers
    <3>3. {p.target : p \in pending} \subseteq Targets
      BY <3>1 DEF Cleanups
    <3> QED BY <3>2, <3>3 DEF Claims, ClaimSets
  <2> HIDE DEF w
  <2>5. b.waiting = FALSE /\ b.at = "claimed" /\ b.todo = {} /\ b.claims = Claims /\ b.failed = w.failed
    BY <2>1, <2>3
  <2>6. b \in Attempts
    BY <2>1, <2>3, <2>4 DEF Attempts, Stages
  <2> HIDE DEF b
  <2>7. Hears(m, b.at, b.todo, b.claims, b.failed)
    BY <1>1, <2>5, <2>6, HearFacts
  <2> QED BY <1>1, <2>1, <2>2, <2>5, <2>7
<1> QED BY <1>1, <1>2, <1>3

(* The answer to a cancel or a release only ends the wait, or fails it.    *)
Replied(m, failed) ==
    \/ m.from = None /\ attempt' = attempt
    \/ /\ m.from \in Conns /\ attempt[m.from].at \in StagesOf(m.kind)
       /\ Hears(m, attempt[m.from].at, attempt[m.from].todo, attempt[m.from].claims,
                attempt[m.from].failed \/ failed)

LEMMA ReplyFacts ==
  ASSUME RequestTypes, Waits, wire # << >>
  PROVE  /\ attempt' = Answered(Head(wire), Waiter(Head(wire))) => Replied(Head(wire), FALSE)
         /\ attempt' = Answered(Head(wire), [Waiter(Head(wire)) EXCEPT !.failed = TRUE])
              => Replied(Head(wire), TRUE)
<1> DEFINE m == Head(wire)
           w == Waiter(m)
           b == [w EXCEPT !.failed = TRUE]
<1>1. CASE m.from = None
  BY <1>1 DEF Answered, Replied
<1>2. CASE m.from # None
  <2>1. /\ w \in Attempts /\ w.waiting = FALSE /\ w.at = attempt[m.from].at
        /\ w.todo = attempt[m.from].todo /\ w.claims = attempt[m.from].claims
        /\ w.failed = attempt[m.from].failed /\ w.failed \in BOOLEAN
        /\ DOMAIN w = {"at", "todo", "waiting", "failed", "claims"}
    BY <1>2, WaiterFacts DEF Attempts
  <2>2. m.from \in Conns /\ attempt[m.from].at \in StagesOf(m.kind)
    BY <1>2, HeadFacts
  <2> HIDE DEF w
  <2>3. /\ b.waiting = FALSE /\ b.at = w.at /\ b.todo = w.todo /\ b.claims = w.claims /\ b.failed = TRUE
    BY <2>1
  <2>4. b \in Attempts
    BY <2>1 DEF Attempts
  <2> HIDE DEF b
  <2>5. attempt' = Answered(m, w) => Replied(m, FALSE)
    <3> SUFFICES ASSUME attempt' = Answered(m, w) PROVE Replied(m, FALSE)
      OBVIOUS
    <3>1. Hears(m, w.at, w.todo, w.claims, w.failed)
      BY <2>1, HearFacts
    <3>2. w.failed = (attempt[m.from].failed \/ FALSE)
      BY <2>1
    <3> QED BY <2>1, <2>2, <3>1, <3>2 DEF Replied
  <2>6. attempt' = Answered(m, b) => Replied(m, TRUE)
    <3> SUFFICES ASSUME attempt' = Answered(m, b) PROVE Replied(m, TRUE)
      OBVIOUS
    <3>1. Hears(m, b.at, b.todo, b.claims, b.failed)
      BY <2>3, <2>4, HearFacts
    <3>2. b.failed = (attempt[m.from].failed \/ TRUE)
      BY <2>3
    <3> QED BY <2>1, <2>2, <2>3, <3>1, <3>2 DEF Replied
  <2> QED BY <2>5, <2>6 DEF b, w
<1> QED BY <1>1, <1>2

-----------------------------------------------------------------------------
(* Which actions change what.                                              *)
DbPart == <<user, deleted, row, version, stored, process, launching, notices>>
DbActions ==
    \/ \E r \in Runs : Launch(r) \/ Submit(r) \/ EndRun(r)
    \/ \E s \in Spaces : DeleteSpace(s)
    \/ Disable \/ Enable
    \/ \E v \in notices : AskRelease(v)
    \/ \E c \in Conns : Register(c) \/ \E r \in Runs : ReapNext(c, r)
    \/ HostCrash \/ ServerCrash \/ SubmitRun

ConnPart == <<open, registering, zombies, bound, epoch, socket, admission, madeBy>>
ConnActions ==
    \/ \E c \in Conns : \/ Dial(c) \/ Register(c) \/ ReapList(c) \/ ReapFails(c) \/ Bind(c)
                        \/ RegisterTimeout(c) \/ ServerClose(c) \/ Reconciled(c) \/ AttemptFailed(c)
                        \/ \E r \in Runs : ReapNext(c, r)
    \/ Break \/ HostCrash \/ ServerCrash \/ SubmitRun \/ ReleaseResources

HostPart == <<held, workers, tomb, revoked, maxSeen, pending, acceptedBy, owed, reapLost, mishaps>>
HostActions ==
    \/ Enable \/ Break \/ HostCrash \/ ServerCrash
    \/ \E c \in Conns : ReapFails(c) \/ Bind(c) \/ RpcTimeout(c)
    \/ ReleaseRun \/ SubmitRun \/ ReleaseResources

WriteActions ==
    \/ \E r \in Runs : Submit(r)
    \/ \E s \in Spaces : DeleteSpace(s)
    \/ \E v \in notices : AskRelease(v)
    \/ \E c \in Conns : \E r \in Runs : ReapNext(c, r)
AskActions ==
    \E c \in Conns : \/ AskRuns(c) \/ AskClaims(c)
                     \/ \E r \in Runs : CancelNext(c, r)
                     \/ \E t \in Targets : ReleaseNext(c, t)
TurnActions ==
    \E c \in Conns : \/ ReadRows(c) \/ ReadSpaces(c) \/ ReadUsers(c) \/ Reconciled(c)
                     \/ AttemptStale(c) \/ AttemptFailed(c) \/ Retry(c)
LossActions == (\E c \in Conns : Bind(c)) \/ Break \/ HostCrash \/ ServerCrash
RequestActions ==
    \/ WriteActions \/ AskActions \/ TurnActions \/ LossActions \/ Handle
    \/ \E c \in Conns : RpcTimeout(c) \/ ServerClose(c)

(* An attempt's step that only asks or reads.                              *)
FrameActions ==
    \/ AskActions
    \/ \E c \in Conns : ReadRows(c) \/ ReadSpaces(c) \/ ReadUsers(c) \/ AttemptStale(c) \/ Retry(c)

LEMMA FrameKept ==
  ASSUME FrameActions PROVE AttemptFrame
BY DEF FrameActions, AskActions, AskRuns, AskClaims, CancelNext, ReleaseNext, ReadRows, ReadSpaces,
       ReadUsers, AttemptStale, Retry

LEMMA NextActions ==
  ASSUME [Next]_vars
  PROVE  \/ UNCHANGED vars
         \/ FrameActions
         \/ \E r \in Runs : Launch(r) \/ Submit(r) \/ EndRun(r)
         \/ \E s \in Spaces : DeleteSpace(s)
         \/ Disable \/ Enable
         \/ \E v \in notices : AskRelease(v)
         \/ \E c \in Conns : \/ Dial(c) \/ Register(c) \/ ReapList(c) \/ ReapFails(c) \/ Bind(c)
                             \/ RegisterTimeout(c) \/ ServerClose(c) \/ Reconciled(c)
                             \/ AttemptFailed(c) \/ RpcTimeout(c)
                             \/ \E r \in Runs : ReapNext(c, r)
         \/ Break \/ HostCrash \/ ServerCrash
         \/ ListRunIds \/ ListClaims \/ Cancel \/ ReleaseRun \/ SubmitRun \/ ReleaseResources
BY ZenonT(60) DEF Next, Connecting, Attempting, Handle, FrameActions, AskActions

LEMMA DbTouched ==
  ASSUME [Next]_vars PROVE DbActions \/ UNCHANGED DbPart
<1>1. CASE UNCHANGED vars
  BY <1>1 DEF DbPart, vars, dbVars, serverVars, netVars
<1>2. CASE FrameActions
  BY <1>2, FrameKept DEF AttemptFrame, DbPart, dbVars
<1>3. ASSUME NEW c \in Conns,
             \/ Dial(c) \/ ReapList(c) \/ ReapFails(c) \/ Bind(c) \/ RegisterTimeout(c)
             \/ ServerClose(c) \/ Reconciled(c) \/ AttemptFailed(c) \/ RpcTimeout(c)
      PROVE  UNCHANGED DbPart
  BY <1>3 DEF DbPart, dbVars, netVars, Dial, ReapList, ReapFails, Bind, RegisterTimeout,
     ServerClose, Reconciled, AttemptFailed, RpcTimeout
<1>4. CASE ListRunIds \/ ListClaims \/ Cancel \/ ReleaseRun \/ ReleaseResources
  BY <1>4 DEF DbPart, ListRunIds, ListClaims, Cancel, ReleaseRun, ReleaseResources, HostFrame
<1>5. CASE Break
  BY <1>5 DEF DbPart, Break, dbVars, serverVars
<1> QED BY <1>1, <1>2, <1>3, <1>4, <1>5, NextActions, Zenon DEF DbActions

LEMMA ConnTouched ==
  ASSUME [Next]_vars PROVE ConnActions \/ UNCHANGED ConnPart
<1>1. CASE UNCHANGED vars
  BY <1>1 DEF ConnPart, vars, serverVars, connVars, netVars
<1>2. CASE FrameActions
  BY <1>2, FrameKept DEF AttemptFrame, ConnPart, connVars
<1>3. ASSUME NEW c \in Conns, RpcTimeout(c)
      PROVE  UNCHANGED ConnPart
  BY <1>3 DEF ConnPart, connVars, RpcTimeout
<1>4. CASE ListRunIds \/ ListClaims \/ Cancel \/ ReleaseRun
  BY <1>4 DEF ConnPart, ListRunIds, ListClaims, Cancel, ReleaseRun, HostFrame, connVars
<1>5. CASE Disable \/ Enable \/ (\E s \in Spaces : DeleteSpace(s)) \/ (\E v \in notices : AskRelease(v))
  BY <1>5 DEF ConnPart, Disable, Enable, DeleteSpace, AskRelease, serverVars, connVars, netVars
<1>6. ASSUME NEW r \in Runs, Launch(r) \/ Submit(r) \/ EndRun(r)
      PROVE  UNCHANGED ConnPart
  BY <1>6 DEF ConnPart, Launch, Submit, EndRun, serverVars, connVars, netVars
<1> QED BY <1>1, <1>2, <1>3, <1>4, <1>5, <1>6, NextActions, Zenon DEF ConnActions

LEMMA HostTouched ==
  ASSUME [Next]_vars PROVE HostActions \/ UNCHANGED HostPart
<1>1. CASE UNCHANGED vars
  BY <1>1 DEF HostPart, vars, hostVars, history
<1>2. CASE FrameActions
  BY <1>2, FrameKept DEF AttemptFrame, HostPart, hostVars, history
<1>3. ASSUME NEW c \in Conns,
             \/ Dial(c) \/ Register(c) \/ ReapList(c) \/ RegisterTimeout(c)
             \/ ServerClose(c) \/ Reconciled(c) \/ AttemptFailed(c) \/ \E r \in Runs : ReapNext(c, r)
      PROVE  UNCHANGED HostPart
  BY <1>3 DEF HostPart, hostVars, history, Dial, Register, ReapList, RegisterTimeout,
     ServerClose, Reconciled, AttemptFailed, ReapNext
<1>4. CASE ListRunIds \/ ListClaims \/ Cancel
  BY <1>4 DEF HostPart, ListRunIds, ListClaims, Cancel, HostFrame, hostVars
<1>5. CASE Disable \/ (\E s \in Spaces : DeleteSpace(s)) \/ (\E v \in notices : AskRelease(v))
  BY <1>5 DEF HostPart, Disable, DeleteSpace, AskRelease, hostVars, history
<1>6. ASSUME NEW r \in Runs, Launch(r) \/ Submit(r) \/ EndRun(r)
      PROVE  UNCHANGED HostPart
  BY <1>6 DEF HostPart, Launch, Submit, EndRun, hostVars, history
<1> QED BY <1>1, <1>2, <1>3, <1>4, <1>5, <1>6, NextActions, Zenon DEF HostActions

LEMMA RequestsTouched ==
  ASSUME [Next]_vars PROVE RequestActions \/ UNCHANGED <<attempt, wire>>
<1>1. CASE UNCHANGED vars
  BY <1>1 DEF vars, serverVars, netVars
<1>2. CASE FrameActions
  BY <1>2, Zenon DEF FrameActions, RequestActions, TurnActions
<1>3. ASSUME NEW c \in Conns,
             Dial(c) \/ Register(c) \/ ReapList(c) \/ ReapFails(c) \/ RegisterTimeout(c)
      PROVE  UNCHANGED <<attempt, wire>>
  BY <1>3 DEF Dial, Register, ReapList, ReapFails, RegisterTimeout, netVars
<1>4. ASSUME NEW c \in Conns, Reconciled(c) \/ AttemptFailed(c)
      PROVE  RequestActions
  BY <1>4, Zenon DEF TurnActions, RequestActions
<1>5. CASE Disable \/ Enable
  BY <1>5 DEF Disable, Enable, serverVars, netVars
<1>6. ASSUME NEW r \in Runs, Launch(r) \/ EndRun(r)
      PROVE  UNCHANGED <<attempt, wire>>
  BY <1>6 DEF Launch, EndRun, serverVars, netVars
<1> QED BY <1>1, <1>2, <1>3, <1>4, <1>5, <1>6, NextActions, Zenon
        DEF RequestActions, WriteActions, LossActions, Handle

(* The requests that no attempt waits for.                                 *)
Written(m) == m \in Requests /\ m.from = None /\ Wrote(m) /\ attempt' = attempt
AskOf(t) == Request("releaseResources", None, NoRun, t)
SubmitOf(r) == Request("submitRun", None, r, NoTarget)

LEMMA WriteFacts ==
  ASSUME Types
  PROVE  /\ \A r \in Runs : Submit(r) => Written(SubmitOf(r))
         /\ \A s \in Spaces : DeleteSpace(s) => Written(AskOf(SpaceTarget(s)))
         /\ \A v \in notices : AskRelease(v) => Written(AskOf(UserTarget(v)))
         /\ \A c \in Conns, r \in Runs : ReapNext(c, r) => Written(Free(r))
<1>1. \A r \in Runs : /\ SubmitOf(r) \in Requests /\ SubmitOf(r).from = None
                      /\ Free(r) \in Requests /\ Free(r).from = None
  BY RequestKinds DEF SubmitOf, Free
<1>2. \A t \in Targets : AskOf(t) \in Requests /\ AskOf(t).from = None
  BY RequestKinds DEF AskOf
<1>3. \A v \in notices : UserTarget(v) \in Targets
  BY TargetKinds DEF Types, DbTypes
<1>4. ASSUME NEW r \in Runs, Submit(r) PROVE Written(SubmitOf(r))
  <2>1. wire' = Sent(SubmitOf(r)) \/ wire' = wire
    BY <1>4 DEF Submit, SubmitOf
  <2>2. attempt' = attempt
    BY <1>4 DEF Submit
  <2> QED BY <1>1, <2>1, <2>2, SentWrote DEF Written
<1>5. ASSUME NEW s \in Spaces, DeleteSpace(s) PROVE Written(AskOf(SpaceTarget(s)))
  <2>1. wire' = Notified(AskOf(SpaceTarget(s)))
    BY <1>5 DEF DeleteSpace, AskOf
  <2>2. attempt' = attempt
    BY <1>5 DEF DeleteSpace, serverVars
  <2> QED BY <1>2, <2>1, <2>2, SentWrote, TargetKinds DEF Written
<1>6. ASSUME NEW v \in notices, AskRelease(v) PROVE Written(AskOf(UserTarget(v)))
  <2>1. wire' = Notified(AskOf(UserTarget(v)))
    BY <1>6 DEF AskRelease, AskOf
  <2>2. attempt' = attempt
    BY <1>6 DEF AskRelease
  <2> QED BY <1>2, <1>3, <2>1, <2>2, SentWrote DEF Written
<1>7. ASSUME NEW c \in Conns, NEW r \in Runs, ReapNext(c, r) PROVE Written(Free(r))
  <2>1. wire' = Notified(Free(r))
    BY <1>7 DEF ReapNext
  <2>2. attempt' = attempt
    BY <1>7 DEF ReapNext
  <2> QED BY <1>1, <2>1, <2>2, SentWrote DEF Written
<1> QED BY <1>4, <1>5, <1>6, <1>7

(* What is left of the requests when the Host has taken one: the rest, and *)
(* the release of a run after a cancel; or nothing, with the connection.   *)
Taken ==
    /\ wire # << >>
    /\ \/ wire' = Tail(wire) /\ socket' = socket
       \/ /\ Cancel /\ Head(wire).kind = "cancel" /\ Head(wire).from # None
          /\ wire' = Append(Tail(wire), Free(Head(wire).run)) /\ socket' = socket
       \/ wire' = << >> /\ socket' = None

LEMMA HandleTakes ==
  ASSUME Handle PROVE Taken /\ bound' = bound
<1>1. CASE ListRunIds \/ ListClaims \/ ReleaseRun
  BY <1>1 DEF ListRunIds, ListClaims, ReleaseRun, Takes, Taken, HostFrame, connVars
<1>2. CASE Cancel
  BY <1>2 DEF Cancel, Takes, Taken, HostFrame, connVars
<1>3. CASE SubmitRun
  BY <1>3 DEF SubmitRun, Takes, Taken, HostFrame, connVars, AnswerLost
<1>4. CASE ReleaseResources
  BY <1>4 DEF ReleaseResources, Takes, Taken, HostFrame, connVars, AnswerLost
<1> QED BY <1>1, <1>2, <1>3, <1>4 DEF Handle

-----------------------------------------------------------------------------
(* Every step keeps the types.                                             *)

LEMMA HeadRun ==
  ASSUME Types, wire # << >>, Head(wire).kind \in {"cancel", "releaseRun", "submitRun"}
  PROVE  Head(wire).run \in Runs /\ Head(wire) \in Requests
BY TailUnder DEF Types, RequestTypes, Requests

LEMMA DbStep ==
  ASSUME Types, [Next]_vars PROVE DbTypes'
<1>0. DbTypes
  BY DEF Types
<1>1. CASE UNCHANGED DbPart
  BY <1>0, <1>1 DEF DbPart, DbTypes
<1>2. ASSUME NEW r \in Runs, Launch(r) PROVE DbTypes'
  BY <1>0, <1>2 DEF DbTypes, Launch, netVars
<1>3. ASSUME NEW r \in Runs, Submit(r) PROVE DbTypes'
  BY <1>0, <1>3 DEF DbTypes, Submit
<1>4. ASSUME NEW r \in Runs, EndRun(r) PROVE DbTypes'
  BY <1>0, <1>4 DEF DbTypes, EndRun, serverVars, netVars
<1>5. ASSUME NEW s \in Spaces, DeleteSpace(s) PROVE DbTypes'
  BY <1>0, <1>5 DEF DbTypes, DeleteSpace, serverVars
<1>6. CASE Disable \/ Enable
  <2>1. MaxVersion \in Nat
    BY ReconciliationAssumption
  <2>2. user.version + 1 \in 1..MaxVersion
    BY <1>0, <1>6, <2>1 DEF DbTypes, Disable, Enable
  <2>3. user' \in [version : 1..MaxVersion, active : BOOLEAN]
    <3>1. \A n \in 1..MaxVersion, b \in BOOLEAN :
             [version |-> n, active |-> b] \in [version : 1..MaxVersion, active : BOOLEAN]
      OBVIOUS
    <3>2. user' = [version |-> user.version + 1, active |-> FALSE]
             \/ user' = [version |-> user.version + 1, active |-> TRUE]
      BY <1>6 DEF Disable, Enable
    <3>3. TRUE \in BOOLEAN /\ FALSE \in BOOLEAN
      OBVIOUS
    <3> QED BY <2>2, <3>1, <3>2, <3>3, Zenon
  <2>4. notices' \subseteq 1..MaxVersion
    BY <1>0, <1>6, <2>2 DEF DbTypes, Disable, Enable, serverVars
  <2> QED BY <1>0, <1>6, <2>3, <2>4 DEF DbTypes, Disable, Enable, serverVars, netVars
<1>7. ASSUME NEW v \in notices, AskRelease(v) PROVE DbTypes'
  BY <1>0, <1>7 DEF DbTypes, AskRelease, dbVars
<1>8. ASSUME NEW c \in Conns, Register(c) PROVE DbTypes'
  <2>1. madeBy[c] \in Nat
    BY DEF Types, ConnTypes
  <2> QED BY <1>0, <1>8, <2>1 DEF DbTypes, Register, netVars
<1>9. ASSUME NEW c \in Conns, NEW r \in Runs, ReapNext(c, r) PROVE DbTypes'
  BY <1>0, <1>9 DEF DbTypes, ReapNext
<1>10. CASE HostCrash
  BY <1>0, <1>10 DEF DbTypes, HostCrash, dbVars, serverVars
<1>11. CASE ServerCrash
  BY <1>0, <1>11 DEF DbTypes, ServerCrash
<1>12. CASE SubmitRun
  <2>1. Head(wire).run \in Runs
    BY <1>12, HeadRun DEF SubmitRun, Takes
  <2>2. row' \in [Runs -> {"none", "active", "ended"}]
    BY <1>0, <1>12, <2>1 DEF DbTypes, SubmitRun
  <2> QED BY <1>0, <1>12, <2>2 DEF DbTypes, SubmitRun, HostFrame
<1> QED BY <1>1, <1>2, <1>3, <1>4, <1>5, <1>6, <1>7, <1>8, <1>9, <1>10, <1>11, <1>12, DbTouched
        DEF DbActions

(* Requests are under way only over a live bound connection.               *)
WireLink == wire # << >> => bound = socket /\ bound # None

LEMMA WireLinkStep ==
  ASSUME Types, [Next]_vars PROVE WireLink'
<1>0. WireLink
  BY DEF Types, ConnTypes, WireLink
<1>1. ASSUME bound' = bound, socket' = socket, wire' = wire \/ \E m : Wrote(m) PROVE WireLink'
  BY <1>0, <1>1 DEF WireLink, Wrote
<1>2. CASE WriteActions
  <2>1. \E m : Wrote(m)
    BY <1>2, WriteFacts DEF WriteActions, Written
  <2>2. bound' = bound /\ socket' = socket
    BY <1>2 DEF WriteActions, Submit, DeleteSpace, AskRelease, ReapNext, serverVars, connVars
  <2> QED BY <1>1, <2>1, <2>2
<1>3. CASE FrameActions
  <2>1. bound' = bound /\ socket' = socket
    BY <1>3, FrameKept DEF AttemptFrame, connVars
  <2>2. CASE AskActions
    <3>1. \E m : Wrote(m)
      BY <2>2, AskRunsFacts, AskClaimsFacts, CancelNextFacts, ReleaseNextFacts
         DEF AskActions, Asks, Types
    <3> QED BY <1>1, <2>1, <3>1
  <2>3. CASE ~AskActions
    <3>1. wire' = wire
      BY <1>3, <2>3 DEF FrameActions, ReadRows, ReadSpaces, ReadUsers, AttemptStale, Retry
    <3> QED BY <1>1, <2>1, <3>1
  <2> QED BY <2>2, <2>3
<1>4. CASE LossActions
  BY <1>4 DEF LossActions, WireLink, Bind, Break, HostCrash, ServerCrash
<1>5. CASE Handle
  BY <1>0, <1>5, HandleTakes DEF Taken, WireLink
<1>6. ASSUME NEW c \in Conns, RpcTimeout(c) PROVE WireLink'
  <2>1. wire = << >> => wire' = << >>
    BY <1>6, TimeoutFacts DEF TimesOut, Types
  <2> QED BY <1>0, <1>6, <2>1 DEF RpcTimeout, WireLink, connVars
<1>7. ASSUME NEW c \in Conns, Dial(c) \/ RegisterTimeout(c) \/ ServerClose(c) PROVE WireLink'
  BY <1>0, <1>7 DEF Dial, RegisterTimeout, ServerClose, WireLink, netVars
<1>8. ASSUME NEW c \in Conns, Register(c) \/ ReapList(c) \/ ReapFails(c) \/ Reconciled(c) \/ AttemptFailed(c)
      PROVE  WireLink'
  <2>1. bound' = bound /\ socket' = socket /\ wire' = wire
    BY <1>8 DEF Register, ReapList, ReapFails, Reconciled, AttemptFailed, netVars
  <2> QED BY <1>1, <2>1
<1>9. ASSUME NEW r \in Runs, Launch(r) \/ EndRun(r) PROVE WireLink'
  <2>1. bound' = bound /\ socket' = socket /\ wire' = wire
    BY <1>9 DEF Launch, EndRun, serverVars, connVars, netVars
  <2> QED BY <1>1, <2>1
<1>10. CASE Disable \/ Enable \/ UNCHANGED vars
  <2>1. bound' = bound /\ socket' = socket /\ wire' = wire
    BY <1>10 DEF Disable, Enable, vars, serverVars, connVars, netVars
  <2> QED BY <1>1, <2>1
<1> QED BY <1>2, <1>3, <1>4, <1>5, <1>6, <1>7, <1>8, <1>9, <1>10, NextActions, Zenon
        DEF WriteActions, LossActions, Handle

LEMMA ConnStep ==
  ASSUME Types, [Next]_vars PROVE ConnTypes'
<1>0. ConnTypes
  BY DEF Types
<1>w. wire' # << >> => bound' = socket' /\ bound' # None
  BY WireLinkStep DEF WireLink
<1>1. CASE UNCHANGED ConnPart
  BY <1>0, <1>1, <1>w DEF ConnPart, ConnTypes
<1>2. ASSUME NEW c \in Conns, Dial(c) PROVE ConnTypes'
  <2>1. process \in Nat
    BY DEF Types, DbTypes
  <2> QED BY <1>0, <1>w, <1>2, <2>1 DEF ConnTypes, Dial
<1>3. ASSUME NEW c \in Conns, Register(c) \/ ReapList(c) PROVE ConnTypes'
  BY <1>0, <1>w, <1>3 DEF ConnTypes, Register, ReapList, netVars
<1>4. ASSUME NEW c \in Conns, ReapFails(c) \/ RegisterTimeout(c) PROVE ConnTypes'
  BY <1>0, <1>w, <1>4 DEF ConnTypes, ReapFails, RegisterTimeout, netVars
<1>5. ASSUME NEW c \in Conns, Bind(c) PROVE ConnTypes'
  BY <1>0, <1>w, <1>5 DEF ConnTypes, Bind
<1>6. ASSUME NEW c \in Conns, ServerClose(c) PROVE ConnTypes'
  BY <1>0, <1>w, <1>6 DEF ConnTypes, ServerClose, netVars
<1>7. ASSUME NEW c \in Conns, Reconciled(c) \/ AttemptFailed(c) PROVE ConnTypes'
  BY <1>0, <1>w, <1>7 DEF ConnTypes, Reconciled, AttemptFailed, netVars
<1>8. ASSUME NEW c \in Conns, NEW r \in Runs, ReapNext(c, r) PROVE ConnTypes'
  BY <1>0, <1>w, <1>8 DEF ConnTypes, ReapNext
<1>9. CASE Break \/ HostCrash
  BY <1>0, <1>w, <1>9 DEF ConnTypes, Break, HostCrash, serverVars, connVars
<1>10. CASE ServerCrash
  BY <1>0, <1>w, <1>10 DEF ConnTypes, ServerCrash
<1>11. CASE SubmitRun \/ ReleaseResources
  <2>1. socket' \in {socket, None}
    BY <1>11 DEF SubmitRun, ReleaseResources, AnswerLost
  <2> QED BY <1>0, <1>w, <1>11, <2>1 DEF ConnTypes, SubmitRun, ReleaseResources, HostFrame, connVars
<1> QED BY <1>1, <1>2, <1>3, <1>4, <1>5, <1>6, <1>7, <1>8, <1>9, <1>10, <1>11, ConnTouched, Zenon
        DEF ConnActions

LEMMA OwedTyped ==
  ASSUME Types PROVE Owed \in Debts /\ NothingOwed \in Debts
<1>1. MaxVersion \in Nat
  BY ReconciliationAssumption
<1>2. /\ {r \in held : row[r] = "ended"} \subseteq Runs /\ workers \subseteq Workers
      /\ deleted \subseteq Spaces /\ pending \subseteq Cleanups
  BY DEF Types, DbTypes, HostTypes
<1>3. (IF user.active THEN 0 ELSE user.version) \in 0..MaxVersion /\ 0 \in 0..MaxVersion
  BY <1>1 DEF Types, DbTypes
<1>4. \A rs \in SUBSET Runs, ws \in SUBSET Workers, ss \in SUBSET Spaces, v \in 0..MaxVersion,
         ps \in SUBSET Cleanups :
         [runs |-> rs, workers |-> ws, spaces |-> ss, version |-> v, cleanups |-> ps] \in Debts
  BY DEF Debts
<1>5. Owed \in Debts
  BY <1>2, <1>3, <1>4, Zenon DEF Owed
<1> QED BY <1>3, <1>4, <1>5 DEF NothingOwed

(* What the Host holds after a release.                                    *)
LEMMA ReleaseTypes ==
  ASSUME Types, ReleaseResources
  PROVE  /\ held' \subseteq held /\ workers' \subseteq workers
         /\ tomb' \subseteq Spaces /\ revoked' \in 0..MaxVersion
         /\ pending' \subseteq Cleanups
         /\ Head(wire).target \in Targets
<1> DEFINE t == Head(wire).target
<1>1. wire \in Seq(Requests) /\ wire # << >> /\ Head(wire).kind = "releaseResources"
  BY DEF Types, RequestTypes, ReleaseResources, Takes
<1>2. t \in Targets
  BY <1>1, TailUnder DEF Requests
<1>3. \/ t.kind = "workspace" /\ t.space \in Spaces
      \/ t.kind = "user" /\ t.version \in 1..MaxVersion
  BY <1>2, TargetKinds
<1>4. tomb' = IF t.kind = "workspace" THEN tomb \cup {t.space} ELSE tomb
  BY DEF ReleaseResources
<1>5. revoked' = IF t.kind = "user" THEN Largest(revoked, t.version) ELSE revoked
  BY DEF ReleaseResources
<1>6. held' \subseteq held /\ workers' \subseteq workers
  BY DEF ReleaseResources
<1>7. \A w \in workers : [worker |-> w, target |-> t] \in Cleanups
  BY <1>2 DEF Types, HostTypes, Cleanups
<1>8. pending \subseteq Cleanups /\ tomb \subseteq Spaces /\ revoked \in 0..MaxVersion /\ MaxVersion \in Nat
  BY ReconciliationAssumption DEF Types, HostTypes
<1>9. \/ pending' \subseteq pending
      \/ \E w \in workers : pending' \subseteq pending \cup {[worker |-> w, target |-> t]}
  BY DEF ReleaseResources
<1> HIDE DEF t
<1>10. tomb' \subseteq Spaces
  BY <1>3, <1>4, <1>8
<1>11. revoked' \in 0..MaxVersion
  BY <1>3, <1>5, <1>8 DEF Largest
<1>12. pending' \subseteq Cleanups
  BY <1>7, <1>8, <1>9
<1> QED BY <1>2, <1>6, <1>10, <1>11, <1>12 DEF t

LEMMA HostStep ==
  ASSUME Types, [Next]_vars PROVE HostTypes'
<1>0. HostTypes
  BY DEF Types
<1>m. MaxVersion \in Nat /\ MaxMishaps \in Nat
  BY ReconciliationAssumption
<1>n. Mishap => mishaps' \in 0..MaxMishaps
  BY <1>0, <1>m DEF HostTypes, Mishap
<1>1. CASE UNCHANGED HostPart
  BY <1>0, <1>1 DEF HostPart, HostTypes
<1>2. CASE Enable
  <2>1. owed' \in Debts
    BY <1>0, <1>2, <1>m DEF HostTypes, Debts, Enable
  <2> QED BY <1>0, <1>2, <2>1 DEF HostTypes, Enable, hostVars
<1>3. CASE Break \/ HostCrash \/ ServerCrash
  <2>1. owed' \in Debts /\ mishaps' \in 0..MaxMishaps
    BY <1>3, <1>n, OwedTyped DEF Break, HostCrash, ServerCrash
  <2>2. /\ held' \subseteq Runs /\ workers' \subseteq Workers /\ tomb' \subseteq Spaces
        /\ revoked' \in 0..MaxVersion /\ maxSeen' \in 0..MaxVersion /\ pending' \subseteq Cleanups
    BY <1>0, <1>3, <1>m DEF HostTypes, Break, HostCrash, ServerCrash, hostVars
  <2> QED BY <1>0, <1>3, <2>1, <2>2 DEF HostTypes, Break, HostCrash, ServerCrash
<1>4. ASSUME NEW c \in Conns, ReapFails(c) PROVE HostTypes'
  BY <1>0, <1>4, <1>n DEF HostTypes, ReapFails, hostVars
<1>5. ASSUME NEW c \in Conns, Bind(c) PROVE HostTypes'
  BY <1>0, <1>5, OwedTyped DEF HostTypes, Bind, hostVars
<1>6. ASSUME NEW c \in Conns, RpcTimeout(c) PROVE HostTypes'
  <2>1. mishaps' \in 0..MaxMishaps
    BY <1>0, <1>6, <1>n DEF HostTypes, RpcTimeout
  <2> QED BY <1>0, <1>6, <2>1 DEF HostTypes, RpcTimeout, hostVars, history
<1>7. CASE ReleaseRun
  BY <1>0, <1>7 DEF HostTypes, ReleaseRun, HostFrame
<1>8. CASE SubmitRun
  <2> DEFINE r == Head(wire).run
  <2>1. r \in Runs
    BY <1>8, HeadRun DEF SubmitRun, Takes
  <2>2. version[r] \in 0..MaxVersion /\ SpaceOf[r] \in Spaces /\ process \in Nat
    BY <2>1, ReconciliationAssumption DEF Types, DbTypes
  <2>3. mishaps' \in 0..MaxMishaps
    BY <1>0, <1>8, <1>n DEF HostTypes, SubmitRun, AnswerLost
  <2>4. CASE UNCHANGED <<held, workers, maxSeen, acceptedBy>>
    BY <1>0, <1>8, <2>3, <2>4 DEF HostTypes, SubmitRun, HostFrame
  <2>5. CASE ~UNCHANGED <<held, workers, maxSeen, acceptedBy>>
    <3>1. /\ version[r] > revoked
          /\ held' = held \cup {r} /\ workers' = workers \cup {WorkerOf(r)}
          /\ maxSeen' = version[r] /\ acceptedBy' = [acceptedBy EXCEPT ![r] = process]
      BY <1>8, <2>5 DEF SubmitRun
    <3>2. version[r] \in 1..MaxVersion
      BY <1>0, <2>2, <3>1, <1>m DEF HostTypes
    <3>3. WorkerOf(r) \in Workers
      BY <2>2, <3>2 DEF WorkerOf, Workers
    <3> HIDE DEF r
    <3> QED BY <1>0, <1>8, <2>1, <2>2, <2>3, <3>1, <3>3 DEF HostTypes, SubmitRun, HostFrame
  <2> QED BY <2>4, <2>5
<1>9. CASE ReleaseResources
  <2>1. mishaps' \in 0..MaxMishaps
    BY <1>0, <1>9, <1>n DEF HostTypes, ReleaseResources, AnswerLost
  <2> QED BY <1>0, <1>9, <2>1, ReleaseTypes DEF HostTypes, ReleaseResources, HostFrame
<1> QED BY <1>1, <1>2, <1>3, <1>4, <1>5, <1>6, <1>7, <1>8, <1>9, HostTouched, Zenon DEF HostActions

-----------------------------------------------------------------------------
(* Attempts, requests, and who waits for which.                            *)

(* A run is submitted once: launched, on its way, accepted.                *)
RunInv ==
    /\ \A r \in Runs : acceptedBy[r] # None \/ r \in launching \/ r \in held => row[r] # "none"
    /\ \A r \in held : acceptedBy[r] # None /\ WorkerOf(r) \in workers
    /\ \A r \in launching : acceptedBy[r] = None
    /\ \A m \in Under : m.kind = "submitRun" =>
         acceptedBy[m.run] = None /\ m.run \notin launching /\ row[m.run] # "none"

RequestInv == RequestTypes /\ Waits

LEMMA StageFacts ==
  /\ \A kind : StagesOf(kind) \subseteq {"runs", "cancel", "claims", "spaces", "users"}
  /\ StagesOf("submitRun") = {} /\ StagesOf("releaseRun") = {}
  /\ \A kind \in Kinds : /\ "runs" \in StagesOf(kind) => kind = "listRunIds"
                         /\ "cancel" \in StagesOf(kind) => kind = "cancel"
                         /\ "claims" \in StagesOf(kind) => kind = "listClaims"
                         /\ "spaces" \in StagesOf(kind) \/ "users" \in StagesOf(kind) => kind = "releaseResources"
BY DEF StagesOf, Kinds

(* Nobody waits for an attempt that does not.                              *)
LEMMA Silent ==
  ASSUME Waits, NEW c \in Conns,
         ~attempt[c].waiting \/ attempt[c].at \in {"none", "rows", "claimed", "retry"}
  PROVE  \A m \in Under : m.from # c
<1>1. c # None
  BY DEF Conns, None
<1> QED BY <1>1, StageFacts DEF Waits

(* A step that changes only the attempt c, for which nobody waits then.    *)
LEMMA TurnKeepsWaits ==
  ASSUME RequestTypes, Waits, NEW c \in Conns, NEW b \in Attempts, Becomes(c, b), wire' = wire,
         \A m \in Under : m.from # c
  PROVE  RequestInv'
<1>1. RequestTypes'
  BY DEF RequestTypes, Becomes
<1>2. Under' = Under
  BY DEF Under
<1>3. \A m \in Under : m.from # None => m.from \in Conns
  <2>1. \A m \in Under : m \in Requests
    BY DEF RequestTypes, Under, Msgs
  <2> QED BY <2>1 DEF Requests
<1>4. \A m \in Under : m.from # None => attempt'[m.from] = attempt[m.from]
  BY <1>3 DEF Becomes
<1>5. Waits'
  BY <1>2, <1>4 DEF Waits
<1> QED BY <1>1, <1>5 DEF RequestInv

(* The requests after another one.                                         *)
LEMMA WroteUnder ==
  ASSUME RequestTypes, NEW m \in Requests, Wrote(m)
  PROVE  /\ wire' \in Seq(Requests) /\ Under \subseteq Under' /\ Under' \subseteq Under \cup {m}
         /\ OneEach(wire) /\ (\A x \in Under : ~Clash(x, m) /\ ~Clash(m, x)) => OneEach(wire')
<1>1. wire \in Seq(Requests)
  BY DEF RequestTypes
<1>2. CASE wire' = wire
  BY <1>1, <1>2 DEF Under
<1>3. CASE wire' = Append(wire, m)
  BY <1>1, <1>3, AppendUnder DEF Under
<1> QED BY <1>2, <1>3 DEF Wrote

LEMMA WrittenKeepsWaits ==
  ASSUME RequestTypes, Waits, NEW m, Written(m),
         m.kind = "submitRun" => \A x \in Under : x.kind = "submitRun" => x.run # m.run
  PROVE  RequestInv'
<1>1. /\ wire' \in Seq(Requests) /\ Under' \subseteq Under \cup {m}
      /\ OneEach(wire) /\ (\A x \in Under : ~Clash(x, m) /\ ~Clash(m, x)) => OneEach(wire')
  BY WroteUnder DEF Written
<1>2. \A x \in Under : ~Clash(x, m) /\ ~Clash(m, x)
  BY DEF Written, Clash
<1>3. attempt' = attempt /\ m.from = None
  BY DEF Written
<1> QED BY <1>1, <1>2, <1>3 DEF RequestInv, RequestTypes, Waits

LEMMA AskKeepsWaits ==
  ASSUME RequestTypes, Waits, NEW c \in Conns, NEW at, NEW todo, NEW m, Asks(c, at, todo, m)
  PROVE  RequestInv'
<1>1. PICK b \in Attempts :
         /\ Becomes(c, b)
         /\ b.at = at /\ b.todo = todo /\ b.claims = attempt[c].claims
         /\ \/ wire' = Sent(m) /\ b.waiting = TRUE /\ b.failed = attempt[c].failed
            \/ wire' = wire /\ b.waiting = attempt[c].waiting /\ b.failed = TRUE
  BY DEF Asks
<1>2. \A x \in Under : x.from # c
  BY Silent DEF Asks
<1>3. CASE wire' = wire
  BY <1>1, <1>2, <1>3, TurnKeepsWaits
<1>4. CASE wire' # wire
  <2>1. b.waiting = TRUE /\ m \in Requests /\ m.from = c /\ at \in StagesOf(m.kind) /\ Wrote(m)
    BY <1>1, <1>4 DEF Asks
  <2>2. m.kind # "submitRun"
    BY <2>1, StageFacts
  <2>3. \A x \in Under : ~Clash(x, m) /\ ~Clash(m, x)
    BY <1>2, <2>1, <2>2 DEF Clash
  <2>4. wire' \in Seq(Requests) /\ Under' \subseteq Under \cup {m} /\ OneEach(wire')
    BY <2>1, <2>3, WroteUnder DEF Waits
  <2>5. \A x \in Under : x.from # None => x.from \in Conns
    <3>1. \A x \in Under : x \in Requests
      BY DEF RequestTypes, Under, Msgs
    <3> QED BY <3>1 DEF Requests
  <2>6. \A x \in Under : x.from # None => attempt'[x.from] = attempt[x.from]
    BY <1>1, <1>2, <2>5 DEF Becomes
  <2>7. attempt'[c].waiting = TRUE /\ attempt'[c].at \in StagesOf(m.kind)
    BY <1>1, <2>1 DEF Becomes
  <2>8. Waits'
    BY <2>1, <2>4, <2>6, <2>7 DEF Waits
  <2>9. RequestTypes'
    BY <1>1, <2>4 DEF RequestTypes, Becomes
  <2> QED BY <2>8, <2>9 DEF RequestInv
<1> QED BY <1>3, <1>4

LEMMA TimeoutKeepsWaits ==
  ASSUME RequestTypes, Waits, NEW c \in Conns, RpcTimeout(c)
  PROVE  RequestInv'
<1>1. Becomes(c, Rejected(attempt[c])) /\ TimesOut(c)
  BY TimeoutFacts
<1>2. RequestTypes'
  BY <1>1 DEF RequestTypes, Becomes, TimesOut
<1>3. ASSUME NEW x \in Under', x.from # None
      PROVE  attempt'[x.from].waiting /\ attempt'[x.from].at \in StagesOf(x.kind)
  <2>1. PICK y \in Under : Stems(x, y)
    BY <1>1, <1>3 DEF TimesOut
  <2>2. x.from # c /\ x.from = y.from /\ x.kind = y.kind
    BY <1>1, <1>3, <2>1 DEF TimesOut, Stems
  <2>3. y.from \in Conns
    BY <1>3, <2>2 DEF RequestTypes, Under, Msgs, Requests
  <2>4. attempt'[x.from] = attempt[y.from]
    BY <1>1, <2>2, <2>3 DEF Becomes
  <2> QED BY <1>3, <2>2, <2>4 DEF Waits
<1>4. OneEach(wire')
  BY <1>1 DEF TimesOut, Waits
<1> QED BY <1>2, <1>3, <1>4 DEF RequestInv, Waits

(* The wire is empty.                                                      *)
LEMMA LossKeepsWaits ==
  ASSUME wire' = << >>, attempt' \in [Conns -> Attempts]
  PROVE  RequestInv'
BY NothingUnder DEF RequestInv, RequestTypes, Waits, Under

(* What the Host's steps do to the attempt that waits for the head.        *)
LEMMA HandleHears ==
  ASSUME Types, Waits, Handle
  PROVE  \/ \E at, todo, claims, failed : Hears(Head(wire), at, todo, claims, failed)
         \/ attempt' = attempt /\ wire' = << >>
<1>1. wire # << >> /\ RequestTypes
  BY HandleTakes DEF Taken, Types
<1>h. Head(wire).from = None /\ attempt' = attempt
        => \E at, todo, claims, failed : Hears(Head(wire), at, todo, claims, failed)
  BY DEF Hears
<1>r. \A f : Replied(Head(wire), f)
        => \E at, todo, claims, failed : Hears(Head(wire), at, todo, claims, failed)
  BY <1>h, Zenon DEF Replied
<1>2. CASE ListRunIds
  BY <1>h, <1>2, ListRunIdsFacts, Zenon
<1>3. CASE ListClaims
  BY <1>h, <1>3, ListClaimsFacts, Zenon
<1>4. CASE Cancel
  <2>1. Replied(Head(wire), FALSE)
    BY <1>1, <1>4, ReplyFacts DEF Cancel
  <2> QED BY <1>r, <2>1
<1>5. CASE ReleaseRun
  <2>1. Head(wire).from = None /\ attempt' = attempt
    BY <1>1, <1>5, HeadFacts DEF ReleaseRun, Takes, Requests
  <2> QED BY <2>1 DEF Hears
<1>6. CASE SubmitRun
  <2>1. Head(wire).from = None /\ attempt' = attempt
    BY <1>1, <1>6, HeadFacts DEF SubmitRun, Takes, Requests, AnswerLost
  <2> QED BY <2>1 DEF Hears
<1>7. CASE ReleaseResources
  <2>1. CASE AnswerLost
    BY <2>1 DEF AnswerLost
  <2>2. CASE ~AnswerLost
    <3>1. Replied(Head(wire), FALSE) \/ Replied(Head(wire), TRUE)
      BY <1>1, <1>7, <2>2, ReplyFacts DEF ReleaseResources
    <3> QED BY <1>r, <3>1
  <2> QED BY <2>1, <2>2
<1> QED BY <1>2, <1>3, <1>4, <1>5, <1>6, <1>7 DEF Handle

(* The requests after the Host has taken one.                              *)
LEMMA TakenUnder ==
  ASSUME Types, Waits, Taken
  PROVE  /\ wire' \in Seq(Requests) /\ OneEach(wire')
         /\ Head(wire) \in Under /\ Head(wire) \in Requests
         /\ Head(wire).kind = "cancel" => Head(wire).run \in Runs
         /\ \A x \in Under' : \/ x \in Under /\ ~Clash(Head(wire), x)
                              \/ /\ Cancel /\ Head(wire).kind = "cancel"
                                 /\ x = Free(Head(wire).run)
         /\ socket' # None => \A x \in Under : x # Head(wire) => x \in Under'
         /\ socket' # None /\ Head(wire).kind = "cancel" /\ Head(wire).from # None /\ wire' # Tail(wire)
              => Free(Head(wire).run) \in Under'
<1> DEFINE m == Head(wire)
<1>1. /\ m \in Under /\ m \in Requests
      /\ Tail(wire) \in Seq(Requests) /\ OneEach(Tail(wire))
      /\ Msgs(Tail(wire)) \subseteq Under /\ Under \subseteq Msgs(Tail(wire)) \cup {m}
      /\ \A x \in Msgs(Tail(wire)) : ~Clash(m, x) /\ ~Clash(x, m)
  BY HeadFacts DEF Types, Taken
<1>2. m.kind = "cancel" => m.run \in Runs
  BY <1>1 DEF Requests
<1> HIDE DEF m
<1>3. CASE wire' = Tail(wire)
  BY <1>1, <1>2, <1>3 DEF Under, m
<1>4. CASE Cancel /\ m.kind = "cancel" /\ wire' = Append(Tail(wire), Free(m.run)) /\ m.from # None
  <2>1. Free(m.run) \in Requests /\ Free(m.run).from = None /\ Free(m.run).kind = "releaseRun"
    BY <1>2, <1>4, RequestKinds DEF Free
  <2>2. \A x \in Msgs(Tail(wire)) : ~Clash(x, Free(m.run)) /\ ~Clash(Free(m.run), x)
    BY <2>1 DEF Clash
  <2>3. /\ wire' \in Seq(Requests) /\ Under' = Msgs(Tail(wire)) \cup {Free(m.run)} /\ OneEach(wire')
    <3> DEFINE q == Tail(wire)
               f == Free(m.run)
    <3>1. q \in Seq(Requests) /\ f \in Requests /\ OneEach(q)
      BY <1>1, <2>1
    <3>2. \A x \in Msgs(q) : ~Clash(x, f) /\ ~Clash(f, x)
      BY <2>2
    <3>3. wire' = Append(q, f)
      BY <1>4
    <3> HIDE DEF q, f
    <3>4. Append(q, f) \in Seq(Requests) /\ Msgs(Append(q, f)) = Msgs(q) \cup {f} /\ OneEach(Append(q, f))
      BY <3>1, <3>2, AppendUnder
    <3>5. Under' = Msgs(wire')
      BY DEF Under
    <3> QED BY <3>3, <3>4, <3>5 DEF q, f
  <2> QED BY <1>1, <1>2, <1>4, <2>3 DEF m
<1>5. CASE wire' = << >> /\ socket' = None
  <2>1. Under' = {} /\ OneEach(wire') /\ wire' \in Seq(Requests)
    BY <1>5, NothingUnder DEF Under
  <2> QED BY <1>1, <1>2, <1>5, <2>1 DEF m
<1> QED BY <1>3, <1>4, <1>5 DEF Taken, m

LEMMA HandleKeepsWaits ==
  ASSUME Types, Waits, Handle
  PROVE  RequestInv'
<1> DEFINE m == Head(wire)
<1>1. Taken /\ attempt \in [Conns -> Attempts]
  BY HandleTakes DEF Types, RequestTypes
<1>2. /\ wire' \in Seq(Requests) /\ OneEach(wire')
      /\ \A x \in Under' : \/ x \in Under /\ ~Clash(m, x)
                           \/ x = Free(m.run)
  BY <1>1, TakenUnder
<1>3. \A r : Free(r).from = None
  BY RequestKinds DEF Free
<1>4. \A x \in Under : x.from # None => x.from \in Conns
  BY DEF Types, RequestTypes, Under, Msgs, Requests
<1>5. CASE attempt' = attempt /\ wire' = << >>
  BY <1>1, <1>5, LossKeepsWaits
<1>6. CASE \E at, todo, claims, failed : Hears(m, at, todo, claims, failed)
  <2>1. CASE attempt' = attempt
    BY <1>1, <1>2, <1>3, <2>1 DEF RequestInv, RequestTypes, Waits
  <2>2. CASE attempt' # attempt
    <3>1. m.from \in Conns /\ \E b \in Attempts : Becomes(m.from, b)
      BY <1>6, <2>2 DEF Hears
    <3>2. m.from # None
      BY <3>1 DEF Conns, None
    <3>3. attempt' \in [Conns -> Attempts] /\ \A d \in Conns : d # m.from => attempt'[d] = attempt[d]
      BY <3>1 DEF Becomes
    <3>4. \A x \in Under' : x.from # None => x \in Under /\ x.from # m.from
      BY <1>2, <1>3, <3>2 DEF Clash
    <3>5. \A x \in Under' : x.from # None => attempt'[x.from] = attempt[x.from]
      BY <1>4, <3>3, <3>4
    <3>6. Waits'
      BY <1>2, <3>4, <3>5 DEF Waits
    <3> QED BY <1>2, <3>3, <3>6 DEF RequestInv, RequestTypes
  <2> QED BY <2>1, <2>2
<1> QED BY <1>5, <1>6, HandleHears

LEMMA RequestStep ==
  ASSUME Types, Waits, RunInv, [Next]_vars PROVE RequestInv'
<1>0. RequestTypes /\ attempt \in [Conns -> Attempts]
  BY DEF Types, RequestTypes
<1>1. CASE UNCHANGED <<attempt, wire>>
  BY <1>0, <1>1 DEF RequestInv, RequestTypes, Waits, Under
<1>2. CASE WriteActions
  <2>1. PICK m : /\ Written(m)
                 /\ \/ m.kind # "submitRun"
                    \/ m.run \in launching
    <3>1. \A r \in Runs : SubmitOf(r).run = r /\ Free(r).kind = "releaseRun"
      BY RequestKinds DEF SubmitOf, Free
    <3>2. \A t : AskOf(t).kind = "releaseResources"
      BY RequestKinds DEF AskOf
    <3>3. ASSUME NEW r \in Runs, Submit(r) PROVE r \in launching
      BY <3>3 DEF Submit
    <3> QED BY <1>2, <3>1, <3>2, <3>3, WriteFacts DEF WriteActions
  <2>2. m.kind = "submitRun" => \A x \in Under : x.kind = "submitRun" => x.run # m.run
    BY <2>1 DEF RunInv
  <2> QED BY <1>0, <2>1, <2>2, WrittenKeepsWaits
<1>3. CASE AskActions
  <2>1. \E c \in Conns : \E at, todo, m : Asks(c, at, todo, m)
    BY <1>0, <1>3, AskRunsFacts, AskClaimsFacts, CancelNextFacts, ReleaseNextFacts DEF AskActions
  <2> QED BY <1>0, <2>1, AskKeepsWaits
<1>4. ASSUME NEW c \in Conns, ReadRows(c) \/ ReadSpaces(c) \/ ReadUsers(c)
      PROVE  RequestInv'
  <2>1. \E b \in Attempts : Becomes(c, b) /\ wire' = wire
    BY <1>4, ReadFacts DEF Reads
  <2>2. ~attempt[c].waiting \/ attempt[c].at \in {"none", "rows", "claimed", "retry"}
    BY <1>4, ReadFacts
  <2> QED BY <1>0, <2>1, <2>2, Silent, TurnKeepsWaits
<1>5. ASSUME NEW c \in Conns, Reconciled(c) \/ AttemptStale(c) \/ AttemptFailed(c) \/ Retry(c)
      PROVE  RequestInv'
  <2>1. \E b \in Attempts : Becomes(c, b) /\ wire' = wire
    BY <1>0, <1>5, TurnFacts DEF Turns
  <2>2. ~attempt[c].waiting \/ attempt[c].at \in {"none", "rows", "claimed", "retry"}
    BY <1>0, <1>5, TurnFacts
  <2> QED BY <1>0, <2>1, <2>2, Silent, TurnKeepsWaits
<1>6. CASE LossActions
  <2>1. wire' = << >>
    BY <1>6 DEF LossActions, Bind, Break, HostCrash, ServerCrash
  <2>2. attempt' \in [Conns -> Attempts]
    BY <1>0, <1>6, AttemptStates DEF LossActions, Bind, Break, HostCrash, ServerCrash, serverVars
  <2> QED BY <2>1, <2>2, LossKeepsWaits
<1>7. CASE Handle
  BY <1>7, HandleKeepsWaits
<1>8. ASSUME NEW c \in Conns, RpcTimeout(c) PROVE RequestInv'
  BY <1>0, <1>8, TimeoutKeepsWaits
<1>9. ASSUME NEW c \in Conns, ServerClose(c) PROVE RequestInv'
  <2>1. CASE bound = c
    <3>1. wire = << >> /\ wire' = wire
      BY <1>9, <2>1 DEF ServerClose, netVars, Types, ConnTypes
    <3>2. attempt' = [d \in Conns |-> Rejected(attempt[d])]
      BY <1>9, <2>1 DEF ServerClose
    <3>3. attempt' \in [Conns -> Attempts]
      BY <1>0, <3>2, RejectedFacts
    <3> QED BY <3>1, <3>3, LossKeepsWaits
  <2>2. CASE bound # c
    <3>1. UNCHANGED <<attempt, wire>>
      BY <1>9, <2>2 DEF ServerClose, netVars
    <3> QED BY <1>1, <3>1
  <2> QED BY <2>1, <2>2
<1> QED BY <1>1, <1>2, <1>3, <1>4, <1>5, <1>6, <1>7, <1>8, <1>9, RequestsTouched, Zenon
        DEF RequestActions, TurnActions

LEMMA TypesStep ==
  ASSUME Types, Waits, RunInv, [Next]_vars PROVE Types' /\ Waits'
BY DbStep, ConnStep, HostStep, RequestStep DEF Types, RequestInv

-----------------------------------------------------------------------------
(* How rows, users and requests move.                                      *)

DbMoves ==
    /\ \A r \in Runs : /\ row[r] = "ended" => row'[r] = "ended"
                       /\ row[r] # "none" => row'[r] # "none" /\ version'[r] = version[r]
    /\ deleted \subseteq deleted'
    /\ \/ user' = user
       \/ user'.version = user.version + 1 /\ user.version \in Nat

LEMMA DbMove ==
  ASSUME Types, RunInv, [Next]_vars PROVE DbMoves
<1>0. row \in [Runs -> {"none", "active", "ended"}] /\ version \in [Runs -> 0..MaxVersion]
  BY DEF Types, DbTypes
<1>1. CASE UNCHANGED DbPart
  BY <1>1 DEF DbPart, DbMoves
<1>2. ASSUME NEW r \in Runs, Launch(r) PROVE DbMoves
  BY <1>0, <1>2 DEF DbMoves, Launch
<1>3. ASSUME NEW r \in Runs, Submit(r) PROVE DbMoves
  BY <1>0, <1>3 DEF DbMoves, Submit
<1>4. ASSUME NEW r \in Runs, EndRun(r) PROVE DbMoves
  BY <1>0, <1>4 DEF DbMoves, EndRun
<1>5. CASE \E s \in Spaces : DeleteSpace(s)
  BY <1>5 DEF DbMoves, DeleteSpace
<1>6. CASE Disable \/ Enable
  <2>1. user \in [version : 1..MaxVersion, active : BOOLEAN] /\ MaxVersion \in Nat
    BY ReconciliationAssumption DEF Types, DbTypes
  <2>2. user.version \in Nat
    BY <2>1
  <2>3. user'.version = user.version + 1
    BY <1>6, <2>2 DEF Disable, Enable
  <2>4. row' = row /\ version' = version /\ deleted' = deleted
    BY <1>6 DEF Disable, Enable
  <2> QED BY <2>2, <2>3, <2>4 DEF DbMoves
<1>7. CASE \E v \in notices : AskRelease(v)
  BY <1>7 DEF DbMoves, AskRelease, dbVars
<1>8. ASSUME NEW c \in Conns, Register(c) PROVE DbMoves
  BY <1>8 DEF DbMoves, Register
<1>9. ASSUME NEW c \in Conns, NEW r \in Runs, ReapNext(c, r) PROVE DbMoves
  BY <1>0, <1>9 DEF DbMoves, ReapNext
<1>10. CASE HostCrash
  BY <1>10 DEF DbMoves, HostCrash, dbVars
<1>11. CASE ServerCrash
  BY <1>0, <1>11 DEF DbMoves, ServerCrash
<1>12. CASE SubmitRun
  <2>1. Head(wire).run \in Runs
    BY <1>12, HeadRun DEF SubmitRun, Takes
  <2> QED BY <1>0, <1>12, <2>1 DEF DbMoves, SubmitRun, HostFrame
<1> QED BY <1>1, <1>2, <1>3, <1>4, <1>5, <1>6, <1>7, <1>8, <1>9, <1>10, <1>11, <1>12, DbTouched
        DEF DbActions

(* Where a request comes from that is under way after a step.              *)
Fresh(x) ==
    \/ \E r \in Runs : Submit(r) /\ x = SubmitOf(r)
    \/ \E s \in Spaces : DeleteSpace(s) /\ x = AskOf(SpaceTarget(s))
    \/ \E v \in notices : AskRelease(v) /\ x = AskOf(UserTarget(v))
    \/ \E c \in Conns, r \in Runs : ReapNext(c, r) /\ x = Free(r)
    \/ x.kind \in {"listRunIds", "listClaims"} /\ x.target = NoTarget
    \/ \E c \in Conns, r \in Runs : CancelNext(c, r) /\ x = Request("cancel", c, r, NoTarget)
    \/ \E c \in Conns, t \in Targets : ReleaseNext(c, t) /\ x = Request("releaseResources", c, NoRun, t)
    \/ Cancel /\ Head(wire) \in Under /\ Head(wire).kind = "cancel" /\ x = Free(Head(wire).run)

Comes(x) == \/ \E y \in Under : Stems(x, y) /\ (Handle => ~Clash(Head(wire), y))
            \/ Fresh(x) /\ ~SubmitRun

LEMMA UnderComes ==
  ASSUME Types, Waits, RunInv, [Next]_vars
  PROVE  \A x \in Under' : Comes(x)
<1>0. RequestTypes
  BY DEF Types
<1>s. \A x : Stems(x, x)
  BY DEF Stems
<1>h. SubmitRun => Head(wire).kind = "submitRun" /\ Handle
  BY DEF SubmitRun, Takes, Handle
<1>1. CASE Handle
  <2>1. Taken
    BY <1>1, HandleTakes
  <2>2. ASSUME NEW x \in Under' PROVE Comes(x)
    <3>1. Head(wire) \in Under
      BY <2>1, TakenUnder
    <3>2. CASE x \in Under /\ ~Clash(Head(wire), x)
      BY <1>s, <3>2 DEF Comes
    <3>3. CASE Cancel /\ Head(wire).kind = "cancel" /\ x = Free(Head(wire).run)
      <4>1. ~SubmitRun
        BY <1>h, <3>3
      <4> QED BY <3>1, <3>3, <4>1 DEF Comes, Fresh
    <3> QED BY <2>1, <2>2, <3>2, <3>3, TakenUnder
  <2> QED BY <2>2
<1> SUFFICES ASSUME ~Handle PROVE \A x \in Under' : Comes(x)
  BY <1>1
<1>n. ~SubmitRun
  BY <1>h
<1>2. CASE wire' = wire
  BY <1>2, <1>s DEF Comes, Under
<1>3. ASSUME NEW m \in Requests, Wrote(m), Fresh(m) PROVE \A x \in Under' : Comes(x)
  <2>1. Under' \subseteq Under \cup {m}
    BY <1>0, <1>3, WroteUnder
  <2> QED BY <1>3, <1>n, <1>s, <2>1 DEF Comes
<1>4. CASE WriteActions
  <2>1. \E m \in Requests : Wrote(m) /\ Fresh(m)
    BY <1>4, WriteFacts DEF WriteActions, Written, Fresh
  <2> QED BY <1>3, <2>1
<1>5. CASE AskActions
  <2>1. PICK c \in Conns : \/ AskRuns(c) \/ AskClaims(c)
                           \/ \E r \in Runs : CancelNext(c, r)
                           \/ \E t \in Targets : ReleaseNext(c, t)
    BY <1>5 DEF AskActions
  <2>2. CASE AskRuns(c)
    <3>1. Wrote(Request("listRunIds", c, NoRun, NoTarget))
      BY <1>0, <2>2, AskRunsFacts DEF Asks
    <3> QED BY <1>3, <3>1, RequestKinds DEF Fresh
  <2>3. CASE AskClaims(c)
    <3>1. Wrote(Request("listClaims", c, NoRun, NoTarget))
      BY <1>0, <2>3, AskClaimsFacts DEF Asks
    <3> QED BY <1>3, <3>1, RequestKinds DEF Fresh
  <2>4. ASSUME NEW r \in Runs, CancelNext(c, r) PROVE \A x \in Under' : Comes(x)
    <3>1. Wrote(Request("cancel", c, r, NoTarget))
      BY <1>0, <2>4, CancelNextFacts DEF Asks
    <3> QED BY <1>3, <2>4, <3>1, RequestKinds DEF Fresh
  <2>5. ASSUME NEW t \in Targets, ReleaseNext(c, t) PROVE \A x \in Under' : Comes(x)
    <3>1. Wrote(Request("releaseResources", c, NoRun, t))
      BY <1>0, <2>5, ReleaseNextFacts DEF Asks
    <3> QED BY <1>3, <2>5, <3>1, RequestKinds DEF Fresh
  <2> QED BY <2>1, <2>2, <2>3, <2>4, <2>5
<1>6. CASE TurnActions
  <2>1. wire' = wire
    BY <1>6 DEF TurnActions, ReadRows, ReadSpaces, ReadUsers, Reconciled, AttemptStale, AttemptFailed,
       Retry, netVars
  <2> QED BY <1>2, <2>1
<1>7. CASE LossActions
  <2>1. Under' = {}
    BY <1>7, NothingUnder DEF LossActions, Bind, Break, HostCrash, ServerCrash, Under
  <2> QED BY <2>1
<1>8. ASSUME NEW c \in Conns, RpcTimeout(c) PROVE \A x \in Under' : Comes(x)
  BY <1>0, <1>8, TimeoutFacts DEF TimesOut, Comes
<1>9. ASSUME NEW c \in Conns, ServerClose(c) PROVE wire' = wire
  BY <1>9 DEF ServerClose, netVars
<1> QED BY <1>2, <1>4, <1>5, <1>6, <1>7, <1>8, <1>9, RequestsTouched DEF RequestActions

-----------------------------------------------------------------------------
(* A connection is open, registers or is bound only when it was made, and  *)
(* processes are numbered.  Runs are reaped before the connection is bound.*)
ConnInv ==
    /\ \A c \in Conns : c \in open \/ registering[c] # "no" \/ c = bound => madeBy[c] # None
    /\ \A c \in Conns : zombies[c] # {} => registering[c] = "reap"
    /\ \A c \in Conns : madeBy[c] <= process
    /\ stored # None /\ stored <= process
    /\ admission # "none" => epoch # None

LEMMA ConnInvStep ==
  ASSUME Types, ConnInv, [Next]_vars PROVE ConnInv'
<1>0. /\ registering \in [Conns -> {"no", "list", "reap", "over"}] /\ madeBy \in [Conns -> Nat]
      /\ process \in Nat \ {0} /\ stored \in Nat /\ zombies \in [Conns -> SUBSET Runs]
  BY DEF Types, DbTypes, ConnTypes
<1>c. \A c \in Conns : c # None
  BY DEF Conns, None
<1>1. ASSUME UNCHANGED <<ConnPart, process, stored>> PROVE ConnInv'
  BY <1>1 DEF ConnInv, ConnPart
<1>2. ASSUME NEW c \in Conns, Dial(c) PROVE ConnInv'
  <2>1. madeBy' = [madeBy EXCEPT ![c] = process] /\ process # None
    BY <1>0, <1>2 DEF Dial, None
  <2> QED BY <1>0, <1>2, <2>1 DEF ConnInv, Dial, dbVars
<1>3. ASSUME NEW c \in Conns, Register(c) PROVE ConnInv'
  <2>1. madeBy[c] # None /\ madeBy[c] <= process /\ stored' = madeBy[c]
    BY <1>3 DEF Register, ConnInv
  <2> QED BY <1>0, <1>3, <2>1 DEF ConnInv, Register, netVars
<1>4. ASSUME NEW c \in Conns, ReapList(c) \/ ReapFails(c) PROVE ConnInv'
  <2>1. registering[c] # "no" /\ madeBy[c] # None
    BY <1>4 DEF ReapList, ReapFails, ConnInv
  <2>2. /\ UNCHANGED <<open, bound, madeBy, process, stored, admission, epoch>>
        /\ \/ /\ registering' = [registering EXCEPT ![c] = "reap"]
              /\ \A d \in Conns \ {c} : zombies'[d] = zombies[d]
           \/ /\ registering' = [registering EXCEPT ![c] = "over"]
              /\ zombies' = [zombies EXCEPT ![c] = {}]
    BY <1>0, <1>4 DEF ReapList, ReapFails, dbVars, netVars
  <2> QED BY <1>0, <2>1, <2>2 DEF ConnInv
<1>5. ASSUME NEW c \in Conns, Bind(c) PROVE ConnInv'
  BY <1>0, <1>c, <1>5 DEF ConnInv, Bind, dbVars
<1>6. ASSUME NEW c \in Conns, RegisterTimeout(c) \/ ServerClose(c) PROVE ConnInv'
  <2>1. /\ open' \subseteq open /\ bound' \in {bound, None}
        /\ UNCHANGED <<registering, zombies, madeBy, process, stored, admission, epoch>>
    BY <1>6 DEF RegisterTimeout, ServerClose, dbVars, netVars
  <2> QED BY <1>c, <2>1 DEF ConnInv
<1>7. ASSUME NEW c \in Conns, Reconciled(c) \/ AttemptFailed(c) PROVE ConnInv'
  <2>1. /\ UNCHANGED <<open, bound, registering, zombies, madeBy, process, stored, epoch>>
        /\ admission' # "none" => admission # "none" \/ epoch = c
    BY <1>7 DEF Reconciled, AttemptFailed, Marks, Current, dbVars, netVars
  <2> QED BY <1>c, <2>1 DEF ConnInv
<1>8. ASSUME NEW c \in Conns, NEW r \in Runs, ReapNext(c, r) PROVE ConnInv'
  BY <1>8 DEF ReapNext, ConnInv
<1>9. CASE Break
  BY <1>9 DEF Break, ConnInv, dbVars, serverVars, connVars
<1>10. CASE HostCrash
  <2>1. process' = process + 1
    BY <1>10 DEF HostCrash
  <2> QED BY <1>0, <1>10, <2>1 DEF ConnInv, HostCrash, dbVars, serverVars, connVars
<1>11. CASE ServerCrash
  <2>1. \A c \in Conns : registering'[c] # "no" => madeBy[c] # None
    BY <1>11 DEF ServerCrash
  <2> QED BY <1>0, <1>c, <1>11, <2>1 DEF ConnInv, ServerCrash
<1>12. CASE SubmitRun \/ ReleaseResources
  BY <1>12 DEF ConnInv, SubmitRun, ReleaseResources, HostFrame, connVars
<1>13. CASE UNCHANGED ConnPart
  <2>1. CASE UNCHANGED DbPart
    BY <1>1, <1>13, <2>1 DEF DbPart
  <2>2. CASE UNCHANGED <<process, stored>>
    BY <1>1, <1>13, <2>2
  <2>3. \/ UNCHANGED <<process, stored>> \/ UNCHANGED DbPart
        \/ HostCrash \/ ServerCrash \/ \E c \in Conns : Register(c)
    <3>1. ASSUME NEW r \in Runs, Launch(r) \/ Submit(r) \/ EndRun(r) PROVE UNCHANGED <<process, stored>>
      BY <3>1 DEF Launch, Submit, EndRun, netVars
    <3>2. ASSUME \/ \E s \in Spaces : DeleteSpace(s)
                 \/ Disable \/ Enable
                 \/ \E v \in notices : AskRelease(v)
          PROVE UNCHANGED <<process, stored>>
      BY <3>2 DEF DeleteSpace, Disable, Enable, AskRelease, dbVars, netVars
    <3>3. ASSUME NEW c \in Conns, NEW r \in Runs, ReapNext(c, r) PROVE UNCHANGED <<process, stored>>
      BY <3>3 DEF ReapNext
    <3>4. CASE SubmitRun
      BY <3>4 DEF SubmitRun, HostFrame
    <3> QED BY <3>1, <3>2, <3>3, <3>4, DbTouched, Zenon DEF DbActions
  <2> QED BY <1>3, <1>10, <1>11, <2>1, <2>2, <2>3
<1> QED BY <1>2, <1>3, <1>4, <1>5, <1>6, <1>7, <1>8, <1>9, <1>10, <1>11, <1>12, <1>13, ConnTouched
        DEF ConnActions

LEMMA LaunchingMove ==
  ASSUME [Next]_vars PROVE launching' \subseteq launching \/ \E r \in Runs : Launch(r)
<1>1. ASSUME UNCHANGED DbPart \/ Disable \/ Enable \/ HostCrash \/ SubmitRun
             \/ (\E s \in Spaces : DeleteSpace(s)) \/ (\E v \in notices : AskRelease(v))
             \/ (\E c \in Conns : Register(c) \/ \E r \in Runs : ReapNext(c, r))
             \/ (\E r \in Runs : EndRun(r))
      PROVE  launching' = launching
  BY <1>1 DEF DbPart, Disable, Enable, HostCrash, SubmitRun, DeleteSpace, AskRelease, Register, ReapNext,
     EndRun, HostFrame, serverVars
<1>2. ASSUME ServerCrash \/ \E r \in Runs : Submit(r) PROVE launching' \subseteq launching
  BY <1>2 DEF ServerCrash, Submit
<1> QED BY <1>1, <1>2, DbTouched DEF DbActions

(* What the Host accepts.                                                  *)
Admits(r) ==
    /\ SpaceOf[r] \notin tomb /\ version[r] > revoked /\ version[r] >= maxSeen
    /\ held' = held \cup {r} /\ workers' = workers \cup {WorkerOf(r)} /\ maxSeen' = version[r]
    /\ acceptedBy' = [acceptedBy EXCEPT ![r] = process]

LEMMA SubmitFacts ==
  ASSUME Types, Waits, RunInv, SubmitRun
  PROVE  /\ Head(wire).run \in Runs /\ Head(wire) \in Under
         /\ acceptedBy[Head(wire).run] = None /\ Head(wire).run \notin launching
         /\ row[Head(wire).run] # "none" /\ Head(wire).kind = "submitRun"
         /\ UNCHANGED <<user, deleted, version, launching, notices, process, pending, tomb, revoked,
                        stored, registering, zombies, reapLost, attempt, owed>>
         /\ \/ UNCHANGED <<held, workers, maxSeen, acceptedBy>>
            \/ Admits(Head(wire).run)
<1>1. Head(wire).run \in Runs /\ Head(wire).kind = "submitRun" /\ wire # << >> /\ wire \in Seq(Requests)
  BY HeadRun DEF SubmitRun, Takes, Types, RequestTypes
<1>2. Head(wire) \in Under
  BY <1>1, TailUnder DEF Under
<1>3. \/ UNCHANGED <<held, workers, maxSeen, acceptedBy>>
      \/ Admits(Head(wire).run)
  BY DEF SubmitRun, Admits
<1>4. UNCHANGED <<user, deleted, version, launching, notices, process, pending, tomb, revoked,
                  stored, registering, zombies, reapLost, attempt, owed>>
  BY DEF SubmitRun, HostFrame, connVars, AnswerLost
<1> QED BY <1>1, <1>2, <1>3, <1>4 DEF RunInv

(* A run that was submitted keeps its Worker, its row and its acceptance.  *)
SessionInv ==
    /\ \A r \in Runs : acceptedBy[r] # None \/ r \in launching \/ r \in held => row[r] # "none"
    /\ \A r \in held : acceptedBy[r] # None /\ WorkerOf(r) \in workers
    /\ \A r \in launching : acceptedBy[r] = None

LEMMA SessionStep ==
  ASSUME Types, Waits, RunInv, [Next]_vars PROVE SessionInv'
<1>m. DbMoves
  BY DbMove
<1>0. SessionInv /\ held \subseteq Runs /\ launching \subseteq Runs
  BY DEF RunInv, SessionInv, Types, HostTypes, DbTypes
<1>1. ASSUME held' \subseteq held, UNCHANGED <<workers, acceptedBy>>, launching' \subseteq launching PROVE SessionInv'
  <2>1. \A r \in held : WorkerOf(r)' = WorkerOf(r)
    BY <1>0, <1>m DEF SessionInv, DbMoves, WorkerOf
  <2> QED BY <1>0, <1>m, <1>1, <2>1 DEF SessionInv, DbMoves
<1>2. ASSUME NEW r \in Runs, Launch(r) PROVE SessionInv'
  <2>1. /\ row[r] = "none" /\ row' = [row EXCEPT ![r] = "active"] /\ launching' = launching \cup {r}
        /\ UNCHANGED <<held, workers, acceptedBy>>
    BY <1>2 DEF Launch, hostVars, history
  <2>2. \A x \in held : WorkerOf(x)' = WorkerOf(x)
    BY <1>0, <1>m DEF SessionInv, DbMoves, WorkerOf
  <2>3. row'[r] # "none" /\ acceptedBy[r] = None
    BY <1>0, <2>1 DEF SessionInv, Types, DbTypes
  <2> QED BY <1>0, <1>m, <2>1, <2>2, <2>3 DEF SessionInv, DbMoves
<1>3. CASE HostCrash
  <2>1. held' = {} /\ UNCHANGED <<launching, acceptedBy>>
    BY <1>3 DEF HostCrash, serverVars
  <2> QED BY <1>0, <1>m, <2>1 DEF SessionInv, DbMoves
<1>4. CASE ReleaseResources
  <2> DEFINE t == Head(wire).target
  <2>1. UNCHANGED <<launching, acceptedBy, version>> /\ held' \subseteq held
    BY <1>4 DEF ReleaseResources, HostFrame
  <2>2. ASSUME NEW r \in held' PROVE WorkerOf(r) \in workers'
    <3>1. WorkerOf(r) \in workers /\ WorkerOf(r).space = SpaceOf[r] /\ WorkerOf(r).version = version[r]
      BY <1>0, <2>1 DEF SessionInv, WorkerOf
    <3>2. CASE UNCHANGED <<held, workers>>
      BY <3>1, <3>2
    <3>3. CASE ~UNCHANGED <<held, workers>>
      <4>1. /\ held' = held \ {x \in held : Covers(t, SpaceOf[x], version[x])}
            /\ workers \ {w \in workers : Covers(t, w.space, w.version)} \subseteq workers'
        BY <1>4, <3>3 DEF ReleaseResources
      <4>2. ~Covers(t, SpaceOf[r], version[r])
        BY <2>1, <4>1
      <4> QED BY <3>1, <4>1, <4>2
    <3> QED BY <3>2, <3>3
  <2>3. \A r : WorkerOf(r)' = [space |-> SpaceOf[r], version |-> version[r]]
    BY <2>1 DEF WorkerOf
  <2>4. \A r \in held' : WorkerOf(r)' \in workers'
    BY <2>2, <2>3 DEF WorkerOf
  <2> QED BY <1>0, <1>m, <2>1, <2>4 DEF SessionInv, DbMoves
<1>5. CASE SubmitRun
  <2> DEFINE r == Head(wire).run
  <2>1. /\ r \in Runs /\ acceptedBy[r] = None /\ r \notin launching /\ row[r] # "none"
        /\ UNCHANGED <<version, launching>>
        /\ UNCHANGED <<held, workers, acceptedBy>> \/ Admits(r)
    BY <1>5, SubmitFacts
  <2>2. CASE UNCHANGED <<held, workers, acceptedBy>>
    BY <1>1, <2>1, <2>2
  <2>3. CASE Admits(r)
    <3>1. /\ held' = held \cup {r} /\ workers' = workers \cup {WorkerOf(r)}
          /\ acceptedBy' = [acceptedBy EXCEPT ![r] = process]
      BY <2>3 DEF Admits
    <3>2. process # None /\ acceptedBy \in [Runs -> Nat]
      BY DEF Types, DbTypes, HostTypes, None
    <3>3. \A x : WorkerOf(x)' = WorkerOf(x)
      BY <2>1 DEF WorkerOf
    <3> HIDE DEF r
    <3> QED BY <1>0, <1>m, <2>1, <3>1, <3>2, <3>3 DEF SessionInv, DbMoves
  <2> QED BY <2>1, <2>2, <2>3
<1>6. CASE UNCHANGED <<HostPart, launching>>
  BY <1>1, <1>6 DEF HostPart
<1>7. CASE UNCHANGED HostPart /\ launching' # launching /\ ~\E r \in Runs : Launch(r)
  <2>1. launching' \subseteq launching
    BY <1>7, LaunchingMove
  <2> QED BY <1>1, <1>7, <2>1 DEF HostPart
<1>8. ASSUME Enable \/ Break \/ ServerCrash \/ ReleaseRun
             \/ \E c \in Conns : ReapFails(c) \/ Bind(c) \/ RpcTimeout(c)
      PROVE  held' \subseteq held /\ UNCHANGED <<workers, acceptedBy>> /\ launching' \subseteq launching
  BY <1>8 DEF Enable, Break, ServerCrash, ReleaseRun, ReapFails, Bind, RpcTimeout, HostFrame, hostVars,
     serverVars, history
<1> QED BY <1>1, <1>2, <1>3, <1>4, <1>5, <1>6, <1>7, <1>8, HostTouched DEF HostActions

LEMMA RunInvStep ==
  ASSUME Types, Waits, RunInv, [Next]_vars PROVE RunInv'
<1>1. SessionInv'
  BY SessionStep
<1>2. ASSUME NEW x \in Under', x.kind = "submitRun"
      PROVE  acceptedBy'[x.run] = None /\ x.run \notin launching' /\ row'[x.run] # "none"
  <2>0. x.run \in Runs
    BY <1>2, TypesStep DEF Types, RequestTypes, Under, Msgs, Requests
  <2>k. /\ \A r : /\ SubmitOf(r).run = r /\ Free(r).kind = "releaseRun"
                  /\ \A c : Request("cancel", c, r, NoTarget).kind = "cancel"
        /\ \A t : AskOf(t).kind = "releaseResources"
        /\ \A t, c : Request("releaseResources", c, NoRun, t).kind = "releaseResources"
    BY RequestKinds DEF SubmitOf, Free, AskOf
  <2>1. CASE \E r \in Runs : Submit(r) /\ x = SubmitOf(r)
    <3>1. PICK r \in Runs : Submit(r) /\ x = SubmitOf(r)
      BY <2>1
    <3>2. x.run = r /\ r \in launching /\ launching' = launching \ {r} /\ acceptedBy' = acceptedBy
      BY <2>k, <3>1 DEF Submit, history
    <3>3. row[r] # "none" /\ acceptedBy[r] = None
      BY <3>1, <3>2 DEF RunInv
    <3> QED BY <3>1, <3>2, <3>3, DbMove DEF DbMoves
  <2>2. CASE \E y \in Under : Stems(x, y) /\ (Handle => ~Clash(Head(wire), y))
    <3>1. PICK y \in Under : Stems(x, y) /\ (Handle => ~Clash(Head(wire), y))
      BY <2>2
    <3>2. y.kind = "submitRun" /\ y.run = x.run
      BY <1>2, <3>1 DEF Stems
    <3>3. acceptedBy[x.run] = None /\ x.run \notin launching /\ row[x.run] # "none"
      BY <3>2 DEF RunInv
    <3>4. row'[x.run] # "none"
      BY <2>0, <3>3, DbMove DEF DbMoves
    <3>5. acceptedBy'[x.run] = None
      <4>1. CASE SubmitRun
        <5>1. /\ Head(wire).run \in Runs /\ Head(wire).kind = "submitRun"
              /\ acceptedBy' = acceptedBy \/ Admits(Head(wire).run)
          BY <4>1, SubmitFacts
        <5>2. x.run # Head(wire).run
          BY <3>1, <3>2, <4>1, <5>1 DEF Clash, Handle
        <5>3. acceptedBy \in [Runs -> Nat]
          BY DEF Types, HostTypes
        <5> QED BY <2>0, <3>3, <5>1, <5>2, <5>3 DEF Admits
      <4>2. CASE ~SubmitRun
        <5>1. acceptedBy' = acceptedBy
          BY <4>2, HostTouched DEF HostActions, HostPart, Enable, Break, HostCrash, ServerCrash, ReapFails,
             Bind, RpcTimeout, ReleaseRun, ReleaseResources, history
        <5> QED BY <3>3, <5>1
      <4> QED BY <4>1, <4>2
    <3>6. x.run \notin launching'
      BY <3>3, LaunchingMove DEF Launch
    <3> QED BY <3>4, <3>5, <3>6
  <2>3. Comes(x)
    BY <1>2, UnderComes
  <2> QED BY <1>2, <2>1, <2>2, <2>3, <2>k DEF Comes, Fresh
<1> QED BY <1>1, <1>2 DEF RunInv, SessionInv

-----------------------------------------------------------------------------
(* How the attempt of a connection moves.                                  *)
AttemptMove(c) ==
    \/ attempt'[c] = attempt[c]
    \/ /\ attempt'[c].at = attempt[c].at /\ attempt'[c].todo \subseteq attempt[c].todo
       /\ attempt'[c].claims = attempt[c].claims
    \/ /\ attempt'[c].at \in {"none", "runs", "retry"} /\ attempt'[c].todo = {}
       /\ attempt'[c].claims = NoClaims
    \/ /\ attempt'[c].at = "claims" /\ attempt'[c].todo = {}
       /\ attempt'[c].claims = attempt[c].claims
    \/ /\ attempt'[c].at = "rows" /\ attempt'[c].todo = held
       /\ attempt'[c].claims = attempt[c].claims
    \/ /\ attempt[c].at = "rows" /\ attempt'[c].at = "cancel"
       /\ attempt'[c].todo = {r \in attempt[c].todo : row[r] # "active"}
       /\ attempt'[c].claims = attempt[c].claims
    \/ /\ attempt'[c].at = "claimed" /\ attempt'[c].todo = {} /\ attempt'[c].claims = Claims
    \/ /\ attempt[c].at = "claimed" /\ attempt'[c].at = "spaces"
       /\ attempt'[c].todo = SpacesToRelease(attempt[c].claims)
       /\ attempt'[c].claims = attempt[c].claims
    \/ /\ attempt[c].at = "spaces" /\ attempt'[c].at = "users"
       /\ attempt'[c].todo = UsersToRelease(attempt[c].claims)
       /\ attempt'[c].claims = NoClaims

LEMMA AttemptMoves ==
  ASSUME Types, Waits, [Next]_vars, NEW d \in Conns
  PROVE  AttemptMove(d)
<1>0. RequestTypes /\ attempt \in [Conns -> Attempts] /\ attempt[d] \in Attempts
  BY DEF Types, RequestTypes
<1>1. CASE attempt' = attempt
  BY <1>1 DEF AttemptMove
<1>2. ASSUME NEW c \in Conns, NEW at, NEW todo, NEW m, Asks(c, at, todo, m),
             \/ at = attempt[c].at /\ todo \subseteq attempt[c].todo
             \/ at = "claims" /\ todo = {}
      PROVE  AttemptMove(d)
  <2>1. PICK b \in Attempts :
         /\ Becomes(c, b) /\ b.at = at /\ b.todo = todo /\ b.claims = attempt[c].claims
    BY <1>2 DEF Asks
  <2> QED BY <1>2, <2>1 DEF Becomes, AttemptMove
<1>3. CASE AskActions
  <2>1. ASSUME NEW c \in Conns, AskRuns(c) PROVE AttemptMove(d)
    BY <1>0, <1>2, <2>1, AskRunsFacts
  <2>2. ASSUME NEW c \in Conns, AskClaims(c) PROVE AttemptMove(d)
    BY <1>0, <1>2, <2>2, AskClaimsFacts
  <2>3. ASSUME NEW c \in Conns, NEW r \in Runs, CancelNext(c, r) PROVE AttemptMove(d)
    <3>1. attempt[c].at = "cancel" /\ attempt[c].todo \ {r} \subseteq attempt[c].todo
          /\ Asks(c, "cancel", attempt[c].todo \ {r}, Request("cancel", c, r, NoTarget))
      BY <1>0, <2>3, CancelNextFacts
    <3> QED BY <1>2, <3>1
  <2>4. ASSUME NEW c \in Conns, NEW t \in Targets, ReleaseNext(c, t) PROVE AttemptMove(d)
    <3>1. attempt[c].todo \ {t} \subseteq attempt[c].todo
          /\ Asks(c, attempt[c].at, attempt[c].todo \ {t}, Request("releaseResources", c, NoRun, t))
      BY <1>0, <2>4, ReleaseNextFacts
    <3> QED BY <1>2, <3>1
  <2> QED BY <1>3, <2>1, <2>2, <2>3, <2>4 DEF AskActions
<1>4. ASSUME NEW c \in Conns, ReadRows(c) PROVE AttemptMove(d)
  <2>1. /\ attempt[c].at = "rows"
        /\ Reads(c, "cancel", {r \in attempt[c].todo : row[r] # "active"}, attempt[c].claims)
    BY <1>4, ReadFacts
  <2> QED BY <2>1 DEF Reads, Becomes, AttemptMove
<1>5. ASSUME NEW c \in Conns, ReadSpaces(c) PROVE AttemptMove(d)
  <2>1. /\ attempt[c].at = "claimed"
        /\ Reads(c, "spaces", SpacesToRelease(attempt[c].claims), attempt[c].claims)
    BY <1>5, ReadFacts
  <2> QED BY <2>1 DEF Reads, Becomes, AttemptMove
<1>6. ASSUME NEW c \in Conns, ReadUsers(c) PROVE AttemptMove(d)
  <2>1. /\ attempt[c].at = "spaces"
        /\ Reads(c, "users", UsersToRelease(attempt[c].claims), NoClaims)
    BY <1>6, ReadFacts
  <2> QED BY <2>1 DEF Reads, Becomes, AttemptMove
<1>7. ASSUME NEW c \in Conns, Reconciled(c) \/ AttemptStale(c) \/ AttemptFailed(c) \/ Retry(c)
      PROVE  AttemptMove(d)
  <2>1. \E b \in {NoAttempt, Rescheduled, Begun} : Turns(c, b)
    BY <1>0, <1>7, TurnFacts
  <2> QED BY <2>1, AttemptStates DEF Turns, Becomes, AttemptMove
<1>8. ASSUME NEW c \in Conns, Bind(c) PROVE AttemptMove(d)
  <2>1. attempt'[d] \in {Begun, NoAttempt, attempt[d]}
    BY <1>8 DEF Bind
  <2> QED BY <2>1, AttemptStates DEF AttemptMove
<1>9. CASE ServerCrash
  <2>1. attempt'[d] = NoAttempt
    BY <1>9 DEF ServerCrash
  <2> QED BY <2>1, AttemptStates DEF AttemptMove
<1>10. ASSUME NEW c \in Conns, ServerClose(c) PROVE AttemptMove(d)
  <2>1. attempt' = attempt \/ attempt'[d] = Rejected(attempt[d])
    BY <1>10 DEF ServerClose
  <2> QED BY <1>0, <1>1, <2>1, RejectedFacts DEF AttemptMove
<1>11. ASSUME NEW c \in Conns, RpcTimeout(c) PROVE AttemptMove(d)
  <2>1. Becomes(c, Rejected(attempt[c]))
    BY <1>0, <1>11, TimeoutFacts
  <2>2. attempt'[d] = attempt[d] \/ attempt'[d] = Rejected(attempt[d])
    BY <2>1 DEF Becomes
  <2> QED BY <1>0, <2>2, RejectedFacts DEF AttemptMove
<1>12. ASSUME NEW m, NEW at, NEW todo, NEW claims, NEW failed, Hears(m, at, todo, claims, failed),
              \/ m.from # None => at = attempt[m.from].at /\ todo = attempt[m.from].todo
                                  /\ claims = attempt[m.from].claims
              \/ at = "rows" /\ todo = held /\ claims = attempt[m.from].claims
              \/ at = "claimed" /\ todo = {} /\ claims = Claims
       PROVE  AttemptMove(d)
  <2>1. CASE attempt' = attempt
    BY <1>1, <2>1
  <2>2. CASE attempt' # attempt
    <3>1. PICK b \in Attempts : /\ m.from \in Conns /\ Becomes(m.from, b)
                                /\ b.at = at /\ b.todo = todo /\ b.claims = claims
      BY <1>12, <2>2 DEF Hears
    <3>2. m.from # None
      BY <3>1 DEF Conns, None
    <3> QED BY <1>12, <3>1, <3>2 DEF Becomes, AttemptMove
  <2> QED BY <2>1, <2>2
<1>13. ASSUME Replied(Head(wire), FALSE) \/ Replied(Head(wire), TRUE) PROVE AttemptMove(d)
  BY <1>1, <1>12, <1>13 DEF Replied
<1>14. CASE ListRunIds
  BY <1>1, <1>12, <1>14, ListRunIdsFacts
<1>15. CASE ListClaims
  BY <1>1, <1>12, <1>15, ListClaimsFacts
<1>16. CASE Cancel
  <2>1. wire # << >> /\ attempt' = Answered(Head(wire), Waiter(Head(wire)))
    BY <1>16 DEF Cancel, Takes
  <2> QED BY <1>0, <1>13, <2>1, ReplyFacts
<1>17. CASE ReleaseResources
  <2>1. wire # << >>
    BY <1>17 DEF ReleaseResources, Takes
  <2>2. \/ attempt' = Answered(Head(wire), Waiter(Head(wire)))
        \/ attempt' = attempt
        \/ attempt' = Answered(Head(wire), [Waiter(Head(wire)) EXCEPT !.failed = TRUE])
    BY <1>17 DEF ReleaseResources, AnswerLost
  <2> QED BY <1>0, <1>1, <1>13, <2>1, <2>2, ReplyFacts
<1>18. CASE ReleaseRun \/ SubmitRun
  BY <1>1, <1>18 DEF ReleaseRun, SubmitRun, AnswerLost
<1>19. CASE WriteActions
  BY <1>1, <1>19, WriteFacts DEF WriteActions, Written
<1>20. CASE Break \/ HostCrash
  BY <1>1, <1>20 DEF Break, HostCrash, serverVars
<1> QED BY <1>1, <1>3, <1>4, <1>5, <1>6, <1>7, <1>8, <1>9, <1>10, <1>11, <1>14, <1>15, <1>16, <1>17,
           <1>18, <1>19, <1>20, RequestsTouched, Zenon
        DEF RequestActions, TurnActions, LossActions, Handle

-----------------------------------------------------------------------------
(* The release of one run is only asked when the run has ended.            *)
EndedInv ==
    /\ \A m \in Under : m.kind \in {"cancel", "releaseRun"} => row[m.run] = "ended"
    /\ \A c \in Conns : \A r \in attempt[c].todo :
         /\ attempt[c].at = "rows" => row[r] # "none"
         /\ attempt[c].at = "cancel" => row[r] = "ended"
    /\ \A c \in Conns : \A r \in zombies[c] : row[r] # "none"

LEMMA ZombiesMove ==
  ASSUME Types, [Next]_vars, NEW c \in Conns
  PROVE  zombies'[c] \subseteq zombies[c] \cup {r \in Runs : row[r] = "active"}
<1>0. zombies \in [Conns -> SUBSET Runs]
  BY DEF Types, ConnTypes
<1>1. CASE zombies' = zombies
  BY <1>1
<1>2. CASE \E d \in Conns : ReapList(d) \/ ReapFails(d) \/ \E r \in Runs : ReapNext(d, r)
  BY <1>0, <1>2 DEF ReapList, ReapFails, ReapNext
<1>3. CASE ServerCrash
  BY <1>3 DEF ServerCrash
<1>4. ASSUME NEW d \in Conns, Dial(d) \/ Register(d) \/ Bind(d) \/ RegisterTimeout(d) \/ ServerClose(d)
                              \/ Reconciled(d) \/ AttemptFailed(d)
      PROVE  zombies' = zombies
  BY <1>4 DEF Dial, Register, Bind, RegisterTimeout, ServerClose, Reconciled, AttemptFailed
<1>5. CASE Break \/ HostCrash \/ SubmitRun \/ ReleaseResources
  BY <1>1, <1>5 DEF Break, HostCrash, SubmitRun, ReleaseResources, HostFrame, serverVars, connVars
<1> QED BY <1>1, <1>2, <1>3, <1>4, <1>5, ConnTouched DEF ConnActions, ConnPart

LEMMA EndedStep ==
  ASSUME Types, Waits, RunInv, EndedInv, [Next]_vars PROVE EndedInv'
<1>m. DbMoves
  BY DbMove
<1>k. /\ \A r : /\ SubmitOf(r).kind = "submitRun" /\ Free(r).run = r
                /\ \A c : Request("cancel", c, r, NoTarget).run = r
      /\ \A t : AskOf(t).kind = "releaseResources"
      /\ \A t, c : Request("releaseResources", c, NoRun, t).kind = "releaseResources"
  BY RequestKinds DEF SubmitOf, Free, AskOf
<1>1. ASSUME NEW x \in Under', x.kind \in {"cancel", "releaseRun"} PROVE row'[x.run] = "ended"
  <2>0. x.run \in Runs
    BY <1>1, TypesStep DEF Types, RequestTypes, Under, Msgs, Requests
  <2>1. ASSUME NEW y \in Under, Stems(x, y) PROVE row'[x.run] = "ended"
    BY <1>m, <1>1, <2>0, <2>1 DEF EndedInv, Stems, DbMoves
  <2>2. ASSUME NEW c \in Conns, NEW r \in Runs, ReapNext(c, r), x = Free(r) PROVE row'[x.run] = "ended"
    BY <1>k, <2>2 DEF ReapNext, Types, DbTypes
  <2>3. ASSUME NEW c \in Conns, NEW r \in Runs, CancelNext(c, r), x = Request("cancel", c, r, NoTarget)
        PROVE  row'[x.run] = "ended"
    <3>1. x.run = r /\ attempt[c].at = "cancel" /\ r \in attempt[c].todo
      BY <1>k, <2>3, CancelNextFacts DEF Types
    <3> QED BY <1>m, <3>1 DEF EndedInv, DbMoves
  <2>4. ASSUME Head(wire) \in Under, Head(wire).kind = "cancel", x = Free(Head(wire).run)
        PROVE  row'[x.run] = "ended"
    <3>1. x.run = Head(wire).run
      BY <1>k, <2>4
    <3> QED BY <1>m, <2>0, <2>4, <3>1 DEF EndedInv, DbMoves
  <2>5. Comes(x)
    BY <1>1, UnderComes
  <2> QED BY <1>k, <1>1, <2>1, <2>2, <2>3, <2>4, <2>5 DEF Comes, Fresh
<1>2. ASSUME NEW c \in Conns, NEW r \in attempt'[c].todo
      PROVE  /\ attempt'[c].at = "rows" => row'[r] # "none"
             /\ attempt'[c].at = "cancel" => row'[r] = "ended"
  <2>0. attempt[c] \in Attempts /\ attempt'[c] \in Attempts /\ attempt[c].todo \subseteq Runs \cup Targets
    BY <1>2, TypesStep DEF Types, RequestTypes, Attempts
  <2>1. attempt'[c].at \in {"rows", "cancel"} => r \in Runs
    BY <1>2, <2>0 DEF Attempts
  <2>2. \A x \in held : row[x] # "none"
    BY DEF RunInv, Types, HostTypes
  <2>3. row \in [Runs -> {"none", "active", "ended"}]
    BY DEF Types, DbTypes
  <2>4. AttemptMove(c)
    BY <1>2, AttemptMoves
  <2> QED BY <1>m, <1>2, <2>1, <2>2, <2>3, <2>4 DEF EndedInv, DbMoves, AttemptMove
<1>3. ASSUME NEW c \in Conns, NEW r \in zombies'[c] PROVE row'[r] # "none"
  <2>1. r \in Runs
    BY <1>3, ConnStep DEF ConnTypes
  <2>2. r \in zombies[c] \/ row[r] = "active"
    BY <1>3, ZombiesMove
  <2> QED BY <1>m, <2>1, <2>2 DEF EndedInv, DbMoves
<1> QED BY <1>1, <1>2, <1>3 DEF EndedInv

-----------------------------------------------------------------------------
(* A release of the user is for a version at which he was not active, a    *)
(* run for one at which he was.                                            *)
Past(t) == t.kind = "user" => t.version <= user.version /\ (t.version = user.version => ~user.active)

RunVersions ==
    \A r \in Runs : row[r] # "none" =>
      version[r] <= user.version /\ (version[r] = user.version => user.active)

VersionInv ==
    /\ RunVersions
    /\ \A v \in notices : Past(UserTarget(v))
    /\ \A m \in Under : Past(m.target)
    /\ \A p \in pending : Past(p.target)
    /\ \A c \in Conns : /\ \A t \in attempt[c].claims.pending : Past(t)
                        /\ attempt[c].at \in {"spaces", "users"} => \A t \in attempt[c].todo : Past(t)

LEMMA PastStays ==
  ASSUME DbMoves, NEW t \in Targets \cup {NoTarget}, Past(t) PROVE Past(t)'
<1>1. CASE t \in Targets
  <2>1. t.kind = "workspace" \/ (t.kind = "user" /\ t.version \in Nat)
    BY <1>1, TargetKinds
  <2>2. CASE user' = user
    BY <2>2 DEF Past
  <2>3. CASE user'.version = user.version + 1 /\ user.version \in Nat
    BY <2>1, <2>3 DEF Past
  <2> QED BY <2>2, <2>3 DEF DbMoves
<1>2. CASE t = NoTarget
  BY <1>2 DEF Past, NoTarget
<1> QED BY <1>1, <1>2

LEMMA RunVersionsStep ==
  ASSUME Types, Waits, RunInv, EndedInv, RunVersions, [Next]_vars PROVE RunVersions'
<1>m. DbMoves
  BY DbMove
<1>0. /\ version \in [Runs -> 0..MaxVersion] /\ row \in [Runs -> {"none", "active", "ended"}]
      /\ \A r \in Runs : version[r] \in Nat
  BY ReconciliationAssumption DEF Types, DbTypes
<1>1. ASSUME NEW r \in Runs, row[r] # "none"
      PROVE  version'[r] <= user'.version /\ (version'[r] = user'.version => user'.active)
  <2>1. version'[r] = version[r] /\ version[r] \in Nat
    BY <1>m, <1>0, <1>1 DEF DbMoves
  <2>2. version[r] <= user.version /\ (version[r] = user.version => user.active)
    BY <1>1 DEF RunVersions
  <2>3. CASE user' = user
    BY <2>1, <2>2, <2>3
  <2>4. CASE user'.version = user.version + 1 /\ user.version \in Nat
    BY <2>1, <2>2, <2>4
  <2> QED BY <1>m, <2>3, <2>4 DEF DbMoves
<1>2. ASSUME NEW r \in Runs, row[r] = "none", row'[r] # "none"
      PROVE  version'[r] = user'.version /\ user'.active /\ user.version \in Nat /\ user' = user
  <2>1. ASSUME NEW x \in Runs, Launch(x) PROVE version'[r] = user'.version /\ user'.active /\ user' = user
    BY <1>0, <1>2, <2>1 DEF Launch
  <2>2. ASSUME NEW x \in Runs, row[x] # "none", \A y \in Runs : y # x => row'[y] = row[y] PROVE FALSE
    BY <1>2, <2>2
  <2>3. ASSUME NEW x \in Runs, Submit(x) PROVE FALSE
    BY <1>0, <2>2, <2>3 DEF Submit, RunInv
  <2>4. ASSUME NEW x \in Runs, EndRun(x) PROVE FALSE
    BY <1>0, <2>2, <2>4 DEF EndRun
  <2>5. ASSUME NEW c \in Conns, NEW x \in Runs, ReapNext(c, x) PROVE FALSE
    BY <1>0, <2>2, <2>5 DEF ReapNext, EndedInv
  <2>6. CASE ServerCrash
    BY <1>2, <2>6 DEF ServerCrash
  <2>7. CASE SubmitRun
    <3>1. \A y \in Runs : y # Head(wire).run => row'[y] = row[y]
      BY <1>0, <2>7 DEF SubmitRun
    <3> QED BY <2>2, <2>7, <3>1, SubmitFacts
  <2>8. ASSUME \/ UNCHANGED DbPart
               \/ \E s \in Spaces : DeleteSpace(s)
               \/ Disable \/ Enable
               \/ \E v \in notices : AskRelease(v)
               \/ \E c \in Conns : Register(c)
               \/ HostCrash
        PROVE  row' = row
    BY <2>8 DEF DbPart, DeleteSpace, Disable, Enable, AskRelease, Register, HostCrash, dbVars
  <2>9. user.version \in Nat
    BY DEF Types, DbTypes
  <2> QED BY <1>2, <2>1, <2>3, <2>4, <2>5, <2>6, <2>7, <2>8, <2>9, DbTouched DEF DbActions
<1> QED BY <1>1, <1>2 DEF RunVersions

LEMMA NoticesPast ==
  ASSUME Types, RunInv, VersionInv, [Next]_vars, NEW v \in notices' PROVE Past(UserTarget(v))'
<1>m. DbMoves
  BY DbMove
<1>1. CASE v \in notices
  <2>1. UserTarget(v) \in Targets /\ Past(UserTarget(v))
    BY <1>1, TargetKinds DEF Types, DbTypes, VersionInv
  <2> QED BY <1>m, <2>1, PastStays
<1>2. CASE v \notin notices
  <2>1. \/ Disable
        \/ notices' \subseteq notices
    BY DbTouched DEF DbActions, DbPart, Launch, Submit, EndRun, DeleteSpace, Enable, AskRelease, Register,
       ReapNext, HostCrash, ServerCrash, SubmitRun, HostFrame, serverVars
  <2>2. v = user.version + 1 /\ user'.version = user.version + 1 /\ user'.active = FALSE
    BY <1>2, <2>1 DEF Disable
  <2>3. user.version \in Nat
    BY DEF Types, DbTypes
  <2> QED BY <2>2, <2>3 DEF Past, UserTarget
<1> QED BY <1>1, <1>2

LEMMA RequestsPast ==
  ASSUME Types, Waits, RunInv, VersionInv, [Next]_vars, NEW x \in Under' PROVE Past(x.target)'
<1>m. DbMoves
  BY DbMove
<1>k. /\ \A r : /\ SubmitOf(r).target = NoTarget /\ Free(r).target = NoTarget
                /\ \A c : Request("cancel", c, r, NoTarget).target = NoTarget
      /\ \A t : AskOf(t).target = t
      /\ \A t, c : Request("releaseResources", c, NoRun, t).target = t
  BY RequestKinds DEF SubmitOf, Free, AskOf
<1>1. ASSUME NEW y \in Under, Stems(x, y) PROVE Past(x.target)'
  <2>1. x.target = y.target /\ y.target \in Targets \cup {NoTarget} /\ Past(y.target)
    BY <1>1 DEF VersionInv, Stems, Types, RequestTypes, Under, Msgs, Requests
  <2> QED BY <1>m, <2>1, PastStays
<1>2. ASSUME x.target = NoTarget PROVE Past(x.target)'
  BY <1>2 DEF Past, NoTarget
<1>3. ASSUME NEW s \in Spaces, x = AskOf(SpaceTarget(s)) PROVE Past(x.target)'
  BY <1>3, <1>k DEF Past, SpaceTarget
<1>4. ASSUME NEW v \in notices, x = AskOf(UserTarget(v)) PROVE Past(x.target)'
  <2>1. UserTarget(v) \in Targets /\ Past(UserTarget(v)) /\ x.target = UserTarget(v)
    BY <1>4, <1>k, TargetKinds DEF Types, DbTypes, VersionInv
  <2> QED BY <1>m, <2>1, PastStays
<1>5. ASSUME NEW c \in Conns, NEW t \in Targets, ReleaseNext(c, t), x = Request("releaseResources", c, NoRun, t)
      PROVE  Past(x.target)'
  <2>1. Past(t) /\ x.target = t
    BY <1>5, <1>k, ReleaseNextFacts DEF Types, VersionInv
  <2> QED BY <1>m, <2>1, PastStays
<1>6. Comes(x)
  BY UnderComes
<1> QED BY <1>k, <1>1, <1>2, <1>3, <1>4, <1>5, <1>6 DEF Comes, Fresh

LEMMA PendingPast ==
  ASSUME Types, Waits, RunInv, VersionInv, [Next]_vars, NEW p \in pending' PROVE Past(p.target)'
<1>m. DbMoves
  BY DbMove
<1>1. CASE p \in pending
  <2>1. p.target \in Targets /\ Past(p.target)
    BY <1>1 DEF Types, HostTypes, Cleanups, VersionInv
  <2> QED BY <1>m, <2>1, PastStays
<1>2. CASE p \notin pending
  <2>1. ReleaseResources
    BY <1>2, HostTouched DEF HostActions, HostPart, Enable, Break, HostCrash, ServerCrash, ReapFails, Bind,
       RpcTimeout, ReleaseRun, SubmitRun, hostVars
  <2>2. p.target = Head(wire).target
    BY <1>2, <2>1 DEF ReleaseResources
  <2>3. wire # << >> /\ wire \in Seq(Requests)
    BY <2>1 DEF ReleaseResources, Takes, Types, RequestTypes
  <2>4. Head(wire) \in Under
    BY <2>3, TailUnder DEF Under
  <2>5. Head(wire).target \in Targets /\ Past(Head(wire).target)
    BY <2>1, <2>4, ReleaseTypes DEF VersionInv
  <2> QED BY <1>m, <2>2, <2>5, PastStays
<1> QED BY <1>1, <1>2

LEMMA AttemptsPast ==
  ASSUME Types, Waits, RunInv, VersionInv, [Next]_vars, NEW c \in Conns
  PROVE  /\ \A t \in attempt'[c].claims.pending : Past(t)'
         /\ attempt'[c].at \in {"spaces", "users"} => \A t \in attempt'[c].todo : Past(t)'
<1>m. DbMoves
  BY DbMove
<1>0. attempt[c] \in Attempts /\ attempt[c].claims.pending \subseteq Targets
  BY DEF Types, RequestTypes, Attempts, ClaimSets
<1>1. \A t \in Targets : Past(t) => Past(t)'
  BY <1>m, PastStays
<1>2. \A t \in attempt[c].claims.pending : Past(t)'
  BY <1>0, <1>1 DEF VersionInv
<1>3. attempt[c].at \in {"spaces", "users"} => \A t \in attempt[c].todo : Past(t)'
  <2>1. attempt[c].at \in {"spaces", "users"} => attempt[c].todo \subseteq Targets
    BY <1>0 DEF Attempts
  <2> QED BY <1>1, <2>1 DEF VersionInv
<1>4. \A t \in Claims.pending : Past(t)'
  BY <1>1 DEF Claims, VersionInv, Types, HostTypes, Cleanups
<1>5. NoClaims.pending = {}
  BY DEF NoClaims
<1>6. \A t \in SpacesToRelease(attempt[c].claims) : Past(t)'
  BY <1>2, TargetKinds DEF SpacesToRelease, Past, SpaceTarget
<1>7. \A t \in UsersToRelease(attempt[c].claims) : Past(t)'
  <2>1. UserTarget(user.version) \in Targets /\ (~user.active => Past(UserTarget(user.version)))
    BY TargetKinds DEF Types, DbTypes, Past, UserTarget
  <2> QED BY <1>1, <1>2, <2>1 DEF UsersToRelease
<1>8. AttemptMove(c)
  BY AttemptMoves
<1> HIDE DEF Past
<1> QED BY <1>2, <1>3, <1>4, <1>5, <1>6, <1>7, <1>8 DEF AttemptMove

LEMMA VersionStep ==
  ASSUME Types, Waits, RunInv, EndedInv, VersionInv, [Next]_vars PROVE VersionInv'
<1>1. RunVersions'
  BY RunVersionsStep DEF VersionInv
<1> QED BY <1>1, NoticesPast, RequestsPast, PendingPast, AttemptsPast DEF VersionInv

-----------------------------------------------------------------------------
(* The fences of the Host, while its process lives.                        *)
Fenced(w) == w.space \in tomb \/ w.version <= revoked
FencedBy(t) == IF t.kind = "workspace" THEN t.space \in tomb ELSE t.version <= revoked

(* What could not be cleaned up is fenced, and no longer in the pool.      *)
Stuck(p) == /\ p.worker \notin workers
            /\ FencedBy(p.target)
            /\ Covers(p.target, p.worker.space, p.worker.version)

HostMoves ==
    /\ tomb \subseteq tomb' /\ revoked <= revoked'
    /\ \A w \in workers \ workers' : Fenced(w)'
    /\ \A w \in workers' \ workers : ~Fenced(w)
    /\ \A r \in held' \ held : acceptedBy[r] = None
    /\ \A r \in Runs : acceptedBy[r] # None => acceptedBy'[r] # None
    /\ \A p \in pending' \ pending : p.worker \in workers /\ Stuck(p)'

(* The fence of a release comes first.                                     *)
LEMMA FenceFacts ==
  ASSUME Types, ReleaseResources, NEW t, t = Head(wire).target
  PROVE  /\ t \in Targets
         /\ tomb \subseteq tomb' /\ revoked <= revoked'
         /\ FencedBy(t)'
         /\ \A w \in Workers : Covers(t, w.space, w.version) => Fenced(w)'
<1>1. t \in Targets
  BY ReleaseTypes
<1>2. revoked \in Nat /\ revoked' \in Nat /\ \A w \in Workers : w.version \in Nat
  BY ReleaseTypes, ReconciliationAssumption DEF Types, HostTypes, Workers
<1>3. CASE t.kind = "workspace"
  <2>1. tomb' = tomb \cup {t.space} /\ revoked' = revoked
    BY <1>3 DEF ReleaseResources
  <2> QED BY <1>1, <1>2, <1>3, <2>1 DEF FencedBy, Fenced, Covers
<1>4. CASE t.kind = "user" /\ t.version \in Nat
  <2>1. tomb' = tomb /\ revoked' = Largest(revoked, t.version)
    BY <1>4 DEF ReleaseResources
  <2>2. revoked <= revoked' /\ t.version <= revoked'
    BY <1>2, <1>4, <2>1 DEF Largest
  <2>3. \A w \in Workers : w.version <= t.version => w.version <= revoked'
    BY <1>2, <1>4, <2>2
  <2> QED BY <1>1, <1>4, <2>1, <2>2, <2>3 DEF FencedBy, Fenced, Covers
<1> QED BY <1>1, <1>3, <1>4, TargetKinds

LEMMA HostMove ==
  ASSUME Types, Waits, RunInv, [Next]_vars, ~HostCrash
  PROVE  HostMoves
<1>0. revoked \in Nat /\ held \subseteq Runs /\ acceptedBy \in [Runs -> Nat] /\ workers \subseteq Workers
  BY ReconciliationAssumption DEF Types, HostTypes
<1>1. ASSUME held' \subseteq held, UNCHANGED <<workers, tomb, revoked, pending, acceptedBy>> PROVE HostMoves
  BY <1>0, <1>1 DEF HostMoves
<1>2. CASE UNCHANGED HostPart
  BY <1>1, <1>2 DEF HostPart
<1>3. CASE Enable \/ Break \/ ServerCrash \/ ReleaseRun \/ \E c \in Conns : ReapFails(c) \/ Bind(c) \/ RpcTimeout(c)
  <2>1. held' \subseteq held /\ UNCHANGED <<workers, tomb, revoked, pending, acceptedBy>>
    BY <1>3 DEF Enable, Break, ServerCrash, ReleaseRun, ReapFails, Bind, RpcTimeout, HostFrame, hostVars, history
  <2> QED BY <1>1, <2>1
<1>4. CASE SubmitRun
  <2> DEFINE r == Head(wire).run
  <2>1. /\ r \in Runs /\ acceptedBy[r] = None /\ UNCHANGED <<tomb, revoked, pending, version>>
        /\ UNCHANGED <<held, workers, maxSeen, acceptedBy>> \/ Admits(r)
    BY <1>4, SubmitFacts
  <2>2. CASE UNCHANGED <<held, workers, maxSeen, acceptedBy>>
    BY <1>1, <2>1, <2>2
  <2>3. CASE Admits(r)
    <3>1. /\ held' = held \cup {r} /\ workers' = workers \cup {WorkerOf(r)}
          /\ acceptedBy' = [acceptedBy EXCEPT ![r] = process] /\ process # None
          /\ SpaceOf[r] \notin tomb /\ version[r] > revoked /\ version[r] \in Nat
      BY <2>1, <2>3, ReconciliationAssumption DEF Admits, Types, DbTypes, None
    <3>2. ~Fenced(WorkerOf(r))
      BY <1>0, <3>1 DEF Fenced, WorkerOf
    <3> HIDE DEF r
    <3> QED BY <1>0, <2>1, <3>1, <3>2 DEF HostMoves
  <2> QED BY <2>1, <2>2, <2>3
<1>5. CASE ReleaseResources
  <2> PICK t : t = Head(wire).target
    OBVIOUS
  <2> PICK going : going = {w \in workers : Covers(t, w.space, w.version)}
    OBVIOUS
  <2>1. /\ tomb \subseteq tomb' /\ revoked <= revoked' /\ FencedBy(t)'
        /\ \A w \in going : Fenced(w)'
    BY <1>0, <1>5, FenceFacts
  <2>2. /\ held' \subseteq held /\ acceptedBy' = acceptedBy
        /\ workers' \subseteq workers /\ workers \ workers' \subseteq going
    BY <1>5 DEF ReleaseResources
  <2>3. ASSUME NEW p \in pending' \ pending PROVE p.worker \in workers /\ Stuck(p)'
    <3>1. PICK w \in going : p = [worker |-> w, target |-> t] /\ w \notin workers'
      BY <1>5, <2>3 DEF ReleaseResources
    <3>2. p.worker = w /\ p.target = t /\ w \in workers /\ Covers(t, w.space, w.version)
      BY <3>1
    <3> QED BY <2>1, <3>1, <3>2 DEF Stuck, Covers, FencedBy
  <2> QED BY <2>1, <2>2, <2>3 DEF HostMoves
<1> QED BY <1>2, <1>3, <1>4, <1>5, HostTouched DEF HostActions

LEMMA StuckStays ==
  ASSUME Types, HostMoves, NEW p \in Cleanups, Stuck(p), revoked' \in Nat
  PROVE  Stuck(p)'
<1>1. /\ p.worker \in Workers /\ p.target \in Targets
      /\ p.worker.version \in Nat /\ revoked \in Nat
  BY ReconciliationAssumption DEF Cleanups, Workers, Types, HostTypes
<1>2. \/ p.target.kind = "workspace"
      \/ (p.target.kind = "user" /\ p.target.version \in Nat)
  BY <1>1, TargetKinds
<1>3. FencedBy(p.target)'
  BY <1>1, <1>2 DEF HostMoves, Stuck, FencedBy
<1>4. Fenced(p.worker)
  BY <1>1, <1>2 DEF Stuck, FencedBy, Fenced, Covers
<1>5. p.worker \notin workers'
  BY <1>4 DEF HostMoves, Stuck
<1> QED BY <1>3, <1>5 DEF Stuck, Covers

PendingInv == \A p \in pending : Stuck(p)

LEMMA PendingStep ==
  ASSUME Types, Waits, RunInv, PendingInv, [Next]_vars PROVE PendingInv'
<1>1. CASE HostCrash
  BY <1>1 DEF HostCrash, PendingInv
<1>2. CASE ~HostCrash
  <2>1. HostMoves /\ revoked' \in Nat /\ pending \subseteq Cleanups
    BY <1>2, HostMove, HostStep, ReconciliationAssumption DEF HostTypes, Types
  <2>2. \A p \in pending : Stuck(p)'
    BY <2>1, StuckStays DEF PendingInv
  <2> QED BY <2>1, <2>2 DEF HostMoves, PendingInv
<1> QED BY <1>1, <1>2

-----------------------------------------------------------------------------
(* A run of a Host process that is gone will be failed.                    *)
LEMMA ZombieStep ==
  ASSUME Types, Waits, ConnInv, RunInv, NoZombie, [Next]_vars PROVE NoZombie'
<1>0. /\ registering \in [Conns -> {"no", "list", "reap", "over"}] /\ madeBy \in [Conns -> Nat]
      /\ process \in Nat \ {0} /\ stored \in Nat /\ zombies \in [Conns -> SUBSET Runs]
      /\ acceptedBy \in [Runs -> Nat] /\ row \in [Runs -> {"none", "active", "ended"}]
  BY DEF Types, DbTypes, ConnTypes, HostTypes
<1> SUFFICES ASSUME NEW r \in Runs, row'[r] = "active", acceptedBy'[r] \notin {None, process'}, stored' = process'
             PROVE  reapLost' \/ \E c \in Conns : registering'[c] = "list" \/ r \in zombies'[c]
  BY Zenon DEF NoZombie
<1> DEFINE Reaped == reapLost \/ \E c \in Conns : registering[c] = "list" \/ r \in zombies[c]
           Owner == row[r] = "active" /\ acceptedBy[r] \notin {None, process} /\ stored = process
<1>p. process' = process
  <2>1. CASE HostCrash
    <3>1. process' = process + 1 /\ stored' = stored /\ stored <= process
      BY <2>1 DEF HostCrash, dbVars, ConnInv
    <3> QED BY <1>0, <3>1
  <2>2. CASE ~HostCrash
    BY <2>2, DbTouched DEF DbActions, DbPart, Launch, Submit, EndRun, DeleteSpace, Disable, Enable, AskRelease,
       Register, ReapNext, ServerCrash, SubmitRun, HostFrame, netVars
  <2> QED BY <2>1, <2>2
<1>a. acceptedBy[r] \notin {None, process}
  <2>1. CASE SubmitRun
    BY <1>0, <1>p, <2>1, SubmitFacts DEF Admits
  <2>2. CASE ~SubmitRun
    <3>1. acceptedBy' = acceptedBy
      BY <2>2, HostTouched DEF HostActions, HostPart, Enable, Break, HostCrash, ServerCrash, ReapFails,
         Bind, RpcTimeout, ReleaseRun, ReleaseResources, history
    <3> QED BY <1>p, <3>1
  <2> QED BY <2>1, <2>2
<1>b. row[r] = "active"
  <2>1. row[r] # "none"
    BY <1>a DEF RunInv
  <2> QED BY <1>0, <2>1, DbMove DEF DbMoves
<1>1. ASSUME NEW c \in Conns, Register(c)
      PROVE  reapLost' \/ \E d \in Conns : registering'[d] = "list" \/ r \in zombies'[d]
  <2>1. stored' = madeBy[c] /\ stored # None /\ UNCHANGED <<zombies, reapLost>> /\ registering[c] = "no"
    BY <1>1 DEF Register, ConnInv, history
  <2>2. CASE stored = madeBy[c]
    <3>1. Reaped
      BY <1>a, <1>b, <1>p, <2>1, <2>2 DEF NoZombie
    <3>2. \A d \in Conns : registering[d] = "list" => registering'[d] = "list"
      BY <1>0, <1>1, <2>1 DEF Register
    <3> QED BY <2>1, <3>1, <3>2
  <2>3. CASE stored # madeBy[c]
    <3>1. registering'[c] = "list"
      BY <1>0, <1>1, <2>1, <2>3 DEF Register, Another
    <3> QED BY <3>1
  <2> QED BY <2>2, <2>3
<1> SUFFICES ASSUME ~\E c \in Conns : Register(c)
             PROVE  reapLost' \/ \E c \in Conns : registering'[c] = "list" \/ r \in zombies'[c]
  BY <1>1
<1>s. stored' = stored
  BY DbTouched DEF DbActions, DbPart, Launch, Submit, EndRun, DeleteSpace, Disable, Enable, AskRelease,
     ReapNext, HostCrash, ServerCrash, SubmitRun, HostFrame, dbVars
<1>r. Reaped
  BY <1>a, <1>b, <1>p, <1>s DEF NoZombie
<1>l. reapLost => reapLost'
  BY HostTouched DEF HostActions, HostPart, Enable, Break, HostCrash, ServerCrash, ReapFails,
     Bind, RpcTimeout, ReleaseRun, SubmitRun, ReleaseResources, HostFrame, history
<1>2. ASSUME NEW c \in Conns, ReapList(c) PROVE r \in zombies'[c]
  BY <1>0, <1>2, <1>b DEF ReapList
<1>3. ASSUME NEW c \in Conns, ReapFails(c) PROVE reapLost'
  BY <1>3 DEF ReapFails
<1>5. ASSUME NEW c \in Conns, Bind(c)
      PROVE  \A d \in Conns : registering[d] = "list" \/ r \in zombies[d]
                               => registering'[d] = "list" \/ r \in zombies'[d]
  BY <1>0, <1>5 DEF Bind
<1>6. ~ServerCrash
  BY DEF ServerCrash
<1>7. ASSUME \/ \E c \in Conns : Dial(c) \/ RegisterTimeout(c) \/ ServerClose(c) \/ Reconciled(c) \/ AttemptFailed(c)
             \/ Break \/ HostCrash \/ SubmitRun \/ ReleaseResources
      PROVE  UNCHANGED <<registering, zombies>>
  BY <1>7 DEF Dial, RegisterTimeout, ServerClose, Reconciled, AttemptFailed, Break, HostCrash, SubmitRun,
     ReleaseResources, HostFrame, serverVars, connVars
<1>8. ASSUME NEW c \in Conns, NEW x \in Runs, ReapNext(c, x)
      PROVE  \A d \in Conns : registering[d] = "list" \/ r \in zombies[d]
                               => registering'[d] = "list" \/ r \in zombies'[d]
  <2>1. x # r
    BY <1>0, <1>8 DEF ReapNext
  <2> QED BY <1>0, <1>8, <2>1 DEF ReapNext
<1> QED BY <1>r, <1>l, <1>2, <1>3, <1>5, <1>6, <1>7, <1>8, ConnTouched DEF ConnActions, ConnPart

-----------------------------------------------------------------------------
(* What the Host owed when it was bound, while the connection lasts: what  *)
(* is gone stays gone.                                                     *)
Linked == bound = epoch /\ bound = socket /\ bound # None

DebtInv ==
    /\ \A r \in owed.runs : row[r] = "ended" /\ acceptedBy[r] # None
    /\ \A w \in owed.workers : w \in workers \/ Fenced(w)
    /\ owed.spaces \subseteq deleted
    /\ owed.version # 0 => ~user.active /\ owed.version = user.version
    /\ \A p \in owed.cleanups : Stuck(p)

(* What is still owed only gets less.                                      *)
Shrinks ==
    /\ owed'.runs \cap held' \subseteq owed.runs \cap held
    /\ owed'.workers \cap workers' \subseteq owed.workers \cap workers
    /\ owed'.cleanups \cap pending' \subseteq owed.cleanups \cap pending
    /\ owed'.spaces = owed.spaces /\ owed'.version \in {owed.version, 0}

Lasts == Linked /\ epoch' = epoch /\ epoch \in Conns /\ socket' # None
Bound == \E c \in Conns : Bind(c)

LEMMA LinkLasts ==
  ASSUME Types, ConnInv, [Next]_vars, ~Bound, Linked'
  PROVE  Lasts /\ ~Break /\ ~HostCrash /\ ~ServerCrash
<1>0. bound' # None /\ bound' = epoch' /\ bound' = socket'
  BY DEF Linked
<1>1. ~Break /\ ~HostCrash /\ ~ServerCrash
  BY <1>0 DEF Break, HostCrash, ServerCrash
<1>2. \A c \in Conns : ~Dial(c)
  <2> SUFFICES ASSUME NEW c \in Conns, Dial(c) PROVE FALSE
    OBVIOUS
  <2>1. bound' = bound /\ socket' = c
    BY DEF Dial
  <2>2. madeBy[c] = None
    BY DEF Dial, Conns
  <2> QED BY <1>0, <2>1, <2>2 DEF ConnInv
<1>3. bound' = bound /\ epoch' = epoch /\ socket' = socket
  <2>1. ASSUME NEW c \in Conns,
               Register(c) \/ ReapList(c) \/ ReapFails(c) \/ RegisterTimeout(c) \/ ServerClose(c)
               \/ Reconciled(c) \/ AttemptFailed(c) \/ \E r \in Runs : ReapNext(c, r)
        PROVE  bound' = bound /\ epoch' = epoch /\ socket' = socket
    BY <1>0, <2>1 DEF Register, ReapList, ReapFails, RegisterTimeout, ServerClose, Reconciled, AttemptFailed,
       ReapNext, netVars
  <2>2. CASE SubmitRun \/ ReleaseResources
    BY <1>0, <2>2 DEF SubmitRun, ReleaseResources, AnswerLost, HostFrame, connVars
  <2>3. CASE UNCHANGED ConnPart
    BY <2>3 DEF ConnPart
  <2> QED BY <1>1, <1>2, <2>1, <2>2, <2>3, ConnTouched DEF ConnActions, Bound
<1>4. epoch \in Conns
  BY <1>0, <1>3 DEF Types, ConnTypes
<1> QED BY <1>0, <1>1, <1>3, <1>4 DEF Lasts, Linked

LEMMA OwedMove ==
  ASSUME [Next]_vars, ~Bound, ~Break, ~HostCrash, ~ServerCrash
  PROVE  owed' = owed \/ Enable
BY HostTouched DEF HostActions, HostPart, Bound, ReapFails, RpcTimeout, ReleaseRun, SubmitRun, ReleaseResources,
   HostFrame, history

LEMMA UserMove ==
  ASSUME [Next]_vars PROVE user' = user \/ Disable \/ Enable
BY DbTouched DEF DbActions, DbPart, Launch, Submit, EndRun, DeleteSpace, AskRelease, Register, ReapNext, HostCrash,
   ServerCrash, SubmitRun, HostFrame, dbVars

LEMMA DebtStep ==
  ASSUME Types, Waits, ConnInv, RunInv, DebtInv, [Next]_vars, ~Bound, Linked'
  PROVE  DebtInv' /\ Shrinks
<1>1. DbMoves /\ HostMoves /\ (owed' = owed \/ Enable)
  BY LinkLasts, DbMove, HostMove, OwedMove
<1>2. owed \in Debts /\ revoked \in Nat /\ revoked' \in Nat
  BY HostStep, ReconciliationAssumption DEF Types, HostTypes
<1>3. /\ owed.runs \subseteq Runs /\ owed.cleanups \subseteq Cleanups
      /\ \A w \in owed.workers : w.version \in Nat
  BY <1>2, ReconciliationAssumption DEF Debts, Workers
<1>4. /\ owed'.runs = owed.runs /\ owed'.workers = owed.workers /\ owed'.spaces = owed.spaces
      /\ owed'.cleanups = owed.cleanups /\ owed'.version \in {owed.version, 0}
      /\ Enable => owed'.version = 0
  <2>1. CASE Enable
    <3>1. owed' = [owed EXCEPT !.version = 0]
      BY <2>1 DEF Enable
    <3>2. DOMAIN owed = {"runs", "workers", "spaces", "version", "cleanups"}
      BY <1>2 DEF Debts
    <3> QED BY <3>1, <3>2
  <2>2. CASE owed' = owed /\ ~Enable
    BY <2>2
  <2> QED BY <1>1, <2>1, <2>2
<1>5. \A r \in owed.runs : row'[r] = "ended" /\ acceptedBy'[r] # None
  BY <1>1, <1>3 DEF DebtInv, DbMoves, HostMoves
<1>6. \A w \in owed.workers : w \in workers' \/ Fenced(w)'
  <2> SUFFICES ASSUME NEW w \in owed.workers, w \notin workers' PROVE Fenced(w)'
    OBVIOUS
  <2>1. CASE w \in workers
    BY <1>1, <2>1 DEF HostMoves
  <2>2. CASE Fenced(w)
    BY <1>1, <1>2, <1>3, <2>2 DEF Fenced, HostMoves
  <2> QED BY <2>1, <2>2 DEF DebtInv
<1>7. owed.spaces \subseteq deleted'
  BY <1>1 DEF DebtInv, DbMoves
<1>8. owed'.version # 0 => ~user'.active /\ owed'.version = user'.version
  <2>1. CASE user' = user
    BY <1>4, <2>1 DEF DebtInv
  <2>2. CASE Disable
    BY <1>4, <2>2 DEF DebtInv, Disable
  <2> QED BY <1>4, <2>1, <2>2, UserMove
<1>9. \A p \in owed.cleanups : Stuck(p)'
  BY <1>1, <1>2, <1>3, StuckStays DEF DebtInv
<1>10. DebtInv'
  BY <1>4, <1>5, <1>6, <1>7, <1>8, <1>9 DEF DebtInv
<1>11. /\ owed.runs \cap held' \subseteq held
       /\ owed.workers \cap workers' \subseteq workers
       /\ owed.cleanups \cap pending' \subseteq pending
  BY <1>1 DEF DebtInv, HostMoves, Stuck
<1> QED BY <1>4, <1>10, <1>11 DEF Shrinks

(* At a new connection it is what the Host has.                            *)
LEMMA DebtBegins ==
  ASSUME Types, RunInv, PendingInv, Bound PROVE DebtInv'
<1>1. /\ owed' = Owed /\ UNCHANGED <<row, acceptedBy, workers, deleted, user, tomb, revoked>>
  BY DEF Bound, Bind, dbVars, hostVars
<1>2. /\ Owed.runs = {r \in held : row[r] = "ended"} /\ Owed.workers = workers /\ Owed.spaces = deleted
      /\ Owed.version = (IF user.active THEN 0 ELSE user.version) /\ Owed.cleanups = pending
  BY DEF Owed
<1>3. \A p \in pending : Stuck(p)'
  BY <1>1 DEF PendingInv, Stuck, FencedBy, Covers
<1>4. \A r \in owed'.runs : row'[r] = "ended" /\ acceptedBy'[r] # None
  BY <1>1, <1>2 DEF RunInv
<1>5. owed'.version # 0 => ~user'.active /\ owed'.version = user'.version
  BY <1>1, <1>2
<1> QED BY <1>1, <1>2, <1>3, <1>4, <1>5 DEF DebtInv

-----------------------------------------------------------------------------
(* How the attempt of the bound connection, and the requests that count    *)
(* for it, move.                                                           *)
CancelOf(r) == Request("cancel", epoch, r, NoTarget)
ReleaseOf(t) == Request("releaseResources", epoch, NoRun, t)
MineKept == \A m \in Under : m.from = epoch => m \in Under'
NoneMine == \A m \in Under : m.from # epoch

Own == attempt[epoch]
Drained == Own.todo = {} /\ ~Own.failed /\ NoneMine

Stays == Own' = Own /\ MineKept
Rests == Own'.at \in {"none", "runs", "retry"}
Fails == /\ Own'.at = Own.at /\ Own'.claims = Own.claims /\ Own'.failed = TRUE
         /\ Own.at = "rows" => Own'.todo = Own.todo
Cancels == \E r \in Runs :
    /\ Own.at = "cancel" /\ Own'.at = "cancel" /\ Own'.todo = Own.todo \ {r} /\ Own'.failed = Own.failed
    /\ NoneMine /\ CancelOf(r) \in Under'
Releases == \E t \in Targets :
    /\ Own.at \in {"spaces", "users"} /\ Own'.at = Own.at /\ Own'.todo = Own.todo \ {t}
    /\ Own'.claims = Own.claims /\ Own'.failed = Own.failed
    /\ NoneMine /\ ReleaseOf(t) \in Under'
Claiming == Own.at = "cancel" /\ Own'.at = "claims" /\ Drained
Lists == Own'.at = "rows" /\ Own'.todo = held /\ held' = held
Sorts == /\ Own.at = "rows" /\ Own'.at = "cancel"
         /\ Own'.todo = {r \in Own.todo : row[r] # "active"}
Claimed == /\ Own.at = "claims" /\ Own'.at = "claimed" /\ Own'.claims = Claims
           /\ UNCHANGED <<held, workers, pending>>
ToSpaces == /\ Own.at = "claimed" /\ Own'.at = "spaces"
            /\ Own'.claims = Own.claims /\ Own'.todo = SpacesToRelease(Own.claims)
ToUsers == /\ Own.at = "spaces" /\ Own'.at = "users"
           /\ Own'.todo = UsersToRelease(Own.claims) /\ Drained
Answers == Own'.at = Own.at /\ Own'.todo = Own.todo /\ Own'.claims = Own.claims /\ Own'.failed = Own.failed
Cancelled == /\ Own.at = "cancel" /\ Answers
             /\ \E r \in Runs : /\ Free(r) \in Under'
                                /\ \A m \in Under : m.from = epoch => m \in Under' \/ m.run = r
Released == /\ Own.at \in {"spaces", "users"} /\ Answers
            /\ \E t \in Targets :
                 /\ \A w \in workers' : ~Covers(t, w.space, w.version)
                 /\ \A p \in pending \cap pending' : p.target # t
                 /\ \A m \in Under : m.from = epoch => m \in Under' \/ m.target = t

OwnMoves == \/ Stays \/ Rests \/ Fails \/ Cancels \/ Releases \/ Claiming \/ Lists \/ Sorts \/ Claimed
            \/ ToSpaces \/ ToUsers \/ Cancelled \/ Released

(* The release of a run is under way until the Host has it.                *)
FreesStay == \A r \in held' : Free(r) \in Under => Free(r) \in Under'

LEMMA FreesStayStep ==
  ASSUME Types, Waits, Lasts, ~Bound, ~Break, ~HostCrash, ~ServerCrash, [Next]_vars
  PROVE  FreesStay
<1>0. RequestTypes /\ wire \in Seq(Requests)
  BY DEF Types, RequestTypes
<1>k. \A r : Free(r).from = None /\ Free(r).kind = "releaseRun" /\ Free(r).run = r
  BY RequestKinds DEF Free
<1>1. ASSUME Under \subseteq Under' PROVE FreesStay
  BY <1>1 DEF FreesStay
<1>2. CASE wire' = wire
  BY <1>1, <1>2 DEF Under
<1>3. ASSUME NEW m \in Requests, Wrote(m) PROVE FreesStay
  BY <1>0, <1>1, <1>3, WroteUnder
<1>4. CASE WriteActions
  <2>1. \E m : Written(m)
    BY <1>4, WriteFacts DEF WriteActions
  <2> QED BY <1>3, <2>1 DEF Written
<1>5. CASE AskActions
  <2>1. \E c \in Conns : \E at, todo, m : Asks(c, at, todo, m)
    BY <1>0, <1>5, AskRunsFacts, AskClaimsFacts, CancelNextFacts, ReleaseNextFacts DEF AskActions
  <2> QED BY <1>3, <2>1 DEF Asks
<1>6. CASE TurnActions
  <2>1. wire' = wire
    BY <1>6 DEF TurnActions, ReadRows, ReadSpaces, ReadUsers, Reconciled, AttemptStale, AttemptFailed, Retry, netVars
  <2> QED BY <1>2, <2>1
<1>7. ASSUME NEW c \in Conns, RpcTimeout(c) PROVE FreesStay
  <2>1. \A y \in Under : y.from # c => y \in Under'
    BY <1>0, <1>7, TimeoutFacts DEF TimesOut
  <2> QED BY <1>k, <2>1 DEF FreesStay, Conns, None
<1>8. ASSUME NEW c \in Conns, ServerClose(c) PROVE FreesStay
  BY <1>2, <1>8 DEF ServerClose, netVars
<1>9. CASE Handle
  <2>1. Taken
    BY <1>9, HandleTakes
  <2>2. \A x \in Under : x # Head(wire) => x \in Under'
    BY <2>1, TakenUnder DEF Lasts
  <2>3. ASSUME NEW r \in held', Free(r) = Head(wire) PROVE FALSE
    <3>1. ReleaseRun
      BY <1>9, <1>k, <2>3 DEF Handle, ListRunIds, ListClaims, Cancel, SubmitRun, ReleaseResources, Takes
    <3>2. held' = held \ {r}
      BY <1>k, <2>3, <3>1 DEF ReleaseRun
    <3> QED BY <3>2
  <2> QED BY <2>2, <2>3 DEF FreesStay
<1>10. ~LossActions
  BY DEF LossActions, Bound
<1> QED BY <1>2, <1>4, <1>5, <1>6, <1>7, <1>8, <1>9, <1>10, RequestsTouched DEF RequestActions

(* The steps of other attempts.                                            *)
LEMMA OthersStay ==
  ASSUME Lasts, NEW c, c # epoch, NEW b, Becomes(c, b), MineKept PROVE Stays
BY DEF Lasts, Becomes, Stays, Own

Tried(c, at, todo, m) ==
    \E b \in Attempts : /\ Becomes(c, b) /\ b.at = at /\ b.todo = todo /\ b.claims = attempt[c].claims
                        /\ \/ m \in Under' /\ b.failed = attempt[c].failed
                           \/ b.failed = TRUE

LEMMA OwnAsks ==
  ASSUME Types, Waits, Lasts, AskActions PROVE OwnMoves
<1>0. RequestTypes
  BY DEF Types
<1>1. ASSUME NEW c \in Conns, NEW at, NEW todo, NEW m, Asks(c, at, todo, m)
      PROVE  MineKept /\ Tried(c, at, todo, m) /\ (c = epoch => NoneMine)
  <2>1. Under \subseteq Under'
    BY <1>0, <1>1, WroteUnder DEF Asks
  <2>2. wire' = Sent(m) => m \in Under'
    <3> SUFFICES ASSUME wire' = Sent(m) PROVE m \in Under'
      OBVIOUS
    <3>1. wire' = Append(wire, m) /\ wire \in Seq(Requests) /\ m \in Requests
      BY <1>0, <1>1 DEF Lasts, Linked, Sent, Asks, RequestTypes
    <3> QED BY <3>1, AppendUnder DEF Under
  <2>3. c = epoch => NoneMine
    BY <1>1, Silent DEF Asks, NoneMine
  <2> QED BY <1>1, <2>1, <2>2, <2>3 DEF Asks, MineKept, Tried
<1>2. ASSUME NEW c \in Conns, c # epoch, NEW at, NEW todo, NEW m, Asks(c, at, todo, m) PROVE Stays
  BY <1>1, <1>2, OthersStay DEF Tried
<1>3. ASSUME NEW at, NEW todo, NEW m, Asks(epoch, at, todo, m)
      PROVE  /\ Own'.at = at /\ Own'.todo = todo /\ Own'.claims = Own.claims
             /\ \/ m \in Under' /\ Own'.failed = Own.failed
                \/ Own'.failed = TRUE
             /\ NoneMine
  <2>1. epoch \in Conns
    BY DEF Lasts
  <2>2. PICK b \in Attempts :
          /\ Becomes(epoch, b) /\ b.at = at /\ b.todo = todo /\ b.claims = attempt[epoch].claims
          /\ \/ m \in Under' /\ b.failed = attempt[epoch].failed
             \/ b.failed = TRUE
    <3>1. Tried(epoch, at, todo, m)
      BY <1>1, <1>3, <2>1
    <3> QED BY <3>1 DEF Tried
  <2>3. Own' = b
    BY <2>2 DEF Lasts, Becomes, Own
  <2>4. NoneMine
    BY <1>1, <1>3, <2>1
  <2> QED BY <2>2, <2>3, <2>4 DEF Own
<1>4. ASSUME NEW c \in Conns, AskRuns(c) PROVE OwnMoves
  <2>1. Asks(c, "runs", {}, Request("listRunIds", c, NoRun, NoTarget))
    BY <1>0, <1>4, AskRunsFacts
  <2> QED BY <1>2, <1>3, <2>1 DEF OwnMoves, Rests
<1>5. ASSUME NEW c \in Conns, AskClaims(c) PROVE OwnMoves
  <2>1. /\ attempt[c].at = "cancel" /\ ~attempt[c].failed /\ attempt[c].todo = {}
        /\ Asks(c, "claims", {}, Request("listClaims", c, NoRun, NoTarget))
    BY <1>0, <1>5, AskClaimsFacts
  <2> QED BY <1>2, <1>3, <2>1 DEF OwnMoves, Claiming, Drained, Own
<1>6. ASSUME NEW c \in Conns, NEW r \in Runs, CancelNext(c, r) PROVE OwnMoves
  <2>1. /\ attempt[c].at = "cancel"
        /\ Asks(c, "cancel", attempt[c].todo \ {r}, Request("cancel", c, r, NoTarget))
    BY <1>0, <1>6, CancelNextFacts
  <2>2. CASE c = epoch
    <3>1. /\ Own.at = "cancel" /\ Own'.at = "cancel" /\ Own'.todo = Own.todo \ {r} /\ Own'.claims = Own.claims
          /\ \/ CancelOf(r) \in Under' /\ Own'.failed = Own.failed
             \/ Own'.failed = TRUE
          /\ NoneMine
      BY <1>3, <2>1, <2>2 DEF Own, CancelOf
    <3> QED BY <3>1 DEF OwnMoves, Cancels, Fails
  <2> QED BY <1>2, <2>1, <2>2 DEF OwnMoves
<1>7. ASSUME NEW c \in Conns, NEW t \in Targets, ReleaseNext(c, t) PROVE OwnMoves
  <2>1. /\ attempt[c].at \in {"spaces", "users"}
        /\ Asks(c, attempt[c].at, attempt[c].todo \ {t}, Request("releaseResources", c, NoRun, t))
    BY <1>0, <1>7, ReleaseNextFacts
  <2>2. CASE c = epoch
    <3>1. /\ Own.at \in {"spaces", "users"} /\ Own'.at = Own.at /\ Own'.todo = Own.todo \ {t}
          /\ Own'.claims = Own.claims
          /\ \/ ReleaseOf(t) \in Under' /\ Own'.failed = Own.failed
             \/ Own'.failed = TRUE
          /\ NoneMine
      BY <1>3, <2>1, <2>2 DEF Own, ReleaseOf
    <3> QED BY <3>1 DEF OwnMoves, Releases, Fails
  <2> QED BY <1>2, <2>1, <2>2 DEF OwnMoves
<1> QED BY <1>4, <1>5, <1>6, <1>7 DEF AskActions

LEMMA OwnTurns ==
  ASSUME Types, Waits, Lasts, TurnActions PROVE OwnMoves
<1>0. RequestTypes
  BY DEF Types
<1>1. wire' = wire => MineKept
  BY DEF MineKept, Under
<1>2. ASSUME NEW c \in Conns, c # epoch, NEW b, Becomes(c, b), wire' = wire PROVE OwnMoves
  BY <1>1, <1>2, OthersStay DEF OwnMoves
<1>3. ASSUME NEW b, Becomes(epoch, b) PROVE Own' = b
  BY <1>3 DEF Lasts, Becomes, Own
<1>4. ASSUME NEW c \in Conns, NEW b, Turns(c, b), b.at \in {"none", "runs", "retry"} PROVE OwnMoves
  BY <1>2, <1>3, <1>4 DEF Turns, OwnMoves, Rests
<1>5. ASSUME NEW c \in Conns, Reconciled(c) \/ AttemptStale(c) \/ AttemptFailed(c) \/ Retry(c)
      PROVE  OwnMoves
  BY <1>0, <1>4, <1>5, TurnFacts, AttemptStates
<1>6. ASSUME NEW c \in Conns, NEW at, NEW todo, NEW claims, Reads(c, at, todo, claims)
      PROVE  /\ c # epoch => OwnMoves
             /\ c = epoch => Own'.at = at /\ Own'.todo = todo /\ Own'.claims = claims
  BY <1>2, <1>3, <1>6 DEF Reads
<1>7. ASSUME NEW c \in Conns, ReadRows(c) PROVE OwnMoves
  <2>1. /\ attempt[c].at = "rows"
        /\ Reads(c, "cancel", {r \in attempt[c].todo : row[r] # "active"}, attempt[c].claims)
    BY <1>7, ReadFacts
  <2> QED BY <1>6, <2>1 DEF OwnMoves, Sorts, Own
<1>8. ASSUME NEW c \in Conns, ReadSpaces(c) PROVE OwnMoves
  <2>1. /\ attempt[c].at = "claimed"
        /\ Reads(c, "spaces", SpacesToRelease(attempt[c].claims), attempt[c].claims)
    BY <1>8, ReadFacts
  <2> QED BY <1>6, <2>1 DEF OwnMoves, ToSpaces, Own
<1>9. ASSUME NEW c \in Conns, ReadUsers(c) PROVE OwnMoves
  <2>1. /\ attempt[c].at = "spaces" /\ ~attempt[c].waiting /\ attempt[c].todo = {} /\ ~attempt[c].failed
        /\ Reads(c, "users", UsersToRelease(attempt[c].claims), NoClaims)
    BY <1>9, ReadFacts
  <2>2. c = epoch => NoneMine
    BY <2>1, Silent DEF NoneMine
  <2> QED BY <1>6, <2>1, <2>2 DEF OwnMoves, ToUsers, Drained, Own
<1> QED BY <1>5, <1>7, <1>8, <1>9 DEF TurnActions

(* A release the Host has carried out leaves nothing that it covers.       *)
LEMMA ReleasedAll ==
  ASSUME Types, Waits, Lasts, ReleaseResources, Head(wire).from = epoch
  PROVE  OwnMoves
<1> PICK m : m = Head(wire)
  OBVIOUS
<1>0. RequestTypes /\ wire # << >> /\ m.from # None /\ m.kind = "releaseResources" /\ m.target \in Targets
  <2>1. RequestTypes /\ wire # << >> /\ m.kind = "releaseResources"
    BY DEF Types, ReleaseResources, Takes
  <2>2. m.from # None
    BY DEF Lasts, Conns, None
  <2>3. m.target \in Targets
    BY ReleaseTypes
  <2> QED BY <2>1, <2>2, <2>3
<1>1. Own.at \in {"spaces", "users"}
  BY <1>0, HeadFacts DEF Own, StagesOf
<1>2. ASSUME NEW f, Replied(m, f)
      PROVE  /\ Own'.at = Own.at /\ Own'.todo = Own.todo /\ Own'.claims = Own.claims
             /\ Own'.failed = (Own.failed \/ f)
  <2>1. PICK b \in Attempts :
          /\ Becomes(epoch, b) /\ b.at = attempt[epoch].at /\ b.todo = attempt[epoch].todo
          /\ b.claims = attempt[epoch].claims /\ b.failed = (attempt[epoch].failed \/ f)
    BY <1>0, <1>2 DEF Replied, Hears
  <2>2. Own' = b
    BY <2>1 DEF Lasts, Becomes, Own
  <2> QED BY <2>1, <2>2 DEF Own
<1>3. CASE attempt' = Answered(m, [Waiter(m) EXCEPT !.failed = TRUE])
  <2>1. Replied(m, TRUE)
    BY <1>0, <1>3, ReplyFacts
  <2> QED BY <1>1, <1>2, <2>1 DEF OwnMoves, Fails
<1>4. ASSUME /\ attempt' = Answered(m, Waiter(m)) /\ wire' = Tail(wire)
             /\ pending' = pending \ {p \in pending : SameTarget(p, m.target)}
             /\ workers' = workers \ {w \in workers : Covers(m.target, w.space, w.version)}
      PROVE  OwnMoves
  <2>1. Replied(m, FALSE)
    BY <1>0, <1>4, ReplyFacts
  <2>2. Answers
    <3>1. Own.failed \in BOOLEAN
      BY DEF Own, Lasts, Types, RequestTypes, Attempts
    <3>2. Own'.failed = (Own.failed \/ FALSE)
      BY <1>2, <2>1
    <3>3. Own'.failed = Own.failed
      BY <3>1, <3>2
    <3> QED BY <1>2, <2>1, <3>3 DEF Answers
  <2>3. \A w \in workers' : ~Covers(m.target, w.space, w.version)
    BY <1>4
  <2>4. \A p \in pending \cap pending' : p.target # m.target
    <3>1. m.target.version <= m.target.version
      <4>1. \A t \in Targets : t.version \in Nat
        BY ReconciliationAssumption DEF Targets, SpaceTarget, UserTarget
      <4> QED BY <1>0, <4>1
    <3> QED BY <1>4, <3>1 DEF SameTarget
  <2>5. \A x \in Under : x = m \/ x \in Under'
    BY <1>0, <1>4, HeadFacts DEF Under
  <2> QED BY <1>0, <1>1, <2>2, <2>3, <2>4, <2>5 DEF OwnMoves, Released
<1>5. ~AnswerLost
  BY DEF AnswerLost, Lasts
<1> QED BY <1>3, <1>4, <1>5 DEF ReleaseResources

LEMMA OwnAnswers ==
  ASSUME Types, Waits, Lasts, Handle PROVE OwnMoves
<1> PICK m : m = Head(wire)
  OBVIOUS
<1>0. RequestTypes /\ wire # << >> /\ Taken
  BY HandleTakes DEF Types, Taken
<1>1. \A x \in Under : x = m \/ x \in Under'
  BY <1>0, TakenUnder DEF Lasts
<1>2. CASE m.from # epoch
  <2>1. MineKept
    BY <1>1, <1>2 DEF MineKept
  <2>2. CASE attempt' = attempt
    BY <2>1, <2>2 DEF OwnMoves, Stays, Own, Lasts
  <2>3. CASE \E at, todo, claims, failed : Hears(m, at, todo, claims, failed)
    BY <1>2, <2>1, <2>2, <2>3, OthersStay DEF Hears, OwnMoves
  <2> QED BY <2>2, <2>3, HandleHears
<1>3. CASE m.from = epoch
  <2>0. epoch # None /\ epoch \in Conns
    BY DEF Lasts, Conns, None
  <2>1. ASSUME NEW at, NEW todo, NEW claims, NEW failed, Hears(m, at, todo, claims, failed)
        PROVE  Own'.at = at /\ Own'.todo = todo /\ Own'.claims = claims /\ Own'.failed = failed
    <3>1. PICK b \in Attempts : /\ Becomes(epoch, b) /\ b.at = at /\ b.todo = todo
                                /\ b.claims = claims /\ b.failed = failed
      BY <1>3, <2>0, <2>1 DEF Hears
    <3>2. Own' = b
      BY <3>1 DEF Lasts, Becomes, Own
    <3> QED BY <3>1, <3>2
  <2>2. CASE ListRunIds
    <3>1. Hears(m, "rows", held, attempt[m.from].claims, attempt[m.from].failed)
      BY <1>3, <2>0, <2>2, ListRunIdsFacts
    <3>2. held' = held
      BY <2>2 DEF ListRunIds, hostVars
    <3> QED BY <2>1, <3>1, <3>2 DEF OwnMoves, Lists
  <2>3. CASE ListClaims
    <3>1. /\ attempt[m.from].at = "claims"
          /\ Hears(m, "claimed", {}, Claims, attempt[m.from].failed)
      BY <1>3, <2>0, <2>3, ListClaimsFacts
    <3>2. UNCHANGED <<held, workers, pending>>
      BY <2>3 DEF ListClaims, hostVars
    <3> QED BY <1>3, <2>1, <3>1, <3>2 DEF OwnMoves, Claimed, Own
  <2>4. CASE Cancel
    <3>1. /\ m.kind = "cancel" /\ wire' = Append(Tail(wire), Free(m.run))
          /\ Replied(m, FALSE)
      BY <1>0, <1>3, <2>0, <2>4, ReplyFacts DEF Cancel, Takes
    <3>2. m \in Requests /\ m.run \in Runs /\ Tail(wire) \in Seq(Requests) /\ attempt[epoch].at = "cancel"
      BY <1>0, <1>3, <2>0, <3>1, HeadFacts, HeadRun DEF StagesOf
    <3>3. Free(m.run) \in Under'
      <4>1. PICK f \in Requests : f = Free(m.run)
        BY <3>2, RequestKinds
      <4>2. PICK q \in Seq(Requests) : wire' = Append(q, f)
        BY <3>1, <3>2, <4>1
      <4>3. f \in Msgs(Append(q, f))
        BY <4>1, <4>2, AppendUnder
      <4> QED BY <4>1, <4>2, <4>3 DEF Under
    <3>4. Hears(m, attempt[m.from].at, attempt[m.from].todo, attempt[m.from].claims,
                attempt[m.from].failed \/ FALSE)
      BY <1>3, <2>0, <3>1 DEF Replied
    <3>5. Answers
      <4>1. Own.failed \in BOOLEAN
        BY DEF Own, Lasts, Types, RequestTypes, Attempts
      <4>2. Own'.failed = (Own.failed \/ FALSE)
        BY <1>3, <2>1, <3>4 DEF Own
      <4>3. Own'.failed = Own.failed
        BY <4>1, <4>2
      <4> QED BY <1>3, <2>1, <3>4, <4>3 DEF Answers, Own
    <3>6. Own.at = "cancel"
      BY <3>2 DEF Own
    <3> QED BY <1>1, <3>2, <3>3, <3>5, <3>6 DEF OwnMoves, Cancelled
  <2>5. ASSUME ReleaseRun \/ SubmitRun PROVE FALSE
    <3>1. m.kind \in {"releaseRun", "submitRun"} /\ m \in Requests
      BY <1>0, <2>5, HeadFacts DEF ReleaseRun, SubmitRun, Takes
    <3> QED BY <1>3, <2>0, <3>1 DEF Requests
  <2> QED BY <1>3, <2>2, <2>3, <2>4, <2>5, ReleasedAll DEF Handle
<1> QED BY <1>2, <1>3

LEMMA OwnMovesStep ==
  ASSUME Types, Waits, Lasts, Linked', ~Bound, ~Break, ~HostCrash, ~ServerCrash, [Next]_vars
  PROVE  OwnMoves
<1>0. RequestTypes /\ epoch \in Conns
  BY DEF Types, Lasts
<1>1. CASE UNCHANGED <<attempt, wire>>
  BY <1>1 DEF OwnMoves, Stays, Own, MineKept, Under, Lasts
<1>2. CASE WriteActions
  <2>1. PICK m : Written(m)
    BY <1>2, WriteFacts DEF WriteActions
  <2>2. Under \subseteq Under' /\ attempt' = attempt
    BY <1>0, <2>1, WroteUnder DEF Written
  <2> QED BY <2>2 DEF OwnMoves, Stays, Own, MineKept, Lasts
<1>3. ASSUME NEW c \in Conns, RpcTimeout(c) PROVE OwnMoves
  <2>1. attempt[c].waiting /\ Becomes(c, Rejected(attempt[c])) /\ TimesOut(c)
    BY <1>0, <1>3, TimeoutFacts
  <2>2. CASE c # epoch
    <3>1. MineKept
      BY <2>1, <2>2 DEF TimesOut, MineKept
    <3> QED BY <2>1, <2>2, <3>1, OthersStay DEF OwnMoves
  <2>3. CASE c = epoch
    <3>1. Own' = Rejected(attempt[epoch])
      BY <2>1, <2>3 DEF Lasts, Becomes, Own
    <3>2. attempt[epoch] \in Attempts
      BY <1>0 DEF RequestTypes
    <3>3. /\ Own'.at = Own.at /\ Own'.todo = Own.todo /\ Own'.claims = Own.claims
          /\ Own'.failed = (Own.failed \/ attempt[epoch].waiting)
      BY <3>1, <3>2, RejectedFacts DEF Own
    <3>4. Own'.failed = TRUE
      BY <2>1, <2>3, <3>3
    <3> QED BY <3>3, <3>4 DEF OwnMoves, Fails
  <2> QED BY <2>2, <2>3
<1>4. ASSUME NEW c \in Conns, ServerClose(c) PROVE OwnMoves
  <2>1. bound # c
    <3> SUFFICES ASSUME bound = c PROVE FALSE
      OBVIOUS
    <3>1. bound' = None
      BY <1>4 DEF ServerClose
    <3> QED BY <3>1 DEF Linked
  <2> QED BY <1>1, <1>4, <2>1 DEF ServerClose, netVars
<1>5. ~LossActions
  BY DEF LossActions, Bound
<1> QED BY <1>1, <1>2, <1>3, <1>4, <1>5, OwnAsks, OwnTurns, OwnAnswers, RequestsTouched DEF RequestActions

-----------------------------------------------------------------------------
(* The way of what is owed, from stage to stage.                           *)

(* The release of a resource has failed, is to be asked or is asked.       *)
AskedRelease(t) == Own.failed = TRUE \/ t \in Own.todo \/ ReleaseOf(t) \in Under

(* The session of a run that has ended.                                    *)
RunWay(r) ==
    /\ Own.at = "rows" => r \in Own.todo
    /\ Own.at = "cancel" => \/ Own.failed = TRUE \/ r \in Own.todo
                            \/ CancelOf(r) \in Under \/ Free(r) \in Under
    /\ Own.at \in {"claims", "claimed", "spaces", "users"} => Free(r) \in Under

(* A Worker of a deleted workspace.                                        *)
SpaceWay(w) ==
    /\ Own.at = "claimed" => w.space \in Own.claims.spaces
    /\ Own.at = "spaces" => AskedRelease(SpaceTarget(w.space))
    /\ Own.at # "users"

(* A Worker of the disabled user.                                          *)
UserWay(v) ==
    /\ Own.at \in {"claimed", "spaces"} => Own.claims.user
    /\ Own.at = "users" => AskedRelease(UserTarget(v))

(* An instance that was not cleaned up.                                    *)
CleanupWay(t) ==
    /\ Own.at = "claimed" => t \in Own.claims.pending
    /\ Own.at = "spaces" => IF t.kind = "workspace" THEN AskedRelease(t) ELSE t \in Own.claims.pending
    /\ Own.at = "users" => t.kind = "user" /\ AskedRelease(t)

Ways ==
    /\ \A r \in owed.runs \cap held : RunWay(r)
    /\ \A w \in owed.workers \cap workers : /\ w.space \in owed.spaces => SpaceWay(w)
                                            /\ w.version <= owed.version => UserWay(owed.version)
    /\ \A p \in owed.cleanups \cap pending : CleanupWay(p.target)

(* Nothing is left but releases that come before any submission.           *)
Gone ==
    /\ \A r \in owed.runs \cap held : Free(r) \in Under
    /\ \A w \in owed.workers \cap workers : w.space \notin owed.spaces /\ ~(w.version <= owed.version)
    /\ owed.cleanups \cap pending = {}

LinkInv == Linked => DebtInv /\ Ways /\ (admission = "ready" => Gone)

LEMMA MineFacts ==
  ASSUME Lasts
  PROVE  /\ \A r : /\ CancelOf(r).from = epoch /\ CancelOf(r).run = r /\ CancelOf(r)' = CancelOf(r)
                   /\ CancelOf(r).target = NoTarget
         /\ \A t : /\ ReleaseOf(t).from = epoch /\ ReleaseOf(t).target = t /\ ReleaseOf(t)' = ReleaseOf(t)
                   /\ ReleaseOf(t).run = NoRun
         /\ \A r : Free(r)' = Free(r)
BY RequestKinds DEF CancelOf, ReleaseOf, Lasts, Free, Request

LEMMA RunWayStep ==
  ASSUME Types, Lasts, DebtInv, OwnMoves, FreesStay, NEW r \in Runs, r \in owed.runs, r \in held', r \in held,
         RunWay(r)
  PROVE  RunWay(r)'
<1>0. row[r] = "ended"
  BY DEF DebtInv
<1>1. Free(r) \in Under => (Free(r) \in Under)'
  BY MineFacts DEF FreesStay
<1>2. CASE Stays
  BY <1>1, <1>2, MineFacts DEF Stays, MineKept, RunWay
<1>3. CASE Rests
  BY <1>3 DEF Rests, RunWay
<1>4. CASE Fails
  BY <1>1, <1>4 DEF Fails, RunWay
<1>5. CASE Cancels
  BY <1>1, <1>5, MineFacts DEF Cancels, RunWay, NoneMine
<1>6. CASE Releases
  BY <1>1, <1>6 DEF Releases, RunWay
<1>7. CASE Claiming
  <2>1. Own.failed # TRUE /\ Own.todo = {} /\ CancelOf(r) \notin Under
    BY <1>7, MineFacts DEF Claiming, Drained, NoneMine
  <2>2. Free(r) \in Under
    BY <1>7, <2>1 DEF RunWay, Claiming
  <2> QED BY <1>1, <1>7, <2>2 DEF Claiming, RunWay
<1>8. CASE Lists
  BY <1>8 DEF Lists, RunWay
<1>9. CASE Sorts
  BY <1>0, <1>9 DEF Sorts, RunWay
<1>10. CASE Claimed \/ ToSpaces \/ ToUsers
  BY <1>1, <1>10 DEF Claimed, ToSpaces, ToUsers, RunWay
<1>11. CASE Cancelled
  <2>1. PICK x \in Runs : Free(x) \in Under' /\ \A m \in Under : m.from = epoch => m \in Under' \/ m.run = x
    BY <1>11 DEF Cancelled
  <2>2. CASE x = r
    BY <1>11, <2>1, <2>2, MineFacts DEF Cancelled, Answers, RunWay
  <2>3. CASE x # r
    BY <1>1, <1>11, <2>1, <2>3, MineFacts DEF Cancelled, Answers, RunWay
  <2> QED BY <2>2, <2>3
<1>12. CASE Released
  BY <1>1, <1>12 DEF Released, Answers, RunWay
<1> QED BY <1>2, <1>3, <1>4, <1>5, <1>6, <1>7, <1>8, <1>9, <1>10, <1>11, <1>12 DEF OwnMoves

(* A release that is asked stays so until it is carried out.               *)
LEMMA AskedStays ==
  ASSUME Lasts, NEW t, AskedRelease(t)
  PROVE  /\ Stays \/ Fails \/ Releases => AskedRelease(t)'
         /\ ~Drained
<1>1. ASSUME Stays PROVE AskedRelease(t)'
  BY <1>1, MineFacts DEF Stays, MineKept, AskedRelease
<1>2. ASSUME Fails PROVE AskedRelease(t)'
  BY <1>2 DEF Fails, AskedRelease
<1>3. ASSUME Releases PROVE AskedRelease(t)'
  BY <1>3, MineFacts DEF Releases, AskedRelease, NoneMine
<1>4. ~Drained
  <2> SUFFICES ASSUME Drained PROVE FALSE
    OBVIOUS
  <2>1. Own.failed # TRUE /\ Own.todo = {} /\ ReleaseOf(t) \notin Under
    BY MineFacts DEF Drained, NoneMine
  <2> QED BY <2>1 DEF AskedRelease
<1> QED BY <1>1, <1>2, <1>3, <1>4

(* A release carried out covers nothing that is left.                      *)
LEMMA AskedCarried ==
  ASSUME Lasts, NEW t, AskedRelease(t), Released
  PROVE  \/ AskedRelease(t)'
         \/ /\ \A w \in workers' : ~Covers(t, w.space, w.version)
            /\ \A p \in pending \cap pending' : p.target # t
<1>1. PICK u \in Targets :
         /\ \A w \in workers' : ~Covers(u, w.space, w.version)
         /\ \A p \in pending \cap pending' : p.target # u
         /\ \A m \in Under : m.from = epoch => m \in Under' \/ m.target = u
  BY DEF Released
<1>2. CASE u = t
  BY <1>1, <1>2
<1>3. CASE u # t
  BY <1>1, <1>3, MineFacts DEF Released, Answers, AskedRelease
<1> QED BY <1>2, <1>3

LEMMA SpaceWayStep ==
  ASSUME Types, Lasts, DebtInv, OwnMoves, NEW w \in Workers, w \in workers, w \in workers',
         w.space \in owed.spaces, SpaceWay(w)
  PROVE  SpaceWay(w)'
<1> PICK t : t = SpaceTarget(w.space)
  OBVIOUS
<1>0. t' = t /\ t = SpaceTarget(w.space)' /\ Covers(t, w.space, w.version) /\ w.space \in deleted
  BY DEF SpaceTarget, Covers, DebtInv
<1>1. /\ Own.at = "claimed" => w.space \in Own.claims.spaces
      /\ Own.at = "spaces" => AskedRelease(t)
      /\ Own.at # "users"
  BY DEF SpaceWay
<1> SUFFICES /\ Own'.at = "claimed" => w.space \in Own'.claims.spaces
             /\ Own'.at = "spaces" => AskedRelease(t)'
             /\ Own'.at # "users"
  BY <1>0 DEF SpaceWay
<1>2. CASE Stays
  BY <1>1, <1>2, AskedStays DEF Stays
<1>3. CASE Rests
  BY <1>3 DEF Rests
<1>4. CASE Fails
  BY <1>1, <1>4, AskedStays DEF Fails
<1>5. CASE Cancels \/ Claiming \/ Lists \/ Sorts \/ Cancelled
  BY <1>5 DEF Cancels, Claiming, Lists, Sorts, Cancelled, Answers
<1>6. CASE Releases
  BY <1>1, <1>6, AskedStays DEF Releases
<1>7. CASE Claimed
  BY <1>7 DEF Claimed, Claims
<1>8. CASE ToSpaces
  <2>1. t \in Own'.todo
    BY <1>0, <1>1, <1>8 DEF ToSpaces, SpacesToRelease, Withdrawn
  <2> QED BY <1>8, <2>1 DEF ToSpaces, AskedRelease
<1>9. CASE ToUsers
  BY <1>1, <1>9, AskedStays DEF ToUsers
<1>10. CASE Released
  BY <1>0, <1>1, <1>10, AskedCarried DEF Released, Answers
<1> QED BY <1>2, <1>3, <1>4, <1>5, <1>6, <1>7, <1>8, <1>9, <1>10 DEF OwnMoves

LEMMA UserWayStep ==
  ASSUME Types, Lasts, OwnMoves, NEW v, v # 0, ~user.active, v = user.version,
         NEW w \in Workers, w \in workers, w \in workers', w.version <= v, UserWay(v)
  PROVE  UserWay(v)'
<1> PICK t : t = UserTarget(v)
  OBVIOUS
<1>0. t' = t /\ t = UserTarget(v)' /\ Covers(t, w.space, w.version)
  BY DEF UserTarget, Covers
<1>1. /\ Own.at \in {"claimed", "spaces"} => Own.claims.user
      /\ Own.at = "users" => AskedRelease(t)
  BY DEF UserWay
<1> SUFFICES /\ Own'.at \in {"claimed", "spaces"} => Own'.claims.user
             /\ Own'.at = "users" => AskedRelease(t)'
  BY <1>0 DEF UserWay
<1>2. CASE Stays
  BY <1>1, <1>2, AskedStays DEF Stays
<1>3. CASE Rests
  BY <1>3 DEF Rests
<1>4. CASE Fails
  BY <1>1, <1>4, AskedStays DEF Fails
<1>5. CASE Cancels \/ Claiming \/ Lists \/ Sorts \/ Cancelled
  BY <1>5 DEF Cancels, Claiming, Lists, Sorts, Cancelled, Answers
<1>6. CASE Releases
  BY <1>1, <1>6, AskedStays DEF Releases
<1>7. CASE Claimed
  <2>1. Claims.user = (held \cup workers # {})
    BY DEF Claims
  <2>2. Claims.user
    BY <2>1
  <2> QED BY <1>7, <2>2 DEF Claimed
<1>8. CASE ToSpaces
  BY <1>1, <1>8 DEF ToSpaces
<1>9. CASE ToUsers
  <2>1. t \in Own'.todo
    BY <1>1, <1>9 DEF ToUsers, UsersToRelease
  <2> QED BY <1>9, <2>1 DEF ToUsers, AskedRelease
<1>10. CASE Released
  BY <1>0, <1>1, <1>10, AskedCarried DEF Released, Answers
<1> QED BY <1>2, <1>3, <1>4, <1>5, <1>6, <1>7, <1>8, <1>9, <1>10 DEF OwnMoves

LEMMA CleanupWayStep ==
  ASSUME Types, Lasts, OwnMoves, NEW p \in Cleanups, p \in pending, p \in pending', CleanupWay(p.target)
  PROVE  CleanupWay(p.target)'
<1> PICK t : t = p.target
  OBVIOUS
<1>0. t \in Targets /\ (t.kind = "workspace" \/ t.kind = "user")
  BY TargetKinds DEF Cleanups
<1>1. /\ Own.at = "claimed" => t \in Own.claims.pending
      /\ Own.at = "spaces" => IF t.kind = "workspace" THEN AskedRelease(t) ELSE t \in Own.claims.pending
      /\ Own.at = "users" => t.kind = "user" /\ AskedRelease(t)
  BY DEF CleanupWay
<1> SUFFICES /\ Own'.at = "claimed" => t \in Own'.claims.pending
             /\ Own'.at = "spaces" => IF t.kind = "workspace" THEN AskedRelease(t)' ELSE t \in Own'.claims.pending
             /\ Own'.at = "users" => t.kind = "user" /\ AskedRelease(t)'
  BY DEF CleanupWay
<1>2. CASE Stays
  BY <1>1, <1>2, AskedStays DEF Stays
<1>3. CASE Rests
  BY <1>3 DEF Rests
<1>4. CASE Fails
  BY <1>1, <1>4, AskedStays DEF Fails
<1>5. CASE Cancels \/ Claiming \/ Lists \/ Sorts \/ Cancelled
  BY <1>5 DEF Cancels, Claiming, Lists, Sorts, Cancelled, Answers
<1>6. CASE Releases
  BY <1>1, <1>6, AskedStays DEF Releases
<1>7. CASE Claimed
  BY <1>7 DEF Claimed, Claims
<1>8. CASE ToSpaces
  <2>1. t \in Own.claims.pending /\ Own'.claims = Own.claims /\ Own'.at = "spaces"
    BY <1>1, <1>8 DEF ToSpaces
  <2>2. t.kind = "workspace" => t \in Own'.todo
    BY <1>8, <2>1 DEF ToSpaces, SpacesToRelease
  <2> QED BY <2>1, <2>2 DEF AskedRelease
<1>9. CASE ToUsers
  <2>1. t.kind = "user" /\ t \in Own.claims.pending
    BY <1>0, <1>1, <1>9, AskedStays DEF ToUsers
  <2>2. t \in Own'.todo
    BY <1>9, <2>1 DEF ToUsers, UsersToRelease
  <2> QED BY <1>9, <2>1, <2>2 DEF ToUsers, AskedRelease
<1>10. CASE Released
  <2>1. AskedRelease(t) => AskedRelease(t)'
    BY <1>10, AskedCarried
  <2> QED BY <1>1, <1>10, <2>1 DEF Released, Answers
<1> QED BY <1>2, <1>3, <1>4, <1>5, <1>6, <1>7, <1>8, <1>9, <1>10 DEF OwnMoves

LEMMA WaysStep ==
  ASSUME Types, Types', Lasts, DebtInv, DebtInv', Shrinks, OwnMoves, FreesStay, Ways
  PROVE  Ways'
<1>0. /\ owed \in Debts /\ owed.runs \subseteq Runs /\ owed.workers \subseteq Workers
      /\ owed.cleanups \subseteq Cleanups
      /\ owed' \in Debts /\ workers' \subseteq Workers /\ held' \subseteq Runs /\ pending' \subseteq Cleanups
      /\ \A w \in Workers : w.version \in Nat \ {0}
  BY ReconciliationAssumption DEF Types, HostTypes, Debts, Workers
<1>1. ASSUME NEW r \in owed'.runs \cap held' PROVE RunWay(r)'
  <2>1. r \in Runs /\ r \in owed.runs /\ r \in held /\ r \in held'
    BY <1>0, <1>1 DEF Shrinks
  <2> QED BY <2>1, RunWayStep DEF Ways
<1>2. ASSUME NEW w \in owed'.workers \cap workers', w.space \in owed'.spaces PROVE SpaceWay(w)'
  <2>1. w \in Workers /\ w \in owed.workers /\ w \in workers /\ w \in workers' /\ w.space \in owed.spaces
    BY <1>0, <1>2 DEF Shrinks
  <2> QED BY <2>1, SpaceWayStep DEF Ways
<1>3. ASSUME NEW w \in owed'.workers \cap workers', w.version <= owed'.version PROVE UserWay(owed.version)'
  <2>1. w \in Workers /\ w \in owed.workers /\ w \in workers /\ w \in workers'
    BY <1>0, <1>3 DEF Shrinks
  <2>2. owed'.version # 0
    BY <1>0, <1>3, <2>1
  <2>3. owed'.version = owed.version
    BY <2>2 DEF Shrinks
  <2>4. ~user.active /\ owed.version = user.version
    BY <2>2, <2>3 DEF DebtInv
  <2> PICK v : v = owed.version
    OBVIOUS
  <2>5. UserWay(v)
    BY <1>3, <2>1, <2>3 DEF Ways
  <2>6. UserWay(v)'
    BY <1>3, <2>1, <2>2, <2>3, <2>4, <2>5, UserWayStep
  <2> QED BY <2>3, <2>6 DEF UserWay
<1>4. ASSUME NEW p \in owed'.cleanups \cap pending' PROVE CleanupWay(p.target)'
  <2>1. p \in Cleanups /\ p \in owed.cleanups /\ p \in pending /\ p \in pending'
    BY <1>0, <1>4 DEF Shrinks
  <2> QED BY <2>1, CleanupWayStep DEF Ways
<1> QED BY <1>1, <1>2, <1>3, <1>4 DEF Ways

(* Only the end of the attempt of this epoch opens the Host.               *)
LEMMA Opens ==
  ASSUME Types, Waits, Lasts, DebtInv, Ways, admission = "ready" => Gone, [Next]_vars, ~Bound, ~ServerCrash,
         admission' = "ready"
  PROVE  Gone
<1>1. CASE admission = "ready"
  BY <1>1
<1>2. CASE admission # "ready"
  <2>1. PICK c \in Conns : Reconciled(c)
    BY <1>2, ConnTouched DEF ConnActions, ConnPart, Dial, Register, ReapList, ReapFails, Bound, RegisterTimeout,
       ServerClose, AttemptFailed, ReapNext, Break, HostCrash, SubmitRun, ReleaseResources, HostFrame, serverVars,
       connVars
  <2>2. c = epoch
    BY <1>2, <2>1 DEF Reconciled, Marks, Current
  <2>3. Own.at = "users" /\ ~attempt[c].waiting /\ Own.todo = {} /\ ~Own.failed
    BY <2>1, <2>2, TurnFacts DEF Own, Types
  <2>4. Drained
    BY <2>2, <2>3, Silent DEF Drained, NoneMine
  <2>5. \A t : ~AskedRelease(t)
    BY <2>4, AskedStays
  <2> QED BY <2>3, <2>5 DEF Ways, Gone, RunWay, SpaceWay, UserWay, CleanupWay
<1> QED BY <1>1, <1>2

LEMMA GoneStays ==
  ASSUME Types, Types', DebtInv, Shrinks, FreesStay, Gone PROVE Gone'
<1>0. /\ owed \in Debts /\ workers' \subseteq Workers
      /\ \A w \in Workers : w.version \in Nat \ {0}
  BY ReconciliationAssumption DEF Types, HostTypes, Workers
<1>1. \A w \in owed'.workers \cap workers' : w.space \notin owed'.spaces /\ ~(w.version <= owed'.version)
  BY <1>0 DEF Shrinks, Gone
<1>2. \A r \in owed'.runs \cap held' : (Free(r) \in Under)'
  <2>1. \A r : Free(r)' = Free(r)
    BY DEF Free, Request
  <2> QED BY <2>1 DEF Shrinks, Gone, FreesStay
<1> QED BY <1>1, <1>2 DEF Shrinks, Gone

LEMMA LinkStep ==
  ASSUME Types, Waits, ConnInv, RunInv, PendingInv, LinkInv, [Next]_vars
  PROVE  LinkInv'
<1> SUFFICES ASSUME Linked' PROVE DebtInv' /\ Ways' /\ (admission' = "ready" => Gone')
  BY DEF LinkInv
<1>1. CASE Bound
  <2>1. PICK c \in Conns : Bind(c)
    BY <1>1 DEF Bound
  <2>2. epoch' = c /\ admission' = "reconciling" /\ attempt'[c] = Begun
    BY <2>1 DEF Bind
  <2>3. Own'.at = "runs"
    BY <2>2, AttemptStates DEF Own
  <2>4. Ways'
    BY <2>3 DEF Ways, RunWay, SpaceWay, UserWay, CleanupWay
  <2> QED BY <1>1, <2>2, <2>4, DebtBegins
<1>2. CASE ~Bound
  <2>1. Lasts /\ ~Break /\ ~HostCrash /\ ~ServerCrash
    BY <1>2, LinkLasts
  <2>2. DebtInv /\ Ways /\ (admission = "ready" => Gone)
    BY <2>1 DEF Lasts, LinkInv
  <2>3. DebtInv' /\ Shrinks
    BY <1>2, <2>2, DebtStep
  <2>4. OwnMoves /\ FreesStay /\ Types'
    BY <1>2, <2>1, OwnMovesStep, FreesStayStep, TypesStep
  <2>5. Ways'
    BY <2>1, <2>2, <2>3, <2>4, WaysStep
  <2>6. admission' = "ready" => Gone'
    BY <1>2, <2>1, <2>2, <2>3, <2>4, Opens, GoneStays
  <2> QED BY <2>3, <2>5, <2>6
<1> QED BY <1>1, <1>2

-----------------------------------------------------------------------------
(* The inductive invariant and what follows from it.                       *)
ReconciliationInv ==
    Types /\ Waits /\ ConnInv /\ RunInv /\ EndedInv /\ VersionInv /\ PendingInv /\ NoZombie /\ LinkInv

LEMMA InitTypes == Init => Types /\ Waits
<1> SUFFICES ASSUME Init PROVE Types /\ Waits
  OBVIOUS
<1>0. /\ MaxVersion \in Nat \ 0..1 /\ MaxMishaps \in Nat /\ SpaceOf \in [Runs -> Spaces]
  BY ReconciliationAssumption
<1>1. /\ acceptedBy \in [Runs -> {0, 1}] /\ process \in {1, 2} /\ stored = 1
      /\ user \in [version : {2}, active : BOOLEAN] /\ {0, 1, 2} \subseteq 0..MaxVersion
  BY <1>0 DEF Init, None
<1>2. user \in [version : 1..MaxVersion, active : BOOLEAN]
  <2>1. {2} \subseteq 1..MaxVersion
    BY <1>0
  <2> QED BY <1>1, <2>1
<1>3. DbTypes
  BY <1>0, <1>1, <1>2 DEF Init, DbTypes
<1>4. ConnTypes
  BY DEF Init, ConnTypes, None
<1>5. held \subseteq Runs /\ workers \subseteq Workers
  BY <1>0 DEF Init, Workers
<1>6. revoked \in 0..MaxVersion /\ pending \subseteq Cleanups
  <2>1. CASE pending = {} /\ revoked = 0
    BY <1>0, <2>1
  <2>2. CASE revoked = user.version /\ \E s \in Spaces :
                pending = {[worker |-> [space |-> s, version |-> 1], target |-> UserTarget(2)]}
    <3>1. UserTarget(2) \in Targets
      BY <1>0, TargetKinds
    <3>2. \A s \in Spaces : [space |-> s, version |-> 1] \in Workers
      BY <1>0 DEF Workers
    <3> QED BY <1>1, <2>2, <3>1, <3>2 DEF Cleanups
  <2> QED BY <2>1, <2>2 DEF Init
<1>7. owed \in Debts
  BY <1>0 DEF Init, NothingOwed, Debts
<1>8. HostTypes
  <2>1. /\ tomb = {} /\ reapLost = FALSE /\ mishaps = 0
        /\ maxSeen = (IF held \cup pending = {} THEN 0 ELSE 1)
    BY DEF Init
  <2>3. maxSeen \in 0..MaxVersion /\ mishaps \in 0..MaxMishaps
    BY <1>0, <1>1, <2>1
  <2>2. acceptedBy \in [Runs -> Nat]
    BY <1>1
  <2> QED BY <1>0, <1>1, <1>5, <1>6, <1>7, <2>1, <2>2, <2>3 DEF HostTypes
<1>9. RequestTypes /\ Waits
  BY AttemptStates, NothingUnder DEF Init, RequestTypes, Waits, Under
<1> QED BY <1>3, <1>4, <1>8, <1>9 DEF Types

LEMMA InitInv == Init => ReconciliationInv
<1> SUFFICES ASSUME Init PROVE ReconciliationInv
  OBVIOUS
<1>1. Types /\ Waits
  BY InitTypes
<1>2. ConnInv
  <2>1. /\ \A c \in Conns : madeBy[c] = 0 /\ registering[c] = "no" /\ zombies[c] = {} /\ c # None
        /\ open = {} /\ bound = None /\ stored = 1 /\ process \in {1, 2} /\ admission = "none"
    BY DEF Init, Conns, None
  <2>2. 0 <= process /\ stored <= process
    BY <2>1
  <2> QED BY <2>1, <2>2 DEF ConnInv, None
<1>u. Under = {}
  BY NothingUnder DEF Init, Under
<1>a. /\ acceptedBy \in [Runs -> {0, 1}] /\ \A r \in held : acceptedBy[r] = process
      /\ row = [r \in Runs |-> IF acceptedBy[r] = 1 THEN "active" ELSE "none"] /\ version = acceptedBy
      /\ process \in {1, 2} /\ held \subseteq Runs
  BY DEF Init, None
<1>3. RunInv
  <2>1. \A r \in held : acceptedBy[r] = 1
    BY <1>a
  <2>2. \A r \in held : WorkerOf(r) \in workers
    BY <1>a, <2>1 DEF Init, WorkerOf
  <2>3. launching = {}
    BY DEF Init
  <2> QED BY <1>a, <1>u, <2>1, <2>2, <2>3 DEF RunInv, None
<1>n. \A c \in Conns : /\ attempt[c] = NoAttempt /\ zombies[c] = {}
                       /\ NoAttempt.todo = {} /\ NoAttempt.claims.pending = {}
  BY AttemptStates DEF Init, NoClaims
<1>4. EndedInv
  BY <1>u, <1>n DEF EndedInv
<1>5. VersionInv
  <2>1. user.version = 2
    BY DEF Init
  <2>2. RunVersions
    BY <1>a, <2>1 DEF RunVersions
  <2>3. \A v \in notices : Past(UserTarget(v))
    BY <2>1 DEF Init, Past, UserTarget
  <2>4. \A p \in pending : Past(p.target)
    BY <2>1 DEF Init, Past, UserTarget
  <2> QED BY <1>u, <1>n, <2>2, <2>3, <2>4 DEF VersionInv
<1>6. PendingInv
  <2> SUFFICES ASSUME NEW p \in pending PROVE Stuck(p)
    BY DEF PendingInv
  <2>1. PICK s \in Spaces : p = [worker |-> [space |-> s, version |-> 1], target |-> UserTarget(2)]
    BY DEF Init
  <2>2. revoked = 2 /\ process = 1 /\ \A r \in Runs : acceptedBy[r] = None
    BY DEF Init
  <2>3. held = {} /\ workers = {}
    BY <1>a, <2>2 DEF Init, None
  <2> QED BY <2>1, <2>2, <2>3 DEF Stuck, FencedBy, Covers, UserTarget
<1>7. NoZombie
  BY <1>a DEF Init, NoZombie, None
<1>8. LinkInv
  BY DEF Init, LinkInv, Linked
<1> QED BY <1>1, <1>2, <1>3, <1>4, <1>5, <1>6, <1>7, <1>8 DEF ReconciliationInv

LEMMA InvStep == ReconciliationInv /\ [Next]_vars => ReconciliationInv'
BY TypesStep, ConnInvStep, RunInvStep, EndedStep, VersionStep, PendingStep, ZombieStep, LinkStep DEF ReconciliationInv

(* Every state of the reconciliation has the invariant.                    *)
THEOREM ReconciliationInvariant == Spec => []ReconciliationInv
BY InitInv, InvStep, PTL DEF Spec

(* Every variable keeps its type, and a request is only under way on the   *)
(* live bound connection.                                                  *)
THEOREM ReconciliationTyped == Spec => []TypeOK
<1>1. ReconciliationInv => TypeOK
  <2> SUFFICES ASSUME ReconciliationInv PROVE TypeOK
    OBVIOUS
  <2>1. DbTypes /\ ConnTypes /\ HostTypes /\ RequestTypes
    BY DEF ReconciliationInv, Types
  <2>2. ASSUME NEW c \in Conns
        PROVE  /\ attempt[c].at \in Stages
               /\ attempt[c].todo \subseteq IF attempt[c].at \in {"spaces", "users"} THEN Targets ELSE Runs
               /\ attempt[c].claims \in ClaimSets
    BY <2>1 DEF RequestTypes, Attempts
  <2>3. ASSUME NEW i \in DOMAIN wire
        PROVE  /\ wire[i].from \in Conns \cup {None} /\ wire[i].run \in Runs \cup {NoRun}
               /\ wire[i].target \in Targets \cup {NoTarget}
    <3>1. wire[i] \in Requests
      BY <2>1 DEF RequestTypes
    <3> QED BY <3>1 DEF Requests
  <2> QED BY <2>1, <2>2, <2>3 DEF TypeOK, DbTypes, ConnTypes, HostTypes, Stages, ClaimSets
<1> QED BY <1>1, ReconciliationInvariant, PTL

(* A Host is opened to submissions only when nothing is left of what it    *)
(* held without right when it was bound.                                   *)
THEOREM ReadyReconciled == Spec => []ReadyMeansReconciled
<1>1. ReconciliationInv => ReadyMeansReconciled
  <2> SUFFICES ASSUME ReconciliationInv, admission = "ready", bound = epoch, bound = socket
               PROVE  /\ \A r \in owed.runs \cap held : \E i \in DOMAIN wire : wire[i] = Free(r)
                      /\ \A w \in owed.workers : w.space \in owed.spaces \/ w.version <= owed.version =>
                           w \notin workers /\ \A r \in held : w # WorkerOf(r)
                      /\ owed.cleanups \cap pending = {}
    BY DEF ReadyMeansReconciled
  <2>1. bound # None
    BY DEF ReconciliationInv, ConnInv
  <2>2. Gone /\ \A r \in held : WorkerOf(r) \in workers
    BY <2>1 DEF ReconciliationInv, LinkInv, Linked, RunInv
  <2> QED BY <2>2 DEF Gone, Under, Msgs
<1> QED BY <1>1, ReconciliationInvariant, PTL

(* A run that is active although the Host process that accepted it is gone *)
(* has somebody who will fail it.                                          *)
THEOREM NoZombieIsLeft == Spec => []NoZombie
BY ReconciliationInvariant, PTL DEF ReconciliationInv

(* However late a release comes, it takes no session of a later generation.*)
THEOREM ReleaseKeepsLater == Spec => LaterGenerationIsKept
<1> DEFINE Kept == \A r \in held \ held' : \/ process' # process
                                           \/ row[r] = "ended" \/ SpaceOf[r] \in tomb'
                                           \/ version[r] < user.version
<1>1. ReconciliationInv /\ [Next]_vars => [Kept]_vars
  <2> SUFFICES ASSUME ReconciliationInv, [Next]_vars, NEW r \in held \ held', process' = process
               PROVE  row[r] = "ended" \/ SpaceOf[r] \in tomb' \/ version[r] < user.version
    OBVIOUS
  <2>0. /\ Types /\ Waits /\ RunInv /\ EndedInv /\ VersionInv /\ r \in Runs /\ row[r] # "none"
        /\ version[r] \in Nat /\ user.version \in Nat /\ process \in Nat
    BY ReconciliationAssumption DEF ReconciliationInv, RunInv, Types, HostTypes, DbTypes
  <2>1. ReleaseRun \/ ReleaseResources
    <3>1. ~HostCrash
      BY <2>0 DEF HostCrash
    <3>2. SubmitRun => held \subseteq held'
      BY DEF SubmitRun
    <3>3. (Enable \/ Break \/ ServerCrash \/ \E c \in Conns : ReapFails(c) \/ Bind(c) \/ RpcTimeout(c))
             => held' = held
      BY DEF Enable, Break, ServerCrash, ReapFails, Bind, RpcTimeout, hostVars
    <3>4. UNCHANGED HostPart => held' = held
      BY DEF HostPart
    <3> QED BY <3>1, <3>2, <3>3, <3>4, HostTouched, Zenon DEF HostActions
  <2>2. CASE ReleaseRun
    <3>1. r = Head(wire).run /\ Head(wire).kind = "releaseRun" /\ wire # << >> /\ wire \in Seq(Requests)
      BY <2>0, <2>2 DEF ReleaseRun, Takes, Types, RequestTypes
    <3>2. Head(wire) \in Under
      BY <3>1, TailUnder DEF Under
    <3> QED BY <2>0, <3>1, <3>2 DEF EndedInv
  <2>3. CASE ReleaseResources
    <3> PICK t : t = Head(wire).target
      OBVIOUS
    <3>1. t \in Targets /\ wire # << >> /\ wire \in Seq(Requests)
      BY <2>0, <2>3, ReleaseTypes DEF ReleaseResources, Takes, Types, RequestTypes
    <3>2. Covers(t, SpaceOf[r], version[r])
      BY <2>3 DEF ReleaseResources
    <3>3. CASE t.kind = "workspace"
      BY <2>3, <3>2, <3>3 DEF ReleaseResources, Covers
    <3>4. CASE t.kind = "user" /\ t.version \in Nat
      <4>1. Head(wire) \in Under
        BY <3>1, TailUnder DEF Under
      <4>2. t.version <= user.version /\ (t.version = user.version => ~user.active)
        BY <2>0, <3>4, <4>1 DEF VersionInv, Past
      <4>3. version[r] <= t.version
        BY <3>2, <3>4 DEF Covers
      <4>4. version[r] <= user.version /\ (version[r] = user.version => user.active)
        BY <2>0 DEF VersionInv, RunVersions
      <4> QED BY <2>0, <3>4, <4>2, <4>3, <4>4
    <3> QED BY <3>1, <3>3, <3>4, TargetKinds
  <2> QED BY <2>1, <2>2, <2>3
<1>2. Spec => [][Kept]_vars
  BY <1>1, ReconciliationInvariant, PTL DEF Spec
<1> QED BY <1>2 DEF LaterGenerationIsKept
=============================================================================
