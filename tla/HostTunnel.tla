----------------------------- MODULE HostTunnel -----------------------------
(***************************************************************************)
(* The tunnel between a registered Runtime Host and the server: how the    *)
(* notifications of a Host are numbered, buffered, sent over a WebSocket,  *)
(* handled in chains per run, acknowledged and sent again.                 *)
(*                                                                         *)
(* Host side: TunnelClient and TunnelUpstream (apps/runtime/src/           *)
(* registered).  Server side: HostTunnelHandler (apps/server/src/          *)
(* runtime-host/gateway).  Both are single event loops.  A connection is a *)
(* pair of FIFO channels; each end sees it close in its own time.          *)
(*                                                                         *)
(* Every connection registers at most once, so the epoch of a session and  *)
(* the connection it was opened for say the same: sessions are named by    *)
(* their connection.                                                       *)
(***************************************************************************)
EXTENDS Naturals, Sequences, FiniteSets

CONSTANTS
  Runs,        \* the runs the notifications are about
  MaxBuffered, \* MAX_BUFFERED
  MaxSends,    \* bound: notifications the Host produces
  MaxConns,    \* bound: connections the Host opens
  MaxMishaps   \* bound: what goes wrong, see mishaps

ASSUME TunnelAssumption ==
  /\ MaxBuffered \in Nat \ {0}
  /\ MaxSends \in Nat /\ MaxConns \in Nat /\ MaxMishaps \in Nat

Conns == 1..MaxConns
NoConn == 0
Seqs == 1..MaxSends
Notifications == [run : Runs, kind : {"event", "fact"}]

(* On the wire: 0 is register (up) or registered (down), any other number is
   host.upstream with that seq (up) or host.upstreamAck (down). *)
Handshake == 0

VARIABLES
  (* Host *)
  sent,        \* every notification produced so far, a seq is an index
  buffer,      \* seqs in TunnelUpstream.buffer from head on
  dropped,     \* seqs that trimBuffer gave up
  ws,          \* the connection TunnelUpstream writes to
  (* network *)
  client,      \* the Host's end of a connection
  socket,      \* the server's end
  up, down,    \* messages under way
  (* server *)
  registering, \* the handler of a register message: none yet, waiting, over
  connection,  \* HostTunnelHandler.connections of the Host
  session,     \* HostTunnelHandler.hostSessions of the Host
  ackEntries,  \* seqs from ackHead on, in the order of arrival
  processed,   \* those of them that are processed
  pendingAck,  \* pendingAckSeq while an acknowledgement is scheduled, else 0
  failed,      \* sessions that have failed
  chain,       \* runChains: what a run has still to handle, with its session
  busy,        \* runs whose chain waits for the port
  handled,     \* seqs the run core has handled successfully
  (* bound *)
  mishaps      \* connections broken by the network or by a register timer that
               \* fires early, calls that failed, crashes of the server

hostVars   == <<sent, buffer, dropped, ws>>
netVars    == <<client, socket, up, down>>
ackVars    == <<ackEntries, processed, pendingAck>>
serverVars == <<registering, connection, session, ackVars, failed, chain, busy>>
vars       == <<hostVars, netVars, serverVars, handled, mishaps>>

Init ==
  /\ sent = << >> /\ buffer = {} /\ dropped = {} /\ ws = NoConn
  /\ client = [c \in Conns |-> "none"]
  /\ socket = [c \in Conns |-> "none"]
  /\ up = [c \in Conns |-> << >>]
  /\ down = [c \in Conns |-> << >>]
  /\ registering = [c \in Conns |-> "no"]
  /\ connection = NoConn
  /\ session = NoConn
  /\ ackEntries = [c \in Conns |-> << >>]
  /\ processed = [c \in Conns |-> {}]
  /\ pendingAck = [c \in Conns |-> 0]
  /\ failed = {}
  /\ chain = [r \in Runs |-> << >>]
  /\ busy = {}
  /\ handled = {}
  /\ mishaps = 0

-----------------------------------------------------------------------------
(* Helpers *)

Mishap == mishaps < MaxMishaps /\ mishaps' = mishaps + 1

Oldest(S) == CHOOSE n \in S : \A k \in S : n <= k

(* A set of seqs as the sequence in which they were numbered. *)
InOrder(S) ==
  CHOOSE q \in [1..Cardinality(S) -> S] : \A i, j \in DOMAIN q : i < j => q[i] < q[j]

(* TunnelUpstream.trimBuffer: the oldest event goes, or the oldest fact when there
   is no event.  (Mutants: nothing is given up; the oldest goes whatever it is.) *)
KeepAll(b, s) == b
TrimOldest(b, s) == IF Cardinality(b) <= MaxBuffered THEN b ELSE b \ {Oldest(b)}
Trim(b, s) ==
  LET events == {n \in b : s[n].kind = "event"} IN
  IF Cardinality(b) <= MaxBuffered THEN b
  ELSE b \ {Oldest(IF events # {} THEN events ELSE b)}

(* Nothing arrives at a closed end, and the server writes only to an open socket.
   What a Host writes to a socket the server is closing is of no effect. *)
Write(c, q) == IF socket[c] = "open" THEN [up EXCEPT ![c] = @ \o q] ELSE up
Reply(c, m) ==
  IF socket[c] = "open" /\ client[c] = "open"
  THEN [down EXCEPT ![c] = Append(@, m)] ELSE down

(* The ends of entries that a cumulative acknowledgement may cover: those before
   which everything is processed.  (Mutant: all processed entries.) *)
AckablesAny(q, done) == {k \in 1..Len(q) : q[k] \in done}
Ackables(q, done) == {k \in 1..Len(q) : \A i \in 1..k : q[i] \in done}
Last(S) == CHOOSE n \in S : \A k \in S : n >= k

-----------------------------------------------------------------------------
(* The Host *)

(* TunnelUpstream.send: number, buffer, trim, write when a session is wired. *)
Send(m) ==
  LET n == Len(sent) + 1 IN
  /\ n <= MaxSends
  /\ sent' = Append(sent, m)
  /\ buffer' = Trim(buffer \cup {n}, sent')
  /\ dropped' = dropped \cup ((buffer \cup {n}) \ buffer')
  /\ up' = IF ws = NoConn THEN up ELSE Write(ws, <<n>>)
  /\ UNCHANGED <<ws, client, socket, down, serverVars, handled, mishaps>>

(* TunnelClient.connect: only after the previous connection has closed; register
   goes out when it is open. *)
Connect(c) ==
  /\ client[c] = "none"
  /\ \A d \in Conns : IF d < c THEN client[d] = "closed" ELSE client[d] = "none"
  /\ client' = [client EXCEPT ![c] = "open"]
  /\ socket' = [socket EXCEPT ![c] = "open"]
  /\ up' = [up EXCEPT ![c] = <<Handshake>>]
  /\ UNCHANGED <<hostVars, down, serverVars, handled, mishaps>>

(* TunnelUpstream.setSession: everything that is not acknowledged is written again.
   (Mutant: nothing is.) *)
NoReplay(b) == << >>
Replay(b) == InOrder(b)

(* TunnelClient.onMessage: registered wires the upstream, an acknowledgement frees
   the prefix it covers. *)
HostReceive(c) ==
  /\ client[c] = "open" /\ down[c] # << >>
  /\ down' = [down EXCEPT ![c] = Tail(@)]
  /\ LET m == Head(down[c]) IN
     IF m = Handshake
     THEN ws' = c /\ up' = Write(c, Replay(buffer)) /\ UNCHANGED buffer
     ELSE buffer' = buffer \ 1..m /\ UNCHANGED <<ws, up>>
  /\ UNCHANGED <<sent, dropped, client, socket, serverVars, handled, mishaps>>

(* TunnelClient.onClose: the network broke, or the server closed. *)
HostClose(c) ==
  /\ client[c] = "open"
  /\ \/ socket[c] # "open" /\ UNCHANGED mishaps
     \/ socket[c] = "open" /\ Mishap
  /\ client' = [client EXCEPT ![c] = "closed"]
  /\ ws' = NoConn
  /\ down' = [down EXCEPT ![c] = << >>]
  /\ UNCHANGED <<sent, buffer, dropped, socket, up, serverVars, handled>>

-----------------------------------------------------------------------------
(* The server: connections and sessions *)

(* The close event: the connection is unbound only while it is the bound one. *)
ServerClose(c) ==
  /\ socket[c] = "closing" \/ (socket[c] = "open" /\ client[c] = "closed")
  /\ socket' = [socket EXCEPT ![c] = "closed"]
  /\ up' = [up EXCEPT ![c] = << >>]
  /\ connection' = IF connection = c THEN NoConn ELSE connection
  /\ UNCHANGED <<hostVars, client, down, registering, session, ackVars, failed, chain,
                 busy, handled, mishaps>>

(* A register message arrives; its handler awaits markRegistered. *)
Register(c) ==
  /\ socket[c] = "open" /\ up[c] # << >> /\ Head(up[c]) = Handshake
  /\ up' = [up EXCEPT ![c] = Tail(@)]
  /\ registering' = [registering EXCEPT ![c] = "waiting"]
  /\ UNCHANGED <<hostVars, client, socket, down, connection, session, ackVars, failed,
                 chain, busy, handled, mishaps>>

(* markRegistered has returned: the connection is bound, whatever became of it
   meanwhile, another one is closed, and a session with a new epoch begins. *)
Bind(c) ==
  LET previous == connection IN
  /\ registering[c] = "waiting"
  /\ registering' = [registering EXCEPT ![c] = "over"]
  /\ socket' = [d \in Conns |-> IF d = previous /\ socket[d] = "open" THEN "closing"
                                ELSE socket[d]]
  /\ connection' = c
  /\ session' = c
  /\ down' = Reply(c, Handshake)
  /\ UNCHANGED <<hostVars, client, up, ackVars, failed, chain, busy, handled, mishaps>>

(* markRegistered, or the reaping of a former Host process, has thrown. *)
RegisterFail(c) ==
  /\ registering[c] = "waiting"
  /\ Mishap
  /\ registering' = [registering EXCEPT ![c] = "over"]
  /\ UNCHANGED <<hostVars, netVars, connection, session, ackVars, failed, chain, busy,
                 handled>>

(* registerTimer: a connection that is not bound in time is closed. *)
RegisterTimeout(c) ==
  /\ socket[c] = "open" /\ connection # c
  /\ \/ registering[c] = "over" /\ UNCHANGED mishaps
     \/ registering[c] # "over" /\ Mishap
  /\ socket' = [socket EXCEPT ![c] = "closing"]
  /\ UNCHANGED <<hostVars, client, up, down, serverVars, handled>>

-----------------------------------------------------------------------------
(* The server: notifications *)

(* onUpstreamEnvelope: only for the bound connection and a session that has not
   failed. *)
Receive(c) ==
  /\ socket[c] = "open" /\ up[c] # << >> /\ Head(up[c]) # Handshake
  /\ up' = [up EXCEPT ![c] = Tail(@)]
  /\ LET n == Head(up[c])
         r == sent[n].run IN
     IF connection = c /\ c \notin failed
     THEN /\ ackEntries' = [ackEntries EXCEPT ![c] = Append(@, n)]
          /\ chain' = [chain EXCEPT ![r] = Append(@, [conn |-> c, seq |-> n])]
     ELSE UNCHANGED <<ackEntries, chain>>
  /\ UNCHANGED <<hostVars, client, socket, down, registering, connection, session,
                 processed, pendingAck, failed, busy, handled, mishaps>>

(* Skipped in a chain. *)
Skips(e) == e.conn \in failed

(* The next link of a chain: skipped when its session has failed, else it calls
   the port and waits. *)
ChainStart(r) ==
  /\ chain[r] # << >> /\ r \notin busy
  /\ IF Skips(Head(chain[r]))
     THEN chain' = [chain EXCEPT ![r] = Tail(@)] /\ UNCHANGED busy
     ELSE busy' = busy \cup {r} /\ UNCHANGED chain
  /\ UNCHANGED <<hostVars, netVars, registering, connection, session, ackVars, failed,
                 handled, mishaps>>

ChainNext(r) ==
  /\ r \in busy
  /\ busy' = busy \ {r}
  /\ chain' = [chain EXCEPT ![r] = Tail(@)]

(* The port has handled it: markUpstreamProcessed extends the processed prefix of
   the current session and schedules its acknowledgement. *)
ChainOk(r) ==
  LET c == Head(chain[r]).conn
      n == Head(chain[r]).seq
      done == processed[c] \cup {n}
      ends == Ackables(ackEntries[c], done) IN
  /\ ChainNext(r)
  /\ handled' = handled \cup {n}
  /\ processed' = [processed EXCEPT ![c] = done]
  /\ IF c \in failed \/ session # c \/ ends = {}
     THEN UNCHANGED <<ackEntries, pendingAck>>
     ELSE LET k == Last(ends) IN
          /\ ackEntries' = [ackEntries EXCEPT ![c] = SubSeq(@, k + 1, Len(@))]
          /\ pendingAck' = [pendingAck EXCEPT ![c] = ackEntries[c][k]]
  /\ UNCHANGED <<hostVars, netVars, registering, connection, session, failed, mishaps>>

(* What a failure does to the socket.  (Mutant: nothing.) *)
LeaveOpen(c) == socket
Terminate(c) == [socket EXCEPT ![c] = IF @ = "open" THEN "closing" ELSE @]

(* The port has thrown: the session has failed and its socket is terminated. *)
ChainFail(r) ==
  LET c == Head(chain[r]).conn IN
  /\ ChainNext(r)
  /\ Mishap
  /\ failed' = failed \cup {c}
  /\ socket' = Terminate(c)
  /\ UNCHANGED <<hostVars, client, up, down, registering, connection, session, ackVars,
                 handled>>

(* The setImmediate of markUpstreamProcessed. *)
SendAck(c) ==
  /\ pendingAck[c] # 0
  /\ pendingAck' = [pendingAck EXCEPT ![c] = 0]
  /\ down' = IF c \notin failed /\ session = c /\ connection = c
             THEN Reply(c, pendingAck[c]) ELSE down
  /\ UNCHANGED <<hostVars, client, socket, up, registering, connection, session,
                 ackEntries, processed, failed, chain, busy, handled, mishaps>>

(* The server dies and comes back: sessions, chains and sockets are gone. *)
Crash ==
  /\ Mishap
  /\ socket' = [c \in Conns |-> IF socket[c] = "none" THEN "none" ELSE "closed"]
  /\ up' = [c \in Conns |-> << >>]
  /\ registering' = [c \in Conns |-> IF registering[c] = "waiting" THEN "over"
                                     ELSE registering[c]]
  /\ connection' = NoConn /\ session' = NoConn
  /\ ackEntries' = [c \in Conns |-> << >>]
  /\ processed' = [c \in Conns |-> {}]
  /\ pendingAck' = [c \in Conns |-> 0]
  /\ failed' = {}
  /\ chain' = [r \in Runs |-> << >>]
  /\ busy' = {}
  /\ UNCHANGED <<hostVars, client, down, handled>>

-----------------------------------------------------------------------------
Next ==
  \/ \E m \in Notifications : Send(m)
  \/ \E c \in Conns :
       \/ Connect(c) \/ HostReceive(c) \/ HostClose(c)
       \/ ServerClose(c) \/ Register(c) \/ Bind(c) \/ RegisterFail(c)
       \/ RegisterTimeout(c) \/ Receive(c) \/ SendAck(c)
  \/ \E r \in Runs : ChainStart(r) \/ ChainOk(r) \/ ChainFail(r)
  \/ Crash

Spec == Init /\ [][Next]_vars

(* The event loops go on: what has arrived is taken, a handler that waits for the
   database or the run core returns, an end learns that the other one is closed
   (the watchdog terminates a half-open socket), the Host connects again.  The
   network may break a connection and a handler may fail, but not for ever. *)
Fairness ==
  /\ \A c \in Conns :
       /\ WF_vars(Connect(c)) /\ WF_vars(HostReceive(c))
       /\ WF_vars(socket[c] # "open" /\ HostClose(c))
       /\ WF_vars(ServerClose(c)) /\ WF_vars(Register(c)) /\ WF_vars(Bind(c))
       /\ WF_vars(registering[c] = "over" /\ RegisterTimeout(c))
       /\ WF_vars(Receive(c)) /\ WF_vars(SendAck(c))
  /\ \A r \in Runs : WF_vars(ChainStart(r)) /\ WF_vars(ChainOk(r))

FairSpec == Spec /\ Fairness
-----------------------------------------------------------------------------
(* Properties *)

(* Every variable has its type, and the buffer respects its cap. *)
TypeOK ==
  /\ sent \in Seq(Notifications)
  /\ buffer \subseteq Seqs /\ Cardinality(buffer) <= MaxBuffered
  /\ dropped \subseteq Seqs /\ handled \subseteq Seqs
  /\ ws \in Conns \cup {NoConn}
  /\ client \in [Conns -> {"none", "open", "closed"}]
  /\ socket \in [Conns -> {"none", "open", "closing", "closed"}]
  /\ up \in [Conns -> Seq(Seqs \cup {Handshake})]
  /\ down \in [Conns -> Seq(Seqs \cup {Handshake})]
  /\ registering \in [Conns -> {"no", "waiting", "over"}]
  /\ connection \in Conns \cup {NoConn}
  /\ session \in Conns \cup {NoConn}
  /\ ackEntries \in [Conns -> Seq(Seqs)]
  /\ processed \in [Conns -> SUBSET Seqs]
  /\ pendingAck \in [Conns -> Seqs \cup {0}]
  /\ failed \subseteq Conns
  /\ chain \in [Runs -> Seq([conn : Conns, seq : Seqs])]
  /\ busy \subseteq Runs
  /\ mishaps \in Nat

(* The tunnel is a reliable feed: through broken connections, failing handlers,
   parallel chains, replays and crashes of the server, a notification leaves the
   Host's buffer only when it was handled (or the buffer was full), and the run
   core never handles one before an earlier one of the same run. *)
Feed == INSTANCE ReliableFeed WITH kept <- buffer
IsReliableFeed == Feed!Spec

(* The same promise for a state, as the run core relies on it: what was handled of
   a run has no gap, other than what a full buffer gave up. *)
HandledInOrder == Feed!NoGap

(* Every notification gets out of the Host's buffer in the end: no combination of
   lost acknowledgements, failed sessions and replaced connections leaves the two
   ends waiting for each other. *)
BufferDrains == \A n \in Seqs : n \in buffer ~> n \notin buffer
=============================================================================
