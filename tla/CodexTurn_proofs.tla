-------------------------- MODULE CodexTurn_proofs --------------------------
(***************************************************************************)
(* A request of the app-server is answered at most once, the reported      *)
(* outcome is the turn's, and what is shown is what an answer goes to: for *)
(* any items, any number of them asking for an approval, and any number of *)
(* answers, unread lines and mishaps.                                      *)
(***************************************************************************)
EXTENDS CodexTurn, TLAPS

-----------------------------------------------------------------------------
(* What a sequence of lines, of continuations or of requests holds.        *)

Has(s, kind, q) == \E i \in 1..Len(s) : s[i].kind = kind /\ s[i].of = q
Holds(s, q) == \E i \in 1..Len(s) : s[i] = q

HasOnce(s, kind) ==
    \A i, j \in 1..Len(s) :
        s[i].kind = kind /\ s[j].kind = kind /\ s[i].of = s[j].of => i = j
HoldsOnce(s) == \A i, j \in 1..Len(s) : s[i] = s[j] => i = j

LEMMA HasAppend ==
    ASSUME NEW S, NEW s \in Seq(S), NEW l \in S, NEW kind, NEW q
    PROVE  Has(Append(s, l), kind, q) <=> Has(s, kind, q) \/ (l.kind = kind /\ l.of = q)
<1>1. /\ Len(Append(s, l)) = Len(s) + 1 /\ Len(s) \in Nat
      /\ \A i \in 1..Len(s) : Append(s, l)[i] = s[i]
      /\ Append(s, l)[Len(s) + 1] = l
  OBVIOUS
<1>2. ASSUME Has(Append(s, l), kind, q) PROVE Has(s, kind, q) \/ (l.kind = kind /\ l.of = q)
  <2>1. PICK i \in 1..Len(s) + 1 : Append(s, l)[i].kind = kind /\ Append(s, l)[i].of = q
    BY <1>1, <1>2 DEF Has
  <2>2. CASE i = Len(s) + 1
    BY <1>1, <2>1, <2>2
  <2>3. CASE i # Len(s) + 1
    <3>1. i \in 1..Len(s)
      BY <1>1, <2>3
    <3> QED BY <1>1, <2>1, <3>1 DEF Has
  <2> QED BY <2>2, <2>3
<1>3. ASSUME Has(s, kind, q) PROVE Has(Append(s, l), kind, q)
  <2>1. PICK i \in 1..Len(s) : s[i].kind = kind /\ s[i].of = q
    BY <1>3 DEF Has
  <2>2. i \in 1..Len(Append(s, l))
    BY <1>1
  <2> QED BY <1>1, <2>1, <2>2 DEF Has
<1>4. ASSUME l.kind = kind, l.of = q PROVE Has(Append(s, l), kind, q)
  <2>1. Len(s) + 1 \in 1..Len(Append(s, l))
    BY <1>1
  <2> QED BY <1>1, <1>4, <2>1 DEF Has
<1> QED BY <1>2, <1>3, <1>4

LEMMA HasTail ==
    ASSUME NEW S, NEW s \in Seq(S), s # << >>, NEW kind, NEW q
    PROVE  /\ Has(Tail(s), kind, q) => Has(s, kind, q)
           /\ Head(s).kind = kind => Has(s, kind, Head(s).of)
           /\ Tail(s) \in Seq(S) /\ Head(s) \in S
<1>1. /\ Len(Tail(s)) = Len(s) - 1 /\ Len(s) \in Nat /\ Len(s) > 0
      /\ \A i \in 1..Len(Tail(s)) : Tail(s)[i] = s[i + 1]
      /\ Tail(s) \in Seq(S) /\ Head(s) \in S /\ Head(s) = s[1]
  OBVIOUS
<1>2. ASSUME Has(Tail(s), kind, q) PROVE Has(s, kind, q)
  <2>1. PICK i \in 1..Len(Tail(s)) : Tail(s)[i].kind = kind /\ Tail(s)[i].of = q
    BY <1>2 DEF Has
  <2>2. i + 1 \in 1..Len(s) /\ Tail(s)[i] = s[i + 1]
    BY <1>1
  <2> QED BY <2>1, <2>2 DEF Has
<1>3. 1 \in 1..Len(s)
  BY <1>1
<1> QED BY <1>1, <1>2, <1>3 DEF Has

LEMMA HasOnceAppend ==
    ASSUME NEW S, NEW s \in Seq(S), NEW l \in S, NEW kind,
           HasOnce(s, kind), l.kind = kind => ~Has(s, kind, l.of)
    PROVE  HasOnce(Append(s, l), kind)
<1>1. /\ Len(Append(s, l)) = Len(s) + 1 /\ Len(s) \in Nat
      /\ \A i \in 1..Len(s) : Append(s, l)[i] = s[i]
      /\ Append(s, l)[Len(s) + 1] = l
  OBVIOUS
<1>2. \A i \in 1..Len(s) + 1 : i = Len(s) + 1 \/ i \in 1..Len(s)
  BY <1>1
<1> QED BY <1>1, <1>2 DEF HasOnce, Has

LEMMA HasOnceTail ==
    ASSUME NEW S, NEW s \in Seq(S), s # << >>, NEW kind, HasOnce(s, kind)
    PROVE  /\ HasOnce(Tail(s), kind)
           /\ Head(s).kind = kind => ~Has(Tail(s), kind, Head(s).of)
<1>1. /\ Len(Tail(s)) = Len(s) - 1 /\ Len(s) \in Nat /\ Len(s) > 0
      /\ \A i \in 1..Len(Tail(s)) : Tail(s)[i] = s[i + 1]
      /\ Head(s) = s[1]
  OBVIOUS
<1>2. \A i \in 1..Len(Tail(s)) : i + 1 \in 1..Len(s) /\ i + 1 # 1
  BY <1>1
<1>3. 1 \in 1..Len(s) /\ \A i, j \in 1..Len(Tail(s)) : i + 1 = j + 1 => i = j
  BY <1>1
<1>4. HasOnce(Tail(s), kind)
  BY <1>1, <1>2, <1>3 DEF HasOnce
<1>5. ASSUME Head(s).kind = kind, Has(Tail(s), kind, Head(s).of) PROVE FALSE
  <2>1. PICK i \in 1..Len(Tail(s)) : Tail(s)[i].kind = kind /\ Tail(s)[i].of = Head(s).of
    BY <1>5 DEF Has
  <2> QED BY <1>1, <1>2, <1>3, <1>5, <2>1 DEF HasOnce
<1> QED BY <1>4, <1>5

LEMMA HoldsAppend ==
    ASSUME NEW S, NEW s \in Seq(S), NEW l \in S, NEW q
    PROVE  /\ Holds(Append(s, l), q) <=> Holds(s, q) \/ l = q
           /\ HoldsOnce(s) /\ ~Holds(s, l) => HoldsOnce(Append(s, l))
<1>1. /\ Len(Append(s, l)) = Len(s) + 1 /\ Len(s) \in Nat
      /\ \A i \in 1..Len(s) : Append(s, l)[i] = s[i]
      /\ Append(s, l)[Len(s) + 1] = l
  OBVIOUS
<1>2. \A i \in 1..Len(s) + 1 : i = Len(s) + 1 \/ i \in 1..Len(s)
  BY <1>1
<1>3. Len(s) + 1 \in 1..Len(Append(s, l)) /\ \A i \in 1..Len(s) : i \in 1..Len(Append(s, l))
  BY <1>1
<1> QED BY <1>1, <1>2, <1>3 DEF HoldsOnce, Holds

LEMMA HoldsTail ==
    ASSUME NEW S, NEW s \in Seq(S), s # << >>, NEW q
    PROVE  /\ Holds(Tail(s), q) => Holds(s, q)
           /\ Holds(s, Head(s))
           /\ HoldsOnce(s) => HoldsOnce(Tail(s)) /\ ~Holds(Tail(s), Head(s))
           /\ Tail(s) \in Seq(S) /\ Head(s) \in S
<1>1. /\ Len(Tail(s)) = Len(s) - 1 /\ Len(s) \in Nat /\ Len(s) > 0
      /\ \A i \in 1..Len(Tail(s)) : Tail(s)[i] = s[i + 1]
      /\ Tail(s) \in Seq(S) /\ Head(s) \in S /\ Head(s) = s[1]
  OBVIOUS
<1>2. \A i \in 1..Len(Tail(s)) : i + 1 \in 1..Len(s) /\ i + 1 # 1
  BY <1>1
<1>3. 1 \in 1..Len(s) /\ \A i, j \in 1..Len(Tail(s)) : i + 1 = j + 1 => i = j
  BY <1>1
<1> QED BY <1>1, <1>2, <1>3 DEF HoldsOnce, Holds

LEMMA HasConcat ==
    ASSUME NEW S, NEW s \in Seq(S), NEW t \in Seq(S), NEW kind, NEW q
    PROVE  Has(s \o t, kind, q) <=> Has(s, kind, q) \/ Has(t, kind, q)
<1>1. /\ Len(s \o t) = Len(s) + Len(t) /\ Len(s) \in Nat /\ Len(t) \in Nat
      /\ \A i \in 1..Len(s) : (s \o t)[i] = s[i]
      /\ \A i \in 1..Len(t) : (s \o t)[Len(s) + i] = t[i]
  OBVIOUS
<1>2. /\ \A i \in 1..Len(s \o t) : i \in 1..Len(s) \/ (i - Len(s) \in 1..Len(t) /\ i = Len(s) + (i - Len(s)))
      /\ \A i \in 1..Len(s) : i \in 1..Len(s \o t)
      /\ \A i \in 1..Len(t) : Len(s) + i \in 1..Len(s \o t)
  BY <1>1
<1>3. ASSUME Has(s \o t, kind, q) PROVE Has(s, kind, q) \/ Has(t, kind, q)
  <2>1. PICK i \in 1..Len(s \o t) : (s \o t)[i].kind = kind /\ (s \o t)[i].of = q
    BY <1>3 DEF Has
  <2>2. CASE i \in 1..Len(s)
    BY <1>1, <2>1, <2>2 DEF Has
  <2>3. CASE i - Len(s) \in 1..Len(t) /\ i = Len(s) + (i - Len(s))
    BY <1>1, <2>1, <2>3 DEF Has
  <2> QED BY <1>2, <2>2, <2>3
<1> QED BY <1>1, <1>2, <1>3 DEF Has

LEMMA HasFew ==
    /\ \A kind, q : ~Has(<< >>, kind, q)
    /\ \A q : ~Holds(<< >>, q)
    /\ \A of, name, kind, q :
         Has(<<Line(name, of)>>, kind, q) <=> name = kind /\ of = q
<1>1. \A kind, q : ~Has(<< >>, kind, q)
  BY DEF Has
<1>2. \A q : ~Holds(<< >>, q)
  BY DEF Holds
<1>3. ASSUME NEW of, NEW name, NEW kind, NEW q
      PROVE  Has(<<Line(name, of)>>, kind, q) <=> name = kind /\ of = q
  <2>1. /\ Len(<<Line(name, of)>>) = 1 /\ <<Line(name, of)>>[1] = Line(name, of)
        /\ 1..1 = {1} /\ Line(name, of).kind = name /\ Line(name, of).of = of
    BY DEF Line
  <2> QED BY <2>1 DEF Has
<1> QED BY <1>1, <1>2, <1>3

-----------------------------------------------------------------------------
(* The invariant.                                                          *)

(* A request waits from the moment it is written until it leaves the slot. *)
Waits(q) ==
    Has(out, "request", q) \/ Holds(bridge.queue, q) \/ bridge.slot = q \/ Has(micro, "dequeued", q)

(* A request stands in one place only on its way from the app-server to    *)
(* the slot, and nothing has been sent for it before it leaves the slot.   *)
RequestInv ==
    /\ \A q \in Asking :
        /\ Has(out, "request", q) =>
             ~Holds(bridge.queue, q) /\ bridge.slot # q /\ ~Has(micro, "dequeued", q)
        /\ Holds(bridge.queue, q) => bridge.slot # q /\ ~Has(micro, "dequeued", q)
        /\ Waits(q) => sent[q] = 0 /\ approval[q] # "no"
        /\ approval[q] = "no" => sent[q] = 0
    /\ HasOnce(out, "request") /\ HoldsOnce(bridge.queue)
    /\ AnsweredOnce

(* Only a stop mutes the translator or asks for turn/interrupt.            *)
Undisturbed ==
    /\ ~tracker.muted /\ stop.at = "no" /\ "interrupt" \notin pending
    /\ ~Has(micro, "response", "interrupt") /\ ~Has(micro, "refusal", "interrupt")
StopInv == stop.asked \/ Undisturbed

(* Until the outcome is reported the stream has open what the translator   *)
(* has open, and the terminal has been seen as it will be reported.        *)
OutcomeInv ==
    /\ tracker.terminal /\ ~Over => seen # "none"
    /\ seen = "failed" => stream.error \/ tracker.muted \/ Over
    /\ ~Over /\ ~tracker.muted => stream.open \subseteq OpenItems
    /\ tracker.terminal /\ ~tracker.muted /\ ~Over => stream.open = {}
    /\ stream.report = "finished" => tracker.terminal
    /\ OutcomeIsHeard

IInv == TypeOK /\ RequestInv /\ StopInv /\ OutcomeInv

-----------------------------------------------------------------------------
(* Types.                                                                  *)

LEMMA LineTypes ==
    /\ \A m \in Requests, kind \in {"response", "refusal"} :
         Line(kind, m) \in ServerLine /\ Line(kind, m) \in MicroTask
    /\ \A i \in Items, kind \in {"started", "completed"} : Line(kind, i) \in ServerLine
    /\ \A q \in Asking, kind \in {"request", "resolved"} : Line(kind, q) \in ServerLine
    /\ \A status \in Outcomes : Line("done", status) \in ServerLine
    /\ \A q \in Asking, kind \in {"registered", "dequeued"} : Line(kind, q) \in MicroTask
    /\ Line("drained", NoItem) \in MicroTask
  BY DEF Line, ServerLine, MicroTask

LEMMA LineKinds ==
    /\ \A l \in ServerLine :
         /\ l.kind \in {"response", "refusal"} => l.of \in Requests /\ l \in MicroTask
         /\ l.kind \in {"started", "completed"} => l.of \in Items
         /\ l.kind \in {"request", "resolved"} => l.of \in Asking
         /\ l.kind = "done" => l.of \in Outcomes
    /\ \A l \in MicroTask :
         /\ l.kind \in {"response", "refusal"} => l.of \in Requests
         /\ l.kind \in {"registered", "dequeued"} => l.of \in Asking
<1>1. ASSUME NEW l \in ServerLine
      PROVE  /\ l.kind \in {"response", "refusal"} => l.of \in Requests /\ l \in MicroTask
             /\ l.kind \in {"started", "completed"} => l.of \in Items
             /\ l.kind \in {"request", "resolved"} => l.of \in Asking
             /\ l.kind = "done" => l.of \in Outcomes
  BY DEF ServerLine, MicroTask
<1>2. ASSUME NEW l \in MicroTask
      PROVE  /\ l.kind \in {"response", "refusal"} => l.of \in Requests
             /\ l.kind \in {"registered", "dequeued"} => l.of \in Asking
  BY DEF MicroTask
<1> QED BY <1>1, <1>2

LEMMA BridgeTypes ==
    ASSUME NEW b \in Bridge
    PROVE  /\ b.slot # NoItem => MarkResolved(b) \in Bridge
           /\ Emptied(b) \in Bridge
           /\ Dequeued(b) \in Seq(MicroTask)
           /\ \A q \in Asking :
                /\ [b EXCEPT !.slot = q] \in Bridge
                /\ [b EXCEPT !.queue = Append(@, q)] \in Bridge
                /\ [b EXCEPT !.resolved = @ \cup {q}] \in Bridge
<1>1. b.queue # << >> => Head(b.queue) \in Asking /\ Tail(b.queue) \in Seq(Asking)
  BY DEF Bridge
<1>2. \A q \in Asking : Append(b.queue, q) \in Seq(Asking)
  BY DEF Bridge
<1>3. << >> \in Seq(Asking) /\ << >> \in Seq(MicroTask)
  OBVIOUS
<1>4. \A l \in MicroTask : <<l>> \in Seq(MicroTask)
  OBVIOUS
<1>5. Dequeued(b) \in Seq(MicroTask)
  BY <1>1, <1>3, <1>4, LineTypes DEF Dequeued
<1>6. b.slot # NoItem => MarkResolved(b) \in Bridge
  BY <1>1, <1>3 DEF MarkResolved, NextInLine, Bridge
<1>7. Emptied(b) \in Bridge
  BY <1>3 DEF Emptied, Bridge
<1> QED BY <1>2, <1>5, <1>6, <1>7 DEF Bridge

LEMMA StreamTypes ==
    ASSUME NEW s \in Stream
    PROVE  /\ \A failed \in BOOLEAN : Terminated(s, failed) \in Stream
           /\ Completed(s) \in Stream
           /\ ExitError(s) \in Stream
<1>1. ASSUME NEW failed \in BOOLEAN PROVE Terminated(s, failed) \in Stream
  <2>1. (s.error \/ failed) \in BOOLEAN /\ s.open \ OpenItems \in SUBSET Items
    BY DEF Stream
  <2> QED BY <2>1 DEF Terminated, Stream
<1>2. Completed(s) \in Stream
  BY DEF Completed, Stream
<1> QED BY <1>1, <1>2 DEF ExitError

LEMMA TrackerTypes ==
    ASSUME NEW t \in Tracker
    PROVE  AllEnded(t) \in Tracker
  BY DEF AllEnded, Tracker

LEMMA TypeInit == Init => TypeOK
<1> SUFFICES ASSUME Init PROVE TypeOK
  OBVIOUS
<1>1. server \in Server
  BY DEF Init, Server, Requests, Setup
<1>2. bridge \in Bridge
  BY DEF Init, Bridge
<1>3. tracker \in Tracker
  BY DEF Init, Tracker
<1>4. stream \in Stream
  BY DEF Init, Stream
<1>5. out \in Seq(ServerLine) /\ micro \in Seq(MicroTask)
  BY DEF Init
<1>6. answers \in Seq(Asking) /\ Len(answers) <= MaxAnswers /\ mishaps \in 0..MaxMishaps
  BY CodexAssumption DEF Init
<1>7. /\ work \in [Items -> {"todo", "going", "done"}] /\ sent \in [Asking -> Nat]
      /\ approval \in [Asking -> {"no", "asked", "answered", "settled"}]
  BY DEF Init
<1>8. /\ reading \in BOOLEAN /\ killed \in BOOLEAN /\ exitSeen \in BOOLEAN
      /\ stop \in [asked : BOOLEAN, at : {"no", "ask", "grace", "over"}]
      /\ pending \subseteq Requests /\ seen \in Outcomes \cup {"none"}
      /\ phase \in {"initialize", "thread", "turn", "drain", "drained", "over"}
  BY DEF Init, Requests, Setup
<1> QED BY <1>1, <1>2, <1>3, <1>4, <1>5, <1>6, <1>7, <1>8 DEF TypeOK

(* The steps of the app-server append a line.                              *)
LEMMA TypeServer ==
    ASSUME TypeOK, AppServer
    PROVE  TypeOK'
<1> USE LineTypes, CodexAssumption DEF TypeOK, AdapterFrame, Writes, Mishap
<1>1. \A l \in ServerLine : Append(out, l) \in Seq(ServerLine)
  OBVIOUS
<1>2. CASE Reply
  <2>1. server.asked \in Requests
    BY <1>2 DEF Reply, Server
  <2>2. server' \in Server
    BY ZenonT(40), <1>2 DEF Reply, Server
  <2>3. /\ Append(out, Line("response", server.asked)) \in Seq(ServerLine)
        /\ Append(out, Line("refusal", server.asked)) \in Seq(ServerLine)
    BY <1>1, <2>1
  <2>4. out' \in Seq(ServerLine)
    BY <1>2, <2>3 DEF Reply
  <2>5. mishaps' \in 0..MaxMishaps
    BY <1>2 DEF Reply
  <2>6. UNCHANGED <<work, approval, reading, micro, phase, pending, bridge, tracker, stop, killed,
                    exitSeen, stream, answers, sent, seen>>
    BY <1>2 DEF Reply
  <2> QED BY <2>2, <2>4, <2>5, <2>6
<1>3. CASE Die
  <2>1. server' \in Server
    BY <1>3 DEF Die, Server
  <2>2. mishaps' \in 0..MaxMishaps
    BY <1>3 DEF Die
  <2>3. UNCHANGED <<work, approval, out, reading, micro, phase, pending, bridge, tracker, stop,
                    killed, exitSeen, stream, answers, sent, seen>>
    BY <1>3 DEF Die
  <2> QED BY <2>1, <2>2, <2>3
<1>9. CASE InterruptTurn
  <2>1. server' \in Server
    BY <1>9 DEF InterruptTurn, Server
  <2>2. mishaps' \in 0..MaxMishaps
    BY <1>9 DEF InterruptTurn
  <2>3. UNCHANGED <<work, approval, out, reading, micro, phase, pending, bridge, tracker, stop,
                    killed, exitSeen, stream, answers, sent, seen>>
    BY <1>9 DEF InterruptTurn
  <2> QED BY <2>1, <2>2, <2>3
<1>4. ASSUME NEW i \in Items, StartItem(i) PROVE TypeOK'
  BY <1>1, <1>4 DEF StartItem
<1>5. ASSUME NEW i \in Items, FinishItem(i) PROVE TypeOK'
  BY <1>1, <1>5 DEF FinishItem
<1>6. ASSUME NEW q \in Asking, AskApproval(q) PROVE TypeOK'
  BY <1>1, <1>6 DEF AskApproval
<1>7. ASSUME NEW q \in Asking, Settle(q) PROVE TypeOK'
  BY <1>1, <1>7 DEF Settle
<1>8. ASSUME NEW status \in Outcomes, EndTurn(status) PROVE TypeOK'
  <2>1. server' \in Server
    BY <1>8 DEF EndTurn, Server
  <2>2. mishaps' = mishaps \/ Mishap
    BY <1>8 DEF EndTurn, Outcomes
  <2>3. mishaps' \in 0..MaxMishaps
    BY <2>2
  <2>4. out' \in Seq(ServerLine)
    BY <1>1, <1>8 DEF EndTurn
  <2>5. UNCHANGED <<work, approval, reading, micro, phase, pending, bridge, tracker, stop, killed,
                    exitSeen, stream, answers, sent, seen>>
    BY <1>8 DEF EndTurn
  <2> QED BY <2>1, <2>3, <2>4, <2>5
<1> QED BY <1>2, <1>3, <1>4, <1>5, <1>6, <1>7, <1>8, <1>9 DEF AppServer, Outcomes

LEMMA TypeRead ==
    ASSUME TypeOK, Read
    PROVE  TypeOK'
<1> DEFINE l == Head(out)
<1> USE CodexAssumption DEF TypeOK, ReadLine
<1>1. out # << >> /\ l \in ServerLine /\ Tail(out) \in Seq(ServerLine)
  <2>1. out # << >>
    BY DEF Read, ReadResponse, ReadRequest, ReadResolved, ReadItem, ReadDone
  <2> QED BY <2>1
<1>2. \A t \in MicroTask : Append(micro, t) \in Seq(MicroTask)
  OBVIOUS
<1>3. CASE ReadResponse
  <2>1. l.of \in Requests /\ l \in MicroTask
    BY <1>1, <1>3, LineKinds DEF ReadResponse
  <2>2. Append(micro, l) \in Seq(MicroTask)
    BY <1>2, <2>1
  <2>3. pending' \subseteq Requests
    BY <1>3 DEF ReadResponse
  <2>4. micro' \in Seq(MicroTask)
    BY <1>3, <2>2 DEF ReadResponse
  <2> QED BY <1>1, <1>3, <2>3, <2>4 DEF ReadResponse
<1>4. CASE ReadRequest
  <2>1. l.of \in Asking
    BY <1>1, <1>4, LineKinds DEF ReadRequest
  <2>2. Append(micro, Line("registered", l.of)) \in Seq(MicroTask)
    BY <1>2, <2>1, LineTypes
  <2>3. micro' \in Seq(MicroTask)
    BY <1>4, <2>2 DEF ReadRequest
  <2>4. /\ [bridge EXCEPT !.slot = l.of] \in Bridge
        /\ [bridge EXCEPT !.queue = Append(@, l.of)] \in Bridge
    BY <2>1, BridgeTypes
  <2>5. bridge' \in Bridge
    BY <1>4, <2>4 DEF ReadRequest
  <2> QED BY <1>1, <1>4, <2>3, <2>5 DEF ReadRequest
<1>5. CASE ReadResolved
  <2>1. l.of \in Asking
    BY <1>1, <1>5, LineKinds DEF ReadResolved
  <2>2. /\ Dequeued(bridge) \in Seq(MicroTask)
        /\ bridge.slot = l.of => MarkResolved(bridge) \in Bridge
        /\ [bridge EXCEPT !.resolved = @ \cup {l.of}] \in Bridge
    <3>1. l.of # NoItem /\ bridge \in Bridge
      BY <2>1
    <3> QED BY <2>1, <3>1, BridgeTypes
  <2>3. micro \o Dequeued(bridge) \in Seq(MicroTask)
    BY <2>2
  <2>4. bridge' \in Bridge
    BY <1>5, <2>2 DEF ReadResolved
  <2>5. micro' \in Seq(MicroTask)
    BY <1>5, <2>3 DEF ReadResolved
  <2> QED BY <1>1, <1>5, <2>4, <2>5 DEF ReadResolved
<1>6. CASE ReadItem
  <2>1. l.of \in Items
    BY <1>1, <1>6, LineKinds DEF ReadItem
  <2>2. tracker' \in Tracker
    BY <1>6, <2>1 DEF ReadItem, Tracker
  <2>3. stream' \in Stream
    BY <1>6, <2>1 DEF ReadItem, Stream
  <2> QED BY <1>1, <1>6, <2>2, <2>3 DEF ReadItem
<1>7. CASE ReadDone
  <2>1. l.of \in Outcomes
    BY <1>1, <1>7, LineKinds DEF ReadDone
  <2>2. tracker' \in Tracker
    BY ZenonT(40), <1>7, TrackerTypes DEF ReadDone, Tracker
  <2>3. stream' \in Stream
    BY <1>7, StreamTypes DEF ReadDone
  <2>4. Append(micro, Line("drained", NoItem)) \in Seq(MicroTask)
    BY <1>2, LineTypes
  <2>5. micro' \in Seq(MicroTask)
    BY <1>7, <2>4 DEF ReadDone
  <2> QED BY <1>1, <1>7, <2>1, <2>2, <2>3, <2>5 DEF ReadDone
<1> QED BY <1>3, <1>4, <1>5, <1>6, <1>7 DEF Read

(* The continuations take the first of them.                               *)
LEMMA TypeContinuation ==
    ASSUME TypeOK, Continuation
    PROVE  TypeOK'
<1> DEFINE l == Head(micro)
<1> USE DEF TypeOK, Continue
<1>1. /\ micro # << >> /\ l \in MicroTask /\ Tail(micro) \in Seq(MicroTask)
      /\ \A t \in Seq(MicroTask) : Tail(micro) \o t \in Seq(MicroTask)
  <2>1. micro # << >>
    BY DEF Continuation, Answered, Refused, InterruptRefused, Drained, RegisterOn, Show
  <2> QED BY <2>1
<1>2. UNCHANGED <<work, approval, out, reading, exitSeen, answers, sent, seen, mishaps>>
  BY DEF Continuation, Answered, Refused, InterruptRefused, Drained, RegisterOn, Show
<1>3. Emptied(bridge) \in Bridge
  BY BridgeTypes
<1>4. AllEnded(tracker) \in Tracker /\ ExitTracked \in Tracker
  <2>1. AllEnded(tracker) \in Tracker
    BY TrackerTypes
  <2> QED BY <2>1 DEF ExitTracked, Tracker
<1>5. CASE Answered
  <2>1. l.of \in Requests
    BY <1>1, <1>5, LineKinds DEF Answered
  <2>2. phase' \in {"initialize", "thread", "turn", "drain", "drained", "over"}
    BY <1>5 DEF Answered
  <2>3. pending' \subseteq Requests /\ server' \in Server
    <3>1. CASE l.of \in {"initialize", "thread"}
      <4>1. phase' \in Requests
        BY <1>5, <3>1 DEF Answered, Requests, Setup
      <4>2. pending' = pending \cup {phase'} /\ server' = [server EXCEPT !.asked = phase']
        BY <1>5, <3>1 DEF Answered, Ask
      <4> QED BY <4>1, <4>2 DEF Server
    <3>2. CASE l.of \notin {"initialize", "thread"}
      BY <1>5, <3>2 DEF Answered
    <3> QED BY <3>1, <3>2
  <2>4. stream' \in Stream
    BY <1>5 DEF Answered, Stream
  <2>5. stop' \in [asked : BOOLEAN, at : {"no", "ask", "grace", "over"}]
    BY <1>5 DEF Answered
  <2>6. micro' \in Seq(MicroTask) /\ UNCHANGED <<bridge, tracker, killed>>
    BY <1>1, <1>5 DEF Answered
  <2> QED BY <1>2, <2>2, <2>3, <2>4, <2>5, <2>6
<1>6. CASE Refused
  <2>1. stream' \in Stream
    <3>1. Completed(stream) \in Stream /\ Terminated(stream, TRUE) \in Stream
      BY StreamTypes
    <3>2. Completed(Terminated(stream, TRUE)) \in Stream
      BY <3>1, StreamTypes
    <3> QED BY <1>6, <3>1, <3>2 DEF Refused
  <2>2. tracker' \in Tracker /\ bridge' \in Bridge
    BY <1>3, <1>4, <1>6 DEF Refused
  <2>3. /\ micro' \in Seq(MicroTask) /\ phase' = "over" /\ killed' = TRUE
        /\ UNCHANGED <<server, pending, stop>>
    BY <1>1, <1>6 DEF Refused
  <2> QED BY <1>2, <2>1, <2>2, <2>3
<1>7. CASE InterruptRefused
  <2>1. Drain \in Seq(MicroTask)
    BY LineTypes DEF Drain
  <2>2. micro' \in Seq(MicroTask)
    BY <1>1, <1>7, <2>1 DEF InterruptRefused
  <2>3. bridge' \in Bridge /\ killed' = TRUE /\ phase' \in {phase, "drained"}
    BY <1>3, <1>7 DEF InterruptRefused, Release
  <2>4. stop' \in [asked : BOOLEAN, at : {"no", "ask", "grace", "over"}]
    BY <1>7 DEF InterruptRefused, Release
  <2>5. UNCHANGED <<server, pending, tracker, stream>>
    BY <1>7 DEF InterruptRefused
  <2> QED BY <1>2, <2>2, <2>3, <2>4, <2>5
<1>8. CASE Drained
  <2>1. stream' \in Stream
    <3>1. Completed(stream) \in Stream /\ ExitError(stream) \in Stream
      BY StreamTypes
    <3>2. Completed(ExitError(stream)) \in Stream
      BY <3>1, StreamTypes
    <3> QED BY <1>8, <3>1, <3>2 DEF Drained
  <2>2. tracker' \in Tracker /\ bridge' \in Bridge
    BY <1>3, <1>4, <1>8 DEF Drained
  <2>3. /\ micro' \in Seq(MicroTask) /\ phase' = "over" /\ killed' = TRUE
        /\ UNCHANGED <<server, pending, stop>>
    BY <1>1, <1>8 DEF Drained
  <2> QED BY <1>2, <2>1, <2>2, <2>3
<1>9. CASE RegisterOn
  <2>1. l.of \in Asking
    BY <1>1, <1>9, LineKinds DEF RegisterOn
  <2>2. Append(Tail(micro), Line("registered", l.of)) \in Seq(MicroTask)
    BY <1>1, <2>1, LineTypes
  <2>3. bridge' \in Bridge
    BY <1>9, <2>1, BridgeTypes DEF RegisterOn
  <2>4. micro' \in Seq(MicroTask) /\ UNCHANGED <<server, phase, pending, tracker, stop, killed, stream>>
    BY <1>9, <2>2 DEF RegisterOn
  <2> QED BY <1>2, <2>3, <2>4
<1>10. CASE Show
  <2>1. l.of \in Asking
    BY <1>1, <1>10, LineKinds DEF Show
  <2>2. stream' \in Stream
    <3>1. Terminated(stream, FALSE) \in Stream
      BY StreamTypes
    <3>2. [Terminated(stream, FALSE) EXCEPT !.shown = l.of] \in Stream
      BY <2>1, <3>1 DEF Stream
    <3> QED BY <1>10, <3>2 DEF Show
  <2>3. tracker' \in Tracker
    BY <1>4, <1>10 DEF Show
  <2>4. micro' \in Seq(MicroTask) /\ UNCHANGED <<server, phase, pending, bridge, stop, killed>>
    BY <1>1, <1>10 DEF Show
  <2> QED BY <1>2, <2>2, <2>3, <2>4
<1> QED BY <1>5, <1>6, <1>7, <1>8, <1>9, <1>10 DEF Continuation

LEMMA TypeRespond ==
    ASSUME TypeOK, bridge.slot # NoItem, Respond(bridge.slot)
    PROVE  /\ sent' \in [Asking -> Nat]
           /\ approval' \in [Asking -> {"no", "asked", "answered", "settled"}]
<1>1. bridge.slot \in Asking
  BY DEF TypeOK, Bridge
<1> QED BY <1>1 DEF TypeOK, Respond

(* The commands, the timers and the exit.                                  *)
LEMMA TypeEvents ==
    ASSUME TypeOK, User \/ ResolveApproval \/ Timer \/ Exit
    PROVE  TypeOK'
<1> USE CodexAssumption DEF TypeOK
<1>1. /\ Emptied(bridge) \in Bridge /\ Dequeued(bridge) \in Seq(MicroTask)
      /\ bridge.slot # NoItem => MarkResolved(bridge) \in Bridge
  BY BridgeTypes
<1>2. Drain \in Seq(MicroTask)
  BY LineTypes DEF Drain
<1>3. ASSUME NEW q \in Asking, UserAnswers(q) PROVE TypeOK'
  <2>1. answers' \in Seq(Asking) /\ Len(answers') = Len(answers) + 1 /\ Len(answers) \in Nat
    BY <1>3 DEF UserAnswers
  <2>2. Len(answers') <= MaxAnswers
    BY <1>3, <2>1 DEF UserAnswers
  <2>3. UNCHANGED <<server, work, approval, out, reading, micro, phase, pending, bridge, tracker,
                    stop, killed, exitSeen, stream, sent, seen, mishaps>>
    BY <1>3 DEF UserAnswers, serverVars
  <2> QED BY <2>1, <2>2, <2>3
<1>4. CASE ResolveApproval
  <2>1. answers' \in Seq(Asking) /\ Len(answers') <= MaxAnswers
    <3>1. answers # << >> /\ answers' = Tail(answers)
      BY <1>4 DEF ResolveApproval
    <3>2. Tail(answers) \in Seq(Asking) /\ Len(Tail(answers)) = Len(answers) - 1 /\ Len(answers) \in Nat
      BY <3>1
    <3> QED BY <3>1, <3>2
  <2>2. UNCHANGED <<server, work, out, reading, phase, pending, tracker, stop, killed, exitSeen,
                    seen, mishaps>>
    BY <1>4 DEF ResolveApproval
  <2>3. CASE bridge.slot = NoItem
    <3>1. UNCHANGED <<stream, bridge, micro, sent, approval>>
      BY <1>4, <2>3 DEF ResolveApproval
    <3> QED BY <2>1, <2>2, <3>1
  <2>4. CASE bridge.slot # NoItem
    <3>1. stream' \in Stream
      BY ZenonT(40), <1>4, <2>4 DEF ResolveApproval, Stream
    <3>2. bridge' \in Bridge /\ micro' \in Seq(MicroTask)
      BY <1>1, <1>4, <2>4 DEF ResolveApproval
    <3>3. Respond(bridge.slot)
      BY <1>4, <2>4 DEF ResolveApproval
    <3> QED BY <2>1, <2>2, <2>4, <3>1, <3>2, <3>3, TypeRespond
  <2> QED BY <2>3, <2>4
<1>5. CASE Stop
  <2> DEFINE b == IF Cancels THEN MarkResolved(bridge) ELSE bridge
             next == IF Cancels THEN Dequeued(bridge) ELSE << >>
             asks == phase = "drain" /\ ~killed /\ ~exitSeen
  <2>1. Cancels => bridge.slot # NoItem
    BY DEF Cancels
  <2>2. b \in Bridge /\ next \in Seq(MicroTask)
    BY <1>1, <2>1
  <2>3. Emptied(b) \in Bridge /\ next \o Drain \in Seq(MicroTask)
    BY <1>2, <2>2, BridgeTypes
  <2>4. /\ sent' \in [Asking -> Nat]
        /\ approval' \in [Asking -> {"no", "asked", "answered", "settled"}]
        /\ tracker' \in Tracker
    <3>1. CASE Cancels
      <4>1. Respond(bridge.slot) /\ tracker' = [tracker EXCEPT !.muted = TRUE]
        BY <1>5, <3>1 DEF Stop
      <4> QED BY <2>1, <3>1, <4>1, TypeRespond DEF Tracker
    <3>2. CASE ~Cancels
      BY <1>5, <3>2 DEF Stop
    <3> QED BY <3>1, <3>2
  <2>5. UNCHANGED <<work, out, reading, exitSeen, stream, answers, seen, mishaps>>
    BY <1>5 DEF Stop
  <2>6. CASE asks
    <3>1. /\ Ask("interrupt") /\ stop' = [asked |-> TRUE, at |-> "ask"]
          /\ bridge' = b /\ micro' = next /\ UNCHANGED <<phase, killed>>
      BY <1>5, <2>6 DEF Stop
    <3>2. server' \in Server /\ pending' \subseteq Requests
      BY <3>1 DEF Ask, Server, Requests
    <3> QED BY <2>2, <2>4, <2>5, <3>1, <3>2
  <2>7. CASE ~asks
    <3>1. /\ stop' = [asked |-> TRUE, at |-> "over"] /\ killed' = TRUE
          /\ bridge' = Emptied(b) /\ micro' = next \o Drain
          /\ phase' = (IF phase = "drain" THEN "drained" ELSE phase)
          /\ UNCHANGED <<pending, server>>
      BY <1>5, <2>7 DEF Stop
    <3> HIDE DEF b, next
    <3> QED BY <2>3, <2>4, <2>5, <3>1
  <2> QED BY <2>6, <2>7
<1>6. CASE GraceOver
  <2>1. micro' \in Seq(MicroTask) /\ bridge' \in Bridge /\ killed' = TRUE /\ phase' \in {phase, "drained"}
    BY <1>1, <1>2, <1>6 DEF GraceOver, Release
  <2>2. stop' \in [asked : BOOLEAN, at : {"no", "ask", "grace", "over"}]
    BY <1>6 DEF GraceOver, Release
  <2>3. UNCHANGED <<server, work, approval, out, reading, pending, tracker, exitSeen, stream,
                    answers, sent, seen, mishaps>>
    BY <1>6 DEF GraceOver, serverVars
  <2> QED BY <2>1, <2>2, <2>3
<1>7. ASSUME NEW m \in pending, RequestTimeout(m) PROVE TypeOK'
  <2>1. micro' \in Seq(MicroTask) /\ pending' \subseteq Requests
    BY <1>7, LineTypes DEF RequestTimeout
  <2>2. UNCHANGED <<server, work, approval, out, reading, phase, bridge, tracker, stop, killed,
                    exitSeen, stream, answers, sent, seen, mishaps>>
    BY <1>7 DEF RequestTimeout, serverVars
  <2> QED BY <2>1, <2>2
<1>8. CASE Exit
  <2> DEFINE chosen == CHOOSE m \in pending : TRUE
             refusals == IF pending = {} THEN << >> ELSE <<Line("refusal", chosen)>>
             drains == IF HearsExit THEN <<Line("drained", NoItem)>> ELSE << >>
  <2>1. refusals \in Seq(MicroTask)
    <3>1. pending # {} => chosen \in Requests
      OBVIOUS
    <3> QED BY <3>1, LineTypes
  <2>2. drains \in Seq(MicroTask)
    BY LineTypes
  <2>3. micro' = refusals \o drains
    BY <1>8 DEF Exit
  <2>4. micro' \in Seq(MicroTask)
    <3> HIDE DEF refusals, drains
    <3> QED BY <2>1, <2>2, <2>3
  <2>5. tracker' \in Tracker
    <3>1. AllEnded(tracker) \in Tracker
      BY TrackerTypes
    <3>2. ExitTracked \in Tracker
      BY <3>1 DEF ExitTracked, Tracker
    <3> QED BY <1>8, <3>2 DEF Exit
  <2>6. stream' \in Stream
    <3>1. ExitError(stream) \in Stream
      BY StreamTypes
    <3>2. Completed(ExitError(stream)) \in Stream
      BY <3>1, StreamTypes
    <3> QED BY <1>8, <3>2 DEF Exit
  <2>7. bridge' \in Bridge /\ exitSeen' = TRUE /\ pending' = {} /\ phase' \in {phase, "drained"}
    BY <1>1, <1>8 DEF Exit
  <2>8. UNCHANGED <<server, work, approval, out, reading, stop, killed, answers, sent, seen, mishaps>>
    BY <1>8 DEF Exit, serverVars
  <2> QED BY <2>4, <2>5, <2>6, <2>7, <2>8
<1> QED BY <1>3, <1>4, <1>5, <1>6, <1>7, <1>8 DEF User, Timer

LEMMA TypeStep ==
    ASSUME TypeOK, [Next]_vars
    PROVE  TypeOK'
<1>1. CASE UNCHANGED vars
  BY <1>1 DEF TypeOK, vars, serverVars
<1> QED BY <1>1, TypeServer, TypeRead, TypeContinuation, TypeEvents DEF Next

-----------------------------------------------------------------------------
(* Only a stop disturbs the turn.                                          *)

LEMMA StopLasts ==
    ASSUME TypeOK, [Next]_vars, stop.asked
    PROVE  stop'.asked
<1>0. \A at \in {"grace", "over"} : [stop EXCEPT !.at = at].asked
  BY DEF TypeOK
<1>1. CASE AppServer
  BY <1>1 DEF AppServer, AdapterFrame, Reply, InterruptTurn, Die, StartItem, FinishItem, AskApproval,
     Settle, EndTurn
<1>2. CASE Read
  BY <1>2 DEF Read, ReadLine, ReadResponse, ReadRequest, ReadResolved, ReadItem, ReadDone
<1>3. CASE Continuation
  <2>1. CASE Answered
    BY <1>0, <2>1 DEF Answered
  <2>2. CASE InterruptRefused
    BY <1>0, <2>2 DEF InterruptRefused, Release
  <2>3. CASE Refused \/ Drained \/ RegisterOn \/ Show
    BY <2>3 DEF Refused, Drained, RegisterOn, Show
  <2> QED BY <1>3, <2>1, <2>2, <2>3 DEF Continuation
<1>4. CASE Timer \/ Exit \/ ResolveApproval \/ User
  <2>1. CASE GraceOver
    BY <1>0, <2>1 DEF GraceOver, Release
  <2>2. CASE Stop
    <3>1. stop' \in {[asked |-> TRUE, at |-> "ask"], [asked |-> TRUE, at |-> "over"]}
      BY <2>2 DEF Stop
    <3> QED BY <3>1
  <2>3. CASE Exit \/ ResolveApproval
    BY <2>3 DEF Exit, ResolveApproval
  <2>4. CASE (\E m \in pending : RequestTimeout(m)) \/ (\E q \in Asking : UserAnswers(q))
    BY <2>4 DEF RequestTimeout, UserAnswers
  <2> QED BY <1>4, <2>1, <2>2, <2>3, <2>4 DEF Timer, User
<1>5. CASE UNCHANGED vars
  BY <1>5 DEF vars
<1> QED BY <1>1, <1>2, <1>3, <1>4, <1>5 DEF Next

LEMMA UndisturbedServer ==
    ASSUME TypeOK, Undisturbed, AppServer
    PROVE  Undisturbed'
<1>1. UNCHANGED <<micro, pending, tracker, stop>>
  BY DEF AppServer, Reply, InterruptTurn, Die, StartItem, FinishItem, AskApproval, Settle, EndTurn,
     AdapterFrame
<1> QED BY <1>1 DEF Undisturbed

LEMMA UndisturbedRead ==
    ASSUME TypeOK, Undisturbed, Read
    PROVE  Undisturbed'
<1> DEFINE l == Head(out)
<1>1. out # << >> /\ stop' = stop
  BY DEF Read, ReadResponse, ReadRequest, ReadResolved, ReadItem, ReadDone, ReadLine
<1>2. l \in ServerLine
  BY <1>1 DEF TypeOK
<1>3. ASSUME ~Has(micro', "response", "interrupt"), ~Has(micro', "refusal", "interrupt"),
             "interrupt" \notin pending', tracker'.muted = tracker.muted
      PROVE  Undisturbed'
  BY <1>1, <1>3 DEF Undisturbed
<1>4. CASE ReadResponse
  <2>1. l.of \in Requests /\ l \in MicroTask
    BY <1>2, <1>4, LineKinds DEF ReadResponse, ReadLine
  <2>2. CASE l.of \in pending
    <3>1. l.of # "interrupt" /\ micro' = Append(micro, l) /\ pending' \subseteq pending
      BY <1>4, <2>2 DEF ReadResponse, Undisturbed
    <3>2. ~Has(micro', "response", "interrupt") /\ ~Has(micro', "refusal", "interrupt")
      BY <2>1, <3>1, HasAppend DEF TypeOK, Undisturbed
    <3>3. tracker' = tracker
      BY <1>4 DEF ReadResponse
    <3> QED BY <1>3, <3>1, <3>2, <3>3 DEF Undisturbed
  <2>3. CASE l.of \notin pending
    <3>1. UNCHANGED <<pending, micro, tracker>>
      BY <1>4, <2>3 DEF ReadResponse
    <3> QED BY <1>3, <3>1 DEF Undisturbed
  <2> QED BY <2>2, <2>3
<1>5. CASE ReadRequest
  <2>1. l.of \in Asking
    BY <1>2, <1>5, LineKinds DEF ReadRequest, ReadLine
  <2>2. micro' \in {micro, Append(micro, Line("registered", l.of))}
    BY <1>5 DEF ReadRequest
  <2>3. ~Has(micro', "response", "interrupt") /\ ~Has(micro', "refusal", "interrupt")
    <3>1. Line("registered", l.of) \in MicroTask /\ Line("registered", l.of).kind = "registered"
      BY <2>1, LineTypes DEF Line
    <3>2. \A kind : Has(Append(micro, Line("registered", l.of)), kind, "interrupt")
               => Has(micro, kind, "interrupt") \/ kind = "registered"
      BY <3>1, HasAppend DEF TypeOK
    <3> QED BY <2>2, <3>2 DEF Undisturbed
  <2>4. UNCHANGED <<pending, tracker>>
    BY <1>5 DEF ReadRequest
  <2> QED BY <1>3, <2>3, <2>4 DEF Undisturbed
<1>6. CASE ReadResolved
  <2>1. micro' \in {micro, micro \o Dequeued(bridge)}
    BY <1>6 DEF ReadResolved
  <2>2. ~Has(Dequeued(bridge), "response", "interrupt") /\ ~Has(Dequeued(bridge), "refusal", "interrupt")
    BY HasFew DEF Dequeued
  <2>3. Dequeued(bridge) \in Seq(MicroTask)
    BY BridgeTypes DEF TypeOK
  <2>4. ~Has(micro', "response", "interrupt") /\ ~Has(micro', "refusal", "interrupt")
    <3>1. \A kind : Has(micro \o Dequeued(bridge), kind, "interrupt")
               => Has(micro, kind, "interrupt") \/ Has(Dequeued(bridge), kind, "interrupt")
      BY <2>3, HasConcat DEF TypeOK
    <3> QED BY <2>1, <2>2, <3>1 DEF Undisturbed
  <2>5. UNCHANGED <<pending, tracker>>
    BY <1>6 DEF ReadResolved
  <2> QED BY <1>3, <2>4, <2>5 DEF Undisturbed
<1>7. CASE ReadItem
  <2>1. UNCHANGED <<micro, pending>>
    BY <1>7 DEF ReadItem
  <2>2. tracker'.muted = tracker.muted
    BY <1>7 DEF ReadItem, TypeOK, Tracker
  <2> QED BY <1>3, <2>1, <2>2 DEF Undisturbed
<1>8. CASE ReadDone
  <2>1. pending' = pending
    BY <1>8 DEF ReadDone
  <2>2. tracker'.muted = tracker.muted
    BY <1>8 DEF ReadDone, AllEnded, TypeOK, Tracker
  <2>4. micro' \in {micro, Append(micro, Line("drained", NoItem))}
    BY <1>8 DEF ReadDone
  <2>5. ~Has(micro', "response", "interrupt") /\ ~Has(micro', "refusal", "interrupt")
    <3>1. Line("drained", NoItem) \in MicroTask /\ Line("drained", NoItem).kind = "drained"
      BY LineTypes DEF Line
    <3>2. \A kind : Has(Append(micro, Line("drained", NoItem)), kind, "interrupt")
               => Has(micro, kind, "interrupt") \/ kind = "drained"
      BY <3>1, HasAppend DEF TypeOK
    <3> QED BY <2>4, <3>2 DEF Undisturbed
  <2> QED BY <1>3, <2>1, <2>2, <2>5 DEF Undisturbed
<1> QED BY <1>4, <1>5, <1>6, <1>7, <1>8 DEF Read

LEMMA UndisturbedContinuation ==
    ASSUME TypeOK, Undisturbed, Continuation
    PROVE  Undisturbed'
<1> DEFINE l == Head(micro)
<1>1. micro # << >>
  BY DEF Continuation, Continue, Answered, Refused, InterruptRefused, Drained, RegisterOn, Show
<1>2. /\ \A kind : Has(Tail(micro), kind, "interrupt") => Has(micro, kind, "interrupt")
      /\ l.kind \in {"response", "refusal"} => l.of # "interrupt"
      /\ l \in MicroTask /\ Tail(micro) \in Seq(MicroTask)
  BY <1>1, HasTail DEF TypeOK, Undisturbed
<1>3. ASSUME \A kind \in {"response", "refusal"} :
                 Has(micro', kind, "interrupt") => Has(micro, kind, "interrupt"),
             UNCHANGED <<stop, pending>>, tracker'.muted = tracker.muted
      PROVE  Undisturbed'
  BY <1>1, <1>3 DEF Undisturbed
<1>4. CASE Answered
  <2>1. l.of # "interrupt" /\ l.of \in Requests
    BY <1>2, <1>4, LineKinds DEF Answered, Continue
  <2>2. UNCHANGED <<stop, tracker>> /\ micro' = Tail(micro)
    BY <1>4, <2>1 DEF Answered
  <2>3. pending' \subseteq pending \cup {"thread", "turn"}
    <3>1. CASE l.of \in {"initialize", "thread"}
      <4>1. phase' \in {"thread", "turn"} /\ pending' = pending \cup {phase'}
        BY <1>4, <3>1 DEF Answered, Ask
      <4> QED BY <4>1
    <3>2. CASE l.of \notin {"initialize", "thread"}
      BY <1>4, <3>2 DEF Answered
    <3> QED BY <3>1, <3>2
  <2>4. ~Has(micro', "response", "interrupt") /\ ~Has(micro', "refusal", "interrupt")
    BY <1>2, <2>2 DEF Undisturbed
  <2>5. "interrupt" \notin pending'
    BY <2>3 DEF Undisturbed
  <2> QED BY <1>1, <2>2, <2>4, <2>5 DEF Undisturbed
<1>5. CASE Refused \/ Drained
  <2>1. UNCHANGED <<stop, pending>> /\ micro' = Tail(micro)
    BY <1>5 DEF Refused, Drained
  <2>2. tracker' \in {tracker, AllEnded(tracker), ExitTracked}
    BY <1>5 DEF Refused, Drained
  <2>3. tracker'.muted = tracker.muted
    BY <2>2 DEF ExitTracked, AllEnded, TypeOK, Tracker
  <2> QED BY <1>2, <1>3, <2>1, <2>3
<1>6. CASE InterruptRefused
  BY <1>2, <1>6 DEF InterruptRefused, Continue
<1>7. CASE RegisterOn
  <2>1. l.of \in Asking
    BY <1>2, <1>7, LineKinds DEF RegisterOn, Continue
  <2>2. /\ micro' = Append(Tail(micro), Line("registered", l.of))
        /\ UNCHANGED <<stop, pending, tracker>>
    BY <1>7 DEF RegisterOn
  <2>3. Line("registered", l.of) \in MicroTask /\ Line("registered", l.of).kind = "registered"
    BY <2>1, LineTypes DEF Line
  <2>4. \A kind : Has(Append(Tail(micro), Line("registered", l.of)), kind, "interrupt")
            => Has(Tail(micro), kind, "interrupt") \/ kind = "registered"
    <3> DEFINE tail == Tail(micro)
               line == Line("registered", l.of)
    <3>1. tail \in Seq(MicroTask) /\ line \in MicroTask /\ line.kind = "registered"
      BY <1>2, <2>3
    <3> HIDE DEF tail, line
    <3>2. \A kind : Has(Append(tail, line), kind, "interrupt")
               => Has(tail, kind, "interrupt") \/ kind = "registered"
      BY <3>1, HasAppend
    <3> QED BY <3>2 DEF tail, line
  <2>5. \A kind \in {"response", "refusal"} :
            Has(micro', kind, "interrupt") => Has(micro, kind, "interrupt")
    BY <1>2, <2>2, <2>4
  <2> QED BY <1>3, <2>2, <2>5
<1>8. CASE Show
  <2>1. UNCHANGED <<stop, pending>> /\ micro' = Tail(micro)
    BY <1>8 DEF Show
  <2>2. tracker' \in {tracker, AllEnded(tracker)}
    BY <1>8 DEF Show
  <2>3. tracker'.muted = tracker.muted
    BY <2>2 DEF AllEnded, TypeOK, Tracker
  <2> QED BY <1>2, <1>3, <2>1, <2>3
<1> QED BY <1>4, <1>5, <1>6, <1>7, <1>8 DEF Continuation

LEMMA UndisturbedEvents ==
    ASSUME TypeOK, Undisturbed, User \/ ResolveApproval \/ Timer \/ Exit
    PROVE  StopInv'
<1>1. CASE Stop
  <2>1. stop'.asked
    <3>1. stop' \in {[asked |-> TRUE, at |-> "ask"], [asked |-> TRUE, at |-> "over"]}
      BY <1>1 DEF Stop
    <3> QED BY <3>1
  <2> QED BY <2>1 DEF StopInv
<1>2. ASSUME NEW q \in Asking, UserAnswers(q) PROVE StopInv'
  BY <1>2 DEF UserAnswers, serverVars, Undisturbed, StopInv
<1>3. CASE ResolveApproval
  <2>1. micro' \in {micro, Dequeued(bridge)} /\ UNCHANGED <<pending, tracker, stop>>
    BY <1>3 DEF ResolveApproval
  <2>2. ~Has(Dequeued(bridge), "response", "interrupt") /\ ~Has(Dequeued(bridge), "refusal", "interrupt")
    BY HasFew DEF Dequeued
  <2> QED BY <2>1, <2>2 DEF Undisturbed, StopInv
<1>4. CASE GraceOver
  BY <1>4 DEF GraceOver, Undisturbed
<1>5. ASSUME NEW m \in pending, RequestTimeout(m) PROVE StopInv'
  <2>1. /\ micro' = <<Line("refusal", m)>> /\ pending' = pending \ {m}
        /\ UNCHANGED <<tracker, stop>>
    BY <1>5 DEF RequestTimeout
  <2>2. m # "interrupt"
    BY DEF Undisturbed
  <2>3. ~Has(micro', "response", "interrupt") /\ ~Has(micro', "refusal", "interrupt")
    BY <2>1, <2>2, HasFew
  <2> QED BY <2>1, <2>3 DEF Undisturbed, StopInv
<1>6. CASE Exit
  <2> DEFINE chosen == CHOOSE m \in pending : TRUE
             refusals == IF pending = {} THEN << >> ELSE <<Line("refusal", chosen)>>
             drains == IF HearsExit THEN <<Line("drained", NoItem)>> ELSE << >>
  <2>1. /\ micro' = refusals \o drains /\ pending' = {}
        /\ stop' = stop
        /\ tracker' \in {tracker, ExitTracked}
    BY <1>6 DEF Exit
  <2>2. tracker'.muted = tracker.muted
    BY <2>1 DEF ExitTracked, AllEnded, TypeOK, Tracker
  <2>3. refusals \in Seq(MicroTask) /\ drains \in Seq(MicroTask)
    <3>1. pending # {} => chosen \in Requests
      BY DEF TypeOK
    <3> QED BY <3>1, LineTypes
  <2>4. \A kind \in {"response", "refusal"} :
            ~Has(refusals, kind, "interrupt") /\ ~Has(drains, kind, "interrupt")
    <3>1. pending # {} => chosen # "interrupt"
      BY DEF Undisturbed
    <3> QED BY <3>1, HasFew
  <2>5. \A kind \in {"response", "refusal"} : ~Has(micro', kind, "interrupt")
    <3> HIDE DEF refusals, drains
    <3> QED BY <2>1, <2>3, <2>4, HasConcat
  <2> QED BY <2>1, <2>2, <2>5 DEF Undisturbed, StopInv
<1> QED BY <1>1, <1>2, <1>3, <1>4, <1>5, <1>6 DEF User, Timer

LEMMA StopStep ==
    ASSUME TypeOK, StopInv, [Next]_vars
    PROVE  StopInv'
<1>1. CASE stop.asked
  BY <1>1, StopLasts DEF StopInv
<1>2. CASE Undisturbed
  <2>1. CASE UNCHANGED vars
    BY <1>2, <2>1 DEF vars, serverVars, Undisturbed, StopInv
  <2>2. CASE Next
    BY <1>2, <2>2, UndisturbedServer, UndisturbedRead, UndisturbedContinuation, UndisturbedEvents
       DEF Next, StopInv
  <2> QED BY <2>1, <2>2
<1> QED BY <1>1, <1>2 DEF StopInv

-----------------------------------------------------------------------------
(* The outcome.                                                            *)

LEMMA TerminatedStream ==
    ASSUME TypeOK, ~Over, NEW failed \in BOOLEAN
    PROVE  /\ Terminated(stream, failed) \in Stream
           /\ Terminated(stream, failed).report = "none"
           /\ Terminated(stream, failed).open = stream.open \ OpenItems
           /\ Terminated(stream, failed).error <=> stream.error \/ failed
<1>1. (stream.error \/ failed) \in BOOLEAN /\ stream \in Stream
  BY DEF TypeOK, Stream
<1>2. Terminated(stream, failed) \in Stream
  BY <1>1, StreamTypes
<1>3. Terminated(stream, failed) =
        [stream EXCEPT !.at = "ended", !.open = stream.open \ OpenItems,
                       !.error = stream.error \/ failed]
  BY DEF Terminated
<1>4. Terminated(stream, failed).report = "none"
  BY <1>1, <1>3 DEF Stream, Over
<1>5. Terminated(stream, failed).open = stream.open \ OpenItems
  BY <1>1, <1>3 DEF Stream
<1>6. Terminated(stream, failed).error = (stream.error \/ failed)
  BY <1>1, <1>3 DEF Stream
<1> QED BY <1>2, <1>4, <1>5, <1>6

LEMMA CompletedStream ==
    ASSUME TypeOK, ~Over, NEW s \in Stream
    PROVE  /\ Completed(s).report \in {"finished", "error", "cancelled"}
           /\ Completed(s).report # "cancelled" => ~stop.asked
           /\ Completed(s).report = "finished" => ~s.error
           /\ Completed(s).open = s.open
<1>1. s.error \in BOOLEAN /\ stop.asked \in BOOLEAN
  BY DEF TypeOK, Stream
<1> DEFINE report == IF stop.asked THEN "cancelled" ELSE IF s.error THEN "error" ELSE "finished"
<1>2. Completed(s) = [s EXCEPT !.report = report]
  BY DEF Completed
<1>3. Completed(s).report = report /\ Completed(s).open = s.open
  BY <1>2 DEF Stream
<1>4. /\ report \in {"finished", "error", "cancelled"}
      /\ report # "cancelled" => ~stop.asked
      /\ report = "finished" => ~s.error
  BY <1>1
<1> HIDE DEF report
<1> QED BY <1>3, <1>4

(* AllEnded leaves nothing open.                                           *)
LEMMA EndedTracker ==
    ASSUME TypeOK
    PROVE  /\ \A i \in Items : AllEnded(tracker).items[i] # "open"
           /\ AllEnded(tracker).terminal = tracker.terminal
           /\ AllEnded(tracker).muted = tracker.muted
           /\ ExitTracked.terminal /\ ExitTracked.muted = tracker.muted
<1>1. tracker \in Tracker
  BY DEF TypeOK
<1>2. /\ \A i \in Items : AllEnded(tracker).items[i] # "open"
      /\ AllEnded(tracker).terminal = tracker.terminal
      /\ AllEnded(tracker).muted = tracker.muted
  BY <1>1 DEF AllEnded, OpenItems, Tracker
<1>3. ExitTracked.terminal /\ ExitTracked.muted = tracker.muted
  <2>1. AllEnded(tracker) \in Tracker
    BY <1>1, TrackerTypes
  <2>2. ExitTracked \in {[tracker EXCEPT !.terminal = TRUE],
                         [AllEnded(tracker) EXCEPT !.terminal = TRUE]}
    BY DEF ExitTracked
  <2> QED BY <1>1, <1>2, <2>1, <2>2 DEF Tracker
<1> QED BY <1>2, <1>3

(* What a step does that reports an outcome.                               *)
LEMMA OutcomeReports ==
    ASSUME TypeOK, StopInv, OutcomeInv, ~Over, NEW s \in Stream, stream' = Completed(s),
           seen' = seen,
           s.error \/ stop.asked \/ (tracker.terminal /\ s = stream),
           tracker.terminal => tracker'.terminal,
           ~stop.asked => s.open = {}
    PROVE  OutcomeInv'
<1>1. /\ stream'.report \in {"finished", "error", "cancelled"}
      /\ stream'.report # "cancelled" => ~stop.asked
      /\ stream'.report = "finished" => ~s.error
      /\ stream'.open = s.open
  BY CompletedStream
<1>2. Over'
  BY <1>1 DEF Over
<1>3. ASSUME stream'.report = "finished"
      PROVE  tracker'.terminal /\ seen' \in {"completed", "interrupted"}
  <2>1. tracker.terminal /\ s = stream /\ ~stop.asked /\ ~stream.error
    BY <1>1, <1>3
  <2>2. seen # "none" /\ ~tracker.muted
    BY <2>1 DEF StopInv, Undisturbed, OutcomeInv
  <2>3. seen # "failed"
    BY <2>1, <2>2 DEF OutcomeInv
  <2>4. seen \in {"completed", "interrupted"}
    BY <2>2, <2>3 DEF TypeOK, Outcomes
  <2> QED BY <2>1, <2>4
<1>4. stream'.report \in {"finished", "error"} => stream'.open = {}
  BY <1>1
<1> QED BY <1>2, <1>3, <1>4 DEF OutcomeInv, OutcomeIsHeard

(* A stream that has completed stays as it is.                             *)
LEMMA OverLasts ==
    ASSUME TypeOK, Over, [Next]_vars
    PROVE  stream' = stream /\ (tracker.terminal => tracker'.terminal /\ seen' = seen)
<1> USE DEF TypeOK
<1>0. /\ Completed(stream) = stream /\ Terminated(stream, TRUE) = stream
      /\ ExitError(stream) = stream
      /\ \A failed : Terminated(stream, failed) = stream
  BY DEF Completed, Terminated, ExitError
<1>1. CASE AppServer
  <2>1. UNCHANGED <<stream, tracker, seen>>
    BY <1>1 DEF AppServer, AdapterFrame, Reply, InterruptTurn, Die, StartItem, FinishItem, AskApproval,
       Settle, EndTurn
  <2> QED BY <2>1
<1>2. CASE ReadResponse \/ ReadRequest \/ ReadResolved
  BY <1>2 DEF ReadResponse, ReadRequest, ReadResolved
<1>3. CASE ReadItem
  <2>1. stream' = stream /\ seen' = seen /\ (tracker.terminal => tracker' = tracker)
    BY <1>3 DEF ReadItem
  <2> QED BY <2>1
<1>4. CASE ReadDone
  <2>1. stream' = stream /\ (tracker.terminal => tracker' = tracker /\ seen' = seen)
    BY <1>0, <1>4 DEF ReadDone
  <2> QED BY <2>1
<1>5. CASE Answered \/ InterruptRefused \/ RegisterOn \/ Show
  <2>1. stream' = stream /\ seen' = seen /\ tracker' \in {tracker, AllEnded(tracker)}
    BY <1>5 DEF Answered, InterruptRefused, RegisterOn, Show, Continue
  <2> QED BY <2>1, EndedTracker
<1>6. CASE Refused \/ Drained
  <2>1. /\ stream' = stream /\ seen' = seen
        /\ tracker' \in {tracker, AllEnded(tracker), ExitTracked}
    BY <1>0, <1>6 DEF Refused, Drained, Continue
  <2> QED BY <2>1, EndedTracker
<1>7. CASE Exit
  <2>1. stream' = stream /\ seen' = seen /\ tracker' \in {tracker, ExitTracked}
    BY <1>0, <1>7 DEF Exit
  <2> QED BY <2>1, EndedTracker
<1>8. CASE ResolveApproval
  BY <1>8 DEF ResolveApproval
<1>9. CASE Stop
  <2>1. stream' = stream /\ seen' = seen /\ tracker' \in {tracker, [tracker EXCEPT !.muted = TRUE]}
    BY <1>9 DEF Stop
  <2> QED BY <2>1 DEF Tracker
<1>10. CASE Timer \/ \E q \in Asking : UserAnswers(q)
  BY <1>10 DEF Timer, GraceOver, RequestTimeout, UserAnswers
<1>11. CASE UNCHANGED vars
  BY <1>11 DEF vars
<1> QED BY <1>1, <1>2, <1>3, <1>4, <1>5, <1>6, <1>7, <1>8, <1>9, <1>10, <1>11
        DEF Next, Read, Continuation, User

LEMMA OutcomeRead ==
    ASSUME TypeOK, StopInv, OutcomeInv, ~Over, ReadItem \/ ReadDone
    PROVE  OutcomeInv'
<1> DEFINE l == Head(out)
<1>1. out # << >> /\ l \in ServerLine
  <2>1. out # << >> /\ out \in Seq(ServerLine)
    BY DEF TypeOK, ReadItem, ReadDone, ReadLine
  <2> QED BY <2>1
<1>2. stream.report = "none" /\ stream \in Stream /\ tracker \in Tracker
  BY DEF TypeOK, Over
<1>3. CASE ReadItem
  <2>1. l.of \in Items /\ seen' = seen
    BY <1>1, <1>3, LineKinds DEF ReadItem, ReadLine
  <2>2. CASE tracker.terminal
    <3>1. UNCHANGED <<tracker, stream>>
      BY <1>3, <2>2 DEF ReadItem
    <3> QED BY <2>1, <3>1 DEF OutcomeInv, OutcomeIsHeard, Over, OpenItems
  <2>3. CASE ~tracker.terminal
    <3>1. /\ tracker' \in {tracker, [tracker EXCEPT !.items[l.of] = "open"],
                           [tracker EXCEPT !.items[l.of] = "ended"]}
          /\ stream' \in {stream, [stream EXCEPT !.open = @ \cup {l.of}],
                          [stream EXCEPT !.open = @ \ {l.of}]}
      BY <1>3 DEF ReadItem
    <3>2. tracker'.terminal = tracker.terminal /\ tracker'.muted = tracker.muted
      BY <1>2, <3>1 DEF Tracker
    <3>3. stream'.report = "none" /\ stream'.error = stream.error
      BY <1>2, <3>1 DEF Stream
    <3>4. ASSUME ~tracker.muted PROVE stream'.open \subseteq OpenItems'
      <4>0. stream.open \subseteq OpenItems
        BY <3>4 DEF OutcomeInv
      <4>1. CASE phase = "drain" /\ Begins(l)
        <5>0. ~Ends(l)
          BY <4>1 DEF Begins, Ends
        <5>1. /\ tracker' = [tracker EXCEPT !.items[l.of] = "open"]
              /\ stream' = [stream EXCEPT !.open = @ \cup {l.of}]
          BY <1>3, <2>3, <3>4, <4>1, <5>0 DEF ReadItem
        <5>2. /\ tracker'.items = [tracker.items EXCEPT ![l.of] = "open"]
              /\ stream'.open = stream.open \cup {l.of} /\ tracker.items \in [Items -> {"no", "open", "ended"}]
          BY <1>2, <5>1 DEF Tracker, Stream
        <5> QED BY <2>1, <4>0, <5>2 DEF OpenItems
      <4>2. CASE phase = "drain" /\ ~Begins(l) /\ Ends(l)
        <5>1. /\ tracker' = [tracker EXCEPT !.items[l.of] = "ended"]
              /\ stream' = [stream EXCEPT !.open = @ \ {l.of}]
          BY <1>3, <2>3, <3>4, <4>2 DEF ReadItem
        <5>2. /\ tracker'.items = [tracker.items EXCEPT ![l.of] = "ended"]
              /\ stream'.open = stream.open \ {l.of} /\ tracker.items \in [Items -> {"no", "open", "ended"}]
          BY <1>2, <5>1 DEF Tracker, Stream
        <5> QED BY <2>1, <4>0, <5>2 DEF OpenItems
      <4>3. CASE phase # "drain" \/ (~Begins(l) /\ ~Ends(l))
        <5>1. UNCHANGED <<tracker, stream>>
          BY <1>3, <4>3 DEF ReadItem
        <5> QED BY <4>0, <5>1 DEF OpenItems
      <4> QED BY <4>1, <4>2, <4>3
    <3> QED BY <2>1, <2>3, <3>2, <3>3, <3>4 DEF OutcomeInv, OutcomeIsHeard, Over
  <2> QED BY <2>2, <2>3
<1>4. CASE ReadDone
  <2>1. CASE phase = "drain" /\ ~tracker.terminal
    <3>1. /\ tracker' = [AllEnded(tracker) EXCEPT !.terminal = TRUE]
          /\ stream' = IF tracker.muted THEN stream ELSE Terminated(stream, l.of = "failed")
          /\ seen' = l.of
      BY <1>4, <2>1 DEF ReadDone
    <3>2. l.of \in Outcomes
      BY <1>1, <1>4, LineKinds DEF ReadDone, ReadLine
    <3>3. AllEnded(tracker) \in Tracker
      BY <1>2, TrackerTypes
    <3>4. tracker'.terminal /\ tracker'.muted = tracker.muted
      BY <3>1, <3>3, EndedTracker DEF Tracker
    <3>5. stream'.report = "none"
      BY <1>2, <3>1, TerminatedStream
    <3>6. ASSUME ~tracker.muted
          PROVE  stream'.open = {} /\ (l.of = "failed" => stream'.error)
      <4>1. /\ Terminated(stream, l.of = "failed").open = stream.open \ OpenItems
            /\ Terminated(stream, l.of = "failed").error <=> stream.error \/ l.of = "failed"
        BY TerminatedStream
      <4>2. stream.open \subseteq OpenItems
        BY <3>6 DEF OutcomeInv
      <4> QED BY <3>1, <3>6, <4>1, <4>2
    <3>7. seen' # "none"
      BY <3>1, <3>2 DEF Outcomes
    <3> QED BY <3>1, <3>4, <3>5, <3>6, <3>7 DEF OutcomeInv, OutcomeIsHeard, Over
  <2>2. CASE ~(phase = "drain" /\ ~tracker.terminal)
    <3>1. UNCHANGED <<tracker, stream, seen>>
      BY <1>4, <2>2 DEF ReadDone
    <3> QED BY <3>1 DEF OutcomeInv, OutcomeIsHeard, Over, OpenItems
  <2> QED BY <2>1, <2>2
<1> QED BY <1>3, <1>4

(* executeRun ends, or the exit is unexpected.                             *)
LEMMA OutcomeEnds ==
    ASSUME TypeOK, StopInv, OutcomeInv, ~Over, Refused \/ Drained \/ Exit
    PROVE  OutcomeInv'
<1>1. stream \in Stream /\ tracker \in Tracker /\ stop.asked \in BOOLEAN
  BY DEF TypeOK
<1>2. Aborted => stop.asked
  BY DEF Aborted, StopInv, Undisturbed
<1>3. ~stop.asked => ~tracker.muted /\ stream.open \subseteq OpenItems
  BY DEF StopInv, Undisturbed, OutcomeInv
<1>4. /\ Terminated(stream, TRUE) \in Stream /\ Terminated(stream, TRUE).error
      /\ Terminated(stream, TRUE).open = stream.open \ OpenItems
  BY TerminatedStream
<1>5. /\ ExitError(stream) \in Stream
      /\ ~stop.asked => ExitError(stream).error /\ ExitError(stream).open = {}
  BY <1>1, <1>3, <1>4 DEF ExitError
<1>6. CASE Refused
  <2>1. seen' = seen /\ tracker' \in {tracker, AllEnded(tracker)}
    BY <1>6 DEF Refused, Continue
  <2>2. tracker.terminal => tracker'.terminal
    BY <2>1, EndedTracker
  <2>3. CASE Aborted
    <3>1. stream' = Completed(stream)
      BY <1>6, <2>3 DEF Refused
    <3> QED BY <1>1, <1>2, <2>1, <2>2, <2>3, <3>1, OutcomeReports
  <2>4. CASE ~Aborted
    <3>1. stream' = Completed(Terminated(stream, TRUE))
      BY <1>6, <2>4 DEF Refused
    <3>2. ~stop.asked => Terminated(stream, TRUE).open = {}
      BY <1>3, <1>4
    <3> QED BY <1>4, <2>1, <2>2, <3>1, <3>2, OutcomeReports
  <2> QED BY <2>3, <2>4
<1>7. CASE Drained
  <2>1. seen' = seen /\ tracker' \in {tracker, ExitTracked}
    BY <1>7 DEF Drained, Continue
  <2>2. tracker.terminal => tracker'.terminal
    BY <2>1, EndedTracker
  <2>3. CASE tracker.terminal \/ Aborted
    <3>1. stream' = Completed(stream)
      BY <1>7, <2>3 DEF Drained
    <3>2. ~stop.asked => stream.open = {}
      BY <1>2, <1>3, <2>3 DEF OutcomeInv
    <3> QED BY <1>1, <1>2, <2>1, <2>2, <2>3, <3>1, <3>2, OutcomeReports
  <2>4. CASE ~(tracker.terminal \/ Aborted)
    <3>1. stream' = Completed(ExitError(stream))
      BY <1>7, <2>4 DEF Drained
    <3> QED BY <1>1, <1>5, <2>1, <2>2, <3>1, OutcomeReports
  <2> QED BY <2>3, <2>4
<1>8. CASE Exit
  <2>1. seen' = seen
    BY <1>8 DEF Exit
  <2>2. CASE ~killed /\ ~tracker.terminal
    <3>1. stream' = Completed(ExitError(stream)) /\ tracker' = ExitTracked
      BY <1>8, <2>2 DEF Exit
    <3>2. tracker.terminal => tracker'.terminal
      BY <2>2
    <3> QED BY <1>1, <1>5, <2>1, <3>1, <3>2, OutcomeReports
  <2>3. CASE ~(~killed /\ ~tracker.terminal)
    <3>1. UNCHANGED <<tracker, stream>>
      BY <1>8, <2>3 DEF Exit
    <3> QED BY <2>1, <3>1 DEF OutcomeInv, OutcomeIsHeard, Over, OpenItems
  <2> QED BY <2>2, <2>3
<1> QED BY <1>6, <1>7, <1>8

LEMMA OutcomeStep ==
    ASSUME TypeOK, StopInv, OutcomeInv, [Next]_vars
    PROVE  OutcomeInv'
<1>1. CASE Over
  <2>1. stream' = stream /\ (tracker.terminal => tracker'.terminal /\ seen' = seen)
    BY <1>1, OverLasts
  <2> QED BY <1>1, <2>1 DEF OutcomeInv, OutcomeIsHeard, Over
<1>2. CASE ~Over
  <2>1. stream \in Stream /\ tracker \in Tracker
    BY DEF TypeOK
  <2>2. ASSUME UNCHANGED <<tracker, seen>>, stream'.open = stream.open, stream'.error = stream.error,
               stream'.report = stream.report
        PROVE  OutcomeInv'
    BY <2>2 DEF OutcomeInv, OutcomeIsHeard, Over, OpenItems
  <2>3. CASE AppServer \/ ReadResponse \/ ReadRequest \/ ReadResolved
    <3>1. UNCHANGED <<tracker, stream, seen>>
      BY <2>3 DEF AppServer, AdapterFrame, Reply, InterruptTurn, Die, StartItem, FinishItem, AskApproval,
         Settle, EndTurn, ReadResponse, ReadRequest, ReadResolved
    <3> QED BY <2>2, <3>1
  <2>4. CASE InterruptRefused \/ RegisterOn
    <3>1. UNCHANGED <<tracker, stream, seen>>
      BY <2>4 DEF InterruptRefused, RegisterOn, Continue
    <3> QED BY <2>2, <3>1
  <2>5. CASE Timer \/ (\E q \in Asking : UserAnswers(q)) \/ UNCHANGED vars
    <3>1. UNCHANGED <<tracker, stream, seen>>
      BY <2>5 DEF Timer, GraceOver, RequestTimeout, UserAnswers, vars
    <3> QED BY <2>2, <3>1
  <2>6. CASE Answered
    <3>1. stream' \in {stream, [stream EXCEPT !.at = "running"]} /\ UNCHANGED <<tracker, seen>>
      BY <2>6 DEF Answered, Continue
    <3> QED BY <2>1, <2>2, <3>1 DEF Stream
  <2>7. CASE ResolveApproval
    <3>1. /\ stream' \in {stream, [stream EXCEPT !.at = "running", !.shown = NoItem]}
          /\ UNCHANGED <<tracker, seen>>
      BY <2>7 DEF ResolveApproval
    <3> QED BY <2>1, <2>2, <3>1 DEF Stream
  <2>8. CASE Stop
    <3>1. tracker' \in {tracker, [tracker EXCEPT !.muted = TRUE]} /\ UNCHANGED <<stream, seen>>
      BY <2>8 DEF Stop
    <3>2. CASE tracker' = tracker
      BY <2>2, <3>1, <3>2
    <3>3. CASE tracker' = [tracker EXCEPT !.muted = TRUE]
      <4>1. tracker'.muted /\ tracker'.terminal = tracker.terminal
        BY <2>1, <3>3 DEF Tracker
      <4> QED BY <3>1, <4>1 DEF OutcomeInv, OutcomeIsHeard, Over
    <3> QED BY <3>1, <3>2, <3>3
  <2>9. CASE Show
    <3> DEFINE q == Head(micro).of
    <3>1. CASE bridge.slot = q
      <4>1. /\ tracker' = AllEnded(tracker) /\ seen' = seen
            /\ stream' = [Terminated(stream, FALSE) EXCEPT !.shown = q]
        BY <1>2, <2>9, <3>1 DEF Show, Continue
      <4>2. /\ Terminated(stream, FALSE) \in Stream
            /\ Terminated(stream, FALSE).report = "none"
            /\ Terminated(stream, FALSE).open = stream.open \ OpenItems
            /\ Terminated(stream, FALSE).error <=> stream.error
        BY <1>2, TerminatedStream
      <4>3. stream'.report = "none" /\ stream'.open = stream.open \ OpenItems /\ (stream'.error <=> stream.error)
        BY <4>1, <4>2 DEF Stream
      <4>4. tracker'.terminal = tracker.terminal /\ tracker'.muted = tracker.muted
        BY <4>1, EndedTracker
      <4>5. ~tracker.muted => stream'.open = {}
        BY <1>2, <4>3 DEF OutcomeInv
      <4> QED BY <1>2, <4>1, <4>3, <4>4, <4>5 DEF OutcomeInv, OutcomeIsHeard, Over
    <3>2. CASE bridge.slot # q
      <4>1. UNCHANGED <<tracker, stream, seen>>
        BY <2>9, <3>2 DEF Show, Continue
      <4> QED BY <2>2, <4>1
    <3> QED BY <3>1, <3>2
  <2>10. CASE ReadItem \/ ReadDone
    BY <1>2, <2>10, OutcomeRead
  <2>11. CASE Refused \/ Drained \/ Exit
    BY <1>2, <2>11, OutcomeEnds
  <2> QED BY <2>3, <2>4, <2>5, <2>6, <2>7, <2>8, <2>9, <2>10, <2>11
          DEF Next, Read, Continuation, User
<1> QED BY <1>1, <1>2

-----------------------------------------------------------------------------
(* The requests.                                                           *)

(* A step after which every request stands where it stood, or nowhere, and *)
(* which writes no response.                                               *)
LEMMA RequestsStay ==
    ASSUME RequestInv,
           \A q \in Asking : Has(out', "request", q) => Has(out, "request", q),
           \A q \in Asking : Has(micro', "dequeued", q) => Has(micro, "dequeued", q),
           \A q \in Asking : Holds(bridge'.queue, q) => Holds(bridge.queue, q),
           \A q \in Asking : bridge'.slot = q => bridge.slot = q,
           HasOnce(out', "request"), HoldsOnce(bridge'.queue),
           sent' = sent,
           \A q \in Asking : approval'[q] = "no" <=> approval[q] = "no"
    PROVE  RequestInv'
<1>1. ASSUME NEW q \in Asking
      PROVE  /\ Has(out', "request", q) =>
                  ~Holds(bridge'.queue, q) /\ bridge'.slot # q /\ ~Has(micro', "dequeued", q)
             /\ Holds(bridge'.queue, q) => bridge'.slot # q /\ ~Has(micro', "dequeued", q)
             /\ Waits(q)' => sent'[q] = 0 /\ approval'[q] # "no"
             /\ approval'[q] = "no" => sent'[q] = 0
  <2>1. Waits(q)' => Waits(q)
    BY DEF Waits
  <2> QED BY <2>1 DEF RequestInv
<1>2. AnsweredOnce'
  BY DEF RequestInv, AnsweredOnce
<1> QED BY <1>1, <1>2 DEF RequestInv

(* A response is written for the request in the slot, which leaves it.     *)
LEMMA RequestAnswered ==
    ASSUME TypeOK, RequestInv, bridge.slot # NoItem, micro = << >>,
           Respond(bridge.slot), out' = out,
           bridge'.slot \in {NoItem, MarkResolved(bridge).slot},
           bridge'.queue \in {<< >>, MarkResolved(bridge).queue},
           \A q \in Asking : Has(micro', "dequeued", q) => Has(Dequeued(bridge), "dequeued", q)
    PROVE  RequestInv'
<1> DEFINE a == bridge.slot
<1>1. /\ a \in Asking /\ bridge.queue \in Seq(Asking) /\ NoItem \notin Asking
      /\ sent \in [Asking -> Nat] /\ out \in Seq(ServerLine)
      /\ approval \in [Asking -> {"no", "asked", "answered", "settled"}]
  BY CodexAssumption DEF TypeOK, Bridge
<1>2. /\ \A q \in Asking : Holds(bridge'.queue, q) => Holds(bridge.queue, q)
      /\ \A q \in Asking : bridge'.slot = q => Holds(bridge.queue, q) /\ ~Holds(bridge'.queue, q)
      /\ \A q \in Asking : Has(micro', "dequeued", q) => Holds(bridge.queue, q) /\ ~Holds(bridge'.queue, q)
      /\ HoldsOnce(bridge'.queue)
  <2>1. HoldsOnce(bridge.queue) /\ HoldsOnce(<< >>) /\ \A q : ~Holds(<< >>, q)
    BY HasFew DEF RequestInv, HoldsOnce
  <2>2. \A kind, q : ~Has(<< >>, kind, q)
    BY HasFew
  <2>3. CASE bridge.queue = << >>
    <3>1. MarkResolved(bridge).slot = NoItem /\ MarkResolved(bridge).queue = << >> /\ Dequeued(bridge) = << >>
      BY <2>3 DEF MarkResolved, NextInLine, Dequeued
    <3>2. bridge'.slot = NoItem /\ bridge'.queue = << >>
      BY <3>1
    <3>3. \A q \in Asking : ~Has(micro', "dequeued", q) /\ ~Holds(bridge'.queue, q) /\ bridge'.slot # q
      BY <1>1, <2>1, <2>2, <3>1, <3>2
    <3> QED BY <2>1, <3>2, <3>3
  <2>4. CASE bridge.queue # << >>
    <3> DEFINE h == Head(bridge.queue)
               t == Tail(bridge.queue)
    <3>1. MarkResolved(bridge).slot = h /\ MarkResolved(bridge).queue = t
      BY <2>4 DEF MarkResolved, NextInLine
    <3>2. \A q : Has(Dequeued(bridge), "dequeued", q) => q = h
      BY <2>4, HasFew DEF Dequeued
    <3>3. /\ \A q : Holds(t, q) => Holds(bridge.queue, q)
          /\ Holds(bridge.queue, h) /\ HoldsOnce(t) /\ ~Holds(t, h) /\ h \in Asking
      BY <1>1, <2>1, <2>4, HoldsTail
    <3> HIDE DEF h, t
    <3>4. bridge'.queue \in {<< >>, t} /\ bridge'.slot \in {NoItem, h}
      BY <3>1
    <3>5. \A q : Holds(bridge'.queue, q) => Holds(t, q)
      BY <2>1, <3>4
    <3>6. HoldsOnce(bridge'.queue)
      BY <2>1, <3>3, <3>4
    <3> QED BY <1>1, <3>2, <3>3, <3>4, <3>5, <3>6
  <2> QED BY <2>3, <2>4
<1>3. /\ sent'[a] = 1 /\ \A q \in Asking : q # a => sent'[q] = sent[q]
      /\ \A q \in Asking : approval'[q] = "no" <=> approval[q] = "no"
      /\ approval[a] # "no"
  <2>1. sent[a] = 0 /\ approval[a] # "no"
    BY <1>1 DEF RequestInv, Waits
  <2> QED BY <1>1, <2>1 DEF Respond
<1>4. ~Has(out, "request", a) /\ ~Holds(bridge.queue, a)
  BY <1>1 DEF RequestInv
<1>5. ASSUME NEW q \in Asking
      PROVE  /\ Has(out', "request", q) =>
                  ~Holds(bridge'.queue, q) /\ bridge'.slot # q /\ ~Has(micro', "dequeued", q)
             /\ Holds(bridge'.queue, q) => bridge'.slot # q /\ ~Has(micro', "dequeued", q)
  BY <1>2 DEF RequestInv
<1>6. ASSUME NEW q \in Asking, Waits(q)'
      PROVE  sent'[q] = 0 /\ approval'[q] # "no"
  <2>1. Has(out, "request", q) \/ Holds(bridge.queue, q)
    BY <1>2, <1>6 DEF Waits
  <2>2. q # a
    BY <1>4, <2>1
  <2>3. sent[q] = 0 /\ approval[q] # "no"
    BY <2>1 DEF RequestInv, Waits
  <2> QED BY <1>3, <2>2, <2>3
<1>7. ASSUME NEW q \in Asking
      PROVE  (approval'[q] = "no" => sent'[q] = 0) /\ sent'[q] <= 1
  BY <1>3, <1>7 DEF RequestInv, AnsweredOnce
<1>8. HasOnce(out', "request") /\ HoldsOnce(bridge'.queue)
  BY <1>2 DEF RequestInv
<1> QED BY <1>5, <1>6, <1>7, <1>8 DEF RequestInv, AnsweredOnce

LEMMA RequestServer ==
    ASSUME TypeOK, RequestInv, AppServer
    PROVE  RequestInv'
<1>1. UNCHANGED <<micro, bridge, sent>>
  BY DEF AppServer, Reply, InterruptTurn, Die, StartItem, FinishItem, AskApproval, Settle, EndTurn,
     AdapterFrame
<1>2. out \in Seq(ServerLine) /\ sent \in [Asking -> Nat]
      /\ approval \in [Asking -> {"no", "asked", "answered", "settled"}]
  BY DEF TypeOK
<1>3. ASSUME NEW l \in ServerLine, l.kind # "request", out' = Append(out, l) \/ out' = out,
             \A q \in Asking : approval'[q] = "no" <=> approval[q] = "no"
      PROVE  RequestInv'
  <2>1. /\ \A q : Has(Append(out, l), "request", q) => Has(out, "request", q)
        /\ HasOnce(out, "request")
    BY <1>2, <1>3, HasAppend DEF RequestInv
  <2>2. HasOnce(Append(out, l), "request")
    BY <1>2, <1>3, <2>1, HasOnceAppend
  <2>3. HasOnce(out', "request") /\ \A q \in Asking : Has(out', "request", q) => Has(out, "request", q)
    BY <1>3, <2>1, <2>2
  <2>4. HoldsOnce(bridge'.queue)
    BY <1>1 DEF RequestInv
  <2> QED BY <1>1, <1>3, <2>3, <2>4, RequestsStay
<1>4. /\ \A m \in Requests, kind \in {"response", "refusal"} :
           Line(kind, m) \in ServerLine /\ Line(kind, m).kind # "request"
      /\ \A i \in Items, kind \in {"started", "completed"} :
           Line(kind, i) \in ServerLine /\ Line(kind, i).kind # "request"
      /\ \A q \in Asking : Line("resolved", q) \in ServerLine /\ Line("resolved", q).kind # "request"
      /\ \A status \in Outcomes :
           Line("done", status) \in ServerLine /\ Line("done", status).kind # "request"
  BY LineTypes DEF Line
<1>5. CASE Reply
  <2>1. server.asked \in Requests
    BY <1>5 DEF Reply, TypeOK, Server
  <2>2. PICK kind \in {"response", "refusal"} : out' = Append(out, Line(kind, server.asked))
    BY <1>5 DEF Reply
  <2>3. approval' = approval
    BY <1>5 DEF Reply
  <2> QED BY <1>3, <1>4, <2>1, <2>2, <2>3
<1>6. CASE Die
  <2>1. out' = out /\ approval' = approval
    BY <1>6 DEF Die
  <2>2. Line("done", "failed") \in ServerLine /\ Line("done", "failed").kind # "request"
    BY <1>4 DEF Outcomes
  <2> QED BY <1>3, <2>1, <2>2
<1>11. CASE InterruptTurn
  <2>1. out' = out /\ approval' = approval
    BY <1>11 DEF InterruptTurn
  <2>2. Line("done", "failed") \in ServerLine /\ Line("done", "failed").kind # "request"
    BY <1>4 DEF Outcomes
  <2> QED BY <1>3, <2>1, <2>2
<1>7. ASSUME NEW i \in Items, StartItem(i) \/ FinishItem(i) PROVE RequestInv'
  <2>1. PICK kind \in {"started", "completed"} : out' = Append(out, Line(kind, i))
    BY <1>7 DEF StartItem, FinishItem
  <2>2. approval' = approval
    BY <1>7 DEF StartItem, FinishItem
  <2> QED BY <1>3, <1>4, <2>1, <2>2
<1>8. ASSUME NEW q \in Asking, Settle(q) PROVE RequestInv'
  <2>1. out' = Append(out, Line("resolved", q))
    BY <1>8 DEF Settle
  <2>2. \A p \in Asking : approval'[p] = "no" <=> approval[p] = "no"
    BY <1>2, <1>8 DEF Settle
  <2> QED BY <1>3, <1>4, <2>1, <2>2
<1>9. ASSUME NEW status \in Outcomes, EndTurn(status) PROVE RequestInv'
  <2>1. out' = Append(out, Line("done", status)) /\ approval' = approval
    BY <1>9 DEF EndTurn
  <2> QED BY <1>3, <1>4, <2>1
<1>10. ASSUME NEW q \in Asking, AskApproval(q) PROVE RequestInv'
  <2>1. /\ approval[q] = "no" /\ approval' = [approval EXCEPT ![q] = "asked"]
        /\ out' = Append(out, Line("request", q))
    BY <1>10 DEF AskApproval
  <2>2. /\ ~Has(out, "request", q) /\ ~Holds(bridge.queue, q) /\ bridge.slot # q
        /\ ~Has(micro, "dequeued", q) /\ sent[q] = 0
    BY <2>1 DEF RequestInv, Waits
  <2>3. /\ Line("request", q) \in ServerLine /\ Line("request", q).kind = "request"
        /\ Line("request", q).of = q
    BY LineTypes DEF Line
  <2>4. \A p : Has(out', "request", p) <=> Has(out, "request", p) \/ p = q
    BY <1>2, <2>1, <2>3, HasAppend
  <2>5. HasOnce(out', "request")
    BY <1>2, <2>1, <2>2, <2>3, HasOnceAppend DEF RequestInv
  <2>6. approval'[q] = "asked" /\ \A p \in Asking : p # q => approval'[p] = approval[p]
    BY <1>2, <2>1
  <2>7. ASSUME NEW p \in Asking
        PROVE  /\ Has(out', "request", p) =>
                    ~Holds(bridge'.queue, p) /\ bridge'.slot # p /\ ~Has(micro', "dequeued", p)
               /\ Holds(bridge'.queue, p) => bridge'.slot # p /\ ~Has(micro', "dequeued", p)
               /\ Waits(p)' => sent'[p] = 0 /\ approval'[p] # "no"
               /\ approval'[p] = "no" => sent'[p] = 0
    <3>1. CASE p = q
      BY <1>1, <2>2, <2>6, <3>1
    <3>2. CASE p # q
      <4>1. Waits(p)' => Waits(p)
        BY <1>1, <2>4, <3>2 DEF Waits
      <4> QED BY <1>1, <2>4, <2>6, <3>2, <4>1 DEF RequestInv
    <3> QED BY <3>1, <3>2
  <2>8. HoldsOnce(bridge'.queue) /\ AnsweredOnce'
    BY <1>1 DEF RequestInv, AnsweredOnce
  <2> QED BY <2>5, <2>7, <2>8 DEF RequestInv
<1> QED BY <1>5, <1>6, <1>7, <1>8, <1>9, <1>10, <1>11 DEF AppServer, Outcomes

(* A line of stdout is taken.                                              *)
LEMMA RequestRead ==
    ASSUME TypeOK, RequestInv, Read
    PROVE  RequestInv'
<1> DEFINE l == Head(out)
<1>1. out # << >> /\ out' = Tail(out) /\ UNCHANGED <<sent, approval>>
  BY DEF Read, ReadLine, ReadResponse, ReadRequest, ReadResolved, ReadItem, ReadDone
<1>2. /\ out \in Seq(ServerLine) /\ micro \in Seq(MicroTask) /\ bridge \in Bridge
      /\ bridge.queue \in Seq(Asking) /\ HasOnce(out, "request") /\ HoldsOnce(bridge.queue)
  BY DEF TypeOK, Bridge, RequestInv
<1>3. /\ l \in ServerLine /\ HasOnce(out', "request")
      /\ \A q \in Asking : Has(out', "request", q) => Has(out, "request", q)
      /\ l.kind = "request" => Has(out, "request", l.of) /\ ~Has(out', "request", l.of)
  <2>1. HasOnce(Tail(out), "request") /\ (l.kind = "request" => ~Has(Tail(out), "request", l.of))
    BY <1>1, <1>2, HasOnceTail
  <2>2. /\ \A q : Has(Tail(out), "request", q) => Has(out, "request", q)
        /\ l.kind = "request" => Has(out, "request", l.of)
        /\ l \in ServerLine
    BY <1>1, <1>2, HasTail
  <2> QED BY <1>1, <2>1, <2>2
<1>4. ASSUME UNCHANGED bridge, \A q : Has(micro', "dequeued", q) => Has(micro, "dequeued", q)
      PROVE  RequestInv'
  BY <1>1, <1>2, <1>3, <1>4, RequestsStay
<1>5. ASSUME NEW t \in MicroTask, t.kind # "dequeued", micro' \in {micro, Append(micro, t)}
      PROVE  \A q : Has(micro', "dequeued", q) => Has(micro, "dequeued", q)
  <2>1. \A q : Has(Append(micro, t), "dequeued", q) => Has(micro, "dequeued", q)
    BY <1>2, <1>5, HasAppend
  <2> QED BY <1>5, <2>1
<1>6. CASE ReadResponse
  <2>1. /\ l.kind # "dequeued" /\ l \in MicroTask /\ UNCHANGED bridge
        /\ micro' \in {micro, Append(micro, l)}
    BY <1>3, <1>6, LineKinds DEF ReadResponse, ReadLine
  <2> QED BY <1>4, <1>5, <2>1
<1>7. CASE ReadDone
  <2>1. UNCHANGED bridge /\ micro' \in {micro, Append(micro, Line("drained", NoItem))}
    BY <1>7 DEF ReadDone
  <2>2. Line("drained", NoItem) \in MicroTask /\ Line("drained", NoItem).kind # "dequeued"
    BY LineTypes DEF Line
  <2> QED BY <1>4, <1>5, <2>1, <2>2
<1>8. CASE ReadItem
  BY <1>4, <1>8 DEF ReadItem
<1>9. CASE ReadRequest
  <2> DEFINE q == l.of
  <2>1. q \in Asking /\ l.kind = "request"
    BY <1>3, <1>9, LineKinds DEF ReadRequest, ReadLine
  <2>2. /\ ~Holds(bridge.queue, q) /\ bridge.slot # q /\ ~Has(micro, "dequeued", q)
        /\ ~Has(out', "request", q) /\ sent[q] = 0 /\ approval[q] # "no"
    BY <1>3, <2>1 DEF RequestInv, Waits
  <2>3. Line("registered", q) \in MicroTask /\ Line("registered", q).kind # "dequeued"
    BY <2>1, LineTypes DEF Line
  <2>4. micro' \in {micro, Append(micro, Line("registered", q))}
    BY <1>9 DEF ReadRequest
  <2>5. \A p : Has(micro', "dequeued", p) => Has(micro, "dequeued", p)
    BY <1>5, <2>3, <2>4
  <2> HIDE DEF q
  <2>6. CASE UNCHANGED bridge
    BY <1>4, <2>5, <2>6
  <2>7. ASSUME \A p \in Asking : bridge'.slot = p => bridge.slot = p \/ (p = q /\ ~Holds(bridge'.queue, q)),
               \A p \in Asking : Holds(bridge'.queue, p) => Holds(bridge.queue, p) \/ (p = q /\ bridge'.slot # q),
               HoldsOnce(bridge'.queue)
        PROVE  RequestInv'
    <3>1. ASSUME NEW p \in Asking
          PROVE  /\ Has(out', "request", p) =>
                      ~Holds(bridge'.queue, p) /\ bridge'.slot # p /\ ~Has(micro', "dequeued", p)
                 /\ Holds(bridge'.queue, p) => bridge'.slot # p /\ ~Has(micro', "dequeued", p)
                 /\ Waits(p)' => sent'[p] = 0 /\ approval'[p] # "no"
                 /\ approval'[p] = "no" => sent'[p] = 0
      <4>1. CASE p = q
        BY <1>1, <2>2, <2>5, <2>7, <4>1
      <4>2. CASE p # q
        <5>1. Waits(p)' => Waits(p)
          BY <1>3, <2>5, <2>7, <4>2 DEF Waits
        <5> QED BY <1>1, <1>3, <2>5, <2>7, <4>2, <5>1 DEF RequestInv
      <4> QED BY <4>1, <4>2
    <3>2. AnsweredOnce'
      BY <1>1 DEF RequestInv, AnsweredOnce
    <3> QED BY <1>3, <2>7, <3>1, <3>2 DEF RequestInv
  <2>8. CASE bridge' = [bridge EXCEPT !.slot = q]
    <3>1. bridge'.slot = q /\ bridge'.queue = bridge.queue
      BY <1>2, <2>8 DEF Bridge
    <3> QED BY <1>2, <2>2, <2>7, <3>1
  <2>9. CASE bridge' = [bridge EXCEPT !.queue = Append(@, q)]
    <3>1. bridge'.slot = bridge.slot /\ bridge'.queue = Append(bridge.queue, q)
      BY <1>2, <2>9 DEF Bridge
    <3>2. /\ \A p : Holds(Append(bridge.queue, q), p) <=> Holds(bridge.queue, p) \/ p = q
          /\ HoldsOnce(Append(bridge.queue, q))
      BY <1>2, <2>1, <2>2, HoldsAppend DEF q
    <3> QED BY <2>2, <2>7, <3>1, <3>2
  <2> QED BY <1>9, <2>6, <2>8, <2>9 DEF ReadRequest, q
<1>10. CASE ReadResolved
  <2> DEFINE q == l.of
  <2>1. q \in Asking
    BY <1>3, <1>10, LineKinds DEF ReadResolved, ReadLine
  <2>2. CASE phase = "drain" /\ bridge.slot = q
    <3>1. bridge' = MarkResolved(bridge) /\ micro' = micro \o Dequeued(bridge)
      BY <1>10, <2>2 DEF ReadResolved
    <3>2. Dequeued(bridge) \in Seq(MicroTask)
      BY <1>2, BridgeTypes
    <3>3. \A p : Has(micro', "dequeued", p) <=> Has(micro, "dequeued", p) \/ Has(Dequeued(bridge), "dequeued", p)
      BY <1>2, <3>1, <3>2, HasConcat
    <3>4. CASE bridge.queue = << >>
      <4>1. bridge'.slot = NoItem /\ bridge'.queue = << >> /\ \A p : ~Has(Dequeued(bridge), "dequeued", p)
        BY <3>1, <3>4, HasFew DEF MarkResolved, NextInLine, Dequeued
      <4>2. NoItem \notin Asking
        BY CodexAssumption
      <4> QED BY <1>1, <1>2, <1>3, <3>3, <3>4, <4>1, <4>2, RequestsStay
    <3>5. CASE bridge.queue # << >>
      <4> DEFINE h == Head(bridge.queue)
                 t == Tail(bridge.queue)
      <4>1. bridge'.slot = h /\ bridge'.queue = t /\ \A p : Has(Dequeued(bridge), "dequeued", p) => p = h
        BY <3>1, <3>5, HasFew DEF MarkResolved, NextInLine, Dequeued
      <4>2. /\ \A p : Holds(t, p) => Holds(bridge.queue, p)
            /\ Holds(bridge.queue, h) /\ HoldsOnce(t) /\ ~Holds(t, h) /\ h \in Asking
        BY <1>2, <3>5, HoldsTail
      <4> HIDE DEF h, t
      <4>3. ASSUME NEW p \in Asking
            PROVE  /\ Has(out', "request", p) =>
                        ~Holds(bridge'.queue, p) /\ bridge'.slot # p /\ ~Has(micro', "dequeued", p)
                   /\ Holds(bridge'.queue, p) => bridge'.slot # p /\ ~Has(micro', "dequeued", p)
                   /\ Waits(p)' => Waits(p)
        <5>1. Has(micro', "dequeued", p) => Has(micro, "dequeued", p) \/ p = h
          BY <3>3, <4>1
        <5>2. Waits(p)' => Waits(p)
          BY <1>3, <4>1, <4>2, <5>1 DEF Waits
        <5> QED BY <1>3, <4>1, <4>2, <5>1, <5>2 DEF RequestInv
      <4>4. \A p \in Asking : /\ Waits(p)' => sent'[p] = 0 /\ approval'[p] # "no"
                              /\ approval'[p] = "no" => sent'[p] = 0
        BY <1>1, <4>3 DEF RequestInv
      <4>5. AnsweredOnce'
        BY <1>1 DEF RequestInv, AnsweredOnce
      <4> QED BY <1>3, <4>1, <4>2, <4>3, <4>4, <4>5 DEF RequestInv
    <3> QED BY <3>4, <3>5
  <2>3. CASE ~(phase = "drain" /\ bridge.slot = q)
    <3>1. micro' = micro /\ bridge' \in {bridge, [bridge EXCEPT !.resolved = @ \cup {q}]}
      BY <1>10, <2>3 DEF ReadResolved
    <3>2. bridge'.slot = bridge.slot /\ bridge'.queue = bridge.queue
      BY <1>2, <3>1 DEF Bridge
    <3> QED BY <1>1, <1>2, <1>3, <3>1, <3>2, RequestsStay
  <2> QED BY <2>2, <2>3
<1> QED BY <1>6, <1>7, <1>8, <1>9, <1>10 DEF Read

LEMMA EmptiedBridge ==
    ASSUME NEW b \in Bridge
    PROVE  Emptied(b).slot = NoItem /\ Emptied(b).queue = << >>
  BY DEF Emptied, Bridge

(* A step that at most empties the bridge and takes continuations.         *)
LEMMA RequestsDrop ==
    ASSUME TypeOK, RequestInv, bridge' \in {bridge, Emptied(bridge)},
           \A q \in Asking : Has(micro', "dequeued", q) => Has(micro, "dequeued", q),
           UNCHANGED <<out, sent, approval>>
    PROVE  RequestInv'
<1>1. bridge \in Bridge /\ NoItem \notin Asking
  BY CodexAssumption DEF TypeOK
<1>2. HoldsOnce(<< >>) /\ \A q : ~Holds(<< >>, q)
  BY HasFew DEF HoldsOnce
<1>3. Emptied(bridge).slot = NoItem /\ Emptied(bridge).queue = << >>
  BY <1>1, EmptiedBridge
<1>4. /\ \A q \in Asking : Holds(bridge'.queue, q) => Holds(bridge.queue, q)
      /\ \A q \in Asking : bridge'.slot = q => bridge.slot = q
      /\ HoldsOnce(bridge'.queue)
  BY <1>1, <1>2, <1>3 DEF RequestInv
<1>5. HasOnce(out', "request")
  BY DEF RequestInv
<1> QED BY <1>4, <1>5, RequestsStay

LEMMA RequestContinuation ==
    ASSUME TypeOK, RequestInv, Continuation
    PROVE  RequestInv'
<1> DEFINE l == Head(micro)
<1>1. micro # << >> /\ UNCHANGED <<out, sent, approval>>
  BY DEF Continuation, Continue, Answered, Refused, InterruptRefused, Drained, RegisterOn, Show
<1>2. /\ l \in MicroTask /\ Tail(micro) \in Seq(MicroTask)
      /\ \A q : Has(Tail(micro), "dequeued", q) => Has(micro, "dequeued", q)
      /\ l.kind = "dequeued" => Has(micro, "dequeued", l.of)
  BY <1>1, HasTail DEF TypeOK
<1>3. CASE Answered \/ Refused \/ Drained \/ Show
  <2>1. micro' = Tail(micro) /\ bridge' \in {bridge, Emptied(bridge)}
    BY <1>3 DEF Answered, Refused, Drained, Show
  <2> QED BY <1>1, <1>2, <2>1, RequestsDrop
<1>4. CASE InterruptRefused
  <2>1. micro' = Tail(micro) \o Drain /\ bridge' = Emptied(bridge)
    BY <1>4 DEF InterruptRefused, Release
  <2>2. Drain \in Seq(MicroTask) /\ \A q : ~Has(Drain, "dequeued", q)
    BY LineTypes, HasFew DEF Drain
  <2>3. \A q : Has(micro', "dequeued", q) => Has(micro, "dequeued", q)
    <3>1. \A q : Has(Tail(micro) \o Drain, "dequeued", q)
              => Has(Tail(micro), "dequeued", q) \/ Has(Drain, "dequeued", q)
      <4> DEFINE tail == Tail(micro)
      <4>1. tail \in Seq(MicroTask)
        BY <1>2
      <4> HIDE DEF tail
      <4>2. \A q : Has(tail \o Drain, "dequeued", q) => Has(tail, "dequeued", q) \/ Has(Drain, "dequeued", q)
        BY <2>2, <4>1, HasConcat
      <4> QED BY <4>2 DEF tail
    <3> QED BY <1>2, <2>1, <2>2, <3>1
  <2> QED BY <1>1, <2>1, <2>3, RequestsDrop
<1>5. CASE RegisterOn
  <2> DEFINE a == l.of
             tail == Tail(micro)
             line == Line("registered", a)
  <2>1. /\ a \in Asking /\ Has(micro, "dequeued", a)
        /\ micro' = Append(tail, line) /\ bridge' = [bridge EXCEPT !.slot = a]
    BY <1>2, <1>5, LineKinds DEF RegisterOn, Continue
  <2>2. line \in MicroTask /\ line.kind = "registered" /\ tail \in Seq(MicroTask)
    BY <1>2, <2>1, LineTypes DEF Line
  <2>3. \A q : Has(tail, "dequeued", q) => Has(micro, "dequeued", q)
    BY <1>2
  <2> HIDE DEF a, tail, line
  <2>4. \A q : Has(micro', "dequeued", q) => Has(micro, "dequeued", q)
    <3>1. \A q : Has(Append(tail, line), "dequeued", q) => Has(tail, "dequeued", q)
      BY <2>2, HasAppend
    <3> QED BY <2>1, <2>3, <3>1
  <2>5. bridge'.slot = a /\ bridge'.queue = bridge.queue
    BY <2>1 DEF TypeOK, Bridge
  <2>6. ~Has(out, "request", a) /\ ~Holds(bridge.queue, a)
    BY <2>1 DEF RequestInv
  <2>7. ASSUME NEW q \in Asking
        PROVE  /\ Has(out', "request", q) =>
                    ~Holds(bridge'.queue, q) /\ bridge'.slot # q /\ ~Has(micro', "dequeued", q)
               /\ Holds(bridge'.queue, q) => bridge'.slot # q /\ ~Has(micro', "dequeued", q)
               /\ Waits(q)' => sent'[q] = 0 /\ approval'[q] # "no"
               /\ approval'[q] = "no" => sent'[q] = 0
    <3>1. Waits(q)' => Waits(q)
      BY <1>1, <2>1, <2>4, <2>5 DEF Waits
    <3> QED BY <1>1, <2>4, <2>5, <2>6, <3>1 DEF RequestInv
  <2>8. HasOnce(out', "request") /\ HoldsOnce(bridge'.queue) /\ AnsweredOnce'
    BY <1>1, <2>5 DEF RequestInv, AnsweredOnce
  <2> QED BY <2>7, <2>8 DEF RequestInv
<1> QED BY <1>3, <1>4, <1>5 DEF Continuation

LEMMA RequestEvents ==
    ASSUME TypeOK, RequestInv, User \/ ResolveApproval \/ Timer \/ Exit
    PROVE  RequestInv'
<1>1. /\ bridge \in Bridge /\ Dequeued(bridge) \in Seq(MicroTask)
      /\ bridge.slot # NoItem => MarkResolved(bridge) \in Bridge
      /\ \A q : ~Has(<< >>, "dequeued", q)
  BY BridgeTypes, HasFew DEF TypeOK
<1>2. Drain \in Seq(MicroTask) /\ \A q : ~Has(Drain, "dequeued", q)
  BY LineTypes, HasFew DEF Drain
<1>3. ASSUME NEW q \in Asking, UserAnswers(q) PROVE RequestInv'
  <2>1. UNCHANGED <<bridge, micro, out, sent, approval>>
    BY <1>3 DEF UserAnswers, serverVars
  <2> QED BY <2>1, RequestsDrop
<1>4. CASE ResolveApproval
  <2>1. CASE bridge.slot = NoItem
    <3>1. UNCHANGED <<bridge, micro, out, sent, approval>>
      BY <1>4, <2>1 DEF ResolveApproval
    <3> QED BY <3>1, RequestsDrop
  <2>2. CASE bridge.slot # NoItem
    <3>1. /\ micro = << >> /\ Respond(bridge.slot) /\ out' = out
          /\ bridge' = MarkResolved(bridge) /\ micro' = Dequeued(bridge)
      BY <1>4, <2>2 DEF ResolveApproval, Quiet
    <3> QED BY <2>2, <3>1, RequestAnswered
  <2> QED BY <2>1, <2>2
<1>5. CASE Stop
  <2>1. micro = << >> /\ out' = out
    BY <1>5 DEF Stop, Quiet
  <2>2. CASE Cancels
    <3>1. bridge.slot # NoItem /\ Respond(bridge.slot)
      BY <1>5, <2>2 DEF Stop, Cancels
    <3>2. \/ bridge' = MarkResolved(bridge) /\ micro' = Dequeued(bridge)
          \/ bridge' = Emptied(MarkResolved(bridge)) /\ micro' = Dequeued(bridge) \o Drain
      BY <1>5, <2>2 DEF Stop
    <3>3. /\ bridge'.slot \in {NoItem, MarkResolved(bridge).slot}
          /\ bridge'.queue \in {<< >>, MarkResolved(bridge).queue}
      BY <1>1, <3>1, <3>2, EmptiedBridge
    <3>4. \A q \in Asking : Has(micro', "dequeued", q) => Has(Dequeued(bridge), "dequeued", q)
      <4>1. \A q : Has(Dequeued(bridge) \o Drain, "dequeued", q)
                => Has(Dequeued(bridge), "dequeued", q) \/ Has(Drain, "dequeued", q)
        BY <1>1, <1>2, HasConcat
      <4> QED BY <1>2, <3>2, <4>1
    <3> QED BY <2>1, <3>1, <3>3, <3>4, RequestAnswered
  <2>3. CASE ~Cancels
    <3>1. /\ UNCHANGED <<out, sent, approval>> /\ bridge' \in {bridge, Emptied(bridge)}
          /\ micro' \in {<< >>, << >> \o Drain}
      BY <1>5, <2>3 DEF Stop
    <3>2. << >> \o Drain = Drain
      BY <1>2
    <3>3. \A q \in Asking : ~Has(micro', "dequeued", q)
      BY <1>1, <1>2, <3>1, <3>2
    <3> QED BY <3>1, <3>3, RequestsDrop
  <2> QED BY <2>2, <2>3
<1>6. CASE GraceOver
  <2>1. /\ UNCHANGED <<out, sent, approval>> /\ bridge' = Emptied(bridge) /\ micro' = Drain
    BY <1>6 DEF GraceOver, Release, serverVars
  <2> QED BY <1>2, <2>1, RequestsDrop
<1>7. ASSUME NEW m \in pending, RequestTimeout(m) PROVE RequestInv'
  <2>1. UNCHANGED <<bridge, out, sent, approval>> /\ micro' = <<Line("refusal", m)>>
    BY <1>7 DEF RequestTimeout, serverVars
  <2>2. \A q : ~Has(micro', "dequeued", q)
    BY <2>1, HasFew
  <2> QED BY <2>1, <2>2, RequestsDrop
<1>8. CASE Exit
  <2> DEFINE chosen == CHOOSE m \in pending : TRUE
             refusals == IF pending = {} THEN << >> ELSE <<Line("refusal", chosen)>>
             drains == IF HearsExit THEN <<Line("drained", NoItem)>> ELSE << >>
  <2>1. /\ UNCHANGED <<out, sent, approval>> /\ bridge' \in {bridge, Emptied(bridge)}
        /\ micro' = refusals \o drains
    BY <1>8 DEF Exit, serverVars
  <2>2. refusals \in Seq(MicroTask) /\ drains \in Seq(MicroTask)
    <3>1. pending # {} => chosen \in Requests
      BY DEF TypeOK
    <3> QED BY <3>1, LineTypes
  <2>3. \A q : ~Has(refusals, "dequeued", q) /\ ~Has(drains, "dequeued", q)
    BY HasFew
  <2> HIDE DEF refusals, drains
  <2>4. \A q : ~Has(micro', "dequeued", q)
    BY <2>1, <2>2, <2>3, HasConcat
  <2> QED BY <2>1, <2>4, RequestsDrop
<1> QED BY <1>3, <1>4, <1>5, <1>6, <1>7, <1>8 DEF User, Timer

LEMMA RequestStep ==
    ASSUME TypeOK, RequestInv, [Next]_vars
    PROVE  RequestInv'
<1>1. CASE UNCHANGED vars
  <2>1. UNCHANGED <<bridge, micro, out, sent, approval>>
    BY <1>1 DEF vars, serverVars
  <2> QED BY <2>1, RequestsDrop
<1> QED BY <1>1, RequestServer, RequestRead, RequestContinuation, RequestEvents DEF Next

-----------------------------------------------------------------------------
(* The theorems.                                                           *)

LEMMA InvariantInit == Init => IInv
<1> SUFFICES ASSUME Init PROVE IInv
  OBVIOUS
<1>1. \A kind, q : ~Has(<< >>, kind, q) /\ ~Holds(<< >>, q)
  BY HasFew
<1>2. StopInv
  BY <1>1 DEF Init, StopInv, Undisturbed, Setup
<1>3. OutcomeInv
  BY DEF Init, OutcomeInv, OutcomeIsHeard, Over
<1>4. RequestInv
  <2>1. HasOnce(out, "request") /\ HoldsOnce(bridge.queue)
    BY DEF Init, HasOnce, HoldsOnce
  <2>2. ASSUME NEW q \in Asking PROVE ~Waits(q) /\ sent[q] = 0
    BY <1>1, CodexAssumption DEF Init, Waits
  <2> QED BY <2>1, <2>2 DEF RequestInv, AnsweredOnce, Waits
<1> QED BY <1>2, <1>3, <1>4, TypeInit DEF IInv

LEMMA InvariantStep == IInv /\ [Next]_vars => IInv'
  BY TypeStep, RequestStep, StopStep, OutcomeStep DEF IInv

(* The invariant is inductive: everything below follows from it.           *)
THEOREM TurnInvariant == Spec => []IInv
  BY InvariantInit, InvariantStep, PTL DEF Spec

(* Every variable has its type, in every run of the adapter.               *)
THEOREM TurnTyped == Spec => []TypeOK
<1>1. IInv => TypeOK
  BY DEF IInv
<1> QED BY <1>1, TurnInvariant, PTL

(* An approval request is answered at most once, however many requests wait*)
(* in the queue and however answers, a stop and serverRequest/resolved     *)
(* cross.                                                                  *)
THEOREM RequestAnsweredOnce == Spec => []AnsweredOnce
<1>1. IInv => AnsweredOnce
  BY DEF IInv, RequestInv
<1> QED BY <1>1, TurnInvariant, PTL

(* A run is reported as finished only when its turn/completed has been     *)
(* seen, and not with `failed`, though the app-server may interrupt the    *)
(* turn by itself; one that finished or failed has ended every item.       *)
THEOREM OutcomeReported == Spec => []OutcomeIsHeard
<1>1. IInv => OutcomeIsHeard
  BY DEF IInv, OutcomeInv
<1> QED BY <1>1, TurnInvariant, PTL

-----------------------------------------------------------------------------
(* What is shown.  The micro queue is followed line by line: only what is  *)
(* dequeued before a request is registered may take the slot before it is  *)
(* shown.                                                                  *)

(* Whoever was dequeued gets the slot before q, once registered, is shown. *)
Ordered(s, q) ==
    \A i, j \in 1..Len(s) :
        s[i].kind = "registered" /\ s[i].of = q /\ s[j].kind = "dequeued" => j < i

Interrupts(l) == l.kind \in {"response", "refusal"} /\ l.of = "interrupt"
AnyInterrupt(s) == \E i \in 1..Len(s) : Interrupts(s[i])
OneInterrupt(s) == \A i, j \in 1..Len(s) : Interrupts(s[i]) /\ Interrupts(s[j]) => i = j

(* turn/interrupt is answered once, and interruptRun waits for it.         *)
InterruptInv ==
    /\ OneInterrupt(micro)
    /\ AnyInterrupt(micro) => stop.at = "ask" /\ "interrupt" \notin pending
    /\ "interrupt" \in pending => stop.at = "ask"

(* A request is registered once, after it has left line and queue; as long *)
(* as it keeps the slot unresolved, nobody behind it was dequeued.         *)
SlotInv ==
    /\ \A q \in Asking : Has(micro, "registered", q) =>
         /\ approval[q] # "no" /\ ~Has(out, "request", q)
         /\ ~Holds(bridge.queue, q) /\ ~Has(micro, "dequeued", q)
    /\ HasOnce(micro, "dequeued")
    /\ \A q \in Asking : bridge.slot = q /\ q \notin bridge.resolved => Ordered(micro, q)

(* What is shown holds the slot, and nobody is about to take it.           *)
ShownInv ==
    stream.shown # NoItem /\ ~Over /\ ~Aborted =>
        \/ stream.shown \in bridge.resolved
        \/ bridge.slot = stream.shown /\ \A q \in Asking : ~Has(micro, "dequeued", q)

LEMMA AppendTask ==
    ASSUME NEW s \in Seq(MicroTask), NEW l \in MicroTask
    PROVE  /\ Append(s, l) \in Seq(MicroTask)
           /\ \A kind, q : Has(Append(s, l), kind, q) <=> Has(s, kind, q) \/ (l.kind = kind /\ l.of = q)
           /\ HasOnce(s, "dequeued") /\ (l.kind = "dequeued" => ~Has(s, "dequeued", l.of))
                => HasOnce(Append(s, l), "dequeued")
           /\ \A q : Ordered(s, q) /\ (l.kind = "dequeued" => ~Has(s, "registered", q))
                => Ordered(Append(s, l), q)
           /\ AnyInterrupt(Append(s, l)) <=> AnyInterrupt(s) \/ Interrupts(l)
           /\ OneInterrupt(s) /\ (Interrupts(l) => ~AnyInterrupt(s)) => OneInterrupt(Append(s, l))
<1> DEFINE w == Append(s, l)
           N == Len(s) + 1
<1>1. /\ w \in Seq(MicroTask) /\ Len(w) = N /\ Len(s) \in Nat
      /\ \A i \in 1..Len(s) : w[i] = s[i]
      /\ w[N] = l
  OBVIOUS
<1>2. /\ N \in 1..N /\ \A i \in 1..Len(s) : i \in 1..N
      /\ \A i \in 1..N : i = N \/ i \in 1..Len(s)
      /\ \A i \in 1..Len(s) : i < N
  BY <1>1
<1>3. \A kind, q : Has(w, kind, q) <=> Has(s, kind, q) \/ (l.kind = kind /\ l.of = q)
  BY HasAppend
<1>4. HasOnce(s, "dequeued") /\ (l.kind = "dequeued" => ~Has(s, "dequeued", l.of)) => HasOnce(w, "dequeued")
  BY HasOnceAppend
<1> HIDE DEF w, N
<1>5. ASSUME NEW q, Ordered(s, q), l.kind = "dequeued" => ~Has(s, "registered", q)
      PROVE  Ordered(w, q)
  <2> SUFFICES ASSUME NEW i \in 1..N, NEW j \in 1..N,
                      w[i].kind = "registered", w[i].of = q, w[j].kind = "dequeued"
               PROVE  j < i
    BY <1>1 DEF Ordered
  <2>1. CASE i \in 1..Len(s) /\ j \in 1..Len(s)
    BY <1>1, <1>5, <2>1 DEF Ordered
  <2>2. CASE i \in 1..Len(s) /\ j = N
    BY <1>1, <1>5, <2>2 DEF Has
  <2>3. CASE i = N /\ j \in 1..Len(s)
    BY <1>2, <2>3
  <2> QED BY <1>1, <1>2, <2>1, <2>2, <2>3
<1>6. AnyInterrupt(w) <=> AnyInterrupt(s) \/ Interrupts(l)
  BY <1>1, <1>2 DEF AnyInterrupt
<1>7. ASSUME OneInterrupt(s), Interrupts(l) => ~AnyInterrupt(s) PROVE OneInterrupt(w)
  BY <1>1, <1>2, <1>7 DEF OneInterrupt, AnyInterrupt
<1> QED BY <1>1, <1>3, <1>4, <1>5, <1>6, <1>7 DEF w

LEMMA TailTask ==
    ASSUME NEW s \in Seq(MicroTask), s # << >>
    PROVE  /\ Tail(s) \in Seq(MicroTask) /\ Head(s) \in MicroTask
           /\ \A kind, q : Has(Tail(s), kind, q) => Has(s, kind, q)
           /\ \A kind : Head(s).kind = kind => Has(s, kind, Head(s).of)
           /\ HasOnce(s, "dequeued") => /\ HasOnce(Tail(s), "dequeued")
                                        /\ Head(s).kind = "dequeued" => ~Has(Tail(s), "dequeued", Head(s).of)
           /\ \A q : Ordered(s, q) =>
                /\ Ordered(Tail(s), q)
                /\ Head(s).kind = "registered" /\ Head(s).of = q => \A p : ~Has(Tail(s), "dequeued", p)
           /\ AnyInterrupt(Tail(s)) => AnyInterrupt(s)
           /\ Interrupts(Head(s)) => AnyInterrupt(s)
           /\ OneInterrupt(s) => OneInterrupt(Tail(s)) /\ (Interrupts(Head(s)) => ~AnyInterrupt(Tail(s)))
<1> DEFINE w == Tail(s)
<1>1. /\ w \in Seq(MicroTask) /\ Len(w) = Len(s) - 1 /\ Len(s) \in Nat /\ Len(s) > 0
      /\ \A i \in 1..Len(w) : w[i] = s[i + 1]
      /\ Head(s) = s[1] /\ Head(s) \in MicroTask
  OBVIOUS
<1>2. /\ \A kind, q : Has(w, kind, q) => Has(s, kind, q)
      /\ \A kind : Head(s).kind = kind => Has(s, kind, Head(s).of)
  BY HasTail
<1>3. HasOnce(s, "dequeued") => /\ HasOnce(w, "dequeued")
                                /\ Head(s).kind = "dequeued" => ~Has(w, "dequeued", Head(s).of)
  BY HasOnceTail
<1> HIDE DEF w
<1>4. /\ 1 \in 1..Len(s) /\ \A i \in 1..Len(w) : i + 1 \in 1..Len(s) /\ i + 1 > 1 /\ i + 1 # 1
      /\ \A i, j \in 1..Len(w) : /\ i + 1 = j + 1 => i = j
                                 /\ j + 1 < i + 1 => j < i
  BY <1>1
<1>5. ASSUME NEW q, Ordered(s, q)
      PROVE  /\ Ordered(w, q)
             /\ Head(s).kind = "registered" /\ Head(s).of = q => \A p : ~Has(w, "dequeued", p)
  <2>1. Ordered(w, q)
    BY <1>1, <1>4, <1>5 DEF Ordered
  <2>2. ASSUME Head(s).kind = "registered", Head(s).of = q, NEW p, Has(w, "dequeued", p) PROVE FALSE
    <3>1. PICK j \in 1..Len(w) : w[j].kind = "dequeued"
      BY <2>2 DEF Has
    <3>2. s[j + 1].kind = "dequeued" /\ j + 1 \in 1..Len(s) /\ j + 1 > 1
      BY <1>1, <1>4, <3>1
    <3>3. j + 1 < 1
      BY <1>1, <1>4, <1>5, <2>2, <3>2 DEF Ordered
    <3> QED BY <3>2, <3>3
  <2> QED BY <2>1, <2>2
<1>6. AnyInterrupt(w) => AnyInterrupt(s)
  BY <1>1, <1>4 DEF AnyInterrupt
<1>7. Interrupts(Head(s)) => AnyInterrupt(s)
  BY <1>1, <1>4 DEF AnyInterrupt
<1>8. ASSUME OneInterrupt(s) PROVE OneInterrupt(w) /\ (Interrupts(Head(s)) => ~AnyInterrupt(w))
  <2>1. \A i \in 1..Len(w) : w[i] = s[i + 1] /\ i + 1 \in 1..Len(s) /\ i + 1 # 1
    BY <1>1, <1>4
  <2>2. OneInterrupt(w)
    BY <1>4, <1>8, <2>1 DEF OneInterrupt
  <2>3. Interrupts(Head(s)) => ~AnyInterrupt(w)
    BY <1>1, <1>4, <1>8, <2>1 DEF OneInterrupt, AnyInterrupt
  <2> QED BY <2>2, <2>3
<1> QED BY <1>1, <1>2, <1>3, <1>5, <1>6, <1>7, <1>8 DEF w

LEMMA NoTask ==
    /\ << >> \in Seq(MicroTask)
    /\ \A kind, q : ~Has(<< >>, kind, q)
    /\ HasOnce(<< >>, "dequeued") /\ ~AnyInterrupt(<< >>) /\ OneInterrupt(<< >>)
    /\ \A q : Ordered(<< >>, q)
<1>1. 1..Len(<< >>) = {} /\ << >> \in Seq(MicroTask)
  OBVIOUS
<1> QED BY <1>1 DEF Has, HasOnce, AnyInterrupt, OneInterrupt, Ordered

(* Nothing registered puts nobody into disorder.                           *)
LEMMA NotRegistered ==
    ASSUME NEW s, NEW q, ~Has(s, "registered", q)
    PROVE  Ordered(s, q)
  BY DEF Has, Ordered

(* Sequences of at most one line, and such a line behind others.           *)
LEMMA OneTask ==
    ASSUME NEW l \in MicroTask
    PROVE  /\ <<l>> \in Seq(MicroTask) /\ HasOnce(<<l>>, "dequeued") /\ OneInterrupt(<<l>>)
           /\ \A kind, q : Has(<<l>>, kind, q) <=> l.kind = kind /\ l.of = q
           /\ AnyInterrupt(<<l>>) <=> Interrupts(l)
           /\ << >> \o <<l>> = <<l>>
<1>1. /\ <<l>> \in Seq(MicroTask) /\ << >> \o <<l>> = <<l>>
      /\ Len(<<l>>) = 1 /\ <<l>>[1] = l /\ 1..1 = {1}
  OBVIOUS
<1> QED BY <1>1 DEF HasOnce, OneInterrupt, Has, AnyInterrupt

LEMMA JoinTask ==
    ASSUME NEW s \in Seq(MicroTask)
    PROVE  s \o << >> = s /\ \A l \in MicroTask : s \o <<l>> = Append(s, l)
<1>1. s \o << >> = s
  OBVIOUS
<1>2. \A l \in MicroTask : s \o <<l>> = Append(s, l)
  OBVIOUS
<1> QED BY <1>1, <1>2

(* What a command, a timer or the exit leaves to be continued.             *)
LEMMA FewTasks ==
    ASSUME NEW b \in Bridge, NEW d \in {<< >>, <<Line("drained", NoItem)>>},
           NEW m, NEW r \in {<< >>, <<Line("refusal", m)>>}, r # << >> => m \in Requests
    PROVE  /\ \A w \in {d, Dequeued(b), Dequeued(b) \o d, r \o d} :
                w \in Seq(MicroTask) /\ HasOnce(w, "dequeued") /\ OneInterrupt(w)
                /\ \A q : ~Has(w, "registered", q)
           /\ \A w \in {d, r \o d} : \A q : ~Has(w, "dequeued", q)
           /\ \A w \in {d, Dequeued(b), Dequeued(b) \o d} : ~AnyInterrupt(w)
           /\ AnyInterrupt(r \o d) => r # << >> /\ m = "interrupt"
<1> DEFINE drained == Line("drained", NoItem)
           refusal == Line("refusal", m)
           deq == Dequeued(b)
<1>1. /\ drained \in MicroTask /\ drained.kind = "drained" /\ ~Interrupts(drained)
      /\ refusal.kind = "refusal" /\ refusal.of = m /\ (r # << >> => refusal \in MicroTask)
  BY LineTypes DEF Line, Interrupts
<1>2. \/ deq = << >>
      \/ \E l \in MicroTask : deq = <<l>> /\ l.kind = "dequeued"
  <2>1. b.queue # << >> => Head(b.queue) \in Asking
    BY DEF Bridge
  <2>2. \A q \in Asking : Line("dequeued", q) \in MicroTask /\ Line("dequeued", q).kind = "dequeued"
    BY LineTypes DEF Line
  <2> QED BY <2>1, <2>2 DEF Dequeued
<1> HIDE DEF drained, refusal, deq
<1> DEFINE Good(w) == /\ w \in Seq(MicroTask) /\ HasOnce(w, "dequeued") /\ OneInterrupt(w)
                      /\ \A q : ~Has(w, "registered", q)
           Still(w) == \A q : ~Has(w, "dequeued", q)
<1>3. Good(<< >>) /\ Still(<< >>) /\ ~AnyInterrupt(<< >>)
  BY NoTask
<1>4. Good(deq) /\ ~AnyInterrupt(deq)
  <2>1. CASE deq = << >>
    BY <1>3, <2>1
  <2>2. ASSUME NEW l \in MicroTask, deq = <<l>>, l.kind = "dequeued" PROVE Good(deq) /\ ~AnyInterrupt(deq)
    <3>1. ~Interrupts(l)
      BY <2>2 DEF Interrupts
    <3> QED BY <2>2, <3>1, OneTask
  <2> QED BY <1>2, <2>1, <2>2
<1>5. Good(r) /\ Still(r) /\ (AnyInterrupt(r) => r # << >> /\ m = "interrupt")
  <2>1. CASE r = << >>
    BY <1>3, <2>1
  <2>2. CASE r # << >>
    <3>1. refusal \in MicroTask /\ r = <<refusal>> /\ (Interrupts(refusal) => m = "interrupt")
      BY <1>1, <2>2 DEF Interrupts, refusal
    <3> QED BY <1>1, <2>2, <3>1, OneTask
  <2> QED BY <2>1, <2>2
<1>6. ASSUME NEW w, Good(w)
      PROVE  /\ Good(w \o d) /\ (AnyInterrupt(w \o d) <=> AnyInterrupt(w))
             /\ Still(w) => Still(w \o d)
  <2>1. CASE d = << >>
    <3>1. w \o d = w
      BY <1>6, <2>1, JoinTask
    <3> QED BY <1>6, <3>1
  <2>2. CASE d # << >>
    <3>1. w \o d = Append(w, drained)
      BY <1>1, <1>6, <2>2, JoinTask DEF drained
    <3> QED BY <1>1, <1>6, <3>1, AppendTask
  <2> QED BY <2>1, <2>2
<1>7. Good(d) /\ Still(d) /\ ~AnyInterrupt(d)
  <2>1. CASE d = << >>
    BY <1>3, <2>1
  <2>2. CASE d = <<drained>>
    BY <1>1, <2>2, OneTask
  <2> QED BY <2>1, <2>2 DEF drained
<1>8. Good(deq \o d) /\ ~AnyInterrupt(deq \o d)
  BY <1>4, <1>6
<1>9. Good(r \o d) /\ Still(r \o d) /\ (AnyInterrupt(r \o d) => r # << >> /\ m = "interrupt")
  BY <1>5, <1>6
<1> QED BY <1>4, <1>7, <1>8, <1>9 DEF deq

LEMMA DrainIs == Drain \in {<< >>, <<Line("drained", NoItem)>>}
  BY DEF Drain

LEMMA InterruptKeeps ==
    ASSUME InterruptInv, OneInterrupt(micro'), AnyInterrupt(micro') => AnyInterrupt(micro),
           "interrupt" \in pending' => "interrupt" \in pending, stop'.at = stop.at
    PROVE  InterruptInv' /\ (Aborted => Aborted')
  BY DEF InterruptInv, Aborted

(* turn/interrupt is answered once, and a forced interrupt stays one.      *)
LEMMA InterruptStep ==
    ASSUME TypeOK, StopInv, InterruptInv, [Next]_vars
    PROVE  InterruptInv' /\ (Aborted => Aborted')
<1>0. /\ micro \in Seq(MicroTask) /\ bridge \in Bridge /\ pending \subseteq Requests
      /\ OneInterrupt(micro)
      /\ \A at : [stop EXCEPT !.at = at].at = at
  BY DEF TypeOK, InterruptInv
<1>1. ASSUME UNCHANGED <<micro, pending, stop>> PROVE InterruptInv' /\ (Aborted => Aborted')
  BY <1>0, <1>1, InterruptKeeps
<1>2. CASE AppServer \/ UNCHANGED vars \/ \E q \in Asking : UserAnswers(q)
  <2>1. UNCHANGED <<micro, pending, stop>>
    BY <1>2 DEF AppServer, AdapterFrame, Reply, InterruptTurn, Die, StartItem, FinishItem, AskApproval,
       Settle, EndTurn, UserAnswers, vars
  <2> QED BY <1>1, <2>1
<1>3. ASSUME NEW t \in MicroTask, ~Interrupts(t), micro' \in {micro, Append(micro, t)},
             UNCHANGED <<pending, stop>>
      PROVE  InterruptInv' /\ (Aborted => Aborted')
  <2>1. OneInterrupt(Append(micro, t)) /\ (AnyInterrupt(Append(micro, t)) => AnyInterrupt(micro))
    BY <1>0, <1>3, AppendTask
  <2>2. OneInterrupt(micro') /\ (AnyInterrupt(micro') => AnyInterrupt(micro))
    BY <1>0, <1>3, <2>1
  <2> QED BY <1>3, <2>2, InterruptKeeps
<1>4. CASE ReadResponse
  <2> DEFINE l == Head(out)
  <2>1. /\ l \in MicroTask /\ l.kind \in {"response", "refusal"} /\ stop' = stop
        /\ \/ l.of \in pending /\ pending' = pending \ {l.of} /\ micro' = Append(micro, l)
           \/ UNCHANGED <<pending, micro>>
    <3>1. out # << >> /\ l.kind \in {"response", "refusal"} /\ stop' = stop
      BY <1>4 DEF ReadResponse, ReadLine
    <3>2. l \in MicroTask
      BY <3>1, HasTail, LineKinds DEF TypeOK
    <3> QED BY <1>4, <3>1, <3>2 DEF ReadResponse
  <2> HIDE DEF l
  <2>2. CASE UNCHANGED <<pending, micro>>
    BY <1>1, <2>1, <2>2
  <2>3. CASE l.of \in pending /\ pending' = pending \ {l.of} /\ micro' = Append(micro, l)
    <3>1. AnyInterrupt(micro') <=> AnyInterrupt(micro) \/ Interrupts(l)
      BY <1>0, <2>1, <2>3, AppendTask
    <3>2. OneInterrupt(micro) /\ (Interrupts(l) => ~AnyInterrupt(micro)) => OneInterrupt(micro')
      BY <1>0, <2>1, <2>3, AppendTask
    <3>3. Interrupts(l) => "interrupt" \in pending /\ "interrupt" \notin pending'
      BY <2>3 DEF Interrupts
    <3> QED BY <2>1, <2>3, <3>1, <3>2, <3>3 DEF InterruptInv, Aborted
  <2> QED BY <2>1, <2>2, <2>3
<1>5. CASE ReadRequest \/ ReadDone
  <2>1. UNCHANGED <<pending, stop>>
    BY <1>5 DEF ReadRequest, ReadDone, ReadLine
  <2>2. CASE ReadDone
    <3>1. micro' \in {micro, Append(micro, Line("drained", NoItem))}
      BY <2>2 DEF ReadDone
    <3>2. Line("drained", NoItem) \in MicroTask /\ ~Interrupts(Line("drained", NoItem))
      BY LineTypes DEF Line, Interrupts
    <3> QED BY <1>3, <2>1, <3>1, <3>2
  <2>3. CASE ReadRequest
    <3>1. Head(out).of \in Asking
      BY <2>3, HasTail, LineKinds DEF TypeOK, ReadRequest, ReadLine
    <3>2. \A q \in Asking : Line("registered", q) \in MicroTask /\ ~Interrupts(Line("registered", q))
      BY LineTypes DEF Line, Interrupts
    <3>3. micro' \in {micro, Append(micro, Line("registered", Head(out).of))}
      BY <2>3 DEF ReadRequest
    <3> QED BY <1>3, <2>1, <3>1, <3>2, <3>3
  <2> QED BY <1>5, <2>2, <2>3
<1>6. CASE ReadItem
  BY <1>1, <1>6 DEF ReadItem, ReadLine
<1>7. CASE ReadResolved
  <2>1. UNCHANGED <<pending, stop>> /\ micro' \in {micro, micro \o Dequeued(bridge)}
    BY <1>7 DEF ReadResolved, ReadLine
  <2>2. /\ micro \o << >> = micro /\ \A l \in MicroTask : micro \o <<l>> = Append(micro, l)
    BY <1>0, JoinTask
  <2>3. bridge.queue # << >> => Head(bridge.queue) \in Asking
    BY <1>0 DEF Bridge
  <2>4. \A q \in Asking : Line("dequeued", q) \in MicroTask /\ ~Interrupts(Line("dequeued", q))
    BY LineTypes DEF Line, Interrupts
  <2>5. CASE bridge.queue = << >>
    BY <1>1, <2>1, <2>2, <2>5 DEF Dequeued
  <2>6. CASE bridge.queue # << >>
    <3>1. micro' \in {micro, Append(micro, Line("dequeued", Head(bridge.queue)))}
      BY <2>1, <2>2, <2>3, <2>4, <2>6 DEF Dequeued
    <3> QED BY <1>3, <2>1, <2>3, <2>4, <2>6, <3>1
  <2> QED BY <2>5, <2>6
<1>8. CASE Continuation
  <2> DEFINE l == Head(micro)
             tail == Tail(micro)
  <2>1. /\ l \in MicroTask /\ tail \in Seq(MicroTask) /\ OneInterrupt(tail)
        /\ AnyInterrupt(tail) => AnyInterrupt(micro)
        /\ Interrupts(l) => AnyInterrupt(micro) /\ ~AnyInterrupt(tail)
    <3>1. micro # << >>
      BY <1>8 DEF Continuation, Continue, Answered, Refused, InterruptRefused, Drained, RegisterOn, Show
    <3> QED BY <1>0, <3>1, TailTask
  <2>2. CASE Answered
    <3>1. /\ l.kind = "response" /\ micro' = tail
          /\ stop' = (IF l.of = "interrupt" THEN [stop EXCEPT !.at = "grace"] ELSE stop)
      BY <2>2 DEF Answered, Continue
    <3>2. "interrupt" \in pending' => "interrupt" \in pending
      <4>1. phase' \in {"thread", "turn"} \/ pending' = pending
        BY <2>2 DEF Answered, Ask
      <4>2. pending' \in {pending, pending \cup {phase'}}
        BY <2>2 DEF Answered, Ask
      <4> QED BY <4>1, <4>2
    <3>3. CASE l.of = "interrupt"
      <4>1. stop'.at = "grace" /\ ~AnyInterrupt(micro') /\ OneInterrupt(micro')
        BY <1>0, <2>1, <3>1, <3>3 DEF Interrupts
      <4>2. stop.at = "ask" /\ "interrupt" \notin pending
        BY <2>1, <3>1, <3>3 DEF Interrupts, InterruptInv
      <4> QED BY <3>2, <4>1, <4>2 DEF InterruptInv, Aborted
    <3>4. CASE l.of # "interrupt"
      BY <2>1, <3>1, <3>2, <3>4, InterruptKeeps
    <3> QED BY <3>3, <3>4
  <2>3. CASE Refused \/ Drained \/ Show
    <3>1. micro' = tail /\ UNCHANGED <<pending, stop>>
      BY <2>3 DEF Refused, Drained, Show
    <3> QED BY <2>1, <3>1, InterruptKeeps
  <2>4. CASE RegisterOn
    <3> DEFINE line == Line("registered", l.of)
    <3>1. micro' = Append(tail, line) /\ UNCHANGED <<pending, stop>> /\ l.kind = "dequeued"
      BY <2>4 DEF RegisterOn, Continue
    <3>2. line \in MicroTask /\ ~Interrupts(line)
      BY <2>1, <3>1, LineTypes, LineKinds DEF Line, Interrupts
    <3> HIDE DEF line, tail
    <3>3. OneInterrupt(micro') /\ (AnyInterrupt(micro') => AnyInterrupt(micro))
      BY <2>1, <3>1, <3>2, AppendTask
    <3> QED BY <3>1, <3>3, InterruptKeeps
  <2>5. CASE InterruptRefused
    <3>1. /\ l.kind = "refusal" /\ l.of = "interrupt" /\ micro' = tail \o Drain
          /\ pending' = pending /\ stop' = [stop EXCEPT !.at = "over"]
      BY <2>5 DEF InterruptRefused, Release, Continue
    <3>2. ~AnyInterrupt(tail) /\ stop.at = "ask" /\ "interrupt" \notin pending
      BY <2>1, <3>1 DEF Interrupts, InterruptInv
    <3>3. Line("drained", NoItem) \in MicroTask /\ ~Interrupts(Line("drained", NoItem))
      BY LineTypes DEF Line, Interrupts
    <3> HIDE DEF tail
    <3>4. tail \o Drain \in {tail, Append(tail, Line("drained", NoItem))}
      BY <2>1, <3>3, DrainIs, JoinTask
    <3>5. ~AnyInterrupt(micro') /\ OneInterrupt(micro')
      <4>1. /\ ~AnyInterrupt(Append(tail, Line("drained", NoItem)))
            /\ OneInterrupt(Append(tail, Line("drained", NoItem)))
        BY <2>1, <3>2, <3>3, AppendTask
      <4> QED BY <2>1, <3>1, <3>2, <3>4, <4>1
    <3>6. stop'.at = "over"
      BY <1>0, <3>1
    <3> QED BY <3>1, <3>2, <3>5, <3>6 DEF InterruptInv, Aborted
  <2> QED BY <1>8, <2>2, <2>3, <2>4, <2>5 DEF Continuation
<1>9. CASE ResolveApproval
  <2>1. UNCHANGED <<pending, stop>> /\ micro' \in {micro, Dequeued(bridge)}
    BY <1>9 DEF ResolveApproval
  <2>2. OneInterrupt(Dequeued(bridge)) /\ ~AnyInterrupt(Dequeued(bridge))
    BY <1>0, FewTasks
  <2>3. OneInterrupt(micro') /\ (AnyInterrupt(micro') => AnyInterrupt(micro))
    BY <1>0, <2>1, <2>2
  <2> QED BY <2>1, <2>3, InterruptKeeps
<1>10. CASE Stop
  <2>1. ~stop.asked
    BY <1>10 DEF Stop
  <2>2. "interrupt" \notin pending /\ stop.at = "no"
    BY <2>1 DEF StopInv, Undisturbed
  <2>3. micro' \in {<< >>, Dequeued(bridge), << >> \o Drain, Dequeued(bridge) \o Drain}
    BY <1>10 DEF Stop
  <2>4. << >> \o Drain = Drain
    <3>1. << >> \o << >> = << >>
      OBVIOUS
    <3>2. << >> \o <<Line("drained", NoItem)>> = <<Line("drained", NoItem)>>
      BY LineTypes, OneTask
    <3> QED BY <3>1, <3>2, DrainIs
  <2>5. OneInterrupt(micro') /\ ~AnyInterrupt(micro')
    BY <1>0, <2>3, <2>4, DrainIs, FewTasks, NoTask
  <2>6. \/ stop'.at = "ask" /\ pending' = pending \cup {"interrupt"}
        \/ pending' = pending
    BY <1>10 DEF Stop, Ask
  <2> QED BY <2>2, <2>5, <2>6 DEF InterruptInv, Aborted
<1>11. CASE GraceOver
  <2>1. stop.at = "grace" /\ pending' = pending /\ micro' = Drain /\ stop' = [stop EXCEPT !.at = "over"]
    BY <1>11 DEF GraceOver, Release
  <2>2. OneInterrupt(micro') /\ ~AnyInterrupt(micro')
    BY <1>0, <2>1, DrainIs, FewTasks
  <2>3. "interrupt" \notin pending
    BY <2>1 DEF InterruptInv
  <2> QED BY <2>1, <2>2, <2>3 DEF InterruptInv, Aborted
<1>12. ASSUME NEW m \in pending, RequestTimeout(m) PROVE InterruptInv' /\ (Aborted => Aborted')
  <2>1. pending' = pending \ {m} /\ micro' = <<Line("refusal", m)>> /\ stop' = stop
    BY <1>12 DEF RequestTimeout
  <2>2. <<Line("refusal", m)>> \o << >> = <<Line("refusal", m)>>
    BY <1>0, LineTypes, JoinTask
  <2>3. m \in Requests
    BY <1>0
  <2>4. OneInterrupt(micro') /\ (AnyInterrupt(micro') => m = "interrupt")
    BY <1>0, <2>1, <2>2, <2>3, FewTasks
  <2> QED BY <2>1, <2>4 DEF InterruptInv, Aborted
<1>13. CASE Exit
  <2> DEFINE m == CHOOSE m \in pending : TRUE
             r == IF pending = {} THEN << >> ELSE <<Line("refusal", m)>>
             d == IF HearsExit THEN <<Line("drained", NoItem)>> ELSE << >>
  <2>1. pending' = {} /\ micro' = r \o d /\ stop' = stop
    BY <1>13 DEF Exit
  <2>2. r # << >> => m \in pending
    OBVIOUS
  <2>3. r \in {<< >>, <<Line("refusal", m)>>} /\ d \in {<< >>, <<Line("drained", NoItem)>>}
    OBVIOUS
  <2> HIDE DEF m, r, d
  <2>4. OneInterrupt(micro') /\ (AnyInterrupt(micro') => r # << >> /\ m = "interrupt")
    BY <1>0, <2>1, <2>2, <2>3, FewTasks
  <2> QED BY <2>1, <2>2, <2>4 DEF InterruptInv, Aborted
<1> QED BY <1>2, <1>4, <1>5, <1>6, <1>7, <1>8, <1>9, <1>10, <1>11, <1>12, <1>13
        DEF Next, Read, Timer, User

LEMMA SlotKeeps ==
    ASSUME SlotInv, HasOnce(micro', "dequeued"),
           \A q \in Asking : Has(micro', "registered", q) =>
                \/ Has(micro, "registered", q)
                \/ /\ approval'[q] # "no" /\ ~Has(out', "request", q)
                   /\ ~Holds(bridge'.queue, q) /\ ~Has(micro', "dequeued", q),
           \A q \in Asking : Has(out', "request", q) => Has(out, "request", q) \/ approval[q] = "no",
           \A q \in Asking : Holds(bridge'.queue, q) => Holds(bridge.queue, q) \/ Has(out, "request", q),
           \A q \in Asking : Has(micro', "dequeued", q) => Has(micro, "dequeued", q) \/ Holds(bridge.queue, q),
           \A q \in Asking : approval'[q] = "no" => approval[q] = "no",
           \A q \in Asking : bridge'.slot = q /\ q \notin bridge'.resolved => Ordered(micro', q)
    PROVE  SlotInv'
  BY DEF SlotInv

(* The event loop was empty.                                               *)
LEMMA SlotFew ==
    ASSUME HasOnce(micro', "dequeued"), \A q \in Asking : ~Has(micro', "registered", q)
    PROVE  SlotInv'
  BY NotRegistered DEF SlotInv

(* A step that leaves the event loop and the bridge as they are.           *)
LEMMA SlotStays ==
    ASSUME SlotInv, UNCHANGED <<micro, bridge>>,
           \A q \in Asking : Has(out', "request", q) => Has(out, "request", q) \/ approval[q] = "no",
           \A q \in Asking : approval'[q] = "no" => approval[q] = "no"
    PROVE  SlotInv'
  BY SlotKeeps DEF SlotInv

(* What the app-server writes: a request only when it had not asked yet.   *)
LEMMA ServerWrites ==
    ASSUME TypeOK, AppServer
    PROVE  /\ \A q \in Asking : Has(out', "request", q) => Has(out, "request", q) \/ approval[q] = "no"
           /\ \A q \in Asking : approval'[q] = "no" => approval[q] = "no"
           /\ UNCHANGED <<micro, bridge, stream, stop>>
<1>1. UNCHANGED <<micro, bridge, stream, stop>>
  BY DEF AppServer, Reply, InterruptTurn, Die, StartItem, FinishItem, AskApproval, Settle, EndTurn,
     AdapterFrame
<1>2. out \in Seq(ServerLine) /\ approval \in [Asking -> {"no", "asked", "answered", "settled"}]
  BY DEF TypeOK
<1>3. ASSUME NEW l \in ServerLine, out' = Append(out, l) \/ out' = out,
             l.kind = "request" => approval[l.of] = "no"
      PROVE  \A q \in Asking : Has(out', "request", q) => Has(out, "request", q) \/ approval[q] = "no"
  <2>1. \A q : Has(Append(out, l), "request", q) <=> Has(out, "request", q) \/ (l.kind = "request" /\ l.of = q)
    BY <1>2, HasAppend
  <2> QED BY <1>3, <2>1
<1>4. \E l \in ServerLine : (out' = Append(out, l) \/ out' = out) /\ (l.kind = "request" => approval[l.of] = "no")
  <2>1. \A kind, of : Line(kind, of).kind = kind /\ Line(kind, of).of = of
    BY DEF Line
  <2>2. CASE Reply
    <3>1. server.asked \in Requests
      BY <2>2 DEF Reply, TypeOK, Server
    <3>2. PICK kind \in {"response", "refusal"} : out' = Append(out, Line(kind, server.asked))
      BY <2>2 DEF Reply
    <3> QED BY <2>1, <3>1, <3>2, LineTypes
  <2>3. CASE Die
    <3>1. out' = out /\ Line("done", "failed") \in ServerLine
      BY <2>3, LineTypes DEF Die, Outcomes
    <3> QED BY <2>1, <3>1
  <2>8. CASE InterruptTurn
    <3>1. out' = out /\ Line("done", "failed") \in ServerLine
      BY <2>8, LineTypes DEF InterruptTurn, Outcomes
    <3> QED BY <2>1, <3>1
  <2>4. ASSUME NEW i \in Items, StartItem(i) \/ FinishItem(i)
        PROVE  \E l \in ServerLine : out' = Append(out, l) /\ l.kind # "request"
    <3>1. PICK kind \in {"started", "completed"} : out' = Append(out, Line(kind, i))
      BY <2>4 DEF StartItem, FinishItem
    <3> QED BY <2>1, <3>1, LineTypes
  <2>5. ASSUME NEW q \in Asking, Settle(q)
        PROVE  \E l \in ServerLine : out' = Append(out, l) /\ l.kind # "request"
    <3>1. out' = Append(out, Line("resolved", q))
      BY <2>5 DEF Settle
    <3> QED BY <2>1, <3>1, LineTypes
  <2>6. ASSUME NEW status \in Outcomes, EndTurn(status)
        PROVE  \E l \in ServerLine : out' = Append(out, l) /\ l.kind # "request"
    <3>1. out' = Append(out, Line("done", status))
      BY <2>6 DEF EndTurn
    <3> QED BY <2>1, <3>1, LineTypes
  <2>7. ASSUME NEW q \in Asking, AskApproval(q)
        PROVE  \E l \in ServerLine : out' = Append(out, l) /\ approval[l.of] = "no"
    <3>1. out' = Append(out, Line("request", q)) /\ approval[q] = "no"
      BY <2>7 DEF AskApproval
    <3> QED BY <2>1, <3>1, LineTypes
  <2> QED BY <2>2, <2>3, <2>4, <2>5, <2>6, <2>7, <2>8 DEF AppServer, Outcomes
<1>5. \A q \in Asking : approval'[q] = "no" => approval[q] = "no"
  BY <1>2 DEF AppServer, Reply, InterruptTurn, Die, StartItem, FinishItem, AskApproval, Settle, EndTurn
<1> QED BY <1>1, <1>3, <1>4, <1>5

LEMMA SlotRead ==
    ASSUME TypeOK, RequestInv, SlotInv, Read
    PROVE  SlotInv'
<1> DEFINE l == Head(out)
<1>1. out # << >> /\ out' = Tail(out) /\ UNCHANGED approval
  BY DEF Read, ReadLine, ReadResponse, ReadRequest, ReadResolved, ReadItem, ReadDone
<1>2. /\ out \in Seq(ServerLine) /\ micro \in Seq(MicroTask) /\ bridge \in Bridge
      /\ bridge.queue \in Seq(Asking) /\ HasOnce(out, "request") /\ HasOnce(micro, "dequeued")
  BY DEF TypeOK, Bridge, RequestInv, SlotInv
<1>3. /\ l \in ServerLine
      /\ \A q \in Asking : Has(out', "request", q) => Has(out, "request", q)
      /\ l.kind = "request" => Has(out, "request", l.of) /\ ~Has(out', "request", l.of)
  <2>1. l.kind = "request" => ~Has(Tail(out), "request", l.of)
    BY <1>1, <1>2, HasOnceTail
  <2>2. /\ \A q : Has(Tail(out), "request", q) => Has(out, "request", q)
        /\ l.kind = "request" => Has(out, "request", l.of)
        /\ l \in ServerLine
    BY <1>1, <1>2, HasTail
  <2> QED BY <1>1, <2>1, <2>2
<1>4. ASSUME NEW t \in MicroTask, t.kind \notin {"registered", "dequeued"},
             micro' \in {micro, Append(micro, t)}, bridge' = bridge
      PROVE  SlotInv'
  <2> DEFINE w == Append(micro, t)
  <2>1. /\ \A q : Has(w, "registered", q) <=> Has(micro, "registered", q)
        /\ \A q : Has(w, "dequeued", q) <=> Has(micro, "dequeued", q)
        /\ HasOnce(w, "dequeued") /\ \A q : Ordered(micro, q) => Ordered(w, q)
    BY <1>2, <1>4, AppendTask
  <2> HIDE DEF w
  <2>2. micro' \in {micro, w}
    BY <1>4 DEF w
  <2> QED BY <1>1, <1>2, <1>3, <1>4, <2>1, <2>2, SlotKeeps DEF SlotInv
<1>5. ASSUME UNCHANGED <<micro, bridge>> PROVE SlotInv'
  BY <1>1, <1>3, <1>5, SlotStays
<1>6. CASE ReadResponse
  <2>1. /\ l.kind \notin {"registered", "dequeued"} /\ l \in MicroTask /\ UNCHANGED bridge
        /\ micro' \in {micro, Append(micro, l)}
    BY <1>3, <1>6, LineKinds DEF ReadResponse, ReadLine
  <2> QED BY <1>4, <2>1
<1>7. CASE ReadDone
  <2>1. UNCHANGED bridge /\ micro' \in {micro, Append(micro, Line("drained", NoItem))}
    BY <1>7 DEF ReadDone
  <2>2. Line("drained", NoItem) \in MicroTask /\ Line("drained", NoItem).kind \notin {"registered", "dequeued"}
    BY LineTypes DEF Line
  <2> QED BY <1>4, <2>1, <2>2
<1>8. CASE ReadItem
  BY <1>5, <1>8 DEF ReadItem
<1>9. CASE ReadRequest
  <2> DEFINE q == l.of
             line == Line("registered", q)
             w == Append(micro, line)
  <2>1. q \in Asking /\ l.kind = "request"
    BY <1>3, <1>9, LineKinds DEF ReadRequest, ReadLine
  <2>2. /\ Has(out, "request", q) /\ ~Has(out', "request", q) /\ ~Holds(bridge.queue, q)
        /\ ~Has(micro, "dequeued", q) /\ approval[q] # "no" /\ ~Has(micro, "registered", q)
    BY <1>3, <2>1 DEF RequestInv, SlotInv, Waits
  <2>3. line \in MicroTask /\ line.kind = "registered" /\ line.of = q
    BY <2>1, LineTypes DEF Line
  <2>4. \/ UNCHANGED <<bridge, micro>>
        \/ bridge' = [bridge EXCEPT !.slot = q] /\ micro' = w
        \/ bridge' = [bridge EXCEPT !.queue = Append(@, q)] /\ micro' = micro
    BY <1>9 DEF ReadRequest
  <2> HIDE DEF q, line
  <2>5. CASE bridge' = [bridge EXCEPT !.slot = q] /\ micro' = w
    <3>1. /\ \A p : Has(w, "registered", p) <=> Has(micro, "registered", p) \/ p = q
          /\ \A p : Has(w, "dequeued", p) <=> Has(micro, "dequeued", p)
          /\ HasOnce(w, "dequeued") /\ \A p : Ordered(micro, p) => Ordered(w, p)
      BY <1>2, <2>3, AppendTask
    <3> HIDE DEF w
    <3>2. bridge'.slot = q /\ bridge'.queue = bridge.queue
      BY <1>2, <2>5 DEF Bridge
    <3>3. Ordered(w, q)
      BY <2>2, <3>1, NotRegistered
    <3>4. /\ HasOnce(micro', "dequeued")
          /\ \A p \in Asking : Has(micro', "dequeued", p) => Has(micro, "dequeued", p)
          /\ \A p \in Asking : bridge'.slot = p => Ordered(micro', p)
          /\ \A p \in Asking : Holds(bridge'.queue, p) => Holds(bridge.queue, p)
      BY <2>5, <3>1, <3>2, <3>3
    <3>5. \A p \in Asking : Has(micro', "registered", p) =>
             \/ Has(micro, "registered", p)
             \/ /\ approval'[p] # "no" /\ ~Has(out', "request", p)
                /\ ~Holds(bridge'.queue, p) /\ ~Has(micro', "dequeued", p)
      BY <1>1, <2>2, <2>5, <3>1, <3>2
    <3> QED BY <1>1, <1>3, <3>4, <3>5, SlotKeeps
  <2>6. CASE bridge' = [bridge EXCEPT !.queue = Append(@, q)] /\ micro' = micro
    <3>1. bridge'.slot = bridge.slot /\ bridge'.queue = Append(bridge.queue, q)
          /\ bridge'.resolved = bridge.resolved
      BY <1>2, <2>6 DEF Bridge
    <3>2. \A p \in Asking : Holds(Append(bridge.queue, q), p) <=> Holds(bridge.queue, p) \/ p = q
      BY <1>2, <2>1, HoldsAppend DEF q
    <3>3. \A p \in Asking : Holds(bridge'.queue, p) => Holds(bridge.queue, p) \/ Has(out, "request", p)
      BY <2>2, <3>1, <3>2
    <3>4. \A p \in Asking : bridge'.slot = p /\ p \notin bridge'.resolved => Ordered(micro', p)
      BY <2>6, <3>1 DEF SlotInv
    <3> QED BY <1>1, <1>2, <1>3, <2>6, <3>3, <3>4, SlotKeeps
  <2> QED BY <1>5, <2>4, <2>5, <2>6
<1>10. CASE ReadResolved
  <2> DEFINE q == l.of
  <2>1. CASE phase = "drain" /\ bridge.slot = q
    <3>1. bridge' = MarkResolved(bridge) /\ micro' = micro \o Dequeued(bridge)
      BY <1>10, <2>1 DEF ReadResolved
    <3>2. CASE bridge.queue = << >>
      <4>1. bridge'.slot = NoItem /\ bridge'.queue = << >> /\ micro' = micro \o << >>
        BY <3>1, <3>2 DEF MarkResolved, NextInLine, Dequeued
      <4>2. NoItem \notin Asking /\ \A p : ~Holds(<< >>, p)
        BY CodexAssumption, HasFew
      <4>3. micro' = micro
        BY <1>2, <4>1, JoinTask
      <4>4. \A p \in Asking : bridge'.slot # p /\ ~Holds(bridge'.queue, p)
        BY <4>1, <4>2
      <4> QED BY <1>1, <1>2, <1>3, <4>3, <4>4, SlotKeeps
    <3>3. CASE bridge.queue # << >>
      <4> DEFINE h == Head(bridge.queue)
                 t == Tail(bridge.queue)
                 line == Line("dequeued", h)
                 w == Append(micro, line)
      <4>1. bridge'.slot = h /\ bridge'.queue = t /\ micro' = micro \o <<line>>
        BY <3>1, <3>3 DEF MarkResolved, NextInLine, Dequeued
      <4>2. /\ \A p : Holds(t, p) => Holds(bridge.queue, p)
            /\ Holds(bridge.queue, h) /\ h \in Asking
        BY <1>2, <3>3, HoldsTail
      <4>3. line \in MicroTask /\ line.kind = "dequeued" /\ line.of = h
        BY <4>2, LineTypes DEF Line
      <4>4. ~Has(micro, "registered", h) /\ ~Has(micro, "dequeued", h)
        BY <4>2 DEF SlotInv, RequestInv
      <4> HIDE DEF h, t, line
      <4>5. micro' = w
        BY <1>2, <4>1, <4>3, JoinTask
      <4>6. /\ \A p : Has(w, "registered", p) <=> Has(micro, "registered", p)
            /\ \A p : Has(w, "dequeued", p) <=> Has(micro, "dequeued", p) \/ p = h
            /\ HasOnce(w, "dequeued")
        BY <1>2, <4>3, <4>4, AppendTask
      <4> HIDE DEF w
      <4>7. Ordered(w, h)
        BY <4>4, <4>6, NotRegistered
      <4> QED BY <1>1, <1>3, <4>1, <4>2, <4>5, <4>6, <4>7, SlotKeeps
    <3> QED BY <3>2, <3>3
  <2>2. CASE ~(phase = "drain" /\ bridge.slot = q)
    <3>1. micro' = micro /\ bridge' \in {bridge, [bridge EXCEPT !.resolved = @ \cup {q}]}
      BY <1>10, <2>2 DEF ReadResolved
    <3>2. bridge'.slot = bridge.slot /\ bridge'.queue = bridge.queue /\ bridge.resolved \subseteq bridge'.resolved
      BY <1>2, <3>1 DEF Bridge
    <3>3. \A p \in Asking : bridge'.slot = p /\ p \notin bridge'.resolved => Ordered(micro', p)
      BY <3>1, <3>2 DEF SlotInv
    <3> QED BY <1>1, <1>2, <1>3, <3>1, <3>2, <3>3, SlotKeeps
  <2> QED BY <2>1, <2>2
<1> QED BY <1>6, <1>7, <1>8, <1>9, <1>10 DEF Read

LEMMA SlotContinuation ==
    ASSUME TypeOK, RequestInv, SlotInv, Continuation
    PROVE  SlotInv'
<1> DEFINE l == Head(micro)
           tail == Tail(micro)
<1>1. micro # << >> /\ UNCHANGED <<out, approval>>
  BY DEF Continuation, Continue, Answered, Refused, InterruptRefused, Drained, RegisterOn, Show
<1>2. /\ micro \in Seq(MicroTask) /\ bridge \in Bridge /\ HasOnce(micro, "dequeued") /\ NoItem \notin Asking
      /\ Emptied(bridge).slot = NoItem /\ Emptied(bridge).queue = << >> /\ \A q : ~Holds(<< >>, q)
  BY CodexAssumption, EmptiedBridge, HasFew DEF TypeOK, SlotInv
<1>3. /\ l \in MicroTask /\ tail \in Seq(MicroTask) /\ HasOnce(tail, "dequeued")
      /\ \A q : Has(tail, "dequeued", q) => Has(micro, "dequeued", q)
      /\ \A q : Has(tail, "registered", q) => Has(micro, "registered", q)
      /\ \A q : Ordered(micro, q) => Ordered(tail, q)
      /\ l.kind = "dequeued" => Has(micro, "dequeued", l.of) /\ ~Has(tail, "dequeued", l.of)
  BY <1>1, <1>2, TailTask
<1> HIDE DEF tail
<1>4. CASE Answered \/ Refused \/ Drained \/ Show
  <2>1. micro' = tail /\ bridge' \in {bridge, Emptied(bridge)}
    BY <1>4 DEF Answered, Refused, Drained, Show, tail
  <2>2. /\ \A q \in Asking : bridge'.slot = q /\ q \notin bridge'.resolved => Ordered(micro', q)
        /\ \A q \in Asking : Holds(bridge'.queue, q) => Holds(bridge.queue, q)
    BY <1>2, <1>3, <2>1 DEF SlotInv
  <2> QED BY <1>1, <1>3, <2>1, <2>2, SlotKeeps
<1>5. CASE InterruptRefused
  <2> DEFINE line == Line("drained", NoItem)
  <2>1. micro' = tail \o Drain /\ bridge' = Emptied(bridge)
    BY <1>5 DEF InterruptRefused, Release, tail
  <2>2. line \in MicroTask /\ line.kind = "drained"
    BY LineTypes DEF Line
  <2>3. tail \o Drain \in {tail, Append(tail, line)}
    BY <1>3, <2>2, DrainIs, JoinTask
  <2> HIDE DEF line
  <2>4. /\ \A q : Has(Append(tail, line), "registered", q) <=> Has(tail, "registered", q)
        /\ \A q : Has(Append(tail, line), "dequeued", q) <=> Has(tail, "dequeued", q)
        /\ HasOnce(Append(tail, line), "dequeued")
    BY <1>3, <2>2, AppendTask
  <2>5. /\ \A q \in Asking : bridge'.slot # q /\ ~Holds(bridge'.queue, q)
        /\ \A q : Has(micro', "registered", q) => Has(micro, "registered", q)
        /\ \A q : Has(micro', "dequeued", q) => Has(micro, "dequeued", q)
        /\ HasOnce(micro', "dequeued")
    BY <1>2, <1>3, <2>1, <2>3, <2>4
  <2> QED BY <1>1, <2>5, SlotKeeps
<1>6. CASE RegisterOn
  <2> DEFINE a == l.of
             line == Line("registered", a)
             w == Append(tail, line)
  <2>1. /\ a \in Asking /\ Has(micro, "dequeued", a) /\ ~Has(tail, "dequeued", a)
        /\ micro' = w /\ bridge' = [bridge EXCEPT !.slot = a]
    BY <1>3, <1>6, LineKinds DEF RegisterOn, Continue, tail
  <2>2. line \in MicroTask /\ line.kind = "registered" /\ line.of = a
    BY <2>1, LineTypes DEF Line
  <2>3. /\ ~Has(out, "request", a) /\ ~Holds(bridge.queue, a) /\ approval[a] # "no"
        /\ ~Has(micro, "registered", a)
    BY <2>1 DEF RequestInv, SlotInv, Waits
  <2> HIDE DEF a, line
  <2>4. /\ \A q : Has(w, "registered", q) <=> Has(tail, "registered", q) \/ q = a
        /\ \A q : Has(w, "dequeued", q) <=> Has(tail, "dequeued", q)
        /\ HasOnce(w, "dequeued") /\ \A q : Ordered(tail, q) => Ordered(w, q)
    BY <1>3, <2>2, AppendTask
  <2> HIDE DEF w
  <2>5. Ordered(w, a)
    BY <1>3, <2>3, <2>4, NotRegistered
  <2>6. bridge'.slot = a /\ bridge'.queue = bridge.queue
    BY <1>2, <2>1 DEF Bridge
  <2>7. \A q \in Asking : Has(micro', "registered", q) =>
           \/ Has(micro, "registered", q)
           \/ /\ approval'[q] # "no" /\ ~Has(out', "request", q)
              /\ ~Holds(bridge'.queue, q) /\ ~Has(micro', "dequeued", q)
    BY <1>1, <1>3, <2>1, <2>3, <2>4, <2>6
  <2>8. /\ HasOnce(micro', "dequeued")
        /\ \A q \in Asking : Has(micro', "dequeued", q) => Has(micro, "dequeued", q)
        /\ \A q \in Asking : bridge'.slot = q => Ordered(micro', q)
        /\ \A q \in Asking : Holds(bridge'.queue, q) => Holds(bridge.queue, q)
    BY <1>3, <2>1, <2>4, <2>5, <2>6
  <2> QED BY <1>1, <2>7, <2>8, SlotKeeps
<1> QED BY <1>4, <1>5, <1>6 DEF Continuation

LEMMA SlotStep ==
    ASSUME TypeOK, RequestInv, SlotInv, [Next]_vars
    PROVE  SlotInv'
<1>0. bridge \in Bridge /\ pending \subseteq Requests
  BY DEF TypeOK
<1>1. CASE UNCHANGED vars \/ \E q \in Asking : UserAnswers(q)
  <2>1. UNCHANGED <<micro, bridge, out, approval>>
    BY <1>1 DEF UserAnswers, vars, serverVars
  <2> QED BY <2>1, SlotStays
<1>2. CASE AppServer
  BY <1>2, ServerWrites, SlotStays
<1>3. CASE ResolveApproval
  <2>1. CASE bridge.slot = NoItem
    <3>1. UNCHANGED <<micro, bridge, out, approval>>
      BY <1>3, <2>1 DEF ResolveApproval
    <3> QED BY <3>1, SlotStays
  <2>2. CASE bridge.slot # NoItem
    <3>1. micro' = Dequeued(bridge)
      BY <1>3, <2>2 DEF ResolveApproval
    <3> QED BY <1>0, <3>1, FewTasks, SlotFew
  <2> QED BY <2>1, <2>2
<1>4. CASE Stop
  <2>1. micro' \in {<< >>, Dequeued(bridge), << >> \o Drain, Dequeued(bridge) \o Drain}
    BY <1>4 DEF Stop
  <2>2. << >> \o Drain = Drain
    <3>1. << >> \o << >> = << >>
      OBVIOUS
    <3>2. << >> \o <<Line("drained", NoItem)>> = <<Line("drained", NoItem)>>
      BY LineTypes, OneTask
    <3> QED BY <3>1, <3>2, DrainIs
  <2>3. HasOnce(micro', "dequeued") /\ \A q : ~Has(micro', "registered", q)
    BY <1>0, <2>1, <2>2, DrainIs, FewTasks, NoTask
  <2> QED BY <2>3, SlotFew
<1>5. CASE GraceOver
  <2>1. micro' = Drain
    BY <1>5 DEF GraceOver
  <2> QED BY <1>0, <2>1, DrainIs, FewTasks, SlotFew
<1>6. ASSUME NEW m \in pending, RequestTimeout(m) PROVE SlotInv'
  <2>1. micro' = <<Line("refusal", m)>>
    BY <1>6 DEF RequestTimeout
  <2>2. Line("refusal", m) \in MicroTask /\ Line("refusal", m).kind = "refusal"
    BY <1>0, LineTypes DEF Line
  <2>3. HasOnce(micro', "dequeued") /\ \A q : ~Has(micro', "registered", q)
    BY <2>1, <2>2, OneTask
  <2> QED BY <2>3, SlotFew
<1>7. CASE Exit
  <2> DEFINE m == CHOOSE m \in pending : TRUE
             r == IF pending = {} THEN << >> ELSE <<Line("refusal", m)>>
             d == IF HearsExit THEN <<Line("drained", NoItem)>> ELSE << >>
  <2>1. micro' = r \o d
    BY <1>7 DEF Exit
  <2>2. r # << >> => m \in Requests
    BY <1>0
  <2>3. r \in {<< >>, <<Line("refusal", m)>>} /\ d \in {<< >>, <<Line("drained", NoItem)>>}
    OBVIOUS
  <2> HIDE DEF m, r, d
  <2>4. HasOnce(micro', "dequeued") /\ \A q : ~Has(micro', "registered", q)
    BY <1>0, <2>1, <2>2, <2>3, FewTasks
  <2> QED BY <2>4, SlotFew
<1> QED BY <1>1, <1>2, <1>3, <1>4, <1>5, <1>6, <1>7, SlotRead, SlotContinuation
        DEF Next, Timer, User

LEMMA ShownKeeps ==
    ASSUME ShownInv, Over => Over', Aborted => Aborted', stream'.shown = stream.shown,
           bridge.resolved \subseteq bridge'.resolved,
           \/ Over' \/ Aborted'
           \/ bridge.slot \in {NoItem} \cup bridge'.resolved
           \/ \E q \in Asking : Has(micro, "dequeued", q)
           \/ /\ bridge'.slot = bridge.slot
              /\ \A q \in Asking : Has(micro', "dequeued", q) => Has(micro, "dequeued", q)
    PROVE  ShownInv'
  BY DEF ShownInv

LEMMA ResolvedGrows ==
    ASSUME NEW b \in Bridge
    PROVE  /\ b.resolved \subseteq MarkResolved(b).resolved /\ b.slot \in MarkResolved(b).resolved
           /\ Emptied(b).resolved = b.resolved
  BY DEF Bridge, MarkResolved, Emptied

LEMMA ShownRead ==
    ASSUME TypeOK, ShownInv, Read, Over => Over', Aborted => Aborted'
    PROVE  ShownInv'
<1>1. /\ micro \in Seq(MicroTask) /\ bridge \in Bridge /\ stream \in Stream /\ out \in Seq(ServerLine)
      /\ out # << >>
  BY DEF TypeOK, Read, ReadLine, ReadResponse, ReadRequest, ReadResolved, ReadItem, ReadDone
<1>2. ASSUME NEW t \in MicroTask, t.kind # "dequeued", micro' \in {micro, Append(micro, t)},
             bridge'.slot = bridge.slot \/ bridge.slot = NoItem, bridge.resolved \subseteq bridge'.resolved,
             stream'.shown = stream.shown
      PROVE  ShownInv'
  <2>1. \A q : Has(Append(micro, t), "dequeued", q) <=> Has(micro, "dequeued", q)
    BY <1>1, <1>2, AppendTask
  <2>2. \A q \in Asking : Has(micro', "dequeued", q) => Has(micro, "dequeued", q)
    BY <1>2, <2>1
  <2> QED BY <1>2, <2>2, ShownKeeps
<1>3. Line("drained", NoItem) \in MicroTask /\ Line("drained", NoItem).kind # "dequeued"
  BY LineTypes DEF Line
<1>4. CASE ReadResponse
  <2>1. /\ Head(out) \in MicroTask /\ Head(out).kind # "dequeued"
        /\ micro' \in {micro, Append(micro, Head(out))} /\ UNCHANGED <<bridge, stream>>
    BY <1>1, <1>4, HasTail, LineKinds DEF ReadResponse, ReadLine
  <2> QED BY <1>2, <2>1
<1>5. CASE ReadDone
  <2>1. \A failed : Terminated(stream, failed).shown = stream.shown
    BY <1>1 DEF Terminated, Stream
  <2>2. /\ stream' = stream \/ \E failed : stream' = Terminated(stream, failed)
        /\ micro' \in {micro, Append(micro, Line("drained", NoItem))} /\ bridge' = bridge
    BY <1>5 DEF ReadDone
  <2> QED BY <1>2, <1>3, <2>1, <2>2
<1>6. CASE ReadItem
  <2>1. \A open : [stream EXCEPT !.open = open].shown = stream.shown
    BY <1>1 DEF Stream
  <2>2. stream'.shown = stream.shown /\ UNCHANGED <<micro, bridge>>
    BY <1>6, <2>1 DEF ReadItem
  <2> QED BY <1>2, <1>3, <2>2
<1>7. CASE ReadRequest
  <2> DEFINE q == Head(out).of
  <2>1. q \in Asking
    BY <1>1, <1>7, HasTail, LineKinds DEF ReadRequest, ReadLine
  <2>2. Line("registered", q) \in MicroTask /\ Line("registered", q).kind # "dequeued"
    BY <2>1, LineTypes DEF Line
  <2>3. /\ micro' \in {micro, Append(micro, Line("registered", q))} /\ stream' = stream
        /\ \/ bridge' = bridge
           \/ bridge.slot = NoItem /\ bridge' = [bridge EXCEPT !.slot = q]
           \/ bridge' = [bridge EXCEPT !.queue = Append(@, q)]
    BY <1>7 DEF ReadRequest, SlotIsFree
  <2> HIDE DEF q
  <2>4. (bridge'.slot = bridge.slot \/ bridge.slot = NoItem) /\ bridge.resolved \subseteq bridge'.resolved
    BY <1>1, <2>3 DEF Bridge
  <2> QED BY <1>2, <2>2, <2>3, <2>4
<1>8. CASE ReadResolved
  <2> DEFINE q == Head(out).of
  <2>1. /\ stream' = stream
        /\ \/ bridge' = MarkResolved(bridge)
           \/ bridge' \in {bridge, [bridge EXCEPT !.resolved = @ \cup {q}]} /\ micro' = micro
    BY <1>8 DEF ReadResolved
  <2>2. CASE bridge' = MarkResolved(bridge)
    BY <1>1, <2>1, <2>2, ResolvedGrows, ShownKeeps
  <2>3. CASE bridge' \in {bridge, [bridge EXCEPT !.resolved = @ \cup {q}]} /\ micro' = micro
    <3>1. bridge'.slot = bridge.slot /\ bridge.resolved \subseteq bridge'.resolved
      BY <1>1, <2>3 DEF Bridge
    <3> QED BY <1>2, <1>3, <2>1, <2>3, <3>1
  <2> QED BY <2>1, <2>2, <2>3
<1> QED BY <1>4, <1>5, <1>6, <1>7, <1>8 DEF Read

LEMMA CompletedIsOver ==
    ASSUME TypeOK, Over => Over', NEW s \in Stream, stream' = Completed(s)
    PROVE  Over'
  BY CompletedStream DEF Over

LEMMA ShownContinuation ==
    ASSUME TypeOK, SlotInv, ShownInv, Continuation, Over => Over', Aborted => Aborted'
    PROVE  ShownInv'
<1> DEFINE l == Head(micro)
           tail == Tail(micro)
<1>1. micro # << >> /\ micro \in Seq(MicroTask) /\ bridge \in Bridge /\ stream \in Stream
  BY DEF TypeOK, Continuation, Continue, Answered, Refused, InterruptRefused, Drained, RegisterOn, Show
<1>2. /\ l \in MicroTask /\ tail \in Seq(MicroTask)
      /\ \A q : Has(tail, "dequeued", q) => Has(micro, "dequeued", q)
      /\ l.kind = "dequeued" => Has(micro, "dequeued", l.of)
      /\ \A q : Ordered(micro, q) /\ l.kind = "registered" /\ l.of = q => \A p : ~Has(tail, "dequeued", p)
  BY <1>1, TailTask
<1>3. /\ Terminated(stream, TRUE) \in Stream /\ ExitError(stream) \in Stream
      /\ Emptied(bridge).resolved = bridge.resolved
  BY <1>1, StreamTypes, ResolvedGrows
<1>4. CASE Answered
  <2>1. \A at : [stream EXCEPT !.at = at].shown = stream.shown
    BY <1>1 DEF Stream
  <2>2. micro' = tail /\ bridge' = bridge /\ stream'.shown = stream.shown
    BY <1>4, <2>1 DEF Answered
  <2> QED BY <1>2, <2>2, ShownKeeps
<1>5. CASE Refused \/ Drained
  <2>1. \E s \in Stream : stream' = Completed(s)
    BY <1>1, <1>3, <1>5 DEF Refused, Drained
  <2>2. Over'
    BY <2>1, CompletedIsOver
  <2> QED BY <2>2 DEF ShownInv
<1>6. CASE InterruptRefused
  <2>1. Aborted'
    BY <1>6 DEF InterruptRefused, Release, Aborted, TypeOK
  <2> QED BY <2>1 DEF ShownInv
<1>7. CASE RegisterOn
  <2>1. /\ l.kind = "dequeued" /\ l.of \in Asking /\ stream' = stream
        /\ bridge' = [bridge EXCEPT !.slot = l.of]
    BY <1>2, <1>7, LineKinds DEF RegisterOn, Continue
  <2>2. bridge'.resolved = bridge.resolved
    BY <1>1, <2>1 DEF Bridge
  <2> QED BY <1>2, <2>1, <2>2, ShownKeeps
<1>8. CASE Show
  <2> DEFINE q == l.of
  <2>1. /\ l.kind = "registered" /\ q \in Asking /\ bridge' = bridge /\ micro' = tail
    BY <1>2, <1>8, LineKinds DEF Show, Continue
  <2>2. CASE stream' = stream
    BY <1>2, <2>1, <2>2, ShownKeeps
  <2>3. CASE bridge.slot = q /\ stream' = [Terminated(stream, FALSE) EXCEPT !.shown = q]
    <3>1. stream'.shown = q
      BY <1>1, <2>3, StreamTypes DEF Stream
    <3>2. CASE q \in bridge.resolved
      BY <2>1, <3>1, <3>2 DEF ShownInv
    <3>3. CASE q \notin bridge.resolved
      <4>1. Ordered(micro, q)
        BY <2>1, <2>3, <3>3 DEF SlotInv
      <4>2. \A p : ~Has(micro', "dequeued", p)
        BY <1>2, <2>1, <4>1
      <4> QED BY <2>1, <2>3, <3>1, <4>2 DEF ShownInv
    <3> QED BY <3>2, <3>3
  <2> QED BY <1>8, <2>2, <2>3 DEF Show
<1> QED BY <1>4, <1>5, <1>6, <1>7, <1>8 DEF Continuation

LEMMA ShownStep ==
    ASSUME TypeOK, SlotInv, ShownInv, [Next]_vars, Aborted => Aborted'
    PROVE  ShownInv'
<1>0. /\ micro \in Seq(MicroTask) /\ bridge \in Bridge /\ stream \in Stream /\ pending \subseteq Requests
      /\ stop \in [asked : BOOLEAN, at : {"no", "ask", "grace", "over"}]
  BY DEF TypeOK
<1>1. Over => Over'
  BY OverLasts DEF Over
<1>2. ASSUME UNCHANGED <<bridge, stream>>,
             \A q \in Asking : Has(micro', "dequeued", q) => Has(micro, "dequeued", q)
      PROVE  ShownInv'
  BY <1>1, <1>2, ShownKeeps
<1>3. CASE UNCHANGED vars \/ \E q \in Asking : UserAnswers(q)
  <2>1. UNCHANGED <<micro, bridge, stream>>
    BY <1>3 DEF UserAnswers, vars
  <2> QED BY <1>2, <2>1
<1>4. CASE AppServer
  BY <1>2, <1>4, ServerWrites
<1>5. ASSUME Aborted' PROVE ShownInv'
  BY <1>5 DEF ShownInv
<1>6. CASE ResolveApproval
  <2>1. CASE bridge.slot = NoItem
    <3>1. UNCHANGED <<micro, bridge, stream>>
      BY <1>6, <2>1 DEF ResolveApproval
    <3> QED BY <1>2, <3>1
  <2>2. CASE bridge.slot # NoItem
    <3>1. stream' = (IF Over THEN stream ELSE [stream EXCEPT !.at = "running", !.shown = NoItem])
      BY <1>6, <2>2 DEF ResolveApproval
    <3>2. Over' \/ stream'.shown = NoItem
      BY <1>0, <1>1, <3>1 DEF Stream
    <3> QED BY <3>2 DEF ShownInv
  <2> QED BY <2>1, <2>2
<1>7. CASE Stop
  <2>1. stream' = stream
    BY <1>7 DEF Stop
  <2>2. CASE Cancels
    <3>1. bridge' \in {MarkResolved(bridge), Emptied(MarkResolved(bridge))}
      BY <1>7, <2>2 DEF Stop
    <3>2. bridge.slot # NoItem
      BY <2>2 DEF Cancels
    <3>3. MarkResolved(bridge) \in Bridge
      BY <1>0, <3>2, BridgeTypes
    <3>4. bridge.resolved \subseteq bridge'.resolved /\ bridge.slot \in bridge'.resolved
      BY <1>0, <3>1, <3>3, ResolvedGrows
    <3> QED BY <1>1, <2>1, <3>4, ShownKeeps
  <2>3. CASE ~Cancels
    <3>1. \/ bridge' = bridge /\ micro' = << >>
          \/ stop'.at = "over"
      BY <1>7, <2>3 DEF Stop
    <3> QED BY <1>2, <1>5, <2>1, <3>1, NoTask DEF Aborted
  <2> QED BY <2>2, <2>3
<1>8. CASE GraceOver
  <2>1. stop' = [stop EXCEPT !.at = "over"]
    BY <1>8 DEF GraceOver, Release
  <2> QED BY <1>0, <1>5, <2>1 DEF Aborted
<1>9. ASSUME NEW m \in pending, RequestTimeout(m) PROVE ShownInv'
  <2>1. micro' = <<Line("refusal", m)>> /\ UNCHANGED <<bridge, stream>>
    BY <1>9 DEF RequestTimeout
  <2>2. \A q : ~Has(micro', "dequeued", q)
    BY <2>1, HasFew
  <2> QED BY <1>2, <2>1, <2>2
<1>10. CASE Exit
  <2> DEFINE m == CHOOSE m \in pending : TRUE
             r == IF pending = {} THEN << >> ELSE <<Line("refusal", m)>>
             d == IF HearsExit THEN <<Line("drained", NoItem)>> ELSE << >>
  <2>1. micro' = r \o d
    BY <1>10 DEF Exit
  <2>2. r # << >> => m \in Requests
    BY <1>0
  <2>3. r \in {<< >>, <<Line("refusal", m)>>} /\ d \in {<< >>, <<Line("drained", NoItem)>>}
    OBVIOUS
  <2>4. UNCHANGED <<bridge, stream>> \/ stream' = Completed(ExitError(stream))
    BY <1>10 DEF Exit
  <2> HIDE DEF m, r, d
  <2>5. \A q : ~Has(micro', "dequeued", q)
    BY <1>0, <2>1, <2>2, <2>3, FewTasks
  <2>6. CASE UNCHANGED <<bridge, stream>>
    BY <1>2, <2>5, <2>6
  <2>7. CASE stream' = Completed(ExitError(stream))
    <3>1. Over'
      BY <1>0, <1>1, <2>7, StreamTypes, CompletedIsOver
    <3> QED BY <3>1 DEF ShownInv
  <2> QED BY <2>4, <2>6, <2>7
<1> QED BY <1>1, <1>3, <1>4, <1>6, <1>7, <1>8, <1>9, <1>10, ShownRead, ShownContinuation
        DEF Next, Timer, User

LEMMA ShownInit == Init => InterruptInv /\ SlotInv /\ ShownInv
<1> SUFFICES ASSUME Init PROVE InterruptInv /\ SlotInv /\ ShownInv
  OBVIOUS
<1>1. micro = << >> /\ "interrupt" \notin pending /\ stream.shown = NoItem
  BY DEF Init
<1> QED BY <1>1, NoTask DEF InterruptInv, SlotInv, ShownInv

(* The interrupt the user is shown holds the bridge's slot, or the         *)
(* app-server has cleared it: requests that arrive, are dequeued or are    *)
(* resolved in one chunk do not change places with it.                     *)
THEOREM ShownStaysPending == Spec => []ShownIsPending
<1> DEFINE Shown == IInv /\ InterruptInv /\ SlotInv /\ ShownInv
<1>1. Init => Shown
  BY InvariantInit, ShownInit
<1>2. Shown /\ [Next]_vars => Shown'
  BY InvariantStep, InterruptStep, SlotStep, ShownStep DEF IInv
<1>3. Shown => ShownIsPending
  BY DEF ShownInv, ShownIsPending
<1> QED BY <1>1, <1>2, <1>3, PTL DEF Spec
=============================================================================
