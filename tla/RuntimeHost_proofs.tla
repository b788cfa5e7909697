------------------------ MODULE RuntimeHost_proofs ------------------------
(***************************************************************************)
(* The inductive invariant of RuntimeHost and the safety properties that   *)
(* follow from it, for any runs, workspaces, placements, lifecycle         *)
(* versions, calls of releaseResources and mishaps.  First the types, one  *)
(* lemma per helper of the model, then the invariant, one lemma per action.*)
(***************************************************************************)
EXTENDS RuntimeHost, TLAPS

Contexts == Targets \cup {NoTarget}

RunTypes ==
    /\ call \in [Runs -> {"new", "making", "accepted", "refused"}]
    /\ phase \in [Runs -> {"none", "configuring", "acquiring", "ready"}]
    /\ cancelled \in [Runs -> BOOLEAN]
    /\ bound \in [Runs -> Runs \cup {NoRun}]
    /\ wait \in [Runs -> Runs \cup {NoRun}]
    /\ told \in [Runs -> {"nothing", "cancelled", "failed", "lost", "twice"}]
    /\ sent \in [Runs -> BOOLEAN]
    /\ early \in [Runs -> BOOLEAN]

PoolTypes ==
    /\ pool \in [Runs -> {"out", "starting", "ready"}]
    /\ active \in [Runs -> SUBSET Runs]
    /\ acq \in [Runs -> {"none", "start", "handshake", "cleanup", "done", "broken"}]
    /\ acqSpaces \in [Runs -> SUBSET Spaces]

LaunchTypes ==
    /\ started \in [Runs -> {"no", "pending", "ok", "failed"}]
    /\ known \in [Runs -> BOOLEAN]
    /\ shake \in [Runs -> {"no", "pending", "done", "rejected"}]
    /\ off \in [Runs -> BOOLEAN]
    /\ res \in [Runs -> {"open", "resolved", "rejected"}]
    /\ why \in [Runs -> Contexts]
    /\ inst \in [Runs -> {"none", "live", "gone"}]

LedgerTypes ==
    /\ led \in [Runs -> {"none", "pending", "running"}]
    /\ ledRel \in [Runs -> Contexts]

FenceTypes ==
    /\ tomb \subseteq Spaces
    /\ revoked \in 0..MaxVersion
    /\ maxSeen \in 0..MaxVersion
    /\ mishaps \in 0..MaxMishaps

RelTypes ==
    rel \in [Calls -> [pc : {"idle", "retry", "drain", "remove", "acked", "failed"},
                       target : Contexts, todo : SUBSET Runs, on : Runs \cup {NoRun}]]

LEMMA Types == TypeOK <=> /\ RunTypes /\ PoolTypes /\ LaunchTypes
                          /\ LedgerTypes /\ FenceTypes /\ RelTypes
  BY Zenon DEF TypeOK, RunTypes, PoolTypes, LaunchTypes, LedgerTypes, FenceTypes, RelTypes, Contexts

-----------------------------------------------------------------------------
(* The helpers keep the types of what they change.                         *)

LEMMA TargetFacts ==
  ASSUME NEW t \in Targets
  PROVE /\ t.kind = "workspace" => t.space \in Spaces
        /\ t.kind # "workspace" => t.version \in 1..MaxVersion
        /\ t.kind \in {"workspace", "user"}
  BY DEF Targets, WorkspaceTarget, UserTarget

LEMMA OrTyped == ASSUME NEW t \in Contexts, NEW u \in Contexts PROVE Or(t, u) \in Contexts
  BY DEF Or

LEMMA ClearedTyped ==
  ASSUME RunTypes, NEW R, Cleared(R)
  PROVE /\ phase' \in [Runs -> {"none", "configuring", "acquiring", "ready"}]
        /\ cancelled' \in [Runs -> BOOLEAN]
        /\ bound' \in [Runs -> Runs \cup {NoRun}]
  BY DEF RunTypes, Cleared

LEMMA TellTyped ==
  ASSUME RunTypes, NEW R, NEW what \in {"cancelled", "failed", "lost"}, Tell(R, what)
  PROVE told' \in [Runs -> {"nothing", "cancelled", "failed", "lost", "twice"}]
  BY DEF RunTypes, Tell

LEMMA DissociatedTyped ==
  ASSUME PoolTypes, NEW R PROVE Dissociated(R) \in [Runs -> SUBSET Runs]
  BY DEF PoolTypes, Dissociated

LEMMA EvictedTyped ==
  ASSUME PoolTypes, LaunchTypes, NEW W, Evicted(W)
  PROVE /\ pool' \in [Runs -> {"out", "starting", "ready"}]
        /\ shake' \in [Runs -> {"no", "pending", "done", "rejected"}]
  BY DEF PoolTypes, LaunchTypes, Evicted

LEMMA CleanupTyped ==
  ASSUME LedgerTypes, NEW W, NEW t \in [Runs -> Contexts], Cleanup(W, t)
  PROVE LedgerTypes'
  <1>1. led' \in [Runs -> {"none", "pending", "running"}]
    BY DEF LedgerTypes, Cleanup
  <1>2. \A w \in Runs : Or(ledRel[w], t[w]) \in Contexts
    BY OrTyped DEF LedgerTypes
  <1>3. ledRel' \in [Runs -> Contexts]
    BY <1>2 DEF LedgerTypes, Cleanup
  <1> QED BY <1>1, <1>3 DEF LedgerTypes, Contexts, Targets, WorkspaceTarget, UserTarget, NoTarget

LEMMA SettledTyped ==
  ASSUME LaunchTypes, NEW W, Settled(W)
  PROVE /\ started' \in [Runs -> {"no", "pending", "ok", "failed"}]
        /\ shake' \in [Runs -> {"no", "pending", "done", "rejected"}]
        /\ off' \in [Runs -> BOOLEAN]
        /\ why' \in [Runs -> Contexts]
  <1>1. NoTarget \in Contexts
    BY DEF Contexts
  <1> QED BY <1>1 DEF LaunchTypes, Settled

LEMMA CancelAttemptsTyped ==
  ASSUME PoolTypes, LaunchTypes, LedgerTypes, NEW W, NEW t \in Contexts, CancelAttempts(W, t)
  PROVE /\ off' \in [Runs -> BOOLEAN]
        /\ why' \in [Runs -> Contexts]
        /\ pool' \in [Runs -> {"out", "starting", "ready"}]
        /\ shake' \in [Runs -> {"no", "pending", "done", "rejected"}]
        /\ res' \in [Runs -> {"open", "resolved", "rejected"}]
        /\ LedgerTypes'
  <1> DEFINE fresh == {w \in W : ~off[w]}
             because == [w \in Runs |-> IF w \in fresh THEN t
                                        ELSE IF w \in W THEN Or(why[w], t) ELSE why[w]]
             known_ == {w \in W : known[w] /\ (w \in fresh \/ t # NoTarget)}
  <1>1. /\ off' = [w \in Runs |-> w \in W \/ off[w]]
        /\ why' = because
        /\ Evicted(fresh)
        /\ res' = [w \in Runs |-> IF w \in fresh /\ res[w] = "open" THEN "rejected" ELSE res[w]]
        /\ Cleanup(known_, because)
    BY DEF CancelAttempts
  <1>2. \A w \in Runs : Or(why[w], t) \in Contexts
    BY OrTyped DEF LaunchTypes
  <1>3. because \in [Runs -> Contexts]
    BY <1>2 DEF LaunchTypes
  <1>4. off' \in [Runs -> BOOLEAN]
    BY <1>1, Zenon
  <1>5. res' \in [Runs -> {"open", "resolved", "rejected"}]
    BY <1>1 DEF LaunchTypes
  <1>6. /\ pool' \in [Runs -> {"out", "starting", "ready"}]
        /\ shake' \in [Runs -> {"no", "pending", "done", "rejected"}]
    <2> HIDE DEF fresh
    <2> QED BY <1>1, EvictedTyped
  <1>7. LedgerTypes'
    <2> HIDE DEF known_, because
    <2> QED BY <1>1, <1>3, CleanupTyped
  <1> QED BY <1>1, <1>3, <1>4, <1>5, <1>6, <1>7

LEMMA RemoveWorkerTyped ==
  ASSUME RunTypes, PoolTypes, LaunchTypes, LedgerTypes, NEW w \in Runs, NEW mode,
         NEW t \in Contexts, RemoveWorker(w, mode, t)
  PROVE /\ RunTypes' /\ PoolTypes' /\ LedgerTypes'
        /\ shake' \in [Runs -> {"no", "pending", "done", "rejected"}]
  <1>1. /\ Evicted({w}) /\ Cleared(active[w]) /\ Tell(active[w], "lost")
        /\ active' = [active EXCEPT ![w] = {}]
        /\ Cleanup(Owned(w, mode), [v \in Runs |-> t])
        /\ UNCHANGED <<call, wait, sent, early, acq, acqSpaces, started, known, off, res, why>>
    BY DEF RemoveWorker
  <1>2. RunTypes'
    <2>1. /\ phase' \in [Runs -> {"none", "configuring", "acquiring", "ready"}]
          /\ cancelled' \in [Runs -> BOOLEAN]
          /\ bound' \in [Runs -> Runs \cup {NoRun}]
      BY <1>1, ClearedTyped
    <2>2. told' \in [Runs -> {"nothing", "cancelled", "failed", "lost", "twice"}]
      BY <1>1, TellTyped
    <2> QED BY <1>1, <2>1, <2>2 DEF RunTypes
  <1>3. /\ pool' \in [Runs -> {"out", "starting", "ready"}]
        /\ shake' \in [Runs -> {"no", "pending", "done", "rejected"}]
    BY <1>1, EvictedTyped
  <1>4. PoolTypes'
    BY <1>1, <1>3 DEF PoolTypes
  <1>5. LedgerTypes'
    BY <1>1, CleanupTyped
  <1> QED BY <1>2, <1>3, <1>4, <1>5

(* The contexts of a release do not depend on the state.                   *)
LEMMA ContextsFixed == Contexts' = Contexts
  BY DEF Contexts, Targets, WorkspaceTarget, UserTarget, NoTarget

LEMMA TargetsFixed == Targets' = Targets
  BY DEF Targets, WorkspaceTarget, UserTarget

LEMMA TypesNext == RunTypes' /\ PoolTypes' /\ LaunchTypes' /\ LedgerTypes' /\ FenceTypes' /\ RelTypes'
                   => TypeOK'
  BY Zenon DEF TypeOK, RunTypes, PoolTypes, LaunchTypes, LedgerTypes, FenceTypes, RelTypes, Contexts

-----------------------------------------------------------------------------
(* Each action keeps the types.                                            *)

LEMMA LaunchStartedTyped == ASSUME TypeOK, NEW w \in Runs, LaunchStarted(w) PROVE TypeOK'
  <1>1. RunTypes /\ PoolTypes /\ LaunchTypes /\ LedgerTypes /\ FenceTypes /\ RelTypes
    BY Types
  <1>2. RunTypes'
    BY <1>1 DEF RunTypes, LaunchStarted, runVars
  <1>3. PoolTypes'
    BY <1>1 DEF PoolTypes, LaunchStarted, poolVars
  <1>4. LaunchTypes'
    BY <1>1, ContextsFixed DEF LaunchTypes, LaunchStarted, launchVars
  <1>5. LedgerTypes'
    BY <1>1, ContextsFixed DEF LedgerTypes, LaunchStarted, ledgerVars
  <1>6. FenceTypes'
    BY <1>1 DEF FenceTypes, LaunchStarted, fenceVars
  <1>7. RelTypes'
    BY <1>1, ContextsFixed DEF RelTypes, LaunchStarted
  <1> QED BY <1>2, <1>3, <1>4, <1>5, <1>6, <1>7, TypesNext

LEMMA LaunchReadyTyped == ASSUME TypeOK, NEW w \in Runs, LaunchReady(w) PROVE TypeOK'
  <1>1. RunTypes /\ PoolTypes /\ LaunchTypes /\ LedgerTypes /\ FenceTypes /\ RelTypes
    BY Types
  <1>2. RunTypes'
    BY <1>1 DEF RunTypes, LaunchReady, runVars
  <1>3. PoolTypes'
    BY <1>1 DEF PoolTypes, LaunchReady
  <1>4. LaunchTypes'
    BY <1>1, ContextsFixed, SettledTyped DEF LaunchTypes, LaunchReady
  <1>5. LedgerTypes'
    BY <1>1, ContextsFixed DEF LedgerTypes, LaunchReady, ledgerVars
  <1>6. FenceTypes'
    BY <1>1 DEF FenceTypes, LaunchReady, fenceVars
  <1>7. RelTypes'
    BY <1>1, ContextsFixed DEF RelTypes, LaunchReady
  <1> QED BY <1>2, <1>3, <1>4, <1>5, <1>6, <1>7, TypesNext

LEMMA LaunchFailsTyped == ASSUME TypeOK, NEW w \in Runs, LaunchFails(w) PROVE TypeOK'
  <1>1. RunTypes /\ PoolTypes /\ LaunchTypes /\ LedgerTypes /\ FenceTypes /\ RelTypes
    BY Types
  <1>2. PoolTypes'
    BY <1>1 DEF PoolTypes, LaunchFails
  <1>3. LaunchTypes'
    BY ZenonT(60), <1>1, SettledTyped, ContextsFixed DEF LaunchTypes, LaunchFails
  <1>4. LedgerTypes'
    <2>1. CASE known[w]
      <3>1. Cleanup({w}, why)
        BY <2>1 DEF LaunchFails
      <3> QED BY <1>1, <3>1, CleanupTyped DEF LaunchTypes
    <2>2. CASE ~known[w]
      BY <1>1, <2>2, ContextsFixed DEF LedgerTypes, LaunchFails, ledgerVars
    <2> QED BY <2>1, <2>2
  <1>5. RunTypes'
    BY <1>1 DEF RunTypes, LaunchFails, runVars
  <1>6. FenceTypes'
    BY <1>1 DEF FenceTypes, LaunchFails, fenceVars
  <1>7. RelTypes'
    BY <1>1, ContextsFixed DEF RelTypes, LaunchFails
  <1> QED BY <1>2, <1>3, <1>4, <1>5, <1>6, <1>7, TypesNext

LEMMA AcquiredTyped == ASSUME TypeOK, NEW r \in Runs, Acquired(r) PROVE TypeOK'
  <1>1. RunTypes /\ PoolTypes /\ LaunchTypes /\ LedgerTypes /\ FenceTypes /\ RelTypes
    BY Types
  <1>2. RunTypes' /\ PoolTypes'
    <2>1. /\ wait[r] \in Runs
          /\ wait' = [wait EXCEPT ![r] = NoRun]
          /\ UNCHANGED <<call, early, pool, acq, acqSpaces>>
      BY <1>1 DEF Acquired, RunTypes, launchVars
    <2>2. CASE phase[r] = "none"
      BY <1>1, <2>1, <2>2 DEF Acquired, RunTypes, PoolTypes
    <2>3. CASE phase[r] # "none" /\ cancelled[r]
      <3>1. Cleared({r}) /\ Tell({r}, "cancelled") /\ active' = Dissociated({r}) /\ UNCHANGED sent
        BY <2>3 DEF Acquired, OnAcquired
      <3> QED BY <1>1, <2>1, <3>1, ClearedTyped, TellTyped, DissociatedTyped DEF RunTypes, PoolTypes
    <2>4. CASE phase[r] # "none" /\ ~cancelled[r]
      <3>1. Bound(r, wait[r])
        BY <2>4 DEF Acquired, OnAcquired
      <3>2. /\ bound' = [bound EXCEPT ![r] = wait[r]]
            /\ phase' = [phase EXCEPT ![r] = "ready"]
            /\ sent' = [sent EXCEPT ![r] = TRUE]
            /\ UNCHANGED <<cancelled, told>>
        BY <3>1 DEF Bound
      <3>3. RunTypes'
        BY <1>1, <2>1, <3>2 DEF RunTypes
      <3>4. active' \in [Runs -> SUBSET Runs]
        BY <1>1, <3>1 DEF Bound, PoolTypes
      <3> QED BY <1>1, <2>1, <3>3, <3>4 DEF PoolTypes
    <2> QED BY <2>2, <2>3, <2>4
  <1>3. LaunchTypes'
    BY <1>1, ContextsFixed DEF LaunchTypes, Acquired, launchVars
  <1>4. LedgerTypes'
    BY <1>1, ContextsFixed DEF LedgerTypes, Acquired, ledgerVars
  <1>5. FenceTypes'
    BY <1>1 DEF FenceTypes, Acquired, fenceVars
  <1>6. RelTypes'
    BY <1>1, ContextsFixed DEF RelTypes, Acquired
  <1> QED BY <1>2, <1>3, <1>4, <1>5, <1>6, TypesNext

LEMMA AcquireFailedTyped == ASSUME TypeOK, NEW r \in Runs, AcquireFailed(r) PROVE TypeOK'
  <1>1. RunTypes /\ PoolTypes /\ LaunchTypes /\ LedgerTypes /\ FenceTypes /\ RelTypes
    BY Types
  <1>2. RunTypes' /\ PoolTypes'
    <2>1. /\ wait' = [wait EXCEPT ![r] = NoRun]
          /\ Cleared(Ended(r)) /\ Tell(Ended(r), "failed") /\ active' = Dissociated(Ended(r))
          /\ UNCHANGED <<call, sent, early, pool, acq, acqSpaces>>
      BY DEF AcquireFailed, launchVars
    <2> QED BY <1>1, <2>1, ClearedTyped, TellTyped, DissociatedTyped DEF RunTypes, PoolTypes
  <1>3. LaunchTypes'
    BY <1>1, ContextsFixed DEF LaunchTypes, AcquireFailed, launchVars
  <1>4. LedgerTypes'
    BY <1>1, ContextsFixed DEF LedgerTypes, AcquireFailed, ledgerVars
  <1>5. FenceTypes'
    BY <1>1 DEF FenceTypes, AcquireFailed, fenceVars
  <1>6. RelTypes'
    BY <1>1, ContextsFixed DEF RelTypes, AcquireFailed
  <1> QED BY <1>2, <1>3, <1>4, <1>5, <1>6, TypesNext

LEMMA RetryNextTyped == ASSUME TypeOK, NEW c \in Calls, RetryNext(c) PROVE TypeOK'
  <1>1. RunTypes /\ PoolTypes /\ LaunchTypes /\ LedgerTypes /\ FenceTypes /\ RelTypes
    BY Types
  <1>2. LedgerTypes'
    <2>1. \A w \in Runs : Or(ledRel[w], rel[c].target) \in Contexts
      BY <1>1, OrTyped DEF LedgerTypes, RelTypes
    <2>2. PICK w \in Runs : IF led[w] = "none" THEN UNCHANGED ledgerVars
                            ELSE /\ led' = [led EXCEPT ![w] = "running"]
                                 /\ ledRel' = [ledRel EXCEPT ![w] = Or(@, rel[c].target)]
      BY <1>1 DEF RetryNext, RelTypes
    <2> QED BY <1>1, <2>1, <2>2, ContextsFixed DEF LedgerTypes, ledgerVars
  <1>3. RelTypes'
    <2>1. PICK w \in rel[c].todo :
            rel' = [rel EXCEPT ![c].todo = @ \ {w}, ![c].on = IF led[w] = "none" THEN NoRun ELSE w]
      BY DEF RetryNext
    <2>2. w \in Runs
      BY <1>1 DEF RelTypes
    <2> QED BY ZenonT(60), <1>1, <2>1, <2>2, ContextsFixed DEF RelTypes
  <1>4. RunTypes'
    BY <1>1 DEF RunTypes, RetryNext, runVars
  <1>5. PoolTypes'
    BY <1>1 DEF PoolTypes, RetryNext, poolVars, launchVars
  <1>6. LaunchTypes'
    BY <1>1, ContextsFixed DEF LaunchTypes, RetryNext, launchVars
  <1>7. FenceTypes'
    BY <1>1 DEF FenceTypes, RetryNext, fenceVars
  <1> QED BY <1>2, <1>3, <1>4, <1>5, <1>6, <1>7, TypesNext

LEMMA ReleaseCancelTyped == ASSUME TypeOK, NEW c \in Calls, ReleaseCancel(c) PROVE TypeOK'
  <1>1. RunTypes /\ PoolTypes /\ LaunchTypes /\ LedgerTypes /\ FenceTypes /\ RelTypes
    BY Types
  <1>2. RunTypes' /\ PoolTypes'
    <2>1. PICK R : /\ Cleared(R) /\ Tell(R, "cancelled") /\ active' = Dissociated(R)
      BY DEF ReleaseCancel
    <2>2. acqSpaces' \in [Runs -> SUBSET Spaces]
      BY <1>1 DEF ReleaseCancel, PoolTypes
    <2>3. pool' \in [Runs -> {"out", "starting", "ready"}]
      BY <1>1, CancelAttemptsTyped DEF ReleaseCancel, RelTypes
    <2>4. UNCHANGED <<call, wait, sent, early, acq>>
      BY DEF ReleaseCancel
    <2> QED BY <1>1, <2>1, <2>2, <2>3, <2>4, ClearedTyped, TellTyped, DissociatedTyped
            DEF RunTypes, PoolTypes
  <1>3. LaunchTypes'
    <2>1. UNCHANGED <<started, known, inst>> /\ CancelAttempts(Cancels(rel[c].target), rel[c].target)
      BY DEF ReleaseCancel
    <2> QED BY <1>1, <2>1, CancelAttemptsTyped, ContextsFixed DEF LaunchTypes, RelTypes
  <1>4. LedgerTypes'
    <2>1. CancelAttempts(Cancels(rel[c].target), rel[c].target)
      BY DEF ReleaseCancel
    <2> QED BY <1>1, <2>1, CancelAttemptsTyped DEF RelTypes
  <1>5. RelTypes'
    <2>1. rel' = [rel EXCEPT ![c].pc = "drain", ![c].todo = Cancels(rel[c].target)]
      BY DEF ReleaseCancel
    <2>2. Cancels(rel[c].target) \in SUBSET Runs
      BY DEF Cancels
    <2> QED BY <1>1, <2>1, <2>2, ContextsFixed DEF RelTypes
  <1>6. FenceTypes'
    BY <1>1 DEF FenceTypes, ReleaseCancel, fenceVars
  <1> QED BY <1>2, <1>3, <1>4, <1>5, <1>6, TypesNext

LEMMA ReleaseDrainedTyped == ASSUME TypeOK, NEW c \in Calls, ReleaseDrained(c) PROVE TypeOK'
  <1>1. RunTypes /\ PoolTypes /\ LaunchTypes /\ LedgerTypes /\ FenceTypes /\ RelTypes
    BY Types
  <1>2. RunTypes'
    BY <1>1 DEF RunTypes, ReleaseDrained, runVars
  <1>3. PoolTypes'
    BY <1>1 DEF PoolTypes, ReleaseDrained, poolVars, launchVars
  <1>4. LaunchTypes'
    BY <1>1, ContextsFixed DEF LaunchTypes, ReleaseDrained, launchVars
  <1>5. LedgerTypes'
    BY <1>1, ContextsFixed DEF LedgerTypes, ReleaseDrained, ledgerVars
  <1>6. FenceTypes'
    BY <1>1 DEF FenceTypes, ReleaseDrained, fenceVars
  <1>7. RelTypes'
    BY <1>1, ContextsFixed DEF RelTypes, ReleaseDrained
  <1> QED BY <1>2, <1>3, <1>4, <1>5, <1>6, <1>7, TypesNext

LEMMA RemoveNextTyped == ASSUME TypeOK, NEW c \in Calls, RemoveNext(c) PROVE TypeOK'
  <1>1. RunTypes /\ PoolTypes /\ LaunchTypes /\ LedgerTypes /\ FenceTypes /\ RelTypes
    BY Types
  <1>2. RunTypes' /\ PoolTypes' /\ LaunchTypes' /\ LedgerTypes'
    <2>1. PICK w \in rel[c].todo :
            IF pool[w] = "out"
            THEN UNCHANGED <<runVars, poolVars, launchVars, ledgerVars>>
            ELSE RemoveWorker(w, "release", rel[c].target) /\ UNCHANGED inst
      BY DEF RemoveNext
    <2>2. w \in Runs /\ rel[c].target \in Contexts
      BY <1>1 DEF RelTypes
    <2>3. CASE pool[w] = "out"
      BY <1>1, <2>1, <2>3, ContextsFixed
         DEF RunTypes, PoolTypes, LaunchTypes, LedgerTypes, runVars, poolVars, launchVars, ledgerVars
    <2>4. CASE pool[w] # "out"
      <3>1. /\ RemoveWorker(w, "release", rel[c].target)
            /\ UNCHANGED <<started, known, off, res, why, inst>>
        BY <2>1, <2>4 DEF RemoveWorker
      <3> QED BY <1>1, <2>2, <3>1, RemoveWorkerTyped, ContextsFixed DEF LaunchTypes
    <2> QED BY <2>3, <2>4
  <1>3. RelTypes'
    <2>1. PICK w \in rel[c].todo : \E on \in Runs \cup {NoRun} :
            \/ rel' = [rel EXCEPT ![c].todo = @ \ {w}, ![c].on = on]
            \/ rel' = [rel EXCEPT ![c].todo = @ \ {w}]
      BY <1>1 DEF RemoveNext, RelTypes
    <2> QED BY <1>1, <2>1, ContextsFixed DEF RelTypes
  <1>4. FenceTypes'
    BY <1>1 DEF FenceTypes, RemoveNext, fenceVars
  <1> QED BY <1>2, <1>3, <1>4, TypesNext

LEMMA ReleaseDoneTyped == ASSUME TypeOK, NEW c \in Calls, ReleaseDone(c) PROVE TypeOK'
  <1>1. RunTypes /\ PoolTypes /\ LaunchTypes /\ LedgerTypes /\ FenceTypes /\ RelTypes
    BY Types
  <1>2. RunTypes'
    BY <1>1 DEF RunTypes, ReleaseDone, runVars
  <1>3. PoolTypes'
    BY <1>1 DEF PoolTypes, ReleaseDone, poolVars, launchVars
  <1>4. LaunchTypes'
    BY <1>1, ContextsFixed DEF LaunchTypes, ReleaseDone, launchVars
  <1>5. LedgerTypes'
    BY <1>1, ContextsFixed DEF LedgerTypes, ReleaseDone, ledgerVars
  <1>6. FenceTypes'
    BY <1>1 DEF FenceTypes, ReleaseDone, fenceVars
  <1>7. RelTypes'
    BY <1>1, ContextsFixed DEF RelTypes, ReleaseDone
  <1> QED BY <1>2, <1>3, <1>4, <1>5, <1>6, <1>7, TypesNext

LEMMA SubmitTyped == ASSUME TypeOK, NEW r \in Runs, Submit(r) PROVE TypeOK'
  <1>1. RunTypes /\ PoolTypes /\ LaunchTypes /\ LedgerTypes /\ FenceTypes /\ RelTypes
    BY Types
  <1>2. RunTypes'
    BY <1>1 DEF RunTypes, Submit
  <1>3. PoolTypes'
    BY <1>1 DEF PoolTypes, Submit, poolVars, launchVars
  <1>4. LaunchTypes'
    BY <1>1, ContextsFixed DEF LaunchTypes, Submit, launchVars
  <1>5. LedgerTypes'
    BY <1>1, ContextsFixed DEF LedgerTypes, Submit, ledgerVars
  <1>6. FenceTypes'
    BY <1>1, PlacementAssumption DEF FenceTypes, Submit
  <1>7. RelTypes'
    BY <1>1, ContextsFixed DEF RelTypes, Submit
  <1> QED BY <1>2, <1>3, <1>4, <1>5, <1>6, <1>7, TypesNext

LEMMA ConfiguredTyped == ASSUME TypeOK, NEW r \in Runs, Configured(r) PROVE TypeOK'
  <1>1. RunTypes /\ PoolTypes /\ LaunchTypes /\ LedgerTypes /\ FenceTypes /\ RelTypes
    BY Types
  <1>2. RunTypes' /\ PoolTypes'
    <2>1. call' = [call EXCEPT ![r] = "accepted"] /\ UNCHANGED early
      BY DEF Configured
    <2>2. CASE phase[r] = "none"
      BY <1>1, <2>1, <2>2 DEF Configured, RunTypes, PoolTypes, poolVars
    <2>3. CASE phase[r] # "none" /\ ReadyFor(r) = {}
      <3>1. Acquire(r)
        BY <2>3 DEF Configured
      <3>2. Waiting(r) \in SUBSET Spaces
        BY PlacementAssumption DEF Waiting
      <3>3. CASE InFlight(r) # {}
        <4>1. PICK w \in Runs : /\ acqSpaces' = [acqSpaces EXCEPT ![w] = @ \cup Waiting(r)]
                                /\ wait' = [wait EXCEPT ![r] = w]
                                /\ UNCHANGED <<pool, acq>>
          BY <3>1, <3>3 DEF Acquire, InFlight
        <4> QED BY <1>1, <2>1, <3>1, <3>2, <4>1 DEF Acquire, RunTypes, PoolTypes
      <3>4. CASE InFlight(r) = {}
        BY <1>1, <2>1, <3>1, <3>2, <3>4 DEF Acquire, RunTypes, PoolTypes
      <3> QED BY <3>3, <3>4
    <2>4. CASE phase[r] # "none" /\ ReadyFor(r) # {}
      <3>1. PICK w \in Runs : OnAcquired(r, w) /\ UNCHANGED <<wait, pool, acq, acqSpaces>>
        BY <2>4 DEF Configured, ReadyFor
      <3>2. CASE cancelled[r]
        <4>1. Cleared({r}) /\ Tell({r}, "cancelled") /\ active' = Dissociated({r}) /\ UNCHANGED sent
          BY <3>1, <3>2 DEF OnAcquired
        <4> QED BY <1>1, <2>1, <3>1, <4>1, ClearedTyped, TellTyped, DissociatedTyped DEF RunTypes, PoolTypes
      <3>3. CASE ~cancelled[r]
        <4>1. /\ bound' = [bound EXCEPT ![r] = w]
              /\ phase' = [phase EXCEPT ![r] = "ready"]
              /\ sent' = [sent EXCEPT ![r] = TRUE]
              /\ active' = [active EXCEPT ![w] = IF pool[w] # "out" THEN @ \cup {r} ELSE @]
              /\ UNCHANGED <<cancelled, told>>
          BY <3>1, <3>3 DEF OnAcquired, Bound
        <4>2. RunTypes'
          BY <1>1, <2>1, <3>1, <4>1 DEF RunTypes
        <4>3. active' \in [Runs -> SUBSET Runs]
          BY <1>1, <4>1 DEF PoolTypes
        <4> QED BY <1>1, <3>1, <4>2, <4>3 DEF PoolTypes
      <3> QED BY <3>2, <3>3
    <2> QED BY <2>2, <2>3, <2>4
  <1>3. LaunchTypes'
    <2>1. /\ UNCHANGED <<known, off, res, why, inst>>
          /\ \/ UNCHANGED <<started, shake>>
             \/ /\ started' = [started EXCEPT ![r] = "pending"]
                /\ shake' = [shake EXCEPT ![r] = "pending"]
      BY DEF Configured, Acquire
    <2> QED BY <1>1, <2>1, ContextsFixed DEF LaunchTypes
  <1>4. LedgerTypes'
    BY <1>1, ContextsFixed DEF LedgerTypes, Configured, ledgerVars
  <1>5. FenceTypes'
    BY <1>1 DEF FenceTypes, Configured, fenceVars
  <1>6. RelTypes'
    BY <1>1, ContextsFixed DEF RelTypes, Configured
  <1> QED BY <1>2, <1>3, <1>4, <1>5, <1>6, TypesNext

LEMMA ConfigFailedTyped == ASSUME TypeOK, NEW r \in Runs, ConfigFailed(r) PROVE TypeOK'
  <1>1. RunTypes /\ PoolTypes /\ LaunchTypes /\ LedgerTypes /\ FenceTypes /\ RelTypes
    BY Types
  <1>2. RunTypes' /\ PoolTypes'
    <2>1. /\ Cleared({r}) /\ active' = Dissociated({r})
          /\ UNCHANGED <<wait, told, sent, early, pool, acq, acqSpaces>>
      BY DEF ConfigFailed, launchVars
    <2> QED BY <1>1, <2>1, ClearedTyped, DissociatedTyped DEF ConfigFailed, RunTypes, PoolTypes
  <1>3. LaunchTypes'
    BY <1>1, ContextsFixed DEF LaunchTypes, ConfigFailed, launchVars
  <1>4. LedgerTypes'
    BY <1>1, ContextsFixed DEF LedgerTypes, ConfigFailed, ledgerVars
  <1>5. FenceTypes'
    BY <1>1 DEF FenceTypes, ConfigFailed, fenceVars
  <1>6. RelTypes'
    BY <1>1, ContextsFixed DEF RelTypes, ConfigFailed
  <1> QED BY <1>2, <1>3, <1>4, <1>5, <1>6, TypesNext

LEMMA CancelTyped == ASSUME TypeOK, NEW r \in Runs, Cancel(r) PROVE TypeOK'
  <1>1. RunTypes /\ PoolTypes /\ LaunchTypes /\ LedgerTypes /\ FenceTypes /\ RelTypes
    BY Types
  <1>2. RunTypes'
    BY <1>1 DEF RunTypes, Cancel
  <1>3. PoolTypes'
    BY <1>1 DEF PoolTypes, Cancel, poolVars, launchVars
  <1>4. LaunchTypes'
    BY <1>1, ContextsFixed DEF LaunchTypes, Cancel, launchVars
  <1>5. LedgerTypes'
    BY <1>1, ContextsFixed DEF LedgerTypes, Cancel, ledgerVars
  <1>6. FenceTypes'
    BY <1>1 DEF FenceTypes, Cancel, fenceVars
  <1>7. RelTypes'
    BY <1>1, ContextsFixed DEF RelTypes, Cancel
  <1> QED BY <1>2, <1>3, <1>4, <1>5, <1>6, <1>7, TypesNext

LEMMA ReleaseRunTyped == ASSUME TypeOK, NEW r \in Runs, ReleaseRun(r) PROVE TypeOK'
  <1>1. RunTypes /\ PoolTypes /\ LaunchTypes /\ LedgerTypes /\ FenceTypes /\ RelTypes
    BY Types
  <1>2. RunTypes' /\ PoolTypes'
    <2>1. /\ Cleared({r}) /\ active' = Dissociated({r})
          /\ UNCHANGED <<wait, told, sent, early, pool, acq, acqSpaces>>
      BY DEF ReleaseRun, launchVars
    <2> QED BY <1>1, <2>1, ClearedTyped, DissociatedTyped DEF ReleaseRun, RunTypes, PoolTypes
  <1>3. LaunchTypes'
    BY <1>1, ContextsFixed DEF LaunchTypes, ReleaseRun, launchVars
  <1>4. LedgerTypes'
    BY <1>1, ContextsFixed DEF LedgerTypes, ReleaseRun, ledgerVars
  <1>5. FenceTypes'
    BY <1>1 DEF FenceTypes, ReleaseRun, fenceVars
  <1>6. RelTypes'
    BY <1>1, ContextsFixed DEF RelTypes, ReleaseRun
  <1> QED BY <1>2, <1>3, <1>4, <1>5, <1>6, TypesNext

LEMMA ReleaseTyped == ASSUME TypeOK, NEW c \in Calls, NEW t \in Targets, Release(c, t) PROVE TypeOK'
  <1>1. RunTypes /\ PoolTypes /\ LaunchTypes /\ LedgerTypes /\ FenceTypes /\ RelTypes
    BY Types
  <1>2. FenceTypes'
    BY <1>1, TargetFacts DEF FenceTypes, Release
  <1>3. RelTypes'
    <2>1. {w \in Runs : led[w] # "none" /\ Matches(t, w)} \in SUBSET Runs
      OBVIOUS
    <2>2. t \in Contexts
      BY DEF Contexts
    <2> QED BY <1>1, <2>1, <2>2, ContextsFixed DEF RelTypes, Release
  <1>4. RunTypes'
    BY <1>1 DEF RunTypes, Release, runVars
  <1>5. PoolTypes'
    BY <1>1 DEF PoolTypes, Release, poolVars, launchVars
  <1>6. LaunchTypes'
    BY <1>1, ContextsFixed DEF LaunchTypes, Release, launchVars
  <1>7. LedgerTypes'
    BY <1>1, ContextsFixed DEF LedgerTypes, Release, ledgerVars
  <1> QED BY <1>2, <1>3, <1>4, <1>5, <1>6, <1>7, TypesNext

LEMMA ProvisionedTyped == ASSUME TypeOK, NEW w \in Runs, Provisioned(w) PROVE TypeOK'
  <1>1. RunTypes /\ PoolTypes /\ LaunchTypes /\ LedgerTypes /\ FenceTypes /\ RelTypes
    BY Types
  <1>2. LaunchTypes'
    BY <1>1, ContextsFixed DEF LaunchTypes, Provisioned
  <1>3. LedgerTypes'
    <2>1. Cleanup(IF off[w] THEN {w} ELSE {}, why)
      BY DEF Provisioned
    <2> QED BY <1>1, <2>1, CleanupTyped DEF LaunchTypes
  <1>4. RunTypes'
    BY <1>1 DEF RunTypes, Provisioned, runVars
  <1>5. PoolTypes'
    BY <1>1 DEF PoolTypes, Provisioned, poolVars, launchVars
  <1>6. FenceTypes'
    BY <1>1 DEF FenceTypes, Provisioned, fenceVars
  <1>7. RelTypes'
    BY <1>1, ContextsFixed DEF RelTypes, Provisioned
  <1> QED BY <1>2, <1>3, <1>4, <1>5, <1>6, <1>7, TypesNext

LEMMA StartedTyped == ASSUME TypeOK, NEW w \in Runs, Started(w) PROVE TypeOK'
  <1>1. RunTypes /\ PoolTypes /\ LaunchTypes /\ LedgerTypes /\ FenceTypes /\ RelTypes
    BY Types
  <1>2. RunTypes'
    BY <1>1 DEF RunTypes, Started, runVars
  <1>3. PoolTypes'
    BY <1>1 DEF PoolTypes, Started, poolVars, launchVars
  <1>4. LaunchTypes'
    BY <1>1, ContextsFixed DEF LaunchTypes, Started
  <1>5. LedgerTypes'
    BY <1>1, ContextsFixed DEF LedgerTypes, Started, ledgerVars
  <1>6. FenceTypes'
    BY <1>1 DEF FenceTypes, Started, fenceVars
  <1>7. RelTypes'
    BY <1>1, ContextsFixed DEF RelTypes, Started
  <1> QED BY <1>2, <1>3, <1>4, <1>5, <1>6, <1>7, TypesNext

LEMMA StartFailedTyped == ASSUME TypeOK, NEW w \in Runs, StartFailed(w) PROVE TypeOK'
  <1>1. RunTypes /\ PoolTypes /\ LaunchTypes /\ LedgerTypes /\ FenceTypes /\ RelTypes
    BY Types
  <1>2. RunTypes'
    BY <1>1 DEF RunTypes, StartFailed, runVars
  <1>3. PoolTypes'
    BY <1>1 DEF PoolTypes, StartFailed, poolVars, launchVars
  <1>4. LaunchTypes'
    BY <1>1, ContextsFixed DEF LaunchTypes, StartFailed
  <1>5. LedgerTypes'
    BY <1>1, ContextsFixed DEF LedgerTypes, StartFailed, ledgerVars
  <1>6. FenceTypes'
    BY <1>1 DEF FenceTypes, StartFailed, fenceVars
  <1>7. RelTypes'
    BY <1>1, ContextsFixed DEF RelTypes, StartFailed
  <1> QED BY <1>2, <1>3, <1>4, <1>5, <1>6, <1>7, TypesNext

LEMMA RegisteredTyped == ASSUME TypeOK, NEW w \in Runs, Registered(w) PROVE TypeOK'
  <1>1. RunTypes /\ PoolTypes /\ LaunchTypes /\ LedgerTypes /\ FenceTypes /\ RelTypes
    BY Types
  <1>2. RunTypes'
    BY <1>1 DEF RunTypes, Registered, runVars
  <1>3. PoolTypes'
    BY <1>1 DEF PoolTypes, Registered, poolVars, launchVars
  <1>4. LaunchTypes'
    BY <1>1, ContextsFixed DEF LaunchTypes, Registered
  <1>5. LedgerTypes'
    BY <1>1, ContextsFixed DEF LedgerTypes, Registered, ledgerVars
  <1>6. FenceTypes'
    BY <1>1 DEF FenceTypes, Registered, fenceVars
  <1>7. RelTypes'
    BY <1>1, ContextsFixed DEF RelTypes, Registered
  <1> QED BY <1>2, <1>3, <1>4, <1>5, <1>6, <1>7, TypesNext

LEMMA TimedOutTyped == ASSUME TypeOK, NEW w \in Runs, TimedOut(w) PROVE TypeOK'
  <1>1. RunTypes /\ PoolTypes /\ LaunchTypes /\ LedgerTypes /\ FenceTypes /\ RelTypes
    BY Types
  <1>2. PoolTypes' /\ LaunchTypes' /\ LedgerTypes'
    <2>1. /\ CancelAttempts({w}, NoTarget)
          /\ UNCHANGED <<active, acq, acqSpaces, started, known, inst>>
      BY DEF TimedOut
    <2>2. NoTarget \in Contexts
      BY DEF Contexts
    <2> QED BY <1>1, <2>1, <2>2, CancelAttemptsTyped, ContextsFixed DEF PoolTypes, LaunchTypes
  <1>3. RunTypes'
    BY <1>1 DEF RunTypes, TimedOut, runVars
  <1>4. FenceTypes'
    BY <1>1 DEF FenceTypes, TimedOut, fenceVars
  <1>5. RelTypes'
    BY <1>1, ContextsFixed DEF RelTypes, TimedOut
  <1> QED BY <1>2, <1>3, <1>4, <1>5, TypesNext

LEMMA ExitedTyped == ASSUME TypeOK, NEW w \in Runs, Exited(w) PROVE TypeOK'
  <1>1. RunTypes /\ PoolTypes /\ LaunchTypes /\ LedgerTypes /\ FenceTypes /\ RelTypes
    BY Types
  <1>2. RunTypes' /\ PoolTypes' /\ LaunchTypes' /\ LedgerTypes'
    <2>1. CASE pool[w] = "out"
      BY <1>1, <2>1, ContextsFixed
         DEF Exited, RunTypes, PoolTypes, LaunchTypes, LedgerTypes, runVars, poolVars, ledgerVars
    <2>2. CASE pool[w] # "out"
      <3>1. RemoveWorker(w, "exited", NoTarget) /\ inst' = [inst EXCEPT ![w] = "gone"]
        BY <2>2 DEF Exited
      <3>2. UNCHANGED <<started, known, off, res, why>>
        BY <3>1 DEF RemoveWorker
      <3>3. NoTarget \in Contexts
        BY DEF Contexts
      <3> QED BY <1>1, <3>1, <3>2, <3>3, RemoveWorkerTyped, ContextsFixed DEF LaunchTypes
    <2> QED BY <2>1, <2>2
  <1>3. FenceTypes'
    BY <1>1, PlacementAssumption DEF FenceTypes, Exited, fenceVars
  <1>4. RelTypes'
    BY <1>1, ContextsFixed DEF RelTypes, Exited
  <1> QED BY <1>2, <1>3, <1>4, TypesNext

LEMMA StoppedTyped == ASSUME TypeOK, NEW w \in Runs, Stopped(w) PROVE TypeOK'
  <1>1. RunTypes /\ PoolTypes /\ LaunchTypes /\ LedgerTypes /\ FenceTypes /\ RelTypes
    BY Types
  <1>2. RunTypes' /\ PoolTypes' /\ LaunchTypes' /\ LedgerTypes'
    <2>1. RemoveWorker(w, "release", NoTarget) /\ UNCHANGED inst
      BY DEF Stopped
    <2>2. UNCHANGED <<started, known, off, res, why>>
      BY <2>1 DEF RemoveWorker
    <2>3. NoTarget \in Contexts
      BY DEF Contexts
    <2> QED BY <1>1, <2>1, <2>2, <2>3, RemoveWorkerTyped, ContextsFixed DEF LaunchTypes
  <1>3. FenceTypes'
    BY <1>1, PlacementAssumption DEF FenceTypes, Stopped, fenceVars
  <1>4. RelTypes'
    BY <1>1, ContextsFixed DEF RelTypes, Stopped
  <1> QED BY <1>2, <1>3, <1>4, TypesNext

LEMMA RetryCleanupOnlyTyped == ASSUME TypeOK, NEW w \in Runs, RetryCleanupOnly(w) PROVE TypeOK'
  <1>1. RunTypes /\ PoolTypes /\ LaunchTypes /\ LedgerTypes /\ FenceTypes /\ RelTypes
    BY Types
  <1>2. RunTypes'
    BY <1>1 DEF RunTypes, RetryCleanupOnly, runVars
  <1>3. PoolTypes'
    BY <1>1 DEF PoolTypes, RetryCleanupOnly, poolVars, launchVars
  <1>4. LaunchTypes'
    BY <1>1, ContextsFixed DEF LaunchTypes, RetryCleanupOnly, launchVars
  <1>5. LedgerTypes'
    BY <1>1, ContextsFixed DEF LedgerTypes, RetryCleanupOnly
  <1>6. FenceTypes'
    BY <1>1 DEF FenceTypes, RetryCleanupOnly, fenceVars
  <1>7. RelTypes'
    BY <1>1, ContextsFixed DEF RelTypes, RetryCleanupOnly
  <1> QED BY <1>2, <1>3, <1>4, <1>5, <1>6, <1>7, TypesNext

LEMMA CleanupDoneTyped == ASSUME TypeOK, NEW w \in Runs, CleanupDone(w) PROVE TypeOK'
  <1>1. RunTypes /\ PoolTypes /\ LaunchTypes /\ LedgerTypes /\ FenceTypes /\ RelTypes
    BY Types
  <1>2. PoolTypes'
    BY <1>1 DEF PoolTypes, CleanupDone, RolledBack, poolVars
  <1>3. LaunchTypes'
    BY <1>1, SettledTyped, ContextsFixed DEF LaunchTypes, CleanupDone, RolledBack
  <1>4. LedgerTypes'
    BY <1>1, ContextsFixed DEF LedgerTypes, CleanupDone, Contexts
  <1>5. RelTypes'
    BY <1>1, ContextsFixed DEF RelTypes, CleanupDone
  <1>6. RunTypes'
    BY <1>1 DEF RunTypes, CleanupDone, runVars
  <1>7. FenceTypes'
    BY <1>1 DEF FenceTypes, CleanupDone, fenceVars
  <1> QED BY <1>2, <1>3, <1>4, <1>5, <1>6, <1>7, TypesNext

LEMMA CleanupFailedTyped == ASSUME TypeOK, NEW w \in Runs, CleanupFailed(w) PROVE TypeOK'
  <1>1. RunTypes /\ PoolTypes /\ LaunchTypes /\ LedgerTypes /\ FenceTypes /\ RelTypes
    BY Types
  <1>2. PoolTypes'
    BY <1>1 DEF PoolTypes, CleanupFailed, RolledBack, poolVars
  <1>3. LaunchTypes'
    BY ZenonT(60), <1>1, SettledTyped, ContextsFixed DEF LaunchTypes, CleanupFailed, RolledBack
  <1>4. LedgerTypes'
    BY <1>1, ContextsFixed DEF LedgerTypes, CleanupFailed, Contexts
  <1>5. RelTypes'
    BY ZenonT(60), <1>1, ContextsFixed DEF RelTypes, CleanupFailed
  <1>6. FenceTypes'
    <2>1. mishaps < MaxMishaps /\ mishaps' = mishaps + 1 /\ UNCHANGED <<tomb, revoked, maxSeen>>
      BY DEF CleanupFailed, fenceVars
    <2> QED BY <1>1, <2>1, PlacementAssumption DEF FenceTypes
  <1>7. RunTypes'
    BY <1>1 DEF RunTypes, CleanupFailed, runVars
  <1> QED BY <1>2, <1>3, <1>4, <1>5, <1>6, <1>7, TypesNext

-----------------------------------------------------------------------------
(* The fence a release installs before anything else.                      *)
Fenced(t) == \/ t.kind = "workspace" /\ t.space \in tomb
             \/ t.kind = "user" /\ t.version <= revoked

(* A release has a target and its fence; after its cancellation no session *)
(* that it covers comes back; what it has listed is what it must remove.   *)
CallInv(c) ==
    /\ rel[c].pc = "idle" => rel[c].on = NoRun
    /\ rel[c].pc # "idle" =>
        /\ rel[c].target \in Targets
        /\ Fenced(rel[c].target)
        /\ rel[c].pc \in {"drain", "remove", "acked"} =>
              \A r \in Runs : Covers(rel[c].target, r) => phase[r] = "none"
        /\ rel[c].pc \in {"remove", "acked"} =>
              \A w \in Runs : Removes(rel[c].target, w) /\ pool[w] # "out" => w \in rel[c].todo
        /\ rel[c].pc = "remove" => \A w \in rel[c].todo : Removes(rel[c].target, w)
        /\ rel[c].pc = "acked" => rel[c].todo = {}

ReleaseInv == \A c \in Calls : CallInv(c)

(* How far the submission of a run has come bounds what the run has.       *)
SubmitInv ==
    \A r \in Runs :
        /\ call[r] # "accepted" => wait[r] = NoRun /\ acq[r] = "none"
        /\ call[r] = "new" => phase[r] = "none" /\ told[r] = "nothing" /\ ~early[r] /\ ~sent[r]
        /\ phase[r] \in {"acquiring", "ready"} => call[r] = "accepted"
        /\ phase[r] = "configuring" => call[r] = "making"

(* Where a Worker is and where its launch is.                              *)
LaunchInv ==
    \A w \in Runs :
        /\ pool[w] = "starting" => acq[w] \in {"start", "handshake"}
        /\ pool[w] = "ready" => acq[w] = "done"
        /\ res[w] = "resolved" => acq[w] = "done"
        /\ inst[w] = "live" => known[w]
        /\ started[w] = "pending" => acq[w] = "start"

(* A run waits for a launch of its own key, and if that has succeeded and  *)
(* the run still wants it the Worker is in the pool.                       *)
WaitInv ==
    \A r \in Runs : wait[r] # NoRun =>
        /\ Key(wait[r]) = Key(r)
        /\ phase[r] \in {"none", "acquiring"}
        /\ res[wait[r]] = "resolved" /\ phase[r] # "none" => pool[wait[r]] = "ready"

(* A run cancelled early remains cancelled until its session ends, and a   *)
(* run is started only when it becomes ready.                              *)
StartInv ==
    \A r \in Runs :
        /\ early[r] => ~sent[r]
        /\ early[r] /\ phase[r] # "none" => cancelled[r] /\ phase[r] # "ready"
        /\ sent[r] => phase[r] \in {"ready", "none"}
        /\ phase[r] = "ready" => bound[r] # NoRun

IInv == /\ TypeOK /\ ReleaseInv /\ SubmitInv /\ LaunchInv /\ WaitInv /\ StartInv
        /\ ReadyIsBound /\ EndsOnce /\ OneWorkerPerKey /\ InstanceIsAccounted

-----------------------------------------------------------------------------
(* What the actions that only end sessions and take Workers out of the     *)
(* pool have in common.                                                    *)

(* The sessions R end, the Workers W leave the pool and the runs they list *)
(* are among R; nobody who still wants a Worker of W waits for it.         *)
Shrinks(R, W) ==
    /\ \A r \in Runs :
          /\ phase'[r] = IF r \in R THEN "none" ELSE phase[r]
          /\ cancelled'[r] = IF r \in R THEN FALSE ELSE cancelled[r]
          /\ bound'[r] = IF r \in R THEN NoRun ELSE bound[r]
          /\ told'[r] = told[r] \/ (r \in R /\ phase[r] # "none" /\ told'[r] # "twice")
          /\ wait'[r] = wait[r] \/ wait'[r] = NoRun
          /\ wait'[r] \in W /\ res[wait[r]] = "resolved" => phase'[r] = "none"
    /\ \A w \in Runs :
          /\ pool'[w] = IF w \in W THEN "out" ELSE pool[w]
          /\ \A r \in Runs : r \in active'[w] <=> r \in active[w] /\ r \notin R
          /\ w \in W => \A r \in active[w] : r \in R
          /\ res'[w] = "resolved" => res[w] = "resolved"
    /\ UNCHANGED <<sent, early>>

LEMMA ShrinksKeeps ==
  ASSUME IInv, TypeOK', NEW R, NEW W, Shrinks(R, W)
  PROVE WaitInv' /\ StartInv' /\ ReadyIsBound' /\ EndsOnce' /\ OneWorkerPerKey'
  <1>1. RunTypes /\ PoolTypes /\ WaitInv /\ StartInv /\ ReadyIsBound /\ EndsOnce /\ OneWorkerPerKey
    BY Types DEF IInv
  <1>2. RunTypes' /\ PoolTypes'
    BY Zenon DEF TypeOK, RunTypes, PoolTypes
  <1>3. WaitInv'
    <2> SUFFICES ASSUME NEW r \in Runs, wait'[r] # NoRun
                 PROVE /\ Key(wait'[r]) = Key(r)
                       /\ phase'[r] \in {"none", "acquiring"}
                       /\ res'[wait'[r]] = "resolved" /\ phase'[r] # "none" => pool'[wait'[r]] = "ready"
      BY DEF WaitInv, Key
    <2>1. wait'[r] = wait[r] /\ wait[r] \in Runs
      BY ZenonT(60), <1>1 DEF Shrinks, RunTypes
    <2>2. /\ Key(wait[r]) = Key(r)
          /\ phase[r] \in {"none", "acquiring"}
          /\ res[wait[r]] = "resolved" /\ phase[r] # "none" => pool[wait[r]] = "ready"
      BY <1>1, <2>1 DEF WaitInv
    <2>3. phase'[r] = phase[r] \/ phase'[r] = "none"
      BY DEF Shrinks
    <2>4. ASSUME res'[wait[r]] = "resolved", phase'[r] # "none" PROVE pool'[wait[r]] = "ready"
      <3>1. res[wait[r]] = "resolved" /\ wait[r] \notin W
        BY <2>1, <2>4 DEF Shrinks
      <3> QED BY <2>1, <2>2, <2>3, <2>4, <3>1 DEF Shrinks
    <2> QED BY <2>1, <2>2, <2>3, <2>4
  <1>4. StartInv'
    BY <1>1 DEF StartInv, Shrinks
  <1>5. ReadyIsBound'
    <2>1. ASSUME NEW r \in Runs, phase'[r] = "ready"
          PROVE pool'[bound'[r]] = "ready" /\ r \in active'[bound'[r]]
      <3>1. r \notin R /\ phase[r] = "ready" /\ bound'[r] = bound[r]
        BY <2>1 DEF Shrinks
      <3>2. pool[bound[r]] = "ready" /\ r \in active[bound[r]]
        BY <1>1, <3>1 DEF ReadyIsBound
      <3>3. bound[r] \in Runs
        BY <1>1, <3>1 DEF RunTypes, StartInv
      <3> QED BY <3>1, <3>2, <3>3 DEF Shrinks
    <2>2. ASSUME NEW r \in Runs, NEW w \in Runs, r \in active'[w]
          PROVE phase'[r] = "ready" /\ bound'[r] = w
      <3>1. r \in active[w] /\ r \notin R
        BY <2>2 DEF Shrinks
      <3>2. phase[r] = "ready" /\ bound[r] = w
        BY <1>1, <3>1 DEF ReadyIsBound
      <3> QED BY <3>1, <3>2 DEF Shrinks
    <2> QED BY <2>1, <2>2 DEF ReadyIsBound
  <1>6. EndsOnce'
    BY <1>1 DEF EndsOnce, Shrinks
  <1>7. OneWorkerPerKey'
    BY <1>1 DEF OneWorkerPerKey, Shrinks
  <1> QED BY <1>3, <1>4, <1>5, <1>6, <1>7

LEMMA TellsOnce ==
  ASSUME RunTypes, EndsOnce, NEW R, \A r \in R : phase[r] # "none",
         NEW what \in {"cancelled", "failed", "lost"}, Tell(R, what)
  PROVE \A r \in Runs : told'[r] = told[r] \/ (r \in R /\ phase[r] # "none" /\ told'[r] # "twice")
  BY DEF RunTypes, EndsOnce, Tell

(* Who waits for a Worker that a release removes is covered by the release.*)
LEMMA RemovedWaiter ==
  ASSUME NEW t \in Targets, NEW w \in Runs, NEW r \in Runs, Removes(t, w), Key(w) = Key(r)
  PROVE Covers(t, r)
  BY PlacementAssumption, TargetFacts DEF Removes, Covers, Key

(* removeWorker keeps everything but the invariant of the releases.        *)
LEMMA RemoveWorkerKeeps ==
  ASSUME IInv, TypeOK', NEW w \in Runs, NEW mode, NEW t, RemoveWorker(w, mode, t),
         \A v \in Runs : inst'[v] = "live" => inst[v] = "live",
         mode = "release" \/ inst'[w] # "live",
         \A r \in Runs : wait[r] = w /\ res[w] = "resolved" => phase[r] = "none"
  PROVE /\ SubmitInv' /\ LaunchInv' /\ WaitInv' /\ StartInv'
        /\ ReadyIsBound' /\ EndsOnce' /\ OneWorkerPerKey' /\ InstanceIsAccounted'
        /\ \A r \in Runs : phase'[r] = phase[r] \/ phase'[r] = "none"
        /\ \A v \in Runs : pool'[v] = IF v = w THEN "out" ELSE pool[v]
  <1>1. /\ RunTypes /\ PoolTypes /\ LaunchTypes /\ LedgerTypes
        /\ SubmitInv /\ LaunchInv /\ ReadyIsBound /\ EndsOnce /\ InstanceIsAccounted
    BY Types DEF IInv
  <1>2. /\ Evicted({w}) /\ Cleared(active[w]) /\ Tell(active[w], "lost")
        /\ active' = [active EXCEPT ![w] = {}]
        /\ Cleanup(Owned(w, mode), [v \in Runs |-> t])
        /\ UNCHANGED <<call, wait, sent, early, acq, started, known, res>>
    BY DEF RemoveWorker
  <1>3. \A v \in Runs : pool'[v] = IF v = w THEN "out" ELSE pool[v]
    BY <1>2 DEF Evicted
  <1>4. \A r \in active[w] : r \in Runs /\ phase[r] # "none"
    BY <1>1 DEF PoolTypes, ReadyIsBound
  <1>5. \A r \in Runs : /\ phase'[r] = IF r \in active[w] THEN "none" ELSE phase[r]
                        /\ cancelled'[r] = IF r \in active[w] THEN FALSE ELSE cancelled[r]
                        /\ bound'[r] = IF r \in active[w] THEN NoRun ELSE bound[r]
    BY <1>2 DEF Cleared
  <1>6. \A r \in Runs :
          told'[r] = told[r] \/ (r \in active[w] /\ phase[r] # "none" /\ told'[r] # "twice")
    BY <1>1, <1>2, <1>4, TellsOnce
  <1>7. \A v \in Runs : \A r \in Runs : r \in active'[v] <=> r \in active[v] /\ r \notin active[w]
    BY <1>1, <1>2 DEF PoolTypes, ReadyIsBound
  <1>8. Shrinks(active[w], {w})
    BY <1>2, <1>3, <1>5, <1>6, <1>7 DEF Shrinks
  <1>9. WaitInv' /\ StartInv' /\ ReadyIsBound' /\ EndsOnce' /\ OneWorkerPerKey'
    BY <1>8, ShrinksKeeps
  <1>10. SubmitInv'
    <2>1. \A r \in Runs : phase'[r] = phase[r] \/ phase'[r] = "none"
      BY <1>5
    <2>2. \A r \in Runs : phase[r] = "none" => told'[r] = told[r]
      BY <1>6
    <2> QED BY <1>1, <1>2, <2>1, <2>2 DEF SubmitInv
  <1>11. LaunchInv'
    BY <1>1, <1>2, <1>3 DEF LaunchInv
  <1>12. \A v \in Runs : led'[v] = IF v \in Owned(w, mode) THEN "running" ELSE led[v]
    BY <1>2 DEF Cleanup
  <1>13. InstanceIsAccounted'
    <2> SUFFICES ASSUME NEW v \in Runs, inst'[v] = "live"
                 PROVE pool'[v] # "out" \/ Launching(v)' \/ led'[v] # "none"
      BY DEF InstanceIsAccounted
    <2>1. inst[v] = "live" /\ known[v] /\ (pool[v] # "out" \/ Launching(v) \/ led[v] # "none")
      BY <1>1 DEF InstanceIsAccounted, LaunchInv
    <2>2. CASE v = w
      <3>1. mode = "release"
        BY <2>2
      <3>2. v \in Owned(w, mode)
        BY <2>1, <2>2, <3>1 DEF Owned
      <3> QED BY <1>12, <3>2
    <2>3. CASE v # w
      <3>1. Launching(v)' <=> Launching(v)
        BY <1>2 DEF Launching
      <3> QED BY <1>3, <1>12, <2>1, <2>3, <3>1
    <2> QED BY <2>2, <2>3
  <1> QED BY <1>3, <1>5, <1>9, <1>10, <1>11, <1>13

(* The invariant of a call outlives any step that leaves the call alone,   *)
(* and only ends sessions and takes Workers out of the pool.               *)
LEMMA CallKept ==
  ASSUME NEW c \in Calls, CallInv(c), UNCHANGED <<tomb, revoked>>,
         rel'[c].pc = rel[c].pc, rel'[c].target = rel[c].target, rel'[c].todo = rel[c].todo,
         rel'[c].on \in {rel[c].on, NoRun} \/ rel[c].pc # "idle",
         \A r \in Runs : phase[r] = "none" => phase'[r] = "none",
         \A w \in Runs : pool[w] = "out" => pool'[w] = "out"
  PROVE CallInv(c)'
  BY DEF CallInv, Fenced, Covers, Removes, Targets, WorkspaceTarget, UserTarget

LEMMA ReleasesKept ==
  ASSUME ReleaseInv, UNCHANGED <<rel, tomb, revoked>>,
         \A r \in Runs : phase[r] = "none" => phase'[r] = "none",
         \A w \in Runs : pool[w] = "out" => pool'[w] = "out"
  PROVE ReleaseInv'
  BY CallKept DEF ReleaseInv

(* A fence keeps the runs that it covers from being admitted.              *)
LEMMA AdmittedUncovered ==
  ASSUME FenceTypes, NEW t \in Targets, Fenced(t), NEW r \in Runs, Admitted(r)
  PROVE ~Covers(t, r)
  <1>1. CASE t.kind = "workspace"
    BY <1>1, TargetFacts DEF Fenced, Admitted, Covers
  <1>2. CASE t.kind = "user"
    <2>1. /\ t.version \in Nat /\ t.version <= revoked /\ revoked \in Nat
          /\ VersionOf[r] \in Nat /\ VersionOf[r] > revoked
      BY <1>2, TargetFacts, PlacementAssumption DEF Fenced, Admitted, FenceTypes
    <2> QED BY <1>2, <2>1 DEF Covers
  <1> QED BY <1>1, <1>2, TargetFacts

(* A submission goes on, and no session does but to its end.               *)
LEMMA GoesOn ==
  ASSUME IInv, TypeOK', NEW R, Shrinks(R, {}),
         UNCHANGED <<acq, started, inst, known, led, rel, tomb, revoked>>,
         \A q \in Runs : call'[q] = call[q] \/ (call'[q] = "accepted" /\ phase'[q] = "none")
  PROVE /\ ReleaseInv' /\ SubmitInv' /\ LaunchInv' /\ WaitInv' /\ StartInv'
        /\ ReadyIsBound' /\ EndsOnce' /\ OneWorkerPerKey' /\ InstanceIsAccounted'
  <1>1. /\ PoolTypes /\ RunTypes
        /\ ReleaseInv /\ SubmitInv /\ LaunchInv /\ InstanceIsAccounted
    BY Types DEF IInv
  <1>2. /\ \A q \in Runs : phase'[q] = phase[q] \/ phase'[q] = "none"
        /\ \A q \in Runs : phase[q] = "none" => told'[q] = told[q]
        /\ \A q \in Runs : wait'[q] = wait[q] \/ wait'[q] = NoRun
        /\ \A w \in Runs : pool'[w] = pool[w] /\ (res'[w] = "resolved" => res[w] = "resolved")
        /\ UNCHANGED <<sent, early>>
    BY DEF Shrinks
  <1>3. WaitInv' /\ StartInv' /\ ReadyIsBound' /\ EndsOnce' /\ OneWorkerPerKey'
    BY ShrinksKeeps
  <1>4. ReleaseInv'
    BY <1>1, <1>2, ReleasesKept
  <1>5. SubmitInv'
    <2> SUFFICES ASSUME NEW q \in Runs
                 PROVE /\ call'[q] # "accepted" => wait'[q] = NoRun /\ acq'[q] = "none"
                       /\ call'[q] = "new" => phase'[q] = "none" /\ told'[q] = "nothing" /\ ~early'[q] /\ ~sent'[q]
                       /\ phase'[q] \in {"acquiring", "ready"} => call'[q] = "accepted"
                       /\ phase'[q] = "configuring" => call'[q] = "making"
      BY DEF SubmitInv
    <2> QED BY <1>1, <1>2 DEF SubmitInv
  <1>6. LaunchInv'
    BY <1>1, <1>2 DEF LaunchInv
  <1>7. InstanceIsAccounted'
    BY <1>1, <1>2 DEF InstanceIsAccounted, Launching
  <1> QED BY <1>3, <1>4, <1>5, <1>6, <1>7

(* A submission is bound to a ready Worker.                                *)
LEMMA BoundKeeps ==
  ASSUME IInv, TypeOK', NEW r \in Runs, NEW w \in Runs, Bound(r, w),
         pool[w] = "ready", phase[r] \in {"configuring", "acquiring"}, ~cancelled[r],
         \A q \in Runs : /\ call'[q] = IF q = r THEN "accepted" ELSE call[q]
                         /\ wait'[q] = IF q = r THEN NoRun ELSE wait[q],
         UNCHANGED <<early, pool, acq, started, res, inst, known, led, rel, tomb, revoked>>
  PROVE /\ ReleaseInv' /\ SubmitInv' /\ LaunchInv' /\ WaitInv' /\ StartInv'
        /\ ReadyIsBound' /\ EndsOnce' /\ OneWorkerPerKey' /\ InstanceIsAccounted'
  <1>1. /\ RunTypes /\ PoolTypes
        /\ ReleaseInv /\ SubmitInv /\ LaunchInv /\ WaitInv /\ StartInv
        /\ ReadyIsBound /\ EndsOnce /\ OneWorkerPerKey /\ InstanceIsAccounted
    BY Types DEF IInv
  <1>2. /\ \A q \in Runs : /\ bound'[q] = IF q = r THEN w ELSE bound[q]
                           /\ phase'[q] = IF q = r THEN "ready" ELSE phase[q]
                           /\ sent'[q] = IF q = r THEN TRUE ELSE sent[q]
        /\ \A v \in Runs : active'[v] = IF v = w THEN active[v] \cup {r} ELSE active[v]
        /\ UNCHANGED <<cancelled, told>>
    BY <1>1 DEF Bound, RunTypes, PoolTypes
  <1>3. ReleaseInv'
    <2>1. ASSUME NEW c \in Calls PROVE CallInv(c)'
      <3>1. CallInv(c)
        BY <1>1 DEF ReleaseInv
      <3>2. rel[c].pc \in {"drain", "remove", "acked"} => ~Covers(rel[c].target, r)
        BY <3>1 DEF CallInv
      <3>3. \A q \in Runs : q # r => phase'[q] = phase[q]
        BY <1>2
      <3> QED BY <3>1, <3>2, <3>3
              DEF CallInv, Fenced, Covers, Removes, Targets, WorkspaceTarget, UserTarget
    <2> QED BY <2>1 DEF ReleaseInv
  <1>4. SubmitInv'
    <2>1. call[r] # "new" /\ acq' = acq
      BY <1>1 DEF SubmitInv
    <2> SUFFICES ASSUME NEW q \in Runs
                 PROVE /\ call'[q] # "accepted" => wait'[q] = NoRun /\ acq[q] = "none"
                       /\ call'[q] = "new" => phase'[q] = "none" /\ told[q] = "nothing" /\ ~early[q] /\ ~sent'[q]
                       /\ phase'[q] \in {"acquiring", "ready"} => call'[q] = "accepted"
                       /\ phase'[q] = "configuring" => call'[q] = "making"
      BY <1>2 DEF SubmitInv
    <2>2. CASE q = r
      BY <1>2, <2>2
    <2>3. CASE q # r
      BY ZenonT(60), <1>1, <1>2, <2>3 DEF SubmitInv
    <2> QED BY <2>2, <2>3
  <1>5. LaunchInv' /\ OneWorkerPerKey' /\ InstanceIsAccounted'
    BY <1>1 DEF LaunchInv, OneWorkerPerKey, InstanceIsAccounted, Launching
  <1>6. WaitInv'
    <2> SUFFICES ASSUME NEW q \in Runs, wait'[q] # NoRun
                 PROVE /\ Key(wait'[q]) = Key(q)
                       /\ phase'[q] \in {"none", "acquiring"}
                       /\ res[wait'[q]] = "resolved" /\ phase'[q] # "none" => pool[wait'[q]] = "ready"
      BY DEF WaitInv, Key
    <2>1. q # r /\ wait'[q] = wait[q]
      OBVIOUS
    <2>2. phase'[q] = phase[q]
      BY <1>2, <2>1
    <2> QED BY <1>1, <2>1, <2>2 DEF WaitInv
  <1>7. StartInv'
    <2>1. w # NoRun
      BY PlacementAssumption
    <2> QED BY <1>1, <1>2, <2>1 DEF StartInv
  <1>8. ReadyIsBound'
    <2>1. ASSUME NEW q \in Runs, phase'[q] = "ready"
          PROVE pool'[bound'[q]] = "ready" /\ q \in active'[bound'[q]]
      <3>1. CASE q = r
        BY <1>2, <3>1
      <3>2. CASE q # r
        <4>1. phase[q] = "ready" /\ bound'[q] = bound[q]
          BY <1>2, <2>1, <3>2
        <4>2. pool[bound[q]] = "ready" /\ q \in active[bound[q]] /\ bound[q] \in Runs
          BY <1>1, <4>1 DEF ReadyIsBound, StartInv, RunTypes
        <4> QED BY ZenonT(60), <1>2, <4>1, <4>2
      <3> QED BY <3>1, <3>2
    <2>2. ASSUME NEW q \in Runs, NEW v \in Runs, q \in active'[v]
          PROVE phase'[q] = "ready" /\ bound'[q] = v
      <3>1. CASE q = r /\ v = w
        BY <1>2, <3>1
      <3>2. CASE ~(q = r /\ v = w)
        <4>1. q \in active[v]
          BY <1>2, <2>2, <3>2
        <4>2. phase[q] = "ready" /\ bound[q] = v
          BY <1>1, <4>1 DEF ReadyIsBound
        <4> QED BY <1>2, <4>2
      <3> QED BY <3>1, <3>2
    <2> QED BY <2>1, <2>2 DEF ReadyIsBound
  <1>9. EndsOnce'
    BY <1>1, <1>2 DEF EndsOnce
  <1> QED BY <1>3, <1>4, <1>5, <1>6, <1>7, <1>8, <1>9

(* A submission joins a launch or starts one.                              *)
LEMMA AcquireKeeps ==
  ASSUME IInv, TypeOK', NEW r \in Runs, Acquire(r), ReadyFor(r) = {},
         phase[r] = "configuring", wait[r] = NoRun, acq[r] = "none",
         \A q \in Runs : call'[q] = IF q = r THEN "accepted" ELSE call[q],
         UNCHANGED <<early, res, inst, known, led, rel, tomb, revoked>>
  PROVE /\ ReleaseInv' /\ SubmitInv' /\ LaunchInv' /\ WaitInv' /\ StartInv'
        /\ ReadyIsBound' /\ EndsOnce' /\ OneWorkerPerKey' /\ InstanceIsAccounted'
  <1>1. /\ RunTypes /\ PoolTypes /\ LaunchTypes
        /\ ReleaseInv /\ SubmitInv /\ LaunchInv /\ WaitInv /\ StartInv
        /\ ReadyIsBound /\ EndsOnce /\ OneWorkerPerKey /\ InstanceIsAccounted
    BY Types DEF IInv
  <1>2. pool[r] = "out" /\ started[r] # "pending" /\ res[r] # "resolved"
    BY <1>1 DEF LaunchInv, PoolTypes
  <1>3. /\ \A q \in Runs : phase'[q] = IF q = r THEN "acquiring" ELSE phase[q]
        /\ UNCHANGED <<cancelled, bound, told, sent, active>>
    BY <1>1 DEF Acquire, RunTypes
  <1>4. PICK w \in Runs :
          /\ \A q \in Runs : wait'[q] = IF q = r THEN w ELSE wait[q]
          /\ Key(w) = Key(r) /\ res[w] # "resolved"
          /\ \/ UNCHANGED <<pool, acq, started>>
             \/ /\ InFlight(r) = {}
                /\ \A v \in Runs : /\ pool'[v] = IF v = r THEN "starting" ELSE pool[v]
                                   /\ acq'[v] = IF v = r THEN "start" ELSE acq[v]
                                   /\ started'[v] = IF v = r THEN "pending" ELSE started[v]
    <2>1. CASE InFlight(r) = {}
      BY <1>1, <1>2, <2>1 DEF Acquire, RunTypes, PoolTypes, LaunchTypes
    <2>2. CASE InFlight(r) # {}
      <3>1. PICK w \in InFlight(r) : wait' = [wait EXCEPT ![r] = w] /\ UNCHANGED <<pool, acq, started>>
        BY <2>2 DEF Acquire
      <3>2. w \in Runs /\ Key(w) = Key(r) /\ Launching(w)
        BY <3>1 DEF InFlight
      <3>3. res[w] # "resolved"
        BY <1>1, <3>2 DEF LaunchInv, Launching
      <3> QED BY <1>1, <3>1, <3>2, <3>3 DEF RunTypes
    <2> QED BY <2>1, <2>2
  <1>5. \A v \in Runs : v # r => pool'[v] = pool[v] /\ acq'[v] = acq[v] /\ started'[v] = started[v]
    BY <1>4
  <1>6. \/ pool'[r] = "out" /\ acq'[r] = "none" /\ started'[r] # "pending"
        \/ pool'[r] = "starting" /\ acq'[r] = "start"
    BY <1>2, <1>4
  <1>7. ReleaseInv'
    <2>1. ASSUME NEW c \in Calls PROVE CallInv(c)'
      <3>1. CallInv(c)
        BY <1>1 DEF ReleaseInv
      <3>2. rel[c].pc \in {"drain", "remove", "acked"} =>
              ~Covers(rel[c].target, r) /\ ~Removes(rel[c].target, r)
        BY <3>1 DEF CallInv, Removes
      <3> QED BY <1>3, <1>5, <3>1, <3>2
              DEF CallInv, Fenced, Covers, Removes, Targets, WorkspaceTarget, UserTarget
    <2> QED BY <2>1 DEF ReleaseInv
  <1>8. SubmitInv'
    BY <1>1, <1>3, <1>4, <1>5 DEF SubmitInv
  <1>9. LaunchInv'
    BY <1>1, <1>2, <1>5, <1>6 DEF LaunchInv
  <1>10. WaitInv'
    <2> SUFFICES ASSUME NEW q \in Runs, wait'[q] # NoRun
                 PROVE /\ Key(wait'[q]) = Key(q)
                       /\ phase'[q] \in {"none", "acquiring"}
                       /\ res'[wait'[q]] = "resolved" /\ phase'[q] # "none" => pool'[wait'[q]] = "ready"
      BY DEF WaitInv, Key
    <2>1. CASE q = r
      BY <1>3, <1>4, <2>1
    <2>2. CASE q # r
      <3>1. wait'[q] = wait[q] /\ wait[q] \in Runs /\ phase'[q] = phase[q]
        BY <1>1, <1>3, <1>4, <2>2 DEF RunTypes
      <3>2. /\ Key(wait[q]) = Key(q)
            /\ phase[q] \in {"none", "acquiring"}
            /\ res[wait[q]] = "resolved" /\ phase[q] # "none" => pool[wait[q]] = "ready"
        BY <1>1, <3>1 DEF WaitInv
      <3> QED BY <1>2, <1>5, <3>1, <3>2
    <2> QED BY <2>1, <2>2
  <1>11. StartInv'
    BY <1>1, <1>3 DEF StartInv
  <1>12. ReadyIsBound'
    <2>1. ASSUME NEW q \in Runs, phase'[q] = "ready"
          PROVE pool'[bound[q]] = "ready" /\ q \in active[bound[q]]
      <3>1. phase[q] = "ready" /\ bound[q] \in Runs
        BY <1>1, <1>3, <2>1 DEF StartInv, RunTypes
      <3>2. pool[bound[q]] = "ready" /\ q \in active[bound[q]]
        BY <1>1, <3>1 DEF ReadyIsBound
      <3> QED BY <1>2, <1>5, <3>1, <3>2
    <2>2. ASSUME NEW q \in Runs, NEW v \in Runs, q \in active[v]
          PROVE phase'[q] = "ready" /\ bound[q] = v
      BY <1>1, <1>3, <2>2 DEF ReadyIsBound
    <2> QED BY <1>3, <2>1, <2>2 DEF ReadyIsBound
  <1>13. EndsOnce'
    BY <1>1, <1>3 DEF EndsOnce
  <1>14. OneWorkerPerKey'
    <2>1. CASE UNCHANGED pool
      BY <1>1, <2>1 DEF OneWorkerPerKey
    <2>2. CASE InFlight(r) = {}
      <3>1. ASSUME NEW v \in Runs, Key(v) = Key(r) PROVE pool[v] = "out"
        BY <1>1, <2>2, <3>1 DEF InFlight, ReadyFor, LaunchInv, Launching, PoolTypes
      <3> QED BY <1>1, <1>5, <3>1 DEF OneWorkerPerKey
    <2> QED BY <1>4, <2>1, <2>2
  <1>15. InstanceIsAccounted'
    <2> SUFFICES ASSUME NEW v \in Runs, inst[v] = "live"
                 PROVE pool'[v] # "out" \/ acq'[v] \in {"start", "handshake", "cleanup"} \/ led[v] # "none"
      BY DEF InstanceIsAccounted, Launching
    <2>1. pool[v] # "out" \/ acq[v] \in {"start", "handshake", "cleanup"} \/ led[v] # "none"
      BY <1>1 DEF InstanceIsAccounted, Launching
    <2> QED BY <1>2, <1>5, <1>6, <2>1
  <1> QED BY <1>7, <1>8, <1>9, <1>10, <1>11, <1>12, <1>13, <1>14, <1>15

LEMMA LaunchStartedKeeps == ASSUME IInv, NEW w \in Runs, LaunchStarted(w) PROVE IInv'
  <1>1. /\ RunTypes /\ PoolTypes /\ LaunchTypes /\ LedgerTypes /\ FenceTypes /\ RelTypes
        /\ ReleaseInv /\ SubmitInv /\ LaunchInv /\ WaitInv /\ StartInv
        /\ ReadyIsBound /\ EndsOnce /\ OneWorkerPerKey /\ InstanceIsAccounted
    BY Types DEF IInv
  <1>2. TypeOK'
    BY LaunchStartedTyped DEF IInv
  <1>3. ReleaseInv'
    BY <1>1 DEF ReleaseInv, CallInv, Fenced, LaunchStarted, runVars,
    poolVars, launchVars, ledgerVars, fenceVars, RunTypes, PoolTypes,
    RelTypes
  <1>4. SubmitInv'
    BY <1>1 DEF SubmitInv, LaunchStarted, runVars, poolVars, launchVars,
    ledgerVars, fenceVars, RunTypes, PoolTypes
  <1>5. LaunchInv'
    BY <1>1 DEF LaunchInv, LaunchStarted, runVars, poolVars, launchVars,
    ledgerVars, fenceVars, PoolTypes, LaunchTypes
  <1>6. WaitInv'
    BY <1>1 DEF WaitInv, LaunchStarted, runVars, poolVars, launchVars,
    ledgerVars, fenceVars, RunTypes, PoolTypes, LaunchTypes
  <1>7. StartInv'
    BY <1>1 DEF StartInv, LaunchStarted, runVars, poolVars, launchVars,
    ledgerVars, fenceVars, RunTypes
  <1>8. ReadyIsBound'
    BY <1>1 DEF ReadyIsBound, LaunchStarted, runVars, poolVars, launchVars,
    ledgerVars, fenceVars, RunTypes, PoolTypes
  <1>9. EndsOnce'
    BY <1>1 DEF EndsOnce, LaunchStarted, runVars, poolVars, launchVars,
    ledgerVars, fenceVars, RunTypes
  <1>10. OneWorkerPerKey'
    BY <1>1 DEF OneWorkerPerKey, LaunchStarted, runVars, poolVars,
    launchVars, ledgerVars, fenceVars, PoolTypes
  <1>11. InstanceIsAccounted'
    BY <1>1 DEF InstanceIsAccounted, Launching, LaunchStarted, runVars,
    poolVars, launchVars, ledgerVars, fenceVars, PoolTypes, LaunchTypes,
    LedgerTypes
  <1> QED BY <1>2, <1>3, <1>4, <1>5, <1>6, <1>7, <1>8, <1>9, <1>10, <1>11 DEF IInv

LEMMA LaunchReadyKeeps == ASSUME IInv, NEW w \in Runs, LaunchReady(w) PROVE IInv'
  <1>1. /\ RunTypes /\ PoolTypes /\ LaunchTypes /\ LedgerTypes /\ FenceTypes /\ RelTypes
        /\ ReleaseInv /\ SubmitInv /\ LaunchInv /\ WaitInv /\ StartInv
        /\ ReadyIsBound /\ EndsOnce /\ OneWorkerPerKey /\ InstanceIsAccounted
    BY Types DEF IInv
  <1>2. TypeOK'
    BY LaunchReadyTyped DEF IInv
  <1>3. ReleaseInv'
    BY <1>1 DEF ReleaseInv, CallInv, Fenced, LaunchReady, Settled, runVars,
    poolVars, launchVars, ledgerVars, fenceVars, RunTypes, PoolTypes,
    RelTypes
  <1>4. SubmitInv'
    BY <1>1 DEF SubmitInv, LaunchReady, Settled, runVars, poolVars,
    launchVars, ledgerVars, fenceVars, RunTypes, PoolTypes
  <1>5. LaunchInv'
    BY <1>1 DEF LaunchInv, LaunchReady, Settled, runVars, poolVars,
    launchVars, ledgerVars, fenceVars, PoolTypes, LaunchTypes
  <1>6. WaitInv'
    BY <1>1 DEF WaitInv, LaunchReady, Settled, runVars, poolVars, launchVars,
    ledgerVars, fenceVars, RunTypes, PoolTypes, LaunchTypes
  <1>7. StartInv'
    BY <1>1 DEF StartInv, LaunchReady, Settled, runVars, poolVars,
    launchVars, ledgerVars, fenceVars, RunTypes
  <1>8. ReadyIsBound'
    BY <1>1 DEF ReadyIsBound, LaunchReady, Settled, runVars, poolVars,
    launchVars, ledgerVars, fenceVars, RunTypes, PoolTypes
  <1>9. EndsOnce'
    BY <1>1 DEF EndsOnce, LaunchReady, Settled, runVars, poolVars,
    launchVars, ledgerVars, fenceVars, RunTypes
  <1>10. OneWorkerPerKey'
    BY <1>1 DEF OneWorkerPerKey, LaunchReady, Settled, runVars, poolVars,
    launchVars, ledgerVars, fenceVars, PoolTypes
  <1>11. InstanceIsAccounted'
    BY <1>1 DEF InstanceIsAccounted, Launching, LaunchReady, Settled,
    runVars, poolVars, launchVars, ledgerVars, fenceVars, PoolTypes,
    LaunchTypes, LedgerTypes
  <1> QED BY <1>2, <1>3, <1>4, <1>5, <1>6, <1>7, <1>8, <1>9, <1>10, <1>11 DEF IInv

LEMMA LaunchFailsKeeps == ASSUME IInv, NEW w \in Runs, LaunchFails(w) PROVE IInv'
  <1>1. /\ RunTypes /\ PoolTypes /\ LaunchTypes /\ LedgerTypes /\ FenceTypes /\ RelTypes
        /\ ReleaseInv /\ SubmitInv /\ LaunchInv /\ WaitInv /\ StartInv
        /\ ReadyIsBound /\ EndsOnce /\ OneWorkerPerKey /\ InstanceIsAccounted
    BY Types DEF IInv
  <1>2. TypeOK'
    BY LaunchFailsTyped DEF IInv
  <1>3. WaitInv' /\ StartInv' /\ ReadyIsBound' /\ EndsOnce' /\ OneWorkerPerKey'
    <2>1. /\ pool' = [pool EXCEPT ![w] = "out"]
          /\ acq[w] \in {"start", "handshake"}
          /\ UNCHANGED <<phase, cancelled, bound, told, wait, sent, early, active>>
          /\ \A v \in Runs : res'[v] = "resolved" => res[v] = "resolved"
      BY <1>1 DEF LaunchFails, LaunchFailed, runVars, LaunchTypes
    <2>2. pool[w] # "ready" /\ res[w] # "resolved"
      BY <1>1, <2>1 DEF LaunchInv
    <2>3. active[w] = {}
      BY <1>1, <2>2 DEF ReadyIsBound, PoolTypes
    <2>4. Shrinks({}, {w})
      BY <1>1, <2>1, <2>2, <2>3 DEF Shrinks, PoolTypes
    <2> QED BY <1>2, <2>4, ShrinksKeeps
  <1>4. ReleaseInv'
    <2>1. UNCHANGED <<rel, tomb, revoked>>
      BY DEF LaunchFails, fenceVars
    <2>2. /\ \A q \in Runs : phase[q] = "none" => phase'[q] = "none"
          /\ \A v \in Runs : pool[v] = "out" => pool'[v] = "out"
      BY <1>1 DEF LaunchFails, runVars, PoolTypes
    <2> QED BY <1>1, <2>1, <2>2, ReleasesKept
  <1>5. SubmitInv'
    BY <1>1 DEF SubmitInv, LaunchFails, LaunchFailed, Settled, Cleanup, Or,
    runVars, poolVars, launchVars, ledgerVars, fenceVars, RunTypes, PoolTypes
  <1>6. LaunchInv'
    BY <1>1 DEF LaunchInv, LaunchFails, LaunchFailed, Settled, Cleanup, Or,
    runVars, poolVars, launchVars, ledgerVars, fenceVars, PoolTypes,
    LaunchTypes
  <1>7. InstanceIsAccounted'
    <2> SUFFICES ASSUME NEW v \in Runs, inst'[v] = "live"
                 PROVE pool'[v] # "out" \/ Launching(v)' \/ led'[v] # "none"
      BY DEF InstanceIsAccounted
    <2>1. inst[v] = "live" /\ known[v] /\ (pool[v] # "out" \/ Launching(v) \/ led[v] # "none")
      BY <1>1 DEF LaunchFails, InstanceIsAccounted, LaunchInv
    <2>2. CASE v = w
      BY <1>1, <2>1, <2>2 DEF LaunchFails, Launching, PoolTypes
    <2>3. CASE v # w
      <3>1. pool'[v] = pool[v] /\ acq'[v] = acq[v] /\ (led'[v] = led[v] \/ led'[v] = "running")
        BY <1>1, <2>3 DEF LaunchFails, Cleanup, PoolTypes, ledgerVars
      <3> QED BY <2>1, <3>1 DEF Launching
    <2> QED BY <2>2, <2>3
  <1> QED BY <1>2, <1>3, <1>4, <1>5, <1>6, <1>7 DEF IInv

LEMMA AcquiredKeeps == ASSUME IInv, NEW r \in Runs, Acquired(r) PROVE IInv'
  <1>1. /\ RunTypes /\ PoolTypes /\ LaunchTypes /\ LedgerTypes /\ FenceTypes /\ RelTypes
        /\ ReleaseInv /\ SubmitInv /\ LaunchInv /\ WaitInv /\ StartInv
        /\ ReadyIsBound /\ EndsOnce /\ OneWorkerPerKey /\ InstanceIsAccounted
    BY Types DEF IInv
  <1>2. TypeOK'
    BY AcquiredTyped DEF IInv
  <1>3. /\ ReleaseInv' /\ SubmitInv' /\ LaunchInv' /\ WaitInv' /\ StartInv'
        /\ ReadyIsBound' /\ EndsOnce' /\ OneWorkerPerKey' /\ InstanceIsAccounted'
    <2>1. /\ wait[r] \in Runs /\ res[wait[r]] = "resolved"
          /\ wait' = [wait EXCEPT ![r] = NoRun]
          /\ UNCHANGED <<call, early, pool, acq, started, res, inst, known, led, rel, tomb, revoked>>
      BY <1>1 DEF Acquired, RunTypes, launchVars, ledgerVars, fenceVars
    <2>2. phase[r] \in {"none", "acquiring"} /\ (phase[r] # "none" => pool[wait[r]] = "ready")
      BY <1>1, <2>1, PlacementAssumption DEF WaitInv
    <2>3. CASE phase[r] = "none"
      <3>1. UNCHANGED <<phase, cancelled, bound, told, sent, active>>
        BY <2>3 DEF Acquired
      <3>2. Shrinks({}, {})
        BY <1>1, <2>1, <3>1 DEF Shrinks, RunTypes
      <3> QED BY <1>2, <2>1, <3>2, GoesOn
    <2>4. CASE phase[r] # "none" /\ cancelled[r]
      <3>1. Cleared({r}) /\ Tell({r}, "cancelled") /\ active' = Dissociated({r}) /\ UNCHANGED sent
        BY <2>4 DEF Acquired, OnAcquired
      <3>2. \A q \in Runs :
              told'[q] = told[q] \/ (q \in {r} /\ phase[q] # "none" /\ told'[q] # "twice")
        BY <1>1, <2>4, <3>1, TellsOnce
      <3>3. Shrinks({r}, {})
        BY <1>1, <2>1, <3>1, <3>2 DEF Shrinks, Cleared, Dissociated, RunTypes
      <3> QED BY <1>2, <2>1, <3>3, GoesOn
    <2>5. CASE phase[r] # "none" /\ ~cancelled[r]
      <3>1. Bound(r, wait[r])
        BY <2>5 DEF Acquired, OnAcquired
      <3>2. call[r] = "accepted"
        BY <1>1, <2>2, <2>5 DEF SubmitInv
      <3>3. \A q \in Runs : /\ call'[q] = IF q = r THEN "accepted" ELSE call[q]
                            /\ wait'[q] = IF q = r THEN NoRun ELSE wait[q]
        BY <1>1, <2>1, <3>2 DEF RunTypes
      <3> QED BY <1>2, <2>1, <2>2, <2>5, <3>1, <3>3, BoundKeeps
    <2> QED BY <2>3, <2>4, <2>5
  <1> QED BY <1>2, <1>3 DEF IInv

LEMMA AcquireFailedKeeps == ASSUME IInv, NEW r \in Runs, AcquireFailed(r) PROVE IInv'
  <1>1. /\ RunTypes /\ PoolTypes /\ LaunchTypes /\ LedgerTypes /\ FenceTypes /\ RelTypes
        /\ ReleaseInv /\ SubmitInv /\ LaunchInv /\ WaitInv /\ StartInv
        /\ ReadyIsBound /\ EndsOnce /\ OneWorkerPerKey /\ InstanceIsAccounted
    BY Types DEF IInv
  <1>2. TypeOK'
    BY AcquireFailedTyped DEF IInv
  <1>3. WaitInv' /\ StartInv' /\ ReadyIsBound' /\ EndsOnce' /\ OneWorkerPerKey'
    <2>1. /\ Cleared(Ended(r)) /\ Tell(Ended(r), "failed") /\ active' = Dissociated(Ended(r))
          /\ wait' = [wait EXCEPT ![r] = NoRun]
          /\ UNCHANGED <<sent, early, pool, res>>
      BY DEF AcquireFailed, launchVars
    <2>2. \A q \in Runs :
            told'[q] = told[q] \/ (q \in Ended(r) /\ phase[q] # "none" /\ told'[q] # "twice")
      BY <1>1, <2>1, TellsOnce DEF Ended
    <2>3. Shrinks(Ended(r), {})
      BY <1>1, <2>1, <2>2 DEF Shrinks, Cleared, Dissociated, RunTypes
    <2> QED BY <1>2, <2>3, ShrinksKeeps
  <1>4. ReleaseInv'
    <2>1. UNCHANGED <<rel, tomb, revoked>>
      BY DEF AcquireFailed, fenceVars
    <2>2. /\ \A q \in Runs : phase[q] = "none" => phase'[q] = "none"
          /\ \A v \in Runs : pool[v] = "out" => pool'[v] = "out"
      BY <1>1 DEF AcquireFailed, Cleared
    <2> QED BY <1>1, <2>1, <2>2, ReleasesKept
  <1>5. SubmitInv'
    BY <1>1 DEF SubmitInv, AcquireFailed, Ended, Cleared, Tell, Dissociated,
    runVars, poolVars, launchVars, ledgerVars, fenceVars, RunTypes, PoolTypes
  <1>6. LaunchInv'
    BY <1>1 DEF LaunchInv, AcquireFailed, Ended, Cleared, Tell, Dissociated,
    runVars, poolVars, launchVars, ledgerVars, fenceVars, PoolTypes,
    LaunchTypes
  <1>7. InstanceIsAccounted'
    BY <1>1 DEF InstanceIsAccounted, Launching, AcquireFailed, Ended,
    Cleared, Tell, Dissociated, runVars, poolVars, launchVars, ledgerVars,
    fenceVars, PoolTypes, LaunchTypes, LedgerTypes
  <1> QED BY <1>2, <1>3, <1>4, <1>5, <1>6, <1>7 DEF IInv

LEMMA RetryNextKeeps == ASSUME IInv, NEW c \in Calls, RetryNext(c) PROVE IInv'
  <1>1. /\ RunTypes /\ PoolTypes /\ LaunchTypes /\ LedgerTypes /\ FenceTypes /\ RelTypes
        /\ ReleaseInv /\ SubmitInv /\ LaunchInv /\ WaitInv /\ StartInv
        /\ ReadyIsBound /\ EndsOnce /\ OneWorkerPerKey /\ InstanceIsAccounted
    BY Types DEF IInv
  <1>2. TypeOK'
    BY RetryNextTyped DEF IInv
  <1>3. ReleaseInv'
    BY SMTT(40), <1>1 DEF ReleaseInv, CallInv, Fenced, RetryNext, Or, runVars,
    poolVars, launchVars, ledgerVars, fenceVars, RunTypes, PoolTypes,
    RelTypes
  <1>4. SubmitInv'
    BY <1>1 DEF SubmitInv, RetryNext, Or, runVars, poolVars, launchVars,
    ledgerVars, fenceVars, RunTypes, PoolTypes
  <1>5. LaunchInv'
    BY <1>1 DEF LaunchInv, RetryNext, Or, runVars, poolVars, launchVars,
    ledgerVars, fenceVars, PoolTypes, LaunchTypes
  <1>6. WaitInv'
    BY <1>1 DEF WaitInv, RetryNext, Or, runVars, poolVars, launchVars,
    ledgerVars, fenceVars, RunTypes, PoolTypes, LaunchTypes
  <1>7. StartInv'
    BY <1>1 DEF StartInv, RetryNext, Or, runVars, poolVars, launchVars,
    ledgerVars, fenceVars, RunTypes
  <1>8. ReadyIsBound'
    BY <1>1 DEF ReadyIsBound, RetryNext, Or, runVars, poolVars, launchVars,
    ledgerVars, fenceVars, RunTypes, PoolTypes
  <1>9. EndsOnce'
    BY <1>1 DEF EndsOnce, RetryNext, Or, runVars, poolVars, launchVars,
    ledgerVars, fenceVars, RunTypes
  <1>10. OneWorkerPerKey'
    BY <1>1 DEF OneWorkerPerKey, RetryNext, Or, runVars, poolVars,
    launchVars, ledgerVars, fenceVars, PoolTypes
  <1>11. InstanceIsAccounted'
    BY <1>1 DEF InstanceIsAccounted, Launching, RetryNext, Or, runVars,
    poolVars, launchVars, ledgerVars, fenceVars, PoolTypes, LaunchTypes,
    LedgerTypes
  <1> QED BY <1>2, <1>3, <1>4, <1>5, <1>6, <1>7, <1>8, <1>9, <1>10, <1>11 DEF IInv

LEMMA ReleaseCancelKeeps == ASSUME IInv, NEW c \in Calls, ReleaseCancel(c) PROVE IInv'
  <1>1. /\ RunTypes /\ PoolTypes /\ LaunchTypes /\ LedgerTypes /\ FenceTypes /\ RelTypes
        /\ ReleaseInv /\ SubmitInv /\ LaunchInv /\ WaitInv /\ StartInv
        /\ ReadyIsBound /\ EndsOnce /\ OneWorkerPerKey /\ InstanceIsAccounted
    BY Types DEF IInv
  <1>2. TypeOK'
    BY ReleaseCancelTyped DEF IInv
  <1>3. WaitInv' /\ StartInv' /\ ReadyIsBound' /\ EndsOnce' /\ OneWorkerPerKey'
    <2> DEFINE t == rel[c].target
                 ended == {r \in Runs : phase[r] # "none" /\ Covers(t, r)}
                 fresh == {w \in Cancels(t) : ~off[w]}
    <2>1. /\ Cleared(ended) /\ Tell(ended, "cancelled") /\ active' = Dissociated(ended)
          /\ CancelAttempts(Cancels(t), t)
          /\ UNCHANGED <<wait, sent, early>>
      BY DEF ReleaseCancel
    <2>2. /\ \A v \in Runs : pool'[v] = IF v \in fresh THEN "out" ELSE pool[v]
          /\ \A v \in Runs : res'[v] = "resolved" => res[v] = "resolved"
      BY <2>1 DEF CancelAttempts, Evicted
    <2>3. \A v \in Runs : v \in fresh => pool[v] # "ready" /\ res[v] # "resolved"
      BY <1>1 DEF LaunchInv, Launching, Cancels
    <2>4. \A v \in Runs : v \in fresh => active[v] = {}
      BY <1>1, <2>3 DEF ReadyIsBound, PoolTypes
    <2>5. \A q \in Runs :
            told'[q] = told[q] \/ (q \in ended /\ phase[q] # "none" /\ told'[q] # "twice")
      BY <1>1, <2>1, TellsOnce
    <2>6. Shrinks(ended, fresh)
      <3>1. \A r \in Runs : wait'[r] \in fresh => res[wait[r]] # "resolved"
        BY <2>1, <2>3 DEF Cancels
      <3> HIDE DEF ended, fresh
      <3> QED BY <1>1, <2>1, <2>2, <2>4, <2>5, <3>1 DEF Shrinks, Cleared, Dissociated
    <2> QED BY <1>2, <2>6, ShrinksKeeps
  <1>4. ReleaseInv'
    <2>1. ASSUME NEW d \in Calls PROVE CallInv(d)'
      <3>1. CallInv(d)
        BY <1>1 DEF ReleaseInv
      <3>2. /\ rel[c].pc = "retry" /\ UNCHANGED <<tomb, revoked>>
            /\ rel' = [rel EXCEPT ![c].pc = "drain", ![c].todo = Cancels(rel[c].target)]
        BY DEF ReleaseCancel, fenceVars
      <3>3. \A r \in Runs :
              phase'[r] = IF phase[r] # "none" /\ Covers(rel[c].target, r) THEN "none" ELSE phase[r]
        BY DEF ReleaseCancel, Cleared
      <3>4. \A w \in Runs : pool[w] = "out" => pool'[w] = "out"
        BY DEF ReleaseCancel, CancelAttempts, Evicted
      <3>5. CASE d # c
        <4>1. rel'[d] = rel[d]
          BY <1>1, <3>2, <3>5 DEF RelTypes
        <4> QED BY <3>1, <3>2, <3>3, <3>4, <4>1, CallKept
      <3>6. CASE d = c
        <4>1. rel'[c].pc = "drain" /\ rel'[c].target = rel[c].target
          BY <1>1, <3>2 DEF RelTypes
        <4>2. \A r \in Runs : Covers(rel[c].target, r) => phase'[r] = "none"
          BY <3>3
        <4>3. rel[c].target \in Targets /\ Fenced(rel[c].target)
          BY <3>1, <3>2, <3>6 DEF CallInv
        <4>4. (rel[d].target \in Targets)'
          BY <3>6, <4>1, <4>3, TargetsFixed
        <4>5. Fenced(rel[d].target)'
          BY <3>2, <3>6, <4>1, <4>3 DEF Fenced
        <4>6. \A r \in Runs : Covers(rel'[d].target, r) => phase'[r] = "none"
          BY <3>6, <4>1, <4>2
        <4> QED BY <3>6, <4>1, <4>4, <4>5, <4>6 DEF CallInv
      <3> QED BY <3>5, <3>6
    <2> QED BY <2>1 DEF ReleaseInv
  <1>5. SubmitInv'
    BY <1>1 DEF SubmitInv, ReleaseCancel, Cancels, CancelAttempts, Evicted,
    Cleanup, Cleared, Tell, Dissociated, Or, Launching, runVars, poolVars,
    launchVars, ledgerVars, fenceVars, RunTypes, PoolTypes
  <1>6. LaunchInv'
    BY <1>1 DEF LaunchInv, ReleaseCancel, Cancels, CancelAttempts, Evicted,
    Cleanup, Cleared, Tell, Dissociated, Or, Launching, runVars, poolVars,
    launchVars, ledgerVars, fenceVars, PoolTypes, LaunchTypes
  <1>7. InstanceIsAccounted'
    BY <1>1 DEF InstanceIsAccounted, Launching, ReleaseCancel, Cancels,
    CancelAttempts, Evicted, Cleanup, Cleared, Tell, Dissociated, Or,
    runVars, poolVars, launchVars, ledgerVars, fenceVars, PoolTypes,
    LaunchTypes, LedgerTypes
  <1> QED BY <1>2, <1>3, <1>4, <1>5, <1>6, <1>7 DEF IInv

LEMMA ReleaseDrainedKeeps == ASSUME IInv, NEW c \in Calls, ReleaseDrained(c) PROVE IInv'
  <1>1. /\ RunTypes /\ PoolTypes /\ LaunchTypes /\ LedgerTypes /\ FenceTypes /\ RelTypes
        /\ ReleaseInv /\ SubmitInv /\ LaunchInv /\ WaitInv /\ StartInv
        /\ ReadyIsBound /\ EndsOnce /\ OneWorkerPerKey /\ InstanceIsAccounted
    BY Types DEF IInv
  <1>2. TypeOK'
    BY ReleaseDrainedTyped DEF IInv
  <1>3. ReleaseInv'
    <2>1. ASSUME NEW d \in Calls PROVE CallInv(d)'
      <3>1. CallInv(d)
        BY <1>1 DEF ReleaseInv
      <3>2. /\ rel[c].pc = "drain" /\ UNCHANGED <<tomb, revoked, phase, pool>>
            /\ \/ rel' = [rel EXCEPT ![c].pc = "failed", ![c].todo = {}]
               \/ rel' = [rel EXCEPT ![c].pc = "remove",
                            ![c].todo = {w \in Runs : pool[w] # "out" /\ Removes(rel[c].target, w)}]
        BY DEF ReleaseDrained, fenceVars, runVars, poolVars
      <3>3. CASE d # c
        <4>1. rel'[d] = rel[d]
          BY <1>1, <3>2, <3>3 DEF RelTypes
        <4> QED BY <3>1, <3>2, <4>1, CallKept
      <3>4. CASE d = c
        <4>1. /\ rel'[c].target = rel[c].target
              /\ \/ rel'[c].pc = "failed"
                 \/ /\ rel'[c].pc = "remove"
                    /\ rel'[c].todo = {w \in Runs : pool[w] # "out" /\ Removes(rel[c].target, w)}
          BY <1>1, <3>2 DEF RelTypes
        <4> QED BY ZenonT(60), <3>1, <3>2, <3>4, <4>1
                DEF CallInv, Fenced, Covers, Removes, Targets, WorkspaceTarget, UserTarget
      <3> QED BY <3>3, <3>4
    <2> QED BY <2>1 DEF ReleaseInv
  <1>4. SubmitInv'
    BY <1>1 DEF SubmitInv, ReleaseDrained, runVars, poolVars, launchVars,
    ledgerVars, fenceVars, RunTypes, PoolTypes
  <1>5. LaunchInv'
    BY <1>1 DEF LaunchInv, ReleaseDrained, runVars, poolVars, launchVars,
    ledgerVars, fenceVars, PoolTypes, LaunchTypes
  <1>6. WaitInv'
    BY <1>1 DEF WaitInv, ReleaseDrained, runVars, poolVars, launchVars,
    ledgerVars, fenceVars, RunTypes, PoolTypes, LaunchTypes
  <1>7. StartInv'
    BY <1>1 DEF StartInv, ReleaseDrained, runVars, poolVars, launchVars,
    ledgerVars, fenceVars, RunTypes
  <1>8. ReadyIsBound'
    BY <1>1 DEF ReadyIsBound, ReleaseDrained, runVars, poolVars, launchVars,
    ledgerVars, fenceVars, RunTypes, PoolTypes
  <1>9. EndsOnce'
    BY <1>1 DEF EndsOnce, ReleaseDrained, runVars, poolVars, launchVars,
    ledgerVars, fenceVars, RunTypes
  <1>10. OneWorkerPerKey'
    BY <1>1 DEF OneWorkerPerKey, ReleaseDrained, runVars, poolVars,
    launchVars, ledgerVars, fenceVars, PoolTypes
  <1>11. InstanceIsAccounted'
    BY <1>1 DEF InstanceIsAccounted, Launching, ReleaseDrained, runVars,
    poolVars, launchVars, ledgerVars, fenceVars, PoolTypes, LaunchTypes,
    LedgerTypes
  <1> QED BY <1>2, <1>3, <1>4, <1>5, <1>6, <1>7, <1>8, <1>9, <1>10, <1>11 DEF IInv

LEMMA RemoveNextKeeps == ASSUME IInv, NEW c \in Calls, RemoveNext(c) PROVE IInv'
  <1>1. /\ RunTypes /\ PoolTypes /\ LaunchTypes /\ LedgerTypes /\ FenceTypes /\ RelTypes
        /\ ReleaseInv /\ SubmitInv /\ LaunchInv /\ WaitInv /\ StartInv
        /\ ReadyIsBound /\ EndsOnce /\ OneWorkerPerKey /\ InstanceIsAccounted
    BY Types DEF IInv
  <1>2. TypeOK'
    BY RemoveNextTyped DEF IInv
  <1>3. /\ ReleaseInv' /\ SubmitInv' /\ LaunchInv' /\ WaitInv' /\ StartInv'
        /\ ReadyIsBound' /\ EndsOnce' /\ OneWorkerPerKey' /\ InstanceIsAccounted'
    <2>1. PICK w \in rel[c].todo :
            /\ \E on \in Runs \cup {NoRun} :
                  \/ rel' = [rel EXCEPT ![c].todo = @ \ {w}, ![c].on = on]
                  \/ rel' = [rel EXCEPT ![c].todo = @ \ {w}]
            /\ IF pool[w] = "out"
               THEN UNCHANGED <<runVars, poolVars, launchVars, ledgerVars>>
               ELSE RemoveWorker(w, "release", rel[c].target) /\ UNCHANGED inst
      <3>1. rel[c].todo \subseteq Runs
        BY <1>1 DEF RelTypes
      <3> QED BY <3>1 DEF RemoveNext
    <2>2. /\ rel[c].pc = "remove" /\ UNCHANGED <<tomb, revoked>>
          /\ w \in Runs
      BY <1>1 DEF RemoveNext, RelTypes, fenceVars
    <2>3. /\ rel[c].target \in Targets /\ Removes(rel[c].target, w)
          /\ \A r \in Runs : Covers(rel[c].target, r) => phase[r] = "none"
      <3>1. CallInv(c)
        BY <1>1 DEF ReleaseInv
      <3> QED BY <2>1, <2>2, <3>1 DEF CallInv
    <2>4. /\ SubmitInv' /\ LaunchInv' /\ WaitInv' /\ StartInv'
          /\ ReadyIsBound' /\ EndsOnce' /\ OneWorkerPerKey' /\ InstanceIsAccounted'
          /\ \A r \in Runs : phase'[r] = phase[r] \/ phase'[r] = "none"
          /\ \A v \in Runs : pool'[v] = pool[v] \/ pool'[v] = "out"
          /\ pool'[w] = "out"
      <3>1. CASE pool[w] = "out"
        <4>1. UNCHANGED <<runVars, poolVars, launchVars, ledgerVars>>
          BY <2>1, <3>1
        <4> QED BY <1>1, <3>1, <4>1
                DEF SubmitInv, LaunchInv, WaitInv, StartInv, ReadyIsBound, EndsOnce, OneWorkerPerKey,
                    InstanceIsAccounted, Launching, runVars, poolVars, launchVars, ledgerVars
      <3>2. CASE pool[w] # "out"
        <4>1. RemoveWorker(w, "release", rel[c].target) /\ UNCHANGED inst
          BY <2>1, <3>2
        <4>2. \A r \in Runs : wait[r] = w /\ res[w] = "resolved" => phase[r] = "none"
          <5>1. ASSUME NEW r \in Runs, wait[r] = w PROVE Covers(rel[c].target, r)
            <6>1. w # NoRun
              BY <2>2, PlacementAssumption
            <6>2. Key(w) = Key(r)
              BY <1>1, <5>1, <6>1 DEF WaitInv
            <6> QED BY <2>2, <2>3, <6>2, RemovedWaiter
          <5> QED BY <2>3, <5>1
        <4>3. /\ SubmitInv' /\ LaunchInv' /\ WaitInv' /\ StartInv'
              /\ ReadyIsBound' /\ EndsOnce' /\ OneWorkerPerKey' /\ InstanceIsAccounted'
              /\ \A r \in Runs : phase'[r] = phase[r] \/ phase'[r] = "none"
              /\ \A v \in Runs : pool'[v] = IF v = w THEN "out" ELSE pool[v]
          BY <1>2, <2>2, <4>1, <4>2, RemoveWorkerKeeps
        <4> QED BY <2>2, <4>3
      <3> QED BY <3>1, <3>2
    <2>5. ASSUME NEW d \in Calls PROVE CallInv(d)'
      <3>1. /\ rel'[d].pc = rel[d].pc /\ rel'[d].target = rel[d].target
            /\ rel'[d].todo = IF d = c THEN rel[d].todo \ {w} ELSE rel[d].todo
            /\ d # c => rel'[d].on = rel[d].on
        <4>1. PICK on \in Runs \cup {NoRun} :
                \/ rel' = [rel EXCEPT ![c].todo = @ \ {w}, ![c].on = on]
                \/ rel' = [rel EXCEPT ![c].todo = @ \ {w}]
          BY <2>1
        <4>2. CASE d = c
          BY <1>1, <4>1, <4>2 DEF RelTypes
        <4>3. CASE d # c
          BY <1>1, <4>1, <4>3 DEF RelTypes
        <4> QED BY <4>2, <4>3
      <3>2. CallInv(d)
        BY <1>1 DEF ReleaseInv
      <3>3. CASE d # c
        BY <2>2, <2>4, <3>1, <3>2, <3>3, CallKept
      <3>4. CASE d = c
        BY <2>2, <2>4, <3>1, <3>2, <3>4
           DEF CallInv, Fenced, Covers, Removes, Targets, WorkspaceTarget, UserTarget
      <3> QED BY <3>3, <3>4
    <2>6. ReleaseInv'
      BY <2>5 DEF ReleaseInv
    <2> QED BY <2>4, <2>6
  <1> QED BY <1>2, <1>3 DEF IInv

LEMMA ReleaseDoneKeeps == ASSUME IInv, NEW c \in Calls, ReleaseDone(c) PROVE IInv'
  <1>1. /\ RunTypes /\ PoolTypes /\ LaunchTypes /\ LedgerTypes /\ FenceTypes /\ RelTypes
        /\ ReleaseInv /\ SubmitInv /\ LaunchInv /\ WaitInv /\ StartInv
        /\ ReadyIsBound /\ EndsOnce /\ OneWorkerPerKey /\ InstanceIsAccounted
    BY Types DEF IInv
  <1>2. TypeOK'
    BY ReleaseDoneTyped DEF IInv
  <1>3. ReleaseInv'
    BY <1>1 DEF ReleaseInv, CallInv, Fenced, ReleaseDone, runVars, poolVars,
    launchVars, ledgerVars, fenceVars, RunTypes, PoolTypes, RelTypes
  <1>4. SubmitInv'
    BY <1>1 DEF SubmitInv, ReleaseDone, runVars, poolVars, launchVars,
    ledgerVars, fenceVars, RunTypes, PoolTypes
  <1>5. LaunchInv'
    BY <1>1 DEF LaunchInv, ReleaseDone, runVars, poolVars, launchVars,
    ledgerVars, fenceVars, PoolTypes, LaunchTypes
  <1>6. WaitInv'
    BY <1>1 DEF WaitInv, ReleaseDone, runVars, poolVars, launchVars,
    ledgerVars, fenceVars, RunTypes, PoolTypes, LaunchTypes
  <1>7. StartInv'
    BY <1>1 DEF StartInv, ReleaseDone, runVars, poolVars, launchVars,
    ledgerVars, fenceVars, RunTypes
  <1>8. ReadyIsBound'
    BY <1>1 DEF ReadyIsBound, ReleaseDone, runVars, poolVars, launchVars,
    ledgerVars, fenceVars, RunTypes, PoolTypes
  <1>9. EndsOnce'
    BY <1>1 DEF EndsOnce, ReleaseDone, runVars, poolVars, launchVars,
    ledgerVars, fenceVars, RunTypes
  <1>10. OneWorkerPerKey'
    BY <1>1 DEF OneWorkerPerKey, ReleaseDone, runVars, poolVars, launchVars,
    ledgerVars, fenceVars, PoolTypes
  <1>11. InstanceIsAccounted'
    BY <1>1 DEF InstanceIsAccounted, Launching, ReleaseDone, runVars,
    poolVars, launchVars, ledgerVars, fenceVars, PoolTypes, LaunchTypes,
    LedgerTypes
  <1> QED BY <1>2, <1>3, <1>4, <1>5, <1>6, <1>7, <1>8, <1>9, <1>10, <1>11 DEF IInv

LEMMA SubmitKeeps == ASSUME IInv, NEW r \in Runs, Submit(r) PROVE IInv'
  <1>1. /\ RunTypes /\ PoolTypes /\ LaunchTypes /\ LedgerTypes /\ FenceTypes /\ RelTypes
        /\ ReleaseInv /\ SubmitInv /\ LaunchInv /\ WaitInv /\ StartInv
        /\ ReadyIsBound /\ EndsOnce /\ OneWorkerPerKey /\ InstanceIsAccounted
    BY Types DEF IInv
  <1>2. TypeOK'
    BY SubmitTyped DEF IInv
  <1>3. /\ ReleaseInv' /\ SubmitInv' /\ LaunchInv' /\ WaitInv' /\ StartInv'
        /\ ReadyIsBound' /\ EndsOnce' /\ OneWorkerPerKey' /\ InstanceIsAccounted'
    <2>1. /\ call[r] = "new"
          /\ UNCHANGED <<cancelled, bound, wait, told, sent, early, pool, active, acq, started, res, inst, known, led,
                         rel, tomb, revoked>>
      BY DEF Submit, poolVars, launchVars, ledgerVars
    <2>2. /\ phase[r] = "none" /\ told[r] = "nothing" /\ ~early[r] /\ ~sent[r]
          /\ wait[r] = NoRun /\ acq[r] = "none"
      BY <1>1, <2>1 DEF SubmitInv
    <2>3. \A q \in Runs :
            /\ q # r => call'[q] = call[q] /\ phase'[q] = phase[q]
            /\ q = r => \/ call'[q] = "making" /\ phase'[q] = "configuring" /\ Admitted(r)
                        \/ call'[q] = "refused" /\ phase'[q] = "none"
      BY <1>1, <2>2 DEF Submit, RunTypes
    <2>4. ASSUME NEW c \in Calls PROVE CallInv(c)'
      <3>1. CallInv(c)
        BY <1>1 DEF ReleaseInv
      <3>2. phase'[r] # "none" /\ rel[c].pc # "idle" => ~Covers(rel[c].target, r)
        BY <1>1, <2>3, <3>1, AdmittedUncovered DEF CallInv
      <3>3. \A q \in Runs : q # r => phase'[q] = phase[q]
        BY <2>3
      <3> QED BY <2>1, <3>1, <3>2, <3>3
              DEF CallInv, Fenced, Covers, Removes, Targets, WorkspaceTarget, UserTarget
    <2>5. ReleaseInv'
      BY <2>4 DEF ReleaseInv
    <2>6. SubmitInv'
      BY <1>1, <2>1, <2>2, <2>3 DEF SubmitInv
    <2>7. LaunchInv' /\ OneWorkerPerKey' /\ InstanceIsAccounted'
      BY <1>1, <2>1 DEF LaunchInv, OneWorkerPerKey, InstanceIsAccounted, Launching
    <2>8. WaitInv'
      BY <1>1, <2>1, <2>2, <2>3 DEF WaitInv
    <2>9. StartInv' /\ EndsOnce'
      BY <1>1, <2>1, <2>2, <2>3 DEF StartInv, EndsOnce
    <2>10. ReadyIsBound'
      BY <1>1, <2>1, <2>2, <2>3 DEF ReadyIsBound
    <2> QED BY <2>5, <2>6, <2>7, <2>8, <2>9, <2>10
  <1> QED BY <1>2, <1>3 DEF IInv

LEMMA ConfiguredKeeps == ASSUME IInv, NEW r \in Runs, Configured(r) PROVE IInv'
  <1>1. /\ RunTypes /\ PoolTypes /\ LaunchTypes /\ LedgerTypes /\ FenceTypes /\ RelTypes
        /\ ReleaseInv /\ SubmitInv /\ LaunchInv /\ WaitInv /\ StartInv
        /\ ReadyIsBound /\ EndsOnce /\ OneWorkerPerKey /\ InstanceIsAccounted
    BY Types DEF IInv
  <1>2. TypeOK'
    BY ConfiguredTyped DEF IInv
  <1>3. /\ ReleaseInv' /\ SubmitInv' /\ LaunchInv' /\ WaitInv' /\ StartInv'
        /\ ReadyIsBound' /\ EndsOnce' /\ OneWorkerPerKey' /\ InstanceIsAccounted'
    <2>1. /\ call[r] = "making"
          /\ \A q \in Runs : call'[q] = IF q = r THEN "accepted" ELSE call[q]
          /\ UNCHANGED <<early, res, inst, known, led, rel, tomb, revoked>>
      BY <1>1 DEF Configured, RunTypes, ledgerVars, fenceVars
    <2>2. wait[r] = NoRun /\ acq[r] = "none" /\ phase[r] \in {"none", "configuring"}
      BY <1>1, <2>1 DEF SubmitInv, RunTypes
    <2>3. CASE phase[r] = "none"
      <3>1. UNCHANGED <<phase, cancelled, bound, told, sent, wait, active, pool, acq, started>>
        BY <2>3 DEF Configured, poolVars
      <3>2. Shrinks({}, {})
        BY <1>1, <2>1, <3>1 DEF Shrinks, RunTypes
      <3> QED BY <1>2, <2>1, <2>3, <3>1, <3>2, GoesOn
    <2>4. CASE phase[r] # "none" /\ ReadyFor(r) = {}
      BY <1>1, <1>2, <2>1, <2>2, <2>4, AcquireKeeps DEF Configured
    <2>5. CASE phase[r] # "none" /\ ReadyFor(r) # {}
      <3>1. PICK w \in ReadyFor(r) : OnAcquired(r, w) /\ UNCHANGED <<wait, pool, acq, started>>
        BY <2>5 DEF Configured
      <3>2. w \in Runs /\ pool[w] = "ready"
        BY <3>1 DEF ReadyFor
      <3>3. CASE cancelled[r]
        <4>1. Cleared({r}) /\ Tell({r}, "cancelled") /\ active' = Dissociated({r}) /\ UNCHANGED sent
          BY <3>1, <3>3 DEF OnAcquired
        <4>2. \A q \in Runs :
                told'[q] = told[q] \/ (q \in {r} /\ phase[q] # "none" /\ told'[q] # "twice")
          BY <1>1, <2>5, <4>1, TellsOnce
        <4>3. Shrinks({r}, {})
          BY <1>1, <2>1, <3>1, <4>1, <4>2 DEF Shrinks, Cleared, Dissociated, RunTypes
        <4>4. phase'[r] = "none"
          BY <4>1 DEF Cleared
        <4> QED BY <1>2, <2>1, <3>1, <4>3, <4>4, GoesOn
      <3>4. CASE ~cancelled[r]
        <4>1. Bound(r, w)
          BY <3>1, <3>4 DEF OnAcquired
        <4>2. \A q \in Runs : wait'[q] = IF q = r THEN NoRun ELSE wait[q]
          BY <2>2, <3>1
        <4> QED BY <1>2, <2>1, <2>2, <2>5, <3>1, <3>2, <3>4, <4>1, <4>2, BoundKeeps
      <3> QED BY <3>3, <3>4
    <2> QED BY <2>3, <2>4, <2>5
  <1> QED BY <1>2, <1>3 DEF IInv

LEMMA ConfigFailedKeeps == ASSUME IInv, NEW r \in Runs, ConfigFailed(r) PROVE IInv'
  <1>1. /\ RunTypes /\ PoolTypes /\ LaunchTypes /\ LedgerTypes /\ FenceTypes /\ RelTypes
        /\ ReleaseInv /\ SubmitInv /\ LaunchInv /\ WaitInv /\ StartInv
        /\ ReadyIsBound /\ EndsOnce /\ OneWorkerPerKey /\ InstanceIsAccounted
    BY Types DEF IInv
  <1>2. TypeOK'
    BY ConfigFailedTyped DEF IInv
  <1>3. WaitInv' /\ StartInv' /\ ReadyIsBound' /\ EndsOnce' /\ OneWorkerPerKey'
    <2>1. /\ Cleared({r}) /\ active' = Dissociated({r})
          /\ UNCHANGED <<told, wait, sent, early, pool, res>>
      BY DEF ConfigFailed, launchVars
    <2>2. Shrinks({r}, {})
      BY <1>1, <2>1 DEF Shrinks, Cleared, Dissociated
    <2> QED BY <1>2, <2>2, ShrinksKeeps
  <1>4. ReleaseInv'
    <2>1. UNCHANGED <<rel, tomb, revoked>>
      BY DEF ConfigFailed, fenceVars
    <2>2. /\ \A q \in Runs : phase[q] = "none" => phase'[q] = "none"
          /\ \A v \in Runs : pool[v] = "out" => pool'[v] = "out"
      BY <1>1 DEF ConfigFailed, Cleared
    <2> QED BY <1>1, <2>1, <2>2, ReleasesKept
  <1>5. SubmitInv'
    BY <1>1 DEF SubmitInv, ConfigFailed, Cleared, Dissociated, runVars,
    poolVars, launchVars, ledgerVars, fenceVars, RunTypes, PoolTypes
  <1>6. LaunchInv'
    BY <1>1 DEF LaunchInv, ConfigFailed, Cleared, Dissociated, runVars,
    poolVars, launchVars, ledgerVars, fenceVars, PoolTypes, LaunchTypes
  <1>7. InstanceIsAccounted'
    BY <1>1 DEF InstanceIsAccounted, Launching, ConfigFailed, Cleared,
    Dissociated, runVars, poolVars, launchVars, ledgerVars, fenceVars,
    PoolTypes, LaunchTypes, LedgerTypes
  <1> QED BY <1>2, <1>3, <1>4, <1>5, <1>6, <1>7 DEF IInv

LEMMA CancelKeeps == ASSUME IInv, NEW r \in Runs, Cancel(r) PROVE IInv'
  <1>1. /\ RunTypes /\ PoolTypes /\ LaunchTypes /\ LedgerTypes /\ FenceTypes /\ RelTypes
        /\ ReleaseInv /\ SubmitInv /\ LaunchInv /\ WaitInv /\ StartInv
        /\ ReadyIsBound /\ EndsOnce /\ OneWorkerPerKey /\ InstanceIsAccounted
    BY Types DEF IInv
  <1>2. TypeOK'
    BY CancelTyped DEF IInv
  <1>3. ReleaseInv'
    BY <1>1 DEF ReleaseInv, CallInv, Fenced, Cancel, runVars, poolVars,
    launchVars, ledgerVars, fenceVars, RunTypes, PoolTypes, RelTypes
  <1>4. SubmitInv'
    BY <1>1 DEF SubmitInv, Cancel, runVars, poolVars, launchVars, ledgerVars,
    fenceVars, RunTypes, PoolTypes
  <1>5. LaunchInv'
    BY <1>1 DEF LaunchInv, Cancel, runVars, poolVars, launchVars, ledgerVars,
    fenceVars, PoolTypes, LaunchTypes
  <1>6. WaitInv'
    BY <1>1 DEF WaitInv, Cancel, runVars, poolVars, launchVars, ledgerVars,
    fenceVars, RunTypes, PoolTypes, LaunchTypes
  <1>7. StartInv'
    BY <1>1 DEF StartInv, Cancel, runVars, poolVars, launchVars, ledgerVars,
    fenceVars, RunTypes
  <1>8. ReadyIsBound'
    BY <1>1 DEF ReadyIsBound, Cancel, runVars, poolVars, launchVars,
    ledgerVars, fenceVars, RunTypes, PoolTypes
  <1>9. EndsOnce'
    BY <1>1 DEF EndsOnce, Cancel, runVars, poolVars, launchVars, ledgerVars,
    fenceVars, RunTypes
  <1>10. OneWorkerPerKey'
    BY <1>1 DEF OneWorkerPerKey, Cancel, runVars, poolVars, launchVars,
    ledgerVars, fenceVars, PoolTypes
  <1>11. InstanceIsAccounted'
    BY <1>1 DEF InstanceIsAccounted, Launching, Cancel, runVars, poolVars,
    launchVars, ledgerVars, fenceVars, PoolTypes, LaunchTypes, LedgerTypes
  <1> QED BY <1>2, <1>3, <1>4, <1>5, <1>6, <1>7, <1>8, <1>9, <1>10, <1>11 DEF IInv

LEMMA ReleaseRunKeeps == ASSUME IInv, NEW r \in Runs, ReleaseRun(r) PROVE IInv'
  <1>1. /\ RunTypes /\ PoolTypes /\ LaunchTypes /\ LedgerTypes /\ FenceTypes /\ RelTypes
        /\ ReleaseInv /\ SubmitInv /\ LaunchInv /\ WaitInv /\ StartInv
        /\ ReadyIsBound /\ EndsOnce /\ OneWorkerPerKey /\ InstanceIsAccounted
    BY Types DEF IInv
  <1>2. TypeOK'
    BY ReleaseRunTyped DEF IInv
  <1>3. WaitInv' /\ StartInv' /\ ReadyIsBound' /\ EndsOnce' /\ OneWorkerPerKey'
    <2>1. /\ Cleared({r}) /\ active' = Dissociated({r})
          /\ UNCHANGED <<told, wait, sent, early, pool, res>>
      BY DEF ReleaseRun, launchVars
    <2>2. Shrinks({r}, {})
      BY <1>1, <2>1 DEF Shrinks, Cleared, Dissociated
    <2> QED BY <1>2, <2>2, ShrinksKeeps
  <1>4. ReleaseInv'
    <2>1. UNCHANGED <<rel, tomb, revoked>>
      BY DEF ReleaseRun, fenceVars
    <2>2. /\ \A q \in Runs : phase[q] = "none" => phase'[q] = "none"
          /\ \A v \in Runs : pool[v] = "out" => pool'[v] = "out"
      BY <1>1 DEF ReleaseRun, Cleared
    <2> QED BY <1>1, <2>1, <2>2, ReleasesKept
  <1>5. SubmitInv'
    BY <1>1 DEF SubmitInv, ReleaseRun, Cleared, Dissociated, runVars,
    poolVars, launchVars, ledgerVars, fenceVars, RunTypes, PoolTypes
  <1>6. LaunchInv'
    BY <1>1 DEF LaunchInv, ReleaseRun, Cleared, Dissociated, runVars,
    poolVars, launchVars, ledgerVars, fenceVars, PoolTypes, LaunchTypes
  <1>7. InstanceIsAccounted'
    BY <1>1 DEF InstanceIsAccounted, Launching, ReleaseRun, Cleared,
    Dissociated, runVars, poolVars, launchVars, ledgerVars, fenceVars,
    PoolTypes, LaunchTypes, LedgerTypes
  <1> QED BY <1>2, <1>3, <1>4, <1>5, <1>6, <1>7 DEF IInv

LEMMA ReleaseKeeps == ASSUME IInv, NEW c \in Calls, NEW t \in Targets, Release(c, t) PROVE IInv'
  <1>1. /\ RunTypes /\ PoolTypes /\ LaunchTypes /\ LedgerTypes /\ FenceTypes /\ RelTypes
        /\ ReleaseInv /\ SubmitInv /\ LaunchInv /\ WaitInv /\ StartInv
        /\ ReadyIsBound /\ EndsOnce /\ OneWorkerPerKey /\ InstanceIsAccounted
    BY Types DEF IInv
  <1>2. TypeOK'
    BY ReleaseTyped DEF IInv
  <1>3. ReleaseInv'
    <2>1. ASSUME NEW d \in Calls PROVE CallInv(d)'
      <3>1. CallInv(d)
        BY <1>1 DEF ReleaseInv
      <3>2. /\ rel[c].pc = "idle" /\ UNCHANGED <<phase, pool>>
            /\ rel' = [rel EXCEPT ![c] = [pc |-> "retry", target |-> t, on |-> NoRun,
                                  todo |-> {w \in Runs : led[w] # "none" /\ Matches(t, w)}]]
        BY DEF Release, runVars, poolVars
      <3>3. revoked \in Nat /\ revoked' \in Nat /\ revoked <= revoked' /\ tomb \subseteq tomb' /\ Fenced(t)'
        BY <1>1, TargetFacts, PlacementAssumption DEF Release, Fenced, FenceTypes
      <3>4. CASE d # c
        <4>1. rel'[d] = rel[d]
          BY <1>1, <3>2, <3>4 DEF RelTypes
        <4>2. rel[d].pc # "idle" => rel[d].target \in Targets /\ Fenced(rel[d].target)
          BY <3>1 DEF CallInv
        <4>3. rel[d].pc # "idle" => Fenced(rel[d].target)'
          <5>1. ASSUME rel[d].pc # "idle" PROVE Fenced(rel[d].target)'
            <6>1. rel[d].target.kind = "user" => rel[d].target.version \in Nat
              BY <4>2, <5>1, TargetFacts, PlacementAssumption
            <6> QED BY <3>3, <4>1, <4>2, <5>1, <6>1 DEF Fenced
          <5> QED BY <5>1
        <4> QED BY <3>1, <3>2, <4>1, <4>3 DEF CallInv, Covers, Removes, Targets, WorkspaceTarget, UserTarget
      <3>5. CASE d = c
        <4>1. rel'[c].pc = "retry" /\ rel'[c].target = t
          BY <1>1, <3>2 DEF RelTypes
        <4> QED BY <3>3, <3>5, <4>1 DEF CallInv, Fenced, Targets, WorkspaceTarget, UserTarget
      <3> QED BY <3>4, <3>5
    <2> QED BY <2>1 DEF ReleaseInv
  <1>4. SubmitInv'
    BY <1>1 DEF SubmitInv, Release, runVars, poolVars, launchVars,
    ledgerVars, fenceVars, RunTypes, PoolTypes
  <1>5. LaunchInv'
    BY <1>1 DEF LaunchInv, Release, runVars, poolVars, launchVars,
    ledgerVars, fenceVars, PoolTypes, LaunchTypes
  <1>6. WaitInv'
    BY <1>1 DEF WaitInv, Release, runVars, poolVars, launchVars, ledgerVars,
    fenceVars, RunTypes, PoolTypes, LaunchTypes
  <1>7. StartInv'
    BY <1>1 DEF StartInv, Release, runVars, poolVars, launchVars, ledgerVars,
    fenceVars, RunTypes
  <1>8. ReadyIsBound'
    BY <1>1 DEF ReadyIsBound, Release, runVars, poolVars, launchVars,
    ledgerVars, fenceVars, RunTypes, PoolTypes
  <1>9. EndsOnce'
    BY <1>1 DEF EndsOnce, Release, runVars, poolVars, launchVars, ledgerVars,
    fenceVars, RunTypes
  <1>10. OneWorkerPerKey'
    BY <1>1 DEF OneWorkerPerKey, Release, runVars, poolVars, launchVars,
    ledgerVars, fenceVars, PoolTypes
  <1>11. InstanceIsAccounted'
    BY <1>1 DEF InstanceIsAccounted, Launching, Release, runVars, poolVars,
    launchVars, ledgerVars, fenceVars, PoolTypes, LaunchTypes, LedgerTypes
  <1> QED BY <1>2, <1>3, <1>4, <1>5, <1>6, <1>7, <1>8, <1>9, <1>10, <1>11 DEF IInv

LEMMA ProvisionedKeeps == ASSUME IInv, NEW w \in Runs, Provisioned(w) PROVE IInv'
  <1>1. /\ RunTypes /\ PoolTypes /\ LaunchTypes /\ LedgerTypes /\ FenceTypes /\ RelTypes
        /\ ReleaseInv /\ SubmitInv /\ LaunchInv /\ WaitInv /\ StartInv
        /\ ReadyIsBound /\ EndsOnce /\ OneWorkerPerKey /\ InstanceIsAccounted
    BY Types DEF IInv
  <1>2. TypeOK'
    BY ProvisionedTyped DEF IInv
  <1>3. ReleaseInv'
    BY <1>1 DEF ReleaseInv, CallInv, Fenced, Provisioned, Cleanup, Or,
    runVars, poolVars, launchVars, ledgerVars, fenceVars, RunTypes,
    PoolTypes, RelTypes
  <1>4. SubmitInv'
    BY <1>1 DEF SubmitInv, Provisioned, Cleanup, Or, runVars, poolVars,
    launchVars, ledgerVars, fenceVars, RunTypes, PoolTypes
  <1>5. LaunchInv'
    BY <1>1 DEF LaunchInv, Provisioned, Cleanup, Or, runVars, poolVars,
    launchVars, ledgerVars, fenceVars, PoolTypes, LaunchTypes
  <1>6. WaitInv'
    BY <1>1 DEF WaitInv, Provisioned, Cleanup, Or, runVars, poolVars,
    launchVars, ledgerVars, fenceVars, RunTypes, PoolTypes, LaunchTypes
  <1>7. StartInv'
    BY <1>1 DEF StartInv, Provisioned, Cleanup, Or, runVars, poolVars,
    launchVars, ledgerVars, fenceVars, RunTypes
  <1>8. ReadyIsBound'
    BY <1>1 DEF ReadyIsBound, Provisioned, Cleanup, Or, runVars, poolVars,
    launchVars, ledgerVars, fenceVars, RunTypes, PoolTypes
  <1>9. EndsOnce'
    BY <1>1 DEF EndsOnce, Provisioned, Cleanup, Or, runVars, poolVars,
    launchVars, ledgerVars, fenceVars, RunTypes
  <1>10. OneWorkerPerKey'
    BY <1>1 DEF OneWorkerPerKey, Provisioned, Cleanup, Or, runVars, poolVars,
    launchVars, ledgerVars, fenceVars, PoolTypes
  <1>11. InstanceIsAccounted'
    <2>1. started[w] = "pending" /\ UNCHANGED <<pool, acq>>
          /\ \A v \in Runs : v # w => inst'[v] = inst[v] /\ (led'[v] = led[v] \/ led'[v] = "running")
      BY <1>1 DEF Provisioned, poolVars, ledgerVars, Cleanup, LaunchTypes
    <2>2. acq[w] = "start"
      BY <1>1, <2>1 DEF LaunchInv
    <2> QED BY <1>1, <2>1, <2>2 DEF InstanceIsAccounted, Launching
  <1> QED BY <1>2, <1>3, <1>4, <1>5, <1>6, <1>7, <1>8, <1>9, <1>10, <1>11 DEF IInv

LEMMA StartedKeeps == ASSUME IInv, NEW w \in Runs, Started(w) PROVE IInv'
  <1>1. /\ RunTypes /\ PoolTypes /\ LaunchTypes /\ LedgerTypes /\ FenceTypes /\ RelTypes
        /\ ReleaseInv /\ SubmitInv /\ LaunchInv /\ WaitInv /\ StartInv
        /\ ReadyIsBound /\ EndsOnce /\ OneWorkerPerKey /\ InstanceIsAccounted
    BY Types DEF IInv
  <1>2. TypeOK'
    BY StartedTyped DEF IInv
  <1>3. ReleaseInv'
    BY <1>1 DEF ReleaseInv, CallInv, Fenced, Started, runVars, poolVars,
    launchVars, ledgerVars, fenceVars, RunTypes, PoolTypes, RelTypes
  <1>4. SubmitInv'
    BY <1>1 DEF SubmitInv, Started, runVars, poolVars, launchVars,
    ledgerVars, fenceVars, RunTypes, PoolTypes
  <1>5. LaunchInv'
    BY <1>1 DEF LaunchInv, Started, runVars, poolVars, launchVars,
    ledgerVars, fenceVars, PoolTypes, LaunchTypes
  <1>6. WaitInv'
    BY <1>1 DEF WaitInv, Started, runVars, poolVars, launchVars, ledgerVars,
    fenceVars, RunTypes, PoolTypes, LaunchTypes
  <1>7. StartInv'
    BY <1>1 DEF StartInv, Started, runVars, poolVars, launchVars, ledgerVars,
    fenceVars, RunTypes
  <1>8. ReadyIsBound'
    BY <1>1 DEF ReadyIsBound, Started, runVars, poolVars, launchVars,
    ledgerVars, fenceVars, RunTypes, PoolTypes
  <1>9. EndsOnce'
    BY <1>1 DEF EndsOnce, Started, runVars, poolVars, launchVars, ledgerVars,
    fenceVars, RunTypes
  <1>10. OneWorkerPerKey'
    BY <1>1 DEF OneWorkerPerKey, Started, runVars, poolVars, launchVars,
    ledgerVars, fenceVars, PoolTypes
  <1>11. InstanceIsAccounted'
    <2>1. started[w] = "pending" /\ UNCHANGED <<pool, acq>>
          /\ \A v \in Runs : v # w => inst'[v] = inst[v] /\ (led'[v] = led[v] \/ led'[v] = "running")
      BY <1>1 DEF Started, poolVars, ledgerVars, Cleanup, LaunchTypes
    <2>2. acq[w] = "start"
      BY <1>1, <2>1 DEF LaunchInv
    <2> QED BY <1>1, <2>1, <2>2 DEF InstanceIsAccounted, Launching
  <1> QED BY <1>2, <1>3, <1>4, <1>5, <1>6, <1>7, <1>8, <1>9, <1>10, <1>11 DEF IInv

LEMMA StartFailedKeeps == ASSUME IInv, NEW w \in Runs, StartFailed(w) PROVE IInv'
  <1>1. /\ RunTypes /\ PoolTypes /\ LaunchTypes /\ LedgerTypes /\ FenceTypes /\ RelTypes
        /\ ReleaseInv /\ SubmitInv /\ LaunchInv /\ WaitInv /\ StartInv
        /\ ReadyIsBound /\ EndsOnce /\ OneWorkerPerKey /\ InstanceIsAccounted
    BY Types DEF IInv
  <1>2. TypeOK'
    BY StartFailedTyped DEF IInv
  <1>3. ReleaseInv'
    BY <1>1 DEF ReleaseInv, CallInv, Fenced, StartFailed, runVars, poolVars,
    launchVars, ledgerVars, fenceVars, RunTypes, PoolTypes, RelTypes
  <1>4. SubmitInv'
    BY <1>1 DEF SubmitInv, StartFailed, runVars, poolVars, launchVars,
    ledgerVars, fenceVars, RunTypes, PoolTypes
  <1>5. LaunchInv'
    BY <1>1 DEF LaunchInv, StartFailed, runVars, poolVars, launchVars,
    ledgerVars, fenceVars, PoolTypes, LaunchTypes
  <1>6. WaitInv'
    BY <1>1 DEF WaitInv, StartFailed, runVars, poolVars, launchVars,
    ledgerVars, fenceVars, RunTypes, PoolTypes, LaunchTypes
  <1>7. StartInv'
    BY <1>1 DEF StartInv, StartFailed, runVars, poolVars, launchVars,
    ledgerVars, fenceVars, RunTypes
  <1>8. ReadyIsBound'
    BY <1>1 DEF ReadyIsBound, StartFailed, runVars, poolVars, launchVars,
    ledgerVars, fenceVars, RunTypes, PoolTypes
  <1>9. EndsOnce'
    BY <1>1 DEF EndsOnce, StartFailed, runVars, poolVars, launchVars,
    ledgerVars, fenceVars, RunTypes
  <1>10. OneWorkerPerKey'
    BY <1>1 DEF OneWorkerPerKey, StartFailed, runVars, poolVars, launchVars,
    ledgerVars, fenceVars, PoolTypes
  <1>11. InstanceIsAccounted'
    BY <1>1 DEF InstanceIsAccounted, Launching, StartFailed, runVars,
    poolVars, launchVars, ledgerVars, fenceVars, PoolTypes, LaunchTypes,
    LedgerTypes
  <1> QED BY <1>2, <1>3, <1>4, <1>5, <1>6, <1>7, <1>8, <1>9, <1>10, <1>11 DEF IInv

LEMMA RegisteredKeeps == ASSUME IInv, NEW w \in Runs, Registered(w) PROVE IInv'
  <1>1. /\ RunTypes /\ PoolTypes /\ LaunchTypes /\ LedgerTypes /\ FenceTypes /\ RelTypes
        /\ ReleaseInv /\ SubmitInv /\ LaunchInv /\ WaitInv /\ StartInv
        /\ ReadyIsBound /\ EndsOnce /\ OneWorkerPerKey /\ InstanceIsAccounted
    BY Types DEF IInv
  <1>2. TypeOK'
    BY RegisteredTyped DEF IInv
  <1>3. ReleaseInv'
    BY <1>1 DEF ReleaseInv, CallInv, Fenced, Registered, runVars, poolVars,
    launchVars, ledgerVars, fenceVars, RunTypes, PoolTypes, RelTypes
  <1>4. SubmitInv'
    BY <1>1 DEF SubmitInv, Registered, runVars, poolVars, launchVars,
    ledgerVars, fenceVars, RunTypes, PoolTypes
  <1>5. LaunchInv'
    BY <1>1 DEF LaunchInv, Registered, runVars, poolVars, launchVars,
    ledgerVars, fenceVars, PoolTypes, LaunchTypes
  <1>6. WaitInv'
    BY <1>1 DEF WaitInv, Registered, runVars, poolVars, launchVars,
    ledgerVars, fenceVars, RunTypes, PoolTypes, LaunchTypes
  <1>7. StartInv'
    BY <1>1 DEF StartInv, Registered, runVars, poolVars, launchVars,
    ledgerVars, fenceVars, RunTypes
  <1>8. ReadyIsBound'
    BY <1>1 DEF ReadyIsBound, Registered, runVars, poolVars, launchVars,
    ledgerVars, fenceVars, RunTypes, PoolTypes
  <1>9. EndsOnce'
    BY <1>1 DEF EndsOnce, Registered, runVars, poolVars, launchVars,
    ledgerVars, fenceVars, RunTypes
  <1>10. OneWorkerPerKey'
    BY <1>1 DEF OneWorkerPerKey, Registered, runVars, poolVars, launchVars,
    ledgerVars, fenceVars, PoolTypes
  <1>11. InstanceIsAccounted'
    BY <1>1 DEF InstanceIsAccounted, Launching, Registered, runVars,
    poolVars, launchVars, ledgerVars, fenceVars, PoolTypes, LaunchTypes,
    LedgerTypes
  <1> QED BY <1>2, <1>3, <1>4, <1>5, <1>6, <1>7, <1>8, <1>9, <1>10, <1>11 DEF IInv

LEMMA TimedOutKeeps == ASSUME IInv, NEW w \in Runs, TimedOut(w) PROVE IInv'
  <1>1. /\ RunTypes /\ PoolTypes /\ LaunchTypes /\ LedgerTypes /\ FenceTypes /\ RelTypes
        /\ ReleaseInv /\ SubmitInv /\ LaunchInv /\ WaitInv /\ StartInv
        /\ ReadyIsBound /\ EndsOnce /\ OneWorkerPerKey /\ InstanceIsAccounted
    BY Types DEF IInv
  <1>2. TypeOK'
    BY TimedOutTyped DEF IInv
  <1>3. WaitInv' /\ StartInv' /\ ReadyIsBound' /\ EndsOnce' /\ OneWorkerPerKey'
    <2>1. /\ Launching(w) /\ ~off[w] /\ CancelAttempts({w}, NoTarget)
          /\ UNCHANGED <<phase, cancelled, bound, told, wait, sent, early, active>>
      BY DEF TimedOut, runVars
    <2>2. /\ \A v \in Runs : pool'[v] = IF v = w THEN "out" ELSE pool[v]
          /\ \A v \in Runs : res'[v] = "resolved" => res[v] = "resolved"
      BY <2>1 DEF CancelAttempts, Evicted
    <2>3. pool[w] # "ready" /\ res[w] # "resolved"
      BY <1>1, <2>1 DEF LaunchInv, Launching
    <2>4. active[w] = {}
      BY <1>1, <2>3 DEF ReadyIsBound, PoolTypes
    <2>5. Shrinks({}, {w})
      BY <1>1, <2>1, <2>2, <2>3, <2>4 DEF Shrinks, PoolTypes
    <2> QED BY <1>2, <2>5, ShrinksKeeps
  <1>4. ReleaseInv'
    <2>1. UNCHANGED <<rel, tomb, revoked>>
      BY DEF TimedOut, fenceVars
    <2>2. /\ \A q \in Runs : phase[q] = "none" => phase'[q] = "none"
          /\ \A v \in Runs : pool[v] = "out" => pool'[v] = "out"
      BY <1>1 DEF TimedOut, CancelAttempts, Evicted, runVars
    <2> QED BY <1>1, <2>1, <2>2, ReleasesKept
  <1>5. SubmitInv'
    BY <1>1 DEF SubmitInv, TimedOut, CancelAttempts, Evicted, Cleanup,
    Launching, Or, runVars, poolVars, launchVars, ledgerVars, fenceVars,
    RunTypes, PoolTypes
  <1>6. LaunchInv'
    BY <1>1 DEF LaunchInv, TimedOut, CancelAttempts, Evicted, Cleanup,
    Launching, Or, runVars, poolVars, launchVars, ledgerVars, fenceVars,
    PoolTypes, LaunchTypes
  <1>7. InstanceIsAccounted'
    BY <1>1 DEF InstanceIsAccounted, Launching, TimedOut, CancelAttempts,
    Evicted, Cleanup, Or, runVars, poolVars, launchVars, ledgerVars,
    fenceVars, PoolTypes, LaunchTypes, LedgerTypes
  <1> QED BY <1>2, <1>3, <1>4, <1>5, <1>6, <1>7 DEF IInv

LEMMA ExitedKeeps == ASSUME IInv, NEW w \in Runs, Exited(w) PROVE IInv'
  <1>1. /\ RunTypes /\ PoolTypes /\ LaunchTypes /\ LedgerTypes /\ FenceTypes /\ RelTypes
        /\ ReleaseInv /\ SubmitInv /\ LaunchInv /\ WaitInv /\ StartInv
        /\ ReadyIsBound /\ EndsOnce /\ OneWorkerPerKey /\ InstanceIsAccounted
    BY Types DEF IInv
  <1>2. TypeOK'
    BY ExitedTyped DEF IInv
  <1>3. /\ ReleaseInv' /\ SubmitInv' /\ LaunchInv' /\ WaitInv' /\ StartInv'
        /\ ReadyIsBound' /\ EndsOnce' /\ OneWorkerPerKey' /\ InstanceIsAccounted'
    <2>1. inst' = [inst EXCEPT ![w] = "gone"] /\ UNCHANGED <<rel, tomb, revoked>>
      BY DEF Exited, fenceVars
    <2>2. CASE pool[w] = "out"
      <3>1. UNCHANGED <<runVars, poolVars, acq, started, known, res, led>>
        BY <2>2 DEF Exited, ledgerVars
      <3>2. ReleaseInv' /\ SubmitInv' /\ WaitInv' /\ StartInv' /\ ReadyIsBound' /\ EndsOnce'
            /\ OneWorkerPerKey'
        BY <1>1, <2>1, <3>1
           DEF ReleaseInv, CallInv, Fenced, SubmitInv, WaitInv, StartInv, ReadyIsBound, EndsOnce,
               OneWorkerPerKey, runVars, poolVars
      <3>3. LaunchInv' /\ InstanceIsAccounted'
        BY <1>1, <2>1, <3>1 DEF LaunchInv, InstanceIsAccounted, Launching, LaunchTypes, poolVars
      <3> QED BY <3>2, <3>3
    <2>3. CASE pool[w] # "out"
      <3>1. RemoveWorker(w, "exited", NoTarget)
        BY <2>3 DEF Exited
      <3>2. \A r \in Runs : ~(wait[r] = w /\ res[w] = "resolved")
        BY <1>1, PlacementAssumption DEF Exited, Quiet
      <3>3. inst'[w] # "live" /\ \A v \in Runs : inst'[v] = "live" => inst[v] = "live"
        BY <1>1, <2>1 DEF LaunchTypes
      <3>4. /\ SubmitInv' /\ LaunchInv' /\ WaitInv' /\ StartInv'
            /\ ReadyIsBound' /\ EndsOnce' /\ OneWorkerPerKey' /\ InstanceIsAccounted'
            /\ \A r \in Runs : phase'[r] = phase[r] \/ phase'[r] = "none"
            /\ \A v \in Runs : pool'[v] = IF v = w THEN "out" ELSE pool[v]
        BY <1>2, <3>1, <3>2, <3>3, RemoveWorkerKeeps
      <3> QED BY <1>1, <2>1, <3>4, ReleasesKept
    <2> QED BY <2>2, <2>3
  <1> QED BY <1>2, <1>3 DEF IInv

LEMMA StoppedKeeps == ASSUME IInv, NEW w \in Runs, Stopped(w) PROVE IInv'
  <1>1. /\ RunTypes /\ PoolTypes /\ LaunchTypes /\ LedgerTypes /\ FenceTypes /\ RelTypes
        /\ ReleaseInv /\ SubmitInv /\ LaunchInv /\ WaitInv /\ StartInv
        /\ ReadyIsBound /\ EndsOnce /\ OneWorkerPerKey /\ InstanceIsAccounted
    BY Types DEF IInv
  <1>2. TypeOK'
    BY StoppedTyped DEF IInv
  <1>3. /\ ReleaseInv' /\ SubmitInv' /\ LaunchInv' /\ WaitInv' /\ StartInv'
        /\ ReadyIsBound' /\ EndsOnce' /\ OneWorkerPerKey' /\ InstanceIsAccounted'
    <2>1. RemoveWorker(w, "release", NoTarget) /\ UNCHANGED <<inst, rel, tomb, revoked>>
      BY DEF Stopped, fenceVars
    <2>2. \A r \in Runs : ~(wait[r] = w /\ res[w] = "resolved")
      BY <1>1, PlacementAssumption DEF Stopped, Quiet
    <2>3. /\ SubmitInv' /\ LaunchInv' /\ WaitInv' /\ StartInv'
          /\ ReadyIsBound' /\ EndsOnce' /\ OneWorkerPerKey' /\ InstanceIsAccounted'
          /\ \A r \in Runs : phase'[r] = phase[r] \/ phase'[r] = "none"
          /\ \A v \in Runs : pool'[v] = IF v = w THEN "out" ELSE pool[v]
      BY <1>2, <2>1, <2>2, RemoveWorkerKeeps
    <2> QED BY <1>1, <2>1, <2>3, ReleasesKept
  <1> QED BY <1>2, <1>3 DEF IInv

LEMMA RetryCleanupOnlyKeeps == ASSUME IInv, NEW w \in Runs, RetryCleanupOnly(w) PROVE IInv'
  <1>1. /\ RunTypes /\ PoolTypes /\ LaunchTypes /\ LedgerTypes /\ FenceTypes /\ RelTypes
        /\ ReleaseInv /\ SubmitInv /\ LaunchInv /\ WaitInv /\ StartInv
        /\ ReadyIsBound /\ EndsOnce /\ OneWorkerPerKey /\ InstanceIsAccounted
    BY Types DEF IInv
  <1>2. TypeOK'
    BY RetryCleanupOnlyTyped DEF IInv
  <1>3. ReleaseInv'
    BY <1>1 DEF ReleaseInv, CallInv, Fenced, RetryCleanupOnly, runVars,
    poolVars, launchVars, ledgerVars, fenceVars, RunTypes, PoolTypes,
    RelTypes
  <1>4. SubmitInv'
    BY <1>1 DEF SubmitInv, RetryCleanupOnly, runVars, poolVars, launchVars,
    ledgerVars, fenceVars, RunTypes, PoolTypes
  <1>5. LaunchInv'
    BY <1>1 DEF LaunchInv, RetryCleanupOnly, runVars, poolVars, launchVars,
    ledgerVars, fenceVars, PoolTypes, LaunchTypes
  <1>6. WaitInv'
    BY <1>1 DEF WaitInv, RetryCleanupOnly, runVars, poolVars, launchVars,
    ledgerVars, fenceVars, RunTypes, PoolTypes, LaunchTypes
  <1>7. StartInv'
    BY <1>1 DEF StartInv, RetryCleanupOnly, runVars, poolVars, launchVars,
    ledgerVars, fenceVars, RunTypes
  <1>8. ReadyIsBound'
    BY <1>1 DEF ReadyIsBound, RetryCleanupOnly, runVars, poolVars,
    launchVars, ledgerVars, fenceVars, RunTypes, PoolTypes
  <1>9. EndsOnce'
    BY <1>1 DEF EndsOnce, RetryCleanupOnly, runVars, poolVars, launchVars,
    ledgerVars, fenceVars, RunTypes
  <1>10. OneWorkerPerKey'
    BY <1>1 DEF OneWorkerPerKey, RetryCleanupOnly, runVars, poolVars,
    launchVars, ledgerVars, fenceVars, PoolTypes
  <1>11. InstanceIsAccounted'
    BY <1>1 DEF InstanceIsAccounted, Launching, RetryCleanupOnly, runVars,
    poolVars, launchVars, ledgerVars, fenceVars, PoolTypes, LaunchTypes,
    LedgerTypes
  <1> QED BY <1>2, <1>3, <1>4, <1>5, <1>6, <1>7, <1>8, <1>9, <1>10, <1>11 DEF IInv

LEMMA CleanupDoneKeeps == ASSUME IInv, NEW w \in Runs, CleanupDone(w) PROVE IInv'
  <1>1. /\ RunTypes /\ PoolTypes /\ LaunchTypes /\ LedgerTypes /\ FenceTypes /\ RelTypes
        /\ ReleaseInv /\ SubmitInv /\ LaunchInv /\ WaitInv /\ StartInv
        /\ ReadyIsBound /\ EndsOnce /\ OneWorkerPerKey /\ InstanceIsAccounted
    BY Types DEF IInv
  <1>2. TypeOK'
    BY CleanupDoneTyped DEF IInv
  <1>3. ReleaseInv'
    BY <1>1 DEF ReleaseInv, CallInv, Fenced, CleanupDone, RolledBack,
    Settled, runVars, poolVars, launchVars, ledgerVars, fenceVars, RunTypes,
    PoolTypes, RelTypes
  <1>4. SubmitInv'
    BY <1>1 DEF SubmitInv, CleanupDone, RolledBack, Settled, runVars,
    poolVars, launchVars, ledgerVars, fenceVars, RunTypes, PoolTypes
  <1>5. LaunchInv'
    BY <1>1 DEF LaunchInv, CleanupDone, RolledBack, Settled, runVars,
    poolVars, launchVars, ledgerVars, fenceVars, PoolTypes, LaunchTypes
  <1>6. WaitInv'
    BY <1>1 DEF WaitInv, CleanupDone, RolledBack, Settled, runVars, poolVars,
    launchVars, ledgerVars, fenceVars, RunTypes, PoolTypes, LaunchTypes
  <1>7. StartInv'
    BY <1>1 DEF StartInv, CleanupDone, RolledBack, Settled, runVars,
    poolVars, launchVars, ledgerVars, fenceVars, RunTypes
  <1>8. ReadyIsBound'
    BY <1>1 DEF ReadyIsBound, CleanupDone, RolledBack, Settled, runVars,
    poolVars, launchVars, ledgerVars, fenceVars, RunTypes, PoolTypes
  <1>9. EndsOnce'
    BY <1>1 DEF EndsOnce, CleanupDone, RolledBack, Settled, runVars,
    poolVars, launchVars, ledgerVars, fenceVars, RunTypes
  <1>10. OneWorkerPerKey'
    BY <1>1 DEF OneWorkerPerKey, CleanupDone, RolledBack, Settled, runVars,
    poolVars, launchVars, ledgerVars, fenceVars, PoolTypes
  <1>11. InstanceIsAccounted'
    BY <1>1 DEF InstanceIsAccounted, Launching, CleanupDone, RolledBack,
    Settled, runVars, poolVars, launchVars, ledgerVars, fenceVars, PoolTypes,
    LaunchTypes, LedgerTypes
  <1> QED BY <1>2, <1>3, <1>4, <1>5, <1>6, <1>7, <1>8, <1>9, <1>10, <1>11 DEF IInv

LEMMA CleanupFailedKeeps == ASSUME IInv, NEW w \in Runs, CleanupFailed(w) PROVE IInv'
  <1>1. /\ RunTypes /\ PoolTypes /\ LaunchTypes /\ LedgerTypes /\ FenceTypes /\ RelTypes
        /\ ReleaseInv /\ SubmitInv /\ LaunchInv /\ WaitInv /\ StartInv
        /\ ReadyIsBound /\ EndsOnce /\ OneWorkerPerKey /\ InstanceIsAccounted
    BY Types DEF IInv
  <1>2. TypeOK'
    BY CleanupFailedTyped DEF IInv
  <1>3. ReleaseInv'
    <2>1. ASSUME NEW d \in Calls PROVE CallInv(d)'
      <3>1. CallInv(d)
        BY <1>1 DEF ReleaseInv
      <3>2. /\ UNCHANGED <<tomb, revoked, phase, pool>>
            /\ rel' = [c \in Calls |-> IF rel[c].on = w
                        THEN [rel[c] EXCEPT !.pc = "failed", !.on = NoRun, !.todo = {}] ELSE rel[c]]
        BY DEF CleanupFailed, fenceVars, runVars, poolVars
      <3>3. CASE rel[d].on = w /\ rel[d].pc # "idle"
        <4>1. rel'[d].pc = "failed" /\ rel'[d].target = rel[d].target /\ rel'[d].todo = {}
          BY <1>1, <3>2, <3>3 DEF RelTypes
        <4>2. rel[d].target \in Targets /\ Fenced(rel[d].target)
          BY <3>1, <3>3 DEF CallInv
        <4>3. (rel[d].target \in Targets)'
          BY <4>1, <4>2, TargetsFixed
        <4>4. tomb' = tomb /\ revoked' = revoked
          BY <3>2
        <4>5. Fenced(rel[d].target)'
          BY <4>1, <4>2, <4>4 DEF Fenced
        <4> QED BY <4>1, <4>3, <4>5 DEF CallInv
      <3>4. rel[d].pc = "idle" => rel[d].on # w
        BY <3>1, PlacementAssumption DEF CallInv
      <3>5. CASE rel[d].on # w
        <4>1. rel'[d] = rel[d]
          BY <1>1, <3>2, <3>5 DEF RelTypes
        <4> QED BY <3>1, <3>2, <4>1, CallKept
      <3> QED BY <3>3, <3>4, <3>5
    <2> QED BY <2>1 DEF ReleaseInv
  <1>4. SubmitInv'
    <2>1. /\ UNCHANGED <<call, phase, cancelled, bound, wait, told, sent, early, pool, active, inst, known>>
          /\ RolledBack(w, "broken")
      BY DEF CleanupFailed, runVars, poolVars
    <2>2. \A v \in Runs : /\ acq'[v] = acq[v] \/ (acq[v] = "cleanup" /\ acq'[v] = "broken")
                          /\ res'[v] = "resolved" => res[v] = "resolved"
                          /\ started'[v] = "pending" => started[v] = "pending"
      <3>1. CASE acq[w] = "cleanup"
        <4>1. /\ acq' = [acq EXCEPT ![w] = "broken"] /\ res' = [res EXCEPT ![w] = "rejected"]
              /\ Settled({w})
          BY <2>1, <3>1 DEF RolledBack
        <4> QED BY <1>1, <3>1, <4>1 DEF Settled, PoolTypes, LaunchTypes
      <3>2. CASE acq[w] # "cleanup"
        BY <2>1, <3>2 DEF RolledBack
      <3> QED BY <3>1, <3>2
    <2> QED BY <1>1, <2>1, <2>2 DEF SubmitInv
  <1>5. LaunchInv'
    <2>1. /\ UNCHANGED <<call, phase, cancelled, bound, wait, told, sent, early, pool, active, inst, known>>
          /\ RolledBack(w, "broken")
      BY DEF CleanupFailed, runVars, poolVars
    <2>2. \A v \in Runs : /\ acq'[v] = acq[v] \/ (acq[v] = "cleanup" /\ acq'[v] = "broken")
                          /\ res'[v] = "resolved" => res[v] = "resolved"
                          /\ started'[v] = "pending" => started[v] = "pending"
      <3>1. CASE acq[w] = "cleanup"
        <4>1. /\ acq' = [acq EXCEPT ![w] = "broken"] /\ res' = [res EXCEPT ![w] = "rejected"]
              /\ Settled({w})
          BY <2>1, <3>1 DEF RolledBack
        <4> QED BY <1>1, <3>1, <4>1 DEF Settled, PoolTypes, LaunchTypes
      <3>2. CASE acq[w] # "cleanup"
        BY <2>1, <3>2 DEF RolledBack
      <3> QED BY <3>1, <3>2
    <2> QED BY <1>1, <2>1, <2>2 DEF LaunchInv
  <1>6. WaitInv'
    <2>1. /\ UNCHANGED <<call, phase, cancelled, bound, wait, told, sent, early, pool, active, inst, known>>
          /\ RolledBack(w, "broken")
      BY DEF CleanupFailed, runVars, poolVars
    <2>2. \A v \in Runs : /\ acq'[v] = acq[v] \/ (acq[v] = "cleanup" /\ acq'[v] = "broken")
                          /\ res'[v] = "resolved" => res[v] = "resolved"
                          /\ started'[v] = "pending" => started[v] = "pending"
      <3>1. CASE acq[w] = "cleanup"
        <4>1. /\ acq' = [acq EXCEPT ![w] = "broken"] /\ res' = [res EXCEPT ![w] = "rejected"]
              /\ Settled({w})
          BY <2>1, <3>1 DEF RolledBack
        <4> QED BY <1>1, <3>1, <4>1 DEF Settled, PoolTypes, LaunchTypes
      <3>2. CASE acq[w] # "cleanup"
        BY <2>1, <3>2 DEF RolledBack
      <3> QED BY <3>1, <3>2
    <2> QED BY <1>1, <2>1, <2>2 DEF WaitInv, RunTypes
  <1>7. StartInv'
    BY <1>1 DEF StartInv, CleanupFailed, RolledBack, Settled, runVars,
    poolVars, launchVars, ledgerVars, fenceVars, RunTypes
  <1>8. ReadyIsBound'
    BY <1>1 DEF ReadyIsBound, CleanupFailed, RolledBack, Settled, runVars,
    poolVars, launchVars, ledgerVars, fenceVars, RunTypes, PoolTypes
  <1>9. EndsOnce'
    BY <1>1 DEF EndsOnce, CleanupFailed, RolledBack, Settled, runVars,
    poolVars, launchVars, ledgerVars, fenceVars, RunTypes
  <1>10. OneWorkerPerKey'
    BY <1>1 DEF OneWorkerPerKey, CleanupFailed, RolledBack, Settled, runVars,
    poolVars, launchVars, ledgerVars, fenceVars, PoolTypes
  <1>11. InstanceIsAccounted'
    BY ZenonT(60), <1>1 DEF InstanceIsAccounted, Launching, CleanupFailed, RolledBack,
    Settled, runVars, poolVars, launchVars, ledgerVars, fenceVars, PoolTypes,
    LaunchTypes, LedgerTypes
  <1> QED BY <1>2, <1>3, <1>4, <1>5, <1>6, <1>7, <1>8, <1>9, <1>10, <1>11 DEF IInv

-----------------------------------------------------------------------------
(* The invariant holds initially, every step keeps it, and it implies the  *)
(* properties.                                                             *)

LEMMA InitHolds == Init => IInv
  <1> SUFFICES ASSUME Init PROVE IInv
    OBVIOUS
  <1>1. TypeOK
    BY PlacementAssumption DEF Init, TypeOK, IdleCall
  <1>2. ReleaseInv
    BY DEF Init, ReleaseInv, CallInv, IdleCall
  <1>3. SubmitInv
    BY DEF Init, SubmitInv
  <1>4. LaunchInv
    BY DEF Init, LaunchInv, Launching
  <1>5. WaitInv
    BY DEF Init, WaitInv
  <1>6. StartInv
    BY DEF Init, StartInv
  <1>7. ReadyIsBound /\ EndsOnce /\ OneWorkerPerKey /\ InstanceIsAccounted
    BY DEF Init, ReadyIsBound, EndsOnce, OneWorkerPerKey, InstanceIsAccounted
  <1> QED BY <1>1, <1>2, <1>3, <1>4, <1>5, <1>6, <1>7 DEF IInv

LEMMA StutterKeeps == ASSUME IInv, UNCHANGED vars PROVE IInv'
  <1>1. UNCHANGED <<call, phase, cancelled, bound, wait, told, sent, early, pool, active, acq,
                    acqSpaces, started, known, shake, off, res, why, inst, led, ledRel, tomb,
                    revoked, maxSeen, rel, mishaps>>
    BY DEF vars, runVars, poolVars, launchVars, ledgerVars, fenceVars
  <1>2. TypeOK'
    BY <1>1 DEF IInv, TypeOK, Targets, WorkspaceTarget, UserTarget, NoTarget
  <1>3. ReleaseInv' /\ SubmitInv' /\ LaunchInv' /\ WaitInv' /\ StartInv'
    <2>1. ReleaseInv'
      BY <1>1, TargetsFixed DEF IInv, ReleaseInv, CallInv, Fenced, Covers, Removes
    <2>2. SubmitInv'
      BY <1>1 DEF IInv, SubmitInv
    <2>3. LaunchInv'
      BY <1>1 DEF IInv, LaunchInv, Launching
    <2>4. WaitInv'
      BY <1>1 DEF IInv, WaitInv
    <2>5. StartInv'
      BY <1>1 DEF IInv, StartInv
    <2> QED BY <2>1, <2>2, <2>3, <2>4, <2>5
  <1>4. ReadyIsBound' /\ EndsOnce' /\ OneWorkerPerKey' /\ InstanceIsAccounted'
    BY <1>1 DEF IInv, ReadyIsBound, EndsOnce, OneWorkerPerKey, InstanceIsAccounted, Launching
  <1> QED BY <1>2, <1>3, <1>4 DEF IInv

LEMMA TurnKeeps == ASSUME IInv, Turn PROVE IInv'
  <1>1. CASE \E w \in Runs : LaunchStarted(w) \/ LaunchReady(w) \/ LaunchFails(w)
    BY <1>1, LaunchStartedKeeps, LaunchReadyKeeps, LaunchFailsKeeps
  <1>2. CASE \E r \in Runs : Acquired(r) \/ AcquireFailed(r)
    BY <1>2, AcquiredKeeps, AcquireFailedKeeps
  <1>3. CASE \E c \in Calls : \/ RetryNext(c) \/ ReleaseCancel(c) \/ ReleaseDrained(c)
                              \/ RemoveNext(c) \/ ReleaseDone(c)
    BY <1>3, RetryNextKeeps, ReleaseCancelKeeps, ReleaseDrainedKeeps, RemoveNextKeeps,
       ReleaseDoneKeeps
  <1> QED BY <1>1, <1>2, <1>3 DEF Turn

LEMMA NextKeeps == ASSUME IInv, [Next]_vars PROVE IInv'
  <1>1. CASE Turn
    BY <1>1, TurnKeeps
  <1>2. CASE \E r \in Runs : Submit(r) \/ Configured(r) \/ ConfigFailed(r) \/ Cancel(r) \/ ReleaseRun(r)
    BY <1>2, SubmitKeeps, ConfiguredKeeps, ConfigFailedKeeps, CancelKeeps, ReleaseRunKeeps
  <1>3. CASE \E c \in Calls, t \in Targets : Release(c, t)
    BY <1>3, ReleaseKeeps
  <1>4. CASE \E w \in Runs : Provisioned(w) \/ Started(w) \/ StartFailed(w) \/ Registered(w)
    BY <1>4, ProvisionedKeeps, StartedKeeps, StartFailedKeeps, RegisteredKeeps
  <1>5. CASE \E w \in Runs : TimedOut(w) \/ Exited(w) \/ Stopped(w)
    BY <1>5, TimedOutKeeps, ExitedKeeps, StoppedKeeps
  <1>6. CASE \E w \in Runs : RetryCleanupOnly(w) \/ CleanupDone(w) \/ CleanupFailed(w)
    BY <1>6, RetryCleanupOnlyKeeps, CleanupDoneKeeps, CleanupFailedKeeps
  <1>7. CASE UNCHANGED vars
    BY <1>7, StutterKeeps
  <1> QED BY <1>1, <1>2, <1>3, <1>4, <1>5, <1>6, <1>7 DEF Next

(* The inductive invariant holds of every behaviour of the Host.           *)
THEOREM HostInvariant == Spec => []IInv
  BY InitHolds, NextKeeps, PTL DEF Spec

(* Every variable of the Host keeps its type, whatever the runs, the       *)
(* workspaces and the releases.                                            *)
THEOREM HostTyped == Spec => []TypeOK
  <1>1. IInv => TypeOK
    BY DEF IInv
  <1> QED BY <1>1, HostInvariant, PTL

(* A provider instance that is alive is in the pool, in a launch that will *)
(* roll it back, or on record in the ledger.                               *)
THEOREM InstanceNeverLost == Spec => []InstanceIsAccounted
  <1>1. IInv => InstanceIsAccounted
    BY DEF IInv
  <1> QED BY <1>1, HostInvariant, PTL

(* Sessions and the pool's bookkeeping agree after every step.             *)
THEOREM SessionAndPoolAgree == Spec => []ReadyIsBound
  <1>1. IInv => ReadyIsBound
    BY DEF IInv
  <1> QED BY <1>1, HostInvariant, PTL

(* Of releases, failed launches, cancels and lost Workers at most one      *)
(* reports the end of a run.                                               *)
THEOREM EndReportedOnce == Spec => []EndsOnce
  <1>1. IInv => EndsOnce
    BY DEF IInv
  <1> QED BY <1>1, HostInvariant, PTL

(* No command is dispatched for a run that was cancelled before it had a   *)
(* Worker.                                                                 *)
THEOREM EarlyCancelHolds == Spec => []CancelledNeverStarts
  <1>1. IInv => CancelledNeverStarts
    BY DEF IInv, StartInv, CancelledNeverStarts
  <1> QED BY <1>1, HostInvariant, PTL

(* Runs that ask for a Worker of the same identity and generation share    *)
(* one, however their submissions interleave with failures and releases.   *)
THEOREM WorkerIsShared == Spec => []OneWorkerPerKey
  <1>1. IInv => OneWorkerPerKey
    BY DEF IInv
  <1> QED BY <1>1, HostInvariant, PTL

(* What releaseResources has reported as released stays released.          *)
THEOREM ReleaseIsFinal == Spec => []ReleasedStaysEmpty
  <1>1. IInv => ReleasedStaysEmpty
    BY DEF IInv, ReleaseInv, CallInv, ReleasedStaysEmpty
  <1> QED BY <1>1, HostInvariant, PTL
=============================================================================
