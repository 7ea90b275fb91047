------------------------- MODULE DefaultWebhookLease -------------------------
(***************************************************************************)
(* Which worker group consumes a default webhook shard                     *)
(* (moderation/default-webhook-lease-manager.service.ts, dynamic mode on,  *)
(* and the shutdown of runtime/runtime-worker-shutdown.ts).  One shard:    *)
(* its claim, handoff and heartbeat keys in Redis, and in every group a    *)
(* process with its BullMQ workers, the claim token it believes in, and    *)
(* one sync pass and one keepalive under way.                              *)
(*                                                                         *)
(* Time is abstract: keys expire, closes time out and cool down by actions *)
(* of their own.  A fencing token is compared for equality only, so INCR   *)
(* is a token that is in use nowhere.  The plan of module                  *)
(* DefaultWebhookLeasePlan is a choice here: who owns a shard whose owner  *)
(* is dead, or whether to move an idle shard, depends on the load of all   *)
(* shards.  A worker instance is a slot; closed slots are used again.      *)
(***************************************************************************)
EXTENDS Naturals, FiniteSets

CONSTANTS
  Groups,      \* DEFAULT_WEBHOOK_WORKER_GROUP_NAMES
  NoGroup,     \* no owner
  Home,        \* the home owner of the shard
  Slots,       \* worker instances of one group that may exist at once
  MaxMoves,    \* bound on plans that move the shard away from its owner
  FaultKinds,  \* the kinds of faults that happen
  MaxFaults    \* bound on their number

ASSUME GroupsAssumption ==
  /\ Home \in Groups /\ NoGroup \notin Groups /\ IsFiniteSet(Groups)
  /\ Slots \subseteq Nat \ {0} /\ IsFiniteSet(Slots)
  /\ MaxMoves \in Nat /\ MaxFaults \in Nat
  /\ FaultKinds \subseteq {"crash", "stop", "error", "timeout", "expiry"}

VARIABLES
  claim,        \* the lease key of the shard: owner and fencing token
  handoff,      \* the handoff key: the owner it names
  beat,         \* groups whose heartbeat key exists
  lapsed,       \* history: the last claim of a group ran out
  proc,         \* "up", "stopping" (stopWorkerAdmission was called) or "down"
  token,        \* localClaimFencingTokens
  renewal,      \* the token a keepalive is renewing
  workers,      \* workers: the slot in the map
  wst,          \* state of the worker in every slot
  closing,      \* closingWorkers: the slot closeWorker is waiting for
  late,         \* slots whose close timed out and is still awaited
  cool,         \* closeRetryNotBeforeMs: unset, in the future, or past
  pc,           \* where the sync pass stands
  seenClaim,    \* what the pass read
  seenHandoff,
  plan,         \* what the pass planned for the shard
  allowed,      \* the shard is in allowedWorkers
  moves, faults

redis == <<claim, handoff, beat, lapsed>>
bull == <<workers, wst, closing, late, cool>>
pass == <<pc, seenClaim, seenHandoff, plan, allowed>>
vars == <<redis, proc, token, renewal, bull, pass, moves, faults>>

None == 0
NoClaim == [owner |-> NoGroup, token |-> None]
Tokens == 1..(3 * Cardinality(Groups) + 1)
Steps == {"idle", "bootHandoffs", "bootClaim", "bootEnsure", "claims",
          "handoffs", "plan", "turn", "closeForHandoff", "handoff", "release",
          "claim", "ensure", "sweep", "closeInSweep"}
NoPlan == [desired |-> NoGroup, active |-> FALSE, homeAlive |-> FALSE]

TypeOK ==
  /\ claim \in [owner : Groups \cup {NoGroup}, token : Tokens \cup {None}]
  /\ handoff \in Groups \cup {NoGroup}
  /\ beat \subseteq Groups
  /\ lapsed \in [Groups -> BOOLEAN]
  /\ proc \in [Groups -> {"up", "stopping", "down"}]
  /\ token \in [Groups -> Tokens \cup {None}]
  /\ renewal \in [Groups -> Tokens \cup {None}]
  /\ workers \in [Groups -> Slots \cup {None}]
  /\ wst \in [Groups -> [Slots -> {"off", "running", "paused", "closing"}]]
  /\ closing \in [Groups -> Slots \cup {None}]
  /\ late \in [Groups -> SUBSET Slots]
  /\ cool \in [Groups -> {"unset", "cooling", "ready"}]
  /\ pc \in [Groups -> Steps]
  /\ seenClaim \in [Groups -> [owner : Groups \cup {NoGroup},
                               token : Tokens \cup {None}]]
  /\ seenHandoff \in [Groups -> Groups \cup {NoGroup}]
  /\ plan \in [Groups -> [desired : Groups \cup {NoGroup}, active : BOOLEAN,
                          homeAlive : BOOLEAN]]
  /\ allowed \in [Groups -> BOOLEAN]
  /\ moves \in 0..MaxMoves /\ faults \in 0..MaxFaults

Init ==
  /\ claim = NoClaim /\ handoff = NoGroup /\ beat = {}
  /\ lapsed = [g \in Groups |-> FALSE]
  /\ proc = [g \in Groups |-> "up"]
  /\ token = [g \in Groups |-> None]
  /\ renewal = [g \in Groups |-> None]
  /\ workers = [g \in Groups |-> None]
  /\ wst = [g \in Groups |-> [s \in Slots |-> "off"]]
  /\ closing = [g \in Groups |-> None]
  /\ late = [g \in Groups |-> {}]
  /\ cool = [g \in Groups |-> "unset"]
  /\ pc = [g \in Groups |-> "idle"]
  /\ seenClaim = [g \in Groups |-> NoClaim]
  /\ seenHandoff = [g \in Groups |-> NoGroup]
  /\ plan = [g \in Groups |-> NoPlan]
  /\ allowed = [g \in Groups |-> FALSE]
  /\ moves = 0 /\ faults = 0

Fault(kind) ==
  kind \in FaultKinds /\ faults < MaxFaults /\ faults' = faults + 1
Stopping(g) == proc[g] = "stopping"

\* The pass goes on at step p.  What it read is kept no longer than needed.
GoTo(g, p) == pc' = [pc EXCEPT ![g] = p]
Forget(g) ==
  /\ seenClaim' = [seenClaim EXCEPT ![g] = NoClaim]
  /\ seenHandoff' = [seenHandoff EXCEPT ![g] = NoGroup]
  /\ plan' = [plan EXCEPT ![g] = NoPlan]
PassEnds(g) ==
  GoTo(g, "idle") /\ Forget(g) /\ allowed' = [allowed EXCEPT ![g] = FALSE]
Sweep(g, keep) ==
  GoTo(g, "sweep") /\ Forget(g) /\ allowed' = [allowed EXCEPT ![g] = keep]

At(g, p) == proc[g] # "down" /\ pc[g] = p

------------------------------------------------------------------------------
(***************************************************************************)
(* The lease scripts.                                                      *)
(***************************************************************************)

\* INCR of the fence key.
FreshToken ==
  CHOOSE t \in Tokens :
    /\ t # claim.token
    /\ \A g \in Groups : t # token[g] /\ t # renewal[g] /\ t # seenClaim[g].token

\* CLAIM_DEFAULT_WEBHOOK_LEASE_SCRIPT: nobody else holds the shard.
Claimable(g) == claim.owner \in {NoGroup, g}

ClaimScript(g) ==
  /\ claim' = [owner |-> g, token |-> FreshToken]
  /\ lapsed' = [lapsed EXCEPT ![g] = FALSE]
  /\ UNCHANGED <<handoff, beat>>

\* RENEW and RELEASE compare owner and token.
Matches(g, t) == claim = [owner |-> g, token |-> t]

\* claimQueue: renew the token this process has, or claim anew.  The command
\* may reach Redis after the shutdown began, or not be sent because of it.
ClaimQueue(g, claimed) ==
  \/ Stopping(g) /\ ~claimed /\ UNCHANGED <<redis, token>>
  \/ /\ token[g] # None
     /\ claimed = Matches(g, token[g])
     /\ token' = IF claimed THEN token ELSE [token EXCEPT ![g] = None]
     /\ UNCHANGED redis
  \/ /\ token[g] = None /\ claimed = Claimable(g)
     /\ IF claimed
        THEN ClaimScript(g) /\ token' = [token EXCEPT ![g] = FreshToken]
        ELSE UNCHANGED <<redis, token>>

------------------------------------------------------------------------------
(***************************************************************************)
(* The BullMQ workers of a group.                                          *)
(***************************************************************************)

FreeSlots(g) ==
  {s \in Slots : wst[g][s] = "off" /\ s # workers[g] /\ s # closing[g]
                 /\ s \notin late[g]}

\* Fault variant: a pass that was under way creates a worker after the stop.
MayCreateAlways(g) == workers[g] = None

\* ensureWorkerRunning creates a worker only before the shutdown snapshot.
MayCreate(g) == ~Stopping(g) /\ workers[g] = None

\* shouldRecycleStaleWorker: there is a backlog, nothing is active, and the
\* worker does not run any more or its timed-out close may be retried.
Recyclable(g) ==
  /\ ~Stopping(g) /\ workers[g] # None /\ closing[g] = None
  /\ (wst[g][workers[g]] \in {"off", "closing"} \/ cool[g] = "ready")

Create(g, state) ==
  \E s \in FreeSlots(g) :
    /\ \A r \in FreeSlots(g) : s <= r
    /\ workers' = [workers EXCEPT ![g] = s]
    /\ wst' = [wst EXCEPT ![g] = [state EXCEPT ![s] = "running"]]
    /\ UNCHANGED <<closing, late>>

\* ensureWorkerRunning; mayRecycle says that counters were passed.
EnsureWorkerRunning(g, mayRecycle) ==
  \/ MayCreate(g) /\ Create(g, wst[g]) /\ UNCHANGED cool
  \/ /\ mayRecycle /\ Recyclable(g)
     /\ Create(g, [wst[g] EXCEPT ![workers[g]] = IF @ = "off" THEN @ ELSE "closing"])
     /\ cool' = [cool EXCEPT ![g] = "unset"]
  \/ ~MayCreate(g) /\ UNCHANGED bull

\* closeWorker starts unless the shutdown owns the workers, there is none, or
\* it is being closed already.
CloseStarts(g) == ~Stopping(g) /\ workers[g] # None /\ closing[g] = None

\* worker.close(): no new jobs from now on.  A cooldown that is over is
\* forgotten by isCloseRetryCoolingDown before.
StartClose(g) ==
  /\ closing' = [closing EXCEPT ![g] = workers[g]]
  /\ wst' = [wst EXCEPT ![g][workers[g]] = IF @ = "off" THEN @ ELSE "closing"]
  /\ cool' = [cool EXCEPT ![g] = "unset"]
  /\ UNCHANGED <<workers, late>>

\* The last job of a closing worker ends and close() resolves.
WorkerCloses(g, s) ==
  /\ wst[g][s] = "closing"
  /\ wst' = [wst EXCEPT ![g][s] = "off"]
  /\ UNCHANGED <<redis, proc, token, renewal, workers, closing, late, cool,
                 pass, moves, faults>>

\* Fault variant: the late close removes whatever worker is in the map now.
ForgetAnyWorker(g, s) ==
  /\ workers' = [workers EXCEPT ![g] = None]
  /\ cool' = [cool EXCEPT ![g] = "unset"]

\* Fault variant: a close that finished late is not noticed.
KeepClosedWorker(g, s) == UNCHANGED <<workers, cool>>

\* A close that finished after its timeout removes the worker only if it was
\* not replaced.
ForgetClosedWorker(g, s) ==
  IF workers[g] = s
  THEN /\ workers' = [workers EXCEPT ![g] = None]
       /\ cool' = [cool EXCEPT ![g] = "unset"]
  ELSE UNCHANGED <<workers, cool>>

LateClose(g, s) ==
  /\ s \in late[g] /\ wst[g][s] = "off"
  /\ late' = [late EXCEPT ![g] = @ \ {s}]
  /\ ForgetClosedWorker(g, s)
  /\ UNCHANGED <<redis, proc, token, renewal, wst, closing, pass, moves, faults>>

\* The retry time of a timed-out close is reached.
CooldownEnds(g) ==
  /\ cool[g] = "cooling"
  /\ cool' = [cool EXCEPT ![g] = "ready"]
  /\ UNCHANGED <<redis, proc, token, renewal, workers, wst, closing, late,
                 pass, moves, faults>>

------------------------------------------------------------------------------
(***************************************************************************)
(* The sync pass of a group.                                               *)
(***************************************************************************)

\* sync, bootstrapHomeClaims: the home owner reads the claim, then the handoff.
SyncStart(g) ==
  /\ proc[g] = "up" /\ pc[g] = "idle"
  /\ IF g = Home
     THEN GoTo(g, "bootHandoffs") /\ seenClaim' = [seenClaim EXCEPT ![g] = claim]
     ELSE GoTo(g, "claims") /\ UNCHANGED seenClaim
  /\ UNCHANGED <<redis, proc, token, renewal, bull, seenHandoff, plan,
                 allowed, moves, faults>>

\* Neither a claim nor a handoff: the home owner takes its shard.
BootMayClaim(g) == seenClaim[g] = NoClaim /\ handoff = NoGroup

BootHandoffs(g) ==
  /\ At(g, "bootHandoffs")
  /\ GoTo(g, IF BootMayClaim(g) /\ ~Stopping(g) THEN "bootClaim" ELSE "claims")
  /\ Forget(g)
  /\ UNCHANGED <<redis, proc, token, renewal, bull, allowed, moves, faults>>

BootClaim(g) ==
  /\ At(g, "bootClaim")
  /\ \E claimed \in BOOLEAN :
       ClaimQueue(g, claimed) /\ GoTo(g, IF claimed THEN "bootEnsure" ELSE "claims")
  /\ UNCHANGED <<proc, renewal, bull, seenClaim, seenHandoff, plan, allowed,
                 moves, faults>>

BootEnsure(g) ==
  /\ At(g, "bootEnsure")
  /\ EnsureWorkerRunning(g, FALSE)
  /\ GoTo(g, "claims")
  /\ UNCHANGED <<redis, proc, token, renewal, seenClaim, seenHandoff, plan,
                 allowed, moves, faults>>

\* applyDynamicPlan: loadClaims, then loadHandoffs.
ReadClaims(g) ==
  /\ At(g, "claims")
  /\ IF Stopping(g)
     THEN PassEnds(g)
     ELSE /\ GoTo(g, "handoffs")
          /\ seenClaim' = [seenClaim EXCEPT ![g] = claim]
          /\ UNCHANGED <<seenHandoff, plan, allowed>>
  /\ UNCHANGED <<redis, proc, token, renewal, bull, moves, faults>>

ReadHandoffs(g) ==
  /\ At(g, "handoffs")
  /\ GoTo(g, "plan")
  /\ seenHandoff' = [seenHandoff EXCEPT ![g] = handoff]
  /\ UNCHANGED <<redis, proc, token, renewal, bull, seenClaim, plan, allowed,
                 moves, faults>>

\* loadAliveWorkerGroups: if no heartbeat is there, all are assumed alive.
Alive == IF beat = {} THEN Groups ELSE beat

CurrentOwner(g) == IF seenClaim[g] = NoClaim THEN Home ELSE seenClaim[g].owner

\* The owner the plan gives when it does not move the shard; a dead owner is
\* replaced.
StablePlan(g) ==
  IF CurrentOwner(g) \in Alive THEN CurrentOwner(g)
  ELSE IF Home \in Alive THEN Home ELSE CHOOSE h \in Alive : TRUE

\* hasLocalClaim
HasLocalClaim(g) == seenClaim[g].owner = g /\ seenClaim[g].token = token[g]

\* buildDefaultWebhookLeasePlan for the shard; active says that the counters
\* show active jobs.  An idle shard of a live owner may be moved.
MakePlan(g) ==
  /\ At(g, "plan")
  /\ \E active \in BOOLEAN, want \in Alive \cup {StablePlan(g)} :
       /\ want # StablePlan(g) =>
            moves < MaxMoves /\ (active => CurrentOwner(g) \notin Alive)
       /\ moves' = IF want = StablePlan(g) THEN moves ELSE moves + 1
       /\ plan' = [plan EXCEPT ![g] = [desired |-> want,
                                       active |-> active /\ want # g,
                                       homeAlive |-> Home \in Alive]]
  /\ GoTo(g, "turn")
  /\ UNCHANGED <<redis, proc, token, renewal, bull, seenClaim, seenHandoff,
                 allowed, faults>>

\* closeWorker, called for a shard this group is to hand over.
HandOver(g) ==
  IF CloseStarts(g)
  THEN /\ StartClose(g) /\ GoTo(g, "closeForHandoff")
       /\ seenClaim' = [seenClaim EXCEPT ![g] = NoClaim]
       /\ seenHandoff' = [seenHandoff EXCEPT ![g] = NoGroup]
       /\ UNCHANGED <<plan, allowed>>
  ELSE UNCHANGED bull /\ Sweep(g, TRUE)

\* May this group try to claim what it read as free or its own?
CanClaim(g) ==
  \/ seenClaim[g].owner = g
  \/ seenHandoff[g] = g
  \/ seenClaim[g] = NoClaim /\ (Home = g \/ ~plan[g].homeAlive)

\* The claim of another group that was read may have run out since.
ClaimExpired(g) == seenClaim[g] # NoClaim

\* The shard's turn in the loop of applyDynamicPlan.
Turn(g) ==
  /\ At(g, "turn")
  /\ LET want == plan[g].desired
         mine == CurrentOwner(g) = g
     IN \/ Stopping(g) /\ PassEnds(g) /\ UNCHANGED bull
        \/ /\ ~Stopping(g) /\ want # g /\ ~(mine /\ HasLocalClaim(g))
           /\ Sweep(g, FALSE) /\ UNCHANGED bull
        \/ /\ ~Stopping(g) /\ want # g /\ mine /\ HasLocalClaim(g)
           /\ IF plan[g].active \/ cool[g] = "cooling"
              THEN Sweep(g, TRUE) /\ UNCHANGED bull
              ELSE HandOver(g)
        \/ /\ ~Stopping(g) /\ want = g /\ (CanClaim(g) \/ ClaimExpired(g))
           /\ GoTo(g, "claim") /\ Forget(g) /\ UNCHANGED <<allowed, bull>>
        \/ /\ ~Stopping(g) /\ want = g /\ ~CanClaim(g)
           /\ Sweep(g, FALSE) /\ UNCHANGED bull
  /\ UNCHANGED <<redis, proc, token, renewal, moves, faults>>

\* closeWorker returns 'closed'
Closed(g) ==
  /\ wst[g][closing[g]] = "off"
  /\ workers' = [workers EXCEPT ![g] = None]
  /\ cool' = [cool EXCEPT ![g] = "unset"]
  /\ closing' = [closing EXCEPT ![g] = None]
  /\ UNCHANGED <<wst, late>>

\* closeWorker returns 'timed_out': the worker stays pinned in the map.
TimedOut(g) ==
  /\ Fault("timeout")
  /\ cool' = [cool EXCEPT ![g] = "cooling"]
  /\ late' = [late EXCEPT ![g] = @ \cup {closing[g]}]
  /\ closing' = [closing EXCEPT ![g] = None]
  /\ UNCHANGED <<workers, wst>>

\* Fault variant: the shard is handed over although its worker is not closed.
HandoffAfterTimeout(g) ==
  /\ At(g, "closeForHandoff")
  /\ \/ Closed(g) /\ UNCHANGED faults
     \/ TimedOut(g)
  /\ GoTo(g, "handoff")
  /\ UNCHANGED <<seenClaim, seenHandoff, plan, allowed>>
  /\ UNCHANGED <<redis, proc, token, renewal, moves>>

CloseForHandoffEnds(g) ==
  /\ At(g, "closeForHandoff")
  /\ \/ /\ Closed(g) /\ UNCHANGED faults
        /\ IF Stopping(g) THEN PassEnds(g)
           ELSE GoTo(g, "handoff") /\ UNCHANGED <<seenClaim, seenHandoff, plan, allowed>>
     \/ TimedOut(g) /\ Sweep(g, TRUE)
  /\ UNCHANGED <<redis, proc, token, renewal, moves>>

\* issueHandoff
IssueHandoff(g) ==
  /\ At(g, "handoff")
  /\ handoff' = plan[g].desired
  /\ GoTo(g, "release")
  /\ UNCHANGED <<claim, beat, lapsed, proc, token, renewal, bull, seenClaim,
                 seenHandoff, plan, allowed, moves, faults>>

\* releaseClaim
ReleaseClaim(g) ==
  /\ At(g, "release")
  /\ claim' = IF Matches(g, token[g]) THEN NoClaim ELSE claim
  /\ token' = [token EXCEPT ![g] = None]
  /\ Sweep(g, FALSE)
  /\ UNCHANGED <<handoff, beat, lapsed, proc, renewal, bull, moves, faults>>

Claim(g) ==
  /\ At(g, "claim")
  /\ \E claimed \in BOOLEAN :
       /\ ClaimQueue(g, claimed)
       /\ IF claimed
          THEN GoTo(g, "ensure") /\ UNCHANGED <<seenClaim, seenHandoff, plan, allowed>>
          ELSE Sweep(g, FALSE)
  /\ UNCHANGED <<proc, renewal, bull, moves, faults>>

Ensure(g) ==
  /\ At(g, "ensure")
  /\ EnsureWorkerRunning(g, TRUE)
  /\ Sweep(g, TRUE)
  /\ UNCHANGED <<redis, proc, token, renewal, moves, faults>>

\* closeWorkersExcept
SweepWorkers(g) ==
  /\ At(g, "sweep")
  /\ IF ~allowed[g] /\ cool[g] # "cooling" /\ CloseStarts(g)
     THEN /\ StartClose(g) /\ GoTo(g, "closeInSweep")
          /\ UNCHANGED <<seenClaim, seenHandoff, plan, allowed>>
     ELSE UNCHANGED bull /\ PassEnds(g)
  /\ UNCHANGED <<redis, proc, token, renewal, moves, faults>>

SweepEnds(g) ==
  /\ At(g, "closeInSweep")
  /\ \/ Closed(g) /\ UNCHANGED faults
     \/ TimedOut(g)
  /\ PassEnds(g)
  /\ UNCHANGED <<redis, proc, token, renewal, moves>>

\* A Redis call of the pass throws, before or after it took effect: sync
\* catches the error and the rest of the pass is skipped.
SyncError(g) ==
  /\ At(g, pc[g]) /\ pc[g] \in {"bootHandoffs", "bootClaim", "claims", "handoffs",
                                "plan", "handoff", "release", "claim"}
  /\ Fault("error")
  /\ PassEnds(g)
  /\ \/ UNCHANGED redis
     \/ /\ pc[g] \in {"bootClaim", "claim"}
        /\ token[g] = None /\ Claimable(g)
        /\ ClaimScript(g)
     \/ /\ pc[g] = "handoff" /\ handoff' = plan[g].desired
        /\ UNCHANGED <<claim, beat, lapsed>>
     \/ /\ pc[g] = "release" /\ Matches(g, token[g]) /\ claim' = NoClaim
        /\ UNCHANGED <<handoff, beat, lapsed>>
  /\ UNCHANGED <<proc, token, renewal, bull, moves>>

SyncStep(g) ==
  \/ BootHandoffs(g) \/ BootClaim(g) \/ BootEnsure(g)
  \/ ReadClaims(g) \/ ReadHandoffs(g) \/ MakePlan(g) \/ Turn(g)
  \/ CloseForHandoffEnds(g)
  \/ IssueHandoff(g) \/ ReleaseClaim(g)
  \/ Claim(g) \/ Ensure(g) \/ SweepWorkers(g) \/ SweepEnds(g)

------------------------------------------------------------------------------
(***************************************************************************)
(* Keepalive, expiry, shutdown and failure.                                *)
(***************************************************************************)

\* publishKeepalive: the heartbeat is written, and the claim of a shard whose
\* worker is not being closed is about to be renewed.
Keepalive(g) ==
  /\ proc[g] = "up" /\ renewal[g] = None
  /\ beat' = beat \cup {g}
  /\ renewal' = [renewal EXCEPT
                   ![g] = IF workers[g] # None /\ closing[g] = None
                          THEN token[g] ELSE None]
  /\ UNCHANGED <<claim, handoff, lapsed, proc, token, bull, pass, moves, faults>>

\* renewClaim: a refused renewal forgets exactly the token it was for.
KeepaliveRenews(g) ==
  /\ proc[g] # "down" /\ renewal[g] # None
  /\ token' = IF ~Matches(g, renewal[g]) /\ token[g] = renewal[g]
              THEN [token EXCEPT ![g] = None] ELSE token
  /\ renewal' = [renewal EXCEPT ![g] = None]
  /\ UNCHANGED <<redis, proc, bull, pass, moves, faults>>

\* g keeps its claim alive: its keepalive renews it while there is a worker,
\* and neither creating nor closing one takes as long as the TTL.
Renewing(g) ==
  /\ proc[g] = "up" /\ claim.token = token[g]
  /\ (workers[g] # None \/ pc[g] \in {"bootEnsure", "ensure", "handoff", "release"})

\* The TTL of the claim runs out, because nobody renews it or too late.
ClaimExpires ==
  /\ claim # NoClaim
  /\ IF Renewing(claim.owner) THEN Fault("expiry") ELSE UNCHANGED faults
  /\ claim' = NoClaim
  /\ lapsed' = [lapsed EXCEPT ![claim.owner] = TRUE]
  /\ UNCHANGED <<handoff, beat, proc, token, renewal, bull, pass, moves>>

HandoffExpires ==
  /\ handoff # NoGroup
  /\ handoff' = NoGroup
  /\ UNCHANGED <<claim, beat, lapsed, proc, token, renewal, bull, pass, moves, faults>>

HeartbeatExpires(g) ==
  /\ g \in beat
  /\ IF proc[g] = "up" THEN Fault("expiry") ELSE UNCHANGED faults
  /\ beat' = beat \ {g}
  /\ UNCHANGED <<claim, handoff, lapsed, proc, token, renewal, bull, pass, moves>>

\* SIGTERM: stopWorkerAdmission stops the timers and returns the workers of
\* the map, and drainRuntimeWorkers pauses them before it waits.
Shutdown(g) ==
  /\ proc[g] = "up" /\ Fault("stop")
  /\ proc' = [proc EXCEPT ![g] = "stopping"]
  /\ wst' = [wst EXCEPT ![g] = [s \in Slots |->
               IF s = workers[g] /\ @[s] = "running" THEN "paused" ELSE @[s]]]
  /\ UNCHANGED <<redis, token, renewal, workers, closing, late, cool, pass, moves>>

\* The process ends, after the drain or by the hard deadline, or it dies.
Exit(g) ==
  /\ proc[g] # "down"
  /\ IF proc[g] = "up" THEN Fault("crash") ELSE UNCHANGED faults
  /\ proc' = [proc EXCEPT ![g] = "down"]
  /\ token' = [token EXCEPT ![g] = None]
  /\ renewal' = [renewal EXCEPT ![g] = None]
  /\ workers' = [workers EXCEPT ![g] = None]
  /\ wst' = [wst EXCEPT ![g] = [s \in Slots |-> "off"]]
  /\ closing' = [closing EXCEPT ![g] = None]
  /\ late' = [late EXCEPT ![g] = {}]
  /\ cool' = [cool EXCEPT ![g] = "unset"]
  /\ PassEnds(g)
  /\ UNCHANGED <<redis, moves>>

\* The process is started again (onModuleInit).
Restart(g) ==
  /\ proc[g] = "down"
  /\ proc' = [proc EXCEPT ![g] = "up"]
  /\ UNCHANGED <<redis, token, renewal, bull, pass, moves, faults>>

Next ==
  \/ ClaimExpires \/ HandoffExpires
  \/ \E g \in Groups :
       \/ SyncStart(g) \/ SyncStep(g) \/ SyncError(g)
       \/ Keepalive(g) \/ KeepaliveRenews(g) \/ HeartbeatExpires(g)
       \/ CooldownEnds(g) \/ Shutdown(g) \/ Exit(g) \/ Restart(g)
       \/ \E s \in Slots : WorkerCloses(g, s) \/ LateClose(g, s)

Spec == Init /\ [][Next]_vars

\* Both intervals run while the process is up, a pass goes on, a closing worker
\* finishes its last job, keys nobody renews expire, a stopping process exits
\* (hard deadline) and the supervisor restarts it.
FairSpec ==
  /\ Spec
  /\ WF_vars(ClaimExpires /\ UNCHANGED faults) /\ WF_vars(HandoffExpires)
  /\ \A g \in Groups :
       /\ WF_vars(SyncStart(g)) /\ WF_vars(SyncStep(g))
       /\ WF_vars(Keepalive(g)) /\ WF_vars(KeepaliveRenews(g))
       /\ WF_vars(HeartbeatExpires(g) /\ UNCHANGED faults)
       /\ WF_vars(CooldownEnds(g))
       /\ WF_vars(Exit(g) /\ UNCHANGED faults) /\ WF_vars(Restart(g))
       /\ \A s \in Slots : WF_vars(WorkerCloses(g, s)) /\ WF_vars(LateClose(g, s))

------------------------------------------------------------------------------
(***************************************************************************)
(* Properties.                                                             *)
(***************************************************************************)

\* The group has a worker that takes jobs of the shard.
Admits(g) == \E s \in Slots : wst[g][s] = "running"

\* The group may be working on jobs of the shard: its worker takes jobs, or it
\* is in the map and has not finished its last ones.
Consumes(g) ==
  \E s \in Slots :
    wst[g][s] = "running" \/ (s = workers[g] /\ wst[g][s] # "off")

\* Two groups work on one shard only after the lease of one of them ran out:
\* planned moves, stale plans, failed calls, restarts and closes that hang
\* never overlap two consumers by themselves.
OneConsumer ==
  \A g, h \in Groups :
    g # h /\ Consumes(g) /\ Consumes(h) => lapsed[g] \/ lapsed[h]

\* Every worker that takes jobs is the one in the map, whatever late closes
\* and replacements happened: so it can be closed, handed over and stopped.
NoForgottenWorker ==
  \A g \in Groups, s \in Slots : wst[g][s] = "running" => workers[g] = s

\* Once stopWorkerAdmission has returned its snapshot, no worker of the process
\* takes jobs, although a sync pass may still be under way.
StoppedStaysStopped == \A g \in Groups : Stopping(g) => ~Admits(g)

\* The shard is consumed again and again, whatever processes died, closes hung
\* or leases lapsed before.
ShardIsServed == []<>(\E g \in Groups : Admits(g))
==============================================================================
