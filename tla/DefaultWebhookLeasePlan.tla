----------------------- MODULE DefaultWebhookLeasePlan -----------------------
(***************************************************************************)
(* Which group should own which default webhook shard                      *)
(* (runtime/default-webhook-lease-plan.ts).  One iteration of the planning *)
(* loop is one step.  Between two plans the groups carry out the first one *)
(* (module DefaultWebhookLease), so its desired owners are the claimed     *)
(* owners of the next; the queue counters stay as they are, because the    *)
(* question is where planning leads by itself.                             *)
(*                                                                         *)
(* Queues and groups are numbers in the order of their names.  backlog is  *)
(* waiting + prioritized + delayed.                                        *)
(***************************************************************************)
EXTENDS Integers, FiniteSets, FiniteSetsExt

CONSTANTS
  Queues,         \* DEFAULT_WEBHOOK_QUEUE_NAMES
  Groups,         \* DEFAULT_WEBHOOK_WORKER_GROUP_NAMES
  HomeOf,         \* getDefaultWebhookHomeOwnerByQueue
  DynamicQueues,  \* queues with resolveDynamicEligibility
  Backlogs,       \* backlog of a queue
  Actives,        \* active jobs of a queue
  MaxHeld         \* bound on active queues, cooldowns and suppression together

ASSUME PlanAssumption ==
  /\ Queues \subseteq Nat /\ IsFiniteSet(Queues)
  /\ Groups \subseteq Nat /\ IsFiniteSet(Groups) /\ Groups # {}
  /\ HomeOf \in [Queues -> Groups] /\ DynamicQueues \subseteq Queues
  /\ Backlogs \subseteq Nat /\ Actives \subseteq Nat /\ MaxHeld \in Nat

VARIABLES
  backlog, active,  \* queueCounters
  alive,            \* aliveWorkerGroups
  cooling,          \* queues with cooldownActive
  suppress,         \* suppressRebalance
  owner,            \* currentOwnerByQueue
  loads,            \* workerLoads
  desired,          \* desiredOwner of the entries
  todo              \* dynamic queues the loop has not come to

inputs == <<backlog, active, alive, cooling, suppress>>
vars == <<inputs, owner, loads, desired, todo>>

ACTIVE_WEIGHT == 4
MIN_PRESSURE_TO_REBALANCE == ACTIVE_WEIGHT

\* measurePressure
Pressure(q) == backlog[q] + active[q] * ACTIVE_WEIGHT

\* The load of every group if the queues belong to the owners in own.
LoadsOf(own) ==
  [g \in Groups |-> MapThenSumSet(Pressure, {q \in Queues : own[q] = g})]

TypeOK ==
  /\ backlog \in [Queues -> Backlogs] /\ active \in [Queues -> Actives]
  /\ alive \in (SUBSET Groups) \ {{}}
  /\ cooling \subseteq Queues /\ suppress \in BOOLEAN
  /\ owner \in [Queues -> Groups] /\ desired \in [Queues -> Groups]
  /\ loads \in [Groups -> Nat]
  /\ todo \subseteq DynamicQueues

\* normalizeWorkerGroups and loadAliveWorkerGroups never give an empty set of
\* live groups.  At most MaxHeld reasons to leave queues alone exist at once.
Init ==
  /\ backlog \in [Queues -> Backlogs] /\ active \in [Queues -> Actives]
  /\ alive \in (SUBSET Groups) \ {{}}
  /\ suppress \in BOOLEAN /\ cooling \in SUBSET DynamicQueues
  /\ Cardinality({q \in Queues : active[q] > 0}) + Cardinality(cooling)
       + (IF suppress THEN 1 ELSE 0) <= MaxHeld
  /\ owner \in [Queues -> Groups]
  /\ \A q \in Queues \ DynamicQueues : owner[q] = HomeOf[q]
  /\ loads = LoadsOf(owner)
  /\ desired = owner
  /\ todo = DynamicQueues

\* The loop goes by pressure, the highest first, then by name.
NextQueue ==
  CHOOSE q \in todo :
    \A r \in todo \ {q} :
      Pressure(q) > Pressure(r) \/ (Pressure(q) = Pressure(r) /\ q < r)

\* The tie-break of chooseLeastLoadedOwner: the current owner, the home owner,
\* the first name.
Rank(q, g) ==
  IF g = owner[q] THEN 0 ELSE IF g = HomeOf[q] THEN 1 ELSE 2

\* chooseLeastLoadedOwner
LeastLoadedOwner(q) ==
  CHOOSE g \in alive :
    \A h \in alive \ {g} :
      \/ loads[g] < loads[h]
      \/ /\ loads[g] = loads[h]
         /\ Rank(q, g) < Rank(q, h) \/ (Rank(q, g) = Rank(q, h) /\ g < h)

\* Fault variant: any less loaded group will do.
RebalanceToLighter(q, to) == loads[owner[q]] > loads[to]

\* shouldRebalanceQueue
ShouldRebalance(q, to) ==
  /\ to # owner[q] /\ Pressure(q) > 0
  /\ loads[owner[q]] - loads[to] > Pressure(q)

\* workerLoads after queue q moves to group to.
MoveLoad(q, to) ==
  IF to = owner[q] THEN loads
  ELSE [loads EXCEPT ![owner[q]] = Max({0, @ - Pressure(q)}),
                     ![to] = @ + Pressure(q)]

\* Fault variant: a shard with active jobs is moved like any other.
MayMoveActive(q) ==
  /\ q \notin cooling /\ ~suppress
  /\ Pressure(q) >= MIN_PRESSURE_TO_REBALANCE

\* A queue of a live owner is left alone while it is active or cooling down,
\* under queue lag, and when it is almost idle.
MayMove(q) ==
  /\ active[q] = 0 /\ q \notin cooling /\ ~suppress
  /\ Pressure(q) >= MIN_PRESSURE_TO_REBALANCE

PlanQueue ==
  /\ todo # {}
  /\ LET q == NextQueue
         to == LeastLoadedOwner(q)
         move == owner[q] \notin alive \/ (MayMove(q) /\ ShouldRebalance(q, to))
     IN /\ todo' = todo \ {q}
        /\ desired' = IF move THEN [desired EXCEPT ![q] = to] ELSE desired
        /\ loads' = IF move THEN MoveLoad(q, to) ELSE loads
  /\ UNCHANGED <<inputs, owner>>

\* The plan was carried out; a queue that was handed over cools down.  Later
\* the cooldown is over and the next plan is made.
NextPlan ==
  /\ todo = {} /\ desired # owner
  /\ owner' = desired
  /\ loads' = LoadsOf(desired)
  /\ todo' = DynamicQueues
  /\ UNCHANGED <<inputs, desired>>

Next == PlanQueue \/ NextPlan

Spec == Init /\ [][Next]_vars /\ WF_vars(Next)

------------------------------------------------------------------------------
\* What the lease manager relies on: a finished plan gives every dynamic shard
\* to a live group, and takes it from a live owner only if it is idle and not
\* cooling down.
PlanIsLeasable ==
  todo = {} =>
    \A q \in DynamicQueues :
      /\ desired[q] \in alive
      /\ desired[q] # owner[q] /\ owner[q] \in alive =>
           active[q] = 0 /\ q \notin cooling

\* The loads the plan reckons with are the loads its desired owners would have,
\* so the clamp at zero never hides a load that went wrong.
LoadsAccount == loads = LoadsOf(desired)

\* "Move a shard only when it lowers the current max load": while the owners
\* are alive no iteration raises the load of the most loaded group.
MaxLoadNeverGrows ==
  [][(\A q \in Queues : owner[q] \in alive) =>
       Max({loads'[g] : g \in Groups}) <= Max({loads[g] : g \in Groups})]_vars

\* Planning comes to rest: under constant counters shards do not wander between
\* groups for ever.
PlanSettles == <>[](desired = owner)
==============================================================================
