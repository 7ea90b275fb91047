---------------------- MODULE DefaultWebhookLeaseProofs ----------------------
(***************************************************************************)
(* Proofs about DefaultWebhookLease, for every set of groups and slots and *)
(* every number of moves and faults.                                       *)
(***************************************************************************)
EXTENDS DefaultWebhookLease, FiniteSetTheorems, TLAPS

\* Only a pass that waits for a close has one under way, and the worker it
\* closes is the one in the map unless that was removed meanwhile.
ClosingFollowsPass(g) ==
  /\ closing[g] # None <=> pc[g] \in {"closeForHandoff", "closeInSweep"}
  /\ closing[g] # None => workers[g] \in {closing[g], None}

\* A worker that takes jobs is the one in the map.
RunningIsMapped(g) == \A s \in Slots : wst[g][s] = "running" => workers[g] = s

\* A group hands over and releases only when it has no worker.
HandoffIsQuiet(g) == pc[g] \in {"handoff", "release"} => workers[g] = None

\* A group that works on the shard, or is about to, has the claim unless it ran
\* out.
ConsumerHoldsClaim(g) ==
  Consumes(g) \/ pc[g] \in {"bootEnsure", "ensure"} => lapsed[g] \/ claim.owner = g

GroupInv(g) ==
  /\ ClosingFollowsPass(g)
  /\ RunningIsMapped(g)
  /\ HandoffIsQuiet(g)
  /\ Stopping(g) => ~Admits(g)
  /\ ConsumerHoldsClaim(g)

\* The inductive invariant.
Inv == TypeOK /\ \A g \in Groups : GroupInv(g)

(***************************************************************************)
(* A token that is in use nowhere exists.                                  *)
(***************************************************************************)

\* A function has no more values than arguments.
LEMMA ImageSize ==
  ASSUME NEW S, IsFiniteSet(S), NEW f
  PROVE  /\ IsFiniteSet({f[x] : x \in S})
         /\ Cardinality({f[x] : x \in S}) <= Cardinality(S)
<1> DEFINE T == {f[x] : x \in S}
           h == [x \in S |-> f[x]]
<1>1. h \in Surjection(S, T)
  BY DEF Surjection
<1> QED
  BY <1>1, FS_Surjection

\* Joining two sets adds at most their sizes.
LEMMA UnionSize ==
  ASSUME NEW S, IsFiniteSet(S), NEW T, IsFiniteSet(T),
         NEW m \in Nat, NEW n \in Nat, Cardinality(S) <= m, Cardinality(T) <= n
  PROVE  IsFiniteSet(S \cup T) /\ Cardinality(S \cup T) <= m + n
<1>1. /\ IsFiniteSet(S \cup T)
      /\ Cardinality(S \cup T) = Cardinality(S) + Cardinality(T) - Cardinality(S \cap T)
  BY FS_Union
<1>2. IsFiniteSet(S \cap T)
  BY FS_Subset
<1>3. /\ Cardinality(S) \in Nat /\ Cardinality(T) \in Nat
      /\ Cardinality(S \cap T) \in Nat
  BY <1>2, FS_CardinalityType
<1> QED
  BY <1>1, <1>3

\* A group without a token finds a fresh one: all others use three per group,
\* and the claim has one.
LEMMA FreshTokenExists ==
  ASSUME TypeOK, NEW g \in Groups, token[g] = None
  PROVE  FreshToken \in Tokens
<1> DEFINE N == Cardinality(Groups)
           A == {token[h] : h \in Groups \ {g}}
           B == {renewal[h] : h \in Groups}
           seen == [h \in Groups |-> seenClaim[h].token]
           C == {seen[h] : h \in Groups}
           D == {claim.token}
           used == (A \cup D) \cup (B \cup C)
<1>1. IsFiniteSet(Groups) /\ N \in Nat /\ N >= 1
  BY GroupsAssumption, FS_CardinalityType, FS_EmptySet
<1>2. IsFiniteSet(Groups \ {g}) /\ Cardinality(Groups \ {g}) = N - 1
  BY <1>1, FS_RemoveElement
<1>3. IsFiniteSet(A) /\ Cardinality(A) <= N - 1
  BY <1>2, ImageSize
<1>4. IsFiniteSet(B) /\ Cardinality(B) <= N
  BY <1>1, ImageSize
<1>5. IsFiniteSet(C) /\ Cardinality(C) <= N
  BY <1>1, ImageSize
<1>6. IsFiniteSet(D) /\ Cardinality(D) <= 1
  <2>1. IsFiniteSet({claim.token}) /\ Cardinality({claim.token}) = 1
    BY FS_Singleton, Zenon
  <2> QED
    BY <2>1
<1> HIDE DEF A, B, C, D
<1>7. IsFiniteSet(A \cup D) /\ Cardinality(A \cup D) <= (N - 1) + 1
  <2>1. N - 1 \in Nat /\ 1 \in Nat
    BY <1>1
  <2> QED
    BY <1>3, <1>6, <2>1, UnionSize
<1>8. IsFiniteSet(B \cup C) /\ Cardinality(B \cup C) <= N + N
  BY <1>1, <1>4, <1>5, UnionSize
<1>9. IsFiniteSet(used) /\ Cardinality(used) <= ((N - 1) + 1) + (N + N)
  <2>1. (N - 1) + 1 \in Nat /\ N + N \in Nat
    BY <1>1
  <2> QED
    BY <1>7, <1>8, <2>1, UnionSize
<1>10. Cardinality(Tokens) = 3 * N + 1
  BY <1>1, FS_Interval DEF Tokens
<1>11. PICK t \in Tokens : t \notin used
  <2>1. SUFFICES ASSUME Tokens \subseteq used PROVE FALSE
    OBVIOUS
  <2>2. Cardinality(Tokens) <= Cardinality(used)
    BY <2>1, <1>9, FS_Subset
  <2>3. Cardinality(used) \in Nat
    BY <1>9, FS_CardinalityType
  <2> QED
    BY <2>2, <2>3, <1>9, <1>10, <1>1
<1>12. /\ t # claim.token
       /\ \A h \in Groups : t # token[h] /\ t # renewal[h] /\ t # seenClaim[h].token
  <2>1. t # claim.token
    BY <1>11 DEF D
  <2>2. ASSUME NEW h \in Groups PROVE t # token[h]
    <3>1. CASE h = g
      BY <3>1, <1>11 DEF None, Tokens
    <3>2. CASE h # g
      BY <3>2, <1>11 DEF A
    <3> QED
      BY <3>1, <3>2
  <2>3. ASSUME NEW h \in Groups PROVE t # renewal[h]
    BY <1>11 DEF B
  <2>4. ASSUME NEW h \in Groups PROVE t # seenClaim[h].token
    <3>1. seen[h] = seenClaim[h].token
      OBVIOUS
    <3> QED
      BY <3>1, <1>11 DEF C
  <2> QED
    BY <2>1, <2>2, <2>3, <2>4
<1> QED
  BY <1>11, <1>12 DEF FreshToken

(***************************************************************************)
(* The parts of the state, and what the operators of the module do to them. *)
(***************************************************************************)

RedisOK ==
  /\ claim \in [owner : Groups \cup {NoGroup}, token : Tokens \cup {None}]
  /\ handoff \in Groups \cup {NoGroup}
  /\ beat \subseteq Groups
  /\ lapsed \in [Groups -> BOOLEAN]

BullOK ==
  /\ workers \in [Groups -> Slots \cup {None}]
  /\ wst \in [Groups -> [Slots -> {"off", "running", "paused", "closing"}]]
  /\ closing \in [Groups -> Slots \cup {None}]
  /\ late \in [Groups -> SUBSET Slots]
  /\ cool \in [Groups -> {"unset", "cooling", "ready"}]

PassOK ==
  /\ pc \in [Groups -> Steps]
  /\ seenClaim \in [Groups -> [owner : Groups \cup {NoGroup},
                               token : Tokens \cup {None}]]
  /\ seenHandoff \in [Groups -> Groups \cup {NoGroup}]
  /\ plan \in [Groups -> [desired : Groups \cup {NoGroup}, active : BOOLEAN,
                          homeAlive : BOOLEAN]]
  /\ allowed \in [Groups -> BOOLEAN]

TokenOK == token \in [Groups -> Tokens \cup {None}]
RenewalOK == renewal \in [Groups -> Tokens \cup {None}]
ProcOK == proc \in [Groups -> {"up", "stopping", "down"}]
MovesOK == moves \in 0..MaxMoves
FaultsOK == faults \in 0..MaxFaults

LEMMA TypeParts ==
  TypeOK <=> RedisOK /\ BullOK /\ PassOK /\ TokenOK /\ RenewalOK /\ ProcOK
             /\ MovesOK /\ FaultsOK
BY DEF TypeOK, RedisOK, BullOK, PassOK, TokenOK, RenewalOK, ProcOK, MovesOK, FaultsOK

LEMMA TypePartsPrime ==
  TypeOK' <=> RedisOK' /\ BullOK' /\ PassOK' /\ TokenOK' /\ RenewalOK' /\ ProcOK'
              /\ MovesOK' /\ FaultsOK'
BY DEF TypeOK, RedisOK, BullOK, PassOK, TokenOK, RenewalOK, ProcOK, MovesOK, FaultsOK

LEMMA FaultType == ASSUME FaultsOK, NEW kind, Fault(kind) PROVE FaultsOK'
BY GroupsAssumption DEF FaultsOK, Fault

\* The group owns the claim or has lost it by expiry.
HoldsOrLapsed(g) == lapsed[g] \/ claim.owner = g

\* What an action of g leaves alone in another group h.
Untouched(h) ==
  /\ workers'[h] = workers[h] /\ wst'[h] = wst[h] /\ closing'[h] = closing[h]
  /\ pc'[h] = pc[h] /\ proc'[h] = proc[h]

BullUntouched(h) ==
  workers'[h] = workers[h] /\ wst'[h] = wst[h] /\ closing'[h] = closing[h]

LEMMA UntouchedKeepsInv ==
  ASSUME NEW h \in Groups, GroupInv(h), Untouched(h),
         HoldsOrLapsed(h) => HoldsOrLapsed(h)'
  PROVE  GroupInv(h)'
BY DEF GroupInv, Untouched, HoldsOrLapsed, ClosingFollowsPass, RunningIsMapped,
       HandoffIsQuiet, ConsumerHoldsClaim, Consumes, Admits, Stopping

\* The steps of a pass and what it keeps.
LEMMA GoToFacts ==
  ASSUME PassOK, NEW g \in Groups, NEW p \in Steps, GoTo(g, p)
  PROVE  /\ pc' \in [Groups -> Steps] /\ pc'[g] = p
         /\ \A h \in Groups \ {g} : pc'[h] = pc[h]
BY DEF PassOK, GoTo

LEMMA ForgetFacts ==
  ASSUME PassOK, NEW g \in Groups, Forget(g)
  PROVE  /\ seenClaim' \in [Groups -> [owner : Groups \cup {NoGroup},
                                       token : Tokens \cup {None}]]
         /\ seenHandoff' \in [Groups -> Groups \cup {NoGroup}]
         /\ plan' \in [Groups -> [desired : Groups \cup {NoGroup},
                                  active : BOOLEAN, homeAlive : BOOLEAN]]
BY DEF PassOK, Forget, NoClaim, NoPlan

LEMMA PassEndsFacts ==
  ASSUME PassOK, NEW g \in Groups, PassEnds(g)
  PROVE  PassOK' /\ pc'[g] = "idle" /\ \A h \in Groups \ {g} : pc'[h] = pc[h]
<1>1. "idle" \in Steps
  BY DEF Steps
<1>2. allowed' \in [Groups -> BOOLEAN]
  BY DEF PassEnds, PassOK
<1> QED
  BY <1>1, <1>2, GoToFacts, ForgetFacts DEF PassEnds, PassOK

LEMMA SweepFacts ==
  ASSUME PassOK, NEW g \in Groups, NEW keep \in BOOLEAN, Sweep(g, keep)
  PROVE  PassOK' /\ pc'[g] = "sweep" /\ \A h \in Groups \ {g} : pc'[h] = pc[h]
<1>1. "sweep" \in Steps
  BY DEF Steps
<1>2. allowed' \in [Groups -> BOOLEAN]
  BY DEF Sweep, PassOK
<1> QED
  BY <1>1, <1>2, GoToFacts, ForgetFacts DEF Sweep, PassOK

\* The claim scripts take the claim only from nobody or from its owner.
LEMMA ClaimScriptFacts ==
  ASSUME TypeOK, NEW g \in Groups, token[g] = None, Claimable(g), ClaimScript(g)
  PROVE  /\ RedisOK' /\ claim'.owner = g
         /\ \A h \in Groups : HoldsOrLapsed(h) => HoldsOrLapsed(h)'
<1>1. FreshToken \in Tokens
  BY FreshTokenExists
<1>2. RedisOK /\ RedisOK'
  BY <1>1, TypeParts DEF ClaimScript, RedisOK
<1>3. claim'.owner = g
  BY DEF ClaimScript
<1> QED
  BY <1>2, <1>3, GroupsAssumption
     DEF ClaimScript, Claimable, HoldsOrLapsed, RedisOK

LEMMA ClaimQueueFacts ==
  ASSUME TypeOK, NEW g \in Groups, NEW claimed \in BOOLEAN, ClaimQueue(g, claimed)
  PROVE  /\ RedisOK' /\ TokenOK'
         /\ claimed => claim'.owner = g
         /\ \A h \in Groups : HoldsOrLapsed(h) => HoldsOrLapsed(h)'
<1>1. RedisOK /\ TokenOK
  BY TypeParts
<1>2. CASE Stopping(g) /\ ~claimed /\ UNCHANGED <<redis, token>>
  BY <1>1, <1>2 DEF redis, RedisOK, TokenOK, HoldsOrLapsed
<1>3. CASE /\ token[g] # None
           /\ claimed = Matches(g, token[g])
           /\ token' = IF claimed THEN token ELSE [token EXCEPT ![g] = None]
           /\ UNCHANGED redis
  <2>1. RedisOK' /\ \A h \in Groups : HoldsOrLapsed(h) => HoldsOrLapsed(h)'
    BY <1>1, <1>3 DEF redis, RedisOK, HoldsOrLapsed
  <2>2. TokenOK'
    BY <1>1, <1>3 DEF TokenOK
  <2>3. claimed => claim'.owner = g
    <3>1. claim' = claim
      BY <1>3 DEF redis
    <3>2. claimed => Matches(g, token[g])
      BY <1>3
    <3> QED
      BY <3>1, <3>2 DEF Matches
  <2> QED
    BY <2>1, <2>2, <2>3
<1>4. CASE /\ token[g] = None /\ claimed = Claimable(g)
           /\ IF claimed
              THEN ClaimScript(g) /\ token' = [token EXCEPT ![g] = FreshToken]
              ELSE UNCHANGED <<redis, token>>
  <2>1. CASE claimed
    <3>1. Claimable(g) /\ ClaimScript(g) /\ token' = [token EXCEPT ![g] = FreshToken]
      BY <1>4, <2>1
    <3>2. TokenOK'
      BY <1>1, <1>4, <3>1, FreshTokenExists DEF TokenOK
    <3> QED
      BY <1>4, <3>1, <3>2, ClaimScriptFacts
  <2>2. CASE ~claimed
    BY <1>1, <1>4, <2>2 DEF redis, RedisOK, TokenOK, HoldsOrLapsed
  <2> QED
    BY <2>1, <2>2
<1> QED
  BY <1>2, <1>3, <1>4 DEF ClaimQueue

LEMMA CreateFacts ==
  ASSUME BullOK, NEW g \in Groups, RunningIsMapped(g),
         NEW state \in [Slots -> {"off", "running", "paused", "closing"}],
         \A s \in Slots : state[s] # "running",
         Create(g, state), cool' \in [Groups -> {"unset", "cooling", "ready"}]
  PROVE  /\ BullOK' /\ closing' = closing /\ RunningIsMapped(g)'
         /\ \A h \in Groups \ {g} : BullUntouched(h)
<1>1. PICK s \in Slots : /\ workers' = [workers EXCEPT ![g] = s]
                         /\ wst' = [wst EXCEPT ![g] = [state EXCEPT ![s] = "running"]]
                         /\ UNCHANGED <<closing, late>>
  BY DEF Create, FreeSlots
<1> QED
  BY <1>1 DEF BullOK, BullUntouched, RunningIsMapped

\* Making sure that a worker runs never leaves a second one behind, and makes
\* none after the stop.
LEMMA EnsureFacts ==
  ASSUME BullOK, NEW g \in Groups, NEW b \in BOOLEAN, EnsureWorkerRunning(g, b),
         RunningIsMapped(g)
  PROVE  /\ BullOK' /\ closing' = closing /\ RunningIsMapped(g)'
         /\ Stopping(g) => wst' = wst
         /\ \A h \in Groups \ {g} : BullUntouched(h)
<1>1. CASE MayCreate(g) /\ Create(g, wst[g]) /\ UNCHANGED cool
  <2>1. wst[g] \in [Slots -> {"off", "running", "paused", "closing"}]
    BY DEF BullOK
  <2>2. \A s \in Slots : wst[g][s] # "running"
    BY <1>1, GroupsAssumption DEF MayCreate, RunningIsMapped, None
  <2>3. cool' \in [Groups -> {"unset", "cooling", "ready"}]
    BY <1>1 DEF BullOK
  <2> QED
    BY <1>1, <2>1, <2>2, <2>3, CreateFacts DEF MayCreate
<1>2. CASE /\ b /\ Recyclable(g)
           /\ Create(g, [wst[g] EXCEPT ![workers[g]] = IF @ = "off" THEN @ ELSE "closing"])
           /\ cool' = [cool EXCEPT ![g] = "unset"]
  <2> DEFINE st == [wst[g] EXCEPT ![workers[g]] = IF @ = "off" THEN @ ELSE "closing"]
  <2>1. st \in [Slots -> {"off", "running", "paused", "closing"}]
    BY DEF BullOK
  <2>2. \A s \in Slots : st[s] # "running"
    BY DEF RunningIsMapped, BullOK
  <2>3. cool' \in [Groups -> {"unset", "cooling", "ready"}]
    BY <1>2 DEF BullOK
  <2> HIDE DEF st
  <2>4. Create(g, st)
    BY <1>2 DEF st
  <2> QED
    BY <1>2, <2>1, <2>2, <2>3, <2>4, CreateFacts DEF Recyclable
<1>3. CASE ~MayCreate(g) /\ UNCHANGED bull
  BY <1>3 DEF bull, BullOK, RunningIsMapped, BullUntouched
<1> QED
  BY <1>1, <1>2, <1>3 DEF EnsureWorkerRunning

LEMMA StartCloseFacts ==
  ASSUME BullOK, NEW g \in Groups, RunningIsMapped(g), CloseStarts(g), StartClose(g)
  PROVE  /\ BullOK' /\ workers' = workers
         /\ closing'[g] # None /\ workers'[g] = closing'[g]
         /\ RunningIsMapped(g)' /\ (Consumes(g)' => Consumes(g))
         /\ \A h \in Groups \ {g} : BullUntouched(h)
<1>1. workers[g] \in Slots
  BY DEF CloseStarts, BullOK
<1>2. /\ BullOK' /\ workers' = workers
      /\ \A h \in Groups \ {g} : BullUntouched(h)
  BY <1>1 DEF StartClose, BullOK, BullUntouched
<1>3. closing'[g] = workers[g] /\ workers[g] # None
  BY <1>1, GroupsAssumption DEF StartClose, BullOK, None
<1>4. \A s \in Slots : /\ s # workers[g] => wst'[g][s] = wst[g][s]
                       /\ wst'[g][s] = "running" => wst[g][s] = "running"
                       /\ wst'[g][s] # "off" => wst[g][s] # "off"
  BY <1>1 DEF StartClose, BullOK
<1> QED
  BY <1>2, <1>3, <1>4 DEF RunningIsMapped, Consumes

\* When a close ended there is no worker left.
LEMMA ClosedFacts ==
  ASSUME BullOK, NEW g \in Groups, RunningIsMapped(g), ClosingFollowsPass(g),
         closing[g] # None, Closed(g)
  PROVE  /\ BullOK' /\ closing'[g] = None /\ workers'[g] = None
         /\ RunningIsMapped(g)' /\ ~Consumes(g)' /\ ~Admits(g)'
         /\ \A h \in Groups \ {g} : BullUntouched(h)
<1>1. /\ BullOK' /\ closing'[g] = None /\ workers'[g] = None
      /\ \A h \in Groups \ {g} : BullUntouched(h)
  BY DEF Closed, BullOK, BullUntouched
<1>2. \A s \in Slots : wst[g][s] # "running"
  BY GroupsAssumption
     DEF Closed, RunningIsMapped, ClosingFollowsPass, BullOK, None
<1>3. \A s \in Slots : wst'[g][s] # "running" /\ s # workers'[g]
  BY <1>1, <1>2, GroupsAssumption DEF Closed, None
<1> QED
  BY <1>1, <1>3 DEF RunningIsMapped, Consumes, Admits

LEMMA TimedOutFacts ==
  ASSUME BullOK, FaultsOK, NEW g \in Groups, closing[g] # None, TimedOut(g)
  PROVE  /\ BullOK' /\ FaultsOK' /\ closing'[g] = None
         /\ workers' = workers /\ wst' = wst
         /\ \A h \in Groups \ {g} : BullUntouched(h)
<1>1. closing[g] \in Slots
  BY DEF BullOK
<1>2. FaultsOK'
  BY FaultType DEF TimedOut
<1> QED
  BY <1>1, <1>2 DEF TimedOut, BullOK, BullUntouched

(***************************************************************************)
(* The invariant holds initially and is kept by every action.              *)
(***************************************************************************)

LEMMA InitInv == Init => Inv
BY GroupsAssumption
   DEF Init, Inv, TypeOK, GroupInv, ClosingFollowsPass, RunningIsMapped,
       HandoffIsQuiet, ConsumerHoldsClaim, Consumes, Admits, Stopping, Steps,
       NoClaim, NoPlan, None

\* Actions that change neither the workers, the passes, the processes nor the
\* claim keep what the invariant says of every group.
LEMMA FrameKeepsGroups ==
  ASSUME Inv, UNCHANGED <<workers, wst, closing, pc, proc, claim, lapsed>>
  PROVE  \A h \in Groups : GroupInv(h)'
<1> SUFFICES ASSUME NEW h \in Groups PROVE GroupInv(h)'
  OBVIOUS
<1> QED
  BY UntouchedKeepsInv DEF Inv, Untouched, HoldsOrLapsed

\* An action of g, from what it does to g and what it leaves alone elsewhere.
LEMMA ActionKeepsGroups ==
  ASSUME Inv, NEW g \in Groups, GroupInv(g)',
         \A h \in Groups \ {g} :
           Untouched(h) /\ (HoldsOrLapsed(h) => HoldsOrLapsed(h)')
  PROVE  \A h \in Groups : GroupInv(h)'
<1> SUFFICES ASSUME NEW h \in Groups, h # g PROVE GroupInv(h)'
  OBVIOUS
<1> QED
  BY UntouchedKeepsInv DEF Inv

\* An action of a pass that touches neither redis nor the workers keeps the
\* invariant if it goes to a step at which nothing more is required.
CalmSteps == {"idle", "bootHandoffs", "bootClaim", "claims", "handoffs", "plan",
              "turn", "claim", "sweep"}

LEMMA CalmStepKeepsGroups ==
  ASSUME Inv, NEW g \in Groups, closing[g] = None, pc'[g] \in CalmSteps,
         \A h \in Groups \ {g} : pc'[h] = pc[h],
         UNCHANGED <<proc, bull>>,
         \A h \in Groups : HoldsOrLapsed(h) => HoldsOrLapsed(h)'
  PROVE  \A h \in Groups : GroupInv(h)'
<1>1. GroupInv(g)'
  BY DEF Inv, GroupInv, CalmSteps, ClosingFollowsPass, RunningIsMapped,
         HandoffIsQuiet, ConsumerHoldsClaim, HoldsOrLapsed, Consumes, Admits,
         Stopping, bull
<1>2. \A h \in Groups \ {g} : Untouched(h)
  BY DEF Untouched, bull
<1> QED
  BY <1>1, <1>2, ActionKeepsGroups

\* Outside the two waits no close is under way.
LEMMA NoCloseElsewhere ==
  ASSUME Inv, NEW g \in Groups, pc[g] \notin {"closeForHandoff", "closeInSweep"}
  PROVE  closing[g] = None
BY DEF Inv, GroupInv, ClosingFollowsPass

LEMMA SyncStartKeeps ==
  ASSUME Inv, NEW g \in Groups, SyncStart(g) PROVE Inv'
<1>1. closing[g] = None
  BY NoCloseElsewhere DEF SyncStart
<1>2. /\ pc' \in [Groups -> Steps] /\ pc'[g] \in CalmSteps
      /\ \A h \in Groups \ {g} : pc'[h] = pc[h]
  BY ZenonT(60) DEF SyncStart, Inv, TypeOK, GoTo, CalmSteps, Steps
<1>3. PassOK'
  <2>1. seenClaim' = [seenClaim EXCEPT ![g] = claim] \/ seenClaim' = seenClaim
    BY DEF SyncStart
  <2>2. RedisOK /\ PassOK
    BY TypeParts DEF Inv
  <2>3. seenClaim' \in [Groups -> [owner : Groups \cup {NoGroup},
                                  token : Tokens \cup {None}]]
    BY <2>1, <2>2 DEF RedisOK, PassOK
  <2> QED
    BY <1>2, <2>2, <2>3 DEF SyncStart, PassOK
<1>4. TypeOK'
  BY <1>3, TypeParts, TypePartsPrime
     DEF SyncStart, Inv, redis, bull, RedisOK, BullOK, TokenOK, RenewalOK,
         ProcOK, MovesOK, FaultsOK
<1>5. \A h \in Groups : GroupInv(h)'
  BY <1>1, <1>2, CalmStepKeepsGroups DEF SyncStart, redis, HoldsOrLapsed
<1> QED
  BY <1>4, <1>5 DEF Inv

LEMMA BootHandoffsKeeps ==
  ASSUME Inv, NEW g \in Groups, BootHandoffs(g) PROVE Inv'
<1>1. closing[g] = None
  BY NoCloseElsewhere DEF BootHandoffs, At
<1>2. /\ pc' \in [Groups -> Steps] /\ pc'[g] \in CalmSteps
      /\ \A h \in Groups \ {g} : pc'[h] = pc[h]
  BY DEF BootHandoffs, Inv, TypeOK, GoTo, CalmSteps, Steps
<1>3. PassOK'
  BY <1>2, ForgetFacts, TypeParts DEF BootHandoffs, Inv, PassOK
<1>4. TypeOK'
  BY <1>3, TypeParts, TypePartsPrime
     DEF BootHandoffs, Inv, redis, bull, RedisOK, BullOK, TokenOK, RenewalOK,
         ProcOK, MovesOK, FaultsOK
<1>5. \A h \in Groups : GroupInv(h)'
  BY <1>1, <1>2, CalmStepKeepsGroups DEF BootHandoffs, redis, HoldsOrLapsed
<1> QED
  BY <1>4, <1>5 DEF Inv

\* A pass that got the claim may go on to create a worker.
LEMMA ClaimedKeepsGroups ==
  ASSUME Inv, NEW g \in Groups, closing[g] = None, claim'.owner = g,
         pc'[g] \in {"bootEnsure", "ensure"},
         \A h \in Groups \ {g} : pc'[h] = pc[h],
         UNCHANGED <<proc, bull>>,
         \A h \in Groups : HoldsOrLapsed(h) => HoldsOrLapsed(h)'
  PROVE  \A h \in Groups : GroupInv(h)'
<1>1. GroupInv(g)'
  BY DEF Inv, GroupInv, ClosingFollowsPass, RunningIsMapped,
         HandoffIsQuiet, ConsumerHoldsClaim, Consumes, Admits, Stopping, bull
<1>2. \A h \in Groups \ {g} : Untouched(h)
  BY DEF Untouched, bull
<1> QED
  BY <1>1, <1>2, ActionKeepsGroups

LEMMA BootClaimKeeps ==
  ASSUME Inv, NEW g \in Groups, BootClaim(g) PROVE Inv'
<1>1. PICK claimed \in BOOLEAN :
        ClaimQueue(g, claimed) /\ GoTo(g, IF claimed THEN "bootEnsure" ELSE "claims")
  BY DEF BootClaim
<1>2. closing[g] = None
  BY NoCloseElsewhere DEF BootClaim, At
<1>3. /\ RedisOK' /\ TokenOK' /\ (claimed => claim'.owner = g)
      /\ \A h \in Groups : HoldsOrLapsed(h) => HoldsOrLapsed(h)'
  BY <1>1, ClaimQueueFacts DEF Inv
<1>4. /\ pc' \in [Groups -> Steps]
      /\ pc'[g] = IF claimed THEN "bootEnsure" ELSE "claims"
      /\ \A h \in Groups \ {g} : pc'[h] = pc[h]
  BY <1>1 DEF Inv, TypeOK, GoTo, Steps
<1>5. TypeOK'
  BY <1>3, <1>4, TypeParts, TypePartsPrime
     DEF BootClaim, Inv, bull, BullOK, PassOK, RenewalOK, ProcOK, MovesOK, FaultsOK
<1>6. \A h \in Groups : GroupInv(h)'
  <2>1. UNCHANGED <<proc, bull>>
    BY DEF BootClaim
  <2>2. CASE claimed
    BY <1>2, <1>3, <1>4, <2>1, <2>2, ClaimedKeepsGroups
  <2>3. CASE ~claimed
    BY <1>2, <1>3, <1>4, <2>1, <2>3, CalmStepKeepsGroups DEF CalmSteps
  <2> QED
    BY <2>2, <2>3
<1> QED
  BY <1>5, <1>6 DEF Inv

LEMMA ClaimKeeps ==
  ASSUME Inv, NEW g \in Groups, Claim(g) PROVE Inv'
<1>1. PICK claimed \in BOOLEAN :
        /\ ClaimQueue(g, claimed)
        /\ IF claimed
           THEN GoTo(g, "ensure") /\ UNCHANGED <<seenClaim, seenHandoff, plan, allowed>>
           ELSE Sweep(g, FALSE)
  BY DEF Claim
<1>2. closing[g] = None
  BY NoCloseElsewhere DEF Claim, At
<1>3. /\ RedisOK' /\ TokenOK' /\ (claimed => claim'.owner = g)
      /\ \A h \in Groups : HoldsOrLapsed(h) => HoldsOrLapsed(h)'
  BY <1>1, ClaimQueueFacts DEF Inv
<1>4. /\ PassOK' /\ pc'[g] = IF claimed THEN "ensure" ELSE "sweep"
      /\ \A h \in Groups \ {g} : pc'[h] = pc[h]
  <2>1. CASE claimed
    BY <1>1, <2>1, TypeParts DEF Inv, PassOK, GoTo, Steps
  <2>2. CASE ~claimed
    BY <1>1, <2>2, TypeParts, SweepFacts DEF Inv
  <2> QED
    BY <2>1, <2>2
<1>5. TypeOK'
  BY <1>3, <1>4, TypeParts, TypePartsPrime
     DEF Claim, Inv, bull, BullOK, RenewalOK, ProcOK, MovesOK, FaultsOK
<1>6. \A h \in Groups : GroupInv(h)'
  <2>1. UNCHANGED <<proc, bull>>
    BY DEF Claim
  <2>2. CASE claimed
    BY <1>2, <1>3, <1>4, <2>1, <2>2, ClaimedKeepsGroups
  <2>3. CASE ~claimed
    BY <1>2, <1>3, <1>4, <2>1, <2>3, CalmStepKeepsGroups DEF CalmSteps
  <2> QED
    BY <2>2, <2>3
<1> QED
  BY <1>5, <1>6 DEF Inv

\* Creating a worker, at the boot step or at the shard's turn.
LEMMA EnsureKeepsGroups ==
  ASSUME Inv, NEW g \in Groups, NEW b \in BOOLEAN, EnsureWorkerRunning(g, b),
         pc[g] \in {"bootEnsure", "ensure"}, pc'[g] \in CalmSteps,
         \A h \in Groups \ {g} : pc'[h] = pc[h],
         UNCHANGED <<redis, proc>>
  PROVE  BullOK' /\ \A h \in Groups : GroupInv(h)'
<1>1. BullOK /\ GroupInv(g) /\ closing[g] = None
  BY TypeParts, NoCloseElsewhere DEF Inv
<1>2. /\ BullOK' /\ closing' = closing /\ RunningIsMapped(g)'
      /\ Stopping(g) => wst' = wst
      /\ \A h \in Groups \ {g} : BullUntouched(h)
  BY <1>1, EnsureFacts DEF GroupInv
<1>3. HoldsOrLapsed(g)
  BY <1>1 DEF GroupInv, ConsumerHoldsClaim, HoldsOrLapsed
<1>4. \A h \in Groups : HoldsOrLapsed(h) => HoldsOrLapsed(h)'
  BY DEF redis, HoldsOrLapsed
<1>5. GroupInv(g)'
  BY <1>1, <1>2, <1>3, <1>4
     DEF GroupInv, CalmSteps, ClosingFollowsPass, HandoffIsQuiet,
         ConsumerHoldsClaim, HoldsOrLapsed, Admits, Stopping
<1>6. \A h \in Groups \ {g} : Untouched(h)
  BY <1>2 DEF Untouched, BullUntouched
<1> QED
  BY <1>2, <1>4, <1>5, <1>6, ActionKeepsGroups

LEMMA BootEnsureKeeps ==
  ASSUME Inv, NEW g \in Groups, BootEnsure(g) PROVE Inv'
<1>1. /\ PassOK' /\ pc'[g] \in CalmSteps
      /\ \A h \in Groups \ {g} : pc'[h] = pc[h]
  BY DEF BootEnsure, Inv, TypeOK, GoTo, CalmSteps, Steps, PassOK
<1>2. BullOK' /\ \A h \in Groups : GroupInv(h)'
  BY <1>1, EnsureKeepsGroups DEF BootEnsure, At
<1>3. TypeOK'
  BY <1>1, <1>2, TypeParts, TypePartsPrime
     DEF BootEnsure, Inv, redis, RedisOK, TokenOK, RenewalOK, ProcOK, MovesOK, FaultsOK
<1> QED
  BY <1>2, <1>3 DEF Inv

LEMMA EnsureKeeps ==
  ASSUME Inv, NEW g \in Groups, Ensure(g) PROVE Inv'
<1>1. /\ PassOK' /\ pc'[g] \in CalmSteps
      /\ \A h \in Groups \ {g} : pc'[h] = pc[h]
  BY SweepFacts, TypeParts DEF Ensure, Inv, CalmSteps
<1>2. BullOK' /\ \A h \in Groups : GroupInv(h)'
  BY <1>1, EnsureKeepsGroups DEF Ensure, At
<1>3. TypeOK'
  BY <1>1, <1>2, TypeParts, TypePartsPrime
     DEF Ensure, Inv, redis, RedisOK, TokenOK, RenewalOK, ProcOK, MovesOK, FaultsOK
<1> QED
  BY <1>2, <1>3 DEF Inv

LEMMA ReadClaimsKeeps ==
  ASSUME Inv, NEW g \in Groups, ReadClaims(g) PROVE Inv'
<1>1. closing[g] = None
  BY NoCloseElsewhere DEF ReadClaims, At
<1>2. RedisOK /\ PassOK
  BY TypeParts DEF Inv
<1>3. /\ PassOK' /\ pc'[g] \in CalmSteps
      /\ \A h \in Groups \ {g} : pc'[h] = pc[h]
  <2>1. CASE Stopping(g)
    BY <1>2, <2>1, PassEndsFacts DEF ReadClaims, CalmSteps
  <2>2. CASE ~Stopping(g)
    <3>1. seenClaim' = [seenClaim EXCEPT ![g] = claim]
      BY <2>2 DEF ReadClaims
    <3>2. seenClaim' \in [Groups -> [owner : Groups \cup {NoGroup},
                                     token : Tokens \cup {None}]]
      BY <1>2, <3>1 DEF RedisOK, PassOK
    <3> QED
      BY <1>2, <2>2, <3>2 DEF ReadClaims, PassOK, GoTo, Steps, CalmSteps
  <2> QED
    BY <2>1, <2>2
<1>4. TypeOK'
  BY <1>3, TypeParts, TypePartsPrime
     DEF ReadClaims, Inv, redis, bull, RedisOK, BullOK, TokenOK, RenewalOK,
         ProcOK, MovesOK, FaultsOK
<1>5. \A h \in Groups : GroupInv(h)'
  BY <1>1, <1>3, CalmStepKeepsGroups DEF ReadClaims, redis, HoldsOrLapsed
<1> QED
  BY <1>4, <1>5 DEF Inv

LEMMA ReadHandoffsKeeps ==
  ASSUME Inv, NEW g \in Groups, ReadHandoffs(g) PROVE Inv'
<1>1. closing[g] = None
  BY NoCloseElsewhere DEF ReadHandoffs, At
<1>2. RedisOK /\ PassOK
  BY TypeParts DEF Inv
<1>3. /\ PassOK' /\ pc'[g] \in CalmSteps
      /\ \A h \in Groups \ {g} : pc'[h] = pc[h]
  BY <1>2 DEF ReadHandoffs, RedisOK, PassOK, GoTo, Steps, CalmSteps
<1>4. TypeOK'
  BY <1>3, TypeParts, TypePartsPrime
     DEF ReadHandoffs, Inv, redis, bull, RedisOK, BullOK, TokenOK, RenewalOK,
         ProcOK, MovesOK, FaultsOK
<1>5. \A h \in Groups : GroupInv(h)'
  BY <1>1, <1>3, CalmStepKeepsGroups DEF ReadHandoffs, redis, HoldsOrLapsed
<1> QED
  BY <1>4, <1>5 DEF Inv

\* Somebody is assumed alive, so the plan names an owner.
LEMMA PlannedOwner ==
  ASSUME TypeOK, NEW g \in Groups
  PROVE  Alive \subseteq Groups /\ StablePlan(g) \in Groups
<1>1. Alive \subseteq Groups /\ Alive # {}
  BY GroupsAssumption DEF Alive, TypeOK
<1> QED
  BY <1>1 DEF StablePlan

LEMMA MakePlanKeeps ==
  ASSUME Inv, NEW g \in Groups, MakePlan(g) PROVE Inv'
<1>1. closing[g] = None
  BY NoCloseElsewhere DEF MakePlan, At
<1>2. PassOK /\ MovesOK
  BY TypeParts DEF Inv
<1>3. PICK active \in BOOLEAN, want \in Alive \cup {StablePlan(g)} :
        /\ want # StablePlan(g) => moves < MaxMoves
        /\ moves' = IF want = StablePlan(g) THEN moves ELSE moves + 1
        /\ plan' = [plan EXCEPT ![g] = [desired |-> want,
                                        active |-> active /\ want # g,
                                        homeAlive |-> Home \in Alive]]
  BY DEF MakePlan
<1>4. want \in Groups
  BY PlannedOwner DEF Inv
<1>5. MovesOK'
  BY <1>2, <1>3, GroupsAssumption DEF MovesOK
<1>6. plan' \in [Groups -> [desired : Groups \cup {NoGroup}, active : BOOLEAN,
                            homeAlive : BOOLEAN]]
  <2> DEFINE p == [desired |-> want, active |-> active /\ want # g,
                   homeAlive |-> Home \in Alive]
  <2>1. p \in [desired : Groups \cup {NoGroup}, active : BOOLEAN, homeAlive : BOOLEAN]
    BY <1>4
  <2> HIDE DEF p
  <2>2. plan' = [plan EXCEPT ![g] = p]
    BY <1>3 DEF p
  <2> QED
    BY <1>2, <2>1, <2>2 DEF PassOK
<1>7. /\ PassOK' /\ pc'[g] \in CalmSteps
      /\ \A h \in Groups \ {g} : pc'[h] = pc[h]
  BY <1>2, <1>6 DEF MakePlan, PassOK, GoTo, Steps, CalmSteps
<1>8. TypeOK'
  BY <1>5, <1>7, TypeParts, TypePartsPrime
     DEF MakePlan, Inv, redis, bull, RedisOK, BullOK, TokenOK, RenewalOK,
         ProcOK, FaultsOK
<1>9. \A h \in Groups : GroupInv(h)'
  BY <1>1, <1>7, CalmStepKeepsGroups DEF MakePlan, redis, HoldsOrLapsed
<1> QED
  BY <1>8, <1>9 DEF Inv

\* A pass that starts to close its worker.
LEMMA StartCloseKeepsGroups ==
  ASSUME Inv, NEW g \in Groups, CloseStarts(g), StartClose(g),
         pc'[g] \in {"closeForHandoff", "closeInSweep"},
         pc[g] \notin {"bootEnsure", "ensure"},
         \A h \in Groups \ {g} : pc'[h] = pc[h],
         UNCHANGED <<redis, proc>>
  PROVE  BullOK' /\ \A h \in Groups : GroupInv(h)'
<1>1. BullOK /\ GroupInv(g)
  BY TypeParts DEF Inv
<1>2. /\ BullOK' /\ workers' = workers
      /\ closing'[g] # None /\ workers'[g] = closing'[g]
      /\ RunningIsMapped(g)' /\ (Consumes(g)' => Consumes(g))
      /\ \A h \in Groups \ {g} : BullUntouched(h)
  BY <1>1, StartCloseFacts DEF GroupInv
<1>3. GroupInv(g)'
  BY <1>1, <1>2
     DEF GroupInv, ClosingFollowsPass, HandoffIsQuiet, ConsumerHoldsClaim,
         Stopping, CloseStarts, redis
<1>4. \A h \in Groups \ {g} : Untouched(h)
  BY <1>2 DEF Untouched, BullUntouched
<1>5. \A h \in Groups : HoldsOrLapsed(h) => HoldsOrLapsed(h)'
  BY DEF redis, HoldsOrLapsed
<1> QED
  BY <1>2, <1>3, <1>4, <1>5, ActionKeepsGroups

\* Handing over closes the worker, or the pass goes on to its sweep.
LEMMA HandOverKeeps ==
  ASSUME Inv, NEW g \in Groups, pc[g] = "turn", HandOver(g), UNCHANGED <<redis, proc>>
  PROVE  PassOK' /\ BullOK' /\ \A h \in Groups : GroupInv(h)'
<1>1. PassOK /\ BullOK /\ closing[g] = None
  BY TypeParts, NoCloseElsewhere DEF Inv
<1>2. CASE CloseStarts(g)
  <2>1. /\ StartClose(g) /\ GoTo(g, "closeForHandoff")
        /\ seenClaim' = [seenClaim EXCEPT ![g] = NoClaim]
        /\ seenHandoff' = [seenHandoff EXCEPT ![g] = NoGroup]
        /\ UNCHANGED <<plan, allowed>>
    BY <1>2 DEF HandOver
  <2>2. /\ pc' \in [Groups -> Steps] /\ pc'[g] = "closeForHandoff"
        /\ \A h \in Groups \ {g} : pc'[h] = pc[h]
    BY <1>1, <2>1 DEF GoTo, Steps, PassOK
  <2>3. PassOK'
    BY <1>1, <2>1, <2>2 DEF PassOK, NoClaim
  <2> QED
    BY <1>2, <2>1, <2>2, <2>3, StartCloseKeepsGroups
<1>3. CASE ~CloseStarts(g)
  <2>1. UNCHANGED bull /\ Sweep(g, TRUE)
    BY <1>3 DEF HandOver
  <2>2. PassOK' /\ pc'[g] = "sweep" /\ \A h \in Groups \ {g} : pc'[h] = pc[h]
    BY <1>1, <2>1, SweepFacts
  <2>3. BullOK'
    BY <1>1, <2>1 DEF bull, BullOK
  <2>4. \A h \in Groups : HoldsOrLapsed(h) => HoldsOrLapsed(h)'
    BY DEF redis, HoldsOrLapsed
  <2> QED
    BY <1>1, <2>1, <2>2, <2>3, <2>4, CalmStepKeepsGroups DEF CalmSteps
<1> QED
  BY <1>2, <1>3

LEMMA TurnKeeps ==
  ASSUME Inv, NEW g \in Groups, Turn(g) PROVE Inv'
<1>1. PassOK /\ BullOK /\ closing[g] = None /\ pc[g] = "turn"
  BY TypeParts, NoCloseElsewhere DEF Inv, Turn, At
<1>2. UNCHANGED <<redis, proc, token, renewal, moves, faults>>
  BY DEF Turn
<1>3. \/ HandOver(g)
      \/ UNCHANGED bull /\ PassEnds(g)
      \/ UNCHANGED bull /\ Sweep(g, FALSE)
      \/ UNCHANGED bull /\ Sweep(g, TRUE)
      \/ UNCHANGED bull /\ GoTo(g, "claim") /\ Forget(g) /\ UNCHANGED allowed
  BY DEF Turn
<1>4. PassOK' /\ BullOK' /\ \A h \in Groups : GroupInv(h)'
  <2>1. CASE HandOver(g)
    BY <1>1, <1>2, <2>1, HandOverKeeps
  <2>2. ASSUME ~HandOver(g) PROVE PassOK' /\ BullOK' /\ \A h \in Groups : GroupInv(h)'
    <3>1. UNCHANGED bull /\ BullOK'
      BY <1>1, <1>3, <2>2 DEF bull, BullOK
    <3>2. CASE PassEnds(g)
      <4>1. PassOK' /\ pc'[g] \in CalmSteps /\ \A h \in Groups \ {g} : pc'[h] = pc[h]
        BY <1>1, <3>2, PassEndsFacts DEF CalmSteps
      <4> QED
        BY <1>1, <1>2, <3>1, <4>1, CalmStepKeepsGroups DEF redis, HoldsOrLapsed
    <3>3. ASSUME NEW keep \in BOOLEAN, Sweep(g, keep)
          PROVE  PassOK' /\ \A h \in Groups : GroupInv(h)'
      <4>1. PassOK' /\ pc'[g] \in CalmSteps /\ \A h \in Groups \ {g} : pc'[h] = pc[h]
        BY <1>1, <3>3, SweepFacts DEF CalmSteps
      <4> QED
        BY <1>1, <1>2, <3>1, <4>1, CalmStepKeepsGroups DEF redis, HoldsOrLapsed
    <3>4. CASE GoTo(g, "claim") /\ Forget(g) /\ UNCHANGED allowed
      <4>1. /\ pc' \in [Groups -> Steps] /\ pc'[g] \in CalmSteps
            /\ \A h \in Groups \ {g} : pc'[h] = pc[h]
        BY <1>1, <3>4 DEF CalmSteps, GoTo, PassOK, Steps
      <4>2. PassOK'
        BY <1>1, <3>4, <4>1, ForgetFacts DEF PassOK
      <4> QED
        BY <1>1, <1>2, <3>1, <4>1, <4>2, CalmStepKeepsGroups DEF redis, HoldsOrLapsed
    <3> QED
      BY <1>3, <2>2, <3>1, <3>2, <3>3, <3>4
  <2> QED
    BY <2>1, <2>2
<1>5. TypeOK'
  BY <1>2, <1>4, TypeParts, TypePartsPrime
     DEF Inv, redis, RedisOK, TokenOK, RenewalOK, ProcOK, MovesOK, FaultsOK
<1> QED
  BY <1>4, <1>5 DEF Inv

\* A pass whose close ended, in time or not.
LEMMA CloseEndsKeepsGroups ==
  ASSUME Inv, NEW g \in Groups, pc[g] \in {"closeForHandoff", "closeInSweep"},
         \/ Closed(g) /\ pc'[g] \in CalmSteps \cup {"handoff"}
         \/ TimedOut(g) /\ pc'[g] \in CalmSteps,
         \A h \in Groups \ {g} : pc'[h] = pc[h],
         UNCHANGED <<redis, proc>>
  PROVE  BullOK' /\ \A h \in Groups : GroupInv(h)'
<1>1. BullOK /\ FaultsOK /\ GroupInv(g) /\ closing[g] # None
  BY TypeParts DEF Inv, GroupInv, ClosingFollowsPass
<1>2. \A h \in Groups : HoldsOrLapsed(h) => HoldsOrLapsed(h)'
  BY DEF redis, HoldsOrLapsed
<1>3. CASE Closed(g) /\ pc'[g] \in CalmSteps \cup {"handoff"}
  <2>1. /\ BullOK' /\ closing'[g] = None /\ workers'[g] = None
        /\ RunningIsMapped(g)' /\ ~Consumes(g)' /\ ~Admits(g)'
        /\ \A h \in Groups \ {g} : BullUntouched(h)
    BY <1>1, <1>3, ClosedFacts DEF GroupInv
  <2>2. GroupInv(g)'
    BY <1>3, <2>1
       DEF GroupInv, ClosingFollowsPass, HandoffIsQuiet, ConsumerHoldsClaim, CalmSteps
  <2>3. \A h \in Groups \ {g} : Untouched(h)
    BY <2>1 DEF Untouched, BullUntouched
  <2> QED
    BY <1>2, <2>1, <2>2, <2>3, ActionKeepsGroups
<1>4. CASE TimedOut(g) /\ pc'[g] \in CalmSteps
  <2>1. /\ BullOK' /\ closing'[g] = None /\ workers' = workers /\ wst' = wst
        /\ \A h \in Groups \ {g} : BullUntouched(h)
    BY <1>1, <1>4, TimedOutFacts
  <2>2. GroupInv(g)'
    BY <1>1, <1>2, <1>4, <2>1
       DEF GroupInv, ClosingFollowsPass, RunningIsMapped, HandoffIsQuiet,
           ConsumerHoldsClaim, Consumes, Admits, Stopping, CalmSteps, redis
  <2>3. \A h \in Groups \ {g} : Untouched(h)
    BY <2>1 DEF Untouched, BullUntouched
  <2> QED
    BY <1>2, <2>1, <2>2, <2>3, ActionKeepsGroups
<1> QED
  BY <1>3, <1>4

LEMMA CloseForHandoffEndsKeeps ==
  ASSUME Inv, NEW g \in Groups, CloseForHandoffEnds(g) PROVE Inv'
<1>1. PassOK /\ BullOK /\ FaultsOK /\ closing[g] # None /\ pc[g] = "closeForHandoff"
  BY TypeParts DEF Inv, GroupInv, ClosingFollowsPass, CloseForHandoffEnds, At
<1>2. /\ PassOK' /\ \A h \in Groups \ {g} : pc'[h] = pc[h]
      /\ \/ Closed(g) /\ pc'[g] \in CalmSteps \cup {"handoff"} /\ faults' = faults
         \/ TimedOut(g) /\ pc'[g] \in CalmSteps
  <2>1. CASE Closed(g) /\ Stopping(g) /\ PassEnds(g) /\ UNCHANGED faults
    BY <1>1, <2>1, PassEndsFacts DEF CalmSteps
  <2>2. CASE /\ Closed(g) /\ GoTo(g, "handoff") /\ UNCHANGED faults
             /\ UNCHANGED <<seenClaim, seenHandoff, plan, allowed>>
    BY <1>1, <2>2 DEF PassOK, GoTo, Steps
  <2>3. CASE TimedOut(g) /\ Sweep(g, TRUE)
    BY <1>1, <2>3, SweepFacts DEF CalmSteps
  <2> QED
    BY <2>1, <2>2, <2>3 DEF CloseForHandoffEnds
<1>3. BullOK' /\ \A h \in Groups : GroupInv(h)'
  BY <1>1, <1>2, CloseEndsKeepsGroups DEF CloseForHandoffEnds
<1>4. FaultsOK'
  BY <1>1, <1>2, TimedOutFacts DEF FaultsOK
<1>5. TypeOK'
  BY <1>2, <1>3, <1>4, TypeParts, TypePartsPrime
     DEF CloseForHandoffEnds, Inv, redis, RedisOK, TokenOK, RenewalOK, ProcOK, MovesOK
<1> QED
  BY <1>3, <1>5 DEF Inv

LEMMA SweepEndsKeeps ==
  ASSUME Inv, NEW g \in Groups, SweepEnds(g) PROVE Inv'
<1>1. PassOK /\ BullOK /\ FaultsOK /\ closing[g] # None /\ pc[g] = "closeInSweep"
  BY TypeParts DEF Inv, GroupInv, ClosingFollowsPass, SweepEnds, At
<1>2. /\ PassOK' /\ pc'[g] \in CalmSteps /\ \A h \in Groups \ {g} : pc'[h] = pc[h]
      /\ (Closed(g) /\ faults' = faults) \/ TimedOut(g)
  BY <1>1, PassEndsFacts DEF SweepEnds, CalmSteps
<1>3. BullOK' /\ \A h \in Groups : GroupInv(h)'
  BY <1>1, <1>2, CloseEndsKeepsGroups DEF SweepEnds
<1>4. FaultsOK'
  BY <1>1, <1>2, TimedOutFacts DEF FaultsOK
<1>5. TypeOK'
  BY <1>2, <1>3, <1>4, TypeParts, TypePartsPrime
     DEF SweepEnds, Inv, redis, RedisOK, TokenOK, RenewalOK, ProcOK, MovesOK
<1> QED
  BY <1>3, <1>5 DEF Inv

LEMMA SweepWorkersKeeps ==
  ASSUME Inv, NEW g \in Groups, SweepWorkers(g) PROVE Inv'
<1>1. PassOK /\ BullOK /\ closing[g] = None /\ pc[g] = "sweep"
  BY TypeParts, NoCloseElsewhere DEF Inv, SweepWorkers, At
<1>2. PassOK' /\ BullOK' /\ \A h \in Groups : GroupInv(h)'
  <2>1. CASE /\ CloseStarts(g) /\ StartClose(g) /\ GoTo(g, "closeInSweep")
             /\ UNCHANGED <<seenClaim, seenHandoff, plan, allowed>>
    <3>1. /\ pc' \in [Groups -> Steps] /\ pc'[g] = "closeInSweep"
          /\ \A h \in Groups \ {g} : pc'[h] = pc[h]
      BY <1>1, <2>1 DEF GoTo, Steps, PassOK
    <3>2. PassOK'
      BY <1>1, <2>1, <3>1 DEF PassOK
    <3> QED
      BY <1>1, <2>1, <3>1, <3>2, StartCloseKeepsGroups DEF SweepWorkers
  <2>2. CASE UNCHANGED bull /\ PassEnds(g)
    <3>1. PassOK' /\ pc'[g] \in CalmSteps /\ \A h \in Groups \ {g} : pc'[h] = pc[h]
      BY <1>1, <2>2, PassEndsFacts DEF CalmSteps
    <3>2. BullOK'
      BY <1>1, <2>2 DEF bull, BullOK
    <3> QED
      BY <1>1, <2>2, <3>1, <3>2, CalmStepKeepsGroups DEF SweepWorkers, redis, HoldsOrLapsed
  <2> QED
    BY <2>1, <2>2 DEF SweepWorkers
<1>3. TypeOK'
  BY <1>2, TypeParts, TypePartsPrime
     DEF SweepWorkers, Inv, redis, RedisOK, TokenOK, RenewalOK, ProcOK, MovesOK, FaultsOK
<1> QED
  BY <1>2, <1>3 DEF Inv

LEMMA IssueHandoffKeeps ==
  ASSUME Inv, NEW g \in Groups, IssueHandoff(g) PROVE Inv'
<1>1. PassOK /\ RedisOK /\ GroupInv(g) /\ closing[g] = None /\ pc[g] = "handoff"
  BY TypeParts, NoCloseElsewhere DEF Inv, IssueHandoff, At
<1>2. /\ PassOK' /\ pc'[g] = "release" /\ \A h \in Groups \ {g} : pc'[h] = pc[h]
  BY <1>1 DEF IssueHandoff, PassOK, GoTo, Steps
<1>3. RedisOK'
  BY <1>1 DEF IssueHandoff, PassOK, RedisOK
<1>4. TypeOK'
  BY <1>2, <1>3, TypeParts, TypePartsPrime
     DEF IssueHandoff, Inv, bull, BullOK, TokenOK, RenewalOK, ProcOK, MovesOK, FaultsOK
<1>5. \A h \in Groups : HoldsOrLapsed(h) => HoldsOrLapsed(h)'
  BY DEF IssueHandoff, HoldsOrLapsed
<1>6. GroupInv(g)'
  BY <1>1, <1>2
     DEF IssueHandoff, GroupInv, ClosingFollowsPass, RunningIsMapped, HandoffIsQuiet,
         ConsumerHoldsClaim, Consumes, Admits, Stopping, bull
<1>7. \A h \in Groups \ {g} : Untouched(h)
  BY <1>2 DEF IssueHandoff, Untouched, bull
<1> QED
  BY <1>4, <1>5, <1>6, <1>7, ActionKeepsGroups DEF Inv

\* A group without a worker does not need the claim.
LEMMA QuietGroup ==
  ASSUME Inv, NEW g \in Groups, pc[g] \in {"handoff", "release"}
  PROVE  ~Consumes(g)
BY GroupsAssumption
   DEF Inv, TypeOK, GroupInv, HandoffIsQuiet, RunningIsMapped, Consumes, None

\* Giving up the own claim takes nothing from others.
LEMMA ReleaseKeepsGroups ==
  ASSUME Inv, NEW g \in Groups, pc[g] \in {"handoff", "release"}, pc'[g] \in CalmSteps,
         \A h \in Groups \ {g} : pc'[h] = pc[h],
         UNCHANGED <<proc, bull, lapsed>>,
         claim' = claim \/ (Matches(g, token[g]) /\ claim' = NoClaim)
  PROVE  \A h \in Groups : GroupInv(h)'
<1>1. ~Consumes(g) /\ closing[g] = None /\ GroupInv(g)
  BY QuietGroup, NoCloseElsewhere DEF Inv
<1>2. GroupInv(g)'
  BY <1>1
     DEF GroupInv, ClosingFollowsPass, RunningIsMapped, HandoffIsQuiet,
         ConsumerHoldsClaim, Consumes, Admits, Stopping, CalmSteps, bull
<1>3. \A h \in Groups \ {g} : Untouched(h) /\ (HoldsOrLapsed(h) => HoldsOrLapsed(h)')
  BY DEF Untouched, HoldsOrLapsed, Matches, bull
<1> QED
  BY <1>2, <1>3, ActionKeepsGroups

LEMMA ReleaseClaimKeeps ==
  ASSUME Inv, NEW g \in Groups, ReleaseClaim(g) PROVE Inv'
<1>1. PassOK /\ RedisOK /\ TokenOK /\ pc[g] = "release"
  BY TypeParts DEF Inv, ReleaseClaim, At
<1>2. PassOK' /\ pc'[g] \in CalmSteps /\ \A h \in Groups \ {g} : pc'[h] = pc[h]
  BY <1>1, SweepFacts DEF ReleaseClaim, CalmSteps
<1>3. RedisOK' /\ TokenOK'
  BY <1>1 DEF ReleaseClaim, RedisOK, TokenOK, NoClaim
<1>4. TypeOK'
  BY <1>2, <1>3, TypeParts, TypePartsPrime
     DEF ReleaseClaim, Inv, bull, BullOK, RenewalOK, ProcOK, MovesOK, FaultsOK
<1>5. \A h \in Groups : GroupInv(h)'
  BY <1>1, <1>2, ReleaseKeepsGroups DEF ReleaseClaim
<1> QED
  BY <1>4, <1>5 DEF Inv

LEMMA SyncErrorKeeps ==
  ASSUME Inv, NEW g \in Groups, SyncError(g) PROVE Inv'
<1>1. /\ PassOK /\ RedisOK /\ FaultsOK
      /\ pc[g] \in {"bootHandoffs", "bootClaim", "claims", "handoffs",
                    "plan", "handoff", "release", "claim"}
      /\ closing[g] = None
  BY TypeParts, NoCloseElsewhere DEF Inv, SyncError
<1>2. PassOK' /\ pc'[g] \in CalmSteps /\ \A h \in Groups \ {g} : pc'[h] = pc[h]
  BY <1>1, PassEndsFacts DEF SyncError, CalmSteps
<1>3. UNCHANGED <<proc, token, renewal, bull, moves>> /\ FaultsOK'
  BY <1>1, FaultType DEF SyncError
<1>4. RedisOK' /\ \A h \in Groups : GroupInv(h)'
  <2>1. CASE UNCHANGED redis
    BY <1>1, <1>2, <1>3, <2>1, CalmStepKeepsGroups DEF redis, RedisOK, HoldsOrLapsed
  <2>2. CASE token[g] = None /\ Claimable(g) /\ ClaimScript(g)
    <3>1. RedisOK' /\ \A h \in Groups : HoldsOrLapsed(h) => HoldsOrLapsed(h)'
      BY <2>2, ClaimScriptFacts DEF Inv
    <3> QED
      BY <1>1, <1>2, <1>3, <3>1, CalmStepKeepsGroups
  <2>3. CASE handoff' = plan[g].desired /\ UNCHANGED <<claim, beat, lapsed>>
    <3>1. RedisOK'
      BY <1>1, <2>3 DEF RedisOK, PassOK
    <3> QED
      BY <1>1, <1>2, <1>3, <2>3, <3>1, CalmStepKeepsGroups DEF HoldsOrLapsed
  <2>4. CASE /\ pc[g] = "release" /\ Matches(g, token[g]) /\ claim' = NoClaim
             /\ UNCHANGED <<handoff, beat, lapsed>>
    <3>1. RedisOK'
      BY <1>1, <2>4 DEF RedisOK, NoClaim
    <3> QED
      BY <1>2, <1>3, <2>4, <3>1, ReleaseKeepsGroups
  <2> QED
    BY <2>1, <2>2, <2>3, <2>4 DEF SyncError
<1>5. TypeOK'
  BY <1>2, <1>3, <1>4, TypeParts, TypePartsPrime
     DEF Inv, bull, BullOK, TokenOK, RenewalOK, ProcOK, MovesOK
<1> QED
  BY <1>4, <1>5 DEF Inv

\* Steps of the timers and the clock that move neither worker, pass nor claim.
TimerStep(g) ==
  \/ Keepalive(g) \/ KeepaliveRenews(g) \/ HeartbeatExpires(g) \/ CooldownEnds(g)
  \/ HandoffExpires

LEMMA TimerStepKeeps ==
  ASSUME Inv, NEW g \in Groups, TimerStep(g) PROVE Inv'
<1>1. /\ RedisOK /\ BullOK /\ PassOK /\ TokenOK /\ RenewalOK /\ ProcOK
      /\ MovesOK /\ FaultsOK
  BY TypeParts DEF Inv
<1>2. TypeOK'
  <2>1. CASE Keepalive(g)
    <3>1. RedisOK' /\ RenewalOK'
      BY <1>1, <2>1 DEF Keepalive, RedisOK, RenewalOK, TokenOK
    <3> QED
      BY <1>1, <2>1, <3>1, TypePartsPrime
         DEF Keepalive, bull, pass, BullOK, PassOK, TokenOK, ProcOK, MovesOK, FaultsOK
  <2>2. CASE KeepaliveRenews(g)
    <3>1. TokenOK' /\ RenewalOK'
      BY <1>1, <2>2 DEF KeepaliveRenews, TokenOK, RenewalOK
    <3> QED
      BY <1>1, <2>2, <3>1, TypePartsPrime
         DEF KeepaliveRenews, redis, bull, pass, RedisOK, BullOK, PassOK, ProcOK,
             MovesOK, FaultsOK
  <2>3. CASE HeartbeatExpires(g)
    <3>1. RedisOK'
      BY <1>1, <2>3 DEF HeartbeatExpires, RedisOK
    <3>2. FaultsOK'
      BY <1>1, <2>3, FaultType DEF HeartbeatExpires, FaultsOK
    <3> QED
      BY <1>1, <2>3, <3>1, <3>2, TypePartsPrime
         DEF HeartbeatExpires, bull, pass, BullOK, PassOK, TokenOK, RenewalOK,
             ProcOK, MovesOK
  <2>4. CASE CooldownEnds(g)
    <3>1. BullOK'
      BY <1>1, <2>4 DEF CooldownEnds, BullOK
    <3> QED
      BY <1>1, <2>4, <3>1, TypePartsPrime
         DEF CooldownEnds, redis, pass, RedisOK, PassOK, TokenOK, RenewalOK,
             ProcOK, MovesOK, FaultsOK
  <2>5. CASE HandoffExpires
    <3>1. RedisOK'
      BY <1>1, <2>5 DEF HandoffExpires, RedisOK
    <3> QED
      BY <1>1, <2>5, <3>1, TypePartsPrime
         DEF HandoffExpires, bull, pass, BullOK, PassOK, TokenOK, RenewalOK,
             ProcOK, MovesOK, FaultsOK
  <2> QED
    BY <2>1, <2>2, <2>3, <2>4, <2>5 DEF TimerStep
<1>3. UNCHANGED <<workers, wst, closing, pc, proc, claim, lapsed>>
  BY DEF TimerStep, Keepalive, KeepaliveRenews, HeartbeatExpires, CooldownEnds,
         HandoffExpires, redis, bull, pass
<1> QED
  BY <1>2, <1>3, FrameKeepsGroups DEF Inv

LEMMA ClaimExpiresKeeps == ASSUME Inv, ClaimExpires PROVE Inv'
<1>1. RedisOK /\ FaultsOK
  BY TypeParts DEF Inv
<1>2. RedisOK'
  BY <1>1 DEF ClaimExpires, RedisOK, NoClaim
<1>3. FaultsOK'
  BY <1>1, FaultType DEF ClaimExpires, FaultsOK
<1>4. TypeOK'
  BY <1>2, <1>3, TypeParts, TypePartsPrime
     DEF ClaimExpires, Inv, bull, pass, BullOK, PassOK, TokenOK, RenewalOK, ProcOK, MovesOK
<1>5. \A h \in Groups : Untouched(h) /\ (HoldsOrLapsed(h) => HoldsOrLapsed(h)')
  BY <1>1 DEF ClaimExpires, Untouched, HoldsOrLapsed, RedisOK, bull, pass
<1> QED
  BY <1>4, <1>5, UntouchedKeepsInv DEF Inv

\* A worker that has ended changes nothing for the claim.
LEMMA WorkerClosesKeeps ==
  ASSUME Inv, NEW g \in Groups, NEW s \in Slots, WorkerCloses(g, s) PROVE Inv'
<1>1. BullOK /\ GroupInv(g)
  BY TypeParts DEF Inv
<1>2. BullOK'
  BY <1>1 DEF WorkerCloses, BullOK
<1>3. TypeOK'
  BY <1>2, TypeParts, TypePartsPrime
     DEF WorkerCloses, Inv, redis, pass, RedisOK, PassOK, TokenOK, RenewalOK,
         ProcOK, MovesOK, FaultsOK
<1>4. \A r \in Slots : wst'[g][r] # "off" => wst'[g][r] = wst[g][r]
  BY <1>1 DEF WorkerCloses, BullOK
<1>5. GroupInv(g)'
  BY <1>1, <1>4
     DEF WorkerCloses, GroupInv, ClosingFollowsPass, RunningIsMapped,
         HandoffIsQuiet, ConsumerHoldsClaim, Consumes, Admits, Stopping, redis, pass
<1>6. \A h \in Groups \ {g} : Untouched(h) /\ (HoldsOrLapsed(h) => HoldsOrLapsed(h)')
  BY <1>1 DEF WorkerCloses, Untouched, HoldsOrLapsed, redis, pass, BullOK
<1> QED
  BY <1>3, <1>5, <1>6, ActionKeepsGroups DEF Inv

LEMMA LateCloseKeeps ==
  ASSUME Inv, NEW g \in Groups, NEW s \in Slots, LateClose(g, s) PROVE Inv'
<1>1. BullOK /\ GroupInv(g)
  BY TypeParts DEF Inv
<1>2. /\ UNCHANGED <<redis, proc, token, renewal, wst, closing, pass, moves, faults>>
      /\ wst[g][s] = "off"
      /\ \/ workers[g] = s /\ workers' = [workers EXCEPT ![g] = None]
         \/ workers' = workers
  BY DEF LateClose, ForgetClosedWorker
<1>3. BullOK'
  BY <1>1 DEF LateClose, ForgetClosedWorker, BullOK
<1>4. TypeOK'
  BY <1>2, <1>3, TypeParts, TypePartsPrime
     DEF Inv, redis, pass, RedisOK, PassOK, TokenOK, RenewalOK, ProcOK, MovesOK, FaultsOK
<1>5. GroupInv(g)'
  <2>1. /\ workers'[g] = workers[g] \/ (workers[g] = s /\ workers'[g] = None)
        /\ None \notin Slots
    BY <1>1, <1>2, GroupsAssumption DEF BullOK, None
  <2>2. RunningIsMapped(g)' /\ (Consumes(g)' => Consumes(g))
    BY <1>1, <1>2, <2>1 DEF GroupInv, RunningIsMapped, Consumes
  <2> QED
    BY <1>1, <1>2, <2>1, <2>2
       DEF GroupInv, ClosingFollowsPass, HandoffIsQuiet, ConsumerHoldsClaim,
           Admits, Stopping, redis, pass
<1>6. \A h \in Groups \ {g} : Untouched(h) /\ (HoldsOrLapsed(h) => HoldsOrLapsed(h)')
  BY <1>1, <1>2 DEF Untouched, HoldsOrLapsed, redis, pass, BullOK
<1> QED
  BY <1>4, <1>5, <1>6, ActionKeepsGroups DEF Inv

LEMMA ShutdownKeeps ==
  ASSUME Inv, NEW g \in Groups, Shutdown(g) PROVE Inv'
<1>1. BullOK /\ ProcOK /\ FaultsOK /\ GroupInv(g)
  BY TypeParts DEF Inv
<1>2. /\ UNCHANGED <<redis, token, renewal, workers, closing, late, cool, pass, moves>>
      /\ proc' = [proc EXCEPT ![g] = "stopping"]
      /\ \A h \in Groups \ {g} : wst'[h] = wst[h]
      /\ \A s \in Slots : wst'[g][s] = IF s = workers[g] /\ wst[g][s] = "running"
                                       THEN "paused" ELSE wst[g][s]
  BY <1>1 DEF Shutdown, BullOK
<1>3. BullOK' /\ ProcOK' /\ FaultsOK'
  BY <1>1, FaultType DEF Shutdown, BullOK, ProcOK
<1>4. TypeOK'
  BY <1>2, <1>3, TypeParts, TypePartsPrime
     DEF Inv, redis, pass, RedisOK, PassOK, TokenOK, RenewalOK, MovesOK
<1>5. GroupInv(g)'
  <2>1. \A s \in Slots : wst'[g][s] # "running"
    BY <1>1, <1>2 DEF GroupInv, RunningIsMapped
  <2>2. Consumes(g)' => Consumes(g)
    BY <1>2, <2>1 DEF Consumes
  <2> QED
    BY <1>1, <1>2, <2>1, <2>2
       DEF GroupInv, ClosingFollowsPass, RunningIsMapped, HandoffIsQuiet,
           ConsumerHoldsClaim, Admits, redis, pass
<1>6. \A h \in Groups \ {g} : Untouched(h) /\ (HoldsOrLapsed(h) => HoldsOrLapsed(h)')
  BY <1>1, <1>2 DEF Untouched, HoldsOrLapsed, redis, pass, ProcOK
<1> QED
  BY <1>4, <1>5, <1>6, ActionKeepsGroups DEF Inv

LEMMA ExitKeeps ==
  ASSUME Inv, NEW g \in Groups, Exit(g) PROVE Inv'
<1>1. BullOK /\ ProcOK /\ TokenOK /\ RenewalOK /\ PassOK /\ FaultsOK
  BY TypeParts DEF Inv
<1>2. PassOK' /\ pc'[g] = "idle" /\ \A h \in Groups \ {g} : pc'[h] = pc[h]
  BY <1>1, PassEndsFacts DEF Exit
<1>3. BullOK' /\ ProcOK' /\ TokenOK' /\ RenewalOK'
  BY <1>1 DEF Exit, BullOK, ProcOK, TokenOK, RenewalOK
<1>4. FaultsOK'
  BY <1>1, FaultType DEF Exit, FaultsOK
<1>5. TypeOK'
  BY <1>2, <1>3, <1>4, TypeParts, TypePartsPrime DEF Exit, Inv, redis, RedisOK, MovesOK
<1>6. /\ workers'[g] = None /\ closing'[g] = None
      /\ \A s \in Slots : wst'[g][s] = "off"
      /\ \A h \in Groups \ {g} : BullUntouched(h) /\ proc'[h] = proc[h]
  BY <1>1 DEF Exit, BullOK, ProcOK, BullUntouched
<1>7. GroupInv(g)'
  BY <1>2, <1>6
     DEF GroupInv, ClosingFollowsPass, RunningIsMapped, HandoffIsQuiet,
         ConsumerHoldsClaim, Consumes, Admits
<1>8. \A h \in Groups \ {g} : Untouched(h) /\ (HoldsOrLapsed(h) => HoldsOrLapsed(h)')
  BY <1>2, <1>6 DEF Exit, Untouched, BullUntouched, HoldsOrLapsed, redis
<1> QED
  BY <1>5, <1>7, <1>8, ActionKeepsGroups DEF Inv

LEMMA RestartKeeps ==
  ASSUME Inv, NEW g \in Groups, Restart(g) PROVE Inv'
<1>1. ProcOK /\ GroupInv(g)
  BY TypeParts DEF Inv
<1>2. ProcOK'
  BY <1>1 DEF Restart, ProcOK
<1>3. TypeOK'
  BY <1>2, TypeParts, TypePartsPrime
     DEF Restart, Inv, redis, bull, pass, RedisOK, BullOK, PassOK, TokenOK,
         RenewalOK, MovesOK, FaultsOK
<1>4. GroupInv(g)'
  BY <1>1
     DEF Restart, ProcOK, GroupInv, ClosingFollowsPass, RunningIsMapped,
         HandoffIsQuiet, ConsumerHoldsClaim, Consumes, Admits, Stopping,
         redis, bull, pass
<1>5. \A h \in Groups \ {g} : Untouched(h) /\ (HoldsOrLapsed(h) => HoldsOrLapsed(h)')
  BY <1>1 DEF Restart, Untouched, HoldsOrLapsed, redis, bull, pass, ProcOK
<1> QED
  BY <1>3, <1>4, <1>5, ActionKeepsGroups DEF Inv

LEMMA StutterKeeps == ASSUME Inv, UNCHANGED vars PROVE Inv'
<1>1. TypeOK'
  BY DEF Inv, TypeOK, vars, redis, bull, pass
<1> QED
  BY <1>1, FrameKeepsGroups DEF Inv, vars, redis, bull, pass

LEMMA NextKeeps == ASSUME Inv, [Next]_vars PROVE Inv'
<1>1. CASE ClaimExpires
  BY <1>1, ClaimExpiresKeeps
<1>2. CASE HandoffExpires
  BY <1>2, TimerStepKeeps, GroupsAssumption DEF TimerStep
<1>3. ASSUME NEW g \in Groups, SyncStep(g) PROVE Inv'
  BY <1>3, BootHandoffsKeeps, BootClaimKeeps, BootEnsureKeeps, ReadClaimsKeeps,
     ReadHandoffsKeeps, MakePlanKeeps, TurnKeeps, CloseForHandoffEndsKeeps,
     IssueHandoffKeeps, ReleaseClaimKeeps, ClaimKeeps, EnsureKeeps,
     SweepWorkersKeeps, SweepEndsKeeps DEF SyncStep
<1>4. ASSUME NEW g \in Groups,
             \/ SyncStart(g) \/ SyncError(g)
             \/ Keepalive(g) \/ KeepaliveRenews(g) \/ HeartbeatExpires(g)
             \/ CooldownEnds(g) \/ Shutdown(g) \/ Exit(g) \/ Restart(g)
             \/ \E s \in Slots : WorkerCloses(g, s) \/ LateClose(g, s)
      PROVE  Inv'
  BY <1>4, SyncStartKeeps, SyncErrorKeeps, TimerStepKeeps, ShutdownKeeps, ExitKeeps,
     RestartKeeps, WorkerClosesKeeps, LateCloseKeeps DEF TimerStep
<1>5. CASE UNCHANGED vars
  BY <1>5, StutterKeeps
<1> QED
  BY <1>1, <1>2, <1>3, <1>4, <1>5 DEF Next

\* The invariant holds in every state.
THEOREM Invariance == Spec => []Inv
BY InitInv, NextKeeps, PTL DEF Spec

(***************************************************************************)
(* The properties of the runs, for all constants.                          *)
(***************************************************************************)

\* Every variable stays in its set.
THEOREM TypeCorrect == Spec => []TypeOK
<1>1. Inv => TypeOK
  BY DEF Inv
<1> QED
  BY <1>1, Invariance, PTL

\* A group that may be working on jobs of the shard has the claim in Redis, or
\* it ran out: no handover, failed call, hung close or restart leaves a group at
\* work whose claim was given away.
ConsumersHoldClaims ==
  \A g \in Groups : Consumes(g) => lapsed[g] \/ claim.owner = g

THEOREM ConsumersHold == Spec => []ConsumersHoldClaims
<1>1. Inv => ConsumersHoldClaims
  BY DEF Inv, GroupInv, ConsumerHoldsClaim, ConsumersHoldClaims
<1> QED
  BY <1>1, Invariance, PTL

\* Two groups work on one shard only after the lease of one of them ran out.
THEOREM ConsumersExcludeEachOther == Spec => []OneConsumer
<1>1. Inv => OneConsumer
  BY DEF Inv, GroupInv, ConsumerHoldsClaim, OneConsumer
<1> QED
  BY <1>1, Invariance, PTL

\* Every worker that takes jobs is the one closeWorker and the shutdown find in
\* the map, however late closes and replacements interleave.
THEOREM WorkersAreKnown == Spec => []NoForgottenWorker
<1>1. Inv => NoForgottenWorker
  BY DEF Inv, GroupInv, RunningIsMapped, NoForgottenWorker
<1> QED
  BY <1>1, Invariance, PTL

\* No worker takes jobs after stopWorkerAdmission and the pause of the drain,
\* wherever the sync pass stood then.
THEOREM StopIsFinal == Spec => []StoppedStaysStopped
<1>1. Inv => StoppedStaysStopped
  BY DEF Inv, GroupInv, StoppedStaysStopped
<1> QED
  BY <1>1, Invariance, PTL
==============================================================================
