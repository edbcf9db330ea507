------------------------- MODULE SpecLifecycle_proofs -------------------------
(***************************************************************************)
(* The specs of a suite run, whatever the tests, their options and the      *)
(* processes: each test walks through the shadows of its scripts            *)
(* (TestScripts_proofs), whatever the others and the cluster do meanwhile,  *)
(* and that is why Cleanup leaves nothing and takes nothing from anybody.   *)
(***************************************************************************)
EXTENDS SpecLifecycle, TestScripts_proofs, FiniteSetTheorems

-----------------------------------------------------------------------------
(* Where a test may be: the rules, the steps, the beginning and the end of  *)
(* each phase.                                                              *)

Phase == {"prepare", "create", "execute", "teardown", "cleanup"}

\* late: has the test failed?  ps are its pods.
RulesIn(t, ph, late) ==
    LET o == TOptions[t] IN
    CASE ph = "prepare"               -> Rules(t, o, Surroundings(t, o), {}, {})
      [] ph \in {"create", "teardown"} -> Rules(t, o, {Workflow(t)}, {}, Mid(t, o))
      [] ph = "execute"               -> Rules(t, o, Whole(t, o), {}, Mid(t, o))
      [] ph = "cleanup"               -> CleanupRules(t, o, Only(late /\ o.cleanupPersistent, {OwnFileSystem(o)}))

StepsIn(t, ph, ps) ==
    LET o == TOptions[t] IN
    CASE ph = "prepare"  -> Prepare(t, o)
      [] ph = "create"   -> Create(Workflow(t))
      [] ph = "execute"  -> Execute(t, o)
      [] ph = "teardown" -> Teardown(t, o)
      [] ph = "cleanup"  -> Cleanup(t, o, ps)

StartIn(t, ph, ps, late) ==
    LET o == TOptions[t] IN
    CASE ph = "prepare"  -> Between({}, {}, {}, <<>>)
      [] ph = "create"   -> AtCreate(t, o)
      [] ph = "execute"  -> AtExecute(t, o)
      [] ph = "teardown" -> AtTeardown(t, o)
      [] ph = "cleanup"  -> {x \in IF late THEN Mid(t, o) ELSE AtCleanup(t, o) : x.pods = ps}

GoalIn(t, ph, ps) ==
    LET o == TOptions[t] IN
    CASE ph = "prepare"  -> AtCreate(t, o)
      [] ph = "create"   -> AtExecute(t, o)
      [] ph = "execute"  -> AtTeardown(t, o)
      [] ph = "teardown" -> AtCleanup(t, o)
      [] ph = "cleanup"  -> Clean(t, o, ps)

\* With the shadow x the k-th step of the phase may begin.
On(t, ph, k, late, ps, x) ==
    LET c == RulesIn(t, ph, late)
        s == StepsIn(t, ph, ps)
    IN  /\ s \in Seq(StepOn(c.objects))
        /\ \E A : A[Len(s) + 1] \subseteq GoalIn(t, ph, ps) /\ Annotates(c, s, A) /\ x \in A[k]

\* What is assumed of the options of a test.
LEMMA Options ==
    ASSUME NEW t \in Test
    PROVE  /\ WellFormed(TOptions[t]) /\ Distinct(TOptions[t])
           /\ TOptions[t].externalMgs => TOptions[t].persistentLustre # NoName
  BY OptionsAssumption, DistinctAssumption, ExternalMgsAssumption

LEMMA LeadsOn ==
    ASSUME NEW t, NEW ph, NEW late, NEW ps, NEW P, NEW x \in P,
           Leads(RulesIn(t, ph, late), P, StepsIn(t, ph, ps), GoalIn(t, ph, ps))
    PROVE  On(t, ph, 1, late, ps, x)
  BY DEF Leads, On

\* A phase that begins as it should is on its way.
LEMMA Enter ==
    ASSUME NEW t \in Test, NEW ph \in Phase, NEW late \in BOOLEAN, NEW ps,
           NEW x \in StartIn(t, ph, ps, late)
    PROVE  On(t, ph, 1, late, ps, x)
  <1> DEFINE o == TOptions[t]
  <1>1. WellFormed(o) /\ Distinct(o) /\ (o.externalMgs => o.persistentLustre # NoName)
    BY Options
  <1>2. CASE ph = "prepare"
    <2>1. Leads(Rules(t, o, Surroundings(t, o), {}, {}), Between({}, {}, {}, <<>>), Prepare(t, o),
                AtCreate(t, o))
      BY <1>1, PrepareLeads DEF AtCreate
    <2> QED BY <1>2, <2>1, LeadsOn DEF RulesIn, StepsIn, StartIn, GoalIn
  <1>3. CASE ph = "create"
    BY <1>1, <1>3, CreateLeads, LeadsOn DEF RulesIn, StepsIn, StartIn, GoalIn
  <1>4. CASE ph = "execute"
    BY <1>1, <1>4, ExecuteLeads, LeadsOn DEF RulesIn, StepsIn, StartIn, GoalIn
  <1>5. CASE ph = "teardown"
    BY <1>5, TeardownLeads, LeadsOn DEF RulesIn, StepsIn, StartIn, GoalIn
  <1>6. CASE ph = "cleanup" /\ late
    <2> DEFINE free == Only(o.cleanupPersistent, {OwnFileSystem(o)})
    <2>1. PICK outs, list : PodList(t, o, outs, list) /\ x \in Midway(t, o, outs, list)
      BY <1>6 DEF StartIn, Mid, PodList
    <2>2. list = ps
      BY <1>6, <2>1 DEF StartIn, Midway, Between
    <2> DEFINE all == Prepared(t, o) \cup outs
               P   == Between(all \cup {}, all \cup {Workflow(t), OwnFileSystem(o)},
                              PoolCreators(o, o.mgsPool.count) \cup {Workflow(t)}, list)
    <2>3. Leads(CleanupRules(t, o, free), P, Cleanup(t, o, list), Clean(t, o, list))
      <3>1. /\ {} \in SUBSET {OwnFileSystem(o)}
            /\ o.cleanupPersistent => OwnFileSystem(o) \in {} \cup free
        BY DEF Only
      <3> HIDE DEF o, free
      <3> QED BY <1>1, <2>1, <3>1, CleanupLeads
    <2>4. x \in P
      <3>1. all \cup {} = all
        OBVIOUS
      <3> QED BY <2>1, <3>1 DEF Midway
    <2> HIDE DEF P
    <2> QED BY <1>6, <2>2, <2>3, <2>4, LeadsOn DEF RulesIn, StepsIn, GoalIn, Only
  <1>7. CASE ph = "cleanup" /\ ~late
    <2> DEFINE outs == OutPods(t, o)
               list == AllList(t, o)
               own  == Own(o)
               all == Prepared(t, o) \cup outs
               g   == PoolCreators(o, o.mgsPool.count) \cup {Workflow(t)}
               P   == Between(all \cup own, all \cup {Workflow(t), OwnFileSystem(o)}, g, list)
    <2>1. x \in AtCleanup(t, o) /\ x.pods = ps
      BY <1>7 DEF StartIn
    <2>2. list = ps
      BY <2>1 DEF AtCleanup, Between
    <2>3. own \subseteq {OwnFileSystem(o)} /\ (o.createPersistent # NoName => OwnFileSystem(o) \in own)
      BY DEF Own, Only
    <2>4. Leads(CleanupRules(t, o, {}), P, Cleanup(t, o, list), Clean(t, o, list))
      <3>1. own \in SUBSET {OwnFileSystem(o)}
        BY <2>3
      <3>2. o.cleanupPersistent => OwnFileSystem(o) \in own \cup {}
        BY <1>1, <2>3 DEF WellFormed
      <3>3. PodList(t, o, outs, list)
        BY DEF PodList
      <3> HIDE DEF o, outs, list, own
      <3> QED BY <1>1, <3>1, <3>2, <3>3, CleanupLeads
    <2>5. AtCleanup(t, o) \subseteq P
      <3> DEFINE l == all \cup own
                 m == l \cup Only(~o.teardown, {Workflow(t)})
                 M == all \cup {Workflow(t), OwnFileSystem(o)}
      <3>1. m \subseteq M
        BY <2>3 DEF Only
      <3>2. AtCleanup(t, o) = Between(l, m, g, list) /\ P = Between(l, M, g, list)
        BY DEF AtCleanup
      <3> HIDE DEF l, m, M, list, g, P
      <3> QED BY <3>1, <3>2, BetweenWider
    <2>6. x \in P
      BY <2>1, <2>5
    <2> HIDE DEF P
    <2> QED BY <1>7, <2>2, <2>4, <2>6, LeadsOn DEF RulesIn, StepsIn, GoalIn, Only
  <1> QED BY <1>2, <1>3, <1>4, <1>5, <1>6, <1>7 DEF Phase

\* A step that the test does not block itself obeys the rules, and leads on.
LEMMA Advance ==
    ASSUME NEW t, NEW ph, NEW late, NEW ps, NEW k \in 1 .. Len(StepsIn(t, ph, ps)), NEW x,
           On(t, ph, k, late, ps, x), ~Blocked(RulesIn(t, ph, late), StepsIn(t, ph, ps)[k], x)
    PROVE  LET e == StepsIn(t, ph, ps)[k] IN
           /\ e \in StepOn(RulesIn(t, ph, late).objects)
           /\ Safe(RulesIn(t, ph, late), e, x)
           /\ On(t, ph, k + 1, late, ps, Effect(e, x))
  <1> DEFINE c == RulesIn(t, ph, late)
             s == StepsIn(t, ph, ps)
  <1>1. s \in Seq(StepOn(c.objects))
    BY DEF On
  <1>2. PICK A : A[Len(s) + 1] \subseteq GoalIn(t, ph, ps) /\ Annotates(c, s, A) /\ x \in A[k]
    BY DEF On
  <1>3. Safe(c, s[k], x) /\ Effect(s[k], x) \in A[k + 1]
    BY <1>2 DEF Annotates
  <1>4. On(t, ph, k + 1, late, ps, Effect(s[k], x))
    BY <1>1, <1>2, <1>3 DEF On
  <1>5. s[k] \in StepOn(c.objects)
    BY <1>1
  <1> QED BY <1>3, <1>4, <1>5

LEMMA Finish ==
    ASSUME NEW t, NEW ph, NEW late, NEW ps, NEW x,
           On(t, ph, Len(StepsIn(t, ph, ps)) + 1, late, ps, x)
    PROVE  x \in GoalIn(t, ph, ps)
  BY DEF On

LEMMA InMid ==
    ASSUME NEW t, NEW ph \in {"create", "execute", "teardown"}, NEW late, NEW ps,
           NEW k \in 1 .. Len(StepsIn(t, ph, ps)) + 1, NEW x, On(t, ph, k, late, ps, x)
    PROVE  x \in Mid(t, TOptions[t])
  <1> DEFINE c == RulesIn(t, ph, late)
             s == StepsIn(t, ph, ps)
  <1>1. c.within = Mid(t, TOptions[t])
    BY DEF RulesIn, Rules
  <1>2. PICK A : Annotates(c, s, A) /\ x \in A[k]
    BY DEF On
  <1> HIDE DEF c
  <1>3. Within(c, A[k])
    BY <1>2 DEF Annotates
  <1> QED BY <1>1, <1>2, <1>3, MidThere DEF Within

\* The end of a phase is a beginning of the next.
LEMMA NextStart ==
    ASSUME NEW t, NEW ph \in Phase \ {"cleanup"}, NEW ps, NEW x \in GoalIn(t, ph, ps), x.pods = ps
    PROVE  NextPhase(ph) \in Phase /\ x \in StartIn(t, NextPhase(ph), ps, FALSE)
  BY DEF Phase, GoalIn, NextPhase, StartIn

\* Before Cleanup the pods do not matter.
LEMMA OnPods ==
    ASSUME NEW t, NEW ph \in Phase \ {"cleanup"}, NEW k, NEW late, NEW ps, NEW qs, NEW x,
           On(t, ph, k, late, ps, x)
    PROVE  On(t, ph, k, late, qs, x) /\ StepsIn(t, ph, qs) = StepsIn(t, ph, ps)
  <1>1. StepsIn(t, ph, qs) = StepsIn(t, ph, ps) /\ GoalIn(t, ph, qs) = GoalIn(t, ph, ps)
    BY DEF Phase, StepsIn, GoalIn
  <1> QED BY <1>1 DEF On

-----------------------------------------------------------------------------
(* The objects of the tests. *)

LEMMA ObjectsOf ==
    ASSUME NEW t \in Test
    PROVE  LET O == Objects(t, TOptions[t]) IN
           /\ O \subseteq Object /\ O \subseteq Whole(t, TOptions[t]) /\ Workflow(t) \in O
           /\ \A ph \in Phase, ps \in Seq(O) : StepsIn(t, ph, ps) \in Seq(StepOn(O))
  <1> DEFINE o == TOptions[t]
             O == Objects(t, o)
  <1>1. WellFormed(o)
    BY Options
  <1>2. O \subseteq Object
    BY DEF Object
  <1>3. /\ O \subseteq Whole(t, o) /\ Workflow(t) \in O
        /\ Prepare(t, o) \in Seq(StepOn(O)) /\ Create(Workflow(t)) \in Seq(StepOn(O))
        /\ Execute(t, o) \in Seq(StepOn(O)) /\ Teardown(t, o) \in Seq(StepOn(O))
        /\ \A ps \in Seq(O) : Cleanup(t, o, ps) \in Seq(StepOn(O))
    BY <1>1, ObjectSteps
  <1>4. ASSUME NEW ph \in Phase, NEW ps \in Seq(O) PROVE StepsIn(t, ph, ps) \in Seq(StepOn(O))
    <2> HIDE DEF O
    <2> QED BY <1>3 DEF Phase, StepsIn, o
  <1> QED BY <1>2, <1>3, <1>4

\* The workflow of a test is no object of another one.
LEMMA Foreign ==
    ASSUME NEW t \in Test, NEW u \in Test, u # t
    PROVE  Workflow(t) \notin Objects(u, TOptions[u])
  <1>1. Objects(u, TOptions[u]) \subseteq Whole(u, TOptions[u])
    BY ObjectsOf
  <1>2. Workflow(t)[1] = "workflow" /\ Workflow(t) # Workflow(u)
    BY DEF Workflow
  <1> QED BY <1>1, <1>2, WholeMembers

\* A file system is among the objects only if it has a name.
LEMMA Named ==
    /\ \A name : Persistent(name) \in Object => name # NoName
    /\ \A o : GlobalLustre(o) \in Object => o.globalLustre # NoName
  <1>1. ASSUME NEW x \in Object
        PROVE  \E u \in Test : x \in Whole(u, TOptions[u])
    <2>1. PICK u \in Test : x \in Objects(u, TOptions[u])
      BY DEF Object
    <2> QED BY <2>1, ObjectsOf
  <1>2. ASSUME NEW name, Persistent(name) \in Object PROVE name # NoName
    <2>1. PICK u \in Test : Persistent(name) \in Whole(u, TOptions[u])
      BY <1>1, <1>2
    <2> DEFINE o == TOptions[u]
    <2>2. /\ Persistent(name)[1] = "persistent lustre" /\ Persistent(name)[2] = name
          /\ FileSystem(o)[2] = o.persistentLustre /\ OwnFileSystem(o)[2] = o.createPersistent
      BY DEF Persistent, FileSystem, OwnFileSystem
    <2> QED BY <2>1, <2>2, WholeMembers
  <1>3. ASSUME NEW o, GlobalLustre(o) \in Object PROVE o.globalLustre # NoName
    <2>1. PICK u \in Test : GlobalLustre(o) \in Whole(u, TOptions[u])
      BY <1>1, <1>3
    <2>2. /\ GlobalLustre(o)[1] = "global lustre" /\ GlobalLustre(o)[2] = o.globalLustre
          /\ GlobalLustre(TOptions[u])[2] = TOptions[u].globalLustre
      BY DEF GlobalLustre
    <2> QED BY <2>1, <2>2, WholeMembers
  <1> QED BY <1>2, <1>3

LEMMA PrerequisitesOf ==
    ASSUME NEW t \in Test, NEW p \in Prerequisites(t)
    PROVE  LET o == TOptions[t] IN
           p \in Profiles(o) \cup ContainerProfiles(o) \cup Lustre(o) \cup Global(o)
                 \cup Pool(o, o.mgsPool.count)
  <1> DEFINE o == TOptions[t]
  <1>1. /\ p \in Object
        /\ \/ o.storageProfile # NoName /\ p = Profile(o.storageProfile)
           \/ o.containerProfile # NoName /\ p = ContainerProfile(o.containerProfile)
           \/ p \in {FileSystem(o), GlobalLustre(o)}
           \/ \E k \in 1 .. o.mgsPool.count : p = MgsFileSystem(o, k)
    BY DEF Prerequisites
  <1>2. p = FileSystem(o) => p \in Lustre(o)
    BY <1>1, Named DEF Lustre, FileSystem, Only
  <1>3. p = GlobalLustre(o) => p \in Global(o)
    BY <1>1, Named DEF Global, Only
  <1>4. \A k \in 1 .. o.mgsPool.count : MgsFileSystem(o, k) \in Pool(o, o.mgsPool.count)
    BY DEF Pool
  <1> QED BY <1>1, <1>2, <1>3, <1>4 DEF Profiles, ContainerProfiles, Only

LEMMA LivesOf ==
    ASSUME NEW t \in Test, NEW q \in Lives[t]
    PROVE  q \in MakingNeeds(t, TOptions[t])
           /\ (q \in LivingNeeds(t, TOptions[t]) \/ (q[1] = Workflow(t) /\ q[2] \in Prerequisites(t)))
  <1>1. q \in LivesOn(t)
    BY DEF Lives, Among
  <1>2. \/ q \in {Workflow(t)} \X Prerequisites(t)
        \/ q \in LivingNeeds(t, TOptions[t])
    BY <1>1 DEF LivesOn, LivingNeeds
  <1>3. ASSUME q \in LivingNeeds(t, TOptions[t]) PROVE q \in MakingNeeds(t, TOptions[t])
    BY <1>3 DEF LivingNeeds, MakingNeeds
  <1>4. ASSUME q \in {Workflow(t)} \X Prerequisites(t)
        PROVE  q \in MakingNeeds(t, TOptions[t]) /\ q[1] = Workflow(t) /\ q[2] \in Prerequisites(t)
    <2>1. q = <<q[1], q[2]>> /\ q[1] = Workflow(t) /\ q[2] \in Prerequisites(t)
      BY <1>4
    <2>2. q[2] \in Profiles(TOptions[t]) \cup ContainerProfiles(TOptions[t]) \cup Lustre(TOptions[t])
                   \cup Global(TOptions[t]) \cup Pool(TOptions[t], TOptions[t].mgsPool.count)
      BY <2>1, PrerequisitesOf
    <2> QED BY <2>1, <2>2 DEF MakingNeeds
  <1> QED BY <1>2, <1>3, <1>4

LEMMA BondsOf ==
    ASSUME NEW t \in Test, NEW q \in Bonds[t] PROVE q \in MakingNeeds(t, TOptions[t])
  <1>1. q \in Among(LivesOn(t) \cup MadeFrom(t))
    BY DEF Bonds
  <1>2. ASSUME q \in LivesOn(t) PROVE q \in MakingNeeds(t, TOptions[t])
    <2>1. q \in Lives[t]
      BY <1>1, <1>2 DEF Lives, Among
    <2> QED BY <2>1, LivesOf
  <1>3. ASSUME q \in MadeFrom(t) PROVE q \in MakingNeeds(t, TOptions[t])
    BY <1>3 DEF MadeFrom, MakingNeeds, Only
  <1> QED BY <1>1, <1>2, <1>3 DEF Among

-----------------------------------------------------------------------------
(* The inductive invariant. *)

Stands == {"waiting", "prepare", "create", "execute", "teardown", "cleanup", "done"}

\* What a test has made and nobody has deleted yet, and what is on its way out.
Held(t)    == {o \in Object : owner[o] = t /\ life[o] = "present"}
Leaving(t) == {o \in Object : owner[o] = t /\ life[o] = "deleting"}

\* The shadow x is that of the test as it is, but for what another test may have
\* destroyed.  If WaitForDeletion may be mistaken, the test does not know what is on
\* its way out.
Matches(t, x) ==
    /\ Held(t) \subseteq x.held /\ x.held \ Held(t) \subseteq Exposed
    /\ x.pods = pods[t]
    /\ ~Flaky => Leaving(t) \subseteq x.going \cup (x.held \cap Exposed)

Types ==
    /\ phase \in [Test -> Stands] /\ n \in [Test -> Nat \ {0}] /\ failed \in [Test -> BOOLEAN]
    /\ pods \in [Test -> UNION {HelperPods(t) : t \in Test}]
    /\ life \in [Object -> {"absent", "present", "deleting"}]
    /\ owner \in [Object -> Test \cup {NoName}]
    /\ kind \in BOOLEAN

\* Its pods are its own.
Podded(t) == pods[t] \in HelperPods(t) /\ pods[t] \in Seq(Objects(t, TOptions[t]))

\* It stands where its steps have led it.
Placed(t) ==
    phase[t] \in Phase =>
        /\ n[t] \in 1 .. Len(StepsIn(t, phase[t], pods[t])) + 1
        /\ \E x : On(t, phase[t], n[t], failed[t], pods[t], x) /\ Matches(t, x)

\* It has made nothing yet.
Fresh(t) ==
    phase[t] = "waiting" => n[t] = 1 /\ pods[t] = <<>> /\ \A o \in Object : owner[o] # t

FailedLate(t) == failed[t] => phase[t] \in {"cleanup", "done"}

\* Nobody has made the workflow before, and the deferred teardown has deleted it.
WorkflowKept(t) ==
    /\ Stage(t) = "before" => owner[Workflow(t)] # t
    /\ phase[t] = "cleanup" /\ ~failed[t] /\ TOptions[t].teardown => Workflow(t) \notin Held(t)

\* A test makes only what its scripts are about.
Own1(o) == owner[o] \in Test => o \in Objects(owner[o], TOptions[owner[o]])

InvOf(t) == Podded(t) /\ Placed(t) /\ Fresh(t) /\ FailedLate(t) /\ WorkflowKept(t)

IInv == Types /\ (\A t \in Test : InvOf(t)) /\ (\A o \in Object : Own1(o))

\* What a failed test may destroy is a persistent file system.
LEMMA ExposedKind == \A o \in Exposed : o[1] = "persistent lustre"
  BY Kinds DEF Exposed

\* A test that has failed stays so.
LEMMA ExposedGrows ==
    ASSUME \A v \in Test : failed[v] => failed'[v]
    PROVE  Exposed \subseteq Exposed'
  BY DEF Exposed

-----------------------------------------------------------------------------
(* What is known of the step that comes next. *)

LEMMA StepsAre ==
    ASSUME NEW t \in Test, phase[t] \in Phase, pods[t] \in HelperPods(t)
    PROVE  t \in Running /\ Steps(t) = StepsIn(t, phase[t], pods[t])
  <1>1. t \in Running
    BY DEF Running, Phase
  <1>2. Steps(t) = StepsIn(t, phase[t], pods[t])
    BY DEF Steps, StepsIn, Script, Phase
  <1> QED BY <1>1, <1>2

LEMMA RunningPhase ==
    ASSUME NEW t \in Test, phase[t] \in Stands PROVE t \in Running <=> phase[t] \in Phase
  BY DEF Running, Stands, Phase

\* The step is not blocked by what the test itself holds.
CanGo(e) == CanDo(e, life) \/ (Flaky /\ e.op = "gone")

LEMMA NextStep ==
    ASSUME IInv, NEW t \in Test, Busy(t)
    PROVE  /\ phase[t] \in Phase /\ n[t] \in 1 .. Len(StepsIn(t, phase[t], pods[t]))
           /\ Step(t) = StepsIn(t, phase[t], pods[t])[n[t]]
           /\ Step(t) \in StepOn(Objects(t, TOptions[t]))
           /\ Step(t) \in StepOn(RulesIn(t, phase[t], failed[t]).objects)
           /\ \E x : On(t, phase[t], n[t], failed[t], pods[t], x) /\ Matches(t, x)
           /\ \A x : On(t, phase[t], n[t], failed[t], pods[t], x) /\ Matches(t, x) /\ CanGo(Step(t)) =>
                 /\ Safe(RulesIn(t, phase[t], failed[t]), Step(t), x)
                 /\ On(t, phase[t], n[t] + 1, failed[t], pods[t], Effect(Step(t), x))
  <1> DEFINE s == StepsIn(t, phase[t], pods[t])
             e == Step(t)
  <1>1. t \in Running /\ n[t] <= Len(Steps(t))
    BY DEF Busy
  <1>2. phase[t] \in Phase
    BY <1>1, RunningPhase DEF IInv, Types
  <1>3. Steps(t) = s /\ e = s[n[t]]
    BY <1>2, StepsAre DEF IInv, InvOf, Podded, Step
  <1>4. s \in Seq(StepOn(Objects(t, TOptions[t])))
    BY <1>2, ObjectsOf DEF IInv, InvOf, Podded
  <1>5. n[t] \in 1 .. Len(s)
    BY <1>1, <1>3, <1>4 DEF IInv, Types
  <1>6. e \in StepOn(Objects(t, TOptions[t]))
    BY <1>3, <1>4, <1>5
  <1>7. PICK x : On(t, phase[t], n[t], failed[t], pods[t], x) /\ Matches(t, x)
    BY <1>2 DEF IInv, InvOf, Placed
  <1>8. s \in Seq(StepOn(RulesIn(t, phase[t], failed[t]).objects))
    BY <1>7 DEF On
  <1>9. e \in StepOn(RulesIn(t, phase[t], failed[t]).objects)
    BY <1>3, <1>5, <1>8
  <1>10. ASSUME NEW y, On(t, phase[t], n[t], failed[t], pods[t], y), Matches(t, y), CanGo(e)
         PROVE  /\ Safe(RulesIn(t, phase[t], failed[t]), e, y)
                /\ On(t, phase[t], n[t] + 1, failed[t], pods[t], Effect(e, y))
    <2>1. ~Blocked(RulesIn(t, phase[t], failed[t]), e, y)
      <3> SUFFICES ASSUME Makes(e), e.obj \in y.held, e.obj[1] = "storage profile" PROVE FALSE
        BY DEF Blocked
      <3>1. life[e.obj] = "absent"
        BY <1>10 DEF CanGo, CanDo, Makes
      <3> HIDE DEF e
      <3>2. e.obj \notin Exposed
        BY ExposedKind
      <3>3. e.obj \in Held(t)
        BY <1>10, <3>2 DEF Matches
      <3> QED BY <3>1, <3>3 DEF Held
    <2> HIDE DEF e
    <2> QED BY <1>3, <1>5, <1>10, <2>1, Advance
  <1> QED BY <1>2, <1>3, <1>5, <1>6, <1>7, <1>9, <1>10

\* What each phase does to the workflow.
LEMMA WorkflowStep ==
    ASSUME IInv, NEW t \in Test, Busy(t)
    PROVE  /\ phase[t] \in {"prepare", "cleanup"} => Step(t).obj # Workflow(t)
           /\ phase[t] = "create" => n[t] = 1 /\ Step(t) = [op |-> "create", obj |-> Workflow(t)]
           /\ phase[t] = "execute" => Step(t).obj # Workflow(t) \/ Step(t).op = "run"
           /\ phase[t] = "teardown" => Step(t).obj = Workflow(t) /\ Step(t).op \in {"run", "delete"}
  <1> DEFINE o == TOptions[t]
             e == Step(t)
  <1>1. /\ phase[t] \in Phase /\ n[t] \in 1 .. Len(StepsIn(t, phase[t], pods[t]))
        /\ e = StepsIn(t, phase[t], pods[t])[n[t]]
        /\ e \in StepOn(RulesIn(t, phase[t], failed[t]).objects)
    BY NextStep
  <1> HIDE DEF e
  <1>2. e.obj \in RulesIn(t, phase[t], failed[t]).objects
    BY <1>1 DEF StepOn
  <1>3. ASSUME phase[t] \in {"prepare", "cleanup"} PROVE e.obj # Workflow(t)
    <2>1. RulesIn(t, phase[t], failed[t]).objects = Surroundings(t, o)
      BY <1>3 DEF RulesIn, Rules, CleanupRules
    <2> QED BY <1>2, <2>1, WorkflowApart
  <1>4. ASSUME phase[t] = "create" PROVE n[t] = 1 /\ e = [op |-> "create", obj |-> Workflow(t)]
    <2>1. StepsIn(t, phase[t], pods[t]) = <<[op |-> "create", obj |-> Workflow(t)]>>
      BY <1>4, WorkflowSteps DEF StepsIn
    <2> QED BY <1>1, <2>1
  <1>5. ASSUME phase[t] = "execute" PROVE e.obj # Workflow(t) \/ e.op = "run"
    <2>1. StepsIn(t, phase[t], pods[t]) = Execute(t, o)
      BY <1>5 DEF StepsIn
    <2> QED BY <1>1, <2>1, WorkflowSteps
  <1>6. ASSUME phase[t] = "teardown" PROVE e.obj = Workflow(t) /\ e.op \in {"run", "delete"}
    <2>1. StepsIn(t, phase[t], pods[t]) = Teardown(t, o)
      BY <1>6 DEF StepsIn
    <2>2. RulesIn(t, phase[t], failed[t]).objects = {Workflow(t)}
      BY <1>6 DEF RulesIn, Rules
    <2> QED BY <1>1, <1>2, <2>1, <2>2, WorkflowSteps
  <1> QED BY <1>3, <1>4, <1>5, <1>6 DEF e

\* What a step takes away is the test's own, but for what a failed one may destroy.
LEMMA Takings ==
    ASSUME IInv, NEW t \in Test, Busy(t), CanGo(Step(t)), Takes(Step(t))
    PROVE  Step(t).obj \in Held(t) \/ Step(t).obj \in Exposed
  <1> DEFINE o == TOptions[t]
             x0 == Step(t).obj
  <1>1. PICK x : Matches(t, x) /\ Safe(RulesIn(t, phase[t], failed[t]), Step(t), x)
    BY NextStep
  <1>2. x0 \in x.held \cup RulesIn(t, phase[t], failed[t]).free
    BY <1>1 DEF Safe
  <1>3. /\ phase[t] \in Phase
        /\ failed[t] \in BOOLEAN
    BY NextStep DEF IInv, Types
  <1>4. RulesIn(t, phase[t], failed[t]).free =
           Only(phase[t] = "cleanup" /\ failed[t] /\ o.cleanupPersistent, {OwnFileSystem(o)})
    BY <1>3 DEF Phase, RulesIn, Rules, CleanupRules, Only
  <1>5. failed[t] /\ o.cleanupPersistent => OwnFileSystem(o) \in Exposed
    BY DEF Exposed
  <1> HIDE DEF x0, o
  <1>6. CASE x0 \in x.held
    BY <1>1, <1>6 DEF Matches, x0
  <1>7. CASE x0 \in RulesIn(t, phase[t], failed[t]).free
    BY <1>4, <1>5, <1>7 DEF Only, x0
  <1> QED BY <1>2, <1>6, <1>7

-----------------------------------------------------------------------------
(* What a step does to the objects of its test, and of the others. *)

LEMMA Affected ==
    ASSUME IInv, NEW t \in Test, Busy(t), CanGo(Step(t)), Affects(t)
    PROVE  LET e == Step(t) IN
           /\ life' \in [Object -> {"absent", "present", "deleting"}]
           /\ owner' \in [Object -> Test \cup {NoName}]
           /\ \A o \in Object : Own1(o)'
           /\ \A o \in Object : o # e.obj => life'[o] = life[o] /\ owner'[o] = owner[o]
           /\ \A x : Matches(t, x) =>
                 LET y == Effect(e, x) IN
                 /\ Held(t)' \subseteq y.held /\ y.held \ Held(t)' \subseteq Exposed
                 /\ ~Flaky => Leaving(t)' \subseteq y.going \cup (y.held \cap Exposed)
  <1> DEFINE e == Step(t)
  <1>1. e \in StepOn(Objects(t, TOptions[t]))
    BY NextStep
  <1>2. e.obj \in Objects(t, TOptions[t]) /\ e.obj \in Object
    BY <1>1, ObjectsOf DEF StepOn
  <1>3. life \in [Object -> {"absent", "present", "deleting"}] /\ owner \in [Object -> Test \cup {NoName}]
    BY DEF IInv, Types
  <1>4. /\ life' = IF Makes(e) THEN [life EXCEPT ![e.obj] = "present"]
                   ELSE IF Takes(e) THEN [life EXCEPT ![e.obj] = "deleting"] ELSE life
        /\ owner' = IF Makes(e) THEN [owner EXCEPT ![e.obj] = t] ELSE owner
    BY DEF Affects, After
  <1>5. ~(Makes(e) /\ Takes(e)) /\ (e.op = "gone" => ~Makes(e) /\ ~Takes(e))
    BY DEF Makes, Takes
  <1>6. /\ Makes(e) => life[e.obj] = "absent"
        /\ ~Flaky /\ e.op = "gone" => life[e.obj] = "absent"
    BY DEF CanGo, CanDo, Makes
  <1> HIDE DEF e
  <1>7. /\ life' \in [Object -> {"absent", "present", "deleting"}]
        /\ owner' \in [Object -> Test \cup {NoName}]
    BY <1>2, <1>3, <1>4
  <1>8. \A o \in Object : o # e.obj => life'[o] = life[o] /\ owner'[o] = owner[o]
    BY <1>2, <1>3, <1>4
  <1>9. ASSUME NEW o \in Object PROVE Own1(o)'
    <2>1. Own1(o)
      BY DEF IInv
    <2>2. owner'[o] = owner[o] \/ (o = e.obj /\ owner'[o] = t)
      BY <1>2, <1>3, <1>4
    <2> QED BY <1>2, <2>1, <2>2 DEF Own1
  <1>10. ASSUME NEW x, Matches(t, x)
         PROVE  LET y == Effect(e, x) IN
                /\ Held(t)' \subseteq y.held /\ y.held \ Held(t)' \subseteq Exposed
                /\ ~Flaky => Leaving(t)' \subseteq y.going \cup (y.held \cap Exposed)
    <2>1. /\ Held(t) \subseteq x.held /\ x.held \ Held(t) \subseteq Exposed
          /\ ~Flaky => Leaving(t) \subseteq x.going \cup (x.held \cap Exposed)
      BY <1>10 DEF Matches
    <2>2. CASE Makes(e)
      <3>1. /\ Effect(e, x).held = x.held \cup {e.obj}
            /\ Effect(e, x).going = x.going
        BY <1>5, <2>2 DEF Effect, Shadow
      <3>2. life'[e.obj] = "present" /\ owner'[e.obj] = t
        BY <1>2, <1>3, <1>4, <2>2
      <3>3. Held(t)' = Held(t) \cup {e.obj}
        BY <1>2, <1>8, <3>2 DEF Held
      <3>4. Leaving(t)' \subseteq Leaving(t)
        BY <1>2, <1>8, <3>2 DEF Leaving
      <3> QED BY <2>1, <3>1, <3>3, <3>4
    <2>3. CASE Takes(e)
      <3>1. /\ Effect(e, x).held = x.held \ {e.obj}
            /\ Effect(e, x).going = x.going \cup {e.obj}
        BY <1>5, <2>3 DEF Effect, Shadow
      <3>2. life'[e.obj] = "deleting"
        BY <1>2, <1>3, <1>4, <1>5, <2>3
      <3>3. Held(t)' = Held(t) \ {e.obj}
        BY <1>2, <1>8, <3>2 DEF Held
      <3>4. Leaving(t)' \subseteq Leaving(t) \cup {e.obj}
        BY <1>2, <1>8, <3>2 DEF Leaving
      <3> QED BY <2>1, <3>1, <3>3, <3>4
    <2>4. CASE ~Makes(e) /\ ~Takes(e)
      <3>1. /\ Effect(e, x).held = x.held
            /\ Effect(e, x).going = IF e.op = "gone" THEN x.going \ {e.obj} ELSE x.going
        BY <2>4 DEF Effect, Shadow
      <3>2. life' = life /\ owner' = owner
        BY <1>4, <2>4
      <3>3. Held(t)' = Held(t) /\ Leaving(t)' = Leaving(t)
        BY <3>2 DEF Held, Leaving
      <3>4. ~Flaky /\ e.op = "gone" => e.obj \notin Leaving(t)
        BY <1>6 DEF Leaving
      <3> QED BY <2>1, <3>1, <3>3, <3>4
    <2> QED BY <2>2, <2>3, <2>4
  <1> QED BY <1>7, <1>8, <1>9, <1>10 DEF e

\* Of what a test has, another one touches only what a failed test may destroy.
Spared(t) ==
    /\ Held(t)' \subseteq Held(t) /\ Held(t) \ Held(t)' \subseteq Exposed
    /\ Leaving(t)' \subseteq Leaving(t) \cup (Held(t) \cap Exposed)

LEMMA Untouched ==
    ASSUME IInv, NEW u \in Test, Busy(u), CanGo(Step(u)), Affects(u), NEW t \in Test, t # u
    PROVE  /\ Spared(t)
           /\ life'[Workflow(t)] = life[Workflow(t)] /\ owner'[Workflow(t)] = owner[Workflow(t)]
  <1> DEFINE e == Step(u)
  <1>1. e.obj \in Objects(u, TOptions[u]) /\ e.obj \in Object
    <2>1. e \in StepOn(Objects(u, TOptions[u]))
      BY NextStep
    <2> QED BY <2>1, ObjectsOf DEF StepOn
  <1>2. \A o \in Object : o # e.obj => life'[o] = life[o] /\ owner'[o] = owner[o]
    BY Affected
  <1>3. life'[Workflow(t)] = life[Workflow(t)] /\ owner'[Workflow(t)] = owner[Workflow(t)]
    <2>1. Workflow(t) # e.obj /\ Workflow(t) \in Object
      BY <1>1, Foreign, ObjectsOf
    <2> QED BY <1>2, <2>1
  <1>4. Takes(e) => life[e.obj] # "absent" /\ (owner[e.obj] = t => e.obj \in Exposed)
    <2>1. Takes(e) => e.obj \in Held(u) \/ e.obj \in Exposed
      BY Takings
    <2>2. Takes(e) => life[e.obj] # "absent"
      BY DEF CanGo, CanDo, Makes, Takes
    <2> QED BY <2>1, <2>2 DEF Held
  <1>5. \/ life' = life /\ owner' = owner
        \/ e.obj \notin Held(t) /\ e.obj \notin Held(t)' /\ e.obj \notin Leaving(t)'
        \/ e.obj \notin Held(t)' /\ e.obj \in Exposed /\ e.obj \in Held(t) \cup Leaving(t)
    <2>1. CASE Makes(e)
      <3>1. owner'[e.obj] = u
        BY <1>1, <2>1 DEF Affects, IInv, Types
      <3>2. life[e.obj] = "absent"
        BY <2>1 DEF CanGo, CanDo, Makes
      <3> QED BY <3>1, <3>2 DEF Held, Leaving
    <2>2. CASE Takes(e)
      <3>1. owner' = owner /\ life' = [life EXCEPT ![e.obj] = "deleting"]
        BY <2>2 DEF Affects, After, Makes, Takes
      <3>2. life'[e.obj] = "deleting" /\ life[e.obj] \in {"present", "deleting"}
        BY <1>1, <1>4, <2>2, <3>1 DEF IInv, Types
      <3> HIDE DEF e
      <3>3. CASE owner[e.obj] = t
        BY <1>1, <1>4, <2>2, <3>1, <3>2, <3>3 DEF Held, Leaving
      <3>4. CASE owner[e.obj] # t
        BY <3>1, <3>4 DEF Held, Leaving
      <3> QED BY <3>3, <3>4
    <2>3. CASE ~Makes(e) /\ ~Takes(e)
      BY <2>3 DEF Affects, After
    <2> QED BY <2>1, <2>2, <2>3
  <1> HIDE DEF e
  <1>6. Held(t)' \subseteq Held(t) /\ Held(t) \ Held(t)' \subseteq Exposed
    BY <1>2, <1>5 DEF Held
  <1>7. Leaving(t)' \subseteq Leaving(t) \cup (Held(t) \cap Exposed)
    <2>1. \A o \in Leaving(t)' : o # e.obj => o \in Leaving(t)
      BY <1>2 DEF Leaving
    <2>2. CASE life' = life /\ owner' = owner
      BY <2>2 DEF Leaving
    <2>3. CASE ~(life' = life /\ owner' = owner)
      BY <1>5, <2>1, <2>3
    <2> QED BY <2>2, <2>3
  <1> QED BY <1>3, <1>6, <1>7 DEF Spared

\* A test that does not move stays where it is.
LEMMA Unmoved ==
    ASSUME IInv, NEW t \in Test, phase'[t] = phase[t], n'[t] = n[t], failed'[t] = failed[t],
           pods'[t] = pods[t], Spared(t), \A v \in Test : failed[v] => failed'[v],
           owner'[Workflow(t)] = owner[Workflow(t)],
           phase[t] = "waiting" => \A o \in Object : owner'[o] # t
    PROVE  InvOf(t)'
  <1>1. InvOf(t)
    BY DEF IInv
  <1>2. ASSUME NEW x, Matches(t, x) PROVE Matches(t, x)'
    <2>1. Exposed \subseteq Exposed'
      BY ExposedGrows
    <2>2. Held(t)' \subseteq x.held /\ x.held \ Held(t)' \subseteq Exposed
      BY <1>2 DEF Matches, Spared
    <2>3. ~Flaky => Leaving(t)' \subseteq x.going \cup (x.held \cap Exposed)
      BY <1>2 DEF Matches, Spared
    <2> QED BY <1>2, <2>1, <2>2, <2>3 DEF Matches
  <1>3. Podded(t)' /\ Fresh(t)' /\ FailedLate(t)'
    BY <1>1 DEF InvOf, Podded, Fresh, FailedLate
  <1>4. Placed(t)'
    BY <1>1, <1>2 DEF InvOf, Placed
  <1>5. WorkflowKept(t)'
    BY <1>1 DEF InvOf, WorkflowKept, Stage, Spared
  <1> QED BY <1>3, <1>4, <1>5 DEF InvOf

-----------------------------------------------------------------------------
(* Each action preserves the invariant. *)

LEMMA Initially == Init => IInv
  <1> SUFFICES ASSUME Init PROVE IInv
    OBVIOUS
  <1>1. Types
    <2>1. <<>> \in UNION {HelperPods(t) : t \in Test} \/ Test = {}
      BY DEF HelperPods
    <2>2. pods \in [Test -> UNION {HelperPods(t) : t \in Test}]
      BY <2>1 DEF Init
    <2> QED BY <2>2 DEF Init, Types, Stands
  <1>2. ASSUME NEW t \in Test PROVE InvOf(t)
    <2>1. /\ phase[t] = "waiting" /\ n[t] = 1 /\ ~failed[t] /\ pods[t] = <<>>
          /\ \A o \in Object : owner[o] # t
      BY NoNameAssumption DEF Init
    <2>2. Podded(t)
      BY <2>1 DEF Podded, HelperPods
    <2>3. Placed(t) /\ Fresh(t) /\ FailedLate(t)
      BY <2>1 DEF Placed, Fresh, FailedLate, Phase
    <2>4. WorkflowKept(t)
      <3>1. Workflow(t) \in Object
        BY ObjectsOf
      <3> QED BY <2>1, <3>1 DEF WorkflowKept
    <2> QED BY <2>2, <2>3, <2>4 DEF InvOf
  <1>3. \A o \in Object : Own1(o)
    BY NoNameAssumption DEF Init, Own1
  <1> QED BY <1>1, <1>2, <1>3 DEF IInv

\* The other tests are not concerned.
LEMMA Others ==
    ASSUME IInv, NEW t \in Test, NEW u \in Test, u # t,
           phase'[u] = phase[u], n'[u] = n[u], failed'[u] = failed[u], pods'[u] = pods[u],
           \A v \in Test : failed[v] => failed'[v],
           \/ life' = life /\ owner' = owner
           \/ Busy(t) /\ CanGo(Step(t)) /\ Affects(t)
    PROVE  InvOf(u)'
  <1>1. CASE life' = life /\ owner' = owner
    <2>1. Spared(u)
      BY <1>1 DEF Spared, Held, Leaving
    <2>2. phase[u] = "waiting" => \A o \in Object : owner'[o] # u
      BY <1>1 DEF IInv, InvOf, Fresh
    <2> QED BY <1>1, <2>1, <2>2, Unmoved
  <1>2. CASE Busy(t) /\ CanGo(Step(t)) /\ Affects(t)
    <2>1. Spared(u) /\ owner'[Workflow(u)] = owner[Workflow(u)]
      BY <1>2, Untouched
    <2>2. phase[u] = "waiting" => \A o \in Object : owner'[o] # u
      <3>1. Step(t).obj \in Object
        <4>1. Step(t) \in StepOn(Objects(t, TOptions[t]))
          BY <1>2, NextStep
        <4> QED BY <4>1, ObjectsOf DEF StepOn
      <3>2. \A o \in Object : owner'[o] = owner[o] \/ owner'[o] = t
        BY <1>2, <3>1 DEF Affects, IInv, Types
      <3> QED BY <3>2 DEF IInv, InvOf, Fresh
    <2> QED BY <2>1, <2>2, Unmoved
  <1> QED BY <1>1, <1>2

LEMMA StartKeeps == ASSUME IInv, NEW t \in Test, Start(t) PROVE IInv'
  <1>1. /\ phase[t] = "waiting" /\ phase' = [phase EXCEPT ![t] = "prepare"]
        /\ UNCHANGED <<n, failed, pods, life, owner, kind>>
    BY DEF Start
  <1>2. Types'
    BY <1>1 DEF IInv, Types, Stands
  <1>3. ASSUME NEW u \in Test, u # t PROVE InvOf(u)'
    BY <1>1, <1>3, Others DEF IInv, Types
  <1>4. InvOf(t)'
    <2>1. InvOf(t)
      BY DEF IInv
    <2>2. phase'[t] = "prepare"
      BY <1>1 DEF IInv, Types
    <2>3. n[t] = 1 /\ pods[t] = <<>> /\ (\A o \in Object : owner[o] # t) /\ ~failed[t]
      BY <1>1, <2>1 DEF InvOf, Fresh, FailedLate
    <2>4. Podded(t)' /\ Fresh(t)' /\ FailedLate(t)'
      BY <1>1, <2>1, <2>2, <2>3 DEF InvOf, Podded, Fresh, FailedLate
    <2>5. WorkflowKept(t)'
      <3>1. Workflow(t) \in Object
        BY ObjectsOf
      <3> QED BY <1>1, <2>2, <2>3, <3>1 DEF WorkflowKept
    <2>6. Placed(t)'
      <3> DEFINE x == Shadow({}, {}, <<>>)
      <3>1. x \in StartIn(t, "prepare", <<>>, failed[t])
        BY DEF StartIn, Between, Shadow
      <3>2. failed[t] \in BOOLEAN /\ "prepare" \in Phase
        BY DEF IInv, Types, Phase
      <3>3. On(t, "prepare", 1, failed[t], <<>>, x)
        BY <3>1, <3>2, Enter
      <3>4. Matches(t, x)'
        <4>1. Held(t)' = {} /\ Leaving(t)' = {}
          BY <1>1, <2>3 DEF Held, Leaving
        <4> QED BY <1>1, <2>3, <4>1 DEF Matches, Shadow
      <3>5. 1 \in 1 .. Len(StepsIn(t, "prepare", <<>>)) + 1
        <4>1. StepsIn(t, "prepare", <<>>) \in Seq(StepOn(RulesIn(t, "prepare", failed[t]).objects))
          BY <3>3 DEF On
        <4> QED BY <4>1
      <3> QED BY <1>1, <2>2, <2>3, <3>3, <3>4, <3>5 DEF Placed
    <2> QED BY <2>4, <2>5, <2>6 DEF InvOf
  <1>5. \A o \in Object : Own1(o)'
    BY <1>1 DEF IInv, Own1
  <1> QED BY <1>2, <1>3, <1>4, <1>5 DEF IInv

LEMMA SkipKeeps == ASSUME IInv, NEW t \in Test, Skip(t) PROVE IInv'
  <1>1. /\ phase[t] = "prepare" /\ phase' = [phase EXCEPT ![t] = "done"]
        /\ UNCHANGED <<n, failed, pods, life, owner, kind>>
    BY DEF Skip, Skips
  <1>2. Types'
    BY <1>1 DEF IInv, Types, Stands
  <1>3. ASSUME NEW u \in Test, u # t PROVE InvOf(u)'
    BY <1>1, <1>3, Others DEF IInv, Types
  <1>4. InvOf(t)'
    <2>1. phase'[t] = "done" /\ InvOf(t)
      BY <1>1 DEF IInv, Types
    <2> QED BY <1>1, <2>1 DEF InvOf, Podded, Placed, Fresh, FailedLate, WorkflowKept, Stage, Phase
  <1>5. \A o \in Object : Own1(o)'
    BY <1>1 DEF IInv, Own1
  <1> QED BY <1>2, <1>3, <1>4, <1>5 DEF IInv

LEMMA CallKeeps == ASSUME IInv, NEW t \in Test, Call(t) PROVE IInv'
  <1> DEFINE e == Step(t)
             k == n[t]
             ps == pods[t]
             qs == Started(t)
             O == Objects(t, TOptions[t])
             c == RulesIn(t, phase[t], failed[t])
  <1>1. /\ Busy(t) /\ CanGo(e) /\ Affects(t)
        /\ pods' = [pods EXCEPT ![t] = qs] /\ n' = [n EXCEPT ![t] = @ + 1]
        /\ UNCHANGED <<phase, failed, kind>>
    BY DEF Call, CanGo
  <1>2. /\ phase[t] \in Phase /\ k \in 1 .. Len(StepsIn(t, phase[t], ps))
        /\ e \in StepOn(O) /\ e = StepsIn(t, phase[t], ps)[k]
    BY <1>1, NextStep
  <1>3. PICK x : Matches(t, x) /\ Safe(c, e, x) /\ On(t, phase[t], k + 1, failed[t], ps, Effect(e, x))
    BY <1>1, NextStep
  <1>4. qs = Effect(e, x).pods
    BY <1>3 DEF Started, Effect, Shadow, Matches
  <1>5. phase[t] = "cleanup" => qs = ps
    <2>1. ASSUME phase[t] = "cleanup" PROVE c.pods = {}
      BY <2>1 DEF RulesIn, CleanupRules, Rules
    <2> QED BY <1>3, <2>1 DEF Safe, Started
  <1>6. qs \in HelperPods(t) /\ qs \in Seq(O)
    <2>1. Podded(t)
      BY DEF IInv, InvOf
    <2>2. phase[t] # "cleanup" => c.pods = HelperPods(t)
      BY <1>2 DEF RulesIn, Rules, Phase
    <2>3. e.op = "pod" => Append(ps, e.obj) \in c.pods /\ Append(ps, e.obj) = qs
      BY <1>3 DEF Safe, Matches, Started
    <2>4. e.op # "pod" => qs = ps
      BY DEF Started
    <2>5. qs \in HelperPods(t)
      BY <1>5, <2>1, <2>2, <2>3, <2>4 DEF Podded
    <2>6. qs \in Seq(O)
      <3>1. e.obj \in O /\ ps \in Seq(O)
        BY <1>2, <2>1 DEF StepOn, Podded
      <3>2. Append(ps, e.obj) \in Seq(O)
        BY <3>1
      <3> QED BY <2>3, <2>4, <3>1, <3>2
    <2> QED BY <2>5, <2>6
  <1>7. /\ On(t, phase[t], k + 1, failed[t], qs, Effect(e, x))
        /\ StepsIn(t, phase[t], qs) = StepsIn(t, phase[t], ps)
    BY <1>2, <1>3, <1>5, OnPods
  <1>8. /\ phase'[t] = phase[t] /\ failed'[t] = failed[t] /\ n'[t] = k + 1 /\ pods'[t] = qs
        /\ \A u \in Test : u # t => /\ phase'[u] = phase[u] /\ failed'[u] = failed[u]
                                    /\ n'[u] = n[u] /\ pods'[u] = pods[u]
    BY <1>1 DEF IInv, Types
  <1>9. Types'
    <2>1. pods' \in [Test -> UNION {HelperPods(u) : u \in Test}]
      <3>1. qs \in UNION {HelperPods(u) : u \in Test}
        BY <1>6
      <3> HIDE DEF qs
      <3> QED BY <1>1, <3>1 DEF IInv, Types
    <2>2. n' \in [Test -> Nat \ {0}]
      BY <1>1 DEF IInv, Types
    <2> QED BY <1>1, <2>1, <2>2, Affected DEF IInv, Types
  <1>10. ASSUME NEW u \in Test, u # t PROVE InvOf(u)'
    BY <1>1, <1>8, <1>10, Others
  <1>11. InvOf(t)'
    <2> PICK y : y = Effect(e, x)
      OBVIOUS
    <2>1. Matches(t, y)'
      <3>1. Exposed \subseteq Exposed'
        BY <1>1, ExposedGrows
      <3>2. /\ Held(t)' \subseteq y.held /\ y.held \ Held(t)' \subseteq Exposed
            /\ ~Flaky => Leaving(t)' \subseteq y.going \cup (y.held \cap Exposed)
        BY <1>1, <1>3, Affected
      <3> HIDE DEF e, k, ps
      <3>3. pods'[t] = y.pods
        BY <1>4, <1>8
      <3> QED BY <3>1, <3>2, <3>3 DEF Matches
    <2>2. k + 1 \in 1 .. Len(StepsIn(t, phase[t], qs)) + 1
      BY <1>2, <1>7
    <2>3. Placed(t)'
      <3>1. On(t, phase[t], k + 1, failed[t], qs, y)
        BY <1>7
      <3> HIDE DEF e, k, qs
      <3> QED BY <1>8, <2>1, <2>2, <3>1 DEF Placed
    <2>4. Podded(t)'
      BY <1>6, <1>8 DEF Podded
    <2>5. Fresh(t)' /\ FailedLate(t)'
      BY <1>2, <1>8 DEF Fresh, FailedLate, Phase, IInv, InvOf
    <2>6. WorkflowKept(t)'
      <3>1. WorkflowKept(t)
        BY DEF IInv, InvOf
      <3>2. ASSUME phase[t] \in {"prepare", "cleanup"}
            PROVE  /\ owner'[Workflow(t)] = owner[Workflow(t)] /\ life'[Workflow(t)] = life[Workflow(t)]
        <4>1. e.obj # Workflow(t) /\ Workflow(t) \in Object
          BY <1>1, <3>2, WorkflowStep, ObjectsOf
        <4> QED BY <1>1, <4>1, Affected
      <3>3. Stage(t)' = "before" => phase[t] = "prepare"
        BY <1>2, <1>8 DEF Stage, Phase
      <3>4. phase[t] = "prepare" => Stage(t) = "before"
        BY DEF Stage
      <3>5. phase[t] = "cleanup" => (Workflow(t) \in Held(t)' => Workflow(t) \in Held(t))
        BY <3>2 DEF Held
      <3> QED BY <1>8, <3>1, <3>2, <3>3, <3>4, <3>5 DEF WorkflowKept
    <2> QED BY <2>3, <2>4, <2>5, <2>6 DEF InvOf
  <1> QED BY <1>1, <1>9, <1>10, <1>11, Affected DEF IInv

LEMMA PhaseEndsKeeps == ASSUME IInv, NEW t \in Test, PhaseEnds(t) PROVE IInv'
  <1> DEFINE ps == pods[t]
             ph == phase[t]
             o  == TOptions[t]
  <1>1. /\ t \in Running /\ n[t] > Len(Steps(t))
        /\ phase' = [phase EXCEPT ![t] = NextPhase(@)] /\ n' = [n EXCEPT ![t] = 1]
        /\ UNCHANGED <<failed, pods, life, owner, kind>>
    BY DEF PhaseEnds
  <1>2. ph \in Phase
    BY <1>1, RunningPhase DEF IInv, Types
  <1>3. Steps(t) = StepsIn(t, ph, ps) /\ InvOf(t)
    BY <1>2, StepsAre DEF IInv, InvOf, Podded
  <1>4. n[t] \in 1 .. Len(StepsIn(t, ph, ps)) + 1
    BY <1>2, <1>3 DEF InvOf, Placed
  <1>5. PICK x : On(t, ph, n[t], failed[t], ps, x) /\ Matches(t, x)
    BY <1>2, <1>3 DEF InvOf, Placed
  <1>6. n[t] = Len(StepsIn(t, ph, ps)) + 1
    <2>1. Len(StepsIn(t, ph, ps)) \in Nat
      BY <1>5 DEF On
    <2> QED BY <1>1, <1>3, <1>4, <2>1
  <1>7. x \in GoalIn(t, ph, ps)
    BY <1>5, <1>6, Finish
  <1>8. /\ phase'[t] = NextPhase(ph) /\ n'[t] = 1
        /\ \A u \in Test : u # t => phase'[u] = phase[u] /\ n'[u] = n[u]
    BY <1>1 DEF IInv, Types
  <1>9. Types'
    BY <1>1, <1>2 DEF IInv, Types, Stands, Phase, NextPhase
  <1>10. ASSUME NEW u \in Test, u # t PROVE InvOf(u)'
    BY <1>1, <1>8, <1>10, Others
  <1>11. InvOf(t)'
    <2>1. Podded(t)' /\ Fresh(t)'
      BY <1>1, <1>2, <1>3, <1>8 DEF InvOf, Podded, Fresh, Phase, NextPhase
    <2>2. ph # "cleanup" => ~failed[t]
      BY <1>2, <1>3 DEF InvOf, FailedLate, Phase
    <2>3. FailedLate(t)'
      BY <1>1, <1>2, <1>8, <2>2 DEF FailedLate, NextPhase
    <2>4. Placed(t)'
      <3>1. CASE ph = "cleanup"
        BY <1>8, <3>1 DEF Placed, Phase, NextPhase
      <3>2. CASE ph # "cleanup"
        <4>1. NextPhase(ph) \in Phase /\ x \in StartIn(t, NextPhase(ph), ps, FALSE)
          BY <1>2, <1>5, <1>7, <3>2, NextStart DEF Matches
        <4>2. failed[t] = FALSE
          BY <2>2, <3>2 DEF IInv, Types
        <4>3. On(t, NextPhase(ph), 1, failed[t], ps, x)
          BY <4>1, <4>2, Enter
        <4>4. 1 \in 1 .. Len(StepsIn(t, NextPhase(ph), ps)) + 1
          BY <4>3 DEF On
        <4>5. Matches(t, x)'
          <5>1. Held(t)' = Held(t) /\ Leaving(t)' = Leaving(t) /\ Exposed' = Exposed
            BY <1>1 DEF Held, Leaving, Exposed
          <5> QED BY <1>1, <1>5, <5>1 DEF Matches
        <4> QED BY <1>1, <1>8, <4>3, <4>4, <4>5 DEF Placed
      <3> QED BY <3>1, <3>2
    <2>5. WorkflowKept(t)'
      <3>1. Stage(t)' = "before" => Stage(t) = "before"
        BY <1>2, <1>8 DEF Stage, NextPhase, Phase
      <3>2. ASSUME phase'[t] = "cleanup", ~failed[t], o.teardown PROVE Workflow(t) \notin Held(t)
        <4>1. ph = "teardown"
          BY <1>2, <1>8, <3>2 DEF NextPhase, Phase
        <4> DEFINE all == Prepared(t, o) \cup OutPods(t, o) \cup Own(o)
        <4>2. x.held \subseteq all \cup Only(~o.teardown, {Workflow(t)})
          BY <1>7, <4>1 DEF GoalIn, AtCleanup, Between
        <4>3. x.held \subseteq Surroundings(t, o)
          BY <3>2, <4>2 DEF Only, Surroundings
        <4> QED BY <1>5, <4>3, WorkflowApart DEF Matches
      <3>3. Held(t)' = Held(t)
        BY <1>1 DEF Held
      <3> QED BY <1>1, <1>3, <3>1, <3>2, <3>3 DEF InvOf, WorkflowKept
    <2> QED BY <2>1, <2>3, <2>4, <2>5 DEF InvOf
  <1>12. \A u \in Object : Own1(u)'
    BY <1>1 DEF IInv, Own1
  <1> QED BY <1>9, <1>10, <1>11, <1>12 DEF IInv

\* Wherever a test fails, Cleanup can begin, if it is to.
LEMMA FailsKeeps ==
    ASSUME IInv, NEW t \in Test, t \in Running, Fails(t), UNCHANGED pods,
           \/ life' = life /\ owner' = owner
           \/ Busy(t) /\ CanGo(Step(t)) /\ Affects(t),
           NEW x, Matches(t, x)',
           phase[t] \in {"create", "execute", "teardown"} => x \in Mid(t, TOptions[t])
    PROVE  IInv'
  <1> DEFINE ps == pods[t]
             ph == phase[t]
  <1>1. /\ failed' = [failed EXCEPT ![t] = TRUE] /\ phase' = [phase EXCEPT ![t] = PhaseAfterFailure(@)]
        /\ n' = [n EXCEPT ![t] = 1] /\ UNCHANGED kind
    BY DEF Fails
  <1>2. ph \in Phase
    BY RunningPhase DEF IInv, Types
  <1>3. /\ failed'[t] = TRUE /\ phase'[t] = PhaseAfterFailure(ph) /\ n'[t] = 1
        /\ \A u \in Test : u # t => failed'[u] = failed[u] /\ phase'[u] = phase[u] /\ n'[u] = n[u]
    BY <1>1 DEF IInv, Types
  <1>4. /\ life' \in [Object -> {"absent", "present", "deleting"}]
        /\ owner' \in [Object -> Test \cup {NoName}]
        /\ \A o \in Object : Own1(o)'
    <2>1. CASE life' = life /\ owner' = owner
      BY <2>1 DEF IInv, Types, Own1
    <2>2. CASE Busy(t) /\ CanGo(Step(t)) /\ Affects(t)
      BY <2>2, Affected
    <2> QED BY <2>1, <2>2
  <1>5. Types'
    <2>1. PhaseAfterFailure(ph) \in {"cleanup", "done"}
      BY <1>2 DEF PhaseAfterFailure
    <2>2. phase' \in [Test -> Stands] /\ failed' \in [Test -> BOOLEAN] /\ n' \in [Test -> Nat \ {0}]
      BY <1>1, <2>1 DEF IInv, Types, Stands
    <2> QED BY <1>1, <1>4, <2>2 DEF IInv, Types
  <1>6. ASSUME NEW u \in Test, u # t PROVE InvOf(u)'
    <2>1. \A v \in Test : failed[v] => failed'[v]
      BY <1>3
    <2> QED BY <1>3, <1>6, <2>1, Others
  <1>7. InvOf(t)'
    <2>1. PhaseAfterFailure(ph) = IF ph \in {"create", "execute", "teardown"} THEN "cleanup" ELSE "done"
      BY <1>2 DEF PhaseAfterFailure, Phase
    <2>2. Podded(t)'
      BY DEF IInv, InvOf, Podded
    <2>3. Fresh(t)' /\ FailedLate(t)' /\ (Stage(t)' # "before")
      BY <1>3, <2>1 DEF Fresh, FailedLate, Stage
    <2>4. WorkflowKept(t)'
      BY <1>3, <2>3 DEF WorkflowKept
    <2>5. Placed(t)'
      <3>1. CASE ph \in {"create", "execute", "teardown"}
        <4>1. x \in StartIn(t, "cleanup", ps, TRUE)
          BY <3>1 DEF StartIn, Matches
        <4>2. On(t, "cleanup", 1, TRUE, ps, x)
          BY <4>1, Enter DEF Phase
        <4>3. 1 \in 1 .. Len(StepsIn(t, "cleanup", ps)) + 1
          BY <4>2 DEF On
        <4> QED BY <1>3, <2>1, <3>1, <4>2, <4>3 DEF Placed
      <3>2. CASE ph \notin {"create", "execute", "teardown"}
        BY <1>3, <2>1, <3>2 DEF Placed, Phase
      <3> QED BY <3>1, <3>2
    <2> QED BY <2>2, <2>3, <2>4, <2>5 DEF InvOf
  <1> QED BY <1>4, <1>5, <1>6, <1>7 DEF IInv

\* Where the test stands, all that Prepare has made is there.
LEMMA Standing ==
    ASSUME IInv, NEW t \in Test, t \in Running
    PROVE  \E x : /\ Matches(t, x)
                  /\ phase[t] \in {"create", "execute", "teardown"} => x \in Mid(t, TOptions[t])
  <1>1. phase[t] \in Phase
    BY RunningPhase DEF IInv, Types
  <1>2. n[t] \in 1 .. Len(StepsIn(t, phase[t], pods[t])) + 1
    BY <1>1 DEF IInv, InvOf, Placed
  <1>3. PICK x : On(t, phase[t], n[t], failed[t], pods[t], x) /\ Matches(t, x)
    BY <1>1 DEF IInv, InvOf, Placed
  <1> QED BY <1>2, <1>3, InMid

LEMMA StandsStill ==
    ASSUME IInv, NEW t \in Test, t \in Running, Fails(t), UNCHANGED <<pods, life, owner>>
    PROVE  IInv'
  <1>1. PICK x : /\ Matches(t, x)
                 /\ phase[t] \in {"create", "execute", "teardown"} => x \in Mid(t, TOptions[t])
    BY Standing
  <1>2. Matches(t, x)'
    <2>1. Held(t)' = Held(t) /\ Leaving(t)' = Leaving(t)
      BY DEF Held, Leaving
    <2>2. Exposed \subseteq Exposed'
      BY ExposedGrows DEF Fails, IInv, Types
    <2> QED BY <1>1, <2>1, <2>2 DEF Matches
  <1> QED BY <1>1, <1>2, FailsKeeps

LEMMA RunFailsKeeps == ASSUME IInv, NEW t \in Test, RunFails(t) PROVE IInv'
  <1> DEFINE e == Step(t)
  <1>1. /\ Busy(t) /\ CanGo(e) /\ Affects(t) /\ Fails(t) /\ UNCHANGED pods
        /\ e.op \in {"provision", "destroy"} /\ t \in Running
    BY DEF RunFails, CanGo, Busy
  <1>2. /\ phase[t] \in Phase /\ n[t] \in 1 .. Len(StepsIn(t, phase[t], pods[t]))
    BY <1>1, NextStep
  <1>3. PICK x : Matches(t, x) /\ On(t, phase[t], n[t] + 1, failed[t], pods[t], Effect(e, x))
    BY <1>1, NextStep
  <1>4. PICK y : y = Effect(e, x)
    OBVIOUS
  <1>5. phase[t] \in {"create", "execute", "teardown"} => y \in Mid(t, TOptions[t])
    <2>1. n[t] + 1 \in 1 .. Len(StepsIn(t, phase[t], pods[t])) + 1
      BY <1>2
    <2> QED BY <1>3, <1>4, <2>1, InMid
  <1>6. y.pods = pods[t]
    BY <1>1, <1>3, <1>4 DEF Effect, Shadow, Matches
  <1>7. Matches(t, y)'
    <2>1. Exposed \subseteq Exposed'
      BY <1>1, ExposedGrows DEF Fails, IInv, Types
    <2>2. /\ Held(t)' \subseteq y.held /\ y.held \ Held(t)' \subseteq Exposed
          /\ ~Flaky => Leaving(t)' \subseteq y.going \cup (y.held \cap Exposed)
      BY <1>1, <1>3, <1>4, Affected
    <2>3. pods'[t] = pods[t]
      BY <1>1
    <2> HIDE DEF e
    <2> QED BY <1>6, <2>1, <2>2, <2>3 DEF Matches
  <1> QED BY <1>1, <1>5, <1>7, FailsKeeps

LEMMA VanishKeeps == ASSUME IInv, NEW o \in Object, Vanish(o) PROVE IInv'
  <1>1. /\ life[o] = "deleting" /\ life' = [life EXCEPT ![o] = "absent"]
        /\ UNCHANGED <<phase, n, failed, pods, owner, kind>>
    BY DEF Vanish
  <1>2. Types'
    BY <1>1 DEF IInv, Types
  <1>3. \A u \in Object : u # o => life'[u] = life[u]
    BY <1>1 DEF IInv, Types
  <1>4. life'[o] = "absent"
    BY <1>1 DEF IInv, Types
  <1>5. ASSUME NEW t \in Test PROVE InvOf(t)'
    <2>1. Spared(t)
      BY <1>1, <1>3, <1>4 DEF Spared, Held, Leaving
    <2>2. phase[t] = "waiting" => \A u \in Object : owner'[u] # t
      BY <1>1 DEF IInv, InvOf, Fresh
    <2> QED BY <1>1, <2>1, <2>2, Unmoved
  <1>6. \A u \in Object : Own1(u)'
    BY <1>1 DEF IInv, Own1
  <1> QED BY <1>2, <1>5, <1>6 DEF IInv

LEMMA StutterKeeps == ASSUME IInv, UNCHANGED vars PROVE IInv'
  <1>1. UNCHANGED <<phase, n, failed, pods, life, owner, kind>>
    BY DEF vars
  <1>2. Types' /\ \A o \in Object : Own1(o)'
    BY <1>1 DEF IInv, Types, Own1
  <1>3. ASSUME NEW t \in Test PROVE InvOf(t)'
    <2>1. Spared(t)
      BY <1>1 DEF Spared, Held, Leaving
    <2>2. phase[t] = "waiting" => \A o \in Object : owner'[o] # t
      BY <1>1 DEF IInv, InvOf, Fresh
    <2> QED BY <1>1, <2>1, <2>2, Unmoved
  <1> QED BY <1>2, <1>3 DEF IInv

\* Every test follows its scripts, whatever fails, whatever the other tests do, and
\* whenever the cluster removes what is deleted: the invariant that the theorems
\* below rest on is inductive.
THEOREM Invariance == Spec => []IInv
  <1>1. Init => IInv
    BY Initially
  <1>2. ASSUME IInv, [Next]_vars PROVE IInv'
    <2>1. ASSUME NEW t \in Test, Start(t) PROVE IInv'
      BY <1>2, <2>1, StartKeeps
    <2>2. ASSUME NEW t \in Test, Skip(t) PROVE IInv'
      BY <1>2, <2>2, SkipKeeps
    <2>3. ASSUME NEW t \in Test, Call(t) PROVE IInv'
      BY <1>2, <2>3, CallKeeps
    <2>4. ASSUME NEW t \in Test, PhaseEnds(t) PROVE IInv'
      BY <1>2, <2>4, PhaseEndsKeeps
    <2>5. ASSUME NEW t \in Test, StepFails(t) PROVE IInv'
      BY <1>2, <2>5, StandsStill DEF StepFails, Busy
    <2>6. ASSUME NEW t \in Test, RunFails(t) PROVE IInv'
      BY <1>2, <2>6, RunFailsKeeps
    <2>7. ASSUME NEW t \in Test, Abort(t) PROVE IInv'
      BY <1>2, <2>7, StandsStill DEF Abort
    <2>8. ASSUME NEW o \in Object, Vanish(o) PROVE IInv'
      BY <1>2, <2>8, VanishKeeps
    <2>9. ASSUME UNCHANGED vars PROVE IInv'
      BY <1>2, <2>9, StutterKeeps
    <2> QED BY <1>2, <2>1, <2>2, <2>3, <2>4, <2>5, <2>6, <2>7, <2>8, <2>9 DEF Next, TestStep
  <1> QED BY <1>1, <1>2, PTL DEF Spec

-----------------------------------------------------------------------------
(* What follows from it. *)

\* Every test stands somewhere in the steps of its phase, and its helper pods are
\* those that Cleanup knows how to delete.
THEOREM TypeCorrect == Spec => []TypeOK
  <1>1. IInv => TypeOK
    <2> SUFFICES ASSUME IInv PROVE TypeOK
      OBVIOUS
    <2>1. ASSUME NEW t \in Test
          PROVE  /\ n[t] \in Nat \ {0} /\ pods[t] \in HelperPods(t)
                 /\ t \in Running => n[t] <= Len(Steps(t)) + 1
      <3>1. n[t] \in Nat \ {0} /\ pods[t] \in HelperPods(t)
        BY DEF IInv, Types, InvOf, Podded
      <3>2. ASSUME t \in Running PROVE n[t] <= Len(Steps(t)) + 1
        <4>1. phase[t] \in Phase
          BY <3>2, RunningPhase DEF IInv, Types
        <4>2. Steps(t) = StepsIn(t, phase[t], pods[t])
          BY <3>1, <4>1, StepsAre
        <4>3. n[t] \in 1 .. Len(Steps(t)) + 1
          BY <4>1, <4>2 DEF IInv, InvOf, Placed
        <4>4. PICK x : On(t, phase[t], n[t], failed[t], pods[t], x)
          BY <4>1 DEF IInv, InvOf, Placed
        <4>5. Len(Steps(t)) \in Nat
          BY <4>2, <4>4 DEF On
        <4> QED BY <4>3, <4>5
      <3> QED BY <3>1, <3>2
    <2> QED BY <2>1 DEF IInv, Types, TypeOK, Stands
  <1> QED BY <1>1, Invariance, PTL

\* Where Cleanup ends.
LEMMA CleanEnd ==
    ASSUME ~Flaky, IInv, NEW t \in Test, phase[t] = "cleanup", n[t] > Len(Steps(t)),
           NEW o \in Object, owner[o] = t, life[o] # "absent"
    PROVE  \/ o = Workflow(t)
           \/ o = OwnFileSystem(TOptions[t]) /\ ~TOptions[t].cleanupPersistent
           \/ o \in NotAwaited(t) /\ life[o] = "deleting"
  <1> DEFINE ps == pods[t]
             m  == TOptions[t].mgsPool.count
  <1>1. phase[t] \in Phase /\ ps \in HelperPods(t)
    BY DEF Phase, IInv, InvOf, Podded
  <1>2. Steps(t) = StepsIn(t, "cleanup", ps)
    BY <1>1, StepsAre
  <1>3. n[t] \in 1 .. Len(Steps(t)) + 1
    BY <1>1, <1>2 DEF IInv, InvOf, Placed
  <1>4. PICK x : On(t, "cleanup", n[t], failed[t], ps, x) /\ Matches(t, x)
    BY <1>1 DEF IInv, InvOf, Placed
  <1>5. n[t] = Len(StepsIn(t, "cleanup", ps)) + 1
    <2>1. Len(StepsIn(t, "cleanup", ps)) \in Nat
      BY <1>4 DEF On
    <2> QED BY <1>2, <1>3, <2>1
  <1>6. x \in Clean(t, TOptions[t], ps)
    BY <1>4, <1>5, Finish DEF GoalIn
  <1> DEFINE pi == OwnFileSystem(TOptions[t])
             creators == PoolCreators(TOptions[t], m)
             pool == Pool(TOptions[t], m)
  <1>7. /\ x.held \subseteq {Workflow(t)} \cup Only(~TOptions[t].cleanupPersistent, {pi})
        /\ x.going \subseteq creators \cup {Workflow(t)} \cup pool \cup {pi}
    BY <1>6 DEF Clean, Between
  <1>8. CASE o \in x.held
    BY <1>7, <1>8 DEF Only
  <1>9. CASE o \notin x.held
    <2>1. life[o] # "present"
      BY <1>4, <1>9 DEF Matches, Held
    <2>2. life[o] = "deleting"
      BY <2>1 DEF IInv, Types
    <2>3. o \in x.going
      BY <1>4, <1>9, <2>2 DEF Matches, Leaving
    <2>4. creators \cup pool \cup {pi} \subseteq NotAwaited(t)
      BY DEF PoolCreators, Pool, NotAwaited
    <2> HIDE DEF creators, pool, pi
    <2> QED BY <1>7, <2>2, <2>3, <2>4
  <1> QED BY <1>8, <1>9

\* A Cleanup that gets to its end leaves nothing but the workflow, a file system it is
\* not to destroy, and what nobody waits for: whatever the options of the test and
\* wherever it has failed, unless WaitForDeletion has been mistaken.
THEOREM Cleaned == ASSUME ~Flaky PROVE Spec => []CleanedUp
  <1>1. IInv => CleanedUp
    BY CleanEnd DEF CleanedUp
  <1> QED BY <1>1, Invariance, PTL

\* An object is made, or taken away, by a step of one test; the others do not move.
LEMMA WhoMoves ==
    ASSUME IInv, [Next]_vars, NEW o \in Object, Appearing(o) \/ Going(o)
    PROVE  \E t \in Test :
              /\ Busy(t) /\ CanGo(Step(t)) /\ Affects(t) /\ Step(t).obj = o
              /\ Appearing(o) => Makes(Step(t)) /\ owner'[o] = t
              /\ Going(o) => Takes(Step(t))
              /\ \A u \in Test : u # t => phase'[u] = phase[u] /\ n'[u] = n[u]
  <1>1. life' # life
    BY DEF Appearing, Going
  <1>2. ASSUME NEW u \in Object, Vanish(u) PROVE FALSE
    BY <1>2 DEF Vanish, Appearing, Going, IInv, Types
  <1>3. PICK t \in Test : Call(t) \/ RunFails(t)
    BY <1>1, <1>2 DEF Next, TestStep, vars, Start, Skip, PhaseEnds, StepFails, Abort
  <1>4. /\ Busy(t) /\ CanGo(Step(t)) /\ Affects(t)
        /\ \A u \in Test : u # t => phase'[u] = phase[u] /\ n'[u] = n[u]
    <2>1. CASE Call(t)
      BY <2>1 DEF Call, CanGo, IInv, Types
    <2>2. CASE RunFails(t)
      BY <2>2 DEF RunFails, Fails, CanGo, IInv, Types
    <2> QED BY <1>3, <2>1, <2>2
  <1>5. Step(t).obj = o
    BY <1>4, Affected DEF Appearing, Going
  <1>6. Appearing(o) => Makes(Step(t)) /\ owner'[o] = t
    <2>1. Appearing(o) => Makes(Step(t))
      BY <1>4, <1>5 DEF Affects, After, Appearing, IInv, Types
    <2> QED BY <1>4, <1>5, <2>1 DEF Affects, IInv, Types
  <1>7. Going(o) => Takes(Step(t))
    BY <1>4, <1>5 DEF Affects, After, Going, IInv, Types
  <1> QED BY <1>4, <1>5, <1>6, <1>7

\* However many tests share whichever names of profiles and file systems, and whichever of their steps
\* fail, no step of a test takes away what another test has made or an earlier run has
\* left, but for one thing: a persistent file system of the name that a failed test with
\* AndCleanupPersistentInstance is to destroy.
THEOREM OnlyOwn == Spec => DeletesOnlyOwn
  <1> DEFINE P == \A t \in Test : <<phase[t], n[t]>>' # <<phase[t], n[t]>> =>
                     \A o \in Object : Going(o) => owner[o] = t \/ o \in Exposed
  <1>1. IInv /\ [Next]_vars => P
    <2> SUFFICES ASSUME IInv, [Next]_vars, NEW t \in Test, <<phase[t], n[t]>>' # <<phase[t], n[t]>>,
                        NEW o \in Object, Going(o)
                 PROVE  owner[o] = t \/ o \in Exposed
      OBVIOUS
    <2>1. /\ Busy(t) /\ CanGo(Step(t)) /\ Step(t).obj = o /\ Takes(Step(t))
      BY WhoMoves
    <2> QED BY <2>1, Takings DEF Held
  <1>2. IInv /\ [Next]_vars => [P]_vars
    BY <1>1
  <1> QED BY <1>2, Invariance, PTL DEF Spec, DeletesOnlyOwn

LEMMA NeedsIn ==
    ASSUME NEW t, NEW ph \in Phase, NEW late
    PROVE  LET c == RulesIn(t, ph, late) IN
           c.bonds = MakingNeeds(t, TOptions[t]) /\ c.lives = LivingNeeds(t, TOptions[t])
  BY DEF Phase, RulesIn, Rules, CleanupRules

\* Nothing is made before what it needs is there, for all combinations of options, unless
\* it has been destroyed by its name.
THEOREM Prepares == Spec => PreparedFirst
  <1> DEFINE P == \A t \in Test : \A q \in Bonds[t] :
                     Appearing(q[1]) /\ owner'[q[1]] = t =>
                        life[q[2]] = "present" \/ q[2] \in Exposed
  <1>1. IInv /\ [Next]_vars => P
    <2> SUFFICES ASSUME IInv, [Next]_vars, NEW t \in Test, NEW q \in Bonds[t],
                        Appearing(q[1]), owner'[q[1]] = t
                 PROVE  life[q[2]] = "present" \/ q[2] \in Exposed
      OBVIOUS
    <2>1. q[1] \in Object /\ q \in MakingNeeds(t, TOptions[t])
      BY BondsOf DEF Bonds, Among
    <2>2. Busy(t) /\ CanGo(Step(t)) /\ Step(t).obj = q[1] /\ Makes(Step(t))
      BY <2>1, WhoMoves
    <2>3. PICK x : Matches(t, x) /\ Safe(RulesIn(t, phase[t], failed[t]), Step(t), x)
      BY <2>2, NextStep
    <2>4. RulesIn(t, phase[t], failed[t]).bonds = MakingNeeds(t, TOptions[t])
      BY <2>2, NextStep, NeedsIn
    <2>5. q[2] \in x.held
      BY <2>1, <2>2, <2>3, <2>4 DEF Safe
    <2>6. q[2] \in Held(t) \/ q[2] \in Exposed
      BY <2>3, <2>5 DEF Matches
    <2> QED BY <2>6 DEF Held
  <1>2. IInv /\ [Next]_vars => [P]_vars
    BY <1>1
  <1> QED BY <1>2, Invariance, PTL DEF Spec, PreparedFirst

\* While a test runs, nothing of what Prepare has made is taken away.
LEMMA PreparedStays ==
    ASSUME IInv, NEW t \in Test, Busy(t), CanGo(Step(t)), Takes(Step(t)),
           phase[t] \in {"create", "execute", "teardown"}
    PROVE  Step(t).obj \notin Prepared(t, TOptions[t])
  <1>1. /\ n[t] \in 1 .. Len(StepsIn(t, phase[t], pods[t]))
        /\ \E x : On(t, phase[t], n[t] + 1, failed[t], pods[t], Effect(Step(t), x))
    BY NextStep
  <1>2. PICK x : On(t, phase[t], n[t] + 1, failed[t], pods[t], Effect(Step(t), x))
    BY <1>1
  <1>3. n[t] + 1 \in 1 .. Len(StepsIn(t, phase[t], pods[t])) + 1
    BY <1>1
  <1>4. Effect(Step(t), x) \in Mid(t, TOptions[t])
    BY <1>2, <1>3, InMid
  <1>5. Prepared(t, TOptions[t]) \subseteq Effect(Step(t), x).held
    BY <1>4 DEF Mid, Midway, Between
  <1>6. Step(t).obj \notin Effect(Step(t), x).held
    BY DEF Effect, Shadow, Makes, Takes
  <1> QED BY <1>5, <1>6

LEMMA NotThePrepared ==
    ASSUME NEW t \in Test, NEW p \in Prerequisites(t)
    PROVE  p \in Prepared(t, TOptions[t]) /\ p # Workflow(t)
  <1>1. p \in Prepared(t, TOptions[t])
    BY PrerequisitesOf DEF Prepared
  <1> QED BY <1>1, WorkflowApart DEF Surroundings

\* Cleanup takes things away in the right order, whatever it has to undo: as long as
\* WaitForDeletion is not mistaken, nothing of a test goes while something else of it
\* lives on it, unless it may be destroyed by its name.
THEOREM Dependents == ASSUME ~Flaky PROVE Spec => DependentsGoFirst
  <1> DEFINE P == \A t \in Test : \A q \in Lives[t] :
                     Going(q[2]) /\ owner[q[1]] = t /\ owner[q[2]] = t /\ q[2] \notin Exposed =>
                        IF q[1] = Workflow(t)
                        THEN life[q[1]] = "present" => failed[t] \/ ~TOptions[t].teardown
                        ELSE life[q[1]] = "absent"
  <1>1. IInv /\ [Next]_vars => P
    <2> SUFFICES ASSUME IInv, [Next]_vars, NEW t \in Test, NEW q \in Lives[t],
                        Going(q[2]), owner[q[1]] = t, owner[q[2]] = t, q[2] \notin Exposed
                 PROVE  IF q[1] = Workflow(t)
                        THEN life[q[1]] = "present" => failed[t] \/ ~TOptions[t].teardown
                        ELSE life[q[1]] = "absent"
      OBVIOUS
    <2>1. q[1] \in Object /\ q[2] \in Object
      BY DEF Lives, Among
    <2>2. PICK u \in Test : Busy(u) /\ CanGo(Step(u)) /\ Step(u).obj = q[2] /\ Takes(Step(u))
      BY <2>1, WhoMoves
    <2>3. u = t
      BY <2>2, Takings DEF Held
    <2>4. CASE q \in LivingNeeds(t, TOptions[t])
      <3>1. PICK x : Matches(t, x) /\ Safe(RulesIn(t, phase[t], failed[t]), Step(t), x)
        BY <2>2, <2>3, NextStep
      <3>2. RulesIn(t, phase[t], failed[t]).lives = LivingNeeds(t, TOptions[t])
        BY <2>2, <2>3, NextStep, NeedsIn
      <3>3. q[1] \notin x.held /\ q[1] \notin x.going
        BY <2>2, <2>3, <2>4, <3>1, <3>2 DEF Safe
      <3>4. q[1] \notin Held(t) /\ q[1] \notin Leaving(t)
        BY <3>1, <3>3 DEF Matches
      <3>5. life[q[1]] = "absent"
        BY <2>1, <3>4 DEF Held, Leaving, IInv, Types
      <3> QED BY <3>5
    <2>5. CASE q[1] = Workflow(t) /\ q[2] \in Prerequisites(t)
      <3> SUFFICES ASSUME life[q[1]] = "present", ~failed[t], TOptions[t].teardown PROVE FALSE
        BY <2>5
      <3>1. phase[t] \in Phase
        BY <2>2, <2>3, NextStep
      <3>2. phase[t] # "prepare"
        BY <2>5 DEF IInv, InvOf, WorkflowKept, Stage
      <3>3. phase[t] # "cleanup"
        BY <2>1, <2>5 DEF IInv, InvOf, WorkflowKept, Held
      <3>4. phase[t] \notin {"create", "execute", "teardown"}
        BY <2>2, <2>3, <2>5, PreparedStays, NotThePrepared
      <3> QED BY <3>1, <3>2, <3>3, <3>4 DEF Phase
    <2> QED BY <2>4, <2>5, LivesOf
  <1>2. IInv /\ [Next]_vars => [P]_vars
    BY <1>1
  <1> QED BY <1>2, Invariance, PTL DEF Spec, DependentsGoFirst

-----------------------------------------------------------------------------
(* A healthy cluster. *)

\* No two tests that may run together share a name: this is what "Serialized" is for.
Exclusive ==
    \A t, u \in Test :
        t # u /\ Objects(t, TOptions[t]) \cap Objects(u, TOptions[u]) # {} =>
           Procs = 1 \/ TOptions[t].serial \/ TOptions[u].serial

\* What a test may leave behind.
Private(t) == {Workflow(t)} \cup NotAwaited(t)

\* Nothing fails, nothing is left over, and no test gets into its own way, into that of
\* one it may run with, or, with what it leaves behind, into that of any other.
Healthy ==
    /\ ~Faulty /\ ~Flaky /\ Leftovers = {}
    /\ \A t \in Test : Clear(TOptions[t])
    /\ Exclusive
    /\ \A t, u \in Test : t # u => Private(t) \cap Objects(u, TOptions[u]) = {}

\* The others, while a test runs, run beside it because they may, have not begun, or
\* have left nothing that it needs.
HInv ==
    /\ \A t \in Test : ~failed[t]
    /\ \A o \in Object : life[o] # "absent" => owner[o] \in Test
    /\ \A t, u \in Running : t # u =>
          Procs # 1 /\ ~TOptions[t].serial /\ ~TOptions[u].serial
    /\ \A t \in Test : Skips(t) => \A o \in Object : owner[o] # t
    /\ \A t \in Test : phase[t] = "done" =>
          \A o \in Object : owner[o] = t /\ life[o] # "absent" => o \in Private(t)

\* What a running test needs the name of, and is there, is its own.
LEMMA Mine ==
    ASSUME Healthy, IInv, HInv, NEW t \in Running, NEW o \in Objects(t, TOptions[t]),
           o \in Object, life[o] # "absent"
    PROVE  owner[o] = t
  <1>1. PICK u \in Test : owner[o] = u
    BY DEF HInv
  <1>2. o \in Objects(u, TOptions[u])
    BY <1>1 DEF IInv, Own1
  <1>3. t \in Test
    BY DEF Running
  <1> SUFFICES ASSUME u # t PROVE FALSE
    BY <1>1
  <1>4. phase[u] # "waiting"
    BY <1>1 DEF IInv, InvOf, Fresh
  <1>5. phase[u] # "done"
    <2>1. o \notin Private(u)
      BY <1>3 DEF Healthy
    <2> QED BY <1>1, <2>1 DEF HInv
  <1>6. u \in Running
    BY <1>4, <1>5 DEF Running
  <1>7. Objects(t, TOptions[t]) \cap Objects(u, TOptions[u]) # {}
    BY <1>2
  <1>8. Procs = 1 \/ TOptions[t].serial \/ TOptions[u].serial
    BY <1>3, <1>7 DEF Healthy, Exclusive
  <1> QED BY <1>6, <1>8 DEF HInv

\* No step is hopeless: it can be taken, or waits for a deletion.
LEMMA StepWorks ==
    ASSUME Healthy, IInv, HInv, NEW t \in Test, Busy(t)
    PROVE  ~Hopeless(t)
  <1> DEFINE e == Step(t)
             c == RulesIn(t, phase[t], failed[t])
  <1>1. /\ phase[t] \in Phase /\ n[t] \in 1 .. Len(StepsIn(t, phase[t], pods[t]))
        /\ e = StepsIn(t, phase[t], pods[t])[n[t]]
        /\ e \in StepOn(Objects(t, TOptions[t]))
    BY NextStep
  <1>2. PICK x : On(t, phase[t], n[t], failed[t], pods[t], x) /\ Matches(t, x)
    BY NextStep
  <1>3. c.sure
    <2>1. Clear(TOptions[t]) /\ failed[t] = FALSE
      BY DEF Healthy, HInv, IInv, Types
    <2> DEFINE free == Only(failed[t] /\ TOptions[t].cleanupPersistent, {OwnFileSystem(TOptions[t])})
    <2>2. free = {}
      BY <2>1 DEF Only
    <2> QED BY <1>1, <2>1, <2>2 DEF Phase, RulesIn, Rules, CleanupRules
  <1>4. ~Blocked(c, e, x)
    BY <1>3 DEF Blocked
  <1>5. Succeeds(e, x)
    <2>1. Safe(c, e, x)
      <3> HIDE DEF e
      <3> QED BY <1>1, <1>2, <1>4, Advance
    <2> QED BY <1>3, <2>1 DEF Safe
  <1>6. e.obj \in Objects(t, TOptions[t]) /\ e.obj \in Object /\ e.op \in Op
    BY <1>1, ObjectsOf DEF StepOn
  <1>7. t \in Running
    BY DEF Busy
  <1>8. life[e.obj] \in {"absent", "present", "deleting"}
    BY <1>6 DEF IInv, Types
  <1>9. life[e.obj] # "absent" => owner[e.obj] = t
    BY <1>6, <1>7, Mine
  <1>10. x.held = Held(t) /\ Leaving(t) \subseteq x.going
    <2>1. Exposed = {}
      BY DEF Exposed, HInv
    <2> QED BY <1>2, <2>1 DEF Matches, Healthy
  <1> HIDE DEF e, c
  <1>11. CASE Makes(e)
    <2>1. e.obj \notin Held(t) /\ e.obj \notin Leaving(t)
      BY <1>5, <1>10, <1>11 DEF Succeeds
    <2>2. life[e.obj] = "absent"
      BY <1>6, <1>8, <1>9, <2>1 DEF Held, Leaving
    <2> QED BY <1>11, <2>2 DEF Hopeless, CanDo, Makes, e
  <1>12. CASE e.op = "gone"
    <2>1. e.obj \notin Held(t)
      BY <1>5, <1>10, <1>12 DEF Succeeds
    <2>2. life[e.obj] \in {"absent", "deleting"}
      BY <1>6, <1>8, <1>9, <2>1 DEF Held
    <2> QED BY <1>12, <2>2 DEF Hopeless, CanDo, MayWait, Makes, e
  <1>13. CASE e.op \in {"await", "run"} \/ Takes(e)
    <2>1. e.obj \in Held(t)
      BY <1>5, <1>10, <1>13 DEF Succeeds
    <2>2. life[e.obj] = "present"
      BY <2>1 DEF Held
    <2> QED BY <1>13, <2>2 DEF Hopeless, CanDo, Takes, Makes, e
  <1> QED BY <1>6, <1>11, <1>12, <1>13 DEF Op, Makes, Takes

LEMMA NoneLost == ASSUME HInv PROVE Lost = {} /\ Cardinality(Lost) = 0
  <1>1. Lost = {}
    BY DEF HInv, Lost
  <1> QED BY <1>1, FS_EmptySet

LEMMA HealthyInit == ASSUME Healthy, Init PROVE HInv
  <1>1. \A t \in Test : ~failed[t] /\ phase[t] = "waiting"
    BY DEF Init
  <1>2. \A o \in Object : life[o] = "absent"
    BY DEF Init, Healthy
  <1> QED BY <1>1, <1>2 DEF HInv, Running, Skips

LEMMA HealthyStart ==
    ASSUME Healthy, IsFiniteSet(Test), IInv, HInv, NEW t \in Test, Start(t)
    PROVE  HInv'
  <1>1. /\ phase[t] = "waiting" /\ phase' = [phase EXCEPT ![t] = "prepare"]
        /\ Cardinality(Running) + Cardinality(Lost) < Procs
        /\ \A u \in Running : ~TOptions[u].serial
        /\ TOptions[t].serial => Running = {}
        /\ UNCHANGED <<n, failed, pods, life, owner, kind>>
    BY DEF Start
  <1>2. phase'[t] = "prepare" /\ \A u \in Test : u # t => phase'[u] = phase[u]
    BY <1>1 DEF IInv, Types
  <1>3. Running' = Running \cup {t} /\ t \notin Running
    BY <1>1, <1>2 DEF Running
  <1>4. Procs = 1 => Running = {}
    <2>1. IsFiniteSet(Running)
      BY FS_Subset DEF Running
    <2>2. Cardinality(Running) \in Nat /\ (Cardinality(Running) = 0 => Running = {})
      BY <2>1, FS_CardinalityType, FS_EmptySet
    <2> QED BY <1>1, <2>2, NoneLost
  <1>5. ASSUME NEW u \in Running', NEW v \in Running', u # v
        PROVE  Procs # 1 /\ ~TOptions[u].serial /\ ~TOptions[v].serial
    BY <1>1, <1>3, <1>4, <1>5 DEF HInv
  <1>6. \A o \in Object : owner[o] # t
    BY <1>1 DEF IInv, InvOf, Fresh
  <1>7. \A u \in Test : Skips(u)' => u = t \/ Skips(u)
    BY <1>1, <1>2 DEF Skips
  <1> QED BY <1>1, <1>2, <1>5, <1>6, <1>7 DEF HInv

\* The others stand where they stood, and the test fails in nothing.
LEMMA HealthyMove ==
    ASSUME HInv, NEW t \in Test, t \in Running,
           \A u \in Test : u # t => phase'[u] = phase[u], phase'[t] # "waiting",
           UNCHANGED <<failed, kind>>,
           \A o \in Object : life'[o] # "absent" =>
              owner'[o] = t \/ (life[o] # "absent" /\ owner'[o] = owner[o]),
           \A o \in Object : owner'[o] = owner[o] \/ owner'[o] = t,
           Skips(t)' => \A o \in Object : owner'[o] # t,
           phase'[t] = "done" =>
              \A o \in Object : owner'[o] = t /\ life'[o] # "absent" => o \in Private(t)
    PROVE  HInv'
  <1>1. Running' \subseteq Running
    BY DEF Running
  <1>2. ASSUME NEW u \in Test, Skips(u)', NEW o \in Object PROVE owner'[o] # u
    <2>1. CASE u = t
      BY <1>2, <2>1
    <2>2. CASE u # t
      <3>1. Skips(u)
        BY <1>2, <2>2 DEF Skips
      <3> QED BY <2>2, <3>1 DEF HInv
    <2> QED BY <2>1, <2>2
  <1>3. ASSUME NEW u \in Test, phase'[u] = "done", NEW o \in Object, owner'[o] = u,
               life'[o] # "absent"
        PROVE  o \in Private(u)
    <2>1. CASE u = t
      BY <1>3, <2>1
    <2>2. CASE u # t
      BY <1>3, <2>2 DEF HInv
    <2> QED BY <2>1, <2>2
  <1>4. \A o \in Object : life'[o] # "absent" => owner'[o] \in Test
    BY DEF HInv
  <1>5. \A u, v \in Running' : u # v =>
           Procs # 1 /\ ~TOptions[u].serial /\ ~TOptions[v].serial
    BY <1>1 DEF HInv
  <1> QED BY <1>2, <1>3, <1>4, <1>5 DEF HInv, Private, NotAwaited

LEMMA HealthyCall ==
    ASSUME Healthy, IInv, HInv, NEW t \in Test, Call(t)
    PROVE  HInv'
  <1> DEFINE e == Step(t)
  <1>1. /\ Busy(t) /\ CanGo(e) /\ CanDo(e, life) /\ Affects(t) /\ t \in Running /\ ~Skips(t)
        /\ UNCHANGED <<phase, failed, kind>>
    BY DEF Call, CanGo, Busy, Healthy
  <1>2. e.obj \in Object
    <2>1. e \in StepOn(Objects(t, TOptions[t]))
      BY <1>1, NextStep
    <2> QED BY <2>1, ObjectsOf DEF StepOn
  <1>3. \A o \in Object : o # e.obj => life'[o] = life[o] /\ owner'[o] = owner[o]
    BY <1>1, Affected
  <1>4. \/ owner'[e.obj] = t
        \/ owner'[e.obj] = owner[e.obj] /\ (life'[e.obj] = life[e.obj] \/ life[e.obj] # "absent")
    <2>1. CASE Makes(e)
      BY <1>1, <1>2, <2>1 DEF Affects, IInv, Types
    <2>2. CASE Takes(e)
      <3>1. owner' = owner
        BY <1>1, <2>2 DEF Affects, Makes, Takes
      <3>2. life[e.obj] # "absent"
        BY <1>1, <2>2 DEF CanDo, Makes, Takes
      <3> QED BY <3>1, <3>2
    <2>3. CASE ~Makes(e) /\ ~Takes(e)
      BY <1>1, <2>3 DEF Affects, After
    <2> QED BY <2>1, <2>2, <2>3
  <1> HIDE DEF e
  <1>5. \A o \in Object : owner'[o] = owner[o] \/ owner'[o] = t
    BY <1>3, <1>4
  <1>6. \A o \in Object : life'[o] # "absent" =>
           owner'[o] = t \/ (life[o] # "absent" /\ owner'[o] = owner[o])
    BY <1>3, <1>4
  <1>7. ~Skips(t)' /\ phase[t] \notin {"waiting", "done"}
    BY <1>1 DEF Skips, Running
  <1> QED BY <1>1, <1>5, <1>6, <1>7, HealthyMove

LEMMA HealthyEnds ==
    ASSUME Healthy, IInv, HInv, NEW t \in Test, PhaseEnds(t)
    PROVE  HInv'
  <1>1. /\ t \in Running /\ n[t] > Len(Steps(t)) /\ phase' = [phase EXCEPT ![t] = NextPhase(@)]
        /\ UNCHANGED <<failed, life, owner, kind>>
    BY DEF PhaseEnds
  <1>2. phase[t] \in Phase
    BY <1>1, RunningPhase DEF IInv, Types
  <1>3. phase'[t] = NextPhase(phase[t]) /\ \A u \in Test : u # t => phase'[u] = phase[u]
    BY <1>1 DEF IInv, Types
  <1>4. phase'[t] \notin {"waiting", "prepare"} /\ (phase'[t] = "done" => phase[t] = "cleanup")
    BY <1>2, <1>3 DEF NextPhase, Phase
  <1>5. ASSUME phase'[t] = "done", NEW o \in Object, owner[o] = t, life[o] # "absent"
        PROVE  o \in Private(t)
    BY <1>1, <1>4, <1>5, CleanEnd DEF Private, NotAwaited, Healthy
  <1>6. ~Skips(t)'
    BY <1>4 DEF Skips
  <1> QED BY <1>1, <1>3, <1>4, <1>5, <1>6, HealthyMove

LEMMA HealthySkip == ASSUME IInv, HInv, NEW t \in Test, Skip(t) PROVE HInv'
  <1>1. /\ Skips(t) /\ phase' = [phase EXCEPT ![t] = "done"]
        /\ UNCHANGED <<failed, life, owner, kind>>
    BY DEF Skip
  <1>2. phase'[t] = "done" /\ \A u \in Test : u # t => phase'[u] = phase[u]
    BY <1>1 DEF IInv, Types
  <1>3. \A o \in Object : owner[o] # t
    BY <1>1 DEF HInv
  <1>4. t \in Running /\ ~Skips(t)'
    BY <1>1, <1>2 DEF Running, Skips
  <1> QED BY <1>1, <1>2, <1>3, <1>4, HealthyMove

LEMMA HealthyVanish == ASSUME IInv, HInv, NEW o \in Object, Vanish(o) PROVE HInv'
  <1>1. /\ life' = [life EXCEPT ![o] = "absent"] /\ UNCHANGED <<phase, failed, owner, kind>>
    BY DEF Vanish
  <1>2. \A u \in Object : life'[u] # "absent" => life[u] # "absent"
    BY <1>1 DEF IInv, Types
  <1>3. Running' = Running /\ \A t \in Test : Skips(t)' = Skips(t)
    BY <1>1 DEF Running, Skips
  <1> QED BY <1>1, <1>2, <1>3 DEF HInv, Private, NotAwaited

\* On a healthy cluster no test fails, in whatever order the tests run and their steps
\* interleave: what each needs has been left, or was never taken, by the others.
THEOREM Passes == ASSUME Healthy, IsFiniteSet(Test) PROVE Spec => []NoneFails
  <1>1. Init => HInv
    BY HealthyInit
  <1>2. ASSUME IInv, HInv, [Next]_vars PROVE HInv'
    <2>1. ASSUME NEW t \in Test, Start(t) PROVE HInv'
      BY <1>2, <2>1, HealthyStart
    <2>2. ASSUME NEW t \in Test, Skip(t) PROVE HInv'
      BY <1>2, <2>2, HealthySkip
    <2>3. ASSUME NEW t \in Test, Call(t) PROVE HInv'
      BY <1>2, <2>3, HealthyCall
    <2>4. ASSUME NEW t \in Test, PhaseEnds(t) PROVE HInv'
      BY <1>2, <2>4, HealthyEnds
    <2>5. ASSUME NEW t \in Test, StepFails(t) PROVE FALSE
      BY <1>2, <2>5, StepWorks DEF StepFails, Healthy
    <2>6. ASSUME NEW t \in Test, RunFails(t) PROVE FALSE
      BY <2>6 DEF RunFails, Healthy
    <2>7. ASSUME NEW t \in Test, Abort(t) PROVE FALSE
      BY <1>2, <2>7, NoneLost DEF Abort
    <2>8. ASSUME NEW o \in Object, Vanish(o) PROVE HInv'
      BY <1>2, <2>8, HealthyVanish
    <2>9. ASSUME UNCHANGED vars PROVE HInv'
      BY <1>2, <2>9 DEF vars, HInv, Running, Skips
    <2> QED BY <1>2, <2>1, <2>2, <2>3, <2>4, <2>5, <2>6, <2>7, <2>8, <2>9 DEF Next, TestStep
  <1>3. HInv => NoneFails
    BY DEF HInv, NoneFails
  <1>4. IInv /\ HInv /\ [Next]_vars => HInv'
    BY <1>2
  <1> QED BY <1>1, <1>3, <1>4, Invariance, PTL DEF Spec

-----------------------------------------------------------------------------
(* The persistent file system of a test that has passed. *)

\* A test that is skipped has not made it, and when one has passed that has, it is gone.
GoneInv ==
    \A t \in Test : TOptions[t].persistentLustre # NoName =>
        LET fs == FileSystem(TOptions[t]) IN
        /\ Skips(t) => owner[fs] # t
        /\ phase[t] = "done" /\ ~failed[t] /\ owner[fs] = t => life[fs] = "absent"

\* It is waited for.
LEMMA FileSystemAwaited ==
    ASSUME NEW t \in Test, TOptions[t].persistentLustre # NoName
    PROVE  /\ FileSystem(TOptions[t]) \in Object
           /\ FileSystem(TOptions[t]) \notin
                 NotAwaited(t) \cup {Workflow(t), OwnFileSystem(TOptions[t])}
  <1> DEFINE o == TOptions[t]
             fs == FileSystem(o)
             O == Objects(t, o)
             S == Surroundings(t, o)
             a == PersistentPrepare(o)
             b == When(o.externalMgs, Create(Profile(o.storageProfile)))
             c == Create(Creator(fs))
             d == Provision(fs)
  <1>1. fs[1] = "persistent lustre" /\ fs # OwnFileSystem(o)
    BY Kinds, OwnApart, Options
  <1>2. fs \in Object
    <2>1. WellFormed(o)
      BY Options
    <2>2. LustrePart(o) \in Seq(StepOn(O)) /\ LustrePart(o) = a \o b
      <3>1. LustrePart(o) \in Seq(StepOn(O))
        BY <2>1, PartsOfScript
      <3>2. LustrePart(o) = a \o b
        BY DEF LustrePart, When
      <3> QED BY <3>1, <3>2
    <2> DEFINE W == {fs, Creator(fs), Profile(o.storageProfile)}
               T == Seq(StepOn(W))
    <2>3. fs \in W /\ Creator(fs) \in W /\ Profile(o.storageProfile) \in W
      OBVIOUS
    <2> HIDE DEF W
    <2>4. c \in T /\ d \in T /\ Await(fs) \in T /\ b \in T
      BY <2>3, OneStep, WhenSteps
    <2>5. a = (c \o d) \o Await(fs)
      BY DEF PersistentPrepare
    <2> HIDE DEF O, a, b, c, d
    <2>6. c \o d \in T /\ a \in T
      BY <2>4, <2>5
    <2>7. a \in Seq(StepOn(O))
      BY <2>2, <2>4, <2>6, PartSteps
    <2>8. c \o d \in Seq(StepOn(O))
      BY <2>4, <2>5, <2>6, <2>7, PartSteps
    <2>9. d \in Seq(StepOn(O))
      BY <2>4, <2>8, PartSteps
    <2>10. fs \in O
      BY <2>9, OneObject DEF d, Provision
    <2> QED BY <2>10, ObjectsOf DEF O
  <1>3. fs \notin NotAwaited(t) \cup {Workflow(t), OwnFileSystem(o)}
    BY <1>1, Kinds DEF NotAwaited
  <1> QED BY <1>2, <1>3

\* Another test does not bring back what this one has made.
LEMMA FileSystemKept ==
    ASSUME IInv, NEW t \in Test, NEW u \in Test, u # t, TestStep(u), NEW fs \in Object,
           owner'[fs] = t
    PROVE  /\ phase'[t] = phase[t] /\ failed'[t] = failed[t] /\ kind' = kind
           /\ owner[fs] = t /\ (life[fs] = "absent" => life'[fs] = "absent")
  <1>1. phase'[t] = phase[t] /\ failed'[t] = failed[t] /\ kind' = kind
    BY DEF TestStep, Start, Skip, Call, PhaseEnds, StepFails, RunFails, Abort, Fails, IInv, Types
  <1>2. (life' = life /\ owner' = owner) \/ Call(u) \/ RunFails(u)
    BY DEF TestStep, Start, Skip, PhaseEnds, StepFails, Abort
  <1>3. (life' = life /\ owner' = owner) \/ (Busy(u) /\ CanGo(Step(u)) /\ Affects(u))
    BY <1>2 DEF Call, RunFails, CanGo
  <1>4. ASSUME Busy(u), CanGo(Step(u)), Affects(u)
        PROVE  owner[fs] = t /\ (life[fs] = "absent" => life'[fs] = "absent")
    <2> DEFINE e == Step(u)
    <2>1. CASE e.obj # fs
      BY <1>4, <2>1, Affected
    <2>2. CASE e.obj = fs
      <3>1. ~Makes(e)
        BY <1>4, <2>2 DEF Affects, IInv, Types
      <3>2. owner' = owner
        BY <1>4, <3>1 DEF Affects
      <3>3. Takes(e) => life[fs] # "absent"
        BY <1>4, <2>2 DEF CanGo, CanDo, Makes, Takes
      <3>4. ~Takes(e) => life' = life
        BY <1>4, <3>1 DEF Affects, After
      <3> HIDE DEF e
      <3> QED BY <3>2, <3>3, <3>4
    <2> QED BY <2>1, <2>2
  <1> QED BY <1>1, <1>3, <1>4

LEMMA GoneStep == ASSUME ~Flaky, IInv, GoneInv, [Next]_vars PROVE GoneInv'
  <1> SUFFICES ASSUME NEW t \in Test, TOptions[t].persistentLustre # NoName,
                      owner'[FileSystem(TOptions[t])] = t
               PROVE  /\ ~Skips(t)'
                      /\ phase'[t] = "done" /\ ~failed'[t] =>
                            life'[FileSystem(TOptions[t])] = "absent"
    BY DEF GoneInv
  <1> DEFINE fs == FileSystem(TOptions[t])
             Goal == /\ ~Skips(t)'
                     /\ phase'[t] = "done" /\ ~failed'[t] => life'[fs] = "absent"
  <1>1. /\ Skips(t) => owner[fs] # t
        /\ phase[t] = "done" /\ ~failed[t] /\ owner[fs] = t => life[fs] = "absent"
    BY DEF GoneInv
  <1>2. /\ fs \in Object /\ fs \notin NotAwaited(t) \cup {Workflow(t), OwnFileSystem(TOptions[t])}
        /\ owner'[fs] = t
    BY FileSystemAwaited
  <1> HIDE DEF fs
  <1>3. ASSUME phase'[t] = phase[t], failed'[t] = failed[t], kind' = kind,
               owner[fs] = t, life[fs] = "absent" => life'[fs] = "absent"
        PROVE  Goal
    BY <1>1, <1>3 DEF Skips
  <1>4. ASSUME UNCHANGED vars PROVE Goal
    BY <1>2, <1>3, <1>4 DEF vars
  <1>5. ASSUME NEW u \in Test, u # t, TestStep(u) PROVE Goal
    <2>1. /\ phase'[t] = phase[t] /\ failed'[t] = failed[t] /\ kind' = kind
          /\ owner[fs] = t /\ (life[fs] = "absent" => life'[fs] = "absent")
      BY <1>2, <1>5, FileSystemKept
    <2> QED BY <1>3, <2>1
  <1>6. ASSUME Start(t) PROVE FALSE
    <2>1. phase[t] = "waiting" /\ owner' = owner
      BY <1>6 DEF Start
    <2> QED BY <1>2, <2>1 DEF IInv, InvOf, Fresh
  <1>7. ASSUME Skip(t) PROVE FALSE
    <2>1. Skips(t) /\ owner' = owner
      BY <1>7 DEF Skip
    <2> QED BY <1>1, <1>2, <2>1
  <1>8. ASSUME Call(t) PROVE Goal
    <2>1. ~Skips(t) /\ t \in Running /\ UNCHANGED <<phase, kind>>
      BY <1>8 DEF Call, Busy
    <2> QED BY <2>1 DEF Running, Skips
  <1>9. ASSUME PhaseEnds(t) PROVE Goal
    <2>1. /\ t \in Running /\ n[t] > Len(Steps(t)) /\ phase' = [phase EXCEPT ![t] = NextPhase(@)]
          /\ UNCHANGED <<failed, life, owner, kind>>
      BY <1>9 DEF PhaseEnds
    <2>2. phase[t] \in Phase
      BY <2>1, RunningPhase DEF IInv, Types
    <2>3. phase'[t] = NextPhase(phase[t])
      BY <2>1 DEF IInv, Types
    <2>4. phase'[t] \notin {"waiting", "prepare"} /\ (phase'[t] = "done" => phase[t] = "cleanup")
      BY <2>2, <2>3 DEF NextPhase, Phase
    <2>5. ASSUME phase'[t] = "done", life[fs] # "absent" PROVE FALSE
      BY <1>2, <2>1, <2>4, <2>5, CleanEnd
    <2> QED BY <2>1, <2>4, <2>5 DEF Skips
  <1>10. ASSUME StepFails(t) \/ RunFails(t) \/ Abort(t) PROVE Goal
    <2>1. Fails(t)
      BY <1>10 DEF StepFails, RunFails, Abort
    <2>2. phase'[t] = PhaseAfterFailure(phase[t]) /\ failed'[t] = TRUE
      BY <2>1 DEF Fails, IInv, Types
    <2>3. phase'[t] # "prepare"
      BY <2>2 DEF PhaseAfterFailure
    <2> QED BY <2>2, <2>3 DEF Skips
  <1>11. ASSUME NEW o \in Object, Vanish(o) PROVE Goal
    <2>1. /\ life[fs] = "absent" => life'[fs] = "absent"
          /\ UNCHANGED <<phase, failed, owner, kind>>
      BY <1>2, <1>11 DEF Vanish, IInv, Types
    <2> QED BY <1>2, <1>3, <2>1
  <1>12. ASSUME TestStep(t) PROVE Goal
    BY <1>6, <1>7, <1>8, <1>9, <1>10, <1>12 DEF TestStep
  <1>13. Goal
    <2> HIDE DEF Goal
    <2> QED BY <1>4, <1>5, <1>11, <1>12 DEF Next
  <1> QED BY <1>13 DEF fs

\* A test that has passed has no NnfStorage of its persistent lustre left, whatever fails in
\* the other tests, whichever names they share with it and however their steps interleave,
\* if WaitForDeletion ends only when an object is gone: what "lifecycle_flaky" shows is the
\* doing of WaitForDeletion alone.
THEOREM StorageGone == ASSUME ~Flaky PROVE Spec => []StorageGoneFirst
  <1>1. Init => GoneInv
    <2> SUFFICES ASSUME Init, NEW t \in Test, TOptions[t].persistentLustre # NoName
                 PROVE  owner[FileSystem(TOptions[t])] # t
      BY DEF GoneInv, Init
    <2>1. FileSystem(TOptions[t]) \in Object
      BY FileSystemAwaited
    <2> QED BY <2>1, NoNameAssumption DEF Init
  <1>2. IInv /\ GoneInv /\ [Next]_vars => GoneInv'
    BY GoneStep
  <1>3. GoneInv => StorageGoneFirst
    BY DEF GoneInv, StorageGoneFirst
  <1> QED BY <1>1, <1>2, <1>3, Invariance, PTL DEF Spec

-----------------------------------------------------------------------------
(* Every test implements SpecOutline. *)

\* What the steps of a test do, as SpecOutline sees it.
LEMMA CallFollows ==
    ASSUME IInv, NEW t \in Test, Call(t)
    PROVE  Outline(t)!Begin \/ Outline(t)!Delete \/ UNCHANGED Outline(t)!ovars
  <1> DEFINE e == Step(t)
             w == Workflow(t)
  <1>1. /\ Busy(t) /\ CanGo(e) /\ Affects(t)
        /\ phase' = phase /\ failed' = failed /\ n' = [n EXCEPT ![t] = @ + 1]
    BY DEF Call, CanGo
  <1>2. n'[t] = n[t] + 1 /\ n[t] \in Nat \ {0} /\ w \in Object
    BY <1>1, ObjectsOf DEF IInv, Types
  <1>3. phase[t] \in Phase
    BY <1>1, NextStep
  <1>4. CASE phase[t] \in {"prepare", "cleanup"} \/ (phase[t] = "execute" /\ e.obj # w)
    <2>1. e.obj # w
      BY <1>1, <1>4, WorkflowStep
    <2>2. life'[w] = life[w]
      BY <1>1, <1>2, <2>1, Affected
    <2>3. Stage(t)' = Stage(t)
      BY <1>1, <1>4 DEF Stage
    <2> QED BY <1>1, <2>2, <2>3 DEF Outline!ovars
  <1>5. CASE phase[t] = "create"
    <2>1. n[t] = 1 /\ e = [op |-> "create", obj |-> w]
      BY <1>1, <1>5, WorkflowStep
    <2>2. life[w] = "absent" /\ life'[w] = "present"
      <3>1. Makes(e) /\ e.obj = w /\ e.op = "create"
        BY <2>1 DEF Makes
      <3> HIDE DEF e
      <3>2. life[w] = "absent"
        BY <1>1, <3>1 DEF CanGo, CanDo
      <3>3. life'[w] = "present"
        BY <1>1, <1>2, <3>1 DEF Affects, After, e, IInv, Types
      <3> QED BY <3>2, <3>3
    <2>3. Stage(t) = "before" /\ Stage(t)' = "running"
      BY <1>1, <1>2, <1>5, <2>1 DEF Stage
    <2> QED BY <1>1, <2>2, <2>3 DEF Outline!Begin
  <1>6. CASE phase[t] \in {"execute", "teardown"} /\ e.op = "run"
    <2>1. life' = life
      BY <1>1, <1>6 DEF Affects, After, Makes, Takes
    <2>2. Stage(t)' = Stage(t)
      BY <1>1, <1>6 DEF Stage
    <2> QED BY <1>1, <2>1, <2>2 DEF Outline!ovars
  <1>7. CASE phase[t] = "teardown" /\ e.op = "delete"
    <2>1. e.obj = w /\ Takes(e) /\ ~Makes(e)
      BY <1>1, <1>7, WorkflowStep DEF Makes, Takes
    <2>2. w \in Held(t)
      <3>1. w \notin Exposed
        BY ExposedKind, Kinds
      <3> QED BY <1>1, <2>1, <3>1, Takings
    <2>3. life[w] = "present" /\ life'[w] = "deleting"
      <3> HIDE DEF e
      <3> QED BY <1>1, <1>2, <2>1, <2>2 DEF Held, Affects, After, e, IInv, Types
    <2>4. ~failed[t]
      BY <1>7 DEF IInv, InvOf, FailedLate
    <2>5. Stage(t) = "running" /\ Stage(t)' = "running"
      BY <1>1, <1>7 DEF Stage
    <2> QED BY <1>1, <2>3, <2>4, <2>5 DEF Outline!Delete
  <1> QED BY <1>1, <1>3, <1>4, <1>5, <1>6, <1>7, WorkflowStep DEF Phase

LEMMA FailsFollows ==
    ASSUME IInv, NEW t \in Test, t \in Running, Fails(t), life'[Workflow(t)] = life[Workflow(t)]
    PROVE  Outline(t)!Refuse \/ Outline(t)!End \/ Outline(t)!FailLate
  <1>1. phase[t] \in Phase
    BY RunningPhase DEF IInv, Types
  <1>2. failed'[t] = TRUE /\ phase'[t] = PhaseAfterFailure(phase[t]) /\ n'[t] = 1
    BY DEF Fails, IInv, Types
  <1>3. Stage(t)' = "after"
    BY <1>1, <1>2 DEF Stage, PhaseAfterFailure, Phase
  <1>4. CASE Stage(t) = "before"
    BY <1>2, <1>3, <1>4 DEF Outline!Refuse
  <1>5. CASE Stage(t) = "running"
    BY <1>2, <1>3, <1>5 DEF Outline!End
  <1>6. CASE Stage(t) = "after"
    BY <1>2, <1>3, <1>6 DEF Outline!FailLate
  <1> QED BY <1>4, <1>5, <1>6 DEF Stage

LEMMA RunFailsFollows ==
    ASSUME IInv, NEW t \in Test, RunFails(t)
    PROVE  Outline(t)!Refuse \/ Outline(t)!End \/ Outline(t)!FailLate
  <1>1. /\ Busy(t) /\ CanGo(Step(t)) /\ Affects(t) /\ Fails(t) /\ t \in Running
        /\ Step(t).op \in {"provision", "destroy"}
    BY DEF RunFails, CanGo, Busy
  <1>2. phase[t] \in Phase /\ Workflow(t) \in Object
    BY <1>1, NextStep, ObjectsOf
  <1>3. Step(t).obj # Workflow(t)
    BY <1>1, <1>2, WorkflowStep DEF Phase
  <1>4. life'[Workflow(t)] = life[Workflow(t)]
    BY <1>1, <1>2, <1>3, Affected
  <1> QED BY <1>1, <1>4, FailsFollows

LEMMA PhaseEndsFollows ==
    ASSUME IInv, NEW t \in Test, PhaseEnds(t)
    PROVE  Outline(t)!End \/ UNCHANGED Outline(t)!ovars
  <1>1. /\ t \in Running /\ n[t] > Len(Steps(t)) /\ failed' = failed /\ life' = life
        /\ phase'[t] = NextPhase(phase[t]) /\ n'[t] = 1
    BY DEF PhaseEnds, IInv, Types
  <1>2. phase[t] \in Phase
    BY <1>1, RunningPhase DEF IInv, Types
  <1>3. phase[t] = "create" => n[t] # 1
    <2>1. ASSUME phase[t] = "create" PROVE Steps(t) = <<[op |-> "create", obj |-> Workflow(t)]>>
      BY <1>2, <2>1, StepsAre, WorkflowSteps DEF StepsIn, IInv, InvOf, Podded
    <2>2. ASSUME phase[t] = "create", n[t] = 1 PROVE FALSE
      <3>1. Len(Steps(t)) = 1
        BY <2>1, <2>2
      <3>2. 1 > Len(Steps(t))
        BY <1>1, <2>2
      <3> QED BY <3>1, <3>2
    <2> QED BY <2>2
  <1>4. CASE phase[t] = "teardown"
    <2>1. Stage(t) = "running" /\ Stage(t)' = "after"
      BY <1>1, <1>4 DEF Stage, NextPhase
    <2>2. failed[t] \in BOOLEAN
      BY DEF IInv, Types
    <2> QED BY <1>1, <2>1, <2>2 DEF Outline!End
  <1>5. CASE phase[t] # "teardown"
    <2>1. Stage(t)' = Stage(t)
      BY <1>1, <1>2, <1>3, <1>5 DEF Stage, NextPhase, Phase
    <2> QED BY <1>1, <2>1 DEF Outline!ovars
  <1> QED BY <1>4, <1>5

\* A test does not see the others.
LEMMA OthersStutter ==
    ASSUME IInv, NEW t \in Test, NEW u \in Test, u # t, TestStep(u)
    PROVE  UNCHANGED Outline(t)!ovars
  <1>1. phase'[t] = phase[t] /\ n'[t] = n[t] /\ failed'[t] = failed[t]
    BY DEF TestStep, Start, Skip, Call, PhaseEnds, StepFails, RunFails, Abort, Fails, IInv, Types
  <1>2. life'[Workflow(t)] = life[Workflow(t)]
    <2>1. CASE Call(u) \/ RunFails(u)
      <3>1. Busy(u) /\ CanGo(Step(u)) /\ Affects(u)
        BY <2>1 DEF Call, RunFails, CanGo
      <3> QED BY <3>1, Untouched
    <2>2. CASE ~(Call(u) \/ RunFails(u))
      BY <2>2 DEF TestStep, Start, Skip, PhaseEnds, StepFails, Abort
    <2> QED BY <2>1, <2>2
  <1>3. Stage(t)' = Stage(t)
    BY <1>1 DEF Stage
  <1> QED BY <1>1, <1>2, <1>3 DEF Outline!ovars

LEMMA VanishFollows ==
    ASSUME IInv, NEW t \in Test, NEW o \in Object, Vanish(o)
    PROVE  Outline(t)!Remove \/ UNCHANGED Outline(t)!ovars
  <1>1. Stage(t)' = Stage(t) /\ failed' = failed /\ life[o] = "deleting"
    BY DEF Vanish, Stage
  <1>2. CASE o = Workflow(t)
    <2>1. life'[o] = "absent"
      BY DEF Vanish, IInv, Types
    <2> QED BY <1>1, <1>2, <2>1 DEF Outline!Remove
  <1>3. CASE o # Workflow(t)
    <2>1. life'[Workflow(t)] = life[Workflow(t)]
      BY <1>3 DEF Vanish
    <2> QED BY <1>1, <2>1 DEF Outline!ovars
  <1> QED BY <1>2, <1>3

LEMMA OutlineStep ==
    ASSUME IInv, [Next]_vars, NEW t \in Test
    PROVE  [Outline(t)!Next]_(Outline(t)!ovars)
  <1>1. CASE Start(t)
    <2>1. Stage(t) = "before" /\ Stage(t)' = "before" /\ life' = life /\ failed' = failed
      BY <1>1 DEF Start, Stage, IInv, Types
    <2> QED BY <2>1 DEF Outline!ovars
  <1>2. CASE Skip(t)
    <2>1. Stage(t) = "before" /\ Stage(t)' = "after" /\ life' = life /\ failed' = failed
      BY <1>2 DEF Skip, Skips, Stage, IInv, Types
    <2>2. failed[t] \in BOOLEAN
      BY DEF IInv, Types
    <2> QED BY <2>1, <2>2 DEF Outline!Next, Outline!Refuse
  <1>3. CASE Call(t)
    BY <1>3, CallFollows DEF Outline!Next
  <1>4. CASE PhaseEnds(t)
    BY <1>4, PhaseEndsFollows DEF Outline!Next
  <1>5. CASE StepFails(t) \/ Abort(t)
    <2>1. t \in Running /\ Fails(t) /\ life' = life
      BY <1>5 DEF StepFails, Busy, Abort
    <2> QED BY <2>1, FailsFollows DEF Outline!Next
  <1>6. CASE RunFails(t)
    BY <1>6, RunFailsFollows DEF Outline!Next
  <1>7. ASSUME NEW u \in Test, u # t, TestStep(u) PROVE UNCHANGED Outline(t)!ovars
    BY <1>7, OthersStutter
  <1>8. ASSUME NEW o \in Object, Vanish(o) PROVE Outline(t)!Remove \/ UNCHANGED Outline(t)!ovars
    BY <1>8, VanishFollows
  <1>9. CASE UNCHANGED vars
    <2>1. Stage(t)' = Stage(t) /\ life' = life /\ failed' = failed
      BY <1>9 DEF vars, Stage
    <2> QED BY <2>1 DEF Outline!ovars
  <1>10. CASE \E u \in Test : TestStep(u)
    BY <1>1, <1>2, <1>3, <1>4, <1>5, <1>6, <1>7, <1>10 DEF TestStep
  <1>11. CASE \E o \in Object : Vanish(o)
    BY <1>8, <1>11 DEF Outline!Next
  <1> QED BY <1>9, <1>10, <1>11 DEF Next

\* Each test, among all the others and whatever fails, is an implementation of
\* SpecOutline: its workflow is made once and only if the name is free, and deleted by
\* its own teardown only, before Cleanup, and only if the test has not failed.
THEOREM OutlineFollowed == Spec => FollowsOutline
  <1> DEFINE P == \A t \in Test : [Outline(t)!Next]_(Outline(t)!ovars)
  <1>1. Init => \A t \in Test : Outline(t)!Init
    <2> SUFFICES ASSUME Init, NEW t \in Test PROVE Outline(t)!Init
      OBVIOUS
    <2>1. Stage(t) = "before" /\ failed[t] = FALSE
      BY DEF Init, Stage
    <2>2. life[Workflow(t)] \in {"absent", "present"}
      BY ObjectsOf DEF Init
    <2> QED BY <2>1, <2>2 DEF Outline!Init
  <1>2. IInv /\ [Next]_vars => P
    BY OutlineStep
  <1>3. IInv /\ [Next]_vars => [P]_vars
    BY <1>2
  <1> QED BY <1>1, <1>3, Invariance, PTL DEF Spec, FollowsOutline
=============================================================================
