------------------------ MODULE StationBranchesProofs ------------------------
(***************************************************************************)
(* Proofs about StationBranches, for any plan, units, conflicts and number *)
(* of faults: the model is well typed, committed work stays on a branch if *)
(* no worker's call overlaps a tick, run-main takes nothing from a station *)
(* that is not Completed, and while the process lives a station that       *)
(* closes by itself lands without a conflict.                              *)
(***************************************************************************)
EXTENDS StationBranches, NaturalsInduction, WellFoundedInduction, TLAPS

(* What the operators return *)

\* The frontier is a station that is not Completed.
LEMMA FrontierOpen ==
  ASSUME NEW st, Open(st) # {}
  PROVE  Frontier(st) \in Open(st)
<1>1. Open(st) \in SUBSET Nat
  BY BranchAssumption DEF Open, Station
<1> DEFINE Before == OpToRel(<, Nat)
<1>2. \E s \in Open(st) : \A t \in Open(st) : <<t, s>> \notin Before
  <2>1. IsWellFoundedOn(Before, Nat)
    BY NatLessThanWellFounded
  <2> HIDE DEF Before
  <2>2. QED
    BY <1>1, <2>1, WFMin
<1>3. \A t, s \in Nat : <<t, s>> \notin Before => s <= t
  BY DEF OpToRel
<1>4. \E s \in Open(st) : \A t \in Open(st) : s <= t
  <2> HIDE DEF Before
  <2>1. QED
    BY <1>1, <1>2, <1>3
<1>5. QED
  BY <1>4 DEF Frontier

\* A child's parent is another branch, and not the state worktree's HEAD.
LEMMA ParentIsBranch ==
  ASSUME NEW b \in Station \cup Unit
  PROVE  /\ Parent(b) \in {Main} \cup Station
         /\ Parent(b) \in Branch /\ b \in Branch
         /\ Parent(b) # b /\ Parent(b) # State
  BY BranchAssumption DEF Parent, Branch

\* A job on children is a job, and so is a list of one.
LEMMA JobIsJob ==
  ASSUME NEW op \in Ops, NEW who \in SUBSET (Station \cup Unit)
  PROVE  Job(op, who) \in Jobs /\ <<Job(op, who)>> \in Seq(Jobs)
  BY DEF Job, Jobs

\* The head of the jobs, and what Then makes of them.
LEMMA SeqMovesOn ==
  ASSUME NEW S, NEW q \in Seq(S), q # <<>>, NEW p \in Seq(S)
  PROVE  Head(q) \in S /\ Tail(q) \in Seq(S) /\ p \o Tail(q) \in Seq(S)
<1>1. Head(q) \in S /\ Tail(q) \in Seq(S)
  OBVIOUS
<1>2. QED
  BY <1>1

LEMMA ConcatAssociative ==
  ASSUME NEW S, NEW p \in Seq(S), NEW q \in Seq(S), NEW r \in Seq(S)
  PROVE  (p \o q) \o r = p \o (q \o r)
  OBVIOUS

LEMMA HeadOfFirst ==
  ASSUME NEW S, NEW x \in S, NEW q \in Seq(S)
  PROVE  Head(<<x>> \o q) = x /\ Tail(<<x>> \o q) = q
  OBVIOUS

LEMMA JobsMoveOn ==
  ASSUME jobs \in Seq(Jobs), jobs # <<>>
  PROVE  /\ Head(jobs) \in Jobs
         /\ Tail(jobs) \in Seq(Jobs)
         /\ \A next \in Seq(Jobs) : Then(next) => jobs' \in Seq(Jobs)
  BY SeqMovesOn DEF Then

LEMMA EachIsJobs ==
  ASSUME jobs \in Seq(Jobs), jobs # <<>>, NEW b
  PROVE  Each(b) \in Seq(Jobs)
<1>1. Head(jobs) \in Jobs
  BY JobsMoveOn
<1>2. Head(jobs).op \in Ops /\ Head(jobs).who \ {b} \in SUBSET (Station \cup Unit)
  BY <1>1 DEF Jobs
<1>3. QED
  BY <1>2, JobIsJob DEF Each

LEMMA TickJobsAreJobs ==
  ASSUME NEW st
  PROVE  TickJobs(st) \in Seq(Jobs)
<1>1. /\ <<Job("wip", {})>> \in Seq(Jobs)
      /\ Job("wip", {}) \in Jobs /\ Job("derive", {}) \in Jobs
  BY JobIsJob DEF Ops
<1>2. Open(st) # {} => <<Job("pull", {Frontier(st)})>> \in Seq(Jobs)
  BY FrontierOpen, JobIsJob DEF Open, Ops
<1>3. QED
  BY <1>1, <1>2 DEF TickJobs

LEMMA LandingIsJobs ==
  ASSUME NEW s \in Station, NEW st
  PROVE  Landing(s, st) \in Seq(Jobs)
<1>1. <<Job("land", {s})>> \in Seq(Jobs) /\ <<Job("deliver", {})>> \in Seq(Jobs)
  BY JobIsJob DEF Ops
<1>2. QED
  BY <1>1 DEF Landing

LEMMA MergeType ==
  ASSUME GitOK, NEW from \in Branch, NEW to \in Branch, Merge(from, to)
  PROVE  GitOK'
<1>1. holds' \in [Branch \cup {State} -> SUBSET Item]
  BY DEF GitOK, Merge
<1>2. unmerged' \in [Branch -> SUBSET Item]
  BY DEF GitOK, Merge
<1>3. temp' \in [Branch -> {"none", "conflict", "left"}]
  BY DEF GitOK, Merge
<1>4. QED
  BY <1>1, <1>2, <1>3 DEF GitOK, Merge

LEMMA PublishType ==
  ASSUME GitOK, NEW work \in [Branch \cup {State} -> SUBSET Item], Publish(work),
         UNCHANGED <<linked, temp>>
  PROVE  GitOK'
<1>1. Main \in Branch /\ StateTip \in SUBSET Item /\ Concluded \in SUBSET Item
  BY DEF GitOK, StateTip, Concluded, Branch
<1>2. CASE head = Main
  BY <1>1, <1>2 DEF GitOK, Publish
<1>3. CASE head # Main
  BY <1>1, <1>3 DEF GitOK, Publish
<1>4. QED
  BY <1>2, <1>3

-----------------------------------------------------------------------------
(* Type correctness *)

LEMMA InitType == Init => TypeOK
<1> SUFFICES ASSUME Init PROVE TypeOK
  OBVIOUS
<1>1. 1 \in Station
  BY BranchAssumption DEF Station
<1>2. PlanOK /\ TreeOK
  BY DEF Init, PlanOK, TreeOK, Statuses
<1>3. FaultsOK
  <2>1. MaxCrashes \in Nat /\ MaxSoils \in Nat /\ MaxLeaves \in Nat
    BY BranchAssumption
  <2>2. QED
    BY <2>1 DEF Init, FaultsOK
<1>4. GitOK
  BY <1>1 DEF Init, GitOK, Branch
<1>5. CallsOK
  BY DEF Init, CallsOK
<1>6. QED
  BY <1>2, <1>3, <1>4, <1>5 DEF TypeOK

\* The parts of the type invariant that a step leaves alone.
LEMMA PartsKept ==
  ASSUME TypeOK
  PROVE  /\ UNCHANGED plan => PlanOK'
         /\ UNCHANGED git => GitOK'
         /\ UNCHANGED tree => TreeOK'
         /\ UNCHANGED calls => CallsOK'
         /\ UNCHANGED faults => FaultsOK'
  BY DEF TypeOK, PlanOK, GitOK, TreeOK, CallsOK, FaultsOK, plan, git, tree, calls, faults

\* A step that only moves on with the jobs.
LEMMA CallsMoveOn ==
  ASSUME TypeOK, jobs # <<>>, NEW next \in Seq(Jobs), Then(next),
         UNCHANGED <<beats, told>>, reply' \subseteq Orders
  PROVE  CallsOK'
  BY JobsMoveOn DEF TypeOK, CallsOK

LEMMA DeriveType ==
  ASSUME TypeOK, Derive
  PROVE  TypeOK'
<1> DEFINE s == Frontier(status)
           wave == UnitsAt(s) \ locked
           done == [status EXCEPT ![s] = "completed"]
<1>1. <<Job("publish", {})>> \in Seq(Jobs)
  BY JobIsJob DEF Ops
<1>2. Open(status) # {} => s \in Station
  BY FrontierOpen DEF Open
<1>3. \A eff \in Seq(Jobs) : eff \o <<Job("publish", {})>> \in Seq(Jobs)
  BY <1>1
<1>4. GitOK' /\ TreeOK' /\ FaultsOK'
  BY PartsKept DEF Derive
<1>5. PlanOK' /\ reply' \subseteq Orders /\ jobs' \in Seq(Jobs)
  <2>1. CASE Open(status) = {}
    BY <2>1, <1>1 DEF Derive, TypeOK, PlanOK, CallsOK
  <2>2. CASE Open(status) # {} /\ Unmerged # {}
    <3>1. \A b \in Unmerged : {<<"resolve", b>>} \subseteq Orders
      BY DEF Unmerged, Orders
    <3>2. /\ \E b \in Unmerged : reply' = {<<"resolve", b>>}
          /\ jobs' = <<Job("publish", {})>>
          /\ UNCHANGED plan
      BY <2>2 DEF Derive
    <3>3. PlanOK'
      BY <3>2, PartsKept
    <3>4. QED
      BY <1>1, <3>1, <3>2, <3>3
  <2>3. CASE Open(status) # {} /\ Unmerged = {}
    <3>1. ASSUME NEW to \in Statuses, NEW eff \in Seq(Jobs), NEW orders \in SUBSET Orders,
                 Advance(s, to, eff, orders)
          PROVE  PlanOK' /\ reply' \subseteq Orders /\ jobs' \in Seq(Jobs)
      <4> HIDE DEF s
      <4>1. PlanOK' /\ reply' \subseteq Orders
        BY <2>3, <1>2, <3>1 DEF Advance, TypeOK, PlanOK
      <4>2. jobs' \in Seq(Jobs)
        BY <1>3, <3>1 DEF Advance
      <4>3. QED
        BY <4>1, <4>2
    <3>2. wave \subseteq Unit /\ UnitsAt(s) \cap refs \subseteq Unit
      BY DEF UnitsAt
    <3>3. /\ <<>> \in Seq(Jobs)
          /\ <<Job("enter", {s})>> \in Seq(Jobs)
          /\ <<Job("fork", wave)>> \in Seq(Jobs)
          /\ <<Job("land", UnitsAt(s) \cap refs)>> \in Seq(Jobs)
          /\ Landing(s, done) \in Seq(Jobs)
      <4> HIDE DEF wave, done, s
      <4>1. QED
        BY <2>3, <1>2, <3>2, JobIsJob, LandingIsJobs DEF Ops
    <3>4. /\ {} \in SUBSET Orders
          /\ {"make"} \X wave \in SUBSET Orders
          /\ {<<"audit", s>>} \in SUBSET Orders
      <4> HIDE DEF wave, s
      <4>1. QED
        BY <2>3, <1>2, <3>2 DEF Orders
    <3>5. /\ "open" \in Statuses /\ "making" \in Statuses /\ "audit" \in Statuses
          /\ "completed" \in Statuses /\ "gate" \in Statuses
      BY DEF Statuses
    <3>6. \/ Advance(s, "open", <<Job("enter", {s})>>, {})
          \/ Advance(s, "making", <<Job("fork", wave)>>, {"make"} \X wave)
          \/ Advance(s, "audit", <<Job("land", UnitsAt(s) \cap refs)>>, {<<"audit", s>>})
          \/ Advance(s, "completed", Landing(s, done), {})
          \/ Advance(s, "gate", <<>>, {})
      BY <2>3 DEF Derive
    <3>7. QED
      <4> HIDE DEF s, wave, done
      <4>1. QED
        BY <3>1, <3>3, <3>4, <3>5, <3>6, Zenon
  <2>4. QED
    BY <2>1, <2>2, <2>3
<1>6. CallsOK'
  BY <1>5 DEF Derive, TypeOK, CallsOK
<1>7. QED
  BY <1>4, <1>5, <1>6 DEF TypeOK

LEMMA StepType ==
  ASSUME TypeOK, Step
  PROVE  TypeOK'
<1>0. jobs \in Seq(Jobs) /\ reply \subseteq Orders /\ Base \in Branch /\ Main \in Branch
  BY DEF TypeOK, CallsOK, Branch
<1>1. ASSUME jobs # <<>>
      PROVE  /\ Head(jobs).who \in SUBSET (Station \cup Unit)
             /\ Head(jobs).op \in Ops
             /\ <<>> \in Seq(Jobs)
  BY <1>0, <1>1, JobsMoveOn DEF Jobs
<1>2. CASE Pull
  <2>1. jobs # <<>>
    BY <1>2 DEF Pull, At
  <2>2. <<Job("down", Head(jobs).who)>> \in Seq(Jobs)
    BY <2>1, <1>1, JobIsJob DEF Ops
  <2>3. CallsOK'
    BY <1>0, <1>1, <1>2, <2>1, <2>2, CallsMoveOn DEF Pull
  <2>4. GitOK'
    BY <1>0, <1>2, MergeType DEF Pull, TypeOK
  <2>5. QED
    BY <1>2, <2>3, <2>4, PartsKept DEF Pull, TypeOK
<1>3. CASE Down
  <2>1. jobs # <<>>
    BY <1>3 DEF Down, At
  <2>2. CallsOK'
    BY <1>0, <1>1, <1>3, <2>1, CallsMoveOn DEF Down
  <2>3. GitOK'
    <3>1. PICK s \in Head(jobs).who : Merge(Main, s)
      BY <1>3 DEF Down
    <3>2. QED
      BY <1>0, <1>1, <2>1, <3>1, ParentIsBranch, MergeType DEF TypeOK
  <2>4. QED
    BY <1>3, <2>2, <2>3, PartsKept DEF Down, TypeOK
<1>4. CASE Wip
  <2>1. jobs # <<>>
    BY <1>4 DEF Wip, At
  <2>2. <<Job("publish", {})>> \in Seq(Jobs)
    BY JobIsJob DEF Ops
  <2>3. jobs' \in Seq(Jobs)
    BY <1>0, <1>1, <1>4, <2>1, <2>2, JobsMoveOn DEF Wip
  <2>4. CallsOK'
    BY <1>4, <2>3 DEF Wip, TypeOK, CallsOK
  <2>5. QED
    BY <1>4, <2>4, PartsKept DEF Wip, TypeOK
<1>5. CASE Derive
  BY <1>5, DeriveType
<1>6. CASE Enter
  <2>1. jobs # <<>>
    BY <1>6 DEF Enter, At
  <2>2. PICK b \in Head(jobs).who :
           /\ IF Parent(b) \in refs THEN Fork(b) ELSE UNCHANGED git
           /\ Then(Each(b))
    BY <1>6 DEF Enter
  <2>3. CallsOK'
    BY <1>0, <1>6, <2>1, <2>2, EachIsJobs, CallsMoveOn DEF Enter
  <2>4. b \in Station \cup Unit /\ Parent(b) \in Branch /\ b \in Branch
    BY <1>1, <2>1, ParentIsBranch
  <2>5. Fork(b) => GitOK'
    BY <2>4 DEF Fork, TypeOK, GitOK
  <2>6. QED
    BY <1>6, <2>2, <2>3, <2>5, PartsKept DEF Enter, TypeOK
<1>7. CASE Land
  <2>1. jobs # <<>>
    BY <1>7 DEF Land, At
  <2>2. CASE Head(jobs).who = {} /\ Then(<<>>) /\ UNCHANGED git
    <3>1. CallsOK'
      BY <1>0, <1>1, <1>7, <2>1, <2>2, CallsMoveOn DEF Land
    <3>2. QED
      BY <1>7, <2>2, <3>1, PartsKept DEF Land, TypeOK
  <2>3. ASSUME NEW b \in Head(jobs).who, NEW op \in {"discard", "retire"},
               Merge(b, Parent(b)),
               Then((IF {b, Parent(b)} \subseteq refs THEN <<Job(op, {b})>> ELSE <<>>) \o Each(b))
        PROVE  TypeOK'
    <3>1. b \in Station \cup Unit /\ Parent(b) \in Branch /\ b \in Branch
      BY <1>1, <2>1, ParentIsBranch
    <3>2. <<Job(op, {b})>> \in Seq(Jobs)
      BY <3>1, JobIsJob DEF Ops
    <3>3. (IF {b, Parent(b)} \subseteq refs THEN <<Job(op, {b})>> ELSE <<>>) \o Each(b) \in Seq(Jobs)
      BY <1>0, <2>1, <3>2, EachIsJobs
    <3>4. CallsOK'
      <4>1. UNCHANGED <<beats, told>> /\ reply' \subseteq Orders
        BY <1>0, <1>7 DEF Land
      <4>2. QED
        BY <2>1, <2>3, <3>3, <4>1, CallsMoveOn
    <3>5. GitOK'
      BY <2>3, <3>1, MergeType DEF TypeOK
    <3>6. QED
      BY <1>7, <3>4, <3>5, PartsKept DEF Land, TypeOK
  <2>4. \/ Head(jobs).who = {} /\ Then(<<>>) /\ UNCHANGED git
        \/ \E b \in Head(jobs).who, op \in {"discard", "retire"} :
             /\ Merge(b, Parent(b))
             /\ Then((IF {b, Parent(b)} \subseteq refs THEN <<Job(op, {b})>> ELSE <<>>) \o Each(b))
    BY <1>7, Zenon DEF Land
  <2>5. QED
    BY <2>2, <2>3, <2>4
<1>8. CASE Finish
  <2>1. jobs # <<>>
    BY <1>8 DEF Finish, At
  <2>2. CallsOK'
    BY <1>0, <1>1, <1>8, <2>1, CallsMoveOn DEF Finish
  <2>3. PICK b \in Head(jobs).who : Retire(b, At("discard"))
    BY <1>8 DEF Finish
  <2>4. GitOK'
    BY <2>3 DEF Retire, TypeOK, GitOK
  <2>5. TreeOK'
    BY <2>3 DEF Retire, TypeOK, TreeOK
  <2>6. QED
    BY <1>8, <2>2, <2>4, <2>5, PartsKept DEF Finish, TypeOK
<1>9. CASE Deliver
  <2>1. jobs # <<>>
    BY <1>9 DEF Deliver, At
  <2>2. CallsOK'
    BY <1>0, <1>1, <1>9, <2>1, CallsMoveOn DEF Deliver
  <2>3. GitOK'
    BY <1>0, <1>9, MergeType DEF Deliver, TypeOK
  <2>4. QED
    BY <1>9, <2>2, <2>3, PartsKept DEF Deliver, TypeOK
<1>10. CASE Answer
  <2>1. jobs # <<>>
    BY <1>10 DEF Answer, At
  <2>2. jobs' \in Seq(Jobs)
    BY <1>0, <1>1, <1>10, <2>1, JobsMoveOn DEF Answer
  <2>3. CallsOK'
    BY <1>10, <2>2 DEF Answer, TypeOK, CallsOK
  <2>4. holds \in [Branch \cup {State} -> SUBSET Item] /\ GitOK
    BY DEF TypeOK, GitOK
  <2>5. GitOK'
    BY <1>10, <2>4, PublishType DEF Answer
  <2>6. QED
    BY <1>10, <2>3, <2>5, PartsKept DEF Answer, TypeOK
<1>11. QED
  BY <1>2, <1>3, <1>4, <1>5, <1>6, <1>7, <1>8, <1>9, <1>10 DEF Step

LEMMA AgentType ==
  ASSUME TypeOK, Agent
  PROVE  TypeOK'
<1>1. ASSUME NEW u \in Unit, Write(u) PROVE TypeOK'
  <2>1. TreeOK'
    BY <1>1 DEF Write, TypeOK, TreeOK
  <2>2. QED
    BY <1>1, <2>1, PartsKept DEF Write, TypeOK
<1>2. ASSUME NEW u \in Unit, Lock(u) PROVE TypeOK'
  <2>1. PlanOK' /\ CallsOK'
    BY <1>2 DEF Lock, TypeOK, PlanOK, CallsOK
  <2>2. QED
    BY <1>2, <2>1, PartsKept DEF Lock, TypeOK
<1>3. ASSUME NEW u \in Unit, Save(u) PROVE TypeOK'
  <2>1. CallsOK'
    BY <1>3 DEF Save, TypeOK, CallsOK
  <2>2. TreeOK'
    BY <1>3 DEF Save, TypeOK, TreeOK
  <2>3. /\ holds \in [Branch \cup {State} -> SUBSET Item] /\ GitOK
        /\ [holds EXCEPT ![u] = @ \cup {u}] \in [Branch \cup {State} -> SUBSET Item]
    BY DEF TypeOK, GitOK, Branch, Item
  <2>4. GitOK'
    BY <1>3, <2>3, PublishType DEF Save
  <2>5. QED
    BY <1>3, <2>1, <2>2, <2>4, PartsKept DEF Save, TypeOK
<1>4. ASSUME NEW s \in Station, Sign(s) PROVE TypeOK'
  <2>1. PlanOK'
    BY <1>4 DEF Sign, TypeOK, PlanOK
  <2>2. QED
    BY <1>4, <2>1, PartsKept DEF Sign, TypeOK
<1>5. ASSUME NEW b \in Branch, Resolve(b) PROVE TypeOK'
  <2>1. GitOK'
    BY <1>5 DEF Resolve, TypeOK, GitOK
  <2>2. CallsOK'
    BY <1>5 DEF Resolve, TypeOK, CallsOK
  <2>3. QED
    BY <1>5, <2>1, <2>2, PartsKept DEF Resolve, TypeOK
<1>6. CASE Commit
  <2>1. {u \in Unit : draft[u] = "root"} \in SUBSET Item
    BY DEF Item
  <2>2. head \in Branch
    BY DEF TypeOK, TreeOK, Branch
  <2>3. GitOK'
    BY <1>6, <2>1, <2>2 DEF Commit, TypeOK, GitOK
  <2>4. TreeOK'
    BY <1>6 DEF Commit, TypeOK, TreeOK
  <2>5. QED
    BY <1>6, <2>3, <2>4, PartsKept DEF Commit, TypeOK
<1>7. QED
  BY <1>1, <1>2, <1>3, <1>4, <1>5, <1>6 DEF Agent

LEMMA OthersType ==
  ASSUME TypeOK, Others \/ Tick \/ Leave
  PROVE  TypeOK'
<1>0. MaxCrashes \in Nat /\ MaxSoils \in Nat /\ MaxLeaves \in Nat
  BY BranchAssumption
<1>1. CASE Tick
  <2>1. CallsOK'
    BY <1>1, TickJobsAreJobs DEF Tick, TypeOK, CallsOK
  <2>2. QED
    BY <1>1, <2>1, PartsKept DEF Tick, TypeOK
<1>2. CASE Approve
  <2> DEFINE s == Frontier(status)
             done == [status EXCEPT ![s] = "completed"]
  <2>1. s \in Station
    BY <1>2, FrontierOpen DEF Approve, Open
  <2>2. Landing(s, done) \in Seq(Jobs) /\ TickJobs(done) \in Seq(Jobs)
    <3> HIDE DEF s, done
    <3>1. QED
      BY <2>1, LandingIsJobs, TickJobsAreJobs
  <2>3. jobs' \in Seq(Jobs)
    <3>1. jobs' = Landing(s, done) \o TickJobs(done)
      BY <1>2 DEF Approve
    <3> HIDE DEF s, done
    <3>2. QED
      BY <2>2, <3>1
  <2>4. CallsOK'
    BY <1>2, <2>3 DEF Approve, TypeOK, CallsOK
  <2>5. PlanOK'
    BY <1>2 DEF Approve, TypeOK, PlanOK, Statuses
  <2>6. QED
    BY <1>2, <2>4, <2>5, PartsKept DEF Approve, TypeOK
<1>3. CASE Soil
  <2>1. FaultsOK'
    BY <1>0, <1>3 DEF Soil, TypeOK, FaultsOK
  <2>2. TreeOK'
    BY <1>3 DEF Soil, TypeOK, TreeOK
  <2>3. QED
    BY <1>3, <2>1, <2>2, PartsKept DEF Soil, TypeOK
<1>4. CASE Crash
  <2>1. FaultsOK'
    BY <1>0, <1>4 DEF Crash, TypeOK, FaultsOK
  <2>2. CallsOK'
    BY <1>4 DEF Crash, TypeOK, CallsOK
  <2>3. ASSUME NEW from \in Branch, NEW to \in Branch, Halfway(from, to)
        PROVE  /\ unmerged' \in [Branch -> SUBSET Item] /\ staged' \subseteq Branch
               /\ temp' \in [Branch -> {"none", "conflict", "left"}]
    <3>1. /\ unmerged \in [Branch -> SUBSET Item] /\ staged \subseteq Branch
          /\ temp \in [Branch -> {"none", "conflict", "left"}]
          /\ holds[from] \ holds[to] \in SUBSET Item
      BY DEF TypeOK, GitOK
    <3>2. CASE CheckedOut(to)
      BY <2>3, <3>1, <3>2 DEF Halfway
    <3>3. CASE ~CheckedOut(to)
      BY <2>3, <3>1, <3>3 DEF Halfway
    <3>4. QED
      BY <3>2, <3>3
  <2>4. \/ UNCHANGED <<unmerged, staged, temp>>
        \/ \E from, to \in Branch : Halfway(from, to)
    <3>1. Base \in Branch /\ Main \in Branch
      BY DEF Branch
    <3>2. \A b \in Station \cup Unit : b \in Branch /\ Parent(b) \in Branch
      BY ParentIsBranch
    <3>3. jobs # <<>> => Head(jobs).who \subseteq Station \cup Unit
      BY JobsMoveOn DEF TypeOK, CallsOK, Jobs
    <3>4. QED
      BY <1>4, <3>1, <3>2, <3>3 DEF Crash, At
  <2>5. GitOK'
    BY <1>4, <2>3, <2>4 DEF Crash, TypeOK, GitOK
  <2>6. QED
    BY <1>4, <2>1, <2>2, <2>5, PartsKept DEF Crash, TypeOK
<1>5. ASSUME NEW x \in Upstream, PushBase(x) PROVE TypeOK'
  <2>1. GitOK'
    BY <1>5 DEF PushBase, TypeOK, GitOK, Branch, Item
  <2>2. QED
    BY <1>5, <2>1, PartsKept DEF PushBase, TypeOK
<1>6. CASE Leave
  <2>1. FaultsOK'
    BY <1>0, <1>6 DEF Leave, TypeOK, FaultsOK
  <2>2. TreeOK'
    BY <1>6 DEF Leave, TypeOK, TreeOK
  <2>3. QED
    BY <1>6, <2>1, <2>2, PartsKept DEF Leave, TypeOK
<1>7. QED
  BY <1>1, <1>2, <1>3, <1>4, <1>5, <1>6 DEF Others

LEMMA StutterType ==
  ASSUME TypeOK, UNCHANGED vars
  PROVE  TypeOK'
  BY PartsKept DEF vars, TypeOK

\* The model is well typed, also if the operator works in the primary checkout.
THEOREM BranchesTyped == (Spec => []TypeOK) /\ (RovingSpec => []TypeOK)
<1>1. Init => TypeOK
  BY InitType
<1>2. TypeOK /\ [Next \/ Leave]_vars => TypeOK'
  BY StepType, AgentType, OthersType, StutterType DEF Next
<1>3. TypeOK /\ [Next]_vars => TypeOK'
  BY <1>2
<1>4. QED
  BY <1>1, <1>2, <1>3, PTL DEF Spec, RovingSpec

-----------------------------------------------------------------------------
(* Committed work stays on a branch *)

\* No child is retired.
Quiet(q) == \A k \in 1..Len(q) : q[k].op \notin {"retire", "discard"}

\* The primary checkout is on run-main, and the two roots are there.
AtHome == head = Main /\ {Base, Main} \subseteq refs

\* No worker's call is under way during a tick.
Apart == jobs # <<>> => beats = {}

\* The branch that is given up next has its parent, and nothing its parent lacks.
Retiring ==
  /\ jobs # <<>> => Quiet(Tail(jobs))
  /\ At("retire") \/ At("discard") => \A b \in Head(jobs).who : Parent(b) \in refs
  /\ At("discard") => \A b \in Head(jobs).who : ~Debt(b, Parent(b))

KInv == TypeOK /\ AtHome /\ Apart /\ Retiring

LEMMA QuietJoin ==
  ASSUME NEW p \in Seq(Jobs), NEW q \in Seq(Jobs), Quiet(p), Quiet(q)
  PROVE  Quiet(p \o q)
<1> SUFFICES ASSUME NEW k \in 1..Len(p \o q)
             PROVE  (p \o q)[k].op \notin {"retire", "discard"}
  BY DEF Quiet
<1>1. Len(p \o q) = Len(p) + Len(q) /\ Len(p) \in Nat /\ Len(q) \in Nat
  OBVIOUS
<1>2. CASE k <= Len(p)
  BY <1>1, <1>2 DEF Quiet
<1>3. CASE k > Len(p)
  <2>1. k - Len(p) \in 1..Len(q) /\ (p \o q)[k] = q[k - Len(p)]
    BY <1>1, <1>3
  <2>2. QED
    BY <2>1 DEF Quiet
<1>4. QED
  BY <1>1, <1>2, <1>3

LEMMA QuietTail ==
  ASSUME NEW q \in Seq(Jobs), Quiet(q), q # <<>>
  PROVE  Quiet(Tail(q)) /\ Head(q).op \notin {"retire", "discard"}
<1>1. Len(q) \in Nat \ {0} /\ Len(Tail(q)) = Len(q) - 1
  OBVIOUS
<1>2. \A k \in 1..Len(Tail(q)) : k + 1 \in 1..Len(q) /\ Tail(q)[k] = q[k + 1]
  BY <1>1
<1>3. Head(q) = q[1] /\ 1 \in 1..Len(q)
  BY <1>1
<1>4. QED
  BY <1>2, <1>3 DEF Quiet

LEMMA QuietOne ==
  ASSUME NEW op \in Ops \ {"retire", "discard"}, NEW who \in SUBSET (Station \cup Unit)
  PROVE  Quiet(<<Job(op, who)>>) /\ Quiet(<<>>)
  BY DEF Quiet, Job

LEMMA QuietTick ==
  ASSUME NEW st
  PROVE  Quiet(TickJobs(st))
<1>1. Job("wip", {}) \in Jobs /\ Job("derive", {}) \in Jobs
  BY JobIsJob DEF Ops
<1>2. <<Job("wip", {}), Job("derive", {})>> \in Seq(Jobs) /\ <<>> \in Seq(Jobs)
  BY <1>1
<1>3. Quiet(<<Job("wip", {}), Job("derive", {})>>) /\ Quiet(<<>>)
  BY DEF Quiet, Job
<1>4. Open(st) # {} => /\ <<Job("pull", {Frontier(st)})>> \in Seq(Jobs)
                       /\ Quiet(<<Job("pull", {Frontier(st)})>>)
  BY FrontierOpen, JobIsJob, QuietOne DEF Open, Ops
<1>5. QED
  BY <1>2, <1>3, <1>4, QuietJoin DEF TickJobs

LEMMA QuietLanding ==
  ASSUME NEW s \in Station, NEW st
  PROVE  Quiet(Landing(s, st))
<1>1. /\ <<Job("land", {s})>> \in Seq(Jobs) /\ Quiet(<<Job("land", {s})>>)
      /\ <<Job("deliver", {})>> \in Seq(Jobs) /\ Quiet(<<Job("deliver", {})>>)
      /\ <<>> \in Seq(Jobs) /\ Quiet(<<>>)
  BY JobIsJob, QuietOne DEF Ops
<1>2. QED
  BY <1>1, QuietJoin DEF Landing

LEMMA QuietEach ==
  ASSUME jobs \in Seq(Jobs), jobs # <<>>, Head(jobs).op \notin {"retire", "discard"}, NEW b
  PROVE  Quiet(Each(b))
<1>1. Head(jobs).op \in Ops /\ Head(jobs).who \ {b} \in SUBSET (Station \cup Unit)
  BY JobsMoveOn DEF Jobs
<1>2. QED
  BY <1>1, QuietOne DEF Each, Quiet

\* Jobs that retire nobody, and a step that takes them up.
LEMMA QuietRetiring ==
  ASSUME jobs' \in Seq(Jobs), Quiet(jobs')
  PROVE  Retiring'
  BY QuietTail DEF Retiring, At

LEMMA ThenQuiet ==
  ASSUME jobs \in Seq(Jobs), jobs # <<>>, Quiet(Tail(jobs)),
         NEW next \in Seq(Jobs), Quiet(next), Then(next)
  PROVE  Retiring'
<1>1. Tail(jobs) \in Seq(Jobs) /\ jobs' \in Seq(Jobs)
  BY JobsMoveOn
<1>2. Quiet(jobs')
  BY <1>1, QuietJoin DEF Then
<1>3. QED
  BY <1>1, <1>2, QuietRetiring

\* No ref goes, and none loses anything.
Grows == refs \subseteq refs' /\ \A b \in refs \ {State} : holds[b] \subseteq holds'[b]

Kept == \A i \in Item : OnABranch(i) => OnABranch(i)'

LEMMA GrowsKeeps == Grows => Kept
  BY DEF Grows, Kept, OnABranch

LEMMA MergeGrows ==
  ASSUME GitOK, NEW from \in Branch, NEW to \in Branch, Merge(from, to)
  PROVE  Grows
  BY DEF GitOK, Merge, Grows

LEMMA PublishGrows ==
  ASSUME GitOK, head = Main, NEW work \in [Branch \cup {State} -> SUBSET Item], Publish(work),
         \A b \in Branch : holds[b] \subseteq work[b]
  PROVE  Grows
<1>1. /\ holds' = [work EXCEPT ![Main] = @ \cup Concluded]
      /\ refs' = refs
  BY DEF Publish
<1>2. refs \ {State} \subseteq Branch
  BY DEF GitOK
<1>3. QED
  BY <1>1, <1>2 DEF Grows

LEMMA KeptByStep ==
  ASSUME Orderly, KInv, Step, TypeOK'
  PROVE  AtHome' /\ Apart' /\ Retiring' /\ Kept
<1>0. /\ TypeOK /\ GitOK /\ jobs \in Seq(Jobs) /\ jobs' \in Seq(Jobs)
      /\ AtHome /\ Base \in Branch /\ Main \in Branch
      /\ <<>> \in Seq(Jobs) /\ Quiet(<<>>)
  BY DEF KInv, TypeOK, CallsOK, Branch, Quiet
<1>1. jobs # <<>>
  BY DEF Step, Pull, Down, Wip, Derive, Enter, Land, Finish, Deliver, Answer, At
<1>2. /\ Quiet(Tail(jobs)) /\ Head(jobs).op \in Ops /\ Head(jobs).who \subseteq Station \cup Unit
      /\ Tail(jobs) \in Seq(Jobs)
  BY <1>0, <1>1, JobsMoveOn DEF KInv, Retiring, Jobs
<1>3. Apart'
  BY <1>1 DEF KInv, Apart, Step, Pull, Down, Wip, Derive, Enter, Land, Finish, Deliver, Answer
<1>4. ASSUME Grows, UNCHANGED head PROVE AtHome' /\ Kept
  BY <1>0, <1>4, GrowsKeeps DEF AtHome, Grows
<1>5. ASSUME UNCHANGED git, UNCHANGED tree PROVE Grows /\ UNCHANGED head
  BY <1>5 DEF git, tree, Grows
<1>6. CASE Pull
  <2>1. <<Job("down", Head(jobs).who)>> \in Seq(Jobs) /\ Quiet(<<Job("down", Head(jobs).who)>>)
    BY <1>2, JobIsJob, QuietOne DEF Ops
  <2>2. Retiring'
    BY <1>0, <1>1, <1>2, <1>6, <2>1, ThenQuiet DEF Pull
  <2>3. Grows /\ UNCHANGED head
    BY <1>0, <1>6, MergeGrows DEF Pull, tree
  <2>4. QED
    BY <1>3, <1>4, <2>2, <2>3
<1>7. CASE Down
  <2>1. Retiring'
    BY <1>0, <1>1, <1>2, <1>7, ThenQuiet DEF Down
  <2>2. PICK s \in Head(jobs).who : Merge(Main, s)
    BY <1>7 DEF Down
  <2>3. Grows /\ UNCHANGED head
    BY <1>0, <1>2, <1>7, <2>2, ParentIsBranch, MergeGrows DEF Down, tree
  <2>4. QED
    BY <1>3, <1>4, <2>1, <2>3
<1>8. CASE Wip
  <2>1. <<Job("publish", {})>> \in Seq(Jobs) /\ Quiet(<<Job("publish", {})>>)
    BY JobIsJob, QuietOne DEF Ops
  <2>2. Retiring'
    <3>1. CASE jobs' = <<Job("publish", {})>>
      BY <2>1, <3>1, QuietRetiring
    <3>2. CASE Then(<<>>)
      BY <1>0, <1>1, <1>2, <3>2, ThenQuiet
    <3>3. QED
      BY <1>8, <3>1, <3>2 DEF Wip
  <2>3. QED
    BY <1>3, <1>4, <1>5, <1>8, <2>2 DEF Wip
<1>9. CASE Derive
  <2> DEFINE s == Frontier(status)
             wave == UnitsAt(s) \ locked
             done == [status EXCEPT ![s] = "completed"]
  <2>1. <<Job("publish", {})>> \in Seq(Jobs) /\ Quiet(<<Job("publish", {})>>)
    BY JobIsJob, QuietOne DEF Ops
  <2>2. Quiet(jobs')
    <3>1. CASE jobs' = <<Job("publish", {})>>
      BY <2>1, <3>1
    <3>2. ASSUME NEW effects \in Seq(Jobs), Quiet(effects), jobs' = effects \o <<Job("publish", {})>>
          PROVE  Quiet(jobs')
      BY <2>1, <3>2, QuietJoin
    <3>3. CASE Open(status) # {}
      <4>1. s \in Station
        BY <3>3, FrontierOpen DEF Open
      <4>2. wave \subseteq Unit /\ UnitsAt(s) \cap refs \subseteq Unit
        BY DEF UnitsAt
      <4>3. /\ <<Job("enter", {s})>> \in Seq(Jobs) /\ Quiet(<<Job("enter", {s})>>)
            /\ <<Job("fork", wave)>> \in Seq(Jobs) /\ Quiet(<<Job("fork", wave)>>)
            /\ <<Job("land", UnitsAt(s) \cap refs)>> \in Seq(Jobs)
            /\ Quiet(<<Job("land", UnitsAt(s) \cap refs)>>)
            /\ Landing(s, done) \in Seq(Jobs) /\ Quiet(Landing(s, done))
        <5> HIDE DEF s, wave, done
        <5>1. QED
          BY <4>1, <4>2, JobIsJob, QuietOne, LandingIsJobs, QuietLanding DEF Ops
      <4>4. \/ jobs' = <<Job("publish", {})>>
            \/ jobs' = <<Job("enter", {s})>> \o <<Job("publish", {})>>
            \/ jobs' = <<Job("fork", wave)>> \o <<Job("publish", {})>>
            \/ jobs' = <<Job("land", UnitsAt(s) \cap refs)>> \o <<Job("publish", {})>>
            \/ jobs' = Landing(s, done) \o <<Job("publish", {})>>
            \/ jobs' = <<>> \o <<Job("publish", {})>>
        BY <1>9, <3>3, Zenon DEF Derive, Advance
      <4>5. QED
        <5> HIDE DEF s, wave, done
        <5>1. QED
          BY <1>0, <3>1, <3>2, <4>3, <4>4, Zenon
    <3>4. QED
      BY <1>9, <3>1, <3>3 DEF Derive
  <2>3. QED
    BY <1>0, <1>3, <1>4, <1>5, <1>9, <2>2, QuietRetiring DEF Derive
<1>10. CASE Enter
  <2>1. PICK b \in Head(jobs).who :
           /\ IF Parent(b) \in refs THEN Fork(b) ELSE UNCHANGED git
           /\ Then(Each(b))
    BY <1>10 DEF Enter
  <2>2. Each(b) \in Seq(Jobs) /\ Quiet(Each(b))
    BY <1>0, <1>1, <1>10, EachIsJobs, QuietEach DEF Enter, At
  <2>3. Retiring'
    BY <1>0, <1>1, <1>2, <2>1, <2>2, ThenQuiet
  <2>4. Grows
    <3>1. b \in Branch
      BY <1>2, ParentIsBranch
    <3>2. CASE Fork(b)
      BY <1>0, <3>1, <3>2 DEF Fork, Grows, GitOK
    <3>3. QED
      BY <2>1, <3>2 DEF git, Grows
  <2>5. QED
    BY <1>3, <1>4, <1>10, <2>3, <2>4 DEF Enter, tree
<1>11. CASE Land
  <2>1. UNCHANGED head
    BY <1>11 DEF Land, tree
  <2>2. CASE Head(jobs).who = {} /\ Then(<<>>) /\ UNCHANGED git
    <3>1. Retiring'
      BY <1>0, <1>1, <1>2, <2>2, ThenQuiet
    <3>2. Grows
      BY <2>2 DEF git, Grows
    <3>3. QED
      BY <1>3, <1>4, <2>1, <3>1, <3>2
  <2>3. ASSUME NEW b \in Head(jobs).who, Merge(b, Parent(b)),
               NEW landed \in BOOLEAN,
               landed => ~Debt(b, Parent(b)) \/ (Merges(b, Parent(b)) /\ ~Conflicts(b, Parent(b))),
               Then((IF ~({b, Parent(b)} \subseteq refs) THEN <<>>
                     ELSE <<Job(IF landed THEN "discard" ELSE "retire", {b})>>) \o Each(b))
        PROVE  AtHome' /\ Retiring' /\ Kept
    <3>1. b \in Station \cup Unit /\ Parent(b) \in Branch /\ b \in Branch /\ Parent(b) # b
      BY <1>2, ParentIsBranch
    <3>2. Grows
      BY <1>0, <2>3, <3>1, MergeGrows
    <3>3. Each(b) \in Seq(Jobs) /\ Quiet(Each(b))
      BY <1>0, <1>1, <1>11, EachIsJobs, QuietEach DEF Land, At
    <3>4. CASE ~({b, Parent(b)} \subseteq refs)
      <4>1. <<>> \o Each(b) \in Seq(Jobs) /\ Quiet(<<>> \o Each(b))
        BY <1>0, <3>3, QuietJoin
      <4>2. Retiring'
        BY <1>0, <1>1, <1>2, <2>3, <3>4, <4>1, ThenQuiet
      <4>3. QED
        BY <1>4, <2>1, <3>2, <4>2
    <3>5. CASE {b, Parent(b)} \subseteq refs
      <4> DEFINE job == Job(IF landed THEN "discard" ELSE "retire", {b})
      <4>1. job \in Jobs /\ job.who = {b} /\ (job.op = "discard" <=> landed)
        BY <3>1 DEF Job, Jobs, Ops
      <4>2. Each(b) \o Tail(jobs) \in Seq(Jobs) /\ Quiet(Each(b) \o Tail(jobs))
        <5>1. Each(b) \o Tail(jobs) \in Seq(Jobs)
          BY <1>0, <1>1, <3>3, SeqMovesOn
        <5>2. Quiet(Each(b) \o Tail(jobs))
          BY <1>2, <3>3, QuietJoin
        <5>3. QED
          BY <5>1, <5>2
      <4>3. Head(jobs') = job /\ Tail(jobs') = Each(b) \o Tail(jobs)
        <5> HIDE DEF job
        <5>1. jobs' = (<<job>> \o Each(b)) \o Tail(jobs)
          BY <2>3, <3>5 DEF Then, job
        <5>2. /\ (<<job>> \o Each(b)) \o Tail(jobs) = <<job>> \o (Each(b) \o Tail(jobs))
          BY <1>2, <3>3, <4>1, ConcatAssociative
        <5>3. QED
          BY <4>1, <4>2, <5>1, <5>2, HeadOfFirst
      <4>4. Parent(b) \in refs'
        BY <3>2, <3>5 DEF Grows
      <4>5. landed => holds'[b] \subseteq holds'[Parent(b)]
        BY <2>3, <3>1, <1>0 DEF Merge, Debt, GitOK
      <4>6. Retiring'
        <5> HIDE DEF job
        <5>1. QED
          BY <4>1, <4>2, <4>3, <4>4, <4>5 DEF Retiring, At, Debt, Parent
      <4>7. QED
        BY <1>4, <2>1, <3>2, <4>6
    <3>6. QED
      BY <3>4, <3>5
  <2>4. \/ Head(jobs).who = {} /\ Then(<<>>) /\ UNCHANGED git
        \/ \E b \in Head(jobs).who, landed \in BOOLEAN :
             /\ Merge(b, Parent(b))
             /\ landed => ~Debt(b, Parent(b)) \/ (Merges(b, Parent(b)) /\ ~Conflicts(b, Parent(b)))
             /\ Then((IF ~({b, Parent(b)} \subseteq refs) THEN <<>>
                      ELSE <<Job(IF landed THEN "discard" ELSE "retire", {b})>>) \o Each(b))
    <3>1. SUFFICES ASSUME NEW b \in Head(jobs).who,
                          LET to == Parent(b)
                              landed == ~Debt(b, to) \/ (Merges(b, to) /\ ~Conflicts(b, to))
                              tail == IF ~({b, to} \subseteq refs) THEN <<>>
                                      ELSE <<Job(IF landed THEN "discard" ELSE "retire", {b})>>
                          IN  Merge(b, to) /\ Then(tail \o Each(b))
                   PROVE  \E landed \in BOOLEAN :
             /\ Merge(b, Parent(b))
             /\ landed => ~Debt(b, Parent(b)) \/ (Merges(b, Parent(b)) /\ ~Conflicts(b, Parent(b)))
             /\ Then((IF ~({b, Parent(b)} \subseteq refs) THEN <<>>
                      ELSE <<Job(IF landed THEN "discard" ELSE "retire", {b})>>) \o Each(b))
      BY <1>11, Zenon DEF Land
    <3>2. CASE ~Debt(b, Parent(b)) \/ (Merges(b, Parent(b)) /\ ~Conflicts(b, Parent(b)))
      BY <3>1, <3>2, Zenon
    <3>3. CASE ~(~Debt(b, Parent(b)) \/ (Merges(b, Parent(b)) /\ ~Conflicts(b, Parent(b))))
      BY <3>1, <3>3, Zenon
    <3>4. QED
      BY <3>2, <3>3
  <2>5. QED
    BY <1>3, <2>2, <2>3, <2>4
<1>12. CASE Finish
  <2>1. PICK b \in Head(jobs).who : Retire(b, At("discard"))
    BY <1>12 DEF Finish
  <2>2. b \in Station \cup Unit /\ Parent(b) # b /\ Parent(b) # State /\ b \notin {Base, Main}
    BY <1>2, ParentIsBranch, BranchAssumption
  <2>3. Retiring'
    BY <1>0, <1>1, <1>2, <1>12, ThenQuiet DEF Finish
  <2>4. AtHome'
    BY <1>0, <2>1, <2>2 DEF AtHome, Retire
  <2>5. Kept
    <3>1. Parent(b) \in refs
      BY <1>12 DEF KInv, Retiring, Finish
    <3>2. CASE refs' = refs
      BY <2>1, <3>2 DEF Retire, Kept, OnABranch
    <3>3. CASE refs' = refs \ {b} /\ holds[b] \subseteq holds[Parent(b)]
      BY <2>1, <2>2, <3>1, <3>3 DEF Retire, Kept, OnABranch
    <3>4. QED
      BY <1>12, <2>1, <3>2, <3>3 DEF KInv, Retiring, Retire, Debt
  <2>6. QED
    BY <1>3, <2>3, <2>4, <2>5
<1>13. CASE Deliver
  <2>1. Retiring'
    BY <1>0, <1>1, <1>2, <1>13, ThenQuiet DEF Deliver
  <2>2. Grows /\ UNCHANGED head
    BY <1>0, <1>13, MergeGrows DEF Deliver, tree
  <2>3. QED
    BY <1>3, <1>4, <2>1, <2>2
<1>14. CASE Answer
  <2>1. Retiring'
    BY <1>0, <1>1, <1>2, <1>14, ThenQuiet DEF Answer
  <2>2. Grows /\ UNCHANGED head
    <3>1. holds \in [Branch \cup {State} -> SUBSET Item]
      BY <1>0 DEF GitOK
    <3>2. QED
      BY <1>0, <1>14, <3>1, PublishGrows DEF Answer, tree, AtHome
  <2>3. QED
    BY <1>3, <1>4, <2>1, <2>2
<1>15. QED
  BY <1>6, <1>7, <1>8, <1>9, <1>10, <1>11, <1>12, <1>13, <1>14 DEF Step

LEMMA KeptByRest ==
  ASSUME Orderly, KInv, Tick \/ Agent \/ Others \/ UNCHANGED vars, TypeOK'
  PROVE  AtHome' /\ Apart' /\ Retiring' /\ Kept
<1>0. /\ TypeOK /\ GitOK /\ jobs' \in Seq(Jobs) /\ jobs \in Seq(Jobs) /\ beats \subseteq Unit
      /\ AtHome /\ Base \in Branch /\ Main \in Branch /\ Quiet(<<>>)
  BY DEF KInv, TypeOK, CallsOK, Branch, Quiet
<1>1. ASSUME Grows, UNCHANGED head PROVE AtHome' /\ Kept
  BY <1>0, <1>1, GrowsKeeps DEF AtHome, Grows
<1>2. ASSUME UNCHANGED <<refs, holds>> PROVE Grows
  BY <1>2 DEF Grows
<1>3. ASSUME UNCHANGED <<jobs, refs>>,
             \A b \in Branch : holds[b] \subseteq holds'[b],
             \A b \in Station \cup Unit : holds'[b] = holds[b]
      PROVE  Retiring'
  <2>1. jobs # <<>> => \A b \in Head(jobs).who : b \in Station \cup Unit /\ Parent(b) \in Branch
    BY <1>0, JobsMoveOn, ParentIsBranch DEF Jobs
  <2>2. QED
    BY <1>3, <2>1 DEF KInv, Retiring, At, Debt, Parent
<1>4. ASSUME UNCHANGED <<jobs, refs, holds>> PROVE Retiring'
  BY <1>3, <1>4
<1>5. CASE Tick
  <2>1. Quiet(jobs')
    BY <1>5, QuietTick DEF Tick
  <2>2. Apart'
    BY <1>5 DEF Tick, Apart
  <2>3. UNCHANGED <<refs, holds, head>>
    BY <1>5 DEF Tick, git, tree
  <2>4. QED
    BY <1>0, <1>1, <1>2, <2>1, <2>2, <2>3, QuietRetiring
<1>6. ASSUME NEW u \in Unit, Write(u) PROVE AtHome' /\ Apart' /\ Retiring' /\ Kept
  <2>1. UNCHANGED <<refs, holds, head, jobs, beats>>
    BY <1>6 DEF Write, git, calls
  <2>2. QED
    BY <1>1, <1>2, <1>4, <2>1 DEF KInv, Apart
<1>7. ASSUME NEW u \in Unit, Lock(u) PROVE AtHome' /\ Apart' /\ Retiring' /\ Kept
  <2>1. UNCHANGED <<refs, holds, head, jobs>> /\ jobs = <<>>
    BY <1>7 DEF Lock, git, tree
  <2>2. QED
    BY <1>1, <1>2, <1>4, <2>1 DEF Apart
<1>8. ASSUME NEW u \in Unit, Save(u) PROVE AtHome' /\ Apart' /\ Retiring' /\ Kept
  <2>1. jobs = <<>> /\ jobs' = <<>> /\ UNCHANGED head
    BY <1>8 DEF Save, KInv, Apart
  <2>2. Retiring' /\ Apart'
    BY <1>0, <2>1, QuietRetiring DEF Apart
  <2>3. /\ holds \in [Branch \cup {State} -> SUBSET Item]
        /\ [holds EXCEPT ![u] = @ \cup {u}] \in [Branch \cup {State} -> SUBSET Item]
    BY <1>0 DEF GitOK, Branch, Item
  <2>4. \A b \in Branch : holds[b] \subseteq [holds EXCEPT ![u] = @ \cup {u}][b]
    BY <2>3
  <2>5. Publish(holds) \/ Publish([holds EXCEPT ![u] = @ \cup {u}])
    BY <1>8 DEF Save
  <2>6. Grows
    BY <1>0, <2>3, <2>4, <2>5, PublishGrows DEF AtHome
  <2>7. QED
    BY <1>1, <2>1, <2>2, <2>6
<1>9. ASSUME NEW s \in Station, Sign(s) PROVE AtHome' /\ Apart' /\ Retiring' /\ Kept
  <2>1. UNCHANGED <<refs, holds, head, jobs, beats>>
    BY <1>9 DEF Sign, git, tree, calls
  <2>2. QED
    BY <1>1, <1>2, <1>4, <2>1 DEF KInv, Apart
<1>10. ASSUME NEW b \in Branch, Resolve(b) PROVE AtHome' /\ Apart' /\ Retiring' /\ Kept
  <2>1. jobs = <<>> /\ jobs' = <<>> /\ UNCHANGED head
    BY <1>10 DEF Resolve, tree
  <2>2. Retiring' /\ Apart'
    BY <1>0, <2>1, QuietRetiring DEF Apart
  <2>3. Grows
    BY <1>0, <1>10 DEF Resolve, Grows, GitOK
  <2>4. QED
    BY <1>1, <2>1, <2>2, <2>3
<1>11. CASE Commit
  <2>1. UNCHANGED <<refs, head, jobs, beats>>
    BY <1>11 DEF Commit, calls
  <2>2. /\ \A b \in Branch : holds[b] \subseteq holds'[b]
        /\ \A b \in Station \cup Unit : holds'[b] = holds[b]
    BY <1>0, <1>11, BranchAssumption DEF Commit, AtHome, GitOK, Branch
  <2>3. Grows
    BY <1>0, <2>1, <2>2 DEF Grows, GitOK
  <2>4. QED
    BY <1>1, <1>3, <2>1, <2>2, <2>3 DEF KInv, Apart
<1>12. CASE Approve
  <2> DEFINE s == Frontier(status)
             done == [status EXCEPT ![s] = "completed"]
  <2>1. s \in Station
    BY <1>12, FrontierOpen DEF Approve, Open
  <2>2. jobs' = Landing(s, done) \o TickJobs(done)
    BY <1>12 DEF Approve
  <2>3. Quiet(jobs')
    <3> HIDE DEF s, done
    <3>1. QED
      BY <2>1, <2>2, LandingIsJobs, TickJobsAreJobs, QuietLanding, QuietTick, QuietJoin
  <2>4. Apart'
    BY <1>12 DEF Approve, Apart
  <2>5. UNCHANGED <<refs, holds, head>>
    BY <1>12 DEF Approve, git, tree
  <2>6. QED
    BY <1>0, <1>1, <1>2, <2>3, <2>4, <2>5, QuietRetiring
<1>13. CASE Soil
  <2>1. UNCHANGED <<refs, holds, head, jobs, beats>>
    BY <1>13 DEF Soil, git, calls
  <2>2. QED
    BY <1>1, <1>2, <1>4, <2>1 DEF KInv, Apart
<1>14. CASE Crash
  <2>1. UNCHANGED <<refs, holds, head>> /\ jobs' = <<>>
    BY <1>14 DEF Crash, tree
  <2>2. QED
    BY <1>0, <1>1, <1>2, <2>1, QuietRetiring DEF Apart
<1>15. ASSUME NEW x \in Upstream, PushBase(x) PROVE AtHome' /\ Apart' /\ Retiring' /\ Kept
  <2>1. UNCHANGED <<refs, head, jobs, beats>>
    BY <1>15 DEF PushBase, tree, calls
  <2>2. /\ \A b \in Branch : holds[b] \subseteq holds'[b]
        /\ \A b \in Station \cup Unit : holds'[b] = holds[b]
    BY <1>0, <1>15, BranchAssumption DEF PushBase, GitOK, Branch
  <2>3. Grows
    BY <1>0, <2>1, <2>2 DEF Grows, GitOK
  <2>4. QED
    BY <1>1, <1>3, <2>1, <2>2, <2>3 DEF KInv, Apart
<1>16. CASE UNCHANGED vars
  <2>1. UNCHANGED <<refs, holds, head, jobs, beats>>
    BY <1>16 DEF vars, git, tree, calls
  <2>2. QED
    BY <1>1, <1>2, <1>4, <2>1 DEF KInv, Apart
<1>17. QED
  BY <1>5, <1>6, <1>7, <1>8, <1>9, <1>10, <1>11, <1>12, <1>13, <1>14, <1>15, <1>16 DEF Agent, Others

\* Committed work is on some branch from then on, whatever conflicts, however
\* often the engine dies and whoever edits the checkout, as long as no
\* worker's call overlaps a tick: land_child gives up a branch only when its
\* parent has all of it.
THEOREM CommittedWorkKept ==
  ASSUME Orderly = TRUE
  PROVE  Spec => WorkKept
<1>1. Init => KInv
  <2> SUFFICES ASSUME Init PROVE KInv
    OBVIOUS
  <2>1. AtHome /\ Apart /\ Retiring
    BY DEF Init, AtHome, Apart, Retiring, At
  <2>2. QED
    BY <2>1, InitType DEF KInv
<1>2. KInv /\ [Next]_vars => KInv' /\ Kept
  <2> SUFFICES ASSUME KInv, [Next]_vars PROVE KInv' /\ Kept
    OBVIOUS
  <2>1. TypeOK'
    BY StepType, AgentType, OthersType, StutterType DEF Next, KInv
  <2>2. AtHome' /\ Apart' /\ Retiring' /\ Kept
    BY <2>1, KeptByStep, KeptByRest DEF Next
  <2>3. QED
    BY <2>1, <2>2 DEF KInv
<1>3. Kept => [\A i \in Item : OnABranch(i) => OnABranch(i)']_vars
  BY DEF Kept
<1>4. QED
  BY <1>1, <1>2, <1>3, PTL DEF Spec, WorkKept

-----------------------------------------------------------------------------
(* run-main takes only from Completed stations *)

Done == {u \in Unit : status[StationOf[u]] = "completed"}
Home(b) == IF b \in Station THEN b ELSE StationOf[b]

\* The units whose work a branch may have got.
Allowed(b) ==
  holds[Main] \cup (IF b = Base THEN {} ELSE IF b = Main THEN Done ELSE UnitsAt(Home(b)))

Sourced ==
  /\ \A b \in Branch : unmerged[b] \cap Unit \subseteq Allowed(b)
  /\ \A b \in Branch \ {Main} : holds[b] \cap Unit \subseteq Allowed(b)

\* A station is landed when it is Completed.
FitJobs(st) == {j \in Jobs : j.op = "land" => \A s \in j.who \cap Station : st[s] = "completed"}

MInv == TypeOK /\ head = Main /\ Sourced /\ jobs \in Seq(FitJobs(status))

LEMMA SeqWidens ==
  ASSUME NEW S, NEW T, S \subseteq T, NEW q \in Seq(S)
  PROVE  q \in Seq(T)
  OBVIOUS

LEMMA SeqJoins ==
  ASSUME NEW S, NEW p \in Seq(S), NEW q \in Seq(S)
  PROVE  p \o q \in Seq(S)
  OBVIOUS

\* Jobs but a station's land fit any time.
LEMMA FitOne ==
  ASSUME NEW st, NEW op \in Ops, NEW who \in SUBSET (Station \cup Unit),
         op = "land" => \A s \in who \cap Station : st[s] = "completed"
  PROVE  Job(op, who) \in FitJobs(st) /\ <<Job(op, who)>> \in Seq(FitJobs(st)) /\ <<>> \in Seq(FitJobs(st))
<1>1. Job(op, who) \in FitJobs(st)
  BY JobIsJob DEF Job, FitJobs
<1>2. QED
  BY <1>1

LEMMA FitTick ==
  ASSUME NEW st, NEW now
  PROVE  TickJobs(st) \in Seq(FitJobs(now))
<1>1. /\ Job("wip", {}) \in FitJobs(now) /\ Job("derive", {}) \in FitJobs(now)
      /\ <<>> \in Seq(FitJobs(now))
  BY FitOne DEF Ops
<1>2. <<Job("wip", {}), Job("derive", {})>> \in Seq(FitJobs(now))
  BY <1>1
<1>3. Open(st) # {} => <<Job("pull", {Frontier(st)})>> \in Seq(FitJobs(now))
  BY FrontierOpen, FitOne DEF Open, Ops
<1>4. QED
  BY <1>1, <1>2, <1>3, SeqJoins DEF TickJobs

LEMMA FitLanding ==
  ASSUME NEW s \in Station, NEW st, st[s] = "completed"
  PROVE  Landing(s, st) \in Seq(FitJobs(st))
<1>1. /\ <<Job("land", {s})>> \in Seq(FitJobs(st)) /\ <<Job("deliver", {})>> \in Seq(FitJobs(st))
      /\ <<>> \in Seq(FitJobs(st))
  BY FitOne DEF Ops
<1>2. QED
  BY <1>1, SeqJoins DEF Landing

LEMMA FitMoves ==
  ASSUME jobs \in Seq(FitJobs(status)), jobs # <<>>
  PROVE  /\ Head(jobs) \in FitJobs(status) /\ Head(jobs) \in Jobs
         /\ Tail(jobs) \in Seq(FitJobs(status))
         /\ \A b : Each(b) \in Seq(FitJobs(status))
         /\ \A next \in Seq(FitJobs(status)) : Then(next) => jobs' \in Seq(FitJobs(status))
<1>1. Head(jobs) \in FitJobs(status) /\ Tail(jobs) \in Seq(FitJobs(status))
  BY SeqMovesOn
<1>2. /\ Head(jobs) \in Jobs /\ Head(jobs).op \in Ops /\ Head(jobs).who \in SUBSET (Station \cup Unit)
      /\ Head(jobs).op = "land" => \A s \in Head(jobs).who \cap Station : status[s] = "completed"
  BY <1>1 DEF FitJobs, Jobs
<1>3. ASSUME NEW b PROVE Each(b) \in Seq(FitJobs(status))
  <2>1. Head(jobs).who \ {b} \in SUBSET (Station \cup Unit)
    BY <1>2
  <2>2. <<Job(Head(jobs).op, Head(jobs).who \ {b})>> \in Seq(FitJobs(status)) /\ <<>> \in Seq(FitJobs(status))
    BY <1>2, <2>1, FitOne
  <2>3. QED
    BY <2>2 DEF Each
<1>4. QED
  BY <1>1, <1>2, <1>3, SeqMovesOn DEF Then

LEMMA CompletedStays ==
  ASSUME TypeOK, [Next]_vars
  PROVE  \A s \in Station : status[s] = "completed" => status'[s] = "completed"
<1>1. CASE UNCHANGED status
  BY <1>1
<1>2. ASSUME NEW to, status' = [status EXCEPT ![Frontier(status)] = to], Open(status) # {}
      PROVE  \A s \in Station : status[s] = "completed" => status'[s] = "completed"
  BY <1>2, FrontierOpen DEF TypeOK, PlanOK, Open
<1>3. Derive => UNCHANGED status \/ (/\ Open(status) # {}
                                    /\ \E to : status' = [status EXCEPT ![Frontier(status)] = to])
  BY DEF Derive, Advance, plan
<1>4. Approve => /\ Open(status) # {}
                 /\ \E to : status' = [status EXCEPT ![Frontier(status)] = to]
  BY DEF Approve
<1>5. Derive \/ Approve \/ UNCHANGED status
  BY DEF Next, Step, Agent, Others, Tick, Pull, Down, Wip, Enter, Land, Finish, Deliver, Answer,
         Write, Lock, Save, Sign, Resolve, Commit, Soil, Crash, PushBase, vars, plan
<1>6. QED
  BY <1>1, <1>2, <1>3, <1>4, <1>5

LEMMA FitWidens ==
  ASSUME TypeOK, [Next]_vars
  PROVE  FitJobs(status) \subseteq FitJobs(status')
  BY CompletedStays DEF FitJobs

\* What a call has left to do stays fit.
LEMMA FitStep ==
  ASSUME MInv, [Next]_vars
  PROVE  jobs' \in Seq(FitJobs(status'))
<1>0. TypeOK /\ jobs \in Seq(FitJobs(status)) /\ Unit \cap Station = {}
  BY BranchAssumption DEF MInv
<1>1. CASE UNCHANGED jobs
  BY <1>0, <1>1, FitWidens, SeqWidens
<1>2. <<>> \in Seq(FitJobs(status')) /\ <<Job("publish", {})>> \in Seq(FitJobs(status'))
  BY FitOne DEF Ops
<1>3. ASSUME jobs # <<>>, UNCHANGED status, NEW next \in Seq(FitJobs(status)), Then(next)
      PROVE  jobs' \in Seq(FitJobs(status'))
  BY <1>0, <1>3, FitMoves
<1>4. ASSUME jobs # <<>>
      PROVE  /\ Head(jobs).who \in SUBSET (Station \cup Unit)
             /\ \A b : Each(b) \in Seq(FitJobs(status))
             /\ <<>> \in Seq(FitJobs(status))
  BY <1>0, <1>4, FitMoves DEF Jobs
<1>5. CASE Tick
  BY <1>5, FitTick DEF Tick
<1>6. CASE Pull
  <2>1. jobs # <<>> /\ UNCHANGED status
    BY <1>6 DEF Pull, At, plan
  <2>2. <<Job("down", Head(jobs).who)>> \in Seq(FitJobs(status))
    BY <1>4, <2>1, FitOne DEF Ops
  <2>3. QED
    BY <1>3, <1>4, <1>6, <2>1, <2>2 DEF Pull
<1>7. CASE Wip
  BY <1>2, <1>3, <1>4, <1>7 DEF Wip, At, plan
<1>8. CASE Down \/ Finish \/ Deliver \/ Answer
  BY <1>3, <1>4, <1>8 DEF Down, Finish, Deliver, Answer, At, plan
<1>9. CASE Derive
  <2> DEFINE s == Frontier(status)
             wave == UnitsAt(s) \ locked
             done == [status EXCEPT ![s] = "completed"]
  <2>1. CASE jobs' = <<Job("publish", {})>>
    BY <1>2, <2>1
  <2>2. ASSUME NEW to, NEW eff \in Seq(FitJobs(status')), NEW orders, Advance(s, to, eff, orders)
        PROVE  jobs' \in Seq(FitJobs(status'))
    BY <1>2, <2>2, SeqJoins DEF Advance
  <2>3. CASE Open(status) # {} /\ Unmerged = {}
    <3>1. s \in Station /\ wave \subseteq Unit /\ UnitsAt(s) \cap refs \subseteq Unit
      BY <2>3, FrontierOpen DEF Open, UnitsAt
    <3>2. /\ <<Job("enter", {s})>> \in Seq(FitJobs(status'))
          /\ <<Job("fork", wave)>> \in Seq(FitJobs(status'))
          /\ <<Job("land", UnitsAt(s) \cap refs)>> \in Seq(FitJobs(status'))
      <4> HIDE DEF s, wave
      <4>1. QED
        BY <1>0, <3>1, FitOne DEF Ops
    <3>3. done[s] = "completed"
      BY <1>0, <3>1 DEF TypeOK, PlanOK
    <3>4. Landing(s, done) \in Seq(FitJobs(done))
      <4> HIDE DEF s, done
      <4>1. QED
        BY <3>1, <3>3, FitLanding
    <3>5. \/ Advance(s, "open", <<Job("enter", {s})>>, {})
          \/ Advance(s, "making", <<Job("fork", wave)>>, {"make"} \X wave)
          \/ Advance(s, "audit", <<Job("land", UnitsAt(s) \cap refs)>>, {<<"audit", s>>})
          \/ Advance(s, "completed", Landing(s, done), {}) /\ status' = done
          \/ Advance(s, "gate", <<>>, {})
      BY <1>9, <2>3 DEF Derive, Advance
    <3>6. QED
      <4> HIDE DEF s, wave, done
      <4>1. QED
        BY <1>2, <2>2, <3>2, <3>4, <3>5
  <2>4. QED
    BY <1>9, <2>1, <2>3 DEF Derive
<1>10. CASE Enter
  BY <1>3, <1>4, <1>10 DEF Enter, At, plan
<1>11. CASE Land
  <2>1. jobs # <<>> /\ UNCHANGED status
    BY <1>11 DEF Land, At, plan
  <2>2. \/ Then(<<>>)
        \/ \E b \in Head(jobs).who, op \in {"discard", "retire"} :
             Then((IF {b, Parent(b)} \subseteq refs THEN <<Job(op, {b})>> ELSE <<>>) \o Each(b))
    BY <1>11, Zenon DEF Land
  <2>3. ASSUME NEW b \in Head(jobs).who, NEW op \in {"discard", "retire"}
        PROVE  (IF {b, Parent(b)} \subseteq refs THEN <<Job(op, {b})>> ELSE <<>>) \o Each(b)
                  \in Seq(FitJobs(status))
    <3>1. <<Job(op, {b})>> \in Seq(FitJobs(status))
      BY <1>4, <2>1, FitOne DEF Ops
    <3>2. QED
      BY <1>4, <2>1, <3>1, SeqJoins
  <2>4. QED
    BY <1>3, <1>4, <2>1, <2>2, <2>3
<1>12. CASE Approve
  <2> DEFINE s == Frontier(status)
             done == [status EXCEPT ![s] = "completed"]
  <2>1. s \in Station
    BY <1>12, FrontierOpen DEF Approve, Open
  <2>2. status' = done /\ jobs' = Landing(s, done) \o TickJobs(done)
    BY <1>12 DEF Approve
  <2>3. done[s] = "completed"
    BY <1>0, <2>1 DEF TypeOK, PlanOK
  <2>4. QED
    <3> HIDE DEF s, done
    <3>1. QED
      BY <2>1, <2>2, <2>3, FitLanding, FitTick, SeqJoins
<1>13. CASE Crash
  BY <1>2, <1>13 DEF Crash
<1>14. QED
  BY <1>1, <1>5, <1>6, <1>7, <1>8, <1>9, <1>10, <1>11, <1>12, <1>13
     DEF Next, Step, Agent, Others, Write, Lock, Save, Sign, Resolve, Commit, Soil, PushBase,
         vars, calls

\* Every unit a step brings a branch is one the branch may have, and one the
\* engine brings run-main is of a Completed station.
Brought ==
  /\ holds[Main] \subseteq holds'[Main]
  /\ \A b \in Branch : unmerged'[b] \cap Unit \subseteq Allowed(b)
  /\ \A b \in Branch \ {Main} : holds'[b] \cap Unit \subseteq Allowed(b)
  /\ jobs' # jobs => holds'[Main] \cap Unit \subseteq Allowed(Main)

LEMMA MergeBrings ==
  ASSUME TypeOK, Sourced, NEW from \in Branch, NEW to \in Branch, Merge(from, to),
         holds[from] \cap Unit \subseteq Allowed(to)
  PROVE  Brought
<1>1. /\ \A b \in Branch : holds'[b] = holds[b] \/ (b = to /\ holds'[b] = holds[b] \cup holds[from])
      /\ \A b \in Branch : unmerged'[b] = unmerged[b] \/ (b = to /\ unmerged'[b] = holds[from] \ holds[to])
  <2>1. holds \in [Branch \cup {State} -> SUBSET Item] /\ unmerged \in [Branch -> SUBSET Item]
    BY DEF TypeOK, GitOK
  <2>2. holds' = holds \/ holds' = [holds EXCEPT ![to] = @ \cup holds[from]]
    BY Zenon DEF Merge
  <2>3. unmerged' = unmerged \/ unmerged' = [unmerged EXCEPT ![to] = holds[from] \ holds[to]]
    BY Zenon DEF Merge
  <2>4. QED
    BY <2>1, <2>2, <2>3
<1>2. Main \in Branch /\ holds[Main] \subseteq Allowed(Main)
  BY DEF Branch, Allowed
<1>3. QED
  BY <1>1, <1>2 DEF Brought, Sourced

\* The sources of the merges that a job makes.
LEMMA SourceFits ==
  ASSUME TypeOK, Sourced
  PROVE  /\ holds[Base] \cap Unit \subseteq Allowed(Main)
         /\ \A b : holds[Main] \cap Unit \subseteq Allowed(b)
         /\ \A b \in Unit : holds[b] \cap Unit \subseteq Allowed(Parent(b))
         /\ \A b \in Station : status[b] = "completed" => holds[b] \cap Unit \subseteq Allowed(Parent(b))
         /\ \A b \in Branch \ {Base, Main} : UnitsAt(Home(b)) \subseteq Allowed(b)
<1>1. Base \in Branch \ {Main} /\ Station \subseteq Branch \ {Base, Main} /\ Unit \subseteq Branch \ {Base, Main}
      /\ Station \cap Unit = {}
  BY BranchAssumption DEF Branch
<1>2. holds[Base] \cap Unit \subseteq Allowed(Main)
  BY <1>1 DEF Sourced, Allowed
<1>3. \A b : holds[Main] \cap Unit \subseteq Allowed(b)
  BY DEF Allowed
<1>4. ASSUME NEW b \in Unit
      PROVE  holds[b] \cap Unit \subseteq Allowed(Parent(b))
  <2>1. StationOf[b] \in Station /\ b \notin Station
    BY <1>1, BranchAssumption
  <2>2. Allowed(b) = holds[Main] \cup UnitsAt(StationOf[b])
    BY <1>1, <2>1 DEF Allowed, Home
  <2>3. Allowed(Parent(b)) = holds[Main] \cup UnitsAt(StationOf[b])
    BY <1>1, <2>1 DEF Allowed, Home, Parent
  <2>4. QED
    BY <1>1, <2>2, <2>3 DEF Sourced
<1>5. ASSUME NEW b \in Station, status[b] = "completed"
      PROVE  holds[b] \cap Unit \subseteq Allowed(Parent(b))
  <2>1. Allowed(b) = holds[Main] \cup UnitsAt(b) /\ Parent(b) = Main
    BY <1>1 DEF Allowed, Home, Parent
  <2>2. Allowed(Main) = holds[Main] \cup Done
    BY BranchAssumption DEF Allowed
  <2>3. UnitsAt(b) \subseteq Done
    BY <1>5 DEF UnitsAt, Done
  <2>4. QED
    BY <1>1, <2>1, <2>2, <2>3 DEF Sourced
<1>6. \A b \in Branch \ {Base, Main} : UnitsAt(Home(b)) \subseteq Allowed(b)
  BY DEF Allowed
<1>7. QED
  BY <1>2, <1>3, <1>4, <1>5, <1>6

LEMMA BroughtByStep ==
  ASSUME MInv, Step
  PROVE  Brought
<1>0. /\ TypeOK /\ Sourced /\ jobs \in Seq(FitJobs(status))
      /\ Base \in Branch /\ Main \in Branch /\ head = Main
      /\ Station \subseteq Branch \ {Base, Main} /\ Unit \subseteq Branch \ {Base, Main}
      /\ holds \in [Branch \cup {State} -> SUBSET Item] /\ unmerged \in [Branch -> SUBSET Item]
  BY BranchAssumption DEF MInv, TypeOK, GitOK, Branch
<1>1. ASSUME jobs # <<>>
      PROVE  /\ Head(jobs).who \subseteq Station \cup Unit
             /\ At("land") => \A s \in Head(jobs).who \cap Station : status[s] = "completed"
  BY <1>0, <1>1, FitMoves DEF FitJobs, Jobs, At
<1>2. ASSUME UNCHANGED <<holds, unmerged>> PROVE Brought
  BY <1>0, <1>2, SourceFits DEF Brought, Sourced, Allowed
<1>3. CASE Pull
  BY <1>0, <1>3, MergeBrings, SourceFits DEF Pull
<1>4. CASE Down
  <2>1. PICK s \in Head(jobs).who : Merge(Main, s)
    BY <1>4 DEF Down
  <2>2. s \in Branch
    BY <1>0, <1>1, <1>4, <2>1 DEF Down, At
  <2>3. QED
    BY <1>0, <2>1, <2>2, MergeBrings, SourceFits
<1>5. CASE Wip \/ Derive
  BY <1>2, <1>5 DEF Wip, Derive, git
<1>6. CASE Enter
  <2>1. jobs # <<>>
    BY <1>6 DEF Enter, At
  <2>2. PICK b \in Head(jobs).who :
           /\ IF Parent(b) \in refs THEN Fork(b) ELSE UNCHANGED git
           /\ Then(Each(b))
    BY <1>6 DEF Enter
  <2>3. b \in Station \cup Unit /\ Parent(b) \in {Main} \cup Station /\ b \in Branch \ {Base, Main}
        /\ Parent(b) \in Branch
    BY <1>0, <1>1, <2>1, ParentIsBranch
  <2>4. CASE UNCHANGED <<holds, unmerged>>
    BY <1>2, <2>4
  <2>5. CASE holds' = [holds EXCEPT ![b] = holds[Parent(b)]] /\ UNCHANGED unmerged
    <3>1. holds[Parent(b)] \cap Unit \subseteq Allowed(b)
      <4>1. CASE b \in Station
        BY <1>0, <4>1, SourceFits DEF Parent
      <4>2. CASE b \in Unit /\ b \notin Station
        <5>1. Parent(b) = StationOf[b] /\ Parent(b) \in Station
          BY <4>2, BranchAssumption DEF Parent
        <5>2. Allowed(Parent(b)) = Allowed(b)
          BY <1>0, <4>2, <5>1, BranchAssumption DEF Allowed, Home
        <5>3. QED
          BY <1>0, <5>1, <5>2 DEF Sourced
      <4>3. QED
        BY <2>3, <4>1, <4>2
    <3>2. QED
      BY <1>0, <2>3, <2>5, <3>1, SourceFits DEF Brought, Sourced
  <2>6. QED
    BY <2>2, <2>4, <2>5 DEF Fork, git
<1>7. CASE Land
  <2>1. jobs # <<>> /\ At("land")
    BY <1>7 DEF Land, At
  <2>2. UNCHANGED git \/ \E b \in Head(jobs).who : Merge(b, Parent(b))
    BY <1>7, Zenon DEF Land
  <2>3. ASSUME NEW b \in Head(jobs).who, Merge(b, Parent(b)) PROVE Brought
    <3>1. b \in Branch /\ Parent(b) \in Branch
      BY <1>1, <2>1, ParentIsBranch
    <3>2. holds[b] \cap Unit \subseteq Allowed(Parent(b))
      BY <1>0, <1>1, <2>1, SourceFits
    <3>3. QED
      BY <1>0, <2>3, <3>1, <3>2, MergeBrings
  <2>4. QED
    BY <1>2, <2>2, <2>3 DEF git
<1>8. CASE Finish
  <2>1. PICK b \in Head(jobs).who : Retire(b, At("discard"))
    BY <1>8 DEF Finish
  <2>2. UNCHANGED holds /\ \A x \in Branch : unmerged'[x] \subseteq unmerged[x]
    BY <1>0, <2>1 DEF Retire
  <2>3. QED
    BY <1>0, <2>2, SourceFits DEF Brought, Sourced
<1>9. CASE Deliver
  BY <1>0, <1>9, MergeBrings, SourceFits DEF Deliver
<1>10. CASE Answer
  <2>1. /\ holds' = [holds EXCEPT ![Main] = @ \cup Concluded]
        /\ unmerged' = IF Main \in staged THEN [unmerged EXCEPT ![Main] = {}] ELSE unmerged
    BY <1>0, <1>10 DEF Answer, Publish
  <2>2. Concluded \cap Unit \subseteq Allowed(Main)
    BY <1>0 DEF Sourced, Concluded
  <2>3. QED
    BY <1>0, <2>1, <2>2, SourceFits DEF Brought, Sourced
<1>11. QED
  BY <1>3, <1>4, <1>5, <1>6, <1>7, <1>8, <1>9, <1>10 DEF Step

LEMMA BroughtByRest ==
  ASSUME MInv, Tick \/ Agent \/ Others \/ UNCHANGED vars
  PROVE  Brought
<1>0. /\ TypeOK /\ Sourced /\ jobs \in Seq(FitJobs(status))
      /\ Base \in Branch /\ Main \in Branch /\ head = Main
      /\ Station \subseteq Branch \ {Base, Main} /\ Unit \subseteq Branch \ {Base, Main}
      /\ holds \in [Branch \cup {State} -> SUBSET Item] /\ unmerged \in [Branch -> SUBSET Item]
  BY BranchAssumption DEF MInv, TypeOK, GitOK, Branch
<1>1. ASSUME UNCHANGED <<holds, unmerged>> PROVE Brought
  BY <1>0, <1>1, SourceFits DEF Brought, Sourced
<1>2. ASSUME NEW u \in Unit, Save(u) PROVE Brought
  <2>1. u \in Allowed(u)
    BY <1>0, BranchAssumption DEF Allowed, Home, UnitsAt
  <2>2. \E work \in {holds, [holds EXCEPT ![u] = @ \cup {u}]} :
           holds' = [work EXCEPT ![Main] = @ \cup Concluded]
    BY <1>0, <1>2 DEF Save, Publish
  <2>3. /\ \A b \in Branch : unmerged'[b] \subseteq unmerged[b]
        /\ UNCHANGED jobs
    BY <1>0, <1>2 DEF Save, Publish
  <2>4. QED
    BY <1>0, <2>1, <2>2, <2>3 DEF Brought, Sourced
<1>3. ASSUME NEW b \in Branch, Resolve(b) PROVE Brought
  <2>1. /\ \A x \in Branch : unmerged'[x] \subseteq unmerged[x]
        /\ \A x \in Branch : holds'[x] = holds[x] \/ holds'[x] = holds[x] \cup unmerged[x]
        /\ UNCHANGED jobs
    BY <1>0, <1>3 DEF Resolve
  <2>2. QED
    BY <1>0, <2>1 DEF Brought, Sourced
<1>4. CASE Commit
  <2>1. holds' = [holds EXCEPT ![Main] = @ \cup {u \in Unit : draft[u] = "root"}]
        /\ UNCHANGED <<jobs, unmerged>>
    BY <1>0, <1>4 DEF Commit, calls
  <2>2. QED
    BY <1>0, <2>1 DEF Brought, Sourced
<1>5. ASSUME NEW x \in Upstream, PushBase(x) PROVE Brought
  <2>1. x \notin Unit /\ UNCHANGED <<jobs, unmerged>> /\ holds' = [holds EXCEPT ![Base] = @ \cup {x}]
    BY <1>5, BranchAssumption DEF PushBase, calls
  <2>2. QED
    BY <1>0, <2>1, BranchAssumption DEF Brought, Sourced
<1>6. CASE Crash
  <2>1. ASSUME NEW from \in Branch, NEW to \in Branch, Halfway(from, to), UNCHANGED holds,
               holds[from] \cap Unit \subseteq Allowed(to)
        PROVE  Brought
    <3>1. \A b \in Branch : unmerged'[b] = unmerged[b] \/ (b = to /\ unmerged'[b] = holds[from] \ holds[to])
      BY <1>0, <2>1 DEF Halfway
    <3>2. QED
      BY <1>0, <2>1, <3>1, SourceFits DEF Brought, Sourced
  <2>2. ASSUME jobs # <<>>
        PROVE  /\ Head(jobs).who \subseteq Station \cup Unit
               /\ At("land") => \A s \in Head(jobs).who \cap Station : status[s] = "completed"
    BY <1>0, <2>2, FitMoves DEF FitJobs, Jobs, At
  <2>3. UNCHANGED holds
    BY <1>6 DEF Crash
  <2>4. CASE UNCHANGED unmerged
    BY <1>1, <2>3, <2>4
  <2>5. CASE At("pull") /\ Halfway(Base, Main)
    BY <1>0, <2>1, <2>3, <2>5, SourceFits
  <2>6. CASE At("down") /\ \E s \in Head(jobs).who : Halfway(Main, s)
    <3>1. PICK s \in Head(jobs).who : Halfway(Main, s)
      BY <2>6
    <3>2. s \in Branch
      BY <1>0, <2>2, <2>6, <3>1 DEF At
    <3>3. QED
      BY <1>0, <2>1, <2>3, <3>1, <3>2, SourceFits
  <2>7. CASE At("land") /\ \E b \in Head(jobs).who : Halfway(b, Parent(b))
    <3>1. PICK b \in Head(jobs).who : Halfway(b, Parent(b))
      BY <2>7
    <3>2. b \in Branch /\ Parent(b) \in Branch
      BY <2>2, <2>7, <3>1, ParentIsBranch DEF At
    <3>3. holds[b] \cap Unit \subseteq Allowed(Parent(b))
      BY <1>0, <2>2, <2>7, <3>1, SourceFits DEF At
    <3>4. QED
      BY <2>1, <2>3, <3>1, <3>2, <3>3
  <2>8. CASE At("deliver") /\ Halfway(Main, Base)
    BY <1>0, <2>1, <2>3, <2>8, SourceFits
  <2>9. QED
    BY <1>6, <2>4, <2>5, <2>6, <2>7, <2>8 DEF Crash
<1>7. QED
  <2>1. \/ UNCHANGED <<holds, unmerged>>
        \/ Commit \/ Crash
        \/ \E u \in Unit : Save(u)
        \/ \E b \in Branch : Resolve(b)
        \/ \E x \in Upstream : PushBase(x)
    BY DEF Agent, Others, Tick, Write, Lock, Sign, Approve, Soil, vars, git
  <2>2. QED
    BY <1>1, <1>2, <1>3, <1>4, <1>5, <1>6, <2>1

LEMMA BroughtIsSourced ==
  ASSUME MInv, [Next]_vars, Brought
  PROVE  Sourced'
<1>1. Done \subseteq Done'
  BY CompletedStays, BranchAssumption DEF Done, MInv
<1>2. \A b \in Branch : Allowed(b) \subseteq Allowed(b)'
  BY <1>1 DEF Allowed, Brought
<1>3. QED
  BY <1>2 DEF Sourced, Brought

\* run-main only ever takes, by the engine's hand, units of stations that are
\* Completed, whatever conflicts, however the stations close, and however
\* often the engine dies.
THEOREM OnlyVerifiedLands == Spec => MainTakesVerified
<1>1. Init => MInv
  <2> SUFFICES ASSUME Init PROVE MInv
    OBVIOUS
  <2>1. Sourced
    BY DEF Init, Sourced
  <2>2. QED
    BY <2>1, InitType DEF Init, MInv
<1>2. MInv /\ [Next]_vars => MInv' /\ Brought
  <2> SUFFICES ASSUME MInv, [Next]_vars PROVE MInv' /\ Brought
    OBVIOUS
  <2>1. TypeOK'
    BY StepType, AgentType, OthersType, StutterType DEF Next, MInv
  <2>2. Brought
    BY BroughtByStep, BroughtByRest DEF Next
  <2>3. head' = Main
    BY DEF MInv, Next, Step, Agent, Others, Tick, Pull, Down, Wip, Derive, Enter, Land, Finish,
           Retire, Deliver, Answer, Write, Lock, Save, Sign, Resolve, Commit, Approve, Soil,
           PushBase, Crash, vars, tree
  <2>4. QED
    BY <2>1, <2>2, <2>3, FitStep, BroughtIsSourced DEF MInv
<1>3. Brought => [jobs' # jobs => \A u \in Unit : u \in holds'[Main] \ holds[Main]
                                     => status[StationOf[u]] = "completed"]_vars
  BY BranchAssumption DEF Brought, Allowed, Done
<1>4. QED
  BY <1>1, <1>2, <1>3, PTL DEF Spec, MainTakesVerified

-----------------------------------------------------------------------------
(* A station that closes by itself lands without a conflict *)

Opened(s) == status[s] \notin {"pending", "completed"}

\* Jobs that land no station that closes by itself, and take away nothing a
\* worker still needs.
Calm == {j \in Jobs :
           /\ j.op \in {"land", "retire", "discard"} =>
                 /\ j.who \cap Unit \subseteq locked
                 /\ \A s \in j.who \cap Station : status[s] = "completed"
           /\ j.op = "land" => j.who \cap (Station \ Gated) = {}
           /\ j.op = "fork" => j.who \subseteq Unit /\ \A u \in j.who : Opened(StationOf[u])}

\* And which are no part of a sync or of what follows it.
Still == {j \in Calm : j.op \notin {"pull", "down", "wip", "derive"}}

\* The station on turn has what run-main has, or a merge between them is open.
Synced ==
  LET s == Frontier(status)
  IN  status[s] = "pending" \/ {Main, s} \cap Unmerged # {} \/ holds[Main] \subseteq holds[s]

\* Where a call is between the sync that a tick begins with and its derivation.
Syncing ==
  LET pull == Job("pull", {Frontier(status)})
      down == Job("down", {Frontier(status)})
      wip == Job("wip", {})
      derive == Job("derive", {})
  IN  \/ jobs \in Seq(Still)
      \/ \E s \in Gated, op \in {"land", "retire", "discard"} :
            jobs = <<Job(op, {s}), pull, wip, derive>>
      \/ jobs = <<pull, wip, derive>>
      \/ jobs = <<down, wip, derive>>
      \/ jobs \in {<<wip, derive>>, <<derive>>} /\ Synced

\* A station that closes by itself is about to land: run-main has nothing that
\* is not on its branch.
Closing ==
  \E s \in Station \ Gated :
     /\ jobs # <<>> /\ Head(jobs) = Job("land", {s}) /\ Tail(jobs) \in Seq(Still)
     /\ status[s] = "completed"
     /\ holds[Main] \subseteq holds[s] /\ unmerged[Main] = {}

Ordered == Closing \/ (jobs \in Seq(Calm) /\ (Open(status) # {} => Syncing))

\* A station under way has its branch and worktree, and a unit the agent was
\* asked to make its worktree.
Entered ==
  \A s \in Station : Opened(s) => s \in refs \cap linked \/ (At("enter") /\ Head(jobs).who = {s})
Made ==
  \A u \in Unit \ locked :
     /\ <<"make", u>> \in told => u \in linked
     /\ <<"make", u>> \in reply => u \in linked \/ (At("fork") /\ u \in Head(jobs).who)

\* No work is done outside the worktrees, and no merge is left staged.
Tidy == staged = {} /\ \A u \in Unit : draft[u] # "root"

Rooted ==
  /\ AtHome /\ temp[Main] = "none"
  /\ \A s \in Station : status[s] = "gate" => s \in Gated

CInv == TypeOK /\ Rooted /\ (crashes = 0 => Tidy /\ Entered /\ Made /\ Ordered)

LEMMA SameElements ==
  ASSUME NEW S, NEW p \in Seq(S), NEW q \in Seq(S), Len(p) = Len(q),
         \A i \in 1..Len(q) : p[i] = q[i]
  PROVE  p = q
<1>1. p = [i \in 1..Len(p) |-> p[i]] /\ q = [i \in 1..Len(q) |-> q[i]]
  OBVIOUS
<1>2. QED
  BY <1>1

\* A job before the others.
LEMMA PrependedToTwo ==
  ASSUME NEW x, NEW a, NEW b
  PROVE  <<x>> \o <<a, b>> = <<x, a, b>>
<1> DEFINE S == {x, a, b}
           p == <<x>> \o <<a, b>>
<1>1. p \in Seq(S) /\ <<x, a, b>> \in Seq(S) /\ Len(p) = 3
  OBVIOUS
<1>2. p[1] = x /\ p[2] = a /\ p[3] = b
  OBVIOUS
<1>3. \A i \in 1..3 : p[i] = <<x, a, b>>[i]
  BY <1>2
<1> HIDE DEF p, S
<1>4. p = <<x, a, b>>
  BY <1>1, <1>3, SameElements
<1>5. QED
  BY <1>4 DEF p

LEMMA Prepended ==
  ASSUME NEW x, NEW a, NEW b, NEW c
  PROVE  <<x>> \o <<a, b, c>> = <<x, a, b, c>>
<1> DEFINE S == {x, a, b, c}
           p == <<x>> \o <<a, b, c>>
<1>1. p \in Seq(S) /\ <<x, a, b, c>> \in Seq(S) /\ Len(p) = 4
  OBVIOUS
<1>2. p[1] = x /\ p[2] = a /\ p[3] = b /\ p[4] = c
  OBVIOUS
<1>3. \A i \in 1..4 : p[i] = <<x, a, b, c>>[i]
  BY <1>2
<1> HIDE DEF p, S
<1>4. p = <<x, a, b, c>>
  BY <1>1, <1>3, SameElements
<1>5. QED
  BY <1>4 DEF p

\* What is calm stays so while stations and units only move on.
LEMMA CalmOne ==
  ASSUME NEW op \in Ops \ {"land", "retire", "discard", "fork"},
         NEW who \in SUBSET (Station \cup Unit)
  PROVE  /\ Job(op, who) \in Calm /\ Job(op, who) \in Calm'
         /\ op \notin {"pull", "down", "wip", "derive"} => /\ Job(op, who) \in Still
                                                           /\ Job(op, who) \in Still'
<1>1. Job(op, who) \in Jobs
  BY JobIsJob
<1>2. Job(op, who).op = op
  BY DEF Job
<1>3. QED
  BY <1>1, <1>2 DEF Calm, Still

LEMMA StillCalm == Still \subseteq Calm /\ Calm \subseteq Jobs
  BY DEF Still, Calm

LEMMA CalmWidens ==
  ASSUME UNCHANGED status, locked \subseteq locked'
  PROVE  Calm \subseteq Calm' /\ Still \subseteq Still'
  BY DEF Calm, Still, Opened

LEMMA CalmMoves ==
  ASSUME UNCHANGED status, locked \subseteq locked', NEW q
  PROVE  (q \in Seq(Calm) => q \in Seq(Calm')) /\ (q \in Seq(Still) => q \in Seq(Still'))
  BY CalmWidens, SeqWidens

\* The next steps of the jobs that are no part of a sync.
LEMMA OrderedMovesOn ==
  ASSUME Ordered, jobs # <<>>, UNCHANGED <<status, locked>>,
         Head(jobs).op \notin {"pull", "down", "wip", "derive"},
         NEW next \in Seq(Still), Then(next),
         \A s \in Gated, op \in {"land", "retire", "discard"} :
            Head(jobs) = Job(op, {s}) => \/ next = <<>>
                                         \/ next = <<Job("retire", {s})>>
                                         \/ next = <<Job("discard", {s})>>
  PROVE  Ordered'
<1>1. Calm' = Calm /\ Still' = Still /\ Open(status') = Open(status)
  BY DEF Calm, Still, Opened
<1>2. ASSUME Tail(jobs) \in Seq(Still)
      PROVE  Ordered'
  <2>1. jobs' \in Seq(Still)
    BY <1>2, SeqJoins DEF Then
  <2>2. jobs' \in Seq(Calm)
    BY <2>1, StillCalm, SeqWidens
  <2>3. QED
    BY <1>1, <2>1, <2>2 DEF Ordered, Syncing
<1>3. CASE Closing
  BY <1>2, <1>3 DEF Closing
<1>4. CASE jobs \in Seq(Calm) /\ (Open(status) # {} => Syncing)
  <2>1. jobs' \in Seq(Calm)
    <3>1. next \in Seq(Calm) /\ Tail(jobs) \in Seq(Calm)
      BY <1>4, StillCalm, SeqWidens, SeqMovesOn
    <3>2. QED
      BY <3>1, SeqJoins DEF Then
  <2>2. CASE Open(status) = {}
    BY <1>1, <2>1, <2>2 DEF Ordered
  <2>3. CASE jobs \in Seq(Still)
    BY <1>2, <2>3, SeqMovesOn
  <2>4. CASE Open(status) # {} /\ jobs \notin Seq(Still)
    <3> DEFINE pull == Job("pull", {Frontier(status)})
               wip == Job("wip", {})
               derive == Job("derive", {})
    <3>1. PICK s \in Gated, op \in {"land", "retire", "discard"} :
             jobs = <<Job(op, {s}), pull, wip, derive>>
      BY <1>4, <2>4 DEF Syncing, Job
    <3>2. Head(jobs) = Job(op, {s}) /\ Tail(jobs) = <<pull, wip, derive>>
      BY <3>1
    <3>3. jobs' = next \o <<pull, wip, derive>>
      BY <3>2 DEF Then
    <3>4. \/ jobs' = <<pull, wip, derive>>
          \/ jobs' = <<Job("retire", {s}), pull, wip, derive>>
          \/ jobs' = <<Job("discard", {s}), pull, wip, derive>>
      <4>1. next = <<>> \/ next = <<Job("retire", {s})>> \/ next = <<Job("discard", {s})>>
        BY <3>2
      <4> HIDE DEF pull, wip, derive
      <4>2. \A x : <<x>> \o <<pull, wip, derive>> = <<x, pull, wip, derive>>
        BY Prepended
      <4>3. <<>> \o <<pull, wip, derive>> = <<pull, wip, derive>>
        OBVIOUS
      <4>4. QED
        BY <3>3, <4>1, <4>2, <4>3
    <3>5. Syncing'
      BY <3>4 DEF Syncing
    <3>6. QED
      BY <1>1, <2>1, <3>5 DEF Ordered
  <2>5. QED
    BY <2>2, <2>3, <2>4
<1>5. QED
  BY <1>3, <1>4 DEF Ordered

\* What leaves run-main, the jobs and the open merges alone keeps the order.
LEMMA OrderedStays ==
  ASSUME Ordered, UNCHANGED <<jobs, status, unmerged, temp, staged>>, locked \subseteq locked',
         holds'[Main] = holds[Main], \A s \in Station : holds[s] \subseteq holds'[s]
  PROVE  Ordered'
<1>1. Unmerged' = Unmerged
  BY DEF Unmerged
<1>2. Open(status) # {} /\ Synced => Synced'
  <2> SUFFICES ASSUME Open(status) # {}, Synced PROVE Synced'
    OBVIOUS
  <2>1. Frontier(status) \in Station
    BY FrontierOpen DEF Open
  <2>2. QED
    BY <1>1, <2>1 DEF Synced
<1>3. CASE Closing
  BY <1>3, CalmMoves DEF Closing, Ordered
<1>4. CASE jobs \in Seq(Calm) /\ (Open(status) # {} => Syncing)
  <2>1. jobs' \in Seq(Calm')
    BY <1>4, CalmMoves
  <2>2. Open(status) # {} => Syncing'
    <3> SUFFICES ASSUME Open(status) # {} PROVE Syncing'
      OBVIOUS
    <3>1. CASE jobs \in Seq(Still)
      BY <3>1, CalmMoves DEF Syncing
    <3>2. CASE jobs \notin Seq(Still)
      BY <1>2, <1>4, <3>2 DEF Syncing
    <3>3. QED
      BY <3>1, <3>2
  <2>3. QED
    BY <2>1, <2>2 DEF Ordered
<1>5. QED
  BY <1>3, <1>4 DEF Ordered

\* Which jobs are left at each job of a sync.
LEMMA SyncAt ==
  ASSUME Ordered
  PROVE  LET pull == Job("pull", {Frontier(status)})
             down == Job("down", {Frontier(status)})
             wip == Job("wip", {})
             derive == Job("derive", {})
         IN  /\ ~At("land") => jobs \in Seq(Calm)
             /\ Open(status) # {} =>
                   /\ At("pull") => jobs = <<pull, wip, derive>>
                   /\ At("down") => jobs = <<down, wip, derive>>
                   /\ At("wip") => jobs = <<wip, derive>> /\ Synced
                   /\ At("derive") => jobs = <<derive>> /\ Synced
<1> DEFINE pull == Job("pull", {Frontier(status)})
           down == Job("down", {Frontier(status)})
           wip == Job("wip", {})
           derive == Job("derive", {})
<1>1. CASE Closing
  <2>1. At("land")
    BY <1>1 DEF Closing, Job, At
  <2>2. ~At("pull") /\ ~At("down") /\ ~At("wip") /\ ~At("derive")
    BY <2>1 DEF At
  <2>3. QED
    BY <2>1, <2>2
<1>2. CASE jobs \in Seq(Calm) /\ (Open(status) # {} => Syncing)
  <2>1. jobs \in Seq(Still) => ~At("pull") /\ ~At("down") /\ ~At("wip") /\ ~At("derive")
    BY SeqMovesOn DEF At, Still
  <2>2. ASSUME NEW s \in Gated, NEW op \in {"land", "retire", "discard"},
               jobs = <<Job(op, {s}), pull, wip, derive>>
        PROVE  ~At("pull") /\ ~At("down") /\ ~At("wip") /\ ~At("derive")
    <3>1. Head(jobs) = Job(op, {s})
      BY <2>2
    <3>2. QED
      BY <3>1 DEF At, Job
  <2>3. ASSUME NEW j, Head(jobs) = j, NEW op, At(op) PROVE j.op = op
    BY <2>3 DEF At
  <2>4. /\ jobs = <<pull, wip, derive>> => Head(jobs) = pull
        /\ jobs = <<down, wip, derive>> => Head(jobs) = down
        /\ jobs = <<wip, derive>> => Head(jobs) = wip
        /\ jobs = <<derive>> => Head(jobs) = derive
    <3> HIDE DEF pull, down, wip, derive
    <3>1. QED
      OBVIOUS
  <2>5. pull.op = "pull" /\ down.op = "down" /\ wip.op = "wip" /\ derive.op = "derive"
    BY DEF Job
  <2>6. Open(status) # {} => \/ ~At("pull") /\ ~At("down") /\ ~At("wip") /\ ~At("derive")
                             \/ jobs = <<pull, wip, derive>>
                             \/ jobs = <<down, wip, derive>>
                             \/ jobs = <<wip, derive>> /\ Synced
                             \/ jobs = <<derive>> /\ Synced
    BY <1>2, <2>1, <2>2 DEF Syncing
  <2> HIDE DEF pull, down, wip, derive
  <2>7. Open(status) # {} =>
            /\ At("pull") => jobs = <<pull, wip, derive>>
            /\ At("down") => jobs = <<down, wip, derive>>
            /\ At("wip") => jobs = <<wip, derive>> /\ Synced
            /\ At("derive") => jobs = <<derive>> /\ Synced
    BY <2>3, <2>4, <2>5, <2>6
  <2>8. QED
    BY <1>2, <2>7 DEF pull, down, wip, derive
<1>3. QED
  BY <1>1, <1>2 DEF Ordered

LEMMA EnteredStays ==
  ASSUME Entered, ~At("enter") \/ UNCHANGED jobs, UNCHANGED status,
         refs \subseteq refs', linked \subseteq linked'
  PROVE  Entered'
  BY DEF Entered, Opened, At

LEMMA MadeStays ==
  ASSUME Made, ~At("fork") \/ UNCHANGED jobs, locked \subseteq locked', linked \subseteq linked',
         told' \subseteq told, reply' \subseteq reply
  PROVE  Made'
  BY DEF Made, At

\* The head of calm jobs, and less of it.
LEMMA CalmHead ==
  ASSUME jobs \in Seq(Calm), jobs # <<>>
  PROVE  /\ Head(jobs) \in Calm
         /\ Head(jobs).op \in Ops /\ Head(jobs).who \in SUBSET (Station \cup Unit)
         /\ \A who \in SUBSET Head(jobs).who : Job(Head(jobs).op, who) \in Calm
<1>1. Head(jobs) \in Calm
  BY SeqMovesOn
<1>2. Head(jobs).op \in Ops /\ Head(jobs).who \in SUBSET (Station \cup Unit)
  BY <1>1 DEF Calm, Jobs
<1>3. ASSUME NEW who \in SUBSET Head(jobs).who PROVE Job(Head(jobs).op, who) \in Calm
  <2>1. Job(Head(jobs).op, who) \in Jobs
    BY <1>2, JobIsJob
  <2>2. Job(Head(jobs).op, who).op = Head(jobs).op /\ Job(Head(jobs).op, who).who = who
    BY DEF Job
  <2>3. QED
    BY <1>1, <2>1, <2>2 DEF Calm
<1>4. QED
  BY <1>1, <1>2, <1>3

-----------------------------------------------------------------------------
(* The steps of a call *)

Orderings == Tidy' /\ Entered' /\ Made' /\ Ordered'

LEMMA OrderedPull ==
  ASSUME TypeOK, Rooted, Tidy, Entered, Made, Ordered, Pull
  PROVE  Orderings
<1> DEFINE s == Frontier(status)
           pull == Job("pull", {s})
           down == Job("down", {s})
           wip == Job("wip", {})
           derive == Job("derive", {})
<1>1. /\ jobs # <<>> /\ Head(jobs).op = "pull" /\ At("pull")
      /\ ~At("land") /\ ~At("enter") /\ ~At("fork")
      /\ UNCHANGED <<status, locked, draft, told, reply, refs, linked, staged>>
  BY DEF Pull, At, Merge, plan, tree
<1>2. Tidy' /\ Entered' /\ Made'
  BY <1>1, EnteredStays, MadeStays DEF Tidy
<1>3. Calm' = Calm
  BY <1>1 DEF Calm, Opened
<1>4. jobs \in Seq(Calm)
  BY <1>1, SyncAt
<1>5. PICK next \in {<<>>, <<Job("down", Head(jobs).who)>>} :
         /\ Then(next)
         /\ next = <<>> => Merges(Base, Main) /\ Conflicts(Base, Main)
  BY DEF Pull
<1>6. jobs' \in Seq(Calm')
  <2>1. Job("down", Head(jobs).who) \in Calm
    BY <1>1, <1>4, CalmHead, CalmOne DEF Ops
  <2>2. <<>> \in Seq(Calm) /\ <<Job("down", Head(jobs).who)>> \in Seq(Calm)
    BY <2>1
  <2>3. QED
    BY <1>1, <1>3, <1>4, <1>5, <2>2, SeqMovesOn DEF Then
<1>7. CASE Open(status) = {}
  BY <1>1, <1>2, <1>6, <1>7 DEF Ordered, Orderings, Open
<1>8. CASE Open(status) # {}
  <2>1. jobs = <<pull, wip, derive>>
    BY <1>1, <1>8, SyncAt
  <2>2. Head(jobs) = pull /\ Tail(jobs) = <<wip, derive>>
    <3> HIDE DEF pull, wip, derive
    <3>1. QED
      BY <2>1
  <2>3. CASE next = <<>>
    <3>1. jobs' = <<wip, derive>>
      <4> HIDE DEF wip, derive
      <4>1. <<>> \o <<wip, derive>> = <<wip, derive>>
        OBVIOUS
      <4>2. QED
        BY <1>5, <2>2, <2>3, <4>1 DEF Then
    <3>2. Main \in Unmerged'
      <4>1. Main \in Branch /\ unmerged \in [Branch -> SUBSET Item] /\ CheckedOut(Main)
        BY DEF TypeOK, GitOK, Branch, Rooted, AtHome, CheckedOut
      <4>2. unmerged' = [unmerged EXCEPT ![Main] = holds[Base] \ holds[Main]]
        BY <1>5, <2>3, <4>1 DEF Pull, Merge
      <4>3. unmerged'[Main] # {}
        BY <1>5, <2>3, <4>1, <4>2 DEF Merges, Debt
      <4>4. QED
        BY <1>1, <4>1, <4>3 DEF Unmerged, Tidy
    <3>3. Synced'
      BY <3>2 DEF Synced
    <3>4. Syncing'
      BY <3>1, <3>3 DEF Syncing
    <3>5. QED
      BY <1>2, <1>6, <3>4 DEF Ordered, Orderings
  <2>4. CASE next = <<Job("down", Head(jobs).who)>>
    <3>1. Head(jobs).who = {s}
      BY <2>2 DEF Job
    <3>2. jobs' = <<down>> \o <<wip, derive>>
      BY <1>5, <2>2, <2>4, <3>1 DEF Then
    <3>3. jobs' = <<down, wip, derive>>
      <4> HIDE DEF down, wip, derive
      <4>1. QED
        BY <3>2, PrependedToTwo
    <3>4. Frontier(status') = s
      BY <1>1
    <3>5. Syncing'
      BY <3>3, <3>4 DEF Syncing
    <3>6. QED
      BY <1>2, <1>6, <3>5 DEF Ordered, Orderings
  <2>5. QED
    BY <1>5, <2>3, <2>4
<1>9. QED
  BY <1>7, <1>8

LEMMA OrderedDown ==
  ASSUME TypeOK, Rooted, Tidy, Entered, Made, Ordered, Down
  PROVE  Orderings
<1> DEFINE s == Frontier(status)
           down == Job("down", {s})
           wip == Job("wip", {})
           derive == Job("derive", {})
<1>1. /\ jobs # <<>> /\ At("down")
      /\ ~At("land") /\ ~At("enter") /\ ~At("fork")
      /\ UNCHANGED <<status, locked, draft, told, reply, refs, linked, staged>>
      /\ Then(<<>>)
  BY DEF Down, At, Merge, plan, tree
<1>2. Tidy' /\ Entered' /\ Made'
  BY <1>1, EnteredStays, MadeStays DEF Tidy
<1>3. Calm' = Calm
  BY <1>1 DEF Calm, Opened
<1>4. jobs' \in Seq(Calm')
  <2>1. jobs \in Seq(Calm)
    BY <1>1, SyncAt
  <2>2. QED
    BY <1>1, <1>3, <2>1, SeqMovesOn DEF Then
<1>5. CASE Open(status) = {}
  BY <1>1, <1>2, <1>4, <1>5 DEF Ordered, Orderings, Open
<1>6. CASE Open(status) # {}
  <2>1. jobs = <<down, wip, derive>>
    BY <1>1, <1>6, SyncAt
  <2>2. Head(jobs) = down /\ jobs' = <<wip, derive>>
    <3> HIDE DEF down, wip, derive
    <3>1. Head(jobs) = down /\ Tail(jobs) = <<wip, derive>> /\ <<>> \o <<wip, derive>> = <<wip, derive>>
      BY <2>1
    <3>2. QED
      BY <1>1, <3>1 DEF Then
  <2>3. s \in Station /\ status[s] # "completed" /\ s \in Branch /\ Main \in Branch /\ s # Main
    BY <1>6, FrontierOpen, BranchAssumption DEF Open, Branch
  <2>4. Merge(Main, s)
    BY <2>2 DEF Down, Job
  <2>5. Synced'
    <3> HIDE DEF s
    <3>1. SUFFICES ASSUME status[s] # "pending", s \notin Unmerged'
                   PROVE  holds'[Main] \subseteq holds'[s]
      BY <1>1 DEF Synced, s
    <3>2. {Main, s} \subseteq refs /\ CheckedOut(s)
      BY <1>1, <2>3, <3>1 DEF Entered, Opened, Rooted, AtHome, CheckedOut
    <3>3. /\ holds \in [Branch \cup {State} -> SUBSET Item] /\ unmerged \in [Branch -> SUBSET Item]
          /\ head = Main /\ staged' = {}
      BY <1>1 DEF TypeOK, GitOK, Rooted, AtHome, Tidy
    <3>4. unmerged'[s] = {}
      BY <2>3, <3>1, <3>3 DEF Unmerged
    <3>5. CASE ~Debt(Main, s)
      <4>1. UNCHANGED holds
        BY <2>4, <3>5 DEF Merge, Merges
      <4>2. QED
        BY <3>5, <4>1 DEF Debt
    <3>6. CASE Debt(Main, s) /\ unmerged[s] # {}
      <4>1. UNCHANGED unmerged
        BY <2>3, <2>4, <3>2, <3>3, <3>6 DEF Merge, Merges, Barred
      <4>2. QED
        BY <3>4, <3>6, <4>1
    <3>7. CASE Debt(Main, s) /\ unmerged[s] = {}
      <4>1. Merges(Main, s)
        BY <2>3, <3>2, <3>3, <3>7 DEF Merges, Barred
      <4>2. CASE Conflicts(Main, s)
        <5>1. unmerged' = [unmerged EXCEPT ![s] = holds[Main] \ holds[s]]
          BY <2>4, <3>2, <4>1, <4>2 DEF Merge
        <5>2. QED
          BY <2>3, <3>3, <3>4, <3>7, <5>1 DEF Debt
      <4>3. CASE ~Conflicts(Main, s)
        <5>1. holds' = [holds EXCEPT ![s] = @ \cup holds[Main]]
          BY <2>4, <4>1, <4>3 DEF Merge
        <5>2. QED
          BY <2>3, <3>3, <5>1
      <4>4. QED
        BY <4>2, <4>3
    <3>8. QED
      BY <3>5, <3>6, <3>7
  <2>6. Syncing'
    BY <2>2, <2>5 DEF Syncing
  <2>7. QED
    BY <1>2, <1>4, <2>6 DEF Ordered, Orderings
<1>7. QED
  BY <1>5, <1>6

LEMMA OrderedWip ==
  ASSUME TypeOK, Rooted, Tidy, Entered, Made, Ordered, Wip
  PROVE  Orderings
<1> DEFINE wip == Job("wip", {})
           derive == Job("derive", {})
<1>1. /\ jobs # <<>> /\ At("wip")
      /\ ~At("land") /\ ~At("enter") /\ ~At("fork")
      /\ UNCHANGED <<plan, git, tree, reply, told>>
      /\ jobs' = <<Job("publish", {})>> \/ Then(<<>>)
  BY DEF Wip, At
<1>2. Tidy' /\ Entered' /\ Made'
  BY <1>1, EnteredStays, MadeStays DEF Tidy, plan, git, tree
<1>3. Calm' = Calm /\ Still' = Still /\ UNCHANGED status
  BY <1>1 DEF Calm, Still, Opened, plan
<1>4. CASE jobs' = <<Job("publish", {})>>
  <2>1. jobs' \in Seq(Calm') /\ jobs' \in Seq(Still')
    BY <1>4, CalmOne DEF Ops
  <2>2. QED
    BY <1>2, <2>1 DEF Ordered, Orderings, Syncing
<1>5. CASE Then(<<>>)
  <2>1. jobs' \in Seq(Calm')
    <3>1. jobs \in Seq(Calm)
      BY <1>1, SyncAt
    <3>2. QED
      BY <1>1, <1>3, <1>5, <3>1, SeqMovesOn DEF Then
  <2>2. CASE Open(status) = {}
    BY <1>2, <1>3, <2>1, <2>2 DEF Ordered, Orderings, Open
  <2>3. CASE Open(status) # {}
    <3>1. jobs = <<wip, derive>> /\ Synced
      BY <1>1, <2>3, SyncAt
    <3>2. jobs' = <<derive>>
      <4> HIDE DEF wip, derive
      <4>1. Tail(jobs) = <<derive>> /\ <<>> \o <<derive>> = <<derive>>
        BY <3>1
      <4>2. QED
        BY <1>5, <4>1 DEF Then
    <3>3. Synced'
      BY <1>1, <3>1 DEF Synced, Unmerged, plan, git
    <3>4. Syncing'
      BY <3>2, <3>3 DEF Syncing
    <3>5. QED
      BY <1>2, <2>1, <3>4 DEF Ordered, Orderings
  <2>4. QED
    BY <2>2, <2>3
<1>6. QED
  BY <1>1, <1>4, <1>5

\* The jobs of a tick, and of the landing of a station.
LEMMA TickShape ==
  ASSUME NEW st
  PROVE  LET pull == Job("pull", {Frontier(st)})
             wip == Job("wip", {})
             derive == Job("derive", {})
         IN  /\ TickJobs(st) \in Seq(Calm')
             /\ Open(st) # {} => /\ TickJobs(st) = <<pull, wip, derive>>
                                 /\ <<>> \o TickJobs(st) = <<pull, wip, derive>>
                                 /\ \A x : <<x>> \o TickJobs(st) = <<x, pull, wip, derive>>
<1> DEFINE wip == Job("wip", {})
           derive == Job("derive", {})
<1>1. wip \in Calm' /\ derive \in Calm'
  BY CalmOne DEF Ops
<1>2. CASE Open(st) = {}
  <2> HIDE DEF wip, derive
  <2>1. <<wip>> \in Seq(Calm') /\ <<>> \o <<wip, derive>> = <<wip, derive>> /\ <<wip, derive>> \in Seq(Calm')
    BY <1>1
  <2>2. QED
    BY <1>2, <2>1 DEF TickJobs, wip, derive
<1>3. CASE Open(st) # {}
  <2> DEFINE pull == Job("pull", {Frontier(st)})
  <2>1. pull \in Calm'
    BY <1>3, FrontierOpen, CalmOne DEF Open, Ops
  <2>2. TickJobs(st) = <<pull>> \o <<wip, derive>>
    BY <1>3 DEF TickJobs
  <2> HIDE DEF wip, derive, pull
  <2>3. TickJobs(st) = <<pull, wip, derive>>
    BY <2>2, PrependedToTwo
  <2>4. <<pull>> \in Seq(Calm') /\ <<wip, derive>> \in Seq(Calm')
    BY <1>1, <2>1
  <2>5. TickJobs(st) \in Seq(Calm')
    BY <2>2, <2>4, SeqJoins
  <2>6. <<>> \o TickJobs(st) = <<pull, wip, derive>>
    BY <2>3, <2>5
  <2>7. \A x : <<x>> \o TickJobs(st) = <<x, pull, wip, derive>>
    BY <2>3, Prepended
  <2>8. QED
    BY <2>3, <2>5, <2>6, <2>7 DEF wip, derive, pull
<1>4. QED
  BY <1>2, <1>3

LEMMA OrderedTick ==
  ASSUME TypeOK, Rooted, Tidy, Entered, Made, Ordered, Tick
  PROVE  Orderings
<1>1. /\ ~At("enter") /\ ~At("fork")
      /\ UNCHANGED <<plan, git, tree, told>> /\ reply' = {}
      /\ jobs' = TickJobs(status)
  BY DEF Tick, At
<1>2. Tidy' /\ Entered' /\ Made'
  BY <1>1, EnteredStays, MadeStays DEF Tidy, plan, git, tree
<1>3. UNCHANGED status
  BY <1>1 DEF plan
<1>4. Ordered'
  BY <1>1, <1>3, TickShape DEF Ordered, Syncing
<1>5. QED
  BY <1>2, <1>4 DEF Orderings

\* The jobs of an approve.
LEMMA OrderedApprove ==
  ASSUME TypeOK, Rooted, Tidy, Entered, Made, Ordered, Approve
  PROVE  Orderings
<1> DEFINE s == Frontier(status)
           done == [status EXCEPT ![s] = "completed"]
           land == Job("land", {s})
           deliver == Job("deliver", {})
           pull == Job("pull", {Frontier(done)})
           wip == Job("wip", {})
           derive == Job("derive", {})
<1>1. /\ ~At("enter") /\ ~At("fork")
      /\ UNCHANGED <<git, tree, told, locked>> /\ reply' = {}
      /\ status' = done /\ status[s] = "gate" /\ Open(status) # {}
      /\ jobs' = Landing(s, done) \o TickJobs(done)
  BY DEF Approve, At
<1>2. /\ s \in Station /\ s \in Gated /\ s \notin Unit
      /\ status \in [Station -> Statuses]
  BY <1>1, FrontierOpen, BranchAssumption DEF Open, TypeOK, PlanOK, Rooted
<1> HIDE DEF s
<1>3. done[s] = "completed" /\ \A t \in Station \ {s} : done[t] = status[t]
  BY <1>2
<1>4. Tidy' /\ Made'
  BY <1>1, MadeStays DEF Tidy, git, tree
<1>5. Entered'
  BY <1>1, <1>2, <1>3 DEF Entered, Opened, git
<1>6. land \in Calm' /\ deliver \in Calm'
  <2>1. deliver \in Calm'
    BY CalmOne DEF Ops
  <2>2. land \in Jobs /\ land.op = "land" /\ land.who = {s}
    BY <1>2, JobIsJob DEF Job, Ops
  <2>3. QED
    BY <1>1, <1>2, <1>3, <2>1, <2>2 DEF Calm
<1>7. jobs' \in Seq(Calm')
  <2>1. Landing(s, done) \in Seq(Calm')
    <3> HIDE DEF land, deliver
    <3>1. <<>> \in Seq(Calm') /\ <<land>> \in Seq(Calm') /\ <<deliver>> \in Seq(Calm')
      BY <1>6
    <3>2. QED
      BY <3>1, SeqJoins DEF Landing, land, deliver
  <2>2. QED
    BY <1>1, <2>1, TickShape, SeqJoins
<1>8. Open(done) # {} => Syncing'
  <2> SUFFICES ASSUME Open(done) # {} PROVE Syncing'
    OBVIOUS
  <2>1. /\ <<>> \o TickJobs(done) = <<pull, wip, derive>>
        /\ \A x : <<x>> \o TickJobs(done) = <<x, pull, wip, derive>>
    BY TickShape
  <2>2. Landing(s, done) = <<>> \/ Landing(s, done) = <<land>>
    <3> HIDE DEF land, done
    <3>1. <<>> \o <<>> = <<>> /\ <<land>> \o <<>> = <<land>>
      OBVIOUS
    <3>2. QED
      BY <3>1 DEF Landing, land
  <2>3. jobs' = <<pull, wip, derive>> \/ jobs' = <<land, pull, wip, derive>>
    <3> HIDE DEF land, pull, wip, derive, done
    <3>1. QED
      BY <1>1, <2>1, <2>2
  <2>4. QED
    BY <1>1, <1>2, <2>3 DEF Syncing
<1>9. QED
  BY <1>1, <1>4, <1>5, <1>7, <1>8 DEF Ordered, Orderings

\* The derivation: a station that closes by itself has just been synced.
LEMMA OrderedDerive ==
  ASSUME TypeOK, Rooted, Tidy, Entered, Made, Ordered, Derive
  PROVE  Orderings
<1> DEFINE s == Frontier(status)
           wave == UnitsAt(s) \ locked
           done == [status EXCEPT ![s] = "completed"]
           publish == Job("publish", {})
           deliver == Job("deliver", {})
<1>1. /\ jobs # <<>> /\ At("derive") /\ ~At("enter") /\ ~At("fork")
      /\ UNCHANGED <<git, tree, told, locked>>
  BY DEF Derive, At, Advance, plan
<1>2. Tidy'
  BY <1>1 DEF Tidy, git, tree
<1>3. /\ publish \in Still' /\ <<publish>> \in Seq(Still') /\ <<>> \in Seq(Still')
      /\ deliver \in Still' /\ <<deliver>> \in Seq(Still')
  BY CalmOne DEF Ops
<1>4. ASSUME NEW eff \in Seq(Still'), jobs' = eff \o <<publish>>
      PROVE  Ordered'
  <2>1. jobs' \in Seq(Still')
    <3> HIDE DEF publish
    <3>1. QED
      BY <1>3, <1>4, SeqJoins
  <2>2. jobs' \in Seq(Calm')
    BY <2>1, StillCalm, SeqWidens DEF Still
  <2>3. QED
    BY <2>1, <2>2 DEF Ordered, Syncing
<1>5. ASSUME UNCHANGED status, jobs' = <<publish>>,
             reply' = reply \/ \E b \in Unmerged : reply' = {<<"resolve", b>>}
      PROVE  Orderings
  <2>1. <<publish>> = <<>> \o <<publish>>
    <3> HIDE DEF publish
    <3>1. QED
      OBVIOUS
  <2>2. Ordered'
    BY <1>3, <1>4, <1>5, <2>1
  <2>3. Entered'
    BY <1>1, <1>5, EnteredStays DEF git
  <2>4. Made'
    BY <1>1, <1>5 DEF Made, git
  <2>5. QED
    BY <1>2, <2>2, <2>3, <2>4 DEF Orderings
<1>6. CASE Open(status) = {} \/ Unmerged # {}
  BY <1>5, <1>6 DEF Derive, plan
<1>7. CASE Open(status) # {} /\ Unmerged = {}
  <2>1. /\ s \in Station /\ s \notin Unit /\ status[s] # "completed" /\ wave \subseteq Unit
        /\ \A u \in wave : StationOf[u] = s
        /\ UnitsAt(s) \cap refs \subseteq Unit
        /\ status \in [Station -> Statuses]
        /\ Unit \cap Station = {} /\ StationOf \in [Unit -> Station]
    BY <1>7, FrontierOpen, BranchAssumption DEF Open, TypeOK, PlanOK, UnitsAt
  <2>2. Synced
    BY <1>1, <1>7, SyncAt
  <2>3. \A t \in Station : Opened(t) => t \in refs \cap linked
    BY <1>1 DEF Entered
  <2>4. \A u \in Unit \ locked : <<"make", u>> \in told => u \in linked
    BY DEF Made
  <2> HIDE DEF s, publish, deliver
  <2>5. CASE Advance(s, "open", <<Job("enter", {s})>>, {})
    <3>1. /\ status' = [status EXCEPT ![s] = "open"] /\ reply' = {}
          /\ jobs' = <<Job("enter", {s})>> \o <<publish>>
      BY <2>5 DEF Advance, publish
    <3>2. Job("enter", {s}) \in Still' /\ <<Job("enter", {s})>> \in Seq(Still')
      BY <2>1, CalmOne DEF Ops
    <3>3. Head(jobs') = Job("enter", {s}) /\ jobs' # <<>>
      <4> DEFINE j == Job("enter", {s})
      <4> HIDE DEF j
      <4>1. Head(<<j>> \o <<publish>>) = j /\ <<j>> \o <<publish>> # <<>>
        OBVIOUS
      <4>2. QED
        BY <3>1, <4>1 DEF j
    <3>4. At("enter")' /\ Head(jobs').who = {s}
      BY <3>3 DEF At, Job
    <3>5. Entered'
      BY <1>1, <2>1, <2>3, <3>1, <3>4 DEF Entered, Opened, git
    <3>6. Made'
      BY <1>1, <2>4, <3>1 DEF Made, git
    <3>7. QED
      BY <1>2, <1>4, <3>1, <3>2, <3>5, <3>6 DEF Orderings
  <2>6. CASE /\ status[s] \in {"open", "making"}
             /\ Advance(s, "making", <<Job("fork", wave)>>, {"make"} \X wave)
    <3>1. /\ status' = [status EXCEPT ![s] = "making"] /\ reply' = {"make"} \X wave
          /\ jobs' = <<Job("fork", wave)>> \o <<publish>>
      BY <2>6 DEF Advance, publish
    <3> HIDE DEF wave
    <3>2. /\ Job("fork", wave).op = "fork" /\ Job("fork", wave).who = wave
          /\ Job("fork", wave) \in Jobs
      BY <2>1, JobIsJob DEF Job, Ops
    <3>3. Job("fork", wave) \in Still'
      BY <2>1, <3>1, <3>2 DEF Still, Calm, Opened
    <3>4. <<Job("fork", wave)>> \in Seq(Still')
      BY <3>3
    <3>5. Head(jobs') = Job("fork", wave) /\ jobs' # <<>>
      <4> DEFINE j == Job("fork", wave)
      <4> HIDE DEF j
      <4>1. Head(<<j>> \o <<publish>>) = j /\ <<j>> \o <<publish>> # <<>>
        OBVIOUS
      <4>2. QED
        BY <3>1, <4>1 DEF j
    <3>6. At("fork")' /\ Head(jobs').who = wave
      BY <3>2, <3>5 DEF At
    <3>7. Entered'
      BY <1>1, <2>1, <2>3, <2>6, <3>1 DEF Entered, Opened, git
    <3>8. Made'
      BY <1>1, <2>1, <2>4, <3>1, <3>6 DEF Made, git
    <3>9. QED
      BY <1>2, <1>4, <3>1, <3>4, <3>7, <3>8 DEF Orderings
  <2>7. CASE /\ status[s] \in {"making", "audit"} /\ wave = {}
             /\ Advance(s, "audit", <<Job("land", UnitsAt(s) \cap refs)>>, {<<"audit", s>>})
    <3> DEFINE us == UnitsAt(s) \cap refs
    <3>1. /\ status' = [status EXCEPT ![s] = "audit"] /\ reply' = {<<"audit", s>>}
          /\ jobs' = <<Job("land", us)>> \o <<publish>>
      BY <2>7 DEF Advance, publish
    <3>2. us \subseteq locked
      BY <2>7
    <3> HIDE DEF us, wave
    <3>3. /\ Job("land", us).op = "land" /\ Job("land", us).who = us
          /\ Job("land", us) \in Jobs
      BY <2>1, JobIsJob DEF Job, Ops, us
    <3>4. Job("land", us) \in Still'
      BY <1>1, <2>1, <3>2, <3>3 DEF Still, Calm, us
    <3>5. <<Job("land", us)>> \in Seq(Still')
      BY <3>4
    <3>6. Entered'
      BY <1>1, <2>1, <2>3, <2>7, <3>1 DEF Entered, Opened, git
    <3>7. Made'
      BY <1>1, <2>4, <3>1 DEF Made, git
    <3>8. QED
      BY <1>2, <1>4, <3>1, <3>5, <3>6, <3>7 DEF Orderings
  <2>8. CASE /\ status[s] = "audit" /\ s \notin Gated
             /\ Advance(s, "completed", Landing(s, done), {})
    <3>1. /\ status' = [status EXCEPT ![s] = "completed"] /\ reply' = {}
          /\ jobs' = Landing(s, done) \o <<publish>>
      BY <2>8 DEF Advance, publish
    <3>2. Entered' /\ Made'
      BY <1>1, <2>1, <2>3, <2>4, <3>1 DEF Entered, Made, Opened, git
    <3>3. PICK rest \in {<<>>, <<deliver>>} :
             Landing(s, done) = (IF s \in refs /\ ~Debt(s, Main) THEN <<>> ELSE <<Job("land", {s})>>) \o rest
      BY DEF Landing, deliver
    <3>4. rest \in Seq(Still')
      BY <1>3 DEF deliver
    <3>5. CASE s \in refs /\ ~Debt(s, Main)
      <4>1. Landing(s, done) \in Seq(Still')
        BY <1>3, <3>3, <3>4, <3>5, SeqJoins
      <4>2. QED
        BY <1>2, <1>4, <3>1, <3>2, <4>1 DEF Orderings
    <3>6. CASE ~(s \in refs /\ ~Debt(s, Main))
      <4> DEFINE j == Job("land", {s})
                 S == Still' \cup {j}
      <4>1. jobs' = (<<j>> \o rest) \o <<publish>>
        BY <3>1, <3>3, <3>6
      <4>2. j \in S /\ Still' \subseteq S
        OBVIOUS
      <4> HIDE DEF j, S
      <4>3. <<j>> \in Seq(S) /\ rest \in Seq(S) /\ <<publish>> \in Seq(S)
        BY <1>3, <3>4, <4>2, SeqWidens DEF publish
      <4>4. jobs' = <<j>> \o (rest \o <<publish>>)
        BY <4>1, <4>3, ConcatAssociative
      <4>5. rest \o <<publish>> \in Seq(Still')
        BY <1>3, <3>4, SeqJoins DEF publish
      <4>6. rest \o <<publish>> \in Seq(S)
        BY <4>2, <4>5, SeqWidens
      <4>7. Head(jobs') = j /\ Tail(jobs') = rest \o <<publish>>
        BY <4>2, <4>4, <4>6, HeadOfFirst
      <4>8. jobs' # <<>>
        BY <4>3, <4>4, <4>6
      <4>9. holds[Main] \subseteq holds[s]
        BY <1>7, <2>2, <2>8 DEF Synced, s
      <4>10. unmerged[Main] = {}
        BY <1>7 DEF Unmerged, Tidy, Branch
      <4>11. Closing'
        BY <1>1, <2>1, <2>8, <3>1, <4>5, <4>7, <4>8, <4>9, <4>10 DEF Closing, git, j
      <4>12. QED
        BY <1>2, <3>2, <4>11 DEF Ordered, Orderings
    <3>7. QED
      BY <3>5, <3>6
  <2>9. CASE status[s] \in {"audit", "gate"} /\ Advance(s, "gate", <<>>, {})
    <3>1. /\ status' = [status EXCEPT ![s] = "gate"] /\ reply' = {}
          /\ jobs' = <<>> \o <<publish>>
      BY <2>9 DEF Advance, publish
    <3>2. Entered'
      BY <1>1, <2>1, <2>3, <2>9, <3>1 DEF Entered, Opened, git
    <3>3. Made'
      BY <1>1, <2>4, <3>1 DEF Made, git
    <3>4. QED
      BY <1>2, <1>3, <1>4, <3>1, <3>2, <3>3 DEF Orderings
  <2>10. QED
    BY <1>7, <2>5, <2>6, <2>7, <2>8, <2>9 DEF Derive, s
<1>8. QED
  BY <1>6, <1>7

LEMMA OrderedEnter ==
  ASSUME TypeOK, Rooted, Tidy, Entered, Made, Ordered, Enter
  PROVE  Orderings
<1>1. /\ jobs # <<>> /\ Head(jobs).op \in {"enter", "fork"}
      /\ UNCHANGED <<plan, tree, reply, told, status, locked, staged>>
  BY DEF Enter, At, Fork, git, plan
<1>2. PICK b \in Head(jobs).who : /\ IF Parent(b) \in refs THEN Fork(b) ELSE UNCHANGED git
                                  /\ Then(Each(b))
  BY DEF Enter
<1>3. /\ refs \subseteq refs' /\ linked \subseteq linked'
      /\ Parent(b) \in refs => b \in refs' /\ b \in linked'
  BY <1>2 DEF Fork, git
<1>4. /\ jobs \in Seq(Calm) /\ Head(jobs) \in Calm
      /\ \A who \in SUBSET Head(jobs).who : Job(Head(jobs).op, who) \in Calm
  BY <1>1, SyncAt, CalmHead DEF At
<1>5. Each(b) \in Seq(Still)
  <2> DEFINE rest == Head(jobs).who \ {b}
             j == Job(Head(jobs).op, rest)
  <2>1. j \in Still
    BY <1>1, <1>4 DEF Still, Job
  <2>2. Each(b) = <<>> \/ Each(b) = <<j>>
    BY DEF Each
  <2> HIDE DEF j
  <2>3. <<j>> \in Seq(Still) /\ <<>> \in Seq(Still)
    BY <2>1
  <2>4. QED
    BY <2>2, <2>3
<1>6. Ordered'
  <2>1. \A s \in Gated, op \in {"land", "retire", "discard"} : Head(jobs) # Job(op, {s})
    BY <1>1 DEF Job
  <2>2. QED
    BY <1>1, <1>2, <1>5, <2>1, OrderedMovesOn
<1>7. Entered'
  <2> SUFFICES ASSUME NEW s \in Station, Opened(s), ~(s \in refs \cap linked)
               PROVE  s \in refs' \cap linked'
    BY <1>1, <1>3 DEF Entered, Opened
  <2>1. Head(jobs).who = {s}
    BY DEF Entered
  <2>2. b = s /\ Parent(b) \in refs
    BY <1>2, <2>1 DEF Parent, Rooted, AtHome
  <2>3. QED
    BY <1>3, <2>2
<1>8. Made'
  <2>1. ASSUME NEW u \in Unit \ locked, <<"make", u>> \in reply, u \notin linked, u # b
        PROVE  At("fork")' /\ u \in Head(jobs').who
    <3> DEFINE rest == Head(jobs).who \ {b}
               j == Job("fork", rest)
    <3>1. Head(jobs).op = "fork" /\ u \in rest
      BY <2>1 DEF Made, At
    <3>2. Each(b) = <<j>>
      BY <3>1 DEF Each
    <3>3. Tail(jobs) \in Seq(Calm)
      BY <1>1, <1>4, SeqMovesOn
    <3>4. j \in Calm /\ j.op = "fork" /\ j.who = rest
      BY <1>4, <3>1 DEF Job
    <3> HIDE DEF j, rest
    <3>5. jobs' = <<j>> \o Tail(jobs)
      BY <1>2, <3>2 DEF Then
    <3>6. Head(jobs') = j /\ jobs' # <<>>
      BY <3>3, <3>4, <3>5
    <3>7. QED
      BY <3>1, <3>4, <3>6 DEF At
  <2>2. ASSUME NEW u \in Unit \ locked, <<"make", u>> \in reply, u \notin linked, u = b
        PROVE  u \in linked'
    <3>1. At("fork")
      BY <2>2 DEF Made
    <3>2. Opened(StationOf[u]) /\ StationOf[u] \in Station
      BY <1>2, <1>4, <2>2, <3>1, BranchAssumption DEF Calm, At
    <3>3. StationOf[u] \in refs
      BY <3>1, <3>2 DEF Entered, At
    <3>4. Parent(b) = StationOf[u]
      BY <2>2, BranchAssumption DEF Parent
    <3>5. QED
      BY <1>3, <2>2, <3>3, <3>4
  <2>3. QED
    BY <1>1, <1>3, <2>1, <2>2 DEF Made
<1>9. QED
  BY <1>1, <1>6, <1>7, <1>8 DEF Tidy, Orderings, tree

\* What a landing leaves to do is nothing a worker still needs.
LEMMA LandingRest ==
  ASSUME TypeOK, Ordered, At("land"), NEW b \in Head(jobs).who, NEW op \in {"retire", "discard"}
  PROVE  <<Job(op, {b})>> \in Seq(Still) /\ Each(b) \in Seq(Still)
<1>1. jobs # <<>> /\ Head(jobs).op = "land" /\ Head(jobs).who \subseteq Station \cup Unit
      /\ Station \cap Unit = {}
  BY JobsMoveOn, BranchAssumption DEF At, TypeOK, CallsOK, Jobs
<1>2. b \in Unit => b \in locked
  <2>1. CASE Closing
    BY <1>1, <2>1 DEF Closing, Job
  <2>2. CASE jobs \in Seq(Calm)
    BY <1>1, <2>2, CalmHead DEF Calm
  <2>3. QED
    BY <2>1, <2>2 DEF Ordered
<1>3. b \in Station => status[b] = "completed"
  <2>1. CASE Closing
    BY <1>1, <2>1 DEF Closing, Job
  <2>2. CASE jobs \in Seq(Calm)
    BY <1>1, <2>2, CalmHead DEF Calm
  <2>3. QED
    BY <2>1, <2>2 DEF Ordered
<1>4. <<Job(op, {b})>> \in Seq(Still)
  <2>1. Job(op, {b}) \in Jobs /\ Job(op, {b}).op = op /\ Job(op, {b}).who = {b}
    BY <1>1, JobIsJob DEF Job, Ops
  <2>2. Job(op, {b}) \in Still
    BY <1>2, <1>3, <2>1 DEF Still, Calm
  <2>3. QED
    BY <2>2
<1>5. Each(b) \in Seq(Still)
  <2>1. CASE Closing
    <3>1. Head(jobs).who = {b}
      BY <2>1 DEF Closing, Job
    <3>2. Each(b) = <<>>
      BY <3>1 DEF Each
    <3>3. QED
      BY <3>2
  <2>2. CASE jobs \in Seq(Calm)
    <3> DEFINE j == Job("land", Head(jobs).who \ {b})
    <3>1. j \in Calm /\ j.op = "land"
      BY <1>1, <2>2, CalmHead DEF Job
    <3>2. Each(b) = <<>> \/ Each(b) = <<j>>
      BY <1>1 DEF Each
    <3> HIDE DEF j
    <3>3. <<j>> \in Seq(Still) /\ <<>> \in Seq(Still)
      BY <3>1 DEF Still
    <3>4. QED
      BY <3>2, <3>3
  <2>3. QED
    BY <2>1, <2>2 DEF Ordered
<1>6. QED
  BY <1>4, <1>5

LEMMA OrderedLand ==
  ASSUME TypeOK, Rooted, Tidy, Entered, Made, Ordered, Land
  PROVE  Orderings
<1>1. /\ jobs # <<>> /\ At("land") /\ ~At("enter") /\ ~At("fork")
      /\ Head(jobs).op \notin {"pull", "down", "wip", "derive"}
      /\ UNCHANGED <<status, locked, draft, told, reply, refs, linked, staged>>
  <2>1. jobs # <<>> /\ At("land") /\ UNCHANGED <<plan, tree, reply, told>>
    BY DEF Land, At
  <2>2. UNCHANGED git \/ \E b : Merge(b, Parent(b))
    BY Zenon DEF Land
  <2>3. QED
    BY <2>1, <2>2 DEF At, Merge, git, plan, tree
<1>2. Tidy' /\ Entered' /\ Made'
  BY <1>1, EnteredStays, MadeStays DEF Tidy
<1>3. \/ Head(jobs).who = {} /\ Then(<<>>)
      \/ \E b \in Head(jobs).who : \/ Then(<<>> \o Each(b))
                                   \/ Then(<<Job("discard", {b})>> \o Each(b))
                                   \/ Then(<<Job("retire", {b})>> \o Each(b))
  BY Zenon DEF Land
<1>4. <<>> \in Seq(Still)
  OBVIOUS
<1>5. CASE Head(jobs).who = {} /\ Then(<<>>)
  <2>1. \A s \in Gated, op \in {"land", "retire", "discard"} : Head(jobs) # Job(op, {s})
    <3>1. \A s, op : Job(op, {s}).who # {}
      BY DEF Job
    <3>2. QED
      BY <1>5, <3>1
  <2>2. Ordered'
    BY <1>1, <1>4, <1>5, <2>1, OrderedMovesOn
  <2>3. QED
    BY <1>2, <2>2 DEF Orderings
<1>6. ASSUME NEW b \in Head(jobs).who, NEW tail, Then(tail \o Each(b)),
             tail \in {<<>>, <<Job("discard", {b})>>, <<Job("retire", {b})>>}
      PROVE  Orderings
  <2>1. tail \in Seq(Still) /\ Each(b) \in Seq(Still)
    BY <1>1, <1>4, <1>6, LandingRest
  <2>2. tail \o Each(b) \in Seq(Still)
    BY <2>1, SeqJoins
  <2>3. ASSUME NEW s \in Gated, NEW op \in {"land", "retire", "discard"}, Head(jobs) = Job(op, {s})
        PROVE  \/ tail \o Each(b) = <<>>
               \/ tail \o Each(b) = <<Job("retire", {s})>>
               \/ tail \o Each(b) = <<Job("discard", {s})>>
    <3>1. Head(jobs).who = {s} /\ b = s
      BY <1>6, <2>3 DEF Job
    <3>2. Each(b) = <<>>
      BY <3>1 DEF Each
    <3>3. tail \o Each(b) = tail
      BY <2>1, <3>2
    <3>4. QED
      BY <1>6, <3>1, <3>3
  <2>4. Ordered'
    BY <1>1, <1>6, <2>2, <2>3, OrderedMovesOn
  <2>5. QED
    BY <1>2, <2>4 DEF Orderings
<1>7. QED
  BY <1>3, <1>5, <1>6

LEMMA OrderedFinish ==
  ASSUME TypeOK, Rooted, Tidy, Entered, Made, Ordered, Finish
  PROVE  Orderings
<1>1. /\ jobs # <<>> /\ Head(jobs).op \in {"retire", "discard"} /\ ~At("enter") /\ ~At("fork")
      /\ UNCHANGED <<plan, reply, told>> /\ Then(<<>>)
  BY DEF Finish, At
<1>2. PICK b \in Head(jobs).who : Retire(b, At("discard"))
  BY DEF Finish
<1>3. /\ jobs \in Seq(Calm) /\ Head(jobs) \in Calm /\ b \in Station \cup Unit
      /\ Unit \cap Station = {}
  BY <1>1, <1>2, SyncAt, CalmHead, BranchAssumption DEF At
<1>4. (b \in Unit => b \in locked) /\ (b \in Station => status[b] = "completed")
  BY <1>1, <1>2, <1>3 DEF Calm
<1>5. /\ refs \ {b} \subseteq refs' /\ linked' = linked \ {b} /\ staged' = staged \ {b}
      /\ \A u \in Unit : draft'[u] = draft[u] \/ draft'[u] = "lost"
  BY <1>2 DEF Retire
<1>6. Tidy'
  BY <1>5 DEF Tidy
<1>7. Entered'
  BY <1>1, <1>4, <1>5 DEF Entered, Opened, At, plan
<1>8. Made'
  BY <1>1, <1>4, <1>5 DEF Made, plan
<1>9. Ordered'
  <2>1. <<>> \in Seq(Still)
    OBVIOUS
  <2>2. QED
    BY <1>1, <2>1, OrderedMovesOn DEF plan
<1>10. QED
  BY <1>6, <1>7, <1>8, <1>9 DEF Orderings

LEMMA OrderedDeliver ==
  ASSUME TypeOK, Rooted, Tidy, Entered, Made, Ordered, Deliver \/ Answer
  PROVE  Orderings
<1>1. /\ jobs # <<>> /\ Head(jobs).op \in {"deliver", "publish"} /\ ~At("enter") /\ ~At("fork")
      /\ UNCHANGED <<plan, tree>> /\ Then(<<>>)
  BY DEF Deliver, Answer, At
<1>2. /\ refs' = refs /\ linked' = linked /\ staged' \subseteq staged
  BY DEF Deliver, Answer, Merge, Publish, Rooted, AtHome
<1>3. told' \subseteq told \cup reply /\ reply' \subseteq reply
  BY DEF Deliver, Answer
<1>4. Made'
  BY <1>1, <1>2, <1>3 DEF Made, plan
<1>5. Tidy' /\ Entered'
  BY <1>1, <1>2, EnteredStays DEF Tidy, plan, tree
<1>6. Ordered'
  <2>1. <<>> \in Seq(Still)
    OBVIOUS
  <2>2. \A s \in Gated, op \in {"land", "retire", "discard"} : Head(jobs) # Job(op, {s})
    BY <1>1 DEF Job
  <2>3. QED
    BY <1>1, <2>1, <2>2, OrderedMovesOn DEF plan
<1>7. QED
  BY <1>4, <1>5, <1>6 DEF Orderings

-----------------------------------------------------------------------------
(* The agent and the others *)

LEMMA OrderedRest ==
  ASSUME TypeOK, Rooted, Tidy, Entered, Made, Ordered,
         Agent \/ Soil \/ (\E x \in Upstream : PushBase(x)) \/ UNCHANGED vars
  PROVE  Orderings
<1>0. /\ holds \in [Branch \cup {State} -> SUBSET Item] /\ head = Main /\ Main \in Branch /\ Base \in Branch
      /\ Base # Main /\ Main \notin Station \cup Unit /\ Base \notin Station \cup Unit
      /\ Station \subseteq Branch /\ Unit \subseteq Branch
      /\ draft \in [Unit -> {"none", "own", "root", "kept", "lost"}]
  BY BranchAssumption DEF TypeOK, GitOK, TreeOK, Rooted, AtHome, Branch
<1>1. ASSUME UNCHANGED <<jobs, status, unmerged, temp, staged, refs, linked, told, reply>>,
             locked \subseteq locked', \A u \in Unit : draft'[u] # "root",
             holds'[Main] = holds[Main], \A s \in Station : holds[s] \subseteq holds'[s]
      PROVE  Orderings
  <2>1. Tidy' /\ Entered' /\ Made'
    BY <1>1, EnteredStays, MadeStays DEF Tidy
  <2>2. Ordered'
    BY <1>1, OrderedStays
  <2>3. QED
    BY <2>1, <2>2 DEF Orderings
<1>2. ASSUME NEW u \in Unit, Write(u) PROVE Orderings
  <2>1. u \in linked
    BY <1>2 DEF Write, Made
  <2>2. draft' = [draft EXCEPT ![u] = "own"]
    BY <1>2, <2>1 DEF Write
  <2>3. \A v \in Unit : draft'[v] # "root"
    BY <1>0, <2>2 DEF Tidy
  <2>4. QED
    BY <1>1, <1>2, <2>3 DEF Write, plan, git, calls
<1>3. ASSUME NEW u \in Unit, Lock(u) PROVE Orderings
  BY <1>1, <1>3 DEF Lock, git, tree, Tidy
<1>4. ASSUME NEW u \in Unit, Save(u) PROVE Orderings
  <2>1. /\ \E work \in {holds, [holds EXCEPT ![u] = @ \cup {u}]} :
              holds' = [work EXCEPT ![Main] = @ \cup Concluded]
        /\ staged' = staged /\ unmerged' = unmerged /\ refs' = refs /\ Concluded = {}
    BY <1>0, <1>4 DEF Save, Publish, Tidy, Concluded
  <2>2. holds'[Main] = holds[Main] /\ \A s \in Station : holds[s] \subseteq holds'[s]
    BY <1>0, <2>1
  <2>3. \A v \in Unit : draft'[v] # "root"
    BY <1>0, <1>4 DEF Save, Tidy
  <2>4. QED
    BY <1>1, <1>4, <2>1, <2>2, <2>3 DEF Save, plan
<1>5. ASSUME NEW s \in Station, Sign(s) PROVE Orderings
  BY <1>1, <1>5 DEF Sign, git, tree, calls, Tidy
<1>6. ASSUME NEW b \in Branch, Resolve(b) PROVE Orderings
  <2>1. /\ jobs = <<>> /\ UNCHANGED <<plan, refs, linked, staged, tree, jobs, reply>>
        /\ told' \subseteq told
    BY <1>6 DEF Resolve
  <2>2. Tidy' /\ Entered' /\ Made'
    BY <2>1, EnteredStays, MadeStays DEF Tidy, plan, tree
  <2>3. Ordered'
    BY <2>1 DEF Ordered, Syncing
  <2>4. QED
    BY <2>2, <2>3 DEF Orderings
<1>7. CASE Commit
  <2>1. /\ holds' = [holds EXCEPT ![Main] = @ \cup {u \in Unit : draft[u] = "root"}]
        /\ {u \in Unit : draft[u] = "root"} = {}
        /\ draft' = [u \in Unit |-> draft[u]]
    BY <1>0, <1>7 DEF Commit, Tidy
  <2>2. holds'[Main] = holds[Main] /\ \A s \in Station : holds[s] \subseteq holds'[s]
    BY <1>0, <2>1
  <2>3. \A u \in Unit : draft'[u] # "root"
    BY <2>1 DEF Tidy
  <2>4. QED
    BY <1>1, <1>7, <2>2, <2>3 DEF Commit, plan, calls
<1>8. CASE Soil
  BY <1>1, <1>8 DEF Soil, plan, git, calls, Tidy
<1>9. ASSUME NEW x \in Upstream, PushBase(x) PROVE Orderings
  <2>1. holds'[Main] = holds[Main] /\ \A s \in Station : holds[s] \subseteq holds'[s]
    BY <1>0, <1>9 DEF PushBase
  <2>2. QED
    BY <1>1, <1>9, <2>1 DEF PushBase, plan, tree, calls, Tidy
<1>10. CASE UNCHANGED vars
  BY <1>1, <1>10 DEF vars, plan, git, tree, calls, Tidy
<1>11. QED
  BY <1>2, <1>3, <1>4, <1>5, <1>6, <1>7, <1>8, <1>9, <1>10 DEF Agent

\* run-main is checked out, and a merge into it is never made elsewhere.
LEMMA RootedStep ==
  ASSUME TypeOK, Rooted, [Next]_vars
  PROVE  Rooted'
<1>0. /\ jobs \in Seq(Jobs) /\ temp \in [Branch -> {"none", "conflict", "left"}]
      /\ status \in [Station -> Statuses] /\ Main \in Branch
      /\ head = Main /\ {Base, Main} \subseteq refs /\ {Base, Main} \cap (Station \cup Unit) = {}
  BY BranchAssumption DEF TypeOK, PlanOK, GitOK, CallsOK, Branch, Rooted, AtHome
<1>1. head' = Main
  BY <1>0 DEF Next, Step, Agent, Others, Tick, Pull, Down, Wip, Derive, Enter, Land, Finish,
         Retire, Deliver, Answer, Write, Lock, Save, Sign, Resolve, Commit, Approve, Soil,
         PushBase, Crash, vars, tree
<1>2. ASSUME NEW from, NEW to, Merge(from, to) PROVE refs' = refs /\ temp'[Main] = "none"
  <2>1. temp' = temp \/ (to # Main /\ temp' = [temp EXCEPT ![to] = "conflict"])
    BY <1>0, <1>2 DEF Merge, CheckedOut
  <2>2. QED
    BY <1>0, <1>2, <2>1 DEF Merge, Rooted
<1>3. ASSUME NEW from, NEW to, Halfway(from, to) PROVE temp'[Main] = "none"
  <2>1. temp' = temp \/ (to # Main /\ temp' = [temp EXCEPT ![to] = "left"])
    BY <1>0, <1>3 DEF Halfway, CheckedOut
  <2>2. QED
    BY <1>0, <2>1 DEF Rooted
<1>4. {Base, Main} \subseteq refs' /\ temp'[Main] = "none"
  <2>1. CASE Pull \/ Down \/ Deliver
    BY <1>0, <1>2, <2>1 DEF Pull, Down, Deliver
  <2>2. CASE Land
    <3>1. UNCHANGED git \/ \E b : Merge(b, Parent(b))
      BY <2>2, Zenon DEF Land
    <3>2. QED
      BY <1>0, <1>2, <3>1 DEF git, Rooted
  <2>3. CASE Enter
    BY <1>0, <2>3 DEF Enter, Fork, git, Rooted
  <2>4. CASE Finish
    <3>1. PICK b \in Head(jobs).who : Retire(b, At("discard"))
      BY <2>4 DEF Finish
    <3>2. b \in Station \cup Unit
      BY <1>0, <2>4, <3>1, JobsMoveOn DEF Finish, At, Jobs
    <3>3. refs' \in {refs, refs \ {b}} /\ UNCHANGED temp
      BY <3>1 DEF Retire
    <3>4. QED
      BY <1>0, <3>2, <3>3 DEF Rooted
  <2>5. CASE Answer \/ \E u \in Unit : Save(u)
    BY <1>0, <2>5 DEF Answer, Save, Publish, Rooted
  <2>6. CASE \E b \in Branch : Resolve(b)
    BY <1>0, <2>6 DEF Resolve, Rooted
  <2>7. CASE Crash
    <3>1. UNCHANGED refs
      BY <2>7 DEF Crash
    <3>2. UNCHANGED temp \/ \E from, to : Halfway(from, to)
      BY <2>7 DEF Crash
    <3>3. QED
      BY <1>0, <1>3, <3>1, <3>2 DEF Rooted
  <2>8. CASE UNCHANGED <<refs, temp>>
    BY <1>0, <2>8 DEF Rooted
  <2>9. QED
    BY <2>1, <2>2, <2>3, <2>4, <2>5, <2>6, <2>7, <2>8
       DEF Next, Step, Agent, Others, Tick, Wip, Derive, Write, Lock, Sign, Commit, Approve, Soil,
           PushBase, vars, git
<1>5. \A s \in Station : status'[s] = "gate" => s \in Gated
  <2>1. ASSUME Open(status) # {}, NEW to, status' = [status EXCEPT ![Frontier(status)] = to],
               to = "gate" => Frontier(status) \in Gated
        PROVE  \A s \in Station : status'[s] = "gate" => s \in Gated
    BY <1>0, <2>1 DEF Rooted
  <2>2. CASE Derive
    BY <2>1, <2>2 DEF Derive, Advance, plan, Rooted
  <2>3. CASE Approve
    BY <2>1, <2>3 DEF Approve
  <2>4. CASE UNCHANGED status
    BY <2>4 DEF Rooted
  <2>5. QED
    BY <2>2, <2>3, <2>4 DEF Next, Step, Agent, Others, Tick, Pull, Down, Wip, Enter, Land, Finish,
       Deliver, Answer, Write, Lock, Save, Sign, Resolve, Commit, Soil, Crash, PushBase, vars, plan
<1>6. QED
  BY <1>1, <1>4, <1>5 DEF Rooted, AtHome

LEMMA CInvStep ==
  ASSUME CInv, [Next]_vars
  PROVE  CInv'
<1>1. TypeOK' /\ Rooted'
  BY StepType, AgentType, OthersType, StutterType, RootedStep DEF Next, CInv
<1>2. ASSUME crashes' = 0 PROVE crashes = 0 /\ ~Crash
  <2>1. crashes \in Nat
    BY BranchAssumption DEF CInv, TypeOK, FaultsOK
  <2>2. UNCHANGED crashes \/ crashes' = crashes + 1
    BY DEF Next, Step, Agent, Others, Tick, Pull, Down, Wip, Derive, Enter, Land, Finish,
       Deliver, Answer, Write, Lock, Save, Sign, Resolve, Commit, Approve, Soil, PushBase, Crash,
       vars, faults
  <2>3. Crash => crashes' = crashes + 1
    BY DEF Crash
  <2>4. QED
    BY <1>2, <2>1, <2>2, <2>3
<1>3. crashes' = 0 => Orderings
  <2> SUFFICES ASSUME crashes' = 0 PROVE Orderings
    OBVIOUS
  <2>1. TypeOK /\ Rooted /\ Tidy /\ Entered /\ Made /\ Ordered /\ ~Crash
    BY <1>2 DEF CInv
  <2>2. Step => Orderings
    BY <2>1, OrderedPull, OrderedDown, OrderedWip, OrderedDerive, OrderedEnter, OrderedLand,
       OrderedFinish, OrderedDeliver DEF Step
  <2>3. QED
    BY <2>1, <2>2, OrderedTick, OrderedApprove, OrderedRest DEF Next, Others
<1>4. QED
  BY <1>1, <1>3 DEF CInv, Orderings

\* In a state that is about to land a station that closes by itself.
LEMMA CleanStep ==
  ASSUME CInv, [Next]_vars, Rooted', crashes = 0, At("land"),
         Head(jobs).who \cap (Station \ Gated) # {}
  PROVE  Main \notin Unmerged'
<1>1. Closing
  <2>1. jobs \notin Seq(Calm)
    BY CalmHead DEF At, Calm
  <2>2. QED
    BY <2>1 DEF CInv, Ordered
<1>2. PICK s \in Station : /\ Head(jobs) = Job("land", {s})
                           /\ holds[Main] \subseteq holds[s] /\ unmerged[Main] = {}
  BY <1>1 DEF Closing
<1>3. jobs # <<>> /\ staged = {} /\ head = Main /\ Main \in Branch
      /\ unmerged \in [Branch -> SUBSET Item]
  BY DEF At, CInv, Tidy, Rooted, AtHome, TypeOK, GitOK, Branch
<1>4. unmerged'[Main] = {} \/ Main \in staged'
  <2>1. CASE Land
    <3>1. Head(jobs).who = {s}
      BY <1>2 DEF Job
    <3>2. UNCHANGED git \/ Merge(s, Parent(s))
      <4>1. UNCHANGED git \/ \E b \in Head(jobs).who : Merge(b, Parent(b))
        BY <2>1, Zenon DEF Land
      <4>2. QED
        BY <3>1, <4>1
    <3>3. Parent(s) = Main
      BY DEF Parent
    <3>4. ~Conflicts(s, Main)
      BY <1>2 DEF Conflicts
    <3>5. UNCHANGED unmerged
      BY <3>2, <3>3, <3>4 DEF Merge, git
    <3>6. QED
      BY <1>2, <3>5
  <2>2. CASE Crash
    <3>1. UNCHANGED unmerged \/ \E b \in Head(jobs).who : Halfway(b, Parent(b))
      BY <2>2 DEF Crash, At
    <3>2. ASSUME NEW b, Halfway(b, Parent(b)) PROVE unmerged'[Main] = {} \/ Main \in staged'
      BY <1>2, <1>3, <3>2 DEF Halfway
    <3>3. QED
      BY <1>2, <3>1, <3>2
  <2>3. CASE ~Land /\ ~Crash
    <3>1. UNCHANGED unmerged
      BY <1>3, <2>3 DEF Next, Step, Agent, Others, Tick, Pull, Down, Wip, Derive, Enter, Finish,
         Deliver, Answer, Write, Lock, Save, Sign, Resolve, Commit, Approve, Soil, PushBase,
         Publish, At, vars, git
    <3>2. QED
      BY <1>2, <3>1
  <2>4. QED
    BY <2>1, <2>2, <2>3
<1>5. temp'[Main] = "none"
  BY DEF Rooted
<1>6. QED
  BY <1>4, <1>5 DEF Unmerged

\* A station that closes by itself was synced with run-main by the tick that
\* closes it, and nothing comes between: its land never conflicts, whatever
\* clashes, comes from the base, is left dirty or is closed by an operator.
THEOREM StationsLandClean == Spec => LandsAreClean
<1>1. Init => CInv
  <2> SUFFICES ASSUME Init PROVE CInv
    OBVIOUS
  <2>1. jobs \in Seq(Calm) /\ jobs \in Seq(Still)
    BY DEF Init
  <2>2. Ordered
    BY <2>1 DEF Ordered, Syncing
  <2>3. Entered /\ Made /\ Tidy
    BY DEF Init, Entered, Made, Tidy, Opened
  <2>4. Rooted
    BY DEF Init, Rooted, AtHome, Branch
  <2>5. QED
    BY <2>2, <2>3, <2>4, InitType DEF CInv
<1>2. CInv /\ [Next]_vars => CInv'
  BY CInvStep
<1>3. CInv /\ CInv' /\ [Next]_vars =>
        [crashes = 0 /\ At("land") /\ Head(jobs).who \cap (Station \ Gated) # {}
           => Main \notin Unmerged']_vars
  BY CleanStep DEF CInv
<1>4. QED
  BY <1>1, <1>2, <1>3, PTL DEF Spec, LandsAreClean
=============================================================================
