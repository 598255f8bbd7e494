--------------------------- MODULE ManagerProofs ---------------------------
(***************************************************************************)
(* What every behaviour of the manager keeps, for every plan, every set of *)
(* units, workers and reviewers, every mode and every budget.              *)
(***************************************************************************)
EXTENDS Manager, FiniteSetTheorems, WellFoundedInduction, TLAPS

-----------------------------------------------------------------------------
(* The stages of a tick *)

\* A tick, in terms of what it leaves behind.
LEMMA TickShape ==
  ASSUME NEW st, NEW f, NEW n, NEW rel, NEW m,
         TickFrom(st, f, n, rel, m)
  PROVE  /\ unit' = [u \in Unit |-> IF u \in m.flagged
                                    THEN [Cleared(u) EXCEPT !.output = unit[u].output]
                                    ELSE unit[u]]
         /\ fb' = MoreFindings(f, m.drifted)
         /\ act' = IF m.withheld THEN [tag |-> "Hold", at |-> 0] ELSE Decide(st, unit', fb')
         /\ stn' = Advance(st, act')
         /\ released' = {s \in rel : stn'[s].phase # "UserGate"}
         /\ n + Cardinality(m.drifted) <= MaxFilings
         /\ filed' = n + Cardinality(m.drifted)
         /\ UNCHANGED runReviews
  BY DEF TickFrom

\* The station the cursor is on is a station, and not a locked one.
LEMMA FrontierUnlocked ==
  ASSUME NEW st, Unlocked(st) # {}
  PROVE  Frontier(st) \in Unlocked(st)
<1>1. Unlocked(st) \in SUBSET Nat
  BY PlanAssumption DEF Unlocked, Station
<1> DEFINE Less == OpToRel(<, Nat)
<1>2. \E s \in Unlocked(st) : \A t \in Unlocked(st) : <<t, s>> \notin Less
  <2>1. IsWellFoundedOn(Less, Nat)
    BY NatLessThanWellFounded
  <2> HIDE DEF Less
  <2>2. QED
    BY <1>1, <2>1, WFMin
<1>3. \A t, s \in Nat : <<t, s>> \notin Less => s <= t
  BY DEF OpToRel
<1>4. \E s \in Unlocked(st) : \A t \in Unlocked(st) : s <= t
  <2> HIDE DEF Less
  <2>1. QED
    BY <1>1, <1>2, <1>3
<1>5. QED
  BY <1>4 DEF Frontier

Stations == [Station -> StationStates]

\* Completed: the station a checkpoint locks, and the one it may start over.
LEMMA CompleteType ==
  ASSUME NEW st \in Stations, NEW s \in Station
  PROVE  Complete(st, s) \in Stations
<1> DEFINE locked == [st EXCEPT ![s].status = "Completed", ![s].outcome = "Advanced"]
<1>1. locked \in Stations
  BY DEF Stations, StationStates
<1>2. CASE s = N \/ st[s + 1].status \in {"Completed", "InProgress"}
  BY <1>1, <1>2 DEF Complete
<1>3. CASE ~(s = N \/ st[s + 1].status \in {"Completed", "InProgress"})
  <2>1. s + 1 \in Station
    BY <1>3, PlanAssumption DEF Station
  <2>2. [locked EXCEPT ![s + 1].status = "Pending", ![s + 1].phase = "Spec"] \in Stations
    <3> HIDE DEF locked
    <3>1. locked[s + 1] \in StationStates
      BY <1>1, <2>1 DEF Stations
    <3>2. [locked[s + 1] EXCEPT !.status = "Pending", !.phase = "Spec"] \in StationStates
      BY <3>1 DEF StationStates, Phases
    <3>3. QED
      BY <1>1, <2>1, <3>2 DEF Stations
  <2>3. QED
    BY <1>3, <2>2 DEF Complete
<1>4. QED
  BY <1>2, <1>3

\* A derived action names a station only where there is one, and then one that
\* is not locked.
LEMMA DecideType ==
  ASSUME NEW st \in Stations, NEW un, NEW f
  PROVE  /\ Decide(st, un, f) \in Actions
         /\ Unlocked(st) = {} => Decide(st, un, f).tag \in {"RunReview", "Sealed"}
         /\ Unlocked(st) # {} => /\ Decide(st, un, f).at = Frontier(st)
                                 /\ Frontier(st) \in Station
                                 /\ st[Frontier(st)].status # "Completed"
<1>1. CASE Unlocked(st) = {}
  BY <1>1, PlanAssumption DEF Decide, Actions, Tags
<1>2. CASE Unlocked(st) # {}
  <2> DEFINE s == Frontier(st)
  <2>1. s \in Station /\ st[s].status # "Completed"
    BY <1>2, FrontierUnlocked DEF Unlocked
  <2>2. s \in 0..N
    BY <2>1, PlanAssumption DEF Station
  <2>3. st[s].phase \in Phases
    BY <2>1 DEF Stations, StationStates
  <2>4. Resolve(st[s].phase, un, s) \in Phases
    BY <2>3 DEF Resolve, Derived, Phases
  <2>5. PhaseTag(Resolve(st[s].phase, un, s), un, s) \in Tags
    BY <2>4 DEF PhaseTag, ManufactureTag, Tags, Phases
  <2> HIDE DEF s
  <2>6. /\ Decide(st, un, f).at = s
        /\ Decide(st, un, f) \in Actions
    BY <1>2, <2>2, <2>5 DEF Decide, Actions, Tags, s
  <2>7. QED
    BY <1>2, <2>1, <2>6 DEF s
<1>3. QED
  BY <1>1, <1>2

LEMMA AdvanceType ==
  ASSUME NEW st \in Stations, NEW a \in Actions, a.at # 0 \/ a.tag \in {"RunReview", "Sealed", "Hold"}
  PROVE  Advance(st, a) \in Stations
<1> USE DEF Stations, StationStates, Phases
<1>1. CASE a.at = 0
  BY <1>1 DEF Advance
<1>2. CASE a.at # 0
  <2>1. a.at \in Station
    BY <1>2, PlanAssumption DEF Station, Actions
  <2>2. CASE a.tag = "Spec"
    BY <2>1, <2>2 DEF Advance
  <2>3. CASE a.tag \in {"Review", "UserGate", "Manufacture", "Audit", "Reflect"}
    BY <2>1, <2>3 DEF Advance, SetPhase
  <2>4. CASE a.tag = "Checkpoint"
    <3>1. EnterSlot(st, a.at) \in Stations
      BY <2>1 DEF EnterSlot
    <3>2. Complete(EnterSlot(st, a.at), a.at) \in Stations
      BY <2>1, <3>1, CompleteType
    <3>3. QED
      BY <2>4, <3>1, <3>2 DEF Advance
  <2>5. CASE a.tag \notin {"Spec", "Review", "UserGate", "Manufacture", "Audit", "Reflect", "Checkpoint"}
    BY <2>5 DEF Advance
  <2>6. QED
    BY <2>2, <2>3, <2>4, <2>5
<1>3. QED
  BY <1>1, <1>2

\* A unit as it is created, and as a reset leaves it.
LEMMA FreshType ==
  ASSUME NEW u \in Unit
  PROVE  Fresh(u) \in UnitStates /\ Cleared(u) \in UnitStates
<1>1. 0 \in 0..W /\ 0 \in 0..(MaxPasses + 1)
  BY PlanAssumption
<1>2. (u \notin Gated) \in BOOLEAN /\ (u \notin Promised) \in BOOLEAN
  OBVIOUS
<1>3. Fresh(u) \in UnitStates
  BY <1>1, <1>2 DEF Fresh, UnitStates
<1>4. QED
  BY <1>3 DEF Cleared, UnitStates

\* Findings are counted, and so are the stations they are filed at.
LEMMA MoreFindingsType ==
  ASSUME NEW f \in [0..N -> Nat], NEW at
  PROVE  MoreFindings(f, at) \in [0..N -> Nat]
<1>1. \A s \in 0..N : f[s] \in Nat /\ f[s] + 1 \in Nat
  OBVIOUS
<1>2. QED
  BY <1>1 DEF MoreFindings

LEMMA StationsCounted ==
  ASSUME NEW S, S \subseteq 0..N
  PROVE  Cardinality(S) \in Nat
<1>1. IsFiniteSet(0..N)
  BY PlanAssumption, FS_Interval
<1>2. QED
  BY <1>1, FS_Subset, FS_CardinalityType

\* A tick keeps the types, whatever the call before it made of the stations.
LEMMA TickType ==
  ASSUME TypeOK, NEW st \in Stations, NEW f \in [0..N -> Nat], NEW n \in Nat,
         NEW rel \in SUBSET Station, NEW m \in Meets,
         TickFrom(st, f, n, rel, m)
  PROVE  TypeOK'
<1>0. m.withheld \in BOOLEAN /\ m.drifted \in SUBSET Station
  BY DEF Meets
<1>1. act' \in Actions /\ (act'.at # 0 \/ act'.tag \in {"RunReview", "Sealed", "Hold"})
  <2>1. CASE m.withheld
    <3>1. act' = [tag |-> "Hold", at |-> 0]
      BY <2>1, TickShape
    <3>2. QED
      BY <3>1, PlanAssumption DEF Actions, Tags
  <2>2. CASE ~m.withheld
    <3>1. act' = Decide(st, unit', fb')
      BY <2>2, TickShape
    <3>2. QED
      BY <3>1, DecideType, PlanAssumption DEF Station
  <2>3. QED
    BY <2>1, <2>2
<1>2. stn' \in Stations
  BY <1>1, TickShape, AdvanceType
<1>3. unit' \in [Unit -> UnitStates]
  <2>1. ASSUME NEW u \in Unit
        PROVE  [Cleared(u) EXCEPT !.output = unit[u].output] \in UnitStates
    BY FreshType DEF UnitStates, TypeOK
  <2>2. QED
    BY <2>1, TickShape DEF TypeOK
<1>4. fb' \in [0..N -> Nat]
  BY TickShape, MoreFindingsType
<1>5. filed' \in 0..MaxFilings
  <2>1. Cardinality(m.drifted) \in Nat
    BY <1>0, StationsCounted, PlanAssumption DEF Station
  <2>2. QED
    BY <2>1, TickShape, PlanAssumption
<1>6. QED
  BY <1>1, <1>2, <1>3, <1>4, <1>5, TickShape DEF TypeOK, Stations

-----------------------------------------------------------------------------
(* The invariant *)

\* A locked station is not held at its pre-execution gate: nothing locks over a
\* held gate, and nothing moves the phase of a locked station but a re-open.
LeftGate(st) == \A s \in Station : st[s].status = "Completed" => st[s].phase # "UserGate"
LockedLeftGate == LeftGate(stn)

IInv == TypeOK /\ LockedLeftGate

LEMMA InitIInv == Init => IInv
<1> SUFFICES ASSUME Init
             PROVE  IInv
  OBVIOUS
<1> USE PlanAssumption DEF Init
<1>1. stn \in [Station -> StationStates]
  BY DEF Absent, StationStates, Phases
<1>2. unit \in [Unit -> UnitStates]
  BY FreshType
<1>3. act \in Actions
  BY DEF Actions, Tags
<1>4. TypeOK
  <2>1. fb \in [0..N -> Nat] /\ filed \in 0..MaxFilings
    OBVIOUS
  <2>2. QED
    BY <1>1, <1>2, <1>3, <2>1 DEF TypeOK
<1>5. LockedLeftGate
  BY DEF LockedLeftGate, LeftGate, Absent
<1>6. QED
  BY <1>4, <1>5 DEF IInv

\* The calls that change a unit's document only.
LEMMA UnitCallIInv ==
  ASSUME IInv, NEW u \in Unit, UnitCalls(u)
  PROVE  IInv'
<1>1. UNCHANGED <<stn, fb, filed, runReviews, act, released>>
  BY DEF UnitCalls, CreateUnit, ResetUnit, WriteOutput, RecordGates, SetStatus, Beat, Edit
<1>2. unit[u] \in UnitStates
  BY DEF IInv, TypeOK
<1>3. \E new \in UnitStates : unit' = [unit EXCEPT ![u] = new]
  <2>1. CASE CreateUnit(u)
    BY <1>2, <2>1 DEF CreateUnit, UnitStates, IInv, TypeOK
  <2>2. CASE ResetUnit(u)
    BY <1>2, <2>2, FreshType DEF ResetUnit, Edit, UnitStates
  <2>3. CASE WriteOutput(u)
    BY <1>2, <2>3 DEF WriteOutput, Edit, UnitStates
  <2>4. ASSUME NEW ok \in BOOLEAN, RecordGates(u, ok)
        PROVE  \E new \in UnitStates : unit' = [unit EXCEPT ![u] = new]
    BY <1>2, <2>4 DEF RecordGates, Edit, UnitStates
  <2>5. ASSUME NEW x \in {"Pending", "InProgress", "Completed"}, SetStatus(u, x)
        PROVE  \E new \in UnitStates : unit' = [unit EXCEPT ![u] = new]
    BY <1>2, <2>5 DEF SetStatus, Edit, UnitStates
  <2>6. ASSUME NEW w \in Workers, NEW ok \in BOOLEAN, Beat(u, w, ok)
        PROVE  \E new \in UnitStates : unit' = [unit EXCEPT ![u] = new]
    <3> DEFINE new == [unit[u] EXCEPT
                         !.pass = @ + 1,
                         !.last = w,
                         !.settled = IF ok THEN @ \cup {w} ELSE @ \ {w},
                         !.status = IF @ = "Pending" THEN "InProgress" ELSE @]
    <3>1. unit[u].pass + 1 \in 0..(MaxPasses + 1)
      BY <1>2, <2>6, PlanAssumption DEF Beat, UnitStates
    <3>2. w \in 0..W
      BY PlanAssumption DEF Workers
    <3>3. new \in UnitStates
      BY <1>2, <3>1, <3>2 DEF UnitStates
    <3>4. unit' = [unit EXCEPT ![u] = new]
      BY <2>6 DEF Beat, Edit
    <3>5. QED
      BY <3>3, <3>4
  <2>7. QED
    BY <2>1, <2>2, <2>3, <2>4, <2>5, <2>6 DEF UnitCalls
<1>4. QED
  BY <1>1, <1>3 DEF IInv, TypeOK, LockedLeftGate

LEMMA StationCallIInv ==
  ASSUME IInv, NEW s \in Station, StationCalls(s)
  PROVE  IInv'
<1>1. CASE ElaborateSeal(s)
  BY <1>1 DEF ElaborateSeal, IInv, TypeOK, StationStates, LockedLeftGate, LeftGate
<1>2. ASSUME NEW r \in Reviewer, StampReview(s, r)
      PROVE  IInv'
  <2>1. \A u \in Unit : [unit[u] EXCEPT !.reviews = @ \cup {r}] \in UnitStates
    BY DEF IInv, TypeOK, UnitStates
  <2>2. QED
    BY <1>2, <2>1 DEF StampReview, IInv, TypeOK, LockedLeftGate
<1>3. ASSUME NEW r \in Reviewer, StampApproval(s, r)
      PROVE  IInv'
  <2>1. \A u \in Unit : [unit[u] EXCEPT !.approvals = @ \cup {r}] \in UnitStates
    BY DEF IInv, TypeOK, UnitStates
  <2>2. QED
    BY <1>3, <2>1 DEF StampApproval, IInv, TypeOK, LockedLeftGate
<1>4. QED
  BY <1>1, <1>2, <1>3 DEF StationCalls

LEMMA FindingCallIInv ==
  ASSUME IInv, NEW s \in 0..N, FindingCalls(s)
  PROVE  IInv'
<1>1. CASE FileFinding(s)
  BY <1>1, PlanAssumption DEF FileFinding, IInv, TypeOK, LockedLeftGate
<1>2. ASSUME NEW roles \in SUBSET Reviewer, ResolveFinding(s, roles)
      PROVE  IInv'
  <2>1. fb[s] - 1 \in Nat
    <3>1. fb[s] \in Nat
      BY DEF IInv, TypeOK
    <3>2. fb[s] > 0
      BY <1>2 DEF ResolveFinding
    <3>3. QED
      BY <3>1, <3>2
  <2>2. fb' \in [0..N -> Nat]
    <3>1. fb' = [fb EXCEPT ![s] = @ - 1]
      BY <1>2 DEF ResolveFinding
    <3>2. QED
      BY <2>1, <3>1 DEF IInv, TypeOK
  <2>3. \A u \in Unit : [unit[u] EXCEPT !.reviews = @ \ roles, !.approvals = @ \ roles] \in UnitStates
    BY DEF IInv, TypeOK, UnitStates
  <2>4. unit' \in [Unit -> UnitStates]
    BY <1>2, <2>3 DEF ResolveFinding, IInv, TypeOK
  <2>5. stn' = stn \/ (s \in Station /\ stn' = Reopen(stn, s))
    <3>1. UnitsAt(unit, s) # {} => s \in Station
      BY PlanAssumption DEF UnitsAt
    <3>2. QED
      BY <1>2, <3>1 DEF ResolveFinding
  <2>6. stn' \in [Station -> StationStates] /\ LockedLeftGate'
    BY <2>5 DEF Reopen, IInv, TypeOK, StationStates, Phases, LockedLeftGate, LeftGate
  <2>7. QED
    BY <1>2, <2>2, <2>4, <2>6 DEF ResolveFinding, IInv, TypeOK
<1>3. QED
  BY <1>1, <1>2 DEF FindingCalls

\* What a lock changes: the station itself, and the next one unless it is
\* Completed or InProgress.
StartedOver(st, st1, t) ==
    /\ st[t].status \notin {"Completed", "InProgress"}
    /\ st1[t].status = "Pending"

LEMMA CompleteEffect ==
  ASSUME NEW st \in Stations, NEW s \in Station
  PROVE  /\ Complete(st, s)[s].status = "Completed"
         /\ Complete(st, s)[s].phase = st[s].phase
         /\ \A t \in Station \ {s} :
               \/ Complete(st, s)[t] = st[t]
               \/ t = s + 1 /\ StartedOver(st, Complete(st, s), t)
<1> USE DEF Stations, StationStates
<1> DEFINE locked == [st EXCEPT ![s].status = "Completed", ![s].outcome = "Advanced"]
<1>1. s # s + 1 /\ s \in Nat
  BY PlanAssumption DEF Station
<1>2. CASE s = N \/ st[s + 1].status \in {"Completed", "InProgress"}
  BY <1>2 DEF Complete
<1>3. CASE ~(s = N \/ st[s + 1].status \in {"Completed", "InProgress"})
  <2>1. s + 1 \in Station
    BY <1>3, PlanAssumption DEF Station
  <2>2. Complete(st, s) = [locked EXCEPT ![s + 1].status = "Pending", ![s + 1].phase = "Spec"]
    BY <1>3 DEF Complete
  <2>3. /\ Complete(st, s)[s] = locked[s]
        /\ Complete(st, s)[s + 1].status = "Pending"
        /\ \A t \in Station \ {s, s + 1} : Complete(st, s)[t] = st[t]
    BY <1>1, <2>1, <2>2
  <2>4. locked[s].status = "Completed" /\ locked[s].phase = st[s].phase
    OBVIOUS
  <2>5. QED
    BY <1>3, <2>1, <2>3, <2>4 DEF StartedOver
<1>4. QED
  BY <1>2, <1>3

\* A station held at its pre-execution gate is only ever answered with the gate,
\* with a finding or with an exhausted budget.
LEMMA HeldGateTag ==
  ASSUME NEW st \in Stations, NEW un, NEW f, Unlocked(st) # {},
         st[Frontier(st)].phase = "UserGate"
  PROVE  Decide(st, un, f).tag \in {"UserGate", "FixFeedback", "Escalate"}
<1>1. Resolve(st[Frontier(st)].phase, un, Frontier(st)) = "UserGate"
  BY DEF Resolve
<1>2. PhaseTag("UserGate", un, Frontier(st)) = "UserGate"
  BY DEF PhaseTag
<1>3. QED
  BY <1>1, <1>2 DEF Decide

\* What one tick may do to the stations: nothing, or move the one it names,
\* which is not locked and keeps a held gate; only a lights-out Checkpoint locks
\* it, and only then the next station may start over.
Moves(st, st1, a) ==
    /\ a.at \in Station /\ a.at = Frontier(st)
    /\ st[a.at].status # "Completed"
    /\ st[a.at].phase = "UserGate" => st1[a.at].phase = "UserGate"
    /\ \/ st1[a.at].status \in {st[a.at].status, "InProgress"}
       \/ /\ st1[a.at].status = "Completed"
          /\ st1[a.at].phase # "UserGate"
          /\ a.tag = "Checkpoint"
    /\ \A t \in Station \ {a.at} :
          \/ st1[t] = st[t]
          \/ t = a.at + 1 /\ st1[a.at].status = "Completed" /\ StartedOver(st, st1, t)

LEMMA TickMoves ==
  ASSUME NEW st \in Stations, NEW f, NEW n, NEW rel, NEW m \in Meets,
         TickFrom(st, f, n, rel, m)
  PROVE  stn' = st \/ Moves(st, stn', act')
<1> DEFINE s == act'.at
<1>0. stn' = Advance(st, act')
  BY TickShape
<1>1. CASE m.withheld
  <2>1. act' = [tag |-> "Hold", at |-> 0]
    BY <1>1, TickShape
  <2>2. QED
    BY <1>0, <2>1 DEF Advance
<1>2. CASE ~m.withheld /\ Unlocked(st) = {}
  <2>1. act' = Decide(st, unit', fb')
    BY <1>2, TickShape
  <2>2. act'.tag \in {"RunReview", "Sealed"}
    BY <1>2, <2>1, DecideType
  <2>3. QED
    BY <1>0, <2>2 DEF Advance
<1>3. CASE ~m.withheld /\ Unlocked(st) # {}
  <2>1. act' = Decide(st, unit', fb')
    BY <1>3, TickShape
  <2>2. /\ act' \in Actions
        /\ s = Frontier(st) /\ s \in Station /\ st[s].status # "Completed"
    BY <1>3, <2>1, DecideType
  <2>3. st[s].phase = "UserGate" => act'.tag \in {"UserGate", "FixFeedback", "Escalate"}
    BY <1>3, <2>1, <2>2, HeldGateTag
  <2>4. st[s] \in StationStates
    BY <2>2 DEF Stations
  <2> HIDE DEF s
  <2>5. CASE act'.tag = "Spec"
    <3>1. stn' = [st EXCEPT ![s].status = "InProgress",
                            ![s].phase = IF Mode # "dark" /\ ~st[s].elaborated
                                         THEN "Spec" ELSE "Review"]
      BY <1>0, <2>5 DEF Advance, s
    <3>2. stn'[s].status = "InProgress" /\ \A t \in Station \ {s} : stn'[t] = st[t]
      BY <2>2, <2>4, <3>1 DEF Stations, StationStates
    <3>3. QED
      BY <2>2, <2>3, <2>5, <3>2 DEF Moves, s
  <2>6. CASE act'.tag \in {"Review", "UserGate", "Manufacture", "Audit", "Reflect"}
    <3>1. PICK ph \in Phases : /\ stn' = [st EXCEPT ![s].phase = ph]
                               /\ act'.tag = "UserGate" => ph = "UserGate"
      BY <1>0, <2>6 DEF Advance, SetPhase, Phases, s
    <3>2. /\ stn'[s].status = st[s].status
          /\ stn'[s].phase = ph
          /\ \A t \in Station \ {s} : stn'[t] = st[t]
      BY <2>2, <2>4, <3>1 DEF Stations, StationStates
    <3>3. QED
      BY <2>2, <2>3, <2>6, <3>1, <3>2 DEF Moves, s
  <2>7. CASE act'.tag = "Checkpoint"
    <3> DEFINE st0 == EnterSlot(st, s)
    <3>1. /\ st0 \in Stations
          /\ st0[s].status = st[s].status /\ st0[s].phase = st[s].phase
          /\ \A t \in Station \ {s} : st0[t] = st[t]
      BY <2>2, <2>4 DEF EnterSlot, Stations, StationStates
    <3>2. st[s].phase # "UserGate"
      BY <2>3, <2>7
    <3> HIDE DEF st0
    <3>3. CASE Mode # "dark"
      <4>1. stn' = st0
        BY <1>0, <2>7, <3>3 DEF Advance, s, st0
      <4>2. QED
        BY <2>2, <3>1, <3>2, <4>1 DEF Moves, s
    <3>4. CASE Mode = "dark"
      <4>1. stn' = Complete(st0, s)
        BY <1>0, <2>7, <3>4 DEF Advance, s, st0
      <4>2. stn'[s].status = "Completed" /\ stn'[s].phase # "UserGate"
        BY <2>2, <3>1, <3>2, <4>1, CompleteEffect
      <4>3. \A t \in Station \ {s} :
             \/ stn'[t] = st[t]
             \/ t = s + 1 /\ StartedOver(st, stn', t)
        BY <2>2, <3>1, <4>1, CompleteEffect DEF StartedOver
      <4>4. QED
        BY <2>2, <2>7, <3>2, <4>2, <4>3 DEF Moves, s
    <3>5. QED
      BY <3>3, <3>4
  <2>8. CASE act'.tag \notin {"Spec", "Review", "UserGate", "Manufacture", "Audit", "Reflect",
                              "Checkpoint"}
    BY <1>0, <2>8 DEF Advance
  <2>9. QED
    BY <2>5, <2>6, <2>7, <2>8
<1>4. QED
  BY <1>1, <1>2, <1>3

LEMMA MovesKeepsLeftGate ==
  ASSUME NEW st \in Stations, LeftGate(st), stn' = st \/ Moves(st, stn', act')
  PROVE  LockedLeftGate'
  BY DEF LockedLeftGate, LeftGate, Moves, StartedOver, Stations

LEMMA TickIInv ==
  ASSUME IInv, NEW st \in Stations, LeftGate(st), NEW f \in [0..N -> Nat], NEW n \in Nat,
         NEW rel \in SUBSET Station, NEW m \in Meets, TickFrom(st, f, n, rel, m)
  PROVE  IInv'
<1>1. TypeOK'
  BY TickType DEF IInv
<1>2. stn' = st \/ Moves(st, stn', act')
  BY TickMoves
<1>3. LockedLeftGate'
  BY <1>2, MovesKeepsLeftGate
<1>4. QED
  BY <1>1, <1>3 DEF IInv

\* The stations an operator's decision hands to its tick.
ReleasedStations == SetPhase(stn, Frontier(stn), "Manufacture")
ApprovedStations == Complete(stn, Frontier(stn))
BlockedStations ==
    [stn EXCEPT ![Frontier(stn)].status = "Blocked", ![Frontier(stn)].outcome = "Blocked"]

LEMMA DecisionStations ==
  ASSUME IInv, Unlocked(stn) # {}
  PROVE  /\ Frontier(stn) \in Station
         /\ stn[Frontier(stn)].status # "Completed"
         /\ ReleasedStations \in Stations /\ LeftGate(ReleasedStations)
         /\ ApprovedStations \in Stations
         /\ stn[Frontier(stn)].phase # "UserGate" => LeftGate(ApprovedStations)
         /\ BlockedStations \in Stations /\ LeftGate(BlockedStations)
<1> DEFINE s == Frontier(stn)
<1>1. s \in Station /\ stn[s].status # "Completed"
  BY FrontierUnlocked DEF Unlocked
<1>2. stn \in Stations /\ LeftGate(stn)
  BY DEF IInv, TypeOK, Stations, LockedLeftGate
<1> HIDE DEF s
<1>3. [stn EXCEPT ![s].phase = "Manufacture"] \in Stations
  BY <1>1, <1>2 DEF Stations, StationStates, Phases
<1>4. LeftGate([stn EXCEPT ![s].phase = "Manufacture"])
  BY <1>1, <1>2 DEF LeftGate, Stations, StationStates
<1>5. Complete(stn, s) \in Stations
  BY <1>1, <1>2, CompleteType
<1>6. stn[s].phase # "UserGate" => LeftGate(Complete(stn, s))
  BY <1>1, <1>2, <1>5, CompleteEffect DEF LeftGate, StartedOver
<1>7. [stn EXCEPT ![s].status = "Blocked", ![s].outcome = "Blocked"] \in Stations
  BY <1>1, <1>2 DEF Stations, StationStates
<1>8. LeftGate([stn EXCEPT ![s].status = "Blocked", ![s].outcome = "Blocked"])
  BY <1>1, <1>2 DEF LeftGate, Stations, StationStates
<1>9. QED
  BY <1>1, <1>3, <1>4, <1>5, <1>6, <1>7, <1>8
     DEF s, ReleasedStations, ApprovedStations, BlockedStations, SetPhase

\* A block leaves the cursor where it is.
LEMMA FrontierOfBlocked ==
  ASSUME IInv, Unlocked(stn) # {}
  PROVE  Frontier(BlockedStations) = Frontier(stn)
<1>1. Frontier(stn) \in Station /\ stn[Frontier(stn)].status # "Completed"
  BY FrontierUnlocked DEF Unlocked
<1>2. Unlocked(BlockedStations) = Unlocked(stn)
  BY <1>1 DEF Unlocked, BlockedStations, IInv, TypeOK, StationStates
<1>3. QED
  BY <1>2 DEF Frontier

\* What a block hands to its tick.
LEMMA BlockShape ==
  ASSUME IInv, NEW words \in BOOLEAN, NEW marks \in BOOLEAN, NEW m, Block(words, marks, m)
  PROVE  \E st \in Stations, f \in [0..N -> Nat], n \in Nat :
           /\ Unlocked(stn) # {}
           /\ TickFrom(st, f, n, released, m)
           /\ \/ st = stn
              \/ stn[Frontier(stn)].phase # "UserGate" /\ st = BlockedStations
           /\ LeftGate(st)
<1> DEFINE s == Frontier(stn)
           gate == stn[s].phase = "UserGate"
           st == IF gate THEN stn ELSE BlockedStations
           said == (IF words THEN {IF gate THEN s ELSE 0} ELSE {})
                   \cup (IF marks /\ ~gate THEN {s} ELSE {})
<1>1. /\ Unlocked(stn) # {}
      /\ TickFrom(st, MoreFindings(fb, said), filed + Cardinality(said), released, m)
  BY DEF Block, BlockedStations
<1>2. st \in Stations /\ LeftGate(st)
  BY <1>1, DecisionStations DEF IInv, TypeOK, Stations, LockedLeftGate
<1>3. MoreFindings(fb, said) \in [0..N -> Nat]
  BY MoreFindingsType DEF IInv, TypeOK
<1>4. filed + Cardinality(said) \in Nat
  <2>1. s \in Station
    BY <1>1, DecisionStations
  <2>2. said \subseteq 0..N
    BY <2>1, PlanAssumption DEF Station
  <2> HIDE DEF said
  <2>3. Cardinality(said) \in Nat
    BY <2>2, StationsCounted
  <2>4. filed \in Nat
    BY PlanAssumption DEF IInv, TypeOK
  <2>5. QED
    BY <2>3, <2>4
<1> HIDE DEF said
<1>5. QED
  BY <1>1, <1>2, <1>3, <1>4

LEMMA OperatorIInv ==
  ASSUME IInv, NEW m \in Meets, OperatorCalls(m)
  PROVE  IInv'
<1>0. filed \in Nat /\ fb \in [0..N -> Nat] /\ released \in SUBSET Station
  BY PlanAssumption DEF IInv, TypeOK
<1>1. CASE Release(m)
  <2>1. /\ TickFrom(ReleasedStations, fb, filed, released \cup {Frontier(stn)}, m)
        /\ Unlocked(stn) # {}
    BY <1>1 DEF Release, ReleasedStations
  <2>2. released \cup {Frontier(stn)} \in SUBSET Station
    BY <1>0, <2>1, DecisionStations
  <2>3. QED
    BY <1>0, <2>1, <2>2, DecisionStations, TickIInv
<1>2. CASE Approve(m)
  <2>1. /\ TickFrom(ApprovedStations, fb, filed, released, m)
        /\ Unlocked(stn) # {}
        /\ stn[Frontier(stn)].phase # "UserGate"
    BY <1>2 DEF Approve, ApprovedStations
  <2>2. QED
    BY <1>0, <2>1, DecisionStations, TickIInv
<1>3. ASSUME NEW words \in BOOLEAN, NEW marks \in BOOLEAN, Block(words, marks, m)
      PROVE  IInv'
  <2>1. PICK st \in Stations, f \in [0..N -> Nat], n \in Nat :
          TickFrom(st, f, n, released, m) /\ LeftGate(st)
    BY <1>3, BlockShape
  <2>2. QED
    BY <1>0, <2>1, TickIInv
<1>4. QED
  BY <1>1, <1>2, <1>3 DEF OperatorCalls

LEMMA NextIInv == IInv /\ [FreeNext]_vars => IInv'
<1> SUFFICES ASSUME IInv, [FreeNext]_vars
             PROVE  IInv'
  OBVIOUS
<1>1. CASE UNCHANGED vars
  BY <1>1 DEF vars, IInv, TypeOK, LockedLeftGate
<1>2. ASSUME NEW m \in Meets, Tick(m)
      PROVE  IInv'
  <2>1. /\ stn \in Stations /\ LeftGate(stn) /\ fb \in [0..N -> Nat] /\ filed \in Nat
        /\ released \in SUBSET Station
    BY PlanAssumption DEF IInv, TypeOK, Stations, LockedLeftGate
  <2>2. QED
    BY <1>2, <2>1, TickIInv DEF Tick
<1>3. ASSUME NEW u \in Unit, UnitCalls(u)
      PROVE  IInv'
  BY <1>3, UnitCallIInv
<1>4. ASSUME NEW s \in Station, StationCalls(s)
      PROVE  IInv'
  BY <1>4, StationCallIInv
<1>5. ASSUME NEW s \in 0..N, FindingCalls(s)
      PROVE  IInv'
  BY <1>5, FindingCallIInv
<1>6. ASSUME NEW r \in RunReviewer, RunReviewStamp(r)
      PROVE  IInv'
  BY <1>6 DEF RunReviewStamp, IInv, TypeOK, LockedLeftGate
<1>7. ASSUME NEW m \in Meets, OperatorCalls(m)
      PROVE  IInv'
  BY <1>7, OperatorIInv
<1>8. QED
  BY <1>1, <1>2, <1>3, <1>4, <1>5, <1>6, <1>7 DEF FreeNext, LightsOutNext

LEMMA FreeInvariant == FreeSpec => []IInv
  BY InitIInv, NextIInv, PTL DEF FreeSpec

\* Every document the manager leaves behind is well formed, whatever the agent,
\* the reviewers and the operator call and in whatever order (TypeOK); above
\* all no Pass count runs past its budget by more than one.
THEOREM WellFormed == FreeSpec => []TypeOK
<1>1. IInv => TypeOK
  BY DEF IInv
<1>2. QED
  BY <1>1, FreeInvariant, PTL

-----------------------------------------------------------------------------
(* What no step may do *)

\* A call that is neither a tick nor the operator's touches the status of no
\* station but one it re-opens, and the phase of none that is not locked.
LEMMA CallMoves ==
  ASSUME IInv,
         \/ \E u \in Unit : UnitCalls(u)
         \/ \E s \in Station : StationCalls(s)
         \/ \E s \in 0..N : FindingCalls(s)
         \/ \E r \in RunReviewer : RunReviewStamp(r)
         \/ UNCHANGED vars,
         NEW s \in Station
  PROVE  \/ stn'[s].status = stn[s].status /\ stn'[s].phase = stn[s].phase
         \/ stn[s].status = "Completed" /\ stn'[s].status = "InProgress"
<1> USE DEF IInv, TypeOK, StationStates
<1>1. CASE \E u \in Unit : UnitCalls(u)
  BY <1>1 DEF UnitCalls, CreateUnit, ResetUnit, WriteOutput, RecordGates, SetStatus, Beat, Edit
<1>2. ASSUME NEW t \in Station, StationCalls(t)
      PROVE  stn'[s].status = stn[s].status /\ stn'[s].phase = stn[s].phase
  BY <1>2 DEF StationCalls, ElaborateSeal, StampReview, StampApproval
<1>3. ASSUME NEW t \in 0..N, FindingCalls(t)
      PROVE  \/ stn'[s].status = stn[s].status /\ stn'[s].phase = stn[s].phase
             \/ stn[s].status = "Completed" /\ stn'[s].status = "InProgress"
  <2>1. stn' = stn \/ stn' = Reopen(stn, t)
    BY <1>3 DEF FindingCalls, FileFinding, ResolveFinding
  <2>2. QED
    BY <2>1 DEF Reopen
<1>4. CASE (\E r \in RunReviewer : RunReviewStamp(r)) \/ UNCHANGED vars
  BY <1>4 DEF RunReviewStamp, vars
<1>5. QED
  BY <1>1, <1>2, <1>3, <1>4

\* A tick and the three decisions: what each hands to the tick, as far as the
\* statuses and the gates go.
LEMMA TickOrDecision ==
  ASSUME IInv,
         \/ \E m \in Meets : Tick(m) \/ OperatorCalls(m)
  PROVE  \E st \in Stations, rel \in SUBSET Station :
           /\ stn' = st \/ Moves(st, stn', act')
           /\ released' = {s \in rel : stn'[s].phase # "UserGate"}
           /\ \/ st = stn
              \/ /\ Unlocked(stn) # {}
                 /\ st = ReleasedStations /\ Frontier(stn) \in rel
              \/ /\ Unlocked(stn) # {} /\ stn[Frontier(stn)].phase # "UserGate"
                 /\ st \in {ApprovedStations, BlockedStations}
<1>0. stn \in Stations /\ released \in SUBSET Station
  BY DEF IInv, TypeOK, Stations
<1>1. ASSUME NEW m \in Meets, Tick(m)
      PROVE  /\ stn' = stn \/ Moves(stn, stn', act')
             /\ released' = {s \in released : stn'[s].phase # "UserGate"}
  BY <1>0, <1>1, TickMoves, TickShape DEF Tick
<1>2. ASSUME NEW m \in Meets, Release(m)
      PROVE  /\ Unlocked(stn) # {} /\ ReleasedStations \in Stations
             /\ released \cup {Frontier(stn)} \in SUBSET Station
             /\ stn' = ReleasedStations \/ Moves(ReleasedStations, stn', act')
             /\ released' = {s \in released \cup {Frontier(stn)} : stn'[s].phase # "UserGate"}
  <2>1. /\ TickFrom(ReleasedStations, fb, filed, released \cup {Frontier(stn)}, m)
        /\ Unlocked(stn) # {}
    BY <1>2 DEF Release, ReleasedStations
  <2>2. ReleasedStations \in Stations /\ released \cup {Frontier(stn)} \in SUBSET Station
    BY <1>0, <2>1, DecisionStations
  <2>3. QED
    BY <2>1, <2>2, TickMoves, TickShape
<1>3. ASSUME NEW m \in Meets, Approve(m)
      PROVE  /\ Unlocked(stn) # {} /\ stn[Frontier(stn)].phase # "UserGate"
             /\ ApprovedStations \in Stations
             /\ stn' = ApprovedStations \/ Moves(ApprovedStations, stn', act')
             /\ released' = {s \in released : stn'[s].phase # "UserGate"}
  <2>1. /\ TickFrom(ApprovedStations, fb, filed, released, m)
        /\ Unlocked(stn) # {} /\ stn[Frontier(stn)].phase # "UserGate"
    BY <1>3 DEF Approve, ApprovedStations
  <2>2. QED
    BY <2>1, DecisionStations, TickMoves, TickShape
<1>4. ASSUME NEW words \in BOOLEAN, NEW marks \in BOOLEAN, NEW m \in Meets,
             Block(words, marks, m)
      PROVE  \E st \in Stations :
               /\ stn' = st \/ Moves(st, stn', act')
               /\ released' = {s \in released : stn'[s].phase # "UserGate"}
               /\ \/ st = stn
                  \/ /\ Unlocked(stn) # {} /\ stn[Frontier(stn)].phase # "UserGate"
                     /\ st = BlockedStations
  <2>1. PICK st \in Stations, f \in [0..N -> Nat], n \in Nat :
          /\ Unlocked(stn) # {}
          /\ TickFrom(st, f, n, released, m)
          /\ \/ st = stn
             \/ stn[Frontier(stn)].phase # "UserGate" /\ st = BlockedStations
    BY <1>4, BlockShape
  <2>2. /\ stn' = st \/ Moves(st, stn', act')
        /\ released' = {s \in released : stn'[s].phase # "UserGate"}
    BY <2>1, TickMoves, TickShape
  <2>3. QED
    BY <2>1, <2>2
<1>5. QED
  BY <1>0, <1>1, <1>2, <1>3, <1>4 DEF OperatorCalls

LEMMA NextCases ==
  ASSUME [FreeNext]_vars
  PROVE  \/ \E u \in Unit : UnitCalls(u)
         \/ \E s \in Station : StationCalls(s)
         \/ \E s \in 0..N : FindingCalls(s)
         \/ \E r \in RunReviewer : RunReviewStamp(r)
         \/ UNCHANGED vars
         \/ \E m \in Meets : Tick(m) \/ OperatorCalls(m)
  BY DEF FreeNext, LightsOutNext

LEMMA NextNeverRestarts ==
  ASSUME IInv, [FreeNext]_vars, NEW s \in Station, stn[s].status \in {"InProgress", "Completed"}
  PROVE  stn'[s].status # "Pending"
<1>1. CASE \/ \E u \in Unit : UnitCalls(u)
           \/ \E t \in Station : StationCalls(t)
           \/ \E t \in 0..N : FindingCalls(t)
           \/ \E r \in RunReviewer : RunReviewStamp(r)
           \/ UNCHANGED vars
  BY <1>1, CallMoves
<1>2. CASE \E m \in Meets : Tick(m) \/ OperatorCalls(m)
  <2>1. PICK st \in Stations :
           /\ stn' = st \/ Moves(st, stn', act')
           /\ \/ st = stn
              \/ Unlocked(stn) # {} /\ st \in {ReleasedStations, ApprovedStations, BlockedStations}
    BY <1>2, TickOrDecision
  <2>2. stn \in Stations
    BY DEF IInv, TypeOK, Stations
  <2>3. st[s].status \in {"InProgress", "Completed", "Blocked"}
    <3>1. CASE st = ReleasedStations
      BY <2>2, <3>1 DEF ReleasedStations, SetPhase, Stations, StationStates
    <3>2. CASE Unlocked(stn) # {} /\ st = ApprovedStations
      BY <2>2, <3>2, DecisionStations, CompleteEffect DEF ApprovedStations, StartedOver
    <3>3. CASE st = BlockedStations
      BY <2>2, <3>3 DEF BlockedStations, Stations, StationStates
    <3>4. QED
      BY <2>1, <3>1, <3>2, <3>3
  <2>4. st[s].status = "Blocked" => s = Frontier(st)
    <3>1. CASE st = BlockedStations /\ Unlocked(stn) # {}
      BY <2>2, <3>1, FrontierOfBlocked DEF BlockedStations, Stations, StationStates
    <3>2. CASE st = ReleasedStations
      BY <2>2, <3>2 DEF ReleasedStations, SetPhase, Stations, StationStates
    <3>3. CASE Unlocked(stn) # {} /\ st = ApprovedStations
      BY <2>2, <3>3, DecisionStations, CompleteEffect DEF ApprovedStations, StartedOver
    <3>4. QED
      BY <2>1, <3>1, <3>2, <3>3
  <2>5. \A t \in Station : t # t + 1
    BY PlanAssumption DEF Station
  <2>6. QED
    BY <2>1, <2>3, <2>4, <2>5 DEF Moves, StartedOver
<1>3. QED
  BY <1>1, <1>2, NextCases

\* complete_station restarts no station that is under way or locked, whatever was
\* re-opened, blocked or locked again upstream of it.
THEOREM UnderWayKept == FreeSpec => NeverRestarted
<1>1. ASSUME IInv, [FreeNext]_vars
      PROVE  [\A s \in Station : stn[s].status \in {"InProgress", "Completed"}
                 => stn'[s].status # "Pending"]_vars
  BY <1>1, NextNeverRestarts
<1>2. QED
  BY <1>1, FreeInvariant, PTL DEF FreeSpec, NeverRestarted

LEMMA NextGateHeld ==
  ASSUME IInv, [FreeNext]_vars, NEW s \in Station,
         stn[s].phase = "UserGate", stn'[s].phase # "UserGate"
  PROVE  s \in released' \/ (s > 1 /\ Locks(s - 1))
<1>0. stn \in Stations /\ LeftGate(stn) /\ s \in Nat
  BY PlanAssumption DEF IInv, TypeOK, Stations, LockedLeftGate, Station
<1>1. CASE \/ \E u \in Unit : UnitCalls(u)
           \/ \E t \in Station : StationCalls(t)
           \/ \E t \in 0..N : FindingCalls(t)
           \/ \E r \in RunReviewer : RunReviewStamp(r)
           \/ UNCHANGED vars
  BY <1>0, <1>1, CallMoves DEF LeftGate
<1>2. CASE \E m \in Meets : Tick(m) \/ OperatorCalls(m)
  <2>1. PICK st \in Stations, rel \in SUBSET Station :
           /\ stn' = st \/ Moves(st, stn', act')
           /\ released' = {t \in rel : stn'[t].phase # "UserGate"}
           /\ \/ st = stn
              \/ /\ Unlocked(stn) # {}
                 /\ st = ReleasedStations /\ Frontier(stn) \in rel
              \/ /\ Unlocked(stn) # {} /\ stn[Frontier(stn)].phase # "UserGate"
                 /\ st \in {ApprovedStations, BlockedStations}
    BY <1>2, TickOrDecision
  <2>2. \A t \in Station : st[t].status # "Completed" => stn[t].status # "Completed"
    <3>1. CASE st = ReleasedStations
      BY <1>0, <3>1 DEF ReleasedStations, SetPhase, Stations, StationStates
    <3>2. CASE Unlocked(stn) # {} /\ st = ApprovedStations
      BY <1>0, <3>2, DecisionStations, CompleteEffect DEF ApprovedStations, StartedOver
    <3>3. CASE Unlocked(stn) # {} /\ st = BlockedStations
      BY <1>0, <3>3, DecisionStations DEF BlockedStations, Stations, StationStates
    <3>4. QED
      BY <2>1, <3>1, <3>2, <3>3
  <2>3. ASSUME st[s].phase = "UserGate"
        PROVE  s > 1 /\ Locks(s - 1)
    <3>1. Moves(st, stn', act')
      BY <2>1, <2>3, <1>2
    <3>2. s # act'.at /\ stn'[s] # st[s]
      BY <2>3, <3>1 DEF Moves
    <3>3. s = act'.at + 1 /\ stn'[act'.at].status = "Completed" /\ act'.at \in Station
      BY <3>1, <3>2 DEF Moves
    <3>4. stn[act'.at].status # "Completed"
      BY <2>2, <3>1 DEF Moves
    <3>5. s - 1 = act'.at /\ s > 1
      BY <3>3, PlanAssumption DEF Station
    <3>6. QED
      BY <3>3, <3>4, <3>5 DEF Locks
  <2>4. CASE st = ReleasedStations /\ Unlocked(stn) # {} /\ Frontier(stn) \in rel
                /\ st[s].phase # "UserGate"
    <3>1. s = Frontier(stn)
      BY <1>0, <2>4 DEF ReleasedStations, SetPhase, Stations, StationStates
    <3>2. QED
      BY <2>1, <2>4, <3>1
  <2>5. CASE st = ApprovedStations /\ Unlocked(stn) # {} /\ st[s].phase # "UserGate"
                /\ stn[Frontier(stn)].phase # "UserGate"
    <3> DEFINE t == Frontier(stn)
    <3>1. t \in Station /\ stn[t].status # "Completed"
      BY <2>5, DecisionStations
    <3>2. s # t /\ st[s] # stn[s]
      BY <2>5
    <3>3. s = t + 1 /\ st[t].status = "Completed"
      BY <1>0, <2>5, <3>1, <3>2, CompleteEffect DEF ApprovedStations
    <3>4. stn'[t].status = "Completed"
      BY <2>1, <3>1, <3>3 DEF Moves, StartedOver
    <3> HIDE DEF t
    <3>5. s - 1 = t /\ s > 1
      BY <3>1, <3>3, PlanAssumption DEF Station
    <3>6. QED
      BY <3>1, <3>4, <3>5 DEF Locks
  <2>6. CASE st = BlockedStations /\ st[s].phase # "UserGate"
    BY <1>0, <2>6 DEF BlockedStations, Stations, StationStates
  <2>7. QED
    BY <2>1, <2>3, <2>4, <2>5, <2>6
<1>3. QED
  BY <1>1, <1>2, NextCases

\* An interactive station leaves its pre-execution gate by the operator's
\* release, or because the station before it locks and starts it over; no tick,
\* stamp, beat, reset, finding or block moves it (resolve_phase's held gate).
THEOREM GateIsHeld == FreeSpec => GateHeld
<1>1. ASSUME IInv, [FreeNext]_vars
      PROVE  [\A s \in Station : stn[s].phase = "UserGate" /\ stn'[s].phase # "UserGate"
                 => \/ s \in released'
                    \/ s > 1 /\ Locks(s - 1)]_vars
  BY <1>1, NextGateHeld
<1>2. QED
  BY <1>1, FreeInvariant, PTL DEF FreeSpec, GateHeld

-----------------------------------------------------------------------------
(* What a lights-out lock rests on *)

\* derive_position answers Checkpoint only over a clean run, green gates and,
\* where the station carries any signal, work that is signed throughout.
LEMMA CheckpointRestsOn ==
  ASSUME NEW st \in Stations, NEW un, NEW f, NEW s,
         Unlocked(st) # {}, Decide(st, un, f).tag = "Checkpoint", Decide(st, un, f).at = s
  PROVE  /\ \A t \in 0..N : ~(f[t] > 0)
         /\ \A u \in Locked(un, s) : un[u].gates
         /\ HasSignals(un, s) =>
              \A u \in UnitsAt(un, s) :
                  ReviewsSigned(un, u) /\ LoopDone(un, u) /\ ApprovalsSigned(un, u)
<1>1. s = Frontier(st)
  BY DecideType
<1>2. /\ ~(\E t \in 0..N : f[t] > 0)
      /\ PhaseTag(Resolve(st[s].phase, un, s), un, s) = "Checkpoint"
  BY <1>1 DEF Decide
<1>3. /\ Resolve(st[s].phase, un, s) = "Checkpoint"
      /\ \A u \in Locked(un, s) : un[u].gates
  BY <1>2 DEF PhaseTag, ManufactureTag
<1>4. HasSignals(un, s) => Derived(un, s) = "Checkpoint"
  BY <1>3 DEF Resolve
<1>5. Derived(un, s) = "Checkpoint" =>
        \A u \in UnitsAt(un, s) :
            ReviewsSigned(un, u) /\ LoopDone(un, u) /\ ApprovalsSigned(un, u)
  BY DEF Derived
<1>6. QED
  BY <1>2, <1>3, <1>4, <1>5

\* With no operator, only the Checkpoint a tick has just derived locks a station.
LEMMA LightsOutLock ==
  ASSUME IInv, [LightsOutNext]_vars, NEW s \in Station, Locks(s)
  PROVE  /\ Unlocked(stn) # {}
         /\ act' = Decide(stn, unit', fb')
         /\ act'.tag = "Checkpoint" /\ act'.at = s
<1>0. stn \in Stations
  BY DEF IInv, TypeOK, Stations
<1>1. CASE \/ \E u \in Unit : UnitCalls(u)
           \/ \E t \in Station : StationCalls(t)
           \/ \E t \in 0..N : FindingCalls(t)
           \/ \E r \in RunReviewer : RunReviewStamp(r)
           \/ UNCHANGED vars
  BY <1>1, CallMoves DEF Locks
<1>2. ASSUME NEW m \in Meets, Tick(m)
      PROVE  /\ Unlocked(stn) # {}
             /\ act' = Decide(stn, unit', fb')
             /\ act'.tag = "Checkpoint" /\ act'.at = s
  <2>1. TickFrom(stn, fb, filed, released, m)
    BY <1>2 DEF Tick
  <2>2. Moves(stn, stn', act')
    BY <1>0, <2>1, TickMoves DEF Locks
  <2>3. act'.at = s
    BY <2>2 DEF Moves, Locks, StartedOver
  <2>4. act'.tag = "Checkpoint"
    BY <2>2, <2>3 DEF Moves, Locks
  <2>5. act' = IF m.withheld THEN [tag |-> "Hold", at |-> 0] ELSE Decide(stn, unit', fb')
    BY <2>1, TickShape
  <2>6. act' = Decide(stn, unit', fb')
    BY <2>4, <2>5
  <2>7. Unlocked(stn) # {}
    BY DEF Unlocked, Locks
  <2>8. QED
    BY <2>3, <2>4, <2>6, <2>7
<1>3. QED
  BY <1>1, <1>2 DEF LightsOutNext

LEMMA LightsOutLockRestsOn ==
  ASSUME IInv, IInv', [LightsOutNext]_vars, NEW s \in Station, Locks(s)
  PROVE  /\ \A t \in 0..N : fb'[t] = 0
         /\ \A u \in Locked(unit', s) : unit'[u].gates
         /\ HasSignals(unit', s) => \A u \in UnitsAt(unit', s) : WorkDone(u)'
<1>1. /\ stn \in Stations /\ Unlocked(stn) # {}
      /\ Decide(stn, unit', fb').tag = "Checkpoint"
      /\ Decide(stn, unit', fb').at = s
  BY LightsOutLock DEF IInv, TypeOK, Stations
<1>2. /\ \A t \in 0..N : ~(fb'[t] > 0)
      /\ \A u \in Locked(unit', s) : unit'[u].gates
      /\ HasSignals(unit', s) =>
           \A u \in UnitsAt(unit', s) :
               ReviewsSigned(unit', u) /\ LoopDone(unit', u) /\ ApprovalsSigned(unit', u)
  BY <1>1, CheckpointRestsOn
<1>3. \A t \in 0..N : fb'[t] \in Nat
  BY DEF IInv, TypeOK
<1>4. \A t \in 0..N : fb'[t] = 0
  BY <1>2, <1>3
<1>5. QED
  BY <1>2, <1>4 DEF WorkDone

LEMMA LightsOutInvariant == LightsOutSpec => []IInv
<1>1. IInv /\ [LightsOutNext]_vars => IInv'
  BY NextIInv DEF FreeNext
<1>2. QED
  BY <1>1, InitIInv, PTL DEF LightsOutSpec

\* No station of a lights-out run locks over a completed unit with a red quality
\* gate (the second gate check of derive_position).
THEOREM LocksOverGreenGates == LightsOutSpec => GatesHoldAtLock
<1>1. ASSUME IInv, IInv', [LightsOutNext]_vars
      PROVE  [\A s \in Station : Locks(s) => \A u \in Locked(unit', s) : unit'[u].gates]_vars
  BY <1>1, LightsOutLockRestsOn
<1>2. QED
  BY <1>1, LightsOutInvariant, PTL DEF LightsOutSpec, GatesHoldAtLock

\* ... nor while any finding of the run is open (the feedback track preempts).
THEOREM LocksOverCleanRun == LightsOutSpec => FindingsHoldLocks
<1>1. ASSUME IInv, IInv', [LightsOutNext]_vars
      PROVE  [\A s \in Station : Locks(s) => \A t \in 0..N : fb'[t] = 0]_vars
  BY <1>1, LightsOutLockRestsOn
<1>2. QED
  BY <1>1, LightsOutInvariant, PTL DEF LightsOutSpec, FindingsHoldLocks

\* ... nor over work that carries a signal and is not reviewed, beaten through
\* and approved, unit by unit (derive_station_phase with resolve_phase).
THEOREM LocksOverSignedWork == LightsOutSpec => SignalledLockIsSigned
<1>1. ASSUME IInv, IInv', [LightsOutNext]_vars
      PROVE  [\A s \in Station : Locks(s) /\ HasSignals(unit', s)
                 => \A u \in UnitsAt(unit', s) : WorkDone(u)']_vars
  BY <1>1, LightsOutLockRestsOn
<1>2. QED
  BY <1>1, LightsOutInvariant, PTL DEF LightsOutSpec, SignalledLockIsSigned
=============================================================================
