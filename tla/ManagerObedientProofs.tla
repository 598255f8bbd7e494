----------------------- MODULE ManagerObedientProofs -----------------------
(***************************************************************************)
(* What the manager keeps with an agent that does what the last tick asked *)
(* of it, for every plan, every set of units, workers and reviewers, every *)
(* mode and every budget.                                                  *)
(***************************************************************************)
EXTENDS ManagerProofs

-----------------------------------------------------------------------------
(* The invariant *)

WorkSigned(un, s) ==
    \A u \in UnitsAt(un, s) : ReviewsSigned(un, u) /\ LoopDone(un, u) /\ ApprovalsSigned(un, u)

\* A station whose units have all been through their Pass loop, within the
\* budget.  No call takes that away: a finished loop takes no beat, and only an
\* exhausted unit is reset.
Built(un, s) ==
    /\ UnitsAt(un, s) # {}
    /\ \A u \in UnitsAt(un, s) : LoopDone(un, u) /\ un[u].pass \in 1..MaxPasses

\* A station that is past Manufacture, whatever is re-opened or blocked there.
Late(st, s) ==
    \/ st[s].status \in {"Completed", "Blocked"}
    \/ st[s].phase \in {"Audit", "Reflect", "Checkpoint"}

LateIsBuilt(st, un) == \A s \in Station : Late(st, s) => Built(un, s)

LockedIsSigned(st, un) ==
    \A s \in Station : st[s].status = "Completed" => WorkSigned(un, s)

\* A unit completes only when its loop is done, and a loop takes beats.
Sound(un) ==
    \A u \in Unit :
        /\ un[u].status = "Completed" => LoopDone(un, u)
        /\ un[u].last > 0 => un[u].pass > 0
        /\ ~un[u].made => un[u] = Fresh(u)

\* What an action that is still on the table says of the documents.
Current(a, st, un) ==
    /\ a.tag = "Spec" => ~HasSignals(un, a.at)
    /\ a.tag = "Audit" => Built(un, a.at)
    /\ a.tag = "Checkpoint" /\ Mode # "dark" =>
         /\ Unlocked(st) # {} /\ a.at = Frontier(st)
         /\ Built(un, a.at) /\ WorkSigned(un, a.at)
    /\ a.tag = "UserGate" =>
         /\ Unlocked(st) # {} /\ a.at = Frontier(st)
         /\ st[a.at].phase = "UserGate"

WInv == IInv /\ Sound(unit) /\ LateIsBuilt(stn, unit) /\ LockedIsSigned(stn, unit)
             /\ Current(act, stn, unit)

Units == [Unit -> UnitStates]

-----------------------------------------------------------------------------
(* An obedient step is a step of the free agent *)

LEMMA NothingMet == ASSUME IInv PROVE Nothing \in Meets
<1>1. Cardinality({}) = 0
  BY FS_EmptySet
<1>2. filed \in Nat /\ filed <= MaxFilings
  BY PlanAssumption DEF IInv, TypeOK
<1>3. QED
  BY <1>1, <1>2, PlanAssumption DEF Nothing, Meets

\* Every call the obedient agent makes is one of the free agent's.
LEMMA AskedCalls ==
  ASSUME NEW s \in Station, AskedStation(s)
  PROVE  \/ \E u \in Unit : UnitCalls(u)
         \/ \E t \in Station : StationCalls(t)
         \/ \E t \in 0..N : FindingCalls(t)
<1> USE DEF UnitsAt
<1>1. CASE Specify(s)
  BY <1>1 DEF Specify, StationCalls, UnitCalls
<1>2. CASE Review(s)
  BY <1>2, PlanAssumption DEF Review, StationCalls
<1>3. CASE Manufacture(s)
  BY <1>3 DEF Manufacture, UnitCalls
<1>4. CASE LockUnit(s)
  BY <1>4 DEF LockUnit, UnitCalls
<1>5. CASE Audit(s)
  BY <1>5, PlanAssumption DEF Audit, StationCalls, UnitCalls
<1>6. CASE MakeValid(s)
  BY <1>6 DEF MakeValid, UnitCalls
<1>7. CASE Repair(s)
  BY <1>7 DEF Repair, FindingCalls
<1>8. CASE Recover(s)
  BY <1>8 DEF Recover, UnitCalls
<1>9. QED
  BY <1>1, <1>2, <1>3, <1>4, <1>5, <1>6, <1>7, <1>8 DEF AskedStation

LEMMA ObedientIsFree ==
  ASSUME IInv, [ObedientNext]_vars
  PROVE  [FreeNext]_vars
<1>1. CASE QuietTick \/ DecideAsked
  BY <1>1, NothingMet DEF QuietTick, DecideAsked, FreeNext, LightsOutNext
<1>2. CASE \E s \in Station : AskedStation(s)
  BY <1>2, AskedCalls DEF FreeNext, LightsOutNext
<1>3. CASE ReviewRun
  BY <1>3 DEF ReviewRun, FreeNext, LightsOutNext
<1>4. CASE \E s \in 0..N : FileFinding(s)
  BY <1>4 DEF FindingCalls, FreeNext, LightsOutNext
<1>5. QED
  BY <1>1, <1>2, <1>3, <1>4 DEF ObedientNext

LEMMA ObedientInvariant == ObedientSpec => []IInv
<1>1. IInv /\ [ObedientNext]_vars => IInv'
  BY ObedientIsFree, NextIInv
<1>2. QED
  BY <1>1, InitIInv, PTL DEF ObedientSpec

\* What the free agent never does, the obedient one never does.
THEOREM ObedientImplementsFree == ObedientSpec => FreeSpec
<1>1. IInv /\ [ObedientNext]_vars => [FreeNext]_vars
  BY ObedientIsFree
<1>2. QED
  BY <1>1, ObedientInvariant, PTL DEF ObedientSpec, FreeSpec

-----------------------------------------------------------------------------
(* What a derived action says of the documents it was derived from *)

LEMMA BuiltSignals ==
  ASSUME NEW un, NEW s, Built(un, s)
  PROVE  HasSignals(un, s)
  BY PlanAssumption DEF Built, HasSignals

\* The agent is asked to specify only a station without a signal.
LEMMA SpecIsSilent ==
  ASSUME NEW st, NEW un, NEW f, NEW s, s = Frontier(st), Unlocked(st) # {},
         Decide(st, un, f).tag = "Spec"
  PROVE  ~HasSignals(un, s)
<1> SUFFICES ASSUME HasSignals(un, s)
             PROVE  FALSE
  OBVIOUS
<1>1. Resolve(st[s].phase, un, s) # "Spec"
  BY DEF Resolve, Derived
<1>2. UnitsAt(un, s) = {}
  BY <1>1 DEF Decide, PhaseTag, ManufactureTag
<1>3. QED
  BY <1>2 DEF HasSignals

\* The cursor's answer at its station, whose lateness is earned.
LEMMA DecideRestsOn ==
  ASSUME NEW st \in Stations, NEW un \in Units, NEW f, Unlocked(st) # {}, Sound(un),
         NEW s, s = Frontier(st), Late(st, s) => Built(un, s),
         NEW a, a = Decide(st, un, f)
  PROVE  /\ a.tag = "Spec" => ~HasSignals(un, s)
         /\ a.tag = "Audit" => /\ Built(un, s)
                               /\ \A u \in UnitsAt(un, s) : ReviewsSigned(un, u)
         /\ a.tag \in {"Reflect", "Checkpoint"} => Built(un, s) /\ WorkSigned(un, s)
<1> DEFINE p == Resolve(st[s].phase, un, s)
<1>0. s \in Station
  BY FrontierUnlocked DEF Unlocked
<1>1. CASE \E t \in 0..N : f[t] > 0
  BY <1>1 DEF Decide
<1>2. CASE \E u \in UnitsAt(un, s) : un[u].pass > MaxPasses
  BY <1>2 DEF Decide
<1>3. CASE /\ ~(\E t \in 0..N : f[t] > 0)
           /\ ~(\E u \in UnitsAt(un, s) : un[u].pass > MaxPasses)
  <2>1. a.tag = PhaseTag(p, un, s)
    BY <1>3 DEF Decide
  <2>2. \A u \in UnitsAt(un, s) : /\ un[u].pass \in 0..MaxPasses /\ un[u].last \in 0..W
                                  /\ LoopDone(un, u) => un[u].pass \in 1..MaxPasses
    <3>1. SUFFICES ASSUME NEW u \in UnitsAt(un, s)
                   PROVE  /\ un[u].pass \in 0..MaxPasses /\ un[u].last \in 0..W
                          /\ LoopDone(un, u) => un[u].pass \in 1..MaxPasses
      OBVIOUS
    <3>2. u \in Unit /\ un[u] \in UnitStates
      BY DEF UnitsAt, Units
    <3>3. un[u].pass \in 0..(MaxPasses + 1) /\ un[u].last \in 0..W
      BY <3>2 DEF UnitStates
    <3>4. un[u].last > 0 => un[u].pass > 0
      BY <3>2 DEF Sound
    <3>5. QED
      BY <1>3, <3>3, <3>4, PlanAssumption DEF LoopDone
  <2>3. \A u \in Locked(un, s) : LoopDone(un, u)
    BY DEF Locked, UnitsAt, Sound
  <2>4. ~HasSignals(un, s) => st[s].phase \notin {"Audit", "Reflect", "Checkpoint"}
    BY BuiltSignals DEF Late
  <2>5. HasSignals(un, s) => UnitsAt(un, s) # {}
    BY DEF HasSignals
  <2>6. UnitsAt(un, s) # {} /\ (\A u \in UnitsAt(un, s) : LoopDone(un, u))
          => Built(un, s) /\ HasSignals(un, s) /\ Derived(un, s) # "Manufacture"
    BY <2>2, BuiltSignals DEF Built, Derived
  <2>7. p = "Manufacture" => ManufactureTag(un, s) # "Audit"
    <3>1. ASSUME p = "Manufacture", ManufactureTag(un, s) = "Audit"
          PROVE  FALSE
      <4>1. UnitsAt(un, s) # {} /\ Locked(un, s) = UnitsAt(un, s)
        BY <3>1 DEF ManufactureTag
      <4>2. Derived(un, s) # "Manufacture" /\ HasSignals(un, s)
        BY <2>3, <2>6, <4>1
      <4>3. QED
        BY <3>1, <4>2 DEF Resolve
    <3>2. QED
      BY <3>1
  <2>8. a.tag \in {"Audit", "Reflect", "Checkpoint"} => p = a.tag
    BY <2>1, <2>7 DEF PhaseTag, ManufactureTag
  <2>9. p \in {"Audit", "Reflect", "Checkpoint"} =>
          /\ HasSignals(un, s)
          /\ Derived(un, s) = IF p = "Audit" THEN "Audit" ELSE "Checkpoint"
    <3>1. Derived(un, s) \in {"Review", "Manufacture", "Audit", "Checkpoint"}
      BY DEF Derived
    <3>2. QED
      BY <2>4, <3>1 DEF Resolve
  <2>10. Derived(un, s) \in {"Audit", "Checkpoint"} =>
           \A u \in UnitsAt(un, s) : LoopDone(un, u) /\ ReviewsSigned(un, u)
    BY DEF Derived
  <2>11. Derived(un, s) = "Checkpoint" => WorkSigned(un, s)
    BY DEF Derived, WorkSigned
  <2>12. a.tag = "Spec" => ~HasSignals(un, s)
    BY SpecIsSilent
  <2>13. QED
    BY <2>5, <2>6, <2>8, <2>9, <2>10, <2>11, <2>12
<1>4. QED
  BY <1>1, <1>2, <1>3

-----------------------------------------------------------------------------
(* What an action does to the stations *)

\* A station that starts over.
BackToSpec(st, st1, t) ==
    /\ st[t].status \notin {"Completed", "InProgress"}
    /\ st1[t].status = "Pending" /\ st1[t].phase = "Spec"

LEMMA CompleteResets ==
  ASSUME NEW st \in Stations, NEW s \in Station, NEW t \in Station \ {s}
  PROVE  \/ Complete(st, s)[t] = st[t]
         \/ t = s + 1 /\ BackToSpec(st, Complete(st, s), t)
<1> DEFINE locked == [st EXCEPT ![s].status = "Completed", ![s].outcome = "Advanced"]
<1>0. locked \in Stations /\ locked[t] = st[t]
  <2>1. st[s] \in StationStates
    BY DEF Stations
  <2>2. [st[s] EXCEPT !.status = "Completed", !.outcome = "Advanced"] \in StationStates
    BY <2>1 DEF StationStates
  <2>3. locked = [st EXCEPT ![s] = [st[s] EXCEPT !.status = "Completed", !.outcome = "Advanced"]]
    BY DEF Stations
  <2>4. QED
    BY <2>2, <2>3 DEF Stations
<1>1. CASE s = N \/ st[s + 1].status \in {"Completed", "InProgress"}
  BY <1>0, <1>1 DEF Complete
<1>2. CASE ~(s = N \/ st[s + 1].status \in {"Completed", "InProgress"})
  <2>1. s + 1 \in Station
    BY <1>2, PlanAssumption DEF Station
  <2>2. Complete(st, s) = [locked EXCEPT ![s + 1].status = "Pending", ![s + 1].phase = "Spec"]
    BY <1>2 DEF Complete
  <2> HIDE DEF locked
  <2>3. CASE t = s + 1
    <3>1. locked[t] \in StationStates
      BY <1>0 DEF Stations
    <3>2. Complete(st, s)[t] = [locked[t] EXCEPT !.status = "Pending", !.phase = "Spec"]
      BY <1>0, <2>1, <2>2, <2>3 DEF Stations
    <3>3. QED
      BY <1>2, <2>3, <3>1, <3>2 DEF BackToSpec, StationStates
  <2>4. CASE t # s + 1
    BY <1>0, <2>1, <2>2, <2>4 DEF Stations
  <2>5. QED
    BY <2>3, <2>4
<1>3. QED
  BY <1>1, <1>2

\* The phases an action stamps on its station; the others leave it alone.
Stamped(a, st, phase) ==
    /\ a.tag = "Spec" => phase \in {"Spec", "Review"}
    /\ a.tag = "Review" => phase = IF Mode = "dark" THEN "Manufacture" ELSE "UserGate"
    /\ a.tag \in {"UserGate", "Manufacture"} => phase = a.tag
    /\ a.tag = "Audit" => phase = "Reflect"
    /\ a.tag = "Reflect" => phase = "Checkpoint"
    /\ a.tag \notin {"Spec", "Review", "UserGate", "Manufacture", "Audit", "Reflect"} =>
         phase = st[a.at].phase

LEMMA AdvanceEffect ==
  ASSUME NEW st \in Stations, NEW a \in Actions, a.at \in Station,
         NEW st1, st1 = Advance(st, a)
  PROVE  /\ Stamped(a, st, st1[a.at].phase)
         /\ st1[a.at].status = IF a.tag = "Spec" THEN "InProgress"
                               ELSE IF a.tag = "Checkpoint" /\ Mode = "dark" THEN "Completed"
                               ELSE st[a.at].status
         /\ a.tag = "Checkpoint" /\ Mode # "dark" =>
              st1[a.at].entered /\ st1[a.at].outcome = "none"
         /\ \A t \in Station \ {a.at} :
               \/ st1[t] = st[t]
               \/ /\ a.tag = "Checkpoint" /\ Mode = "dark"
                  /\ t = a.at + 1 /\ BackToSpec(st, st1, t)
<1> DEFINE s == a.at
<1>0. st[s] \in StationStates
  BY DEF Stations
<1>1. CASE a.tag = "Spec"
  BY <1>0, <1>1 DEF Advance, Stamped, Stations, StationStates
<1>2. CASE a.tag \in {"Review", "UserGate", "Manufacture", "Audit", "Reflect"}
  <2>1. PICK ph \in Phases : st1 = SetPhase(st, s, ph) /\ Stamped(a, st, ph)
    BY <1>2 DEF Advance, Stamped, Phases
  <2>2. QED
    BY <1>0, <1>2, <2>1 DEF SetPhase, Stations, StationStates
<1>3. CASE a.tag = "Checkpoint"
  <2> DEFINE st0 == EnterSlot(st, s)
  <2>1. /\ st0 \in Stations
        /\ st0[s].status = st[s].status /\ st0[s].phase = st[s].phase
        /\ st0[s].entered /\ st0[s].outcome = "none"
        /\ \A t \in Station \ {s} : st0[t] = st[t]
    BY <1>0 DEF EnterSlot, Stations, StationStates
  <2> HIDE DEF st0
  <2>2. CASE Mode # "dark"
    <3>1. st1 = st0
      BY <1>3, <2>2 DEF Advance, st0
    <3>2. QED
      BY <1>3, <2>1, <2>2, <3>1 DEF Stamped
  <2>3. CASE Mode = "dark"
    <3>1. st1 = Complete(st0, s)
      BY <1>3, <2>3 DEF Advance, st0
    <3>2. st1[s].status = "Completed" /\ st1[s].phase = st[s].phase
      BY <2>1, <3>1, CompleteEffect
    <3>3. \A t \in Station \ {s} : st1[t] = st[t] \/ (t = s + 1 /\ BackToSpec(st, st1, t))
      BY <2>1, <3>1, CompleteResets DEF BackToSpec
    <3>4. QED
      BY <1>3, <2>3, <3>2, <3>3 DEF Stamped
  <2>4. QED
    BY <2>2, <2>3
<1>4. CASE a.tag \notin {"Spec", "Review", "UserGate", "Manufacture", "Audit", "Reflect",
                         "Checkpoint"}
  BY <1>4 DEF Advance, Stamped
<1>5. QED
  BY <1>1, <1>2, <1>3, <1>4

-----------------------------------------------------------------------------
(* Ticks and decisions *)

\* A tick over the stations st, with the releases rel.
Turn(st, rel) ==
    /\ unit' = unit
    /\ act' = Decide(st, unit, fb')
    /\ stn' = Advance(st, act')
    /\ released' = {s \in rel : stn'[s].phase # "UserGate"}

\* What a tick, or the decision it ends, is handed.
Handed(st, rel) ==
    \/ st = stn /\ rel = released
    \/ /\ Mode # "dark" /\ Unlocked(stn) # {}
       /\ \/ /\ stn[Frontier(stn)].phase = "UserGate"
             /\ st = ReleasedStations /\ rel = released \cup {Frontier(stn)}
          \/ /\ stn[Frontier(stn)].phase # "UserGate"
             /\ act.tag \in {"UserGate", "Checkpoint"}
             /\ \/ st = ApprovedStations /\ AtHold(stn, Frontier(stn))
                \/ st = BlockedStations
             /\ rel = released

LEMMA QuietShape ==
  ASSUME IInv, NEW st, NEW f, NEW n, NEW rel, TickFrom(st, f, n, rel, Nothing)
  PROVE  Turn(st, rel)
<1>1. unit' = [u \in Unit |-> unit[u]]
  BY DEF TickFrom, Nothing
<1>2. unit' = unit
  BY <1>1 DEF IInv, TypeOK
<1>3. /\ stn' = Advance(st, act') /\ released' = {s \in rel : stn'[s].phase # "UserGate"}
      /\ act' = Decide(st, unit', fb')
  BY DEF TickFrom, Nothing
<1>4. QED
  BY <1>2, <1>3 DEF Turn

LEMMA ObedientTurn ==
  ASSUME IInv, QuietTick \/ DecideAsked
  PROVE  \E st \in Stations, rel \in SUBSET Station : Turn(st, rel) /\ Handed(st, rel)
<1>0. stn \in Stations /\ released \in SUBSET Station
  BY DEF IInv, TypeOK, Stations
<1>1. CASE QuietTick
  BY <1>0, <1>1, QuietShape DEF QuietTick, Tick, Handed
<1>2. CASE DecideAsked
  <2>0. Mode # "dark" /\ act.tag \in {"UserGate", "Checkpoint"} /\ OperatorCalls(Nothing)
    BY <1>2 DEF DecideAsked
  <2>1. CASE Release(Nothing)
    <3>1. /\ Unlocked(stn) # {} /\ stn[Frontier(stn)].phase = "UserGate"
          /\ Turn(ReleasedStations, released \cup {Frontier(stn)})
      BY <2>1, QuietShape DEF Release, ReleasedStations
    <3>2. ReleasedStations \in Stations /\ released \cup {Frontier(stn)} \in SUBSET Station
      BY <1>0, <3>1, DecisionStations
    <3>3. QED
      BY <2>0, <3>1, <3>2 DEF Handed
  <2>2. CASE Approve(Nothing)
    <3>1. /\ Unlocked(stn) # {} /\ stn[Frontier(stn)].phase # "UserGate"
          /\ AtHold(stn, Frontier(stn)) /\ Turn(ApprovedStations, released)
      BY <2>2, QuietShape DEF Approve, ApprovedStations
    <3>2. QED
      BY <1>0, <2>0, <3>1, DecisionStations DEF Handed
  <2>3. ASSUME NEW words \in BOOLEAN, NEW marks \in BOOLEAN, Block(words, marks, Nothing)
        PROVE  \E st \in Stations : Turn(st, released) /\ Handed(st, released)
    <3>1. PICK st \in Stations, f \in [0..N -> Nat], n \in Nat :
            /\ Unlocked(stn) # {}
            /\ TickFrom(st, f, n, released, Nothing)
            /\ \/ st = stn
               \/ stn[Frontier(stn)].phase # "UserGate" /\ st = BlockedStations
      BY <2>3, BlockShape
    <3>2. QED
      BY <2>0, <3>1, QuietShape DEF Handed
  <2>4. QED
    BY <1>0, <2>0, <2>1, <2>2, <2>3 DEF OperatorCalls
<1>3. QED
  BY <1>1, <1>2

\* A lock takes effect on a station that was asked about, and signed.
LEMMA HandedIsSound ==
  ASSUME WInv, NEW st \in Stations, NEW rel, Handed(st, rel)
  PROVE  LateIsBuilt(st, unit) /\ LockedIsSigned(st, unit)
<1> DEFINE s == Frontier(stn)
<1>0. stn \in Stations /\ LateIsBuilt(stn, unit) /\ LockedIsSigned(stn, unit)
  BY DEF WInv, IInv, TypeOK, Stations
<1>1. CASE st = stn
  BY <1>0, <1>1
<1>2. CASE Unlocked(stn) # {} /\ st = ReleasedStations
  BY <1>0, <1>2
     DEF ReleasedStations, SetPhase, LateIsBuilt, LockedIsSigned, Late, Stations, StationStates
<1>3. CASE /\ Mode # "dark" /\ Unlocked(stn) # {} /\ stn[s].phase # "UserGate"
           /\ act.tag \in {"UserGate", "Checkpoint"}
           /\ st \in {ApprovedStations, BlockedStations}
  <2>1. s \in Station /\ Built(unit, s) /\ WorkSigned(unit, s)
    BY <1>3, FrontierUnlocked DEF WInv, Current, Unlocked
  <2> HIDE DEF s
  <2>2. \A t \in Station \ {s} : \/ st[t] = stn[t]
                                 \/ st[t].status = "Pending" /\ st[t].phase = "Spec"
    <3>1. CASE st = ApprovedStations
      BY <1>0, <2>1, <3>1, CompleteResets DEF ApprovedStations, BackToSpec, s
    <3>2. CASE st = BlockedStations
      BY <1>0, <2>1, <3>2 DEF BlockedStations, Stations, s
    <3>3. QED
      BY <1>3, <3>1, <3>2
  <2>3. QED
    BY <1>0, <2>1, <2>2 DEF LateIsBuilt, LockedIsSigned, Late
<1>4. QED
  BY <1>1, <1>2, <1>3 DEF Handed

\* What the stations handed to a tick earned, those it leaves have earned.
LEMMA TurnIsSound ==
  ASSUME NEW st \in Stations, NEW rel, Turn(st, rel), unit \in Units, Sound(unit),
         LateIsBuilt(st, unit), LockedIsSigned(st, unit)
  PROVE  /\ LateIsBuilt(stn', unit') /\ LockedIsSigned(stn', unit')
         /\ Current(act', stn', unit')
<1> DEFINE s == act'.at
<1>0. unit' = unit /\ act' = Decide(st, unit, fb') /\ stn' = Advance(st, act')
  BY DEF Turn
<1>1. CASE Unlocked(st) = {}
  <2>1. act'.tag \in {"RunReview", "Sealed"}
    BY <1>0, <1>1, DecideType
  <2>2. stn' = st
    BY <1>0, <2>1 DEF Advance
  <2>3. QED
    BY <1>0, <2>1, <2>2 DEF Current
<1>2. CASE Unlocked(st) # {}
  <2>1. act' \in Actions /\ s = Frontier(st) /\ s \in Station /\ st[s].status # "Completed"
    BY <1>0, <1>2, DecideType
  <2>2. /\ act'.tag = "Spec" => ~HasSignals(unit, s)
        /\ act'.tag = "Audit" => Built(unit, s)
        /\ act'.tag \in {"Reflect", "Checkpoint"} => Built(unit, s) /\ WorkSigned(unit, s)
    BY <1>0, <1>2, <2>1, DecideRestsOn DEF LateIsBuilt
  <2>3. /\ Stamped(act', st, stn'[s].phase)
        /\ stn'[s].status = IF act'.tag = "Spec" THEN "InProgress"
                            ELSE IF act'.tag = "Checkpoint" /\ Mode = "dark" THEN "Completed"
                            ELSE st[s].status
        /\ \A t \in Station \ {s} :
              \/ stn'[t] = st[t]
              \/ /\ act'.tag = "Checkpoint" /\ Mode = "dark"
                 /\ BackToSpec(st, stn', t)
    BY <1>0, <2>1, AdvanceEffect
  <2> HIDE DEF s
  <2>4. Late(stn', s) => Built(unit, s)
    <3>1. CASE act'.tag \in {"Audit", "Reflect", "Checkpoint"}
      BY <2>2, <3>1
    <3>2. CASE act'.tag = "Review"
      BY <2>1, <2>3, <3>2 DEF Late, Stamped, LateIsBuilt
    <3>3. CASE act'.tag \in {"Spec", "UserGate", "Manufacture"}
      BY <2>1, <2>3, <3>3 DEF Late, Stamped, LateIsBuilt
    <3>4. CASE act'.tag \notin {"Spec", "Review", "UserGate", "Manufacture", "Audit", "Reflect",
                                "Checkpoint"}
      BY <2>1, <2>3, <3>4 DEF Late, Stamped, LateIsBuilt, s
    <3>5. QED
      BY <3>1, <3>2, <3>3, <3>4
  <2>5. stn'[s].status = "Completed" => WorkSigned(unit, s)
    BY <2>1, <2>2, <2>3
  <2>6. LateIsBuilt(stn', unit) /\ LockedIsSigned(stn', unit)
    BY <2>3, <2>4, <2>5 DEF LateIsBuilt, LockedIsSigned, Late, BackToSpec
  <2>7. act'.tag \in {"UserGate", "Checkpoint"} /\ (act'.tag = "Checkpoint" => Mode # "dark") =>
          Unlocked(stn') # {} /\ s = Frontier(stn')
    <3>1. SUFFICES ASSUME act'.tag \in {"UserGate", "Checkpoint"},
                          act'.tag = "Checkpoint" => Mode # "dark"
                   PROVE  Unlocked(stn') # {} /\ s = Frontier(stn')
      OBVIOUS
    <3>2. \A t \in Station : stn'[t].status = st[t].status
      BY <2>3, <3>1
    <3>3. Unlocked(stn') = Unlocked(st)
      BY <3>2 DEF Unlocked
    <3>4. QED
      BY <1>2, <2>1, <3>3 DEF Frontier
  <2>8. act'.tag = "UserGate" => stn'[s].phase = "UserGate"
    BY <2>3 DEF Stamped
  <2>9. Current(act', stn', unit)
    BY <2>2, <2>7, <2>8 DEF Current, s
  <2>10. QED
    BY <1>0, <2>6, <2>9
<1>3. QED
  BY <1>1, <1>2

-----------------------------------------------------------------------------
(* The calls *)

\* What a call that leaves the action on the table has to keep.
LEMMA Carry ==
  ASSUME WInv, IInv', act' = act, Sound(unit'),
         \A t \in Station : Built(unit, t) => Built(unit', t),
         \A t \in Station : Late(stn', t) => Late(stn, t),
         \A t \in Station : stn'[t].status = "Completed" /\ Built(unit, t) /\ WorkSigned(unit, t)
                              => stn[t].status = "Completed" /\ WorkSigned(unit', t),
         \A t \in Station : stn'[t].status = "Completed" => stn[t].status = "Completed",
         act.tag = "Spec" => ~HasSignals(unit', act.at),
         act.tag = "Audit" => act.at \in Station,
         act.tag \in {"Checkpoint", "UserGate"} => stn' = stn /\ unit' = unit
  PROVE  WInv'
<1>1. LateIsBuilt(stn', unit')
  BY DEF WInv, LateIsBuilt
<1>2. LockedIsSigned(stn', unit')
  <2>1. SUFFICES ASSUME NEW t \in Station, stn'[t].status = "Completed"
                 PROVE  WorkSigned(unit', t)
    BY DEF LockedIsSigned
  <2>2. Built(unit, t) /\ WorkSigned(unit, t)
    BY <2>1 DEF WInv, LateIsBuilt, LockedIsSigned, Late
  <2>3. QED
    BY <2>1, <2>2
<1>3. Current(act', stn', unit')
  BY DEF WInv, Current
<1>4. QED
  BY <1>1, <1>2, <1>3 DEF WInv

\* The unit documents where no beat is taken and no stamp is lost.
Grows(un, un1) ==
    \A u \in Unit :
        /\ un1[u].made = un[u].made /\ (~un[u].made => un1[u] = un[u])
        /\ un1[u].last = un[u].last /\ un1[u].settled = un[u].settled
        /\ un1[u].pass = un[u].pass
        /\ un[u].reviews \subseteq un1[u].reviews
        /\ un[u].approvals \subseteq un1[u].approvals
        /\ un1[u].status = un[u].status \/ LoopDone(un, u)

LEMMA GrowthKeeps ==
  ASSUME NEW un, NEW un1, Grows(un, un1)
  PROVE  /\ Sound(un) => Sound(un1)
         /\ \A t \in Station : /\ Built(un, t) => Built(un1, t)
                               /\ WorkSigned(un, t) => WorkSigned(un1, t)
<1>1. \A t : UnitsAt(un1, t) = UnitsAt(un, t)
  BY DEF Grows, UnitsAt
<1>2. \A u \in Unit : /\ LoopDone(un, u) => LoopDone(un1, u)
                      /\ ReviewsSigned(un, u) => ReviewsSigned(un1, u)
                      /\ ApprovalsSigned(un, u) => ApprovalsSigned(un1, u)
  BY DEF Grows, LoopDone, ReviewsSigned, ApprovalsSigned
<1>3. \A t : UnitsAt(un, t) \subseteq Unit
  BY DEF UnitsAt
<1>4. Sound(un) => Sound(un1)
  BY <1>2 DEF Sound, Grows
<1>5. QED
  BY <1>1, <1>2, <1>3, <1>4 DEF Built, WorkSigned, Grows

\* A call that grows the documents, on a request that neither specifies nor
\* decides.
LEMMA GrowthCall ==
  ASSUME WInv, IInv', act' = act, stn' = stn, Grows(unit, unit'),
         act.at \in Station, act.tag \notin {"Spec", "Checkpoint", "UserGate"}
  PROVE  WInv'
<1>1. /\ Sound(unit')
      /\ \A t \in Station : /\ Built(unit, t) => Built(unit', t)
                            /\ WorkSigned(unit, t) => WorkSigned(unit', t)
  BY GrowthKeeps DEF WInv
<1>2. \A t \in Station : Late(stn', t) => Late(stn, t)
  OBVIOUS
<1>3. QED
  BY <1>1, <1>2, Carry

LEMMA SpecifyKeeps ==
  ASSUME WInv, IInv', NEW s \in Station, Specify(s)
  PROVE  WInv'
<1>0. act.tag = "Spec" /\ act.at = s /\ ~HasSignals(unit, s)
  BY DEF Specify, Asked, WInv, Current
<1>1. CASE ElaborateSeal(s)
  <2>1. unit' = unit /\ act' = act /\ stn' = [stn EXCEPT ![s].elaborated = TRUE]
    BY <1>1 DEF ElaborateSeal
  <2>2. \A t \in Station : stn'[t].status = stn[t].status /\ stn'[t].phase = stn[t].phase
    BY <2>1 DEF WInv, IInv, TypeOK, StationStates
  <2>3. \A t \in Station : Late(stn', t) => Late(stn, t)
    BY <2>2 DEF Late
  <2>4. QED
    BY <1>0, <2>1, <2>2, <2>3, Carry DEF WInv
<1>2. ASSUME NEW u \in Unit, StationOf[u] = s, CreateUnit(u)
      PROVE  WInv'
  <2>0. unit \in Units /\ unit[u] = Fresh(u) /\ Sound(unit)
    BY <1>2 DEF WInv, IInv, TypeOK, Units, CreateUnit, Sound
  <2>1. /\ unit' = [unit EXCEPT ![u].made = TRUE] /\ act' = act /\ stn' = stn
    BY <1>2 DEF CreateUnit
  <2>2. /\ \A x \in Unit \ {u} : unit'[x] = unit[x]
        /\ unit'[u] = Cleared(u)
    BY <2>0, <2>1 DEF Units, Cleared
  <2>3. Sound(unit')
    BY <2>0, <2>2 DEF Sound, Cleared, Fresh, LoopDone
  <2>4. ~HasSignals(unit', s)
    <3>1. \A x \in UnitsAt(unit', s) : x = u \/ x \in UnitsAt(unit, s)
      BY <2>2 DEF UnitsAt
    <3>2. unit'[u].reviews = {} /\ unit'[u].approvals = {} /\ unit'[u].pass = 0
      BY <2>2 DEF Cleared, Fresh
    <3>3. \A x \in UnitsAt(unit, s) : x # u => unit'[x] = unit[x]
      BY <2>2 DEF UnitsAt
    <3>4. QED
      BY <1>0, <3>1, <3>2, <3>3 DEF HasSignals
  <2>5. ~Built(unit, s)
    BY <1>0, BuiltSignals
  <2>6. \A t \in Station \ {s} : UnitsAt(unit', t) = UnitsAt(unit, t)
    BY <1>2, <2>2 DEF UnitsAt
  <2>7. \A t \in Station \ {s} : \A x \in UnitsAt(unit, t) : unit'[x] = unit[x]
    BY <1>2, <2>2 DEF UnitsAt
  <2>8. \A t \in Station \ {s} : /\ Built(unit, t) => Built(unit', t)
                                 /\ WorkSigned(unit, t) => WorkSigned(unit', t)
    BY <2>6, <2>7 DEF Built, WorkSigned, LoopDone, ReviewsSigned, ApprovalsSigned
  <2>9. QED
    BY <1>0, <2>1, <2>3, <2>4, <2>5, <2>8, Carry
<1>3. QED
  BY <1>1, <1>2 DEF Specify

LEMMA ReviewKeeps ==
  ASSUME WInv, IInv', NEW s \in Station, Review(s)
  PROVE  WInv'
<1>1. PICK r \in Reviewer : StampReview(s, r)
  BY PlanAssumption DEF Review
<1>2. unit \in Units
  BY DEF WInv, IInv, TypeOK, Units
<1>3. Grows(unit, unit')
  <2>1. \A u \in Unit : unit'[u] = IF u \in UnitsAt(unit, s)
                                   THEN [unit[u] EXCEPT !.reviews = @ \cup {r}] ELSE unit[u]
    BY <1>1 DEF StampReview
  <2>2. QED
    BY <1>2, <2>1 DEF Grows, Units, UnitStates, UnitsAt
<1>4. QED
  BY <1>1, <1>3, GrowthCall DEF Review, Asked, StampReview

LEMMA AuditKeeps ==
  ASSUME WInv, IInv', NEW s \in Station, Audit(s)
  PROVE  WInv'
<1>0. unit \in Units
  BY DEF WInv, IInv, TypeOK, Units
<1>1. ASSUME NEW r \in Reviewer, StampApproval(s, r)
      PROVE  Grows(unit, unit')
  <2>1. \A u \in Unit : unit'[u] = IF u \in UnitsAt(unit, s)
                                   THEN [unit[u] EXCEPT !.approvals = @ \cup {r}] ELSE unit[u]
    BY <1>1 DEF StampApproval
  <2>2. QED
    BY <1>0, <2>1 DEF Grows, Units, UnitStates, UnitsAt
<1>2. ASSUME NEW u \in UnitsAt(unit, s), NEW ok \in BOOLEAN, RecordGates(u, ok)
      PROVE  Grows(unit, unit')
  BY <1>0, <1>2 DEF RecordGates, Edit, Grows, Units, UnitStates, UnitsAt
<1>3. Grows(unit, unit') /\ stn' = stn /\ act' = act
  BY <1>1, <1>2, PlanAssumption DEF Audit, StampApproval, RecordGates, Edit
<1>4. QED
  BY <1>3, GrowthCall DEF Audit, Asked

LEMMA MakeValidKeeps ==
  ASSUME WInv, IInv', NEW s \in Station, MakeValid(s)
  PROVE  WInv'
<1>0. unit \in Units
  BY DEF WInv, IInv, TypeOK, Units
<1>1. Grows(unit, unit') /\ stn' = stn /\ act' = act
  BY <1>0 DEF MakeValid, RecordGates, WriteOutput, Edit, Grows, Units, UnitStates, UnitsAt
<1>2. QED
  BY <1>1, GrowthCall DEF MakeValid, Asked

LEMMA LockUnitKeeps ==
  ASSUME WInv, IInv', NEW s \in Station, LockUnit(s)
  PROVE  WInv'
<1>0. unit \in Units
  BY DEF WInv, IInv, TypeOK, Units
<1>1. Grows(unit, unit') /\ stn' = stn /\ act' = act
  BY <1>0 DEF LockUnit, SetStatus, Edit, Grows, Units, UnitStates, UnitsAt
<1>2. QED
  BY <1>1, GrowthCall DEF LockUnit, Asked

\* A call that touches one document of a station that is not built.
LEMMA UnbuiltCall ==
  ASSUME WInv, IInv', act' = act, stn' = stn, Sound(unit'),
         NEW u \in Unit, ~Built(unit, StationOf[u]),
         \A x \in Unit \ {u} : unit'[x] = unit[x],
         act.at \in Station, act.tag \notin {"Spec", "Checkpoint", "UserGate"}
  PROVE  WInv'
<1>1. ASSUME NEW t \in Station
      PROVE  /\ Built(unit, t) => Built(unit', t)
             /\ Built(unit, t) /\ WorkSigned(unit, t) => WorkSigned(unit', t)
  <2>1. CASE t = StationOf[u]
    BY <2>1
  <2>2. CASE t # StationOf[u]
    <3>1. UnitsAt(unit', t) = UnitsAt(unit, t) /\ \A x \in UnitsAt(unit, t) : unit'[x] = unit[x]
      BY <2>2 DEF UnitsAt
    <3>2. QED
      BY <3>1 DEF Built, WorkSigned, LoopDone, ReviewsSigned, ApprovalsSigned
  <2>3. QED
    BY <2>1, <2>2
<1>2. \A t \in Station : Late(stn', t) => Late(stn, t)
  OBVIOUS
<1>3. QED
  BY <1>1, <1>2, Carry

LEMMA ManufactureKeeps ==
  ASSUME WInv, IInv', NEW s \in Station, Manufacture(s)
  PROVE  WInv'
<1>0. unit \in Units /\ Sound(unit)
  BY DEF WInv, IInv, TypeOK, Units
<1>1. PICK u \in UnitsAt(unit, s), w \in Workers, ok \in BOOLEAN :
        ~LoopDone(unit, u) /\ Beat(u, w, ok)
  BY DEF Manufacture, WorkerTurn
<1>2. u \in Unit /\ StationOf[u] = s /\ ~Built(unit, s)
  BY <1>1 DEF UnitsAt, Built
<1>3. /\ \A x \in Unit \ {u} : unit'[x] = unit[x]
      /\ unit'[u].made /\ unit'[u].pass = unit[u].pass + 1
      /\ unit'[u].status # "Completed"
      /\ stn' = stn /\ act' = act
  <2>1. unit[u].status # "Completed"
    BY <1>0, <1>1, <1>2 DEF Sound
  <2>2. QED
    BY <1>0, <1>1, <1>2, <2>1 DEF Beat, Edit, Units, UnitStates
<1>4. Sound(unit')
  <2>1. unit[u].pass + 1 > 0
    BY <1>0, <1>2, PlanAssumption DEF Units, UnitStates
  <2>2. QED
    BY <1>0, <1>2, <1>3, <2>1 DEF Sound, LoopDone, Units
<1>5. act.at \in Station /\ act.tag \notin {"Spec", "Checkpoint", "UserGate"}
  BY DEF Manufacture, Asked
<1>6. QED
  BY <1>2, <1>3, <1>4, <1>5, UnbuiltCall

LEMMA RecoverKeeps ==
  ASSUME WInv, IInv', NEW s \in Station, Recover(s)
  PROVE  WInv'
<1>0. unit \in Units /\ Sound(unit)
  BY DEF WInv, IInv, TypeOK, Units
<1>1. PICK u \in UnitsAt(unit, s) : unit[u].pass > MaxPasses /\ ResetUnit(u)
  BY DEF Recover
<1>2. u \in Unit /\ StationOf[u] = s
  BY <1>1 DEF UnitsAt
<1>3. ~Built(unit, s)
  <2>1. unit[u].pass \notin 1..MaxPasses
    BY <1>0, <1>1, <1>2, PlanAssumption DEF Units, UnitStates
  <2>2. QED
    BY <1>1, <2>1 DEF Built
<1>4. /\ \A x \in Unit \ {u} : unit'[x] = unit[x]
      /\ unit'[u].made /\ unit'[u].last = 0 /\ unit'[u].status = "Pending"
      /\ stn' = stn /\ act' = act
  BY <1>0, <1>1, <1>2 DEF ResetUnit, Edit, Cleared, Fresh, Units
<1>5. Sound(unit')
  BY <1>0, <1>2, <1>4 DEF Sound, LoopDone
<1>6. act.at \in Station /\ act.tag \notin {"Spec", "Checkpoint", "UserGate"}
  BY DEF Recover, Asked
<1>7. QED
  BY <1>2, <1>3, <1>4, <1>5, <1>6, UnbuiltCall

\* A fix takes stamps back and re-opens the station it took them from.
LEMMA RepairKeeps ==
  ASSUME WInv, IInv', NEW s \in Station, Repair(s)
  PROVE  WInv'
<1>0. /\ unit \in Units /\ Sound(unit) /\ stn \in Stations
      /\ act.at \in Station /\ act.tag = "FixFeedback"
  BY DEF WInv, IInv, TypeOK, Units, Stations, Repair, Asked
<1>1. PICK t \in 0..N, roles \in SUBSET Reviewer : ResolveFinding(t, roles)
  BY DEF Repair
<1> DEFINE hit == {u \in Unit : u \in UnitsAt(unit, t)
                                /\ roles \cap (unit[u].reviews \cup unit[u].approvals) # {}}
<1>2. /\ unit' = [u \in Unit |-> IF u \in hit
                                 THEN [unit[u] EXCEPT !.reviews = @ \ roles,
                                                      !.approvals = @ \ roles]
                                 ELSE unit[u]]
      /\ stn' = IF hit # {} THEN Reopen(stn, t) ELSE stn
      /\ act' = act
  BY <1>1 DEF ResolveFinding
<1>3. hit # {} => t \in Station
  BY PlanAssumption DEF UnitsAt
<1>4. hit \subseteq UnitsAt(unit, t)
  OBVIOUS
<1> HIDE DEF hit
<1>5. \A u \in Unit : /\ unit'[u].made = unit[u].made /\ unit'[u].status = unit[u].status
                      /\ unit'[u].last = unit[u].last /\ unit'[u].settled = unit[u].settled
                      /\ unit'[u].pass = unit[u].pass
                      /\ u \notin hit => unit'[u] = unit[u]
  BY <1>0, <1>2 DEF Units, UnitStates
<1>6. Sound(unit')
  BY <1>0, <1>4, <1>5 DEF Sound, LoopDone, UnitsAt
<1>7. \A x \in Station : UnitsAt(unit', x) = UnitsAt(unit, x) /\ (Built(unit, x) => Built(unit', x))
  BY <1>5 DEF UnitsAt, Built, LoopDone
<1>8. \A x \in Station : /\ Late(stn', x) => Late(stn, x)
                         /\ stn'[x].status = "Completed" =>
                              stn[x].status = "Completed" /\ (x = t => hit = {})
  BY <1>0, <1>2, <1>3 DEF Reopen, Late, Stations, StationStates
<1>9. ASSUME NEW x \in Station, stn'[x].status = "Completed", WorkSigned(unit, x)
      PROVE  WorkSigned(unit', x)
  <2>1. \A u \in UnitsAt(unit, x) : u \in Unit /\ u \notin hit
    BY <1>4, <1>8, <1>9 DEF UnitsAt
  <2>2. \A u \in UnitsAt(unit, x) : unit'[u] = unit[u]
    BY <1>5, <2>1
  <2>3. QED
    BY <1>7, <1>9, <2>2 DEF WorkSigned, LoopDone, ReviewsSigned, ApprovalsSigned
<1>10. QED
  BY <1>0, <1>2, <1>6, <1>7, <1>8, <1>9, Carry

LEMMA OtherCallKeeps ==
  ASSUME WInv, IInv', UNCHANGED <<stn, unit, act>>
  PROVE  WInv'
  BY DEF WInv

-----------------------------------------------------------------------------
(* The invariant holds *)

LEMMA InitWInv == Init => WInv
<1> SUFFICES ASSUME Init
             PROVE  WInv
  OBVIOUS
<1>1. IInv
  BY InitIInv
<1>2. Sound(unit)
  BY PlanAssumption DEF Init, Sound, Fresh
<1>3. \A s \in Station : stn[s].phase = "Spec" /\ stn[s].status \in {"absent", "Pending"}
  BY DEF Init, Absent
<1>4. act.tag = "none"
  BY DEF Init
<1>5. QED
  BY <1>1, <1>2, <1>3, <1>4 DEF WInv, LateIsBuilt, LockedIsSigned, Late, Current

LEMMA TurnKeeps ==
  ASSUME WInv, IInv', QuietTick \/ DecideAsked
  PROVE  WInv'
<1>1. PICK st \in Stations, rel \in SUBSET Station : Turn(st, rel) /\ Handed(st, rel)
  BY ObedientTurn DEF WInv
<1>2. LateIsBuilt(st, unit) /\ LockedIsSigned(st, unit)
  BY <1>1, HandedIsSound
<1>3. unit \in Units /\ Sound(unit) /\ unit' = unit
  BY <1>1 DEF WInv, IInv, TypeOK, Units, Turn
<1>4. /\ LateIsBuilt(stn', unit') /\ LockedIsSigned(stn', unit')
      /\ Current(act', stn', unit')
  BY <1>1, <1>2, <1>3, TurnIsSound
<1>5. QED
  BY <1>3, <1>4 DEF WInv

LEMMA NextWInv == WInv /\ [ObedientNext]_vars => WInv'
<1> SUFFICES ASSUME WInv, [ObedientNext]_vars
             PROVE  WInv'
  OBVIOUS
<1>0. IInv'
  BY ObedientIsFree, NextIInv DEF WInv
<1>1. CASE QuietTick \/ DecideAsked
  BY <1>0, <1>1, TurnKeeps
<1>2. ASSUME NEW s \in Station, AskedStation(s)
      PROVE  WInv'
  BY <1>0, <1>2, SpecifyKeeps, ReviewKeeps, ManufactureKeeps, LockUnitKeeps, AuditKeeps,
     MakeValidKeeps, RepairKeeps, RecoverKeeps DEF AskedStation
<1>3. CASE ReviewRun \/ (\E s \in 0..N : FileFinding(s)) \/ UNCHANGED vars
  BY <1>0, <1>3, OtherCallKeeps DEF ReviewRun, RunReviewStamp, FileFinding, vars
<1>4. QED
  BY <1>1, <1>2, <1>3 DEF ObedientNext

LEMMA ObedientWInv == ObedientSpec => []WInv
  BY InitWInv, NextWInv, PTL DEF ObedientSpec

LEMMA FairIsObedient == FairSpec => ObedientSpec
<1>1. [ThriftyNext]_vars => [ObedientNext]_vars
  BY DEF ThriftyNext
<1>2. QED
  BY <1>1, PTL DEF FairSpec, ObedientSpec

\* A locked station holds only signed work, as long as the agent does what the
\* last tick asked: the cursor asks for a decision over signed work only, no
\* call between two ticks unsigns it but a finding's fix, and that re-opens the
\* station.  (apply_invalidation, complete_station, derive_station_phase.)
THEOREM LockedWorkStaysSigned == ObedientSpec => []LockedStaysSigned
<1>1. WInv => LockedStaysSigned
  BY DEF WInv, LockedIsSigned, WorkSigned, LockedStaysSigned, WorkDone
<1>2. QED
  BY <1>1, ObedientWInv, PTL

\* ... and so does the thrifty agent of the liveness runs.
THEOREM ThriftyLocksStaySigned == FairSpec => []LockedStaysSigned
  BY LockedWorkStaysSigned, FairIsObedient, PTL

-----------------------------------------------------------------------------
(* The pre-execution gate *)

\* A station that has not started has no unit yet.  Approve puts the station
\* after the locked one back there, a Blocked one with all its units too, unless
\* StartedStationKept holds.
Unstarted(st, un) ==
    \A s \in Station : st[s].status \in {"absent", "Pending"}
        => st[s].phase = "Spec" /\ UnitsAt(un, s) = {}

\* The agent specifies only a station that is under way.
Specifying(a, st) ==
    a.tag = "Spec" => a.at \in Station /\ st[a.at].status \notin {"absent", "Pending"}

\* Before its release an interactive station has no work to show: no unit took a
\* beat or carries an approval.
Unworked(un, s) ==
    \A u \in Unit : StationOf[u] = s => un[u].pass = 0 /\ un[u].approvals = {}

GateShut(st, un, rel) ==
    Mode # "dark" => \A s \in Station \ rel :
        /\ st[s].status # "Completed"
        /\ st[s].phase = "UserGate" \/ (st[s].phase \in {"Spec", "Review"} /\ Unworked(un, s))

GInv == WInv /\ Unstarted(stn, unit) /\ Specifying(act, stn)
             /\ GateShut(stn, unit, released) /\ SpecGate

\* The step keeps a Blocked station from starting over.
Kept == \A s \in Station : stn[s].status = "Blocked" => stn'[s].status # "Pending"

LEMMA InitGInv == Init => GInv
<1> SUFFICES ASSUME Init
             PROVE  GInv
  OBVIOUS
<1>1. \A s \in Station : stn[s].phase = "Spec" /\ stn[s].status \in {"absent", "Pending"}
  BY DEF Init, Absent
<1>2. \A s \in Station : UnitsAt(unit, s) = {}
  BY DEF Init, UnitsAt, Fresh
<1>3. \A s \in Station : Unworked(unit, s)
  BY DEF Init, Unworked, Fresh
<1>4. act.tag = "none"
  BY DEF Init
<1>5. QED
  BY <1>1, <1>2, <1>3, <1>4, InitWInv DEF GInv, Unstarted, Specifying, GateShut, SpecGate

\* Whatever its units carry, an unreleased station is answered with nothing
\* past its gate.
LEMMA ShutGateTag ==
  ASSUME NEW st \in Stations, NEW un \in Units, NEW f, Unlocked(st) # {}, Sound(un),
         Mode # "dark", NEW s, s = Frontier(st),
         st[s].phase = "UserGate" \/ (st[s].phase \in {"Spec", "Review"} /\ Unworked(un, s))
  PROVE  Decide(st, un, f).tag \in {"UserGate", "FixFeedback", "Escalate", "Spec", "Review"}
<1>1. CASE st[s].phase = "UserGate"
  BY <1>1, HeldGateTag
<1>2. CASE st[s].phase \in {"Spec", "Review"} /\ Unworked(un, s)
  <2>1. \A u \in UnitsAt(un, s) : /\ un[u].pass = 0 /\ un[u].approvals = {}
                                  /\ ~LoopDone(un, u)
    <3>1. SUFFICES ASSUME NEW u \in UnitsAt(un, s)
                   PROVE  un[u].pass = 0 /\ un[u].approvals = {} /\ ~LoopDone(un, u)
      OBVIOUS
    <3>2. u \in Unit /\ StationOf[u] = s /\ un[u].last \in 0..W
      BY DEF UnitsAt, Units, UnitStates
    <3>3. un[u].pass = 0 /\ un[u].approvals = {}
      BY <1>2, <3>2 DEF Unworked
    <3>4. ~(un[u].last > 0)
      BY <3>2, <3>3 DEF Sound
    <3>5. QED
      BY <3>2, <3>3, <3>4, PlanAssumption DEF LoopDone
  <2>2. HasSignals(un, s) => Derived(un, s) \in {"Review", "Manufacture"}
    BY <2>1 DEF HasSignals, Derived
  <2>3. HasSignals(un, s) => PreGateSkip(st[s].phase, "Manufacture")
    BY <1>2 DEF PreGateSkip
  <2>4. Resolve(st[s].phase, un, s) \in {"Spec", "Review", "UserGate"}
    BY <1>2, <2>2, <2>3 DEF Resolve
  <2>5. PhaseTag(Resolve(st[s].phase, un, s), un, s) \in {"Spec", "Review", "UserGate"}
    BY <2>4 DEF PhaseTag
  <2>6. QED
    BY <2>5 DEF Decide
<1>3. QED
  BY <1>1, <1>2

LEMMA UnstartedTag ==
  ASSUME NEW st \in Stations, NEW un, NEW f, Unlocked(st) # {},
         NEW s, s = Frontier(st), st[s].phase = "Spec", UnitsAt(un, s) = {}
  PROVE  Decide(st, un, f).tag \in {"FixFeedback", "Spec"}
<1>1. ~HasSignals(un, s)
  BY DEF HasSignals
<1>2. PhaseTag(Resolve(st[s].phase, un, s), un, s) = "Spec"
  BY <1>1 DEF Resolve, PhaseTag
<1>3. QED
  BY <1>2 DEF Decide

\* What the decisions hand to their tick is no earlier than it should be.
LEMMA HandedIsShut ==
  ASSUME GInv, Kept, NEW st \in Stations, NEW rel, Turn(st, rel), Handed(st, rel)
  PROVE  Unstarted(st, unit) /\ GateShut(st, unit, rel)
<1> DEFINE s == Frontier(stn)
<1>0. /\ stn \in Stations /\ Sound(unit) /\ LateIsBuilt(stn, unit)
      /\ Unstarted(stn, unit) /\ GateShut(stn, unit, released)
  BY DEF GInv, WInv, IInv, TypeOK, Stations
<1>1. CASE st = stn /\ rel = released
  BY <1>0, <1>1
<1>2. CASE /\ Unlocked(stn) # {} /\ stn[s].phase = "UserGate"
           /\ st = ReleasedStations /\ rel = released \cup {s}
  <2>1. s \in Station
    BY <1>2, FrontierUnlocked DEF Unlocked
  <2> HIDE DEF s
  <2>2. st = SetPhase(stn, s, "Manufacture")
    BY <1>2 DEF ReleasedStations, s
  <2>3. /\ \A t \in Station \ {s} : st[t] = stn[t]
        /\ st[s].status = stn[s].status
    BY <1>0, <2>1, <2>2 DEF SetPhase, Stations, StationStates
  <2>4. st[s].status \notin {"absent", "Pending"}
    BY <1>0, <1>2, <2>1, <2>3 DEF Unstarted
  <2>5. QED
    BY <1>0, <1>2, <2>1, <2>3, <2>4 DEF Unstarted, GateShut
<1>3. CASE /\ Mode # "dark" /\ Unlocked(stn) # {} /\ stn[s].phase # "UserGate"
           /\ st = ApprovedStations /\ AtHold(stn, s) /\ rel = released
  <2>1. s \in Station
    BY <1>3, FrontierUnlocked DEF Unlocked
  <2>2. st = Complete(stn, s) /\ stn[s].phase = "Checkpoint"
    BY <1>3 DEF ApprovedStations, AtHold
  <2> HIDE DEF s
  <2>3. s \in released
    BY <1>0, <1>3, <2>1, <2>2 DEF GateShut
  <2>4. st[s].status = "Completed"
    BY <1>0, <2>1, <2>2, CompleteEffect
  <2>5. \A t \in Station \ {s} : st[t] = stn[t] \/ (t = s + 1 /\ BackToSpec(stn, st, t))
    BY <1>0, <2>1, <2>2, CompleteResets
  <2>6. ASSUME NEW t \in Station \ {s}, BackToSpec(stn, st, t)
        PROVE  st[t].phase = "Spec" /\ UnitsAt(unit, t) = {}
    <3>1. stn[t].status \in {"absent", "Pending", "Blocked"} /\ st[t].phase = "Spec"
          /\ st[t].status = "Pending"
      BY <1>0, <2>6 DEF BackToSpec, Stations, StationStates
    <3>2. ASSUME stn[t].status = "Blocked"
          PROVE  FALSE
      <4>1. Built(unit, t)
        BY <1>0, <3>2 DEF LateIsBuilt, Late
      <4>2. t \in Unlocked(st)
        BY <3>1 DEF Unlocked
      <4>3. /\ act' = Decide(st, unit, fb') /\ stn' = Advance(st, act')
        BY DEF Turn
      <4>4. act' \in Actions /\ act'.at = Frontier(st) /\ act'.at \in Station
        BY <4>2, <4>3, DecideType
      <4>5. act'.tag = "Spec" => ~HasSignals(unit, act'.at)
        BY <1>0, <4>2, <4>3, <4>4, SpecIsSilent
      <4>6. act'.tag = "Spec" => act'.at # t
        BY <4>1, <4>5, BuiltSignals
      <4>7. stn'[t].status = "Pending"
        BY <1>3, <3>1, <4>3, <4>4, <4>6, AdvanceEffect
      <4>8. QED
        BY <3>2, <4>7 DEF Kept
    <3>3. UnitsAt(unit, t) = {}
      BY <1>0, <3>1, <3>2 DEF Unstarted
    <3>4. QED
      BY <3>1, <3>3
  <2>7. Unstarted(st, unit)
    BY <1>0, <2>4, <2>5, <2>6 DEF Unstarted
  <2>8. GateShut(st, unit, rel)
    <3>1. SUFFICES ASSUME NEW t \in Station \ released
                   PROVE  /\ st[t].status # "Completed"
                          /\ \/ st[t].phase = "UserGate"
                             \/ st[t].phase \in {"Spec", "Review"} /\ Unworked(unit, t)
      BY <1>3 DEF GateShut
    <3>2. t # s
      BY <2>3
    <3>3. CASE st[t] = stn[t]
      BY <1>0, <1>3, <3>3 DEF GateShut
    <3>4. CASE BackToSpec(stn, st, t)
      <4>1. st[t].phase = "Spec" /\ UnitsAt(unit, t) = {} /\ st[t].status = "Pending"
        BY <2>6, <3>2, <3>4 DEF BackToSpec
      <4>2. Unworked(unit, t)
        <5>1. SUFFICES ASSUME NEW u \in Unit, StationOf[u] = t
                       PROVE  unit[u].pass = 0 /\ unit[u].approvals = {}
          BY DEF Unworked
        <5>2. ~unit[u].made
          BY <4>1, <5>1 DEF UnitsAt
        <5>3. unit[u] = Fresh(u)
          BY <1>0, <5>2 DEF Sound
        <5>4. QED
          BY <5>3 DEF Fresh
      <4>3. QED
        BY <4>1, <4>2
    <3>5. QED
      BY <2>5, <3>2, <3>3, <3>4
  <2>9. QED
    BY <2>7, <2>8
<1>4. CASE /\ Unlocked(stn) # {} /\ stn[s].phase # "UserGate"
           /\ st = BlockedStations /\ rel = released
  <2>1. s \in Station
    BY <1>4, FrontierUnlocked DEF Unlocked
  <2> HIDE DEF s
  <2>2. st = [stn EXCEPT ![s].status = "Blocked", ![s].outcome = "Blocked"]
    BY <1>4 DEF BlockedStations, s
  <2>3. /\ \A t \in Station \ {s} : st[t] = stn[t]
        /\ st[s].status = "Blocked" /\ st[s].phase = stn[s].phase
    BY <1>0, <2>1, <2>2 DEF Stations, StationStates
  <2>4. QED
    BY <1>0, <1>4, <2>1, <2>3 DEF Unstarted, GateShut
<1>5. QED
  BY <1>1, <1>2, <1>3, <1>4 DEF Handed

\* A tick over such stations leaves such stations, and asks for work only where
\* the gate was released.
LEMMA TurnKeepsShut ==
  ASSUME GInv, Kept, IInv', NEW st \in Stations, NEW rel, Turn(st, rel), Handed(st, rel)
  PROVE  /\ Unstarted(stn', unit') /\ Specifying(act', stn')
         /\ GateShut(stn', unit', released') /\ SpecGate'
<1> DEFINE s == act'.at
<1>0. /\ unit' = unit /\ act' = Decide(st, unit, fb') /\ stn' = Advance(st, act')
      /\ released' = {t \in rel : stn'[t].phase # "UserGate"}
      /\ unit \in Units /\ Sound(unit)
  BY DEF Turn, GInv, WInv, IInv, TypeOK, Units
<1>1. Unstarted(st, unit) /\ GateShut(st, unit, rel)
  BY HandedIsShut
<1>2. \A t \in rel \ released' : t \in Station => stn'[t].phase = "UserGate" /\ stn'[t].status # "Completed"
  BY <1>0 DEF IInv, LockedLeftGate, LeftGate
<1>3. CASE Unlocked(st) = {}
  <2>1. act'.tag \in {"RunReview", "Sealed"}
    BY <1>0, <1>3, DecideType
  <2>2. stn' = st
    BY <1>0, <2>1 DEF Advance
  <2>3. QED
    BY <1>0, <1>1, <1>2, <2>1, <2>2 DEF Unstarted, Specifying, GateShut, SpecGate
<1>4. CASE Unlocked(st) # {}
  <2>1. act' \in Actions /\ s = Frontier(st) /\ s \in Station /\ st[s].status # "Completed"
    BY <1>0, <1>4, DecideType
  <2>2. /\ Stamped(act', st, stn'[s].phase)
        /\ stn'[s].status = IF act'.tag = "Spec" THEN "InProgress"
                            ELSE IF act'.tag = "Checkpoint" /\ Mode = "dark" THEN "Completed"
                            ELSE st[s].status
        /\ \A t \in Station \ {s} :
              \/ stn'[t] = st[t]
              \/ /\ act'.tag = "Checkpoint" /\ Mode = "dark"
                 /\ BackToSpec(st, stn', t)
    BY <1>0, <2>1, AdvanceEffect
  <2>3. st[s].phase = "Spec" /\ UnitsAt(unit, s) = {} => act'.tag \in {"FixFeedback", "Spec"}
    BY <1>0, <1>4, <2>1, UnstartedTag
  <2>4. ASSUME Mode # "dark", s \notin rel
        PROVE  act'.tag \in {"UserGate", "FixFeedback", "Escalate", "Spec", "Review"}
    BY <1>0, <1>1, <1>4, <2>1, <2>4, ShutGateTag DEF GateShut
  <2>5. st[s].phase = "UserGate" => act'.tag \in {"UserGate", "FixFeedback", "Escalate"}
    BY <1>0, <1>4, <2>1, HeldGateTag
  <2> HIDE DEF s
  <2>6. Unstarted(stn', unit')
    <3>1. SUFFICES ASSUME NEW t \in Station, stn'[t].status \in {"absent", "Pending"}
                   PROVE  stn'[t].phase = "Spec" /\ UnitsAt(unit, t) = {}
      BY <1>0 DEF Unstarted
    <3>2. CASE t = s
      <4>1. act'.tag # "Spec" /\ stn'[s].status = st[s].status
        BY <2>2, <3>1, <3>2
      <4>2. st[s].phase = "Spec" /\ UnitsAt(unit, s) = {}
        BY <1>1, <2>1, <3>1, <3>2, <4>1 DEF Unstarted
      <4>3. act'.tag = "FixFeedback"
        BY <2>3, <4>1, <4>2
      <4>4. QED
        BY <2>2, <3>2, <4>2, <4>3 DEF Stamped, s
    <3>3. CASE t # s /\ stn'[t] = st[t]
      BY <1>1, <3>1, <3>3 DEF Unstarted
    <3>4. CASE Mode = "dark" /\ BackToSpec(st, stn', t)
      <4>1. st = stn
        BY <3>4 DEF Handed
      <4>2. stn[t].status \in {"absent", "Pending", "Blocked"}
        BY <3>4, <4>1 DEF BackToSpec, Stations, StationStates
      <4>3. stn[t].status # "Blocked"
        BY <3>4 DEF BackToSpec, Kept
      <4>4. QED
        BY <1>1, <3>4, <4>1, <4>2, <4>3 DEF Unstarted, BackToSpec
    <3>5. QED
      BY <2>2, <3>2, <3>3, <3>4
  <2>7. Specifying(act', stn')
    BY <2>1, <2>2 DEF Specifying, s
  <2>8. GateShut(stn', unit', released')
    <3>1. SUFFICES ASSUME Mode # "dark", NEW t \in Station \ released'
                   PROVE  /\ stn'[t].status # "Completed"
                          /\ \/ stn'[t].phase = "UserGate"
                             \/ stn'[t].phase \in {"Spec", "Review"} /\ Unworked(unit, t)
      BY <1>0 DEF GateShut
    <3>2. CASE t \in rel
      BY <1>2, <3>2
    <3>3. CASE t \notin rel /\ t # s
      BY <1>1, <2>2, <3>1, <3>3 DEF GateShut
    <3>4. CASE t \notin rel /\ t = s
      <4>1. /\ st[s].status # "Completed"
            /\ st[s].phase = "UserGate" \/ (st[s].phase \in {"Spec", "Review"} /\ Unworked(unit, s))
        BY <1>1, <3>1, <3>4 DEF GateShut
      <4>2. act'.tag \in {"UserGate", "FixFeedback", "Escalate", "Spec", "Review"}
        BY <2>4, <3>1, <3>4
      <4>3. stn'[s].phase = IF act'.tag \in {"UserGate", "Review"} THEN "UserGate"
                            ELSE IF act'.tag = "Spec" THEN stn'[s].phase ELSE st[s].phase
        BY <2>2, <3>1, <4>2 DEF Stamped, s
      <4>4. act'.tag = "Spec" => stn'[s].phase \in {"Spec", "Review"} /\ st[s].phase # "UserGate"
        BY <2>2, <2>5 DEF Stamped
      <4>5. QED
        BY <2>2, <3>4, <4>1, <4>2, <4>3, <4>4
    <3>5. QED
      BY <3>2, <3>3, <3>4
  <2>9. SpecGate'
    <3>1. SUFFICES ASSUME Mode # "dark",
                          act'.tag \in {"Manufacture", "Noop", "Audit", "Reflect", "Checkpoint"}
                   PROVE  s \in released'
      BY DEF SpecGate, s
    <3>2. s \in rel
      BY <2>4, <3>1
    <3>3. stn'[s].phase # "UserGate"
      BY <2>2, <2>5, <3>1 DEF Stamped, s
    <3>4. QED
      BY <1>0, <3>2, <3>3
  <2>10. QED
    BY <2>6, <2>7, <2>8, <2>9
<1>5. QED
  BY <1>3, <1>4

\* What a call that leaves the action on the table has to keep.
LEMMA CallKeepsShut ==
  ASSUME GInv, act' = act, released' = released,
         \A t \in Station : /\ \/ stn'[t].status = stn[t].status /\ stn'[t].phase = stn[t].phase
                               \/ stn[t].status = "Completed" /\ stn'[t].status = "InProgress"
                            /\ \/ UnitsAt(unit', t) = UnitsAt(unit, t)
                               \/ stn[t].status \notin {"absent", "Pending"},
         \A u \in Unit : \/ Mode # "dark" /\ StationOf[u] \in released
                         \/ Mode = "dark"
                         \/ /\ unit'[u].pass \in {unit[u].pass, 0}
                            /\ unit'[u].approvals \subseteq unit[u].approvals
  PROVE  /\ Unstarted(stn', unit') /\ Specifying(act', stn')
         /\ GateShut(stn', unit', released') /\ SpecGate'
<1>1. Unstarted(stn', unit')
  BY DEF Unstarted, GInv
<1>2. Specifying(act', stn')
  BY DEF Specifying, GInv
<1>3. GateShut(stn', unit', released')
  <2>1. SUFFICES ASSUME Mode # "dark", NEW t \in Station \ released
                 PROVE  /\ stn'[t].status # "Completed"
                        /\ \/ stn'[t].phase = "UserGate"
                           \/ stn'[t].phase \in {"Spec", "Review"} /\ Unworked(unit', t)
    BY DEF GateShut
  <2>2. /\ stn[t].status # "Completed"
        /\ stn[t].phase = "UserGate" \/ (stn[t].phase \in {"Spec", "Review"} /\ Unworked(unit, t))
    BY <2>1 DEF GInv, GateShut
  <2>3. Unworked(unit, t) => Unworked(unit', t)
    BY <2>1 DEF Unworked
  <2>4. QED
    BY <2>2, <2>3
<1>4. SpecGate'
  BY DEF SpecGate, GInv
<1>5. QED
  BY <1>1, <1>2, <1>3, <1>4

LEMMA AskedKeepsShut ==
  ASSUME GInv, NEW s \in Station, AskedStation(s)
  PROVE  /\ Unstarted(stn', unit') /\ Specifying(act', stn')
         /\ GateShut(stn', unit', released') /\ SpecGate'
<1>0. unit \in Units /\ Sound(unit) /\ IInv /\ s # 0
  BY PlanAssumption DEF GInv, WInv, IInv, TypeOK, Units, Station
<1>1. \A t \in Station : \/ stn'[t].status = stn[t].status /\ stn'[t].phase = stn[t].phase
                         \/ stn[t].status = "Completed" /\ stn'[t].status = "InProgress"
  BY <1>0, AskedCalls, CallMoves
<1>2. Mode # "dark" /\ act.tag \in {"Manufacture", "Noop", "Audit"} => act.at \in released
  BY DEF GInv, SpecGate
<1>3. ASSUME act' = act, released' = released,
             \A u \in Unit : unit'[u].made = unit[u].made,
             \A u \in Unit : \/ unit'[u] = unit[u]
                             \/ /\ unit'[u].pass \in {unit[u].pass, 0}
                                /\ unit'[u].approvals \subseteq unit[u].approvals
                             \/ Mode # "dark" => StationOf[u] \in released
      PROVE  /\ Unstarted(stn', unit') /\ Specifying(act', stn')
             /\ GateShut(stn', unit', released') /\ SpecGate'
  <2>1. \A t \in Station : UnitsAt(unit', t) = UnitsAt(unit, t)
    BY <1>3 DEF UnitsAt
  <2>2. \A u \in Unit : \/ Mode # "dark" /\ StationOf[u] \in released
                        \/ Mode = "dark"
                        \/ /\ unit'[u].pass \in {unit[u].pass, 0}
                           /\ unit'[u].approvals \subseteq unit[u].approvals
    BY <1>3
  <2>3. QED
    BY <1>1, <1>3, <2>1, <2>2, CallKeepsShut
<1>4. CASE Specify(s)
  <2>0. stn[s].status \notin {"absent", "Pending"}
    BY <1>4 DEF Specify, Asked, GInv, Specifying
  <2>1. CASE ElaborateSeal(s)
    BY <1>3, <2>1 DEF ElaborateSeal
  <2>2. ASSUME NEW u \in Unit, StationOf[u] = s, CreateUnit(u)
        PROVE  /\ Unstarted(stn', unit') /\ Specifying(act', stn')
               /\ GateShut(stn', unit', released') /\ SpecGate'
    <3>1. /\ unit' = [unit EXCEPT ![u].made = TRUE] /\ act' = act /\ released' = released
      BY <2>2 DEF CreateUnit
    <3>2. \A x \in Unit : /\ unit'[x].pass = unit[x].pass
                          /\ unit'[x].approvals = unit[x].approvals
                          /\ x # u => unit'[x] = unit[x]
      BY <1>0, <3>1 DEF Units, UnitStates
    <3>3. \A t \in Station : \/ UnitsAt(unit', t) = UnitsAt(unit, t)
                             \/ stn[t].status \notin {"absent", "Pending"}
      BY <2>0, <2>2, <3>2 DEF UnitsAt
    <3>4. QED
      BY <1>1, <3>1, <3>2, <3>3, CallKeepsShut
  <2>3. QED
    BY <1>4, <2>1, <2>2 DEF Specify
<1>5. CASE Review(s)
  <2>1. PICK r : StampReview(s, r)
    BY <1>5 DEF Review
  <2>2. \A u \in Unit : unit'[u] = IF u \in UnitsAt(unit, s)
                                   THEN [unit[u] EXCEPT !.reviews = @ \cup {r}] ELSE unit[u]
    BY <2>1 DEF StampReview
  <2>3. \A u \in Unit : /\ unit'[u].pass = unit[u].pass
                        /\ unit'[u].made = unit[u].made
                        /\ unit'[u].approvals = unit[u].approvals
    BY <1>0, <2>2 DEF Units, UnitStates
  <2>4. QED
    BY <1>3, <2>1, <2>3 DEF StampReview
<1>6. CASE Manufacture(s)
  <2>1. Mode # "dark" => s \in released
    BY <1>2, <1>6 DEF Manufacture, Asked
  <2>2. PICK u \in UnitsAt(unit, s), w \in Workers, ok \in BOOLEAN : Beat(u, w, ok)
    BY <1>6 DEF Manufacture
  <2>3. /\ act' = act /\ released' = released
        /\ \A x \in Unit : unit'[x].made = unit[x].made /\ (x # u => unit'[x] = unit[x])
    BY <1>0, <2>2 DEF Beat, Edit, Units, UnitStates
  <2>4. StationOf[u] = s
    BY DEF UnitsAt
  <2>5. QED
    BY <1>3, <2>1, <2>3, <2>4
<1>7. CASE LockUnit(s) \/ MakeValid(s) \/ (\E u \in Unit, ok \in BOOLEAN : RecordGates(u, ok))
  <2>1. /\ act' = act /\ released' = released
        /\ \A x \in Unit : /\ unit'[x].made = unit[x].made /\ unit'[x].pass = unit[x].pass
                           /\ unit'[x].approvals = unit[x].approvals
    BY <1>0, <1>7 DEF LockUnit, MakeValid, RecordGates, WriteOutput, SetStatus, Edit, Units,
                      UnitStates
  <2>2. QED
    BY <1>3, <2>1
<1>8. ASSUME NEW r, Audit(s), StampApproval(s, r)
      PROVE  /\ Unstarted(stn', unit') /\ Specifying(act', stn')
             /\ GateShut(stn', unit', released') /\ SpecGate'
  <2>1. Mode # "dark" => s \in released
    BY <1>2, <1>8 DEF Audit, Asked
  <2>2. \A u \in Unit : unit'[u] = IF u \in UnitsAt(unit, s)
                                   THEN [unit[u] EXCEPT !.approvals = @ \cup {r}] ELSE unit[u]
    BY <1>8 DEF StampApproval
  <2>3. \A u \in Unit : /\ unit'[u].made = unit[u].made
                        /\ unit'[u] = unit[u] \/ StationOf[u] = s
    BY <1>0, <2>2 DEF Units, UnitStates, UnitsAt
  <2>4. QED
    BY <1>3, <1>8, <2>1, <2>3 DEF StampApproval
<1>9. CASE Repair(s)
  <2>1. PICK t \in 0..N, roles \in SUBSET Reviewer : ResolveFinding(t, roles)
    BY <1>9 DEF Repair
  <2>2. act' = act /\ released' = released
    BY <2>1 DEF ResolveFinding
  <2>3. \A u \in Unit : \/ unit'[u] = unit[u]
                        \/ unit'[u] = [unit[u] EXCEPT !.reviews = @ \ roles,
                                                      !.approvals = @ \ roles]
    BY <2>1 DEF ResolveFinding
  <2>4. ASSUME NEW u \in Unit
        PROVE  /\ unit'[u].made = unit[u].made /\ unit'[u].pass = unit[u].pass
               /\ unit'[u].approvals \subseteq unit[u].approvals
    <3>1. unit[u] \in UnitStates
      BY <1>0 DEF Units
    <3>2. CASE unit'[u] = [unit[u] EXCEPT !.reviews = @ \ roles, !.approvals = @ \ roles]
      <4>1. /\ unit'[u].made = unit[u].made /\ unit'[u].pass = unit[u].pass
            /\ unit'[u].approvals = unit[u].approvals \ roles
        BY <3>1, <3>2 DEF UnitStates
      <4>2. QED
        BY <4>1
    <3>3. QED
      BY <2>3, <3>2
  <2>5. QED
    BY <1>3, <2>2, <2>4
<1>10. CASE Recover(s)
  <2>1. PICK u \in UnitsAt(unit, s) : ResetUnit(u)
    BY <1>10 DEF Recover
  <2>2. /\ act' = act /\ released' = released
        /\ unit' = [unit EXCEPT ![u] = [Cleared(u) EXCEPT !.output = unit[u].output]]
    BY <2>1 DEF ResetUnit, Edit
  <2>3. u \in Unit /\ unit[u].made
    BY DEF UnitsAt
  <2>4. /\ \A x \in Unit \ {u} : unit'[x] = unit[x]
        /\ unit'[u].made = unit[u].made /\ unit'[u].pass = 0 /\ unit'[u].approvals = {}
    BY <1>0, <2>2, <2>3 DEF Units, UnitStates, Cleared, Fresh
  <2>5. QED
    BY <1>3, <2>2, <2>3, <2>4
<1>11. QED
  BY <1>4, <1>5, <1>6, <1>7, <1>8, <1>9, <1>10 DEF AskedStation, Audit, UnitsAt

LEMMA NextGInv == GInv /\ [ObedientNext]_vars /\ [Kept]_vars => GInv'
<1> SUFFICES ASSUME GInv, [ObedientNext]_vars, [Kept]_vars
             PROVE  GInv'
  OBVIOUS
<1>0. WInv' /\ IInv'
  BY NextWInv DEF GInv, WInv
<1>1. CASE UNCHANGED <<stn, unit, act, released>>
  BY <1>0, <1>1 DEF GInv, SpecGate
<1>2. CASE (QuietTick \/ DecideAsked) /\ ~UNCHANGED vars
  <2>1. PICK st \in Stations, rel \in SUBSET Station : Turn(st, rel) /\ Handed(st, rel)
    BY <1>2, ObedientTurn DEF GInv, WInv
  <2>2. QED
    BY <1>0, <1>2, <2>1, TurnKeepsShut DEF GInv
<1>3. ASSUME NEW s \in Station, AskedStation(s)
      PROVE  GInv'
  BY <1>0, <1>3, AskedKeepsShut DEF GInv
<1>4. CASE ReviewRun \/ (\E s \in 0..N : FileFinding(s)) \/ UNCHANGED vars
  BY <1>1, <1>4 DEF ReviewRun, RunReviewStamp, FileFinding, vars
<1>5. QED
  BY <1>1, <1>2, <1>3, <1>4 DEF ObedientNext

LEMMA ObedientGInv == ObedientSpec /\ StartedStationKept => []GInv
  BY InitGInv, NextGInv, PTL DEF ObedientSpec, StartedStationKept, Kept

-----------------------------------------------------------------------------
(* The decision at the checkpoint *)

\* Reviews come before the beats, and the beats before the approvals.
ApprovedLast(un) ==
    \A u \in Unit : /\ un[u].approvals \subseteq un[u].reviews
                    /\ un[u].approvals # {} => LoopDone(un, u)

\* The station under audit already stands at Reflect: the tick that asked for
\* the approvals recorded it.
Auditing(a, st, un) ==
    a.tag = "Audit" =>
        /\ a.at \in Station
        /\ st[a.at].phase = "Reflect" /\ st[a.at].status # "Completed"
        /\ \A u \in UnitsAt(un, a.at) : ReviewsSigned(un, u)

SignedOff(un, s) == UnitsAt(un, s) # {} /\ \A u \in UnitsAt(un, s) : ApprovalsSigned(un, u)

\* Signed off work that is not locked yet is at Reflect, or past it.
Reflected(st, un) ==
    \A s \in Station : SignedOff(un, s) /\ st[s].status # "Completed"
        => st[s].phase \in {"Reflect", "Checkpoint"}

CInv == GInv /\ ApprovedLast(unit) /\ Auditing(act, stn, unit) /\ Reflected(stn, unit)
             /\ ApprovableGate

LEMMA InitCInv == Init => CInv
<1> SUFFICES ASSUME Init
             PROVE  CInv
  OBVIOUS
<1>1. \A s \in Station : UnitsAt(unit, s) = {}
  BY DEF Init, UnitsAt, Fresh
<1>2. ApprovedLast(unit)
  BY DEF Init, ApprovedLast, Fresh
<1>3. act.tag = "none"
  BY DEF Init
<1>4. QED
  BY <1>1, <1>2, <1>3, InitGInv DEF CInv, Auditing, Reflected, SignedOff, ApprovableGate

\* Over signed off work the recorded phase decides between the last two beats.
LEMMA SignedOffTag ==
  ASSUME NEW st \in Stations, NEW un \in Units, NEW f, Unlocked(st) # {}, ApprovedLast(un),
         NEW s, s = Frontier(st), SignedOff(un, s), st[s].phase \in {"Reflect", "Checkpoint"}
  PROVE  Decide(st, un, f).tag \in {"FixFeedback", "Escalate", "UnitsInvalid", st[s].phase}
<1>1. \A u \in UnitsAt(un, s) : /\ ReviewsSigned(un, u) /\ LoopDone(un, u)
                                /\ ApprovalsSigned(un, u) /\ un[u].approvals # {}
  BY ReviewerAssumption
     DEF SignedOff, ApprovedLast, UnitsAt, ReviewsSigned, ApprovalsSigned
<1>2. HasSignals(un, s) /\ Derived(un, s) = "Checkpoint"
  BY <1>1 DEF HasSignals, Derived, SignedOff
<1>3. Resolve(st[s].phase, un, s) = st[s].phase
  BY <1>2 DEF Resolve, PreGateSkip
<1>4. PhaseTag(st[s].phase, un, s) \in {"UnitsInvalid", st[s].phase}
  BY DEF PhaseTag
<1>5. QED
  BY <1>3, <1>4 DEF Decide

\* The phases behind a decision are those the operator saw, but for the station
\* it released or put back.
LEMMA HandedPhases ==
  ASSUME IInv, NEW st \in Stations, NEW rel, Handed(st, rel), NEW t \in Station
  PROVE  \/ st[t].phase = stn[t].phase
         \/ stn[t].phase = "UserGate" /\ st[t].phase = "Manufacture"
              /\ stn[t].status # "Completed"
         \/ st[t].phase = "Spec" /\ st[t].status = "Pending"
<1> DEFINE s == Frontier(stn)
<1>0. stn \in Stations
  BY DEF IInv, TypeOK, Stations
<1>1. CASE st = stn
  BY <1>1
<1>2. CASE Unlocked(stn) # {} /\ stn[s].phase = "UserGate" /\ st = ReleasedStations
  <2>1. s \in Station /\ stn[s].status # "Completed"
    BY <1>2, FrontierUnlocked DEF Unlocked
  <2>2. QED
    BY <1>0, <1>2, <2>1 DEF ReleasedStations, SetPhase, Stations, StationStates
<1>3. CASE Unlocked(stn) # {} /\ st \in {ApprovedStations, BlockedStations}
  <2>1. s \in Station
    BY <1>3, FrontierUnlocked DEF Unlocked
  <2> HIDE DEF s
  <2>2. CASE st = ApprovedStations
    BY <1>0, <2>1, <2>2, CompleteResets, CompleteEffect DEF ApprovedStations, BackToSpec, s
  <2>3. CASE st = BlockedStations
    BY <1>0, <2>1, <2>3 DEF BlockedStations, Stations, StationStates, s
  <2>4. QED
    BY <1>3, <2>2, <2>3
<1>4. QED
  BY <1>1, <1>2, <1>3 DEF Handed

LEMMA HandedStatuses ==
  ASSUME IInv, NEW st \in Stations, NEW rel, Handed(st, rel), NEW t \in Station,
         stn[t].status = "Completed"
  PROVE  st[t].status = "Completed"
<1> DEFINE s == Frontier(stn)
<1>0. stn \in Stations
  BY DEF IInv, TypeOK, Stations
<1>1. CASE st = stn
  BY <1>1
<1>2. CASE Unlocked(stn) # {} /\ st \in {ReleasedStations, ApprovedStations, BlockedStations}
  <2>1. s \in Station /\ t # s
    BY <1>2, FrontierUnlocked DEF Unlocked
  <2> HIDE DEF s
  <2>2. CASE st = ApprovedStations
    BY <1>0, <2>1, <2>2, CompleteResets DEF ApprovedStations, BackToSpec, s
  <2>3. CASE st \in {ReleasedStations, BlockedStations}
    BY <1>0, <2>1, <2>3 DEF ReleasedStations, SetPhase, BlockedStations, Stations, s
  <2>4. QED
    BY <1>2, <2>2, <2>3
<1>3. QED
  BY <1>1, <1>2 DEF Handed

LEMMA HandedIsReflected ==
  ASSUME CInv, Kept, NEW st \in Stations, NEW rel, Turn(st, rel), Handed(st, rel)
  PROVE  Reflected(st, unit)
<1>1. SUFFICES ASSUME NEW t \in Station, SignedOff(unit, t), st[t].status # "Completed"
               PROVE  st[t].phase \in {"Reflect", "Checkpoint"}
  BY DEF Reflected
<1>2. Unstarted(st, unit) /\ IInv
  BY HandedIsShut DEF CInv, GInv, WInv
<1>3. stn[t].status # "Completed"
  BY <1>1, <1>2, HandedStatuses
<1>4. stn[t].phase \in {"Reflect", "Checkpoint"}
  BY <1>1, <1>3 DEF CInv, Reflected
<1>5. ~(st[t].phase = "Spec" /\ st[t].status = "Pending")
  BY <1>1, <1>2 DEF Unstarted, SignedOff
<1>6. QED
  BY <1>2, <1>4, <1>5, HandedPhases

LEMMA TurnKeepsReflected ==
  ASSUME CInv, Kept, GInv', NEW st \in Stations, NEW rel, Turn(st, rel), Handed(st, rel)
  PROVE  /\ Auditing(act', stn', unit') /\ Reflected(stn', unit') /\ ApprovableGate'
         /\ act'.tag = "Checkpoint" => stn[act'.at].phase = "Checkpoint"
<1> DEFINE s == act'.at
<1>0. /\ unit' = unit /\ act' = Decide(st, unit, fb') /\ stn' = Advance(st, act')
      /\ unit \in Units /\ Sound(unit) /\ IInv /\ ApprovedLast(unit)
      /\ Unstarted(stn', unit)
  BY DEF Turn, CInv, GInv, WInv, IInv, TypeOK, Units
<1>1. Reflected(st, unit)
  BY HandedIsReflected
<1>2. CASE Unlocked(st) = {}
  <2>1. act'.tag \in {"RunReview", "Sealed"}
    BY <1>0, <1>2, DecideType
  <2>2. stn' = st
    BY <1>0, <2>1 DEF Advance
  <2>3. QED
    BY <1>0, <1>1, <2>1, <2>2 DEF Auditing, ApprovableGate
<1>3. CASE Unlocked(st) # {}
  <2>1. act' \in Actions /\ s = Frontier(st) /\ s \in Station /\ st[s].status # "Completed"
    BY <1>0, <1>3, DecideType
  <2>2. /\ act'.tag = "Audit" => \A u \in UnitsAt(unit, s) : ReviewsSigned(unit, u)
        /\ act'.tag = "Checkpoint" => SignedOff(unit, s)
    <3>1. LateIsBuilt(st, unit)
      BY HandedIsSound DEF CInv, GInv
    <3>2. /\ act'.tag = "Audit" => \A u \in UnitsAt(unit, s) : ReviewsSigned(unit, u)
          /\ act'.tag = "Checkpoint" => Built(unit, s) /\ WorkSigned(unit, s)
      BY <1>0, <1>3, <2>1, <3>1, DecideRestsOn DEF LateIsBuilt
    <3>3. QED
      BY <3>2 DEF Built, WorkSigned, SignedOff
  <2>3. /\ Stamped(act', st, stn'[s].phase)
        /\ stn'[s].status = IF act'.tag = "Spec" THEN "InProgress"
                            ELSE IF act'.tag = "Checkpoint" /\ Mode = "dark" THEN "Completed"
                            ELSE st[s].status
        /\ act'.tag = "Checkpoint" /\ Mode # "dark" =>
             stn'[s].entered /\ stn'[s].outcome = "none"
        /\ \A t \in Station \ {s} :
              \/ stn'[t] = st[t]
              \/ /\ act'.tag = "Checkpoint" /\ Mode = "dark"
                 /\ BackToSpec(st, stn', t)
    BY <1>0, <2>1, AdvanceEffect
  <2>4. SignedOff(unit, s) =>
          /\ st[s].phase \in {"Reflect", "Checkpoint"}
          /\ act'.tag \in {"FixFeedback", "Escalate", "UnitsInvalid", st[s].phase}
    BY <1>0, <1>1, <1>3, <2>1, SignedOffTag DEF Reflected
  <2> HIDE DEF s
  <2>5. act'.tag = "Checkpoint" => st[s].phase = "Checkpoint" /\ stn'[s].phase = "Checkpoint"
    BY <2>2, <2>3, <2>4 DEF Stamped, s
  <2>6. Auditing(act', stn', unit')
    BY <1>0, <2>1, <2>2, <2>3 DEF Auditing, Stamped, s
  <2>7. Reflected(stn', unit')
    <3>1. SUFFICES ASSUME NEW t \in Station, SignedOff(unit, t), stn'[t].status # "Completed"
                   PROVE  stn'[t].phase \in {"Reflect", "Checkpoint"}
      BY <1>0 DEF Reflected
    <3>2. CASE t = s
      BY <2>3, <2>4, <3>1, <3>2 DEF Stamped, s
    <3>3. CASE t # s /\ stn'[t] = st[t]
      BY <1>1, <3>1, <3>3 DEF Reflected
    <3>4. CASE BackToSpec(st, stn', t)
      BY <1>0, <3>1, <3>4 DEF BackToSpec, Unstarted, SignedOff
    <3>5. QED
      BY <2>3, <3>2, <3>3, <3>4
  <2>8. ApprovableGate'
    BY <2>3, <2>5 DEF ApprovableGate, AtHold, s
  <2>9. act'.tag = "Checkpoint" => stn[s].phase = "Checkpoint"
    BY <1>0, <2>1, <2>5, HandedPhases
  <2>10. QED
    BY <2>6, <2>7, <2>8, <2>9 DEF s
<1>4. QED
  BY <1>2, <1>3

\* What a call that leaves the action on the table has to keep.
LEMMA CallKeepsReflected ==
  ASSUME CInv, act' = act, ApprovedLast(unit'),
         act.tag \notin {"Audit", "Checkpoint"},
         \A t \in Station : \/ stn'[t].status = stn[t].status /\ stn'[t].phase = stn[t].phase
                            \/ ~SignedOff(unit', t),
         \A t \in Station : SignedOff(unit', t) => SignedOff(unit, t)
  PROVE  /\ ApprovedLast(unit') /\ Auditing(act', stn', unit')
         /\ Reflected(stn', unit') /\ ApprovableGate'
  BY DEF CInv, Auditing, Reflected, ApprovableGate

\* ... and a call that was asked for by Audit.
LEMMA AuditCallKeeps ==
  ASSUME CInv, act' = act, stn' = stn, ApprovedLast(unit'), act.tag = "Audit",
         \A u \in Unit : /\ unit'[u].made = unit[u].made
                         /\ unit'[u].reviews = unit[u].reviews,
         \A t \in Station \ {act.at} : SignedOff(unit', t) => SignedOff(unit, t)
  PROVE  /\ ApprovedLast(unit') /\ Auditing(act', stn', unit')
         /\ Reflected(stn', unit') /\ ApprovableGate'
<1>1. \A t : UnitsAt(unit', t) = UnitsAt(unit, t) /\ UnitsAt(unit, t) \subseteq Unit
  BY DEF UnitsAt
<1>2. Auditing(act', stn', unit')
  BY <1>1 DEF CInv, Auditing, ReviewsSigned
<1>3. Reflected(stn', unit')
  BY DEF CInv, Auditing, Reflected
<1>4. QED
  BY <1>2, <1>3 DEF ApprovableGate

\* The documents a call leaves alone, as far as the signatures go.
LEMMA SameSignatures ==
  ASSUME CInv,
         \A u \in Unit : /\ unit'[u].made = unit[u].made
                         /\ unit[u].reviews \subseteq unit'[u].reviews
                         /\ unit'[u].approvals = unit[u].approvals
                         /\ unit'[u].last = unit[u].last /\ unit'[u].settled = unit[u].settled
  PROVE  /\ ApprovedLast(unit')
         /\ \A t \in Station : SignedOff(unit', t) => SignedOff(unit, t)
<1>1. \A t : UnitsAt(unit', t) = UnitsAt(unit, t) /\ UnitsAt(unit, t) \subseteq Unit
  BY DEF UnitsAt
<1>2. ApprovedLast(unit')
  BY DEF CInv, ApprovedLast, LoopDone
<1>3. QED
  BY <1>1, <1>2 DEF SignedOff, ApprovalsSigned

\* The step leaves what CInv adds to GInv.
Keeps == /\ ApprovedLast(unit') /\ Auditing(act', stn', unit')
         /\ Reflected(stn', unit') /\ ApprovableGate'

LEMMA SigningCall ==
  ASSUME CInv, act' = act, stn' = stn, act.tag \notin {"Audit", "Checkpoint"},
         \A u \in Unit : /\ unit'[u].made = unit[u].made
                         /\ unit[u].reviews \subseteq unit'[u].reviews
                         /\ unit'[u].approvals = unit[u].approvals
                         /\ unit'[u].last = unit[u].last /\ unit'[u].settled = unit[u].settled
  PROVE  Keeps
  BY SameSignatures, CallKeepsReflected DEF Keeps

LEMMA UnsigningCall ==
  ASSUME CInv, act' = act, stn' = stn, act.tag \notin {"Audit", "Checkpoint"},
         NEW u \in Unit, unit'[u].made, unit'[u].approvals = {},
         \A x \in Unit \ {u} : unit'[x] = unit[x]
  PROVE  Keeps
<1>1. ApprovedLast(unit')
  BY DEF CInv, ApprovedLast, LoopDone
<1>2. ASSUME NEW t \in Station, SignedOff(unit', t)
      PROVE  SignedOff(unit, t)
  <2>1. t # StationOf[u]
    BY <1>2, ReviewerAssumption DEF SignedOff, UnitsAt, ApprovalsSigned
  <2>2. UnitsAt(unit', t) = UnitsAt(unit, t) /\ \A x \in UnitsAt(unit, t) : unit'[x] = unit[x]
    BY <2>1 DEF UnitsAt
  <2>3. QED
    BY <1>2, <2>2 DEF SignedOff, ApprovalsSigned
<1>3. QED
  BY <1>1, <1>2, CallKeepsReflected DEF Keeps

LEMMA ApprovalKeeps ==
  ASSUME CInv, NEW s, NEW r \in Reviewer, act.tag = "Audit", act.at = s, StampApproval(s, r)
  PROVE  Keeps
<1>0. unit \in Units /\ s \in Station /\ ApprovedLast(unit)
  BY DEF CInv, GInv, WInv, IInv, TypeOK, Units, Auditing
<1>1. \A u \in UnitsAt(unit, s) : LoopDone(unit, u) /\ ReviewsSigned(unit, u)
  BY DEF CInv, GInv, WInv, Current, Built, Auditing
<1>2. /\ act' = act /\ stn' = stn
      /\ \A u \in Unit : unit'[u] = IF u \in UnitsAt(unit, s)
                                    THEN [unit[u] EXCEPT !.approvals = @ \cup {r}] ELSE unit[u]
  BY DEF StampApproval
<1>3. \A u \in Unit :
        /\ unit'[u].made = unit[u].made /\ unit'[u].reviews = unit[u].reviews
        /\ unit'[u].last = unit[u].last /\ unit'[u].settled = unit[u].settled
        /\ unit'[u].approvals = IF u \in UnitsAt(unit, s) THEN unit[u].approvals \cup {r}
                                ELSE unit[u].approvals
  <2>1. SUFFICES ASSUME NEW u \in Unit
                 PROVE  /\ unit'[u].made = unit[u].made /\ unit'[u].reviews = unit[u].reviews
                        /\ unit'[u].last = unit[u].last /\ unit'[u].settled = unit[u].settled
                        /\ unit'[u].approvals = IF u \in UnitsAt(unit, s)
                                                THEN unit[u].approvals \cup {r}
                                                ELSE unit[u].approvals
    OBVIOUS
  <2>2. unit[u] \in UnitStates
    BY <1>0 DEF Units
  <2>3. CASE u \in UnitsAt(unit, s)
    <3>1. unit'[u] = [unit[u] EXCEPT !.approvals = @ \cup {r}]
      BY <1>2, <2>3
    <3>2. QED
      BY <2>2, <2>3, <3>1 DEF UnitStates
  <2>4. CASE u \notin UnitsAt(unit, s)
    BY <1>2, <2>4
  <2>5. QED
    BY <2>3, <2>4
<1>4. ApprovedLast(unit')
  <2>1. SUFFICES ASSUME NEW u \in Unit
                 PROVE  /\ unit'[u].approvals \subseteq unit'[u].reviews
                        /\ unit'[u].approvals # {} => LoopDone(unit', u)
    BY DEF ApprovedLast
  <2>2. LoopDone(unit', u) <=> LoopDone(unit, u)
    BY <1>3 DEF LoopDone
  <2>3. CASE u \in UnitsAt(unit, s)
    <3>1. LoopDone(unit, u) /\ r \in unit[u].reviews
      BY <1>1, <2>3 DEF ReviewsSigned
    <3>2. /\ unit'[u].reviews = unit[u].reviews
          /\ unit'[u].approvals = unit[u].approvals \cup {r}
      BY <1>3, <2>3
    <3>3. unit[u].approvals \subseteq unit[u].reviews
      BY <1>0 DEF ApprovedLast
    <3>4. QED
      BY <2>2, <3>1, <3>2, <3>3
  <2>4. CASE u \notin UnitsAt(unit, s)
    BY <1>0, <1>3, <2>2, <2>4 DEF ApprovedLast
  <2>5. QED
    BY <2>3, <2>4
<1>5. ASSUME NEW t \in Station \ {s}, SignedOff(unit', t)
      PROVE  SignedOff(unit, t)
  <2>1. UnitsAt(unit', t) = UnitsAt(unit, t)
    BY <1>3 DEF UnitsAt
  <2>2. \A u \in UnitsAt(unit, t) : unit'[u].approvals = unit[u].approvals
    BY <1>3 DEF UnitsAt
  <2>3. QED
    BY <1>5, <2>1, <2>2 DEF SignedOff, ApprovalsSigned
<1>6. QED
  BY <1>2, <1>3, <1>4, <1>5, AuditCallKeeps DEF Keeps

\* What takes no beat and no stamp, on a request that is no decision.
LEMMA PlainCall ==
  ASSUME CInv, act' = act, stn' = stn, act.tag # "Checkpoint",
         \A u \in Unit : /\ unit'[u].made = unit[u].made
                         /\ unit'[u].reviews = unit[u].reviews
                         /\ unit'[u].approvals = unit[u].approvals
                         /\ unit'[u].last = unit[u].last /\ unit'[u].settled = unit[u].settled
  PROVE  Keeps
<1>1. /\ ApprovedLast(unit')
      /\ \A t \in Station : SignedOff(unit', t) => SignedOff(unit, t)
  BY SameSignatures
<1>2. CASE act.tag = "Audit"
  BY <1>1, <1>2, AuditCallKeeps DEF Keeps
<1>3. CASE act.tag # "Audit"
  BY <1>1, <1>3, CallKeepsReflected DEF Keeps
<1>4. QED
  BY <1>2, <1>3

\* A fix that takes a stamp back at a locked station takes an approval back.
LEMMA RepairUnsigns ==
  ASSUME CInv, NEW s \in Station, Repair(s)
  PROVE  Keeps
<1>0. /\ unit \in Units /\ stn \in Stations /\ ApprovedLast(unit)
      /\ LockedIsSigned(stn, unit) /\ act.tag = "FixFeedback"
  BY DEF CInv, GInv, WInv, IInv, TypeOK, Units, Stations, Repair, Asked
<1>1. PICK t \in 0..N, roles \in SUBSET Reviewer : ResolveFinding(t, roles)
  BY DEF Repair
<1> DEFINE hit == {u \in Unit : u \in UnitsAt(unit, t)
                                /\ roles \cap (unit[u].reviews \cup unit[u].approvals) # {}}
<1>2. /\ unit' = [u \in Unit |-> IF u \in hit
                                 THEN [unit[u] EXCEPT !.reviews = @ \ roles,
                                                      !.approvals = @ \ roles]
                                 ELSE unit[u]]
      /\ stn' = IF hit # {} THEN Reopen(stn, t) ELSE stn
      /\ act' = act
  BY <1>1 DEF ResolveFinding
<1>3. /\ \A u \in hit : u \in UnitsAt(unit, t) /\ u \in Unit
                        /\ roles \cap (unit[u].reviews \cup unit[u].approvals) # {}
      /\ hit # {} => t \in Station
  BY PlanAssumption DEF UnitsAt
<1> HIDE DEF hit
<1>4. \A u \in Unit :
        /\ unit'[u].made = unit[u].made
        /\ unit'[u].last = unit[u].last /\ unit'[u].settled = unit[u].settled
        /\ unit'[u].reviews = IF u \in hit THEN unit[u].reviews \ roles ELSE unit[u].reviews
        /\ unit'[u].approvals = IF u \in hit THEN unit[u].approvals \ roles
                                ELSE unit[u].approvals
  BY <1>0, <1>2 DEF Units, UnitStates
<1>5. ApprovedLast(unit')
  BY <1>0, <1>4 DEF ApprovedLast, LoopDone
<1>6. \A x : UnitsAt(unit', x) = UnitsAt(unit, x) /\ UnitsAt(unit, x) \subseteq Unit
  BY <1>4 DEF UnitsAt
<1>7. \A x \in Station : SignedOff(unit', x) => SignedOff(unit, x)
  BY <1>4, <1>6 DEF SignedOff, ApprovalsSigned
<1>8. ASSUME NEW x \in Station
      PROVE  \/ stn'[x].status = stn[x].status /\ stn'[x].phase = stn[x].phase
             \/ ~SignedOff(unit', x)
  <2>1. CASE stn'[x] = stn[x]
    BY <2>1
  <2>2. CASE hit # {} /\ x = t /\ stn[x].status = "Completed"
    <3>1. PICK u \in UnitsAt(unit, x) : u \in hit /\ u \in Unit
      BY <1>3, <2>2
    <3>2. Reviewer \subseteq unit[u].approvals
      BY <1>0, <2>2 DEF LockedIsSigned, WorkSigned, ApprovalsSigned
    <3>3. \E r \in Reviewer : r \in roles
      BY <1>3, <3>1
    <3>4. ~ApprovalsSigned(unit', u)
      BY <1>4, <3>1, <3>3 DEF ApprovalsSigned
    <3>5. QED
      BY <1>6, <3>1, <3>4 DEF SignedOff
  <2>3. QED
    BY <1>0, <1>2, <1>3, <2>1, <2>2 DEF Reopen, Stations
<1>9. QED
  BY <1>0, <1>2, <1>5, <1>7, <1>8, CallKeepsReflected DEF Keeps

LEMMA AskedKeeps ==
  ASSUME CInv, NEW s \in Station, AskedStation(s)
  PROVE  Keeps
<1>0. unit \in Units /\ stn \in Stations /\ ApprovedLast(unit) /\ Sound(unit)
  BY DEF CInv, GInv, WInv, IInv, TypeOK, Units, Stations
<1>1. CASE Specify(s)
  <2>0. act.tag = "Spec" /\ act.at = s
    BY <1>1 DEF Specify, Asked
  <2>1. CASE ElaborateSeal(s)
    <3>1. unit' = unit /\ act' = act /\ stn' = [stn EXCEPT ![s].elaborated = TRUE]
      BY <2>1 DEF ElaborateSeal
    <3>2. \A t \in Station : stn'[t].status = stn[t].status /\ stn'[t].phase = stn[t].phase
      BY <1>0, <3>1 DEF Stations, StationStates
    <3>3. QED
      BY <1>0, <2>0, <3>1, <3>2, CallKeepsReflected DEF Keeps
  <2>2. ASSUME NEW u \in Unit, CreateUnit(u)
        PROVE  Keeps
    <3>1. unit[u] = Fresh(u)
      BY <1>0, <2>2 DEF CreateUnit, Sound
    <3>2. /\ act' = act /\ stn' = stn /\ unit' = [unit EXCEPT ![u].made = TRUE]
      BY <2>2 DEF CreateUnit
    <3>3. /\ \A x \in Unit \ {u} : unit'[x] = unit[x]
          /\ unit'[u].made /\ unit'[u].approvals = {}
      BY <1>0, <3>1, <3>2 DEF Units, Fresh
    <3>4. QED
      BY <2>0, <3>2, <3>3, UnsigningCall
  <2>3. QED
    BY <1>1, <2>1, <2>2 DEF Specify
<1>2. CASE Review(s)
  <2>1. PICK r : StampReview(s, r) /\ act.tag = "Review"
    BY <1>2 DEF Review, Asked
  <2>2. /\ act' = act /\ stn' = stn
        /\ \A u \in Unit : unit'[u] = IF u \in UnitsAt(unit, s)
                                      THEN [unit[u] EXCEPT !.reviews = @ \cup {r}] ELSE unit[u]
    BY <2>1 DEF StampReview
  <2>3. ASSUME NEW u \in Unit
        PROVE  /\ unit'[u].made = unit[u].made
               /\ unit[u].reviews \subseteq unit'[u].reviews
               /\ unit'[u].approvals = unit[u].approvals
               /\ unit'[u].last = unit[u].last /\ unit'[u].settled = unit[u].settled
    <3>1. unit[u] \in UnitStates
      BY <1>0 DEF Units
    <3>2. CASE unit'[u] = [unit[u] EXCEPT !.reviews = @ \cup {r}]
      BY <3>1, <3>2 DEF UnitStates
    <3>3. QED
      BY <2>2, <3>2
  <2>4. QED
    BY <2>1, <2>2, <2>3, SigningCall
<1>3. CASE Manufacture(s)
  <2>1. PICK u \in UnitsAt(unit, s), w \in Workers, ok \in BOOLEAN :
          ~LoopDone(unit, u) /\ Beat(u, w, ok)
    BY <1>3 DEF Manufacture, WorkerTurn
  <2>2. u \in Unit /\ unit[u].approvals = {}
    BY <1>0, <2>1 DEF UnitsAt, ApprovedLast
  <2>3. /\ act' = act /\ stn' = stn
        /\ \A x \in Unit \ {u} : unit'[x] = unit[x]
        /\ unit'[u].made /\ unit'[u].approvals = {}
    BY <1>0, <2>1, <2>2 DEF Beat, Edit, Units, UnitStates
  <2>4. QED
    BY <1>3, <2>2, <2>3, UnsigningCall DEF Manufacture, Asked
<1>4. CASE \/ LockUnit(s) \/ MakeValid(s)
           \/ act.tag = "Audit" /\ \E u \in Unit, ok \in BOOLEAN : RecordGates(u, ok)
  <2>1. /\ act' = act /\ stn' = stn
        /\ \A u \in Unit :
             /\ unit'[u].made = unit[u].made /\ unit'[u].reviews = unit[u].reviews
             /\ unit'[u].approvals = unit[u].approvals
             /\ unit'[u].last = unit[u].last /\ unit'[u].settled = unit[u].settled
    BY <1>0, <1>4 DEF LockUnit, MakeValid, RecordGates, WriteOutput, SetStatus, Edit, Units,
                      UnitStates
  <2>2. act.tag # "Checkpoint"
    <3>1. CASE \E tag \in {"Manufacture", "Noop", "Audit", "UnitsInvalid"} : Asked(tag, s)
      BY <3>1 DEF Asked
    <3>2. QED
      BY <1>4, <3>1 DEF LockUnit, MakeValid
  <2>3. QED
    BY <2>1, <2>2, PlainCall
<1>5. CASE Audit(s)
  <2>0. act.tag = "Audit" /\ act.at = s
    BY <1>5 DEF Audit, Asked
  <2>1. CASE \E r \in Effective : StampApproval(s, r)
    BY <2>0, <2>1, PlanAssumption, ApprovalKeeps
  <2>2. CASE \E u \in UnitsAt(unit, s), ok \in BOOLEAN : RecordGates(u, ok)
    BY <1>4, <2>0, <2>2 DEF UnitsAt
  <2>3. QED
    BY <1>5, <2>1, <2>2 DEF Audit
<1>6. CASE Repair(s)
  BY <1>6, RepairUnsigns
<1>7. CASE Recover(s)
  <2>1. PICK u \in UnitsAt(unit, s) : ResetUnit(u)
    BY <1>7 DEF Recover
  <2>2. u \in Unit
    BY DEF UnitsAt
  <2>3. /\ act' = act /\ stn' = stn
        /\ \A x \in Unit \ {u} : unit'[x] = unit[x]
        /\ unit'[u].made /\ unit'[u].approvals = {}
    BY <1>0, <2>1, <2>2 DEF ResetUnit, Edit, Units, Cleared, Fresh
  <2>4. QED
    BY <1>7, <2>2, <2>3, UnsigningCall DEF Recover, Asked
<1>8. QED
  BY <1>1, <1>2, <1>3, <1>4, <1>5, <1>6, <1>7 DEF AskedStation

LEMMA NextCInv ==
  ASSUME CInv, [ObedientNext]_vars, [Kept]_vars
  PROVE  /\ CInv'
         /\ Dispatches("Checkpoint") => stn[act'.at].phase = "Checkpoint"
<1>0. GInv'
  BY NextGInv DEF CInv
<1>1. CASE UNCHANGED <<stn, unit, act, released>>
  BY <1>0, <1>1 DEF CInv, ApprovableGate, AtHold, Dispatches
<1>2. CASE (QuietTick \/ DecideAsked) /\ ~UNCHANGED vars
  <2>1. PICK st \in Stations, rel \in SUBSET Station : Turn(st, rel) /\ Handed(st, rel)
    BY <1>2, ObedientTurn DEF CInv, GInv, WInv
  <2>2. ApprovedLast(unit')
    BY <2>1 DEF Turn, CInv
  <2>3. QED
    BY <1>0, <1>2, <2>1, <2>2, TurnKeepsReflected DEF CInv, Dispatches
<1>3. ASSUME NEW s \in Station, AskedStation(s)
      PROVE  CInv' /\ act' = act
  <2>1. act' = act
    BY <1>3 DEF AskedStation, Specify, Review, Manufacture, LockUnit, Audit, MakeValid, Repair,
       Recover, ElaborateSeal, CreateUnit, StampReview, StampApproval, Beat, SetStatus,
       RecordGates, WriteOutput, ResolveFinding, ResetUnit, Edit
  <2>2. QED
    BY <1>0, <1>3, <2>1, AskedKeeps DEF CInv, Keeps
<1>4. CASE ReviewRun \/ (\E s \in 0..N : FileFinding(s)) \/ UNCHANGED vars
  BY <1>1, <1>4 DEF ReviewRun, RunReviewStamp, FileFinding, vars
<1>5. QED
  BY <1>1, <1>2, <1>3, <1>4 DEF ObedientNext, Dispatches

LEMMA ObedientCInv == ObedientSpec /\ StartedStationKept => []CInv
<1>1. CInv /\ [ObedientNext]_vars /\ [Kept]_vars => CInv'
  BY NextCInv
<1>2. QED
  BY InitCInv, <1>1, PTL DEF ObedientSpec, StartedStationKept, Kept

-----------------------------------------------------------------------------
(* Where no Blocked station starts over *)

\* No step of a lights-out run blocks a station, and a single station has none
\* before it whose lock could put it back.
NoneBlocked == Mode = "dark" => \A s \in Station : stn[s].status # "Blocked"

LEMMA TurnBlocksNone ==
  ASSUME IInv, NEW st \in Stations, NEW rel, Turn(st, rel), NEW t \in Station
  PROVE  /\ st[t].status # "Blocked" => stn'[t].status # "Blocked"
         /\ N = 1 /\ st[t].status \notin {"absent", "Pending"} => stn'[t].status # "Pending"
<1>0. act' = Decide(st, unit, fb') /\ stn' = Advance(st, act')
  BY DEF Turn
<1>1. CASE Unlocked(st) = {}
  <2>1. act'.tag \in {"RunReview", "Sealed"}
    BY <1>0, <1>1, DecideType
  <2>2. QED
    BY <1>0, <2>1 DEF Advance
<1>2. CASE Unlocked(st) # {}
  <2>1. act' \in Actions /\ act'.at \in Station
    BY <1>0, <1>2, DecideType
  <2>2. N = 1 => t = act'.at
    BY <2>1 DEF Station
  <2>3. QED
    BY <1>0, <2>1, <2>2, AdvanceEffect DEF BackToSpec
<1>3. QED
  BY <1>1, <1>2

LEMMA NextKept ==
  ASSUME IInv, NoneBlocked, [ObedientNext]_vars, N = 1 \/ Mode = "dark"
  PROVE  NoneBlocked' /\ [Kept]_vars
<1>0. stn \in Stations
  BY DEF IInv, TypeOK, Stations
<1>1. CASE QuietTick \/ DecideAsked
  <2>1. PICK st \in Stations, rel \in SUBSET Station : Turn(st, rel) /\ Handed(st, rel)
    BY <1>1, ObedientTurn
  <2>2. CASE Mode = "dark"
    <3>1. st = stn
      BY <2>1, <2>2 DEF Handed
    <3>2. QED
      BY <2>1, <2>2, <3>1, TurnBlocksNone DEF NoneBlocked, Kept
  <2>3. CASE Mode # "dark" /\ N = 1
    <3>1. ASSUME NEW t \in Station, stn[t].status = "Blocked"
          PROVE  st[t].status \notin {"absent", "Pending"}
      <4>1. CASE st = stn
        BY <3>1, <4>1
      <4>2. CASE Unlocked(stn) # {} /\ st \in {ReleasedStations, ApprovedStations, BlockedStations}
        <5>1. Frontier(stn) \in Station /\ t = Frontier(stn)
          BY <2>3, <4>2, FrontierUnlocked DEF Unlocked, Station
        <5>2. QED
          BY <1>0, <3>1, <4>2, <5>1, CompleteEffect
             DEF ReleasedStations, SetPhase, ApprovedStations, BlockedStations, Stations,
                 StationStates
      <4>3. QED
        BY <2>1, <4>1, <4>2 DEF Handed
    <3>2. QED
      BY <2>1, <2>3, <3>1, TurnBlocksNone DEF NoneBlocked, Kept
  <2>4. QED
    BY <2>2, <2>3
<1>2. CASE \/ \E s \in Station : AskedStation(s)
           \/ ReviewRun \/ (\E s \in 0..N : FileFinding(s)) \/ UNCHANGED vars
  <2>1. \A t \in Station : \/ stn'[t].status = stn[t].status
                           \/ stn'[t].status = "InProgress"
    BY <1>2, AskedCalls, CallMoves DEF ReviewRun, FindingCalls
  <2>2. QED
    BY <2>1 DEF NoneBlocked, Kept
<1>3. QED
  BY <1>1, <1>2 DEF ObedientNext

LEMMA AloneOrDarkKept ==
  ASSUME N = 1 \/ Mode = "dark"
  PROVE  ObedientSpec => StartedStationKept
<1>1. Init => NoneBlocked
  BY DEF Init, NoneBlocked, Absent
<1>2. IInv /\ NoneBlocked /\ [ObedientNext]_vars => NoneBlocked' /\ [Kept]_vars
  BY NextKept
<1>3. QED
  BY <1>1, <1>2, ObedientInvariant, PTL DEF ObedientSpec, StartedStationKept, Kept

-----------------------------------------------------------------------------
(* The theorems about the gates *)

\* An interactive station's units are dispatched and its work is audited only
\* after the operator released it, as long as no lock upstream puts a Blocked
\* station back to its beginning: what complete_station's comment promises of
\* downstream stations is what the pre-execution gate rests on.
THEOREM ReleaseBeforeWork == ObedientSpec /\ StartedStationKept => []SpecGate
<1>1. GInv => SpecGate
  BY DEF GInv
<1>2. QED
  BY <1>1, ObedientGInv, PTL

\* Under the same condition the operator that is asked to decide a checkpoint can
\* approve it: the phase recorded for the station is the one
\* station_at_checkpoint_hold looks for.
THEOREM AskedIsApprovable == ObedientSpec /\ StartedStationKept => []ApprovableGate
<1>1. CInv => ApprovableGate
  BY DEF CInv
<1>2. QED
  BY <1>1, ObedientCInv, PTL

\* ... and the station it locks went through Reflect.
THEOREM ReflectedBeforeCheckpoint == ObedientSpec /\ StartedStationKept => ReflectFirst
<1>1. CInv /\ [ObedientNext]_vars /\ [Kept]_vars
        => [Dispatches("Checkpoint") => stn[act'.at].phase = "Checkpoint"]_vars
  BY NextCInv
<1>2. QED
  BY <1>1, ObedientCInv, PTL DEF ObedientSpec, StartedStationKept, Kept, ReflectFirst

\* The condition is met where nothing can be put back: in a plan of one station,
\* and in a lights-out run, which asks nobody and of which only ReflectFirst says
\* something, the three hold of every behaviour of the agent.
THEOREM GatesOfOneStation ==
  ASSUME N = 1 \/ Mode = "dark"
  PROVE  ObedientSpec => [](SpecGate /\ ApprovableGate) /\ ReflectFirst
  BY AloneOrDarkKept, ReleaseBeforeWork, AskedIsApprovable, ReflectedBeforeCheckpoint, PTL
=============================================================================
