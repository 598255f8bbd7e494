------------------------------ MODULE Manager ------------------------------
(***************************************************************************)
(* The manager of darkrun-mcp (position.rs): a cursor over one Run's       *)
(* stations.  Every tick derives one action from what is on disk and       *)
(* stamps the recorded phase of the station forward; between two ticks the *)
(* agent, its reviewers, the operator and the review UI change the same    *)
(* documents (units.rs, feedback.rs, checkpoint_decide).                   *)
(*                                                                         *)
(* Stations are 1..N in plan order.  Each operation is one atomic step     *)
(* here; ArtifactWrites takes the writes of concurrent operations apart.   *)
(***************************************************************************)
EXTENDS Naturals, FiniteSets

CONSTANTS N,            \* stations in the run's plan
          Unit,         \* unit slugs
          StationOf,    \* the station each unit is decomposed under
          Deps,         \* each unit's depends_on
          W,            \* workers of a station's Pass loop, in order 1..W
          Reviewer,     \* a station's declared reviewers
          Effective,    \* those whose surface scope fits the run
          RunReviewer,  \* the factory's run reviewers, as fitted to the run
          Gated,        \* units that declare quality gates
          Promised,     \* units that declare outputs
          Mode,         \* "solo" or "dark"
          MaxPasses,    \* MAX_PASSES
          MaxFilings    \* bound: findings filed in one behaviour

Station == 1..N
Workers == 1..W

ASSUME PlanAssumption ==
    /\ N \in Nat \ {0} /\ W \in Nat \ {0}
    /\ MaxPasses \in Nat /\ MaxFilings \in Nat
    /\ StationOf \in [Unit -> Station]
    /\ Deps \in [Unit -> SUBSET Unit]
    /\ Effective \subseteq Reviewer
    /\ Gated \subseteq Unit /\ Promised \subseteq Unit
    /\ Mode \in {"solo", "dark"}

\* A station that declares no reviewer does not pass the factory's validation.
ASSUME ReviewerAssumption == Reviewer # {}

VARIABLES stn,         \* state.json: each station's entry
          unit,        \* the unit documents
          fb,          \* open findings per station (0: run scope or none named)
          filed,       \* findings filed so far
          runReviews,  \* run reviewers whose stamp is on record
          act,         \* the action the last tick handed the agent
          released     \* history: stations the operator released at the
                       \* pre-execution gate since they were last held there

vars == <<stn, unit, fb, filed, runReviews, act, released>>

Phases == {"Spec", "Review", "UserGate", "Manufacture", "Audit", "Reflect",
           "Checkpoint"}
Tags == Phases \cup {"none", "Noop", "FixFeedback", "UnitsInvalid", "Escalate",
                     "Hold", "RunReview", "Sealed"}

\* "absent": no entry in state.json.
StationStates == [status : {"absent", "Pending", "InProgress", "Blocked", "Completed"},
                  phase : Phases,
                  elaborated : BOOLEAN,
                  entered : BOOLEAN,                          \* checkpoint.entered_at
                  outcome : {"none", "Advanced", "Blocked"}]  \* checkpoint.outcome

\* settled: the workers whose latest beat advanced or was skipped; last: the
\* worker of the last beat, 0 before the first; gates: every declared gate has
\* a satisfied result; output: every declared output is on disk.
UnitStates == [made : BOOLEAN,
               status : {"Pending", "InProgress", "Completed"},
               reviews : SUBSET Reviewer,
               approvals : SUBSET Reviewer,
               settled : SUBSET Workers,
               last : 0..W,
               pass : 0..(MaxPasses + 1),
               gates : BOOLEAN,
               output : BOOLEAN]

Actions == [tag : Tags, at : 0..N]

TypeOK ==
    /\ stn \in [Station -> StationStates]
    /\ unit \in [Unit -> UnitStates]
    /\ fb \in [0..N -> Nat]
    /\ filed \in 0..MaxFilings
    /\ runReviews \subseteq RunReviewer
    /\ act \in Actions
    /\ released \subseteq Station

\* ensure_station's seed.
Absent == [status |-> "absent", phase |-> "Spec", elaborated |-> FALSE,
           entered |-> FALSE, outcome |-> "none"]

Fresh(u) == [made |-> FALSE, status |-> "Pending", reviews |-> {}, approvals |-> {},
             settled |-> {}, last |-> 0, pass |-> 0,
             gates |-> u \notin Gated, output |-> u \notin Promised]

\* run_start: the plan's first station is seeded.
Init ==
    /\ stn = [s \in Station |-> IF s = 1 THEN [Absent EXCEPT !.status = "Pending"] ELSE Absent]
    /\ unit = [u \in Unit |-> Fresh(u)]
    /\ fb = [s \in 0..N |-> 0]
    /\ filed = 0
    /\ runReviews = {}
    /\ act = [tag |-> "none", at |-> 0]
    /\ released = {}

-----------------------------------------------------------------------------
(* derive.rs: a station's phase as its units' documents tell it *)

UnitsAt(un, s) == {u \in Unit : StationOf[u] = s /\ un[u].made}

ReviewsSigned(un, u) == Reviewer \subseteq un[u].reviews
ApprovalsSigned(un, u) == Reviewer \subseteq un[u].approvals
\* The last beat settled, on the terminal worker, and every worker is settled.
LoopDone(un, u) == un[u].last = W /\ un[u].settled = Workers

HasSignals(un, s) ==
    \E u \in UnitsAt(un, s) :
        un[u].reviews # {} \/ un[u].approvals # {} \/ un[u].pass > 0

\* Mutant: only the terminal worker's beat is asked for.
DerivedTerminalOnly(un, s) ==
    IF \E u \in UnitsAt(un, s) : ~ReviewsSigned(un, u) THEN "Review"
    ELSE IF \E u \in UnitsAt(un, s) : un[u].last # W \/ W \notin un[u].settled THEN "Manufacture"
    ELSE IF \E u \in UnitsAt(un, s) : ~ApprovalsSigned(un, u) THEN "Audit"
    ELSE "Checkpoint"

Derived(un, s) ==
    IF \E u \in UnitsAt(un, s) : ~ReviewsSigned(un, u) THEN "Review"
    ELSE IF \E u \in UnitsAt(un, s) : ~LoopDone(un, u) THEN "Manufacture"
    ELSE IF \E u \in UnitsAt(un, s) : ~ApprovalsSigned(un, u) THEN "Audit"
    ELSE "Checkpoint"

\* resolve_phase's pre_gate_skip.
PreGateSkip(recorded, derived) ==
    \/ recorded = "Review" /\ derived \in {"Manufacture", "Audit", "Checkpoint"}
    \/ recorded = "Spec" /\ derived = "Manufacture"

\* Mutant: resolve_phase without the authority of a held gate.
ResolveGateless(recorded, un, s) ==
    IF ~HasSignals(un, s) THEN recorded
    ELSE IF Mode # "dark" /\ PreGateSkip(recorded, Derived(un, s)) THEN "UserGate"
    ELSE IF Derived(un, s) = "Checkpoint" /\ recorded = "Reflect" THEN "Reflect"
    ELSE Derived(un, s)

\* Mutant: resolve_phase without the Reflect reconciliation.
ResolveReflectless(recorded, un, s) ==
    IF recorded = "UserGate" THEN "UserGate"
    ELSE IF ~HasSignals(un, s) THEN recorded
    ELSE IF Mode # "dark" /\ PreGateSkip(recorded, Derived(un, s)) THEN "UserGate"
    ELSE Derived(un, s)

\* resolve_phase: the derived phase, with the two beats it knows nothing of
\* put back.
Resolve(recorded, un, s) ==
    IF recorded = "UserGate" THEN "UserGate"
    ELSE IF ~HasSignals(un, s) THEN recorded
    ELSE IF Mode # "dark" /\ PreGateSkip(recorded, Derived(un, s)) THEN "UserGate"
    ELSE IF Derived(un, s) = "Checkpoint" /\ recorded = "Reflect" THEN "Reflect"
    ELSE Derived(un, s)

-----------------------------------------------------------------------------
(* derive_position *)

Unlocked(st) == {s \in Station : st[s].status # "Completed"}
Frontier(st) == CHOOSE s \in Unlocked(st) : \A t \in Unlocked(st) : s <= t

Locked(un, s) == {u \in UnitsAt(un, s) : un[u].status = "Completed"}

\* wave_ready: dependencies are looked up among the station's own units.
Ready(un, s) ==
    {u \in UnitsAt(un, s) : un[u].status = "Pending" /\ Deps[u] \subseteq Locked(un, s)}

\* The Manufacture arm, with the output-existence and the quality-gate hold.
ManufactureTag(un, s) ==
    IF UnitsAt(un, s) = {} THEN "Spec"
    ELSE IF Ready(un, s) # {} THEN "Manufacture"
    ELSE IF Locked(un, s) # UnitsAt(un, s) THEN "Noop"
    ELSE IF \E u \in Locked(un, s) : ~un[u].output \/ ~un[u].gates THEN "UnitsInvalid"
    ELSE "Audit"

\* Mutant: no second look at the quality gates.
PhaseTagUngated(phase, un, s) ==
    IF phase = "Manufacture" THEN ManufactureTag(un, s) ELSE phase

PhaseTag(phase, un, s) ==
    IF phase \in {"Reflect", "Checkpoint"} /\ \E u \in Locked(un, s) : ~un[u].gates
    THEN "UnitsInvalid"
    ELSE IF phase = "Manufacture" THEN ManufactureTag(un, s)
    ELSE phase

\* Mutant: the run track comes first.
DecideRunFirst(st, un, f) ==
    LET s == Frontier(st) IN
    IF Unlocked(st) = {}
    THEN [tag |-> IF Mode # "dark" /\ ~(RunReviewer \subseteq runReviews)
                  THEN "RunReview" ELSE "Sealed",
          at |-> 0]
    ELSE IF \E u \in UnitsAt(un, s) : un[u].pass > MaxPasses THEN [tag |-> "Escalate", at |-> s]
    ELSE [tag |-> PhaseTag(Resolve(st[s].phase, un, s), un, s), at |-> s]

\* Mutant: the budget ends one beat early.
DecideEarlyEscalate(st, un, f) ==
    LET s == Frontier(st) IN
    IF Unlocked(st) = {}
    THEN [tag |-> IF Mode # "dark" /\ ~(RunReviewer \subseteq runReviews)
                  THEN "RunReview" ELSE "Sealed",
          at |-> 0]
    ELSE IF \E t \in 0..N : f[t] > 0 THEN [tag |-> "FixFeedback", at |-> s]
    ELSE IF \E u \in UnitsAt(un, s) : un[u].pass >= MaxPasses THEN [tag |-> "Escalate", at |-> s]
    ELSE [tag |-> PhaseTag(Resolve(st[s].phase, un, s), un, s), at |-> s]

\* Findings preempt the run, the Pass budget preempts the phase.
Decide(st, un, f) ==
    LET s == Frontier(st) IN
    IF Unlocked(st) = {}
    THEN [tag |-> IF Mode # "dark" /\ ~(RunReviewer \subseteq runReviews)
                  THEN "RunReview" ELSE "Sealed",
          at |-> 0]
    ELSE IF \E t \in 0..N : f[t] > 0 THEN [tag |-> "FixFeedback", at |-> s]
    ELSE IF \E u \in UnitsAt(un, s) : un[u].pass > MaxPasses THEN [tag |-> "Escalate", at |-> s]
    ELSE [tag |-> PhaseTag(Resolve(st[s].phase, un, s), un, s), at |-> s]

-----------------------------------------------------------------------------
(* advance_state *)

\* Mutant: complete_station resets whatever follows.
CompleteResettingNext(st, s) ==
    LET locked == [st EXCEPT ![s].status = "Completed", ![s].outcome = "Advanced"]
    IN  IF s = N THEN locked
        ELSE [locked EXCEPT ![s + 1].status = "Pending", ![s + 1].phase = "Spec"]

\* complete_station: lock s; the next station starts over unless it is
\* Completed or InProgress.
Complete(st, s) ==
    LET locked == [st EXCEPT ![s].status = "Completed", ![s].outcome = "Advanced"]
    IN  IF s = N \/ st[s + 1].status \in {"Completed", "InProgress"} THEN locked
        ELSE [locked EXCEPT ![s + 1].status = "Pending", ![s + 1].phase = "Spec"]

SetPhase(st, s, phase) == [st EXCEPT ![s].phase = phase]

\* The Checkpoint action enters the slot; it leaves the recorded phase alone.
EnterSlot(st, s) == [st EXCEPT ![s].entered = TRUE, ![s].outcome = "none"]

Advance(st, a) ==
    CASE a.tag = "Spec" ->
           [st EXCEPT ![a.at].status = "InProgress",
                      ![a.at].phase = IF Mode # "dark" /\ ~st[a.at].elaborated
                                      THEN "Spec" ELSE "Review"]
      [] a.tag = "Review" -> SetPhase(st, a.at, IF Mode = "dark" THEN "Manufacture" ELSE "UserGate")
      [] a.tag = "UserGate" -> SetPhase(st, a.at, "UserGate")
      [] a.tag = "Manufacture" -> SetPhase(st, a.at, "Manufacture")
      [] a.tag = "Audit" -> SetPhase(st, a.at, "Reflect")
      [] a.tag = "Reflect" -> SetPhase(st, a.at, "Checkpoint")
      [] a.tag = "Checkpoint" /\ Mode = "dark" -> Complete(EnterSlot(st, a.at), a.at)
      [] a.tag = "Checkpoint" /\ Mode # "dark" -> EnterSlot(st, a.at)
      [] OTHER -> st

\* units.rs reset: everything but the unit's definition.
Cleared(u) == [Fresh(u) EXCEPT !.made = TRUE]

\* What a tick meets besides the documents: the units the review UI flagged for
\* a reset, the stations whose premises drifted, and whether a dirty tree, a
\* merge in progress, an invalid decomposition, an environment-blocked gate,
\* missing proof or the deadlock guard withholds the derived action.
Meets == [flagged : SUBSET {u \in Unit : unit[u].made},
          drifted : {d \in SUBSET Station : filed + Cardinality(d) <= MaxFilings},
          withheld : BOOLEAN]
Nothing == [flagged |-> {}, drifted |-> {}, withheld |-> FALSE]

MoreFindings(f, at) == [s \in 0..N |-> IF s \in at THEN f[s] + 1 ELSE f[s]]

\* What one tick makes of the stations st, the findings f (n filed so far) and
\* the releases rel.  The sweep and the flagged resets come before the
\* derivation; an action that is withheld leaves the stations alone.
TickFrom(st, f, n, rel, m) ==
    LET un == [u \in Unit |-> IF u \in m.flagged
                              THEN [Cleared(u) EXCEPT !.output = unit[u].output]
                              ELSE unit[u]]
        open == MoreFindings(f, m.drifted)
        a == IF m.withheld THEN [tag |-> "Hold", at |-> 0] ELSE Decide(st, un, open)
        st1 == Advance(st, a)
    IN  /\ n + Cardinality(m.drifted) <= MaxFilings
        /\ filed' = n + Cardinality(m.drifted)
        /\ stn' = st1
        /\ unit' = un
        /\ fb' = open
        /\ act' = a
        /\ released' = {s \in rel : st1[s].phase # "UserGate"}
        /\ UNCHANGED runReviews

\* run_tick.
Tick(m) == TickFrom(stn, fb, filed, released, m)

QuietTick == Tick(Nothing)

-----------------------------------------------------------------------------
(* checkpoint_decide: it ends with a tick of its own *)

\* station_at_checkpoint_hold.
AtHold(st, s) == st[s].phase = "Checkpoint" /\ st[s].entered /\ st[s].outcome = "none"

\* Approve at the pre-execution gate: the wave is released.
Release(m) ==
    LET s == Frontier(stn) IN
    /\ Unlocked(stn) # {}
    /\ stn[s].phase = "UserGate"
    /\ TickFrom(SetPhase(stn, s, "Manufacture"), fb, filed, released \cup {s}, m)

\* Approve at a held checkpoint.  (A refusal, by the off-gate guard, an open
\* annotation, a missing gate review or missing evidence, changes nothing.)
Approve(m) ==
    LET s == Frontier(stn) IN
    /\ Unlocked(stn) # {}
    /\ stn[s].phase # "UserGate"
    /\ AtHold(stn, s)
    /\ TickFrom(Complete(stn, s), fb, filed, released, m)

\* A block: at the pre-execution gate the station stays; anywhere else it is
\* Blocked.  The operator's words (at the gate they name the station) and, past
\* the gate, the station's open annotations become findings.
Block(words, marks, m) ==
    LET s == Frontier(stn)
        gate == stn[s].phase = "UserGate"
        st == IF gate THEN stn
              ELSE [stn EXCEPT ![s].status = "Blocked", ![s].outcome = "Blocked"]
        said == (IF words THEN {IF gate THEN s ELSE 0} ELSE {})
                \cup (IF marks /\ ~gate THEN {s} ELSE {})
    IN  /\ Unlocked(stn) # {}
        /\ TickFrom(st, MoreFindings(fb, said), filed + Cardinality(said), released, m)

-----------------------------------------------------------------------------
(* units.rs, feedback.rs and the stamps of position.rs *)

Edit(u, new) ==
    /\ unit[u].made
    /\ unit' = [unit EXCEPT ![u] = new]
    /\ UNCHANGED <<stn, fb, filed, runReviews, act, released>>

CreateUnit(u) ==
    /\ ~unit[u].made
    /\ \A d \in Deps[u] : unit[d].made
    /\ unit' = [unit EXCEPT ![u].made = TRUE]
    /\ UNCHANGED <<stn, fb, filed, runReviews, act, released>>

\* stamp_role, for either kind: a station with an open finding is skipped.
StampReview(s, r) ==
    /\ fb[s] = 0
    /\ unit' = [u \in Unit |-> IF u \in UnitsAt(unit, s)
                               THEN [unit[u] EXCEPT !.reviews = @ \cup {r}] ELSE unit[u]]
    /\ UNCHANGED <<stn, fb, filed, runReviews, act, released>>

StampApproval(s, r) ==
    /\ fb[s] = 0
    /\ unit' = [u \in Unit |-> IF u \in UnitsAt(unit, s)
                               THEN [unit[u] EXCEPT !.approvals = @ \cup {r}] ELSE unit[u]]
    /\ UNCHANGED <<stn, fb, filed, runReviews, act, released>>

\* Mutant: no write-time budget.
BeatUncapped(u, w, settles) ==
    Edit(u, [unit[u] EXCEPT
               !.pass = @ + 1,
               !.last = w,
               !.settled = IF settles THEN @ \cup {w} ELSE @ \ {w},
               !.status = IF @ = "Pending" THEN "InProgress" ELSE @])

\* record_iteration: refused once the budget is burned; settling is an advance
\* or a skip, anything else a reject.
Beat(u, w, settles) ==
    /\ unit[u].pass <= MaxPasses
    /\ Edit(u, [unit[u] EXCEPT
                  !.pass = @ + 1,
                  !.last = w,
                  !.settled = IF settles THEN @ \cup {w} ELSE @ \ {w},
                  !.status = IF @ = "Pending" THEN "InProgress" ELSE @])

\* update, as far as the status goes.
SetStatus(u, status) == Edit(u, [unit[u] EXCEPT !.status = status])

\* record_gate_result, all of a unit's gates at once.
RecordGates(u, satisfied) == u \in Gated /\ Edit(u, [unit[u] EXCEPT !.gates = satisfied])

\* The agent writes what the unit produces; a unit that declares no output has
\* nothing missing before or after.
WriteOutput(u) == Edit(u, [unit[u] EXCEPT !.output = TRUE])

ResetUnit(u) == Edit(u, [Cleared(u) EXCEPT !.output = unit[u].output])

\* elaborate_seal: only a station with an entry.
ElaborateSeal(s) ==
    /\ stn[s].status # "absent"
    /\ stn' = [stn EXCEPT ![s].elaborated = TRUE]
    /\ UNCHANGED <<unit, fb, filed, runReviews, act, released>>

RunReviewStamp(r) ==
    /\ runReviews' = runReviews \cup {r}
    /\ UNCHANGED <<stn, unit, fb, filed, act, released>>

FileFinding(s) ==
    /\ filed < MaxFilings
    /\ filed' = filed + 1
    /\ fb' = [fb EXCEPT ![s] = @ + 1]
    /\ UNCHANGED <<stn, unit, runReviews, act, released>>

\* apply_invalidation's second half.
Reopen(st, s) ==
    IF st[s].status # "Completed" THEN st
    ELSE [st EXCEPT ![s].status = "InProgress", ![s].phase = "Audit", ![s].outcome = "none"]

\* Mutant: a material close leaves a locked station locked.
ResolveFindingLocked(s, invalidates) ==
    LET hit == {u \in Unit : u \in UnitsAt(unit, s)
                             /\ invalidates \cap (unit[u].reviews \cup unit[u].approvals) # {}}
    IN  /\ fb[s] > 0
        /\ fb' = [fb EXCEPT ![s] = @ - 1]
        /\ unit' = [u \in Unit |-> IF u \in hit
                                   THEN [unit[u] EXCEPT !.reviews = @ \ invalidates,
                                                        !.approvals = @ \ invalidates]
                                   ELSE unit[u]]
        /\ UNCHANGED <<stn, filed, runReviews, act, released>>

\* close_with_reply, and set_status to a terminal status: a fix that landed
\* clears the invalidated stamps of the finding's station and, when it cleared
\* one, re-opens the station if it was locked.  (No fix landed: nothing is
\* invalidated.)
ResolveFinding(s, invalidates) ==
    LET hit == {u \in Unit : u \in UnitsAt(unit, s)
                             /\ invalidates \cap (unit[u].reviews \cup unit[u].approvals) # {}}
    IN  /\ fb[s] > 0
        /\ fb' = [fb EXCEPT ![s] = @ - 1]
        /\ unit' = [u \in Unit |-> IF u \in hit
                                   THEN [unit[u] EXCEPT !.reviews = @ \ invalidates,
                                                        !.approvals = @ \ invalidates]
                                   ELSE unit[u]]
        /\ stn' = IF hit # {} THEN Reopen(stn, s) ELSE stn
        /\ UNCHANGED <<filed, runReviews, act, released>>

-----------------------------------------------------------------------------
(* Two agents *)

\* Any tool call, at any time: what the engine itself does not refuse.
UnitCalls(u) ==
    \/ CreateUnit(u)
    \/ ResetUnit(u)
    \/ WriteOutput(u)
    \/ \E ok \in BOOLEAN : RecordGates(u, ok)
    \/ \E x \in {"Pending", "InProgress", "Completed"} : SetStatus(u, x)
    \/ \E w \in Workers, ok \in BOOLEAN : Beat(u, w, ok)

StationCalls(s) ==
    \/ ElaborateSeal(s)
    \/ \E r \in Reviewer : StampReview(s, r) \/ StampApproval(s, r)

FindingCalls(s) ==
    \/ FileFinding(s)
    \/ \E roles \in SUBSET Reviewer : ResolveFinding(s, roles)

OperatorCalls(m) ==
    \/ Release(m)
    \/ Approve(m)
    \/ \E words, marks \in BOOLEAN : Block(words, marks, m)

LightsOutNext ==
    \/ \E m \in Meets : Tick(m)
    \/ \E u \in Unit : UnitCalls(u)
    \/ \E s \in Station : StationCalls(s)
    \/ \E s \in 0..N : FindingCalls(s)
    \/ \E r \in RunReviewer : RunReviewStamp(r)

FreeNext == LightsOutNext \/ \E m \in Meets : OperatorCalls(m)

FreeSpec == Init /\ [][FreeNext]_vars

\* ... of an agent with no operator beside it.
LightsOutSpec == Init /\ [][LightsOutNext]_vars

\* An agent that does what the last tick asked of it, and nothing else; a
\* reviewer or the operator may file a finding at any time.
Asked(tag, s) == act = [tag |-> tag, at |-> s]

Specify(s) == Asked("Spec", s) /\ (ElaborateSeal(s) \/ \E u \in Unit : StationOf[u] = s /\ CreateUnit(u))

Review(s) == Asked("Review", s) /\ \E r \in Effective : StampReview(s, r)

\* A worker takes its beat once every worker before it is settled.
WorkerTurn(u, w) == 1..(w - 1) \subseteq unit[u].settled /\ ~LoopDone(unit, u)

Manufacture(s) ==
    /\ Asked("Manufacture", s) \/ Asked("Noop", s)
    /\ \E u \in UnitsAt(unit, s) :
          /\ unit[u].status = "InProgress" \/ u \in Ready(unit, s)
          /\ \E w \in Workers, ok \in BOOLEAN : WorkerTurn(u, w) /\ Beat(u, w, ok)

LockUnit(s) ==
    /\ \E tag \in {"Manufacture", "Noop", "Audit"} : Asked(tag, s)
    /\ \E u \in UnitsAt(unit, s) :
          unit[u].status = "InProgress" /\ LoopDone(unit, u) /\ SetStatus(u, "Completed")

Audit(s) ==
    /\ Asked("Audit", s)
    /\ \/ \E r \in Effective : StampApproval(s, r)
       \/ \E u \in UnitsAt(unit, s), ok \in BOOLEAN : RecordGates(u, ok)

MakeValid(s) ==
    /\ Asked("UnitsInvalid", s) \/ Asked("Audit", s)
    /\ \E u \in UnitsAt(unit, s) : RecordGates(u, TRUE) \/ WriteOutput(u)

Repair(s) == Asked("FixFeedback", s) /\ \E t \in 0..N, roles \in SUBSET Reviewer : ResolveFinding(t, roles)

Recover(s) ==
    /\ Asked("Escalate", s)
    /\ \E u \in UnitsAt(unit, s) : unit[u].pass > MaxPasses /\ ResetUnit(u)

AskedStation(s) ==
    \/ Specify(s) \/ Review(s) \/ Manufacture(s) \/ LockUnit(s) \/ Audit(s)
    \/ MakeValid(s) \/ Repair(s) \/ Recover(s)

DecideAsked == Mode # "dark" /\ act.tag \in {"UserGate", "Checkpoint"} /\ OperatorCalls(Nothing)

ReviewRun == act.tag = "RunReview" /\ \E r \in RunReviewer : RunReviewStamp(r)

ObedientNext ==
    \/ QuietTick
    \/ \E s \in Station : AskedStation(s)
    \/ DecideAsked
    \/ ReviewRun
    \/ \E s \in 0..N : FileFinding(s)

ObedientSpec == Init /\ [][ObedientNext]_vars

\* Progress: the agent, its workers and the operator do what was asked of them.
\* Workers leave room in the Pass budget for the beats still owed, and a gate
\* that turned green stays green.
Thrifty ==
    \A u \in Unit :
        /\ unit'[u].pass + Cardinality(Workers \ unit'[u].settled) <= MaxPasses
        /\ unit[u].gates => unit'[u].gates

ThriftyNext == ObedientNext /\ Thrifty

Progress == (ReviewRun \/ \E s \in Station : AskedStation(s)) /\ Thrifty

FairSpec ==
    /\ Init /\ [][ThriftyNext]_vars
    /\ WF_vars(QuietTick)
    /\ SF_vars(Progress)
    /\ SF_vars(DecideAsked /\ (Release(Nothing) \/ Approve(Nothing)))

-----------------------------------------------------------------------------
(* Properties *)

WorkDone(u) == ReviewsSigned(unit, u) /\ LoopDone(unit, u) /\ ApprovalsSigned(unit, u)

Locks(s) == stn[s].status # "Completed" /\ stn'[s].status = "Completed"

Dispatches(tag) == act'.tag = tag /\ act' # act

\* A lights-out station locks over signed work only: once any of its units
\* carries a signal, every one has all its reviews, a finished Pass loop and all
\* its approvals.  (complete_station from the Checkpoint action.)
SignalledLockIsSigned ==
    [][\A s \in Station : Locks(s) /\ HasSignals(unit', s)
          => \A u \in UnitsAt(unit', s) : WorkDone(u)']_vars

\* No lights-out station locks over a completed unit whose quality gates are
\* not satisfied, however late the gate turned red.
GatesHoldAtLock ==
    [][\A s \in Station : Locks(s) => \A u \in Locked(unit', s) : unit'[u].gates]_vars

\* No lights-out station locks while a finding is open anywhere in the run.
FindingsHoldLocks ==
    [][\A s \in Station : Locks(s) => \A t \in 0..N : fb'[t] = 0]_vars

\* A tick answers "mid-wave" only when some unit of the station is in flight.
NoopIsMidWave ==
    [][Dispatches("Noop") => \E u \in UnitsAt(unit', act'.at) : unit'[u].status = "InProgress"]_vars

\* A station that is under way or locked is never put back to its beginning,
\* whatever is re-opened and locked again upstream of it.
NeverRestarted ==
    [][\A s \in Station : stn[s].status \in {"InProgress", "Completed"}
          => stn'[s].status # "Pending"]_vars

\* complete_station's comment, of every downstream station that has started.
StartedStationKept ==
    [][\A s \in Station : stn[s].status = "Blocked" => stn'[s].status # "Pending"]_vars

\* A station held at the pre-execution gate leaves it by the operator's release
\* or because the station before it locked (which starts it over); no tick,
\* stamp, beat, reset or finding moves it.
GateHeld ==
    [][\A s \in Station : stn[s].phase = "UserGate" /\ stn'[s].phase # "UserGate"
          => \/ s \in released'
             \/ s > 1 /\ Locks(s - 1)]_vars

\* An interactive station's units are dispatched, and its work audited, only
\* after the operator released it.
SpecGate ==
    Mode # "dark" /\ act.tag \in {"Manufacture", "Noop", "Audit", "Reflect", "Checkpoint"}
        => act.at \in released

\* A Checkpoint is dispatched only for a station whose Reflect was.
ReflectFirst ==
    [][Dispatches("Checkpoint") => stn[act'.at].phase = "Checkpoint"]_vars

\* When the operator is asked for the checkpoint's decision, an approve is
\* accepted.
ApprovableGate ==
    Mode # "dark" /\ act.tag = "Checkpoint" => AtHold(stn, act.at)

\* What locked is reviewed, beaten through and approved, unit by unit: a finding
\* whose fix took a signature back re-opens the station, so no locked station
\* holds unsigned work.
LockedStaysSigned ==
    \A s \in Station : stn[s].status = "Completed" => \A u \in UnitsAt(unit, s) : WorkDone(u)

\* No station locks over a unit that still waits for its first beat.
PendingNeverLocks ==
    [][\A s \in Station : Locks(s) => \A u \in UnitsAt(unit', s) : unit'[u].status # "Pending"]_vars

\* Audit is dispatched only over locked units whose outputs and gates are there.
ProducedBeforeAudit ==
    [][Dispatches("Audit") => \A u \in Locked(unit', act'.at) : unit'[u].output /\ unit'[u].gates]_vars

\* The run does not seal over an open finding.
SealedIsClean ==
    [][Dispatches("Sealed") => \A t \in 0..N : fb'[t] = 0]_vars

\* The run seals.
RunSeals == <>(act.tag = "Sealed")
=============================================================================
