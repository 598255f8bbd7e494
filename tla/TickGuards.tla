----------------------------- MODULE TickGuards -----------------------------
(***************************************************************************)
(* What keeps one station from wedging: the cross-tick deadlock guard      *)
(* (deadlock.rs), the auto-defer of a gate whose environment is broken and *)
(* the verifier nonce (units.rs record_gate_result), and the holds of the  *)
(* cursor (position.rs) they act on.                                       *)
(*                                                                         *)
(* The station is a solo run's, from the operator's release at its         *)
(* pre-execution gate to the approval at its checkpoint, with one unit     *)
(* whose spec is signed and which is not reset.  Manager models the cursor *)
(* over all stations and leaves the guard's verdict open; here the guard   *)
(* is the subject.                                                         *)
(***************************************************************************)
EXTENDS Naturals

CONSTANTS Gate,          \* the quality gates the unit declares
          R,             \* the station's reviewers, told apart by nothing here
          W,             \* beats of the Pass loop
          HaltThreshold, \* HALT_THRESHOLD
          ChurnWindow,   \* CHURN_WINDOW
          ChurnMinTicks, \* CHURN_MIN_TICKS
          DeferAfter,    \* GATE_DEFER_AFTER
          MaxPasses,     \* MAX_PASSES
          MaxForgets,    \* bound: times the guard's history is cleared or expires
          Unasked        \* bound: whether beats come after the loop is settled,
                         \* gates before that or a completion, stamps before Audit

ASSUME GuardAssumption ==
    /\ W \in Nat \ {0} /\ R \in Nat /\ MaxPasses \in Nat /\ MaxForgets \in Nat
    /\ HaltThreshold \in Nat \ {0} /\ DeferAfter \in Nat \ {0}
    /\ ChurnWindow \in Nat \ {0} /\ ChurnMinTicks \in 2..ChurnWindow
    /\ Unasked \in BOOLEAN

VARIABLES station,  \* its recorded phase, or "Completed"
          entered,  \* whether its checkpoint slot was entered
          nonce,    \* whether the station has a verifier nonce
          unit,     \* the unit document
          history,  \* deadlock.json
          told,     \* the action the last tick returned
          forgets,  \* times the history was lost so far
          idle,     \* history: ticks, this one included, since work last came in
          paid,     \* history: whether told work was done since the last tick, till it lapsed
          lapsed    \* history: the agent once ticked with none done, or undid some

vars == <<station, entered, nonce, unit, history, told, forgets, idle, paid, lapsed>>

Phase == {"Manufacture", "Audit", "Reflect", "Checkpoint"}
Results == {"none", "pass", "fail", "env_blocked", "deferred"}
\* Actions that leave work to the agent, and those no wait at is a wedge.
Work == {"Manufacture", "Noop", "GatesUnmet", "EscalateToUser", "Audit"}
Exempt == {"Checkpoint", "Budget", "Locked"}
Tags == Work \cup Exempt \cup {"Reflect", "Halted"}

\* beats: those settled, in the workers' order; attempts are told apart up to
\* DeferAfter.
UnitStates == [status : {"Pending", "InProgress", "Completed"},
               beats : 0..W,
               pass : 0..(MaxPasses + 1),
               result : [Gate -> Results],
               attempts : [Gate -> 0..DeferAfter],
               approvals : 0..R]

\* What tells ticks apart: the action, and of the fingerprint the done count
\* and the Pass sum.  (One station, one unit, no finding and no drift.)
Signatures == [tag : Tags, done : BOOLEAN, pass : 0..(MaxPasses + 1)]
NoSignature == [tag |-> "none"]

\* The recent window as the churn test sees it, which tells two distinct
\* signatures from more: its length, the signature seen last before `last`, and
\* how many ticks ago that one (second) and any further one (third) last were;
\* 0 when there is none.  The count is told apart up to the halt.
Histories == [last : Signatures \cup {NoSignature}, count : 0..(HaltThreshold + 1),
              length : 0..ChurnWindow, other : Signatures \cup {NoSignature},
              second : 0..(ChurnWindow - 1), third : 0..(ChurnWindow - 1)]
Blank == [last |-> NoSignature, count |-> 0, length |-> 0,
          other |-> NoSignature, second |-> 0, third |-> 0]
Distinct(h) == IF h.second = 0 THEN 1 ELSE IF h.third = 0 THEN 2 ELSE 3

TypeOK ==
    /\ station \in Phase \cup {"Completed"}
    /\ entered \in BOOLEAN /\ nonce \in BOOLEAN
    /\ unit \in UnitStates
    /\ history \in Histories
    /\ told \in Tags
    /\ forgets \in 0..MaxForgets
    /\ idle \in 0..(HaltThreshold + 1)
    /\ paid \in BOOLEAN /\ lapsed \in BOOLEAN

\* The decision that approved the pre-execution gate minted the nonce, and its
\* own tick handed out the wave.
Init ==
    /\ station = "Manufacture"
    /\ entered = FALSE
    /\ nonce = TRUE
    /\ unit = [status |-> "Pending", beats |-> 0, pass |-> 0,
               result |-> [g \in Gate |-> "none"], attempts |-> [g \in Gate |-> 0],
               approvals |-> 0]
    /\ history = Blank
    /\ told = "Manufacture"
    /\ forgets = 0
    /\ idle = 0
    /\ paid = FALSE
    /\ lapsed = FALSE

AtMost(n, bound) == IF n < bound THEN n ELSE bound

-----------------------------------------------------------------------------
(* derive_position, from the Pass budget down *)

Satisfied(g) == unit.result[g] \in {"pass", "deferred"}
Unmet == unit.status = "Completed" /\ \E g \in Gate : ~Satisfied(g)

\* derive.rs under resolve_phase: the specs are signed, so the station is past
\* its pre-execution gate and its unit carries signals.
Resolved ==
    IF unit.beats < W THEN "Manufacture"
    ELSE IF unit.approvals < R THEN "Audit"
    ELSE IF station = "Reflect" THEN "Reflect"
    ELSE "Checkpoint"

ManufactureTag ==
    CASE unit.status = "Pending" -> "Manufacture"
      [] unit.status = "InProgress" -> "Noop"
      [] unit.status = "Completed" /\ Unmet -> "GatesUnmet"
      [] unit.status = "Completed" /\ ~Unmet -> "Audit"

\* EscalateToUser stands for BestEffortBoot too.
Derive ==
    IF station = "Completed" THEN "Locked"
    ELSE IF unit.pass > MaxPasses THEN "Budget"
    ELSE IF \E g \in Gate : unit.result[g] = "env_blocked" THEN "EscalateToUser"
    ELSE IF Resolved \in {"Reflect", "Checkpoint"} /\ Unmet THEN "GatesUnmet"
    ELSE IF Resolved = "Manufacture" THEN ManufactureTag
    ELSE Resolved

-----------------------------------------------------------------------------
(* deadlock.rs *)

SignatureOf(tag) == [tag |-> tag, done |-> unit.status = "Completed", pass |-> unit.pass]

CountWith(h, s) == IF h.last = s THEN AtMost(h.count + 1, HaltThreshold + 1) ELSE 1

\* Mutant: the window is never drained.
OlderUndrained(n) == IF n = 0 THEN 0 ELSE n + 1

Older(n) == IF n = 0 \/ n + 1 >= ChurnWindow THEN 0 ELSE n + 1

\* A window that just got the signature it got last.
Repeated(h) == [h EXCEPT !.second = Older(@), !.third = Older(@),
                         !.other = IF Older(h.second) = 0 THEN NoSignature ELSE @]

\* A window that just got s, which differs from the one before.
Turned(h, s) == [h EXCEPT !.last = s, !.other = h.last,
                          !.second = IF h.last = NoSignature THEN 0 ELSE 1,
                          !.third = Older(IF s = h.other THEN @ ELSE h.second)]

\* Mutant: a history that has halted once starts over.
PushAfterHalt(h, s) ==
    IF h.count > HaltThreshold THEN [Blank EXCEPT !.last = s, !.count = 1, !.length = 1]
    ELSE [IF s = h.last THEN Repeated(h) ELSE Turned(h, s) EXCEPT
            !.count = CountWith(h, s), !.length = AtMost(@ + 1, ChurnWindow)]

\* check, for an action that is not exempt: the history with s pushed.
Push(h, s) ==
    [IF s = h.last THEN Repeated(h) ELSE Turned(h, s) EXCEPT
        !.count = CountWith(h, s), !.length = AtMost(@ + 1, ChurnWindow)]

SameHalt(h) == h.count > HaltThreshold

\* Mutant: two signatures are an alternation however short the window.
ChurnHaltEarly(h) == Distinct(h) = 2

\* Mutant: alternations are not looked for.
ChurnHaltNever(h) == FALSE

\* 2 <= distinct <= CHURN_MAX_DISTINCT.
ChurnHalt(h) == h.length >= ChurnMinTicks /\ Distinct(h) = 2

-----------------------------------------------------------------------------
(* run_tick: derive, the guard's verdict, advance_state on what it leaves *)

Advance(tag) ==
    CASE tag \in {"Manufacture", "Reflect"} ->
           station' = (IF tag = "Reflect" THEN "Checkpoint" ELSE "Manufacture")
      [] tag = "Audit" -> station' = "Reflect"
      [] OTHER -> station' = station

Tick ==
    LET tag == Derive
        pushed == Push(history, SignatureOf(tag))
        halts == tag \notin Exempt /\ (SameHalt(pushed) \/ ChurnHalt(pushed))
    IN  /\ station # "Completed"
        /\ UNCHANGED <<unit, forgets>>
        /\ lapsed' = (lapsed \/ (told \in Work /\ ~paid))
        /\ paid' = FALSE
        /\ idle' = AtMost(idle + 1, HaltThreshold + 1)
        /\ history' = IF tag \in Exempt THEN Blank ELSE pushed
        /\ told' = IF halts THEN "Halted" ELSE tag
        /\ Advance(told')
        /\ entered' = (entered \/ told' = "Checkpoint")
        /\ nonce' = (nonce \/ told' = "Manufacture")

\* checkpoint_decide, approved at the held checkpoint, whatever the last tick
\* said: complete_station retires the nonce.  (The next station is not followed.)
Approve ==
    /\ station = "Checkpoint" /\ entered
    /\ station' = "Completed"
    /\ nonce' = FALSE
    /\ told' = "Locked"
    /\ UNCHANGED <<entered, unit, history, forgets, idle, paid, lapsed>>

\* An hour without a tick, or the clear of force_station_complete.
Forget ==
    /\ forgets < MaxForgets
    /\ history # Blank
    /\ forgets' = forgets + 1
    /\ history' = Blank
    /\ idle' = 0
    /\ UNCHANGED <<station, entered, nonce, unit, told, paid, lapsed>>

-----------------------------------------------------------------------------
(* The agent's calls between two ticks *)

\* An edit of the unit: does it pay what the agent was told, or undo some.
Edit(new, pays, undoes) ==
    /\ unit' = new
    /\ idle' = 0
    /\ lapsed' = (lapsed \/ undoes)
    /\ paid' = (~lapsed' /\ (paid \/ pays))
    /\ UNCHANGED <<station, entered, nonce, history, told, forgets>>

\* record_iteration.
Beat(settles) ==
    /\ Unasked \/ unit.beats < W
    /\ unit.pass <= MaxPasses
    /\ Edit([unit EXCEPT
               !.pass = @ + 1,
               !.beats = IF settles THEN AtMost(@ + 1, W) ELSE IF @ = 0 THEN 0 ELSE @ - 1,
               !.status = IF @ = "Pending" THEN "InProgress" ELSE @],
            settles /\ unit.beats < W, ~settles \/ unit.beats = W)

\* update to Completed, which looks at the diff and not at the Pass loop.
Complete ==
    /\ unit.status # "Completed"
    /\ Edit([unit EXCEPT !.status = "Completed"], unit.beats = W, unit.beats < W)

\* Mutant: what cannot be run is never deferred.
EffectiveBlocked(g, result) == result

\* The recorded status: attempts of any status count towards the defer.
Effective(g, result) ==
    IF result = "env_blocked" /\ unit.attempts[g] + 1 >= DeferAfter THEN "deferred" ELSE result

\* record_gate_result; result is as classified.  A station that has a nonce
\* takes only the results that carry it, any other takes them all.
Record(g, result, carries) ==
    /\ Unasked \/ unit.beats = W \/ unit.status = "Completed"
    /\ nonce => carries
    /\ Edit([unit EXCEPT !.result[g] = Effective(g, result),
                         !.attempts[g] = AtMost(@ + 1, DeferAfter)],
            result # "fail" /\ ~Satisfied(g), result = "fail" \/ Satisfied(g))

\* stamp_role, kind approval, for a role that has not signed yet.
Stamp ==
    /\ Unasked \/ told = "Audit"
    /\ unit.approvals < R
    /\ Edit([unit EXCEPT !.approvals = @ + 1], TRUE, FALSE)

Next ==
    \/ Tick
    \/ Approve
    \/ Forget
    \/ \E settles \in BOOLEAN : Beat(settles)
    \/ Complete
    \/ \E g \in Gate, result \in {"pass", "fail", "env_blocked"}, carries \in BOOLEAN :
         Record(g, result, carries)
    \/ Stamp

Spec == Init /\ [][Next]_vars

\* The agent ticks again after every action it is handed.
FairSpec == Spec /\ WF_vars(Tick)

-----------------------------------------------------------------------------
(* Properties *)

\* The guard halts nobody who works: an agent that does some of what it was
\* told between any two ticks, and undoes none, is never escalated by it.
\* (deadlock.rs: "only a genuinely stuck loop accumulates".)
DiligentNeverHalted == ~lapsed => told # "Halted"

\* A tick that follows HALT_THRESHOLD others without any work in between hands
\* the run to a human, whatever the history before: nothing else may break a
\* count or mask a signature.
WedgeSurfaces == idle > HaltThreshold => told \in Exempt \cup {"Halted"}

\* However the agent behaves, a run that goes on ticking keeps reaching a human:
\* the guard's or the budget's escalation, or the operator's checkpoint.
KeepsSurfacing == []<>(told \in Exempt \cup {"Halted"})

\* A gate whose environment never comes up cannot wedge the station: an agent
\* that keeps doing what it is told gets to the checkpoint.
DiligentArrives == <>(lapsed \/ told \in {"Checkpoint", "Locked"})

\* deadlock.rs: "A tick that makes any real progress changes the fingerprint
\* and resets the counter".
ProgressResetsGuard ==
    [][Tick /\ history.last # NoSignature
            /\ <<history.last.done, history.last.pass>> # <<unit.status = "Completed", unit.pass>>
       => told' # "Halted"]_vars

\* position.rs, complete_station: the nonce is retired "so a late/forged gate
\* record can't reuse it".
LockedTakesNoResult == [][station = "Completed" => unit'.result = unit.result]_vars
=============================================================================
