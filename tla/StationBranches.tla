--------------------------- MODULE StationBranches ---------------------------
(***************************************************************************)
(* The branch and worktree lifecycle of darkrun-mcp (lifecycle.rs,         *)
(* commit.rs) under the manager's tick (position.rs): run-main is forked   *)
(* off the base, a station off run-main, a unit off its station; work      *)
(* lands the same way back, through merges that are never tried twice for  *)
(* a station that is Completed.                                            *)
(*                                                                         *)
(* A branch is the set of changes it carries; a merge brings over what the *)
(* target lacks, and conflicts when a pair in Clash meets.  The engine's   *)
(* own `.darkrun` commits carry no change of anybody's and are left out,   *)
(* but for what they do to run-main (Publish).  The station's phases are   *)
(* reduced to those with an effect on branches; Manager has them all.      *)
(***************************************************************************)
EXTENDS Naturals, Sequences

CONSTANTS N,           \* stations in the run's plan
          Unit,        \* unit slugs
          StationOf,   \* the station of each unit
          Upstream,    \* changes others bring to the base branch
          Clash,       \* pairs of changes that conflict
          Base,        \* the repository's base branch
          Main,        \* run-main, `darkrun/<slug>/main`
          State,       \* HEAD of the detached `_state` worktree
          Gated,       \* stations that close by the operator's approve
          Orderly,     \* no worker's call overlaps a tick, no gate is approved
                       \* before the repository is clean
          MaxCrashes,  \* bound: deaths of the engine process
          MaxSoils,    \* bound: edits somebody leaves uncommitted at the repo root
          MaxLeaves    \* bound: switches of the primary checkout's branch

Station == 1..N
Branch == {Base, Main} \cup Station \cup Unit
Item == Unit \cup Upstream

ASSUME BranchAssumption ==
    /\ N \in Nat \ {0}
    /\ StationOf \in [Unit -> Station]
    /\ \A s \in Station : \E u \in Unit : StationOf[u] = s
    /\ Unit \cap Upstream = {}
    /\ Clash \subseteq SUBSET Item
    /\ Base # Main /\ State \notin Branch
    /\ {Base, Main} \cap (Station \cup Unit) = {}
    /\ Station \cap Unit = {}
    /\ Gated \subseteq Station /\ Orderly \in BOOLEAN
    /\ {MaxCrashes, MaxSoils, MaxLeaves} \subseteq Nat

VARIABLES status,   \* state.json: each station's entry
          locked,   \* units recorded as Completed
          signed,   \* stations whose approvals are all signed
          sealed,   \* the last tick answered Sealed
          refs,     \* the refs that exist
          holds,    \* the changes each ref carries
          linked,   \* branches that have a worktree of their own
          head,     \* the branch of the primary checkout
          soil,     \* somebody's uncommitted edits at the repo root
          draft,    \* where each unit's work is until it is committed
          unmerged, \* what a merge left unfinished in a branch's checkout brings
          staged,   \* branches whose unfinished merge has no conflict
          temp,     \* the `_merge-<target>` worktree of each target
          jobs,     \* what the call in progress has still to do
          beats,    \* worker calls between their write and their checkpoint
          reply,    \* what the tick in progress will ask for
          told,     \* what the agent has been asked for
          crashes, soils, leaves

plan == <<status, locked, signed, sealed>>
git == <<refs, holds, linked, unmerged, staged, temp>>
tree == <<head, soil, draft>>
calls == <<jobs, beats, reply, told>>
faults == <<crashes, soils, leaves>>
vars == <<plan, git, tree, calls, faults>>

Statuses == {"pending", "open", "making", "audit", "gate", "completed"}
Ops == {"pull", "down", "wip", "derive", "enter", "fork", "land", "retire",
        "discard", "deliver", "publish"}
Jobs == [op : Ops, who : SUBSET (Station \cup Unit)]
Orders == ({"make"} \X Unit) \cup ({"audit"} \X Station) \cup ({"resolve"} \X Branch)

PlanOK ==
    /\ status \in [Station -> Statuses]
    /\ locked \subseteq Unit /\ signed \subseteq Station /\ sealed \in BOOLEAN

GitOK ==
    /\ refs \subseteq Branch \cup {State}
    /\ holds \in [Branch \cup {State} -> SUBSET Item]
    /\ linked \subseteq Station \cup Unit
    /\ unmerged \in [Branch -> SUBSET Item] /\ staged \subseteq Branch
    /\ temp \in [Branch -> {"none", "conflict", "left"}]

TreeOK ==
    /\ head \in {Base, Main} /\ soil \in BOOLEAN
    /\ draft \in [Unit -> {"none", "own", "root", "kept", "lost"}]

CallsOK ==
    /\ jobs \in Seq(Jobs)
    /\ beats \subseteq Unit
    /\ reply \subseteq Orders /\ told \subseteq Orders

FaultsOK == crashes \in 0..MaxCrashes /\ soils \in 0..MaxSoils /\ leaves \in 0..MaxLeaves

TypeOK == PlanOK /\ GitOK /\ TreeOK /\ CallsOK /\ FaultsOK

\* run_start: run-main is forked off the base and checked out, the first
\* station entered.
Init ==
    /\ status = [s \in Station |-> "pending"]
    /\ locked = {} /\ signed = {} /\ sealed = FALSE
    /\ refs = {Base, Main, 1}
    /\ holds = [b \in Branch \cup {State} |-> {}]
    /\ linked = {1}
    /\ unmerged = [b \in Branch |-> {}] /\ staged = {}
    /\ temp = [b \in Branch |-> "none"]
    /\ head = Main /\ soil = FALSE
    /\ draft = [u \in Unit |-> "none"]
    /\ jobs = <<>> /\ beats = {} /\ reply = {} /\ told = {}
    /\ crashes = 0 /\ soils = 0 /\ leaves = 0

-----------------------------------------------------------------------------
(* What is read off the repository *)

UnitsAt(s) == {u \in Unit : StationOf[u] = s}
Open(st) == {s \in Station : st[s] # "completed"}
Frontier(st) == CHOOSE s \in Open(st) : \A t \in Open(st) : s <= t

\* Mutant: everything lands on run-main.
ParentMain(b) == IF b \in Station \cup Unit THEN Main ELSE b

\* The branch a child was forked off and lands on.
Parent(b) == IF b \in Station THEN Main ELSE StationOf[b]

\* !has_no_merge_debt.
Debt(from, to) == ~(holds[from] \subseteq holds[to])

Conflicts(from, to) ==
    \E x \in holds[from] \ holds[to], y \in holds[to] \ holds[from] : {x, y} \in Clash

\* dirty_paths_excluding of the repo root.
RootDirty == soil \/ \E u \in Unit : draft[u] = "root"

\* merge_site: a checkout of the target, if there is one.
CheckedOut(to) == to = head \/ to \in linked

\* MergeSite::Refused, or a `_merge-` worktree of an earlier merge in the way
\* of create_worktree_detached.
Barred(to) ==
    IF CheckedOut(to) THEN unmerged[to] # {} \/ (to = head /\ RootDirty)
    ELSE temp[to] # "none"

-----------------------------------------------------------------------------
(* Operations on the repository *)

Merges(from, to) == {from, to} \subseteq refs /\ Debt(from, to) /\ ~Barred(to)

\* merge_into_branch.
Merge(from, to) ==
    /\ holds' = IF Merges(from, to) /\ ~Conflicts(from, to)
                THEN [holds EXCEPT ![to] = @ \cup holds[from]]
                ELSE holds
    /\ unmerged' = IF Merges(from, to) /\ Conflicts(from, to) /\ CheckedOut(to)
                   THEN [unmerged EXCEPT ![to] = holds[from] \ holds[to]]
                   ELSE unmerged
    /\ temp' = IF Merges(from, to) /\ Conflicts(from, to) /\ ~CheckedOut(to)
               THEN [temp EXCEPT ![to] = "conflict"]
               ELSE temp
    /\ UNCHANGED <<refs, linked, staged>>

\* Mutant: the worktree is put on the parent's branch.
ForkOnParent(b) ==
    /\ refs' = refs \cup {b}
    /\ holds' = IF b \in refs THEN holds ELSE [holds EXCEPT ![b] = holds[Parent(b)]]
    /\ linked' = linked \cup {Parent(b)}
    /\ UNCHANGED <<unmerged, staged, temp>>

\* fork_and_worktree: both halves skip what is there.
Fork(b) ==
    /\ refs' = refs \cup {b}
    /\ holds' = IF b \in refs THEN holds ELSE [holds EXCEPT ![b] = holds[Parent(b)]]
    /\ linked' = linked \cup {b}
    /\ UNCHANGED <<unmerged, staged, temp>>

\* Mutant: the branch goes with the worktree.
RetireBoth(b, landed) ==
    /\ linked' = linked \ {b}
    /\ unmerged' = [unmerged EXCEPT ![b] = {}]
    /\ staged' = staged \ {b}
    /\ refs' = refs \ {b}
    /\ draft' = [u \in Unit |-> IF u = b /\ draft[u] = "own" THEN "lost" ELSE draft[u]]
    /\ UNCHANGED <<holds, temp, head, soil>>

\* The tail of land_child: the worktree goes in any case, with whatever is not
\* committed there; the branch if the merge was made, or there was none to make.
Retire(b, landed) ==
    /\ linked' = linked \ {b}
    /\ unmerged' = [unmerged EXCEPT ![b] = {}]
    /\ staged' = staged \ {b}
    /\ refs' = IF landed \/ ~Debt(b, Parent(b)) THEN refs \ {b} ELSE refs
    /\ draft' = [u \in Unit |-> IF u = b /\ draft[u] = "own" THEN "lost" ELSE draft[u]]
    /\ UNCHANGED <<holds, temp, head, soil>>

\* commit_state.  On an engine branch it commits the index, with any merge
\* that is staged there; elsewhere it commits in the `_state` worktree, which
\* is created at run-main and kept, and sets run-main to that, unless the state
\* there is the same already.
StateTip == IF State \in refs THEN holds[State] ELSE holds[Main]
Concluded == IF Main \in staged THEN unmerged[Main] ELSE {}

Publish(work) ==
    IF head = Main
    THEN /\ holds' = [work EXCEPT ![Main] = @ \cup Concluded]
         /\ unmerged' = IF Main \in staged THEN [unmerged EXCEPT ![Main] = {}] ELSE unmerged
         /\ staged' = staged \ {Main}
         /\ UNCHANGED refs
    ELSE /\ \/ holds' = [work EXCEPT ![State] = StateTip, ![Main] = StateTip]
            \/ holds' = [work EXCEPT ![State] = StateTip]
         /\ refs' = refs \cup {State}
         /\ UNCHANGED <<unmerged, staged>>

-----------------------------------------------------------------------------
(* The engine's calls, job by job *)

Job(op, who) == [op |-> op, who |-> who]
At(op) == jobs # <<>> /\ Head(jobs).op = op
Then(next) == jobs' = next \o Tail(jobs)

\* sync_downstream_before_land (nothing without a frontier), the clean-tree
\* gate, the derivation.
TickJobs(st) ==
    (IF Open(st) = {} THEN <<>> ELSE <<Job("pull", {Frontier(st)})>>)
    \o <<Job("wip", {}), Job("derive", {})>>

\* run_tick.
Tick ==
    /\ jobs = <<>> /\ ~sealed
    /\ Orderly => beats = {}
    /\ jobs' = TickJobs(status)
    /\ reply' = {}
    /\ UNCHANGED <<plan, git, tree, beats, told, faults>>

\* Mutant: the station is not synced with run-main.
PullOnly ==
    /\ At("pull")
    /\ Merge(Base, Main)
    /\ Then(<<>>)
    /\ UNCHANGED <<plan, tree, beats, reply, told, faults>>

\* sync_branch_downstream, step 1: a conflict ends the sync.
Pull ==
    /\ At("pull")
    /\ Merge(Base, Main)
    /\ Then(IF Merges(Base, Main) /\ Conflicts(Base, Main) THEN <<>>
            ELSE <<Job("down", Head(jobs).who)>>)
    /\ UNCHANGED <<plan, tree, beats, reply, told, faults>>

\* Step 2.
Down ==
    /\ At("down")
    /\ \E s \in Head(jobs).who : Merge(Main, s)
    /\ Then(<<>>)
    /\ UNCHANGED <<plan, tree, beats, reply, told, faults>>

\* SaveWip: a dirty root ends the tick, unless it is in the middle of a merge.
Wip ==
    /\ At("wip")
    /\ IF RootDirty /\ unmerged[head] = {} THEN jobs' = <<Job("publish", {})>> ELSE Then(<<>>)
    /\ UNCHANGED <<plan, git, tree, beats, reply, told, faults>>

\* Mutant: the station that ends the run is delivered, and not landed.
LandingOrDelivery(s, st) ==
    IF Open(st) = {} THEN <<Job("deliver", {})>>
    ELSE IF s \in refs /\ ~Debt(s, Main) THEN <<>>
    ELSE <<Job("land", {s})>>

\* The branch effects of a station that completes (station_has_merge_debt says
\* whether it lands), and of the run with it.
Landing(s, st) ==
    (IF s \in refs /\ ~Debt(s, Main) THEN <<>> ELSE <<Job("land", {s})>>)
    \o (IF Open(st) = {} THEN <<Job("deliver", {})>> ELSE <<>>)

\* derive_position and advance_state: the answer, the new state.json, and the
\* branch effects to run after it is written.
Advance(s, to, effects, orders) ==
    /\ status' = [status EXCEPT ![s] = to]
    /\ jobs' = effects \o <<Job("publish", {})>>
    /\ reply' = orders
    /\ UNCHANGED <<locked, signed, sealed>>

\* merge_conflict_action looks for unresolved paths.
Unmerged == {b \in Branch : (unmerged[b] # {} /\ b \notin staged) \/ temp[b] = "conflict"}

Derive ==
    /\ At("derive")
    /\ LET s == Frontier(status)
           wave == UnitsAt(s) \ locked
           done == [status EXCEPT ![s] = "completed"]
       IN  \/ /\ Open(status) = {}
              /\ sealed' = TRUE
              /\ jobs' = <<Job("publish", {})>>
              /\ UNCHANGED <<status, locked, signed, reply>>
           \/ /\ Open(status) # {} /\ Unmerged # {}
              /\ \E b \in Unmerged : reply' = {<<"resolve", b>>}
              /\ jobs' = <<Job("publish", {})>>
              /\ UNCHANGED plan
           \/ /\ Open(status) # {} /\ Unmerged = {}
              /\ \/ /\ status[s] = "pending"
                    /\ Advance(s, "open", <<Job("enter", {s})>>, {})
                 \/ /\ status[s] \in {"open", "making"} /\ wave # {}
                    /\ Advance(s, "making", <<Job("fork", wave)>>, {"make"} \X wave)
                 \/ /\ status[s] \in {"making", "audit"} /\ wave = {} /\ s \notin signed
                    /\ Advance(s, "audit", <<Job("land", UnitsAt(s) \cap refs)>>, {<<"audit", s>>})
                 \/ /\ status[s] = "audit" /\ s \in signed /\ s \notin Gated
                    /\ Advance(s, "completed", Landing(s, done), {})
                 \/ /\ status[s] \in {"audit", "gate"} /\ s \in signed /\ s \in Gated
                    /\ Advance(s, "gate", <<>>, {})
    /\ UNCHANGED <<git, tree, beats, told, faults>>

\* checkpoint_decide's approve of a held gate: it completes the station and
\* ends with a tick.  No clean tree is asked for, and no finished merge.
Approve ==
    /\ jobs = <<>> /\ Open(status) # {}
    /\ Orderly => beats = {} /\ Unmerged = {} /\ ~RootDirty
    /\ LET s == Frontier(status)
           done == [status EXCEPT ![s] = "completed"]
       IN  /\ status[s] = "gate"
           /\ status' = done
           /\ jobs' = Landing(s, done) \o TickJobs(done)
    /\ reply' = {}
    /\ UNCHANGED <<locked, signed, sealed, git, tree, beats, told, faults>>

\* One branch of a job's set; the job stays until the set is empty.
Each(b) ==
    LET rest == Head(jobs).who \ {b}
    IN  IF rest = {} THEN <<>> ELSE <<Job(Head(jobs).op, rest)>>

\* enter_station, enter_unit: a unit needs its station's branch.
Enter ==
    /\ At("enter") \/ At("fork")
    /\ \E b \in Head(jobs).who :
          /\ IF Parent(b) \in refs THEN Fork(b) ELSE UNCHANGED git
          /\ Then(Each(b))
    /\ UNCHANGED <<plan, tree, beats, reply, told, faults>>

\* land_child.
Land ==
    /\ At("land")
    /\ \/ Head(jobs).who = {} /\ Then(<<>>) /\ UNCHANGED git
       \/ \E b \in Head(jobs).who :
             LET to == Parent(b)
                 landed == ~Debt(b, to) \/ (Merges(b, to) /\ ~Conflicts(b, to))
                 tail == IF ~({b, to} \subseteq refs) THEN <<>>
                         ELSE <<Job(IF landed THEN "discard" ELSE "retire", {b})>>
             IN  Merge(b, to) /\ Then(tail \o Each(b))
    /\ UNCHANGED <<plan, tree, beats, reply, told, faults>>

Finish ==
    /\ At("retire") \/ At("discard")
    /\ \E b \in Head(jobs).who : Retire(b, At("discard"))
    /\ Then(<<>>)
    /\ UNCHANGED <<plan, beats, reply, told, faults>>

\* land_run.
Deliver ==
    /\ At("deliver")
    /\ Merge(Main, Base)
    /\ Then(<<>>)
    /\ UNCHANGED <<plan, tree, beats, reply, told, faults>>

\* The tick's commit, and its answer.
Answer ==
    /\ At("publish")
    /\ Publish(holds)
    /\ told' = told \cup reply
    /\ reply' = {}
    /\ Then(<<>>)
    /\ UNCHANGED <<plan, linked, temp, tree, beats, faults>>

Step == Pull \/ Down \/ Wip \/ Derive \/ Enter \/ Land \/ Finish \/ Deliver \/ Answer

-----------------------------------------------------------------------------
(* The agent and its workers *)

\* A worker writes in the unit's worktree, or at the repo root if there is none.
Write(u) ==
    /\ <<"make", u>> \in told /\ u \notin locked /\ draft[u] = "none"
    /\ draft' = [draft EXCEPT ![u] = IF u \in linked THEN "own" ELSE "root"]
    /\ UNCHANGED <<plan, git, head, soil, calls, faults>>

\* darkrun_unit_advance: the unit's document first ...
Lock(u) ==
    /\ draft[u] # "none" /\ u \notin locked
    /\ Orderly => jobs = <<>>
    /\ locked' = locked \cup {u}
    /\ beats' = beats \cup {u}
    /\ UNCHANGED <<status, signed, sealed, git, tree, jobs, reply, told, faults>>

\* ... then the state's commit and checkpoint_worktree, which does nothing
\* without a worktree.
Save(u) ==
    /\ u \in beats
    /\ beats' = beats \ {u}
    /\ IF u \in linked /\ draft[u] = "own"
       THEN Publish([holds EXCEPT ![u] = @ \cup {u}]) /\ draft' = [draft EXCEPT ![u] = "kept"]
       ELSE Publish(holds) /\ UNCHANGED draft
    /\ UNCHANGED <<plan, linked, temp, head, soil, jobs, reply, told, faults>>

Sign(s) ==
    /\ <<"audit", s>> \in told /\ s \notin signed
    /\ signed' = signed \cup {s}
    /\ UNCHANGED <<status, locked, sealed, git, tree, calls, faults>>

\* The agent that ticks resolves a conflict it was told of, in the checkout it
\* was left in.  A commit in a `_merge-` worktree moves no branch.
Resolve(b) ==
    /\ <<"resolve", b>> \in told /\ jobs = <<>> /\ b \in Unmerged
    /\ holds' = [holds EXCEPT ![b] = @ \cup unmerged[b]]
    /\ unmerged' = [unmerged EXCEPT ![b] = {}]
    /\ temp' = [temp EXCEPT ![b] = IF @ = "conflict" THEN "left" ELSE @]
    /\ told' = told \ {<<"resolve", b>>}
    /\ UNCHANGED <<plan, refs, linked, staged, tree, jobs, beats, reply, faults>>

\* What SaveWip asks for.
Commit ==
    /\ RootDirty /\ unmerged[head] = {}
    /\ soil' = FALSE
    /\ holds' = [holds EXCEPT ![head] = @ \cup {u \in Unit : draft[u] = "root"}]
    /\ draft' = [u \in Unit |-> IF draft[u] = "root" THEN "kept" ELSE draft[u]]
    /\ UNCHANGED <<plan, refs, linked, unmerged, staged, temp, head, calls, faults>>

-----------------------------------------------------------------------------
(* Everybody else *)

\* Somebody edits a file at the repo root.
Soil ==
    /\ soils < MaxSoils /\ ~soil
    /\ soil' = TRUE
    /\ soils' = soils + 1
    /\ UNCHANGED <<plan, git, head, draft, calls, crashes, leaves>>

PushBase(x) ==
    /\ x \notin holds[Base]
    /\ holds' = [holds EXCEPT ![Base] = @ \cup {x}]
    /\ UNCHANGED <<plan, refs, linked, unmerged, staged, temp, tree, calls, faults>>

\* The operator switches the primary checkout to the base, or back.
Leave ==
    /\ leaves < MaxLeaves
    /\ ~RootDirty /\ unmerged[head] = {}
    /\ head' = IF head = Main THEN Base ELSE Main
    /\ leaves' = leaves + 1
    /\ UNCHANGED <<plan, git, soil, draft, calls, crashes, soils>>

\* The merge the engine dies in the middle of stays in the tree it was made in:
\* staged but not committed, or in a `_merge-` worktree.
Halfway(from, to) ==
    /\ Merges(from, to) /\ ~Conflicts(from, to)
    /\ IF CheckedOut(to)
       THEN /\ unmerged' = [unmerged EXCEPT ![to] = holds[from] \ holds[to]]
            /\ staged' = staged \cup {to}
            /\ UNCHANGED temp
       ELSE temp' = [temp EXCEPT ![to] = "left"] /\ UNCHANGED <<unmerged, staged>>

\* The engine process dies; the next tick finds what is on disk.
Crash ==
    /\ crashes < MaxCrashes
    /\ jobs # <<>> \/ beats # {}
    /\ \/ UNCHANGED <<unmerged, staged, temp>>
       \/ At("pull") /\ Halfway(Base, Main)
       \/ At("down") /\ \E s \in Head(jobs).who : Halfway(Main, s)
       \/ At("land") /\ \E b \in Head(jobs).who : Halfway(b, Parent(b))
       \/ At("deliver") /\ Halfway(Main, Base)
    /\ crashes' = crashes + 1
    /\ jobs' = <<>> /\ beats' = {} /\ reply' = {}
    /\ UNCHANGED <<plan, refs, holds, linked, tree, told, soils, leaves>>

-----------------------------------------------------------------------------

Agent ==
    \/ \E u \in Unit : Write(u) \/ Lock(u) \/ Save(u)
    \/ \E s \in Station : Sign(s)
    \/ \E b \in Branch : Resolve(b)
    \/ Commit

Others == Approve \/ Soil \/ Crash \/ \E x \in Upstream : PushBase(x)

Next == Tick \/ Step \/ Agent \/ Others

Spec == Init /\ [][Next]_vars

\* The operator works in the primary checkout, too.
RovingSpec == Init /\ [][Next \/ Leave]_vars

\* The agent ticks and does what it is told, calls return, a gate is decided.
FairSpec ==
    /\ Spec
    /\ WF_vars(Tick) /\ WF_vars(Step)
    /\ SF_vars(Agent) /\ SF_vars(Approve)

-----------------------------------------------------------------------------
(* Properties *)

OnABranch(i) == \E b \in refs \ {State} : i \in holds[b]

\* Work that is committed stays on some branch.
WorkKept == [][\A i \in Item : OnABranch(i) => OnABranch(i)']_vars

\* A station that completes has its units' work on its branch.
UnitsLandFirst ==
    [][\A s \in Station :
          status[s] # "completed" /\ status'[s] = "completed" =>
             UnitsAt(s) \subseteq holds[s] \cup holds[Main]]_vars

\* run-main only accumulates.
MainAccumulates == [][holds[Main] \subseteq holds'[Main]]_vars

\* No call of the engine brings run-main the work of a station that is not
\* Completed.
MainTakesVerified ==
    [][jobs' # jobs => \A u \in Unit : u \in holds'[Main] \ holds[Main]
                                          => status[StationOf[u]] = "completed"]_vars

\* A station that closes by itself lands without a conflict, unless the
\* process died in a merge before.
LandsAreClean ==
    [][crashes = 0 /\ At("land") /\ Head(jobs).who \cap (Station \ Gated) # {}
          => Main \notin Unmerged']_vars

\* Every unit's work reaches run-main.
WorkArrives == <>[](crashes + soils = 0 => Unit \subseteq holds[Main])

\* A sealed run's work is on run-main.
SealedIsLanded == sealed => Unit \subseteq holds[Main]

\* A Completed unit's work is not gone.
LockedWorkKept == \A u \in locked : draft[u] # "lost"
=============================================================================
