# TLA+ models of darkrun

darkrun drives coding agents through a *factory*: a plan of stations, each with
units of work, reviewers and gates. Almost all of it is sequential code over
documents on disk and branches in git; what is hard about it is who writes
them, when, and what the engine concludes from them. The modules here model
that part.

## The system

| component | state | operations | talks to |
|---|---|---|---|
| Manager cursor (`darkrun-mcp/position.rs`, `darkrun-core/derive.rs`) | `state.json`: per station a status, a recorded phase, an elaborated flag and a checkpoint slot | `run_tick` = derive one action, stamp the phase on, side effects | reads unit and feedback documents, writes `state.json` and units |
| Operator decisions (`checkpoint_decide`) | the same | approve or block at the pre-execution gate and at a checkpoint | from the MCP client, the review server and the tunnel; ends in a tick |
| Unit tools (`units.rs`) | one document per unit: status, Pass beats, stamps, gate results | create, update, reset, beat, gate result, stamps | called by agents in parallel |
| Feedback tools (`feedback.rs`) | one document per finding | create, close, reject, move, retarget; a material close takes signatures back and re-opens the station | agents, reviewers, drift, operator |
| Drift sweep (`drift.rs`) | premise hashes in unit documents | sweep (each tick), accept | files findings |
| Deadlock guard (`deadlock.rs`) | `deadlock.json`: signature, count, window | check (each tick) | replaces the action |
| Station lifecycle (`lifecycle.rs`) | git branches and worktrees of the run, its stations and units | fork, land, merge, sync downstream | after the cursor's write, and before its derivation |
| Git spine (`commit.rs`, `darkrun-git`) | commits on run-main, the `_state` worktree | commit and push of `.darkrun`, worktree checkpoints | every tool that writes |
| State store (`darkrun-core/state.rs`) | the files | atomic, guarded and plain writes | everything |
| Advisory lock (`darkrun-core/locks.rs`) | a directory and `holder.json` | acquire, steal, release | guarded writes of several processes |
| Sessions (`darkrun-http`, `sessions.rs`) | a registry of review and question sessions in memory, a broadcast channel each | show, decide, wake, await, retire | desktop, web, the `darkrun_advance` call that waits |
| Tunnel connector (`darkrun-tunnel`) | relay socket, command dedup cache | register, execute or replay a command | relay, review server; restarted by the engine's supervisor |
| Remote client (`web/app/remote.rs`) | pending commands, reconnect budget | send, resend, give up, read acks | relay |
| Web relay (`web/server` relay, registry, bus) | a leased session document, local maps of hosts and clients per instance | register, heartbeat, drop, attach, detach, deliver | both ends, and each other over the bus |
| The rest | | accounts, content corpus, prompts, CLI, harness, UI, telemetry, verification, packaging | |

`PROJECT.json` lists every component with its status.

Hard behaviours: the phase of a station is *derived* from unit documents that
agents write freely and *reconciled* with a recorded one; findings re-open what
is locked; several threads and processes write the same documents, some under a
lock and most not; processes die with the lock held, between a state write and
its branch effects, and inside a merge; best-effort effects are refused and
not tried again; the session registry is read, changed and written back in
separate steps by every thread; the relay loses, repeats and reorders; sockets
at both ends drop, instances crash, and a connector is started anew.

What makes each part correct, in one line:

- **Manager**: what locks is done, by everybody's leave, and stays so; the gate
  before execution is left only by the operator; nothing under way starts over;
  and a run whose agents and operator co-operate seals.
- **Guards of a tick**: a real wedge reaches a human, an agent who works is not
  halted, a broken gate environment holds no station for ever.
- **Branches**: committed work stays on a branch and ends on run-main, and
  run-main takes only what is verified.
- **Lock and guarded writes**: one writer at a time, an acknowledged edit is
  never lost, nobody waits for ever: an atomic compare-and-swap.
- **Sessions**: a decision on disk reaches the call that waits for it, and no
  session shows a gate as approved that is not approved on disk.
- **Relay**: one host per session, the engine gets its session back, a client
  that left is forgotten.
- **Remote commands**: a command runs at most once, what the operator is shown
  as applied happened, the acks of a command agree, and none waits for ever.

## Modules

```
MkdirLock <- ArtifactWrites <- MCArtifactWrites, ArtifactWritesProofs
             ArtifactWrites  =>  AtomicEdits   (refinement)
Manager         <- MCManager,         ManagerProofs <- ManagerObedientProofs
TickGuards      <- MCTickGuards,      TickGuardsProofs
StationBranches <- MCStationBranches, StationBranchesProofs
GateHold        <- MCGateHold,        GateHoldProofs
RelayRooms      <- MCRelayRooms,      RelayRoomsProofs
RemoteCommands  <- MCRemoteCommands,  RemoteCommandsProofs
```

An `MC` module holds the instances TLC needs (a plan, dependencies, a conflict
relation); a `Proofs` module the theorems. Definitions called `...Late`,
`...Early`, `...Never` and the like, with a comment that begins "Mutant", are
plausible faults of the definition that follows them; nothing uses them.

### MkdirLock, ArtifactWrites, AtomicEdits

`MkdirLock` is `locks.rs`, one action per file-system call: `CreateDir`,
`Stamp` (the holder file), `CheckAge` and `ProbeHolder` (`is_stale`),
`StealEmpty`, `StealRemove`, `StealCreate` (`steal`), `ReleaseEmpty`, `ReleaseRemove`,
`Deadline` (`acquire`'s retry). `Crash` kills a process anywhere, `Expire`
passes the acquire deadline, `GrowOld` ages the directory past `STALE_AFTER`:
a dead process's, or that of a live holder that hangs inside the lock.

`ArtifactWrites` puts `write_guarded` on top of it: a caller reads the sha of a
document, acquires the lock, compares and writes; on a conflict it re-reads and
retries, and a read or a write that fails leaves the file alone. `EngineRead`
and `EngineWrite` are the engine's plain read-modify-writes (`stamp_role` and
its kin) of the same document. Four next-state relations say who takes part:

- `YoungNext`: guarded writers, no directory grows old.
- `PunctualNext`: directories grow old. A dead process's is stolen; a hung
  holder's is judged old and kept because `is_alive` finds the holder. Such a
  holder hangs on or dies (`ReturnInTime`).
- `AgingNext`: it may also come back and release after `STALE_AFTER`.
- `MixedNext`: engine writers among the guarded ones of `YoungNext`.

The document is the set of edits it contains, so "lost" and "kept" are set
inclusions.

`AtomicEdits` is what the guarded write promises: a compare-and-swap in one
step, or a failure without effect, with no lock and no token. `IsAtomic`
instantiates it with a refinement mapping (a writer's `status` follows from its
program counter and its token) and says that `ArtifactWrites` implements it.

### Manager

One run of stations `1..N`. `stn` is `state.json`, `unit` the unit documents,
`fb` the open findings per station (`0` for run scope), `act` the action the
last tick returned, `runReviews` the run reviewers on record; `filed` (a bound)
and `released` are history.

- `Derived`, `Resolve`, `Ready`, `ManufactureTag`, `PhaseTag`, `Decide`
  translate `derive_station_phase`, `resolve_phase`, `wave_ready` and the
  arms of `derive_position`, in the code's order.
- `Advance`, `Complete`, `EnterSlot` translate `advance_state`,
  `complete_station` and the Checkpoint arm.
- `Tick(m)` is one `run_tick`: flagged resets and the drift sweep, the
  derivation, the stamp. `m` says what the tick meets besides the documents.
  A merge in progress, a dirty tree (`SaveWip`), an invalid or revised
  decomposition, an environment-blocked gate, missing proof and the deadlock
  guard all return early without touching stations: one `withheld` flag.
- `Release`, `Approve`, `Block` are `checkpoint_decide` with the tick it ends in.
- The unit, station and finding calls are the tools of `units.rs`,
  `feedback.rs` and the stamps of `position.rs`, each one atomic step.

Two agents use them. The *free* agent (`FreeSpec`, `LightsOutSpec`) calls any
tool at any time with any argument the engine does not refuse. The *obedient*
agent (`ObedientSpec`) does only what the last action asked; findings may still
be filed at any time and the operator may approve or block whenever asked.
`FairSpec` adds co-operation: see below.

A unit's beats are abstracted to the workers that settled, the last worker and
the count; a unit's gates to "all satisfied or not". `Block` with open
annotations adds one finding each time, where the code rewrites a finding with
a fixed id: the model has more findings than the code. Modes are `solo`
(operator gates) and `dark` (auto gates).

### TickGuards

What `Manager` leaves open about a tick: one station of a solo run from its
release to its approval, with one unit. `Derive` is the cursor's answer there,
`SignatureOf`, `Push`, `SameHalt` and `ChurnHalt` the guard's
history as `deadlock::check` keeps it (the same action with the same
fingerprint `HALT_THRESHOLD` times, or a window of `CHURN_WINDOW` with few
distinct ones), `Forget` its expiry or clear. `Record` is `record_gate_result`
with the nonce, the attempts and the promotion of `env_blocked` to
`deferred_to_ci` (`Effective`). `Approve` locks the station and retires the
nonce. The agent works, idles or undoes; `idle`, `paid` and `lapsed` are
history variables that say which.

### StationBranches

The run's branches under `Manager`'s walk. A branch is the set of changes it
carries (`holds`); merging adds what is missing, and a merge that brings a pair
of `Clash` together conflicts and stays in the target's checkout (`unmerged`,
`staged`) or in its `_merge-` worktree (`temp`). A station's phases are reduced
to those with a branch effect.

A call of the engine is a queue of `jobs`, one per git operation, so that other
actors act and the process dies between any two: `Tick` queues the downstream
sync (`Pull`, `Down`), the clean-tree gate (`Wip`) and `Derive`; `Derive` writes
the state and queues the effects `run_branch_side_effects` will run (`Enter`,
`Land` with its tail `Finish`, `Deliver`) and the tick's commit (`Answer`).
`Barred` is `merge_site`'s refusal, `Retire` the tail of `land_child`,
`Publish` where `commit_state` commits. A worker's terminal beat is two steps,
`Lock` (the document) and `Save` (commit and checkpoint). `Crash` also stops in
the middle of a merge (`Halfway`). `Soil`, `PushBase` and `Leave` are other
people's edits at the root, pushes to the base and switches of the checkout.

### GateHold

The operator's gate between threads. `gates`, `standing` (the last one reached
is not approved) and `atGate` (the cursor holds at it) are the truth on disk,
`slot` the registry's session under the run's slug. An agent's
`darkrun_advance` ticks, raises the gate and holds: `Look`, `Subscribe`,
`Recheck`, `Receive`, `TimeOut`, `MarkGet`/`MarkPut`, `Retick` are
`await_decision` and `advance_gate_hold`, each registry access its own step.
`DecideGet`, `DecideLand`, `DecideFlip` are `review_decide`. `Decide` is what
`checkpoint_decide` does to the gate: an approve passes it, a request for
changes with feedback takes the cursor to the finding until `Rework` brings it
back, one without feedback leaves everything where it was and is acknowledged
all the same. An error (`Refused`, a 409) may come before the write or after
it, when branch work or the re-tick fails. `WakeGet`/`WakePut` are
the POST that only wakes, `View` whoever shows the run, `TalkDecide` the tool
`darkrun_checkpoint_decide`, `ShowRead`, `ShowPut`, `ShowMirror`,
`ShowMirrorPut` the `create_show` all of them run, `Ask`/`AnswerQuestion` a
question of the run, `Reset`/`Retire` the reset and its `retire_run`.

### RelayRooms

One session document, the local maps of each relay instance, the engine that
dials again whenever it has no socket, and clients. Register, heartbeat and
drop are transactions of two steps, read and commit, and a commit fails when
the document was written in between (`stale`). A claim lapses when nobody
renews it (`Lapse`). `Crash` ends an instance and keeps its claim; `GiveUp`
loses the answer of a committed claim; a task aborted with its commit on the
way may still commit (`Aborted`). `Look`, `Attach`, `Join`, `Detach` are a
client's task, `Deliver` the bus's `Join` and `Leave` frames, in order per
instance and at least once.

### RemoteCommands

One page load of the web client, the relay, and the engine's connector.
`Connect`, `Issue`, `Resend`, `GiveUp`, `RecvAck`, `Snapshot`, `Drop` are
`run_connection`; `Deliver` is `handle_client_frame` with `CommandDedup::begin`
(`Pruned`, `Evicted`, `Repeats`), `Serve(t, ok, done)` the local server's answer
(a success was carried out, an error may have been: the transport can fail
after the request was sent, and the engine can refuse after its write),
`Complete` the spawned task's end with `CommandDedup::complete` (`Record`).
`outcome` is the client's one signal, which every dispatch, ack and give-up sets
whatever command it is about; `about` and `heard` are history variables that
say which, and what each command's last ack said. Commands are numbers, issued
in order, as ids are. `HostDrop` and
`HostReconnect` are `run`'s loop, `Redial` the supervisor's restart of `run`
after the relay rejected its token. A frame is `fresh` while the client
connection that sent it is the current one: the connector answers to the
connection a frame came by, so only a fresh frame's ack can arrive. `LoseFrame`
and `LoseAck` are the relay; `Deliver(m, TRUE)` is the bus's redelivery.
`aged` counts the keys older than `DEDUP_TTL`; `Age` lets an entry outlive it,
but no copy of its command: frames are seconds old, the TTL is five minutes.
`SessionSpec` is everything but `Redial`.

## Runs

| run | instance | asks |
|---|---|---|
| `artifact_guarded` | 2 writers that crash, fail, hang and time out, aging directory, fair | one writer at a time; acknowledged edits survive; a live stamped lock is kept; every acquire ends; a guarded write is an atomic compare-and-swap |
| `manager_dark_free` | 1 lights-out station, 1 gated unit, 2 workers, budget 2, 1 finding, free agent | a lock is over green gates, no open finding and, once signalled, fully signed work |
| `manager_solo_asked` | 1 interactive station, chain of 2 units, 2 workers, 2 findings, obedient | nothing is dispatched before release; approvable when asked |
| `manager_dark_seals` | 2 lights-out stations, 1 finding, obedient, fair | locked work stays signed; nothing under way restarts; Reflect comes before the checkpoint; the run seals |
| `tick_guards` | 1 unit, 1 gate, 1 worker, the code's thresholds 4, 10 and 8, one expiry | an agent who works is never halted; a wedge reaches a human, and keeps doing so; a diligent agent arrives |
| `gate_hold` | 1 waiting agent, 1 operator who approves, requests changes, wakes, views and talks, 2 gates, one question, resets, fair | no session shows a standing gate as approved; no bare gate session while its run lives; the wait never spins; a decision is told |
| `relay_rooms` | 2 instances, 2 engine sockets, 1 client, 2 faults, fair | one host per session; the engine gets its session back; a client that left is forgotten |
| `remote_session` | 2 commands, 2 sends, 2 dials, fair | at most once; what is shown as applied happened; the acks of a command agree; every command settles |
| `station_branches` | 2 stations (the first gated), 3 units, a base change that clashes with the third, 2 crashes, 1 edit at the root, fair | committed work stays on a branch; run-main takes only verified work; a land is free of conflicts; all work arrives on run-main |
| `artifact_stamps` | 3 writers, 2 of them stamps | violated: two "parallel-safe" stamps keep one |
| `branches_unlanded` | 1 station, 2 units, a base change that clashes | violated: a station lands on run-main without one of its units |
| `branches_rewound` | 1 station, 1 unit, the checkout is switched once | violated: run-main loses what it had |

### The disagreements

- `artifact_stamps`: `stamp_role` (`units.rs:865`) rewrites whole documents
  without the lock, and is documented as safe in parallel.
- `branches_unlanded`: the tick that enters Audit lands all units of the
  station in a row (`lifecycle.rs:730`). When the first conflicts, its merge
  stays in the station's worktree; the second is refused because that worktree
  is dirty, its own worktree is taken down all the same, and no later step lands
  it. The station then lands on run-main without it. `position.rs:3108-3110`
  and `4000-4001` say that Audit sees all units on the station's branch.
- `branches_rewound`: with another branch checked out at the root, run state is
  committed in the `_state` worktree and run-main is set to the result
  (`commit.rs:191`). The worktree is reused at the commit it was left at, so
  what was merged into run-main since is taken off it. `lifecycle.rs:11-12`
  says that run-main accumulates the stations.

### Further configurations

They show counterexamples met on the way: of agents that do what they were not
asked to, of environments harsher than the runs', or further disagreements
with what a comment says or with what a property of the same name promises. Run
one as `tlc -config X.cfg M`, `M` the `MC` module of its component; each ends in
a violation of the one property it names.

| configuration | what it shows |
|---|---|
| `ArtifactSteal` | the holder of an old directory releases between `is_stale`'s look at the age and its look at `holder.json`: the waiter finds no holder, and removes the directory a live process has made and stamped since (`locks.rs:197-216`; "so we never steal a live lock", `locks.rs:43`) |
| `ArtifactUnitEdit` | an engine stamp between a guarded edit's compare and its rename is lost |
| `ManagerApproveWedged` | `complete_station` puts a `Blocked` successor back to `Pending`/`Spec`; later its checkpoint is asked for and `station_at_checkpoint_hold` refuses every approve |
| `ManagerScopedReviewer` | `derived_station_phase` asks for a stamp of every declared reviewer, the actions dispatch the effective ones: the run never seals |
| `ManagerSealedOver` | with no frontier left `derive_position` returns before it looks at feedback: a run seals over an open finding |
| `ManagerReflectSkipped` | approvals stamped before Audit carry a station past Reflect |
| `ManagerResetLocked` | every unit of a lights-out station at its Checkpoint is reset, and the station locks |
| `ManagerUnproduced` | Audit is dispatched over a locked unit with no output: the derived phase steps over the arm that looks |
| `ManagerCrossStation` | a unit that depends on an earlier station's is never ready; the manager answers mid-wave for good |
| `TickGuardsLate` | the lock retires the nonce, and a gate result without one is accepted on the locked station (`units.rs:754`) |
| `TickGuardsRecovery` | a tick after real progress, which changed the fingerprint, is halted all the same by the churn window, which keeps the ticks before it |
| `TickGuardsSlowWave` | five stamps in a row, none of them in the fingerprint, halt an agent who works |
| `GateHoldKept` | a request for changes without feedback changes nothing on disk at the pre-execution gate and is acknowledged (`position.rs:3830-3845`): the held call wakes, ticks onto the same gate and takes the decision for a stale wake (`tools.rs:379-380`: "A genuine on-disk decision advances the run") |
| `GateHoldStranded` | a call sleeps on an open session although its gate is decided on disk and nobody will tell it |
| `GateHoldZombie` | a session retired by a reset is put back by a handler that had read it before |
| `RelayRoomsTakeover` | after a claim has lapsed and moved, a client still attaches to the host of the old claim |
| `RelayRoomsUntold` | a Join that finds no host in the local map is dropped (`relay.rs:627`): the client is attached and unserved |
| `RemoteOutcome` | an ack or give-up of an older command sets the one outcome shown after a newer one was dispatched (`remote.rs:293-300`, `325-336`; "the operator's most recent remote command", `remote.rs:41`) |
| `RemoteRejected` | the request's answer is lost, or the engine fails after its write, and the client shows as rejected what was carried out (`darkrun-tunnel/lib.rs:660-666`; `remote.rs:52`) |
| `RemoteRedial` | the dedup cache lives in `run`, and a rejected dial token ends `run`: a command runs twice |
| `BranchesSoiled` | an edit at the root makes the land of a station refuse; the run seals without it |
| `BranchesOverlap` | a worker's terminal beat overlaps the Audit tick, which retires the worktree before its checkpoint (`units.rs:704`, `lifecycle.rs:651`) |

### Bounds

- `Manager`: stations 1 or 2, since a lock touches a station and its successor
  and a re-open one station. Units 1 or 2: a dependency needs two. Workers 1 or
  2: terminal and not. The Pass budget is small enough to be burned in the
  safety runs and leaves room for the owed beats in the fair ones. One finding
  (two in `manager_solo_asked`) is enough for re-open and lock again.
- `TickGuards` runs with the code's own thresholds. One gate, because a second
  only adds ways to be unmet; `MaxPasses` 1 has the budget burned and not.
- `GateHold`: two gates are needed for a decision, or a session, of the one
  before; one human is each handler once at a time, which is where the handlers'
  reads and writes interleave with the agent's.
- `RelayRooms`: two instances for a takeover, two sockets for a dial that meets
  the old one's end, two faults for a crash with a failed commit.
- `RemoteCommands`: sends and dials are counted as in the code with smaller
  limits; `Capacity` is the number of commands, where the code has room for 4096.
- `StationBranches`: two stations have a downstream sync, two units at one
  station land in a row, one gated and one plain station; two crashes interrupt
  the recovery from the first.

`MaxFilings`, `MaxRuns`, `MaxForgets`, `MaxGates`, `MaxFaults`, `MaxCrashes`,
`MaxSoils` and `MaxLeaves` bound what others may do, in the guards; no run uses
a state constraint, and only `artifact_stamps` and `artifact_guarded` leave
processes out to bound anything else.

### Fairness

- `AcquireEnds`: threads of a live process keep running (`WF` of `LockedStep`
  or `ReturnInTime`, which a hung holder cannot take), clocks go on (`WF` of
  `Expire`). Nothing is assumed of a crashed process, and no release is needed.
- `RunSeals`: the harness keeps ticking (`WF` of `QuietTick`). The agent, its
  workers and the operator are not code; the property asks what the engine does
  *if they co-operate*: `Progress` and an approve or release when asked are
  strongly fair, since filed findings keep interrupting them.
- `KeepsSurfacing` and `DiligentArrives`: the harness ticks (`WF` of `Tick`),
  nothing else. That the agent works is in the property (`lapsed`).
- `DecisionIsTold`, `NoSpin`: threads run, a wait times out, an agent whose call
  returned calls again. No human has to do anything.
- `EngineReturns`, `GoneIsForgotten`: the engine without a socket dials, tasks
  of a live instance run, a heartbeat's commit is carried out, a claim nobody
  renews lapses (`WF`); a bus frame whose delivery is tried for ever gets
  through (`SF`, since a crash may interrupt).
- `CommandsSettle`: `run_connection` loops (`WF` of `Connect`), and a socket
  again and again lives longer than a backoff (`SF` of `Resend` and `GiveUp`).
  Without the latter a link that flaps for ever keeps a command pending for ever.
- `WorkArrives`: the harness ticks and a call finishes (`WF` of `Tick`, `Step`);
  agents do what is asked and the operator approves (`SF`, since the ticks of
  others keep disabling them).

`CHECK_DEADLOCK FALSE` stands where the system stops: writers that are done, a
client that is offline or done, an agent with nothing left to call, a locked
station, a sealed run.

## Proofs

Checked by TLAPS for every value of the constants under the named assumptions
of the modules (`PlanAssumption` and its kin) and those named here.

| module | inductive invariant | theorems |
|---|---|---|
| `ArtifactWritesProofs`, of `PunctualSpec`, under `StealsAlone` | `TypeOK /\ OwnerInv /\ EditInv` | `TypeCorrect`, `LockExcludes`, `EditsSurvive`, `LiveLocksKept`, `NothingLost`, `GuardedWritesAreAtomic`, `YoungLockIsSafe`, `TwoContendersAreSafe` |
| `ManagerProofs`, of `FreeSpec` or `LightsOutSpec` | `TypeOK /\ LockedLeftGate` | `WellFormed`, `UnderWayKept`, `GateIsHeld`, `LocksOverGreenGates`, `LocksOverCleanRun`, `LocksOverSignedWork` |
| `ManagerObedientProofs`, of `ObedientSpec` | `WInv`, `GInv`, `CInv` | `ObedientImplementsFree`, `LockedWorkStaysSigned`, `ThriftyLocksStaySigned`, `ReleaseBeforeWork`, `AskedIsApprovable`, `ReflectedBeforeCheckpoint`, `GatesOfOneStation` |
| `TickGuardsProofs` | `TypeOK /\ Steady`; `Diligent`, under `LittleHidden` | `GuardTyped`, `WedgesSurface`, `WorkIsNotAWedge` |
| `GateHoldProofs` | `TypeOK /\ Registry /\ \A p : Thread(p)` | `HoldTyped`, `ApprovalsLanded`, `RawGateIsOfAGoneRun`, `NobodySpins` |
| `RelayRoomsProofs` | `TypeOK /\ Placed /\ RoomsServed /\ FreshReads /\ OneClaim` | `RelayTyped`, `OneHost` |
| `RemoteCommandsProofs`, of `SessionSpec`, under `Roomy` | `TypeOK /\ AtMostOnce /\ Dialling /\ Rules` | `RemoteTyped`, `RunsAtMostOnce`, `VerdictsAreTrue`, `VerdictsAreFinal` |
| `StationBranchesProofs` | `KInv`; `MInv`; `CInv` | `BranchesTyped`, `CommittedWorkKept`, `OnlyVerifiedLands`, `StationsLandClean` |

Why the strengthenings are needed:

- *Lock*: `OwnerInv` relates the directory, its creator and the program
  counters: a live process past `create_dir` made the directory on disk, an old
  directory was made by a dead process or carries the stamp of its live holder,
  and one that is being stolen was made by a dead one: that is where
  `is_alive` counts. `EditInv` says that what the owner read under the lock is
  still there. The refinement maps the step that renames the document to the
  abstract swap and every other step to a stutter or a failure.
- *Manager*: a completed station's recorded phase is not `UserGate`. A completed
  station behind the frontier is reset by nobody, and one recorded at the gate
  would be re-opened to Audit without a release. `TickMoves` says what a tick
  may do to the stations (one advances, or one locks and its successor starts
  over) and carries every action property.
- *Manager, obedient agent*: an action stays on the table while agents work, so
  the invariant says what the last action still says of the documents
  (`Current`), and what no call asked for can undo. `WInv`: work past
  Manufacture is beaten through (`LateIsBuilt`) and locked work is signed.
  `GInv` adds that a station before its release has no beat and no approval
  (`GateShut`), whatever phase the units suggest. `CInv` adds that approvals
  come after beats (`ApprovedLast`) and that signed off work stands at Reflect
  or past it (`Reflected`): the recorded phase an approve looks for is there.
- *Guard*: `Steady` ties the ticks without a change (`idle`) to the count the
  guard kept of them. `Diligent` is an amortised count: stamps and gate results,
  which the fingerprint leaves out, are finite in number (`Hidden`), and neither
  the count (`Counted`) nor the time two answers have alternated (`Window`)
  outruns what was done of them. `LittleHidden` relates that number to the
  thresholds; with the code's own (4, 8, 2) it holds for up to four reviewers
  without a gate, three with one gate, one with two, and `TickGuardsSlowWave` is
  the case of five.
- *Hold*: `Thread(p)` says, per program counter, what a handler between its two
  registry accesses knows; `Registry` what a session on show says of the disk:
  an approved one is about a gate the run has passed.
- *Relay*: a local room exists only where the document's claim was made
  (`RoomsServed`), and a read that is not `stale` still agrees with the document
  (`FreshReads`): without it a commit could give the session to a second host.
- *Commands*: `Roomy` says the cache has room for every command. `Rules` says a
  command that ran has an entry that outlives every copy of its frame, and that
  whatever speaks of its result, the cache, a finished task, an ack under way,
  the acks read and the outcome shown, says the same (`Says`, `Fits`).
- *Branches*: under `Orderly`, `KInv` says that work is on its unit's branch
  before the branch is deleted, and that a deleted branch was landed
  (`Retiring`). `MInv` says that a queued land was queued by a state that
  verified it (`FitJobs`), for every plan and without `Orderly`. `CInv` follows
  run-main through a tick: what the sync gave the station on turn is still all
  that run-main has when the tick derives and lands it (`Synced`, `Closing`),
  because until a crash no work is done outside the worktrees and no merge is
  left staged (`Tidy`), and a station on turn has its checkout (`Entered`).

`ReleaseBeforeWork`, `AskedIsApprovable` and `ReflectedBeforeCheckpoint` speak of
behaviours in which `StartedStationKept` holds: no lock upstream puts a `Blocked`
station back to `Pending`. It is what the comment of `complete_station` says of
downstream stations, the invariants need it at the one step that could break
them, and it cannot be dropped: `ManagerApproveWedged` is a behaviour without it
whose checkpoint cannot be approved. `GatesOfOneStation` discharges it where
no station is downstream of another or none is ever blocked.
`LockedWorkStaysSigned` needs no such condition. All four rest on
`ReviewerAssumption`: a station without a reviewer does not pass the factory's
validation (`validate.rs:150`), and without one unreviewed work would count as
signed.

`StealsAlone` says that while a live process steals, no other is past `is_stale`'s
age test; any number may be there as long as nobody steals, as they are while a
holder hangs. Nothing in `steal` ensures it, and it cannot be dropped: with
three processes two may judge one dead directory stale, and the slower one
removes what the faster has made. `YoungLockIsSafe` and `TwoContendersAreSafe`
discharge it where no directory outlives `STALE_AFTER` and where two processes
contend (the instance of `artifact_guarded`). The theorems are of `PunctualSpec`:
with a holder that comes back after `STALE_AFTER` two processes suffice for
`ArtifactSteal`.

`Roomy` cannot be dropped: with fewer places than commands in flight, an
eviction lets a resend run twice.

Only model-checked: the temporal properties (`AcquireEnds`, `RunSeals`,
`DecisionIsTold`, `KeepsSurfacing`, `DiligentArrives`, `EngineReturns`,
`GoneIsForgotten`, `CommandsSettle`, `WorkArrives`), which rest on fairness and
`ENABLED` and are out of the prover's reach. Every invariant and every action
property the passing runs check is proved, some under the conditions named
above. No module uses a `RECURSIVE` operator.

## Limits of the models

- `Manager`: one operation is one step. What happens when several processes
  write `state.json` at once is not modelled. No setup and composite runs,
  `PendingSeal`, `move_station`.
- `TickGuards`: one station with one unit; no unit reset and no re-opening of a
  completed unit. Ticks nobody asked for are a constant (`Unasked`), off in the
  run. `DiligentNeverHalted` holds up to four pieces of work in a row that the
  fingerprint does not show; `TickGuardsSlowWave` has five.
- `GateHold`: one run, its slug's session and its questions; annotations,
  drafts and the sessions of other kinds share only the registry's code.
- `RelayRooms`: one (owner, session), one engine. No command frames, no rows of
  clients, publishes are never lost and only the frame in front is delivered
  again; an instance that ended stays down; a socket is used again once its
  last task has settled.
- `GateHold`: a decision overwritten by an older call's `mark_pending`, or a
  wakeup lost before a wait, costs the rest of the hold's window;
  `DecisionIsTold` asks only that the agent learns of it in the end, and windows
  have no length. `GateHoldStranded` has the first.
- `RemoteCommands`: one page load; `VerdictIsTrue` speaks of what is shown as
  applied, since what is shown as rejected may have happened (`RemoteRejected`).
- `StationBranches`: nothing with `origin`; no fix branches, discrete gates or
  `drop_station`; engine calls one after the other, except the worker's two-step
  beat; the lead agent resolves a merge between its ticks; agents leave the
  station worktrees clean; commits of run state carry no work. A crash is
  between two git operations or in the middle of a merge. `WorkArrives` speaks
  of behaviours without a crash or a foreign edit, since the refused land of
  `BranchesSoiled` stays. `LandsAreClean` speaks of ungated stations before any
  crash. Units of one station that clash are left to `branches_unlanded`.

## Not modelled

Most of the repository has no state a model checker helps with: views, prompts
and the factory's content, wire types, renderers, providers' REST clients,
packaging, and tests. `map` therefore names a small share of all lines, the
greater part of it in the files where writers, threads or processes meet.
What has such state and is left out, in the order worth adding:

1. `state.json` as read and write steps, with the atomic `Manager` as what it
   should implement; with it the allocation of finding ids (`feedback.rs:274`)
   and the fixed id of a block's annotations (`position.rs:3989`).
2. The discrete pull-request gate: merged, closed, or not answering; with it
   team mode.
3. Fix branches, `drop_station` and the steps with `origin`, in `StationBranches`.
4. The premise hashes of the drift sweep, its cap and its restamp (`drift.rs:192`).
5. The single use of a brokered credential and the refresh of a rotating relay
   token.
6. `dag.rs` against a definition of an acyclic order.
