---------------------------- MODULE RemoteCommands ----------------------------
(***************************************************************************)
(* Remote commands: the web client (web/app remote.rs, run_connection)     *)
(* sends each command until it is acknowledged or given up; the engine's   *)
(* tunnel connector (darkrun-tunnel) executes a command against the local  *)
(* server once per (instance, id) and replays the cached ack to the        *)
(* duplicates.  Between them the relay may lose, duplicate, delay and      *)
(* reorder frames and either end may lose its socket.                      *)
(*                                                                         *)
(* One page load, hence one instance: a command stands for its key.        *)
(* Safety assumes nothing of the relay but that a frame it delivers was    *)
(* sent, and that no copy of a command outlives DEDUP_TTL.                 *)
(***************************************************************************)
EXTENDS Naturals, Sequences

CONSTANTS Cmd,            \* the commands the operator issues, by their ids
          MaxAttempts,    \* RetryPolicy::max_attempts
          MaxReconnects,  \* MAX_RECONNECTS
          Capacity,       \* DEDUP_CAPACITY
          MaxRuns         \* bound: executions of one command

ASSUME IdsAssumption == Cmd \subseteq Nat \ {0}

ASSUME LimitsAssumption ==
    /\ MaxAttempts \in Nat \ {0} /\ MaxReconnects \in Nat \ {0}
    /\ Capacity \in Nat \ {0} /\ MaxRuns \in Nat \ {0}

VARIABLES socket,      \* the client's
          reconnects,  \* failed dials since the last snapshot
          outcome,     \* the one signal the client shows
          about,       \* history: the command it was last set for
          pending,     \* the commands the client waits for
          attempts,    \* sends of a command (counted up to MaxAttempts)
          expiring,    \* pending commands whose next deadline gives them up
          toHost,      \* command frames under way
          toClient,    \* ack frames under way to the client's socket
          heard,       \* history: the last ack of each command the client read
          hostUp,      \* the connector's relay connection
          order,       \* the dedup cache's keys, first seen first
          verdict,     \* ... and their states
          aged,        \* how many keys, at the front, are older than the TTL
          tasks,       \* executions under way
          runs,        \* history: exec_command calls per command
          effects      \* history: how often the engine carried a command out

signalVars == <<outcome, about, heard>>
clientVars == <<socket, reconnects, signalVars, pending, attempts, expiring>>
cacheVars == <<order, verdict, aged>>
vars == <<clientVars, toHost, toClient, hostUp, cacheVars, tasks, runs, effects>>

\* fresh: the frame's, or the task's, client connection is still the current
\* one, so that an ack routed to it can arrive.
Frames == [cmd : Cmd, fresh : BOOLEAN]
Acks == [cmd : Cmd, ok : BOOLEAN]
\* mine: started under the current connector's dedup cache.
Tasks == [cmd : Cmd, nth : 1..MaxRuns, fresh : BOOLEAN, mine : BOOLEAN,
          reply : {"none", "ok", "err"}]

KeysOf(keys) == {keys[i] : i \in DOMAIN keys}
Cached == KeysOf(order)

TypeOK ==
    /\ socket \in {"open", "closed", "offline"}
    /\ reconnects \in 0..MaxReconnects
    /\ outcome \in {"idle", "pending", "applied", "rejected", "unacked"}
    /\ about \in Cmd \cup {0} /\ (outcome = "idle" <=> about = 0)
    /\ heard \in [Cmd -> {"none", "ok", "err"}]
    /\ pending \subseteq Cmd
    /\ attempts \in [Cmd -> 0..MaxAttempts]
    /\ expiring \subseteq Cmd
    /\ toHost \subseteq Frames /\ toClient \subseteq Acks
    /\ hostUp \in BOOLEAN
    /\ order \in Seq(Cmd) /\ Len(order) <= Capacity
    /\ verdict \in [Cmd -> {"absent", "InFlight", "ok", "err"}]
    /\ \A c \in Cmd : c \in Cached <=> verdict[c] # "absent"
    /\ \A i, j \in DOMAIN order : order[i] = order[j] => i = j
    /\ aged \in 0..Len(order)
    /\ tasks \subseteq Tasks
    /\ runs \in [Cmd -> 0..MaxRuns] /\ effects \in [Cmd -> 0..MaxRuns]

Init ==
    /\ socket = "closed" /\ reconnects = 0
    /\ outcome = "idle" /\ about = 0 /\ heard = [c \in Cmd |-> "none"]
    /\ pending = {}
    /\ attempts = [c \in Cmd |-> 0] /\ expiring = {}
    /\ toHost = {} /\ toClient = {}
    /\ hostUp = FALSE
    /\ order = <<>> /\ verdict = [c \in Cmd |-> "absent"] /\ aged = 0
    /\ tasks = {}
    /\ runs = [c \in Cmd |-> 0] /\ effects = [c \in Cmd |-> 0]

-----------------------------------------------------------------------------
(* run_connection *)

AtMost(n, limit) == IF n < limit THEN n ELSE limit

\* One more send of each command of sent and tried.
Counted(sent) == [c \in Cmd |-> IF c \in sent THEN AtMost(attempts[c] + 1, MaxAttempts)
                                ELSE attempts[c]]

\* Mutant: no last send.
ScheduledForEver(sent) == expiring

\* schedule: after the last send allowed the next deadline gives up.
Scheduled(sent) == (expiring \ sent) \cup {c \in sent : Counted(sent)[c] >= MaxAttempts}

\* The socket is gone: no frame of it can be answered, no ack to it arrives.
Stale(frames) == {[m EXCEPT !.fresh = FALSE] : m \in frames}

Disconnect ==
    /\ reconnects' = reconnects + 1
    /\ socket' = IF reconnects + 1 >= MaxReconnects THEN "offline" ELSE "closed"
    /\ toClient' = {}
    /\ tasks' = Stale(tasks)

\* Commands sent over the open socket; on a failed send (lost: the command) the
\* socket is lost before that command is rescheduled.
Transmit(sent, lost) ==
    /\ attempts' = Counted(sent \cup lost)
    /\ expiring' = Scheduled(sent)
    /\ LET out == {[cmd |-> c, fresh |-> lost = {}] : c \in sent}
       IN  toHost' = out \cup (IF lost = {} THEN toHost ELSE Stale(toHost))
    /\ IF lost = {} THEN socket' = "open" /\ UNCHANGED <<reconnects, toClient, tasks>>
                    ELSE Disconnect

\* A fresh socket: everything pending is resent, in order, until a send fails.
Connect ==
    /\ socket = "closed"
    /\ \/ Transmit(pending, {})
       \/ \E sent \in SUBSET pending : \E c \in pending \ sent : Transmit(sent, {c})
    /\ UNCHANGED <<signalVars, pending, hostUp, cacheVars, runs, effects>>

\* A dial that fails, or a socket that closes.
Drop ==
    /\ socket # "offline"
    /\ Disconnect
    /\ toHost' = Stale(toHost)
    /\ UNCHANGED <<signalVars, pending, attempts, expiring, hostUp, cacheVars, runs, effects>>

\* A command from the UI, under the next id.  It is scheduled whether or not its
\* send landed.
Issue(c) ==
    /\ socket = "open" /\ attempts[c] = 0 /\ \A d \in Cmd : attempts[d] = 0 => c <= d
    /\ outcome' = "pending" /\ about' = c
    /\ pending' = pending \cup {c}
    /\ attempts' = [attempts EXCEPT ![c] = 1]
    /\ expiring' = IF 1 >= MaxAttempts THEN expiring \cup {c} ELSE expiring
    /\ \/ toHost' = toHost \cup {[cmd |-> c, fresh |-> TRUE]}
          /\ UNCHANGED <<socket, reconnects, toClient, tasks>>
       \/ toHost' = Stale(toHost) /\ Disconnect
    /\ UNCHANGED <<heard, hostUp, cacheVars, runs, effects>>

\* A deadline has passed.
Resend(c) ==
    /\ socket = "open" /\ c \in pending /\ c \notin expiring
    /\ Transmit({c}, {}) \/ Transmit({}, {c})
    /\ UNCHANGED <<signalVars, pending, hostUp, cacheVars, runs, effects>>

\* The signal is set whatever it shows, be it another command's verdict.
GiveUp(c) ==
    /\ socket = "open" /\ c \in pending /\ c \in expiring
    /\ outcome' = "unacked" /\ about' = c
    /\ pending' = pending \ {c} /\ expiring' = expiring \ {c}
    /\ UNCHANGED <<socket, reconnects, heard, attempts, toHost, toClient, hostUp, cacheVars,
                   tasks, runs, effects>>

Verdict(ok) == IF ok THEN "ok" ELSE "err"

\* An ack is believed whether or not its command is still pending, and shown
\* whichever command it is of.
RecvAck(a) ==
    /\ socket = "open" /\ a \in toClient
    /\ toClient' = toClient \ {a}
    /\ outcome' = IF a.ok THEN "applied" ELSE "rejected"
    /\ about' = a.cmd
    /\ heard' = [heard EXCEPT ![a.cmd] = Verdict(a.ok)]
    /\ pending' = pending \ {a.cmd} /\ expiring' = expiring \ {a.cmd}
    /\ UNCHANGED <<socket, reconnects, attempts, toHost, hostUp, cacheVars, tasks, runs, effects>>

Snapshot ==
    /\ socket = "open" /\ hostUp
    /\ reconnects' = 0
    /\ UNCHANGED <<socket, signalVars, pending, attempts, expiring, toHost, toClient, hostUp,
                   cacheVars, tasks, runs, effects>>

-----------------------------------------------------------------------------
(* CommandDedup *)

\* prune: the expired keys are at the front.
Pruned == SubSeq(order, aged + 1, Len(order))

\* evict_over_capacity, after one key was added.
Evicted(keys) == IF Len(keys) > Capacity THEN Tail(keys) ELSE keys

\* The cache holding keys, c's entry in the given state.
SetCache(keys, c, state) ==
    /\ order' = keys
    /\ verdict' = [k \in Cmd |-> IF k \notin KeysOf(keys) THEN "absent"
                                 ELSE IF k = c THEN state ELSE verdict[k]]

Known(c) == c \in KeysOf(Pruned)

\* Mutant: a duplicate of a command in flight runs again.
RepeatsInFlight(c) == Known(c) /\ verdict[c] # "InFlight"

\* The key has been seen: begin answers Replay or Drop.
Repeats(c) == Known(c)

Route(m, ok) == IF m.fresh /\ socket = "open"
                THEN toClient' = toClient \cup {[cmd |-> m.cmd, ok |-> ok]}
                ELSE UNCHANGED toClient

\* A command frame arrives; the bus may deliver it again.
Deliver(m, again) ==
    /\ hostUp /\ m \in toHost
    /\ toHost' = IF again THEN toHost ELSE toHost \ {m}
    /\ aged' = 0
    /\ IF Repeats(m.cmd)
       THEN /\ SetCache(Pruned, m.cmd, verdict[m.cmd])
            /\ IF verdict[m.cmd] = "InFlight" THEN UNCHANGED toClient
               ELSE Route(m, verdict[m.cmd] = "ok")
            /\ UNCHANGED <<tasks, runs>>
       ELSE /\ runs[m.cmd] < MaxRuns
            /\ SetCache(Evicted(Append(Pruned, m.cmd)), m.cmd, "InFlight")
            /\ runs' = [runs EXCEPT ![m.cmd] = @ + 1]
            /\ tasks' = tasks \cup {[cmd |-> m.cmd, nth |-> runs[m.cmd] + 1, fresh |-> m.fresh,
                                     mine |-> TRUE, reply |-> "none"]}
            /\ UNCHANGED toClient
    /\ UNCHANGED <<clientVars, hostUp, effects>>

\* The local server's reply, the command carried out (done) or not.
Replied(t, reply, done) ==
    /\ t \in tasks /\ t.reply = "none"
    /\ tasks' = (tasks \ {t}) \cup {[t EXCEPT !.reply = reply]}
    /\ effects' = IF done THEN [effects EXCEPT ![t.cmd] = @ + 1] ELSE effects
    /\ UNCHANGED <<clientVars, toHost, toClient, hostUp, cacheVars, runs>>

\* Mutant: the response's status is not looked at.
ServeOptimistic(t, ok, done) == Replied(t, "ok", done)

\* A success was carried out.  An error may have been: the transport fails after
\* the request was sent, or the engine refuses after it has written its state.
Serve(t, ok, done) == (ok => done) /\ Replied(t, Verdict(ok), done)

\* The key enters the queue, which may push the oldest one out.
Requeue(c) ==
    LET keys == Append(order, c)
    IN  [keys |-> Evicted(keys),
         aged |-> IF Len(keys) > Capacity /\ aged > 0 THEN aged - 1 ELSE aged]

\* Mutant: a completed command is cached as applied, whatever its ack said.
RecordAsOk(t) ==
    IF t.cmd \in Cached THEN SetCache(order, t.cmd, "ok") /\ UNCHANGED aged
    ELSE SetCache(Requeue(t.cmd).keys, t.cmd, "ok") /\ aged' = Requeue(t.cmd).aged

\* Mutant: every completion enters the queue of keys once more.
RecordTwice(t) == SetCache(Requeue(t.cmd).keys, t.cmd, t.reply) /\ aged' = Requeue(t.cmd).aged

\* complete: an evicted key is entered anew.
Record(t) ==
    IF t.cmd \in Cached THEN SetCache(order, t.cmd, t.reply) /\ UNCHANGED aged
    ELSE SetCache(Requeue(t.cmd).keys, t.cmd, t.reply) /\ aged' = Requeue(t.cmd).aged

\* exec_command returned: its ack is recorded and routed to the client
\* connection that delivered the command.
Complete(t) ==
    /\ t \in tasks /\ t.reply # "none"
    /\ tasks' = tasks \ {t}
    /\ IF t.mine THEN Record(t) ELSE UNCHANGED cacheVars
    /\ IF hostUp THEN Route(t, t.reply = "ok") ELSE UNCHANGED toClient
    /\ UNCHANGED <<clientVars, toHost, hostUp, runs, effects>>

-----------------------------------------------------------------------------
(* The relay and the clock *)

LoseFrame(m) ==
    /\ m \in toHost
    /\ toHost' = toHost \ {m}
    /\ UNCHANGED <<clientVars, toClient, hostUp, cacheVars, tasks, runs, effects>>

LoseAck(a) ==
    /\ a \in toClient
    /\ toClient' = toClient \ {a}
    /\ UNCHANGED <<clientVars, toHost, hostUp, cacheVars, tasks, runs, effects>>

\* The connector's relay connection ends; acks of running tasks go nowhere.
HostDrop ==
    /\ hostUp /\ hostUp' = FALSE
    /\ tasks' = Stale(tasks)
    /\ UNCHANGED <<clientVars, toHost, toClient, cacheVars, runs, effects>>

\* run's loop dials again, the dedup cache in hand.
HostReconnect ==
    /\ ~hostUp /\ hostUp' = TRUE
    /\ UNCHANGED <<clientVars, toHost, toClient, cacheVars, tasks, runs, effects>>

\* The relay rejected the dial token: run returned, and the engine's supervisor
\* starts it anew with a refreshed token.
Redial ==
    /\ ~hostUp /\ hostUp' = TRUE
    /\ order' = <<>> /\ verdict' = [c \in Cmd |-> "absent"] /\ aged' = 0
    /\ tasks' = {[t EXCEPT !.mine = FALSE] : t \in tasks}
    /\ UNCHANGED <<clientVars, toHost, toClient, runs, effects>>

\* The oldest young entry outlives the TTL.  No copy of its command does: the
\* client has stopped sending it, none is under way and its execution has ended.
Age(c) ==
    /\ aged < Len(order) /\ order[aged + 1] = c
    /\ c \notin pending
    /\ \A m \in toHost : m.cmd # c
    /\ \A t \in tasks : t.cmd # c
    /\ aged' = aged + 1
    /\ UNCHANGED <<clientVars, toHost, toClient, hostUp, order, verdict, tasks, runs, effects>>

-----------------------------------------------------------------------------

ClientNext ==
    \/ Connect \/ Drop \/ Snapshot
    \/ \E c \in Cmd : Issue(c) \/ Resend(c) \/ GiveUp(c)
    \/ \E a \in toClient : RecvAck(a)

HostNext ==
    \/ HostDrop \/ HostReconnect
    \/ \E m \in toHost, again \in BOOLEAN : Deliver(m, again)
    \/ \E t \in tasks : Complete(t) \/ \E ok, done \in BOOLEAN : Serve(t, ok, done)

RelayNext ==
    \/ \E m \in toHost : LoseFrame(m)
    \/ \E a \in toClient : LoseAck(a)
    \/ \E c \in Cmd : Age(c)

SessionNext == ClientNext \/ HostNext \/ RelayNext

Next == SessionNext \/ Redial

\* A session whose dial token is never rejected.
SessionSpec == Init /\ [][SessionNext]_vars

Spec == Init /\ [][Next]_vars

\* run_connection keeps dialling, and its sockets live, again and again, for
\* longer than a backoff.
FairSpec ==
    /\ SessionSpec
    /\ WF_vars(Connect)
    /\ \A c \in Cmd : SF_vars(Resend(c)) /\ SF_vars(GiveUp(c))

-----------------------------------------------------------------------------
(* Properties *)

\* However often a command is redelivered, by the bus or by the client on a
\* fresh socket, exec_command runs at most once for it (the INVARIANT of
\* handle_client_frame).
AtMostOnce == \A c \in Cmd : runs[c] <= 1

\* What the client shows as applied was carried out, exactly once, whichever
\* command the one outcome signal was last set for.
VerdictIsTrue == outcome = "applied" => effects[about] = 1

\* The acks of a command never contradict each other: once the client has read
\* one, no later, duplicated or replayed ack of it says anything else.
VerdictIsFinal == [][\A c \in Cmd : heard[c] # "none" => heard'[c] = heard[c]]_vars

\* No command waits for ever: it is acknowledged or given up, or the client
\* itself goes offline.
CommandsSettle == \A c \in Cmd : c \in pending ~> (c \notin pending \/ socket = "offline")

\* The outcome shown is the most recent command's: it turns to another command
\* only when that one is dispatched (CommandOutcome).
OutcomeIsOfTheLatest == [][about' # about => outcome' = "pending"]_vars

\* A command the host rejected had no effect (CommandOutcome::Failed).
RejectedHadNoEffect == outcome = "rejected" => effects[about] = 0
=============================================================================
