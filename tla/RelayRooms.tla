----------------------------- MODULE RelayRooms -----------------------------
(***************************************************************************)
(* The relay of the web server: which of its instances hosts a session, as *)
(* the leased document of relay_registry.rs and each instance's local map  *)
(* of relay.rs record it, and which clients the hosting engine is told of, *)
(* locally or over the bus of relay_bus.rs.                                *)
(*                                                                         *)
(* One session of one owner (the document is keyed by both), one engine    *)
(* that dials again whenever it has no open socket.  A transaction on the  *)
(* document is two steps, its read and its commit; a commit fails when the *)
(* document was written after the read.                                    *)
(***************************************************************************)
EXTENDS Naturals, Sequences, FiniteSets

CONSTANTS Instance,    \* instances of the relay service
          Socket,      \* host sockets; a settled one is dialled anew
          Client,      \* client sockets, each attached at most once
          NoInstance, NoSocket,
          MaxFaults    \* bound: broken sockets, crashes, lost registry requests

ASSUME RoomAssumption == /\ NoInstance \notin Instance
                         /\ NoSocket \notin Socket
                         /\ MaxFaults \in Nat

VARIABLES doc,      \* the session document; its host is NoInstance when absent
          room,     \* the host socket in each instance's local map
          up,       \* instances that have not crashed
          stage,    \* how far the run_host task of a socket is
          at,       \* the instance a socket was dialled at
          engine,   \* the socket the engine holds open
          beat,     \* the heartbeat task of a socket
          stale,    \* transactions whose read a later commit has outdated
          client,   \* each client's run_client task
          known,    \* the clients the engine was told of, by instance
          bus,      \* the frames published to each instance
          faults,   \* faults so far
          outran    \* history: a claim lapsed before its host let go of it

registry == <<doc, stale, outran>>
hosts == <<room, stage, at, engine, beat>>
guests == <<client, known, bus>>
vars == <<registry, hosts, guests, up, faults>>

Docs == [host : Instance \cup {NoInstance}, live : BOOLEAN]
Absent == [host |-> NoInstance, live |-> FALSE]
Claim(i) == [host |-> i, live |-> TRUE]

\* "claim", "undoing", "dropping": between the read and the commit; "won": the
\* commit is through and its answer is not.
Stages == {"idle", "dialled", "claim", "won", "serving", "undo", "drop", "dropping"}

\* "orphan": the task was aborted with its commit on the way.
Beats == {"off", "waiting", "commit", "orphan"}

\* The transactions a socket's two tasks run.
Txn == Socket \X {"task", "beat"}

\* at: its instance; to: the host's, as the document named it.
NewClient == [stage |-> "new", at |-> NoInstance, to |-> NoInstance]
ClientStates == {NewClient} \cup [stage : {"look", "sink", "local", "remote", "closed"},
                                  at : Instance, to : Instance]

Frames == [event : {"Join", "Leave"}, of : Client]

TypeOK ==
    /\ doc \in Docs
    /\ stale \subseteq Txn /\ outran \in BOOLEAN
    /\ room \in [Instance -> Socket \cup {NoSocket}]
    /\ up \subseteq Instance
    /\ stage \in [Socket -> Stages]
    /\ at \in [Socket -> Instance \cup {NoInstance}]
    /\ engine \in Socket \cup {NoSocket}
    /\ beat \in [Socket -> Beats]
    /\ client \in [Client -> ClientStates]
    /\ known \in [Instance -> SUBSET Client]
    /\ bus \in [Instance -> Seq(Frames)]
    /\ faults \in 0..MaxFaults

Init ==
    /\ doc = Absent
    /\ stale = {} /\ outran = FALSE
    /\ room = [i \in Instance |-> NoSocket]
    /\ up = Instance
    /\ stage = [s \in Socket |-> "idle"]
    /\ at = [s \in Socket |-> NoInstance]
    /\ engine = NoSocket
    /\ beat = [s \in Socket |-> "off"]
    /\ client = [c \in Client |-> NewClient]
    /\ known = [i \in Instance |-> {}]
    /\ bus = [i \in Instance |-> <<>>]
    /\ faults = 0

-----------------------------------------------------------------------------
(* The document *)

Fault == faults < MaxFaults /\ faults' = faults + 1

\* t reads the document in a fresh transaction.
Begins(t) == stale' = stale \ {t}

\* t commits new, and outdates every read before it.
Commits(t, new) == t \notin stale /\ doc' = new /\ stale' = Txn

\* Sockets whose task holds a claim or has not let go of it.
Claimants == {s \in Socket : stage[s] \in {"won", "serving", "undo", "drop", "dropping"}}

\* SESSION_TTL after its last renewal the claim reads as not live.
Lapse ==
    /\ doc.live
    /\ doc' = [doc EXCEPT !.live = FALSE]
    /\ outran' = (outran \/ \E s \in Claimants : at[s] = doc.host)
    /\ UNCHANGED <<stale, hosts, guests, up, faults>>

\* The store's own collection of what has expired.
Collect ==
    /\ doc # Absent /\ ~doc.live
    /\ doc' = Absent
    /\ stale' = Txn
    /\ UNCHANGED <<outran, hosts, guests, up, faults>>

-----------------------------------------------------------------------------
(* The engine and its sockets *)

\* run's loop: no socket, so dial one; any instance may get it.
Dial(s, i) ==
    /\ engine = NoSocket /\ stage[s] = "idle" /\ beat[s] = "off"
    /\ i \in up
    /\ engine' = s
    /\ stage' = [stage EXCEPT ![s] = "dialled"]
    /\ at' = [at EXCEPT ![s] = i]
    /\ UNCHANGED <<registry, room, beat, guests, up, faults>>

\* The connection is lost; the relay's end notices later.
Break ==
    /\ Fault
    /\ engine # NoSocket
    /\ engine' = NoSocket
    /\ UNCHANGED <<registry, room, stage, at, beat, guests, up>>

\* run_host returns, and with it the socket.
Ends(s) ==
    /\ stage' = [stage EXCEPT ![s] = "idle"]
    /\ engine' = IF engine = s THEN NoSocket ELSE engine

\* register_txn, its read; a live claim loses, whoever holds it.
ClaimRead(s) ==
    /\ stage[s] = "dialled"
    /\ IF doc.live
       THEN Ends(s) /\ UNCHANGED stale
       ELSE /\ stage' = [stage EXCEPT ![s] = "claim"]
            /\ Begins(<<s, "task">>)
            /\ UNCHANGED engine
    /\ UNCHANGED <<doc, outran, room, at, beat, guests, up, faults>>

\* Mutant: a commit that does not look at what was written since its read.
ClaimCommitBlind(s) ==
    /\ stage[s] = "claim"
    /\ doc' = Claim(at[s]) /\ stale' = Txn
    /\ stage' = [stage EXCEPT ![s] = "won"]
    /\ UNCHANGED <<outran, room, at, engine, beat, guests, up, faults>>

\* ... its commit; what the conflict aborts is read again.
ClaimCommit(s) ==
    /\ stage[s] = "claim"
    /\ \/ /\ Commits(<<s, "task">>, Claim(at[s]))
          /\ stage' = [stage EXCEPT ![s] = "won"]
       \/ /\ <<s, "task">> \in stale
          /\ stage' = [stage EXCEPT ![s] = "dialled"]
          /\ UNCHANGED <<doc, stale>>
    /\ UNCHANGED <<outran, room, at, engine, beat, guests, up, faults>>

\* register_host, after the claim: the heartbeat starts and the local entry is
\* made, or, when there is one, both are taken back.
Enter(s) ==
    /\ stage[s] = "won"
    /\ IF room[at[s]] = NoSocket
       THEN /\ room' = [room EXCEPT ![at[s]] = s]
            /\ stage' = [stage EXCEPT ![s] = "serving"]
            /\ beat' = [beat EXCEPT ![s] = "waiting"]
       ELSE /\ stage' = [stage EXCEPT ![s] = "undo"]
            /\ UNCHANGED <<room, beat>>
    /\ UNCHANGED <<registry, at, engine, guests, up, faults>>

\* heartbeat_txn: renew the instance's own claim, re-create a missing one.
BeatRead(s) ==
    /\ beat[s] = "waiting"
    /\ doc.host \in {at[s], NoInstance}
    /\ beat' = [beat EXCEPT ![s] = "commit"]
    /\ Begins(<<s, "beat">>)
    /\ UNCHANGED <<doc, outran, room, stage, at, engine, guests, up, faults>>

\* ... which a conflict or a lost request leaves undone.
BeatCommit(s) ==
    /\ beat[s] \in {"commit", "orphan"}
    /\ \/ Commits(<<s, "beat">>, Claim(at[s]))
       \/ UNCHANGED <<doc, stale>>
    /\ beat' = [beat EXCEPT ![s] = IF @ = "orphan" THEN "off" ELSE "waiting"]
    /\ UNCHANGED <<outran, room, stage, at, engine, guests, up, faults>>

\* Mutant: the heartbeat outlives its host.
AbortedNot(b) == b

\* abort: the task ends where it waits; a commit on the way may still land.
Aborted(b) == IF b \in {"commit", "orphan"} THEN "orphan" ELSE "off"

\* Closes the local clients of instance i, and whatever the engine knew there.
Empties(i) ==
    /\ known' = [known EXCEPT ![i] = {}]
    /\ client' = [c \in Client |->
                    IF client[c].stage = "local" /\ client[c].at = i
                    THEN [client[c] EXCEPT !.stage = "closed"] ELSE client[c]]

\* drop_host, its first part: the relay noticed that the socket is gone.
Leave(s) ==
    /\ stage[s] = "serving" /\ engine # s
    /\ room' = [room EXCEPT ![at[s]] = NoSocket]
    /\ beat' = [beat EXCEPT ![s] = Aborted(@)]
    /\ stage' = [stage EXCEPT ![s] = "drop"]
    /\ Empties(at[s])
    /\ UNCHANGED <<registry, at, engine, bus, up, faults>>

\* drop_txn: the claim is deleted while it still names the instance.
DropRead(s) ==
    /\ stage[s] \in {"undo", "drop"}
    /\ IF doc.host = at[s]
       THEN /\ stage' = [stage EXCEPT ![s] = "dropping"]
            /\ Begins(<<s, "task">>)
            /\ UNCHANGED engine
       ELSE Ends(s) /\ UNCHANGED stale
    /\ UNCHANGED <<doc, outran, room, at, beat, guests, up, faults>>

DropCommit(s) ==
    /\ stage[s] = "dropping"
    /\ \/ /\ Commits(<<s, "task">>, Absent)
          /\ Ends(s)
       \/ /\ <<s, "task">> \in stale
          /\ stage' = [stage EXCEPT ![s] = "drop"]
          /\ UNCHANGED <<doc, stale, engine>>
    /\ UNCHANGED <<outran, room, at, beat, guests, up, faults>>

\* The registry cannot be reached, or conflicts use up MAX_TXN_ATTEMPTS: no
\* claim, or a claim left behind; the lost answer of a claim counts as none.
GiveUp(s) ==
    /\ Fault
    /\ stage[s] \in {"dialled", "claim", "won", "undo", "drop", "dropping"}
    /\ Ends(s)
    /\ UNCHANGED <<registry, room, at, beat, guests, up>>

\* An instance dies with all its tasks; one is always left.
Crash(i) ==
    /\ Fault
    /\ i \in up /\ up # {i}
    /\ up' = up \ {i}
    /\ room' = [room EXCEPT ![i] = NoSocket]
    /\ stage' = [s \in Socket |-> IF at[s] = i THEN "idle" ELSE stage[s]]
    /\ beat' = [s \in Socket |-> IF at[s] = i THEN Aborted(beat[s]) ELSE beat[s]]
    /\ engine' = IF engine # NoSocket /\ at[engine] = i THEN NoSocket ELSE engine
    /\ known' = [known EXCEPT ![i] = {}]
    /\ client' = [c \in Client |-> IF client[c].at = i THEN [client[c] EXCEPT !.stage = "closed"]
                                   ELSE client[c]]
    /\ UNCHANGED <<registry, at, bus>>

-----------------------------------------------------------------------------
(* Clients *)

Publishes(i, event, c) == bus' = [bus EXCEPT ![i] = Append(@, [event |-> event, of |-> c])]

\* Mutant: a document that is not there is looked up too.
LookAnyDoc(c, i) ==
    /\ client[c].stage = "new" /\ i \in up
    /\ client' = [client EXCEPT ![c] = [stage |-> "look", at |-> i, to |-> doc.host]]
    /\ UNCHANGED <<registry, hosts, known, bus, up, faults>>

\* attach_client, the lookup: a live document says where the host is.
Look(c, i) ==
    /\ client[c].stage = "new" /\ i \in up
    /\ doc.live
    /\ client' = [client EXCEPT ![c] = [stage |-> "look", at |-> i, to |-> doc.host]]
    /\ UNCHANGED <<registry, hosts, known, bus, up, faults>>

\* ... under the lock: a host of this instance takes the client; without one a
\* document that names this instance is no host; else the client's sink is made.
Attach(c) ==
    LET i == client[c].at
    IN  /\ client[c].stage = "look"
        /\ IF room[i] # NoSocket
           THEN /\ client' = [client EXCEPT ![c].stage = "local"]
                /\ known' = [known EXCEPT ![i] = @ \cup {c}]
           ELSE /\ client' = [client EXCEPT ![c] = IF client[c].to = i THEN NewClient
                                                   ELSE [@ EXCEPT !.stage = "sink"]]
                /\ UNCHANGED known
        /\ UNCHANGED <<registry, hosts, bus, up, faults>>

\* ... and the host is told over the bus.
Join(c) ==
    /\ client[c].stage = "sink"
    /\ client' = [client EXCEPT ![c].stage = "remote"]
    /\ Publishes(client[c].to, "Join", c)
    /\ UNCHANGED <<registry, hosts, known, up, faults>>

\* Mutant: the Leave goes where the document says the host is now.
DetachToDoc(c) ==
    /\ client[c].stage \in {"local", "remote"}
    /\ client' = [client EXCEPT ![c].stage = "closed"]
    /\ IF client[c].stage = "local"
       THEN known' = [known EXCEPT ![client[c].at] = @ \ {c}] /\ UNCHANGED bus
       ELSE /\ IF doc.live THEN Publishes(doc.host, "Leave", c) ELSE UNCHANGED bus
            /\ UNCHANGED known
    /\ UNCHANGED <<registry, hosts, up, faults>>

\* detach_client: the client is gone.
Detach(c) ==
    /\ client[c].stage \in {"local", "remote"}
    /\ client' = [client EXCEPT ![c].stage = "closed"]
    /\ IF client[c].stage = "local"
       THEN known' = [known EXCEPT ![client[c].at] = @ \ {c}] /\ UNCHANGED bus
       ELSE Publishes(client[c].to, "Leave", c) /\ UNCHANGED known
    /\ UNCHANGED <<registry, hosts, up, faults>>

\* deliver_host_event, for the first frame of the subscription, which is acked
\* with it or delivered again.
Deliver(i) ==
    /\ i \in up /\ bus[i] # <<>>
    /\ LET frame == Head(bus[i])
       IN  known' = [known EXCEPT ![i] =
                       CASE room[i] = NoSocket -> @
                         [] room[i] # NoSocket /\ frame.event = "Join" -> @ \cup {frame.of}
                         [] room[i] # NoSocket /\ frame.event = "Leave" -> @ \ {frame.of}]
    /\ \E acked \in BOOLEAN : bus' = IF acked THEN [bus EXCEPT ![i] = Tail(@)] ELSE bus
    /\ UNCHANGED <<registry, hosts, client, up, faults>>

-----------------------------------------------------------------------------
HostStep(s) ==
    \/ ClaimRead(s) \/ ClaimCommit(s) \/ Enter(s)
    \/ Leave(s) \/ DropRead(s) \/ DropCommit(s)

GuestStep(c) == (\E i \in Instance : Look(c, i)) \/ Attach(c) \/ Join(c) \/ Detach(c)

Next ==
    \/ Lapse \/ Collect \/ Break
    \/ \E s \in Socket : \/ HostStep(s) \/ BeatRead(s) \/ BeatCommit(s) \/ GiveUp(s)
                         \/ \E i \in Instance : Dial(s, i)
    \/ \E i \in Instance : Crash(i) \/ Deliver(i)
    \/ \E c \in Client : GuestStep(c)

Spec == Init /\ [][Next]_vars

\* Nobody renews the claim any more.
Unrenewed == \A s \in Socket : beat[s] # "off" => at[s] # doc.host

\* Tasks run, the engine dials, closed sockets are noticed, what nobody renews
\* lapses, and a delivered frame is acked in the end.
FairSpec ==
    /\ Spec
    /\ WF_vars(\E s \in Socket, i \in Instance : Dial(s, i))
    /\ \A s \in Socket : WF_vars(HostStep(s)) /\ WF_vars(BeatCommit(s))
    /\ WF_vars(Lapse /\ Unrenewed)
    /\ \A i \in Instance : SF_vars(Deliver(i) /\ bus'[i] # bus[i])

-----------------------------------------------------------------------------
(* Properties *)

\* One host per session across instances: two instances host it at once only
\* after a claim has lapsed under a host that had not let go of it, whatever
\* heartbeats, drops and crashes race the register transactions.
SingleHost ==
    ~outran => \A i, j \in Instance : room[i] # NoSocket /\ room[j] # NoSocket => i = j

\* A leftover claim of a host that is gone, crashed or failed half-way keeps the
\* engine out for a while only: after the last fault the engine is hosted.
EngineReturns == <>[](engine # NoSocket /\ room[at[engine]] = engine)

\* A client that left is forgotten by the engine, which runs a subscription for
\* each client it knows, wherever and however the client was attached.  (Of one
\* whose instance crashed the engine is never told.)
GoneIsForgotten ==
    \A c \in Client : client[c].stage = "closed" /\ client[c].at \in up
                        ~> \A i \in Instance : c \notin known[i]

\* darkrun-tunnel, serve_once: "clients re-attach (with fresh snapshots) on
\* reconnect"; so whoever stays attached over the bus is told to a host, or closed.
AttachedIsServed ==
    \A c \in Client : client[c].stage = "remote"
                        ~> (client[c].stage = "closed" \/ \E i \in Instance : c \in known[i])

\* relay.rs, attach_client: a client attached here has its host here, which the
\* document it was authorized by says.
LocalIsTheClaimed ==
    \A c \in Client : client[c].stage = "local" => client[c].to = client[c].at
=============================================================================
