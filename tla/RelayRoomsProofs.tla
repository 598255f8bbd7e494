-------------------------- MODULE RelayRoomsProofs --------------------------
(***************************************************************************)
(* One host per session across relay instances, for every set of instances *)
(* and sockets, every interleaving of register, heartbeat and drop         *)
(* transactions and every crash, as long as no claim lapses under its host.*)
(***************************************************************************)
EXTENDS RelayRooms, TLAPS

\* A task at work has an instance, and so has a live claim.
Placed ==
    /\ \A s \in Socket : stage[s] # "idle" \/ beat[s] # "off" => at[s] \in Instance
    /\ doc.live => doc.host \in Instance

\* A local entry belongs to a socket that is served there.
RoomsServed ==
    \A i \in Instance : room[i] # NoSocket => stage[room[i]] = "serving" /\ at[room[i]] = i

\* What a transaction read still holds as long as nothing has outdated it: a
\* register found no live claim, a heartbeat found its own or none.
FreshReads ==
    \A s \in Socket :
        /\ stage[s] = "claim" /\ <<s, "task">> \notin stale => ~doc.live
        /\ beat[s] \in {"commit", "orphan"} /\ <<s, "beat">> \notin stale
             => doc.host \in {at[s], NoInstance}

\* Why the session has one host: from the commit of its claim to the deletion
\* of it a socket has the document to itself, and so it is the only one.
OneClaim ==
    ~outran => \A s \in Claimants : doc = Claim(at[s]) /\ \A t \in Claimants : t = s

Rules == Placed /\ RoomsServed /\ FreshReads /\ OneClaim

IInv == TypeOK /\ Rules

LEMMA InitIInv == Init => IInv
<1> SUFFICES ASSUME Init PROVE IInv
  OBVIOUS
<1>1. doc \in Docs /\ ~doc.live
  BY DEF Init, Absent, Docs
<1>2. bus \in [Instance -> Seq(Frames)] /\ client \in [Client -> ClientStates]
  BY DEF Init, ClientStates
<1>3. TypeOK
  <2>1. stage \in [Socket -> Stages] /\ beat \in [Socket -> Beats]
    BY DEF Init, Stages, Beats
  <2>2. known \in [Instance -> SUBSET Client] /\ stale \subseteq Txn
    BY DEF Init
  <2>3. at \in [Socket -> Instance \cup {NoInstance}]
    BY DEF Init
  <2>4. faults \in 0..MaxFaults
    BY RoomAssumption DEF Init
  <2>5. QED
    BY <1>1, <1>2, <2>1, <2>2, <2>3, <2>4 DEF Init, TypeOK
<1>4. Placed /\ RoomsServed /\ FreshReads
  BY <1>1, RoomAssumption DEF Init, Placed, RoomsServed, FreshReads
<1>5. OneClaim
  BY DEF Init, OneClaim, Claimants
<1>6. QED
  BY <1>3, <1>4, <1>5 DEF IInv, Rules

\* A client that is past its lookup stays typed in every stage.
LEMMA Restaged ==
  ASSUME TypeOK, NEW c \in Client, client[c] # NewClient,
         NEW to \in {"look", "sink", "local", "remote", "closed"}
  PROVE  [client[c] EXCEPT !.stage = to] \in ClientStates
<1>1. client[c] \in [stage : {"look", "sink", "local", "remote", "closed"},
                     at : Instance, to : Instance]
  BY DEF TypeOK, ClientStates
<1>2. QED
  BY <1>1 DEF ClientStates

\* What a client or the bus does leaves the hosts' rules alone.
LEMMA GuestIInv ==
  ASSUME IInv, UNCHANGED <<registry, hosts, up, faults>>,
         client' \in [Client -> ClientStates],
         known' \in [Instance -> SUBSET Client],
         bus' \in [Instance -> Seq(Frames)]
  PROVE  IInv'
<1> USE DEF IInv, registry, hosts
<1>1. TypeOK'
  BY DEF TypeOK
<1>2. Placed' /\ RoomsServed' /\ FreshReads'
  BY DEF Rules, Placed, RoomsServed, FreshReads
<1>3. OneClaim'
  BY DEF Rules, OneClaim, Claimants
<1>4. QED
  BY <1>1, <1>2, <1>3 DEF Rules

\* A claim in the document is the claim of every claimant.
LEMMA ClaimIsLive ==
  ASSUME IInv, ~outran, NEW s \in Claimants
  PROVE  doc.live /\ doc.host = at[s] /\ at[s] \in Instance
  BY DEF IInv, TypeOK, Rules, Placed, OneClaim, Claimants, Claim

\* The clock and the store's collection.
LEMMA LapseIInv == IInv /\ Lapse => IInv'
<1> SUFFICES ASSUME IInv, Lapse PROVE IInv'
  OBVIOUS
<1> USE DEF IInv, hosts, guests
<1>1. doc.live /\ doc' = [doc EXCEPT !.live = FALSE] /\ doc'.live = FALSE /\ doc'.host = doc.host
  BY DEF Lapse, TypeOK, Docs
<1>2. TypeOK'
  BY <1>1 DEF Lapse, TypeOK, Docs
<1>3. Placed' /\ RoomsServed' /\ FreshReads'
  BY <1>1 DEF Lapse, Rules, Placed, RoomsServed, FreshReads
<1>4. ~outran' => Claimants = {}
  <2>1. SUFFICES ASSUME ~outran', NEW s \in Claimants PROVE FALSE
    OBVIOUS
  <2>2. at[s] # doc.host /\ ~outran
    BY <2>1 DEF Lapse
  <2>3. QED
    BY <2>1, <2>2, ClaimIsLive
<1>5. OneClaim'
  BY <1>4 DEF Lapse, OneClaim, Claimants
<1>6. QED
  BY <1>2, <1>3, <1>5 DEF Rules

LEMMA CollectIInv == IInv /\ Collect => IInv'
<1> SUFFICES ASSUME IInv, Collect PROVE IInv'
  OBVIOUS
<1> USE DEF IInv, hosts, guests
<1>1. TypeOK'
  BY RoomAssumption DEF Collect, TypeOK, Docs, Absent
<1>2. Placed' /\ RoomsServed' /\ FreshReads'
  BY DEF Collect, Rules, Placed, RoomsServed, FreshReads, Absent, Txn
<1>3. ~outran => Claimants = {}
  BY ClaimIsLive DEF Collect
<1>4. OneClaim'
  BY <1>3 DEF Collect, OneClaim, Claimants
<1>5. QED
  BY <1>1, <1>2, <1>4 DEF Rules

\* The register transaction and the local entry.
LEMMA ClaimReadIInv == ASSUME IInv, NEW s \in Socket, ClaimRead(s) PROVE IInv'
<1> USE DEF IInv, guests
<1>1. TypeOK'
  BY DEF ClaimRead, Ends, Begins, TypeOK, Stages
<1>2. Placed'
  BY DEF ClaimRead, Ends, Rules, Placed, TypeOK
<1>3. RoomsServed'
  BY DEF ClaimRead, Ends, Rules, RoomsServed, TypeOK
<1>4. FreshReads'
  BY DEF ClaimRead, Ends, Begins, Rules, FreshReads, TypeOK
<1>5. Claimants' = Claimants
  BY DEF ClaimRead, Ends, Claimants, TypeOK
<1>6. OneClaim'
  BY <1>5 DEF ClaimRead, Rules, OneClaim
<1>7. QED
  BY <1>1, <1>2, <1>3, <1>4, <1>6 DEF Rules

LEMMA ClaimCommitIInv == ASSUME IInv, NEW s \in Socket, ClaimCommit(s) PROVE IInv'
<1> USE DEF IInv, guests
<1>0. stage[s] = "claim" /\ at[s] \in Instance
  BY DEF ClaimCommit, Rules, Placed
<1>1. CASE Commits(<<s, "task">>, Claim(at[s])) /\ stage' = [stage EXCEPT ![s] = "won"]
  <2>1. doc' = Claim(at[s]) /\ stale' = Txn /\ ~doc.live
    BY <1>0, <1>1 DEF Commits, Rules, FreshReads
  <2>2. TypeOK'
    BY <1>0, <1>1, <2>1 DEF ClaimCommit, TypeOK, Docs, Claim, Stages
  <2>3. Placed' /\ RoomsServed' /\ FreshReads'
    BY <1>0, <1>1, <2>1 DEF ClaimCommit, Rules, Placed, RoomsServed, FreshReads, Claim, Txn, TypeOK
  <2>4. ~outran => Claimants = {}
    BY <2>1, ClaimIsLive
  <2>5. ~outran => Claimants' = {s}
    BY <1>1, <2>4 DEF Claimants, TypeOK
  <2>6. OneClaim'
    BY <2>1, <2>5 DEF ClaimCommit, OneClaim
  <2>7. QED
    BY <2>2, <2>3, <2>6 DEF Rules
<1>2. CASE stage' = [stage EXCEPT ![s] = "dialled"] /\ UNCHANGED <<doc, stale>>
  <2>1. TypeOK'
    BY <1>2 DEF ClaimCommit, TypeOK, Stages
  <2>2. Placed' /\ RoomsServed' /\ FreshReads'
    BY <1>0, <1>2 DEF ClaimCommit, Rules, Placed, RoomsServed, FreshReads, TypeOK
  <2>3. Claimants' = Claimants
    BY <1>0, <1>2 DEF Claimants, TypeOK
  <2>4. OneClaim'
    BY <1>2, <2>3 DEF ClaimCommit, Rules, OneClaim
  <2>5. QED
    BY <2>1, <2>2, <2>4 DEF Rules
<1>3. QED
  BY <1>1, <1>2 DEF ClaimCommit

LEMMA EnterIInv == ASSUME IInv, NEW s \in Socket, Enter(s) PROVE IInv'
<1> USE DEF IInv, guests, registry
<1>0. stage[s] = "won" /\ at[s] \in Instance
  BY DEF Enter, Rules, Placed
<1>1. TypeOK'
  BY <1>0 DEF Enter, TypeOK, Stages, Beats
<1>2. Placed'
  BY <1>0 DEF Enter, Rules, Placed, TypeOK
<1>3. RoomsServed'
  <2>1. CASE room[at[s]] = NoSocket
    <3>1. /\ room' = [room EXCEPT ![at[s]] = s]
          /\ stage' = [stage EXCEPT ![s] = "serving"] /\ at' = at
      BY <2>1 DEF Enter
    <3>2. \A i \in Instance : room[i] # s
      BY <1>0, RoomAssumption DEF Rules, RoomsServed
    <3>3. QED
      BY <1>0, <3>1, <3>2, RoomAssumption DEF Rules, RoomsServed, TypeOK
  <2>2. CASE room[at[s]] # NoSocket
    <3>1. UNCHANGED <<room, at>> /\ stage' = [stage EXCEPT ![s] = "undo"]
      BY <2>2 DEF Enter
    <3>2. QED
      BY <1>0, <3>1 DEF Rules, RoomsServed, TypeOK
  <2>3. QED
    BY <2>1, <2>2
<1>4. FreshReads'
  BY <1>0 DEF Enter, Rules, FreshReads, TypeOK
<1>5. Claimants' = Claimants
  BY <1>0 DEF Enter, Claimants, TypeOK
<1>6. OneClaim'
  BY <1>5 DEF Enter, Rules, OneClaim
<1>7. QED
  BY <1>1, <1>2, <1>3, <1>4, <1>6 DEF Rules

\* The heartbeat.
LEMMA BeatReadIInv == ASSUME IInv, NEW s \in Socket, BeatRead(s) PROVE IInv'
<1> USE DEF IInv, guests
<1>1. TypeOK'
  BY DEF BeatRead, Begins, TypeOK, Beats
<1>2. Placed' /\ RoomsServed'
  BY DEF BeatRead, Rules, Placed, RoomsServed, TypeOK
<1>3. FreshReads'
  BY DEF BeatRead, Begins, Rules, FreshReads, TypeOK
<1>4. OneClaim'
  BY DEF BeatRead, Rules, OneClaim, Claimants
<1>5. QED
  BY <1>1, <1>2, <1>3, <1>4 DEF Rules

LEMMA BeatCommitIInv == ASSUME IInv, NEW s \in Socket, BeatCommit(s) PROVE IInv'
<1> USE DEF IInv, guests
<1>0. beat[s] \in {"commit", "orphan"} /\ at[s] \in Instance
  BY DEF BeatCommit, Rules, Placed
<1>1. CASE Commits(<<s, "beat">>, Claim(at[s]))
  <2>1. doc' = Claim(at[s]) /\ stale' = Txn /\ doc.host \in {at[s], NoInstance}
    BY <1>0, <1>1 DEF Commits, Rules, FreshReads
  <2>2. TypeOK'
    BY <1>0, <2>1 DEF BeatCommit, TypeOK, Docs, Claim, Beats
  <2>3. Placed' /\ RoomsServed' /\ FreshReads'
    BY <1>0, <2>1 DEF BeatCommit, Rules, Placed, RoomsServed, FreshReads, Claim, Txn, TypeOK
  <2>4. ASSUME ~outran, NEW t \in Claimants PROVE at[t] = at[s]
    BY <2>1, <2>4, ClaimIsLive, RoomAssumption
  <2>5. OneClaim'
    BY <2>1, <2>4 DEF BeatCommit, Rules, OneClaim, Claimants
  <2>6. QED
    BY <2>2, <2>3, <2>5 DEF Rules
<1>2. CASE UNCHANGED <<doc, stale>>
  <2>1. TypeOK'
    BY <1>2 DEF BeatCommit, TypeOK, Beats
  <2>2. Placed' /\ RoomsServed' /\ FreshReads'
    BY <1>0, <1>2 DEF BeatCommit, Rules, Placed, RoomsServed, FreshReads, TypeOK
  <2>3. OneClaim'
    BY <1>2 DEF BeatCommit, Rules, OneClaim, Claimants
  <2>4. QED
    BY <2>1, <2>2, <2>3 DEF Rules
<1>3. QED
  BY <1>1, <1>2 DEF BeatCommit

\* The drop, and what ends a task.
LEMMA LeaveIInv == ASSUME IInv, NEW s \in Socket, Leave(s) PROVE IInv'
<1> USE DEF IInv, registry
<1>0. stage[s] = "serving" /\ at[s] \in Instance
  BY DEF Leave, Rules, Placed
<1>1. /\ room' = [room EXCEPT ![at[s]] = NoSocket]
      /\ stage' = [stage EXCEPT ![s] = "drop"]
      /\ UNCHANGED <<doc, stale, outran, at, engine, bus, up, faults>>
  BY DEF Leave
<1>2. beat' = [beat EXCEPT ![s] = Aborted(@)]
  BY DEF Leave
<1>3. known' \in [Instance -> SUBSET Client]
  <2>1. known' = [known EXCEPT ![at[s]] = {}]
    BY DEF Leave, Empties
  <2>2. QED
    BY <2>1 DEF TypeOK
<1>4. client' \in [Client -> ClientStates]
  <2>1. ASSUME NEW c \in Client, client[c].stage = "local"
        PROVE  [client[c] EXCEPT !.stage = "closed"] \in ClientStates
    <3>1. client[c] # NewClient
      BY <2>1 DEF NewClient
    <3>2. TypeOK
      OBVIOUS
    <3>3. QED
      BY <3>1, <3>2, Restaged
  <2>2. QED
    BY <2>1 DEF Leave, Empties, TypeOK
<1>5. TypeOK'
  BY <1>0, <1>1, <1>2, <1>3, <1>4 DEF TypeOK, Stages, Beats, Aborted
<1>6. Placed'
  BY <1>0, <1>1, <1>2 DEF Rules, Placed, TypeOK, Aborted
<1>7. RoomsServed'
  BY <1>0, <1>1, RoomAssumption DEF Rules, RoomsServed, TypeOK
<1>8. FreshReads'
  BY <1>0, <1>1, <1>2 DEF Rules, FreshReads, TypeOK, Aborted
<1>9. Claimants' = Claimants
  BY <1>0, <1>1 DEF Claimants, TypeOK
<1>10. OneClaim'
  BY <1>1, <1>9 DEF Rules, OneClaim
<1>11. QED
  BY <1>5, <1>6, <1>7, <1>8, <1>10 DEF Rules

\* A task that is neither serving nor idle may end.
LEMMA EndsIInv ==
  ASSUME IInv, NEW s \in Socket, Ends(s), stage[s] # "serving", faults' \in 0..MaxFaults,
         UNCHANGED <<registry, room, at, beat, guests, up>>
  PROVE  IInv'
<1> USE DEF IInv, registry, guests
<1>1. TypeOK'
  BY DEF Ends, TypeOK, Stages
<1>2. Placed' /\ RoomsServed' /\ FreshReads'
  BY DEF Ends, Rules, Placed, RoomsServed, FreshReads, TypeOK
<1>3. Claimants' \subseteq Claimants
  BY DEF Ends, Claimants, TypeOK
<1>4. OneClaim'
  BY <1>3 DEF Rules, OneClaim
<1>5. QED
  BY <1>1, <1>2, <1>4 DEF Rules

LEMMA DropReadIInv == ASSUME IInv, NEW s \in Socket, DropRead(s) PROVE IInv'
<1>0. stage[s] \in {"undo", "drop"}
  BY DEF DropRead
<1>1. CASE doc.host = at[s]
  <2> USE DEF IInv, guests
  <2>1. TypeOK'
    BY <1>1 DEF DropRead, Begins, TypeOK, Stages
  <2>2. Placed' /\ RoomsServed'
    BY <1>0, <1>1 DEF DropRead, Rules, Placed, RoomsServed, TypeOK
  <2>3. FreshReads'
    BY <1>0, <1>1 DEF DropRead, Begins, Rules, FreshReads, TypeOK
  <2>4. Claimants' = Claimants
    BY <1>0, <1>1 DEF DropRead, Claimants, TypeOK
  <2>5. OneClaim'
    BY <2>4 DEF DropRead, Rules, OneClaim
  <2>6. QED
    BY <2>1, <2>2, <2>3, <2>5 DEF Rules
<1>2. CASE doc.host # at[s]
  <2>1. Ends(s) /\ UNCHANGED <<registry, room, at, beat, guests, up, faults>>
    BY <1>2 DEF DropRead, registry
  <2>2. faults' \in 0..MaxFaults
    BY <2>1 DEF IInv, TypeOK
  <2>3. QED
    BY <1>0, <2>1, <2>2, EndsIInv
<1>3. QED
  BY <1>1, <1>2

LEMMA DropCommitIInv == ASSUME IInv, NEW s \in Socket, DropCommit(s) PROVE IInv'
<1> USE DEF IInv, guests
<1>0. stage[s] = "dropping"
  BY DEF DropCommit
<1>1. CASE Commits(<<s, "task">>, Absent) /\ Ends(s)
  <2>1. doc' = Absent /\ stale' = Txn /\ stage' = [stage EXCEPT ![s] = "idle"]
    BY <1>1 DEF Commits, Ends
  <2>2. TypeOK'
    BY <1>1, <2>1 DEF DropCommit, Ends, TypeOK, Docs, Absent, Stages
  <2>3. Placed' /\ RoomsServed' /\ FreshReads'
    BY <1>0, <2>1 DEF DropCommit, Rules, Placed, RoomsServed, FreshReads, Absent, Txn, TypeOK
  <2>4. s \in Claimants /\ Claimants' = Claimants \ {s}
    BY <1>0, <2>1 DEF Claimants, TypeOK
  <2>5. ~outran => Claimants' = {}
    BY <2>4 DEF Rules, OneClaim
  <2>6. OneClaim'
    BY <2>5 DEF DropCommit, OneClaim
  <2>7. QED
    BY <2>2, <2>3, <2>6 DEF Rules
<1>2. CASE stage' = [stage EXCEPT ![s] = "drop"] /\ UNCHANGED <<doc, stale, engine>>
  <2>1. TypeOK'
    BY <1>2 DEF DropCommit, TypeOK, Stages
  <2>2. Placed' /\ RoomsServed' /\ FreshReads'
    BY <1>0, <1>2 DEF DropCommit, Rules, Placed, RoomsServed, FreshReads, TypeOK
  <2>3. Claimants' = Claimants
    BY <1>0, <1>2 DEF Claimants, TypeOK
  <2>4. OneClaim'
    BY <1>2, <2>3 DEF DropCommit, Rules, OneClaim
  <2>5. QED
    BY <2>1, <2>2, <2>4 DEF Rules
<1>3. QED
  BY <1>1, <1>2 DEF DropCommit

LEMMA FaultTyped == IInv /\ Fault => faults' \in 0..MaxFaults
  BY RoomAssumption DEF IInv, TypeOK, Fault

LEMMA GiveUpIInv == ASSUME IInv, NEW s \in Socket, GiveUp(s) PROVE IInv'
  BY FaultTyped, EndsIInv DEF GiveUp

\* An instance dies.
LEMMA CrashIInv == ASSUME IInv, NEW i \in Instance, Crash(i) PROVE IInv'
<1> USE DEF IInv, registry
<1>1. /\ room' = [room EXCEPT ![i] = NoSocket]
      /\ stage' = [s \in Socket |-> IF at[s] = i THEN "idle" ELSE stage[s]]
      /\ beat' = [s \in Socket |-> IF at[s] = i THEN Aborted(beat[s]) ELSE beat[s]]
      /\ UNCHANGED <<doc, stale, outran, at, bus>>
  BY DEF Crash
<1>2. TypeOK'
  <2>1. client' \in [Client -> ClientStates]
    <3>1. ASSUME NEW c \in Client, client[c].at = i
          PROVE  [client[c] EXCEPT !.stage = "closed"] \in ClientStates
      <4>1. client[c] # NewClient
        BY <3>1, RoomAssumption DEF NewClient
      <4>2. QED
        BY <4>1, Restaged
    <3>2. QED
      BY <3>1 DEF Crash, TypeOK
  <2>2. faults' \in 0..MaxFaults
    BY FaultTyped DEF Crash
  <2>3. engine' \in Socket \cup {NoSocket} /\ up' \subseteq Instance
    BY DEF Crash, TypeOK
  <2>4. known' \in [Instance -> SUBSET Client]
    BY DEF Crash, TypeOK
  <2>5. stage' \in [Socket -> Stages] /\ beat' \in [Socket -> Beats]
    BY <1>1 DEF TypeOK, Stages, Beats, Aborted
  <2>6. QED
    BY <1>1, <2>1, <2>2, <2>3, <2>4, <2>5 DEF TypeOK
<1>3. Placed'
  BY <1>1 DEF Rules, Placed, TypeOK, Aborted
<1>4. RoomsServed'
  BY <1>1, RoomAssumption DEF Rules, RoomsServed, TypeOK
<1>5. FreshReads'
  BY <1>1 DEF Rules, FreshReads, TypeOK, Aborted
<1>6. Claimants' \subseteq Claimants
  BY <1>1 DEF Claimants, TypeOK
<1>7. OneClaim'
  BY <1>1, <1>6 DEF Rules, OneClaim
<1>8. QED
  BY <1>2, <1>3, <1>4, <1>5, <1>7 DEF Rules

\* The engine.
LEMMA BreakIInv == IInv /\ Break => IInv'
<1> SUFFICES ASSUME IInv, Break PROVE IInv'
  OBVIOUS
<1> USE DEF IInv, registry, guests
<1>1. TypeOK'
  BY FaultTyped DEF Break, TypeOK
<1>2. Placed' /\ RoomsServed' /\ FreshReads'
  BY DEF Break, Rules, Placed, RoomsServed, FreshReads
<1>3. OneClaim'
  BY DEF Break, Rules, OneClaim, Claimants
<1>4. QED
  BY <1>1, <1>2, <1>3 DEF Rules

LEMMA DialIInv ==
  ASSUME IInv, NEW s \in Socket, NEW i \in Instance, Dial(s, i)
  PROVE  IInv'
<1> USE DEF IInv, registry, guests
<1>1. /\ stage[s] = "idle" /\ beat[s] = "off"
      /\ stage' = [stage EXCEPT ![s] = "dialled"]
      /\ at' = [at EXCEPT ![s] = i]
      /\ UNCHANGED <<registry, room, beat>>
  BY DEF Dial
<1>2. TypeOK'
  BY <1>1 DEF Dial, TypeOK, Stages
<1>3. Placed' /\ RoomsServed' /\ FreshReads'
  BY <1>1 DEF Rules, Placed, RoomsServed, FreshReads, TypeOK
<1>4. Claimants' = Claimants /\ \A t \in Claimants : at'[t] = at[t]
  BY <1>1 DEF Claimants, TypeOK
<1>5. OneClaim'
  BY <1>1, <1>4 DEF Rules, OneClaim, Claim
<1>6. QED
  BY <1>2, <1>3, <1>5 DEF Rules

\* The clients and the bus.
LEMMA LookIInv ==
  ASSUME IInv, NEW c \in Client, NEW i \in Instance, Look(c, i)
  PROVE  IInv'
<1>1. doc.host \in Instance
  BY DEF Look, IInv, Rules, Placed
<1>2. client' \in [Client -> ClientStates]
  BY <1>1 DEF Look, IInv, TypeOK, ClientStates
<1>3. QED
  BY <1>2, GuestIInv DEF Look, IInv, TypeOK

LEMMA AttachIInv == ASSUME IInv, NEW c \in Client, Attach(c) PROVE IInv'
<1>1. client[c] # NewClient /\ TypeOK
  BY DEF Attach, IInv, NewClient
<1>2. client[c].at \in Instance
  BY <1>1 DEF TypeOK, ClientStates
<1>3. client' \in [Client -> ClientStates]
  <2>1. NewClient \in ClientStates
    BY DEF ClientStates
  <2>2. /\ [client[c] EXCEPT !.stage = "local"] \in ClientStates
        /\ [client[c] EXCEPT !.stage = "sink"] \in ClientStates
    BY <1>1, Restaged
  <2>3. QED
    BY <1>1, <2>1, <2>2 DEF Attach, TypeOK
<1>4. known' \in [Instance -> SUBSET Client]
  BY <1>1, <1>2 DEF Attach, TypeOK
<1>5. QED
  BY <1>1, <1>3, <1>4, GuestIInv DEF Attach, TypeOK

LEMMA Appended ==
  ASSUME TypeOK, NEW i, NEW event \in {"Join", "Leave"}, NEW c \in Client
  PROVE  [bus EXCEPT ![i] = Append(@, [event |-> event, of |-> c])]
           \in [Instance -> Seq(Frames)]
<1>1. [event |-> event, of |-> c] \in Frames
  BY DEF Frames
<1>2. i \in Instance => Append(bus[i], [event |-> event, of |-> c]) \in Seq(Frames)
  BY <1>1 DEF TypeOK
<1>3. QED
  BY <1>2 DEF TypeOK

LEMMA JoinIInv == ASSUME IInv, NEW c \in Client, Join(c) PROVE IInv'
<1>1. client[c] # NewClient /\ TypeOK
  BY DEF Join, IInv, NewClient
<1>2. client' \in [Client -> ClientStates]
  BY <1>1, Restaged DEF Join, TypeOK
<1>3. bus' \in [Instance -> Seq(Frames)]
  <2>1. bus' = [bus EXCEPT ![client[c].to] = Append(@, [event |-> "Join", of |-> c])]
    BY DEF Join, Publishes
  <2>2. QED
    BY <1>1, <2>1, Appended
<1>4. QED
  BY <1>1, <1>2, <1>3, GuestIInv DEF Join, TypeOK

LEMMA DetachIInv == ASSUME IInv, NEW c \in Client, Detach(c) PROVE IInv'
<1>1. client[c] # NewClient /\ TypeOK
  BY DEF Detach, IInv, NewClient
<1>2. client' \in [Client -> ClientStates]
  BY <1>1, Restaged DEF Detach, TypeOK
<1>3. known' \in [Instance -> SUBSET Client]
  <2>1. known' = [known EXCEPT ![client[c].at] = @ \ {c}] \/ known' = known
    BY DEF Detach
  <2>2. QED
    BY <1>1, <2>1 DEF TypeOK
<1>4. bus' \in [Instance -> Seq(Frames)]
  <2>1. CASE bus' = bus
    BY <1>1, <2>1 DEF TypeOK
  <2>2. CASE bus' = [bus EXCEPT ![client[c].to] = Append(@, [event |-> "Leave", of |-> c])]
    BY <1>1, <2>2, Appended
  <2>3. QED
    BY <2>1, <2>2 DEF Detach, Publishes
<1>5. QED
  BY <1>2, <1>3, <1>4, GuestIInv DEF Detach

LEMMA DeliverIInv == ASSUME IInv, NEW i \in Instance, Deliver(i) PROVE IInv'
<1>1. TypeOK /\ bus[i] \in Seq(Frames) /\ bus[i] # <<>>
  BY DEF Deliver, IInv, TypeOK
<1>2. Head(bus[i]) \in Frames /\ Tail(bus[i]) \in Seq(Frames)
  BY <1>1
<1>3. bus' \in [Instance -> Seq(Frames)]
  BY <1>1, <1>2 DEF Deliver, TypeOK
<1>4. known' \in [Instance -> SUBSET Client]
  <2>1. \E k \in SUBSET Client : known' = [known EXCEPT ![i] = k]
    BY <1>1, <1>2 DEF Deliver, TypeOK, Frames
  <2>2. QED
    BY <1>1, <2>1 DEF TypeOK
<1>5. QED
  BY <1>1, <1>3, <1>4, GuestIInv DEF Deliver, TypeOK

LEMMA StepIInv == IInv /\ [Next]_vars => IInv'
<1> SUFFICES ASSUME IInv, [Next]_vars PROVE IInv'
  OBVIOUS
<1>1. CASE UNCHANGED vars
  BY <1>1, GuestIInv DEF vars, guests, IInv, TypeOK
<1>2. CASE Lapse \/ Collect \/ Break
  BY <1>2, LapseIInv, CollectIInv, BreakIInv
<1>3. ASSUME NEW s \in Socket, HostStep(s) PROVE IInv'
  BY <1>3, ClaimReadIInv, ClaimCommitIInv, EnterIInv, LeaveIInv, DropReadIInv, DropCommitIInv
     DEF HostStep
<1>4. ASSUME NEW s \in Socket, BeatRead(s) \/ BeatCommit(s) \/ GiveUp(s) PROVE IInv'
  BY <1>4, BeatReadIInv, BeatCommitIInv, GiveUpIInv
<1>5. ASSUME NEW s \in Socket, NEW i \in Instance, Dial(s, i) PROVE IInv'
  BY <1>5, DialIInv
<1>6. ASSUME NEW i \in Instance, Crash(i) \/ Deliver(i) PROVE IInv'
  BY <1>6, CrashIInv, DeliverIInv
<1>7. ASSUME NEW c \in Client, GuestStep(c) PROVE IInv'
  BY <1>7, LookIInv, AttachIInv, JoinIInv, DetachIInv DEF GuestStep
<1>8. QED
  BY <1>1, <1>2, <1>3, <1>4, <1>5, <1>6, <1>7 DEF Next

LEMMA AlwaysIInv == Spec => []IInv
  BY InitIInv, StepIInv, PTL DEF Spec

\* Every state of the relay is well formed, whatever the faults.
THEOREM RelayTyped == Spec => []TypeOK
<1>1. IInv => TypeOK
  BY DEF IInv
<1>2. QED
  BY <1>1, AlwaysIInv, PTL

\* register_txn and the drop and heartbeat transactions around it let one
\* instance host the session, as long as no claim lapsed under its host.
THEOREM OneHost == Spec => []SingleHost
<1>1. IInv => SingleHost
  <2>1. SUFFICES ASSUME IInv, ~outran, NEW i \in Instance, NEW j \in Instance,
                        room[i] # NoSocket, room[j] # NoSocket
                 PROVE  i = j
    BY DEF SingleHost
  <2>2. room[i] \in Claimants /\ room[j] \in Claimants /\ at[room[i]] = i /\ at[room[j]] = j
    BY <2>1 DEF IInv, Rules, RoomsServed, Claimants, TypeOK
  <2>3. QED
    BY <2>1, <2>2 DEF IInv, Rules, OneClaim
<1>2. QED
  BY <1>1, AlwaysIInv, PTL
=============================================================================
