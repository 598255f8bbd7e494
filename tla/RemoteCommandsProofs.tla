------------------------ MODULE RemoteCommandsProofs ------------------------
(***************************************************************************)
(* A remote command is executed at most once and its verdict is the truth, *)
(* for any number of commands, attempts and reconnects and any behaviour   *)
(* of the relay, as long as the dedup cache has room for the commands and  *)
(* the connector is not started anew.                                      *)
(***************************************************************************)
EXTENDS RemoteCommands, FiniteSetTheorems, SequenceTheorems, TLAPS

\* The cache has room for every command of the session.
Roomy == IsFiniteSet(Cmd) /\ Cardinality(Cmd) <= Capacity

\* Nobody has an answer to the command.
Untouched(c) == heard[c] = "none" /\ \A a \in toClient : a.cmd # c

\* What has run was issued before, and so was what is under way.
Issued ==
    \A c \in Cmd :
        attempts[c] = 0 => runs[c] = 0 /\ c \notin pending /\ \A m \in toHost : m.cmd # c

\* Nothing knows of a command that has not run.
Unrun ==
    \A c \in Cmd :
        runs[c] = 0 => /\ verdict[c] = "absent" /\ effects[c] = 0 /\ Untouched(c)
                       /\ \A t \in tasks : t.cmd # c

\* What a reply says of the effects it comes with.
Fits(reply, n) == n <= 1 /\ (reply = "none" => n = 0) /\ (reply = "ok" => n = 1)

\* A command at work is in flight in the cache, alone, and nobody has its answer.
Working ==
    /\ \A t \in tasks : /\ t.mine /\ verdict[t.cmd] = "InFlight" /\ Known(t.cmd)
                        /\ Fits(t.reply, effects[t.cmd]) /\ Untouched(t.cmd)
    /\ \A t, u \in tasks : t.cmd = u.cmd => t = u

\* An answer to the command: cached, under way or read.
Says(c, v) ==
    \/ verdict[c] = v
    \/ heard[c] = v
    \/ \E a \in toClient : a.cmd = c /\ Verdict(a.ok) = v

\* The answers to a command agree, and a success was carried out.
Answers ==
    \A c \in Cmd : ~(Says(c, "ok") /\ Says(c, "err")) /\ (Says(c, "ok") => effects[c] = 1)

\* What is shown as applied was read in an ack.
Shown == outcome = "applied" => about \in Cmd /\ heard[about] = "ok"

\* What the cache has forgotten is asked for by nobody.
Forgotten ==
    \A c \in Cmd : runs[c] # 0 /\ ~Known(c) => c \notin pending /\ \A m \in toHost : m.cmd # c

Rules == Issued /\ Unrun /\ Working /\ Answers /\ Shown /\ Forgotten

\* A client that still dials has dials left.
Dialling == socket # "offline" => reconnects < MaxReconnects

IInv == TypeOK /\ AtMostOnce /\ Dialling /\ Rules

LEMMA InitIInv == Init => IInv
<1> SUFFICES ASSUME Init PROVE IInv
  OBVIOUS
<1> USE DEF Init
<1>1. order \in Seq(Cmd) /\ Len(order) = 0 /\ DOMAIN order = {}
  OBVIOUS
<1>2. TypeOK
  <2>1. attempts \in [Cmd -> 0..MaxAttempts] /\ reconnects \in 0..MaxReconnects
    BY LimitsAssumption
  <2>2. runs \in [Cmd -> 0..MaxRuns] /\ effects \in [Cmd -> 0..MaxRuns]
    BY LimitsAssumption
  <2>3. Cached = {} /\ aged \in 0..Len(order) /\ Len(order) <= Capacity
    BY <1>1, LimitsAssumption DEF Cached, KeysOf
  <2>4. QED
    BY <1>1, <2>1, <2>2, <2>3, IdsAssumption DEF TypeOK
<1>3. AtMostOnce /\ Dialling
  BY LimitsAssumption DEF AtMostOnce, Dialling
<1>4. Issued /\ Unrun /\ Working /\ Forgotten
  BY DEF Issued, Unrun, Working, Forgotten, Untouched
<1>5. Answers /\ Shown
  BY DEF Answers, Shown, Says
<1>6. QED
  BY <1>2, <1>3, <1>4, <1>5 DEF IInv, Rules

-----------------------------------------------------------------------------
(* Frames, tasks and the queue of the cache *)

LEMMA StaleTasks ==
  ASSUME TypeOK
  PROVE  /\ Stale(tasks) \subseteq Tasks
         /\ \A u \in Stale(tasks) :
              \E t \in tasks : u.cmd = t.cmd /\ u.mine = t.mine /\ u.reply = t.reply
                               /\ u = [t EXCEPT !.fresh = FALSE]
<1> SUFFICES ASSUME NEW t \in tasks
             PROVE  LET u == [t EXCEPT !.fresh = FALSE]
                    IN  u \in Tasks /\ u.cmd = t.cmd /\ u.mine = t.mine /\ u.reply = t.reply
  BY DEF Stale
<1> QED
  BY DEF TypeOK, Tasks

LEMMA StaleFrames ==
  ASSUME TypeOK
  PROVE  /\ Stale(toHost) \subseteq Frames
         /\ \A m \in Stale(toHost) : \E n \in toHost : m.cmd = n.cmd
<1> SUFFICES ASSUME NEW n \in toHost
             PROVE  LET m == [n EXCEPT !.fresh = FALSE] IN m \in Frames /\ m.cmd = n.cmd
  BY DEF Stale
<1> QED
  BY DEF TypeOK, Frames

LEMMA FrameOf ==
  ASSUME NEW c \in Cmd, NEW b \in BOOLEAN
  PROVE  [cmd |-> c, fresh |-> b] \in Frames /\ [cmd |-> c, fresh |-> b].cmd = c
  BY DEF Frames

LEMMA Suffix ==
  ASSUME NEW S, NEW s \in Seq(S), NEW n \in 0..Len(s)
  PROVE  LET p == SubSeq(s, n + 1, Len(s))
         IN  /\ p \in Seq(S) /\ Len(p) = Len(s) - n
             /\ \A i \in 1..Len(p) : p[i] = s[i + n] /\ i + n \in 1..Len(s)
<1> DEFINE p == SubSeq(s, n + 1, Len(s))
<1>1. n + 1 \in Int /\ Len(s) \in Int /\ n \in Int /\ 0 <= n /\ n <= Len(s)
  OBVIOUS
<1>2. \A i \in (n + 1)..Len(s) : s[i] \in S
  BY <1>1
<1>3. /\ p \in Seq(S)
      /\ Len(p) = IF n + 1 <= Len(s) THEN Len(s) - (n + 1) + 1 ELSE 0
      /\ \A i \in 1..(Len(s) - (n + 1) + 1) : p[i] = s[(n + 1) + i - 1]
  BY <1>1, <1>2, SubSeqProperties
<1> HIDE DEF p
<1>4. Len(p) = Len(s) - n
  BY <1>1, <1>3
<1>5. ASSUME NEW i \in 1..Len(p) PROVE p[i] = s[i + n] /\ i + n \in 1..Len(s)
  <2>1. i \in 1..(Len(s) - (n + 1) + 1) /\ (n + 1) + i - 1 = i + n
    BY <1>1, <1>4
  <2>2. p[i] = s[(n + 1) + i - 1]
    BY <1>3, <2>1
  <2>3. QED
    BY <1>1, <1>4, <2>1, <2>2
<1>6. QED
  BY <1>3, <1>4, <1>5 DEF p

\* The queue without its expired front.
LEMMA PrunedKeys ==
  ASSUME TypeOK
  PROVE  /\ Pruned \in Seq(Cmd)
         /\ Len(Pruned) = Len(order) - aged
         /\ \A i \in 1..Len(Pruned) : Pruned[i] = order[i + aged]
         /\ \A i, j \in DOMAIN Pruned : Pruned[i] = Pruned[j] => i = j
         /\ KeysOf(Pruned) \subseteq Cached
         /\ Cached \subseteq Cmd
<1>1. order \in Seq(Cmd) /\ Len(order) \in Nat /\ aged \in 0..Len(order) /\ DOMAIN order = 1..Len(order)
  BY DEF TypeOK
<1>3. Pruned \in Seq(Cmd) /\ Len(Pruned) = Len(order) - aged
  BY <1>1, Suffix DEF Pruned
<1>4. DOMAIN Pruned = 1..Len(Pruned) /\ Len(Pruned) \in Nat
  BY <1>3
<1>5. \A i \in 1..Len(Pruned) : Pruned[i] = order[i + aged] /\ i + aged \in 1..Len(order)
  BY <1>1, Suffix DEF Pruned
<1>6. \A i, j \in DOMAIN order : order[i] = order[j] => i = j
  BY DEF TypeOK
<1>7. \A i, j \in DOMAIN Pruned : Pruned[i] = Pruned[j] => i = j
  BY <1>1, <1>4, <1>5, <1>6
<1>8. KeysOf(Pruned) \subseteq Cached
  BY <1>4, <1>5 DEF KeysOf, Cached
<1>9. Cached \subseteq Cmd
  BY <1>1 DEF KeysOf, Cached
<1>10. QED
  BY <1>3, <1>4, <1>5, <1>7, <1>8, <1>9

\* A queue without repetition has room for one more command.
LEMMA RoomForOne ==
  ASSUME Roomy, NEW keys \in Seq(Cmd), \A i, j \in DOMAIN keys : keys[i] = keys[j] => i = j,
         NEW c \in Cmd, c \notin KeysOf(keys)
  PROVE  Len(keys) + 1 <= Capacity
<1>1. DOMAIN keys = 1..Len(keys) /\ Len(keys) \in Nat
  OBVIOUS
<1>2. keys \in Injection(1..Len(keys), Cmd \ {c})
  BY <1>1 DEF Injection, IsInjective, KeysOf
<1>3. IsFiniteSet(Cmd \ {c}) /\ Cardinality(Cmd \ {c}) = Cardinality(Cmd) - 1
  BY FS_RemoveElement DEF Roomy
<1>4. Cardinality(1..Len(keys)) = Len(keys)
  BY <1>1, FS_Interval
<1>5. Cardinality(1..Len(keys)) <= Cardinality(Cmd \ {c})
  BY <1>2, <1>3, FS_Injection
<1>6. Cardinality(Cmd) \in Nat
  BY FS_CardinalityType DEF Roomy
<1>7. QED
  BY <1>3, <1>4, <1>5, <1>6, <1>1, LimitsAssumption DEF Roomy

\* A key entered into such a queue pushes none out.
LEMMA Entered ==
  ASSUME Roomy, NEW keys \in Seq(Cmd), \A i, j \in DOMAIN keys : keys[i] = keys[j] => i = j,
         NEW c \in Cmd, c \notin KeysOf(keys)
  PROVE  LET new == Evicted(Append(keys, c))
         IN  /\ new = Append(keys, c)
             /\ new \in Seq(Cmd) /\ Len(new) <= Capacity
             /\ KeysOf(new) = KeysOf(keys) \cup {c}
             /\ \A i, j \in DOMAIN new : new[i] = new[j] => i = j
<1> DEFINE new == Append(keys, c)
<1>1. new \in Seq(Cmd) /\ Len(new) = Len(keys) + 1 /\ Len(keys) \in Nat
  OBVIOUS
<1>2. Len(new) <= Capacity
  BY <1>1, RoomForOne
<1>3. Evicted(new) = new
  BY <1>1, <1>2, LimitsAssumption DEF Evicted
<1>4. /\ DOMAIN new = 1..(Len(keys) + 1) /\ DOMAIN keys = 1..Len(keys)
      /\ new[Len(keys) + 1] = c
      /\ \A i \in 1..Len(keys) : new[i] = keys[i]
  BY <1>1
<1> HIDE DEF new
<1>5. KeysOf(new) = KeysOf(keys) \cup {c}
  BY <1>1, <1>4 DEF KeysOf
<1>6. \A i, j \in DOMAIN new : new[i] = new[j] => i = j
  BY <1>1, <1>4 DEF KeysOf
<1>7. QED
  BY <1>1, <1>2, <1>3, <1>5, <1>6 DEF new

-----------------------------------------------------------------------------
(* Steps that leave the cache, the executions and their effects alone *)

\* No command is answered anew, and what was carried out stays so.
LEMMA QuietAnswers ==
  ASSUME Answers, UNCHANGED effects,
         \A c \in Cmd : (Says(c, "ok")' => Says(c, "ok")) /\ (Says(c, "err")' => Says(c, "err"))
  PROVE  Answers'
  BY DEF Answers

LEMMA QuietRules ==
  ASSUME IInv, UNCHANGED <<cacheVars, runs, effects>>,
         tasks' \in {tasks, Stale(tasks)}, toClient' \subseteq toClient,
         \A c \in Cmd : attempts'[c] = 0 => attempts[c] = 0,
         \A c \in pending' : attempts'[c] # 0 /\ (c \in pending \/ attempts[c] = 0),
         \A c \in Cmd :
             \/ heard'[c] = heard[c]
             \/ \E a \in toClient : a.cmd = c /\ heard'[c] = Verdict(a.ok),
         Shown',
         \A m \in toHost' : /\ m.cmd \in Cmd /\ attempts'[m.cmd] # 0
                            /\ (\E n \in toHost : n.cmd = m.cmd) \/ m.cmd \in pending'
  PROVE  AtMostOnce' /\ Rules'
<1>1. UNCHANGED <<order, verdict, aged, runs, effects>>
  BY DEF cacheVars
<1>2. \A c \in Cmd : Known(c)' = Known(c)
  BY <1>1 DEF Known, Pruned, KeysOf
<1>3. \A c \in Cmd : Untouched(c) => Untouched(c)'
  BY DEF Untouched
<1>4. \A u \in tasks' : \E t \in tasks : u.cmd = t.cmd /\ u.mine = t.mine /\ u.reply = t.reply
  BY StaleTasks DEF IInv
<1>5. \A t \in tasks : t.cmd \in Cmd
  BY DEF IInv, TypeOK, Tasks
<1>6. Issued' /\ AtMostOnce'
  BY <1>1 DEF IInv, AtMostOnce, Rules, Issued
<1>7. Unrun'
  BY <1>1, <1>3, <1>4 DEF IInv, Rules, Unrun
<1>8. Working'
  <2>1. \A t, u \in tasks' : t.cmd = u.cmd => t = u
    <3>1. CASE tasks' = tasks
      BY <3>1 DEF IInv, Rules, Working
    <3>2. CASE tasks' = Stale(tasks)
      <4>1. SUFFICES ASSUME NEW t \in Stale(tasks), NEW u \in Stale(tasks), t.cmd = u.cmd
                     PROVE  t = u
        BY <3>2
      <4>2. PICK v \in tasks : t.cmd = v.cmd /\ t = [v EXCEPT !.fresh = FALSE]
        BY StaleTasks DEF IInv
      <4>3. PICK w \in tasks : u.cmd = w.cmd /\ u = [w EXCEPT !.fresh = FALSE]
        BY StaleTasks DEF IInv
      <4>4. v = w
        <5>1. \A x, y \in tasks : x.cmd = y.cmd => x = y
          BY DEF IInv, Rules, Working
        <5>2. v.cmd = w.cmd
          BY <4>1, <4>2, <4>3
        <5>3. QED
          BY <5>1, <5>2, Zenon
      <4>5. QED
        BY <4>2, <4>3, <4>4
    <3>3. QED
      BY <3>1, <3>2
  <2>2. ASSUME NEW u \in tasks'
        PROVE  /\ u.mine /\ verdict'[u.cmd] = "InFlight" /\ Known(u.cmd)'
               /\ Fits(u.reply, effects'[u.cmd]) /\ Untouched(u.cmd)'
    <3>1. PICK t \in tasks : u.cmd = t.cmd /\ u.mine = t.mine /\ u.reply = t.reply
      BY <1>4
    <3>2. QED
      BY <1>1, <1>2, <1>3, <1>5, <3>1 DEF IInv, Rules, Working
  <2>3. QED
    BY <2>1, <2>2 DEF Working, Fits
<1>9. Answers'
  <2>1. ASSUME NEW c \in Cmd, NEW v, Says(c, v)'
        PROVE  Says(c, v)
    BY <1>1, <2>1 DEF Says
  <2>2. QED
    BY <1>1, <2>1, QuietAnswers DEF IInv, Rules
<1>10. Forgotten'
  BY <1>1, <1>2 DEF IInv, TypeOK, Frames, Rules, Issued, Forgotten
<1>11. QED
  BY <1>6, <1>7, <1>8, <1>9, <1>10 DEF Rules

LEMMA SentIsIssued == ASSUME IInv, NEW n \in toHost PROVE attempts[n.cmd] # 0
<1>1. n.cmd \in Cmd
  BY DEF IInv, TypeOK, Frames
<1>2. QED
  BY <1>1 DEF IInv, Rules, Issued

\* The socket is lost; a client without dials left goes offline.
LEMMA DisconnectTyped ==
  ASSUME IInv, socket # "offline", Disconnect
  PROVE  /\ socket' \in {"open", "closed", "offline"} /\ reconnects' \in 0..MaxReconnects
         /\ Dialling' /\ toClient' \subseteq toClient /\ toClient' \subseteq Acks
         /\ tasks' = Stale(tasks) /\ tasks' \subseteq Tasks
<1>1. reconnects \in 0..MaxReconnects /\ reconnects < MaxReconnects
  BY DEF IInv, TypeOK, Dialling
<1>2. reconnects' = reconnects + 1
      /\ socket' = IF reconnects + 1 >= MaxReconnects THEN "offline" ELSE "closed"
  BY DEF Disconnect
<1>3. reconnects' \in 0..MaxReconnects /\ Dialling'
  BY <1>1, <1>2, LimitsAssumption DEF Dialling
<1>4. QED
  BY <1>2, <1>3, StaleTasks DEF Disconnect, IInv

LEMMA CountedTyped ==
  ASSUME TypeOK, NEW sent
  PROVE  Counted(sent) \in [Cmd -> 0..MaxAttempts]
  BY LimitsAssumption DEF Counted, AtMost, TypeOK

\* The cache, the executions and the outcomes stay as they are.
LEMMA TransmitIInv ==
  ASSUME IInv, NEW sent \in SUBSET pending, NEW lost \in SUBSET pending, socket # "offline",
         Transmit(sent, lost), UNCHANGED <<signalVars, pending, hostUp, cacheVars, runs, effects>>
  PROVE  IInv'
<1>1. UNCHANGED <<outcome, about, heard, pending, hostUp, order, verdict, aged, runs, effects>>
  BY DEF signalVars, cacheVars
<1>2. sent \subseteq Cmd
  BY DEF IInv, TypeOK
<1>3. attempts' \in [Cmd -> 0..MaxAttempts] /\ expiring' \subseteq Cmd
  BY <1>2, CountedTyped DEF Transmit, Scheduled, IInv, TypeOK
<1>4. /\ toHost' \subseteq Frames
      /\ \A m \in toHost' : (\E n \in toHost : n.cmd = m.cmd) \/ m.cmd \in pending
  <2> DEFINE out == {[cmd |-> c, fresh |-> lost = {}] : c \in sent}
  <2>1. out \subseteq Frames /\ \A m \in out : m.cmd \in pending
    <3>1. SUFFICES ASSUME NEW c \in sent
                   PROVE  LET m == [cmd |-> c, fresh |-> lost = {}]
                          IN  m \in Frames /\ m.cmd \in pending
      BY Zenon
    <3>2. c \in Cmd /\ c \in pending
      BY <1>2
    <3>3. (lost = {}) \in BOOLEAN
      OBVIOUS
    <3>4. QED
      BY <3>2, <3>3, FrameOf, Zenon
  <2>2. toHost' = out \cup (IF lost = {} THEN toHost ELSE Stale(toHost))
    BY DEF Transmit
  <2>3. toHost \subseteq Frames
    BY DEF IInv, TypeOK
  <2> HIDE DEF out
  <2>4. QED
    BY <2>1, <2>2, <2>3, StaleFrames DEF IInv
<1>5. /\ socket' \in {"open", "closed", "offline"} /\ reconnects' \in 0..MaxReconnects
      /\ Dialling' /\ toClient' \subseteq toClient /\ toClient' \subseteq Acks
      /\ tasks' \in {tasks, Stale(tasks)} /\ tasks' \subseteq Tasks
  <2>1. CASE lost = {}
    BY <2>1 DEF Transmit, IInv, TypeOK, Dialling
  <2>2. CASE lost # {}
    BY <2>2, DisconnectTyped DEF Transmit
  <2>3. QED
    BY <2>1, <2>2
<1>6. TypeOK'
  BY <1>1, <1>3, <1>4, <1>5 DEF IInv, TypeOK, Cached, KeysOf
<1>7. AtMostOnce' /\ Rules'
  <2>1. \A m \in toHost' : m.cmd \in Cmd
    BY <1>4 DEF Frames
  <2>2. \A n \in toHost : attempts[n.cmd] # 0
    BY SentIsIssued
  <2>3. \A c \in Cmd : attempts'[c] = 0 => attempts[c] = 0
    <3>1. attempts' = Counted(sent \cup lost)
      BY DEF Transmit
    <3>2. QED
      BY <3>1, LimitsAssumption DEF Counted, AtMost, IInv, TypeOK
  <2>4. \A m \in toHost' : attempts'[m.cmd] # 0
    BY <1>4, <2>1, <2>2, <2>3 DEF IInv, TypeOK, Frames, Rules, Issued
  <2>5. Shown'
    BY <1>1 DEF IInv, Rules, Shown
  <2>6. \A c \in pending' : attempts'[c] # 0 /\ (c \in pending \/ attempts[c] = 0)
    BY <1>1, <2>3 DEF IInv, TypeOK, Rules, Issued
  <2>7. \A c \in Cmd : heard'[c] = heard[c]
    BY <1>1
  <2>8. QED
    BY <1>1, <1>4, <1>5, <2>1, <2>3, <2>4, <2>5, <2>6, <2>7, QuietRules
<1>8. QED
  BY <1>5, <1>6, <1>7 DEF IInv

LEMMA ConnectIInv == IInv /\ Connect => IInv'
<1> SUFFICES ASSUME IInv, Connect PROVE IInv'
  OBVIOUS
<1>1. socket # "offline" /\ UNCHANGED <<signalVars, pending, hostUp, cacheVars, runs, effects>>
  BY DEF Connect
<1>2. CASE Transmit(pending, {})
  BY <1>1, <1>2, TransmitIInv
<1>3. CASE \E sent \in SUBSET pending : \E c \in pending \ sent : Transmit(sent, {c})
  BY <1>1, <1>3, TransmitIInv
<1>4. QED
  BY <1>2, <1>3 DEF Connect

LEMMA ResendIInv == ASSUME IInv, NEW c \in Cmd, Resend(c) PROVE IInv'
<1>1. socket # "offline" /\ UNCHANGED <<signalVars, pending, hostUp, cacheVars, runs, effects>> /\ c \in pending
  BY DEF Resend
<1>2. QED
  BY <1>1, TransmitIInv DEF Resend

\* A quiet step that is typed.
LEMMA QuietIInv ==
  ASSUME IInv, UNCHANGED <<cacheVars, runs, effects>>,
         socket' \in {"open", "closed", "offline"}, reconnects' \in 0..MaxReconnects, Dialling',
         attempts' \in [Cmd -> 0..MaxAttempts], expiring' \subseteq Cmd, hostUp' \in BOOLEAN,
         outcome' \in {"idle", "pending", "applied", "rejected", "unacked"},
         about' \in Cmd \cup {0}, outcome' = "idle" <=> about' = 0,
         heard' \in [Cmd -> {"none", "ok", "err"}], pending' \subseteq Cmd,
         tasks' \in {tasks, Stale(tasks)}, toClient' \subseteq toClient,
         toHost' \subseteq Frames,
         \A c \in Cmd : attempts'[c] = 0 => attempts[c] = 0,
         \A c \in pending' : attempts'[c] # 0 /\ (c \in pending \/ attempts[c] = 0),
         \A c \in Cmd :
             \/ heard'[c] = heard[c]
             \/ \E a \in toClient : a.cmd = c /\ heard'[c] = Verdict(a.ok),
         Shown',
         \A m \in toHost' : (\E n \in toHost : n.cmd = m.cmd) \/ m.cmd \in pending'
  PROVE  IInv'
<1>1. TypeOK'
  <2>1. tasks' \subseteq Tasks /\ toClient' \subseteq Acks
    BY StaleTasks DEF IInv, TypeOK
  <2>2. UNCHANGED <<order, verdict, aged, runs, effects>>
    BY DEF cacheVars
  <2>3. (outcome' = "idle" <=> about' = 0) /\ about' \in Cmd \cup {0}
    OBVIOUS
  <2>4. /\ order' \in Seq(Cmd) /\ Len(order') <= Capacity
        /\ verdict' \in [Cmd -> {"absent", "InFlight", "ok", "err"}]
        /\ \A c \in Cmd : c \in Cached' <=> verdict'[c] # "absent"
        /\ \A i, j \in DOMAIN order' : order'[i] = order'[j] => i = j
        /\ aged' \in 0..Len(order')
        /\ runs' \in [Cmd -> 0..MaxRuns] /\ effects' \in [Cmd -> 0..MaxRuns]
    BY <2>2 DEF IInv, TypeOK, Cached, KeysOf
  <2>5. QED
    BY <2>1, <2>3, <2>4 DEF TypeOK
<1>2. \A m \in toHost' : m.cmd \in Cmd /\ attempts'[m.cmd] # 0
  <2>1. \A m \in toHost' : m.cmd \in Cmd
    BY DEF Frames
  <2>2. \A n \in toHost : attempts[n.cmd] # 0
    BY SentIsIssued
  <2>3. QED
    BY <2>1, <2>2
<1>3. AtMostOnce' /\ Rules'
  BY <1>2, QuietRules
<1>4. QED
  BY <1>1, <1>3 DEF IInv

\* A command that is waited for was issued.
LEMMA WaitedIsIssued == ASSUME IInv PROVE \A c \in pending : c \in Cmd /\ attempts[c] # 0
  BY DEF IInv, TypeOK, Rules, Issued

LEMMA DropIInv == IInv /\ Drop => IInv'
<1> SUFFICES ASSUME IInv, Drop PROVE IInv'
  OBVIOUS
<1>1. /\ UNCHANGED <<outcome, about, heard, pending, attempts, expiring, hostUp>>
      /\ UNCHANGED <<cacheVars, runs, effects>>
  BY DEF Drop, signalVars
<1>2. toHost' = Stale(toHost) /\ socket # "offline" /\ Disconnect
  BY DEF Drop
<1>3. Shown'
  BY <1>1 DEF IInv, Rules, Shown
<1>4. QED
  BY <1>1, <1>2, <1>3, DisconnectTyped, StaleFrames, WaitedIsIssued, QuietIInv DEF IInv, TypeOK

LEMMA IssueIInv == ASSUME IInv, NEW c \in Cmd, Issue(c) PROVE IInv'
<1>1. /\ socket = "open" /\ attempts[c] = 0
      /\ outcome' = "pending" /\ about' = c /\ pending' = pending \cup {c}
      /\ attempts' = [attempts EXCEPT ![c] = 1]
      /\ UNCHANGED <<heard, hostUp, cacheVars, runs, effects>>
  BY DEF Issue
<1>2. attempts' \in [Cmd -> 0..MaxAttempts] /\ expiring' \subseteq Cmd
  BY LimitsAssumption DEF Issue, IInv, TypeOK
<1>3. /\ outcome' \in {"idle", "pending", "applied", "rejected", "unacked"}
      /\ about' \in Cmd \cup {0} /\ (outcome' = "idle" <=> about' = 0)
      /\ heard' \in [Cmd -> {"none", "ok", "err"}] /\ pending' \subseteq Cmd /\ Shown'
  BY <1>1, IdsAssumption DEF IInv, TypeOK, Shown
<1>4. /\ \A k \in Cmd : attempts'[k] = 0 => attempts[k] = 0
      /\ \A k \in pending' : attempts'[k] # 0 /\ (k \in pending \/ attempts[k] = 0)
      /\ \A k \in Cmd : heard'[k] = heard[k]
  BY <1>1, WaitedIsIssued DEF IInv, TypeOK
<1>5. hostUp' \in BOOLEAN /\ UNCHANGED <<cacheVars, runs, effects>>
  BY <1>1 DEF IInv, TypeOK
<1>6. CASE toHost' = toHost \cup {[cmd |-> c, fresh |-> TRUE]}
           /\ UNCHANGED <<socket, reconnects, toClient, tasks>>
  <2>1. toHost' \subseteq Frames
    <3>1. toHost \subseteq Frames
      BY DEF IInv, TypeOK
    <3>2. [cmd |-> c, fresh |-> TRUE] \in Frames
      BY FrameOf
    <3>3. QED
      BY <1>6, <3>1, <3>2
  <2>2. \A m \in toHost' : (\E n \in toHost : n.cmd = m.cmd) \/ m.cmd \in pending'
    BY <1>1, <1>6
  <2>3. Dialling'
    BY <1>6 DEF IInv, Dialling
  <2>4. QED
    BY <1>2, <1>3, <1>4, <1>5, <1>6, <2>1, <2>2, <2>3, QuietIInv DEF IInv, TypeOK
<1>7. CASE toHost' = Stale(toHost) /\ Disconnect
  <2>1. socket # "offline"
    BY <1>1
  <2>2. QED
    <3>1. toHost' \subseteq Frames /\ \A m \in toHost' : \E n \in toHost : n.cmd = m.cmd
      BY <1>7, StaleFrames DEF IInv
    <3>2. /\ socket' \in {"open", "closed", "offline"} /\ reconnects' \in 0..MaxReconnects
          /\ Dialling' /\ toClient' \subseteq toClient /\ tasks' \in {tasks, Stale(tasks)}
      BY <1>7, <2>1, DisconnectTyped
    <3>3. QED
      BY <1>2, <1>3, <1>4, <1>5, <3>1, <3>2, QuietIInv
<1>8. QED
  BY <1>6, <1>7 DEF Issue

LEMMA GiveUpIInv == ASSUME IInv, NEW c \in Cmd, GiveUp(c) PROVE IInv'
<1>1. /\ outcome' = "unacked" /\ about' = c
      /\ pending' = pending \ {c} /\ expiring' = expiring \ {c}
      /\ UNCHANGED <<socket, reconnects, heard, attempts, toHost, toClient, hostUp, cacheVars,
                     tasks, runs, effects>>
  BY DEF GiveUp
<1>2. about' \in Cmd \cup {0} /\ about' # 0 /\ pending' \subseteq Cmd /\ Shown'
  BY <1>1, IdsAssumption DEF IInv, TypeOK, Shown
<1>3. Dialling' /\ expiring' \subseteq Cmd
  BY <1>1 DEF IInv, TypeOK, Dialling
<1>4. \A m \in toHost' : \E n \in toHost : n.cmd = m.cmd
  BY <1>1
<1>5. QED
  BY <1>1, <1>2, <1>3, <1>4, WaitedIsIssued, QuietIInv DEF IInv, TypeOK

LEMMA RecvAckIInv == ASSUME IInv, NEW a \in toClient, RecvAck(a) PROVE IInv'
<1>1. /\ toClient' = toClient \ {a}
      /\ outcome' = IF a.ok THEN "applied" ELSE "rejected"
      /\ about' = a.cmd
      /\ heard' = [heard EXCEPT ![a.cmd] = Verdict(a.ok)]
      /\ pending' = pending \ {a.cmd} /\ expiring' = expiring \ {a.cmd}
      /\ UNCHANGED <<socket, reconnects, attempts, toHost, hostUp, cacheVars, tasks, runs, effects>>
  BY DEF RecvAck
<1>2. a.cmd \in Cmd /\ a.ok \in BOOLEAN
  BY DEF IInv, TypeOK, Acks
<1>3. /\ heard' \in [Cmd -> {"none", "ok", "err"}] /\ heard'[a.cmd] = Verdict(a.ok)
      /\ \A k \in Cmd : k # a.cmd => heard'[k] = heard[k]
  BY <1>1, <1>2 DEF IInv, TypeOK, Verdict
<1>4. /\ outcome' \in {"applied", "rejected"} /\ about' \in Cmd \cup {0} /\ about' # 0
      /\ pending' \subseteq Cmd /\ Shown'
  BY <1>1, <1>2, <1>3, IdsAssumption DEF IInv, TypeOK, Shown, Verdict
<1>5. Dialling' /\ expiring' \subseteq Cmd
  BY <1>1 DEF IInv, TypeOK, Dialling
<1>6. \A m \in toHost' : \E n \in toHost : n.cmd = m.cmd
  BY <1>1
<1>7. QED
  BY <1>1, <1>3, <1>4, <1>5, <1>6, WaitedIsIssued, QuietIInv DEF IInv, TypeOK

LEMMA SnapshotIInv == IInv /\ Snapshot => IInv'
<1> SUFFICES ASSUME IInv, Snapshot PROVE IInv'
  OBVIOUS
<1>1. /\ reconnects' = 0
      /\ UNCHANGED <<socket, outcome, about, heard, pending, attempts, expiring, toHost, toClient>>
      /\ UNCHANGED <<hostUp, cacheVars, tasks, runs, effects>>
  BY DEF Snapshot, signalVars
<1>2. reconnects' \in 0..MaxReconnects /\ Dialling' /\ Shown'
  BY <1>1, LimitsAssumption DEF Dialling, IInv, Rules, Shown
<1>3. QED
  BY <1>1, <1>2, WaitedIsIssued, QuietIInv DEF IInv, TypeOK

\* What the relay loses, and the connector's own reconnects.
LEMMA RelayIInv ==
  ASSUME IInv, UNCHANGED <<clientVars, cacheVars, runs, effects>>, hostUp' \in BOOLEAN,
         tasks' \in {tasks, Stale(tasks)}, toHost' \subseteq toHost, toClient' \subseteq toClient
  PROVE  IInv'
<1>1. UNCHANGED <<socket, reconnects, outcome, about, heard, pending, attempts, expiring>>
  BY DEF clientVars, signalVars
<1>2. Dialling' /\ Shown'
  BY <1>1 DEF IInv, Dialling, Rules, Shown
<1>3. QED
  BY <1>1, <1>2, WaitedIsIssued, QuietIInv DEF IInv, TypeOK

-----------------------------------------------------------------------------
(* The host *)

\* A cache holding the keys it knew and c, whose entry is no longer absent.
LEMMA CacheTyped ==
  ASSUME TypeOK, NEW keys \in Seq(Cmd), Len(keys) <= Capacity,
         \A i, j \in DOMAIN keys : keys[i] = keys[j] => i = j,
         NEW c \in Cmd, c \in KeysOf(keys), KeysOf(keys) \subseteq Cached \cup {c},
         NEW state \in {"InFlight", "ok", "err"}, SetCache(keys, c, state)
  PROVE  /\ order' \in Seq(Cmd) /\ Len(order') <= Capacity
         /\ verdict' \in [Cmd -> {"absent", "InFlight", "ok", "err"}]
         /\ \A k \in Cmd : k \in Cached' <=> verdict'[k] # "absent"
         /\ \A i, j \in DOMAIN order' : order'[i] = order'[j] => i = j
         /\ order' = keys /\ Cached' = KeysOf(keys)
         /\ \A k \in Cmd : verdict'[k] = IF k \notin KeysOf(keys) THEN "absent"
                                         ELSE IF k = c THEN state ELSE verdict[k]
<1>1. /\ order' = keys
      /\ verdict' = [k \in Cmd |-> IF k \notin KeysOf(keys) THEN "absent"
                                   ELSE IF k = c THEN state ELSE verdict[k]]
  BY DEF SetCache
<1>2. Cached' = KeysOf(keys)
  BY <1>1 DEF Cached, KeysOf
<1>3. /\ verdict \in [Cmd -> {"absent", "InFlight", "ok", "err"}]
      /\ \A k \in Cmd : k \in Cached <=> verdict[k] # "absent"
  BY DEF TypeOK
<1>4. QED
  BY <1>1, <1>2, <1>3

\* Nothing is left to prune.
LEMMA PrunedWhole ==
  ASSUME order' \in Seq(Cmd), aged' = 0
  PROVE  \A k : Known(k)' <=> k \in KeysOf(order')
<1>1. DOMAIN order' = 1..Len(order') /\ Len(order') \in Nat /\ 0 \in 0..Len(order')
  OBVIOUS
<1>2. Pruned' = SubSeq(order', 0 + 1, Len(order'))
  BY DEF Pruned
<1>3. /\ Pruned' \in Seq(Cmd) /\ Len(Pruned') = Len(order') - 0
      /\ \A i \in 1..Len(Pruned') : Pruned'[i] = order'[i + 0]
  BY <1>1, <1>2, Suffix
<1>4. DOMAIN Pruned' = DOMAIN order' /\ \A i \in DOMAIN order' : Pruned'[i] = order'[i]
  BY <1>1, <1>3
<1>5. QED
  BY <1>4 DEF Known, KeysOf

\* A command the cache knows gets its answer again, if there is one.
LEMMA ReplayIInv ==
  ASSUME IInv, NEW m \in toHost, NEW again \in BOOLEAN, Deliver(m, again), Repeats(m.cmd)
  PROVE  IInv'
<1> DEFINE c == m.cmd
           ack == [cmd |-> c, ok |-> verdict[c] = "ok"]
<1>1. c \in Cmd /\ Known(c)
  BY DEF IInv, TypeOK, Frames, Repeats
<1>2. /\ toHost' \subseteq toHost /\ aged' = 0 /\ SetCache(Pruned, c, verdict[c])
      /\ IF verdict[c] = "InFlight" THEN UNCHANGED toClient ELSE Route(m, verdict[c] = "ok")
      /\ UNCHANGED <<tasks, runs, clientVars, hostUp, effects>>
  BY DEF Deliver
<1>3. UNCHANGED <<socket, reconnects, outcome, about, heard, pending, attempts, expiring>>
      /\ UNCHANGED <<tasks, runs, hostUp, effects>>
  BY <1>2 DEF clientVars, signalVars
<1>4. /\ Pruned \in Seq(Cmd) /\ Len(Pruned) <= Capacity /\ KeysOf(Pruned) \subseteq Cached
      /\ \A i, j \in DOMAIN Pruned : Pruned[i] = Pruned[j] => i = j
  <2>1. Len(Pruned) = Len(order) - aged /\ aged \in 0..Len(order) /\ Len(order) <= Capacity
        /\ Len(order) \in Nat
    BY PrunedKeys DEF IInv, TypeOK
  <2>2. QED
    BY <2>1, PrunedKeys, LimitsAssumption DEF IInv
<1>5. c \in KeysOf(Pruned) /\ verdict[c] \in {"InFlight", "ok", "err"}
  BY <1>1, <1>4 DEF Known, IInv, TypeOK
<1>6. /\ order' \in Seq(Cmd) /\ Len(order') <= Capacity
      /\ verdict' \in [Cmd -> {"absent", "InFlight", "ok", "err"}]
      /\ \A k \in Cmd : k \in Cached' <=> verdict'[k] # "absent"
      /\ \A i, j \in DOMAIN order' : order'[i] = order'[j] => i = j
      /\ order' = Pruned
      /\ \A k \in Cmd : verdict'[k] = IF k \notin KeysOf(Pruned) THEN "absent"
                                      ELSE IF k = c THEN verdict[c] ELSE verdict[k]
  BY <1>1, <1>2, <1>4, <1>5, CacheTyped DEF IInv
<1>7. \A k \in Cmd : /\ Known(k)' <=> Known(k)
                     /\ verdict'[k] = IF Known(k) THEN verdict[k] ELSE "absent"
  BY <1>2, <1>6, PrunedWhole DEF Known
<1> HIDE DEF c
<1>8. /\ ack \in Acks /\ ack.cmd = c /\ ack.ok = (verdict[c] = "ok")
      /\ toClient' = toClient \/ (toClient' = toClient \cup {ack} /\ verdict[c] # "InFlight")
  <2>1. toClient' = toClient \/ (toClient' = toClient \cup {ack} /\ verdict[c] # "InFlight")
    BY <1>2 DEF Route, c
  <2>2. (verdict[c] = "ok") \in BOOLEAN
    OBVIOUS
  <2>3. ack.cmd = c /\ ack.ok = (verdict[c] = "ok")
    BY Zenon
  <2>4. ack \in Acks
    BY <1>1, <2>2 DEF Acks
  <2>5. QED
    BY <2>1, <2>3, <2>4, Zenon
<1> HIDE DEF ack
<1>9. TypeOK'
  <2>1. toClient' \subseteq Acks
    BY <1>8 DEF IInv, TypeOK
  <2>2. aged' \in 0..Len(order')
    BY <1>2, <1>6
  <2>3. QED
    BY <1>2, <1>3, <1>6, <2>1, <2>2 DEF IInv, TypeOK
<1>10. AtMostOnce' /\ Dialling' /\ Issued'
  BY <1>2, <1>3 DEF IInv, AtMostOnce, Dialling, Rules, Issued
<1>11. \A k \in Cmd : Untouched(k) /\ (k # c \/ verdict[c] = "InFlight") => Untouched(k)'
  BY <1>3, <1>8 DEF Untouched
<1>12. runs[c] # 0
  BY <1>1, <1>5 DEF IInv, Rules, Unrun
<1>13. Unrun'
  BY <1>3, <1>7, <1>11, <1>12 DEF IInv, Rules, Unrun
<1>14. Working'
  <2>1. \A t \in tasks : t.cmd \in Cmd
    BY DEF IInv, TypeOK, Tasks
  <2>2. QED
    BY <1>3, <1>7, <1>11, <2>1 DEF IInv, Rules, Working
<1>15. Answers' /\ Shown'
  <2>1. ASSUME NEW k \in Cmd, NEW v \in {"ok", "err"}, Says(k, v)'
        PROVE  Says(k, v)
    <3>1. CASE verdict'[k] = v
      BY <1>7, <2>1, <3>1 DEF Says
    <3>2. CASE heard'[k] = v
      BY <1>3, <3>2 DEF Says
    <3>3. CASE \E a \in toClient' : a.cmd = k /\ Verdict(a.ok) = v
      <4>1. PICK a \in toClient' : a.cmd = k /\ Verdict(a.ok) = v
        BY <3>3
      <4>2. CASE a \in toClient
        BY <4>1, <4>2 DEF Says
      <4>3. CASE a = ack /\ verdict[c] # "InFlight"
        <5>1. k = c /\ v = Verdict(verdict[c] = "ok")
          BY <1>8, <4>1, <4>3
        <5>2. verdict[k] = v
          BY <1>5, <4>3, <5>1 DEF Verdict
        <5>3. QED
          BY <5>2 DEF Says
      <4>4. QED
        BY <1>8, <4>1, <4>2, <4>3
    <3>4. QED
      BY <2>1, <3>1, <3>2, <3>3 DEF Says
  <2>2. Answers'
    BY <1>3, <2>1, QuietAnswers DEF IInv, Rules
  <2>3. QED
    BY <1>3, <2>2 DEF IInv, Rules, Shown
<1>16. Forgotten'
  BY <1>2, <1>3, <1>7 DEF IInv, Rules, Forgotten
<1>17. QED
  BY <1>9, <1>10, <1>13, <1>14, <1>15, <1>16 DEF IInv, Rules

\* A command the cache does not know has never run.
LEMMA ExecuteIInv ==
  ASSUME Roomy, IInv, NEW m \in toHost, NEW again \in BOOLEAN, Deliver(m, again), ~Repeats(m.cmd)
  PROVE  IInv'
<1> DEFINE c == m.cmd
           keys == Evicted(Append(Pruned, c))
           task == [cmd |-> c, nth |-> runs[c] + 1, fresh |-> m.fresh, mine |-> TRUE,
                    reply |-> "none"]
<1>1. c \in Cmd /\ m.fresh \in BOOLEAN /\ ~Known(c)
  BY DEF IInv, TypeOK, Frames, Repeats
<1>2. /\ toHost' \subseteq toHost /\ aged' = 0 /\ SetCache(keys, c, "InFlight")
      /\ runs' = [runs EXCEPT ![c] = @ + 1] /\ tasks' = tasks \cup {task}
      /\ UNCHANGED <<toClient, clientVars, hostUp, effects>>
  BY DEF Deliver
<1>3. UNCHANGED <<socket, reconnects, outcome, about, heard, pending, attempts, expiring>>
      /\ UNCHANGED <<toClient, hostUp, effects>>
  BY <1>2 DEF clientVars, signalVars
<1>4. runs[c] = 0
  BY <1>1 DEF IInv, Rules, Forgotten
<1>5. /\ verdict[c] = "absent" /\ effects[c] = 0 /\ Untouched(c) /\ \A t \in tasks : t.cmd # c
      /\ attempts[c] # 0
  BY <1>1, <1>4, SentIsIssued DEF IInv, Rules, Unrun
<1>6. /\ Pruned \in Seq(Cmd) /\ KeysOf(Pruned) \subseteq Cached /\ c \notin KeysOf(Pruned)
      /\ \A i, j \in DOMAIN Pruned : Pruned[i] = Pruned[j] => i = j
  BY <1>1, PrunedKeys DEF IInv, Known
<1>7. /\ keys \in Seq(Cmd) /\ Len(keys) <= Capacity /\ KeysOf(keys) = KeysOf(Pruned) \cup {c}
      /\ \A i, j \in DOMAIN keys : keys[i] = keys[j] => i = j
  BY <1>1, <1>6, Entered
<1> HIDE DEF keys
<1>8. /\ order' \in Seq(Cmd) /\ Len(order') <= Capacity
      /\ verdict' \in [Cmd -> {"absent", "InFlight", "ok", "err"}]
      /\ \A k \in Cmd : k \in Cached' <=> verdict'[k] # "absent"
      /\ \A i, j \in DOMAIN order' : order'[i] = order'[j] => i = j
      /\ order' = keys
      /\ \A k \in Cmd : verdict'[k] = IF k \notin KeysOf(keys) THEN "absent"
                                      ELSE IF k = c THEN "InFlight" ELSE verdict[k]
  BY <1>1, <1>2, <1>6, <1>7, CacheTyped DEF IInv
<1>9. \A k \in Cmd : /\ Known(k)' <=> Known(k) \/ k = c
                     /\ verdict'[k] = IF k = c THEN "InFlight"
                                      ELSE IF Known(k) THEN verdict[k] ELSE "absent"
  BY <1>2, <1>7, <1>8, PrunedWhole DEF Known
<1>10. /\ runs \in [Cmd -> 0..MaxRuns] /\ runs'[c] = 1
       /\ \A k \in Cmd : k # c => runs'[k] = runs[k]
       /\ runs' \in [Cmd -> 0..MaxRuns]
  BY <1>1, <1>2, <1>4, LimitsAssumption DEF IInv, TypeOK
<1>11. task \in Tasks /\ task.cmd = c /\ task.mine /\ task.reply = "none"
  <2>1. runs[c] + 1 \in 1..MaxRuns
    BY <1>4, LimitsAssumption
  <2>2. QED
    BY <1>1, <2>1 DEF Tasks
<1> HIDE DEF c, task
<1>12. TypeOK'
  <2>1. tasks' \subseteq Tasks
    BY <1>2, <1>11 DEF IInv, TypeOK
  <2>2. aged' \in 0..Len(order')
    BY <1>2, <1>8
  <2>3. QED
    BY <1>2, <1>3, <1>8, <1>10, <2>1, <2>2 DEF IInv, TypeOK
<1>13. AtMostOnce' /\ Dialling'
  <2>1. \A k \in Cmd : runs'[k] <= 1
    BY <1>10 DEF IInv, AtMostOnce
  <2>2. QED
    BY <1>3, <2>1 DEF IInv, AtMostOnce, Dialling
<1>14. Issued'
  BY <1>2, <1>3, <1>5, <1>10 DEF IInv, Rules, Issued
<1>15. \A k \in Cmd : Untouched(k)' <=> Untouched(k)
  BY <1>3 DEF Untouched
<1>16. Unrun'
  BY <1>2, <1>3, <1>9, <1>10, <1>11, <1>15 DEF IInv, Rules, Unrun
<1>17. Working'
  <2>1. \A t \in tasks : t.cmd \in Cmd
    BY DEF IInv, TypeOK, Tasks
  <2>2. \A t, u \in tasks' : t.cmd = u.cmd => t = u
    BY <1>2, <1>5, <1>11 DEF IInv, Rules, Working
  <2>3. ASSUME NEW t \in tasks
        PROVE  /\ t.mine /\ verdict'[t.cmd] = "InFlight" /\ Known(t.cmd)'
               /\ Fits(t.reply, effects'[t.cmd]) /\ Untouched(t.cmd)'
    BY <1>3, <1>5, <1>9, <1>15, <2>1 DEF IInv, Rules, Working
  <2>4. PICK new \in Tasks : /\ tasks' = tasks \cup {new} /\ new.cmd = c
                            /\ new.mine /\ new.reply = "none"
    BY <1>2, <1>11
  <2>5. /\ verdict'[new.cmd] = "InFlight" /\ Known(new.cmd)'
        /\ Fits(new.reply, effects'[new.cmd]) /\ Untouched(new.cmd)'
    BY <1>1, <1>3, <1>5, <1>9, <1>15, <2>4 DEF Fits
  <2>6. QED
    BY <2>2, <2>3, <2>4, <2>5 DEF Working, Fits
<1>18. Answers' /\ Shown'
  <2>1. ASSUME NEW k \in Cmd, NEW v \in {"ok", "err"}, Says(k, v)'
        PROVE  Says(k, v)
    BY <1>3, <1>9, <2>1 DEF Says
  <2>2. Answers'
    BY <1>3, <2>1, QuietAnswers DEF IInv, Rules
  <2>3. QED
    BY <1>3, <2>2 DEF IInv, Rules, Shown
<1>19. Forgotten'
  BY <1>2, <1>3, <1>9, <1>10 DEF IInv, Rules, Forgotten
<1>20. QED
  BY <1>12, <1>13, <1>14, <1>16, <1>17, <1>18, <1>19 DEF IInv, Rules

\* The server's reply settles what became of the command.
LEMMA ServeIInv ==
  ASSUME IInv, NEW t \in tasks, NEW ok \in BOOLEAN, NEW done \in BOOLEAN, Serve(t, ok, done)
  PROVE  IInv'
<1> DEFINE c == t.cmd
           u == [t EXCEPT !.reply = Verdict(ok)]
<1>1. /\ t.reply = "none" /\ tasks' = (tasks \ {t}) \cup {u} /\ (ok => done)
      /\ effects' = IF done THEN [effects EXCEPT ![c] = @ + 1] ELSE effects
      /\ UNCHANGED <<clientVars, toHost, toClient, hostUp, cacheVars, runs>>
  BY DEF Serve, Replied
<1>2. UNCHANGED <<socket, reconnects, outcome, about, heard, pending, attempts, expiring>>
      /\ UNCHANGED <<toHost, toClient, hostUp, order, verdict, aged, runs>>
  BY <1>1 DEF clientVars, signalVars, cacheVars
<1>3. t \in Tasks /\ tasks \subseteq Tasks
  BY DEF IInv, TypeOK
<1>4. c \in Cmd /\ u \in Tasks /\ u.cmd = c /\ u.mine = t.mine /\ u.reply = Verdict(ok)
  BY <1>3 DEF Tasks, Verdict
<1>5. /\ t.mine /\ verdict[c] = "InFlight" /\ Known(c) /\ Untouched(c)
      /\ Fits(t.reply, effects[c])
  BY DEF IInv, Rules, Working
<1>6. \A v \in tasks : v # t => v.cmd # c
  BY DEF IInv, Rules, Working
<1>7. runs[c] # 0
  BY <1>4 DEF IInv, Rules, Unrun
<1>8. effects[c] = 0
  BY <1>1, <1>5 DEF Fits
<1>9. /\ effects' \in [Cmd -> 0..MaxRuns] /\ Fits(Verdict(ok), effects'[c])
      /\ \A k \in Cmd : k # c => effects'[k] = effects[k]
  BY <1>1, <1>4, <1>8, LimitsAssumption DEF IInv, TypeOK, Fits, Verdict
<1> HIDE DEF c
<1> HIDE DEF u
<1>11. TypeOK'
  <2>1. tasks' \subseteq Tasks
    BY <1>1, <1>3, <1>4
  <2>2. QED
    BY <1>2, <1>9, <2>1 DEF IInv, TypeOK, Cached, KeysOf
<1>12. AtMostOnce' /\ Dialling' /\ Issued'
  BY <1>2 DEF IInv, AtMostOnce, Dialling, Rules, Issued
<1>13. \A k \in Cmd : (Untouched(k)' <=> Untouched(k)) /\ (Known(k)' <=> Known(k))
  BY <1>2 DEF Untouched, Known, Pruned, KeysOf
<1>14. Unrun'
  BY <1>1, <1>2, <1>4, <1>7, <1>9, <1>13 DEF IInv, Rules, Unrun
<1>15. Working'
  <2>1. PICK new \in Tasks : /\ tasks' = (tasks \ {t}) \cup {new} /\ new.cmd = c /\ new.mine
                             /\ new.reply = Verdict(ok)
    BY <1>1, <1>4, <1>5
  <2>2. \A v, w \in tasks' : v.cmd = w.cmd => v = w
    BY <1>6, <2>1 DEF IInv, Rules, Working
  <2>3. ASSUME NEW v \in tasks, v # t
        PROVE  /\ v.mine /\ verdict'[v.cmd] = "InFlight" /\ Known(v.cmd)'
               /\ Fits(v.reply, effects'[v.cmd]) /\ Untouched(v.cmd)'
    <3>1. v.cmd \in Cmd /\ v.cmd # c
      BY <1>3, <1>6, <2>3 DEF Tasks
    <3>2. QED
      BY <1>2, <1>9, <1>13, <3>1 DEF IInv, Rules, Working
  <2>4. /\ verdict'[new.cmd] = "InFlight" /\ Known(new.cmd)'
        /\ Fits(new.reply, effects'[new.cmd]) /\ Untouched(new.cmd)'
    BY <1>2, <1>4, <1>5, <1>9, <1>13, <2>1
  <2>5. QED
    BY <2>1, <2>2, <2>3, <2>4 DEF Working, Fits
<1>16. Answers' /\ Shown'
  <2>1. ~Says(c, "ok") /\ ~Says(c, "err")
    BY <1>5 DEF Says, Untouched
  <2>2. ASSUME NEW k \in Cmd, NEW v
        PROVE  Says(k, v)' <=> Says(k, v)
    BY <1>2 DEF Says
  <2>3. Answers'
    BY <1>9, <2>1, <2>2 DEF IInv, Rules, Answers
  <2>4. QED
    BY <1>2, <2>3 DEF IInv, Rules, Shown
<1>17. Forgotten'
  BY <1>2, <1>13 DEF IInv, Rules, Forgotten
<1>18. QED
  BY <1>11, <1>12, <1>14, <1>15, <1>16, <1>17 DEF IInv, Rules

\* The answer is recorded under the key the command went in flight with.
LEMMA CompleteIInv ==
  ASSUME IInv, NEW t \in tasks, Complete(t)
  PROVE  IInv'
<1> DEFINE c == t.cmd
           ack == [cmd |-> c, ok |-> t.reply = "ok"]
<1>1. t \in Tasks /\ tasks \subseteq Tasks /\ c \in Cmd /\ t.reply \in {"ok", "err"}
  BY DEF IInv, TypeOK, Tasks, Complete
<1>2. /\ t.mine /\ verdict[c] = "InFlight" /\ Known(c) /\ Untouched(c)
      /\ Fits(t.reply, effects[c])
  BY DEF IInv, Rules, Working
<1>3. c \in Cached
  BY <1>1, <1>2 DEF IInv, TypeOK
<1>4. /\ tasks' = tasks \ {t} /\ SetCache(order, c, t.reply) /\ aged' = aged
      /\ UNCHANGED <<clientVars, toHost, hostUp, runs, effects>>
  BY <1>2, <1>3 DEF Complete, Record
<1>5. UNCHANGED <<socket, reconnects, outcome, about, heard, pending, attempts, expiring>>
      /\ UNCHANGED <<toHost, hostUp, aged, runs, effects>>
  BY <1>4 DEF clientVars, signalVars
<1>6. /\ order' \in Seq(Cmd) /\ Len(order') <= Capacity
      /\ verdict' \in [Cmd -> {"absent", "InFlight", "ok", "err"}]
      /\ \A k \in Cmd : k \in Cached' <=> verdict'[k] # "absent"
      /\ \A i, j \in DOMAIN order' : order'[i] = order'[j] => i = j
      /\ order' = order
      /\ \A k \in Cmd : verdict'[k] = IF k \notin Cached THEN "absent"
                                      ELSE IF k = c THEN t.reply ELSE verdict[k]
  <2>1. /\ order \in Seq(Cmd) /\ Len(order) <= Capacity /\ KeysOf(order) \subseteq Cached \cup {c}
        /\ \A i, j \in DOMAIN order : order[i] = order[j] => i = j
        /\ c \in KeysOf(order) /\ t.reply \in {"InFlight", "ok", "err"}
    BY <1>1, <1>3 DEF IInv, TypeOK, Cached
  <2>2. QED
    BY <1>1, <1>4, <2>1, CacheTyped DEF IInv, Cached
<1>7. \A k \in Cmd : verdict'[k] = IF k = c THEN t.reply ELSE verdict[k]
  BY <1>3, <1>6 DEF IInv, TypeOK
<1>8. \A k \in Cmd : Known(k)' <=> Known(k)
  BY <1>5, <1>6 DEF Known, Pruned, KeysOf
<1>9. /\ ack \in Acks /\ ack.cmd = c /\ ack.ok = (t.reply = "ok")
      /\ toClient' = toClient \/ toClient' = toClient \cup {ack}
  <2>1. toClient' = toClient \/ toClient' = toClient \cup {ack}
    BY DEF Complete, Route
  <2>2. (t.reply = "ok") \in BOOLEAN
    OBVIOUS
  <2>3. ack.cmd = c /\ ack.ok = (t.reply = "ok")
    BY Zenon
  <2>4. ack \in Acks
    BY <1>1, <2>2 DEF Acks
  <2>5. QED
    BY <2>1, <2>3, <2>4, Zenon
<1>10. Verdict(ack.ok) = t.reply
  BY <1>1, <1>9 DEF Verdict
<1>11. \A v \in tasks' : v \in tasks /\ v.cmd # c /\ v.cmd \in Cmd
  BY <1>1, <1>4 DEF IInv, Rules, Working, Tasks
<1> HIDE DEF ack, c
<1>12. TypeOK'
  <2>1. toClient' \subseteq Acks
    BY <1>9 DEF IInv, TypeOK
  <2>2. aged' \in 0..Len(order')
    BY <1>5, <1>6 DEF IInv, TypeOK
  <2>3. tasks' \subseteq Tasks
    BY <1>1, <1>4
  <2>4. QED
    BY <1>5, <1>6, <2>1, <2>2, <2>3 DEF IInv, TypeOK
<1>13. AtMostOnce' /\ Dialling' /\ Issued'
  BY <1>5 DEF IInv, AtMostOnce, Dialling, Rules, Issued
<1>14. \A k \in Cmd : k # c /\ Untouched(k) => Untouched(k)'
  BY <1>5, <1>9 DEF Untouched
<1>15. runs[c] # 0
  BY <1>1, <1>2 DEF IInv, Rules, Unrun
<1>16. Unrun'
  BY <1>5, <1>7, <1>11, <1>14, <1>15 DEF IInv, Rules, Unrun
<1>17. Working'
  BY <1>5, <1>7, <1>8, <1>11, <1>14 DEF IInv, Rules, Working
<1>18. Answers' /\ Shown'
  <2>1. ASSUME NEW v \in {"ok", "err"}, Says(c, v)'
        PROVE  v = t.reply
    BY <1>1, <1>2, <1>5, <1>7, <1>9, <1>10, <2>1 DEF Says, Untouched
  <2>2. ASSUME NEW k \in Cmd, k # c, NEW v \in {"ok", "err"}, Says(k, v)'
        PROVE  Says(k, v)
    BY <1>5, <1>7, <1>9, <2>2 DEF Says
  <2>3. ASSUME NEW k \in Cmd
        PROVE  ~(Says(k, "ok")' /\ Says(k, "err")') /\ (Says(k, "ok")' => effects'[k] = 1)
    <3>1. CASE k = c
      <4>1. t.reply = "ok" => effects'[c] = 1
        BY <1>2, <1>5 DEF Fits
      <4>2. QED
        BY <2>1, <3>1, <4>1
    <3>2. CASE k # c
      BY <1>5, <2>2, <3>2 DEF IInv, Rules, Answers
    <3>3. QED
      BY <3>1, <3>2
  <2>4. Answers'
    BY <2>3 DEF Answers
  <2>5. QED
    BY <1>5, <2>4 DEF IInv, Rules, Shown
<1>19. Forgotten'
  BY <1>5, <1>8 DEF IInv, Rules, Forgotten
<1>20. QED
  BY <1>12, <1>13, <1>16, <1>17, <1>18, <1>19 DEF IInv, Rules

\* What ages out of the cache is under way nowhere.
LEMMA AgeIInv ==
  ASSUME IInv, NEW c \in Cmd, Age(c)
  PROVE  IInv'
<1>1. /\ aged < Len(order) /\ order[aged + 1] = c /\ c \notin pending
      /\ (\A m \in toHost : m.cmd # c) /\ (\A t \in tasks : t.cmd # c) /\ aged' = aged + 1
      /\ UNCHANGED <<clientVars, toHost, toClient, hostUp, order, verdict, tasks, runs, effects>>
  BY DEF Age
<1>2. UNCHANGED <<socket, reconnects, outcome, about, heard, pending, attempts, expiring>>
      /\ UNCHANGED <<toHost, toClient, hostUp, order, verdict, tasks, runs, effects>>
  BY <1>1 DEF clientVars, signalVars
<1>3. order \in Seq(Cmd) /\ Len(order) \in Nat /\ aged \in 0..Len(order)
  BY DEF IInv, TypeOK
<1>4. aged' \in 0..Len(order)
  BY <1>1, <1>3
<1>5. TypeOK'
  BY <1>2, <1>4 DEF IInv, TypeOK, Cached, KeysOf
<1>6. \A k \in Cmd : (Known(k)' => Known(k)) /\ (Known(k) /\ k # c => Known(k)')
  <2>1. /\ Pruned \in Seq(Cmd) /\ Len(Pruned) = Len(order) - aged
        /\ \A i \in 1..Len(Pruned) : Pruned[i] = order[i + aged]
    BY PrunedKeys DEF IInv
  <2>2. /\ Pruned' \in Seq(Cmd) /\ Len(Pruned') = Len(order) - aged'
        /\ \A i \in 1..Len(Pruned') : Pruned'[i] = order[i + aged']
    <3>1. Pruned' = SubSeq(order, aged' + 1, Len(order))
      BY <1>2 DEF Pruned
    <3>2. QED
      BY <1>3, <1>4, <3>1, Suffix
  <2>3. DOMAIN Pruned = 1..Len(Pruned) /\ DOMAIN Pruned' = 1..Len(Pruned')
    BY <2>1, <2>2
  <2> DEFINE n == Len(order) - aged
  <2> HIDE DEF n
  <2>4. n \in Nat /\ n >= 1 /\ Len(Pruned) = n /\ Len(Pruned') = n - 1 /\ aged \in Nat
    BY <1>1, <1>3, <2>1, <2>2 DEF n
  <2>5. ASSUME NEW i \in 1..Len(Pruned')
        PROVE  i + 1 \in 1..Len(Pruned) /\ Pruned'[i] = Pruned[i + 1]
    <3>1. i \in 1..(n - 1) /\ i + 1 \in 1..n /\ i + aged' = (i + 1) + aged
      BY <1>1, <2>4
    <3>2. Pruned'[i] = order[i + aged']
      BY <2>2
    <3>3. Pruned[i + 1] = order[(i + 1) + aged]
      BY <2>1, <2>4, <3>1
    <3>4. QED
      BY <2>4, <3>1, <3>2, <3>3
  <2>6. ASSUME NEW i \in 1..Len(Pruned), i # 1
        PROVE  i - 1 \in 1..Len(Pruned') /\ Pruned'[i - 1] = Pruned[i]
    <3>1. i \in 1..n /\ i - 1 \in 1..(n - 1) /\ (i - 1) + aged' = i + aged
      BY <1>1, <2>6, <2>4
    <3>2. Pruned'[i - 1] = order[(i - 1) + aged']
      BY <2>2, <2>4, <3>1
    <3>3. Pruned[i] = order[i + aged]
      BY <2>1
    <3>4. QED
      BY <2>4, <3>1, <3>2, <3>3
  <2>7. 1 \in 1..Len(Pruned) /\ Pruned[1] = c
    BY <1>1, <1>3, <2>1
  <2>8. ASSUME NEW k \in Cmd
        PROVE  (Known(k)' => Known(k)) /\ (Known(k) /\ k # c => Known(k)')
    <3>1. Known(k) <=> \E i \in 1..Len(Pruned) : k = Pruned[i]
      BY <2>3 DEF Known, KeysOf
    <3>2. Known(k)' <=> \E i \in 1..Len(Pruned') : k = Pruned'[i]
      BY <2>3 DEF Known, KeysOf
    <3>3. Known(k)' => Known(k)
      BY <2>5, <3>1, <3>2
    <3>4. Known(k) /\ k # c => Known(k)'
      BY <2>6, <2>7, <3>1, <3>2
    <3>5. QED
      BY <3>3, <3>4
  <2>9. QED
    BY <2>8
<1>7. AtMostOnce' /\ Dialling' /\ Issued'
  BY <1>2 DEF IInv, AtMostOnce, Dialling, Rules, Issued
<1>8. \A k \in Cmd : Untouched(k)' <=> Untouched(k)
  BY <1>2 DEF Untouched
<1>9. Unrun'
  BY <1>2, <1>8 DEF IInv, Rules, Unrun
<1>10. Working'
  <2>1. \A t \in tasks : t.cmd \in Cmd /\ t.cmd # c
    BY <1>1 DEF IInv, TypeOK, Tasks
  <2>2. QED
    BY <1>2, <1>6, <1>8, <2>1 DEF IInv, Rules, Working
<1>11. Answers' /\ Shown'
  BY <1>2 DEF IInv, Rules, Answers, Says, Shown
<1>12. Forgotten'
  BY <1>1, <1>2, <1>6 DEF IInv, Rules, Forgotten
<1>13. QED
  BY <1>5, <1>7, <1>9, <1>10, <1>11, <1>12 DEF IInv, Rules

-----------------------------------------------------------------------------
(* The session *)

LEMMA StepIInv == ASSUME Roomy, IInv, [SessionNext]_vars PROVE IInv'
<1>1. CASE ClientNext
  BY <1>1, ConnectIInv, DropIInv, SnapshotIInv, IssueIInv, ResendIInv, GiveUpIInv, RecvAckIInv
  DEF ClientNext
<1>2. CASE HostNext
  <2>1. CASE HostDrop \/ HostReconnect
    BY <2>1, RelayIInv DEF HostDrop, HostReconnect
  <2>2. CASE \E m \in toHost, again \in BOOLEAN : Deliver(m, again)
    BY <2>2, ReplayIInv, ExecuteIInv
  <2>3. CASE \E t \in tasks : Complete(t) \/ \E ok, done \in BOOLEAN : Serve(t, ok, done)
    BY <2>3, CompleteIInv, ServeIInv
  <2>4. QED
    BY <1>2, <2>1, <2>2, <2>3 DEF HostNext
<1>3. CASE RelayNext
  <2>1. CASE \E m \in toHost : LoseFrame(m)
    BY <2>1, RelayIInv DEF LoseFrame, IInv, TypeOK
  <2>2. CASE \E a \in toClient : LoseAck(a)
    BY <2>2, RelayIInv DEF LoseAck, IInv, TypeOK
  <2>3. CASE \E c \in Cmd : Age(c)
    BY <2>3, AgeIInv
  <2>4. QED
    BY <1>3, <2>1, <2>2, <2>3 DEF RelayNext
<1>4. CASE UNCHANGED vars
  BY <1>4, RelayIInv DEF vars, IInv, TypeOK
<1>5. QED
  BY <1>1, <1>2, <1>3, <1>4 DEF SessionNext

LEMMA SessionIInv == ASSUME Roomy PROVE SessionSpec => []IInv
<1>1. Init => IInv
  BY InitIInv
<1>2. Roomy /\ IInv /\ [SessionNext]_vars => IInv'
  BY StepIInv
<1>3. Roomy
  OBVIOUS
<1>4. QED
  BY <1>1, <1>2, <1>3, PTL DEF SessionSpec

\* The connector, the client and the relay keep their state well formed: the
\* cache's queue holds each key once, stays within its capacity and agrees with
\* its map.
THEOREM RemoteTyped == ASSUME Roomy PROVE SessionSpec => []TypeOK
<1>1. IInv => TypeOK
  BY DEF IInv
<1>2. QED
  BY <1>1, SessionIInv, PTL

\* exec_command runs at most once for a command, however often the bus or the
\* client delivers it again (the INVARIANT of handle_client_frame).
THEOREM RunsAtMostOnce == ASSUME Roomy PROVE SessionSpec => []AtMostOnce
<1>1. IInv => AtMostOnce
  BY DEF IInv
<1>2. QED
  BY <1>1, SessionIInv, PTL

\* What the client shows as applied was carried out exactly once, whichever
\* command the one outcome signal was last set for.
THEOREM VerdictsAreTrue == ASSUME Roomy PROVE SessionSpec => []VerdictIsTrue
<1>1. IInv => VerdictIsTrue
  BY DEF IInv, Rules, Answers, Says, Shown, VerdictIsTrue
<1>2. QED
  BY <1>1, SessionIInv, PTL

\* All acks of a command the client reads say the same, late, duplicated and
\* replayed ones included.
THEOREM VerdictsAreFinal == ASSUME Roomy PROVE SessionSpec => VerdictIsFinal
<1> DEFINE Final == \A c \in Cmd : heard[c] # "none" => heard'[c] = heard[c]
<1>1. ASSUME IInv, [SessionNext]_vars PROVE [Final]_vars
  <2>1. CASE \E a \in toClient : RecvAck(a)
    <3>1. PICK a \in toClient : heard' = [heard EXCEPT ![a.cmd] = Verdict(a.ok)]
      BY <2>1 DEF RecvAck
    <3>2. a.cmd \in Cmd /\ a.ok \in BOOLEAN
      BY <1>1 DEF IInv, TypeOK, Acks
    <3>3. Says(a.cmd, Verdict(a.ok)) /\ Says(a.cmd, heard[a.cmd])
      BY DEF Says
    <3>4. ASSUME heard[a.cmd] # "none"
          PROVE  heard[a.cmd] = Verdict(a.ok)
      <4>1. heard[a.cmd] \in {"ok", "err"} /\ Verdict(a.ok) \in {"ok", "err"}
        BY <1>1, <3>2, <3>4 DEF IInv, TypeOK, Verdict
      <4>2. ~(Says(a.cmd, "ok") /\ Says(a.cmd, "err"))
        BY <1>1, <3>2 DEF IInv, Rules, Answers
      <4>3. QED
        BY <3>3, <4>1, <4>2
    <3>5. QED
      BY <1>1, <3>1, <3>2, <3>4 DEF IInv, TypeOK
  <2>2. CASE \E c \in Cmd : Issue(c) \/ GiveUp(c)
    BY <2>2 DEF Issue, GiveUp
  <2>3. CASE Connect \/ Drop \/ Snapshot \/ \E c \in Cmd : Resend(c)
    BY <2>3 DEF Connect, Drop, Snapshot, Resend, signalVars
  <2>4. CASE HostNext \/ RelayNext
    BY <2>4 DEF HostNext, HostDrop, HostReconnect, Deliver, Serve, Replied, Complete, RelayNext,
                LoseFrame, LoseAck, Age, clientVars, signalVars
  <2>5. QED
    BY <1>1, <2>1, <2>2, <2>3, <2>4 DEF SessionNext, ClientNext
<1>2. IInv /\ [SessionNext]_vars => [Final]_vars
  BY <1>1
<1>3. SessionSpec => [][SessionNext]_vars
  BY DEF SessionSpec
<1>4. QED
  BY <1>2, <1>3, SessionIInv, PTL DEF VerdictIsFinal
=============================================================================
