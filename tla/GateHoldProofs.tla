--------------------------- MODULE GateHoldProofs ---------------------------
(***************************************************************************)
(* However many agents, operators, wakers and viewers share the session    *)
(* registry, a session that shows a gate as approved is about a gate that  *)
(* was, no agent spins on a resolution that is used up, and none is given  *)
(* the raw gate while the run is there.                                    *)
(***************************************************************************)
EXTENDS GateHold, TLAPS

\* The gate a payload shows has been passed.
Decided(s) == s.gate < gates \/ ~standing

Sound(s) == s.gate <= gates /\ (s.status = "approved" => Decided(s))

\* What a thread is about to write back.
Payload(p) ==
    /\ Sound(copy[p])
    /\ pc[p] \in {"put", "markput"} => copy[p].status = "pending"
    /\ pc[p] \in {"put", "markput", "land", "flip", "wakeput"} => copy[p].kind # "none"
    /\ pc[p] \notin Showing => after[p] = "idle"

\* While the run is there, so is the session of an agent that has shown it.
Present(a) ==
    exists => /\ pc[a] \in Holding \cup {"mirror", "raise"} => slot.kind # "none"
              /\ pc[a] \in {"recheck", "wait"} => open[a]

\* An agent that has used a resolution up looks at the session again only when
\* it is pending, or when the run is gone.
Spent(a) ==
    Resolved(slot) /\ ~fresh[a] =>
        \/ pc[a] = "retick"
        \/ pc[a] \in {"read", "put"} /\ after[a] = "reraise"
        \/ ~exists /\ pc[a] \notin Holding \cup {"raise"} /\ after[a] \notin {"raise", "look"}

Thread(p) ==
    /\ Payload(p)
    /\ p \in Agent => Present(p) /\ Spent(p) /\ (told[p] = "gate" => ~exists)

Registry ==
    /\ Sound(slot)
    /\ pc[Resetter] = "retire" => ~exists

IInv == TypeOK /\ Registry /\ \A p \in Proc : Thread(p)

-----------------------------------------------------------------------------
(* Payloads, and the steps of one thread *)

LEMMA Fields ==
  ASSUME NEW s \in Session \cup {NoSession}
  PROVE  /\ s.kind \in {"none", "review", "question"}
         /\ s.status \in {"pending", "woken"} \cup Verdicts
         /\ s.gate \in 0..MaxGates
         /\ s.kind = "none" <=> s = NoSession
         /\ s = NoSession <=> s \notin Session
  BY GateAssumption DEF Session, NoSession, Verdicts

LEMMA WithStatus ==
  ASSUME NEW s \in Session \cup {NoSession}, s.kind # "none",
         NEW status \in {"pending", "woken"} \cup Verdicts
  PROVE  LET t == [s EXCEPT !.status = status]
         IN  /\ t \in Session
             /\ t.kind = s.kind /\ t.gate = s.gate /\ t.status = status
<1>1. s \in Session
  BY Fields
<1>2. QED
  BY <1>1 DEF Session

\* A thread's step leaves the state of the others to them.
Alone(p) ==
    \A q \in Proc \ {p} :
        /\ pc'[q] = pc[q] /\ after'[q] = after[q] /\ copy'[q] = copy[q]
        /\ open'[q] = open[q] \/ ~exists'
        /\ q \in Agent => told'[q] = told[q] /\ (fresh'[q] = fresh[q] \/ fresh'[q] = TRUE)

\* What is written to the registry is sound, and either unresolved or news to
\* every agent.
Writes ==
    \/ slot' = slot
    \/ /\ Sound(slot)'
       /\ slot'.kind # "none" \/ ~exists'
       /\ ~Resolved(slot)' \/ \A a \in Agent : fresh'[a] = TRUE

LEMMA ThreadIInv ==
  ASSUME IInv, NEW p \in Proc, TypeOK', Alone(p), Writes,
         exists' = exists \/ exists' = FALSE, gates' = gates,
         standing' = standing \/ standing' = FALSE,
         pc'[Resetter] = "retire" => ~exists' \/ pc[Resetter] = "retire",
         Thread(p)'
  PROVE  IInv'
<1>1. \A s : (Sound(s) => s.gate <= gates' /\ (s.status = "approved" => s.gate < gates' \/ ~standing'))
             /\ (Decided(s) => s.gate < gates' \/ ~standing')
  BY DEF Sound, Decided
<1>2. Registry'
  <2>1. Sound(slot)'
    BY <1>1 DEF IInv, Registry, Writes, Sound, Decided
  <2>2. QED
    BY <2>1 DEF IInv, Registry
<1>3. ASSUME NEW q \in Proc \ {p} PROVE Thread(q)'
  <2>1. /\ pc'[q] = pc[q] /\ after'[q] = after[q] /\ copy'[q] = copy[q]
        /\ open'[q] = open[q] \/ ~exists'
        /\ q \in Agent => told'[q] = told[q] /\ (fresh'[q] = fresh[q] \/ fresh'[q] = TRUE)
    BY DEF Alone
  <2>2. Thread(q)
    BY DEF IInv
  <2>3. Payload(q)'
    BY <1>1, <2>1, <2>2 DEF Thread, Payload, Sound, Decided
  <2>4. CASE q \in Agent
    <3>1. Present(q)'
      BY <2>1, <2>2, <2>4 DEF Thread, Present, Writes
    <3>2. Spent(q)'
      BY <2>1, <2>2, <2>4 DEF Thread, Spent, Writes, Resolved
    <3>3. QED
      BY <2>1, <2>2, <2>3, <2>4, <3>1, <3>2 DEF Thread
  <2>5. QED
    BY <2>3, <2>4 DEF Thread
<1>4. QED
  BY <1>2, <1>3 DEF IInv

LEMMA Moved ==
  ASSUME TypeOK, NEW p \in Proc, NEW l \in PCs, Goto(p, l)
  PROVE  /\ pc' \in [Proc -> PCs] /\ pc'[p] = l
         /\ \A q \in Proc \ {p} : pc'[q] = pc[q]
  BY DEF TypeOK, Goto

LEMMA Held ==
  ASSUME TypeOK, NEW p \in Proc, NEW s \in Session \cup {NoSession}, Hold(p, s)
  PROVE  /\ copy' \in [Proc -> Session \cup {NoSession}] /\ copy'[p] = s
         /\ \A q \in Proc \ {p} : copy'[q] = copy[q]
  BY DEF TypeOK, Hold

LEMMA Returned ==
  ASSUME TypeOK, NEW p \in Proc, Return(p)
  PROVE  /\ pc' \in [Proc -> PCs] /\ pc'[p] = after[p]
         /\ \A q \in Proc \ {p} : pc'[q] = pc[q]
         /\ after' \in [Proc -> {"idle", "raise", "look", "reraise", "markget"}]
         /\ after'[p] = "idle" /\ \A q \in Proc \ {p} : after'[q] = after[q]
<1>1. after[p] \in {"idle", "raise", "look", "reraise", "markget"}
  BY DEF TypeOK
<1>2. after[p] \in PCs
  BY <1>1 DEF PCs, Holding
<1>3. QED
  BY <1>2 DEF Return, Goto, TypeOK

LEMMA Showed ==
  ASSUME TypeOK, NEW p \in Proc, NEW then \in {"idle", "raise", "look", "reraise", "markget"},
         Show(p, then)
  PROVE  /\ pc' \in [Proc -> PCs] /\ pc'[p] = "read"
         /\ \A q \in Proc \ {p} : pc'[q] = pc[q]
         /\ after' \in [Proc -> {"idle", "raise", "look", "reraise", "markget"}]
         /\ after'[p] = then /\ \A q \in Proc \ {p} : after'[q] = after[q]
<1>1. "read" \in PCs
  BY DEF PCs, Showing
<1>2. QED
  BY <1>1 DEF Show, Goto, TypeOK

\* The state of a thread besides its place in the registry is well typed, and
\* what is another's is left alone.
Own(p) ==
    /\ pc' \in [Proc -> PCs] /\ \A q \in Proc \ {p} : pc'[q] = pc[q]
    /\ after' \in [Proc -> {"idle", "raise", "look", "reraise", "markget"}]
    /\ \A q \in Proc \ {p} : after'[q] = after[q]
    /\ act' \in [Proc -> {"none", "work", "gate"}]
    /\ copy' \in [Proc -> Session \cup {NoSession}]
    /\ \A q \in Proc \ {p} : copy'[q] = copy[q]
    /\ told' \in [Agent -> {"nothing", "work", "keepalive", "gate", "error"}]
    /\ \A a \in Agent \ {p} : told'[a] = told[a]
    /\ fresh' \in [Agent -> BOOLEAN]
    /\ \A a \in Agent \ {p} : fresh'[a] = fresh[a] \/ fresh'[a] = TRUE

\* A step that leaves the registry alone, of a thread that is not subscribed.
LEMMA MoverIInv ==
  ASSUME IInv, NEW p \in Proc, UNCHANGED <<gates, slot, retired, open, news>>,
         exists' = exists \/ exists' = FALSE, standing' = standing \/ standing' = FALSE,
         atGate' \in BOOLEAN, atGate' => standing',
         question' \in BOOLEAN, pc[p] \notin {"recheck", "wait"}, Own(p),
         pc'[p] # "retire" \/ ~exists', Thread(p)'
  PROVE  IInv'
<1>1. TypeOK'
  <2>1. \A q \in Proc : open'[q] \/ news'[q] => pc'[q] \in {"recheck", "wait"}
    BY DEF IInv, TypeOK, Own
  <2>2. exists' \in BOOLEAN /\ standing' \in BOOLEAN
    BY DEF IInv, TypeOK
  <2>3. QED
    BY <2>1, <2>2 DEF IInv, TypeOK, Own
<1>2. Alone(p) /\ Writes
  BY DEF Alone, Own, Writes
<1>3. pc'[Resetter] = "retire" => ~exists' \/ pc[Resetter] = "retire"
  BY DEF Own, Proc
<1>4. QED
  BY <1>1, <1>2, <1>3, ThreadIInv

\* A thread that is not subscribed writes a payload.
LEMMA WriterIInv ==
  ASSUME IInv, NEW p \in Proc, NEW s \in Session, Upsert(s), UNCHANGED diskVars,
         Sound(s), s.status = "pending" \/ \A a \in Agent : fresh'[a] = TRUE,
         pc[p] \notin {"recheck", "wait"}, Own(p), pc'[p] # "retire", Thread(p)'
  PROVE  IInv'
<1>1. /\ slot' = s /\ open' = open /\ retired' = retired
      /\ news' = [q \in Proc |-> news[q] \/ open[q]]
      /\ UNCHANGED <<exists, gates, standing, atGate, question>>
  BY DEF Upsert, diskVars
<1>2. news' \in [Proc -> BOOLEAN] /\ \A q \in Proc : news'[q] => news[q] \/ open[q]
  <2>1. \A q \in Proc : (news[q] \/ open[q]) \in BOOLEAN
    OBVIOUS
  <2>2. QED
    BY <1>1, <2>1, Zenon
<1>3. TypeOK'
  <2>1. \A q \in Proc : open'[q] \/ news'[q] => pc'[q] \in {"recheck", "wait"}
    BY <1>1, <1>2 DEF IInv, TypeOK, Own
  <2>2. QED
    BY <1>1, <1>2, <2>1 DEF IInv, TypeOK, Own
<1>4. Alone(p)
  BY <1>1 DEF Alone, Own
<1>5. Writes
  <2>1. Sound(slot)' /\ slot'.kind # "none"
    BY <1>1, Fields DEF Sound, Decided
  <2>2. ~Resolved(slot)' \/ \A a \in Agent : fresh'[a] = TRUE
    BY <1>1 DEF Resolved
  <2>3. QED
    BY <2>1, <2>2 DEF Writes
<1>6. pc'[Resetter] = "retire" => ~exists' \/ pc[Resetter] = "retire"
  BY DEF Own, Proc
<1>7. QED
  BY <1>1, <1>3, <1>4, <1>5, <1>6, ThreadIInv

\* The payload of nobody.
LEMMA Nothing == ASSUME TypeOK PROVE Sound(NoSession) /\ NoSession.kind = "none"
  BY GateAssumption DEF TypeOK, Sound, NoSession

-----------------------------------------------------------------------------
(* create_show *)

LEMMA ShowReadIInv == ASSUME IInv, NEW p \in Proc, ShowRead(p) PROVE IInv'
<1> USE DEF IInv
<1>1. /\ pc[p] = "read" /\ UNCHANGED <<exists, gates, standing, atGate, question, slot, retired, news, open,
                                       told, fresh, act>>
  BY DEF ShowRead, At, DiskUnchanged, diskVars, RegistryUnchanged, OthersUnchanged
<1>2. Thread(p)
  OBVIOUS
<1>3. CASE exists
  <2> DEFINE s == Review("pending", IF atGate THEN gates ELSE 0)
  <2>1. Hold(p, s) /\ Goto(p, "put") /\ after' = after
    BY <1>3 DEF ShowRead
  <2>2. s \in Session /\ s.kind = "review" /\ s.status = "pending" /\ s.gate <= gates
    BY GateAssumption DEF TypeOK, Review, Session
  <2> HIDE DEF s
  <2>3. /\ pc' \in [Proc -> PCs] /\ pc'[p] = "put" /\ \A q \in Proc \ {p} : pc'[q] = pc[q]
    BY <2>1, Moved DEF PCs, Showing
  <2>4. /\ copy' \in [Proc -> Session \cup {NoSession}] /\ copy'[p] = s
        /\ \A q \in Proc \ {p} : copy'[q] = copy[q]
    BY <2>1, <2>2, Held
  <2>5. Own(p)
    BY <1>1, <2>1, <2>3, <2>4 DEF Own, TypeOK
  <2>6. Thread(p)'
    BY <1>1, <1>2, <1>3, <2>1, <2>2, <2>3, <2>4 DEF Thread, Payload, Sound, Decided, Present, Spent,
       Holding, Showing
  <2>7. QED
    BY <1>1, <2>3, <2>5, <2>6, MoverIInv DEF TypeOK
<1>4. CASE ~exists
  <2>1. Return(p) /\ copy' = copy
    BY <1>4 DEF ShowRead
  <2>2. Own(p)
    BY <1>1, <2>1, Returned DEF Own, TypeOK
  <2>3. pc'[p] = after[p] /\ after'[p] = "idle"
        /\ after[p] \in {"idle", "raise", "look", "reraise", "markget"}
    BY <2>1, Returned DEF TypeOK
  <2>4. Thread(p)'
    BY <1>1, <1>2, <1>4, <2>1, <2>3 DEF Thread, Payload, Sound, Decided, Present, Spent,
       Holding, Showing
  <2>5. QED
    BY <1>1, <2>2, <2>3, <2>4, MoverIInv DEF TypeOK
<1>5. QED
  BY <1>3, <1>4

LEMMA ShowPutIInv == ASSUME IInv, NEW p \in Proc, ShowPut(p) PROVE IInv'
<1> USE DEF IInv
<1>1. /\ pc[p] = "put" /\ Upsert(copy[p]) /\ Hold(p, NoSession) /\ Goto(p, "mirror")
      /\ UNCHANGED <<diskVars, told, fresh, after, act>>
  BY DEF ShowPut, At, Forget, DiskUnchanged, OthersUnchanged
<1>2. Thread(p)
  OBVIOUS
<1>3. copy[p] \in Session /\ copy[p].status = "pending" /\ Sound(copy[p]) /\ copy[p].kind # "none"
  <2>1. copy[p] \in Session \cup {NoSession}
    BY DEF TypeOK
  <2>2. QED
    BY <1>1, <1>2, <2>1, Fields DEF Thread, Payload
<1>4. /\ pc' \in [Proc -> PCs] /\ pc'[p] = "mirror" /\ \A q \in Proc \ {p} : pc'[q] = pc[q]
  BY <1>1, Moved DEF PCs, Showing
<1>5. /\ copy' \in [Proc -> Session \cup {NoSession}] /\ copy'[p] = NoSession
      /\ \A q \in Proc \ {p} : copy'[q] = copy[q]
  BY <1>1, Held
<1>6. Own(p)
  BY <1>1, <1>4, <1>5 DEF Own, TypeOK
<1>7. Thread(p)'
  <2>1. slot' = copy[p] /\ UNCHANGED <<exists, gates, standing, atGate>>
    BY <1>1 DEF Upsert, diskVars
  <2>2. Payload(p)'
    BY <1>4, <1>5, <2>1, Nothing DEF Payload, Sound, Decided, Showing, NoSession
  <2>3. QED
    BY <1>1, <1>2, <1>3, <1>4, <2>1, <2>2 DEF Thread, Present, Spent, Resolved
<1>8. QED
  BY <1>1, <1>3, <1>4, <1>6, <1>7, WriterIInv

LEMMA ShowMirrorIInv == ASSUME IInv, NEW p \in Proc, ShowMirror(p) PROVE IInv'
<1> USE DEF IInv
<1>1. /\ pc[p] = "mirror"
      /\ UNCHANGED <<exists, gates, standing, atGate, question, slot, retired, news, open, told, fresh, act, copy>>
  BY DEF ShowMirror, At, DiskUnchanged, diskVars, RegistryUnchanged, OthersUnchanged
<1>2. Thread(p)
  OBVIOUS
<1>3. CASE question /\ exists
  <2>1. Goto(p, "mirrorput") /\ after' = after
    BY <1>3 DEF ShowMirror
  <2>2. /\ pc' \in [Proc -> PCs] /\ pc'[p] = "mirrorput" /\ \A q \in Proc \ {p} : pc'[q] = pc[q]
    BY <2>1, Moved DEF PCs, Showing
  <2>3. Own(p)
    BY <1>1, <2>1, <2>2 DEF Own, TypeOK
  <2>4. Thread(p)'
    BY <1>1, <1>2, <1>3, <2>1, <2>2 DEF Thread, Payload, Sound, Decided, Present, Spent,
       Holding, Showing
  <2>5. QED
    BY <1>1, <2>2, <2>3, <2>4, MoverIInv DEF TypeOK
<1>4. CASE ~(question /\ exists)
  <2>1. Return(p)
    BY <1>4 DEF ShowMirror
  <2>2. Own(p)
    BY <1>1, <2>1, Returned DEF Own, TypeOK
  <2>3. pc'[p] = after[p] /\ after'[p] = "idle"
        /\ after[p] \in {"idle", "raise", "look", "reraise", "markget"}
    BY <2>1, Returned DEF TypeOK
  <2>4. Thread(p)'
    BY <1>1, <1>2, <2>1, <2>3 DEF Thread, Payload, Sound, Decided, Present, Spent,
       Holding, Showing
  <2>5. QED
    BY <1>1, <2>2, <2>3, <2>4, MoverIInv DEF TypeOK
<1>5. QED
  BY <1>3, <1>4

LEMMA ShowMirrorPutIInv == ASSUME IInv, NEW p \in Proc, ShowMirrorPut(p) PROVE IInv'
<1> USE DEF IInv
<1>1. /\ pc[p] = "mirrorput" /\ Upsert(Mirror) /\ Return(p)
      /\ UNCHANGED <<diskVars, told, fresh, act, copy>>
  BY DEF ShowMirrorPut, At, DiskUnchanged, OthersUnchanged
<1>2. Thread(p)
  OBVIOUS
<1>3. Mirror \in Session /\ Mirror.status = "pending" /\ Sound(Mirror) /\ Mirror.kind # "none"
  BY GateAssumption DEF Mirror, Session, Sound, TypeOK
<1>4. Own(p)
  BY <1>1, Returned DEF Own, TypeOK
<1>5. pc'[p] = after[p] /\ after'[p] = "idle"
      /\ after[p] \in {"idle", "raise", "look", "reraise", "markget"}
  BY <1>1, Returned DEF TypeOK
<1>6. Thread(p)'
  <2>1. slot' = Mirror /\ UNCHANGED <<exists, gates, standing, atGate, copy>>
    BY <1>1 DEF Upsert, diskVars
  <2>2. QED
    BY <1>1, <1>2, <1>3, <1>5, <2>1 DEF Thread, Payload, Sound, Decided, Present, Spent, Resolved
<1>7. QED
  BY <1>1, <1>3, <1>4, <1>5, <1>6, WriterIInv

-----------------------------------------------------------------------------
(* darkrun_advance *)

LEMMA Answered ==
  ASSUME TypeOK, NEW a \in Agent, NEW what \in {"nothing", "work", "keepalive", "gate", "error"},
         Answer(a, what)
  PROVE  /\ pc' \in [Proc -> PCs] /\ pc'[a] = "idle"
         /\ \A q \in Proc \ {a} : pc'[q] = pc[q]
         /\ told' \in [Agent -> {"nothing", "work", "keepalive", "gate", "error"}]
         /\ told'[a] = what /\ \A q \in Agent \ {a} : told'[q] = told[q]
         /\ act' \in [Proc -> {"none", "work", "gate"}]
<1>1. a \in Proc /\ "idle" \in PCs
  BY DEF Proc, PCs
<1>2. QED
  BY <1>1 DEF Answer, Goto, TypeOK

\* A step of an agent's hold: its receiver comes, is read or goes.
LEMMA HolderIInv ==
  ASSUME IInv, NEW a \in Agent, UNCHANGED <<diskVars, slot, retired>>, Own(a),
         open' \in [Proc -> BOOLEAN], \A q \in Proc \ {a} : open'[q] = open[q],
         news' \in [Proc -> BOOLEAN], \A q \in Proc \ {a} : news'[q] = news[q],
         open'[a] \/ news'[a] => pc'[a] \in {"recheck", "wait"},
         pc'[a] # "retire", Thread(a)'
  PROVE  IInv'
<1>1. a \in Proc /\ UNCHANGED <<exists, gates, standing, atGate, question, slot, retired>>
  BY DEF Proc, diskVars
<1>2. TypeOK'
  <2>1. \A q \in Proc : open'[q] \/ news'[q] => pc'[q] \in {"recheck", "wait"}
    BY DEF IInv, TypeOK, Own
  <2>2. QED
    BY <1>1, <2>1 DEF IInv, TypeOK, Own
<1>3. Alone(a) /\ Writes
  BY <1>1 DEF Alone, Own, Writes
<1>4. pc'[Resetter] = "retire" => ~exists' \/ pc[Resetter] = "retire"
  BY DEF Own, Proc
<1>5. QED
  BY <1>1, <1>2, <1>3, <1>4, ThreadIInv

LEMMA CallIInv == ASSUME IInv, NEW a \in Agent, Call(a) PROVE IInv'
<1> USE DEF IInv
<1>1. /\ pc[a] = "idle" /\ Goto(a, "tick") /\ told' = [told EXCEPT ![a] = "nothing"]
      /\ UNCHANGED <<exists, gates, standing, atGate, question, slot, retired, news, open, after, act, copy, fresh>>
  BY DEF Call, At, DiskUnchanged, diskVars, RegistryUnchanged
<1>2. a \in Proc /\ Thread(a)
  BY DEF Proc
<1>3. /\ pc' \in [Proc -> PCs] /\ pc'[a] = "tick" /\ \A q \in Proc \ {a} : pc'[q] = pc[q]
  BY <1>1, <1>2, Moved DEF PCs
<1>4. Own(a) /\ told'[a] = "nothing"
  BY <1>1, <1>3 DEF Own, TypeOK
<1>5. Thread(a)'
  BY <1>1, <1>2, <1>3, <1>4 DEF Thread, Payload, Sound, Decided, Present, Spent, Holding, Showing
<1>6. QED
  BY <1>1, <1>2, <1>3, <1>4, <1>5, MoverIInv DEF TypeOK

LEMMA TickIInv ==
  ASSUME IInv, NEW a \in Agent, NEW from, NEW then, Tick(a, from, then),
         (from = "tick" /\ then = "raise") \/ (from = "retick" /\ then = "reraise")
  PROVE  IInv'
<1> USE DEF IInv
<1>1. /\ pc[a] = from
      /\ UNCHANGED <<exists, gates, standing, atGate, question, slot, retired, news, open, copy, fresh>>
  BY DEF Tick, At, DiskUnchanged, diskVars, RegistryUnchanged
<1>2. a \in Proc /\ Thread(a)
  BY DEF Proc
<1>3. CASE exists
  <2>1. /\ act' = [act EXCEPT ![a] = IF atGate THEN "gate" ELSE "work"]
        /\ Show(a, then) /\ told' = told
    BY <1>3 DEF Tick
  <2>2. /\ pc' \in [Proc -> PCs] /\ pc'[a] = "read" /\ \A q \in Proc \ {a} : pc'[q] = pc[q]
        /\ after' \in [Proc -> {"idle", "raise", "look", "reraise", "markget"}]
        /\ after'[a] = then /\ \A q \in Proc \ {a} : after'[q] = after[q]
    BY <1>2, <2>1, Showed
  <2>3. Own(a)
    BY <1>1, <1>2, <2>1, <2>2 DEF Own, TypeOK
  <2>4. Thread(a)'
    BY <1>1, <1>2, <1>3, <2>1, <2>2 DEF Thread, Payload, Sound, Decided, Present, Spent,
       Holding, Showing
  <2>5. QED
    BY <1>1, <1>2, <2>2, <2>3, <2>4, MoverIInv DEF TypeOK
<1>4. CASE ~exists
  <2>1. Answer(a, "error") /\ after' = after
    BY <1>4 DEF Tick
  <2>2. Own(a) /\ pc'[a] = "idle" /\ told'[a] = "error"
    BY <1>1, <2>1, Answered DEF Own, TypeOK
  <2>3. Thread(a)'
    BY <1>1, <1>2, <1>4, <2>1, <2>2 DEF Thread, Payload, Sound, Decided, Present, Spent,
       Holding, Showing
  <2>4. QED
    BY <1>1, <1>2, <2>2, <2>3, MoverIInv DEF TypeOK
<1>5. QED
  BY <1>3, <1>4

LEMMA RaiseIInv ==
  ASSUME IInv, NEW a \in Agent, NEW from, NEW then, Raise(a, from, then),
         (from = "raise" /\ then = "look") \/ (from = "reraise" /\ then = "markget")
  PROVE  IInv'
<1> USE DEF IInv
<1>1. /\ pc[a] = from
      /\ UNCHANGED <<exists, gates, standing, atGate, question, slot, retired, news, open, copy, fresh>>
  BY DEF Raise, At, DiskUnchanged, diskVars, RegistryUnchanged
<1>2. a \in Proc /\ Thread(a) /\ then \in {"look", "markget"}
  BY DEF Proc
<1>3. CASE Answer(a, "work") /\ after' = after
  <2>1. Own(a) /\ pc'[a] = "idle" /\ told'[a] = "work"
    BY <1>1, <1>3, Answered DEF Own, TypeOK
  <2>2. Thread(a)'
    BY <1>1, <1>2, <1>3, <2>1 DEF Thread, Payload, Sound, Decided, Present, Spent, Holding, Showing
  <2>3. QED
    BY <1>1, <1>2, <2>1, <2>2, MoverIInv DEF TypeOK
<1>4. CASE Show(a, then) /\ UNCHANGED <<told, act>>
  <2>1. /\ pc' \in [Proc -> PCs] /\ pc'[a] = "read" /\ \A q \in Proc \ {a} : pc'[q] = pc[q]
        /\ after' \in [Proc -> {"idle", "raise", "look", "reraise", "markget"}]
        /\ after'[a] = then /\ \A q \in Proc \ {a} : after'[q] = after[q]
    BY <1>2, <1>4, Showed
  <2>2. Own(a)
    BY <1>1, <1>4, <2>1 DEF Own, TypeOK
  <2>3. Thread(a)'
    BY <1>1, <1>2, <1>4, <2>1 DEF Thread, Payload, Sound, Decided, Present, Spent, Holding, Showing
  <2>4. QED
    BY <1>1, <1>2, <2>1, <2>2, <2>3, MoverIInv DEF TypeOK
<1>5. CASE Goto(a, then) /\ UNCHANGED <<told, act, after>>
  <2>1. /\ pc' \in [Proc -> PCs] /\ pc'[a] = then /\ \A q \in Proc \ {a} : pc'[q] = pc[q]
    BY <1>2, <1>5, Moved DEF PCs, Holding
  <2>2. Own(a)
    BY <1>1, <1>5, <2>1 DEF Own, TypeOK
  <2>3. Thread(a)'
    BY <1>1, <1>2, <1>5, <2>1 DEF Thread, Payload, Sound, Decided, Present, Spent, Holding, Showing
  <2>4. QED
    BY <1>1, <1>2, <2>1, <2>2, <2>3, MoverIInv DEF TypeOK
<1>6. QED
  BY <1>3, <1>4, <1>5 DEF Raise

\* A hold takes a resolution up only while it is news to the agent.
LEMMA HoldingFresh ==
  ASSUME IInv, NEW a \in Agent, pc[a] \in Holding
  PROVE  Resolved(slot) => fresh[a]
<1>1. a \in Proc /\ Thread(a)
  BY DEF IInv, Proc
<1>2. pc[a] \notin {"retick", "read", "put"}
  BY DEF Holding
<1>3. QED
  BY <1>1, <1>2 DEF Thread, Spent

LEMMA TakeIInv ==
  ASSUME IInv, NEW a \in Agent, pc[a] \in Holding, TakeResolution(a), HoldUnchanged
  PROVE  IInv'
<1> USE DEF IInv
<1>1. /\ Goto(a, "retick") /\ fresh' = [fresh EXCEPT ![a] = FALSE]
      /\ open' = [open EXCEPT ![a] = FALSE] /\ news' = [news EXCEPT ![a] = FALSE]
      /\ UNCHANGED <<told, act, diskVars, slot, retired, after, copy>>
  BY DEF TakeResolution, HoldUnchanged, DiskUnchanged
<1>2. a \in Proc /\ Thread(a)
  BY DEF Proc
<1>3. /\ pc' \in [Proc -> PCs] /\ pc'[a] = "retick" /\ \A q \in Proc \ {a} : pc'[q] = pc[q]
  BY <1>1, <1>2, Moved DEF PCs
<1>4. /\ open' \in [Proc -> BOOLEAN] /\ news' \in [Proc -> BOOLEAN] /\ ~open'[a] /\ ~news'[a]
      /\ \A q \in Proc \ {a} : open'[q] = open[q] /\ news'[q] = news[q]
  BY <1>1, <1>2 DEF TypeOK
<1>5. Own(a)
  BY <1>1, <1>2, <1>3 DEF Own, TypeOK
<1>6. Thread(a)'
  BY <1>1, <1>2, <1>3 DEF Thread, Payload, Sound, Decided, Present, Spent, Holding, Showing, diskVars
<1>7. QED
  BY <1>1, <1>3, <1>4, <1>5, <1>6, HolderIInv

LEMMA GiveBackIInv ==
  ASSUME IInv, NEW a \in Agent, pc[a] \in Holding, NEW what \in {"keepalive", "gate"},
         what = "gate" => ~exists, GiveBack(a, what), HoldUnchanged
  PROVE  IInv'
<1> USE DEF IInv
<1>1. /\ Answer(a, what) /\ fresh' = fresh
      /\ open' = [open EXCEPT ![a] = FALSE] /\ news' = [news EXCEPT ![a] = FALSE]
      /\ UNCHANGED <<diskVars, slot, retired, after, copy>>
  BY DEF GiveBack, HoldUnchanged, DiskUnchanged
<1>2. a \in Proc /\ Thread(a) /\ (Resolved(slot) => fresh[a])
  BY HoldingFresh DEF Proc
<1>3. /\ open' \in [Proc -> BOOLEAN] /\ news' \in [Proc -> BOOLEAN] /\ ~open'[a] /\ ~news'[a]
      /\ \A q \in Proc \ {a} : open'[q] = open[q] /\ news'[q] = news[q]
  BY <1>1, <1>2 DEF TypeOK
<1>4. Own(a) /\ pc'[a] = "idle" /\ told'[a] = what
  BY <1>1, Answered DEF Own, TypeOK
<1>5. Thread(a)'
  <2>1. Payload(a)'
    BY <1>1, <1>2, <1>4 DEF Thread, Payload, Sound, Decided, Holding, Showing, diskVars
  <2>2. Present(a)' /\ Spent(a)'
    BY <1>1, <1>2, <1>4 DEF Present, Spent, Resolved, Holding
  <2>3. QED
    BY <1>1, <1>4, <2>1, <2>2 DEF Thread, diskVars
<1>6. QED
  BY <1>1, <1>3, <1>4, <1>5, HolderIInv

\* The session of a hold is there while the run is, and so is its channel.
LEMMA HoldingPresent ==
  ASSUME IInv, NEW a \in Agent, pc[a] \in Holding
  PROVE  /\ slot = NoSession => ~exists
         /\ pc[a] \in {"recheck", "wait"} /\ ~open[a] => ~exists
<1>1. a \in Proc /\ Thread(a)
  BY DEF IInv, Proc
<1>2. NoSession.kind = "none"
  BY DEF NoSession
<1>3. QED
  BY <1>1, <1>2 DEF Thread, Present

LEMMA LookIInv == ASSUME IInv, NEW a \in Agent, Look(a) PROVE IInv'
<1> USE DEF IInv
<1>1. pc[a] = "look" /\ pc[a] \in Holding /\ HoldUnchanged
  BY DEF Look, At, Holding
<1>2. a \in Proc /\ Thread(a)
  BY DEF Proc
<1>3. CASE TakeResolution(a)
  BY <1>1, <1>3, TakeIInv
<1>4. CASE slot = NoSession /\ GiveBack(a, "gate")
  BY <1>1, <1>4, HoldingPresent, GiveBackIInv
<1>5. CASE slot # NoSession /\ Goto(a, "subscribe") /\ UNCHANGED <<open, news, told, act, fresh>>
  <2>1. UNCHANGED <<exists, gates, standing, atGate, question, slot, retired, after, copy>>
    BY <1>1 DEF HoldUnchanged, DiskUnchanged, diskVars
  <2>2. /\ pc' \in [Proc -> PCs] /\ pc'[a] = "subscribe" /\ \A q \in Proc \ {a} : pc'[q] = pc[q]
    BY <1>2, <1>5, Moved DEF PCs, Holding
  <2>3. Own(a)
    BY <1>5, <2>1, <2>2 DEF Own, TypeOK
  <2>4. Thread(a)'
    BY <1>1, <1>2, <1>5, <2>1, <2>2 DEF Thread, Payload, Sound, Decided, Present, Spent,
       Holding, Showing
  <2>5. QED
    BY <1>1, <1>2, <1>5, <2>1, <2>2, <2>3, <2>4, MoverIInv DEF TypeOK
<1>6. QED
  BY <1>3, <1>4, <1>5 DEF Look

LEMMA SubscribeIInv == ASSUME IInv, NEW a \in Agent, Subscribe(a) PROVE IInv'
<1> USE DEF IInv
<1>1. pc[a] = "subscribe" /\ pc[a] \in Holding /\ HoldUnchanged
  BY DEF Subscribe, At, Holding
<1>2. a \in Proc /\ Thread(a)
  BY DEF Proc
<1>3. CASE slot = NoSession
  BY <1>1, <1>3, HoldingPresent, GiveBackIInv DEF Subscribe
<1>4. CASE slot # NoSession
  <2>1. /\ open' = [open EXCEPT ![a] = TRUE] /\ Goto(a, "recheck")
        /\ UNCHANGED <<news, told, act, fresh, diskVars, slot, retired, after, copy>>
    BY <1>1, <1>4 DEF Subscribe, HoldUnchanged, DiskUnchanged
  <2>2. /\ pc' \in [Proc -> PCs] /\ pc'[a] = "recheck" /\ \A q \in Proc \ {a} : pc'[q] = pc[q]
    BY <1>2, <2>1, Moved DEF PCs, Holding
  <2>3. /\ open' \in [Proc -> BOOLEAN] /\ open'[a] /\ news' \in [Proc -> BOOLEAN]
        /\ \A q \in Proc \ {a} : open'[q] = open[q] /\ news'[q] = news[q]
    BY <1>2, <2>1 DEF TypeOK
  <2>4. Own(a)
    BY <2>1, <2>2 DEF Own, TypeOK
  <2>5. Thread(a)'
    BY <1>1, <1>2, <2>1, <2>2, <2>3 DEF Thread, Payload, Sound, Decided, Present, Spent,
       Holding, Showing, diskVars
  <2>6. QED
    BY <2>1, <2>2, <2>3, <2>4, <2>5, HolderIInv
<1>5. QED
  BY <1>3, <1>4

LEMMA RecheckIInv == ASSUME IInv, NEW a \in Agent, Recheck(a) PROVE IInv'
<1> USE DEF IInv
<1>1. pc[a] = "recheck" /\ pc[a] \in Holding /\ HoldUnchanged
  BY DEF Recheck, At, Holding
<1>2. a \in Proc /\ Thread(a)
  BY DEF Proc
<1>3. CASE Resolved(slot)
  BY <1>1, <1>3, TakeIInv DEF Recheck
<1>4. CASE ~Resolved(slot)
  <2>1. Goto(a, "wait") /\ UNCHANGED <<open, news, told, act, fresh, diskVars, slot, retired, after, copy>>
    BY <1>1, <1>4 DEF Recheck, HoldUnchanged, DiskUnchanged
  <2>2. /\ pc' \in [Proc -> PCs] /\ pc'[a] = "wait" /\ \A q \in Proc \ {a} : pc'[q] = pc[q]
    BY <1>2, <2>1, Moved DEF PCs, Holding
  <2>3. open' \in [Proc -> BOOLEAN] /\ news' \in [Proc -> BOOLEAN]
    BY <2>1 DEF TypeOK
  <2>4. Own(a)
    BY <2>1, <2>2 DEF Own, TypeOK
  <2>5. Thread(a)'
    BY <1>1, <1>2, <1>4, <2>1, <2>2 DEF Thread, Payload, Sound, Decided, Present, Spent,
       Resolved, Holding, Showing, diskVars
  <2>6. QED
    BY <2>1, <2>2, <2>3, <2>4, <2>5, HolderIInv
<1>5. QED
  BY <1>3, <1>4

LEMMA ReceiveIInv == ASSUME IInv, NEW a \in Agent, Receive(a) PROVE IInv'
<1> USE DEF IInv
<1>1. pc[a] = "wait" /\ pc[a] \in Holding /\ HoldUnchanged
  BY DEF Receive, At, Holding
<1>2. a \in Proc /\ Thread(a)
  BY DEF Proc
<1>3. CASE TakeResolution(a)
  BY <1>1, <1>3, TakeIInv
<1>4. CASE (slot = NoSession \/ ~open[a]) /\ GiveBack(a, "gate")
  BY <1>1, <1>4, HoldingPresent, GiveBackIInv
<1>5. CASE slot # NoSession /\ news' = [news EXCEPT ![a] = FALSE]
           /\ UNCHANGED <<pc, open, told, act, fresh>>
  <2>1. UNCHANGED <<diskVars, slot, retired, after, copy>>
    BY <1>1 DEF HoldUnchanged, DiskUnchanged
  <2>2. /\ open' \in [Proc -> BOOLEAN] /\ news' \in [Proc -> BOOLEAN]
        /\ \A q \in Proc \ {a} : open'[q] = open[q] /\ news'[q] = news[q]
    BY <1>2, <1>5 DEF TypeOK
  <2>3. Own(a)
    BY <1>5, <2>1 DEF Own, TypeOK
  <2>4. Thread(a)'
    BY <1>1, <1>2, <1>5, <2>1 DEF Thread, Payload, Sound, Decided, Present, Spent,
       Holding, Showing, diskVars
  <2>5. QED
    BY <1>1, <1>5, <2>1, <2>2, <2>3, <2>4, HolderIInv
<1>6. QED
  BY <1>3, <1>4, <1>5 DEF Receive

LEMMA TimeOutIInv == ASSUME IInv, NEW a \in Agent, TimeOut(a) PROVE IInv'
<1>1. pc[a] \in Holding /\ GiveBack(a, "keepalive") /\ HoldUnchanged
  BY DEF TimeOut, At, Holding
<1>2. QED
  BY <1>1, GiveBackIInv

LEMMA MarkGetIInv == ASSUME IInv, NEW a \in Agent, MarkGet(a) PROVE IInv'
<1> USE DEF IInv
<1>1. /\ pc[a] = "markget"
      /\ UNCHANGED <<exists, gates, standing, atGate, question, slot, retired, news, open, after, fresh>>
  BY DEF MarkGet, At, DiskUnchanged, diskVars, RegistryUnchanged
<1>2. a \in Proc /\ Thread(a) /\ slot \in Session \cup {NoSession} /\ Sound(slot)
  BY DEF Proc, TypeOK, Registry
<1>3. CASE slot = NoSession
  <2>1. Answer(a, "keepalive") /\ copy' = copy
    BY <1>3 DEF MarkGet
  <2>2. Own(a) /\ pc'[a] = "idle" /\ told'[a] = "keepalive"
    BY <1>1, <2>1, Answered DEF Own, TypeOK
  <2>3. Thread(a)'
    BY <1>1, <1>2, <2>1, <2>2 DEF Thread, Payload, Sound, Decided, Present, Spent, Holding, Showing
  <2>4. QED
    BY <1>1, <1>2, <2>2, <2>3, MoverIInv DEF TypeOK
<1>4. CASE slot # NoSession
  <2> DEFINE s == [slot EXCEPT !.status = "pending"]
  <2>1. Hold(a, s) /\ Goto(a, "markput") /\ UNCHANGED <<told, act>>
    BY <1>4 DEF MarkGet
  <2>2. s \in Session /\ s.kind # "none" /\ s.gate = slot.gate /\ s.status = "pending"
    BY <1>2, <1>4, Fields, WithStatus
  <2> HIDE DEF s
  <2>3. /\ pc' \in [Proc -> PCs] /\ pc'[a] = "markput" /\ \A q \in Proc \ {a} : pc'[q] = pc[q]
    BY <1>2, <2>1, Moved DEF PCs
  <2>4. /\ copy' \in [Proc -> Session \cup {NoSession}] /\ copy'[a] = s
        /\ \A q \in Proc \ {a} : copy'[q] = copy[q]
    BY <1>2, <2>1, <2>2, Held
  <2>5. Own(a)
    BY <1>1, <2>1, <2>3, <2>4 DEF Own, TypeOK
  <2>6. Thread(a)'
    BY <1>1, <1>2, <2>1, <2>2, <2>3, <2>4 DEF Thread, Payload, Sound, Decided, Present, Spent,
       Holding, Showing
  <2>7. QED
    BY <1>1, <1>2, <2>3, <2>5, <2>6, MoverIInv DEF TypeOK
<1>5. QED
  BY <1>3, <1>4

LEMMA MarkPutIInv == ASSUME IInv, NEW a \in Agent, MarkPut(a) PROVE IInv'
<1> USE DEF IInv
<1>1. /\ pc[a] = "markput" /\ Upsert(copy[a]) /\ Hold(a, NoSession) /\ Answer(a, "keepalive")
      /\ UNCHANGED <<diskVars, after, fresh>>
  BY DEF MarkPut, At, Forget, DiskUnchanged
<1>2. a \in Proc /\ Thread(a)
  BY DEF Proc
<1>3. copy[a] \in Session /\ copy[a].status = "pending" /\ Sound(copy[a]) /\ copy[a].kind # "none"
  <2>1. copy[a] \in Session \cup {NoSession}
    BY <1>2 DEF TypeOK
  <2>2. QED
    BY <1>1, <1>2, <2>1, Fields DEF Thread, Payload
<1>4. /\ copy' \in [Proc -> Session \cup {NoSession}] /\ copy'[a] = NoSession
      /\ \A q \in Proc \ {a} : copy'[q] = copy[q]
  BY <1>1, <1>2, Held
<1>5. Own(a) /\ pc'[a] = "idle" /\ told'[a] = "keepalive"
  BY <1>1, <1>4, Answered DEF Own, TypeOK
<1>6. Thread(a)'
  <2>1. slot' = copy[a] /\ UNCHANGED <<exists, gates, standing, atGate>>
    BY <1>1 DEF Upsert, diskVars
  <2>2. Payload(a)'
    BY <1>1, <1>2, <1>4, <1>5, <2>1, Nothing DEF Thread, Payload, Sound, Decided, Showing, NoSession
  <2>3. QED
    BY <1>3, <1>5, <2>1, <2>2 DEF Thread, Present, Spent, Resolved, Holding
<1>7. QED
  BY <1>1, <1>2, <1>3, <1>5, <1>6, WriterIInv

-----------------------------------------------------------------------------
(* The HTTP handlers and the other tools *)

\* A handler takes the session, or part of it, to change it later.
LEMMA GetIInv ==
  ASSUME IInv, NEW p \in Proc, NEW l \in {"land", "wakeput"}, pc[p] = "idle",
         slot.kind = "review", Hold(p, slot), Goto(p, l),
         UNCHANGED <<diskVars, slot, retired, news, open, told, fresh, after, act>>
  PROVE  IInv'
<1> USE DEF IInv
<1>1. UNCHANGED <<exists, gates, standing, atGate, question>>
  BY DEF diskVars
<1>2. Thread(p) /\ slot \in Session \cup {NoSession} /\ Sound(slot)
  BY DEF TypeOK, Registry
<1>3. /\ pc' \in [Proc -> PCs] /\ pc'[p] = l /\ \A q \in Proc \ {p} : pc'[q] = pc[q]
  BY Moved DEF PCs
<1>4. /\ copy' \in [Proc -> Session \cup {NoSession}] /\ copy'[p] = slot
      /\ \A q \in Proc \ {p} : copy'[q] = copy[q]
  BY <1>2, Held
<1>5. Own(p)
  BY <1>3, <1>4 DEF Own, TypeOK
<1>6. Thread(p)'
  BY <1>1, <1>2, <1>3, <1>4 DEF Thread, Payload, Sound, Decided, Present, Spent, Holding, Showing
<1>7. QED
  BY <1>1, <1>3, <1>5, <1>6, MoverIInv DEF TypeOK

LEMMA DecideGetIInv == ASSUME IInv, NEW o \in Operator, DecideGet(o) PROVE IInv'
  BY GetIInv DEF DecideGet, Proc, At, DiskUnchanged, RegistryUnchanged, OthersUnchanged

LEMMA WakeGetIInv == ASSUME IInv, NEW w \in Waker, WakeGet(w) PROVE IInv'
  BY GetIInv DEF WakeGet, Proc, At, DiskUnchanged, RegistryUnchanged, OthersUnchanged

\* What a verdict, landed or refused, does to the gate.
LEMMA GateMoves ==
  ASSUME TypeOK, NEW v, Decide(v) \/ Refused
  PROVE  /\ standing' = standing \/ standing' = FALSE
         /\ atGate' \in BOOLEAN /\ (atGate' => standing')
<1>1. atGate \in BOOLEAN /\ standing \in BOOLEAN /\ (atGate => standing)
  BY DEF TypeOK
<1>2. CASE standing' = FALSE /\ atGate' = FALSE
  BY <1>2
<1>3. CASE standing' = standing /\ atGate' = atGate
  BY <1>1, <1>3
<1>4. CASE standing' = standing /\ atGate' = FALSE
  BY <1>4
<1>5. QED
  BY <1>2, <1>3, <1>4, Zenon DEF Decide, Refused

LEMMA DecideLandIInv == ASSUME IInv, NEW o \in Operator, DecideLand(o) PROVE IInv'
<1> USE DEF IInv
<1>1. /\ pc[o] = "land"
      /\ UNCHANGED <<exists, gates, question, slot, retired, news, open, told, fresh, after, act>>
  BY DEF DecideLand, At, RegistryUnchanged, OthersUnchanged
<1>2. o \in Proc /\ Thread(o)
  BY DEF Proc
<1>3. /\ standing' = standing \/ standing' = FALSE
      /\ atGate' \in BOOLEAN /\ (atGate' => standing')
  <2>1. PICK v \in Verdicts : Decide(v) \/ Refused
    BY DEF DecideLand
  <2>2. QED
    BY <2>1, GateMoves
<1>4. ASSUME NEW v \in Verdicts, Decide(v), Hold(o, [copy[o] EXCEPT !.status = v]),
             Goto(o, "flip")
      PROVE  IInv'
  <2> DEFINE s == [copy[o] EXCEPT !.status = v]
  <2>1. copy[o] \in Session \cup {NoSession} /\ copy[o].kind # "none" /\ Sound(copy[o])
    BY <1>1, <1>2 DEF Thread, Payload, TypeOK
  <2>2. /\ s \in Session /\ s.kind = copy[o].kind /\ s.gate = copy[o].gate /\ s.status = v
    BY <2>1, WithStatus
  <2>3. Hold(o, s)
    BY <1>4
  <2> HIDE DEF s
  <2>4. s.gate <= gates' /\ (s.status = "approved" => ~standing')
    BY <1>1, <1>4, <2>1, <2>2 DEF Sound, Decide
  <2>5. /\ pc' \in [Proc -> PCs] /\ pc'[o] = "flip" /\ \A q \in Proc \ {o} : pc'[q] = pc[q]
    BY <1>2, <1>4, Moved DEF PCs
  <2>6. /\ copy' \in [Proc -> Session \cup {NoSession}] /\ copy'[o] = s
        /\ \A q \in Proc \ {o} : copy'[q] = copy[q]
    BY <1>2, <2>2, <2>3, Held
  <2>7. Own(o)
    BY <1>1, <2>5, <2>6 DEF Own, TypeOK
  <2>8. Payload(o)'
    BY <1>1, <1>2, <2>1, <2>2, <2>4, <2>5, <2>6 DEF Thread, Payload, Sound, Decided, Showing
  <2>9. Thread(o)'
    BY <1>1, <1>2, <2>5, <2>8 DEF Thread, Present, Spent, Holding
  <2>10. QED
    BY <1>1, <1>2, <1>3, <2>5, <2>7, <2>9, MoverIInv DEF TypeOK
<1>5. CASE Goto(o, "idle") /\ Hold(o, NoSession)
  <2>1. /\ pc' \in [Proc -> PCs] /\ pc'[o] = "idle" /\ \A q \in Proc \ {o} : pc'[q] = pc[q]
    BY <1>2, <1>5, Moved DEF PCs
  <2>2. /\ copy' \in [Proc -> Session \cup {NoSession}] /\ copy'[o] = NoSession
        /\ \A q \in Proc \ {o} : copy'[q] = copy[q]
    BY <1>2, <1>5, Held
  <2>3. Own(o)
    BY <1>1, <2>1, <2>2 DEF Own, TypeOK
  <2>4. Payload(o)'
    BY <1>1, <1>2, <1>5, <2>1, <2>2, Nothing DEF Thread, Payload, Sound, Decided, Showing, NoSession
  <2>5. Thread(o)'
    BY <1>1, <1>2, <1>5, <2>1, <2>4 DEF Thread, Present, Spent, Holding
  <2>6. QED
    BY <1>1, <1>2, <1>3, <1>5, <2>1, <2>3, <2>5, MoverIInv DEF TypeOK
<1>6. QED
  BY <1>4, <1>5 DEF DecideLand, Forget

\* A resolution is written, news to every agent.
LEMMA FlipIInv ==
  ASSUME IInv, NEW p \in Proc, NEW s \in Session, s.kind # "none", Sound(s),
         pc[p] \in {"flip", "wakeput"},
         Flip(s), Hold(p, NoSession), Goto(p, "idle"),
         UNCHANGED <<diskVars, after, act, told>>
  PROVE  IInv'
<1> USE DEF IInv
<1>1. /\ Upsert(s) /\ fresh' = [a \in Agent |-> TRUE]
      /\ UNCHANGED <<exists, gates, standing, atGate>>
  BY DEF Flip, diskVars
<1>2. Thread(p)
  OBVIOUS
<1>3. /\ pc' \in [Proc -> PCs] /\ pc'[p] = "idle" /\ \A q \in Proc \ {p} : pc'[q] = pc[q]
  BY Moved DEF PCs
<1>4. /\ copy' \in [Proc -> Session \cup {NoSession}] /\ copy'[p] = NoSession
      /\ \A q \in Proc \ {p} : copy'[q] = copy[q]
  BY Held
<1>5. Own(p)
  BY <1>1, <1>3, <1>4 DEF Own, TypeOK
<1>6. Thread(p)'
  <2>1. Payload(p)'
    BY <1>1, <1>2, <1>3, <1>4, Nothing DEF Thread, Payload, Sound, Decided, Showing, NoSession
  <2>2. QED
    BY <1>1, <1>2, <1>3, <2>1 DEF Thread, Present, Spent, Holding
<1>7. QED
  BY <1>1, <1>3, <1>5, <1>6, WriterIInv

LEMMA DecideFlipIInv == ASSUME IInv, NEW o \in Operator, DecideFlip(o) PROVE IInv'
<1>1. o \in Proc /\ pc[o] = "flip"
  BY DEF Proc, DecideFlip, At
<1>2. copy[o] \in Session \cup {NoSession} /\ copy[o].kind # "none" /\ Sound(copy[o])
  BY <1>1 DEF IInv, TypeOK, Thread, Payload
<1>3. copy[o] \in Session
  BY <1>2, Fields
<1>4. QED
  BY <1>1, <1>2, <1>3, FlipIInv DEF DecideFlip, At, Forget, DiskUnchanged

LEMMA WakePutIInv == ASSUME IInv, NEW w \in Waker, WakePut(w) PROVE IInv'
<1> DEFINE s == [copy[w] EXCEPT !.status = "woken"]
<1>1. w \in Proc /\ pc[w] = "wakeput"
  BY DEF Proc, WakePut, At
<1>2. copy[w] \in Session \cup {NoSession} /\ copy[w].kind # "none" /\ Sound(copy[w])
  BY <1>1 DEF IInv, TypeOK, Thread, Payload
<1>3. s \in Session /\ s.kind = copy[w].kind /\ s.gate = copy[w].gate /\ s.status = "woken"
  BY <1>2, WithStatus
<1>4. Flip(s)
  BY DEF WakePut
<1> HIDE DEF s
<1>5. Sound(s)
  BY <1>2, <1>3 DEF Sound
<1>6. QED
  BY <1>1, <1>2, <1>3, <1>4, <1>5, FlipIInv DEF WakePut, At, Forget, DiskUnchanged

\* A call that shows the run, having changed the disk or not.
LEMMA ShowsIInv ==
  ASSUME IInv, NEW p \in Proc, pc[p] = "idle", Show(p, "idle"),
         UNCHANGED <<exists, gates, act, copy, slot, retired, news, open, told, fresh>>,
         standing' = standing \/ standing' = FALSE, atGate' \in BOOLEAN,
         atGate' => standing', question' \in BOOLEAN
  PROVE  IInv'
<1> USE DEF IInv
<1>1. Thread(p)
  OBVIOUS
<1>2. /\ pc' \in [Proc -> PCs] /\ pc'[p] = "read" /\ \A q \in Proc \ {p} : pc'[q] = pc[q]
      /\ after' \in [Proc -> {"idle", "raise", "look", "reraise", "markget"}]
      /\ after'[p] = "idle" /\ \A q \in Proc \ {p} : after'[q] = after[q]
  BY Showed
<1>3. Own(p)
  BY <1>2 DEF Own, TypeOK
<1>4. Thread(p)'
  BY <1>1, <1>2 DEF Thread, Payload, Sound, Decided, Present, Spent, Holding, Showing
<1>5. QED
  BY <1>2, <1>3, <1>4, MoverIInv

LEMMA ViewIInv == ASSUME IInv, NEW v \in Viewer, View(v) PROVE IInv'
<1>1. v \in Proc /\ question \in BOOLEAN /\ atGate \in BOOLEAN /\ (atGate => standing)
  BY DEF Proc, IInv, TypeOK
<1>2. QED
  BY <1>1, ShowsIInv DEF View, At, DiskUnchanged, diskVars, RegistryUnchanged, OthersUnchanged

LEMMA TalkDecideIInv == ASSUME IInv, NEW t \in Talker, TalkDecide(t) PROVE IInv'
<1> USE DEF IInv
<1>1. /\ pc[t] = "idle"
      /\ UNCHANGED <<exists, gates, question, act, copy, slot, retired, news, open, told, fresh>>
  BY DEF TalkDecide, At, RegistryUnchanged, OthersUnchanged
<1>2. t \in Proc /\ question \in BOOLEAN /\ Thread(t)
  BY DEF Proc, TypeOK
<1>3. /\ standing' = standing \/ standing' = FALSE
      /\ atGate' \in BOOLEAN /\ (atGate' => standing')
  <2>1. PICK v \in Verdicts : Decide(v)
    BY DEF TalkDecide
  <2>2. QED
    BY <2>1, GateMoves
<1>4. CASE Show(t, "idle")
  BY <1>1, <1>2, <1>3, <1>4, ShowsIInv
<1>5. CASE UNCHANGED <<pc, after>>
  <2>1. Own(t)
    BY <1>1, <1>5 DEF Own, TypeOK
  <2>2. Thread(t)'
    <3>1. Sound(copy[t])'
      BY <1>1, <1>2, <1>3 DEF Thread, Payload, Sound, Decided
    <3>2. QED
      BY <1>1, <1>2, <1>5, <3>1 DEF Thread, Payload, Present, Spent
  <2>3. QED
    BY <1>1, <1>2, <1>3, <1>5, <2>1, <2>2, MoverIInv
<1>6. QED
  BY <1>4, <1>5 DEF TalkDecide

LEMMA AnswerQuestionIInv == IInv /\ AnswerQuestion => IInv'
<1> SUFFICES ASSUME IInv, AnswerQuestion PROVE IInv'
  OBVIOUS
<1>1. Asker \in Proc /\ atGate \in BOOLEAN /\ (atGate => standing)
  BY DEF Proc, IInv, TypeOK
<1>2. QED
  BY <1>1, ShowsIInv DEF AnswerQuestion, At, RegistryUnchanged, OthersUnchanged

LEMMA AskIInv == IInv /\ Ask => IInv'
<1> SUFFICES ASSUME IInv, Ask PROVE IInv'
  OBVIOUS
<1> USE DEF IInv
<1>1. /\ pc[Asker] = "idle" /\ question' = TRUE /\ Goto(Asker, "mirrorput") /\ exists
      /\ UNCHANGED <<exists, gates, standing, atGate, after, act, copy, slot, retired, news, open, told, fresh>>
  BY DEF Ask, At, RegistryUnchanged, OthersUnchanged
<1>2. Asker \in Proc /\ Thread(Asker)
  BY DEF Proc
<1>3. /\ pc' \in [Proc -> PCs] /\ pc'[Asker] = "mirrorput"
      /\ \A q \in Proc \ {Asker} : pc'[q] = pc[q]
  BY <1>1, <1>2, Moved DEF PCs, Showing
<1>4. Own(Asker)
  BY <1>1, <1>3 DEF Own, TypeOK
<1>5. Thread(Asker)'
  BY <1>1, <1>2, <1>3 DEF Thread, Payload, Sound, Decided, Present, Spent, Holding, Showing
<1>6. QED
  BY <1>1, <1>2, <1>3, <1>4, <1>5, MoverIInv DEF TypeOK

LEMMA ResetIInv == IInv /\ Reset => IInv'
<1> SUFFICES ASSUME IInv, Reset PROVE IInv'
  OBVIOUS
<1> USE DEF IInv
<1>1. /\ pc[Resetter] = "idle" /\ exists' = FALSE /\ question' = FALSE
      /\ standing' = FALSE /\ atGate' = FALSE
      /\ Goto(Resetter, "retire") /\ exists
      /\ UNCHANGED <<gates, after, act, copy, slot, retired, news, open, told, fresh>>
  BY DEF Reset, At, RegistryUnchanged, OthersUnchanged
<1>2. Resetter \in Proc /\ Thread(Resetter)
  BY DEF Proc
<1>3. /\ pc' \in [Proc -> PCs] /\ pc'[Resetter] = "retire"
      /\ \A q \in Proc \ {Resetter} : pc'[q] = pc[q]
  BY <1>1, <1>2, Moved DEF PCs
<1>4. Own(Resetter)
  BY <1>1, <1>3 DEF Own, TypeOK
<1>5. Thread(Resetter)'
  BY <1>1, <1>2, <1>3 DEF Thread, Payload, Sound, Decided, Present, Spent, Holding, Showing
<1>6. QED
  BY <1>1, <1>2, <1>3, <1>4, <1>5, MoverIInv

LEMMA RetireIInv == IInv /\ Retire => IInv'
<1> SUFFICES ASSUME IInv, Retire PROVE IInv'
  OBVIOUS
<1> USE DEF IInv
<1>1. /\ pc[Resetter] = "retire" /\ slot' = NoSession /\ retired' = TRUE
      /\ open' = [p \in Proc |-> FALSE] /\ Goto(Resetter, "done")
      /\ UNCHANGED <<diskVars, told, fresh, news, after, act, copy>>
  BY DEF Retire, At, DiskUnchanged, OthersUnchanged
<1>2. Resetter \in Proc /\ Thread(Resetter) /\ ~exists
  BY <1>1 DEF Proc, Registry
<1>3. /\ pc' \in [Proc -> PCs] /\ pc'[Resetter] = "done"
      /\ \A q \in Proc \ {Resetter} : pc'[q] = pc[q]
  BY <1>1, <1>2, Moved DEF PCs
<1>4. UNCHANGED <<exists, gates, standing, atGate, question>>
  BY <1>1 DEF diskVars
<1>5. TypeOK'
  <2>1. \A q \in Proc : ~open'[q] /\ (news'[q] => pc'[q] \in {"recheck", "wait"})
    BY <1>1, <1>3 DEF TypeOK
  <2>2. open' \in [Proc -> BOOLEAN] /\ news' \in [Proc -> BOOLEAN]
    BY <1>1 DEF TypeOK
  <2>3. QED
    BY <1>1, <1>3, <1>4, <2>1, <2>2 DEF TypeOK
<1>6. Alone(Resetter)
  BY <1>1, <1>2, <1>3, <1>4 DEF Alone
<1>7. Writes
  BY <1>1, <1>2, <1>4, Nothing DEF Writes, Sound, Decided, Resolved, NoSession
<1>8. Thread(Resetter)'
  BY <1>1, <1>2, <1>3, <1>4 DEF Thread, Payload, Sound, Decided, Present, Spent, Resolved,
     NoSession, Holding, Showing
<1>9. QED
  BY <1>2, <1>3, <1>4, <1>5, <1>6, <1>7, <1>8, ThreadIInv

LEMMA ReachGateIInv == IInv /\ ReachGate => IInv'
<1> SUFFICES ASSUME IInv, ReachGate PROVE IInv'
  OBVIOUS
<1> USE DEF IInv
<1>1. /\ gates < MaxGates /\ gates' = gates + 1 /\ standing' = TRUE /\ atGate' = TRUE
      /\ UNCHANGED <<exists, question, slot, retired, pc, after, act, copy, open, news, told, fresh>>
  BY DEF ReachGate, waitVars, OthersUnchanged
<1>2. gates \in Nat /\ gates' \in 0..MaxGates
  BY <1>1, GateAssumption DEF TypeOK
<1>3. TypeOK'
  BY <1>1, <1>2 DEF TypeOK
<1>4. ASSUME NEW s \in Session \cup {NoSession}, Sound(s)
      PROVE  s.gate <= gates' /\ s.gate < gates'
  <2>1. s.gate \in 0..MaxGates
    BY Fields
  <2>2. QED
    BY <1>1, <1>2, <1>4, <2>1, GateAssumption DEF Sound
<1>5. Registry'
  <2>1. slot \in Session \cup {NoSession} /\ Sound(slot)
    BY DEF TypeOK, Registry
  <2>2. QED
    BY <1>1, <1>4, <2>1 DEF Registry, Sound, Decided
<1>6. ASSUME NEW p \in Proc PROVE Thread(p)'
  <2>1. Thread(p) /\ copy[p] \in Session \cup {NoSession}
    BY DEF TypeOK
  <2>2. Payload(p)'
    BY <1>1, <1>4, <2>1 DEF Thread, Payload, Sound, Decided
  <2>3. QED
    BY <1>1, <2>1, <2>2 DEF Thread, Present, Spent, Resolved
<1>7. QED
  BY <1>3, <1>5, <1>6

LEMMA ReworkIInv == IInv /\ Rework => IInv'
<1> SUFFICES ASSUME IInv, Rework PROVE IInv'
  OBVIOUS
<1> USE DEF IInv
<1>1. /\ standing /\ atGate' = TRUE
      /\ UNCHANGED <<exists, gates, standing, question, slot, retired, pc, after, act, copy, open,
                     news, told, fresh>>
  BY DEF Rework, waitVars, OthersUnchanged
<1>2. TypeOK' /\ Registry'
  BY <1>1 DEF TypeOK, Registry, Sound, Decided
<1>3. \A p \in Proc : Thread(p)'
  BY <1>1 DEF Thread, Payload, Sound, Decided, Present, Spent, Resolved
<1>4. QED
  BY <1>2, <1>3

-----------------------------------------------------------------------------
LEMMA InitIInv == Init => IInv
<1> SUFFICES ASSUME Init PROVE IInv
  OBVIOUS
<1>1. gates = 0 /\ 0 \in 0..MaxGates
  BY GateAssumption DEF Init
<1>2. TypeOK
  BY <1>1 DEF Init, TypeOK, PCs
<1>3. Sound(NoSession)
  BY <1>1 DEF Sound, NoSession
<1>4. Registry
  BY <1>3 DEF Init, Registry, Proc
<1>5. ASSUME NEW p \in Proc PROVE Thread(p)
  BY <1>3 DEF Init, Thread, Payload, Present, Spent, Resolved, NoSession, Holding
<1>6. QED
  BY <1>2, <1>4, <1>5 DEF IInv

LEMMA StepIInv == IInv /\ [Next]_vars => IInv'
<1> SUFFICES ASSUME IInv, [Next]_vars PROVE IInv'
  OBVIOUS
<1>1. CASE \E p \in Proc : Step(p)
  <2>1. PICK p \in Proc : Step(p)
    BY <1>1
  <2>2. CASE CreateShow(p)
    BY <2>2, ShowReadIInv, ShowPutIInv, ShowMirrorIInv, ShowMirrorPutIInv DEF CreateShow
  <2>3. CASE p \in Agent /\ AgentStep(p)
    BY <2>3, TickIInv, RaiseIInv, LookIInv, SubscribeIInv, RecheckIInv, ReceiveIInv, TimeOutIInv,
       MarkGetIInv, MarkPutIInv DEF AgentStep, Retick
  <2>4. CASE p \in Operator /\ (DecideLand(p) \/ DecideFlip(p))
    BY <2>4, DecideLandIInv, DecideFlipIInv
  <2>5. CASE p \in Waker /\ WakePut(p)
    BY <2>5, WakePutIInv
  <2>6. CASE p = Resetter /\ Retire
    BY <2>6, RetireIInv
  <2>7. QED
    BY <2>1, <2>2, <2>3, <2>4, <2>5, <2>6 DEF Step
<1>2. CASE \E a \in Agent : Call(a)
  BY <1>2, CallIInv
<1>3. CASE Request
  BY <1>3, DecideGetIInv, WakeGetIInv, ViewIInv, TalkDecideIInv, AskIInv, AnswerQuestionIInv,
     ResetIInv DEF Request
<1>4. CASE ReachGate \/ Rework
  BY <1>4, ReachGateIInv, ReworkIInv
<1>5. CASE UNCHANGED vars
  <2>1. UNCHANGED <<exists, gates, standing, atGate, question, slot, retired, pc, after, act, copy, open, news,
                    told, fresh>>
    BY <1>5 DEF vars, diskVars, waitVars
  <2>2. TypeOK' /\ Registry'
    BY <2>1 DEF IInv, TypeOK, Registry, Sound, Decided
  <2>3. \A p \in Proc : Thread(p)'
    BY <2>1 DEF IInv, Thread, Payload, Sound, Decided, Present, Spent, Resolved
  <2>4. QED
    BY <2>2, <2>3 DEF IInv
<1>6. QED
  BY <1>1, <1>2, <1>3, <1>4, <1>5 DEF Next

LEMMA HoldIInv == Spec => []IInv
  BY InitIInv, StepIInv, PTL DEF Spec

\* Every reachable state is well typed, and only a hold that waits has frames.
THEOREM HoldTyped == Spec => []TypeOK
<1>1. IInv => TypeOK
  BY DEF IInv
<1>2. QED
  BY <1>1, HoldIInv, PTL

\* Whatever interleaving of decisions, refusals, wakes, shows, questions and
\* resets, a session that shows a gate as approved is about a gate that is passed
\* on disk: no approve is acknowledged that did not land.
THEOREM ApprovalsLanded == Spec => []NoFalseSuccess
<1>1. IInv => NoFalseSuccess
  BY DEF IInv, Registry, Sound, Decided, NoFalseSuccess
<1>2. QED
  BY <1>1, HoldIInv, PTL

\* No agent is handed the raw gate while the run is there.
THEOREM RawGateIsOfAGoneRun == Spec => []RawGateOnlyOfAGoneRun
<1>1. IInv => RawGateOnlyOfAGoneRun
  BY DEF IInv, Thread, RawGateOnlyOfAGoneRun, Proc
<1>2. QED
  BY <1>1, HoldIInv, PTL

\* No hold resolves twice off one flip, for any number of agents and flips.
THEOREM NobodySpins == Spec => NoSpin
<1> DEFINE Once == \A a \in Agent : pc'[a] = "retick" /\ pc[a] # "retick" => fresh[a]
<1>1. ASSUME IInv, [Next]_vars PROVE [Once]_vars
  <2>1. SUFFICES ASSUME Next, NEW a \in Agent, pc'[a] = "retick", pc[a] # "retick"
                 PROVE  fresh[a]
    BY <1>1
  <2>2. a \in Proc /\ pc \in [Proc -> PCs]
    BY <1>1 DEF IInv, TypeOK, Proc
  <2>3. \A p \in Proc, l \in PCs \ {"retick"} : ~Goto(p, l)
    BY <2>1, <2>2 DEF Goto
  <2>4. \A p \in Proc : after[p] # "retick"
    BY <1>1 DEF IInv, TypeOK
  <2>5. \A p \in Proc : ~Return(p)
    BY <2>1, <2>2, <2>4 DEF Return, Goto
  <2>6. pc' # pc
    BY <2>1
  <2>7. \E p \in Agent : Look(p) \/ Recheck(p) \/ Receive(p)
    <3>1. \A then : \A p \in Proc : ~Show(p, then)
      BY <2>3 DEF Show, PCs, Showing
    <3>2. \A what : \A p \in Agent : ~Answer(p, what)
      BY <2>3 DEF Answer, PCs, Proc
    <3>3. ~ReachGate /\ ~Rework
      BY <2>6 DEF ReachGate, Rework
    <3>4. ~\E p \in Agent : Call(p)
      BY <2>3 DEF Call, PCs, Proc
    <3>5. ~Request
      BY <2>3, <2>6, <3>1 DEF Request, DecideGet, WakeGet, View, TalkDecide, Ask, AnswerQuestion, Reset,
         Proc, PCs, Showing
    <3>6. ~\E p \in Proc : CreateShow(p)
      BY <2>3, <2>5 DEF CreateShow, ShowRead, ShowPut, ShowMirror, ShowMirrorPut, PCs, Showing
    <3>7. ~\E p \in Proc : \/ p \in Operator /\ (DecideLand(p) \/ DecideFlip(p))
                           \/ p \in Waker /\ WakePut(p)
                           \/ p = Resetter /\ Retire
      BY <2>3 DEF DecideLand, DecideFlip, WakePut, Retire, PCs
    <3>8. PICK p \in Agent : AgentStep(p)
      BY <2>1, <3>3, <3>4, <3>5, <3>6, <3>7 DEF Next, Step
    <3>9. p \in Proc
      BY DEF Proc
    <3>10. ~Tick(p, "tick", "raise") /\ ~Retick(p)
      BY <3>1, <3>2, <3>9 DEF Tick, Retick
    <3>11. ~Raise(p, "raise", "look") /\ ~Raise(p, "reraise", "markget")
      BY <2>3, <3>1, <3>2, <3>9 DEF Raise, PCs, Holding
    <3>12. ~Subscribe(p) /\ ~TimeOut(p) /\ ~MarkGet(p) /\ ~MarkPut(p)
      BY <2>3, <3>2, <3>9 DEF Subscribe, TimeOut, MarkGet, MarkPut, GiveBack, PCs, Holding
    <3>13. QED
      BY <3>8, <3>10, <3>11, <3>12 DEF AgentStep
  <2>8. PICK p \in Agent : Look(p) \/ Recheck(p) \/ Receive(p)
    BY <2>7
  <2>9. p = a
    <3>1. p \in Proc /\ (Goto(p, "retick") \/ (\E l : Goto(p, l)) \/ pc' = pc)
      BY <2>8 DEF Look, Recheck, Receive, TakeResolution, GiveBack, Answer, Proc
    <3>2. QED
      BY <2>1, <2>2, <2>6, <3>1 DEF Goto
  <2>10. Resolved(slot) /\ pc[a] \in Holding
    BY <2>1, <2>3, <2>6, <2>8, <2>9 DEF Look, Recheck, Receive, TakeResolution, GiveBack, Answer, At,
       Proc, PCs, Holding
  <2>11. QED
    BY <1>1, <2>10, HoldingFresh
<1>2. IInv /\ [Next]_vars => [Once]_vars
  BY <1>1
<1>3. Spec => [][Next]_vars
  BY DEF Spec
<1>4. QED
  BY <1>2, <1>3, HoldIInv, PTL DEF NoSpin
=============================================================================
