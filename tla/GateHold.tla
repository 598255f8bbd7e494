------------------------------ MODULE GateHold ------------------------------
(***************************************************************************)
(* The operator's gate as the engine's threads share it: darkrun_advance   *)
(* holds an agent's call on the run's review session until the operator    *)
(* decides over HTTP (tools.rs advance_gate_hold, state.rs                 *)
(* await_decision, handlers.rs review_decide and advance).  What is true   *)
(* of the gate is on disk; the session registry is a shared map every      *)
(* thread reads, changes and writes back in separate steps, and            *)
(* create_show, run after every tick, builds the session anew from disk.   *)
(***************************************************************************)
EXTENDS Naturals, FiniteSets

CONSTANTS Agent,      \* callers of darkrun_advance
          Operator,   \* POST /review/:id/decide
          Waker,      \* POST /api/advance/:id
          Viewer,     \* whoever makes the engine show the run (inspect, GET)
          Talker,     \* callers of the tool darkrun_checkpoint_decide
          MaxGates,   \* bound: gates the run goes through
          MayAsk,     \* whether a question is asked meanwhile
          MayReset    \* whether the run is reset meanwhile

ASSUME GateAssumption == MaxGates \in Nat /\ MayAsk \in BOOLEAN /\ MayReset \in BOOLEAN

Asker == "asker"      \* the question tool and POST /question/:id/answer
Resetter == "reset"   \* darkrun_run_reset, confirmed, of the whole run

Proc == Agent \cup Operator \cup Waker \cup Viewer \cup Talker \cup {Asker, Resetter}

VARIABLES exists,     \* the run is on disk
          gates,      \* gates the run has reached so far
          standing,   \* gate number `gates` is recorded and not approved
          atGate,     \* the cursor holds at it (a finding may hold it elsewhere)
          question,   \* a question of the run is open, on disk and in the registry
          slot,       \* the registry's session under the run's slug
          retired,    \* retire_run has run
          pc,         \* where each thread is
          after,      \* where create_show returns to
          act,        \* what a thread's last tick landed on
          copy,       \* the payload a thread holds between its read and its write
          open,       \* a thread's receiver belongs to the live channel
          news,       \* a thread's receiver has frames (or a lag) to read
          told,       \* what an agent's last call returned
          fresh       \* history: a flip nobody's hold has consumed, per agent

diskVars == <<exists, gates, standing, atGate, question>>
waitVars == <<open, news>>
vars == <<diskVars, slot, retired, pc, after, act, copy, waitVars, told, fresh>>

\* A session's payload: a review of the run as it stood at gate number `gate`,
\* or the mirror of a question.  "woken" is SessionStatus::Decided, "changes"
\* is ChangesRequested.
Verdicts == {"approved", "changes"}
Session == [kind : {"review", "question"}, status : {"pending", "woken"} \cup Verdicts,
            gate : 0..MaxGates]
NoSession == [kind |-> "none", status |-> "pending", gate |-> 0]
Review(status, gate) == [kind |-> "review", status |-> status, gate |-> gate]
Mirror == [kind |-> "question", status |-> "pending", gate |-> 0]

Resolved(s) == s.status # "pending"

Showing == {"read", "put", "mirror", "mirrorput"}
Holding == {"look", "subscribe", "recheck", "wait"}
PCs == Showing \cup Holding \cup
       {"idle", "tick", "raise", "retick", "reraise", "markget", "markput",
        "land", "flip", "wakeput", "retire", "done"}

TypeOK ==
    /\ exists \in BOOLEAN /\ standing \in BOOLEAN /\ question \in BOOLEAN
    /\ atGate \in BOOLEAN /\ (atGate => standing)
    /\ gates \in 0..MaxGates
    /\ retired \in BOOLEAN
    /\ slot \in Session \cup {NoSession}
    /\ pc \in [Proc -> PCs]
    /\ after \in [Proc -> {"idle", "raise", "look", "reraise", "markget"}]
    /\ act \in [Proc -> {"none", "work", "gate"}]
    /\ copy \in [Proc -> Session \cup {NoSession}]
    /\ open \in [Proc -> BOOLEAN] /\ news \in [Proc -> BOOLEAN]
    /\ \A p \in Proc : open[p] \/ news[p] => pc[p] \in {"recheck", "wait"}
    /\ told \in [Agent -> {"nothing", "work", "keepalive", "gate", "error"}]
    /\ fresh \in [Agent -> BOOLEAN]

Init ==
    /\ exists = TRUE /\ gates = 0 /\ question = FALSE
    /\ standing = FALSE /\ atGate = FALSE
    /\ slot = NoSession /\ retired = FALSE
    /\ pc = [p \in Proc |-> "idle"]
    /\ after = [p \in Proc |-> "idle"]
    /\ act = [p \in Proc |-> "none"]
    /\ copy = [p \in Proc |-> NoSession]
    /\ open = [p \in Proc |-> FALSE]
    /\ news = [p \in Proc |-> FALSE]
    /\ told = [a \in Agent |-> "nothing"]
    /\ fresh = [a \in Agent |-> FALSE]

At(p, l) == pc[p] = l
Goto(p, l) == pc' = [pc EXCEPT ![p] = l]
Hold(p, s) == copy' = [copy EXCEPT ![p] = s]
Forget(p) == Hold(p, NoSession)

DiskUnchanged == UNCHANGED diskVars
RegistryUnchanged == UNCHANGED <<slot, retired, news, open>>
OthersUnchanged == UNCHANGED <<told, fresh>>

\* upsert_under: the payload is replaced and its frame goes to every receiver
\* of the live channel, in one critical section.
Upsert(s) ==
    /\ slot' = s
    /\ news' = [p \in Proc |-> news[p] \/ open[p]]
    /\ UNCHANGED <<open, retired>>

\* A resolution anybody's hold may take up.
Flip(s) ==
    /\ Upsert(s)
    /\ fresh' = [a \in Agent |-> TRUE]

-----------------------------------------------------------------------------
(* create_show, a subroutine of several handlers *)

Show(p, then) == Goto(p, "read") /\ after' = [after EXCEPT ![p] = then]

Return(p) ==
    /\ Goto(p, after[p])
    /\ after' = [after EXCEPT ![p] = "idle"]

\* The run's documents are read; without them create_show is an error, which
\* its callers ignore.
ShowRead(p) ==
    /\ At(p, "read")
    /\ IF exists
       THEN /\ Hold(p, Review("pending", IF atGate THEN gates ELSE 0))
            /\ Goto(p, "put")
            /\ UNCHANGED after
       ELSE Return(p) /\ UNCHANGED copy
    /\ DiskUnchanged /\ RegistryUnchanged /\ OthersUnchanged
    /\ UNCHANGED act

\* Mutant: the session keeps the status it had.
ShowPutKeepsStatus(p) ==
    /\ At(p, "put")
    /\ Upsert([copy[p] EXCEPT !.status = slot.status])
    /\ Forget(p)
    /\ Goto(p, "mirror")
    /\ DiskUnchanged /\ OthersUnchanged
    /\ UNCHANGED <<after, act>>

\* The review is registered as Pending, whatever was there.
ShowPut(p) ==
    /\ At(p, "put")
    /\ Upsert(copy[p])
    /\ Forget(p)
    /\ Goto(p, "mirror")
    /\ DiskUnchanged /\ OthersUnchanged
    /\ UNCHANGED <<after, act>>

\* hydrate_interactive: the run's latest open question is looked up on disk ...
ShowMirror(p) ==
    /\ At(p, "mirror")
    /\ IF question /\ exists
       THEN Goto(p, "mirrorput") /\ UNCHANGED after
       ELSE Return(p)
    /\ DiskUnchanged /\ RegistryUnchanged /\ OthersUnchanged
    /\ UNCHANGED <<act, copy>>

\* ... and put over the review.
ShowMirrorPut(p) ==
    /\ At(p, "mirrorput")
    /\ Upsert(Mirror)
    /\ Return(p)
    /\ DiskUnchanged /\ OthersUnchanged
    /\ UNCHANGED <<act, copy>>

CreateShow(p) == ShowRead(p) \/ ShowPut(p) \/ ShowMirror(p) \/ ShowMirrorPut(p)

-----------------------------------------------------------------------------
(* darkrun_advance *)

Answer(a, what) ==
    /\ told' = [told EXCEPT ![a] = what]
    /\ Goto(a, "idle")
    /\ act' = [act EXCEPT ![a] = "none"]

\* The agent calls (again): whatever it was told, a tick is how it learns more.
Call(a) ==
    /\ a \in Agent
    /\ At(a, "idle")
    /\ told[a] # "error"
    /\ told' = [told EXCEPT ![a] = "nothing"]
    /\ Goto(a, "tick")
    /\ DiskUnchanged /\ RegistryUnchanged
    /\ UNCHANGED <<after, act, copy, fresh>>

\* run_tick reads the run; adapt_tick then shows it.
Tick(a, from, then) ==
    /\ At(a, from)
    /\ IF exists
       THEN /\ act' = [act EXCEPT ![a] = IF atGate THEN "gate" ELSE "work"]
            /\ Show(a, then)
            /\ UNCHANGED told
       ELSE Answer(a, "error") /\ UNCHANGED after
    /\ DiskUnchanged /\ RegistryUnchanged
    /\ UNCHANGED <<copy, fresh>>

\* raise_desktop_for_gate: at a gate the run is shown a second time, unless
\* this checkout is not on the run's branch.  Any other action is the answer.
Raise(a, from, then) ==
    /\ At(a, from)
    /\ \/ /\ act[a] = "work"
          /\ Answer(a, "work")
          /\ UNCHANGED after
       \/ /\ act[a] = "gate"
          /\ Show(a, then)
          /\ UNCHANGED <<told, act>>
       \/ /\ act[a] = "gate"
          /\ Goto(a, then)
          /\ UNCHANGED <<told, act, after>>
    /\ DiskUnchanged /\ RegistryUnchanged
    /\ UNCHANGED <<copy, fresh>>

\* AwaitOutcome::Resolved: the hold has used up what it saw.
TakeResolution(a) ==
    /\ Goto(a, "retick")
    /\ fresh' = [fresh EXCEPT ![a] = FALSE]
    /\ open' = [open EXCEPT ![a] = FALSE]
    /\ news' = [news EXCEPT ![a] = FALSE]
    /\ UNCHANGED <<told, act>>

\* Mutant: the receiver outlives the call.
GiveBackKeepsReceiver(a, what) ==
    /\ Answer(a, what)
    /\ UNCHANGED <<open, news, fresh>>

\* Every other outcome ends the call: the keepalive, or the raw gate action.
GiveBack(a, what) ==
    /\ Answer(a, what)
    /\ open' = [open EXCEPT ![a] = FALSE]
    /\ news' = [news EXCEPT ![a] = FALSE]
    /\ UNCHANGED fresh

HoldUnchanged == DiskUnchanged /\ UNCHANGED <<slot, retired, after, copy>>

\* await_decision: look, subscribe, look again.
Look(a) ==
    /\ At(a, "look")
    /\ \/ Resolved(slot) /\ TakeResolution(a)
       \/ slot = NoSession /\ GiveBack(a, "gate")
       \/ /\ slot # NoSession /\ ~Resolved(slot)
          /\ Goto(a, "subscribe")
          /\ UNCHANGED <<open, news, told, act, fresh>>
    /\ HoldUnchanged

Subscribe(a) ==
    /\ At(a, "subscribe")
    /\ IF slot = NoSession
       THEN GiveBack(a, "gate")
       ELSE /\ open' = [open EXCEPT ![a] = TRUE]
            /\ Goto(a, "recheck")
            /\ UNCHANGED <<news, told, act, fresh>>
    /\ HoldUnchanged

Recheck(a) ==
    /\ At(a, "recheck")
    /\ IF Resolved(slot)
       THEN TakeResolution(a)
       ELSE /\ Goto(a, "wait")
            /\ UNCHANGED <<open, news, told, act, fresh>>
    /\ HoldUnchanged

\* A frame or a lag: the payload is read again; a closed channel or a missing
\* session is Gone.
Receive(a) ==
    /\ At(a, "wait")
    /\ \/ news[a] /\ Resolved(slot) /\ TakeResolution(a)
       \/ news[a] /\ slot = NoSession /\ GiveBack(a, "gate")
       \/ /\ news[a] /\ slot # NoSession /\ ~Resolved(slot)
          /\ news' = [news EXCEPT ![a] = FALSE]
          /\ UNCHANGED <<pc, open, told, act, fresh>>
       \/ ~news[a] /\ ~open[a] /\ GiveBack(a, "gate")
    /\ HoldUnchanged

\* Mutant: the window never ends.
TimeOutNever(a) ==
    /\ At(a, "wait") /\ FALSE
    /\ GiveBack(a, "keepalive")
    /\ HoldUnchanged

TimeOut(a) ==
    /\ At(a, "wait")
    /\ GiveBack(a, "keepalive")
    /\ HoldUnchanged

\* mark_pending: the stale resolution is consumed, a get and later a put.
MarkGet(a) ==
    /\ At(a, "markget")
    /\ IF slot = NoSession
       THEN Answer(a, "keepalive") /\ UNCHANGED copy
       ELSE /\ Hold(a, [slot EXCEPT !.status = "pending"])
            /\ Goto(a, "markput")
            /\ UNCHANGED <<told, act>>
    /\ DiskUnchanged /\ RegistryUnchanged
    /\ UNCHANGED <<after, fresh>>

MarkPut(a) ==
    /\ At(a, "markput")
    /\ Upsert(copy[a])
    /\ Forget(a)
    /\ Answer(a, "keepalive")
    /\ DiskUnchanged
    /\ UNCHANGED <<after, fresh>>

\* Mutant: a resolved hold returns what it was holding, without a tick.
RetickSkipped(a) ==
    /\ At(a, "retick")
    /\ Answer(a, "gate")
    /\ DiskUnchanged /\ RegistryUnchanged
    /\ UNCHANGED <<after, copy, fresh>>

Retick(a) == Tick(a, "retick", "reraise")

AgentStep(a) ==
    \/ Tick(a, "tick", "raise") \/ Raise(a, "raise", "look")
    \/ Look(a) \/ Subscribe(a) \/ Recheck(a) \/ Receive(a) \/ TimeOut(a)
    \/ Retick(a) \/ Raise(a, "reraise", "markget")
    \/ MarkGet(a) \/ MarkPut(a)

-----------------------------------------------------------------------------
(* The HTTP handlers and the other tools *)

\* review_decide: the session must be a review.
DecideGet(o) ==
    /\ At(o, "idle")
    /\ slot.kind = "review"
    /\ Hold(o, slot)
    /\ Goto(o, "land")
    /\ DiskUnchanged /\ RegistryUnchanged /\ OthersUnchanged
    /\ UNCHANGED <<after, act>>

\* checkpoint_decide, as far as the gate goes.  An approve is for a standing gate
\* and passes it.  A request for changes is legal anywhere; with feedback it
\* files a finding, which holds the cursor until it is closed, and without any
\* the cursor stays where it was.
Decide(v) ==
    /\ exists
    /\ \/ v = "approved" /\ standing /\ standing' = FALSE /\ atGate' = FALSE
       \/ v = "changes" /\ standing' = standing /\ atGate' \in {atGate, FALSE}

Refused == UNCHANGED <<standing, atGate>>

\* Mutant: the session is flipped although the gate refused the decision.
DecideLandForced(o) ==
    /\ At(o, "land")
    /\ \E v \in Verdicts :
          /\ Decide(v) \/ Refused
          /\ Hold(o, [copy[o] EXCEPT !.status = v])
          /\ Goto(o, "flip")
    /\ UNCHANGED <<exists, gates, question>>
    /\ RegistryUnchanged /\ OthersUnchanged
    /\ UNCHANGED <<after, act>>

\* The severity check and decide_gate: the decision lands, or the request is a
\* 409.  A 409 may come after checkpoint_decide has written: its branch work
\* and its re-tick follow the write and can fail.
DecideLand(o) ==
    /\ At(o, "land")
    /\ \E v \in Verdicts :
          \/ /\ Decide(v)
             /\ Hold(o, [copy[o] EXCEPT !.status = v])
             /\ Goto(o, "flip")
          \/ /\ Decide(v) \/ Refused
             /\ Forget(o)
             /\ Goto(o, "idle")
    /\ UNCHANGED <<exists, gates, question>>
    /\ RegistryUnchanged /\ OthersUnchanged
    /\ UNCHANGED <<after, act>>

DecideFlip(o) ==
    /\ At(o, "flip")
    /\ Flip(copy[o])
    /\ Forget(o)
    /\ Goto(o, "idle")
    /\ DiskUnchanged
    /\ UNCHANGED <<after, act, told>>

\* POST /api/advance/:id: a review is flipped to Decided; nothing lands.
WakeGet(w) ==
    /\ At(w, "idle")
    /\ slot.kind = "review"
    /\ Hold(w, slot)
    /\ Goto(w, "wakeput")
    /\ DiskUnchanged /\ RegistryUnchanged /\ OthersUnchanged
    /\ UNCHANGED <<after, act>>

WakePut(w) ==
    /\ At(w, "wakeput")
    /\ Flip([copy[w] EXCEPT !.status = "woken"])
    /\ Forget(w)
    /\ Goto(w, "idle")
    /\ DiskUnchanged
    /\ UNCHANGED <<after, act, told>>

\* darkrun_run_inspect, or a GET that materializes a session it does not find.
View(v) ==
    /\ At(v, "idle")
    /\ Show(v, "idle")
    /\ DiskUnchanged /\ RegistryUnchanged /\ OthersUnchanged
    /\ UNCHANGED <<act, copy>>

\* darkrun_checkpoint_decide: the decision lands and the run is shown, unless
\* the call fails after its write; no session is flipped.
TalkDecide(t) ==
    /\ At(t, "idle")
    /\ \E v \in Verdicts : Decide(v)
    /\ Show(t, "idle") \/ UNCHANGED <<pc, after>>
    /\ UNCHANGED <<exists, gates, question, act, copy>>
    /\ RegistryUnchanged /\ OthersUnchanged

\* The question tool: the session is stored, then mirrored under the slug.
Ask ==
    /\ MayAsk /\ exists /\ ~question
    /\ At(Asker, "idle")
    /\ question' = TRUE
    /\ Goto(Asker, "mirrorput")
    /\ UNCHANGED <<exists, gates, standing, atGate, after, act, copy>>
    /\ RegistryUnchanged /\ OthersUnchanged

\* POST /question/:id/answer: the answer is stored, the run shown again.
AnswerQuestion ==
    /\ question
    /\ At(Asker, "idle")
    /\ question' = FALSE
    /\ Show(Asker, "idle")
    /\ UNCHANGED <<exists, gates, standing, atGate, act, copy>>
    /\ RegistryUnchanged /\ OthersUnchanged

\* darkrun_run_reset: the run leaves the disk, then its sessions the registry,
\* which closes their channels.
Reset ==
    /\ MayReset /\ exists
    /\ At(Resetter, "idle")
    /\ exists' = FALSE /\ standing' = FALSE /\ atGate' = FALSE /\ question' = FALSE
    /\ Goto(Resetter, "retire")
    /\ UNCHANGED <<gates, after, act, copy>>
    /\ RegistryUnchanged /\ OthersUnchanged

Retire ==
    /\ At(Resetter, "retire")
    /\ slot' = NoSession
    /\ retired' = TRUE
    /\ open' = [p \in Proc |-> FALSE]
    /\ Goto(Resetter, "done")
    /\ DiskUnchanged /\ OthersUnchanged
    /\ UNCHANGED <<news, after, act, copy>>

\* The work between two gates is done and the cursor reaches the next one.
ReachGate ==
    /\ exists /\ ~standing
    /\ gates < MaxGates
    /\ gates' = gates + 1
    /\ standing' = TRUE /\ atGate' = TRUE
    /\ UNCHANGED <<exists, question, slot, retired, pc, after, act, copy>>
    /\ UNCHANGED waitVars /\ OthersUnchanged

\* The findings of a request for changes are closed: the gate opens again.
Rework ==
    /\ standing /\ ~atGate
    /\ atGate' = TRUE
    /\ UNCHANGED <<exists, gates, standing, question, slot, retired, pc, after, act, copy>>
    /\ UNCHANGED waitVars /\ OthersUnchanged

-----------------------------------------------------------------------------
\* A thread that has something under way goes on with it.
Step(p) ==
    \/ CreateShow(p)
    \/ p \in Agent /\ AgentStep(p)
    \/ p \in Operator /\ (DecideLand(p) \/ DecideFlip(p))
    \/ p \in Waker /\ WakePut(p)
    \/ p = Resetter /\ Retire

Request ==
    \/ \E o \in Operator : DecideGet(o)
    \/ \E w \in Waker : WakeGet(w)
    \/ \E v \in Viewer : View(v)
    \/ \E t \in Talker : TalkDecide(t)
    \/ Ask \/ AnswerQuestion \/ Reset

Next ==
    \/ \E p \in Proc : Step(p)
    \/ \E a \in Agent : Call(a)
    \/ Request
    \/ ReachGate \/ Rework

\* Threads run, the deadline of a hold passes whatever frames arrive, agents
\* call again; nobody need act on a gate.
Fairness ==
    /\ \A p \in Proc : WF_vars(Step(p))
    /\ \A a \in Agent : WF_vars(TimeOut(a))
    /\ \A a \in Agent : WF_vars(Call(a))

Spec == Init /\ [][Next]_vars
FairSpec == Spec /\ Fairness

-----------------------------------------------------------------------------
(* Properties *)

\* A session that shows a gate as approved is about a gate that was approved on
\* disk ("otherwise the operator sees a false success while the gate stays held
\* on disk and the run wedges", review_decide).
NoFalseSuccess ==
    slot.status = "approved" => slot.gate < gates \/ ~standing

\* A decision that was acknowledged moves the run off its gate ("A genuine
\* on-disk decision advances the run (the re-ticked action is no longer a
\* hold-gate)", advance_gate_hold).
DecisionMovesOn ==
    [][\A o \in Operator : pc[o] = "land" /\ pc'[o] = "flip" => ~atGate']_vars

\* An agent gets the raw gate, and with it the idea to ask in chat, only when
\* the run is gone (advance_gate_hold: None is "the session vanished").
RawGateOnlyOfAGoneRun ==
    \A a \in Agent : told[a] = "gate" => ~exists

\* Two outcomes Resolved of one agent's holds are two resolutions: no "unbounded
\* zero-delay spin" off one stale flip, whoever else shows, wakes or decides.
NoSpin ==
    [][\A a \in Agent : pc'[a] = "retick" /\ pc[a] # "retick" => fresh[a]]_vars

\* An agent whose gate was decided is told the next action in the end, however
\* the decision's frames were overtaken by other writes to the session.
DecisionIsTold ==
    \A a \in Agent :
        (gates > 0 /\ ~atGate) ~> (told[a] \in {"work", "error"} \/ atGate)

\* A hold only sleeps while its gate is open or the news that it is not is on
\* its way ("Re-reads the authoritative payload on every frame, so a missed/
\* lagged broadcast can't strand the waiter", await_decision).
SleepsOnAnOpenGate ==
    \A a \in Agent :
        pc[a] = "wait" /\ ~news[a] /\ ~Resolved(slot) /\ open[a]
            => atGate \/ \E o \in Operator : pc[o] = "flip"

\* Once retire_run is through, the run's session stays gone ("for a subsequent
\* GET /api/session/:id to 404", retire_run).
RetiredStaysGone == retired => slot = NoSession
=============================================================================
