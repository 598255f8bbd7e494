-------------------------- MODULE TickGuardsProofs --------------------------
(***************************************************************************)
(* A station at which nothing happens is handed to a human after           *)
(* HALT_THRESHOLD ticks, for any window, threshold, budget and reviewers   *)
(* and whatever the guard's history held before; and an agent who works is *)
(* not, where the thresholds leave room for the work no tick shows.        *)
(***************************************************************************)
EXTENDS TickGuards, FiniteSetTheorems, TLAPS

\* While nothing happens the cursor answers the same, or holds at an action no
\* guard looks at, and the guard's count has not fallen behind the idle ticks.
Steady ==
    idle > 0 =>
        IF told \in Exempt THEN Derive \in Exempt
        ELSE /\ history.count >= idle
             /\ Derive \in Exempt \/ SignatureOf(Derive) = history.last
             /\ told = "Halted" \/ ~SameHalt(history)

IInv == TypeOK /\ Steady

LEMMA InitIInv == Init => IInv
<1> SUFFICES ASSUME Init PROVE IInv
  OBVIOUS
<1>1. unit \in UnitStates
  BY GuardAssumption DEF Init, UnitStates, Results
<1>2. history \in Histories
  BY GuardAssumption DEF Init, Blank, Histories
<1>3. TypeOK
  <2>1. station \in Phase /\ told \in Tags
    BY DEF Init, Phase, Tags, Work
  <2>2. entered \in BOOLEAN /\ nonce \in BOOLEAN /\ paid \in BOOLEAN /\ lapsed \in BOOLEAN
    BY DEF Init
  <2>3. forgets \in 0..MaxForgets /\ idle \in 0..(HaltThreshold + 1)
    BY GuardAssumption DEF Init
  <2>4. QED
    BY <1>1, <1>2, <2>1, <2>2, <2>3 DEF TypeOK
<1>4. Steady
  BY DEF Init, Steady
<1>5. QED
  BY <1>3, <1>4 DEF IInv

-----------------------------------------------------------------------------
(* derive_position and the guard *)

LEMMA DeriveTyped == TypeOK => Derive \in Tags
<1> SUFFICES ASSUME TypeOK PROVE Derive \in Tags
  OBVIOUS
<1>1. unit.status \in {"Pending", "InProgress", "Completed"}
  BY DEF TypeOK, UnitStates
<1>2. ManufactureTag \in Tags
  <2>1. CASE unit.status = "Pending"
    BY <2>1 DEF ManufactureTag, Tags, Work
  <2>2. CASE unit.status = "InProgress"
    BY <2>2 DEF ManufactureTag, Tags, Work
  <2>3. CASE unit.status = "Completed" /\ Unmet
    BY <2>3 DEF ManufactureTag, Tags, Work
  <2>4. CASE unit.status = "Completed" /\ ~Unmet
    BY <2>4 DEF ManufactureTag, Tags, Work
  <2>5. QED
    BY <1>1, <2>1, <2>2, <2>3, <2>4
<1>3. Resolved \in {"Manufacture", "Audit", "Reflect", "Checkpoint"}
  BY DEF Resolved
<1>4. QED
  BY <1>2, <1>3 DEF Derive, Tags, Work, Exempt

LEMMA SignatureTyped ==
  ASSUME TypeOK, NEW tag \in Tags
  PROVE  SignatureOf(tag) \in Signatures
<1>1. (unit.status = "Completed") \in BOOLEAN
  OBVIOUS
<1>2. unit.pass \in 0..(MaxPasses + 1)
  BY DEF TypeOK, UnitStates
<1>3. \A b \in BOOLEAN, n \in 0..(MaxPasses + 1) : [tag |-> tag, done |-> b, pass |-> n] \in Signatures
  BY DEF Signatures
<1>4. QED
  BY <1>1, <1>2, <1>3, Zenon DEF SignatureOf

LEMMA PushTyped ==
  ASSUME NEW h \in Histories, NEW s \in Signatures
  PROVE  Push(h, s) \in Histories
         /\ Push(h, s).count = CountWith(h, s) /\ Push(h, s).last = s
<1>1. ChurnWindow \in Nat /\ ChurnWindow >= 2 /\ HaltThreshold \in Nat
  BY GuardAssumption
<1>2. \A n \in 0..(ChurnWindow - 1) : Older(n) \in 0..(ChurnWindow - 1)
  BY <1>1 DEF Older
<1>3. CountWith(h, s) \in 0..(HaltThreshold + 1)
  BY <1>1 DEF CountWith, AtMost, Histories
<1>4. AtMost(h.length + 1, ChurnWindow) \in 0..ChurnWindow
  BY <1>1 DEF AtMost, Histories
<1>5. CASE s = h.last
  <2>1. Repeated(h) \in Histories /\ Repeated(h).last = s /\ Repeated(h).length = h.length
    BY <1>2, <1>5 DEF Repeated, Histories
  <2>2. Push(h, s) = [Repeated(h) EXCEPT !.count = CountWith(h, s),
                                         !.length = AtMost(h.length + 1, ChurnWindow)]
    BY <1>5, <2>1 DEF Push
  <2>3. QED
    BY <1>3, <1>4, <2>1, <2>2 DEF Histories
<1>6. CASE s # h.last
  <2>1. (IF h.last = NoSignature THEN 0 ELSE 1) \in 0..(ChurnWindow - 1)
    BY <1>1
  <2>2. Older(IF s = h.other THEN h.third ELSE h.second) \in 0..(ChurnWindow - 1)
    BY <1>2 DEF Histories
  <2>3. Turned(h, s) \in Histories /\ Turned(h, s).last = s /\ Turned(h, s).length = h.length
    BY <2>1, <2>2 DEF Turned, Histories
  <2>4. Push(h, s) = [Turned(h, s) EXCEPT !.count = CountWith(h, s),
                                          !.length = AtMost(h.length + 1, ChurnWindow)]
    BY <1>6, <2>3 DEF Push
  <2>5. QED
    BY <1>3, <1>4, <2>3, <2>4 DEF Histories
<1>7. QED
  BY <1>5, <1>6

-----------------------------------------------------------------------------
(* Ticks *)

\* What a tick that does not halt advances, it does not change the answer of,
\* unless into a hold.
LEMMA AdvanceKeepsAnswer ==
  ASSUME TypeOK, station # "Completed", UNCHANGED unit, Advance(Derive)
  PROVE  /\ station' \in Phase
         /\ Derive' \in Exempt \/ Derive' = Derive
<1>1. station \in Phase
  BY DEF TypeOK
<1>2. Unmet' = Unmet /\ ManufactureTag' = ManufactureTag
  BY DEF Unmet, Satisfied, ManufactureTag
<1>3. CASE Derive = "Manufacture"
  <2>1. station' = "Manufacture"
    BY <1>3 DEF Advance
  <2>2. Resolved = "Manufacture"
    BY <1>3 DEF Derive, Resolved
  <2>3. Resolved' = "Manufacture"
    BY <2>2 DEF Resolved
  <2>4. QED
    BY <1>2, <1>3, <2>1, <2>2, <2>3 DEF Derive, Phase
<1>4. CASE Derive = "Reflect"
  <2>1. station' = "Checkpoint"
    BY <1>4 DEF Advance
  <2>2. Resolved = "Reflect" /\ ~Unmet
    <3>1. unit.status \in {"Pending", "InProgress", "Completed"}
      BY DEF TypeOK, UnitStates
    <3>2. ManufactureTag # "Reflect"
      BY <3>1 DEF ManufactureTag
    <3>3. QED
      BY <1>4, <3>2 DEF Derive, Resolved
  <2>3. Resolved' = "Checkpoint"
    BY <2>1, <2>2 DEF Resolved
  <2>4. QED
    BY <1>2, <1>4, <2>1, <2>2, <2>3 DEF Derive, Phase, Exempt
<1>5. CASE Derive = "Audit"
  <2>1. station' = "Reflect"
    BY <1>5 DEF Advance
  <2>2. Resolved \in {"Manufacture", "Audit"}
    BY <1>5 DEF Derive, Resolved
  <2>3. Resolved' = Resolved
    BY <2>2 DEF Resolved
  <2>4. QED
    BY <1>2, <1>5, <2>1, <2>2, <2>3 DEF Derive, Phase
<1>6. CASE Derive \notin {"Manufacture", "Reflect", "Audit"}
  <2>1. station' = station
    BY <1>6 DEF Advance
  <2>2. Resolved' = Resolved
    BY <2>1 DEF Resolved
  <2>3. QED
    BY <1>1, <1>2, <2>1, <2>2 DEF Derive
<1>7. QED
  BY <1>3, <1>4, <1>5, <1>6

\* A tick's verdict, spelled out.
LEMMA TickMoves ==
  ASSUME TypeOK, Tick
  PROVE  LET tag == Derive
             pushed == Push(history, SignatureOf(tag))
             halts == tag \notin Exempt /\ (SameHalt(pushed) \/ ChurnHalt(pushed))
         IN  /\ station # "Completed" /\ UNCHANGED <<unit, forgets>>
             /\ idle' = AtMost(idle + 1, HaltThreshold + 1)
             /\ history' = IF tag \in Exempt THEN Blank ELSE pushed
             /\ told' = IF halts THEN "Halted" ELSE tag
             /\ station' \in Phase
             /\ Derive' \in Exempt \/ Derive' = tag
             /\ halts => Derive' = tag
<1> DEFINE tag == Derive
           pushed == Push(history, SignatureOf(tag))
           halts == tag \notin Exempt /\ (SameHalt(pushed) \/ ChurnHalt(pushed))
<1>1. /\ station # "Completed" /\ UNCHANGED <<unit, forgets>>
      /\ idle' = AtMost(idle + 1, HaltThreshold + 1)
      /\ history' = IF tag \in Exempt THEN Blank ELSE pushed
      /\ told' = IF halts THEN "Halted" ELSE tag
      /\ Advance(told')
  BY DEF Tick
<1>2. CASE halts
  <2>1. station' = station
    BY <1>1, <1>2 DEF Advance
  <2>2. Derive' = Derive /\ station' \in Phase
    <3>1. station' \in Phase
      BY <1>1, <2>1 DEF TypeOK
    <3>2. Unmet' = Unmet /\ ManufactureTag' = ManufactureTag /\ Resolved' = Resolved
      BY <1>1, <2>1 DEF Unmet, Satisfied, ManufactureTag, Resolved
    <3>3. QED
      BY <1>1, <2>1, <3>1, <3>2 DEF Derive
  <2>3. QED
    BY <1>1, <2>2
<1>3. CASE ~halts
  <2>1. Advance(Derive)
    BY <1>1, <1>3 DEF Advance
  <2>2. station' \in Phase /\ (Derive' \in Exempt \/ Derive' = Derive)
    BY <1>1, <2>1, AdvanceKeepsAnswer
  <2>3. QED
    BY <1>1, <1>3, <2>2
<1>4. QED
  BY <1>2, <1>3

LEMMA TickIInv == IInv /\ Tick => IInv'
<1> SUFFICES ASSUME IInv, Tick PROVE IInv'
  OBVIOUS
<1> DEFINE tag == Derive
           sig == SignatureOf(tag)
           pushed == Push(history, sig)
           halts == tag \notin Exempt /\ (SameHalt(pushed) \/ ChurnHalt(pushed))
<1>1. TypeOK /\ Steady
  BY DEF IInv
<1>2. /\ station # "Completed" /\ UNCHANGED <<unit, forgets>>
      /\ idle' = AtMost(idle + 1, HaltThreshold + 1)
      /\ history' = IF tag \in Exempt THEN Blank ELSE pushed
      /\ told' = IF halts THEN "Halted" ELSE tag
      /\ station' \in Phase
      /\ Derive' \in Exempt \/ Derive' = tag
      /\ halts => Derive' = tag
  BY <1>1, TickMoves
<1>3. tag \in Tags /\ sig \in Signatures /\ history \in Histories
  BY <1>1, DeriveTyped, SignatureTyped DEF TypeOK
<1>4. pushed \in Histories /\ pushed.count = CountWith(history, sig) /\ pushed.last = sig
  BY <1>3, PushTyped
<1>5. Blank \in Histories
  BY GuardAssumption DEF Blank, Histories
<1>6. idle \in 0..(HaltThreshold + 1) /\ HaltThreshold \in Nat /\ HaltThreshold >= 1
  BY <1>1, GuardAssumption DEF TypeOK
<1>7. TypeOK'
  <2>1. told' \in Tags /\ history' \in Histories
    BY <1>2, <1>3, <1>4, <1>5 DEF Tags
  <2>2. idle' \in 0..(HaltThreshold + 1)
    BY <1>2, <1>6 DEF AtMost
  <2>3. entered' \in BOOLEAN /\ nonce' \in BOOLEAN /\ paid' \in BOOLEAN /\ lapsed' \in BOOLEAN
    <3>1. /\ lapsed' = (lapsed \/ (told \in Work /\ ~paid)) /\ paid' = FALSE
          /\ entered' = (entered \/ told' = "Checkpoint") /\ nonce' = (nonce \/ told' = "Manufacture")
      BY DEF Tick
    <3>2. QED
      BY <3>1, Zenon
  <2>4. QED
    BY <1>1, <1>2, <2>1, <2>2, <2>3 DEF TypeOK
<1>8. Steady'
  <2>1. CASE tag \in Exempt
    <3>1. told' \in Exempt /\ Derive' \in Exempt
      BY <1>2, <2>1
    <3>2. QED
      BY <3>1 DEF Steady
  <2>2. CASE tag \notin Exempt
    <3>1. history' = pushed
      BY <1>2, <2>2
    <3>2. history'.count >= idle'
      <4>1. CASE idle = 0
        <5>1. idle' = 1
          BY <1>2, <1>6, <4>1 DEF AtMost
        <5>2. history.count \in Nat
          BY <1>3 DEF Histories
        <5>3. CountWith(history, sig) >= 1
          BY <1>6, <5>2 DEF CountWith, AtMost
        <5>4. QED
          BY <1>4, <3>1, <5>1, <5>3
      <4>2. CASE idle > 0
        <5>1. history.count >= idle /\ sig = history.last
          BY <1>1, <2>2, <4>2 DEF Steady
        <5>2. history.count \in 0..(HaltThreshold + 1)
          BY <1>3 DEF Histories
        <5>3. history'.count = AtMost(history.count + 1, HaltThreshold + 1)
          BY <1>4, <3>1, <5>1 DEF CountWith
        <5>4. QED
          BY <1>2, <1>6, <5>1, <5>2, <5>3 DEF AtMost
      <4>3. QED
        BY <1>6, <4>1, <4>2
    <3>3. Derive' \in Exempt \/ SignatureOf(Derive)' = history'.last
      <4>1. Derive' = tag => SignatureOf(Derive)' = sig
        BY <1>2 DEF SignatureOf
      <4>2. QED
        BY <1>2, <1>4, <3>1, <4>1
    <3>4. told' = "Halted" \/ ~SameHalt(history)'
      BY <1>2, <2>2, <3>1 DEF SameHalt
    <3>5. told' \notin Exempt
      BY <1>2, <2>2 DEF Exempt
    <3>6. QED
      BY <3>2, <3>3, <3>4, <3>5 DEF Steady
  <2>3. QED
    BY <2>1, <2>2
<1>9. QED
  BY <1>7, <1>8 DEF IInv

-----------------------------------------------------------------------------
(* The operator, the guard's clock and the agent's calls *)

LEMMA ApproveIInv == IInv /\ Approve => IInv'
<1> SUFFICES ASSUME IInv, Approve PROVE IInv'
  OBVIOUS
<1>1. /\ station' = "Completed" /\ nonce' = FALSE /\ told' = "Locked"
      /\ UNCHANGED <<entered, unit, history, forgets, idle, paid, lapsed>>
  BY DEF Approve
<1>2. TypeOK'
  BY <1>1 DEF IInv, TypeOK, Tags, Exempt
<1>3. told' \in Exempt /\ Derive' \in Exempt
  BY <1>1 DEF Derive, Exempt
<1>4. QED
  BY <1>2, <1>3 DEF IInv, Steady

LEMMA ForgetIInv == IInv /\ Forget => IInv'
<1> SUFFICES ASSUME IInv, Forget PROVE IInv'
  OBVIOUS
<1>1. /\ forgets < MaxForgets /\ forgets' = forgets + 1 /\ history' = Blank /\ idle' = 0
      /\ UNCHANGED <<station, entered, nonce, unit, told, paid, lapsed>>
  BY DEF Forget
<1>2. Blank \in Histories
  BY GuardAssumption DEF Blank, Histories
<1>3. TypeOK'
  BY <1>1, <1>2, GuardAssumption DEF IInv, TypeOK
<1>4. QED
  BY <1>1, <1>3 DEF IInv, Steady

LEMMA EditIInv ==
  ASSUME IInv, NEW new \in UnitStates, NEW pays \in BOOLEAN, NEW undoes \in BOOLEAN,
         Edit(new, pays, undoes)
  PROVE  IInv'
<1>1. /\ unit' = new /\ idle' = 0
      /\ lapsed' = (lapsed \/ undoes) /\ paid' = (~lapsed' /\ (paid \/ pays))
      /\ UNCHANGED <<station, entered, nonce, history, told, forgets>>
  BY DEF Edit
<1>2. lapsed' \in BOOLEAN /\ paid' \in BOOLEAN
  BY <1>1, Zenon
<1>3. TypeOK'
  BY <1>1, <1>2, GuardAssumption DEF IInv, TypeOK
<1>4. QED
  BY <1>1, <1>3 DEF IInv, Steady

LEMMA BeatIInv == ASSUME IInv, NEW settles \in BOOLEAN, Beat(settles) PROVE IInv'
<1> DEFINE new == [unit EXCEPT
               !.pass = @ + 1,
               !.beats = IF settles THEN AtMost(@ + 1, W) ELSE IF @ = 0 THEN 0 ELSE @ - 1,
               !.status = IF @ = "Pending" THEN "InProgress" ELSE @]
           pays == settles /\ unit.beats < W
           undoes == ~settles \/ unit.beats = W
<1>1. unit.pass <= MaxPasses /\ Edit(new, pays, undoes)
  BY DEF Beat
<1>2. unit \in UnitStates
  BY DEF IInv, TypeOK
<1>3. new \in UnitStates
  <2>1. /\ unit.beats \in 0..W /\ unit.pass \in 0..(MaxPasses + 1)
        /\ unit.status \in {"Pending", "InProgress", "Completed"}
    BY <1>2 DEF UnitStates
  <2>2. unit.pass + 1 \in 0..(MaxPasses + 1)
    BY <1>1, <2>1, GuardAssumption
  <2>3. (IF settles THEN AtMost(unit.beats + 1, W) ELSE IF unit.beats = 0 THEN 0 ELSE unit.beats - 1)
          \in 0..W
    BY <2>1, GuardAssumption DEF AtMost
  <2>4. (IF unit.status = "Pending" THEN "InProgress" ELSE unit.status)
          \in {"Pending", "InProgress", "Completed"}
    BY <2>1
  <2>5. QED
    BY <1>2, <2>2, <2>3, <2>4 DEF UnitStates
<1> HIDE DEF new
<1>4. pays \in BOOLEAN /\ undoes \in BOOLEAN
  OBVIOUS
<1> HIDE DEF pays, undoes
<1>5. QED
  BY <1>1, <1>3, <1>4, EditIInv

LEMMA CompleteIInv == IInv /\ Complete => IInv'
<1> SUFFICES ASSUME IInv, Complete PROVE IInv'
  OBVIOUS
<1> DEFINE new == [unit EXCEPT !.status = "Completed"]
           pays == unit.beats = W
           undoes == unit.beats < W
<1>1. Edit(new, pays, undoes)
  BY DEF Complete
<1>2. new \in UnitStates
  BY DEF IInv, TypeOK, UnitStates
<1> HIDE DEF new
<1>3. pays \in BOOLEAN /\ undoes \in BOOLEAN
  OBVIOUS
<1> HIDE DEF pays, undoes
<1>4. QED
  BY <1>1, <1>2, <1>3, EditIInv

LEMMA RecordIInv ==
  ASSUME IInv, NEW g \in Gate, NEW result \in {"pass", "fail", "env_blocked"},
         NEW carries \in BOOLEAN, Record(g, result, carries)
  PROVE  IInv'
<1> DEFINE new == [unit EXCEPT !.result[g] = Effective(g, result),
                               !.attempts[g] = AtMost(@ + 1, DeferAfter)]
           pays == result # "fail" /\ ~Satisfied(g)
           undoes == result = "fail" \/ Satisfied(g)
<1>1. Edit(new, pays, undoes)
  BY DEF Record
<1>2. new \in UnitStates
  <2>1. Effective(g, result) \in Results
    BY DEF Effective, Results
  <2>2. unit \in UnitStates /\ DeferAfter \in Nat
    BY GuardAssumption DEF IInv, TypeOK
  <2>3. AtMost(unit.attempts[g] + 1, DeferAfter) \in 0..DeferAfter
    BY <2>2 DEF UnitStates, AtMost
  <2>4. QED
    BY <2>1, <2>2, <2>3 DEF UnitStates
<1> HIDE DEF new
<1>3. pays \in BOOLEAN /\ undoes \in BOOLEAN
  OBVIOUS
<1> HIDE DEF pays, undoes
<1>4. QED
  BY <1>1, <1>2, <1>3, EditIInv

LEMMA StampIInv == IInv /\ Stamp => IInv'
<1> SUFFICES ASSUME IInv, Stamp PROVE IInv'
  OBVIOUS
<1>1. unit.approvals < R /\ Edit([unit EXCEPT !.approvals = @ + 1], TRUE, FALSE)
  BY DEF Stamp
<1>2. [unit EXCEPT !.approvals = @ + 1] \in UnitStates
  BY <1>1, GuardAssumption DEF IInv, TypeOK, UnitStates
<1>3. QED
  BY <1>1, <1>2, EditIInv

LEMMA StepIInv == IInv /\ [Next]_vars => IInv'
<1> SUFFICES ASSUME IInv, [Next]_vars PROVE IInv'
  OBVIOUS
<1>1. CASE Tick
  BY <1>1, TickIInv
<1>2. CASE Approve
  BY <1>2, ApproveIInv
<1>3. CASE Forget
  BY <1>3, ForgetIInv
<1>4. CASE \E settles \in BOOLEAN : Beat(settles)
  BY <1>4, BeatIInv
<1>5. CASE Complete
  BY <1>5, CompleteIInv
<1>6. CASE \E g \in Gate, result \in {"pass", "fail", "env_blocked"}, carries \in BOOLEAN :
             Record(g, result, carries)
  BY <1>6, RecordIInv
<1>7. CASE Stamp
  BY <1>7, StampIInv
<1>8. CASE UNCHANGED vars
  BY <1>8 DEF vars, IInv, TypeOK, Steady, Derive, Resolved, Unmet, Satisfied, ManufactureTag,
              SignatureOf, SameHalt
<1>9. QED
  BY <1>1, <1>2, <1>3, <1>4, <1>5, <1>6, <1>7, <1>8 DEF Next

LEMMA GuardIInv == Spec => []IInv
  BY InitIInv, StepIInv, PTL DEF Spec

\* Every reachable state is well typed: the window's distances stay inside it
\* and its count below the cap, whatever is pushed and however often it is lost.
THEOREM GuardTyped == Spec => []TypeOK
<1>1. IInv => TypeOK
  BY DEF IInv
<1>2. QED
  BY <1>1, GuardIInv, PTL

\* A run that ticks on without any work is surfaced to a human after
\* HALT_THRESHOLD ticks, whatever happened before: no earlier history, no
\* churn verdict and no phase stamped by the ticks themselves masks the loop.
THEOREM WedgesSurface == Spec => []WedgeSurfaces
<1>1. IInv => WedgeSurfaces
  <2> SUFFICES ASSUME IInv, idle > HaltThreshold, told \notin Exempt PROVE told = "Halted"
    BY DEF WedgeSurfaces
  <2>1. HaltThreshold \in Nat /\ idle \in 0..(HaltThreshold + 1) /\ history.count \in 0..(HaltThreshold + 1)
    BY GuardAssumption DEF IInv, TypeOK, Histories
  <2>2. history.count >= idle /\ (told = "Halted" \/ ~SameHalt(history))
    BY <2>1 DEF IInv, Steady
  <2>3. QED
    BY <2>1, <2>2 DEF SameHalt
<1>2. QED
  BY <1>1, GuardIInv, PTL

-----------------------------------------------------------------------------
(* An agent who works *)

\* The work the fingerprint does not show: stamps and gate results.  What one
\* reviewer or one gate can take of it is bounded, by R and by DeferAfter.
Tried(un) == {t \in Gate \X (1..DeferAfter) : t[2] <= un.attempts[t[1]]}
Hidden(un) == un.approvals + Cardinality(Tried(un))
Touched(un) == {g \in Gate : un.result[g] # "none"}

\* So little of it that no wait for one piece after the other looks like a wedge.
LittleHidden ==
    /\ IsFiniteSet(Gate) /\ ~Unasked
    /\ R + Cardinality(Gate) <= HaltThreshold
    /\ Cardinality(Gate) * DeferAfter <= HaltThreshold
    /\ R + Cardinality(Gate) * DeferAfter + 2 < ChurnMinTicks

\* What an agent that undoes nothing leaves of the unit.
Honest(un) ==
    /\ un.status = "Completed" => un.beats = W
    /\ \A g \in Gate :
         /\ un.result[g] # "fail"
         /\ un.result[g] = "none" => un.attempts[g] = 0
         /\ un.attempts[g] >= DeferAfter => un.result[g] \in {"pass", "deferred"}

\* What the last tick's action still says while none of it is done.
Standing ==
    /\ told \in {"Manufacture", "Noop"} /\ ~paid => unit.beats < W /\ unit.status # "Completed"
    /\ told = "Audit" /\ ~paid => \A g \in Gate : unit.result[g] # "env_blocked"
    /\ told = "Reflect" => station # "Reflect" /\ (paid \/ Derive \in Exempt)
    /\ history.last # NoSignature => told = history.last.tag /\ told \notin Exempt

Shows(sig, un) == sig.done = (un.status = "Completed") /\ sig.pass = un.pass
SameShown(a, b) == a.done = b.done /\ a.pass = b.pass
NotAfter(a, b) == (a.done => b.done) /\ a.pass <= b.pass

\* 0 once hidden work came in since the tick that got h's last signature.
Slack(h, un) == IF Shows(h.last, un) THEN 0 ELSE 1
Owed == IF paid THEN Slack(history, unit) ELSE 1

\* The pieces of work that have been done at most while the cursor answered tag.
Credit(tag, un) ==
    CASE tag = "Audit" -> un.approvals + Cardinality(Touched(un))
      [] tag \in {"EscalateToUser", "GatesUnmet"} -> Cardinality(Tried(un))
      [] OTHER -> 0

\* The guard's count never outruns the work done under the same answer ...
Counted(h, un, slack) ==
    IF h.last.tag = "Reflect" THEN h.count = 1
    ELSE h.count <= Credit(h.last.tag, un) + slack

Turns(h) == IF SameShown(h.other, h.last) THEN 0 ELSE 1

\* ... and two answers never alternate for longer than the hidden work, and one
\* change of the fingerprint between them, lasts.
Window(h, un, slack) ==
    /\ h.last.done => un.status = "Completed"
    /\ h.last.pass <= un.pass
    /\ h.second = 0 => h.third = 0 /\ h.length <= Hidden(un) + slack
    /\ h.second > 0 =>
         /\ h.other \in Signatures /\ h.other # h.last /\ NotAfter(h.other, h.last)
         /\ h.second <= Hidden(un) + slack
         /\ IF h.third = 0 THEN h.length <= Hidden(un) + slack + Turns(h)
                           ELSE h.third <= Hidden(un) + slack + Turns(h)

Recorded(h, un, slack) ==
    IF h.last = NoSignature THEN h = Blank ELSE Counted(h, un, slack) /\ Window(h, un, slack)

Diligent ==
    ~lapsed =>
        /\ Honest(unit) /\ told # "Halted"
        /\ station # "Completed" => Standing /\ Recorded(history, unit, Owed)

DInv == IInv /\ Diligent

LEMMA Trials ==
  ASSUME LittleHidden
  PROVE  /\ Cardinality(Gate) \in Nat
         /\ IsFiniteSet(Gate \X (1..DeferAfter))
         /\ Cardinality(Gate \X (1..DeferAfter)) = Cardinality(Gate) * DeferAfter
         /\ Cardinality(Gate) * DeferAfter \in Nat
<1>1. DeferAfter \in Nat \ {0}
  BY GuardAssumption
<1>2. IsFiniteSet(1..DeferAfter) /\ Cardinality(1..DeferAfter) = DeferAfter
  BY <1>1, FS_Interval
<1>3. IsFiniteSet(Gate) /\ Cardinality(Gate) \in Nat
  BY FS_CardinalityType DEF LittleHidden
<1>4. /\ IsFiniteSet(Gate \X (1..DeferAfter))
      /\ Cardinality(Gate \X (1..DeferAfter)) = Cardinality(Gate) * DeferAfter
  BY <1>2, <1>3, FS_Product
<1>5. Cardinality(Gate \X (1..DeferAfter)) \in Nat
  BY <1>4, FS_CardinalityType
<1>6. QED
  BY <1>3, <1>4, <1>5

LEMMA HiddenBounds ==
  ASSUME LittleHidden, NEW un \in UnitStates
  PROVE  /\ IsFiniteSet(Tried(un)) /\ Cardinality(Tried(un)) \in 0..(Cardinality(Gate) * DeferAfter)
         /\ IsFiniteSet(Touched(un)) /\ Cardinality(Touched(un)) \in 0..Cardinality(Gate)
         /\ Hidden(un) \in 0..(R + Cardinality(Gate) * DeferAfter)
<1>1. Tried(un) \in SUBSET (Gate \X (1..DeferAfter)) /\ Touched(un) \in SUBSET Gate
  BY DEF Tried, Touched
<1>2. IsFiniteSet(Tried(un)) /\ Cardinality(Tried(un)) <= Cardinality(Gate) * DeferAfter
  BY <1>1, Trials, FS_Subset
<1>3. IsFiniteSet(Touched(un)) /\ Cardinality(Touched(un)) <= Cardinality(Gate)
  BY <1>1, FS_Subset DEF LittleHidden
<1>4. Cardinality(Tried(un)) \in Nat /\ Cardinality(Touched(un)) \in Nat
  BY <1>2, <1>3, FS_CardinalityType
<1>5. un.approvals \in 0..R /\ R \in Nat
  BY GuardAssumption DEF UnitStates
<1>6. QED
  BY <1>2, <1>3, <1>4, <1>5, Trials DEF Hidden

\* A gate that is not satisfied has an attempt left.
LEMMA UnmetLeavesOne ==
  ASSUME LittleHidden, NEW un \in UnitStates, Honest(un),
         NEW g \in Gate, un.result[g] \notin {"pass", "deferred"}
  PROVE  Cardinality(Tried(un)) < Cardinality(Gate) * DeferAfter
<1>1. un.attempts[g] < DeferAfter /\ DeferAfter \in Nat \ {0}
  BY GuardAssumption DEF Honest, UnitStates
<1>2. <<g, DeferAfter>> \in Gate \X (1..DeferAfter) /\ <<g, DeferAfter>> \notin Tried(un)
  BY <1>1 DEF Tried, UnitStates
<1>3. Tried(un) \in SUBSET (Gate \X (1..DeferAfter)) /\ Tried(un) # Gate \X (1..DeferAfter)
  BY <1>2 DEF Tried
<1>4. Cardinality(Tried(un)) # Cardinality(Gate \X (1..DeferAfter))
  BY <1>3, Trials, FS_Subset
<1>5. QED
  BY <1>4, Trials, HiddenBounds

\* A set that gains something counts more.
LEMMA GrowsBySome ==
  ASSUME NEW A, NEW B, IsFiniteSet(B), A \subseteq B
  PROVE  /\ Cardinality(A) \in Nat /\ Cardinality(B) \in Nat
         /\ Cardinality(A) <= Cardinality(B)
         /\ A # B => Cardinality(A) < Cardinality(B)
<1>1. /\ IsFiniteSet(A) /\ Cardinality(A) <= Cardinality(B)
      /\ Cardinality(B) = Cardinality(A) => B = A
  BY FS_Subset
<1>2. Cardinality(A) \in Nat /\ Cardinality(B) \in Nat
  BY <1>1, FS_CardinalityType
<1>3. QED
  BY <1>1, <1>2

-----------------------------------------------------------------------------
(* The calls of an agent who works *)

\* An edit that shows in the fingerprint, or is hidden work.
Shown(old, new) ==
    /\ new.approvals = old.approvals /\ new.result = old.result /\ new.attempts = old.attempts
    /\ ~Shows([done |-> old.status = "Completed", pass |-> old.pass], new)

\* Hidden work under the last answer, if it is the first since.
Pays(old, new) ==
    /\ new.status = old.status /\ new.pass = old.pass
    /\ Hidden(new) > Hidden(old)
    /\ \A tag \in Tags : Credit(tag, new) >= Credit(tag, old)
    /\ station # "Completed" /\ ~paid /\ history.last # NoSignature /\ told # "Reflect"
         => Credit(told, new) > Credit(told, old)

LEMMA EditDiligent ==
  ASSUME LittleHidden, DInv, NEW new \in UnitStates, NEW pays \in BOOLEAN, NEW undoes \in BOOLEAN,
         Edit(new, pays, undoes),
         ~lapsed /\ ~undoes =>
           /\ pays /\ Honest(new)
           /\ new.pass >= unit.pass /\ (unit.status = "Completed" => new.status = "Completed")
           /\ Shown(unit, new) \/ Pays(unit, new)
  PROVE  Diligent'
<1> SUFFICES ASSUME ~lapsed' PROVE Diligent'
  BY DEF Diligent
<1>1. /\ unit' = new /\ lapsed' = (lapsed \/ undoes) /\ paid' = (~lapsed' /\ (paid \/ pays))
      /\ UNCHANGED <<station, entered, nonce, history, told, forgets>>
  BY DEF Edit
<1>2. /\ ~lapsed /\ ~undoes /\ pays /\ paid' /\ Honest(new)
      /\ new.pass >= unit.pass /\ (unit.status = "Completed" => new.status = "Completed")
      /\ Shown(unit, new) \/ Pays(unit, new)
  BY <1>1
<1>3. /\ Honest(unit) /\ told # "Halted" /\ unit \in UnitStates /\ history \in Histories
      /\ station # "Completed" => Standing /\ Recorded(history, unit, Owed)
  BY <1>2 DEF DInv, Diligent, IInv, TypeOK
<1>4. ASSUME station # "Completed"
      PROVE  Standing'
  <2>1. told = "Reflect" => station # "Reflect"
    BY <1>3, <1>4 DEF Standing
  <2>2. history.last # NoSignature => told = history.last.tag /\ told \notin Exempt
    BY <1>3, <1>4 DEF Standing
  <2>3. QED
    BY <1>1, <1>2, <2>1, <2>2 DEF Standing
<1>5. ASSUME station # "Completed", history.last # NoSignature
      PROVE  Counted(history, new, Slack(history, new)) /\ Window(history, new, Slack(history, new))
  <2>1. Counted(history, unit, Owed) /\ Window(history, unit, Owed) /\ told = history.last.tag
    BY <1>3, <1>5 DEF Recorded, Standing
  <2>2. history.last \in Signatures /\ history.last.tag \in Tags /\ told \in Tags
        /\ history.last.pass \in Nat /\ history.last.done \in BOOLEAN
    BY <1>3, <1>5, GuardAssumption DEF Histories, Signatures, DInv, IInv, TypeOK
  <2>3. unit.pass \in Nat /\ new.pass \in Nat /\ unit.pass <= new.pass
    BY <1>2, <1>3, GuardAssumption DEF UnitStates
  <2>4. /\ Hidden(unit) \in Nat /\ Hidden(new) \in Nat
        /\ \A tag \in Tags : Credit(tag, unit) \in Nat /\ Credit(tag, new) \in Nat
    <3>1. \A un \in UnitStates : /\ Hidden(un) \in Nat /\ un.approvals \in Nat
                                 /\ Cardinality(Tried(un)) \in Nat /\ Cardinality(Touched(un)) \in Nat
      BY HiddenBounds, Trials, GuardAssumption DEF UnitStates
    <3>2. QED
      BY <1>3, <3>1 DEF Credit
  <2>5. /\ Hidden(new) + Slack(history, new) >= Hidden(unit) + Owed
        /\ told # "Reflect" => Credit(told, new) + Slack(history, new)
                                 >= Credit(told, unit) + Owed
    <3>1. CASE Shown(unit, new)
      <4>1. Tried(new) = Tried(unit) /\ Touched(new) = Touched(unit)
        BY <3>1 DEF Shown, Tried, Touched
      <4>2. Hidden(new) = Hidden(unit) /\ Credit(told, new) = Credit(told, unit)
        BY <3>1, <4>1 DEF Shown, Hidden, Credit
      <4>3. ~Shows(history.last, new)
        BY <1>2, <2>1, <2>2, <2>3, <3>1 DEF Shown, Shows, Window
      <4>4. Slack(history, new) = 1 /\ Owed \in {0, 1}
        BY <4>3 DEF Slack, Owed
      <4>5. QED
        BY <2>2, <2>4, <4>2, <4>4
    <3>2. CASE Pays(unit, new)
      <4>1. Shows(history.last, new) <=> Shows(history.last, unit)
        BY <3>2 DEF Pays, Shows
      <4>2. /\ Slack(history, new) \in {0, 1}
            /\ Owed \in {0, 1}
            /\ Owed > Slack(history, new) => ~paid
        BY <4>1 DEF Slack, Owed
      <4>3. Hidden(new) > Hidden(unit)
        BY <3>2 DEF Pays
      <4>4. Credit(told, new) >= Credit(told, unit)
            /\ (~paid /\ told # "Reflect" => Credit(told, new) > Credit(told, unit))
        BY <1>5, <2>2, <3>2 DEF Pays
      <4>5. QED
        BY <2>2, <2>4, <4>2, <4>3, <4>4
    <3>3. QED
      BY <1>2, <3>1, <3>2
  <2>6. Slack(history, new) \in {0, 1} /\ Owed \in {0, 1}
    BY DEF Slack, Owed
  <2>7. Counted(history, new, Slack(history, new))
    <3>1. history.count \in Nat
      BY <1>3, GuardAssumption DEF Histories
    <3>2. QED
      BY <2>1, <2>2, <2>4, <2>5, <2>6, <3>1 DEF Counted
  <2>8. Window(history, new, Slack(history, new))
    <3>1. history.second \in Nat /\ history.third \in Nat /\ history.length \in Nat
      BY <1>3, GuardAssumption DEF Histories
    <3>2. Turns(history) \in {0, 1}
      BY DEF Turns
    <3>3. history.last.done => new.status = "Completed"
      BY <1>2, <2>1 DEF Window
    <3>4. history.last.pass <= new.pass
      BY <2>1, <2>2, <2>3 DEF Window
    <3>5. QED
      BY <2>1, <2>4, <2>5, <2>6, <3>1, <3>2, <3>3, <3>4 DEF Window
  <2>9. QED
    BY <2>7, <2>8
<1>6. station # "Completed" => Recorded(history, new, Slack(history, new))
  BY <1>3, <1>5 DEF Recorded
<1>7. QED
  BY <1>1, <1>2, <1>3, <1>4, <1>6 DEF Diligent, Owed

LEMMA BeatDiligent ==
  ASSUME LittleHidden, DInv, NEW settles \in BOOLEAN, Beat(settles)
  PROVE  Diligent'
<1> DEFINE new == [unit EXCEPT
               !.pass = @ + 1,
               !.beats = IF settles THEN AtMost(@ + 1, W) ELSE IF @ = 0 THEN 0 ELSE @ - 1,
               !.status = IF @ = "Pending" THEN "InProgress" ELSE @]
           pays == settles /\ unit.beats < W
           undoes == ~settles \/ unit.beats = W
<1>1. unit.pass <= MaxPasses /\ Edit(new, pays, undoes)
  BY DEF Beat
<1>2. unit \in UnitStates /\ unit.beats \in 0..W /\ unit.pass \in 0..(MaxPasses + 1) /\ W \in Nat
  BY GuardAssumption DEF DInv, IInv, TypeOK, UnitStates
<1>3. new \in UnitStates
  <2>1. unit.pass + 1 \in 0..(MaxPasses + 1)
    BY <1>1, <1>2, GuardAssumption
  <2>2. (IF settles THEN AtMost(unit.beats + 1, W) ELSE IF unit.beats = 0 THEN 0 ELSE unit.beats - 1)
          \in 0..W
    BY <1>2 DEF AtMost
  <2>3. (IF unit.status = "Pending" THEN "InProgress" ELSE unit.status)
          \in {"Pending", "InProgress", "Completed"}
    BY <1>2 DEF UnitStates
  <2>4. QED
    BY <1>2, <2>1, <2>2, <2>3 DEF UnitStates
<1>4. ASSUME ~lapsed, ~undoes
      PROVE  /\ pays /\ Honest(new)
             /\ new.pass >= unit.pass /\ (unit.status = "Completed" => new.status = "Completed")
             /\ Shown(unit, new)
  <2>1. settles /\ unit.beats < W
    BY <1>2, <1>4
  <2>2. Honest(unit)
    BY <1>4 DEF DInv, Diligent
  <2>3. unit.status # "Completed"
    BY <1>2, <2>1, <2>2 DEF Honest
  <2>4. /\ new.pass = unit.pass + 1 /\ new.status # "Completed"
        /\ new.approvals = unit.approvals /\ new.result = unit.result /\ new.attempts = unit.attempts
    BY <1>2, <2>3 DEF UnitStates
  <2>5. Honest(new)
    BY <2>2, <2>4 DEF Honest
  <2>6. Shown(unit, new)
    BY <1>2, <2>4 DEF Shown, Shows
  <2>7. QED
    BY <1>2, <2>1, <2>3, <2>4, <2>5, <2>6
<1> HIDE DEF new
<1>5. pays \in BOOLEAN /\ undoes \in BOOLEAN
  OBVIOUS
<1> HIDE DEF pays, undoes
<1>6. QED
  BY <1>1, <1>3, <1>4, <1>5, EditDiligent

LEMMA CompleteDiligent ==
  ASSUME LittleHidden, DInv, Complete
  PROVE  Diligent'
<1> DEFINE new == [unit EXCEPT !.status = "Completed"]
           pays == unit.beats = W
           undoes == unit.beats < W
<1>1. unit.status # "Completed" /\ Edit(new, pays, undoes)
  BY DEF Complete
<1>2. unit \in UnitStates /\ unit.beats \in 0..W /\ unit.pass \in Nat /\ W \in Nat
  BY GuardAssumption DEF DInv, IInv, TypeOK, UnitStates
<1>3. new \in UnitStates
  BY <1>2 DEF UnitStates
<1>4. ASSUME ~lapsed, ~undoes
      PROVE  /\ pays /\ Honest(new)
             /\ new.pass >= unit.pass /\ (unit.status = "Completed" => new.status = "Completed")
             /\ Shown(unit, new)
  <2>1. unit.beats = W
    BY <1>2, <1>4
  <2>2. Honest(unit)
    BY <1>4 DEF DInv, Diligent
  <2>3. /\ new.pass = unit.pass /\ new.status = "Completed" /\ new.beats = unit.beats
        /\ new.approvals = unit.approvals /\ new.result = unit.result /\ new.attempts = unit.attempts
    BY <1>2 DEF UnitStates
  <2>4. Honest(new)
    BY <2>1, <2>2, <2>3 DEF Honest
  <2>5. Shown(unit, new)
    BY <1>1, <2>3 DEF Shown, Shows
  <2>6. QED
    BY <1>2, <2>1, <2>3, <2>4, <2>5
<1> HIDE DEF new
<1>5. pays \in BOOLEAN /\ undoes \in BOOLEAN
  OBVIOUS
<1> HIDE DEF pays, undoes
<1>6. QED
  BY <1>1, <1>3, <1>4, <1>5, EditDiligent

LEMMA StampDiligent ==
  ASSUME LittleHidden, DInv, Stamp
  PROVE  Diligent'
<1> DEFINE new == [unit EXCEPT !.approvals = @ + 1]
<1>1. unit.approvals < R /\ told = "Audit" /\ Edit(new, TRUE, FALSE)
  BY DEF Stamp, LittleHidden
<1>2. unit \in UnitStates /\ unit.approvals \in Nat /\ R \in Nat /\ unit.pass \in Nat
  BY GuardAssumption DEF DInv, IInv, TypeOK, UnitStates
<1>3. new \in UnitStates
  BY <1>1, <1>2 DEF UnitStates
<1>4. ASSUME ~lapsed
      PROVE  /\ Honest(new)
             /\ new.pass >= unit.pass /\ (unit.status = "Completed" => new.status = "Completed")
             /\ Pays(unit, new)
  <2>1. Honest(unit)
    BY <1>4 DEF DInv, Diligent
  <2>2. /\ new.pass = unit.pass /\ new.status = unit.status /\ new.beats = unit.beats
        /\ new.approvals = unit.approvals + 1
        /\ new.result = unit.result /\ new.attempts = unit.attempts
    BY <1>2 DEF UnitStates
  <2>3. Tried(new) = Tried(unit) /\ Touched(new) = Touched(unit)
    BY <2>2 DEF Tried, Touched
  <2>4. Cardinality(Tried(unit)) \in Nat /\ Cardinality(Touched(unit)) \in Nat
    BY <1>2, HiddenBounds, Trials
  <2>5. Hidden(new) > Hidden(unit)
    BY <1>2, <2>2, <2>3, <2>4 DEF Hidden
  <2>6. /\ Credit("Audit", new) > Credit("Audit", unit)
        /\ Credit("Audit", new) >= Credit("Audit", unit)
    BY <1>2, <2>2, <2>3, <2>4 DEF Credit
  <2>7. \A tag \in Tags \ {"Audit"} : Credit(tag, new) = Credit(tag, unit) /\ Credit(tag, unit) \in Nat
    BY <2>3, <2>4 DEF Credit
  <2>8. Pays(unit, new)
    <3>1. \A tag \in Tags : Credit(tag, new) >= Credit(tag, unit)
      BY <2>6, <2>7
    <3>2. QED
      BY <1>1, <2>2, <2>5, <2>6, <3>1 DEF Pays
  <2>9. Honest(new)
    BY <2>1, <2>2 DEF Honest
  <2>10. QED
    BY <1>2, <2>2, <2>8, <2>9
<1> HIDE DEF new
<1>5. QED
  BY <1>1, <1>3, <1>4, EditDiligent

LEMMA RecordDiligent ==
  ASSUME LittleHidden, DInv, NEW g \in Gate, NEW result \in {"pass", "fail", "env_blocked"},
         NEW carries \in BOOLEAN, Record(g, result, carries)
  PROVE  Diligent'
<1> DEFINE new == [unit EXCEPT !.result[g] = Effective(g, result),
                               !.attempts[g] = AtMost(@ + 1, DeferAfter)]
           pays == result # "fail" /\ ~Satisfied(g)
           undoes == result = "fail" \/ Satisfied(g)
<1>1. /\ unit.beats = W \/ unit.status = "Completed"
      /\ Edit(new, pays, undoes)
  BY DEF Record, LittleHidden
<1>2. unit \in UnitStates /\ unit.beats \in 0..W /\ unit.pass \in Nat /\ W \in Nat
      /\ unit.approvals \in Nat /\ DeferAfter \in Nat \ {0} /\ unit.attempts[g] \in 0..DeferAfter
  BY GuardAssumption DEF DInv, IInv, TypeOK, UnitStates
<1>3. /\ Effective(g, result) \in Results
      /\ AtMost(unit.attempts[g] + 1, DeferAfter) \in 0..DeferAfter
  BY <1>2 DEF Effective, Results, AtMost
<1>4. new \in UnitStates
  BY <1>2, <1>3 DEF UnitStates
<1>5. ASSUME ~lapsed, ~undoes
      PROVE  /\ pays /\ Honest(new)
             /\ new.pass >= unit.pass /\ (unit.status = "Completed" => new.status = "Completed")
             /\ Pays(unit, new)
  <2>1. Honest(unit) /\ (station # "Completed" => Standing)
    BY <1>5 DEF DInv, Diligent
  <2>2. result \in {"pass", "env_blocked"} /\ unit.result[g] \notin {"pass", "deferred"}
    BY <1>5 DEF Satisfied
  <2>3. unit.attempts[g] < DeferAfter
    BY <1>2, <2>1, <2>2 DEF Honest
  <2>4. /\ new.pass = unit.pass /\ new.status = unit.status /\ new.beats = unit.beats
        /\ new.approvals = unit.approvals
        /\ new.result = [unit.result EXCEPT ![g] = Effective(g, result)]
        /\ new.attempts = [unit.attempts EXCEPT ![g] = unit.attempts[g] + 1]
    BY <1>2, <2>3 DEF UnitStates, AtMost
  <2>5. /\ Effective(g, result) \in {"pass", "env_blocked", "deferred"}
        /\ unit.attempts[g] + 1 >= DeferAfter => Effective(g, result) \in {"pass", "deferred"}
    BY <2>2 DEF Effective
  <2>6. Honest(new)
    <3>1. new.status = "Completed" => new.beats = W
      BY <2>1, <2>4 DEF Honest
    <3>2. ASSUME NEW h \in Gate
          PROVE  /\ new.result[h] # "fail"
                 /\ new.result[h] = "none" => new.attempts[h] = 0
                 /\ new.attempts[h] >= DeferAfter => new.result[h] \in {"pass", "deferred"}
      <4>1. CASE h = g
        <5>1. new.result[h] = Effective(g, result) /\ new.attempts[h] = unit.attempts[g] + 1
          BY <1>2, <2>4, <4>1 DEF UnitStates
        <5>2. QED
          BY <2>5, <5>1
      <4>2. CASE h # g
        <5>1. new.result[h] = unit.result[h] /\ new.attempts[h] = unit.attempts[h]
          BY <1>2, <2>4, <4>2 DEF UnitStates
        <5>2. QED
          BY <2>1, <5>1 DEF Honest
      <4>3. QED
        BY <4>1, <4>2
    <3>3. QED
      BY <3>1, <3>2 DEF Honest
  <2>7. /\ Cardinality(Tried(unit)) < Cardinality(Tried(new))
        /\ Cardinality(Tried(unit)) \in Nat /\ Cardinality(Tried(new)) \in Nat
    <3>1. Tried(unit) \subseteq Tried(new)
      <4> SUFFICES ASSUME NEW t \in Gate \X (1..DeferAfter), t[2] <= unit.attempts[t[1]]
                   PROVE  t[2] <= new.attempts[t[1]]
        BY DEF Tried
      <4>1. t[1] \in Gate /\ t[2] \in Nat /\ unit.attempts[t[1]] \in Nat
        BY <1>2 DEF UnitStates
      <4>2. new.attempts[t[1]] \in {unit.attempts[t[1]], unit.attempts[t[1]] + 1}
        BY <1>2, <2>4, <4>1 DEF UnitStates
      <4>3. QED
        BY <4>1, <4>2
    <3>2. <<g, unit.attempts[g] + 1>> \in Tried(new) /\ <<g, unit.attempts[g] + 1>> \notin Tried(unit)
      <4>1. new.attempts[g] = unit.attempts[g] + 1
        BY <1>2, <2>4 DEF UnitStates
      <4>2. <<g, unit.attempts[g] + 1>> \in Gate \X (1..DeferAfter)
        BY <1>2, <2>3
      <4>3. QED
        BY <1>2, <4>1, <4>2 DEF Tried
    <3>3. QED
      BY <1>4, <3>1, <3>2, HiddenBounds, GrowsBySome
  <2>8. /\ Cardinality(Touched(unit)) <= Cardinality(Touched(new))
        /\ unit.result[g] = "none" => Cardinality(Touched(unit)) < Cardinality(Touched(new))
        /\ Cardinality(Touched(unit)) \in Nat /\ Cardinality(Touched(new)) \in Nat
    <3>1. Touched(new) = Touched(unit) \cup {g}
      BY <1>2, <2>4, <2>5 DEF Touched, UnitStates
    <3>2. unit.result[g] = "none" => g \notin Touched(unit)
      BY DEF Touched
    <3>3. QED
      BY <1>4, <3>1, <3>2, HiddenBounds, GrowsBySome
  <2>9. Hidden(new) > Hidden(unit)
    BY <1>2, <2>4, <2>7 DEF Hidden
  <2>10. \A tag \in Tags : Credit(tag, new) >= Credit(tag, unit)
    BY <1>2, <2>4, <2>7, <2>8 DEF Credit
  <2>11. ASSUME station # "Completed", ~paid, history.last # NoSignature, told # "Reflect"
         PROVE  Credit(told, new) > Credit(told, unit)
    <3>1. told = history.last.tag /\ Standing
      BY <2>1, <2>11 DEF Standing
    <3>2. told \notin {"Manufacture", "Noop"}
      BY <1>1, <1>2, <2>11, <3>1 DEF Standing
    <3>3. CASE told = "Audit"
      <4>1. unit.result[g] # "env_blocked"
        BY <2>11, <3>1, <3>3 DEF Standing
      <4>2. unit.result[g] = "none"
        <5>1. unit.result[g] \in Results
          BY <1>2 DEF UnitStates
        <5>2. QED
          BY <2>1, <2>2, <4>1, <5>1 DEF Honest, Results
      <4>3. QED
        BY <1>2, <2>4, <2>8, <3>3, <4>2 DEF Credit
    <3>4. CASE told \in {"EscalateToUser", "GatesUnmet"}
      BY <2>7, <3>4 DEF Credit
    <3>5. told \in {"Audit", "EscalateToUser", "GatesUnmet"}
      <4>1. told \in Tags /\ told # "Halted" /\ told \notin Exempt
        BY <1>5, <2>11, <3>1 DEF DInv, Diligent, Standing, IInv, TypeOK
      <4>2. QED
        BY <2>11, <3>2, <4>1 DEF Tags, Work
    <3>6. QED
      BY <3>3, <3>4, <3>5
  <2>12. Pays(unit, new)
    BY <2>4, <2>9, <2>10, <2>11 DEF Pays
  <2>13. QED
    BY <1>2, <1>5, <2>2, <2>4, <2>6, <2>12 DEF Satisfied
<1> HIDE DEF new
<1>6. pays \in BOOLEAN /\ undoes \in BOOLEAN
  OBVIOUS
<1> HIDE DEF pays, undoes
<1>7. QED
  BY <1>1, <1>4, <1>5, <1>6, EditDiligent

-----------------------------------------------------------------------------
(* The ticks of an agent who works *)

\* What the cursor's answer says of the unit.
LEMMA DeriveSays ==
  ASSUME TypeOK, Honest(unit)
  PROVE  /\ Derive # "Halted"
         /\ Derive \in {"Manufacture", "Noop"} => unit.beats < W /\ unit.status # "Completed"
         /\ Derive = "Audit" =>
              unit.approvals < R /\ \A g \in Gate : unit.result[g] # "env_blocked"
         /\ Derive \in {"EscalateToUser", "GatesUnmet"} =>
              \E g \in Gate : unit.result[g] \notin {"pass", "deferred"}
         /\ Derive = "Reflect" => station = "Reflect"
<1>1. /\ unit.status \in {"Pending", "InProgress", "Completed"} /\ station \in Phase \cup {"Completed"}
      /\ unit.beats \in 0..W /\ unit.approvals \in 0..R /\ W \in Nat /\ R \in Nat
  BY GuardAssumption DEF TypeOK, UnitStates
<1>2. CASE Derive \in Exempt
  BY <1>2 DEF Exempt
<1>3. CASE Derive = "EscalateToUser" /\ \E g \in Gate : unit.result[g] = "env_blocked"
  BY <1>3
<1>4. CASE Derive = "GatesUnmet" /\ Unmet
  BY <1>4 DEF Unmet, Satisfied
<1>5. CASE /\ Derive = ManufactureTag /\ Resolved = "Manufacture"
           /\ \A g \in Gate : unit.result[g] # "env_blocked"
  <2>1. unit.beats < W /\ unit.status # "Completed"
    <3>1. unit.beats < W
      BY <1>5 DEF Resolved
    <3>2. QED
      BY <1>1, <3>1 DEF Honest
  <2>2. Derive \in {"Manufacture", "Noop"}
    BY <1>1, <1>5, <2>1 DEF ManufactureTag
  <2>3. QED
    BY <2>1, <2>2
<1>6. CASE /\ Derive = Resolved /\ Resolved # "Manufacture"
           /\ \A g \in Gate : unit.result[g] # "env_blocked"
  <2>1. Derive \in {"Audit", "Reflect", "Checkpoint"}
    BY <1>6 DEF Resolved
  <2>2. Derive = "Audit" => unit.approvals < R
    BY <1>1, <1>6 DEF Resolved
  <2>3. Derive = "Reflect" => station = "Reflect"
    BY <1>1, <1>6 DEF Resolved
  <2>4. QED
    BY <1>6, <2>1, <2>2, <2>3
<1>7. QED
  BY <1>2, <1>3, <1>4, <1>5, <1>6 DEF Derive, Exempt

LEMMA PushFields ==
  ASSUME NEW h \in Histories, NEW s \in Signatures
  PROVE  /\ Push(h, s) \in Histories
         /\ Push(h, s).last = s /\ Push(h, s).count = CountWith(h, s)
         /\ Push(h, s).length = AtMost(h.length + 1, ChurnWindow)
         /\ s = h.last =>
              /\ Push(h, s).second = Older(h.second) /\ Push(h, s).third = Older(h.third)
              /\ Push(h, s).other = IF Older(h.second) = 0 THEN NoSignature ELSE h.other
         /\ s # h.last =>
              /\ Push(h, s).second = IF h.last = NoSignature THEN 0 ELSE 1
              /\ Push(h, s).third = Older(IF s = h.other THEN h.third ELSE h.second)
              /\ Push(h, s).other = h.last
<1>1. Push(h, s) \in Histories /\ Push(h, s).last = s /\ Push(h, s).count = CountWith(h, s)
  BY PushTyped
<1>2. CASE s = h.last
  <2>1. /\ Repeated(h).length = h.length
        /\ Repeated(h).second = Older(h.second) /\ Repeated(h).third = Older(h.third)
        /\ Repeated(h).other = IF Older(h.second) = 0 THEN NoSignature ELSE h.other
        /\ DOMAIN Repeated(h) = {"last", "count", "length", "other", "second", "third"}
    BY DEF Repeated, Histories
  <2>2. Push(h, s) = [Repeated(h) EXCEPT !.count = CountWith(h, s),
                                         !.length = AtMost(Repeated(h).length + 1, ChurnWindow)]
    BY <1>2 DEF Push
  <2>3. /\ Push(h, s).second = Repeated(h).second /\ Push(h, s).third = Repeated(h).third
        /\ Push(h, s).other = Repeated(h).other
        /\ Push(h, s).length = AtMost(Repeated(h).length + 1, ChurnWindow)
    BY <2>1, <2>2
  <2>4. QED
    BY <1>1, <1>2, <2>1, <2>3
<1>3. CASE s # h.last
  <2>1. /\ Turned(h, s).length = h.length
        /\ Turned(h, s).second = IF h.last = NoSignature THEN 0 ELSE 1
        /\ Turned(h, s).third = Older(IF s = h.other THEN h.third ELSE h.second)
        /\ Turned(h, s).other = h.last
        /\ DOMAIN Turned(h, s) = {"last", "count", "length", "other", "second", "third"}
    BY DEF Turned, Histories
  <2>2. Push(h, s) = [Turned(h, s) EXCEPT !.count = CountWith(h, s),
                                          !.length = AtMost(Turned(h, s).length + 1, ChurnWindow)]
    BY <1>3 DEF Push
  <2>3. /\ Push(h, s).second = Turned(h, s).second /\ Push(h, s).third = Turned(h, s).third
        /\ Push(h, s).other = Turned(h, s).other
        /\ Push(h, s).length = AtMost(Turned(h, s).length + 1, ChurnWindow)
    BY <2>1, <2>2
  <2>4. QED
    BY <1>1, <1>3, <2>1, <2>3
<1>4. QED
  BY <1>2, <1>3

\* The next tick, with the work done since the last one that its window needs.
LEMMA PushWindow ==
  ASSUME LittleHidden, NEW h \in Histories, NEW s \in Signatures, NEW un \in UnitStates,
         Shows(s, un),
         IF h.last = NoSignature THEN h = Blank ELSE Window(h, un, Slack(h, un))
  PROVE  Window(Push(h, s), un, 1) /\ ~ChurnHalt(Push(h, s))
<1> DEFINE p == Push(h, s)
           hid == Hidden(un)
<1>1. /\ hid \in Nat /\ hid + 2 < ChurnMinTicks /\ ChurnMinTicks \in Nat
      /\ ChurnWindow \in Nat /\ ChurnMinTicks <= ChurnWindow
  BY HiddenBounds, Trials, GuardAssumption DEF LittleHidden
<1>2. /\ h.second \in 0..(ChurnWindow - 1) /\ h.third \in 0..(ChurnWindow - 1)
      /\ h.length \in 0..ChurnWindow
      /\ h.last \in Signatures \cup {NoSignature} /\ h.other \in Signatures \cup {NoSignature}
  BY DEF Histories
<1>3. /\ p.last = s /\ p.length = AtMost(h.length + 1, ChurnWindow)
      /\ s = h.last =>
           /\ p.second = Older(h.second) /\ p.third = Older(h.third)
           /\ p.other = IF Older(h.second) = 0 THEN NoSignature ELSE h.other
      /\ s # h.last =>
           /\ p.second = IF h.last = NoSignature THEN 0 ELSE 1
           /\ p.third = Older(IF s = h.other THEN h.third ELSE h.second)
           /\ p.other = h.last
  BY PushFields
<1>4. s # NoSignature /\ s.done \in BOOLEAN /\ s.pass \in Nat
  <2>1. s.tag \in Tags /\ "none" \notin Tags
    BY DEF Signatures, Tags, Work, Exempt
  <2>2. NoSignature.tag = "none"
    BY DEF NoSignature
  <2>3. QED
    BY <2>1, <2>2, GuardAssumption DEF Signatures
<1>5. /\ p.last.done => un.status = "Completed"
      /\ p.last.pass <= un.pass
  <2>1. p.last = s
    BY <1>3
  <2>2. s.done => un.status = "Completed"
    BY Zenon DEF Shows
  <2>3. s.pass <= un.pass
    BY <1>4 DEF Shows
  <2>4. QED
    BY <2>1, <2>2, <2>3
<1> HIDE DEF hid, p
\* What is left to show, in numbers.
<1>6. SUFFICES
        /\ p.second = 0 => p.third = 0 /\ p.length <= hid + 1
        /\ p.second > 0 =>
             /\ p.other \in Signatures /\ p.other # p.last /\ NotAfter(p.other, p.last)
             /\ p.second <= hid + 1
             /\ IF p.third = 0 THEN p.length <= hid + 1 + Turns(p)
                               ELSE p.third <= hid + 1 + Turns(p)
        /\ p.second \in Nat /\ p.third \in Nat /\ p.length \in Nat
  <2>1. Turns(p) \in {0, 1}
    BY DEF Turns
  <2>2. Distinct(p) = 2 => p.second > 0 /\ p.third = 0
    BY <1>6 DEF Distinct
  <2>3. ~ChurnHalt(p)
    BY <1>1, <1>6, <2>1, <2>2 DEF ChurnHalt
  <2>4. Window(p, un, 1)
    BY <1>5, <1>6 DEF Window, hid
  <2>5. QED
    BY <2>3, <2>4 DEF p
<1>7. CASE h.last = NoSignature
  <2>1. h = Blank
    BY <1>7
  <2>2. h.length = 0 /\ h.second = 0 /\ h.third = 0
    BY <2>1 DEF Blank
  <2>3. p.second = 0 /\ p.third = 0 /\ p.length = 1
    BY <1>1, <1>3, <1>4, <1>7, <2>2 DEF Older, AtMost
  <2>4. QED
    BY <1>1, <2>3
<1>8. CASE h.last # NoSignature
  <2>1. Window(h, un, Slack(h, un)) /\ h.last \in Signatures
    BY <1>2, <1>8
  <2>2. Slack(h, un) = IF SameShown(h.last, s) THEN 0 ELSE 1
    BY DEF Slack, Shows, SameShown
  <2>3. NotAfter(h.last, s)
    BY <2>1 DEF Window, NotAfter, Shows
  <2>4. /\ h.second = 0 => h.third = 0 /\ h.length <= hid + Slack(h, un)
        /\ h.second > 0 =>
             /\ h.other \in Signatures /\ h.other # h.last /\ NotAfter(h.other, h.last)
             /\ h.second <= hid + Slack(h, un)
             /\ IF h.third = 0 THEN h.length <= hid + Slack(h, un) + Turns(h)
                               ELSE h.third <= hid + Slack(h, un) + Turns(h)
    BY <2>1 DEF Window, hid
  <2>5. Turns(h) \in {0, 1} /\ Slack(h, un) \in {0, 1}
    BY <2>2 DEF Turns
  <2>6. p.length \in Nat /\ p.length <= h.length + 1
    BY <1>1, <1>2, <1>3 DEF AtMost
  <2>7. CASE s = h.last
    <3>1. Slack(h, un) = 0
      BY <2>2, <2>7 DEF SameShown
    <3>2. CASE h.second = 0
      <4>1. p.second = 0 /\ p.third = 0
        BY <1>3, <2>4, <2>7, <3>2 DEF Older
      <4>2. QED
        BY <1>1, <1>2, <2>4, <2>6, <3>1, <3>2, <4>1
    <3>3. CASE h.second > 0
      <4>1. p.second = h.second + 1
        BY <1>1, <1>2, <1>3, <2>4, <2>7, <3>1, <3>3 DEF Older
      <4>2. p.third = IF h.third = 0 THEN 0 ELSE h.third + 1
        BY <1>1, <1>2, <1>3, <2>4, <2>5, <2>7, <3>1, <3>3 DEF Older
      <4>3. p.other = h.other /\ p.last = h.last
        BY <1>2, <1>3, <2>7, <4>1
      <4>4. Turns(p) = Turns(h)
        BY <4>3 DEF Turns
      <4>5. QED
        BY <1>1, <1>2, <2>4, <2>5, <2>6, <3>1, <3>3, <4>1, <4>2, <4>3, <4>4
    <3>4. QED
      BY <1>2, <3>2, <3>3
  <2>8. CASE s # h.last
    <3>1. p.second = 1 /\ p.other = h.last /\ p.third = Older(IF s = h.other THEN h.third ELSE h.second)
      BY <1>3, <1>8, <2>8
    <3>2. p.other \in Signatures /\ p.other # p.last /\ NotAfter(p.other, p.last)
      BY <1>3, <2>1, <2>3, <2>8, <3>1
    <3>3. Turns(p) = Slack(h, un)
      BY <1>3, <2>2, <3>1 DEF Turns
    <3>4. CASE h.second = 0
      <4>1. p.third = 0
        BY <2>4, <3>1, <3>4 DEF Older
      <4>2. QED
        BY <1>1, <1>2, <2>4, <2>5, <2>6, <3>1, <3>2, <3>3, <3>4, <4>1
    <3>5. CASE h.second > 0 /\ s = h.other
      <4>1. SameShown(h.other, h.last) /\ SameShown(h.last, s)
        <5>1. NotAfter(h.other, h.last) /\ NotAfter(h.last, h.other)
          BY <2>3, <2>4, <3>5
        <5>2. h.other.done \in BOOLEAN /\ h.last.done \in BOOLEAN /\ h.other.pass \in Nat /\ h.last.pass \in Nat
          BY <2>1, <3>5, GuardAssumption DEF Signatures
        <5>3. QED
          BY <3>5, <5>1, <5>2 DEF NotAfter, SameShown
      <4>2. Slack(h, un) = 0 /\ Turns(h) = 0
        BY <2>2, <4>1 DEF Turns
      <4>3. p.third = IF h.third = 0 THEN 0 ELSE h.third + 1
        BY <1>1, <1>2, <2>4, <3>1, <3>5, <4>2 DEF Older
      <4>4. QED
        BY <1>1, <1>2, <2>4, <2>6, <3>1, <3>2, <3>3, <3>5, <4>2, <4>3
    <3>6. CASE h.second > 0 /\ s # h.other
      <4>1. p.third = h.second + 1
        BY <1>1, <1>2, <2>4, <2>5, <3>1, <3>6 DEF Older
      <4>2. QED
        BY <1>1, <1>2, <2>4, <2>5, <2>6, <3>1, <3>2, <3>3, <3>6, <4>1
    <3>7. QED
      BY <1>2, <3>4, <3>5, <3>6
  <2>9. QED
    BY <2>7, <2>8
<1>9. QED
  BY <1>7, <1>8

\* ... and its count.
LEMMA PushCounted ==
  ASSUME LittleHidden, DInv, ~lapsed, station # "Completed", Derive \notin Exempt,
         history.last # NoSignature => paid
  PROVE  LET pushed == Push(history, SignatureOf(Derive))
         IN  Counted(pushed, unit, 1) /\ ~SameHalt(pushed)
<1> DEFINE s == SignatureOf(Derive)
           pushed == Push(history, s)
<1>1. /\ TypeOK /\ Honest(unit) /\ Standing /\ Recorded(history, unit, Owed)
      /\ unit \in UnitStates /\ history \in Histories
  BY DEF DInv, Diligent, IInv, TypeOK
<1>2. Derive \in Tags /\ s \in Signatures
  BY <1>1, DeriveTyped, SignatureTyped
<1>3. /\ pushed.last = s /\ pushed.count = CountWith(history, s) /\ s.tag = Derive
  BY <1>1, <1>2, PushTyped DEF SignatureOf
<1>4. s # NoSignature /\ Shows(s, unit)
  <2>1. s.tag \in Tags /\ "none" \notin Tags
    BY <1>2, <1>3 DEF Tags, Work, Exempt
  <2>2. NoSignature.tag = "none"
    BY DEF NoSignature
  <2>3. Shows(s, unit)
    BY Zenon DEF Shows, SignatureOf
  <2>4. QED
    BY <2>1, <2>2, <2>3
<1>5. /\ HaltThreshold \in Nat \ {0} /\ R \in Nat /\ Cardinality(Gate) \in Nat
      /\ Cardinality(Gate) * DeferAfter \in Nat
      /\ Cardinality(Tried(unit)) \in Nat /\ Cardinality(Touched(unit)) \in 0..Cardinality(Gate)
      /\ unit.approvals \in 0..R /\ history.count \in Nat
  BY <1>1, Trials, HiddenBounds, GuardAssumption DEF UnitStates, Histories
<1>6. Derive = "Reflect" => s # history.last
  <2>1. ASSUME Derive = "Reflect", s = history.last
        PROVE  FALSE
    <3>1. told = "Reflect"
      BY <1>1, <1>3, <1>4, <2>1 DEF Standing
    <3>2. station = "Reflect"
      BY <1>1, <2>1, DeriveSays
    <3>3. QED
      BY <1>1, <3>1, <3>2 DEF Standing
  <2>2. QED
    BY <2>1
<1>7. /\ pushed.count \in Nat /\ pushed.count >= 1
      /\ pushed.count = 1 \/ (Derive # "Reflect" /\ pushed.count <= Credit(Derive, unit) + 1)
  <2>1. CASE s # history.last
    <3>1. pushed.count = 1
      BY <1>3, <2>1 DEF CountWith
    <3>2. QED
      BY <3>1
  <2>2. CASE s = history.last
    <3>1. Counted(history, unit, Owed)
      BY <1>1, <1>4, <2>2 DEF Recorded
    <3>2. Owed = 0
      BY <1>4, <2>2 DEF Owed, Slack
    <3>3. Derive # "Reflect" /\ history.last.tag = Derive
      BY <1>3, <1>6, <2>2
    <3>4. Credit(Derive, unit) \in Nat
      BY <1>5 DEF Credit
    <3>5. history.count <= Credit(Derive, unit)
      BY <1>5, <3>1, <3>2, <3>3, <3>4 DEF Counted
    <3>6. pushed.count = AtMost(history.count + 1, HaltThreshold + 1)
      BY <1>3, <2>2 DEF CountWith
    <3>7. QED
      BY <1>5, <3>3, <3>4, <3>5, <3>6 DEF AtMost
  <2>3. QED
    BY <2>1, <2>2
<1> HIDE DEF pushed, s
<1>8. Credit(Derive, unit) \in Nat
  BY <1>5 DEF Credit
<1>9. Counted(pushed, unit, 1)
  <2>1. CASE Derive = "Reflect"
    BY <1>3, <1>7, <2>1 DEF Counted
  <2>2. CASE Derive # "Reflect"
    BY <1>3, <1>7, <1>8, <2>2 DEF Counted
  <2>3. QED
    BY <2>1, <2>2
<1>10. pushed.count <= HaltThreshold
  <2>1. CASE pushed.count = 1
    BY <1>5, <2>1
  <2>2. CASE pushed.count # 1 /\ Derive = "Audit"
    <3>1. unit.approvals < R
      BY <1>1, <2>2, DeriveSays
    <3>2. Credit(Derive, unit) = unit.approvals + Cardinality(Touched(unit))
      BY <2>2 DEF Credit
    <3>3. R + Cardinality(Gate) <= HaltThreshold
      BY DEF LittleHidden
    <3>4. QED
      BY <1>5, <1>7, <2>2, <3>1, <3>2, <3>3
  <2>3. CASE pushed.count # 1 /\ Derive \in {"EscalateToUser", "GatesUnmet"}
    <3>1. PICK g \in Gate : unit.result[g] \notin {"pass", "deferred"}
      BY <1>1, <2>3, DeriveSays
    <3>2. Cardinality(Tried(unit)) < Cardinality(Gate) * DeferAfter
      BY <1>1, <3>1, UnmetLeavesOne
    <3>3. Credit(Derive, unit) = Cardinality(Tried(unit))
      BY <2>3 DEF Credit
    <3>4. Cardinality(Gate) * DeferAfter <= HaltThreshold
      BY DEF LittleHidden
    <3>5. QED
      BY <1>5, <1>7, <2>3, <3>2, <3>3, <3>4
  <2>4. CASE pushed.count # 1 /\ Derive \notin {"Audit", "EscalateToUser", "GatesUnmet"}
    <3>1. Credit(Derive, unit) = 0
      BY <2>4 DEF Credit
    <3>2. QED
      BY <1>7, <2>4, <3>1
  <2>5. QED
    BY <2>1, <2>2, <2>3, <2>4
<1>11. QED
  BY <1>5, <1>7, <1>9, <1>10 DEF SameHalt, pushed, s

LEMMA TickDiligent ==
  ASSUME LittleHidden, DInv, Tick
  PROVE  Diligent'
<1> SUFFICES ASSUME ~lapsed' PROVE Diligent'
  BY DEF Diligent
<1> DEFINE s == SignatureOf(Derive)
           pushed == Push(history, s)
<1>1. /\ station # "Completed" /\ UNCHANGED unit
      /\ history' = IF Derive \in Exempt THEN Blank ELSE pushed
      /\ told' = IF Derive \notin Exempt /\ (SameHalt(pushed) \/ ChurnHalt(pushed))
                 THEN "Halted" ELSE Derive
      /\ Derive' \in Exempt \/ Derive' = Derive
  BY TickMoves DEF DInv, IInv
<1>2. ~lapsed /\ (told \in Work => paid) /\ paid' = FALSE /\ Advance(told')
  BY DEF Tick
<1>3. /\ TypeOK /\ Honest(unit) /\ Standing /\ Recorded(history, unit, Owed) /\ told # "Halted"
      /\ unit \in UnitStates /\ history \in Histories /\ told \in Tags
  BY <1>1, <1>2 DEF DInv, Diligent, IInv, TypeOK
<1>4. Derive \in Tags /\ s \in Signatures /\ Derive # "Halted"
  BY <1>3, DeriveTyped, SignatureTyped, DeriveSays
<1>5. Owed' = 1
  BY <1>2 DEF Owed
<1>6. Honest(unit)'
  BY <1>1, <1>3 DEF Honest
<1>7. CASE Derive \in Exempt
  <2>1. history' = Blank /\ told' = Derive
    BY <1>1, <1>7
  <2>2. history'.last = NoSignature
    BY <2>1 DEF Blank
  <2>3. Standing'
    BY <1>7, <2>1, <2>2 DEF Standing, Exempt
  <2>4. Recorded(history, unit, Owed)'
    BY <2>1, <2>2 DEF Recorded
  <2>5. QED
    BY <1>4, <1>6, <2>1, <2>3, <2>4 DEF Diligent
<1>8. CASE Derive \notin Exempt
  <2>1. ASSUME history.last # NoSignature
        PROVE  paid
    <3>1. told \in Work \cup {"Reflect"}
      BY <1>3, <2>1 DEF Standing, Tags
    <3>2. told = "Reflect" => paid
      BY <1>3, <1>8 DEF Standing
    <3>3. QED
      BY <1>2, <3>1, <3>2
  <2>2. Counted(pushed, unit, 1) /\ ~SameHalt(pushed)
    BY <1>1, <1>2, <1>8, <2>1, PushCounted
  <2>3. Window(pushed, unit, 1) /\ ~ChurnHalt(pushed)
    <3>1. Shows(s, unit)
      BY Zenon DEF Shows, SignatureOf
    <3>2. history.last # NoSignature => Owed = Slack(history, unit)
      BY <2>1 DEF Owed
    <3>3. IF history.last = NoSignature THEN history = Blank
          ELSE Window(history, unit, Slack(history, unit))
      BY <1>3, <3>2 DEF Recorded
    <3>4. QED
      BY <1>3, <1>4, <3>1, <3>3, PushWindow
  <2>4. history' = pushed /\ told' = Derive /\ pushed.last = s /\ s.tag = Derive
    BY <1>1, <1>3, <1>4, <1>8, <2>2, <2>3, PushTyped DEF SignatureOf
  <2>5. s # NoSignature
    <3>1. "none" \notin Tags /\ NoSignature.tag = "none"
      BY DEF NoSignature, Tags, Work, Exempt
    <3>2. QED
      BY <1>4, <2>4, <3>1
  <2>6. Recorded(history, unit, Owed)'
    <3>1. Recorded(pushed, unit, 1)
      BY <2>2, <2>3, <2>4, <2>5 DEF Recorded
    <3>2. QED
      BY <1>1, <1>5, <2>4, <3>1 DEF Recorded, Counted, Window
  <2>7. Standing'
    <3>1. told' \in {"Manufacture", "Noop"} => unit'.beats < W /\ unit'.status # "Completed"
      BY <1>1, <1>3, <2>4, DeriveSays
    <3>2. told' = "Audit" => \A g \in Gate : unit'.result[g] # "env_blocked"
      BY <1>1, <1>3, <2>4, DeriveSays
    <3>3. ASSUME told' = "Reflect"
          PROVE  station' # "Reflect" /\ Derive' \in Exempt
      <4>1. station' = "Checkpoint"
        BY <1>2, <3>3 DEF Advance
      <4>2. Derive = "Reflect" /\ station = "Reflect"
        BY <1>3, <2>4, <3>3, DeriveSays
      <4>3. Derive' # "Reflect"
        <5>1. unit'.status \in {"Pending", "InProgress", "Completed"}
          BY <1>1, <1>3 DEF UnitStates
        <5>2. ManufactureTag' # "Reflect"
          BY <5>1 DEF ManufactureTag
        <5>3. Resolved' # "Reflect"
          BY <4>1 DEF Resolved
        <5>4. QED
          BY <5>2, <5>3 DEF Derive
      <4>4. QED
        BY <1>1, <4>1, <4>2, <4>3
    <3>4. history'.last # NoSignature => told' = history'.last.tag /\ told' \notin Exempt
      BY <1>8, <2>4
    <3>5. QED
      BY <3>1, <3>2, <3>3, <3>4 DEF Standing
  <2>8. QED
    BY <1>4, <1>6, <2>4, <2>6, <2>7 DEF Diligent
<1>9. QED
  BY <1>7, <1>8

-----------------------------------------------------------------------------
(* The theorem *)

LEMMA InitDInv == ASSUME LittleHidden, Init PROVE DInv
<1>1. IInv
  BY InitIInv
<1>2. /\ station = "Manufacture" /\ told = "Manufacture" /\ history = Blank /\ paid = FALSE
      /\ unit.status = "Pending" /\ unit.beats = 0
      /\ unit.result = [g \in Gate |-> "none"] /\ unit.attempts = [g \in Gate |-> 0]
  BY DEF Init
<1>3. Honest(unit)
  BY <1>2, GuardAssumption DEF Honest
<1>4. Standing
  BY <1>2, GuardAssumption DEF Standing, Blank
<1>5. Recorded(history, unit, Owed)
  BY <1>2 DEF Recorded, Blank
<1>6. QED
  BY <1>1, <1>2, <1>3, <1>4, <1>5 DEF DInv, Diligent

LEMMA StepDInv ==
  ASSUME LittleHidden, DInv, [Next]_vars
  PROVE  DInv'
<1>1. IInv'
  BY StepIInv DEF DInv
<1>2. CASE Tick
  BY <1>1, <1>2, TickDiligent DEF DInv
<1>3. CASE Approve
  <2>1. station' = "Completed" /\ told' = "Locked" /\ UNCHANGED <<unit, lapsed>>
    BY <1>3 DEF Approve
  <2>2. QED
    BY <1>1, <2>1 DEF DInv, Diligent, Honest
<1>4. CASE Forget
  <2>1. history' = Blank /\ UNCHANGED <<station, unit, told, paid, lapsed>>
    BY <1>4 DEF Forget
  <2>2. history'.last = NoSignature
    BY <2>1 DEF Blank
  <2>3. Derive' = Derive
    BY <2>1 DEF Derive, Resolved, ManufactureTag, Unmet, Satisfied
  <2>4. Standing => Standing'
    BY <2>1, <2>2, <2>3 DEF Standing
  <2>5. Recorded(history, unit, Owed)'
    BY <2>1, <2>2 DEF Recorded
  <2>6. QED
    BY <1>1, <2>1, <2>4, <2>5 DEF DInv, Diligent, Honest
<1>5. CASE \E settles \in BOOLEAN : Beat(settles)
  BY <1>1, <1>5, BeatDiligent DEF DInv
<1>6. CASE Complete
  BY <1>1, <1>6, CompleteDiligent DEF DInv
<1>7. CASE \E g \in Gate, result \in {"pass", "fail", "env_blocked"}, carries \in BOOLEAN :
             Record(g, result, carries)
  BY <1>1, <1>7, RecordDiligent DEF DInv
<1>8. CASE Stamp
  BY <1>1, <1>8, StampDiligent DEF DInv
<1>9. CASE UNCHANGED vars
  <2>1. UNCHANGED <<station, unit, history, told, paid, lapsed>>
    BY <1>9 DEF vars
  <2>2. Derive' = Derive /\ Owed' = Owed
    BY <2>1 DEF Derive, Resolved, ManufactureTag, Unmet, Satisfied, Owed, Slack, Shows
  <2>3. Standing => Standing'
    BY <2>1, <2>2 DEF Standing
  <2>4. Recorded(history, unit, Owed) => Recorded(history, unit, Owed)'
    BY <2>1, <2>2 DEF Recorded, Counted, Window
  <2>5. Honest(unit) => Honest(unit)'
    BY <2>1 DEF Honest
  <2>6. QED
    BY <1>1, <2>1, <2>3, <2>4, <2>5 DEF DInv, Diligent
<1>10. QED
  BY <1>2, <1>3, <1>4, <1>5, <1>6, <1>7, <1>8, <1>9 DEF Next

\* The guard halts nobody who works: an agent that does some of what it was told
\* between any two ticks, and undoes none of it, is never escalated, whatever it
\* does first and however often the history is lost.  The fingerprint does not
\* see a stamp or a gate result, so the thresholds must leave room for them; with
\* the code's thresholds they do for up to four reviewers and no gate, three and
\* one gate, or one and two gates.
THEOREM WorkIsNotAWedge ==
  ASSUME LittleHidden
  PROVE  Spec => []DiligentNeverHalted
<1>1. Init => DInv
  BY InitDInv
<1>2. DInv /\ [Next]_vars => DInv'
  BY StepDInv
<1>3. DInv => DiligentNeverHalted
  BY DEF DInv, Diligent, DiligentNeverHalted
<1>4. QED
  BY <1>1, <1>2, <1>3, PTL DEF Spec
=============================================================================
