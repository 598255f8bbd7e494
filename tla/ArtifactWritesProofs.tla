----------------------- MODULE ArtifactWritesProofs -----------------------
(***************************************************************************)
(* The mkdir lock and the guarded writers, for every set of processes,     *)
(* every crash, timeout and I/O error, with directories that outlive       *)
(* STALE_AFTER: those of dead processes, which are stolen, and those of    *)
(* holders that hang, which is_alive must protect.  As long as nobody else *)
(* is past is_stale's age test while a live process steals (StealsAlone),  *)
(* the lock excludes, no live lock is taken and write_guarded is a         *)
(* compare-and-swap.  The condition holds of every behaviour when no       *)
(* directory outlives STALE_AFTER (YoungSpec) or when two processes        *)
(* contend; with three it can fail, and so can the lock.  A holder that    *)
(* does come back after STALE_AFTER (AgingSpec) is not covered: two        *)
(* processes are enough to lose a live lock then.                          *)
(***************************************************************************)
EXTENDS ArtifactWrites, TLAPS

\* A process that judged the directory stale, up to the rmdir of steal, and one
\* past is_stale's age test.
Emptying(p) == p \in alive /\ pc[p] \in {"emptying", "unlinking"}
Judging(p)  == At(p, "probe")

\* While a process steals, no other is past the age test.  Any number of them
\* may be there as long as nobody steals: they wait for a holder that hangs.
StealsAlone ==
    \A p, q \in Proc : Emptying(p) /\ (Emptying(q) \/ Judging(q)) => p = q

\* A process between its create_dir and its rmdir, dead or alive.
Owning == {"stamp", "held", "leaving", "removing"}

\* Why the lock excludes: a live owner made the directory on disk, what is
\* judged is old, and so made by a dead process or stamped by its live holder,
\* and what is stolen was made by a dead one.
OwnerInv ==
    /\ present => creator \in Proc
    /\ old => creator \notin alive \/ (At(creator, "held") /\ holder = creator)
    /\ \A p \in alive : pc[p] \in Owning => present /\ creator = p
    /\ \A p \in Proc : Judging(p) => present /\ old
    /\ \A p \in Proc : Emptying(p) => present /\ creator \notin alive

\* Why no edit is lost: what a writer has read is still on disk, and between
\* its compare and its write the content cannot change, for it holds the lock.
EditInv ==
    \A p \in Proc :
        /\ base[p] \subseteq doc
        /\ p \in alive /\ stage[p] = "write" => pc[p] = "held" /\ base[p] = doc
        /\ stage[p] = "done" => p \in doc

IInv == TypeOK /\ OwnerInv /\ EditInv

-----------------------------------------------------------------------------
(* Types *)

LEMMA InitTypeOK == Init => TypeOK
  BY NoProcAssumption DEF Init, LockInit, TypeOK, LockTypeOK, DocTypeOK, PCs,
     Acquiring, Stages

\* The lock's own steps move one process, which is not inside the lock.
LEMMA LockStepMovesOne ==
  ASSUME TypeOK, NEW p \in Proc, AcquireStep(p) \/ ReleaseStep(p)
  PROVE  pc[p] # "held" /\ alive' = alive /\ \A q \in Proc \ {p} : pc'[q] = pc[q]
  BY DEF TypeOK, LockTypeOK, AcquireStep, ReleaseStep, TryAcquire, Stamp,
     CheckAge, ProbeHolder, StealEmpty, StealRemove, StealCreate, Deadline,
     ReleaseEmpty, ReleaseRemove, CreateDir, EmptyDir, RemoveDir, Goto, At

\* A verdict to write exists only inside the lock.
VerdictInside == \A p \in Proc : stage[p] = "write" => pc[p] = "held"

LEMMA LockStepKeepsVerdicts ==
  ASSUME TypeOK, NEW p \in Proc, AcquireStep(p) \/ ReleaseStep(p), UNCHANGED docVars
  PROVE  VerdictInside'
  BY LockStepMovesOne DEF TypeOK, DocTypeOK, VerdictInside, docVars

LEMMA CreateDirTypeOK ==
  ASSUME TypeOK, VerdictInside', NEW p \in Proc, NEW from, NEW failed \in PCs,
         CreateDir(p, from, failed), UNCHANGED docVars
  PROVE  TypeOK'
<1> USE DEF TypeOK, LockTypeOK, DocTypeOK, VerdictInside, Goto, DirUnchanged,
        docVars, CreateDir
<1>1. /\ present' \in BOOLEAN /\ creator' \in Proc \cup {NoProc}
      /\ holder' \in Proc \cup {NoProc} /\ old' \in BOOLEAN
      /\ ~present' => creator' = NoProc /\ holder' = NoProc /\ ~old'
      /\ alive' \in SUBSET Proc /\ expired' \in SUBSET Proc
  <2>1. CASE ~present
    BY <2>1
  <2>2. CASE present
    <3>1. UNCHANGED <<present, creator, holder, old, alive, expired>>
      BY <2>2
    <3>2. QED
      BY <3>1
  <2>3. QED
    BY <2>1, <2>2
<1>2. pc' \in [Proc -> PCs]
  <2>1. pc' = [pc EXCEPT ![p] = "stamp"] \/ pc' = [pc EXCEPT ![p] = failed]
    OBVIOUS
  <2>2. "stamp" \in PCs
    BY DEF PCs, Acquiring
  <2>3. QED
    BY <2>1, <2>2
<1>3. QED
  BY <1>1, <1>2

LEMMA NextTypeOK == ASSUME TypeOK, [PunctualNext]_vars PROVE TypeOK'
<1> USE NoProcAssumption DEF TypeOK, LockTypeOK, DocTypeOK, PCs, Acquiring,
        Stages, At, Goto, DirUnchanged, StageIs, SetStage, LockUnchanged,
        VerdictInside, lockVars, docVars
<1>1. CASE UNCHANGED vars
  BY <1>1 DEF vars
<1>2. ASSUME NEW p \in Proc, AcquireStep(p), UNCHANGED docVars PROVE TypeOK'
  <2> USE LockStepKeepsVerdicts
  <2>1. CASE TryAcquire(p)
    BY <1>2, <2>1, CreateDirTypeOK DEF TryAcquire
  <2>2. CASE Stamp(p)
    <3>1. /\ holder' \in Proc \cup {NoProc} /\ old' \in BOOLEAN
          /\ ~present => holder' = holder /\ old' = old
      BY <2>2 DEF Stamp
    <3>2. UNCHANGED <<present, creator, alive, expired>>
      BY <2>2 DEF Stamp
    <3>3. pc' \in [Proc -> PCs]
      BY <2>2 DEF Stamp
    <3>4. QED
      BY <1>2, <3>1, <3>2, <3>3
  <2>3. CASE CheckAge(p)
    BY <1>2, <2>3 DEF CheckAge
  <2>4. CASE ProbeHolder(p)
    BY <1>2, <2>4 DEF ProbeHolder
  <2>5. CASE StealEmpty(p)
    BY <1>2, <2>5 DEF StealEmpty, EmptyDir
  <2>6. CASE StealRemove(p)
    BY <1>2, <2>6 DEF StealRemove, RemoveDir
  <2>7. CASE StealCreate(p)
    BY <1>2, <2>7, CreateDirTypeOK DEF StealCreate
  <2>8. CASE Deadline(p)
    BY <1>2, <2>8 DEF Deadline
  <2>9. QED
    BY <1>2, <2>1, <2>2, <2>3, <2>4, <2>5, <2>6, <2>7, <2>8 DEF AcquireStep
<1>3. ASSUME NEW p \in Proc, ReleaseStep(p), UNCHANGED docVars PROVE TypeOK'
  <2> USE LockStepKeepsVerdicts
  <2>1. CASE ReleaseEmpty(p)
    BY <1>3, <2>1 DEF ReleaseEmpty, EmptyDir
  <2>2. CASE ReleaseRemove(p)
    BY <1>3, <2>2 DEF ReleaseRemove, RemoveDir
  <2>3. QED
    BY <1>3, <2>1, <2>2 DEF ReleaseStep
<1>4. ASSUME NEW p \in Proc, Compare(p) \/ Write(p) \/ Unlock(p) PROVE TypeOK'
  <2>1. CASE Compare(p)
    BY <2>1 DEF Compare
  <2>2. CASE Write(p)
    BY <2>2 DEF Write, WriteAtomic
  <2>3. CASE Unlock(p)
    BY <2>3 DEF Unlock, Release
  <2>4. QED
    BY <1>4, <2>1, <2>2, <2>3
<1>5. ASSUME NEW p \in Proc, CallerStep(p) PROVE TypeOK'
  <2>1. CASE ReadSha(p)
    BY <2>1 DEF ReadSha
  <2>2. CASE LockArtifact(p)
    BY <2>2 DEF LockArtifact, Acquire
  <2>3. CASE Retry(p)
    BY <2>3 DEF Retry
  <2>4. QED
    BY <1>5, <2>1, <2>2, <2>3 DEF CallerStep
<1>6. ASSUME NEW p \in Proc, Expire(p) \/ Crash(p), UNCHANGED docVars PROVE TypeOK'
  BY <1>6 DEF Expire, Crash
<1>7. ASSUME GrowOld, UNCHANGED docVars PROVE TypeOK'
  BY <1>7 DEF GrowOld
<1>8. QED
  BY <1>1, <1>2, <1>3, <1>4, <1>5, <1>6, <1>7
     DEF PunctualNext, LockedStep, ReturnInTime, MishapStep

\* The module's type invariant, with or without directories that grow old: what
\* is absent has no holder and no age, and a writer whose comparison said "write"
\* (write_guarded's closure) is inside the lock until it has written.
THEOREM TypeCorrect == PunctualSpec => []TypeOK
<1>1. TypeOK /\ [PunctualNext]_vars => TypeOK'
  BY NextTypeOK
<1>2. QED
  BY InitTypeOK, <1>1, PTL DEF PunctualSpec

-----------------------------------------------------------------------------
(* The inductive invariant *)

LEMMA InitIInv == Init => IInv
  BY InitTypeOK, NoProcAssumption DEF Init, LockInit, IInv, OwnerInv, EditInv,
     Owning, Emptying, Judging, At

\* The lock's own steps leave what the writers know alone.
LEMMA LockStepEditInv ==
  ASSUME IInv, NEW p \in Proc, AcquireStep(p) \/ ReleaseStep(p), UNCHANGED docVars
  PROVE  EditInv'
  BY LockStepMovesOne DEF IInv, EditInv, docVars

\* The lock's own steps keep the directory its owner's.
LEMMA LockStepOwnerInv ==
  ASSUME IInv, StealsAlone, NEW p \in Proc, AcquireStep(p) \/ ReleaseStep(p)
  PROVE  OwnerInv'
<1> USE NoProcAssumption DEF IInv, TypeOK, LockTypeOK, OwnerInv, Owning,
        Emptying, Judging, PCs, Acquiring, At, Goto, DirUnchanged
<1>1. CASE TryAcquire(p) \/ StealCreate(p)
  <2>1. CASE ~present
    <3>1. /\ present' = TRUE /\ creator' = p /\ old' = FALSE /\ alive' = alive
          /\ pc' = [pc EXCEPT ![p] = "stamp"] /\ p \in alive
      BY <1>1, <2>1 DEF TryAcquire, StealCreate, CreateDir
    <3>2. \A q \in Proc : ~Emptying(q) /\ ~Judging(q)
                           /\ (q \in alive => pc[q] \notin Owning)
      BY <2>1
    <3>3. QED
      BY <3>1, <3>2
  <2>2. CASE present
    <3>1. /\ UNCHANGED <<present, creator, holder, old, alive>>
          /\ pc' = [pc EXCEPT ![p] = "age"] \/ pc' = [pc EXCEPT ![p] = "deadline"]
          /\ pc[p] = "try" \/ pc[p] = "retry"
      BY <1>1, <2>2 DEF TryAcquire, StealCreate, CreateDir
    <3>2. \A q \in Proc : pc'[q] = pc[q] \/ (q = p /\ pc'[q] \in {"age", "deadline"})
      BY <3>1
    <3>3. At(creator, "held") => At(creator, "held")'
      BY <3>1, <3>2
    <3>4. QED
      BY <3>1, <3>2, <3>3
  <2>3. QED
    BY <2>1, <2>2
<1>2. CASE Stamp(p)
  BY <1>2 DEF Stamp
<1>3. CASE CheckAge(p)
  BY <1>3 DEF CheckAge
<1>4. CASE ProbeHolder(p)
  BY <1>4 DEF ProbeHolder
<1>5. CASE StealEmpty(p)
  <2>1. /\ present /\ creator \notin alive /\ creator \in Proc
        /\ \A q \in Proc \ {p} : ~Emptying(q) /\ ~Judging(q)
    BY <1>5 DEF StealEmpty, EmptyDir, StealsAlone
  <2>2. \A q \in alive : pc[q] \notin Owning
    BY <2>1
  <2>3. pc' = [pc EXCEPT ![p] = "unlinking"]
    BY <1>5, <2>1 DEF StealEmpty, EmptyDir
  <2>4. UNCHANGED <<present, creator, alive>>
    BY <1>5 DEF StealEmpty, EmptyDir
  <2>5. QED
    BY <2>1, <2>2, <2>3, <2>4
<1>6. CASE StealRemove(p)
  <2>1. /\ present /\ creator \notin alive
        /\ \A q \in Proc \ {p} : ~Emptying(q) /\ ~Judging(q)
    BY <1>6 DEF StealRemove, RemoveDir, StealsAlone
  <2>2. \A q \in alive : pc[q] \notin Owning
    BY <2>1
  <2>3. QED
    BY <1>6, <2>1, <2>2 DEF StealRemove, RemoveDir
<1>7. CASE Deadline(p)
  BY <1>7 DEF Deadline
<1>8. CASE ReleaseEmpty(p)
  BY <1>8 DEF ReleaseEmpty, EmptyDir
<1>9. CASE ReleaseRemove(p)
  <2>1. present /\ creator = p
    BY <1>9 DEF ReleaseRemove, RemoveDir
  <2>2. \A q \in Proc : ~Emptying(q) /\ ~Judging(q)
    BY <1>9, <2>1 DEF ReleaseRemove, RemoveDir
  <2>3. \A q \in alive \ {p} : pc[q] \notin Owning
    BY <2>1
  <2>4. QED
    BY <1>9, <2>1, <2>2, <2>3 DEF ReleaseRemove, RemoveDir
<1>10. QED
  BY <1>1, <1>2, <1>3, <1>4, <1>5, <1>6, <1>7, <1>8, <1>9
     DEF AcquireStep, ReleaseStep

LEMMA NextIInv == ASSUME IInv, StealsAlone, [PunctualNext]_vars PROVE IInv'
<1> SUFFICES OwnerInv' /\ EditInv'
  BY NextTypeOK DEF IInv
<1> USE NoProcAssumption DEF IInv, TypeOK, LockTypeOK, DocTypeOK, OwnerInv,
        EditInv, Owning, Emptying, Judging, PCs, Acquiring, Stages, At, Goto,
        DirUnchanged, StageIs, SetStage, LockUnchanged, lockVars, docVars
<1>1. CASE UNCHANGED vars
  BY <1>1 DEF vars
<1>2. ASSUME NEW p \in Proc, LockedStep(p) \/ ReturnInTime(p)
      PROVE  OwnerInv' /\ EditInv'
  <2>1. CASE Compare(p)
    BY <2>1 DEF Compare
  <2>2. CASE Write(p)
    <3>1. base[p] = doc /\ pc[p] = "held" /\ creator = p
      BY <2>2 DEF Write
    <3>2. \A q \in alive \ {p} : stage[q] # "write"
      BY <3>1
    <3>3. QED
      BY <2>2, <3>1, <3>2 DEF Write, WriteAtomic
  <2>3. CASE ReturnInTime(p)
    BY <2>3 DEF ReturnInTime, Unlock, Release
  <2>4. CASE (AcquireStep(p) \/ ReleaseStep(p)) /\ UNCHANGED docVars
    BY <2>4, LockStepOwnerInv, LockStepEditInv
  <2>5. QED
    BY <1>2, <2>1, <2>2, <2>3, <2>4 DEF LockedStep
<1>3. ASSUME NEW p \in Proc, CallerStep(p) PROVE OwnerInv' /\ EditInv'
  <2>1. CASE ReadSha(p)
    BY <2>1 DEF ReadSha
  <2>2. CASE LockArtifact(p)
    BY <2>2 DEF LockArtifact, Acquire
  <2>3. CASE Retry(p)
    BY <2>3 DEF Retry
  <2>4. QED
    BY <1>3, <2>1, <2>2, <2>3 DEF CallerStep
<1>4. ASSUME NEW p \in Proc, Expire(p) \/ Crash(p), UNCHANGED docVars
      PROVE  OwnerInv' /\ EditInv'
  BY <1>4 DEF Expire, Crash
<1>5. ASSUME GrowOld, UNCHANGED docVars
      PROVE  OwnerInv' /\ EditInv'
  BY <1>5 DEF GrowOld
<1>6. QED
  BY <1>1, <1>2, <1>3, <1>4, <1>5 DEF PunctualNext, MishapStep

LEMMA PunctualInvariant == PunctualSpec /\ []StealsAlone => []IInv
<1>1. IInv /\ StealsAlone /\ [PunctualNext]_vars => IInv'
  BY NextIInv
<1>2. QED
  BY InitIInv, <1>1, PTL DEF PunctualSpec

-----------------------------------------------------------------------------
(* What the lock and the token give *)

\* The mkdir lock of locks.rs admits one live process to the closure at a
\* time, however many processes contend, crash or time out, also while the
\* directory of a dead one is stolen.
THEOREM LockExcludes == PunctualSpec /\ []StealsAlone => []MutualExclusion
<1>1. IInv => MutualExclusion
  BY DEF IInv, OwnerInv, Owning, MutualExclusion, InCriticalSection, At
<1>2. QED
  BY <1>1, PunctualInvariant, PTL

\* An edit write_guarded has acknowledged is in the file from then on.
THEOREM EditsSurvive == PunctualSpec /\ []StealsAlone => []AcknowledgedEditsSurvive
<1>1. IInv => AcknowledgedEditsSurvive
  BY DEF IInv, EditInv, AcknowledgedEditsSurvive
<1>2. QED
  BY <1>1, PunctualInvariant, PTL

\* Nobody takes the stamp of a live holder away, also when the holder has hung
\* for longer than STALE_AFTER: is_stale's probe finds it alive, and whoever
\* empties a directory made it itself or found its maker dead.
THEOREM LiveLocksKept == PunctualSpec /\ []StealsAlone => StampedLiveLockKept
<1> DEFINE Kept(p) == At(p, "held") /\ holder = p /\ p \in alive' /\ pc'[p] = "held"
                         => holder' = p
<1>1. ASSUME IInv, [PunctualNext]_vars, NEW p \in Proc PROVE Kept(p)
  <2> SUFFICES ASSUME At(p, "held"), holder = p, pc'[p] = "held" PROVE holder' = p
    OBVIOUS
  <2>1. present /\ creator = p /\ p \in alive /\ pc[p] = "held"
    BY <1>1 DEF IInv, OwnerInv, Owning, At
  <2>2. ASSUME NEW q \in Proc, AcquireStep(q) PROVE holder' = p
    <3>1. ~Emptying(q)
      BY <1>1, <2>1 DEF IInv, OwnerInv
    <3>2. ~At(q, "stamp")
      BY <1>1, <2>1 DEF IInv, OwnerInv, Owning, At
    <3>3. QED
      BY <2>1, <2>2, <3>1, <3>2 DEF AcquireStep, TryAcquire, Stamp, CheckAge,
         ProbeHolder, StealEmpty, StealRemove, StealCreate, Deadline,
         CreateDir, EmptyDir, RemoveDir, DirUnchanged, At, Emptying
  <2>3. ASSUME NEW q \in Proc, ReleaseStep(q) PROVE holder' = p
    BY <1>1, <2>1, <2>3 DEF IInv, OwnerInv, Owning, ReleaseStep, ReleaseEmpty,
       ReleaseRemove, EmptyDir, RemoveDir, At
  <2>4. QED
    BY <1>1, <2>2, <2>3 DEF PunctualNext, LockedStep, ReturnInTime, CallerStep,
       MishapStep, Compare, Write, Unlock, Release, ReadSha, LockArtifact, Acquire, Retry,
       Expire, Crash, GrowOld, LockUnchanged, DirUnchanged, lockVars, vars
<1>2. IInv /\ [PunctualNext]_vars => [\A p \in Proc : Kept(p)]_vars
  BY <1>1
<1>3. QED
  BY <1>2, PunctualInvariant, PTL DEF PunctualSpec, StampedLiveLockKept

\* No step takes an edit out of the file.
THEOREM NothingLost == PunctualSpec /\ []StealsAlone => NoLostEdit
<1>1. ASSUME IInv, [PunctualNext]_vars PROVE [doc \subseteq doc']_doc
  <2>1. ASSUME NEW p \in Proc, Write(p) PROVE doc \subseteq doc'
    BY <1>1, <2>1 DEF IInv, EditInv, Write, WriteAtomic, StageIs
  <2>2. QED
    BY <1>1, <2>1 DEF PunctualNext, LockedStep, ReturnInTime, CallerStep,
       MishapStep, Compare, Unlock, ReadSha, LockArtifact, Retry, docVars, vars
<1>2. QED
  BY <1>1, PunctualInvariant, PTL DEF PunctualSpec, NoLostEdit

\* Every step of the guarded writers is a step of the one-step compare-and-swap
\* or leaves it alone.
LEMMA StepIsAtomic ==
  ASSUME IInv, [PunctualNext]_vars
  PROVE  [Abstract!Next]_Abstract!vars
<1> USE DEF Abstract!vars, EditStatus, StatusOf, Stages, StageIs, SetStage, At, LockUnchanged
<1> DEFINE Still == UNCHANGED <<doc, base, stage>>
<1>1. Still => UNCHANGED Abstract!vars
  OBVIOUS
<1>2. stage \in [Proc -> Stages] /\ base \in [Proc -> SUBSET Proc]
  BY DEF IInv, TypeOK, DocTypeOK
<1> HIDE DEF Still
<1>3. CASE UNCHANGED vars
  BY <1>1, <1>3 DEF vars, docVars, Still
<1>4. ASSUME NEW p \in Proc, LockedStep(p) \/ ReturnInTime(p)
      PROVE  [Abstract!Next]_Abstract!vars
  <2>1. CASE Compare(p)
    <3>1. stage[p] = "read" /\ UNCHANGED <<doc, base>>
      BY <2>1 DEF Compare
    <3>2. CASE base[p] # doc /\ stage' = [stage EXCEPT ![p] = "conflict"]
      <4>1. Abstract!Refuse(p)
        BY <1>2, <3>1, <3>2 DEF Abstract!Refuse, Abstract!Becomes
      <4>2. QED
        BY <4>1 DEF Abstract!Next
    <3>3. CASE stage' = [stage EXCEPT ![p] = "write"]
      <4>1. UNCHANGED EditStatus
        BY <1>2, <3>1, <3>3
      <4>2. QED
        BY <3>1, <4>1
    <3>4. CASE stage' = [stage EXCEPT ![p] = "failed"]
      <4>1. Abstract!Fail(p)
        BY <1>2, <3>1, <3>4 DEF Abstract!Fail, Abstract!Becomes
      <4>2. QED
        BY <4>1 DEF Abstract!Next
    <3>5. QED
      BY <2>1, <3>2, <3>3, <3>4 DEF Compare
  <2>2. CASE Write(p)
    <3>1. base[p] = doc /\ stage[p] = "write" /\ UNCHANGED base
      BY <2>2 DEF Write, WriteAtomic, IInv, EditInv
    <3>2. CASE doc' = doc \cup {p} /\ stage' = [stage EXCEPT ![p] = "done"]
      <4>1. Abstract!Land(p)
        BY <1>2, <3>1, <3>2 DEF Abstract!Land, Abstract!Becomes
      <4>2. QED
        BY <4>1 DEF Abstract!Next
    <3>3. CASE doc' = doc /\ stage' = [stage EXCEPT ![p] = "failed"]
      <4>1. Abstract!Fail(p)
        BY <1>2, <3>1, <3>3 DEF Abstract!Fail, Abstract!Becomes
      <4>2. QED
        BY <4>1 DEF Abstract!Next
    <3>4. QED
      BY <2>2, <3>1, <3>2, <3>3 DEF Write, WriteAtomic
  <2>3. CASE ReturnInTime(p)
    BY <1>1, <2>3 DEF ReturnInTime, Unlock, docVars, Still
  <2>4. CASE (AcquireStep(p) \/ ReleaseStep(p)) /\ UNCHANGED docVars
    BY <1>1, <2>4 DEF docVars, Still
  <2>5. QED
    BY <1>4, <2>1, <2>2, <2>3, <2>4 DEF LockedStep
<1>5. ASSUME NEW p \in Proc, CallerStep(p)
      PROVE  [Abstract!Next]_Abstract!vars
  <2>1. CASE ReadSha(p)
    <3>1. stage[p] = "none" /\ stage' = [stage EXCEPT ![p] = "read"]
      BY <2>1 DEF ReadSha
    <3>2. base' = [base EXCEPT ![p] = doc] /\ UNCHANGED doc
      BY <2>1 DEF ReadSha
    <3>3. Abstract!Read(p)
      BY <1>2, <3>1, <3>2 DEF Abstract!Read, Abstract!Becomes
    <3>4. QED
      BY <3>3 DEF Abstract!Next
  <2>2. CASE LockArtifact(p)
    BY <1>1, <2>2 DEF LockArtifact, docVars, Still
  <2>3. CASE Retry(p)
    <3>1. /\ stage[p] = "conflict" \/ stage[p] = "failed"
          /\ stage' = [stage EXCEPT ![p] = "none"]
      BY <2>3 DEF Retry
    <3>2. UNCHANGED <<doc, base>>
      BY <2>3 DEF Retry
    <3>3. Abstract!StartOver(p)
      BY <1>2, <3>1, <3>2 DEF Abstract!StartOver, Abstract!Becomes
    <3>4. QED
      BY <3>3 DEF Abstract!Next
  <2>4. QED
    BY <1>5, <2>1, <2>2, <2>3 DEF CallerStep
<1>6. ASSUME UNCHANGED docVars
      PROVE  [Abstract!Next]_Abstract!vars
  BY <1>1, <1>6 DEF docVars, Still
<1>7. QED
  BY <1>3, <1>4, <1>5, <1>6 DEF PunctualNext, MishapStep

\* write_guarded implements a one-step compare-and-swap, for every number of
\* writers, every crash and every timeout.
THEOREM GuardedWritesAreAtomic == PunctualSpec /\ []StealsAlone => IsAtomic
<1>1. Init => Abstract!Init
  BY DEF Init, Abstract!Init, EditStatus, StatusOf
<1>2. IInv /\ [PunctualNext]_vars => [Abstract!Next]_Abstract!vars
  BY StepIsAtomic
<1>3. QED
  BY <1>1, <1>2, PunctualInvariant, PTL DEF PunctualSpec, IsAtomic, Abstract!Spec

-----------------------------------------------------------------------------
(* Where nobody steals together *)

\* While no directory reaches STALE_AFTER nobody starts to steal.
NothingOld == ~old /\ \A p \in Proc : ~Emptying(p) /\ ~Judging(p)

LEMMA YoungNeverSteals == YoungSpec => PunctualSpec /\ []StealsAlone
<1>1. Init => NothingOld
  BY DEF Init, LockInit, NothingOld, Emptying, Judging, At
<1>2. ASSUME TypeOK, NothingOld, [YoungNext]_vars PROVE NothingOld'
  <2> USE DEF TypeOK, LockTypeOK, NothingOld, Emptying, Judging, At, Goto, DirUnchanged
  <2>1. ASSUME NEW p \in Proc, AcquireStep(p) PROVE NothingOld'
    BY <1>2, <2>1 DEF AcquireStep, TryAcquire, Stamp, CheckAge, ProbeHolder,
       StealEmpty, StealRemove, StealCreate, Deadline, CreateDir, EmptyDir,
       RemoveDir
  <2>2. ASSUME NEW p \in Proc, ReleaseStep(p) PROVE NothingOld'
    BY <1>2, <2>2 DEF ReleaseStep, ReleaseEmpty, ReleaseRemove, EmptyDir,
       RemoveDir
  <2>3. QED
    BY <1>2, <2>1, <2>2 DEF YoungNext, GuardedStep, LockedStep, CallerStep,
       MishapStep, Compare, Write, Unlock, Release, ReadSha, LockArtifact, Acquire, Retry, Expire, Crash,
       LockUnchanged, lockVars, vars
<1>3. NothingOld /\ [YoungNext]_vars => [PunctualNext]_vars
  BY DEF NothingOld, YoungNext, GuardedStep, PunctualNext, ReturnInTime
<1>4. TypeOK /\ NothingOld /\ [YoungNext]_vars => NothingOld'
  BY <1>2
<1>5. NothingOld => StealsAlone
  BY DEF NothingOld, StealsAlone
<1>6. TypeOK /\ [PunctualNext]_vars => TypeOK'
  BY NextTypeOK
<1>7. QED
  BY <1>1, <1>3, <1>4, <1>5, <1>6, InitTypeOK, PTL DEF YoungSpec, PunctualSpec

\* While every holder finishes, dies unnoticed or makes the others give up
\* before the five minutes are over, the lock and the guarded write keep their
\* promises to any number of processes.
THEOREM YoungLockIsSafe ==
  YoungSpec => [](MutualExclusion /\ AcknowledgedEditsSurvive)
                 /\ StampedLiveLockKept /\ IsAtomic
  BY YoungNeverSteals, LockExcludes, EditsSurvive, LiveLocksKept,
     GuardedWritesAreAtomic, PTL

\* Of two processes one is dead when its directory is stolen, and the other
\* steals alone: two contenders recover safely from every crash, and a holder
\* that hangs keeps its lock.
THEOREM TwoContendersAreSafe ==
  ASSUME NEW a, NEW b, Proc = {a, b}
  PROVE  PunctualSpec => [](MutualExclusion /\ AcknowledgedEditsSurvive)
                         /\ StampedLiveLockKept /\ IsAtomic
<1>1. IInv => StealsAlone
  BY DEF IInv, TypeOK, LockTypeOK, OwnerInv, StealsAlone, Emptying, Judging, At
<1>2. IInv /\ StealsAlone /\ [PunctualNext]_vars => IInv'
  BY NextIInv
<1>3. PunctualSpec => []StealsAlone
  BY <1>1, <1>2, InitIInv, PTL DEF PunctualSpec
<1>4. QED
  BY <1>3, LockExcludes, EditsSurvive, LiveLocksKept, GuardedWritesAreAtomic, PTL
=============================================================================
