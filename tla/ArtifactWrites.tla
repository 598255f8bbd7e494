-------------------------- MODULE ArtifactWrites --------------------------
(***************************************************************************)
(* Writers of one artifact file of the state store (state.rs).  Guarded    *)
(* writers run write_guarded: read a sha, later take the advisory lock,    *)
(* compare the sha with the file, write, release.  Engine writers run the  *)
(* unguarded read-modify-write of write_unit (a stamp, a beat, a gate      *)
(* result): no lock and no sha.                                            *)
(*                                                                         *)
(* A file's content is the set of edits it carries, and every writer       *)
(* contributes one edit, itself; the sha of a content is that content; the *)
(* empty set is the absent file.                                           *)
(***************************************************************************)
EXTENDS MkdirLock

CONSTANT Engine     \* the processes that write unguarded

ASSUME EngineAssumption == Engine \subseteq Proc

VARIABLES doc,      \* the content on disk
          base,     \* what each writer last read
          stage     \* where each writer is in its own operation

docVars == <<doc, base, stage>>
vars == <<lockVars, docVars>>

Stages == {"none", "read", "write", "conflict", "failed", "done"}

\* A verdict to write exists only inside the lock.
DocTypeOK ==
    /\ doc \in SUBSET Proc
    /\ base \in [Proc -> SUBSET Proc]
    /\ stage \in [Proc -> Stages]
    /\ \A p \in Proc : stage[p] = "write" => pc[p] = "held"

TypeOK == LockTypeOK /\ DocTypeOK

Init ==
    /\ LockInit
    /\ doc = {}
    /\ base = [p \in Proc |-> {}]
    /\ stage = [p \in Proc |-> "none"]

StageIs(p, s) == p \in alive /\ stage[p] = s
SetStage(p, s) == stage' = [stage EXCEPT ![p] = s]
LockUnchanged == UNCHANGED lockVars

-----------------------------------------------------------------------------
(* The caller of write_guarded *)

\* artifact_sha: the read that hands out the token.
ReadSha(p) ==
    /\ p \notin Engine
    /\ StageIs(p, "none") /\ At(p, "idle")
    /\ base' = [base EXCEPT ![p] = doc]
    /\ SetStage(p, "read")
    /\ UNCHANGED doc
    /\ LockUnchanged

\* write_guarded's with_lock: take the artifact's lock; a LockTimeout hands the
\* operation back to the caller, who may try again.
LockArtifact(p) ==
    /\ p \notin Engine
    /\ StageIs(p, "read")
    /\ Acquire(p)
    /\ UNCHANGED docVars

\* Mutant: a caller without a token skips the comparison.
CompareTokenOnly(p) ==
    /\ StageIs(p, "read") /\ At(p, "held")
    /\ SetStage(p, IF base[p] # {} /\ base[p] # doc THEN "conflict" ELSE "write")
    /\ UNCHANGED <<doc, base>>
    /\ LockUnchanged

\* Mutant: the comparison is made before the lock is taken.
CompareUnlocked(p) ==
    /\ StageIs(p, "read") /\ At(p, "idle")
    /\ SetStage(p, IF doc # {} /\ base[p] # doc THEN "conflict" ELSE "write")
    /\ UNCHANGED <<doc, base>>
    /\ LockUnchanged

\* Under the lock: an existing file whose sha is not the presented one is a
\* Conflict, and one that cannot be read an error.
Compare(p) ==
    /\ StageIs(p, "read") /\ At(p, "held")
    /\ \/ SetStage(p, IF doc # {} /\ base[p] # doc THEN "conflict" ELSE "write")
       \/ doc # {} /\ SetStage(p, "failed")
    /\ UNCHANGED <<doc, base>>
    /\ LockUnchanged

\* write_atomic (temp file, fsync, rename): the file becomes what the caller
\* composed from the content it had read, or, on any error, stays what it was.
WriteAtomic(p) ==
    /\ \/ doc' = base[p] \cup {p} /\ SetStage(p, "done")
       \/ doc' = doc /\ SetStage(p, "failed")
    /\ UNCHANGED base

Write(p) ==
    /\ StageIs(p, "write") /\ At(p, "held")
    /\ WriteAtomic(p)
    /\ LockUnchanged

\* with_lock's guard.release() once the closure has returned: Ok, Conflict or
\* an I/O error.
Unlock(p) ==
    /\ \E s \in {"done", "conflict", "failed"} : StageIs(p, s)
    /\ Release(p)
    /\ UNCHANGED docVars

\* A caller whose write was refused or failed starts over from a fresh read.
Retry(p) ==
    /\ StageIs(p, "conflict") \/ StageIs(p, "failed")
    /\ At(p, "idle")
    /\ SetStage(p, "none")
    /\ UNCHANGED <<doc, base>>
    /\ LockUnchanged

-----------------------------------------------------------------------------
(* The engine's unguarded read-modify-write of an existing document *)

EngineRead(p) ==
    /\ p \in Engine
    /\ StageIs(p, "none")
    /\ doc # {}
    /\ base' = [base EXCEPT ![p] = doc]
    /\ SetStage(p, "read")
    /\ UNCHANGED doc
    /\ LockUnchanged

EngineWrite(p) ==
    /\ p \in Engine
    /\ StageIs(p, "read")
    /\ WriteAtomic(p)
    /\ LockUnchanged

-----------------------------------------------------------------------------
LockedStep(p) ==
    \/ Compare(p) \/ Write(p)
    \/ (AcquireStep(p) \/ ReleaseStep(p)) /\ UNCHANGED docVars

GuardedStep(p) == LockedStep(p) \/ Unlock(p)

CallerStep(p) == ReadSha(p) \/ LockArtifact(p) \/ Retry(p)
EngineStep(p) == EngineRead(p) \/ EngineWrite(p)
MishapStep(p) == (Expire(p) \/ Crash(p)) /\ UNCHANGED docVars

\* A holder whose directory has outlived STALE_AFTER hangs or dies: it does not
\* come back to release it.
ReturnInTime(p) == ~old /\ Unlock(p)

\* No directory outlives STALE_AFTER: every holder finishes, or the others give
\* up (thirty seconds) before the five minutes are over.
YoungNext == \E p \in Proc : GuardedStep(p) \/ CallerStep(p) \/ MishapStep(p)

\* The directories of dead processes and of holders that hang grow old; the
\* first are stolen, the second must not be.
PunctualNext ==
    \/ \E p \in Proc :
          LockedStep(p) \/ ReturnInTime(p) \/ CallerStep(p) \/ MishapStep(p)
    \/ GrowOld /\ UNCHANGED docVars

\* A holder may also come back after the five minutes.
AgingNext == YoungNext \/ (GrowOld /\ UNCHANGED docVars)

\* The unguarded writers of a unit document among the guarded ones.
MixedNext == YoungNext \/ \E p \in Proc : EngineStep(p)

YoungSpec    == Init /\ [][YoungNext]_vars
PunctualSpec == Init /\ [][PunctualNext]_vars
AgingSpec    == Init /\ [][AgingNext]_vars
MixedSpec    == Init /\ [][MixedNext]_vars

\* The threads of a live process keep running, and clocks keep going.
FairPunctualSpec ==
    /\ PunctualSpec
    /\ \A p \in Proc : WF_vars(LockedStep(p) \/ ReturnInTime(p))
    /\ \A p \in Proc : WF_vars(Expire(p) /\ UNCHANGED docVars)

-----------------------------------------------------------------------------
(* Properties *)

InCriticalSection(p) == At(p, "held")

\* At most one live process is inside with_lock's closure (state.rs 620-630:
\* the lock makes the compare and the write one step).
MutualExclusion ==
    \A p, q \in Proc :
        InCriticalSection(p) /\ InCriticalSection(q) => p = q

\* No write drops an edit that is on disk: what a guarded write replaces is
\* the content its caller had read (write_guarded's promise).
NoLostEdit == [][doc \subseteq doc']_doc

\* A writer whose call returned Ok finds its edit in the file from then on,
\* whatever the other writers did: the end-to-end form of the promise, which
\* needs the lock and the token together.
AcknowledgedEditsSurvive == \A p \in Proc : stage[p] = "done" => p \in doc

\* A guarded write over an existing file replaces exactly the content its
\* caller had read, whoever else writes that file ("can't silently clobber a
\* change (an operator's, or an engine restamp)", write_unit_guarded).
GuardedNeverClobbers ==
    [][\A p \in Proc \ Engine :
          stage[p] = "write" /\ stage'[p] = "done" /\ doc # {}
              => doc = base[p]]_vars

\* A stamp an engine writer has written stays ("parallel-safe ... N reviewer
\* subagents can each stamp their own role concurrently", stamp_role).
StampsSurvive == \A p \in Engine : stage[p] = "done" => p \in doc

\* A live process that holds the lock under its own stamp keeps both until it
\* releases, however old its directory has grown ("so we never steal a live
\* lock", is_alive's comment).
StampedLiveLockKept ==
    [][\A p \in Proc :
          At(p, "held") /\ holder = p /\ p \in alive' /\ pc'[p] = "held"
              => holder' = p]_vars

\* Every acquire by a live process ends, with the lock or with LockTimeout:
\* nobody waits for ever on a directory nobody will remove.
AcquireEnds ==
    \A p \in Proc : (p \in alive /\ pc[p] \in Acquiring)
                        ~> (p \notin alive \/ pc[p] \notin Acquiring)
-----------------------------------------------------------------------------
(* Refinement *)

StatusOf(s) == IF s = "none" THEN "idle"
               ELSE IF s = "conflict" THEN "refused"
               ELSE IF s = "failed" THEN "failed"
               ELSE IF s = "done" THEN "landed"
               ELSE "composing"
EditStatus == [p \in Proc |-> StatusOf(stage[p])]

Abstract == INSTANCE AtomicEdits
                WITH Writer <- Proc, file <- doc, view <- base, status <- EditStatus

\* Lock, token, compare and rename together are the one-step compare-and-swap
\* write_guarded's comment claims ("The advisory `mkdir` lock makes
\* read-compare-write atomic", state.rs 627): an edit lands on the content its caller read, and a
\* Conflict is only ever the answer to a file that did change.
IsAtomic == Abstract!Spec
=============================================================================
