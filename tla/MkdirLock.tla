----------------------------- MODULE MkdirLock -----------------------------
(***************************************************************************)
(* The advisory `mkdir` lock of darkrun-core (locks.rs): one lock          *)
(* directory, contended for by processes that coordinate only through the  *)
(* file system.  create_dir is the atomic acquire test, holder.json is a   *)
(* best-effort stamp written by a second call, a directory older than      *)
(* STALE_AFTER whose stamped pid is dead (or that has no stamp) is stolen. *)
(*                                                                         *)
(* One element of Proc is one OS process (one pid); a process that crashed *)
(* never returns under its own name, so a restart is another element.      *)
(***************************************************************************)
EXTENDS Naturals, FiniteSets

CONSTANTS Proc,       \* processes that contend for this lock
          NoProc      \* "no holder.json", "no creator"

ASSUME NoProcAssumption == NoProc \notin Proc

VARIABLES present,    \* the lock directory exists
          creator,    \* the process whose create_dir made the present directory
          holder,     \* the pid in holder.json, NoProc when the file is absent
          old,        \* the directory's mtime is STALE_AFTER or more ago
          alive,      \* processes that kill(pid, 0) finds
          expired,    \* processes whose ACQUIRE_TIMEOUT deadline has passed
          pc          \* where each process is in acquire / release

lockVars == <<present, creator, holder, old, alive, expired, pc>>

\* try -> stamp -> held is a first-try acquire; a failed create_dir goes on to
\* age (is_stale's metadata call), probe (read_holder + is_alive), emptying and
\* unlinking (steal's remove_dir_all), retry (steal's try_acquire) and, when
\* that fails, deadline.  leaving and removing are release_inner's
\* remove_dir_all.
Acquiring == {"try", "stamp", "age", "probe", "emptying", "unlinking",
              "retry", "deadline"}
PCs == Acquiring \cup {"idle", "held", "leaving", "removing"}

LockTypeOK ==
    /\ present \in BOOLEAN
    /\ creator \in Proc \cup {NoProc}
    /\ holder \in Proc \cup {NoProc}
    /\ old \in BOOLEAN
    /\ alive \in SUBSET Proc
    /\ expired \in SUBSET Proc
    /\ pc \in [Proc -> PCs]
    /\ ~present => creator = NoProc /\ holder = NoProc /\ ~old

LockInit ==
    /\ present = FALSE
    /\ creator = NoProc
    /\ holder = NoProc
    /\ old = FALSE
    /\ alive = Proc
    /\ expired = {}
    /\ pc = [p \in Proc |-> "idle"]

At(p, l) == p \in alive /\ pc[p] = l
Goto(p, l) == pc' = [pc EXCEPT ![p] = l]
DirUnchanged == UNCHANGED <<present, creator, holder, old>>

-----------------------------------------------------------------------------
(* LockManager::acquire *)

\* Entry: the deadline is set, the loop begins.
Acquire(p) ==
    /\ At(p, "idle")
    /\ expired' = expired \ {p}
    /\ Goto(p, "try")
    /\ DirUnchanged
    /\ UNCHANGED alive

\* fs::create_dir: succeeds exactly when the directory is absent.
CreateDir(p, from, failed) ==
    /\ At(p, from)
    /\ \/ /\ ~present
          /\ present' = TRUE
          /\ creator' = p
          /\ holder' = NoProc
          /\ old' = FALSE
          /\ Goto(p, "stamp")
       \/ /\ present
          /\ DirUnchanged
          /\ Goto(p, failed)
    /\ UNCHANGED <<alive, expired>>

TryAcquire(p) == CreateDir(p, "try", "age")

\* The best-effort holder stamp: fs::write may fail (a full disk, or the
\* directory was removed meanwhile) and the lock counts as acquired all the
\* same.  Creating the file renews the directory's mtime.
Stamp(p) ==
    /\ At(p, "stamp")
    /\ \/ /\ present
          /\ holder' = p
          /\ old' = FALSE
          /\ UNCHANGED <<present, creator>>
       \/ DirUnchanged
    /\ Goto(p, "held")
    /\ UNCHANGED <<alive, expired>>

\* Mutant: is_stale without its age test.
CheckAgeAnyAge(p) ==
    /\ At(p, "age")
    /\ Goto(p, IF present THEN "probe" ELSE "deadline")
    /\ DirUnchanged
    /\ UNCHANGED <<alive, expired>>

\* is_stale, first half: a vanished or a young directory is not stale.
CheckAge(p) ==
    /\ At(p, "age")
    /\ Goto(p, IF present /\ old THEN "probe" ELSE "deadline")
    /\ DirUnchanged
    /\ UNCHANGED <<alive, expired>>

\* Mutant: is_stale without is_alive, an old directory is stale whoever holds it.
ProbeNobody(p) ==
    /\ At(p, "probe")
    /\ Goto(p, "emptying")
    /\ DirUnchanged
    /\ UNCHANGED <<alive, expired>>

\* is_stale, second half: no readable holder, or a dead one, is stale.  (A
\* directory that vanished in between reads as "no holder".)
ProbeHolder(p) ==
    /\ At(p, "probe")
    /\ Goto(p, IF present /\ holder \in alive THEN "deadline" ELSE "emptying")
    /\ DirUnchanged
    /\ UNCHANGED <<alive, expired>>

\* remove_dir_all, the walk: whatever the path names now loses its entries,
\* and losing one renews the mtime.
EmptyDir(p, from, next, absent) ==
    /\ At(p, from)
    /\ IF present
       THEN /\ holder' = NoProc
            /\ old' = (old /\ holder = NoProc)
            /\ Goto(p, next)
       ELSE /\ UNCHANGED <<holder, old>>
            /\ Goto(p, absent)
    /\ UNCHANGED <<present, creator, alive, expired>>

\* remove_dir_all, the final rmdir: fails on a directory that is gone or that
\* gained a file since the walk.
RemoveDir(p, from, next, failed) ==
    /\ At(p, from)
    /\ IF present /\ holder = NoProc
       THEN /\ present' = FALSE
            /\ creator' = NoProc
            /\ old' = FALSE
            /\ Goto(p, next)
       ELSE /\ UNCHANGED <<present, creator, old>>
            /\ Goto(p, failed)
    /\ UNCHANGED <<holder, alive, expired>>

\* steal: remove_dir_all, then a fresh try_acquire.
StealEmpty(p)  == EmptyDir(p, "emptying", "unlinking", "deadline")
StealRemove(p) == RemoveDir(p, "unlinking", "retry", "deadline")
StealCreate(p) == CreateDir(p, "retry", "deadline")

\* Mutant: the loop never looks at its deadline.
DeadlineNever(p) ==
    /\ At(p, "deadline")
    /\ Goto(p, "try")
    /\ DirUnchanged
    /\ UNCHANGED <<alive, expired>>

\* The foot of the loop: give up with LockTimeout, or sleep and go round.
Deadline(p) ==
    /\ At(p, "deadline")
    /\ Goto(p, IF p \in expired THEN "idle" ELSE "try")
    /\ DirUnchanged
    /\ UNCHANGED <<alive, expired>>

-----------------------------------------------------------------------------
(* LockGuard::release_inner: no ownership test, every error ignored. *)

Release(p) ==
    /\ At(p, "held")
    /\ Goto(p, "leaving")
    /\ DirUnchanged
    /\ UNCHANGED <<alive, expired>>

ReleaseEmpty(p)  == EmptyDir(p, "leaving", "removing", "idle")
ReleaseRemove(p) == RemoveDir(p, "removing", "idle", "idle")

-----------------------------------------------------------------------------
(* The environment *)

\* Thirty seconds pass for an acquire under way.
Expire(p) ==
    /\ p \in alive \ expired
    /\ pc[p] \in Acquiring
    /\ expired' = expired \cup {p}
    /\ DirUnchanged
    /\ UNCHANGED <<alive, pc>>

\* Five minutes pass without a change to the directory's entries: its maker is
\* dead, or holds the lock under its stamp all that time.
GrowOld ==
    /\ present
    /\ ~old
    /\ creator \notin alive \/ (At(creator, "held") /\ holder = creator)
    /\ old' = TRUE
    /\ UNCHANGED <<present, creator, holder, alive, expired, pc>>

\* A process dies wherever it is; what it left on disk stays.
Crash(p) ==
    /\ p \in alive
    /\ alive' = alive \ {p}
    /\ DirUnchanged
    /\ UNCHANGED <<expired, pc>>

AcquireStep(p) ==
    \/ TryAcquire(p) \/ Stamp(p) \/ CheckAge(p) \/ ProbeHolder(p)
    \/ StealEmpty(p) \/ StealRemove(p) \/ StealCreate(p) \/ Deadline(p)
ReleaseStep(p) == ReleaseEmpty(p) \/ ReleaseRemove(p)
=============================================================================
