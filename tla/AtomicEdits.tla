---------------------------- MODULE AtomicEdits ----------------------------
(***************************************************************************)
(* What write_guarded promises its callers: a compare-and-swap on a file.  *)
(* A caller reads the file, and its write either lands in one step on      *)
(* exactly the content it had read, or is refused because somebody wrote   *)
(* in between, or fails and leaves the file alone.  No lock and no token   *)
(* appear here.                                                            *)
(***************************************************************************)
CONSTANT Writer

VARIABLES file,     \* the edits the file carries
          view,     \* the content each writer read last
          status    \* where each writer's edit stands

vars == <<file, view, status>>

Init ==
    /\ file = {}
    /\ view = [w \in Writer |-> {}]
    /\ status = [w \in Writer |-> "idle"]

Becomes(w, from, to) ==
    /\ status[w] = from
    /\ status' = [status EXCEPT ![w] = to]

Read(w) ==
    /\ Becomes(w, "idle", "composing")
    /\ view' = [view EXCEPT ![w] = file]
    /\ UNCHANGED file

\* The swap: the file still is what the writer read.
Land(w) ==
    /\ Becomes(w, "composing", "landed")
    /\ view[w] = file
    /\ file' = file \cup {w}
    /\ UNCHANGED view

\* A refusal is never spurious.
Refuse(w) ==
    /\ Becomes(w, "composing", "refused")
    /\ view[w] # file
    /\ UNCHANGED <<file, view>>

\* A read or a write the file system refused.
Fail(w) ==
    /\ Becomes(w, "composing", "failed")
    /\ UNCHANGED <<file, view>>

StartOver(w) ==
    /\ Becomes(w, "refused", "idle") \/ Becomes(w, "failed", "idle")
    /\ UNCHANGED <<file, view>>

Next ==
    \E w \in Writer :
        Read(w) \/ Land(w) \/ Refuse(w) \/ Fail(w) \/ StartOver(w)

Spec == Init /\ [][Next]_vars
=============================================================================
