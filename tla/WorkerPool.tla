----------------------------- MODULE WorkerPool -----------------------------
(***************************************************************************)
(* What the hand-off of a scrubbing round promises, without its locks,     *)
(* flags and wake-ups: a pool of workers is opened, each of its workers    *)
(* holds at most one job at a time and runs once for it, and the pool is   *)
(* closed only when no worker is in the middle of a run. A job that was    *)
(* assigned but not begun may be dropped when the pool closes. The pool    *)
(* abstracts from the segment a run is on. ScrubRound implements this      *)
(* (Pool there).                                                           *)
(***************************************************************************)
EXTENDS Naturals

CONSTANT Workers   \* all workers a round may ask for

VARIABLES
    mode,    \* "closed", "open" or "closing"
    pool,    \* the workers of the open pool
    slot,    \* slot[w]: what worker w has in hand
    handed,  \* jobs assigned since the pool was opened
    done     \* runs completed since then

vars == <<mode, pool, slot, handed, done>>

Empty == [w \in Workers |-> "free"]

Init ==
    /\ mode = "closed"
    /\ pool = {}
    /\ slot = Empty
    /\ handed = 0 /\ done = 0

\* A round begins with some of the workers.
Open ==
    /\ mode = "closed"
    /\ mode' = "open"
    /\ pool' \in SUBSET Workers
    /\ UNCHANGED <<slot, handed, done>>

Move(w, from, to) ==
    /\ slot[w] = from
    /\ slot' = [slot EXCEPT ![w] = to]
    /\ UNCHANGED <<mode, pool>>

\* A free worker of the pool is given a job.
Take(w) ==
    /\ mode = "open"
    /\ w \in pool
    /\ Move(w, "free", "assigned")
    /\ handed' = handed + 1
    /\ UNCHANGED done

\* It starts on it; also while the pool is closing.
Begin(w) ==
    /\ Move(w, "assigned", "working")
    /\ UNCHANGED <<handed, done>>

\* It completes what it started.
Complete(w) ==
    /\ Move(w, "working", "free")
    /\ done' = done + 1
    /\ UNCHANGED handed

\* No more jobs are assigned.
Stop ==
    /\ mode = "open"
    /\ mode' = "closing"
    /\ UNCHANGED <<pool, slot, handed, done>>

\* The pool is gone. Nobody was working.
Close ==
    /\ mode = "closing"
    /\ \A w \in Workers : slot[w] # "working"
    /\ mode' = "closed"
    /\ pool' = {}
    /\ slot' = Empty
    /\ handed' = 0 /\ done' = 0

Next ==
    \/ Open \/ Stop \/ Close
    \/ \E w \in Workers : Take(w) \/ Begin(w) \/ Complete(w)

Spec == Init /\ [][Next]_vars
=============================================================================
