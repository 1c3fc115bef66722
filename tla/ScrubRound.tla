----------------------------- MODULE ScrubRound -----------------------------
(***************************************************************************)
(* The threads of the block-layer scrubber of one disk: the main kernel    *)
(* thread (scrubber(), segread(), the loops of seqscrub() and its kin),    *)
(* the workers it creates for a scrubbing round (kthread_segread()), and   *)
(* the sysfs writers of the "state" attribute (scrub_state_store()).       *)
(*                                                                         *)
(* A round hands its segments ("jobs", numbered in the order of the calls  *)
(* of segread()) to workers through plain stores into tdata[] and one      *)
(* ticket spinlock per worker that is used as a barrier: the worker takes  *)
(* it, main releases it.  Sleeping and waking are modelled as the          *)
(* scheduler does it: a task sets its own state to interruptible ("I"),    *)
(* tests its condition and calls schedule(), which returns once somebody   *)
(* has set the state back to running ("R").                                *)
(***************************************************************************)
EXTENDS Integers, FiniteSets

CONSTANTS
    MaxThreads,   \* bound on the sysfs attribute "threads"
    MaxJobs,      \* bound on the calls of segread() in a round
    Chunks,       \* Chunks[j]: VERIFY requests a worker issues for job j
    TicketMod     \* values of a half of the ticket lock (2^8 on x86)

ASSUME MaxThreadsAssumption == MaxThreads \in Nat \ {0}
ASSUME MaxJobsAssumption    == MaxJobs \in Nat
ASSUME ChunksAssumption     == Chunks \in [0..MaxJobs -> Nat \ {0}]
ASSUME TicketModAssumption  == TicketMod \in Nat /\ TicketMod > 2

VARIABLES
    state,      \* disk->scrubber->state: 0 on, 1 off, 2 abort
    mpc,        \* where the main thread is
    mtask,      \* its task state
    round,      \* the parameters copied for the round
    cur,        \* the job being handed out, counted from 1
    tc,         \* tcounter of segread(), i of the loops in scrubber()
    pend,       \* plain stores of segread() not performed yet
    available,  \* s->available
    reqcount,   \* s->reqcount; between rounds, the value published in sysfs
    lock,       \* barrier[t]: (tail - head) of the ticket lock
    tstate,     \* tdata[t].state
    tpos,       \* tdata[t].pos, as the job it belongs to; 0 is fresh memory
    tcount,     \* tdata[t].count, likewise
    wpc,        \* where worker t is
    wtask,      \* its task state
    wpos,       \* its local pos
    wcount,     \* its local count
    left,       \* requests left in its chunk loop
    stopped,    \* the workers kthread_stop() was called for
    finished,   \* history: runs of the chunk loop completed in this round
    verified,   \* history: the jobs that the run of their own hand-off verified
    early       \* history: the jobs whose worker loaded pos and count before
                \* both were stored

ran    == <<finished, verified>>
counts == <<reqcount, ran, early>>
plan   == <<round, cur>>
tdata  == <<tstate, tpos, tcount>>
tasks  == <<wpc, wtask, stopped>>
locals == <<wpos, wcount, left>>
\* What the control steps of main leave alone.
shared == <<state, available, counts, lock, tdata, tasks, locals>>
vars == <<state, mpc, mtask, plan, tc, pend, available, counts, lock, tdata,
          tasks, locals>>

Threads == 0..(MaxThreads - 1)
Jobs    == 1..MaxJobs
Active  == 0..(round.threads - 1)

\* What a round takes from sysfs: the number of threads, whether the warm-up
\* request is made (the check on capacity and segsize), how many segments the
\* strategy visits before it ends or reaches reqbound, and whether it looks at
\* the abort state between segments (fixedscrub() does not).
Rounds == {r \in [threads: 1..MaxThreads, total: 0..MaxJobs,
                  warm: BOOLEAN, abortable: BOOLEAN] :
             r.warm => r.total > 0}

NoRound == [threads |-> 1, total |-> 0, warm |-> FALSE, abortable |-> TRUE]

MainPC == {"poll", "idle", "asleep", "create", "need", "test", "wait",
           "claim", "scan", "prep", "raise", "observe", "wake", "next",
           "stop", "join", "retry", "free"}

WorkerPC == {"none", "created", "avail", "notify", "setint", "try", "check",
             "sched", "passed", "switch", "io", "account", "exited", "eintr"}

\* Main is in the part of segread() that has claimed a worker but not yet
\* marked one busy.
Claiming == mpc = "scan" \/ (mpc = "prep" /\ "state" \in pend)

\* Main stops the workers of the round.
Stopping == mpc \in {"stop", "join", "retry", "free"}

\* The memory of a round (barrier[], tdata[]) exists.
Allocated == mpc \notin {"poll", "idle", "asleep"}

FreshTdata ==
    /\ lock' = [t \in Threads |-> 0]
    /\ tstate' = [t \in Threads |-> "TINIT"]
    /\ tpos' = [t \in Threads |-> 0]
    /\ tcount' = [t \in Threads |-> 0]

Init ==
    /\ state = 1
    /\ mpc = "poll"
    /\ mtask = "R"
    /\ round = NoRound
    /\ pend = {}
    /\ reqcount = 0 /\ finished = 0
    /\ verified = {} /\ early = {}
    /\ cur = 0 /\ tc = 0 /\ available = 0
    /\ lock = [t \in Threads |-> 0]
    /\ tstate = [t \in Threads |-> "TINIT"]
    /\ tpos = [t \in Threads |-> 0]
    /\ tcount = [t \in Threads |-> 0]
    /\ wpc = [t \in Threads |-> "none"]
    /\ wtask = [t \in Threads |-> "R"]
    /\ wpos = [t \in Threads |-> 0]
    /\ wcount = [t \in Threads |-> 0]
    /\ left = [t \in Threads |-> 0]
    /\ stopped = {}

-----------------------------------------------------------------------------
(* scrub_state_store(), called with sysfs_lock held. A value that equals    *)
(* the current one is refused.                                              *)

StoreOn ==
    /\ state # 0
    /\ state' = 0
    /\ mtask' = "R"
    /\ UNCHANGED <<mpc, plan, tc, pend, available, counts, lock,
                   tdata, tasks, locals>>

StoreOffOrAbort ==
    /\ \E v \in {1, 2} : state # v /\ state' = v
    /\ UNCHANGED <<mpc, mtask, plan, tc, pend, available, counts,
                   lock, tdata, tasks, locals>>

-----------------------------------------------------------------------------
(* scrubber(): the loop that polls for the signal to scrub.                 *)

MainStep(from, to) == mpc = from /\ mpc' = to

\* The round's worth of set-up: copy the parameters, zero the counters,
\* allocate barrier[] and tdata[] and initialise both.
MStartRound ==
    /\ MainStep("poll", "create")
    /\ state = 0
    /\ round' \in Rounds
    /\ cur' = 0 /\ tc' = 0 /\ available' = 0
    /\ reqcount' = 0 /\ finished' = 0
    /\ verified' = {} /\ early' = {}
    /\ FreshTdata
    /\ UNCHANGED <<state, mtask, pend, tasks, locals>>

MPollOff ==
    /\ MainStep("poll", "idle")
    /\ state # 0
    /\ UNCHANGED <<shared, mtask, plan, tc, pend>>

\* set_current_state(TASK_INTERRUPTIBLE), then kthread_should_stop(), which is
\* false: the only kthread_stop() on this task is in blk_release_scrub(), and
\* nothing drops the kobject reference that would call it.
MIdle ==
    /\ MainStep("idle", "asleep")
    /\ mtask' = "I"
    /\ UNCHANGED <<shared, plan, tc, pend>>

\* schedule() returns.
MWoken ==
    /\ MainStep("asleep", "poll")
    /\ mtask = "R"
    /\ UNCHANGED <<shared, mtask, plan, tc, pend>>

\* Where main goes when the current job is done with: the next call of
\* segread(), or the end of the round.
NextJob == IF cur < round.total THEN "need" ELSE "stop"

\* One kthread_run(). After the last one main makes its first segread(), the
\* warm-up one if there is any.
MCreate ==
    /\ \/ MainStep("create", "create") /\ tc + 1 < round.threads /\ tc' = tc + 1
       \/ MainStep("create", NextJob) /\ tc + 1 = round.threads /\ tc' = 0
    /\ wpc' = [wpc EXCEPT ![tc] = "created"]
    /\ wtask' = [wtask EXCEPT ![tc] = "R"]
    /\ stopped' = stopped \ {tc}
    /\ UNCHANGED <<state, mtask, plan, pend, available, counts, lock, tdata,
                   locals>>

-----------------------------------------------------------------------------
(* segread(): wait for an available worker, find it, hand it the job.       *)

MNeed ==
    /\ MainStep("need", "test")
    /\ cur' = cur + 1
    /\ mtask' = "I"
    /\ UNCHANGED <<shared, round, tc, pend>>

\* Mutated form: segread() does not wait for an available worker.
MTestNoWait ==
    /\ MainStep("test", "claim")
    /\ mtask' = "R"
    /\ UNCHANGED <<shared, plan, tc, pend>>

MTest ==
    /\ \/ MainStep("test", "wait") /\ available = 0 /\ mtask' = mtask
       \/ MainStep("test", "claim") /\ available # 0 /\ mtask' = "R"
    /\ UNCHANGED <<shared, plan, tc, pend>>

\* schedule() returns, set_current_state(TASK_INTERRUPTIBLE), test again.
MWait ==
    /\ MainStep("wait", "test")
    /\ mtask = "R"
    /\ mtask' = "I"
    /\ UNCHANGED <<shared, plan, tc, pend>>

\* --available under mutexavail; then the optional delay of delayms.
MClaim ==
    /\ MainStep("claim", "scan")
    /\ available' = available - 1
    /\ tc' = 0
    /\ UNCHANGED <<state, mtask, plan, pend, counts, lock, tdata, tasks, locals>>

\* One test of the loop that looks for a thread in one of the given states.
ScanFor(states) ==
    /\ \/ /\ tstate[tc] \notin states
          /\ MainStep("scan", "scan")
          /\ tc' = (tc + 1) % round.threads
          /\ pend' = pend
       \/ /\ tstate[tc] \in states
          /\ MainStep("scan", "prep")
          /\ pend' = {"state", "pos", "count"}
          /\ tc' = tc
    /\ UNCHANGED <<shared, mtask, plan>>

\* Mutated form: any started worker will do, busy or not.
MScanNotFresh == ScanFor({"TIDLE", "TBUSY"})

MScan == ScanFor({"TIDLE"})

\* The plain stores of state, pos and count: nothing orders them before the
\* release of the barrier, so they reach memory in any order.
MPrep ==
    /\ mpc = "prep"
    /\ \E f \in pend :
         /\ pend' = pend \ {f}
         /\ mpc' = IF pend' = {} THEN "raise" ELSE "prep"
         /\ tstate' = IF f = "state" THEN [tstate EXCEPT ![tc] = "TBUSY"]
                                     ELSE tstate
         /\ tpos' = IF f = "pos" THEN [tpos EXCEPT ![tc] = cur] ELSE tpos
         /\ tcount' = IF f = "count" THEN [tcount EXCEPT ![tc] = cur] ELSE tcount
    /\ UNCHANGED <<state, mtask, plan, tc, available, counts, lock, tasks,
                   locals>>

\* spin_unlock() of a ticket lock: it advances the head, held or not.
MRaise ==
    /\ MainStep("raise", "observe")
    /\ lock' = [lock EXCEPT ![tc] = (@ - 1) % TicketMod]
    /\ UNCHANGED <<state, mtask, plan, tc, pend, available, counts, tdata,
                   tasks, locals>>

\* Points at which the worker may be asleep inside a call: the VERIFY request,
\* or a contended mutex.
MayBlock == {"io", "account", "avail"}

\* Poll every 2 ms until the worker's task is not running.
MObserve ==
    /\ MainStep("observe", "wake")
    /\ wtask[tc] = "I" \/ wpc[tc] \in MayBlock
    /\ UNCHANGED <<shared, mtask, plan, tc, pend>>

\* Mutated form: the worker is not woken after the barrier is raised.
MWakeNobody ==
    /\ MainStep("wake", "next")
    /\ UNCHANGED <<shared, mtask, plan, tc, pend>>

MWake ==
    /\ MainStep("wake", "next")
    /\ wtask' = [wtask EXCEPT ![tc] = "R"]
    /\ UNCHANGED <<state, mtask, plan, tc, pend, available, counts, lock, tdata,
                   wpc, stopped, locals>>

\* Back in the strategy's loop: abort, or the next segment. The warm-up
\* request is followed by no test of the abort state.
MNext ==
    /\ mpc = "next"
    /\ mpc' = IF state = 2 /\ round.abortable /\ ~(round.warm /\ cur = 1)
              THEN "stop" ELSE NextJob
    /\ tc' = 0
    /\ UNCHANGED <<shared, mtask, plan, pend>>

-----------------------------------------------------------------------------
(* scrubber(): stop the workers, free the memory, publish the counters.     *)

\* kthread_stop(): set should_stop and wake the worker. On a worker that has
\* exited it only returns the exit code.
MStop ==
    /\ MainStep("stop", "join")
    /\ stopped' = stopped \cup {tc}
    /\ wtask' = [wtask EXCEPT ![tc] = "R"]
    /\ UNCHANGED <<state, mtask, plan, tc, pend, available, counts, lock, tdata,
                   wpc, locals>>

\* On to the next worker.
StopNext ==
    \/ MainStep("join", "stop") /\ tc + 1 < round.threads /\ tc' = tc + 1
    \/ MainStep("join", "free") /\ tc + 1 = round.threads /\ tc' = 0

\* Mutated form: the stopped worker is not waited for.
MJoinNoWait ==
    /\ StopNext
    /\ UNCHANGED <<shared, mtask, plan, pend>>

\* kthread_stop() returns 0.
MJoin ==
    /\ wpc[tc] = "exited"
    /\ StopNext
    /\ UNCHANGED <<shared, mtask, plan, pend>>

\* kthread_stop() returns -EINTR, the code of a thread stopped before it ran
\* its function: sleep until woken, then call kthread_stop() again.
MJoinFailed ==
    /\ MainStep("join", "retry")
    /\ wpc[tc] = "eintr"
    /\ mtask' = "I"
    /\ UNCHANGED <<shared, plan, tc, pend>>

MRetry ==
    /\ MainStep("retry", "stop")
    /\ mtask = "R"
    /\ UNCHANGED <<shared, mtask, plan, tc, pend>>

\* kfree() barrier[] and tdata[], then publish the counter under sysfs_lock.
\* (ScrubStats has the counter in sysfs, with its value during a round.) What is
\* dead from here on (freed memory, exited tasks, main's locals) gets its initial
\* value back.
MFinish ==
    /\ MainStep("free", "poll")
    /\ round' = NoRound
    /\ cur' = 0 /\ tc' = 0 /\ available' = 0
    /\ finished' = 0 /\ verified' = {} /\ early' = {}
    /\ FreshTdata
    /\ wpc' = [t \in Threads |-> IF wpc[t] = "exited" THEN "none" ELSE wpc[t]]
    /\ stopped' = {}
    /\ UNCHANGED <<state, mtask, pend, reqcount, wtask, locals>>

-----------------------------------------------------------------------------
(* kthread_segread(): worker t.                                             *)

WorkerStep(t, from, to) ==
    /\ wpc[t] = from
    /\ wpc' = [wpc EXCEPT ![t] = to]
    /\ UNCHANGED <<state, mpc, plan, tc, pend, stopped>>

\* kthread() calls the thread function unless the thread was stopped first;
\* the function starts by storing the given state.
BeginAs(t, s) ==
    /\ \/ t \in stopped /\ WorkerStep(t, "created", "eintr") /\ tstate' = tstate
       \/ /\ t \notin stopped
          /\ WorkerStep(t, "created", "avail")
          /\ tstate' = [tstate EXCEPT ![t] = s]
    /\ UNCHANGED <<mtask, available, counts, lock, tpos, tcount,
                   wtask, locals>>

\* Mutated form: the new worker announces itself without storing TIDLE.
WBeginNotIdle(t) == BeginAs(t, "TINIT")

WBegin(t) == BeginAs(t, "TIDLE")

\* Mutated form: the announcement is not counted.
WAvailUncounted(t) ==
    /\ WorkerStep(t, "avail", "notify")
    /\ UNCHANGED <<mtask, available, counts, lock, tdata, wtask, locals>>

\* ++available under mutexavail.
WAvail(t) ==
    /\ WorkerStep(t, "avail", "notify")
    /\ available' = available + 1
    /\ UNCHANGED <<mtask, counts, lock, tdata, wtask, locals>>

\* Mutated form: main is not woken.
WNotifyNobody(t) ==
    /\ WorkerStep(t, "notify", "setint")
    /\ UNCHANGED <<mtask, available, counts, lock, tdata, wtask, locals>>

\* wake_up_state() of the main thread, whatever it sleeps for.
WNotify(t) ==
    /\ WorkerStep(t, "notify", "setint")
    /\ mtask' = "R"
    /\ UNCHANGED <<available, counts, lock, tdata, wtask, locals>>

WSetInt(t) ==
    /\ WorkerStep(t, "setint", "try")
    /\ wtask' = [wtask EXCEPT ![t] = "I"]
    /\ UNCHANGED <<mtask, available, counts, lock, tdata, locals>>

\* spin_trylock() of a ticket lock: it succeeds only if head = tail.
WTry(t) ==
    /\ \/ /\ lock[t] = 0
          /\ WorkerStep(t, "try", "passed")
          /\ lock' = [lock EXCEPT ![t] = 1]
       \/ lock[t] # 0 /\ WorkerStep(t, "try", "check") /\ lock' = lock
    /\ UNCHANGED <<mtask, available, counts, tdata, wtask, locals>>

\* Mutated form: the wait at the barrier ignores kthread_should_stop().
WCheckSleep(t) ==
    /\ WorkerStep(t, "check", "sched")
    /\ UNCHANGED <<mtask, available, counts, lock, tdata, wtask, locals>>

\* The kthread_should_stop() of the loop's condition.
WCheck(t) ==
    /\ WorkerStep(t, "check", IF t \in stopped THEN "passed" ELSE "sched")
    /\ UNCHANGED <<mtask, available, counts, lock, tdata, wtask, locals>>

\* Mutated form: the wait is an if, not a while: whoever wakes the worker lets it
\* past the barrier.
WSchedOnce(t) ==
    /\ WorkerStep(t, "sched", "passed")
    /\ wtask[t] = "R"
    /\ UNCHANGED <<mtask, available, counts, lock, tdata, wtask, locals>>

\* schedule() returns, set_current_state(TASK_INTERRUPTIBLE), try again.
WSched(t) ==
    /\ WorkerStep(t, "sched", "try")
    /\ wtask[t] = "R"
    /\ wtask' = [wtask EXCEPT ![t] = "I"]
    /\ UNCHANGED <<mtask, available, counts, lock, tdata, locals>>

\* set_current_state(TASK_RUNNING); then the worker looks whether it has to stop.
WPassed(t) ==
    /\ WorkerStep(t, "passed", IF t \in stopped THEN "exited" ELSE "switch")
    /\ wtask' = [wtask EXCEPT ![t] = "R"]
    /\ UNCHANGED <<mtask, available, counts, lock, tdata, locals>>

\* Mutated form: the worker loads pos and keeps the count of its last segment.
WSwitchKeepsCount(t) ==
    /\ \/ /\ tstate[t] = "TBUSY"
          /\ WorkerStep(t, "switch", "io")
          /\ wpos' = [wpos EXCEPT ![t] = tpos[t]]
          /\ left' = [left EXCEPT ![t] = Chunks[wcount[t]]]
       \/ /\ tstate[t] # "TBUSY"
          /\ WorkerStep(t, "switch", "setint")
          /\ UNCHANGED <<wpos, left>>
    /\ UNCHANGED <<mtask, available, counts, lock, tdata, wtask, wcount>>

\* Main has marked worker t busy and has not stored both pos and count yet.
HalfStored(t) == mpc = "prep" /\ tc = t /\ pend \cap {"pos", "count"} # {}

\* switch (data->state); a busy worker loads pos and count.
WSwitch(t) ==
    /\ \/ /\ tstate[t] = "TBUSY"
          /\ WorkerStep(t, "switch", "io")
          /\ wpos' = [wpos EXCEPT ![t] = tpos[t]]
          /\ wcount' = [wcount EXCEPT ![t] = tcount[t]]
          /\ left' = [left EXCEPT ![t] = Chunks[tcount[t]]]
          /\ early' = IF HalfStored(t) THEN early \cup {cur} ELSE early
       \/ /\ tstate[t] # "TBUSY"
          /\ WorkerStep(t, "switch", "setint")
          /\ UNCHANGED <<locals, early>>
    /\ UNCHANGED <<mtask, available, reqcount, ran, lock, tdata, wtask>>

\* scsi_verify() of one chunk returns.
WVerify(t) ==
    /\ WorkerStep(t, "io", "account")
    /\ left' = [left EXCEPT ![t] = @ - 1]
    /\ UNCHANGED <<mtask, available, counts, lock, tdata, wtask, wpos, wcount>>

\* The job a busy worker was handed: the stores of pos and count may not have
\* reached memory yet.
JobOf(t) == IF mpc = "prep" /\ tc = t THEN cur ELSE tpos[t]

\* ++reqcount, with the counter in sysfs, under sysfs_lock; the loop goes on
\* while sectors are left, and the last chunk ends with a store of the given
\* state (pos and count are dead then).
AccountAs(t, s) ==
    /\ reqcount' = reqcount + 1
    /\ \/ /\ left[t] > 0
          /\ WorkerStep(t, "account", "io")
          /\ UNCHANGED <<tstate, ran, wpos, wcount>>
       \/ /\ left[t] = 0
          /\ WorkerStep(t, "account", "avail")
          /\ tstate' = [tstate EXCEPT ![t] = s]
          /\ finished' = finished + 1
          /\ verified' = verified \cup ({wpos[t]} \cap {wcount[t]} \cap {JobOf(t)})
          /\ wpos' = [wpos EXCEPT ![t] = 0]
          /\ wcount' = [wcount EXCEPT ![t] = 0]
    /\ UNCHANGED <<mtask, available, early, lock, tpos, tcount, wtask, left>>

\* Mutated form: the worker does not return to TIDLE.
WAccountStaysBusy(t) == AccountAs(t, "TBUSY")

WAccount(t) == AccountAs(t, "TIDLE")

-----------------------------------------------------------------------------
Main ==
    \/ MStartRound \/ MPollOff \/ MIdle \/ MWoken \/ MCreate
    \/ MNeed \/ MTest \/ MWait \/ MClaim \/ MScan \/ MPrep \/ MRaise
    \/ MObserve \/ MWake \/ MNext
    \/ MStop \/ MJoin \/ MJoinFailed \/ MRetry \/ MFinish

Worker(t) ==
    \/ WBegin(t) \/ WAvail(t) \/ WNotify(t) \/ WSetInt(t) \/ WTry(t)
    \/ WCheck(t) \/ WSched(t) \/ WPassed(t) \/ WSwitch(t) \/ WVerify(t)
    \/ WAccount(t)

Next == StoreOn \/ StoreOffOrAbort \/ Main \/ \E t \in Threads : Worker(t)

Spec == Init /\ [][Next]_vars

\* The scheduler runs every runnable kernel thread, and the SCSI layer
\* completes or times out every request. Sysfs writers owe nothing.
FairSpec == Spec /\ WF_vars(Main) /\ \A t \in Threads : WF_vars(Worker(t))

-----------------------------------------------------------------------------
(* Type invariant.                                                          *)

\* The type of every variable, as the declarations of scrub.h and scrub_core.c
\* give it. "available" is an int there; that it never goes below zero is part
\* of what is claimed.
TypeOK ==
    /\ state \in 0..2
    /\ mpc \in MainPC
    /\ mtask \in {"R", "I"}
    /\ round \in Rounds
    /\ cur \in 0..MaxJobs
    /\ tc \in Threads
    /\ pend \subseteq {"state", "pos", "count"}
    /\ available \in Nat
    /\ reqcount \in Nat
    /\ lock \in [Threads -> 0..(TicketMod - 1)]
    /\ tstate \in [Threads -> {"TINIT", "TIDLE", "TBUSY"}]
    /\ tpos \in [Threads -> 0..MaxJobs]
    /\ tcount \in [Threads -> 0..MaxJobs]
    /\ wpc \in [Threads -> WorkerPC]
    /\ wtask \in [Threads -> {"R", "I"}]
    /\ wpos \in [Threads -> 0..MaxJobs]
    /\ wcount \in [Threads -> 0..MaxJobs]
    /\ left \in [Threads -> Nat]
    /\ stopped \subseteq Threads
    /\ finished \in Nat
    /\ verified \subseteq 0..MaxJobs /\ early \subseteq 0..MaxJobs

-----------------------------------------------------------------------------
(* Safety.                                                                  *)

Idle       == {t \in Threads : tstate[t] = "TIDLE"}
Announcing == {t \in Threads : wpc[t] = "avail"}
Claims     == IF Claiming THEN 1 ELSE 0

\* The counter and the flags agree: idle workers are those counted in
\* s->available, the one main has claimed and not found yet, and as many as are
\* between storing TIDLE and ++available. The counter is kept under mutexavail,
\* the flags under no lock, and main may take a worker that has not announced
\* itself yet; the sum survives because each side moves one unit per step.
AvailableCounts ==
    available + Claims + Cardinality(Announcing) = Cardinality(Idle)

\* While main walks tdata[] for an idle thread there is one, among the threads
\* of this round: the loop of segread() has no other way out.
IdleFound == mpc = "scan" => \E t \in Active : tstate[t] = "TIDLE"

\* Workers that hold a job.
Busy == {t \in Threads : tstate[t] = "TBUSY"}

\* Jobs of the round that main has stored in some tdata[].
Handed ==
    IF mpc \in {"test", "wait", "claim"} \/ Claiming THEN cur - 1 ELSE cur

\* Runs and busy workers add up to the jobs handed out.
RunsCounted == Allocated => finished + Cardinality(Busy) = Handed

\* Each of these jobs is verified, with a busy worker, or was loaded too early.
SegmentsKept ==
    Allocated =>
       \A j \in 1..Handed :
          j \in verified \cup early \/ \E t \in Busy : JobOf(t) = j

\* No hand-off overwrites a job that waits, and none makes a worker run twice.
\* A run need not be for the segment of its hand-off, though: every segment
\* handed out has been verified by the run it caused, is with a busy worker
\* (which drops it if it is stopped first), or went to a worker that loaded pos
\* and count before both were stored. That worker verifies its last segment
\* again, or a mix of the two, and the new segment is lost; the sum alone does
\* not show it, and nothing bounds how many segments of a round go that way.
JobsConserved == RunsCounted /\ SegmentsKept

\* When the barriers and the thread data are freed, and until the next round,
\* no worker of the old round is left that could touch them.
FreedWhenQuiet == ~Allocated => \A t \in Threads : wpc[t] = "none"

\* Where a worker is when it has not passed the barrier (again) yet.
BeforeBarrier == {"avail", "notify", "setint", "try", "check", "sched"}

\* A barrier that was released without being held is released once only, and
\* the worker in front of it holds the job it will not see: no later hand-off
\* goes to it and the ticket never wraps back to a free lock.
OverReleaseIsFinal ==
    \A t \in Threads :
       lock[t] \notin {0, 1} =>
          /\ lock[t] = TicketMod - 1
          /\ tstate[t] = "TBUSY"
          /\ wpc[t] \in BeforeBarrier \cup {"passed", "exited"}
          /\ wpc[t] \in {"passed", "exited"} => t \in stopped

\* Neither side of the hand-off sleeps through its wake-up: a worker asleep in
\* front of a raised barrier is the one main is about to wake, and main asleep in
\* segread() while a worker is available is about to be woken by a worker.
NoLostWake ==
    /\ \A t \in Threads :
          wpc[t] = "sched" /\ wtask[t] = "I" /\ lock[t] = 0 =>
             mpc \in {"observe", "wake"} /\ tc = t
    /\ mpc = "wait" /\ mtask = "I" /\ available > 0 =>
          \E t \in Threads : wpc[t] = "notify"

\* A worker that waited for its barrier verifies the segment main stored, with
\* pos and count of the same hand-off. Only a worker that found the lock free
\* may load them too early: while main still stores, and until the unlock that
\* follows, which leaves the lock free behind it.
WaitedLoadIsWhole ==
    \A t \in Threads :
       wpc[t] \in {"io", "account"} /\ lock[t] = 1
         /\ ~(mpc \in {"prep", "raise"} /\ tc = t) =>
            wpos[t] = tpos[t] /\ wcount[t] = tcount[t]

\* Main is between choosing worker t and raising its barrier.
Handing(t) == mpc \in {"prep", "raise"} /\ tc = t

\* Main has marked t busy but not raised its barrier.
Marked(t) == Handing(t) /\ (mpc = "prep" => "state" \notin pend)

\* Worker t and its barrier are in step: it waits at a lowered barrier for a job
\* that is not run yet, or the barrier has just been raised for it, or it has
\* passed, taken the lock, and works on the job it was handed.
InStep(t) ==
    \/ /\ wpc[t] \in BeforeBarrier /\ lock[t] = 1
       /\ tstate[t] = (IF Marked(t) THEN "TBUSY" ELSE "TIDLE")
    \/ wpc[t] \in BeforeBarrier /\ lock[t] = 0 /\ tstate[t] = "TBUSY" /\ ~Marked(t)
    \/ /\ wpc[t] \in {"passed", "switch", "io", "account"} /\ lock[t] = 1
       /\ tstate[t] = "TBUSY" /\ ~Handing(t)
       /\ wpc[t] \in {"io", "account"} => wpos[t] = tpos[t] /\ wcount[t] = tcount[t]

\* A worker that has once waited at its lowered barrier is in step with it until
\* the round is stopped: it passes only when main has raised the barrier for it,
\* finds its segment stored, and comes back to a lowered barrier. The races of a
\* lock that starts out free can hit only workers that have not got there yet.
StaysInStep ==
    [][\A t \in Threads : InStep(t) => InStep(t)' \/ Stopping']_vars

\* The counter a reader finds in sysfs between two rounds is final: no worker
\* counts a request after scrubber() has published the counter and before it
\* starts the next round.
PublishedCountStable ==
    [][(mpc \in {"poll", "idle", "asleep"}) =>
          (reqcount' = reqcount \/ MStartRound)]_vars

-----------------------------------------------------------------------------
(* Liveness, under FairSpec.                                                *)

OverReleased == \E t \in Threads : lock[t] = TicketMod - 1
NeverStarted == \E t \in Threads : wpc[t] = "eintr"

\* A round that starts ends, unless a barrier was released before its worker
\* first took it or a worker was stopped before it first ran: these two are
\* the only ways to hang the scrubber.
RoundEnds == mpc = "create" ~> (mpc = "poll" \/ OverReleased \/ NeverStarted)

\* kthread_stop() gets every worker that has entered its function to exit, the
\* ones stuck behind an over-released barrier included.
StoppedWorkersExit ==
    \A t \in Threads :
       (t \in stopped /\ wpc[t] \notin {"none", "created", "eintr"})
          ~> wpc[t] \in {"exited", "none"}

\* A busy worker that is parked at a lowered barrier when main raises it gets
\* to its request, or is told to stop.
ParkedWorkerRuns ==
    \A t \in Threads :
       (mpc = "raise" /\ tc = t /\ tstate[t] = "TBUSY" /\ wpc[t] = "sched"
          /\ lock[t] = 1)
          ~> (wpc[t] = "io" \/ t \in stopped)

-----------------------------------------------------------------------------
(* The promise of the hand-off: ScrubRound implements WorkerPool.            *)

\* A worker has a job in hand from the store of TBUSY to that of TIDLE, and
\* works on it from the load of pos and count.
Slot(t) ==
    IF wpc[t] \in {"io", "account"} THEN "working"
    ELSE IF tstate[t] = "TBUSY" THEN "assigned" ELSE "free"

PoolMode   == IF ~Allocated THEN "closed" ELSE IF Stopping THEN "closing" ELSE "open"
PoolOf     == IF Allocated THEN Active ELSE {}
PoolSlot   == [t \in Threads |-> Slot(t)]
PoolHanded == IF Allocated THEN Handed ELSE 0
PoolDone   == IF Allocated THEN finished ELSE 0

Pool == INSTANCE WorkerPool WITH
    Workers <- Threads, mode <- PoolMode, pool <- PoolOf, slot <- PoolSlot,
    handed <- PoolHanded, done <- PoolDone

\* segread(), kthread_segread() and the stop of a round together behave like a
\* pool of workers: whatever the interleaving of the unlocked flags, a worker is
\* given a job only when it has none, runs once for it and to the end once it has
\* begun, and no job is handed out after the stop has begun. Which segment the
\* run verifies is not seen here; JobsConserved is about that.
PoolSpec == Pool!Spec

-----------------------------------------------------------------------------
(* What comments in the code say and its interleavings do not keep.         *)

\* scrub_core.c: "Start an endless loop of polling for signal to scrub": a
\* scrubber that is switched on between rounds and left on starts a round.
OnStartsRound ==
    (state = 0 /\ mpc \in {"poll", "idle", "asleep"})
       ~> (mpc = "create" \/ state # 0)
=============================================================================
