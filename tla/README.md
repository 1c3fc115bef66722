# A TLA+ model of the block-layer scrubber

The repository adds a disk scrubber to the block layer of Linux 2.6.35: one
kernel thread per disk that asks the drive, with SCSI VERIFY requests, to check
all of its sectors, and that is configured through sysfs. This directory holds
TLA+ modules of that code, TLC configurations that check them on small
instances, and TLAPS proofs. Line numbers below are of
`src/linux-2.6.35/block/scrub_core.c` unless a file is named.

## 1. Inventory

| Part | Code | State | Operations |
|---|---|---|---|
| main scrubber thread | `scrubber()` 592-807 | local `struct scrubparams`, `barrier[]`, `tdata[]`, its task state | poll the state, sleep, set up a round, create and stop workers, publish counters |
| segment hand-off | `segread()` 244-326 | `s->available`, `tdata[].state/pos/count`, `barrier[]` | wait for a worker, find it, store the segment, raise its barrier, wake it |
| workers | `kthread_segread()` 94-242 | locals `pos`, `count`; task state; `tdata[tid].state` | announce, wait at the barrier, run the VERIFY requests, account, exit |
| strategies | `seqscrub()`, `stgscrub()`, `fixedscrub()`, `scrubdev()`, `lceil()` 328-590 | position, region and segment counters, request count | which segments are read, and when a round ends |
| sysfs attributes | `block/scrub.c` 126-735 | `struct disk_scrubber` under `sysfs_lock` | one show and one store per attribute; `state` = on, off, abort |
| life cycle | `block/scrub.c` 28-121, 737-783; `genhd.c` 555-589, 1227-1252 | references of kobject, gendisk and module; users inside attributes | add and register, unregister, release |
| VERIFY command | `block/scrub_verify.c` | CDB, sense buffer | build the command, run it, classify the result |
| in-kernel SG_IO | `block/scsi_ioctl.c` 247-308, 407-542; `blk-exec.c` 66-83; `blk-core.c`; `fs/bio.c` | a request per caller: references, flags, completion; its bio | allocate, insert, wait, complete, put |
| elevator hook | `block/elevator.c` 646-652; `blkdev.h` 626-631 | the queue's counters, its elevator | insertion, accounting, against `elevator_switch()` |
| user-level scrubber | `sg3_utils-1.28/src/sg_scrubber.c` | sizes, position | one process: convert the sizes, scan sequentially, staggered or both |
| evaluation | `eval/` | none that matters | workload generators, scripts |

How they interact: a write to the sysfs attribute `state` sets a variable and
wakes the main thread. The main thread copies the other attributes, creates the
workers, and calls `segread()` once per segment. `segread()` and a worker share
`tdata[tid]` without a lock, the counter `available` under a mutex, and a ticket
spinlock per worker used as a barrier: the worker locks it, main unlocks it.
Each side sleeps with the kernel's idiom (set the task state, test, `schedule()`)
and is woken by the other. Workers call `scsi_verify()`, which sends a request
through `sg_kern_io()` and waits for it. At the end of a round main stops every
worker with `kthread_stop()`, frees the arrays and publishes the request count.

What is hard here: the unlocked thread data, a lock released by a thread that
does not hold it, wake-ups between a test and a sleep, stops that overtake jobs,
abort at any time, a queue whose elevator changes under a request, a disk removed
while it is in use, and arithmetic on sectors at the ends of ranges.
`PROJECT.json` lists the hazards one by one, each at its line.

What makes each part correct:

* hand-off and workers: a segment is verified once, what is verified is what was
  handed out, nobody sleeps while there is work for him, memory is freed after
  its last use, a round that started ends;
* main thread: "on" starts a round, the published count is final;
* strategies: a round that is not cut short covers its range, within the range,
  once, with no empty request, and stops at the request limit;
* sysfs: a store leaves behind values the next round can run with;
* statistics: what is published after a round was measured in that round;
* VERIFY: the command names the sectors asked for, no failure is taken for
  success, and the result is classified as documented;
* request queue: a request lives until its last user is done with it and no
  longer, counters agree with the requests they count, everybody who sleeps for a
  request is woken;
* life cycle: references balance on every path, nobody uses a freed disk, a
  removal ends;
* user-level scrubber: a scan covers the device once, and ends.

## 2. Modules

**`ScrubRound`** is the concurrency of one disk: main, up to `MaxThreads`
workers, and sysfs writers of `state`. One action is one step of a thread
between two points where another thread can observe it. Names follow the code:
`M...` are steps of `scrubber()`/`segread()`, `W...` of `kthread_segread()`,
`Store...` of `scrub_state_store()`. Variables are the fields of the same name;
`mtask`/`wtask` are `task->state` ("R" running, "I" interruptible).

* *Segments are jobs*, numbered in the order of the calls of `segread()`.
  `tdata[t].pos` and `.count` hold the number of the job whose value was stored
  last; 0 is the zeroed memory of a new round. `Chunks[j]` is the number of
  VERIFY requests of job `j`, and of zeroed memory (`Chunks[0]`). How many jobs a
  round has (`round.total`) is chosen when it starts; it stands for the capacity,
  the sizes, the strategy and `reqbound`, whose arithmetic is `ScrubPlan`'s.
* *Barrier.* `lock[t]` is tail minus head of the ticket lock, modulo `TicketMod`
  (256). `spin_trylock` succeeds at 0 and makes it 1. `spin_unlock` subtracts 1
  whether the lock is held or not. The build assumed is x86 SMP without
  `CONFIG_PREEMPT` and `CONFIG_DEBUG_SPINLOCK`.
* *Thread data.* The three stores of `segread()` are plain: nothing makes the
  compiler or another CPU see them in program order, so `MPrep` performs them in
  any order, interleaved with the worker. They are complete before the unlock.
* *Poll of the worker.* `segread()` waits until the worker's task state is not
  running: it sleeps at the barrier, or in a call (`MayBlock`: the request, a
  mutex). Main's own timeouts of 2 ms are stuttering steps.
* *`kthread_stop()`* sets a flag, wakes the worker and waits for its exit. A
  worker that never ran its function exits with `-EINTR` ("eintr"); the loop at
  751-761 then sleeps until woken, and calls it again.
* *Rounds repeat*: the state stays on after a round. `MFinish` resets what is
  dead after it (freed arrays, exited tasks), so the state space stays finite.

Assumed: `kthread_run()` and allocations succeed; the main thread is never
stopped (its only `kthread_stop()` is in a release function nothing reaches);
`reqcount` is not written through sysfs; every VERIFY request returns.

**`MCScrubRound`** gives `Chunks` a value for TLC: job 2 takes two requests.

**`WorkerPool`** is what the hand-off promises, without its mechanics: a pool of
workers is opened, a free worker takes a segment, begins it and completes it, the
pool stops and closes when nobody is in the middle of a segment. `ScrubRound`
instantiates it (`Pool`) with a refinement mapping: the pool is open while
`barrier[]` and `tdata[]` are allocated and main does not stop workers yet; a
worker's slot is "working" in its request loop, else "assigned" if its flag is
`TBUSY`, else "free". A worker that passes its barrier for nothing, the search for
an idle one and all sleeping and waking are stuttering steps of the pool. A
segment that was assigned and not begun may be lost in `Close`, as in the code.

**`ScrubPlan`** is the arithmetic of one round: the warm-up request, the range
and the conversion from kbytes in `scrubdev()`, the three strategies, and the
loop that cuts a segment into requests of at most 65535 (`MaxVerify`) sectors.
The parameters are what the sysfs stores can leave behind: any start and count,
sizes that are not 0, also those that wrap when they are doubled (553-554); one of
these, 2^63, becomes 0, and a staggered round that divides by it is the end of the
main thread (`StagDivides`). The hand-off is ideal (a segment is verified before
`segread()` returns). All arithmetic is modulo `Word`. Abort may be seen after
any segment. `covered` and `issued` are history variables that leave out the
warm-up request.

**`ScrubStats`** is what a round leaves in `reqcount`, `ttime_ms` and
`resptime_us`. `attr` are the fields of the disk's structure, `s` the round's
copies; the wall clock that `do_gettimeofday()` reads ticks (`Tick`) or is set back
(`SetBack`) at any time; times and counts are words that wrap; users write `timed`, `ttime_ms` and
`reqcount` between any two steps. The hand-off is reduced to two facts that
`ScrubRound` is about: `segread()` returns before the worker starts, and the
stop waits for requests in flight but may take away a job that was not started.
A strategy is "scan" (sequential or staggered, which treat the statistics alike)
or "fixed", which switches `s->timed` off and on around its first hand-off. A
worker's `va` that was never set holds any word (`DoneIf`). `last` and `cur` are
history variables: the true statistics of a round. **`MCScrubStats`** adds the
symmetry of the workers.

**`ScrubSysfs`** is all stores of `scrub.c`, one action each, under `sysfs_lock`
(so a store is one step). Numbers are parsed by what `simple_strtoull()` and
`(int) simple_strtol()` do, at the widths `Word` and `IntWord`. The capacity may
change between writes (`set_capacity()`). A write of an unknown name,
or of a switch's current value, changes nothing and is a stuttering step. The
wake-up of `state` = on is `ScrubRound`'s. A behaviour is about the writes to
one `group` of attributes. **`MCScrubSysfs`** gives the numbers written: around
the capacities, and around the limits of an int.

**`ScsiVerify`** is one call of `scsi_verify()` after the other: building the
command (`Build`), the range `sg_kern_io()` decodes from it for the queue
(`Queue`), and the decoding of the answer (`Complete`, or `NoMemory`). An answer
is the error of the ioctl, the three status bytes and the sense data; of the
latter the model has the fields the decoder reads and the number of bytes that
were transferred, since what lies behind them reads as 0. The format is one of the two
defined ones, reserved (response codes 0x74 to 0x7f, which the decoder takes for
descriptor format), or none. A byte has `Byte`
values.

**`SgKernIo`** is the request queue of the disk with the workers as callers. A
caller has at most one request, so a request goes by the name of its caller. Steps
are what runs under the queue lock, or between two takings of it: `GetRequest`
decides under the lock whether the request will have private data of the elevator,
`AllocRequest` (or `AllocFails`) sets them up without it, `Fill`, `Insert`, then
the queue's `Dispatch`, `Peek`, `Start`, `Requeue`, `Complete`, and the caller's
`Finish`. `where` is what the request is linked into. Beside them runs
`elevator_switch()`: `SwitchStart` and `SwitchRetry` drain the elevator and wait
for private data, `SwitchDone` ends it, and `SwitchFails`, `SwitchBack`,
`SwitchRestored` are its error path, in which the elevator that failed to register
is freed with what it holds ("lost"). Elevators are numbered as they are
allocated, so that a pointer to a past one can be told from the current one; which
order an elevator dispatches in is left open. `setby`, `active` and `skewed` are
history variables. A `VERIFY` transfers no data, so nothing is mapped; requests of
file systems, which share the queue, are left out. **`MCSgKernIo`** adds the symmetry of the callers.

**`ScrubLifecycle`** is one disk from `alloc_disk()` to the driver's last
`put_disk()`: `InitScrub` (with a `kthread_run()` that may fail, untested in the
code), `Register`/`RegisterOrphan` (`get_disk()` succeeds or not, `kobject_add()`
succeeds or not), users that enter and leave attributes, `Unregister` (nobody
enters any more) and `Remove` (wait for those inside, drop the references). Of the
main thread it keeps sleeping, waking and its looks at the disk. A user who
writes "on" without a main thread dies inside the store (`oops`), with
`sysfs_lock` held: others then never return.

**`SgScrubber`** is the user-level program: sizes in bytes become blocks, then
`seqscrub()`, `stgscrub()` or both run; any request may fail, and one that is not
supported ends the scan. The kernel's strategies descend from it, but it computes
the last segment and the cutting into requests differently. Its sizes are in blocks of
`st_blksize` bytes (`Block`), and go as they are into VERIFY(10), which takes logical
blocks (`Sector`) in 32 bits (`Addresses`): nothing converts them. Sizes may be
negative, as `*= 1024` may overflow (396, 404); a walk downwards is followed to
`-MaxBack`, and its overflow at the end of `off_t` is not. A division by zero is a
state ("crashed").

Each of these modules but `WorkerPool` has one with its proofs, named after it:
**`ScrubRoundProofs`** (with the refinement of `WorkerPool`), **`ScrubPlanProofs`**,
**`ScrubStatsProofs`**, **`ScrubSysfsProofs`**, **`ScsiVerifyProofs`**,
**`SgKernIoProofs`**, **`ScrubLifecycleProofs`**, **`SgScrubberProofs`**.

Definitions marked "Mutated form" in the modules are used by no specification.
Each is a small plausible bug of the definition that follows it; replacing the
one by the other makes TLC report the property named in `PROJECT.json`.

## 3. Runs

| Run | Configuration | Bounds | Shows |
|---|---|---|---|
| `handoff_safety` | `ScrubRoundSafety.cfg` | 2 workers, 2 jobs | all safety properties of the hand-off, and the refinement `PoolSpec` |
| `handoff_liveness` | `ScrubRoundLiveness.cfg` | 2 workers, 1 job, fair | `RoundEnds`, `StoppedWorkersExit`, `ParkedWorkerRuns` |
| `round_coverage` | `ScrubPlan.cfg` | disks of up to 7 sectors, sizes of 1, 2, 3, 15 and 16 kbytes in a word of 32, limit up to 2 | coverage and end of all strategies |
| `round_statistics` | `ScrubStats.cfg` | 2 workers, 2 rounds of 2 hand-offs, 2 times, a word of 5 | the published statistics |
| `sysfs_stores` | `ScrubSysfs.cfg` | 2 capacities, numbers around them and around an int of 5 bits | the values stores leave behind |
| `verify_command` | `ScsiVerify.cfg` | bytes of 4 values, all answers | the command and its answer |
| `verify_queue` | `SgKernIo.cfg` | 2 callers, 2 elevator switches, fair | references, counters, private data, progress |
| `life_cycle` | `ScrubLifecycle.cfg` | 2 users, fair | references, safe users, end of the removal |
| `user_scrubber` | `SgScrubber.cfg` | devices of up to 12 bytes in blocks of 2, sizes up to 9 | coverage and end of both scans |

Safety of the hand-off:

* `AvailableCounts`: `available`, plus main's claim in flight, plus the workers
  between storing `TIDLE` and `++available`, is the number of idle flags.
* `IdleFound`: the walk over `tdata[]` at 300 always has an idle worker to find
  among the threads of the round; otherwise it would spin for ever.
* `JobsConserved`: runs and busy workers add up to the hand-offs (no job is
  overwritten, no worker runs twice for one), and every segment handed out has been
  verified by the run of its own hand-off, is with a busy worker, or went to a worker
  that loaded `pos` and `count` before both were stored (`early`). The sum alone would
  not show the last case, in which a segment is verified again in place of another.
* `StaysInStep`: a worker that once waited at its lowered barrier passes it only when
  main has raised it, finds its segment stored, and comes back to a lowered barrier,
  until the round is stopped. So the stale loads can only hit a worker that has not
  waited yet; but such a worker can go on being hit, as each unlock leaves its lock
  free behind it, and nothing bounds the segments a round loses that way.
* `FreedWhenQuiet`: when `barrier[]` and `tdata[]` are freed no worker is left.
* `OverReleaseIsFinal`: an over-released barrier stays one release off, and its
  worker gets no further job.
* `NoLostWake`: a worker or main asleep with something to do is about to be woken.
* `WaitedLoadIsWhole`: a worker that waited at its barrier runs `pos` and `count`
  of one and the same hand-off.
* `PublishedCountStable`: no thread changes the published count between rounds.

Liveness (fair): `RoundEnds` (a round ends unless one of two races, below, hit),
`StoppedWorkersExit`, `ParkedWorkerRuns`.

Strategies: `Complete` (no holes), `InRange` (also: no empty request),
`VerifiedOnce`, `Terminates`. `InRange` and `VerifiedOnce` say under which parameters
they hold; outside of them the code does read out of range or twice. `Moderate` are
the sizes that do not wrap; `Complete` needs no such condition.

Statistics: `CountExact` (between rounds `reqcount` is the number of requests of
the last round, unless a user wrote it since), `ScanTimes` (the times of a
sequential or staggered round are bounded by what really passed, unless the clock was
set back meanwhile, and a round that started untimed leaves none, also when `timed` is
switched on while it runs), `TypeOK` (what is published are words, whatever the clock
and an unset `va` hold).

Stores: `SizesPositive` (no size becomes 0 on a disk with a medium; `stgscrub()`
divides by them), `RetrySucceeds` (the range tests look at the old value, but a
valid value written twice gets through), `TypeOK` (what `threads` may become
after the cut to an int).

VERIFY: `QueueMatchesRequest` (the elevator sorts by the range the drive was
given), `NoFalseSuccess` (a failed request counts as verified, however short the sense
data, exactly when they have a reserved response code and a 0 or 1 where the sense key
is read), `ClassifiedAsDocumented` (against the list above `sg_ll_verify10()`).

Request queue: `References` (a request has the references of its sleeping caller
and of the queue, and takes its bio along when it goes), `Counted` (`elvpriv`,
`in_flight`, `nr_sorted` and the elevators' own counts of activated requests agree
with where the requests are; an elevator's count is off only when a request without
private data was carried over to another elevator), `PrivateDataStays` (an elevator is
not switched under a request that has its private data), `NobodyWaitsForever`.

Life cycle: `DiskReferences`, `UsersAreSafe`, `RemovalEnds`. User-level scrubber:
`ScansExactly` (with sizes that fit, a scan verifies as many logical blocks as the
device has blocks of `st_blksize` bytes, each once, and never those behind),
`ExactOnlyIfFits` (a sequential scan does so with no other sizes), `RunEnds`.

Three runs are expected to be violated. Each states what a comment or a document
of the repository says, and TLC shows an execution of the code that does otherwise:

| Run | The text | What happens |
|---|---|---|
| `on_starts_round` | 604 "... endless loop of polling for signal to scrub" | "on" written between the test at 607 and line 794 is lost |
| `request_flow` | `Documentation/block/biodoc.txt` 999 "All requests seen by I/O schedulers strictly follow ..." | a request allocated during a switch goes to the new elevator without its `set_req_fn` |
| `round_limit` | 42 "The scrubbing request limit per round" (also `scrub.h` 45, `scrub.c` 134) | the limit is compared after the segment was read (386, 479): one request more than the limit; a segment of several requests counts as one |

Other places where the code does not do what a comment or a message says are
accounted for in the statement of a property that holds:

* main may release a barrier that its new worker has not taken yet (312); the
  worker then waits until it is stopped: `OverReleaseIsFinal` says that it stays at
  that, and `RoundEnds` excepts it (with one thread and segments left the scrubber
  hangs);
* a new worker may take its free lock alone, see `TBUSY` and load `pos` and
  `count` before they are stored (302-306), and find the lock free again after it:
  the condition of `WaitedLoadIsWhole` and `StaysInStep`, `early` in `JobsConserved`;
* `kobject_put()` is commented out (`scrub.c` 778), against `Documentation/kobject.txt`
  197 ("... will need to do a kobject_put() eventually"): the scrubber and its main
  thread outlive the disk; `UsersAreSafe` says that this at least is never freed under
  anybody;
* a worker stopped before it first ran returns `-EINTR` for ever, and main retries
  without end (751): the other exception of `RoundEnds`;
* `fixedscrub()` switches `timed` on between a worker's two tests of it (162, 166),
  which then adds a `va` that was never set: `ScanTimes` is about the scans;
* `get_disk()` may fail, and `put_disk()` is called nevertheless (`scrub.c` 754,
  781): the condition `taken # "failed"` of the life cycle's properties;
* without a main thread the first "on" kills its writer (`scrub.c` 100, 368): the
  exception of `RemovalEnds`;
* a main thread that was in a round when its disk was freed goes on: `late => awake`
  in `UsersAreSafe`;
* a request in an elevator that fails to register is lost (`elevator.c` 1065): the
  exception of `NobodyWaitsForever`;
* `sg_scrubber.c` says of a last segment "(read just those)" (207-209, 260-265) and
  reads `capacity - segment_size` blocks; a segment of several requests reads its
  first blocks again and again (129-132): `ExactOnlyIfFits` says that these are never
  harmless, but by chance for two segments; a size of 0 or less stalls or crashes:
  `Stalls`;
* `sg_scrubber.c` says that it "scrubs the whole device" (102-103), and verifies as
  many logical blocks as there are blocks of `st_blksize` bytes (304-306, 131-132), an
  eighth of the device for 4096 and 512: the last part of `ScansExactly`;
* the stop that ends a round may overtake a worker's last segment (129): a segment
  that is still with a busy worker in `JobsConserved` is not verified any more;
* a sequential round whose segment size doubles to 0 reads its first segment for ever:
  the exception of `Terminates`;
* `scrub_verify.c` 92 lists the response codes permitted ("0x70, 0x71, 0x72, 0x73"),
  and the mask at 112 lets 0x74 to 0x7f through: `Misread` in `NoFalseSuccess`;
* a segment larger than the device that starts past sector 0 is cut to the size
  of the device, not to what remains (380): the condition on `seg` in `InRange`;
* the warm-up request reads at `start + segsize`, kbytes taken for sectors (731),
  and is left out of `covered` and `issued`;
* a fixed round switches `timed` on although it started untimed (522), with `ta`
  still 0, so `ttime_ms` becomes the time since the epoch: `ScanTimes` is about the
  other strategies;
* times are read from a clock that may be set back (739, 769), and a negative
  difference is kept as a huge one: the other condition of `ScanTimes`;
* `reqcount` is not zeroed when a round starts (643): the sum in `CountExact`;
* the stores of the sizes and ranges test the old value (`scrub.c` 174, 200, 220,
  242): `RetrySucceeds` says what is left of the test;
* with no medium the correction of a size stores the capacity, 0 (`scrub.c` 201):
  the condition of `SizesPositive`;
* sector numbers from 2^32 on are cut (`scrub_verify.c` 447): the modulus in
  `QueueMatchesRequest`.

Without a property, as nothing can be said beyond the line itself: `get_disk()`
takes a module reference that `put_disk()` does not return (`modrefs` only grows);
`sg_scrubber` parses `--count` and ignores it, and its default segment is 2 MB
where the usage text says 1 MB.

### Bounds

`handoff_safety` runs rounds of one worker and of two. Two workers and two jobs
are enough for main to hand one worker two jobs in a row (a worker that ran
ahead of the hand-off against one that waits), to pick a worker that has not
announced itself while another has, and to stop one worker while another runs;
job 2 takes two requests, so a worker can also be stopped in its chunk loop. The
theorems below remove both bounds for the properties they name. The liveness
run is smaller since TLC explores the behaviour graph once per property; it has
rounds with one worker and with two, in both of which the last hand-off races with
the stop. That repeated hand-offs stay within the pool's rules is proved
(`RoundIsPool`).
`TicketMod` is the real 256: an over-released lock is at 255.

`ScrubPlan`: a VERIFY request takes at most 3 sectors and segments have 2, 4, 6, 30
or, wrapped, 0, so segments of less than, more than and exactly a multiple of one
request occur; disks of 0 to 7 sectors are smaller than, equal to, a multiple of, and
not a multiple of regions and segments; a start beyond the range is included
(then `capacity - start` wraps). `FixedEnd`, `FixedStep`, `FixedReqs` stand for
40000000, 400000 and 50. `Word` = 32 is large enough that with the three small sizes
no sum wraps that would not wrap in 64 bits for disks of real sizes, and small enough
that the staggered loop ends after a wrap; in 64 bits it would take up to
2^64 / regsize turns.

`ScrubStats`: two hand-offs are one request that starts before `timed` is
switched on and one after; two rounds are needed for anything left over from the
round before; two values of the clock and a word of 5 are enough for a difference to
wrap and for an average that is not an integer. `ScrubSysfs`: no store reads another attribute, so it is enough to
interleave the writes to small groups of them. `ScsiVerify`: with bytes of 4 values the
sectors include 0, the largest a command can name, and larger ones; the lengths
of the sense data are the ones at which a test of the decoder changes its
result, and one on each side.

`SgKernIo`: two callers are one that holds private data while the other comes
during the switch; two switches are one that succeeds followed by one that fails,
so that a request can cross an elevator and a later switch can wait for it. TLC does not
check deadlock here: when both requests were lost in a failed switch and the bound
on elevators is used up nothing can happen any more. `ScrubLifecycle` may stop too:
the disk is gone and the main thread asleep. `SgScrubber`: devices of -1 (`lseek()`
failed) and 0 to 6 blocks, of which VERIFY can address 5, segments and regions of -4
to 5 blocks, requests of 3; two logical blocks make a block.

### Fairness

`FairSpec` of `ScrubRound` gives weak fairness to main and to each worker: the
kernel schedules every runnable task, timeouts expire, and the SCSI layer
completes or times out every request. Sysfs writers are not fair. Sleeping is
not hidden by fairness: a step past `schedule()` is enabled only once the task
state is "R". `ScrubPlan` and `SgScrubber` are one thread.

`SgKernIo` has weak fairness for each step of a caller, of the queue and of a
switch that has begun, and strong fairness for `Complete`: a request may be requeued
again and again, but the SCSI layer bounds the time for retries, after which it
completes the request with an error. Nothing is assumed about allocation: a caller
may fail to get a request for ever, and the switch still ends. `ScrubLifecycle` has
weak fairness for what the driver has begun, for calls of attributes to return and
for the main thread; nobody has to remove a disk.

## 4. Proofs

Every safety property that a run checks, but one, is proved for every value of the
constants, and so is the refinement of `WorkerPool`. The invariants below were checked with TLC
on the bounds of section 3 before they were proved.

`ScrubRoundProofs` proves, for every number of workers, of jobs and of requests
per job (assumptions of the constants: `MaxThreads` >= 1, `TicketMod` > 2, every
job at least one request):

`TypeCorrect` (`TypeOK`), `AvailableCorrect` (`AvailableCounts`),
`ScanFindsIdle` (`IdleFound`), `JobsAreConserved` (`JobsConserved`),
`FreeIsSafe` (`FreedWhenQuiet`).

None of these is inductive alone. The inductive invariant `IInv` has four parts:

* `TypeInv`: `TypeOK`, and `CounterInv`: where main is about to decrement
  `available` it has seen it non-zero (and nobody else decrements it), where it
  is about to call `segread()` jobs are left, and a worker about to issue a
  request has one left;
* `RosterInv`: which workers exist: none between rounds (`FreedWhenQuiet`), none
  outside the threads of the round, none from `tc` on while main still creates,
  only exited ones below `tc` while it stops them;
* `StateInv`: the flag a worker's place implies: `TINIT` before its function
  runs, `TBUSY` in its requests (elsewhere main may change it under the worker);
  and the worker main is about to mark busy is still idle;
* `CountInv`: `AvailableCounts` and the sum of `JobsConserved` (`RunsCounted`).

The counting argument: every step moves at most one worker between the sets
`Idle`, `Busy` and `Announcing`, and changes the counters by the same amount;
lemmas on adding and removing one element of a finite set do the arithmetic, and
the steps that move no worker are dealt with together. `IdleFound` follows from `AvailableCounts`:
main's claim is one idle flag more than what the others account for.

For the segments themselves (`SegmentsKept`), `JobInv` adds what main has stored of the
job in hand and that `pos` and `count` of every other busy worker belong together
(`StoreInv`), and that a worker at work has loaded its own job or its job is in `early`
(`LoadInv`).

Its second part proves `OverReleaseStays` (`OverReleaseIsFinal`), `WakesArrive`
(`NoLostWake`), `LoadsAreWhole` (`WaitedLoadIsWhole`), `WorkersStayInStep`
(`StaysInStep`) and `CountIsFinal` (`PublishedCountStable`). The invariant `BInv` strengthens `IInv` by:

* `StopInv`: workers are stopped only while main stops them, and who exited was;
* `LockInv`: a lock is free, held, or one release off; while main hands a segment
  to a worker its lock is not over-released; a worker past its barrier without a
  segment holds the lock; and a worker main has marked busy whose lock is free has
  not passed. These say at which of the two points, trylock or unlock, a
  hand-off comes first, which is all that decides its outcome;
* `WakeInv`, `MainWakeInv`: the two halves of `NoLostWake`, extended to the sleeper
  that has tested its condition but is not asleep yet;
* `WaitedLoadIsWhole` itself.

`StaysInStep` is then about single steps from such states: `InStep` names the three
stages of a regular hand-off, and each action of main and of a worker moves a worker
in step to the next one or leaves it where it is.

The third part proves `RoundIsPool`: `Spec => PoolSpec`. Its step lemmas
sort the actions into those that the pool does not see and the six it does
(`MStartRound` opens, `MPrep` storing `TBUSY` takes, `WSwitch` begins, the last
`WAccount` completes, the steps into "stop" stop, `MFinish` closes); `StateInv` and
`RosterInv` supply that a worker given a segment had none, and that nobody works
when the arrays are freed.

`SgKernIoProofs` proves, for any finite set of callers and any number of switches,
`ReferencesAreHeld` (`References`), `ElevatorStays` (`PrivateDataStays`),
`QueueCountsExact` (`Counted`) and `QueueTypes` (`TypeOK`). The
invariant ties a request's place to its caller's (`PlaceInv`: it is with the queue
exactly while the caller sleeps uncompleted, and marked sorted from the insertion
on), counts references by holder (`RefInv`), and has `elvpriv` equal to the number
of requests with private data (`PrivInv`): that is what makes the test of one
counter in `elv_quiesce_start()` enough to change the elevator. For the other
counters, `CountInv` has each equal to the cardinality of the set of requests it
counts (`FlyingInv`, `QueuedInv`, `DriverInv`); to keep the count of one elevator
right, it has to know that a request is activated in some elevator exactly while it
is started (`ActiveInv`), and that elevators are allocated ones (`ElevatorInv`). A type invariant
of natural numbers then follows: no counter is decremented for a request it has not
counted.

`ScrubLifecycleProofs` proves, for any set of users, `ReferencesBalance`
(`DiskReferences`) and `UsersStaySafe` (`UsersAreSafe`). The invariant says how far
the reference of `get_disk()` has come at each stage of the driver (`StageInv`),
when users can be inside (`InsideInv`), and what the main thread may know of a freed
disk (`FreedInv`).

`ScrubSysfsProofs` proves, for every width of the integers (`Word` > 6 and an even
`IntWord` > 2, so that the defaults fit), every set of capacities and every
number written: `AttributesLegal` (`TypeOK`), `SizesStayPositive`
(`SizesPositive`) and `RetryWorks` (`RetrySucceeds`). `TypeOK` is inductive once
the parsers are known to return a `uint64_t` and an int (two lemmas on `%`).
`RetrySucceeds` is not: `RetryInv` adds that after the first write of a valid
value the attribute is on the disk again, which is what makes the second write
pass the test of the old value.

`ScrubPlanProofs` proves, for every disk, segment, region, start, limit and size of
a request (assumption: the disk is smaller than the largest number of a word):
`PlanTypes` (`TypeOK`), `RoundIsComplete` (`Complete`, for moderate sizes; for those
that wrap it is only model-checked), `RequestsInRange` (`InRange`) and
`SectorsVerifiedOnce` (`VerifiedOnce`). The types hold for all sizes. For the others
the sizes are moderate, and the invariant has three parts:

* `BaseInv`, for all strategies: `PhaseInv` (which strategy runs at which step),
  `SegmentInv` (the segment in hand begins in the range, stays in it unless it is
  larger than the device, is whole unless it reaches the end, and what is left of it
  are its last sectors);
* `SeqInv`: a sequential round has verified exactly what lies between the start and
  its position;
* `StagInv`: a staggered round has verified what its two loop counters have passed.
  `Place(i, j)` is where segment i of region j begins; `PassedInv` says that the places
  before the counters are verified, `PartInv` how much of the present one is,
  `HandInv` that the segment in hand is that place, and `OnlyInv` that nothing else is.
  That every sector has a place, and only one when segments divide the region, are the
  lemmas `EverySectorHasPlace` and `PlacesDisjoint`, from facts about quotients.

`ScrubStatsProofs` proves, for any finite set of workers and any number of hand-offs,
rounds and clock values, whatever an unset `va` holds and however the clock is set back
(assumption: a round has fewer requests than half the numbers of a word): `StatsTypes`
(`TypeOK`), `ReqcountExact` (`CountExact`) and `TimesAreMeasured` (`ScanTimes`). `QuietInv` (no worker has a job outside the scan)
is what the order of `kthread_stop()` and the publication gives; `CountInv` has the
workers that executed a request and have not counted it; `TimeInv` has the sum of the
response times below the number of requests times the longest, for the round that
runs, and the readings `va` equal to the true start of each request: true because a
scanning round never changes `s->timed`.

`ScsiVerifyProofs` proves, for every width of a byte, every sector and every count:
`VerifyTypes` (`TypeOK`), `QueueSortsTheRange` (`QueueMatchesRequest`),
`FailuresAreReported` (`NoFalseSuccess`) and `CategoriesAreDocumented`
(`ClassifiedAsDocumented`). The first two rest on lemmas about quotients of quotients
(`Divided`, `FourBytes`, `TwoBytes`). For the others it is enough that the result is
computed from the answer (`ResultInv`); `SenseDecoding` and `SuccessHasKey` are about
the decoder alone, for sense data of any length with any values in their fields
(`AnySense`), not only for those that TLC enumerates. What is assumed of the drive is
that one that is busy sends no sense data: the code would believe them.

`SgScrubberProofs` proves `ScansAreExact` (`ScansExactly`), for devices, segments,
regions, blocks and logical blocks of any size. `SeqInv` says that what lies before the position is
verified; `StagInv` that `Staggered(s, r)` is: the first s segments of every region
and the next one of the first r regions. `NextSegmentIsNew` and `RegionsDone` are the
two steps of that loop nest, `ScanBounds` its beginning and end.

Only model-checked: the liveness properties (`RoundEnds`, `StoppedWorkersExit`,
`ParkedWorkerRuns`, `Terminates`, `NobodyWaitsForever`, `RemovalEnds`, `RunEnds`),
which are out of the prover's reach; `ExactOnlyIfFits`, whose converse half is about
sums over all segments of a scan; `Complete` for sizes that wrap; and the three runs
that are violated.

## 5. Not modelled

Verbose output, error counting (only logged), I/O priorities (`set_task_ioprio`;
the priority test at 252 is always true), `delayms` as a duration, failing
allocations and `kthread_run()` in a round, the flag byte of the command and the
reported sector of a medium error (only printed), the formatting of the shows.
The flags `dpo` and `vrprotect` are read from the live structure, not from the
round's copies; nothing in the repository says which is meant. A `kthread_run()`
that fails in a round leaves an error pointer that the next loop dereferences. The
tear-down of a request queue, and when a task structure is freed, are Linux's. The
evaluation programs and scripts are measurement tools and stay out. The rest of
Linux 2.6.35 and of sg3_utils, nearly all lines of the repository, is third-party
code; of it the modules have what the scrubber's code touches.

## 6. Plan

Done: all parts of the scrubber have a module, the hand-off an abstract
specification it is proved to implement, and all safety properties but one are proved.
Next:

1. What can be proved of progress without fairness: that each turn of the loops of
   `SgScrubber` and `ScrubPlan` gets closer to their end.
2. `ScrubSystem`: `ScrubPlan`'s choice of segments composed with `WorkerPool`, to
   state coverage end to end, up to the segments loaded early or stopped.
3. A proof of `ExactOnlyIfFits`, and of `Complete` for sizes that wrap.
