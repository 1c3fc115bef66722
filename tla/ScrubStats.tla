----------------------------- MODULE ScrubStats -----------------------------
(***************************************************************************)
(* The statistics of a scrubbing round: the request count, the time of the *)
(* round and the response time, from the clock readings of main and of the *)
(* workers to the sysfs attributes "reqcount", "ttime_ms", "resptime_us"   *)
(* and "timed".                                                            *)
(*                                                                         *)
(* The hand-off is the one ScrubRound is about, reduced to what matters    *)
(* here: segread() returns before the worker runs, and a stop may take a   *)
(* job away from a worker that has not started it.  Times are in one unit, *)
(* and, like the counters, they are unsigned words that wrap.              *)
(***************************************************************************)
EXTENDS Integers, FiniteSetsExt

CONSTANTS
    Workers,     \* the worker threads
    Epoch,       \* time at the start, counted from the epoch of the clock
    MaxClock,    \* bound on the time
    Word,        \* 2^64: the values of a uint64_t
    MaxHandoffs, \* bound on the calls of segread() in a round
    MaxRounds,   \* bound on the number of rounds
    Writes       \* values that a user writes into reqcount and ttime_ms

ASSUME WorkersAssumption == IsFiniteSet(Workers)
ASSUME ClockAssumption ==
    Epoch \in Nat \ {0} /\ MaxClock \in Nat /\ Epoch <= MaxClock
\* A round has fewer than 2^63 requests.
ASSUME BoundAssumption ==
    /\ MaxHandoffs \in Nat /\ MaxRounds \in Nat /\ Word \in Nat
    /\ 2 * MaxHandoffs < Word
ASSUME WritesAssumption == Writes \subseteq 0..(Word - 1)

Words == 0..(Word - 1)
Times == 0..MaxClock
Unset == -1   \* a timeval that was never assigned

VARIABLES
    attr,      \* the attributes: timed, ttime, resp, reqcount
    s,         \* the fields of s they are copied to and computed in
    strategy,  \* "scan" (sequential or staggered) or "fixed"
    mpc,       \* where main is
    ta,        \* its local ta
    handed,    \* calls of segread() in this round
    wpc,       \* where a worker is
    va,        \* its local va
    now,       \* the clock
    rounds,    \* rounds started so far
    last,      \* history: what the last round was, and its true statistics
    cur,       \* history: the same for the round that runs
    begun,     \* history: when a worker's request was sent
    written    \* history: attributes written by a user after the scrubber did

main    == <<strategy, mpc, ta, handed, rounds>>
workers == <<wpc, va, begun>>
hist    == <<last, cur, written>>
vars    == <<attr, s, main, workers, now, hist>>

\* A round's true statistics: whether it was timed, its strategy, the
\* requests it executed, whether the clock was set back meanwhile and, of the
\* rounds a property is about, when it started and how long it and its longest
\* request took.
NoRound == [timed |-> FALSE, strategy |-> "scan", reqs |-> 0, start |-> 0,
            length |-> 0, longest |-> 0, back |-> FALSE]

Measured(r) == r.timed /\ r.strategy = "scan" /\ ~r.back

Zero == [timed |-> FALSE, ttime |-> 0, resp |-> 0, reqcount |-> 0]

Init ==
    /\ attr = Zero /\ s = Zero
    /\ strategy = "scan" /\ mpc = "poll" /\ ta = 0 /\ handed = 0
    /\ wpc = [w \in Workers |-> "idle"]
    /\ va = [w \in Workers |-> Unset]
    /\ begun = [w \in Workers |-> 0]
    /\ now = Epoch /\ rounds = 0
    /\ last = NoRound /\ cur = NoRound
    /\ written = {}

-----------------------------------------------------------------------------
(* The stores, under sysfs_lock.                                            *)

\* A write of the current value is refused.
StoreTimed ==
    /\ attr' = [attr EXCEPT !.timed = ~@]
    /\ UNCHANGED <<s, main, workers, now, hist>>

StoreTtime ==
    /\ \E v \in Writes : attr' = [attr EXCEPT !.ttime = v]
    /\ written' = written \cup {"ttime"}
    /\ UNCHANGED <<s, main, workers, now, last, cur>>

StoreReqcount ==
    /\ \E v \in Writes : attr' = [attr EXCEPT !.reqcount = v]
    /\ written' = written \cup {"reqcount"}
    /\ UNCHANGED <<s, main, workers, now, last, cur>>

\* Time passes.
Tick ==
    /\ now < MaxClock
    /\ now' = now + 1
    /\ UNCHANGED <<attr, s, main, workers, hist>>

\* The wall clock is set back: do_gettimeofday() reads no monotonic clock.
SetBack ==
    /\ now' \in Epoch..(now - 1)
    /\ cur' = IF mpc = "poll" THEN cur
              ELSE [cur EXCEPT !.back = TRUE, !.start = 0, !.longest = 0]
    /\ begun' = [w \in Workers |-> 0]
    /\ UNCHANGED <<attr, s, main, wpc, va, last, written>>

-----------------------------------------------------------------------------
(* scrubber()                                                               *)

MainStep(from, to) == mpc = from /\ mpc' = to

\* Copy the attributes, under sysfs_lock.
MCopy ==
    /\ MainStep("poll", "zero")
    /\ rounds < MaxRounds /\ rounds' = rounds + 1
    /\ strategy' \in {"scan", "fixed"}
    /\ s' = [s EXCEPT !.timed = attr.timed]
    /\ cur' = [NoRound EXCEPT !.timed = attr.timed, !.strategy = strategy',
           !.start = IF attr.timed /\ strategy' = "scan" THEN now ELSE 0]
    /\ UNCHANGED <<attr, ta, handed, workers, now, last, written>>

\* Zero the counters, without the lock. reqcount of the disk keeps its value.
MZero ==
    /\ MainStep("zero", "warmup")
    /\ attr' = [attr EXCEPT !.ttime = 0, !.resp = 0]
    /\ s' = [s EXCEPT !.ttime = 0, !.resp = 0, !.reqcount = 0]
    /\ written' = written \ {"ttime"}
    /\ UNCHANGED <<strategy, ta, handed, rounds, workers, now, last, cur>>

\* segread(): give the next request to a worker, and come back.
Handoff(from, to) ==
    /\ MainStep(from, to)
    /\ handed < MaxHandoffs /\ handed' = handed + 1
    /\ \E w \in Workers :
          wpc[w] = "idle" /\ wpc' = [wpc EXCEPT ![w] = "handed"]
    /\ UNCHANGED <<attr, s, strategy, ta, rounds, va, begun, now, hist>>

\* The warm-up request is left out if the range is shorter than a segment.
MWarmup == Handoff("warmup", "stamp")

MNoWarmup ==
    /\ MainStep("warmup", "stamp")
    /\ UNCHANGED <<attr, s, strategy, ta, handed, rounds, workers, now, hist>>

StampAs(time) ==
    /\ MainStep("stamp", strategy)
    /\ ta' = time
    /\ UNCHANGED <<attr, s, strategy, handed, rounds, workers, now, hist>>

\* ta is zeroed, and set if the round is timed.
MStamp == StampAs(IF s.timed THEN now ELSE 0)

\* seqscrub(), stgscrub() and the loop of fixedscrub().
MSegment == Handoff("scan", "scan")

\* fixedscrub() gives up on a small device, or switches timing off for its
\* first request and on after handing it over.
MTooSmall ==
    /\ MainStep("fixed", "stop")
    /\ UNCHANGED <<attr, s, strategy, ta, handed, rounds, workers, now, hist>>

SetTimed(from, to, value) ==
    /\ MainStep(from, to)
    /\ s' = [s EXCEPT !.timed = value]
    /\ UNCHANGED <<attr, strategy, ta, handed, rounds, workers, now, hist>>

MTimedOff == SetTimed("fixed", "first", FALSE)
MFirst    == Handoff("first", "timedon")
MTimedOn  == SetTimed("timedon", "scan", TRUE)

\* The strategy returns.
MReturn ==
    /\ MainStep("scan", "stop")
    /\ UNCHANGED <<attr, s, strategy, ta, handed, rounds, workers, now, hist>>

\* kthread_stop() of every worker: a request that was sent is waited for, a
\* job that was not started is dropped.
MStop ==
    /\ MainStep("stop", "record")
    /\ \A w \in Workers : wpc[w] \in {"idle", "handed"}
    /\ wpc' = [w \in Workers |-> "idle"]
    /\ UNCHANGED <<attr, s, strategy, ta, handed, rounds, va, begun, now, hist>>

\* Mutated form: the difference is kept in a signed field.
RoundTimeSigned == now - ta

\* The difference is signed, the field it goes to is not.
RoundTime == (now - ta) % Word

\* Scrubbing finished: stop recording.
MRecord ==
    /\ MainStep("record", "publish")
    /\ s' = IF s.timed THEN [s EXCEPT !.ttime = RoundTime] ELSE s
    /\ UNCHANGED <<attr, strategy, ta, handed, rounds, workers, now, hist>>

\* Update the attributes, under sysfs_lock, with the given count and average.
\* What is dead from here on gets its initial value back.
PublishAs(count, average) ==
    /\ MainStep("publish", "poll")
    /\ attr' = [attr EXCEPT
                  !.ttime = IF s.ttime # 0 THEN s.ttime ELSE @,
                  !.resp = IF s.reqcount # 0 THEN average ELSE @,
                  !.reqcount = count]
    /\ written' = written \ (IF s.ttime # 0 THEN {"ttime", "reqcount"}
                             ELSE {"reqcount"})
    /\ last' = [cur EXCEPT !.start = 0,
                           !.length = IF Measured(cur) THEN now - cur.start ELSE 0]
    /\ cur' = NoRound
    /\ s' = Zero /\ strategy' = "scan" /\ ta' = 0 /\ handed' = 0
    /\ va' = [w \in Workers |-> Unset]
    /\ UNCHANGED <<rounds, wpc, begun, now>>

Average == IF s.reqcount = 0 THEN 0 ELSE s.resp \div s.reqcount

\* Mutated form: the running count is left as it is.
MPublishNoCount == PublishAs(attr.reqcount, Average)

MPublish == PublishAs(s.reqcount, Average)

-----------------------------------------------------------------------------
(* kthread_segread(): one request of worker w.                              *)

WorkerStep(w, from, to) == wpc[w] = from /\ wpc' = [wpc EXCEPT ![w] = to]

WStart(w) ==
    /\ WorkerStep(w, "handed", "verify")
    /\ va' = IF s.timed THEN [va EXCEPT ![w] = now] ELSE va
    /\ begun' = IF Measured(cur) THEN [begun EXCEPT ![w] = now] ELSE begun
    /\ UNCHANGED <<attr, s, main, now, hist>>

\* scsi_verify() returns; if timing is on, the time since va is added. If va was
\* never set it holds anything, and so does the sum from then on.
DoneIf(w, timed) ==
    /\ WorkerStep(w, "verify", "count")
    /\ \E t \in IF va[w] = Unset THEN Words ELSE {va[w]} :
         s' = IF timed THEN [s EXCEPT !.resp = (@ + (now - t)) % Word] ELSE s
    /\ cur' = [cur EXCEPT !.reqs = @ + 1,
                          !.longest = IF Measured(cur)
                                      THEN Max({@, now - begun[w]}) ELSE 0]
    /\ begun' = [begun EXCEPT ![w] = 0]
    /\ UNCHANGED <<attr, main, va, now, last, written>>

\* Mutated form: the worker looks at the attribute, not at the round's copy.
WDoneLive(w) == DoneIf(w, attr.timed)

WDone(w) == DoneIf(w, s.timed)

\* Count the request twice, under sysfs_lock.
WCount(w) ==
    /\ WorkerStep(w, "count", "idle")
    /\ s' = [s EXCEPT !.reqcount = (@ + 1) % Word]
    /\ attr' = [attr EXCEPT !.reqcount = (@ + 1) % Word]
    /\ UNCHANGED <<main, va, begun, now, hist>>

-----------------------------------------------------------------------------
Next ==
    \/ StoreTimed \/ StoreTtime \/ StoreReqcount \/ Tick \/ SetBack
    \/ MCopy \/ MZero \/ MWarmup \/ MNoWarmup \/ MStamp \/ MSegment
    \/ MTooSmall \/ MTimedOff \/ MFirst \/ MTimedOn \/ MReturn
    \/ MStop \/ MRecord \/ MPublish
    \/ \E w \in Workers : WStart(w) \/ WDone(w) \/ WCount(w)

Spec == Init /\ [][Next]_vars

-----------------------------------------------------------------------------
\* The type of every variable: what is kept and published are words, whatever
\* the clock and the stack of a worker hold.
TypeOK ==
    /\ {attr, s} \subseteq
         [timed: BOOLEAN, ttime: Words, resp: Words, reqcount: Words]
    /\ strategy \in {"scan", "fixed"}
    /\ mpc \in {"poll", "zero", "warmup", "stamp", "scan", "fixed", "first",
                "timedon", "stop", "record", "publish"}
    /\ ta \in Times /\ now \in Epoch..MaxClock
    /\ handed \in 0..MaxHandoffs /\ rounds \in 0..MaxRounds
    /\ wpc \in [Workers -> {"idle", "handed", "verify", "count"}]
    /\ va \in [Workers -> {Unset} \cup Times]
    /\ begun \in [Workers -> Times]
    /\ written \subseteq {"ttime", "reqcount"}

\* Unless a user has written it since, reqcount is the number of requests the
\* last round executed, plus, while a round runs, those of this one: between
\* rounds it is exact, and what users wrote during a round is gone after it.
CountExact ==
    "reqcount" \notin written => attr.reqcount = last.reqs + s.reqcount

\* What a sequential or staggered round leaves behind is measured, whatever is
\* written to "timed" while it runs: no times at all if it was not timed when it
\* started; if it was, and the clock was not set back, a time that is no longer
\* than the round and an average that is no longer than its longest request.
\* (fixedscrub() switches timing on while a request may be in flight, and can
\* add a time that was not measured.)
ScanTimes ==
    mpc = "poll" /\ last.strategy = "scan" /\ ~(last.timed /\ last.back) =>
       /\ attr.resp <= last.longest
       /\ "ttime" \notin written => attr.ttime <= last.length

=============================================================================
