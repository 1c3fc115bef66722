------------------------------ MODULE ScrubPlan ------------------------------
(***************************************************************************)
(* Which sectors one scrubbing round asks the drive to verify: the warm-up *)
(* request of scrubber(), the choice of the range in scrubdev(), the three *)
(* strategies seqscrub(), stgscrub() and fixedscrub(), and the loop of     *)
(* kthread_segread() that cuts a segment into VERIFY requests.             *)
(*                                                                         *)
(* The hand-off of a segment to a worker is ideal here: segread() runs the *)
(* worker's loop to its end before it returns.  ScrubRound is about the    *)
(* hand-off.  Positions and sizes are uint64_t: arithmetic is modulo Word. *)
(***************************************************************************)
EXTENDS Integers

CONSTANTS
    Word,       \* number of values of a uint64_t
    MaxVerify,  \* most sectors of one VERIFY request (65535)
    MaxDev,     \* bound on get_capacity(), in sectors
    Points,     \* values of spoint and scount
    Sizes,      \* values of segsize and regsize, in kbytes
    MaxBound,   \* bound on reqbound
    FixedEnd,   \* 40000000: the last position of fixedscrub()
    FixedStep,  \* 400000
    FixedReqs   \* 50

\* Disks are smaller than the largest uint64_t.
ASSUME WordAssumption ==
    Word \in Nat /\ MaxDev < Word /\ MaxBound < Word
ASSUME BoundsAssumption ==
    /\ MaxDev \in Nat /\ MaxBound \in Nat
    /\ Points \subseteq 0..(Word - 1) /\ Sizes \subseteq 1..(Word - 1)
    /\ MaxVerify \in Nat \ {0}
    /\ FixedEnd \in Nat /\ FixedStep \in Nat /\ FixedReqs \in Nat
    /\ FixedReqs * FixedStep <= FixedEnd /\ FixedEnd < Word

Strategies == {"seql", "stag", "fixed"}

\* The sysfs attributes as scrubber() copies them, and the size of the disk.
\* The stores of segsize and regsize refuse 0 and nothing else; those of spoint
\* and scount accept any value (they test the old one).
Params == [dev: 0..MaxDev, start: Points, scount: Points,
           segsize: Sizes, regsize: Sizes, reqbound: 0..MaxBound,
           strategy: Strategies]

VARIABLES
    p,         \* the parameters
    pc,        \* where the round is
    ret,       \* where segread() returns to
    capacity,  \* s->capacity after scrubdev(): the end of the range
    seg,       \* s->segsize after scrubdev(), in sectors
    reg,       \* s->regsize after scrubdev(), in sectors
    pos, num,  \* locals of the strategies: the segment
    sn, rn,    \* of stgscrub(); sn is also i of fixedscrub()
    reqs,      \* local reqcount of the strategies
    cpos,      \* locals pos and count of kthread_segread()
    ccount,
    covered,   \* history: sectors verified, warm-up excluded
    issued,    \* history: VERIFY requests of a round with a limit, warm-up
               \* excluded
    why        \* history: what ended the round

range == <<p, capacity, seg, reg>>
loop  == <<pos, num, sn, rn>>
hist  == <<covered, issued>>
vars  == <<range, pc, ret, loop, reqs, cpos, ccount, hist, why>>

W(x) == x % Word

\* Mutated form: the quotient rounded down.
lfloor(whole, part) == whole \div part

\* lceil(): the quotient rounded up.
lceil(whole, part) ==
    IF whole % part = 0 THEN whole \div part ELSE W(1 + whole \div part)

Init ==
    /\ p \in Params
    /\ pc = "warmup"
    /\ ret = "scrubdev"
    /\ capacity = 0 /\ seg = 0 /\ reg = 0
    /\ pos = 0 /\ num = 0 /\ sn = 0 /\ rn = 0 /\ reqs = 0
    /\ cpos = 0 /\ ccount = 0
    /\ covered = {}
    /\ issued = 0
    /\ why = "none"

\* Call segread(at, count), to come back to the given place.
Segread(at, count, back) ==
    /\ pc' = "chunk"
    /\ ret' = back
    /\ cpos' = at
    /\ ccount' = count
    /\ UNCHANGED hist

-----------------------------------------------------------------------------
\* scrubber(): the warm-up request, before the sizes are converted to sectors.
Warmup ==
    /\ pc = "warmup"
    /\ \/ /\ p.scount # 0 /\ p.scount < p.segsize
          /\ pc' = "scrubdev"
          /\ UNCHANGED <<ret, cpos, ccount, hist>>
       \/ /\ p.scount = 0 \/ p.scount >= p.segsize
          /\ Segread(W(p.start + p.segsize), p.segsize, "scrubdev")
    /\ UNCHANGED <<range, loop, reqs, why>>

\* Mutated form: the requested range is not clipped to the disk.
RangeEndUnclipped ==
    IF p.scount = 0 THEN p.dev ELSE W(p.start + p.scount)

\* Where the range ends: the whole disk, or scount sectors if they fit.
RangeEnd ==
    IF p.scount = 0 \/ W(p.start + p.scount) > p.dev
    THEN p.dev ELSE W(p.start + p.scount)

\* scrubdev(): fix the range, convert the sizes, start the strategy.
Scrubdev ==
    /\ pc = "scrubdev"
    /\ capacity' = RangeEnd
    /\ seg' = W(p.segsize * 2)
    /\ reg' = W(p.regsize * 2)
    /\ pos' = p.start
    /\ sn' = 0 /\ rn' = 0
    /\ pc' = p.strategy
    /\ UNCHANGED <<p, ret, num, reqs, cpos, ccount, hist, why>>

\* Mutated form: the last segment is as long as the others.
SegLenWhole(x) == seg

\* Length of the segment at x, in both scanning strategies.
SegLen(x) ==
    IF W(x + seg) > capacity
    THEN IF seg > capacity THEN capacity ELSE W(capacity - x)
    ELSE seg

\* A strategy returns.
Return(reason) == pc' = "done" /\ why' = reason

OverBound(n) == n > p.reqbound

\* After each segment both scanning strategies look at the abort state (which
\* sysfs may set and clear at any time), then count the request.
Bails ==
    \/ Return("abort") /\ reqs' = reqs
    \/ /\ p.reqbound # 0 /\ OverBound(W(reqs + 1))
       /\ Return("bound") /\ reqs' = W(reqs + 1)

GoesOn(next) ==
    /\ \/ p.reqbound = 0 /\ reqs' = reqs
       \/ /\ p.reqbound # 0 /\ ~OverBound(W(reqs + 1))
          /\ reqs' = W(reqs + 1)
    /\ pc' = next
    /\ why' = why

-----------------------------------------------------------------------------
(* seqscrub()                                                               *)

SeqEnd ==
    /\ pc = "seql" /\ pos >= capacity
    /\ Return("end")
    /\ UNCHANGED <<range, ret, loop, reqs, cpos, ccount, hist>>

SeqSegment ==
    /\ pc = "seql" /\ pos < capacity
    /\ num' = SegLen(pos)
    /\ Segread(pos, num', "seqlnext")
    /\ UNCHANGED <<range, pos, sn, rn, reqs, why>>

\* Mutated form: the walk does not advance.
SeqAdvanceStay == pos

\* Mutated form: the walk steps back over the last sector read.
SeqAdvanceShort == W(pos + num - 1)

SeqAdvance == W(pos + num)

SeqNext ==
    /\ pc = "seqlnext"
    /\ \/ Bails /\ pos' = pos
       \/ GoesOn("seql") /\ pos' = SeqAdvance
    /\ UNCHANGED <<range, ret, num, sn, rn, cpos, ccount, hist>>

-----------------------------------------------------------------------------
(* stgscrub(): the sn-th segment of every region, for every sn.             *)

\* lceil() divides by regsize, then by segsize: a size whose double is 0 modulo
\* Word is a division by zero in the kernel, and the end of the main thread.
StagDivides ==
    /\ pc = "stag" /\ (reg = 0 \/ seg = 0)
    /\ Return("oops")
    /\ UNCHANGED <<range, ret, loop, reqs, cpos, ccount, hist>>

\* The loops have their bounds.
StagLoop == pc = "stag" /\ reg # 0 /\ seg # 0

regnum == lceil(W(capacity - p.start), reg)
segnum == lceil(reg, seg)
StagPos == W(p.start + rn * reg + sn * seg)

StagEnd ==
    /\ StagLoop /\ sn >= segnum
    /\ Return("end")
    /\ UNCHANGED <<range, ret, loop, reqs, cpos, ccount, hist>>

StagNextSegment ==
    /\ StagLoop /\ sn < segnum /\ rn >= regnum
    /\ sn' = sn + 1 /\ rn' = 0
    /\ UNCHANGED <<range, pc, ret, pos, num, reqs, cpos, ccount, hist, why>>

StagSegment ==
    /\ StagLoop /\ sn < segnum /\ rn < regnum
    /\ pos' = StagPos
    /\ \/ /\ pos' < capacity
          /\ num' = SegLen(pos')
          /\ Segread(pos', num', "stagnext")
          /\ rn' = rn
       \/ /\ pos' >= capacity
          /\ rn' = rn + 1
          /\ UNCHANGED <<num, pc, ret, cpos, ccount, hist>>
    /\ UNCHANGED <<range, sn, reqs, why>>

StagNext ==
    /\ pc = "stagnext"
    /\ \/ Bails /\ rn' = rn
       \/ GoesOn("stag") /\ rn' = rn + 1
    /\ UNCHANGED <<range, ret, pos, num, sn, cpos, ccount, hist>>

-----------------------------------------------------------------------------
(* fixedscrub(): one sector at 0, then alternating from both ends.          *)

FixedTooSmall ==
    /\ pc = "fixed" /\ p.dev < FixedEnd + 1
    /\ Return("failed")
    /\ UNCHANGED <<range, ret, loop, reqs, cpos, ccount, hist>>

FixedFirst ==
    /\ pc = "fixed" /\ p.dev >= FixedEnd + 1
    /\ Segread(0, 1, "fixednext")
    /\ UNCHANGED <<range, loop, reqs, why>>

FixedPos(i) == IF i % 2 = 0 THEN (i \div 2) * FixedStep
               ELSE FixedEnd - ((i - 1) \div 2) * FixedStep

FixedNext ==
    /\ pc = "fixednext"
    /\ \/ /\ sn < FixedReqs
          /\ pos' = FixedPos(sn)
          /\ num' = seg
          /\ sn' = sn + 1
          /\ Segread(pos', num', "fixednext")
          /\ why' = why
       \/ /\ sn = FixedReqs
          /\ Return("end")
          /\ UNCHANGED <<ret, pos, num, sn, cpos, ccount, hist>>
    /\ UNCHANGED <<range, rn, reqs>>

-----------------------------------------------------------------------------
LastChunk(n) == n <= MaxVerify

\* The loop of kthread_segread(): one VERIFY request.
Chunk ==
    LET n == IF ccount > MaxVerify THEN MaxVerify ELSE ccount
    IN  /\ pc = "chunk"
        /\ covered' = IF ret = "scrubdev" THEN covered
                      ELSE covered \cup cpos..(cpos + n - 1)
        /\ issued' = IF ret = "scrubdev" \/ p.reqbound = 0 THEN issued
                     ELSE issued + 1
        /\ IF LastChunk(ccount)
           THEN pc' = ret /\ UNCHANGED <<cpos, ccount>>
           ELSE /\ cpos' = W(cpos + MaxVerify)
                /\ ccount' = W(ccount - MaxVerify)
                /\ pc' = pc
        /\ UNCHANGED <<range, ret, loop, reqs, why>>

\* The round is over.
Done == pc = "done" /\ UNCHANGED vars

Next ==
    \/ Warmup \/ Scrubdev
    \/ SeqEnd \/ SeqSegment \/ SeqNext
    \/ StagDivides \/ StagEnd \/ StagNextSegment \/ StagSegment \/ StagNext
    \/ FixedTooSmall \/ FixedFirst \/ FixedNext
    \/ Chunk \/ Done

Spec == Init /\ [][Next]_vars

\* A round is one thread of control that the scheduler keeps running.
FairSpec == Spec /\ WF_vars(Next)

-----------------------------------------------------------------------------
(* Type invariant.                                                          *)

\* The type of every variable: positions, sizes and counters are uint64_t.
TypeOK ==
    /\ p \in Params
    /\ pc \in Strategies \cup {"warmup", "scrubdev", "chunk", "seqlnext",
                               "stagnext", "fixednext", "done"}
    /\ ret \in {"scrubdev", "seqlnext", "stagnext", "fixednext"}
    /\ capacity \in 0..MaxDev
    /\ {seg, reg, pos, num, reqs, cpos, ccount} \subseteq 0..(Word - 1)
    /\ {sn, rn, issued} \subseteq Nat
    /\ covered \subseteq Nat
    /\ why \in {"none", "end", "abort", "bound", "failed", "oops"}

-----------------------------------------------------------------------------
(* Safety.                                                                  *)

Scanning == p.strategy \in {"seql", "stag"}

\* The sizes, converted to sectors, are not 0 and may be added to any position
\* on a disk. A store accepts other sizes: those that wrap when they are
\* doubled.
Moderate ==
    {W(p.segsize * 2), W(p.regsize * 2)} \subseteq 1..(Word - 1 - MaxDev)

\* A scanning round that reaches its end, not cut short by reqbound or abort,
\* has verified every sector of its range: no rounding of regions, segments or
\* requests leaves a hole, and no size that wraps does.
Complete ==
    pc = "done" /\ why = "end" /\ Scanning =>
       p.start..(capacity - 1) \subseteq covered

\* With moderate sizes no request for zero sectors reaches the drive, at any end
\* of range, and a scanning strategy asks for no sector outside its range, as
\* long as the range starts on the disk and the segment is not larger than the
\* device (or starts at sector 0, where a larger one is cut).
InRange ==
    Moderate /\ pc = "chunk" =>
       /\ ccount > 0
       /\ ret \in {"seqlnext", "stagnext"} /\ p.start <= capacity =>
             /\ cpos >= p.start
             /\ seg <= capacity \/ pos = 0 => cpos + ccount <= capacity

\* With moderate sizes no sector is verified twice in a round: a new segment is
\* disjoint from all before it, for the sequential strategy and for the staggered
\* one when the segments divide the region.
VerifiedOnce ==
    /\ Moderate /\ pc = "chunk" /\ ret \in {"seqlnext", "stagnext"}
    /\ p.start <= capacity /\ seg <= capacity
    /\ p.strategy = "seql" \/ reg % seg = 0
    => covered \cap cpos..(cpos + ccount - 1) = {}

-----------------------------------------------------------------------------
(* Liveness, under FairSpec.                                                *)

\* A sequential walk by segments of no sectors, without a limit.
WalksInPlace ==
    p.strategy = "seql" /\ W(p.segsize * 2) = 0 /\ p.reqbound = 0

\* Every round ends, also one whose starting point lies beyond the end of the
\* range, except a sequential one whose segment size doubles to 0: it repeats its
\* first segment until it is aborted.
Terminates == WalksInPlace \/ <>(pc = "done")

-----------------------------------------------------------------------------
(* What comments in the code say of the limit.                              *)

\* scrub_core.c: "The scrubbing request limit per round": a scanning round with
\* a limit makes no more requests than that.
RequestsWithinLimit ==
    Scanning /\ p.reqbound # 0 => issued <= p.reqbound
=============================================================================
