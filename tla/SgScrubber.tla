----------------------------- MODULE SgScrubber -----------------------------
(***************************************************************************)
(* The user-level scrubber sg_scrubber: one process that converts the      *)
(* sizes it was given to blocks and scrubs the device sequentially,        *)
(* staggered, or first one and then the other.  It is the ancestor of      *)
(* seqscrub() and stgscrub() in the kernel (module ScrubPlan), and         *)
(* computes the last segment and the cutting into requests differently.    *)
(*                                                                         *)
(* The global lba, which segread() advances, and the global count are      *)
(* otherwise only printed once a scan has started, and are left out.       *)
(***************************************************************************)
EXTENDS Integers

CONSTANTS
    Block,      \* st_blksize, in bytes
    Sector,     \* the logical block of the device, in bytes
    Addresses,  \* logical blocks that VERIFY(10) can address (2^32)
    MaxVerify,  \* most blocks of one VERIFY request (65535)
    MaxBytes,   \* bound on the size of the device, in bytes
    MaxSize,    \* bound on the segment and region sizes, in bytes
    MaxLba,     \* bound on the argument of --lba
    MaxBack     \* positions further below 0 are not told apart

ASSUME SgSizesAssumption ==
    /\ {Block, Sector, Addresses, MaxVerify} \subseteq Nat \ {0}
    /\ {MaxBytes, MaxSize, MaxLba, MaxBack} \subseteq Nat

\* What main() passes on. An invalid segment or region size becomes 0, but one
\* that overflows when it is converted from KB may be negative. An --lba of more
\* than 32 bits, which a negative one has too, is refused. The size of the device
\* is -1 if lseek() fails.
Arguments == [bytes: -1..MaxBytes,
              segment: -MaxSize..MaxSize, region: -MaxSize..MaxSize,
              lba: 0..MaxLba, technique: {"SEQL", "STAG", "BOTH"}]

VARIABLES
    a,         \* the arguments
    pc,        \* where the process is
    capacity,  \* sizes in blocks of st_blksize bytes: the capacity,
    seg, reg,  \* segment_size and region_size
    pos, num,  \* the segment
    s, r,      \* loop counters of stgscrub()
    todo,      \* count of segread()
    ret,       \* ret of segread()
    covered,   \* history: logical blocks verified in this scan
    twice      \* history: one of them was verified again in the same scan

sizes == <<a, capacity, seg, reg>>
hist  == <<covered, twice>>
vars  == <<sizes, pc, pos, num, s, r, todo, ret, hist>>

Magnitude(x) == IF x < 0 THEN -x ELSE x

\* lceil(), with the division of C, which rounds towards 0. A division by 0 is
\* a signal (see Crash).
lceil(whole, part) ==
    LET q == Magnitude(whole) \div Magnitude(part)
        quotient == IF whole < 0 <=> part < 0 THEN q ELSE -q
    IN  IF Magnitude(whole) % Magnitude(part) = 0 THEN quotient ELSE 1 + quotient

Init ==
    /\ a \in Arguments
    /\ pc = "scrubdev"
    /\ capacity = 0 /\ seg = 0 /\ reg = 0
    /\ pos = 0 /\ num = 0 /\ s = 0 /\ r = 0 /\ todo = 0
    /\ ret = "ok"
    /\ covered = {} /\ twice = FALSE

\* scrubdev(): everything is converted to blocks.
Scrubdev ==
    /\ pc = "scrubdev"
    /\ capacity' = lceil(a.bytes, Block)
    /\ seg' = lceil(a.segment, Block)
    /\ reg' = lceil(a.region, Block)
    /\ pos' = a.lba
    /\ pc' = IF a.technique = "STAG" THEN "stag" ELSE "seql"
    /\ UNCHANGED <<a, num, s, r, todo, ret, hist>>

\* stat() fails, and nothing is scrubbed.
ScrubdevFails ==
    /\ pc = "scrubdev"
    /\ pc' = "done"
    /\ UNCHANGED <<sizes, pos, num, s, r, todo, ret, hist>>

\* stgscrub() divides by both sizes.
Crash ==
    /\ pc = "stag" /\ 0 \in {seg, reg}
    /\ pc' = "crashed"
    /\ UNCHANGED <<sizes, pos, num, s, r, todo, ret, hist>>

-----------------------------------------------------------------------------
\* Mutated form: a segment that ends with the device is cut too.
SegLenEqual(x) ==
    IF x + seg >= capacity
    THEN IF seg > capacity THEN capacity ELSE capacity - seg
    ELSE seg

\* Length of the segment at x: one that reaches over the end of the device is
\* not cut there, but gets capacity - segment_size blocks.
SegLen(x) ==
    IF x + seg > capacity
    THEN IF seg > capacity THEN capacity ELSE capacity - seg
    ELSE seg

\* segread(x, n) is called.
Segread(x, n, next) ==
    /\ pos' = x /\ num' = n /\ todo' = n
    /\ ret' = "ok"
    /\ pc' = next

\* A turn of the loop of segread(): a request for the first blocks of the
\* segment (pos does not advance), and ret is the last failure. VERIFY(10) takes
\* position and length as logical blocks, in 32 bits: nothing converts them.
Verify ==
    LET n == IF todo > MaxVerify THEN MaxVerify ELSE todo
        first == pos % Addresses
        blocks == first..(first + n - 1)
    IN  /\ pc \in {"seqlread", "stagread"} /\ todo > 0
        /\ todo' = todo - MaxVerify
        /\ \E res \in {"ok", "error", "invalid"} :
             ret' = IF res = "ok" THEN ret ELSE res
        /\ covered' = covered \cup blocks
        /\ twice' = (twice \/ covered \cap blocks # {})
        /\ UNCHANGED <<sizes, pc, pos, num, s, r>>

\* A scan is over; the other one may follow, and counts anew.
ScanDone(next) ==
    /\ pc' = next
    /\ covered' = {} /\ twice' = FALSE
    /\ s' = 0 /\ r' = 0 /\ pos' = 0 /\ num' = 0 /\ todo' = 0 /\ ret' = "ok"
    /\ UNCHANGED sizes

AfterSeql == IF a.technique = "BOTH" THEN "stag" ELSE "done"

-----------------------------------------------------------------------------
(* seqscrub()                                                               *)

SeqSegment ==
    /\ pc = "seql" /\ pos < capacity
    /\ Segread(pos, SegLen(pos), "seqlread")
    /\ UNCHANGED <<sizes, s, r, hist>>

\* Mutated form: the walk does not advance.
SeqAdvanceStay == pos

\* A negative segment leads the walk downwards.
SeqAdvance == IF pos + num < -MaxBack THEN -MaxBack ELSE pos + num

SeqNext ==
    /\ pc = "seqlread" /\ todo <= 0 /\ ret # "invalid"
    /\ pos' = SeqAdvance
    /\ pc' = "seql"
    /\ UNCHANGED <<sizes, num, s, r, todo, ret, hist>>

SeqFails ==
    /\ pc = "seqlread" /\ todo <= 0 /\ ret = "invalid"
    /\ ScanDone(AfterSeql)

SeqEnd ==
    /\ pc = "seql" /\ pos >= capacity
    /\ ScanDone(AfterSeql)

-----------------------------------------------------------------------------
(* stgscrub()                                                               *)

regnum == lceil(capacity, reg)
segnum == lceil(reg, seg)
StagPos == s * seg + r * reg

StagRuns == pc = "stag" /\ seg # 0 /\ reg # 0

\* The s-th segment of the r-th region. One that begins right at the end of the
\* device is read too.
StagSegment ==
    /\ StagRuns /\ s < segnum /\ r < regnum /\ StagPos <= capacity
    /\ Segread(StagPos, SegLen(StagPos), "stagread")
    /\ UNCHANGED <<sizes, s, r, hist>>

StagNext ==
    /\ pc = "stagread" /\ todo <= 0 /\ ret # "invalid"
    /\ r' = r + 1
    /\ pc' = "stag"
    /\ UNCHANGED <<sizes, pos, num, s, todo, ret, hist>>

\* All regions are through, or the others begin behind the device.
StagNextSegment ==
    /\ StagRuns /\ s < segnum
    /\ r >= regnum \/ StagPos > capacity
    /\ s' = s + 1 /\ r' = 0
    /\ UNCHANGED <<sizes, pc, pos, num, todo, ret, hist>>

StagFails ==
    /\ pc = "stagread" /\ todo <= 0 /\ ret = "invalid"
    /\ ScanDone("done")

StagEnd ==
    /\ StagRuns /\ s >= segnum
    /\ ScanDone("done")

\* The process is gone.
Gone == pc \in {"done", "crashed"} /\ UNCHANGED vars

Next ==
    \/ Scrubdev \/ ScrubdevFails \/ Crash \/ Verify
    \/ SeqSegment \/ SeqNext \/ SeqFails \/ SeqEnd
    \/ StagSegment \/ StagNext \/ StagNextSegment \/ StagFails \/ StagEnd
    \/ Gone

Spec == Init /\ [][Next]_vars

\* One process, which runs.
FairSpec == Spec /\ WF_vars(Next)

-----------------------------------------------------------------------------
\* The sizes fit: whole segments make up the capacity, and for the staggered
\* scan the regions too; a segment is one request; the scan starts at block 0, and
\* the blocks can be addressed.
Fits ==
    /\ seg \in 1..MaxVerify /\ capacity % seg = 0
    /\ a.lba = 0 /\ capacity <= Addresses
    /\ pc \in {"stag", "stagread"} => reg > 0 /\ reg % seg = 0
                                      /\ capacity % reg = 0

\* With sizes that fit, a scan verifies as many logical blocks as the device has
\* blocks of st_blksize bytes, from the first one on, each once, in both
\* techniques. The blocks of the device behind them are never verified: all but
\* an eighth of it if st_blksize is 4096 and a logical block 512 bytes.
ScansExactly ==
    Fits /\ pc \in {"seql", "seqlread", "stag", "stagread"} =>
      /\ ~twice
      /\ covered \subseteq 0..(capacity - 1)
      /\ \/ pc = "seql" /\ pos >= capacity
         \/ pc = "stag" /\ s >= segnum
         => /\ covered = 0..(capacity - 1)
            /\ LET device == 0..(a.bytes \div Sector - 1)
               IN  device \ covered = {b \in device : b >= capacity}

\* The sizes with which a sequential scan reads right up to its capacity: each
\* segment is one request, and they are whole, or two at most (the last one gets
\* the right length by chance then).
SeqlFits ==
    IF capacity <= seg THEN capacity <= MaxVerify
    ELSE seg <= MaxVerify /\ (capacity % seg = 0 \/ capacity < 2 * seg)

\* Whenever a sequential scan from block 0 comes to its end, it has verified each
\* block up to its capacity once and none behind it if, and only if, the sizes
\* are of that kind: longer segments are read only in part, and again, and a last
\* segment that is cut wrong reaches behind the end.
ExactOnlyIfFits ==
    pc = "seql" /\ pos >= capacity /\ seg > 0 /\ a.lba = 0
       /\ capacity \in 1..Addresses
    => (covered = 0..(capacity - 1) /\ ~twice <=> SeqlFits)

\* A sequential scan stalls with segments of 0 blocks, and with a segment as large
\* as the device unless it starts whole segments away from block 0; a negative
\* segment leads it away from the end.
Stalls == seg <= 0 \/ (a.lba % seg # 0 /\ capacity = seg)

\* Every run ends, by itself or in a division by zero, unless it comes to a
\* sequential scan of that kind.
RunEnds ==
    <>(pc \in {"done", "crashed"} \/ (pc = "seql" /\ pos < capacity /\ Stalls))

=============================================================================
