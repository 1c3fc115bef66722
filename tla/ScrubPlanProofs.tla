--------------------------- MODULE ScrubPlanProofs ---------------------------
(***************************************************************************)
(* Proofs about ScrubPlan, for disks and requests of every size: the types *)
(* for all sizes a store accepts, and what a round verifies for those that *)
(* do not wrap when they are converted to sectors.                         *)
(***************************************************************************)
EXTENDS ScrubPlan, TLAPS

(* Where the control is: before the strategy, in one of the strategies, or  *)
(* in a segment of a scanning strategy, during and after its reading.       *)
Before == pc \in {"warmup", "scrubdev"} \/ (pc = "chunk" /\ ret = "scrubdev")
InSeql == pc \in {"seql", "seqlnext"} \/ (pc = "chunk" /\ ret = "seqlnext")
InStag == pc \in {"stag", "stagnext"} \/ (pc = "chunk" /\ ret = "stagnext")
InFixed == pc \in {"fixed", "fixednext"} \/ (pc = "chunk" /\ ret = "fixednext")

Reading == pc = "chunk" /\ ret \in {"seqlnext", "stagnext"}
IsRead  == pc \in {"seqlnext", "stagnext"}

\* The types.
TypeInv ==
    /\ p \in Params
    /\ pc \in Strategies \cup {"warmup", "scrubdev", "chunk", "seqlnext",
                               "stagnext", "fixednext", "done"}
    /\ ret \in {"scrubdev", "seqlnext", "stagnext", "fixednext"}
    /\ capacity \in 0..MaxDev
    /\ seg \in 0..(Word - 1) /\ reg \in 0..(Word - 1)
    /\ pos \in 0..(Word - 1) /\ num \in 0..(Word - 1)
    /\ reqs \in 0..(Word - 1)
    /\ cpos \in 0..(Word - 1) /\ ccount \in 0..(Word - 1)
    /\ sn \in Nat /\ rn \in Nat /\ issued \in Nat
    /\ covered \subseteq Nat
    /\ why \in {"none", "end", "abort", "bound", "failed", "oops"}

\* The sizes that may be added to a position on a disk.
Fit == 1..(Word - 1 - MaxDev)

\* What belongs to the phase of the round.
PhaseInv ==
    /\ Before => covered = {} /\ sn = 0
    /\ ~Before => seg \in Fit /\ reg \in Fit
    /\ pc # "done" => why = "none"
    /\ pc \in Strategies => pc = p.strategy
    /\ InSeql => p.strategy = "seql"
    /\ InStag => p.strategy = "stag"
    /\ InFixed => p.strategy = "fixed" /\ sn <= FixedReqs

\* The segment in hand starts in the range, has the length the strategy means
\* it to have, and is cut into requests without a gap.
SegmentInv ==
    /\ pc = "chunk" => ccount > 0
    /\ Reading \/ IsRead =>
         /\ pos < capacity /\ pos + num < Word /\ num \in 1..seg
         /\ seg <= capacity \/ pos = 0 => pos + num <= capacity
         /\ pos + num >= capacity \/ num = seg
    /\ Reading => pos <= cpos /\ cpos + ccount = pos + num

BaseInv == Moderate /\ TypeInv /\ PhaseInv /\ SegmentInv

-----------------------------------------------------------------------------
(* Arithmetic.                                                              *)

\* uint64_t arithmetic does not leave its range, and is exact within it.
LEMMA WExact ==
    /\ \A x \in 0..(Word - 1) : W(x) = x
    /\ \A x \in Int : W(x) \in 0..(Word - 1)
BY WordAssumption, BoundsAssumption DEF W

\* The types of the parameters.
LEMMA ParamTypes ==
    ASSUME TypeInv
    PROVE  /\ p.start \in 0..(Word - 1) /\ p.dev \in 0..MaxDev
           /\ p.scount \in 0..(Word - 1)
           /\ p.segsize \in 1..(Word - 1) /\ p.regsize \in 1..(Word - 1)
           /\ p.reqbound \in 0..MaxBound /\ p.strategy \in Strategies
           /\ MaxDev \in 0..(Word - 1)
<1>1. /\ p.start \in Points /\ p.scount \in Points /\ p.dev \in 0..MaxDev
      /\ p.segsize \in Sizes /\ p.regsize \in Sizes
      /\ p.reqbound \in 0..MaxBound /\ p.strategy \in Strategies
  BY DEF TypeInv, Params
<1>2. /\ Points \subseteq 0..(Word - 1) /\ Sizes \subseteq 1..(Word - 1)
      /\ MaxDev \in 0..(Word - 1)
  BY WordAssumption, BoundsAssumption
<1> QED  BY <1>1, <1>2

\* The length of a segment that starts in the range.
LEMMA SegLenFits ==
    ASSUME capacity \in 0..MaxDev, seg \in Fit,
           NEW x \in Nat, x < capacity
    PROVE  /\ SegLen(x) \in 1..seg /\ x + SegLen(x) < Word
           /\ seg <= capacity \/ x = 0 => x + SegLen(x) <= capacity
           /\ x + SegLen(x) >= capacity \/ SegLen(x) = seg
<1> USE WordAssumption, BoundsAssumption
<1>1. x + seg \in 0..(Word - 1) /\ capacity - x \in 0..(Word - 1)
  BY DEF Fit
<1>2. W(x + seg) = x + seg /\ W(capacity - x) = capacity - x
  BY <1>1, WExact
<1> QED  BY <1>1, <1>2 DEF SegLen, Fit

-----------------------------------------------------------------------------
(* Types, for all sizes.                                                    *)

\* The positions of fixedscrub() lie between 0 and FixedEnd.
LEMMA FixedPosFits ==
    ASSUME NEW i \in Nat, i < FixedReqs PROVE FixedPos(i) \in 0..FixedEnd
<1> USE BoundsAssumption
<1> DEFINE h == IF i % 2 = 0 THEN i \div 2 ELSE (i - 1) \div 2
<1>1. h \in Nat /\ h <= FixedReqs
  OBVIOUS
<1>2. FixedPos(i) = IF i % 2 = 0 THEN h * FixedStep ELSE FixedEnd - h * FixedStep
  BY DEF FixedPos
<1> HIDE DEF h
<1>3. h * FixedStep \in Nat /\ FixedReqs * FixedStep \in Nat
  BY <1>1
<1>4. h * FixedStep <= FixedReqs * FixedStep
  BY <1>1
<1> QED  BY <1>2, <1>3, <1>4

\* So do all positions and lengths the strategies compute.
LEMMA Words ==
    ASSUME TypeInv
    PROVE  /\ RangeEnd \in 0..MaxDev /\ StagPos \in 0..(Word - 1)
           /\ \A x \in Int : SegLen(x) \in 0..(Word - 1)
<1> USE WordAssumption, BoundsAssumption
<1>1. W(p.start + p.scount) \in 0..(Word - 1)
  BY ParamTypes, WExact
<1>2. RangeEnd \in 0..MaxDev
  BY <1>1, ParamTypes DEF RangeEnd
<1>3. p.start + rn * reg + sn * seg \in Int
  BY ParamTypes DEF TypeInv
<1>4. \A x \in Int : W(capacity - x) \in 0..(Word - 1)
  BY WExact DEF TypeInv
<1> QED  BY <1>2, <1>3, <1>4, WExact DEF StagPos, SegLen, TypeInv

\* Every step keeps the types.
LEMMA NextTypes == ASSUME TypeInv, [Next]_vars PROVE TypeInv'
<1> USE WordAssumption, BoundsAssumption DEF TypeInv
<1>1. CASE Warmup
  <2>1. W(p.start + p.segsize) \in 0..(Word - 1) /\ p.segsize \in 0..(Word - 1)
    BY ParamTypes, WExact
  <2> QED  BY <1>1, <2>1 DEF Warmup, Segread, range, loop, hist
<1>2. CASE Scrubdev
  <2>1. W(p.segsize * 2) \in 0..(Word - 1) /\ W(p.regsize * 2) \in 0..(Word - 1)
    BY ParamTypes, WExact
  <2> QED  BY <1>2, <2>1, ParamTypes, Words DEF Scrubdev, hist
<1>3. CASE SeqSegment
  BY <1>3, Words DEF SeqSegment, Segread, range, hist
<1>4. CASE StagSegment
  <2>1. StagPos \in 0..(Word - 1) /\ SegLen(StagPos) \in 0..(Word - 1)
    BY Words
  <2>2. /\ pos' = StagPos /\ UNCHANGED <<range, sn, reqs, why, hist>>
        /\ num' \in {num, SegLen(StagPos)} /\ rn' \in {rn, rn + 1}
        /\ pc' \in {pc, "chunk"} /\ ret' \in {ret, "stagnext"}
        /\ cpos' \in {cpos, pos'} /\ ccount' \in {ccount, num'}
    BY <1>4 DEF StagSegment, Segread
  <2> QED  BY <2>1, <2>2 DEF range, hist
<1>5. CASE SeqEnd \/ StagEnd \/ FixedTooSmall \/ StagDivides
  BY <1>5 DEF SeqEnd, StagEnd, FixedTooSmall, StagDivides, Return, range, loop, hist
<1>6. CASE StagNextSegment
  BY <1>6 DEF StagNextSegment, range, hist
<1>7. CASE SeqNext \/ StagNext
  <2>1. W(reqs + 1) \in 0..(Word - 1) /\ SeqAdvance \in 0..(Word - 1)
    BY WExact DEF SeqAdvance
  <2>2. /\ UNCHANGED <<range, ret, num, sn, cpos, ccount, hist>>
        /\ pos' \in {pos, SeqAdvance} /\ rn' \in {rn, rn + 1}
        /\ reqs' \in {reqs, W(reqs + 1)} /\ pc' \in {"done", "seql", "stag"}
        /\ why' \in {why, "abort", "bound"}
    BY <1>7 DEF SeqNext, StagNext, Bails, GoesOn, Return
  <2> QED  BY <2>1, <2>2 DEF Strategies, range, hist
<1>8. CASE FixedFirst
  BY <1>8, ParamTypes DEF FixedFirst, Segread, range, loop, hist
<1>9. CASE FixedNext
  <2>1. sn < FixedReqs => FixedPos(sn) \in 0..(Word - 1)
    BY FixedPosFits
  <2>2. CASE sn < FixedReqs
    <3>1. /\ pos' = FixedPos(sn) /\ num' = seg /\ sn' = sn + 1 /\ pc' = "chunk"
          /\ ret' = "fixednext" /\ cpos' = pos' /\ ccount' = num'
          /\ UNCHANGED <<range, rn, reqs, why, hist>>
      BY <1>9, <2>2 DEF FixedNext, Segread
    <3> QED  BY <2>1, <2>2, <3>1 DEF range, hist
  <2>3. CASE sn = FixedReqs
    <3>1. /\ pc' = "done" /\ why' = "end"
          /\ UNCHANGED <<range, ret, pos, num, sn, cpos, ccount, rn, reqs, hist>>
      BY <1>9, <2>3 DEF FixedNext, Return
    <3> QED  BY <3>1 DEF range, hist
  <2> QED  BY <1>9, <2>2, <2>3 DEF FixedNext
<1>10. CASE Chunk
  <2>1. W(cpos + MaxVerify) \in 0..(Word - 1) /\ W(ccount - MaxVerify) \in 0..(Word - 1)
    BY WExact
  <2>2. covered' \subseteq Nat /\ issued' \in Nat
    BY <1>10 DEF Chunk
  <2> QED  BY <1>10, <2>1, <2>2 DEF Chunk, Strategies, range, loop
<1>11. CASE UNCHANGED vars
  BY <1>11 DEF vars, range, loop, hist
<1> QED  BY <1>1, <1>2, <1>3, <1>4, <1>5, <1>6, <1>7, <1>8, <1>9, <1>10, <1>11
            DEF Next, Done

\* The round starts with them.
LEMMA InitTypes == Init => TypeInv
BY WordAssumption, BoundsAssumption DEF Init, TypeInv, Strategies

\* Every variable has its type: no position, size or counter leaves uint64_t.
THEOREM PlanTypes == Spec => []TypeOK
<1>1. TypeInv /\ [Next]_vars => TypeInv'
  BY NextTypes
<1>2. TypeInv => TypeOK
  BY DEF TypeInv, TypeOK
<1> QED  BY InitTypes, <1>1, <1>2, PTL DEF Spec

-----------------------------------------------------------------------------
(* Phases and the segment in hand, for moderate sizes.                      *)

\* No step changes the parameters.
LEMMA SameParams == ASSUME [Next]_vars PROVE p' = p
BY DEF Next, vars, range, Warmup, Scrubdev, SeqEnd, SeqSegment, SeqNext, StagEnd,
   StagDivides, StagNextSegment, StagSegment, StagNext, FixedTooSmall, FixedFirst,
   FixedNext, Chunk, Done

\* The round starts in the invariant.
LEMMA InitBase == Init /\ Moderate => BaseInv
<1> SUFFICES ASSUME Init, Moderate PROVE BaseInv
  OBVIOUS
<1>1. PhaseInv
  BY BoundsAssumption DEF Init, PhaseInv, Before, InSeql, InStag, InFixed, Strategies
<1>2. SegmentInv
  BY DEF Init, SegmentInv, Reading, IsRead
<1> QED  BY <1>1, <1>2, InitTypes DEF BaseInv

\* What remains to be shown of a step.
LEMMA BaseStep ==
    ASSUME BaseInv, Next, PhaseInv', SegmentInv' PROVE BaseInv'
<1>1. TypeInv' /\ p' = p
  BY NextTypes, SameParams DEF BaseInv
<1> QED  BY <1>1 DEF BaseInv, Moderate

\* scrubber(): the warm-up request.
LEMMA BaseWarmup == ASSUME BaseInv, Warmup PROVE BaseInv'
<1> USE WordAssumption, BoundsAssumption DEF BaseInv
<1>1. p.segsize > 0
  BY ParamTypes
<1>2. PhaseInv'
  BY DEF Warmup, Segread, PhaseInv, Before, InSeql, InStag, InFixed, Strategies,
         range, loop, hist
<1>3. SegmentInv'
  BY <1>1 DEF Warmup, Segread, SegmentInv, Reading, IsRead, range, loop, hist
<1> QED  BY <1>2, <1>3, BaseStep DEF Next

\* scrubdev(): the range and the sizes.
LEMMA BaseScrubdev == ASSUME BaseInv, Scrubdev PROVE BaseInv'
<1> USE WordAssumption, BoundsAssumption DEF BaseInv
<1>1. seg' \in Fit /\ reg' \in Fit
  BY DEF Scrubdev, Moderate, Fit
<1>2. PhaseInv'
  BY <1>1, ParamTypes DEF Scrubdev, PhaseInv, Before, InSeql, InStag, InFixed,
                          Strategies, hist
<1>3. SegmentInv'
  BY ParamTypes DEF Scrubdev, SegmentInv, Reading, IsRead, Strategies, hist
<1> QED  BY <1>2, <1>3, BaseStep DEF Next

\* A strategy hands a segment of the range to segread().
LEMMA BaseSegment ==
    ASSUME BaseInv, Next, pc \in {"seql", "stag"}, NEW x \in Nat, x < capacity,
           pos' = x, num' = SegLen(x),
           Segread(x, num', IF pc = "seql" THEN "seqlnext" ELSE "stagnext"),
           sn' = sn, rn' = rn, UNCHANGED <<range, reqs, why>>
    PROVE  BaseInv'
<1> USE WordAssumption, BoundsAssumption DEF BaseInv
<1>1. seg \in Fit /\ capacity \in 0..MaxDev
  BY DEF PhaseInv, TypeInv, Before
<1>2. /\ num' \in 1..seg /\ x + num' < Word
      /\ seg <= capacity \/ x = 0 => x + num' <= capacity
      /\ x + num' >= capacity \/ num' = seg
  BY <1>1, SegLenFits
<1>3. PhaseInv'
  BY DEF PhaseInv, Segread, Before, InSeql, InStag, InFixed, Strategies, range
<1>4. SegmentInv'
  BY <1>2, <1>1 DEF SegmentInv, Segread, Reading, IsRead, range, Fit
<1> QED  BY <1>3, <1>4, BaseStep

\* seqscrub() and stgscrub() hand over a segment.
LEMMA BaseSegments ==
    ASSUME BaseInv, SeqSegment \/ (StagSegment /\ pc' = "chunk") PROVE BaseInv'
<1>1. CASE SeqSegment
  <2>1. pos \in Nat
    BY WordAssumption DEF BaseInv, TypeInv
  <2> QED  BY <1>1, <2>1, BaseSegment DEF SeqSegment, Next
<1>2. CASE StagSegment /\ pc' = "chunk"
  <2>1. StagPos \in Nat
    BY Words, WordAssumption DEF BaseInv
  <2>2. /\ pc = "stag" /\ StagPos < capacity /\ pos' = StagPos
        /\ num' = SegLen(StagPos) /\ Segread(StagPos, num', "stagnext")
        /\ sn' = sn /\ rn' = rn /\ UNCHANGED <<range, reqs, why>>
    BY <1>2 DEF StagSegment, StagLoop
  <2> QED  BY <1>2, <2>1, <2>2, BaseSegment DEF Next
<1> QED  BY <1>1, <1>2

\* Steps of the strategies that read nothing: they return, or pass over a
\* segment.
LEMMA BaseEnds ==
    ASSUME BaseInv,
           SeqEnd \/ StagEnd \/ StagDivides \/ FixedTooSmall \/ StagNextSegment
           \/ (StagSegment /\ pc' = pc)
    PROVE  BaseInv'
<1> USE DEF BaseInv
<1>1. CASE SeqEnd \/ StagEnd \/ StagDivides \/ FixedTooSmall
  <2>1. /\ pc \in {"seql", "stag", "fixed"} /\ pc' = "done"
        /\ UNCHANGED <<p, seg, reg, ret, sn, covered>>
    BY <1>1 DEF SeqEnd, StagEnd, StagLoop, StagDivides, FixedTooSmall, Return,
       range, loop, hist
  <2>2. PhaseInv' /\ SegmentInv'
    BY <2>1 DEF PhaseInv, SegmentInv, Before, InSeql, InStag, InFixed, Reading,
       IsRead, Strategies
  <2> QED  BY <1>1, <2>2, BaseStep DEF Next
<1>2. CASE StagNextSegment \/ (StagSegment /\ pc' = pc)
  <2>1. /\ pc = "stag" /\ pc' = "stag"
        /\ UNCHANGED <<p, seg, reg, ret, covered, why>>
    BY <1>2 DEF StagNextSegment, StagSegment, StagLoop, Segread, range, hist
  <2>2. PhaseInv' /\ SegmentInv'
    BY <2>1 DEF PhaseInv, SegmentInv, Before, InSeql, InStag, InFixed, Reading,
       IsRead, Strategies
  <2> QED  BY <1>2, <2>2, BaseStep DEF Next
<1> QED  BY <1>1, <1>2

\* After a segment: the abort state, the limit, or the next segment.
LEMMA BaseNext == ASSUME BaseInv, SeqNext \/ StagNext PROVE BaseInv'
<1> USE DEF BaseInv
<1>1. /\ UNCHANGED <<p, seg, reg, ret, sn, covered>>
      /\ pc \in {"seqlnext", "stagnext"}
      /\ Bails \/ GoesOn(IF pc = "seqlnext" THEN "seql" ELSE "stag")
  BY DEF SeqNext, StagNext, range, hist
<1>2. PhaseInv'
  BY <1>1 DEF PhaseInv, Bails, GoesOn, Return, Before, InSeql, InStag, InFixed,
              Strategies
<1>3. SegmentInv'
  BY <1>1 DEF SegmentInv, Bails, GoesOn, Return, Reading, IsRead
<1> QED  BY <1>2, <1>3, BaseStep DEF Next

\* fixedscrub() hands over its requests and returns.
LEMMA BaseFixed == ASSUME BaseInv, FixedFirst \/ FixedNext PROVE BaseInv'
<1> USE WordAssumption, BoundsAssumption DEF BaseInv
<1>1. p.strategy = "fixed" /\ seg \in Fit /\ sn <= FixedReqs
  BY DEF FixedFirst, FixedNext, PhaseInv, Before, InFixed
<1>2. CASE FixedFirst
  <2>1. /\ pc' = "chunk" /\ ret' = "fixednext" /\ ccount' = 1 /\ pc = "fixed"
        /\ UNCHANGED <<p, seg, reg, sn, covered, why>>
    BY <1>2 DEF FixedFirst, Segread, range, loop, hist
  <2>2. PhaseInv' /\ SegmentInv'
    BY <1>1, <2>1 DEF PhaseInv, SegmentInv, Before, InSeql, InStag, InFixed,
      Reading, IsRead, Strategies
  <2> QED  BY <1>2, <2>2, BaseStep DEF Next
<1>3. CASE FixedNext /\ sn < FixedReqs
  <2>1. /\ pc' = "chunk" /\ ret' = "fixednext" /\ sn' = sn + 1 /\ ccount' = seg
        /\ pc = "fixednext" /\ UNCHANGED <<p, seg, reg, covered, why>>
    BY <1>3 DEF FixedNext, Segread, TypeInv, range, hist
  <2>2. PhaseInv' /\ SegmentInv'
    BY <1>1, <1>3, <2>1 DEF TypeInv, PhaseInv, SegmentInv, Before, InSeql, InStag,
      InFixed, Reading, IsRead, Strategies, Fit
  <2> QED  BY <1>3, <2>2, BaseStep DEF Next
<1>4. CASE FixedNext /\ sn = FixedReqs
  <2>1. /\ pc' = "done" /\ pc = "fixednext"
        /\ UNCHANGED <<p, seg, reg, ret, sn, covered>>
    BY <1>4 DEF FixedNext, Return, TypeInv, range, hist
  <2>2. PhaseInv' /\ SegmentInv'
    BY <1>1, <2>1 DEF PhaseInv, SegmentInv, Before, InSeql, InStag, InFixed,
      Reading, IsRead, Strategies
  <2> QED  BY <1>4, <2>2, BaseStep DEF Next
<1> QED  BY <1>1, <1>2, <1>3, <1>4 DEF FixedNext

\* One VERIFY request.
LEMMA BaseChunk == ASSUME BaseInv, Chunk PROVE BaseInv'
<1> USE WordAssumption, BoundsAssumption DEF BaseInv
<1>1. /\ UNCHANGED <<p, capacity, seg, reg, ret, pos, num, sn, why>>
      /\ pc = "chunk" /\ ccount > 0 /\ ccount \in Nat /\ cpos \in Nat
      /\ Before => covered' = {}
  BY DEF Chunk, PhaseInv, SegmentInv, TypeInv, Before, range, loop
<1>2. CASE LastChunk(ccount)
  <2>1. pc' = ret /\ UNCHANGED <<cpos, ccount>>
    BY <1>2 DEF Chunk
  <2>2. PhaseInv'
    BY <1>1, <2>1 DEF TypeInv, PhaseInv, Before, InSeql, InStag, InFixed, Strategies
  <2>3. SegmentInv'
    BY <1>1, <2>1 DEF TypeInv, SegmentInv, Reading, IsRead
  <2> QED  BY <2>2, <2>3, BaseStep DEF Next
<1>3. CASE ~LastChunk(ccount)
  <2>1. /\ pc' = "chunk" /\ cpos' = W(cpos + MaxVerify)
        /\ ccount' = W(ccount - MaxVerify)
    BY <1>1, <1>3 DEF Chunk
  <2>2. ccount - MaxVerify \in 1..(Word - 1)
    BY <1>1, <1>3 DEF LastChunk, TypeInv
  <2>3. ccount' = ccount - MaxVerify
    BY <2>1, <2>2, WExact
  <2>4. Reading => cpos' = cpos + MaxVerify
    <3> SUFFICES ASSUME Reading PROVE cpos' = cpos + MaxVerify
      OBVIOUS
    <3>1. cpos + MaxVerify \in 0..(Word - 1)
      BY <1>1, <2>2 DEF SegmentInv, TypeInv
    <3> QED  BY <2>1, <3>1, WExact
  <2>5. PhaseInv'
    BY <1>1, <2>1 DEF PhaseInv, Before, InSeql, InStag, InFixed, Strategies
  <2>6. SegmentInv'
    BY <1>1, <2>1, <2>2, <2>3, <2>4 DEF TypeInv, SegmentInv, Reading, IsRead
  <2> QED  BY <2>5, <2>6, BaseStep DEF Next
<1> QED  BY <1>2, <1>3

\* The base of the argument is inductive.
LEMMA NextBase == ASSUME BaseInv, [Next]_vars PROVE BaseInv'
<1>1. CASE SeqSegment \/ StagSegment
  <2>1. StagSegment => pc' = "chunk" \/ pc' = pc
    BY DEF StagSegment, Segread
  <2> QED  BY <1>1, <2>1, BaseSegments, BaseEnds
<1>2. CASE UNCHANGED vars
  BY <1>2 DEF vars, BaseInv, Moderate, TypeInv, PhaseInv, SegmentInv, Before,
    InSeql, InStag, InFixed, Reading, IsRead, range, loop, hist
<1> QED
  BY <1>1, <1>2, BaseWarmup, BaseScrubdev, BaseEnds, BaseNext, BaseFixed, BaseChunk
     DEF Next, Done

\* With moderate sizes stgscrub() never divides by zero.
LEMMA NoZeroDivide == ASSUME BaseInv PROVE ~StagDivides
BY WordAssumption, BoundsAssumption DEF BaseInv, PhaseInv, Before, StagDivides, Fit

-----------------------------------------------------------------------------
(* What seqscrub() covers.                                                  *)

\* The walk starts at spoint and only advances. Everything before the position
\* reached is covered, and nothing behind it.
SeqInv ==
    p.strategy = "seql" =>
      /\ InSeql => p.start <= pos
      /\ \A x \in Nat :
           /\ pc = "seql" =>
                /\ x \in covered => x < pos
                /\ p.start <= x /\ x < pos => x \in covered
           /\ Reading =>
                /\ x \in covered => x < cpos
                /\ p.start <= x /\ x < cpos => x \in covered
           /\ IsRead =>
                /\ x \in covered => x < pos + num
                /\ p.start <= x /\ x < pos + num => x \in covered
           /\ pc = "done" /\ why = "end" /\ p.start <= x /\ x < capacity
                => x \in covered

\* The sequential walk leaves no gap and reads nothing twice.
LEMMA NextSeq == ASSUME BaseInv, SeqInv, [Next]_vars PROVE SeqInv'
<1> USE WordAssumption, BoundsAssumption DEF BaseInv
<1> SUFFICES ASSUME p'.strategy = "seql" PROVE SeqInv'
  BY DEF SeqInv
<1>0. p' = p /\ p.strategy = "seql"
  BY SameParams
<1>1. CASE Warmup
  BY <1>0, <1>1 DEF Warmup, Segread, SeqInv, PhaseInv, Before, InSeql, Reading,
                    IsRead, hist
<1>2. CASE Scrubdev
  BY <1>0, <1>2 DEF Scrubdev, SeqInv, PhaseInv, TypeInv, Params, Before, InSeql,
                    Reading, IsRead, hist
<1>3. CASE SeqEnd
  BY <1>0, <1>3 DEF SeqEnd, Return, SeqInv, TypeInv, InSeql, Reading, IsRead,
                    hist, loop, range
<1>4. CASE SeqSegment
  BY <1>0, <1>4 DEF SeqSegment, Segread, SeqInv, TypeInv, InSeql, Reading,
                    IsRead, range, hist
<1>5. CASE SeqNext
  <2>1. pos + num \in 0..(Word - 1)
    BY <1>5 DEF SeqNext, SegmentInv, TypeInv, IsRead
  <2>2. SeqAdvance = pos + num
    BY <2>1, WExact DEF SeqAdvance
  <2>3. pc = "seqlnext" /\ covered' = covered /\ capacity' = capacity
    BY <1>5 DEF SeqNext, IsRead, range, hist
  <2>4. CASE pc' = "done" /\ why' # "end"
    BY <1>0, <2>4 DEF SeqInv, InSeql, Reading, IsRead
  <2>5. CASE pc' = "seql" /\ pos' = pos + num
    BY <1>0, <2>1, <2>3, <2>5, ParamTypes DEF SeqInv, TypeInv, InSeql, Reading, IsRead
  <2> QED
    BY <1>5, <2>2, <2>4, <2>5 DEF SeqNext, Bails, GoesOn, Return
<1>6. CASE Chunk
  <2>1. CASE LastChunk(ccount)
    BY <1>0, <1>6, <2>1
       DEF Chunk, LastChunk, SeqInv, TypeInv, PhaseInv, SegmentInv, InSeql,
           Reading, IsRead, Before, range, loop
  <2>2. CASE ~LastChunk(ccount)
    BY <1>0, <1>6, <2>2, WExact
       DEF Chunk, LastChunk, SeqInv, TypeInv, SegmentInv, InSeql, Reading, IsRead,
           range, loop
  <2> QED  BY <2>1, <2>2
<1>7. CASE StagEnd \/ StagNextSegment \/ StagSegment \/ StagNext
           \/ FixedTooSmall \/ FixedFirst \/ FixedNext
  BY <1>0, <1>7 DEF StagEnd, StagNextSegment, StagSegment, StagNext,
    FixedTooSmall, FixedFirst, FixedNext, StagLoop, PhaseInv, InStag, InFixed
<1>8. CASE UNCHANGED vars
  BY <1>0, <1>8 DEF vars, range, loop, hist, SeqInv, InSeql, Reading, IsRead
<1> QED  BY <1>1, <1>2, <1>3, <1>4, <1>5, <1>6, <1>7, <1>8, NoZeroDivide
            DEF Next, Done

-----------------------------------------------------------------------------
(* What stgscrub() covers.                                                  *)

\* A larger multiple of a size is larger by at least the size.
LEMMA Multiples ==
    ASSUME NEW i \in Nat, NEW j \in Nat, NEW d \in Nat
    PROVE  /\ i * d \in Nat /\ j * d \in Nat
           /\ i <= j => i * d <= j * d
           /\ i < j => i * d + d <= j * d
OBVIOUS

\* Quotient and remainder.
LEMMA Quotient ==
    ASSUME NEW n \in Nat, NEW d \in Nat \ {0}
    PROVE  /\ n \div d \in Nat /\ n % d \in 0..(d - 1)
           /\ n = (n \div d) * d + (n % d)
<1>1. /\ n \div d \in Nat /\ n % d \in 0..(d - 1)
      /\ n = d * (n \div d) + (n % d)
  OBVIOUS
<1> QED  BY <1>1

\* lceil() counts the multiples below a number.
LEMMA Ceiling ==
    ASSUME NEW n \in 0..(Word - 1), NEW d \in Nat \ {0}, NEW k \in Nat
    PROVE  /\ lceil(n, d) \in Nat
           /\ k < lceil(n, d) <=> k * d < n
<1> USE WordAssumption, BoundsAssumption
<1> DEFINE q == n \div d
           r == n % d
<1>1. q \in Nat /\ r \in 0..(d - 1) /\ n = q * d + r
  <2>1. n \in Nat
    OBVIOUS
  <2> QED  BY <2>1, Quotient
<1> HIDE DEF q, r
<1>2. q <= q * d
  BY <1>1
<1>3. r # 0 => W(1 + q) = 1 + q
  <2> SUFFICES ASSUME r # 0 PROVE W(1 + q) = 1 + q
    OBVIOUS
  <2>1. 1 + q \in 0..(Word - 1)
    BY <1>1, <1>2
  <2> QED  BY <2>1, WExact
<1>4. lceil(n, d) = IF r = 0 THEN q ELSE 1 + q
  BY <1>3 DEF lceil, q, r
<1>5. /\ k * d \in Nat /\ q * d \in Nat
      /\ k < q => k * d + d <= q * d
      /\ q < k => q * d + d <= k * d
      /\ q = k => q * d = k * d
  BY <1>1, Multiples
<1>6. CASE r = 0
  BY <1>1, <1>4, <1>5, <1>6
<1>7. CASE r # 0
  BY <1>1, <1>4, <1>5, <1>7
<1> QED  BY <1>6, <1>7

\* The first sector of segment i of region j, without regard to overflow.
Place(i, j) == p.start + j * reg + i * seg

\* The round has been through segment i of region j.
Passed(i, j) == i < sn \/ (i = sn /\ j < rn)

\* The round is staggered and its range is not behind the end of the disk.
Staggers == p.strategy = "stag" /\ ~Before /\ p.start <= capacity

\* How far the reading of the segment in hand has come.
ReadTo == IF pc = "chunk" THEN cpos ELSE pos + num

\* The segment in hand is the one the loops are at.
HandInv ==
    Reading \/ IsRead => pos = Place(sn, rn) /\ sn < segnum /\ rn < regnum

\* All segments of the range that were passed are covered, in the end all.
PassedInv ==
    \A i, j, x \in Nat :
      /\ i < segnum /\ j < regnum /\ x < capacity
      /\ (InStag /\ Passed(i, j)) \/ (pc = "done" /\ why = "end")
      /\ Place(i, j) <= x /\ x < Place(i, j) + seg
      => x \in covered

\* So is the segment in hand, as far as it was read.
PartInv ==
    Reading \/ IsRead => \A x \in Nat : pos <= x /\ x < ReadTo => x \in covered

\* Nothing else is covered.
OnlyInv ==
    \A x \in covered :
      \/ (Reading \/ IsRead) /\ pos <= x /\ x < ReadTo
      \/ \E i, j \in Nat : /\ i < segnum /\ (pc # "done" => Passed(i, j))
                           /\ Place(i, j) <= x /\ x < Place(i, j) + seg

StagInv == Staggers => HandInv /\ PassedInv /\ PartInv /\ OnlyInv

\* The loops of stgscrub() stay within uint64_t, and tell which segments begin
\* in the range.
LEMMA Loops ==
    ASSUME BaseInv, Staggers
    PROVE  /\ seg \in Nat \ {0} /\ reg \in Nat \ {0}
           /\ segnum \in Nat /\ regnum \in Nat
           /\ \A i \in Nat : i < segnum <=> i * seg < reg
           /\ \A j \in Nat : j < regnum <=> j * reg < capacity - p.start
           /\ \A i, j \in Nat :
                /\ Place(i, j) \in Nat
                /\ i < segnum /\ j < regnum => Place(i, j) < Word
<1> USE WordAssumption, BoundsAssumption DEF BaseInv
<1>1. seg \in Fit /\ reg \in Fit
  BY DEF PhaseInv, Staggers
<1>2. /\ p.start \in 0..MaxDev /\ capacity \in 0..MaxDev
      /\ p.start <= capacity
  BY ParamTypes DEF TypeInv, Staggers
<1>3. W(capacity - p.start) = capacity - p.start
  BY <1>2, WExact
<1>4. segnum \in Nat /\ \A i \in Nat : i < segnum <=> i * seg < reg
  <2>1. reg \in 0..(Word - 1) /\ seg \in Nat \ {0}
    BY <1>1 DEF Fit
  <2> QED  BY <2>1, Ceiling DEF segnum
<1>5. regnum \in Nat /\ \A j \in Nat : j < regnum <=> j * reg < capacity - p.start
  <2>1. capacity - p.start \in 0..(Word - 1) /\ reg \in Nat \ {0}
    BY <1>1, <1>2 DEF Fit
  <2> QED  BY <1>3, <2>1, Ceiling DEF regnum
<1>6. ASSUME NEW i \in Nat, NEW j \in Nat
      PROVE  /\ Place(i, j) \in Nat
             /\ i < segnum /\ j < regnum => Place(i, j) < Word
  <2>1. i * seg \in Nat /\ j * reg \in Nat
    BY <1>1 DEF Fit
  <2> QED  BY <1>1, <1>2, <1>4, <1>5, <2>1 DEF Place, Fit
<1> QED  BY <1>1, <1>4, <1>5, <1>6 DEF Fit

\* No step but scrubdev() changes the range, and with it the places.
LEMMA RangeFixed ==
    ASSUME UNCHANGED range
    PROVE  /\ p' = p /\ capacity' = capacity /\ seg' = seg /\ reg' = reg
           /\ segnum' = segnum /\ regnum' = regnum
           /\ \A i, j : Place(i, j)' = Place(i, j)
BY DEF range, segnum, regnum, lceil, W, Place

\* scrubdev(): nothing is passed yet.
LEMMA StagScrubdev ==
    ASSUME BaseInv, Scrubdev PROVE StagInv'
<1> SUFFICES ASSUME Staggers' PROVE (HandInv /\ PassedInv /\ PartInv /\ OnlyInv)'
  BY DEF StagInv
<1>1. pc' = "stag" /\ sn' = 0 /\ rn' = 0 /\ covered' = {} /\ why' = "none"
  BY DEF Scrubdev, Staggers, BaseInv, PhaseInv, Before, hist
<1> QED  BY <1>1 DEF HandInv, PassedInv, PartInv, OnlyInv, Passed, Reading, IsRead

\* A segment is handed over: it is the one the loops are at.
LEMMA StagTakes ==
    ASSUME BaseInv, StagInv, Staggers, StagSegment, pc' = "chunk" PROVE StagInv'
<1> USE DEF BaseInv
<1>1. /\ pos' = StagPos /\ cpos' = pos' /\ ret' = "stagnext" /\ covered' = covered
      /\ pc = "stag" /\ sn < segnum /\ rn < regnum /\ pos' < capacity
      /\ sn' = sn /\ rn' = rn /\ UNCHANGED <<range, why>>
  BY DEF StagSegment, StagLoop, Segread, hist
<1>2. Place(sn, rn) \in 0..(Word - 1) /\ sn \in Nat /\ rn \in Nat
  BY <1>1, Loops, WordAssumption DEF TypeInv
<1>3. pos' = Place(sn, rn)
  BY <1>1, <1>2, WExact DEF StagPos, Place
<1>4. HandInv /\ PassedInv /\ PartInv /\ OnlyInv
  BY DEF StagInv
<1>5. HandInv'
  BY <1>1, <1>3, RangeFixed DEF HandInv
<1>6. PassedInv'
  BY <1>1, <1>4, RangeFixed DEF PassedInv, InStag, Passed
<1>7. PartInv'
  BY <1>1, <1>2, <1>3 DEF PartInv, ReadTo
<1>8. OnlyInv'
  BY <1>1, <1>4, RangeFixed DEF OnlyInv, Reading, IsRead, Passed
<1> QED  BY <1>5, <1>6, <1>7, <1>8 DEF StagInv

\* A segment that would begin behind the range is passed over.
LEMMA StagSkips ==
    ASSUME BaseInv, StagInv, Staggers, StagSegment, pc' = pc PROVE StagInv'
<1> USE DEF BaseInv
<1>1. /\ pos' = StagPos /\ covered' = covered
      /\ pc = "stag" /\ sn < segnum /\ rn < regnum /\ pos' >= capacity
      /\ sn' = sn /\ rn' = rn + 1 /\ UNCHANGED <<range, why, ret>>
  BY DEF StagSegment, StagLoop, Segread, hist
<1>2. Place(sn, rn) \in 0..(Word - 1) /\ sn \in Nat /\ rn \in Nat
      /\ capacity \in Nat
  BY <1>1, Loops, WordAssumption DEF TypeInv
<1>3. Place(sn, rn) >= capacity
  BY <1>1, <1>2, WExact DEF StagPos, Place
<1>4. HandInv /\ PassedInv /\ PartInv /\ OnlyInv
  BY DEF StagInv
<1>5. HandInv' /\ PartInv'
  BY <1>1 DEF HandInv, PartInv, Reading, IsRead
<1>6. PassedInv'
  <2> SUFFICES ASSUME NEW i \in Nat, NEW j \in Nat, NEW x \in Nat,
                      i < segnum, j < regnum, x < capacity,
                      i < sn \/ (i = sn /\ j < rn + 1),
                      Place(i, j) <= x, x < Place(i, j) + seg
               PROVE  x \in covered
    BY <1>1, RangeFixed DEF PassedInv, Passed, InStag
  <2>1. ~(i = sn /\ j = rn)
    BY <1>2, <1>3
  <2>2. Passed(i, j)
    BY <1>2, <2>1 DEF Passed
  <2> QED  BY <1>1, <1>4, <2>2 DEF PassedInv, InStag
<1>7. OnlyInv'
  BY <1>1, <1>2, <1>4, RangeFixed DEF OnlyInv, Reading, IsRead, Passed
<1> QED  BY <1>5, <1>6, <1>7 DEF StagInv

\* The outer loop advances.
LEMMA StagTurns ==
    ASSUME BaseInv, StagInv, Staggers, StagNextSegment PROVE StagInv'
<1>1. /\ pc = "stag" /\ pc' = "stag" /\ rn >= regnum /\ sn' = sn + 1 /\ rn' = 0
      /\ covered' = covered /\ UNCHANGED <<range, why, ret>>
  BY DEF StagNextSegment, StagLoop, hist
<1>2. sn \in Nat /\ rn \in Nat /\ regnum \in Nat
  BY Loops DEF BaseInv, TypeInv
<1>3. HandInv /\ PassedInv /\ PartInv /\ OnlyInv
  BY DEF StagInv
<1>4. HandInv' /\ PartInv'
  BY <1>1 DEF HandInv, PartInv, Reading, IsRead
<1>5. PassedInv'
  <2> SUFFICES ASSUME NEW i \in Nat, NEW j \in Nat, NEW x \in Nat,
                      i < segnum, j < regnum, x < capacity,
                      i < sn + 1 \/ (i = sn + 1 /\ j < 0),
                      Place(i, j) <= x, x < Place(i, j) + seg
               PROVE  x \in covered
    BY <1>1, RangeFixed DEF PassedInv, Passed, InStag
  <2>1. Passed(i, j)
    BY <1>1, <1>2 DEF Passed
  <2> QED  BY <1>1, <1>3, <2>1 DEF PassedInv, InStag
<1>6. OnlyInv'
  BY <1>1, <1>2, <1>3, RangeFixed DEF OnlyInv, Reading, IsRead, Passed
<1> QED  BY <1>4, <1>5, <1>6 DEF StagInv

\* stgscrub() returns: all segments are passed.
LEMMA StagReturns ==
    ASSUME BaseInv, StagInv, Staggers, StagEnd PROVE StagInv'
<1>1. /\ pc = "stag" /\ pc' = "done" /\ sn >= segnum
      /\ covered' = covered /\ UNCHANGED range
  BY DEF StagEnd, StagLoop, Return, hist
<1>2. sn \in Nat /\ segnum \in Nat
  BY Loops DEF BaseInv, TypeInv
<1>3. HandInv /\ PassedInv /\ PartInv /\ OnlyInv
  BY DEF StagInv
<1>4. HandInv' /\ PartInv'
  BY <1>1 DEF HandInv, PartInv, Reading, IsRead
<1>5. PassedInv'
  <2> SUFFICES ASSUME NEW i \in Nat, NEW j \in Nat, NEW x \in Nat,
                      i < segnum, j < regnum, x < capacity,
                      Place(i, j) <= x, x < Place(i, j) + seg
               PROVE  x \in covered
    BY <1>1, RangeFixed DEF PassedInv
  <2>1. Passed(i, j)
    BY <1>1, <1>2 DEF Passed
  <2> QED  BY <1>1, <1>3, <2>1 DEF PassedInv, InStag
<1>6. OnlyInv'
  BY <1>1, <1>3, RangeFixed DEF OnlyInv, Reading, IsRead
<1> QED  BY <1>4, <1>5, <1>6 DEF StagInv

\* After a segment the inner loop advances, or the round is cut short.
LEMMA StagAdvances ==
    ASSUME BaseInv, StagInv, Staggers, StagNext PROVE StagInv'
<1> USE DEF BaseInv
<1>1. /\ pc = "stagnext" /\ covered' = covered /\ sn' = sn
      /\ UNCHANGED range
      /\ \/ pc' = "done" /\ why' # "end"
         \/ pc' = "stag" /\ rn' = rn + 1 /\ why' = why
  BY DEF StagNext, Bails, GoesOn, Return, hist
<1>2. sn \in Nat /\ rn \in Nat /\ regnum \in Nat /\ why = "none"
      /\ pos \in Nat /\ num \in Nat /\ num <= seg /\ seg \in Nat
      /\ capacity \in Nat /\ (pos + num >= capacity \/ num = seg)
  BY <1>1, Loops, WordAssumption DEF TypeInv, PhaseInv, SegmentInv, IsRead
<1>3. HandInv /\ PassedInv /\ PartInv /\ OnlyInv
  BY DEF StagInv
<1>4. pos = Place(sn, rn) /\ sn < segnum /\ rn < regnum /\ ReadTo = pos + num
  BY <1>1, <1>3 DEF HandInv, IsRead, ReadTo
<1>5. HandInv' /\ PartInv'
  BY <1>1 DEF HandInv, PartInv, Reading, IsRead
<1>6. PassedInv'
  <2> SUFFICES ASSUME NEW i \in Nat, NEW j \in Nat, NEW x \in Nat,
                      i < segnum, j < regnum, x < capacity,
                      i < sn \/ (i = sn /\ j < rn + 1),
                      Place(i, j) <= x, x < Place(i, j) + seg
               PROVE  x \in covered
    BY <1>1, RangeFixed DEF PassedInv, Passed, InStag
  <2>1. CASE i = sn /\ j = rn
    BY <1>1, <1>2, <1>3, <1>4, <2>1 DEF PartInv, IsRead
  <2>2. CASE ~(i = sn /\ j = rn)
    <3>1. Passed(i, j)
      BY <1>2, <2>2 DEF Passed
    <3> QED  BY <1>1, <1>3, <3>1 DEF PassedInv, InStag
  <2> QED  BY <2>1, <2>2
<1>7. OnlyInv'
  <2> SUFFICES ASSUME NEW x \in covered
               PROVE  \E i, j \in Nat :
                        /\ i < segnum
                        /\ pc' # "done" => i < sn \/ (i = sn /\ j < rn + 1)
                        /\ Place(i, j) <= x /\ x < Place(i, j) + seg
    BY <1>1, RangeFixed DEF OnlyInv, Passed
  <2>1. x \in Nat
    BY DEF TypeInv
  <2>2. CASE pos <= x /\ x < pos + num
    BY <1>2, <1>4, <2>1, <2>2
  <2>3. CASE ~(pos <= x /\ x < pos + num)
    <3>1. PICK i, j \in Nat : /\ i < segnum /\ Passed(i, j)
                              /\ Place(i, j) <= x /\ x < Place(i, j) + seg
      BY <1>1, <1>3, <1>4, <2>3 DEF OnlyInv
    <3>2. i < sn \/ (i = sn /\ j < rn + 1)
      BY <1>2, <3>1 DEF Passed
    <3> QED  BY <3>1, <3>2
  <2> QED  BY <2>2, <2>3
<1> QED  BY <1>5, <1>6, <1>7 DEF StagInv

\* A request of the segment in hand.
LEMMA StagReads ==
    ASSUME BaseInv, StagInv, Staggers, Chunk PROVE StagInv'
<1> USE DEF BaseInv
<1> DEFINE n == IF ccount > MaxVerify THEN MaxVerify ELSE ccount
<1>1. /\ pc = "chunk" /\ ret = "stagnext" /\ Reading /\ ret' = ret
      /\ pos' = pos /\ num' = num /\ sn' = sn /\ rn' = rn /\ UNCHANGED <<range, why>>
      /\ covered' = covered \cup cpos..(cpos + n - 1)
      /\ pc' = "chunk" \/ pc' = "stagnext"
  BY DEF Chunk, Staggers, PhaseInv, Before, InSeql, InFixed, TypeInv, Reading,
         range, loop
<1>2. /\ pos \in Nat /\ num \in Nat /\ cpos \in Nat /\ ccount \in Nat
      /\ pos <= cpos /\ cpos + ccount = pos + num /\ pos + num < Word
      /\ num <= seg /\ seg \in Nat /\ MaxVerify \in Nat /\ covered \subseteq Nat
      /\ ccount > 0
  BY <1>1, Loops, WordAssumption, BoundsAssumption DEF TypeInv, SegmentInv
<1>3. ReadTo' = cpos + n /\ ReadTo = cpos
  <2>1. CASE LastChunk(ccount)
    BY <1>1, <1>2, <2>1 DEF Chunk, LastChunk, ReadTo
  <2>2. CASE ~LastChunk(ccount)
    <3>1. cpos + MaxVerify \in 0..(Word - 1) /\ n = MaxVerify
      BY <1>2, <2>2, WordAssumption DEF LastChunk
    <3> QED  BY <1>1, <2>2, <3>1, WExact DEF Chunk, ReadTo
  <2> QED  BY <2>1, <2>2
<1>4. HandInv /\ PassedInv /\ PartInv /\ OnlyInv
  BY DEF StagInv
<1>5. HandInv'
  BY <1>1, <1>4, RangeFixed DEF HandInv
<1>6. PassedInv'
  BY <1>1, <1>4, RangeFixed DEF PassedInv, InStag, Passed
<1>7. PartInv'
  BY <1>1, <1>2, <1>3, <1>4 DEF PartInv
<1>8. OnlyInv'
  <2> SUFFICES ASSUME NEW x \in covered'
               PROVE  \/ pos <= x /\ x < cpos + n
                      \/ \E i, j \in Nat :
                           /\ i < segnum /\ Passed(i, j)
                           /\ Place(i, j) <= x /\ x < Place(i, j) + seg
    BY <1>1, <1>3, RangeFixed DEF OnlyInv, Reading, IsRead, Passed
  <2>1. CASE x \in covered
    BY <1>1, <1>2, <1>3, <1>4, <2>1 DEF OnlyInv
  <2>2. CASE x \in cpos..(cpos + n - 1)
    BY <1>2, <2>2
  <2> QED  BY <1>1, <2>1, <2>2
<1> QED  BY <1>5, <1>6, <1>7, <1>8 DEF StagInv

\* The staggered scan leaves no gap and reads nothing else.
LEMMA NextStag == ASSUME BaseInv, StagInv, [Next]_vars PROVE StagInv'
<1>1. CASE Scrubdev
  BY <1>1, StagScrubdev
<1>2. CASE ~Scrubdev
  <2>1. UNCHANGED range
    BY <1>2 DEF Next, vars, range, Warmup, SeqEnd, SeqSegment, SeqNext, StagEnd,
      StagDivides, StagNextSegment, StagSegment, StagNext, FixedTooSmall, FixedFirst, FixedNext,
      Chunk, Done
  <2> SUFFICES ASSUME Staggers' PROVE StagInv'
    BY DEF StagInv
  <2>2. ~Before
    BY <1>2 DEF Next, vars, Warmup, Segread, SeqEnd, SeqSegment, SeqNext, StagEnd,
      StagDivides, StagLoop, StagNextSegment, StagSegment, StagNext, FixedTooSmall, FixedFirst, FixedNext,
      Chunk, Done, Before, Staggers
  <2>3. Staggers
    BY <2>1, <2>2 DEF Staggers, range
  <2>4. ~(SeqEnd \/ SeqSegment \/ SeqNext \/ FixedTooSmall \/ FixedFirst \/ FixedNext)
    BY <2>3 DEF Staggers, BaseInv, PhaseInv, InSeql, InFixed, SeqEnd, SeqSegment,
      SeqNext, FixedTooSmall, FixedFirst, FixedNext
  <2>5. CASE UNCHANGED vars
    BY <2>1, <2>3, <2>5, RangeFixed
       DEF vars, loop, hist, StagInv, HandInv, PassedInv, PartInv, OnlyInv,
           Reading, IsRead, InStag, Passed, ReadTo
  <2>6. CASE StagSegment
    BY <2>3, <2>6, StagTakes, StagSkips DEF StagSegment, Segread
  <2>7. ~Warmup
    BY <2>2 DEF Warmup, Before
  <2> QED
    BY <1>2, <2>3, <2>4, <2>5, <2>6, <2>7, StagTurns, StagReturns, StagAdvances,
       StagReads, NoZeroDivide DEF Next, Done
<1> QED  BY <1>1, <1>2

-----------------------------------------------------------------------------
(* The results.                                                             *)

\* The invariant of the round.
IInv == BaseInv /\ SeqInv /\ StagInv

\* It holds in every reachable state of a round with moderate sizes.
LEMMA Inductive == Spec => [](Moderate => IInv)
<1>1. Init => (Moderate => IInv)
  <2>1. Init => Before /\ SeqInv
    BY DEF Init, Before, SeqInv, InSeql, Reading, IsRead
  <2> QED  BY <2>1, InitBase DEF IInv, StagInv, Staggers
<1>2. (Moderate => IInv) /\ [Next]_vars => (Moderate => IInv)'
  <2> SUFFICES ASSUME Moderate => IInv, [Next]_vars, Moderate' PROVE IInv'
    OBVIOUS
  <2>1. Moderate
    BY SameParams DEF Moderate
  <2> QED  BY <2>1, NextBase, NextSeq, NextStag DEF IInv
<1> QED  BY <1>1, <1>2, PTL DEF Spec

\* Every sector of the range lies in a segment of a region.
LEMMA EverySectorHasPlace ==
    ASSUME BaseInv, Staggers, NEW x \in Nat, p.start <= x, x < capacity
    PROVE  \E i, j \in Nat : /\ i < segnum /\ j < regnum
                             /\ Place(i, j) <= x /\ x < Place(i, j) + seg
<1> DEFINE y == x - p.start
           j == y \div reg
           z == y % reg
           i == z \div seg
<1>1. /\ seg \in Nat \ {0} /\ reg \in Nat \ {0}
      /\ \A k \in Nat : k < segnum <=> k * seg < reg
      /\ \A k \in Nat : k < regnum <=> k * reg < capacity - p.start
  BY Loops
<1>2. p.start \in Nat /\ capacity \in Nat
  BY ParamTypes, BoundsAssumption DEF BaseInv, TypeInv
<1>3. y \in Nat
  BY <1>2
<1> HIDE DEF y
<1>4. j \in Nat /\ z \in 0..(reg - 1) /\ y = j * reg + z
  BY <1>1, <1>3, Quotient
<1> HIDE DEF j, z
<1>5. i \in Nat /\ z % seg \in 0..(seg - 1) /\ z = i * seg + (z % seg)
  <2>1. z \in Nat
    BY <1>1, <1>4
  <2> QED  BY <1>1, <2>1, Quotient
<1> DEFINE t == z % seg
<1>6. t \in 0..(seg - 1) /\ z = i * seg + t
  BY <1>5
<1> HIDE DEF i, t
<1>7. i * seg \in Nat /\ j * reg \in Nat
  BY <1>1, <1>4, <1>5
<1>8. i < segnum
  BY <1>1, <1>4, <1>5, <1>6, <1>7
<1>9. j < regnum
  BY <1>1, <1>2, <1>3, <1>4, <1>7 DEF y
<1>10. Place(i, j) <= x /\ x < Place(i, j) + seg
  BY <1>1, <1>2, <1>3, <1>4, <1>6, <1>7 DEF Place, y
<1> QED  BY <1>4, <1>5, <1>8, <1>9, <1>10

\* A scanning round with moderate sizes that reaches its end has verified every
\* sector of its range, for every size of disk, segment, region and request.
THEOREM RoundIsComplete == Spec => [](Moderate => Complete)
<1>1. ASSUME IInv PROVE Complete
  <2> USE <1>1 DEF IInv
  <2> SUFFICES ASSUME pc = "done", why = "end", Scanning,
                      NEW x \in p.start..(capacity - 1)
               PROVE  x \in covered
    BY DEF Complete
  <2>1. x \in Nat /\ p.start <= x /\ x < capacity /\ p.start \in Nat /\ capacity \in Nat
    BY ParamTypes, BoundsAssumption DEF BaseInv, TypeInv
  <2>2. CASE p.strategy = "seql"
    BY <2>1, <2>2 DEF SeqInv
  <2>3. CASE p.strategy = "stag"
    <3>1. Staggers
      BY <2>1, <2>3 DEF Staggers, Before
    <3>2. PICK i, j \in Nat : /\ i < segnum /\ j < regnum
                              /\ Place(i, j) <= x /\ x < Place(i, j) + seg
      BY <2>1, <3>1, EverySectorHasPlace
    <3> QED  BY <2>1, <3>1, <3>2 DEF StagInv, PassedInv
  <2> QED  BY <2>2, <2>3 DEF Scanning
<1> QED  BY Inductive, <1>1, PTL

\* No request is empty, and none of a scanning strategy leaves the range.
THEOREM RequestsInRange == Spec => []InRange
<1>0. ASSUME ~Moderate PROVE InRange
  BY <1>0 DEF InRange
<1>1. ASSUME IInv PROVE InRange
  <2> USE <1>1 DEF IInv, BaseInv
  <2>1. pc = "chunk" => ccount > 0
    BY DEF SegmentInv
  <2> SUFFICES ASSUME pc = "chunk", ret \in {"seqlnext", "stagnext"},
                      p.start <= capacity
               PROVE  /\ cpos >= p.start
                      /\ seg <= capacity \/ pos = 0 => cpos + ccount <= capacity
    BY <2>1 DEF InRange
  <2>2. seg <= capacity \/ pos = 0 => cpos + ccount <= capacity
    BY DEF SegmentInv, Reading
  <2>3. pos <= cpos /\ pos \in Nat /\ cpos \in Nat /\ p.start \in Nat
    BY ParamTypes, WordAssumption, BoundsAssumption DEF SegmentInv, Reading, TypeInv
  <2>4. p.start <= pos
    <3>1. CASE ret = "seqlnext"
      BY <3>1 DEF SeqInv, PhaseInv, InSeql
    <3>2. CASE ret = "stagnext"
      <4>1. Staggers
        BY <3>2 DEF Staggers, PhaseInv, InStag, Before
      <4>2. pos = Place(sn, rn)
        BY <4>1 DEF StagInv, HandInv, Reading
      <4>3. sn * seg \in Nat /\ rn * reg \in Nat
        BY <4>1, Loops DEF TypeInv
      <4> QED  BY <2>3, <4>2, <4>3 DEF Place
    <3> QED  BY <3>1, <3>2
  <2> QED  BY <2>2, <2>3, <2>4
<1> QED  BY Inductive, <1>0, <1>1, PTL

\* Segments that divide the region do not overlap.
LEMMA PlacesDisjoint ==
    ASSUME BaseInv, Staggers, reg % seg = 0,
           NEW i \in Nat, NEW j \in Nat, NEW k \in Nat, NEW l \in Nat,
           i < segnum, k < segnum, Place(k, l) < Place(i, j) + seg,
           Place(i, j) < Place(k, l) + seg
    PROVE  i = k /\ j = l
<1>1. /\ seg \in Nat \ {0} /\ reg \in Nat \ {0}
      /\ i * seg < reg /\ k * seg < reg
  BY Loops
<1>2. p.start \in Nat
  BY ParamTypes, BoundsAssumption DEF BaseInv, TypeInv
<1> DEFINE m == reg \div seg
<1>3. m \in Nat /\ reg = m * seg
  <2>1. m \in Nat /\ reg = m * seg + (reg % seg)
    BY <1>1, Quotient
  <2> HIDE DEF m
  <2>2. m * seg \in Nat
    BY <1>1, <2>1
  <2> QED  BY <2>1, <2>2
<1> HIDE DEF m
<1>4. /\ i * seg \in Nat /\ k * seg \in Nat /\ j * reg \in Nat /\ l * reg \in Nat
      /\ j < l => j * reg + reg <= l * reg
      /\ l < j => l * reg + reg <= j * reg
      /\ i < k => i * seg + seg <= k * seg
      /\ k < i => k * seg + seg <= i * seg
  BY <1>1, Multiples
<1>5. i * seg + seg <= reg /\ k * seg + seg <= reg
  <2>1. /\ i < m => i * seg + seg <= m * seg
        /\ m <= i => m * seg <= i * seg
        /\ k < m => k * seg + seg <= m * seg
        /\ m <= k => m * seg <= k * seg
    BY <1>1, <1>3, Multiples
  <2> QED  BY <1>1, <1>3, <1>4, <2>1
<1> DEFINE a == i * seg
           b == k * seg
           c == j * reg
           d == l * reg
<1>6. p.start + d + b < p.start + c + a + seg /\ p.start + c + a < p.start + d + b + seg
  BY DEF Place
<1> HIDE DEF a, b, c, d
<1>7. j = l
  <2>1. /\ a \in Nat /\ b \in Nat /\ c \in Nat /\ d \in Nat
        /\ j < l => c + reg <= d
        /\ l < j => d + reg <= c
        /\ a + seg <= reg /\ b + seg <= reg
    BY <1>4, <1>5 DEF a, b, c, d
  <2> QED  BY <1>1, <1>2, <1>6, <2>1
<1>8. i = k
  <2>1. /\ a \in Nat /\ b \in Nat /\ c \in Nat /\ d = c
        /\ i < k => a + seg <= b
        /\ k < i => b + seg <= a
    BY <1>4, <1>7 DEF a, b, c, d
  <2> QED  BY <1>1, <1>2, <1>6, <2>1
<1> QED  BY <1>7, <1>8

\* No sector is verified twice in a round, for the sequential strategy and for
\* the staggered one when the segments divide the region.
THEOREM SectorsVerifiedOnce == Spec => []VerifiedOnce
<1>0. ASSUME ~Moderate PROVE VerifiedOnce
  BY <1>0 DEF VerifiedOnce
<1>1. ASSUME IInv PROVE VerifiedOnce
  <2> USE <1>1 DEF IInv, BaseInv
  <2> SUFFICES ASSUME pc = "chunk", ret \in {"seqlnext", "stagnext"},
                      p.start <= capacity, seg <= capacity,
                      p.strategy = "seql" \/ reg % seg = 0,
                      NEW x \in covered, x \in cpos..(cpos + ccount - 1)
               PROVE  FALSE
    BY DEF VerifiedOnce
  <2>1. /\ x \in Nat /\ cpos <= x /\ x < cpos + ccount
        /\ pos <= cpos /\ cpos + ccount = pos + num /\ num <= seg
        /\ pos \in Nat /\ cpos \in Nat /\ ccount \in Nat /\ num \in Nat /\ seg \in Nat
    BY WordAssumption DEF TypeInv, SegmentInv, Reading
  <2>2. CASE ret = "seqlnext"
    BY <2>1, <2>2 DEF SeqInv, PhaseInv, InSeql, Reading
  <2>3. CASE ret = "stagnext"
    <3>1. Staggers /\ reg % seg = 0
      BY <2>3 DEF Staggers, PhaseInv, InStag, Before
    <3>2. pos = Place(sn, rn) /\ sn < segnum /\ ReadTo = cpos
      BY <3>1 DEF StagInv, HandInv, Reading, ReadTo
    <3>3. PICK i, j \in Nat : /\ i < segnum /\ Passed(i, j)
                              /\ Place(i, j) <= x /\ x < Place(i, j) + seg
      BY <2>1, <3>1, <3>2 DEF StagInv, OnlyInv
    <3>4. sn \in Nat /\ rn \in Nat /\ Place(i, j) \in Nat
      BY <3>1, Loops DEF TypeInv
    <3>5. Place(sn, rn) < Place(i, j) + seg /\ Place(i, j) < Place(sn, rn) + seg
      BY <2>1, <3>2, <3>3, <3>4
    <3>6. i = sn /\ j = rn
      BY <3>1, <3>2, <3>3, <3>4, <3>5, PlacesDisjoint DEF BaseInv
    <3> QED  BY <3>3, <3>4, <3>6 DEF Passed
  <2> QED  BY <2>2, <2>3
<1> QED  BY Inductive, <1>0, <1>1, PTL
=============================================================================
