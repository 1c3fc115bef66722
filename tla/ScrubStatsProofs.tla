-------------------------- MODULE ScrubStatsProofs --------------------------
(***************************************************************************)
(* Proofs about ScrubStats, for any number of workers, requests and rounds *)
(* and any clock: the published request count is exact, and the times of a *)
(* scanning round are measured ones.                                       *)
(***************************************************************************)
EXTENDS ScrubStats, FiniteSetTheorems, TLAPS

Fields == [timed: BOOLEAN, ttime: Words, resp: Words, reqcount: Words]
Rounds == [timed: BOOLEAN, strategy: {"scan", "fixed"}, reqs: Nat, start: Nat,
           length: Nat, longest: Nat, back: BOOLEAN]

\* The types.
TypeInv ==
    /\ attr \in Fields /\ s \in Fields /\ cur \in Rounds /\ last \in Rounds
    /\ strategy \in {"scan", "fixed"}
    /\ mpc \in {"poll", "zero", "warmup", "stamp", "scan", "fixed", "first",
                "timedon", "stop", "record", "publish"}
    /\ now \in Epoch..MaxClock /\ ta \in Times
    /\ handed \in 0..MaxHandoffs /\ rounds \in 0..MaxRounds
    /\ wpc \in [Workers -> {"idle", "handed", "verify", "count"}]
    /\ va \in [Workers -> {Unset} \cup Times]
    /\ begun \in [Workers -> Times]
    /\ written \subseteq {"ttime", "reqcount"}

\* No worker has a job between kthread_stop() and the first hand-off.
QuietInv ==
    mpc \in {"poll", "zero", "warmup", "record", "publish"} =>
      \A w \in Workers : wpc[w] = "idle"

\* The workers that have executed a request and not counted it, and those that
\* have a job.
Uncounted == {w \in Workers : wpc[w] = "count"}
Running   == {w \in Workers : wpc[w] # "idle"}

\* The counter of the round lags behind its requests by the uncounted ones, and
\* does not wrap.
CountInv ==
    /\ cur.reqs = s.reqcount + Cardinality(Uncounted)
    /\ s.reqcount + Cardinality(Running) <= handed
    /\ last.reqs <= MaxHandoffs
    /\ mpc \in {"poll", "zero"} => s.reqcount = 0
    /\ CountExact

\* No time of a measured round lies in the future.
PastInv ==
    /\ Measured(cur) => /\ mpc # "poll" /\ cur.start <= now /\ ta <= now
                        /\ \A w \in Workers : begun[w] <= now
    /\ mpc = "poll" => ta = 0
    /\ ~Measured(cur) => cur.longest = 0 /\ \A w \in Workers : begun[w] = 0
    /\ \A w \in Workers : wpc[w] # "verify" => begun[w] = 0

\* The sums of a round start at 0; those of a scanning round are of measured
\* times.
TimeInv ==
    /\ cur.strategy = strategy
    /\ mpc \notin {"poll", "zero"} =>
         attr.resp = 0 /\ ("ttime" \notin written => attr.ttime = 0)
    /\ mpc # "publish" => s.ttime = 0
    /\ mpc \in {"poll", "zero"} => s.resp = 0
    /\ strategy = "scan" =>
         /\ mpc \notin {"fixed", "first", "timedon"}
         /\ s.timed <=> cur.timed
         /\ ~cur.timed => s.resp = 0 /\ s.ttime = 0
    /\ Measured(cur) =>
         /\ s.resp <= cur.reqs * cur.longest
         /\ \A w \in Workers : wpc[w] = "verify" => va[w] = begun[w]
         /\ mpc \in {"scan", "stop", "record"} => cur.start <= ta
         /\ mpc = "publish" => s.ttime <= now - cur.start
    /\ ScanTimes

IInv == TypeInv /\ QuietInv /\ CountInv /\ PastInv /\ TimeInv

USE DEF main, workers, hist

-----------------------------------------------------------------------------
\* The larger of two numbers.
LEMMA MaxOfTwo ==
    ASSUME NEW a \in Nat, NEW b \in Int
    PROVE  /\ Max({a, b}) \in Nat /\ Max({a, b}) >= a /\ Max({a, b}) >= b
<1>1. \E x \in {a, b} : \A y \in {a, b} : x >= y
  <2>1. CASE a >= b
    BY <2>1
  <2>2. CASE b >= a
    BY <2>2
  <2> QED  BY <2>1, <2>2
<1>2. /\ Max({a, b}) \in {a, b}
      /\ \A y \in {a, b} : Max({a, b}) >= y
  BY <1>1 DEF Max
<1> QED  BY <1>2

\* A word is its own remainder, and a remainder is a word no larger than what it
\* is taken of.
LEMMA WordMod ==
    /\ Word \in Nat \ {0}
    /\ \A n \in Int : (n % Word) \in Words
    /\ \A n \in Nat : n < Word => (n % Word) = n
    /\ \A n \in Nat : (n % Word) <= n
<1>1. Word \in Nat \ {0}
  BY BoundAssumption
<1>2. ASSUME NEW n \in Int PROVE (n % Word) \in Words
  BY <1>1 DEF Words
<1>3. ASSUME NEW n \in Nat PROVE (n < Word => (n % Word) = n) /\ (n % Word) <= n
  <2> DEFINE q == n \div Word
             r == n % Word
  <2>1. q \in Int /\ r \in 0..(Word - 1) /\ n = Word * q + r
    BY <1>1
  <2> HIDE DEF q, r
  <2>2. q >= 0
    <3>1. ASSUME q <= -1 PROVE FALSE
      <4>1. Word * q <= -Word
        BY <1>1, <2>1, <3>1
      <4>2. Word * q \in Int
        BY <1>1, <2>1
      <4> QED  BY <1>1, <2>1, <4>1, <4>2
    <3> QED  BY <2>1, <3>1
  <2>3. Word * q \in Nat
    BY <1>1, <2>1, <2>2
  <2>4. n < Word => q = 0
    <3>1. ASSUME n < Word, q >= 1 PROVE FALSE
      <4>1. Word * q >= Word
        BY <1>1, <2>1, <3>1
      <4> QED  BY <1>1, <2>1, <2>3, <3>1, <4>1
    <3> QED  BY <2>1, <2>2, <3>1
  <2>5. n < Word => Word * q = 0
    BY <1>1, <2>4
  <2>6. r <= n /\ (n < Word => r = n)
    BY <2>1, <2>3, <2>5
  <2> QED  BY <2>6 DEF r
<1> QED  BY <1>1, <1>2, <1>3

\* The counted sets are finite.
LEMMA UncountedFinite ==
    /\ IsFiniteSet(Uncounted) /\ Cardinality(Uncounted) \in Nat
    /\ IsFiniteSet(Uncounted') /\ Cardinality(Uncounted') \in Nat
    /\ IsFiniteSet(Running) /\ Cardinality(Running) \in Nat
    /\ IsFiniteSet(Running') /\ Cardinality(Running') \in Nat
<1>1. /\ IsFiniteSet(Uncounted) /\ IsFiniteSet(Uncounted')
      /\ IsFiniteSet(Running) /\ IsFiniteSet(Running')
  BY WorkersAssumption, FS_Subset DEF Uncounted, Running
<1> QED  BY <1>1, FS_CardinalityType

\* If no worker has a job, all requests are counted.
LEMMA QuietCounted ==
    ASSUME \A w \in Workers : wpc[w] = "idle"
    PROVE  Cardinality(Uncounted) = 0 /\ Cardinality(Running) = 0
<1>1. Uncounted = {} /\ Running = {}
  BY DEF Uncounted, Running
<1> QED  BY <1>1, FS_EmptySet

\* The idle scrubber satisfies the invariant.
LEMMA InitIInv == Init => IInv
<1> SUFFICES ASSUME Init PROVE IInv
  OBVIOUS
<1> USE ClockAssumption, BoundAssumption
<1>1. TypeInv
  BY DEF Init, TypeInv, Zero, NoRound, Fields, Rounds, Unset, Words, Times
<1>2. QuietInv
  BY DEF Init, QuietInv
<1>3. CountInv
  <2>1. Cardinality(Uncounted) = 0 /\ Cardinality(Running) = 0
    BY QuietCounted DEF Init
  <2> QED  BY <2>1 DEF Init, CountInv, CountExact, Zero, NoRound
<1>4. ~Measured(cur)
  BY DEF Init, Measured, NoRound
<1>5. PastInv
  BY <1>4 DEF Init, PastInv, NoRound
<1>6. TimeInv
  BY <1>4 DEF Init, TimeInv, ScanTimes, Zero, NoRound
<1> QED  BY <1>1, <1>2, <1>3, <1>5, <1>6 DEF IInv

-----------------------------------------------------------------------------
\* The stores of the attributes and the passing of time.
LEMMA StoreStep ==
    ASSUME IInv, StoreTimed \/ StoreTtime \/ StoreReqcount \/ Tick PROVE IInv'
<1> USE ClockAssumption, BoundAssumption, WritesAssumption DEF IInv
<1>1. TypeInv'
  <2>1. CASE StoreTimed
    BY <2>1 DEF TypeInv, StoreTimed, Fields
  <2>2. CASE StoreTtime
    BY <2>2 DEF TypeInv, StoreTtime, Fields, Words
  <2>3. CASE StoreReqcount
    BY <2>3 DEF TypeInv, StoreReqcount, Fields, Words
  <2>4. CASE Tick
    BY <2>4 DEF TypeInv, Tick
  <2> QED  BY <2>1, <2>2, <2>3, <2>4
<1>2. QuietInv'
  BY DEF QuietInv, StoreTimed, StoreTtime, StoreReqcount, Tick
<1>3. CountInv'
  <2>1. /\ Uncounted' = Uncounted /\ Running' = Running
        /\ UNCHANGED <<cur, last, s, mpc, handed>>
    BY DEF Uncounted, Running, StoreTimed, StoreTtime, StoreReqcount, Tick
  <2>2. CountExact'
    BY DEF CountInv, CountExact, TypeInv, Fields, StoreTimed, StoreTtime,
           StoreReqcount, Tick
  <2> QED  BY <2>1, <2>2 DEF CountInv
<1>4. /\ UNCHANGED <<cur, last, s, mpc, strategy, wpc, va, begun, ta>>
      /\ now' >= now /\ now' \in Nat
  BY DEF TypeInv, StoreTimed, StoreTtime, StoreReqcount, Tick
<1>5. Measured(cur)' <=> Measured(cur)
  BY <1>4 DEF Measured
<1>6. PastInv'
  BY <1>4, <1>5 DEF PastInv, TypeInv, Times, Rounds
<1>7. TimeInv'
  <2>1. /\ attr'.resp = attr.resp
        /\ "ttime" \notin written' => attr'.ttime = attr.ttime /\ "ttime" \notin written
    BY DEF TypeInv, Fields, StoreTimed, StoreTtime, StoreReqcount, Tick
  <2>2. ScanTimes'
    BY <1>4, <2>1 DEF TimeInv, ScanTimes
  <2>3. Measured(cur) /\ mpc = "publish" => s.ttime <= now' - cur.start
    BY <1>4 DEF TimeInv, TypeInv, Fields, Words, Rounds
  <2> QED  BY <1>4, <1>5, <2>1, <2>2, <2>3 DEF TimeInv
<1> QED  BY <1>1, <1>2, <1>3, <1>6, <1>7

\* The clock is set back: nothing is claimed any more of the times of a round.
LEMMA SetBackStep == ASSUME IInv, SetBack PROVE IInv'
<1> USE ClockAssumption, BoundAssumption DEF IInv, SetBack
<1>1. CASE mpc = "poll"
  <2>1. cur' = cur /\ ~Measured(cur)
    BY <1>1 DEF PastInv
  <2>2. ~Measured(cur)'
    BY <2>1 DEF Measured
  <2>3. TypeInv'
    BY <2>1 DEF TypeInv, Times
  <2>4. QuietInv'
    BY DEF QuietInv
  <2>5. CountInv'
    BY <2>1 DEF CountInv, CountExact, Uncounted, Running
  <2>6. PastInv'
    BY <2>1, <2>2 DEF PastInv
  <2>7. TimeInv'
    BY <2>1, <2>2 DEF TimeInv, ScanTimes
  <2> QED  BY <2>3, <2>4, <2>5, <2>6, <2>7
<1>2. CASE mpc # "poll"
  <2>1. /\ cur' = [timed |-> cur.timed, strategy |-> cur.strategy,
                   reqs |-> cur.reqs, start |-> 0, length |-> cur.length,
                   longest |-> 0, back |-> TRUE]
        /\ cur \in Rounds
    BY <1>2 DEF TypeInv, Rounds
  <2>2. /\ cur' \in Rounds /\ cur'.strategy = cur.strategy
        /\ cur'.reqs = cur.reqs /\ cur'.longest = 0
    BY ONLY <2>1 DEF Rounds
  <2>3. cur'.back /\ cur'.timed = cur.timed
    BY ONLY <2>1, Zenon DEF Rounds
  <2>4. ~Measured(cur)'
    BY <2>3 DEF Measured
  <2>5. TypeInv'
    BY <2>2 DEF TypeInv, Times
  <2>6. QuietInv'
    BY DEF QuietInv
  <2>7. CountInv'
    BY <2>2 DEF CountInv, CountExact, Uncounted, Running
  <2>8. PastInv'
    BY <1>2, <2>2, <2>4 DEF PastInv
  <2>9. TimeInv'
    BY <1>2, <2>2, <2>3, <2>4 DEF TimeInv, ScanTimes
  <2> QED  BY <2>5, <2>6, <2>7, <2>8, <2>9
<1> QED  BY <1>1, <1>2

\* The copy of the attributes starts a round with nothing executed.
LEMMA CopyStep == ASSUME IInv, MCopy PROVE IInv'
<1> USE ClockAssumption, BoundAssumption DEF IInv, MCopy, MainStep
<1>1. \A w \in Workers : wpc[w] = "idle"
  BY DEF QuietInv
<1>2. /\ s'.timed = attr.timed /\ s'.ttime = s.ttime /\ s'.resp = s.resp
      /\ s'.reqcount = s.reqcount /\ s' \in Fields
  BY DEF TypeInv, Fields
<1> DEFINE first == IF attr.timed /\ strategy' = "scan" THEN now ELSE 0
<1>3. first \in 0..now /\ first \in Nat
  BY DEF TypeInv
<1>4. cur' = [timed |-> attr.timed, strategy |-> strategy', reqs |-> 0,
              start |-> first, length |-> 0, longest |-> 0, back |-> FALSE]
  BY DEF NoRound
<1> HIDE DEF first
<1>5. cur' \in Rounds
  <2>1. attr.timed \in BOOLEAN /\ strategy' \in {"scan", "fixed"}
    BY DEF TypeInv, Fields
  <2> QED  BY ONLY <1>3, <1>4, <2>1 DEF Rounds
<1>6. cur'.timed = attr.timed
  BY ONLY <1>4, Zenon
<1>7. /\ cur'.strategy = strategy' /\ cur'.reqs = 0
      /\ cur'.start <= now /\ cur'.longest = 0
  BY ONLY <1>3, <1>4
<1>8. TypeInv'
  BY <1>2, <1>5 DEF TypeInv
<1>9. QuietInv'
  BY <1>1 DEF QuietInv
<1>10. CountInv'
  <2>1. Cardinality(Uncounted') = 0 /\ Running' = Running
    BY <1>1, FS_EmptySet DEF Uncounted, Running
  <2> QED  BY <1>2, <1>7, <2>1 DEF CountInv, CountExact
<1>11. PastInv'
  <2>1. ~Measured(cur) /\ ta = 0 /\ \A w \in Workers : begun[w] = 0
    BY DEF PastInv
  <2> QED  BY <1>7, <2>1 DEF PastInv, TypeInv
<1>12. TimeInv'
  BY <1>1, <1>2, <1>6, <1>7 DEF TimeInv, ScanTimes
<1> QED  BY <1>8, <1>9, <1>10, <1>11, <1>12

\* The zeroing of the counters.
LEMMA ZeroStep == ASSUME IInv, MZero PROVE IInv'
<1> USE ClockAssumption, BoundAssumption DEF IInv, MZero, MainStep
<1>1. \A w \in Workers : wpc[w] = "idle"
  BY DEF QuietInv
<1>2. /\ s'.timed = s.timed /\ s'.ttime = 0 /\ s'.resp = 0
      /\ s'.reqcount = 0 /\ s' \in Fields
      /\ attr'.timed = attr.timed /\ attr'.ttime = 0 /\ attr'.resp = 0
      /\ attr'.reqcount = attr.reqcount /\ attr' \in Fields
  <2>1. 0 \in Words
    BY WordMod DEF Words
  <2> QED  BY <2>1 DEF TypeInv, Fields
<1>3. TypeInv'
  BY <1>2 DEF TypeInv
<1>4. QuietInv'
  BY <1>1 DEF QuietInv
<1>5. CountInv'
  <2>1. Uncounted' = Uncounted /\ Running' = Running
    BY DEF Uncounted, Running
  <2> QED  BY <1>2, <2>1 DEF CountInv, CountExact
<1>6. Measured(cur)' <=> Measured(cur)
  BY DEF Measured
<1>7. PastInv'
  BY <1>6 DEF PastInv
<1>8. TimeInv'
  <2>1. s.resp = 0 /\ cur.reqs * cur.longest \in Nat
    BY DEF TimeInv, TypeInv, Rounds
  <2> QED  BY <1>2, <1>6, <2>1 DEF TimeInv, ScanTimes
<1> QED  BY <1>3, <1>4, <1>5, <1>7, <1>8

\* The steps of main that change no statistics: hand-offs, branches and the stop.
LEMMA MoveStep ==
    ASSUME IInv, MWarmup \/ MNoWarmup \/ MSegment \/ MTooSmall \/ MFirst
                 \/ MReturn \/ MStop
    PROVE  IInv'
<1> USE ClockAssumption, BoundAssumption
    DEF IInv, MWarmup, MNoWarmup, MSegment, MTooSmall, MFirst, MReturn, MStop,
        Handoff, MainStep
<1>1. /\ UNCHANGED <<attr, s, strategy, ta, rounds, va, begun, now, last, cur,
                    written>>
      /\ handed' \in 0..MaxHandoffs
      /\ wpc' \in [Workers -> {"idle", "handed", "verify", "count"}]
      /\ \A w \in Workers :
           /\ wpc'[w] = "count" <=> wpc[w] = "count"
           /\ wpc'[w] = "verify" <=> wpc[w] = "verify"
  BY DEF TypeInv
<1>2. <<mpc, mpc'>> \in {<<"warmup", "stamp">>, <<"scan", "scan">>,
        <<"fixed", "stop">>, <<"first", "timedon">>, <<"scan", "stop">>,
        <<"stop", "record">>}
  OBVIOUS
<1>3. TypeInv'
  BY <1>1, <1>2 DEF TypeInv
<1>4. QuietInv'
  BY <1>2 DEF QuietInv
<1>5. CountInv'
  <2>1. Uncounted' = Uncounted
    BY <1>1 DEF Uncounted
  <2>2. s.reqcount + Cardinality(Running') <= handed'
    <3>1. CASE MWarmup \/ MSegment \/ MFirst
      <4>1. PICK w \in Workers : /\ wpc[w] = "idle"
                                 /\ wpc' = [wpc EXCEPT ![w] = "handed"]
        BY <3>1
      <4>2. Running' = Running \cup {w} /\ w \notin Running
        BY <4>1 DEF Running, TypeInv
      <4>3. Cardinality(Running') = Cardinality(Running) + 1
        BY <4>2, UncountedFinite, FS_AddElement
      <4>4. handed' = handed + 1
        BY <3>1
      <4> QED  BY <4>3, <4>4, UncountedFinite DEF CountInv, TypeInv, Fields, Words
    <3>2. CASE MNoWarmup \/ MTooSmall \/ MReturn
      <4>1. Running' = Running /\ handed' = handed
        BY <3>2 DEF Running
      <4> QED  BY <4>1 DEF CountInv
    <3>3. CASE MStop
      <4>1. Running' = {} /\ handed' = handed
        BY <3>3 DEF Running
      <4>2. Cardinality(Running') = 0
        BY <4>1, FS_EmptySet
      <4> QED  BY <4>1, <4>2, UncountedFinite DEF CountInv, TypeInv, Fields, Words
    <3> QED  BY <3>1, <3>2, <3>3
  <2> QED  BY <1>1, <1>2, <2>1, <2>2 DEF CountInv, CountExact
<1>6. Measured(cur)' <=> Measured(cur)
  BY <1>1 DEF Measured
<1>7. PastInv'
  <2>1. mpc # "poll" /\ mpc' # "poll"
    BY <1>2
  <2> QED  BY ONLY <1>1, <1>6, <2>1, PastInv DEF PastInv
<1>8. TimeInv'
  <2>1. Measured(cur) => strategy = "scan"
    BY DEF Measured, TimeInv
  <2> QED  BY <1>1, <1>2, <1>6, <2>1 DEF TimeInv, ScanTimes
<1> QED  BY <1>3, <1>4, <1>5, <1>7, <1>8

\* The first clock reading of main.
LEMMA StampStep == ASSUME IInv, MStamp PROVE IInv'
<1> USE ClockAssumption, BoundAssumption DEF IInv, MStamp, StampAs, MainStep
<1>1. ta' \in 0..now /\ (s.timed => ta' = now)
  BY DEF TypeInv
<1>2. TypeInv'
  BY <1>1 DEF TypeInv, Times
<1>3. QuietInv'
  BY DEF QuietInv, TypeInv
<1>4. CountInv'
  <2>1. Uncounted' = Uncounted /\ Running' = Running
    BY DEF Uncounted, Running
  <2> QED  BY <2>1 DEF CountInv, CountExact, TypeInv
<1>5. Measured(cur)' <=> Measured(cur)
  BY DEF Measured
<1>6. PastInv'
  BY <1>1, <1>5 DEF PastInv, TypeInv
<1>7. TimeInv'
  <2>1. Measured(cur) => s.timed /\ cur.start <= now
    BY DEF Measured, TimeInv, PastInv
  <2> QED  BY <1>1, <1>5, <2>1 DEF TimeInv, ScanTimes, TypeInv
<1> QED  BY <1>2, <1>3, <1>4, <1>6, <1>7

\* fixedscrub() switches the timing off and on.
LEMMA TimedStep == ASSUME IInv, MTimedOff \/ MTimedOn PROVE IInv'
<1> USE ClockAssumption, BoundAssumption
    DEF IInv, MTimedOff, MTimedOn, SetTimed, MainStep
<1>1. /\ s'.ttime = s.ttime /\ s'.resp = s.resp /\ s'.reqcount = s.reqcount
      /\ s' \in Fields
      /\ UNCHANGED <<attr, strategy, ta, handed, rounds, wpc, va, begun, now,
                     last, cur, written>>
  BY DEF TypeInv, Fields
<1>2. strategy = "fixed" /\ mpc \in {"fixed", "timedon"} /\ mpc' \in {"first", "scan"}
  BY DEF TimeInv, TypeInv
<1>3. TypeInv'
  BY <1>1, <1>2 DEF TypeInv
<1>4. QuietInv'
  BY <1>2 DEF QuietInv
<1>5. CountInv'
  <2>1. Uncounted' = Uncounted /\ Running' = Running
    BY <1>1 DEF Uncounted, Running
  <2> QED  BY <1>1, <1>2, <2>1 DEF CountInv, CountExact
<1>6. ~Measured(cur) /\ ~Measured(cur)'
  BY <1>1, <1>2 DEF Measured, TimeInv
<1>7. PastInv'
  BY <1>1, <1>2, <1>6 DEF PastInv
<1>8. TimeInv'
  BY <1>1, <1>2, <1>6 DEF TimeInv, ScanTimes
<1> QED  BY <1>3, <1>4, <1>5, <1>7, <1>8

\* The time of the round is taken.
LEMMA RecordStep == ASSUME IInv, MRecord PROVE IInv'
<1> USE ClockAssumption, BoundAssumption DEF IInv, MRecord, MainStep
<1>1. now - ta \in Int /\ RoundTime \in Words
  BY WordMod DEF RoundTime, TypeInv, Times
<1>2. /\ s'.timed = s.timed /\ s'.resp = s.resp /\ s'.reqcount = s.reqcount
      /\ s'.ttime = IF s.timed THEN RoundTime ELSE s.ttime
      /\ s' \in Fields
  BY <1>1 DEF TypeInv, Fields
<1>3. TypeInv'
  BY <1>2 DEF TypeInv
<1>4. QuietInv'
  BY DEF QuietInv
<1>5. CountInv'
  <2>1. Uncounted' = Uncounted /\ Running' = Running
    BY DEF Uncounted, Running
  <2> QED  BY <1>2, <2>1 DEF CountInv, CountExact
<1>6. Measured(cur)' <=> Measured(cur)
  BY DEF Measured
<1>7. PastInv'
  BY <1>6 DEF PastInv
<1>8. Measured(cur) => s'.ttime <= now - cur.start
  <2> SUFFICES ASSUME Measured(cur) PROVE s'.ttime <= now - cur.start
    OBVIOUS
  <2>1. s.timed /\ cur.start <= ta /\ ta <= now
    BY DEF Measured, TimeInv, PastInv
  <2>2. now - ta \in Nat
    BY <2>1 DEF TypeInv, Times
  <2>3. RoundTime <= now - ta
    BY <2>2, WordMod DEF RoundTime
  <2> QED  BY <1>1, <1>2, <2>1, <2>3 DEF TypeInv, Times, Rounds, Words
<1>9. TimeInv'
  BY <1>2, <1>6, <1>8 DEF TimeInv, ScanTimes
<1> QED  BY <1>3, <1>4, <1>5, <1>7, <1>9

\* An average is at most the largest of what it averages.
LEMMA AverageBound ==
    ASSUME NEW sum \in Nat, NEW n \in Nat \ {0}, NEW most \in Nat,
           sum <= n * most
    PROVE  sum \div n \in Nat /\ sum \div n <= most
<1> DEFINE q == sum \div n
<1>1. q \in Nat /\ n * q <= sum
  OBVIOUS
<1> HIDE DEF q
<1>2. most < q => n * most + n <= n * q
  BY <1>1
<1>3. n * most \in Nat /\ n * q \in Nat
  BY <1>1
<1>4. q <= most
  BY <1>1, <1>2, <1>3
<1> QED  BY <1>1, <1>4 DEF q

\* The attributes are updated: no worker runs, so that the count is the one of
\* the round, and the average and the time are bounded.
LEMMA PublishStep == ASSUME IInv, MPublish PROVE IInv'
<1> USE ClockAssumption, BoundAssumption
    DEF IInv, MPublish, PublishAs, MainStep
<1>1. \A w \in Workers : wpc[w] = "idle"
  BY DEF QuietInv
<1>2. Cardinality(Uncounted) = 0 /\ Cardinality(Running) = 0
  BY <1>1, QuietCounted
<1>3. /\ cur.reqs = s.reqcount /\ s.reqcount <= MaxHandoffs
      /\ s.reqcount \in Nat /\ s.resp \in Nat /\ s.ttime \in Nat
  BY <1>2 DEF CountInv, TypeInv, Fields, Words
<1>4. Average \in Words
  <2>1. CASE s.reqcount = 0
    BY <2>1 DEF Average, Words
  <2>2. CASE s.reqcount # 0
    <3>1. s.resp <= s.reqcount * s.resp /\ s.resp \in 0..(Word - 1)
      BY <1>3, <2>2 DEF TypeInv, Fields, Words
    <3>2. s.resp \div s.reqcount \in Nat /\ s.resp \div s.reqcount <= s.resp
      BY <1>3, <2>2, <3>1, AverageBound
    <3> QED  BY <2>2, <3>1, <3>2 DEF Average, Words
  <2> QED  BY <2>1, <2>2
<1>5. /\ attr'.ttime = (IF s.ttime # 0 THEN s.ttime ELSE attr.ttime)
      /\ attr'.resp = (IF s.reqcount # 0 THEN Average ELSE attr.resp)
      /\ attr'.reqcount = s.reqcount /\ attr' \in Fields
  BY <1>4 DEF TypeInv, Fields
<1> DEFINE len == IF Measured(cur) THEN now - cur.start ELSE 0
<1>6. len \in Nat
  BY DEF PastInv, TypeInv, Rounds
<1>7. last' = [timed |-> cur.timed, strategy |-> cur.strategy, reqs |-> cur.reqs,
               start |-> 0, length |-> len, longest |-> cur.longest,
               back |-> cur.back]
  BY DEF TypeInv, Rounds
<1>8. /\ cur \in Rounds
      /\ s' = [timed |-> FALSE, ttime |-> 0, resp |-> 0, reqcount |-> 0]
      /\ cur' = [timed |-> FALSE, strategy |-> "scan", reqs |-> 0, start |-> 0,
                 length |-> 0, longest |-> 0, back |-> FALSE]
  BY DEF TypeInv, Zero, NoRound
<1> HIDE DEF len
<1>9. /\ last'.strategy = cur.strategy /\ last'.reqs = cur.reqs
      /\ last'.length = len /\ last'.longest = cur.longest /\ last' \in Rounds
  BY ONLY <1>6, <1>7, <1>8 DEF Rounds
<1>10. last'.timed = cur.timed /\ last'.back = cur.back
  BY ONLY <1>7, Zenon
<1>11. /\ s'.ttime = 0 /\ s'.resp = 0 /\ s'.reqcount = 0 /\ s' \in Fields
       /\ cur'.strategy = "scan" /\ cur'.reqs = 0 /\ cur'.longest = 0
       /\ cur' \in Rounds
  BY <1>8 DEF Fields, Rounds, Words
<1>12. ~s'.timed /\ ~cur'.timed
  BY ONLY <1>8, Zenon
<1>13. ~Measured(cur)'
  BY <1>12 DEF Measured
<1>14. TypeInv'
  BY <1>5, <1>9, <1>11 DEF TypeInv, Unset, Times
<1>15. QuietInv'
  BY <1>1 DEF QuietInv
<1>16. CountInv'
  <2>1. Cardinality(Uncounted') = 0 /\ Cardinality(Running') = 0
    BY <1>1, FS_EmptySet DEF Uncounted, Running
  <2> QED  BY <1>3, <1>5, <1>9, <1>11, <2>1 DEF CountInv, CountExact
<1>17. PastInv'
  <2>1. \A w \in Workers : begun[w] = 0
    BY <1>1 DEF PastInv
  <2> QED  BY <1>11, <1>13, <2>1 DEF PastInv
<1>18. ScanTimes'
  <2> SUFFICES ASSUME strategy = "scan", ~(cur.timed /\ cur.back)
               PROVE  /\ attr'.resp <= cur.longest
                      /\ "ttime" \notin written' => attr'.ttime <= len
    BY <1>9, <1>10 DEF ScanTimes, TimeInv
  <2>1. attr.resp = 0 /\ ("ttime" \notin written => attr.ttime = 0)
    BY DEF TimeInv
  <2>2. s.resp <= s.reqcount * cur.longest /\ s.ttime <= len
    <3>1. CASE cur.timed
      <4>1. Measured(cur)
        BY <3>1 DEF Measured, TimeInv
      <4> QED  BY <1>3, <4>1 DEF TimeInv, len
    <3>2. CASE ~cur.timed
      <4>1. s.resp = 0 /\ s.ttime = 0
        BY <3>2 DEF TimeInv
      <4>2. s.reqcount * cur.longest \in Nat
        BY <1>3 DEF TypeInv, Rounds
      <4> QED  BY <1>6, <4>1, <4>2
    <3> QED  BY <3>1, <3>2
  <2>3. attr'.resp <= cur.longest
    <3>1. cur.longest \in Nat
      BY DEF TypeInv, Rounds
    <3>2. CASE s.reqcount = 0
      BY <1>5, <2>1, <3>1, <3>2
    <3>3. CASE s.reqcount # 0
      <4>1. Average <= cur.longest
        BY <1>3, <2>2, <3>1, <3>3, AverageBound DEF Average
      <4> QED  BY <1>5, <3>3, <4>1
    <3> QED  BY <3>2, <3>3
  <2>4. "ttime" \notin written' => attr'.ttime <= len
    BY <1>5, <1>6, <2>1, <2>2
  <2> QED  BY <2>3, <2>4
<1>19. TimeInv'
  BY <1>1, <1>11, <1>12, <1>13, <1>18 DEF TimeInv
<1> QED  BY <1>14, <1>15, <1>16, <1>17, <1>19

-----------------------------------------------------------------------------
\* A worker starts a request.
LEMMA StartStep == ASSUME IInv, NEW w \in Workers, WStart(w) PROVE IInv'
<1> USE ClockAssumption, BoundAssumption DEF IInv, WStart, WorkerStep
<1>1. mpc \notin {"poll", "zero", "warmup", "record", "publish"}
  BY DEF QuietInv
<1>2. now \in Times
  BY DEF TypeInv, Times
<1>3. TypeInv'
  BY <1>2 DEF TypeInv
<1>4. QuietInv'
  BY <1>1 DEF QuietInv
<1>5. CountInv'
  <2>1. Uncounted' = Uncounted /\ Running' = Running
    BY DEF Uncounted, Running, TypeInv
  <2> QED  BY <2>1 DEF CountInv, CountExact
<1>6. Measured(cur)' <=> Measured(cur)
  BY DEF Measured
<1>7. PastInv'
  BY <1>1, <1>6 DEF PastInv, TypeInv
<1>8. TimeInv'
  <2>1. Measured(cur) => s.timed
    BY DEF Measured, TimeInv
  <2> QED  BY <1>1, <1>6, <2>1 DEF TimeInv, ScanTimes, TypeInv
<1> QED  BY <1>3, <1>4, <1>5, <1>7, <1>8

\* One more time that is not longer than the longest keeps the sum bounded.
LEMMA SumBound ==
    ASSUME NEW sum \in Nat, NEW n \in Nat, NEW most \in Nat, NEW d \in Nat,
           NEW more \in Nat, sum <= n * most, more >= most, more >= d
    PROVE  sum + d <= (n + 1) * more
<1>1. n * most <= n * more
  OBVIOUS
<1>2. (n + 1) * more = n * more + more
  OBVIOUS
<1>3. n * most \in Nat /\ n * more \in Nat
  OBVIOUS
<1> QED  BY <1>1, <1>2, <1>3

\* A request comes back, and its time is added if timing is on.
LEMMA DoneStep == ASSUME IInv, NEW w \in Workers, WDone(w) PROVE IInv'
<1> USE ClockAssumption, BoundAssumption DEF IInv, WDone, DoneIf, WorkerStep
<1>1. mpc \notin {"poll", "zero", "warmup", "record", "publish"}
  BY DEF QuietInv
<1> DEFINE d == now - begun[w]
           more == IF Measured(cur) THEN Max({cur.longest, d}) ELSE 0
<1>2. d \in Int /\ cur.longest \in Nat /\ cur.reqs \in Nat
  BY DEF TypeInv, Rounds, Times
<1>3. /\ more \in Nat
      /\ Measured(cur) => more >= d /\ more >= cur.longest /\ d \in Nat
      /\ ~Measured(cur) => more = 0
  <2>1. LET m == Max({cur.longest, d})
        IN  m \in Nat /\ m >= d /\ m >= cur.longest
    BY <1>2, MaxOfTwo
  <2>2. Measured(cur) => begun[w] <= now
    BY DEF PastInv
  <2>3. Measured(cur) => d \in Nat
    BY <1>2, <2>2 DEF TypeInv, Times
  <2> QED  BY <2>1, <2>3
<1> HIDE DEF d
<1>4. cur' = [cur EXCEPT !.reqs = @ + 1, !.longest = more]
  BY DEF d
<1> HIDE DEF more
<1>5. /\ cur \in Rounds
      /\ cur' = [timed |-> cur.timed, strategy |-> cur.strategy,
                 reqs |-> cur.reqs + 1, start |-> cur.start,
                 length |-> cur.length, longest |-> more, back |-> cur.back]
  BY <1>4 DEF TypeInv, Rounds
<1>6. /\ cur' \in Rounds /\ cur'.reqs = cur.reqs + 1 /\ cur'.longest = more
      /\ cur'.strategy = cur.strategy /\ cur'.start = cur.start
  BY ONLY <1>2, <1>3, <1>5 DEF Rounds
<1>7. cur'.timed = cur.timed /\ cur'.back = cur.back
  BY ONLY <1>5, Zenon
<1>8. Measured(cur)' <=> Measured(cur)
  BY <1>6, <1>7 DEF Measured
<1>9. PICK t \in IF va[w] = Unset THEN Words ELSE {va[w]} :
        s' = IF s.timed THEN [s EXCEPT !.resp = (@ + (now - t)) % Word] ELSE s
  OBVIOUS
<1>10. t \in Int /\ (s.resp + (now - t)) \in Int /\ s.resp \in Nat
  BY <1>9 DEF TypeInv, Unset, Times, Words, Fields
<1>11. ((s.resp + (now - t)) % Word) \in Words
  BY <1>10, WordMod
<1>12. /\ s' \in Fields /\ s'.timed = s.timed /\ s'.ttime = s.ttime
       /\ s'.reqcount = s.reqcount
       /\ s'.resp = IF s.timed THEN (s.resp + (now - t)) % Word ELSE s.resp
  BY <1>9, <1>11 DEF TypeInv, Fields
<1>13. TypeInv'
  BY <1>6, <1>12 DEF TypeInv, Times
<1>14. QuietInv'
  BY <1>1 DEF QuietInv
<1>15. CountInv'
  <2>1. Uncounted' = Uncounted \cup {w} /\ w \notin Uncounted /\ Running' = Running
    BY DEF Uncounted, Running, TypeInv
  <2>2. Cardinality(Uncounted') = Cardinality(Uncounted) + 1
    BY <2>1, UncountedFinite, FS_AddElement
  <2>3. s.reqcount \in Nat /\ Cardinality(Uncounted) \in Nat
    BY UncountedFinite DEF TypeInv, Fields, Words
  <2> QED  BY <1>1, <1>6, <1>12, <2>1, <2>2, <2>3 DEF CountInv, CountExact
<1>16. PastInv'
  BY <1>1, <1>3, <1>6, <1>8 DEF PastInv, TypeInv, Times
<1>17. Measured(cur) => s'.resp <= (cur.reqs + 1) * more
  <2> SUFFICES ASSUME Measured(cur) PROVE s'.resp <= (cur.reqs + 1) * more
    OBVIOUS
  <2>1. s.timed /\ s.resp <= cur.reqs * cur.longest /\ va[w] = begun[w]
    BY DEF TimeInv, Measured
  <2>2. va[w] # Unset
    BY <2>1, ClockAssumption DEF TypeInv, Unset, Times
  <2>3. now - t = d
    BY <1>9, <2>1, <2>2 DEF d
  <2>4. s.resp + d \in Nat /\ s'.resp = (s.resp + d) % Word
    BY <1>3, <1>10, <1>12, <2>1, <2>3
  <2>5. s'.resp <= s.resp + d
    BY <2>4, WordMod
  <2>6. s.resp + d <= (cur.reqs + 1) * more
    BY <1>2, <1>3, <1>10, <2>1, SumBound
  <2>7. s'.resp \in Nat /\ (cur.reqs + 1) * more \in Nat
    BY <1>2, <1>3, <1>12 DEF Fields, Words
  <2> QED  BY <2>4, <2>5, <2>6, <2>7
<1>18. strategy = "scan" /\ ~cur.timed => s'.resp = 0
  BY <1>12 DEF TimeInv
<1>19. TimeInv'
  BY <1>1, <1>6, <1>7, <1>8, <1>12, <1>17, <1>18 DEF TimeInv, ScanTimes, TypeInv
<1> QED  BY <1>13, <1>14, <1>15, <1>16, <1>19

\* A request is counted, in the round and in the attribute.
LEMMA CountStep == ASSUME IInv, NEW w \in Workers, WCount(w) PROVE IInv'
<1> USE ClockAssumption, BoundAssumption DEF IInv, WCount, WorkerStep
<1>1. mpc \notin {"poll", "zero", "warmup", "record", "publish"}
  BY DEF QuietInv
<1>2. /\ Uncounted' = Uncounted \ {w} /\ w \in Uncounted
      /\ Running' = Running \ {w} /\ w \in Running
  BY DEF Uncounted, Running, TypeInv
<1>3. /\ Cardinality(Uncounted') = Cardinality(Uncounted) - 1
      /\ Cardinality(Running') = Cardinality(Running) - 1
  BY <1>2, UncountedFinite, FS_RemoveElement
<1>4. /\ s.reqcount \in Nat /\ attr.reqcount \in Nat /\ last.reqs \in Nat
      /\ Cardinality(Uncounted) \in Nat /\ Cardinality(Running') \in Nat
      /\ handed <= MaxHandoffs
  BY UncountedFinite DEF TypeInv, Fields, Rounds, Words
<1>5. s.reqcount + 1 + Cardinality(Running') <= handed
  BY <1>3, <1>4, UncountedFinite DEF CountInv, TypeInv
<1>6. (s.reqcount + 1) % Word = s.reqcount + 1
  <2>1. s.reqcount + 1 < Word
    BY <1>4, <1>5 DEF TypeInv
  <2> QED  BY <1>4, <2>1, WordMod
<1>7. ((s.reqcount + 1) % Word) \in Words /\ ((attr.reqcount + 1) % Word) \in Words
  BY <1>4, WordMod
<1>8. /\ s' \in Fields /\ s'.timed = s.timed /\ s'.ttime = s.ttime
      /\ s'.reqcount = (s.reqcount + 1) % Word /\ s'.resp = s.resp
      /\ attr' \in Fields /\ attr'.timed = attr.timed /\ attr'.ttime = attr.ttime
      /\ attr'.reqcount = (attr.reqcount + 1) % Word /\ attr'.resp = attr.resp
  BY <1>7 DEF TypeInv, Fields
<1>9. TypeInv'
  BY <1>8 DEF TypeInv
<1>10. QuietInv'
  BY <1>1 DEF QuietInv
<1>11. CountExact'
  <2> SUFFICES ASSUME "reqcount" \notin written
               PROVE  attr'.reqcount = last.reqs + s'.reqcount
    BY DEF CountExact
  <2>1. attr.reqcount = last.reqs + s.reqcount /\ last.reqs <= MaxHandoffs
    BY DEF CountInv, CountExact
  <2>2. attr.reqcount + 1 < Word
    BY <1>4, <1>5, <2>1 DEF TypeInv
  <2>3. (attr.reqcount + 1) % Word = attr.reqcount + 1
    BY <1>4, <2>2, WordMod
  <2> QED  BY <1>4, <1>6, <1>8, <2>1, <2>3
<1>12. CountInv'
  BY <1>1, <1>3, <1>4, <1>5, <1>6, <1>8, <1>11 DEF CountInv
<1>13. Measured(cur)' <=> Measured(cur)
  BY DEF Measured
<1>14. PastInv'
  BY <1>13 DEF PastInv
<1>15. TimeInv'
  BY <1>1, <1>8, <1>13 DEF TimeInv, ScanTimes, TypeInv
<1> QED  BY <1>9, <1>10, <1>12, <1>14, <1>15

-----------------------------------------------------------------------------
\* The invariant is inductive.
LEMMA NextIInv == ASSUME IInv, [Next]_vars PROVE IInv'
<1>1. CASE UNCHANGED vars
  <2>1. Uncounted' = Uncounted /\ Running' = Running
    BY <1>1 DEF vars, Uncounted, Running
  <2> QED  BY <1>1, <2>1 DEF vars, IInv, TypeInv, QuietInv, CountInv, CountExact,
                             PastInv, Measured, TimeInv, ScanTimes
<1> QED
  BY <1>1, StoreStep, SetBackStep, CopyStep, ZeroStep, MoveStep, StampStep, TimedStep,
     RecordStep, PublishStep, StartStep, DoneStep, CountStep DEF Next

\* It holds in every reachable state.
LEMMA Inductive == Spec => []IInv
<1>1. IInv /\ [Next]_vars => IInv'
  BY NextIInv
<1> QED  BY InitIInv, <1>1, PTL DEF Spec

\* Every variable has its type: what is published is a word, whatever a worker
\* reads from a clock that was set back or from a va that was never set.
THEOREM StatsTypes == Spec => []TypeOK
<1>1. IInv => TypeOK
  BY DEF IInv, TypeInv, Fields, TypeOK
<1> QED  BY Inductive, <1>1, PTL

\* The attribute reqcount is the number of requests of the last round plus those
\* counted in this one, for any number of workers that count at the same time.
THEOREM ReqcountExact == Spec => []CountExact
<1>1. IInv => CountExact
  BY DEF IInv, CountInv
<1> QED  BY Inductive, <1>1, PTL

\* The times a sequential or staggered round leaves behind are 0 if it was not
\* timed; if it was, and nobody set the clock back, they are bounded by the length
\* of the round and of its longest request.
THEOREM TimesAreMeasured == Spec => []ScanTimes
<1>1. IInv => ScanTimes
  BY DEF IInv, TimeInv
<1> QED  BY Inductive, <1>1, PTL

=============================================================================
