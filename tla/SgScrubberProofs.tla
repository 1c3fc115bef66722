--------------------------- MODULE SgScrubberProofs ---------------------------
(***************************************************************************)
(* Theorems about SgScrubber, for devices, segments, regions and blocks of *)
(* any size.                                                               *)
(***************************************************************************)
EXTENDS SgScrubber, TLAPS

-----------------------------------------------------------------------------
(* Whole segments and regions.                                             *)

\* Quotient and remainder.
LEMMA Quotient ==
    ASSUME NEW n \in Nat, NEW d \in Nat \ {0}
    PROVE  /\ n \div d \in Nat /\ n % d \in 0..(d - 1)
           /\ n = (n \div d) * d + (n % d)
<1>1. /\ n \div d \in Nat /\ n % d \in 0..(d - 1)
      /\ n = d * (n \div d) + (n % d)
  OBVIOUS
<1> QED  BY <1>1

\* A factor that is larger by at least one adds at least one unit.
LEMMA Larger ==
    ASSUME NEW i \in Nat, NEW j \in Nat, NEW d \in Nat, i < j
    PROVE  i * d + d <= j * d
<1>1. PICK k \in Nat : j = i + 1 + k
  <2>1. j - i - 1 \in Nat /\ j = i + 1 + (j - i - 1)
    OBVIOUS
  <2> QED  BY <2>1
<1>2. j * d = i * d + d + k * d
  BY <1>1
<1>3. k * d \in Nat /\ i * d \in Nat
  BY <1>1
<1> QED  BY <1>2, <1>3

\* Quotient and remainder are the only ones.
LEMMA Unique ==
    ASSUME NEW n \in Nat, NEW d \in Nat \ {0}, NEW q \in Nat,
           NEW r0 \in 0..(d - 1), n = q * d + r0
    PROVE  n \div d = q /\ n % d = r0
<1> DEFINE q2 == n \div d
           r2 == n % d
<1>1. q2 \in Nat /\ r2 \in 0..(d - 1) /\ n = q2 * d + r2
  BY Quotient
<1> HIDE DEF q2, r2
<1>2. q * d \in Nat /\ q2 * d \in Nat
  BY <1>1
<1>3. ~(q2 < q)
  <2>1. q2 < q => q2 * d + d <= q * d
    BY <1>1, Larger
  <2> QED  BY <1>1, <1>2, <2>1
<1>4. ~(q < q2)
  <2>1. q < q2 => q * d + d <= q2 * d
    BY <1>1, Larger
  <2> QED  BY <1>1, <1>2, <2>1
<1>5. q2 = q
  BY <1>1, <1>3, <1>4
<1>6. r2 = r0
  BY <1>1, <1>5
<1> QED  BY <1>5, <1>6 DEF q2, r2

\* A multiple has a factor.
LEMMA Factor ==
    ASSUME NEW x \in Nat, NEW d \in Nat \ {0}, x % d = 0
    PROVE  \E i \in Nat : x = i * d
<1>1. x \div d \in Nat /\ x = (x \div d) * d + (x % d)
  BY Quotient
<1>2. (x \div d) * d \in Nat
  BY <1>1
<1>3. x = (x \div d) * d
  BY <1>1, <1>2
<1> QED  BY <1>1, <1>3

\* Between two multiples lies at least one whole unit, and the next multiple is
\* one unit further.
LEMMA Multiples ==
    ASSUME NEW x \in Nat, NEW y \in Nat, NEW d \in Nat \ {0}, x % d = 0
    PROVE  /\ (x + d) % d = 0
           /\ y % d = 0 /\ x < y => x + d <= y
<1>1. PICK i \in Nat : x = i * d
  BY Factor
<1>2. (x + d) % d = 0
  <2>1. x + d = (i + 1) * d + 0 /\ i + 1 \in Nat /\ 0 \in 0..(d - 1)
    BY <1>1
  <2>2. x + d \in Nat
    OBVIOUS
  <2> QED  BY ONLY <2>1, <2>2, d \in Nat \ {0}, Unique
<1>3. ASSUME y % d = 0, x < y PROVE x + d <= y
  <2>1. PICK j \in Nat : y = j * d
    BY <1>3, Factor
  <2>2. i < j
    <3>1. j < i => j * d + d <= i * d
      BY Larger
    <3>2. j * d \in Nat
      BY <2>1
    <3> QED  BY <1>1, <1>3, <2>1, <3>1, <3>2
  <2> QED  BY <1>1, <2>1, <2>2, Larger
<1> QED  BY <1>2, <1>3

\* lceil() counts the multiples below a number.
LEMMA Ceiling ==
    ASSUME NEW n \in Nat, NEW d \in Nat \ {0}, NEW k \in Nat
    PROVE  /\ lceil(n, d) \in Nat
           /\ k < lceil(n, d) <=> k * d < n
<1> DEFINE q == n \div d
           m == n % d
<1>1. q \in Nat /\ m \in 0..(d - 1) /\ n = q * d + m
  BY Quotient
<1>2. lceil(n, d) = IF m = 0 THEN q ELSE 1 + q
  BY DEF lceil, Magnitude
<1> HIDE DEF q, m
<1>3. k * d \in Nat /\ q * d \in Nat
  BY <1>1
<1>4. k < q => k * d + d <= q * d
  BY <1>1, Larger
<1>5. q < k => q * d + d <= k * d
  BY <1>1, Larger
<1>6. CASE m = 0
  BY <1>1, <1>2, <1>3, <1>4, <1>5, <1>6
<1>7. CASE m # 0
  BY <1>1, <1>2, <1>3, <1>4, <1>5, <1>7
<1> QED  BY <1>6, <1>7

\* lceil() of any number is a number.
LEMMA CeilingInt ==
    ASSUME NEW n \in Int, NEW d \in Nat \ {0}
    PROVE  lceil(n, d) \in Int
<1>1. Magnitude(n) \in Nat /\ Magnitude(d) = d
  BY DEF Magnitude
<1>2. Magnitude(n) \div d \in Nat
  BY <1>1, Quotient
<1> QED  BY <1>1, <1>2 DEF lceil

-----------------------------------------------------------------------------
(* The inductive invariant.                                                *)

TypeInv ==
    /\ a \in Arguments
    /\ pc \in {"scrubdev", "seql", "seqlread", "stag", "stagread", "done", "crashed"}
    /\ capacity \in Int /\ seg \in Int /\ reg \in Int /\ s \in Nat /\ r \in Nat
    /\ pc = "scrubdev" => covered = {} /\ ~twice /\ s = 0 /\ r = 0

SeqFits ==
    /\ seg \in 1..MaxVerify /\ capacity % seg = 0
    /\ a.lba = 0 /\ capacity <= Addresses

\* The sequential scan has verified what lies before its position.
SeqInv ==
    SeqFits /\ pc \in {"seql", "seqlread"} =>
      /\ ~twice /\ pos \in Nat /\ pos % seg = 0
      /\ pc = "seql" => covered = 0..(pos - 1) /\ (pos <= capacity \/ pos = 0)
      /\ pc = "seqlread" =>
           /\ pos < capacity /\ num = seg
           /\ \/ todo = seg /\ covered = 0..(pos - 1)
              \/ todo \in Int /\ todo <= 0 /\ covered = 0..(pos + seg - 1)

StagFits == SeqFits /\ reg > 0 /\ reg % seg = 0 /\ capacity % reg = 0

\* The blocks of the first j segments of every region, and of the next segment
\* of the first i regions.
Staggered(j, i) ==
    {b \in 0..(capacity - 1) :
        b % reg < j * seg \/ (b % reg < (j + 1) * seg /\ b < i * reg)}

\* The staggered scan has verified what its loop counters say.
StagInv ==
    StagFits /\ pc \in {"stag", "stagread"} =>
      /\ ~twice
      /\ pc = "stag" => covered = Staggered(s, r)
      /\ pc = "stagread" =>
           /\ s < segnum /\ r < regnum /\ StagPos <= capacity
           /\ pos = StagPos /\ num = seg
           /\ \/ todo = seg /\ covered = Staggered(s, r)
              \/ todo \in Int /\ todo <= 0 /\ covered = Staggered(s, r + 1)

IInv == TypeInv /\ SeqInv /\ StagInv

\* The remainder of a block of the i-th region is its distance from the start.
LEMMA InRegion ==
    ASSUME NEW b \in Nat, NEW d \in Nat \ {0}, NEW i \in Nat,
           i * d <= b, b < i * d + d
    PROVE  b % d = b - i * d
<1>1. i * d \in Nat
  OBVIOUS
<1> DEFINE o == b - i * d
<1>2. o \in 0..(d - 1) /\ b = i * d + o
  BY <1>1
<1> HIDE DEF o
<1>3. b % d = o
  BY <1>2, Unique
<1> QED  BY <1>3 DEF o

\* If the sizes fit, so does every segment that the staggered scan comes to.
LEMMA StagSegmentFits ==
    ASSUME TypeInv, StagFits, s < segnum, r < regnum, StagPos <= capacity
    PROVE  /\ s * seg \in Nat /\ r * reg \in Nat /\ capacity \in Nat
           /\ s * seg + seg <= reg /\ r * reg + reg <= capacity
           /\ StagPos = r * reg + s * seg /\ SegLen(StagPos) = seg
<1>1. /\ s \in Nat /\ r \in Nat /\ seg \in Nat \ {0} /\ reg \in Nat \ {0}
      /\ capacity \in Int /\ reg % seg = 0 /\ capacity % reg = 0
  BY DEF TypeInv, StagFits, SeqFits
<1>2. s * seg \in Nat /\ r * reg \in Nat
  BY <1>1
<1>3. capacity \in Nat /\ StagPos = r * reg + s * seg
  BY <1>1, <1>2 DEF StagPos
<1>4. s * seg < reg /\ r * reg < capacity
  BY <1>1, <1>3, Ceiling DEF segnum, regnum
<1>5. (s * seg) % seg = 0 /\ (r * reg) % reg = 0
  <2>1. s * seg = s * seg + 0 /\ r * reg = r * reg + 0
    BY <1>2
  <2>2. 0 \in 0..(seg - 1) /\ 0 \in 0..(reg - 1)
    BY <1>1
  <2> QED  BY <1>1, <1>2, <2>1, <2>2, Unique
<1>6. s * seg + seg <= reg
  BY <1>1, <1>2, <1>4, <1>5, Multiples
<1>7. r * reg + reg <= capacity
  BY <1>1, <1>2, <1>3, <1>4, <1>5, Multiples
<1>8. SegLen(StagPos) = seg
  BY <1>1, <1>2, <1>3, <1>6, <1>7 DEF SegLen
<1> QED  BY <1>2, <1>3, <1>6, <1>7, <1>8

\* The next segment is new, and it is what the counters count.
LEMMA NextSegmentIsNew ==
    ASSUME TypeInv, StagFits, s < segnum, r < regnum, StagPos <= capacity
    PROVE  LET blocks == StagPos..(StagPos + seg - 1)
           IN  /\ Staggered(s, r + 1) = Staggered(s, r) \cup blocks
               /\ Staggered(s, r) \cap blocks = {}
<1> DEFINE blocks == StagPos..(StagPos + seg - 1)
           S == s * seg
           R == r * reg
<1>1. /\ s \in Nat /\ r \in Nat /\ seg \in Nat \ {0} /\ reg \in Nat \ {0}
  BY DEF TypeInv, StagFits, SeqFits
<1>2. /\ S \in Nat /\ R \in Nat /\ capacity \in Nat
      /\ S + seg <= reg /\ R + reg <= capacity /\ StagPos = R + S
  BY StagSegmentFits
<1>3. (s + 1) * seg = S + seg /\ (r + 1) * reg = R + reg
  BY <1>1
<1>4. ASSUME NEW b \in Nat, R <= b, b < R + reg PROVE b % reg = b - R
  BY <1>1, <1>4, InRegion
<1> HIDE DEF S, R
<1>5. ASSUME NEW b \in blocks
      PROVE  /\ b \in 0..(capacity - 1) /\ b \in Staggered(s, r + 1)
             /\ b \notin Staggered(s, r)
  <2>1. b \in Nat /\ R <= b /\ b < R + reg /\ S <= b - R /\ b - R < S + seg
    BY <1>1, <1>2, <1>5
  <2>2. b % reg = b - R
    BY <1>4, <2>1
  <2>3. b \in 0..(capacity - 1)
    BY <1>1, <1>2, <2>1
  <2>4. ~(b % reg < S) /\ ~(b < R) /\ b % reg < S + seg
    BY <1>1, <1>2, <2>1, <2>2
  <2>5. b \notin Staggered(s, r)
    BY <2>4 DEF Staggered, S, R
  <2>6. b % reg < (s + 1) * seg /\ b < (r + 1) * reg
    BY <1>3, <2>1, <2>4
  <2> QED  BY <2>3, <2>5, <2>6 DEF Staggered
<1>6. ASSUME NEW b \in Staggered(s, r) PROVE b \in Staggered(s, r + 1)
  <2>1. /\ b \in 0..(capacity - 1)
        /\ b % reg < S \/ (b % reg < (s + 1) * seg /\ b < R)
    BY <1>6 DEF Staggered, S, R
  <2>2. b < R => b < (r + 1) * reg
    BY <1>1, <1>2, <1>3, <2>1
  <2> QED  BY <2>1, <2>2 DEF Staggered, S
<1>7. ASSUME NEW b \in Staggered(s, r + 1), b \notin Staggered(s, r)
      PROVE  b \in blocks
  <2>1. /\ b \in 0..(capacity - 1)
        /\ b % reg < S \/ (b % reg < S + seg /\ b < R + reg)
    BY <1>3, <1>7 DEF Staggered, S
  <2>2. ~(b % reg < S) /\ ~(b % reg < S + seg /\ b < R)
    BY <1>3, <1>7, <2>1 DEF Staggered, S, R
  <2>3. b \in Nat /\ R <= b /\ b < R + reg
    BY <1>1, <1>2, <2>1, <2>2
  <2>4. b % reg = b - R
    BY <1>4, <2>3
  <2> QED  BY <1>1, <1>2, <2>1, <2>2, <2>3, <2>4
<1> HIDE DEF blocks
<1>8. /\ Staggered(s, r + 1) = Staggered(s, r) \cup blocks
      /\ Staggered(s, r) \cap blocks = {}
  BY <1>5, <1>6, <1>7
<1> QED  BY <1>8 DEF blocks

\* After the last region, one more segment of all of them is verified.
LEMMA RegionsDone ==
    ASSUME TypeInv, StagFits, s < segnum, r >= regnum \/ StagPos > capacity
    PROVE  Staggered(s + 1, 0) = Staggered(s, r)
<1>1. /\ s \in Nat /\ r \in Nat /\ seg \in Nat \ {0} /\ reg \in Nat \ {0}
      /\ capacity \in Int
  BY DEF TypeInv, StagFits, SeqFits
<1>2. s * seg \in Nat /\ r * reg \in Nat /\ (s + 1) * seg = s * seg + seg
  BY <1>1
<1>3. ASSUME NEW b \in 0..(capacity - 1) PROVE b < r * reg
  <2>1. capacity \in Nat
    BY <1>1
  <2>2. regnum \in Nat /\ segnum \in Nat
    BY <1>1, <2>1, Ceiling DEF regnum, segnum
  <2>3. r < regnum => StagPos <= capacity
    <3> SUFFICES ASSUME r < regnum PROVE StagPos <= capacity
      OBVIOUS
    <3>1. s * seg < reg /\ r * reg < capacity
      BY <1>1, <2>1, Ceiling DEF regnum, segnum
    <3>2. (r * reg) % reg = 0
      <4>1. r * reg = r * reg + 0 /\ 0 \in 0..(reg - 1)
        BY <1>1, <1>2
      <4> QED  BY <1>1, <1>2, <4>1, Unique
    <3>3. r * reg + reg <= capacity
      BY <1>1, <1>2, <2>1, <3>1, <3>2, Multiples DEF StagFits
    <3> QED  BY <1>1, <1>2, <2>1, <3>1, <3>3 DEF StagPos
  <2>4. r >= regnum
    BY <1>1, <1>2, <2>1, <2>2, <2>3 DEF StagPos
  <2>5. ~(r * reg < capacity)
    BY <1>1, <2>1, <2>2, <2>4, Ceiling DEF regnum
  <2> QED  BY <1>1, <1>2, <2>1, <2>5
<1>4. ASSUME NEW b \in 0..(capacity - 1)
      PROVE  b \in Staggered(s + 1, 0) <=> b \in Staggered(s, r)
  <2>1. b \in Nat /\ b % reg \in Nat /\ ~(b < 0 * reg) /\ b < r * reg
    <3>1. b \in Nat /\ b < r * reg /\ 0 * reg = 0
      BY <1>1, <1>3
    <3>2. b % reg \in Nat
      BY <1>1, <3>1, Quotient
    <3> QED  BY <3>1, <3>2
  <2>2. b \in Staggered(s + 1, 0) <=> b % reg < (s + 1) * seg
    BY <1>1, <2>1 DEF Staggered
  <2>3. b \in Staggered(s, r) <=> b % reg < (s + 1) * seg
    BY <1>1, <1>2, <2>1 DEF Staggered
  <2> QED  BY <2>2, <2>3
<1>5. /\ Staggered(s + 1, 0) \subseteq 0..(capacity - 1)
      /\ Staggered(s, r) \subseteq 0..(capacity - 1)
  BY DEF Staggered
<1> QED  BY <1>4, <1>5

\* After the last segment, all blocks are verified; before the first, none.
LEMMA ScanBounds ==
    ASSUME TypeInv, StagFits
    PROVE  /\ Staggered(0, 0) = {}
           /\ s >= segnum => Staggered(s, r) = 0..(capacity - 1)
           /\ Staggered(s, r) \subseteq 0..(capacity - 1)
           /\ Staggered(s, r + 1) \subseteq 0..(capacity - 1)
<1>1. /\ s \in Nat /\ seg \in Nat \ {0} /\ reg \in Nat \ {0} /\ capacity \in Int
  BY DEF TypeInv, StagFits, SeqFits
<1>2. ASSUME NEW b \in 0..(capacity - 1)
      PROVE b \in Nat /\ b % reg \in 0..(reg - 1)
  BY <1>1, Quotient
<1>3. Staggered(0, 0) = {}
  <2>1. 0 * seg = 0 /\ 0 * reg = 0
    BY <1>1
  <2>2. ASSUME NEW b \in Staggered(0, 0) PROVE FALSE
    BY <1>1, <1>2, <2>1 DEF Staggered
  <2> QED  BY <2>2
<1>4. ASSUME s >= segnum PROVE Staggered(s, r) = 0..(capacity - 1)
  <2>1. ~(s * seg < reg) /\ s * seg \in Nat
    BY <1>1, <1>4, Ceiling DEF segnum
  <2>2. ASSUME NEW b \in 0..(capacity - 1) PROVE b % reg < s * seg
    BY <1>1, <1>2, <2>1
  <2> QED  BY <2>2 DEF Staggered
<1> QED  BY <1>3, <1>4 DEF Staggered

-----------------------------------------------------------------------------
(* The steps.                                                              *)

\* The values of the counters say which blocks are verified, not the step.
LEMMA StaggeredSame ==
    ASSUME UNCHANGED sizes, NEW j \in Nat, NEW i \in Nat, s' = j, r' = i
    PROVE  /\ Staggered(s, r)' = Staggered(j, i)
           /\ Staggered(s, r + 1)' = Staggered(j, i + 1)
BY DEF Staggered, sizes

\* Sizes that fit stay that way.
LEMMA FitsSame ==
    ASSUME UNCHANGED sizes
    PROVE  /\ SeqFits' <=> SeqFits
           /\ StagFits' <=> StagFits
           /\ segnum' = segnum /\ regnum' = regnum
BY DEF sizes, SeqFits, StagFits, segnum, regnum, lceil, Magnitude

\* Block 0 begins a segment.
LEMMA ZeroRemainder == ASSUME NEW d \in Nat \ {0} PROVE 0 % d = 0
<1>1. 0 = 0 * d + 0 /\ 0 \in 0..(d - 1)
  OBVIOUS
<1> QED  BY <1>1, Unique

\* Before the first step of a scan, no block is verified.
LEMMA NoneYet ==
    ASSUME NEW c \in Int, NEW g \in Nat, NEW h \in Nat \ {0}
    PROVE  {b \in 0..(c - 1) :
             b % h < 0 * g \/ (b % h < (0 + 1) * g /\ b < 0 * h)} = {}
<1>1. 0 * g = 0 /\ 0 * h = 0
  OBVIOUS
<1>2. ASSUME NEW b \in 0..(c - 1) PROVE b \in Nat /\ b % h \in Nat
  <2>1. b \in Nat
    OBVIOUS
  <2> QED  BY <2>1, Quotient
<1> QED  BY <1>1, <1>2

\* The invariant holds initially.
LEMMA InitIInv == Init => IInv
BY SgSizesAssumption DEF Init, IInv, TypeInv, SeqInv, StagInv

\* The conversion to blocks, and a failed stat().
LEMMA ScrubdevStep == ASSUME IInv, Scrubdev \/ ScrubdevFails PROVE IInv'
<1>1. CASE ScrubdevFails
  BY <1>1 DEF IInv, TypeInv, SeqInv, StagInv, ScrubdevFails, sizes
<1>2. CASE Scrubdev
  <2>1. /\ a \in Arguments /\ covered = {} /\ ~twice /\ s = 0 /\ r = 0
        /\ pc = "scrubdev"
    BY <1>2 DEF IInv, TypeInv, Scrubdev
  <2>2. /\ a.lba \in Int /\ a.bytes \in Int /\ a.segment \in Int
        /\ a.region \in Int /\ Block \in Nat \ {0}
    BY <2>1, SgSizesAssumption DEF Arguments
  <2>3. /\ seg' = lceil(a.segment, Block) /\ reg' = lceil(a.region, Block)
        /\ capacity' = lceil(a.bytes, Block) /\ pos' = a.lba
        /\ pc' \in {"seql", "stag"} /\ UNCHANGED <<a, s, r, covered, twice>>
    BY <1>2 DEF Scrubdev, hist
  <2>4. seg' \in Int /\ reg' \in Int
    BY <2>2, <2>3, CeilingInt
  <2>5. capacity' \in Int
    BY <2>2, <2>3, CeilingInt
  <2>6. TypeInv'
    BY <2>1, <2>3, <2>4, <2>5 DEF TypeInv
  <2>7. SeqInv'
    <3> SUFFICES ASSUME SeqFits', pc' = "seql"
                 PROVE  /\ ~twice' /\ pos' = 0 /\ pos' % seg' = 0
                        /\ covered' = 0..(pos' - 1)
      BY <2>3 DEF SeqInv
    <3>1. pos' = 0
      BY <2>3 DEF SeqFits
    <3>2. 0 % seg' = 0
      <4>1. seg' \in Nat \ {0}
        BY <2>4 DEF SeqFits
      <4> QED  BY <4>1, ZeroRemainder
    <3> QED  BY <2>1, <2>3, <3>1, <3>2
  <2>8. StagInv'
    <3> SUFFICES ASSUME StagFits', pc' = "stag"
                 PROVE  ~twice' /\ covered' = Staggered(s, r)'
      BY <2>3 DEF StagInv
    <3>1. /\ seg' \in Nat /\ reg' \in Nat \ {0} /\ capacity' \in Int
          /\ s' = 0 /\ r' = 0
      BY <2>1, <2>3, <2>4, <2>5, SgSizesAssumption DEF StagFits, SeqFits
    <3>2. Staggered(s, r)' = {}
      BY <3>1, NoneYet DEF Staggered
    <3> QED  BY <2>1, <2>3, <3>2
  <2> QED  BY <2>6, <2>7, <2>8 DEF IInv
<1> QED  BY <1>1, <1>2

\* A process that ends has nothing left to say.
LEMMA EndStep ==
    ASSUME IInv, UNCHANGED sizes, pc' \in {"done", "crashed"}, s' \in Nat, r' \in Nat
    PROVE  IInv'
BY DEF IInv, TypeInv, SeqInv, StagInv, sizes

\* One scan is over, and the next one begins with nothing verified.
LEMMA ScanDoneStep ==
    ASSUME IInv, NEW next \in {"stag", "done"}, ScanDone(next)
    PROVE  IInv'
<1>1. /\ pc' = next /\ covered' = {} /\ ~twice' /\ s' = 0 /\ r' = 0
      /\ UNCHANGED sizes
  BY DEF ScanDone
<1>2. TypeInv'
  BY <1>1 DEF IInv, TypeInv, sizes
<1>3. SeqInv'
  BY <1>1 DEF SeqInv
<1>4. StagInv'
  <2> SUFFICES ASSUME StagFits' PROVE covered' = Staggered(s, r)'
    BY <1>1 DEF StagInv
  <2>1. Staggered(s, r)' = Staggered(0, 0)
    BY <1>1, StaggeredSame
  <2>2. Staggered(0, 0) = {}
    BY <1>1, FitsSame, ScanBounds DEF IInv
  <2> QED  BY <1>1, <2>1, <2>2
<1> QED  BY <1>2, <1>3, <1>4 DEF IInv

\* A request of segread(): a segment that fits is one request.
LEMMA VerifyStep == ASSUME IInv, Verify PROVE IInv'
<1> DEFINE n == IF todo > MaxVerify THEN MaxVerify ELSE todo
           first == pos % Addresses
           blocks == first..(first + n - 1)
<1>1. /\ pc \in {"seqlread", "stagread"} /\ todo > 0
      /\ todo' = todo - MaxVerify
      /\ covered' = covered \cup blocks
      /\ twice' = (twice \/ covered \cap blocks # {})
      /\ UNCHANGED <<sizes, pc, pos, num, s, r>>
  BY DEF Verify
<1> HIDE DEF n, first
<1>2. TypeInv'
  BY <1>1 DEF IInv, TypeInv, sizes
<1>3. ASSUME seg \in Nat \ {0}, seg <= MaxVerify, todo = seg
      PROVE  n = seg /\ todo' \in Int /\ todo' <= 0
  BY <1>1, <1>3, SgSizesAssumption DEF n
<1>6. ASSUME pos \in Nat, pos < Addresses PROVE first = pos
  <2>1. pos = 0 * Addresses + pos /\ pos \in 0..(Addresses - 1)
    BY <1>6, SgSizesAssumption
  <2>2. Addresses \in Nat \ {0}
    BY SgSizesAssumption
  <2> QED  BY <1>6, <2>1, <2>2, Unique DEF first
<1>4. SeqInv'
  <2> SUFFICES ASSUME SeqFits', pc' = "seqlread"
               PROVE  /\ ~twice' /\ pos' \in Nat /\ pos' % seg' = 0
                      /\ pos' < capacity' /\ num' = seg'
                      /\ todo' \in Int /\ todo' <= 0
                      /\ covered' = 0..(pos' + seg' - 1)
    BY <1>1 DEF SeqInv
  <2>1. SeqFits /\ pc = "seqlread" /\ seg' = seg /\ capacity' = capacity
    BY <1>1, FitsSame DEF sizes
  <2>2. /\ ~twice /\ pos \in Nat /\ pos % seg = 0 /\ pos < capacity /\ num = seg
        /\ todo = seg /\ covered = 0..(pos - 1) /\ seg \in Nat \ {0}
        /\ seg <= MaxVerify
    BY <1>1, <2>1, SgSizesAssumption DEF IInv, SeqInv, SeqFits
  <2>3. n = seg /\ todo' \in Int /\ todo' <= 0
    BY <1>3, <2>2
  <2>8. pos < Addresses
    BY <2>1, <2>2, SgSizesAssumption DEF SeqFits, IInv, TypeInv
  <2>4. blocks = pos..(pos + seg - 1)
    BY <1>6, <2>2, <2>3, <2>8
  <2> HIDE DEF blocks
  <2>5. covered \cup blocks = 0..(pos + seg - 1) /\ covered \cap blocks = {}
    BY <2>2, <2>4
  <2>6. ~twice'
    BY <1>1, <2>2, <2>5
  <2>7. covered' = 0..(pos + seg - 1)
    BY <1>1, <2>5
  <2> QED  BY <1>1, <2>1, <2>2, <2>3, <2>6, <2>7
<1>5. StagInv'
  <2> SUFFICES ASSUME StagFits', pc' = "stagread"
               PROVE  /\ ~twice' /\ s' < segnum' /\ r' < regnum'
                      /\ StagPos' <= capacity' /\ pos' = StagPos' /\ num' = seg'
                      /\ todo' \in Int /\ todo' <= 0
                      /\ covered' = Staggered(s, r + 1)'
    BY <1>1 DEF StagInv
  <2>1. /\ StagFits /\ pc = "stagread" /\ seg' = seg /\ capacity' = capacity
        /\ segnum' = segnum /\ regnum' = regnum /\ StagPos' = StagPos
    BY <1>1, FitsSame DEF sizes, StagPos
  <2>2. /\ ~twice /\ s < segnum /\ r < regnum /\ StagPos <= capacity
        /\ pos = StagPos /\ num = seg /\ todo = seg /\ covered = Staggered(s, r)
        /\ seg \in Nat \ {0} /\ seg <= MaxVerify
    BY <1>1, <2>1, SgSizesAssumption DEF IInv, StagInv, StagFits, SeqFits
  <2>3. n = seg /\ todo' \in Int /\ todo' <= 0
    BY <1>3, <2>2
  <2>8. StagPos \in Nat /\ StagPos < Addresses
    <3>1. /\ s * seg \in Nat /\ r * reg \in Nat /\ capacity \in Nat
          /\ s * seg + seg <= reg /\ r * reg + reg <= capacity
          /\ StagPos = r * reg + s * seg
      BY <2>1, <2>2, StagSegmentFits DEF IInv
    <3>2. capacity <= Addresses /\ seg >= 1 /\ reg \in Int
      BY <2>1, <2>2 DEF StagFits, SeqFits, IInv, TypeInv
    <3> HIDE DEF StagPos
    <3> QED  BY <2>2, <3>1, <3>2, SgSizesAssumption
  <2>4. blocks = StagPos..(StagPos + seg - 1)
    BY <1>6, <2>2, <2>3, <2>8
  <2> HIDE DEF blocks
  <2>5. /\ Staggered(s, r + 1) = covered \cup blocks
        /\ covered \cap blocks = {}
    BY <2>1, <2>2, <2>4, NextSegmentIsNew DEF IInv
  <2>6. ~twice'
    BY <1>1, <2>2, <2>5
  <2>7. Staggered(s, r + 1)' = Staggered(s, r + 1)
    BY <1>1, StaggeredSame DEF IInv, TypeInv
  <2> QED  BY <1>1, <2>1, <2>2, <2>3, <2>5, <2>6, <2>7
<1> QED  BY <1>2, <1>4, <1>5 DEF IInv

\* The sequential scan comes to a segment.
LEMMA SeqSegmentStep == ASSUME IInv, SeqSegment PROVE IInv'
<1>1. /\ pc = "seql" /\ pos < capacity /\ pc' = "seqlread" /\ pos' = pos
      /\ num' = SegLen(pos) /\ todo' = SegLen(pos)
      /\ UNCHANGED <<sizes, s, r, covered, twice>>
  BY DEF SeqSegment, Segread, hist
<1>2. TypeInv'
  BY <1>1 DEF IInv, TypeInv, sizes
<1>3. SeqInv'
  <2> SUFFICES ASSUME SeqFits'
               PROVE  /\ ~twice' /\ pos' \in Nat /\ pos' % seg' = 0
                      /\ pos' < capacity' /\ num' = seg'
                      /\ todo' = seg' /\ covered' = 0..(pos' - 1)
    BY <1>1 DEF SeqInv
  <2>1. SeqFits /\ seg' = seg /\ capacity' = capacity
    BY <1>1, FitsSame DEF sizes
  <2>2. /\ ~twice /\ pos \in Nat /\ pos % seg = 0 /\ covered = 0..(pos - 1)
    BY <1>1, <2>1 DEF IInv, SeqInv
  <2>3. seg \in Nat \ {0} /\ capacity \in Nat /\ capacity % seg = 0
    BY <1>1, <2>1, <2>2, SgSizesAssumption DEF IInv, TypeInv, SeqFits
  <2>4. pos + seg <= capacity
    BY <1>1, <2>2, <2>3, Multiples
  <2>5. SegLen(pos) = seg
    BY <2>2, <2>3, <2>4 DEF SegLen
  <2> QED  BY <1>1, <2>1, <2>2, <2>5
<1>4. StagInv'
  BY <1>1 DEF StagInv
<1> QED  BY <1>2, <1>3, <1>4 DEF IInv

\* The sequential scan goes on.
LEMMA SeqNextStep == ASSUME IInv, SeqNext PROVE IInv'
<1>1. /\ pc = "seqlread" /\ todo <= 0 /\ pc' = "seql" /\ pos' = SeqAdvance
      /\ UNCHANGED <<sizes, s, r, covered, twice>>
  BY DEF SeqNext, hist
<1>2. TypeInv'
  BY <1>1 DEF IInv, TypeInv, sizes
<1>3. SeqInv'
  <2> SUFFICES ASSUME SeqFits'
               PROVE  /\ ~twice' /\ pos' \in Nat /\ pos' % seg' = 0
                      /\ covered' = 0..(pos' - 1) /\ pos' <= capacity'
    BY <1>1 DEF SeqInv
  <2>1. SeqFits /\ seg' = seg /\ capacity' = capacity
    BY <1>1, FitsSame DEF sizes
  <2>2. seg \in Nat \ {0} /\ capacity \in Int /\ capacity % seg = 0
    BY <1>1, <2>1, SgSizesAssumption DEF IInv, TypeInv, SeqFits
  <2>3. /\ ~twice /\ pos \in Nat /\ pos % seg = 0 /\ covered = 0..(pos + seg - 1)
        /\ pos < capacity /\ num = seg
    BY <1>1, <2>1, <2>2 DEF IInv, SeqInv
  <2>4. capacity \in Nat
    BY <2>2, <2>3
  <2>5. pos + seg <= capacity /\ (pos + seg) % seg = 0
    BY <2>2, <2>3, <2>4, Multiples
  <2>6. pos' = pos + seg
    BY <1>1, <2>2, <2>3, SgSizesAssumption DEF SeqAdvance
  <2> QED  BY <1>1, <2>1, <2>2, <2>3, <2>5, <2>6
<1>4. StagInv'
  BY <1>1 DEF StagInv
<1> QED  BY <1>2, <1>3, <1>4 DEF IInv

\* The staggered scan comes to a segment.
LEMMA StagSegmentStep == ASSUME IInv, StagSegment PROVE IInv'
<1>1. /\ pc = "stag" /\ s < segnum /\ r < regnum /\ StagPos <= capacity
      /\ pc' = "stagread" /\ pos' = StagPos
      /\ num' = SegLen(StagPos) /\ todo' = SegLen(StagPos)
      /\ UNCHANGED <<sizes, s, r, covered, twice>>
  BY DEF StagSegment, StagRuns, Segread, hist
<1>2. TypeInv'
  BY <1>1 DEF IInv, TypeInv, sizes
<1>3. SeqInv'
  BY <1>1 DEF SeqInv
<1>4. StagInv'
  <2> SUFFICES ASSUME StagFits'
               PROVE  /\ ~twice' /\ s' < segnum' /\ r' < regnum'
                      /\ StagPos' <= capacity' /\ pos' = StagPos' /\ num' = seg'
                      /\ todo' = seg' /\ covered' = Staggered(s, r)'
    BY <1>1 DEF StagInv
  <2>1. /\ StagFits /\ seg' = seg /\ capacity' = capacity
        /\ segnum' = segnum /\ regnum' = regnum /\ StagPos' = StagPos
    BY <1>1, FitsSame DEF sizes, StagPos
  <2>2. ~twice /\ covered = Staggered(s, r)
    BY <1>1, <2>1 DEF IInv, StagInv
  <2>3. SegLen(StagPos) = seg
    BY <1>1, <2>1, StagSegmentFits DEF IInv
  <2>4. Staggered(s, r)' = Staggered(s, r)
    BY <1>1, StaggeredSame DEF IInv, TypeInv
  <2> QED  BY <1>1, <2>1, <2>2, <2>3, <2>4
<1> QED  BY <1>2, <1>3, <1>4 DEF IInv

\* The staggered scan goes on to the next region.
LEMMA StagNextStep == ASSUME IInv, StagNext PROVE IInv'
<1>1. /\ pc = "stagread" /\ todo <= 0 /\ pc' = "stag" /\ r' = r + 1
      /\ UNCHANGED <<sizes, s, covered, twice>>
  BY DEF StagNext, hist
<1>2. TypeInv'
  BY <1>1 DEF IInv, TypeInv, sizes
<1>3. SeqInv'
  BY <1>1 DEF SeqInv
<1>4. StagInv'
  <2> SUFFICES ASSUME StagFits' PROVE ~twice' /\ covered' = Staggered(s, r)'
    BY <1>1 DEF StagInv
  <2>1. StagFits
    BY <1>1, FitsSame
  <2>2. seg \in Nat \ {0}
    BY <2>1, SgSizesAssumption DEF StagFits, SeqFits
  <2>3. ~twice /\ covered = Staggered(s, r + 1)
    BY <1>1, <2>1, <2>2 DEF IInv, StagInv
  <2>4. s \in Nat /\ r + 1 \in Nat
    BY DEF IInv, TypeInv
  <2>5. Staggered(s, r)' = Staggered(s, r + 1)
    BY <1>1, <2>4, StaggeredSame
  <2> QED  BY <1>1, <2>3, <2>5
<1> QED  BY <1>2, <1>3, <1>4 DEF IInv

\* The staggered scan goes on to the next segment of the regions.
LEMMA StagNextSegmentStep == ASSUME IInv, StagNextSegment PROVE IInv'
<1>1. /\ pc = "stag" /\ s < segnum /\ (r >= regnum \/ StagPos > capacity)
      /\ s' = s + 1 /\ r' = 0 /\ UNCHANGED <<sizes, pc, covered, twice>>
  BY DEF StagNextSegment, StagRuns, hist
<1>2. TypeInv'
  BY <1>1 DEF IInv, TypeInv, sizes
<1>3. SeqInv'
  BY <1>1 DEF SeqInv
<1>4. StagInv'
  <2> SUFFICES ASSUME StagFits' PROVE ~twice' /\ covered' = Staggered(s, r)'
    BY <1>1 DEF StagInv
  <2>1. StagFits
    BY <1>1, FitsSame
  <2>2. ~twice /\ covered = Staggered(s, r)
    BY <1>1, <2>1 DEF IInv, StagInv
  <2>3. s + 1 \in Nat
    BY DEF IInv, TypeInv
  <2>4. Staggered(s, r)' = Staggered(s + 1, 0)
    BY <1>1, <2>3, StaggeredSame
  <2>5. Staggered(s + 1, 0) = Staggered(s, r)
    BY <1>1, <2>1, RegionsDone DEF IInv
  <2> QED  BY <1>1, <2>2, <2>4, <2>5
<1> QED  BY <1>2, <1>3, <1>4 DEF IInv

\* Nothing happens.
LEMMA StutterStep == ASSUME IInv, UNCHANGED vars PROVE IInv'
<1>1. /\ UNCHANGED <<sizes, a, capacity, seg, reg, pc, pos, num, s, r, todo>>
      /\ UNCHANGED <<covered, twice>>
  BY DEF vars, sizes, hist
<1>2. TypeInv'
  BY <1>1 DEF IInv, TypeInv
<1>3. SeqInv'
  BY <1>1, FitsSame DEF IInv, SeqInv
<1>4. StagInv'
  <2>1. s \in Nat /\ r \in Nat
    BY DEF IInv, TypeInv
  <2>2. /\ Staggered(s, r)' = Staggered(s, r)
        /\ Staggered(s, r + 1)' = Staggered(s, r + 1)
    BY <1>1, <2>1, StaggeredSame
  <2>3. StagPos' = StagPos
    BY <1>1 DEF StagPos
  <2> QED  BY <1>1, <2>2, <2>3, FitsSame DEF IInv, StagInv
<1> QED  BY <1>2, <1>3, <1>4 DEF IInv

\* The invariant of a run of sg_scrubber.
THEOREM Inductive == Spec => []IInv
<1>1. ASSUME IInv, Next PROVE IInv'
  <2>1. CASE Crash
    BY <1>1, <2>1, EndStep DEF Crash, IInv, TypeInv
  <2>2. CASE SeqFails \/ SeqEnd \/ StagFails \/ StagEnd
    BY <1>1, <2>2, ScanDoneStep DEF SeqFails, SeqEnd, StagFails, StagEnd, AfterSeql
  <2>3. CASE Gone
    BY <1>1, <2>3, StutterStep DEF Gone
  <2> QED
    BY <1>1, <2>1, <2>2, <2>3, ScrubdevStep, VerifyStep, SeqSegmentStep, SeqNextStep,
       StagSegmentStep, StagNextStep, StagNextSegmentStep DEF Next
<1>2. IInv /\ [Next]_vars => IInv'
  BY <1>1, StutterStep
<1> QED  BY <1>2, InitIInv, PTL DEF Spec

\* With sizes that fit, both scans of sg_scrubber verify, each once, as many logical
\* blocks as the device has blocks of st_blksize bytes, and no others: the rest of
\* the device, if a logical block is smaller, is never verified.
THEOREM ScansAreExact == Spec => []ScansExactly
<1>1. IInv => ScansExactly
  <2> DEFINE device == 0..(a.bytes \div Sector - 1)
             Ended == \/ pc = "seql" /\ pos >= capacity
                      \/ pc = "stag" /\ s >= segnum
  <2> SUFFICES ASSUME IInv, Fits, pc \in {"seql", "seqlread", "stag", "stagread"}
               PROVE  /\ ~twice
                      /\ covered \subseteq 0..(capacity - 1)
                      /\ Ended => /\ covered = 0..(capacity - 1)
                                  /\ device \ covered = {b \in device : b >= capacity}
    BY DEF ScansExactly
  <2>1. /\ ~twice
        /\ covered \subseteq 0..(capacity - 1)
        /\ Ended => covered = 0..(capacity - 1)
    <3>1. SeqFits /\ seg \in Nat \ {0} /\ capacity \in Int
      BY SgSizesAssumption DEF Fits, SeqFits, IInv, TypeInv
    <3>2. CASE pc \in {"seql", "seqlread"}
      <4>1. ~twice /\ pos \in Nat /\ pos % seg = 0
        BY <3>1, <3>2 DEF IInv, SeqInv
      <4>2. CASE pc = "seql"
        <5>1. covered = 0..(pos - 1) /\ (pos <= capacity \/ pos = 0)
          BY <3>1, <4>2 DEF IInv, SeqInv
        <5> QED  BY <3>1, <4>1, <4>2, <5>1
      <4>3. CASE pc = "seqlread"
        <5>1. /\ pos < capacity
              /\ covered = 0..(pos - 1) \/ covered = 0..(pos + seg - 1)
          BY <3>1, <4>3 DEF IInv, SeqInv
        <5>2. capacity \in Nat /\ capacity % seg = 0
          BY <3>1, <4>1, <5>1 DEF SeqFits
        <5>3. pos + seg <= capacity
          BY <3>1, <4>1, <5>1, <5>2, Multiples
        <5> QED  BY <3>1, <4>1, <4>3, <5>1, <5>3
      <4> QED  BY <3>2, <4>2, <4>3
    <3>3. CASE pc \in {"stag", "stagread"}
      <4>1. StagFits
        BY <3>1, <3>3 DEF Fits, StagFits
      <4>2. /\ ~twice
            /\ covered = Staggered(s, r) \/ covered = Staggered(s, r + 1)
            /\ pc = "stag" => covered = Staggered(s, r)
        BY <3>3, <4>1 DEF IInv, StagInv
      <4> QED  BY <3>3, <4>1, <4>2, ScanBounds DEF IInv
    <3> QED  BY <3>2, <3>3
  <2>2. device \subseteq Nat /\ capacity \in Int
    <3>1. Sector \in Nat \ {0} /\ a.bytes \in Int
      BY SgSizesAssumption DEF IInv, TypeInv, Arguments
    <3>2. a.bytes \div Sector \in Int
      BY <3>1
    <3>3. device \subseteq Nat
      BY <3>2
    <3>4. capacity \in Int
      BY DEF IInv, TypeInv
    <3> QED  BY <3>3, <3>4
  <2>3. ASSUME covered = 0..(capacity - 1)
        PROVE  device \ covered = {b \in device : b >= capacity}
    <3> HIDE DEF device
    <3>1. ASSUME NEW b \in device PROVE b \notin covered <=> b >= capacity
      BY <2>2, <2>3, <3>1
    <3> QED  BY <3>1
  <2> QED  BY <2>1, <2>3
<1> QED  BY <1>1, Inductive, PTL
=============================================================================
