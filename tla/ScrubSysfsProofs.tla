-------------------------- MODULE ScrubSysfsProofs --------------------------
(***************************************************************************)
(* Proofs about the sysfs stores: for every width of the integers, every   *)
(* capacity and every number a user may write.                             *)
(***************************************************************************)
EXTENDS ScrubSysfs, TLAPS

\* simple_strtoull() returns a uint64_t.
LEMMA UnsignedRange ==
    ASSUME NEW n \in Int
    PROVE  strtoull(n) \in 0..(Word - 1)
  <1>1. Word \in Nat \ {0}
    BY WordsAssumption
  <1>2. n >= 0 => n % Word \in 0..(Word - 1)
    BY <1>1
  <1> QED
    BY <1>1, <1>2 DEF strtoull

\* An int has the values -k to k - 1, and k of them are not negative.
LEMMA IntHalf ==
    \E k \in Nat : k > 1 /\ IntWord = 2 * k /\ IntWord \div 2 = k
  BY WordsAssumption

\* A number cut to an int is in the range of an int.
LEMMA SignedRange ==
    ASSUME NEW n \in Int
    PROVE  strtoint(n) \in (-(IntWord \div 2))..(IntWord \div 2 - 1)
  <1>1. PICK k \in Nat : k > 1 /\ IntWord = 2 * k /\ IntWord \div 2 = k
    BY IntHalf
  <1>2. IntWord \in Nat \ {0}
    BY <1>1
  <1>3. (n + k) % IntWord \in 0..(IntWord - 1)
    BY <1>1, <1>2
  <1> QED
    BY <1>1, <1>2, <1>3 DEF strtoint

-----------------------------------------------------------------------------
\* A store of a legal value keeps the types: scrub_attr_store() runs one store
\* under the lock, and a store writes its own field only.
LEMMA StoreKeepsTypes ==
    ASSUME TypeOK, NEW x \in Attrs, NEW v, Legal(x, v), Store(x, v)
    PROVE  TypeOK'
  <1>1. DOMAIN a' = Attrs
    BY DEF TypeOK, Store
  <1>2. ASSUME NEW y \in Attrs PROVE Legal(y, a'[y])
    BY DEF TypeOK, Store
  <1>3. (cap \in Caps /\ group \in Groups)'
    BY DEF TypeOK, Store
  <1> QED
    BY <1>1, <1>2, <1>3 DEF TypeOK, Legal

\* A store to another field leaves a field as it is.
LEMMA StoreElsewhere ==
    ASSUME TypeOK, NEW x \in Attrs, NEW v, Store(x, v),
           NEW y \in Attrs, y # x
    PROVE  a'[y] = a[y]
  BY DEF TypeOK, Store

\* The initial values of blk_init_scrub() are legal.
LEMMA InitTypes == Init => TypeOK
  <1> SUFFICES ASSUME Init PROVE TypeOK
    OBVIOUS
  <1>1. PICK k \in Nat : k > 1 /\ IntWord = 2 * k /\ IntWord \div 2 = k
    BY IntHalf
  <1>2. 1 \in 1..(IntWord \div 2 - 1)
    BY <1>1
  <1>3. {0, 2, 6} \subseteq 0..(Word - 1)
    BY WordsAssumption
  <1>4. ASSUME NEW x \in Attrs PROVE Legal(x, a[x])
    BY <1>2, <1>3 DEF Init, Attrs, Counters, Ranges, Sizes, Switches,
                      Strategies, Priorities, Legal
  <1> QED
    BY <1>4 DEF Init, TypeOK

\* Every number that a store computes is legal for its attribute.
LEMMA NumbersLegal ==
    ASSUME TypeOK, NEW n \in Int
    PROVE  /\ \A x \in Counters : Legal(x, counter(x, n))
           /\ \A x \in Sizes : Legal(x, size(x, n))
           /\ Legal("spoint", spoint("spoint", n))
           /\ Legal("scount", scount("scount", n))
           /\ Legal("threads", threads("threads", n))
           /\ Legal("vrprotect", vrprotect("vrprotect", n))
           /\ Legal("verbose", verbose("verbose", n))
  <1>1. strtoull(n) \in 0..(Word - 1) /\ 0 \in 0..(Word - 1)
    BY UnsignedRange, WordsAssumption
  <1>2. cap \in 0..(Word - 1)
    BY InputsAssumption DEF TypeOK
  <1>3. \A x \in Counters \cup Ranges :
           x \in Attrs /\ \A v \in 0..(Word - 1) : Legal(x, v)
    BY DEF Attrs, Legal, Counters, Ranges, Sizes, Switches
  <1>4. \A x \in Attrs : Legal(x, a[x])
    BY DEF TypeOK
  <1>5. \A x \in Counters : Legal(x, counter(x, n))
    BY <1>1, <1>3 DEF counter
  <1>6. \A x \in Sizes : Legal(x, size(x, n))
    BY <1>1, <1>2, <1>3, <1>4 DEF size, Ranges
  <1>7. Legal("spoint", spoint("spoint", n)) /\
        Legal("scount", scount("scount", n))
    BY <1>1, <1>2, <1>3 DEF spoint, scount, Ranges
  <1>8. Legal("threads", threads("threads", n))
    <2>1. a["threads"] \in 1..(IntWord \div 2 - 1)
      BY <1>4 DEF Attrs, Legal
    <2>2. ASSUME NEW v \in 1..(IntWord \div 2 - 1) PROVE Legal("threads", v)
      BY DEF Legal, Counters, Ranges, Sizes, Switches
    <2>3. PICK k \in Nat : k > 1 /\ IntWord = 2 * k /\ IntWord \div 2 = k
      BY IntHalf
    <2>4. strtoint(n) \in (-k)..(k - 1)
      BY <2>3, SignedRange
    <2> QED
      BY <2>1, <2>2, <2>3, <2>4 DEF threads
  <1>9. Legal("vrprotect", vrprotect("vrprotect", n)) /\
        Legal("verbose", verbose("verbose", n))
    BY <1>4 DEF vrprotect, verbose, Legal, Attrs, Counters, Ranges, Sizes,
                 Switches
  <1> QED
    BY <1>5, <1>6, <1>7, <1>8, <1>9

\* One step keeps the types.
LEMMA StepTypes == TypeOK /\ [Next]_vars => TypeOK'
  <1> SUFFICES ASSUME TypeOK, [Next]_vars PROVE TypeOK'
    OBVIOUS
  <1>0. \A n \in Inputs : n \in Int
    BY InputsAssumption
  <1>1. Counters \cup Ranges \cup Switches \cup
        {"threads", "vrprotect", "verbose", "state", "strategy", "priority"}
        \subseteq Attrs
    BY DEF Attrs
  <1>2. CASE StoreCounter
    BY <1>0, <1>1, <1>2, NumbersLegal, StoreKeepsTypes
       DEF StoreCounter, StoreNumber
  <1>3. CASE StoreSize
    BY <1>0, <1>1, <1>3, NumbersLegal, StoreKeepsTypes
       DEF StoreSize, StoreRange, Ranges
  <1>4. CASE StoreSpoint
    BY <1>0, <1>1, <1>4, NumbersLegal, StoreKeepsTypes
       DEF StoreSpoint, StoreRange, Ranges
  <1>5. CASE StoreScount
    BY <1>0, <1>1, <1>5, NumbersLegal, StoreKeepsTypes
       DEF StoreScount, StoreRange, Ranges
  <1>6. CASE StoreThreads
    BY <1>0, <1>1, <1>6, NumbersLegal, StoreKeepsTypes
       DEF StoreThreads, StoreNumber
  <1>7. CASE StoreVrp
    BY <1>0, <1>1, <1>7, NumbersLegal, StoreKeepsTypes
       DEF StoreVrp, StoreNumber
  <1>8. CASE StoreVerbose
    BY <1>0, <1>1, <1>8, NumbersLegal, StoreKeepsTypes
       DEF StoreVerbose, StoreNumber
  <1>9. CASE StoreSwitch
    <2>1. \A x \in Switches, v \in {0, 1} : Legal(x, v)
      BY DEF Legal, Switches, Counters, Ranges, Sizes
    <2> QED
      BY <1>1, <1>9, <2>1, StoreKeepsTypes DEF StoreSwitch, StoreName
  <1>10. CASE StoreState \/ StoreStrategy \/ StorePriority
    <2>1. /\ \A v \in 0..2 : Legal("state", v)
          /\ \A v \in Strategies : Legal("strategy", v)
          /\ \A v \in Priorities : Legal("priority", v)
      BY DEF Legal, Switches, Counters, Ranges, Sizes
    <2> QED
      BY <1>1, <1>10, <2>1, StoreKeepsTypes
         DEF StoreState, StoreStrategy, StorePriority, StoreName
  <1>11. CASE Revalidate
    BY <1>11 DEF Revalidate, TypeOK, Legal
  <1>12. CASE UNCHANGED vars
    BY <1>12 DEF vars, TypeOK, Legal
  <1> QED
    BY <1>2, <1>3, <1>4, <1>5, <1>6, <1>7, <1>8, <1>9, <1>10, <1>11, <1>12
       DEF Next

\* Whatever numbers and names are written, in any order and while the capacity
\* changes, every attribute stays in the range the scrubber relies on; in
\* particular threads, cut from a long to an int, stays positive.
THEOREM AttributesLegal == Spec => []TypeOK
  BY InitTypes, StepTypes, PTL DEF Spec

-----------------------------------------------------------------------------
(* The sizes. Only StoreSize writes them.                                   *)

\* A store to an attribute that is not a size leaves the sizes as they are.
LEMMA SizesElsewhere ==
    ASSUME TypeOK, SizesPositive, NEW x \in Attrs, x \notin Sizes,
           NEW v, Store(x, v)
    PROVE  SizesPositive'
  <1>1. \A y \in Sizes : y \in Attrs /\ y # x
    BY DEF Attrs, Ranges
  <1> QED
    BY <1>1, StoreElsewhere DEF SizesPositive

\* One step keeps the sizes positive.
LEMMA StepSizes == TypeOK /\ SizesPositive /\ [Next]_vars => SizesPositive'
  <1> SUFFICES ASSUME TypeOK, SizesPositive, [Next]_vars PROVE SizesPositive'
    OBVIOUS
  <1>1. CASE StoreSize
    <2>1. PICK x \in Sizes, n \in Inputs : Store(x, size(x, n))
      BY <1>1 DEF StoreSize, StoreRange
    <2>2. n \in Int /\ cap \in Caps /\ Caps \subseteq Nat
      BY InputsAssumption, WordsAssumption DEF TypeOK
    <2>3. strtoull(n) \in Nat
      BY <2>2, UnsignedRange, WordsAssumption
    <2>4. ASSUME 0 \notin Caps, NEW y \in Sizes PROVE a'[y] > 0
      <3>1. y \in Attrs /\ x \in Attrs
        BY DEF Attrs, Ranges
      <3>2. a[y] > 0
        BY <2>4 DEF SizesPositive
      <3>3. CASE y # x
        BY <2>1, <3>1, <3>2, <3>3, StoreElsewhere
      <3>4. CASE y = x
        <4>1. a'[x] = size(x, n)
          BY <2>1, <3>1 DEF Store, TypeOK
        <4>2. cap > 0
          BY <2>2, <2>4
        <4> QED
          BY <2>3, <3>2, <3>4, <4>1, <4>2 DEF size
      <3> QED
        BY <3>3, <3>4
    <2> QED
      BY <2>4 DEF SizesPositive
  <1>2. CASE StoreCounter \/ StoreSpoint \/ StoreScount \/ StoreThreads
               \/ StoreVrp \/ StoreVerbose \/ StoreSwitch \/ StoreState
               \/ StoreStrategy \/ StorePriority
    <2>1. PICK x \in Attrs \ Sizes : \E v : Store(x, v)
      BY <1>2 DEF StoreCounter, StoreSpoint, StoreScount, StoreThreads,
                  StoreVrp, StoreVerbose, StoreSwitch, StoreState,
                  StoreStrategy, StorePriority, StoreNumber, StoreRange,
                  StoreName, Attrs, Counters, Ranges, Sizes, Switches
    <2> QED
      BY <2>1, SizesElsewhere
  <1>3. CASE Revalidate \/ UNCHANGED vars
    BY <1>3 DEF Revalidate, vars, SizesPositive
  <1> QED
    BY <1>1, <1>2, <1>3 DEF Next

\* As long as the disk has a medium no sequence of writes makes segsize or
\* regsize 0: stgscrub() divides by them.
THEOREM SizesStayPositive == Spec => []SizesPositive
  <1>1. Init => SizesPositive
    BY DEF Init, SizesPositive, Sizes, Attrs, Ranges
  <1> QED
    BY <1>1, InitTypes, StepTypes, StepSizes, PTL DEF Spec

-----------------------------------------------------------------------------
(* Writing a value twice.                                                   *)

\* RetrySucceeds alone is not inductive: after the first write of a valid value
\* the attribute is back on the disk, if it does not have the value already.
RetryInv ==
    asked.attr \in Ranges /\ asked.value <= cap
       /\ ~(asked.attr \in Sizes /\ asked.value = 0)
    => /\ a[asked.attr] <= cap
       /\ asked.again => a[asked.attr] = asked.value

\* The four range stores, seen from the value: what is written if the old value
\* is on the disk, and something on the disk otherwise.
LEMMA RangeStore ==
    ASSUME TypeOK, NEW x \in Ranges, NEW n \in Int, NEW v,
           Store(x, v),
           asked' = [attr |-> x, value |-> strtoull(n),
                     again |-> asked.attr = x /\ asked.value = strtoull(n)],
           \/ x \in Sizes /\ v = size(x, n)
           \/ x = "spoint" /\ v = spoint(x, n)
           \/ x = "scount" /\ v = scount(x, n),
           RetryInv
    PROVE  RetryInv'
  <1>1. x \in Attrs /\ a'[x] = v /\ cap' = cap
    BY DEF Store, TypeOK, Attrs
  <1>2. a[x] \in Nat /\ cap \in Nat /\ strtoull(n) \in Nat
    <2>1. a[x] \in 0..(Word - 1) /\ cap \in 0..(Word - 1)
      BY <1>1, InputsAssumption DEF TypeOK, Legal
    <2> QED
      BY <2>1, UnsignedRange, WordsAssumption
  <1>3. asked'.attr = x /\ asked'.value = strtoull(n) /\
        (asked'.again => asked.attr = x /\ asked.value = strtoull(n))
    OBVIOUS
  <1>4. ASSUME strtoull(n) <= cap, ~(x \in Sizes /\ strtoull(n) = 0)
        PROVE  v <= cap /\ (a[x] <= cap => v = strtoull(n))
    BY <1>2, <1>4 DEF size, spoint, scount, OverCap
  <1> QED
    BY <1>1, <1>2, <1>3, <1>4 DEF RetryInv

\* One step keeps it.
LEMMA StepRetry == TypeOK /\ RetryInv /\ [Next]_vars => RetryInv'
  <1> SUFFICES ASSUME TypeOK, RetryInv, [Next]_vars PROVE RetryInv'
    OBVIOUS
  <1>0. \A n \in Inputs : n \in Int
    BY InputsAssumption
  <1>1. CASE StoreSize
    BY <1>0, <1>1, RangeStore DEF StoreSize, StoreRange, Ranges
  <1>2. CASE StoreSpoint \/ StoreScount
    BY <1>0, <1>2, RangeStore DEF StoreSpoint, StoreScount, StoreRange, Ranges
  <1>3. CASE asked' = Nothing
    BY <1>3 DEF RetryInv, Nothing, Ranges, Sizes
  <1>4. CASE UNCHANGED vars
    BY <1>4 DEF vars, RetryInv
  <1> QED
    BY <1>1, <1>2, <1>3, <1>4
       DEF Next, StoreCounter, StoreThreads, StoreVrp, StoreVerbose,
           StoreSwitch, StoreState, StoreStrategy, StorePriority, StoreNumber,
           StoreName, Revalidate

\* The range tests look at the old value, so a valid value may be refused or
\* replaced once; written a second time, it is accepted.
THEOREM RetryWorks == Spec => []RetrySucceeds
  <1>1. Init => RetryInv
    BY DEF Init, RetryInv, Nothing, Ranges, Sizes
  <1>2. RetryInv => RetrySucceeds
    BY DEF RetryInv, RetrySucceeds
  <1> QED
    BY <1>1, <1>2, InitTypes, StepTypes, StepRetry, PTL DEF Spec
=============================================================================
