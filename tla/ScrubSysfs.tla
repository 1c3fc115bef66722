----------------------------- MODULE ScrubSysfs -----------------------------
(***************************************************************************)
(* The stores of the scrubber's sysfs attributes: what values a sequence   *)
(* of writes leaves in struct disk_scrubber for the next round to copy.    *)
(* Every store runs under sysfs_lock (scrub_attr_store()), so it is one    *)
(* step.  The capacity of the disk changes when its medium does.           *)
(***************************************************************************)
EXTENDS Integers

CONSTANTS
    Word,     \* number of values of a uint64_t
    IntWord,  \* number of values of an int
    Inputs,   \* the numbers that users write
    Groups,   \* the sets of attributes whose writes are interleaved
    Caps      \* capacities of the disk, in sectors

ASSUME WordsAssumption ==
    /\ Word \in Nat /\ Word > 6
    /\ IntWord \in Nat /\ \E k \in 2..IntWord : IntWord = 2 * k
ASSUME InputsAssumption ==
    Inputs \subseteq Int /\ Caps \subseteq 0..(Word - 1)

Strategies == {"seql", "stag", "fixed"}
Priorities == {"realtime", "idlechk"}
Counters   == {"reqbound", "ttime_ms", "reqcount", "delayms"}
Sizes      == {"segsize", "regsize"}
Ranges     == Sizes \cup {"spoint", "scount"}
Switches   == {"dpo", "timed"}
Attrs      == Counters \cup Ranges \cup Switches \cup
              {"threads", "vrprotect", "verbose", "state", "strategy", "priority"}

VARIABLES
    a,     \* a[x]: the field of struct disk_scrubber for attribute x
    group, \* the attributes that users write
    cap,   \* get_capacity()
    asked  \* history: the last write at this capacity, and whether the one
           \* before it was the same

vars == <<a, group, cap, asked>>

Nothing == [attr |-> "none", value |-> 0, again |-> FALSE]

\* simple_strtoull(): no digits, and so no minus sign, give 0.
strtoull(x) == IF x < 0 THEN 0 ELSE x % Word

\* (int) simple_strtol().
strtoint(x) == ((x + IntWord \div 2) % IntWord) - IntWord \div 2

\* blk_init_scrub(). The defaults of the sizes, 2048 and 131072 kbytes, may be
\* larger than the disk.
Init ==
    /\ a = [[x \in Attrs |-> 0] EXCEPT
              !["segsize"] = 2, !["regsize"] = 6,
              !["state"] = 1, !["threads"] = 1, !["dpo"] = 1, !["verbose"] = 1,
              !["strategy"] = "seql", !["priority"] = "idlechk"]
    /\ group \in Groups
    /\ cap \in Caps
    /\ asked = Nothing

-----------------------------------------------------------------------------
(* The value of attribute x after a write of the number n.                  *)

counter(x, n) == strtoull(n)

\* Mutated form: a size that equals the capacity counts as too large.
OverCapEqual(x) == a[x] >= cap

\* The range test of the four stores looks at the old value.
OverCap(x) == a[x] > cap

\* Mutated form: 0 is not refused.
sizeZero(x, n) == IF OverCap(x) THEN cap ELSE strtoull(n)

size(x, n) ==
    IF strtoull(n) = 0 THEN a[x]
    ELSE IF OverCap(x) THEN cap ELSE strtoull(n)

spoint(x, n) == IF OverCap(x) THEN 0 ELSE strtoull(n)
scount(x, n) == IF OverCap(x) THEN cap ELSE strtoull(n)

\* Mutated form: the sign is tested before the number is cut to an int.
threadsLong(x, n) == IF n <= 0 THEN a[x] ELSE strtoint(n)

threads(x, n) == IF strtoint(n) <= 0 THEN a[x] ELSE strtoint(n)

vrprotect(x, n) == IF strtoint(n) \in 0..7 THEN strtoint(n) ELSE a[x]
verbose(x, n)   == IF strtoint(n) \in 0..3 THEN strtoint(n) ELSE a[x]

-----------------------------------------------------------------------------
(* The actions: one write to one attribute.                                 *)

Store(x, value) ==
    /\ x \in group
    /\ a' = [a EXCEPT ![x] = value]
    /\ UNCHANGED <<group, cap>>

StoreNumber(x, value) == Store(x, value) /\ asked' = Nothing

\* A write to one of the attributes whose range is tested.
StoreRange(x, n, value) ==
    /\ Store(x, value)
    /\ asked' = [attr |-> x, value |-> strtoull(n),
                 again |-> asked.attr = x /\ asked.value = strtoull(n)]

\* Names that are unknown change nothing; a switch refuses its current value.
StoreName(x, names) == \E v \in names : Store(x, v) /\ asked' = Nothing

StoreCounter == \E x \in Counters, n \in Inputs : StoreNumber(x, counter(x, n))
StoreSize    == \E x \in Sizes, n \in Inputs : StoreRange(x, n, size(x, n))
StoreSpoint  == \E n \in Inputs : StoreRange("spoint", n, spoint("spoint", n))
StoreScount  == \E n \in Inputs : StoreRange("scount", n, scount("scount", n))
StoreThreads == \E n \in Inputs : StoreNumber("threads", threads("threads", n))
StoreVrp     == \E n \in Inputs :
                   StoreNumber("vrprotect", vrprotect("vrprotect", n))
StoreVerbose == \E n \in Inputs : StoreNumber("verbose", verbose("verbose", n))
StoreSwitch  == \E x \in Switches : StoreName(x, {0, 1})
StoreState   == StoreName("state", 0..2)
StoreStrategy == StoreName("strategy", Strategies)
StorePriority == StoreName("priority", Priorities)

\* The disk driver sets a new capacity.
Revalidate ==
    /\ cap' \in Caps
    /\ asked' = Nothing
    /\ UNCHANGED <<a, group>>

Next ==
    \/ StoreCounter \/ StoreSize \/ StoreSpoint \/ StoreScount
    \/ StoreThreads \/ StoreVrp \/ StoreVerbose \/ StoreSwitch \/ StoreState
    \/ StoreStrategy \/ StorePriority \/ Revalidate

Spec == Init /\ [][Next]_vars

-----------------------------------------------------------------------------
\* v is a value of attribute x that the rest of the scrubber can do with.
Legal(x, v) ==
    /\ x \in Counters \cup Ranges => v \in 0..(Word - 1)
    /\ x = "threads" => v \in 1..(IntWord \div 2 - 1)
    /\ x = "vrprotect" => v \in 0..7
    /\ x = "verbose" => v \in 0..3
    /\ x \in Switches => v \in {0, 1}
    /\ x = "state" => v \in 0..2
    /\ x = "strategy" => v \in Strategies
    /\ x = "priority" => v \in Priorities

\* The type of every attribute: whatever is written, the int attributes stay in
\* their ranges (threads sizes two arrays).
TypeOK ==
    /\ DOMAIN a = Attrs
    /\ \A x \in Attrs : Legal(x, a[x])
    /\ cap \in Caps /\ group \in Groups

\* Sizes stay positive, the condition under which stgscrub() may divide by
\* them, as long as the disk has a medium.
SizesPositive == 0 \notin Caps => \A x \in Sizes : a[x] > 0

\* A valid value that was refused, or replaced, because the value before it was
\* out of range is accepted when it is written again.
RetrySucceeds ==
    asked.again /\ asked.attr \in Ranges /\ asked.value <= cap =>
       \/ a[asked.attr] = asked.value
       \/ asked.attr \in Sizes /\ asked.value = 0
=============================================================================
