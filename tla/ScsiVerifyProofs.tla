--------------------------- MODULE ScsiVerifyProofs ---------------------------
(***************************************************************************)
(* Theorems about ScsiVerify: the command, for bytes of any size and any   *)
(* range of sectors, and the decoding, for sense data of any length and    *)
(* with any values in their fields.                                        *)
(***************************************************************************)
EXTENDS ScsiVerify, TLAPS

-----------------------------------------------------------------------------
(* The decoding of the sense data.                                         *)

\* Sense data of any kind: the fields of a sense buffer, without the bounds
\* that Senses puts on them.
AnySense ==
    [len: Nat, format: {"fixed", "descriptor", "reserved", "none"}, key: Nat,
     asc: Nat, ascq: Nat, add: Nat, info: BOOLEAN, lead: Nat]

\* The sense data of the model are of that kind.
LEMMA SensesAny ==
    /\ Senses \subseteq AnySense
    /\ Nothing \in AnySense
BY DEF Senses, Nothing, AnySense, SENSE_BUFF_LEN

\* The smaller of two numbers.
LEMMA MinOfTwo ==
    ASSUME NEW a \in Int, NEW b \in Int
    PROVE  /\ Min({a, b}) \in {a, b}
           /\ Min({a, b}) <= a /\ Min({a, b}) <= b
<1>1. \E x \in {a, b} : \A y \in {a, b} : x <= y
  <2>1. CASE a <= b
    BY <2>1
  <2>2. CASE b <= a
    BY <2>2
  <2> QED  BY <2>1, <2>2
<1>2. /\ Min({a, b}) \in {a, b}
      /\ \A y \in {a, b} : Min({a, b}) <= y
  BY <1>1 DEF Min
<1> QED  BY <1>2

\* The category of every sense key that is decoded.
LEMMA Categories ==
    ASSUME NEW s, s.len > 2, s.len \in Nat, s.format # "none"
    PROVE  /\ Key(s) = 0 => SenseCategory(s) = NO_SENSE
           /\ Key(s) = 1 => SenseCategory(s) = RECOVERED
           /\ Key(s) = 2 => SenseCategory(s) = NOT_READY
           /\ Key(s) \in {3, 4, 8} => SenseCategory(s) = MEDIUM_HARD
           /\ Key(s) = 5 => SenseCategory(s) = IF Asc(s) = 32 /\ Ascq(s) = 0
                                               THEN INVALID_OP ELSE ILLEGAL_REQ
           /\ Key(s) = 6 => SenseCategory(s) = UNIT_ATTENTION
           /\ Key(s) = 11 => SenseCategory(s) = ABORTED_COMMAND
           /\ Key(s) \notin {0, 1, 2, 3, 4, 5, 6, 8, 11} =>
                SenseCategory(s) = CAT_SENSE
<1> DEFINE k == Key(s)
<1>1. ~(s.len <= 2 \/ s.format = "none")
  OBVIOUS
<1>2. SenseCategory(s) = CASE k = 0 -> NO_SENSE
           [] k = 1 -> RECOVERED
           [] k = 2 -> NOT_READY
           [] k \in {3, 4, 8} -> MEDIUM_HARD
           [] k = 5 -> IF Asc(s) = 32 /\ Ascq(s) = 0
                            THEN INVALID_OP ELSE ILLEGAL_REQ
           [] k = 6 -> UNIT_ATTENTION
           [] k = 11 -> ABORTED_COMMAND
           [] OTHER -> CAT_SENSE
  BY <1>1, Zenon DEF SenseCategory
<1> HIDE DEF k
<1>3. ASSUME k = 0
      PROVE  SenseCategory(s) = NO_SENSE
  <2>1. /\ k # 1 /\ k # 2 /\ k \notin {3, 4, 8} /\ k # 5
        /\ k # 6 /\ k # 11
    BY <1>3
  <2> QED  BY <1>2, <1>3, <2>1, Zenon
<1>4. ASSUME k = 1
      PROVE  SenseCategory(s) = RECOVERED
  <2>1. /\ k # 0 /\ k # 2 /\ k \notin {3, 4, 8} /\ k # 5
        /\ k # 6 /\ k # 11
    BY <1>4
  <2> QED  BY <1>2, <1>4, <2>1, Zenon
<1>5. ASSUME k = 2
      PROVE  SenseCategory(s) = NOT_READY
  <2>1. /\ k # 0 /\ k # 1 /\ k \notin {3, 4, 8} /\ k # 5
        /\ k # 6 /\ k # 11
    BY <1>5
  <2> QED  BY <1>2, <1>5, <2>1, Zenon
<1>6. ASSUME k \in {3, 4, 8}
      PROVE  SenseCategory(s) = MEDIUM_HARD
  <2>1. /\ k # 0 /\ k # 1 /\ k # 2 /\ k # 5
        /\ k # 6 /\ k # 11
    BY <1>6
  <2> QED  BY <1>2, <1>6, <2>1, Zenon
<1>7. ASSUME k = 5
      PROVE  SenseCategory(s) = IF Asc(s) = 32 /\ Ascq(s) = 0 THEN INVALID_OP
                      ELSE ILLEGAL_REQ
  <2>1. /\ k # 0 /\ k # 1 /\ k # 2 /\ k \notin {3, 4, 8}
        /\ k # 6 /\ k # 11
    BY <1>7
  <2> QED  BY <1>2, <1>7, <2>1, Zenon
<1>8. ASSUME k = 6
      PROVE  SenseCategory(s) = UNIT_ATTENTION
  <2>1. /\ k # 0 /\ k # 1 /\ k # 2 /\ k \notin {3, 4, 8}
        /\ k # 5 /\ k # 11
    BY <1>8
  <2> QED  BY <1>2, <1>8, <2>1, Zenon
<1>9. ASSUME k = 11
      PROVE  SenseCategory(s) = ABORTED_COMMAND
  <2>1. /\ k # 0 /\ k # 1 /\ k # 2 /\ k \notin {3, 4, 8}
        /\ k # 5 /\ k # 6
    BY <1>9
  <2> QED  BY <1>2, <1>9, <2>1, Zenon
<1>10. ASSUME k \notin {0, 1, 2, 3, 4, 5, 6, 8, 11}
      PROVE  SenseCategory(s) = CAT_SENSE
  <2>1. /\ k # 0 /\ k # 1 /\ k # 2 /\ k \notin {3, 4, 8}
        /\ k # 5 /\ k # 6 /\ k # 11
    BY <1>10
  <2> QED  BY <1>2, <1>10, <2>1, Zenon
<1> QED
  BY <1>3, <1>4, <1>5, <1>6, <1>7, <1>8, <1>9, <1>10, Zenon DEF k

\* What a category becomes on the way to the caller.
LEMMA CategoryResults ==
    ASSUME NEW s
    PROVE  /\ SenseCategory(s) \in {RECOVERED, NO_SENSE} => SenseResult(s) = 0
           /\ SenseCategory(s) = MEDIUM_HARD =>
                SenseResult(s) = IF ValidInfo(s) THEN MEDIUM_HARD_WITH_INFO
                                 ELSE MEDIUM_HARD
           /\ SenseCategory(s) = CAT_SENSE => SenseResult(s) = -1
           /\ SenseCategory(s) \in {NOT_READY, ILLEGAL_REQ, UNIT_ATTENTION,
                                    INVALID_OP, ABORTED_COMMAND} =>
                SenseResult(s) = SenseCategory(s)
<1> DEFINE c == SenseCategory(s)
<1>1. SenseResult(s) =
        CASE c \in {RECOVERED, NO_SENSE} -> 0
          [] c = MEDIUM_HARD -> IF ValidInfo(s) THEN MEDIUM_HARD_WITH_INFO
                                ELSE MEDIUM_HARD
          [] c = CAT_SENSE -> -1
          [] OTHER -> c
  BY Zenon DEF SenseResult
<1> HIDE DEF c
<1> USE DEF RECOVERED, NO_SENSE, MEDIUM_HARD, CAT_SENSE, NOT_READY, ILLEGAL_REQ,
            UNIT_ATTENTION, INVALID_OP, ABORTED_COMMAND
<1>2. ASSUME c \in {RECOVERED, NO_SENSE} PROVE SenseResult(s) = 0
  <2>1. c # MEDIUM_HARD /\ c # CAT_SENSE
    BY <1>2
  <2> QED  BY <1>1, <1>2, <2>1, Zenon
<1>3. ASSUME c = MEDIUM_HARD
      PROVE  SenseResult(s) = IF ValidInfo(s) THEN MEDIUM_HARD_WITH_INFO
                              ELSE MEDIUM_HARD
  <2>1. c \notin {RECOVERED, NO_SENSE} /\ c # CAT_SENSE
    BY <1>3
  <2> QED  BY <1>1, <1>3, <2>1, Zenon
<1>4. ASSUME c = CAT_SENSE PROVE SenseResult(s) = -1
  <2>1. c \notin {RECOVERED, NO_SENSE} /\ c # MEDIUM_HARD
    BY <1>4
  <2> QED  BY <1>1, <1>4, <2>1, Zenon
<1>5. ASSUME c \in {NOT_READY, ILLEGAL_REQ, UNIT_ATTENTION, INVALID_OP,
                    ABORTED_COMMAND}
      PROVE  SenseResult(s) = c
  <2>1. c \notin {RECOVERED, NO_SENSE} /\ c # MEDIUM_HARD /\ c # CAT_SENSE
    BY <1>5
  <2> QED  BY <1>1, <2>1, Zenon
<1> QED  BY ONLY <1>2, <1>3, <1>4, <1>5, Zenon DEF c

\* A key that is not there reads as 0, but then the length is refused first.
LEMMA KeyRead ==
    ASSUME NEW s \in AnySense, s.len > 2
    PROVE  Key(s) = s.key
BY DEF Key, AnySense

\* Short and unknown sense data have no category.
LEMMA Unknown ==
    ASSUME NEW s \in AnySense, s.len <= 2 \/ s.format = "none"
    PROVE  SenseResult(s) = -1
<1>1. SenseCategory(s) = CAT_SENSE
  BY Zenon DEF SenseCategory
<1> QED  BY <1>1, CategoryResults

\* The results that sense data can have.
LEMMA SenseValues ==
    ASSUME NEW s \in AnySense
    PROVE  SenseResult(s) \in {-1, 0, NOT_READY, MEDIUM_HARD, ILLEGAL_REQ,
                              UNIT_ATTENTION, INVALID_OP, ABORTED_COMMAND,
                              MEDIUM_HARD_WITH_INFO}
<1>1. CASE s.len <= 2 \/ s.format = "none"
  BY <1>1, Unknown
<1>2. CASE ~(s.len <= 2 \/ s.format = "none")
  <2>1. s.len > 2 /\ s.len \in Nat /\ s.format # "none"
    BY <1>2 DEF AnySense
  <2>2. SenseCategory(s) \in {NO_SENSE, RECOVERED, NOT_READY, MEDIUM_HARD,
                              ILLEGAL_REQ, UNIT_ATTENTION, INVALID_OP,
                              ABORTED_COMMAND, CAT_SENSE}
    BY <2>1, Categories
  <2> QED  BY <2>2, CategoryResults
<1> QED  BY <1>1, <1>2

\* Sense data decode to success only if there is a key that says so.
LEMMA SuccessHasKey ==
    ASSUME NEW s \in AnySense, SenseResult(s) = 0
    PROVE  s.format # "none" /\ s.key \in {0, 1} /\ s.len > 2
<1>1. s.len > 2 /\ s.format # "none"
  <2>1. CASE s.len <= 2 \/ s.format = "none"
    BY <2>1, Unknown
  <2> QED  BY <2>1 DEF AnySense
<1>2. Key(s) = s.key /\ s.key \in Nat /\ s.len \in Nat
  BY <1>1, KeyRead DEF AnySense
<1> USE DEF RECOVERED, NO_SENSE, MEDIUM_HARD, CAT_SENSE, NOT_READY, ILLEGAL_REQ,
            UNIT_ATTENTION, INVALID_OP, ABORTED_COMMAND, MEDIUM_HARD_WITH_INFO
<1>3. CASE s.key \in {3, 4, 8}
  <2>1. SenseCategory(s) = MEDIUM_HARD
    BY <1>1, <1>2, <1>3, Categories
  <2>2. SenseResult(s) \in {MEDIUM_HARD_WITH_INFO, MEDIUM_HARD}
    BY <2>1, CategoryResults
  <2> QED  BY <2>2
<1>4. CASE s.key \in {2, 5, 6, 11}
  <2>1. SenseCategory(s) \in {NOT_READY, ILLEGAL_REQ, UNIT_ATTENTION, INVALID_OP,
                              ABORTED_COMMAND}
    BY <1>1, <1>2, <1>4, Categories
  <2> QED  BY <2>1, CategoryResults
<1>5. CASE s.key \notin {0, 1, 2, 3, 4, 5, 6, 8, 11}
  <2>1. SenseCategory(s) = CAT_SENSE
    BY <1>1, <1>2, <1>5, Categories
  <2> QED  BY <2>1, CategoryResults
<1> QED  BY <1>1, <1>2, <1>3, <1>4, <1>5

\* Of whole sense data, every field is read.
LEMMA WholeRead ==
    ASSUME NEW s \in AnySense, Whole(s)
    PROVE  /\ s.format # "none" /\ s.len > 2
           /\ Asc(s) = s.asc /\ Ascq(s) = s.ascq
           /\ ValidInfo(s) <=> s.info
<1>1. /\ s.len \in Nat /\ s.add \in Nat /\ s.lead \in Nat
      /\ s.len >= 8
      /\ s.format \in {"fixed", "descriptor"}
      /\ s.format = "fixed" => s.len >= 14 /\ s.add >= 6
  BY DEF Whole, AnySense
<1>2. s.format = "fixed" => Readable(s) \in Nat /\ Readable(s) > 13
  <2>1. s.len \in Int /\ s.add + 8 \in Int
    BY <1>1
  <2>2. Min({s.len, s.add + 8}) \in {s.len, s.add + 8}
    BY ONLY <2>1, MinOfTwo
  <2> QED  BY <1>1, <2>2 DEF Readable
<1>3. s.format = "descriptor" => Readable(s) = s.len
  BY DEF Readable
<1>4. Asc(s) = s.asc /\ Ascq(s) = s.ascq
  <2>1. CASE s.format = "fixed"
    BY <1>2, <2>1 DEF Asc, Ascq
  <2>2. CASE s.format = "descriptor"
    BY <1>1, <1>3, <2>2 DEF Asc, Ascq
  <2> QED  BY <1>1, <2>1, <2>2
<1>5. ASSUME s.format = "descriptor", s.info
      PROVE  FindsInfo(s) /\ s.lead + 8 + 3 <= s.len
  <2>1. s.len >= 8 + s.add /\ s.add >= s.lead + 12
    BY <1>1, <1>5 DEF Whole
  <2>2. s.add \in Int /\ s.len - 8 \in Int
    BY <1>1
  <2>3. Min({s.add, s.len - 8}) \in {s.add, s.len - 8}
    BY ONLY <2>2, MinOfTwo
  <2> QED  BY <1>1, <2>1, <2>3 DEF FindsInfo
<1>6. ValidInfo(s) <=> s.info
  <2>1. s.len >= 7
    BY <1>1
  <2>2. s.info \in BOOLEAN
    BY DEF AnySense
  <2>3. s.format # "reserved"
    BY <1>1
  <2> QED  BY <1>5, <2>1, <2>2, <2>3, Zenon DEF ValidInfo
<1> QED  BY <1>1, <1>4, <1>6

\* The documented result of every sense key.
LEMMA DocumentedKeys ==
    ASSUME NEW s, s.key \in Nat
    PROVE  /\ s.key \in {0, 1} => Documented(s) = 0
           /\ s.key = 2 => Documented(s) = NOT_READY
           /\ s.key \in {3, 4, 8} =>
                Documented(s) = IF s.info THEN MEDIUM_HARD_WITH_INFO
                                ELSE MEDIUM_HARD
           /\ s.key = 5 => Documented(s) = IF s.asc = 32 /\ s.ascq = 0
                                           THEN INVALID_OP ELSE ILLEGAL_REQ
           /\ s.key = 6 => Documented(s) = UNIT_ATTENTION
           /\ s.key = 11 => Documented(s) = ABORTED_COMMAND
           /\ s.key \notin {0, 1, 2, 3, 4, 5, 6, 8, 11} =>
                Documented(s) = CAT_OTHER
<1>1. ASSUME s.key \in {0, 1}
      PROVE  Documented(s) = 0
  <2>1. /\ s.key # 2 /\ s.key \notin {3, 4, 8} /\ s.key # 5
        /\ s.key # 6 /\ s.key # 11
    BY <1>1
  <2> QED  BY <1>1, <2>1, Zenon DEF Documented
<1>2. ASSUME s.key = 2
      PROVE  Documented(s) = NOT_READY
  <2>1. /\ s.key \notin {0, 1} /\ s.key \notin {3, 4, 8} /\ s.key # 5
        /\ s.key # 6 /\ s.key # 11
    BY <1>2
  <2> QED  BY <1>2, <2>1, Zenon DEF Documented
<1>3. ASSUME s.key \in {3, 4, 8}
      PROVE  Documented(s) = IF s.info THEN MEDIUM_HARD_WITH_INFO
                             ELSE MEDIUM_HARD
  <2>1. /\ s.key \notin {0, 1} /\ s.key # 2 /\ s.key # 5
        /\ s.key # 6 /\ s.key # 11
    BY <1>3
  <2> QED  BY <1>3, <2>1, Zenon DEF Documented
<1>4. ASSUME s.key = 5
      PROVE  Documented(s) = IF s.asc = 32 /\ s.ascq = 0
                             THEN INVALID_OP ELSE ILLEGAL_REQ
  <2>1. /\ s.key \notin {0, 1} /\ s.key # 2 /\ s.key \notin {3, 4, 8}
        /\ s.key # 6 /\ s.key # 11
    BY <1>4
  <2> QED  BY <1>4, <2>1, Zenon DEF Documented
<1>5. ASSUME s.key = 6
      PROVE  Documented(s) = UNIT_ATTENTION
  <2>1. /\ s.key \notin {0, 1} /\ s.key # 2 /\ s.key \notin {3, 4, 8}
        /\ s.key # 5 /\ s.key # 11
    BY <1>5
  <2> QED  BY <1>5, <2>1, Zenon DEF Documented
<1>6. ASSUME s.key = 11
      PROVE  Documented(s) = ABORTED_COMMAND
  <2>1. /\ s.key \notin {0, 1} /\ s.key # 2 /\ s.key \notin {3, 4, 8}
        /\ s.key # 5 /\ s.key # 6
    BY <1>6
  <2> QED  BY <1>6, <2>1, Zenon DEF Documented
<1>7. ASSUME s.key \notin {0, 1, 2, 3, 4, 5, 6, 8, 11}
      PROVE  Documented(s) = CAT_OTHER
  <2>1. /\ s.key \notin {0, 1} /\ s.key # 2 /\ s.key \notin {3, 4, 8}
        /\ s.key # 5 /\ s.key # 6 /\ s.key # 11
    BY <1>7
  <2> QED  BY <1>7, <2>1, Zenon DEF Documented
<1> QED
  BY <1>1, <1>2, <1>3, <1>4, <1>5, <1>6, <1>7, Zenon

\* With whole sense data, whatever is in their fields, the result is the
\* documented one.
THEOREM SenseDecoding ==
    ASSUME NEW s \in AnySense, Whole(s)
    PROVE  Returned(SenseResult(s)) = Documented(s)
<1>1. /\ s.format # "none" /\ s.len > 2 /\ s.len \in Nat /\ s.key \in Nat
      /\ s.info \in BOOLEAN
  BY WholeRead DEF AnySense
<1>2. Key(s) = s.key
  BY <1>1, KeyRead
<1> USE DEF RECOVERED, NO_SENSE, MEDIUM_HARD, CAT_SENSE, NOT_READY, ILLEGAL_REQ,
            UNIT_ATTENTION, INVALID_OP, ABORTED_COMMAND, MEDIUM_HARD_WITH_INFO,
            CAT_OTHER
<1>3. CASE s.key \in {0, 1}
  <2>1. SenseCategory(s) \in {RECOVERED, NO_SENSE}
    BY <1>1, <1>2, <1>3, Categories
  <2>2. SenseResult(s) = 0
    BY <2>1, CategoryResults
  <2>3. Documented(s) = 0
    BY <1>1, <1>3, DocumentedKeys
  <2> QED  BY <2>2, <2>3 DEF Returned
<1>4. CASE s.key \in {3, 4, 8}
  <2>1. SenseCategory(s) = MEDIUM_HARD
    BY <1>1, <1>2, <1>4, Categories
  <2>2. SenseResult(s) = IF ValidInfo(s) THEN MEDIUM_HARD_WITH_INFO
                         ELSE MEDIUM_HARD
    BY <2>1, CategoryResults
  <2>3. ValidInfo(s) <=> s.info
    BY WholeRead
  <2>4. SenseResult(s) = Documented(s)
    <3>1. Documented(s) = IF s.info THEN MEDIUM_HARD_WITH_INFO ELSE MEDIUM_HARD
      BY <1>1, <1>4, DocumentedKeys
    <3>2. CASE s.info
      BY ONLY <2>2, <2>3, <3>1, <3>2
    <3>3. CASE ~s.info
      BY ONLY <2>2, <2>3, <3>1, <3>3
    <3> QED  BY <3>2, <3>3
  <2> QED  BY <2>2, <2>4 DEF Returned
<1>5. CASE s.key \in {2, 5, 6, 11}
  <2>1. SenseCategory(s) = Documented(s)
    BY <1>1, <1>2, <1>5, Categories, DocumentedKeys, WholeRead
  <2>2. SenseCategory(s) \in {NOT_READY, ILLEGAL_REQ, UNIT_ATTENTION, INVALID_OP,
                              ABORTED_COMMAND}
    BY <1>1, <1>2, <1>5, Categories
  <2>3. SenseResult(s) = SenseCategory(s)
    BY <2>2, CategoryResults
  <2> QED  BY <2>1, <2>2, <2>3 DEF Returned
<1>6. CASE s.key \notin {0, 1, 2, 3, 4, 5, 6, 8, 11}
  <2>1. SenseCategory(s) = CAT_SENSE
    BY <1>1, <1>2, <1>6, Categories
  <2>2. SenseResult(s) = -1
    BY <2>1, CategoryResults
  <2>3. Documented(s) = CAT_OTHER
    BY <1>1, <1>6, DocumentedKeys
  <2> QED  BY <2>2, <2>3 DEF Returned
<1> QED  BY <1>3, <1>4, <1>5, <1>6

-----------------------------------------------------------------------------
(* The bytes of the command.                                               *)

\* Quotient and remainder are the only ones.
LEMMA Unique ==
    ASSUME NEW n \in Nat, NEW d \in Nat \ {0}, NEW q \in Nat,
           NEW r \in 0..(d - 1), n = q * d + r
    PROVE  n \div d = q /\ n % d = r
<1> DEFINE q2 == n \div d
           r2 == n % d
<1>1. q2 \in Nat /\ r2 \in 0..(d - 1) /\ n = d * q2 + r2
  OBVIOUS
<1> HIDE DEF q2, r2
<1>2. ~(q2 < q)
  <2> SUFFICES ASSUME q2 < q PROVE FALSE
    OBVIOUS
  <2>1. PICK k \in Nat : q = q2 + 1 + k
    <3>1. q - q2 - 1 \in Nat /\ q = q2 + 1 + (q - q2 - 1)
      BY <1>1
    <3> QED  BY <3>1
  <2>2. q * d = q2 * d + d + k * d
    BY <1>1, <2>1
  <2>3. k * d \in Nat /\ q2 * d \in Nat /\ d * q2 = q2 * d
    BY <1>1, <2>1
  <2> QED  BY <1>1, <2>2, <2>3
<1>3. ~(q < q2)
  <2> SUFFICES ASSUME q < q2 PROVE FALSE
    OBVIOUS
  <2>1. PICK k \in Nat : q2 = q + 1 + k
    <3>1. q2 - q - 1 \in Nat /\ q2 = q + 1 + (q2 - q - 1)
      BY <1>1
    <3> QED  BY <3>1
  <2>2. d * q2 = q * d + d + k * d
    BY <1>1, <2>1
  <2>3. k * d \in Nat /\ q * d \in Nat
    BY <1>1, <2>1
  <2> QED  BY <1>1, <2>2, <2>3
<1>4. q2 = q
  BY <1>1, <1>2, <1>3
<1>5. r2 = r
  BY <1>1, <1>4
<1> QED  BY <1>4, <1>5 DEF q2, r2

\* Quotient and remainder, with the product the other way round.
LEMMA Quotient ==
    ASSUME NEW n \in Nat, NEW d \in Nat \ {0}
    PROVE  /\ n \div d \in Nat /\ n % d \in 0..(d - 1)
           /\ n = (n \div d) * d + (n % d)
<1>1. /\ n \div d \in Nat /\ n % d \in 0..(d - 1)
      /\ n = d * (n \div d) + (n % d)
  OBVIOUS
<1> QED  BY <1>1

\* A digit below e in units of d, and one below d, are less than d * e.
LEMMA TwoDigits ==
    ASSUME NEW d \in Nat \ {0}, NEW e \in Nat \ {0},
           NEW r \in 0..(d - 1), NEW r2 \in 0..(e - 1)
    PROVE  /\ d * e \in Nat \ {0}
           /\ r2 * d + r \in 0..(d * e - 1)
<1>1. d * e \in Nat /\ d * e >= d /\ r2 * d \in Nat
  OBVIOUS
<1>2. PICK k \in Nat : e = r2 + 1 + k
  <2>1. e - r2 - 1 \in Nat /\ e = r2 + 1 + (e - r2 - 1)
    OBVIOUS
  <2> QED  BY <2>1
<1>3. d * e = r2 * d + d + k * d
  BY <1>2
<1>4. k * d \in Nat
  BY <1>2
<1> QED  BY <1>1, <1>3, <1>4

\* Dividing by a product is dividing by its factors.
LEMMA Divided ==
    ASSUME NEW n \in Nat, NEW d \in Nat \ {0}, NEW e \in Nat \ {0}
    PROVE  /\ n \div (d * e) = (n \div d) \div e
           /\ n % (d * e) = ((n \div d) % e) * d + (n % d)
<1> DEFINE q == n \div d
           r == n % d
           q2 == q \div e
           r2 == q % e
<1>1. q \in Nat /\ r \in 0..(d - 1) /\ n = q * d + r
  BY Quotient
<1> HIDE DEF q, r
<1>2. q2 \in Nat /\ r2 \in 0..(e - 1) /\ q = q2 * e + r2
  BY <1>1, Quotient
<1> HIDE DEF q2, r2
<1>3. d * e \in Nat \ {0} /\ r2 * d + r \in 0..(d * e - 1)
  BY <1>1, <1>2, TwoDigits
<1>4. n = q2 * (d * e) + (r2 * d + r)
  <2>1. q * d = (q2 * e) * d + r2 * d
    BY <1>2
  <2>2. (q2 * e) * d = q2 * (d * e)
    BY <1>2
  <2> QED  BY <1>1, <1>2, <2>1, <2>2
<1>5. n \div (d * e) = q2 /\ n % (d * e) = r2 * d + r
  BY <1>2, <1>3, <1>4, Unique
<1> QED  BY <1>5 DEF q2, r2, q, r

\* The units are positive.
LEMMA Units ==
    Byte \in Nat \ {0} /\ Byte2 \in Nat \ {0} /\ Byte3 \in Nat \ {0}
BY ByteAssumption DEF Byte2, Byte3

\* A byte of the command is one.
LEMMA ByteOfType ==
    ASSUME NEW x \in Nat, NEW unit \in Nat \ {0}
    PROVE  ByteOf(x, unit) \in 0..(Byte - 1)
<1>1. x \div unit \in Nat
  BY Quotient
<1> QED  BY <1>1, Units, Quotient DEF ByteOf

\* Four bytes name a sector modulo what four bytes can name.
LEMMA FourBytes ==
    ASSUME NEW x \in Nat
    PROVE  ByteOf(x, Byte3) * Byte3 + ByteOf(x, Byte2) * Byte2
             + ByteOf(x, Byte) * Byte + ByteOf(x, 1) = x % Byte4
<1>1. x % Byte4 = ByteOf(x, Byte3) * Byte3 + (x % Byte3)
  BY Units, Divided DEF Byte4, ByteOf
<1>2. x % Byte3 = ByteOf(x, Byte2) * Byte2 + (x % Byte2)
  BY Units, Divided DEF Byte3, ByteOf
<1>3. x % Byte2 = ByteOf(x, Byte) * Byte + (x % Byte)
  BY Units, Divided DEF Byte2, ByteOf
<1>4. x % Byte = ByteOf(x, 1)
  BY Units DEF ByteOf
<1>5. /\ ByteOf(x, Byte3) \in Nat /\ ByteOf(x, Byte2) \in Nat
      /\ ByteOf(x, Byte) \in Nat /\ ByteOf(x, 1) \in Nat
  BY Units, ByteOfType
<1>6. /\ ByteOf(x, Byte3) * Byte3 \in Nat /\ ByteOf(x, Byte2) * Byte2 \in Nat
      /\ ByteOf(x, Byte) * Byte \in Nat
  BY <1>5, Units
<1> QED  BY <1>1, <1>2, <1>3, <1>4, <1>5, <1>6

\* Two bytes name a count that fits in them.
LEMMA TwoBytes ==
    ASSUME NEW x \in 0..(Byte * Byte - 1)
    PROVE  ByteOf(x, Byte) * Byte + ByteOf(x, 1) = x
<1>1. x \in Nat /\ Byte2 \in Nat \ {0} /\ x < Byte2
  BY Units DEF Byte2
<1>2. x % Byte2 = x
  <2>1. x = 0 * Byte2 + x /\ x \in 0..(Byte2 - 1)
    BY <1>1
  <2> QED  BY <1>1, <2>1, Unique
<1>3. x % Byte2 = ByteOf(x, Byte) * Byte + (x % Byte)
  BY <1>1, Units, Divided DEF Byte2, ByteOf
<1>4. x % Byte = ByteOf(x, 1)
  BY <1>1, Units DEF ByteOf
<1> QED  BY <1>2, <1>3, <1>4

-----------------------------------------------------------------------------
(* The call.                                                               *)

\* A request ends in any way the layers below can report. A drive that is busy
\* sends no sense data.
Reports ==
    [os: Nat, host: Nat, driver: {0, 6, 8}, status: {0, 2, 8, 34}, sense: AnySense]

AnyAnswer == {r \in Reports : r.status = 8 => r.sense.len = 0}

\* The ways of the model are among them, and so is a failed allocation.
LEMMA AnswersAny ==
    /\ Answers \subseteq AnyAnswer
    /\ [os |-> ENOMEM, host |-> 0, driver |-> 0, status |-> 0,
        sense |-> Nothing] \in AnyAnswer
<1>1. Nothing.len = 0
  BY DEF Nothing
<1>2. [os |-> ENOMEM, host |-> 0, driver |-> 0, status |-> 0, sense |-> Nothing]
        \in AnyAnswer
  BY SensesAny DEF AnyAnswer, Reports, ENOMEM
<1>3. ASSUME NEW r \in Answers PROVE r \in Reports
  BY SensesAny DEF Answers, Reports
<1>4. ASSUME NEW r \in Answers, r.status = 8 PROVE r.sense.len = 0
  <2>1. r.sense = Nothing
    BY <1>4 DEF Answers
  <2> QED  BY <1>1, <2>1
<1> QED  BY <1>2, <1>3, <1>4 DEF AnyAnswer

\* The range that was asked for, while the call runs.
AskInv ==
    IF pc \in {"build", "queue", "sent"} THEN lba \in Lbas /\ count \in Counts
    ELSE lba = 0 /\ count = 0

\* What was computed for it so far.
CommandInv ==
    /\ pc \in {"idle", "build", "queue", "sent", "done"}
    /\ pc = "queue" => cdb = Command
    /\ QueueMatchesRequest

\* What the caller gets is computed from what came back.
ResultInv ==
    IF pc = "done"
    THEN answer \in AnyAnswer /\ result = Returned(verify10(answer))
    ELSE result = -1

IInv == AskInv /\ CommandInv /\ ResultInv

\* The invariant holds initially.
LEMMA InitIInv == Init => IInv
BY DEF Init, IInv, AskInv, CommandInv, ResultInv, QueueMatchesRequest

\* A call begins.
LEMMA CallStep == ASSUME IInv, Call PROVE IInv'
BY DEF IInv, Call, AskInv, CommandInv, ResultInv, QueueMatchesRequest

\* The command is built.
LEMMA BuildStep == ASSUME IInv, Build PROVE IInv'
<1>1. Command' = Command
  BY DEF Build, Command, ByteOf
<1> QED
  BY <1>1 DEF IInv, Build, AskInv, CommandInv, ResultInv, QueueMatchesRequest

\* The command is decoded, to the range it was built from.
LEMMA QueueStep == ASSUME IInv, Queue PROVE IInv'
<1>1. lba \in Nat /\ count \in 0..(Byte * Byte - 1)
  BY AskAssumption DEF IInv, AskInv, Queue
<1>2. /\ cdb[1] = ByteOf(lba, Byte3) /\ cdb[2] = ByteOf(lba, Byte2)
      /\ cdb[3] = ByteOf(lba, Byte) /\ cdb[4] = ByteOf(lba, 1)
      /\ cdb[5] = ByteOf(count, Byte) /\ cdb[6] = ByteOf(count, 1)
  BY DEF IInv, CommandInv, Queue, Command
<1>3. sector' = <<lba % Byte4, count>>
  BY <1>1, <1>2, FourBytes, TwoBytes DEF Queue
<1>4. pc = "queue" /\ pc' = "sent" /\ UNCHANGED <<lba, count, cdb, answer, result>>
  BY DEF Queue
<1> QED
  BY <1>3, <1>4 DEF IInv, AskInv, CommandInv, ResultInv, QueueMatchesRequest

\* The call returns.
LEMMA ReturnStep == ASSUME IInv, NoMemory \/ Complete PROVE IInv'
<1>1. PICK r \in AnyAnswer : Return(r)
  BY AnswersAny, Zenon DEF NoMemory, Complete
<1>2. /\ answer' = r /\ result' = Returned(verify10(r))
      /\ lba' = 0 /\ count' = 0 /\ pc' = "done"
  BY <1>1 DEF Return
<1>3. ResultInv'
  BY <1>2, Zenon DEF ResultInv
<1> QED
  BY <1>2, <1>3 DEF IInv, AskInv, CommandInv, QueueMatchesRequest

\* The invariant of a call.
THEOREM Inductive == Spec => []IInv
<1>1. IInv /\ UNCHANGED vars => IInv'
  <2> SUFFICES ASSUME IInv, UNCHANGED vars PROVE IInv'
    OBVIOUS
  <2>1. Command' = Command /\ QueueMatchesRequest' = QueueMatchesRequest
    BY DEF vars, Command, ByteOf, QueueMatchesRequest
  <2>2. ResultInv'
    BY Zenon DEF vars, IInv, ResultInv
  <2> QED  BY <2>1, <2>2 DEF vars, IInv, AskInv, CommandInv
<1>2. IInv /\ [Next]_vars => IInv'
  BY <1>1, CallStep, BuildStep, QueueStep, ReturnStep DEF Next
<1> QED  BY <1>2, InitIInv, PTL DEF Spec

\* The results of a call.
LEMMA ResultValues ==
    ASSUME NEW r \in AnyAnswer
    PROVE  Returned(verify10(r)) \in
             {0, NOT_READY, MEDIUM_HARD, ILLEGAL_REQ, UNIT_ATTENTION, INVALID_OP,
              ABORTED_COMMAND, MEDIUM_HARD_WITH_INFO, CAT_OTHER}
<1>1. r.sense \in AnySense
  BY DEF AnyAnswer, Reports
<1>2. verify10(r) \in {-1, 0, SenseResult(r.sense)}
  BY DEF verify10
<1> QED
  BY <1>1, <1>2, SenseValues
     DEF Returned, NOT_READY, MEDIUM_HARD, ILLEGAL_REQ, UNIT_ATTENTION, INVALID_OP,
         ABORTED_COMMAND, MEDIUM_HARD_WITH_INFO, CAT_OTHER

\* The type invariant: every byte of the command is one, and the result is one
\* of the documented values.
THEOREM VerifyTypes == Spec => []TypeOK
<1>1. IInv => TypeOK
  <2> SUFFICES ASSUME IInv PROVE TypeOK
    OBVIOUS
  <2>1. lba \in Lbas \cup {0} /\ count \in Counts \cup {0}
    BY DEF IInv, AskInv
  <2>2. ASSUME pc = "queue" PROVE cdb \in [1..6 -> 0..(Byte - 1)]
    <3>1. lba \in Nat /\ count \in Nat
      <4>1. lba \in Lbas /\ count \in Counts
        BY <2>2 DEF IInv, AskInv
      <4>2. lba \in Nat /\ count \in 0..(Byte * Byte - 1)
        BY <4>1, AskAssumption
      <4> QED  BY <4>2
    <3>2. /\ {ByteOf(lba, Byte3), ByteOf(lba, Byte2), ByteOf(lba, Byte),
             ByteOf(lba, 1)} \subseteq 0..(Byte - 1)
          /\ {ByteOf(count, Byte), ByteOf(count, 1)} \subseteq 0..(Byte - 1)
      BY <3>1, Units, ByteOfType
    <3> QED  BY <2>2, <3>2 DEF IInv, CommandInv, Command
  <2>3. result \in {-1, 0, NOT_READY, MEDIUM_HARD, ILLEGAL_REQ, UNIT_ATTENTION,
                    INVALID_OP, ABORTED_COMMAND, MEDIUM_HARD_WITH_INFO,
                    CAT_OTHER}
    <3>1. CASE pc # "done"
      BY <3>1 DEF IInv, ResultInv
    <3>2. CASE pc = "done"
      BY <3>2, ResultValues DEF IInv, ResultInv
    <3> QED  BY <3>1, <3>2
  <2> QED  BY <2>1, <2>2, <2>3 DEF TypeOK, IInv, CommandInv
<1> QED  BY <1>1, Inductive, PTL

\* The position of the request in the disk's queue is the range that the worker
\* asked for, whatever the width of a byte.
THEOREM QueueSortsTheRange == Spec => []QueueMatchesRequest
<1>1. IInv => QueueMatchesRequest
  BY DEF IInv, CommandInv
<1> QED  BY <1>1, Inductive, PTL

\* A key that says so decodes to success.
LEMMA KeyIsSuccess ==
    ASSUME NEW s \in AnySense, s.format # "none", s.key \in {0, 1}, s.len > 2
    PROVE  SenseResult(s) = 0
<1>1. Key(s) = s.key /\ s.len \in Nat
  BY KeyRead DEF AnySense
<1>2. SenseCategory(s) \in {RECOVERED, NO_SENSE}
  BY <1>1, Categories
<1> QED  BY <1>2, CategoryResults

\* A failed request counts as verified only if its sense data have a reserved
\* response code and hold 0 or 1 where a descriptor format has its key, and then
\* it does: for sense data of any length and content.
THEOREM FailuresAreReported == Spec => []NoFalseSuccess
<1>1. IInv => NoFalseSuccess
  <2> SUFFICES ASSUME IInv, pc = "done", Failed(answer)
               PROVE  result = 0 <=> Misread(answer)
    BY DEF NoFalseSuccess
  <2>1. answer \in AnyAnswer /\ result = Returned(verify10(answer))
    BY DEF IInv, ResultInv
  <2>2. ASSUME result = 0 PROVE Misread(answer)
    <3>1. verify10(answer) = 0
      BY <2>1, <2>2 DEF Returned, CAT_OTHER
    <3>2. answer.os = 0 /\ answer.host = 0 /\ answer.driver \in {0, 8}
      BY <3>1 DEF verify10
    <3>3. CASE answer.driver = 8 \/ answer.status \in {2, 34}
      <4>1. SenseResult(answer.sense) = 0 /\ answer.sense \in AnySense
        BY <2>1, <3>1, <3>2, <3>3 DEF verify10, AnyAnswer, Reports
      <4>2. /\ answer.sense.format # "none" /\ answer.sense.key \in {0, 1}
            /\ answer.sense.len > 2
        BY <4>1, SuccessHasKey
      <4>3. answer.status # 8
        BY <2>1, <4>2 DEF AnyAnswer
      <4>4. answer.sense.format = "reserved"
        BY <3>2, <4>2, <4>3 DEF Failed
      <4> QED  BY <3>2, <3>3, <4>2, <4>4 DEF Misread
    <3>4. CASE ~(answer.driver = 8 \/ answer.status \in {2, 34})
      BY <3>1, <3>2, <3>4 DEF verify10, Failed
    <3> QED  BY <3>3, <3>4
  <2>3. ASSUME Misread(answer) PROVE result = 0
    <3>1. answer.sense \in AnySense
      BY <2>1, <2>3 DEF Misread, AnyAnswer, Reports
    <3>2. SenseResult(answer.sense) = 0
      BY <2>3, <3>1, KeyIsSuccess DEF Misread
    <3>3. verify10(answer) = 0
      BY <2>3, <3>2 DEF Misread, verify10
    <3> QED  BY <2>1, <3>3 DEF Returned
  <2> QED  BY <2>2, <2>3
<1> QED  BY <1>1, Inductive, PTL

\* The caller gets the documented category.
THEOREM CategoriesAreDocumented == Spec => []ClassifiedAsDocumented
<1>1. IInv => ClassifiedAsDocumented
  <2> SUFFICES ASSUME IInv, pc = "done", answer.os = 0, answer.host = 0,
                      \/ answer.driver = 8
                      \/ answer.driver = 0 /\ answer.status \in {2, 34},
                      Whole(answer.sense)
               PROVE  result = Documented(answer.sense)
    BY DEF ClassifiedAsDocumented
  <2>1. answer.sense \in AnySense /\ result = Returned(verify10(answer))
    BY DEF IInv, ResultInv, AnyAnswer, Reports
  <2>2. verify10(answer) = SenseResult(answer.sense)
    BY DEF verify10
  <2> QED  BY <2>1, <2>2, SenseDecoding
<1> QED  BY <1>1, Inductive, PTL
=============================================================================
