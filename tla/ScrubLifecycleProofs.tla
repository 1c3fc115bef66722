------------------------ MODULE ScrubLifecycleProofs ------------------------
(***************************************************************************)
(* Proofs about ScrubLifecycle, for any set of users: the references of    *)
(* the disk balance, and users and a sleeping main thread never touch a    *)
(* disk that was freed.                                                    *)
(***************************************************************************)
EXTENDS ScrubLifecycle, TLAPS

TypeInv ==
    /\ dpc \in {"new", "register", "up", "remove", "unlinked", "gone"}
    /\ drefs \in Int /\ kref \in Int
    /\ taken \in {"no", "yes", "failed", "put"}
    /\ task \in {"none", "error", "created", "runs", "asleep"}

\* How far the driver is, and what exists then.
StageInv ==
    /\ dpc \in {"new", "register"} => taken = "no"
    /\ dpc \in {"unlinked", "gone"} => taken # "yes"
    /\ dpc = "remove" => taken \notin {"no", "put"}
    /\ dpc = "up" /\ scrubber => taken \notin {"no", "put"}
    /\ dpc = "up" /\ ~scrubber => taken # "yes"
    /\ parent => taken = "yes"
    /\ dpc = "new" => ~scrubber
    /\ dpc \in {"register", "remove"} => scrubber
    /\ scrubber => kref = 1
    /\ ~scrubber => task = "none"

\* Users are inside only between the registration and the end of the removal.
InsideInv ==
    /\ insysfs => dpc = "up" /\ scrubber
    /\ inside # {} => dpc \in {"up", "remove"} /\ scrubber

\* What the main thread may know of a disk that was freed.
FreedInv ==
    taken # "failed" =>
       /\ late => drefs = 0 /\ awake
       /\ drefs = 0 /\ ~awake => task \notin {"created", "runs"}

IInv == TypeInv /\ StageInv /\ DiskReferences /\ InsideInv /\ FreedInv

Driver == AddOther \/ InitScrub \/ Register \/ RegisterOrphan \/ UnlinkOther
          \/ Unregister \/ Remove \/ DriverPut

-----------------------------------------------------------------------------
\* A new disk satisfies the invariant.
LEMMA InitIInv == Init => IInv
<1> SUFFICES ASSUME Init PROVE IInv
  OBVIOUS
<1> USE DEF Init
<1>1. TypeInv
  BY DEF TypeInv
<1>2. StageInv
  BY DEF StageInv
<1>3. DiskReferences
  BY DEF DiskReferences
<1>4. InsideInv
  BY DEF InsideInv
<1>5. FreedInv
  BY DEF FreedInv
<1> QED  BY <1>1, <1>2, <1>3, <1>4, <1>5 DEF IInv

\* Between the two ends of its life a disk whose references balance has one,
\* and when it has none it is gone.
LEMMA AliveUntilGone ==
    ASSUME IInv, taken # "failed"
    PROVE  (dpc # "gone") <=> (drefs > 0)
BY DEF IInv, TypeInv, StageInv, DiskReferences

\* The steps of the driver keep the invariant.
LEMMA DriverIInv == ASSUME IInv, Driver PROVE IInv'
<1> USE DEF IInv, TypeInv, StageInv, DiskReferences, InsideInv, FreedInv, Goes,
            disk, object, thread
<1>1. CASE AddOther
  BY <1>1 DEF AddOther
<1>2. CASE InitScrub
  BY <1>2 DEF InitScrub
<1>3. CASE Register
  <2>1. TypeInv'
    BY <1>3 DEF Register, RegisterWith
  <2>2. StageInv'
    BY <1>3 DEF Register, RegisterWith
  <2>3. DiskReferences'
    BY <1>3 DEF Register, RegisterWith
  <2>4. InsideInv'
    BY <1>3 DEF Register, RegisterWith
  <2>5. FreedInv'
    BY <1>3 DEF Register, RegisterWith
  <2> QED  BY <2>1, <2>2, <2>3, <2>4, <2>5
<1>4. CASE RegisterOrphan
  <2>1. TypeInv'
    BY <1>4 DEF RegisterOrphan, RegisterWith
  <2>2. StageInv'
    BY <1>4 DEF RegisterOrphan, RegisterWith
  <2>3. DiskReferences'
    BY <1>4 DEF RegisterOrphan, RegisterWith
  <2>4. InsideInv'
    BY <1>4 DEF RegisterOrphan, RegisterWith
  <2>5. FreedInv'
    BY <1>4 DEF RegisterOrphan, RegisterWith
  <2> QED  BY <2>1, <2>2, <2>3, <2>4, <2>5
<1>5. CASE UnlinkOther
  BY <1>5 DEF UnlinkOther
<1>6. CASE Unregister
  BY <1>6 DEF Unregister
<1>7. CASE Remove
  <2>1. TypeInv'
    BY <1>7 DEF Remove, DiskRefs
  <2>2. StageInv'
    BY <1>7 DEF Remove, DiskRefs
  <2>3. DiskReferences'
    BY <1>7 DEF Remove, DiskRefs
  <2>4. InsideInv'
    BY <1>7 DEF Remove, DiskRefs
  <2>5. FreedInv'
    BY <1>7 DEF Remove, DiskRefs
  <2> QED  BY <2>1, <2>2, <2>3, <2>4, <2>5
<1>8. CASE DriverPut
  <2>1. TypeInv'
    BY <1>8 DEF DriverPut, DiskRefs
  <2>2. StageInv'
    BY <1>8 DEF DriverPut, DiskRefs
  <2>3. DiskReferences'
    BY <1>8 DEF DriverPut, DiskRefs
  <2>4. InsideInv'
    BY <1>8 DEF DriverPut, DiskRefs
  <2>5. FreedInv'
    <3> SUFFICES ASSUME taken # "failed" PROVE FreedInv'
      BY <1>8 DEF DriverPut
    <3>1. drefs = 1 /\ drefs' = 0 /\ late' = late /\ task' = task
      BY <1>8 DEF DriverPut, DiskRefs
    <3>2. ~late
      BY <3>1
    <3>3. awake' = (task \in {"created", "runs"})
      BY <1>8, <3>1 DEF DriverPut, DiskRefs
    <3>4. ~awake' => task \notin {"created", "runs"}
      BY <3>3, Zenon
    <3> QED  BY <3>1, <3>2, <3>4
  <2> QED  BY <2>1, <2>2, <2>3, <2>4, <2>5
<1> QED  BY <1>1, <1>2, <1>3, <1>4, <1>5, <1>6, <1>7, <1>8 DEF Driver

\* So do the users and the main thread, which leave the driver's part alone.
LEMMA OthersIInv ==
    ASSUME IInv, MainLooks \/ \E u \in Users : User(u)
    PROVE  IInv'
<1>0. taken # "failed" => ((dpc # "gone") <=> (drefs > 0))
  BY AliveUntilGone
<1> USE DEF IInv, TypeInv, StageInv, DiskReferences, InsideInv, FreedInv,
            disk, object, thread
<1>1. CASE MainLooks
  <2>1. TypeInv'
    BY <1>0, <1>1 DEF MainLooks
  <2>2. StageInv'
    BY <1>0, <1>1 DEF MainLooks
  <2>3. DiskReferences'
    BY <1>0, <1>1 DEF MainLooks
  <2>4. InsideInv'
    BY <1>0, <1>1 DEF MainLooks
  <2>5. FreedInv'
    <3> SUFFICES ASSUME taken # "failed" PROVE FreedInv'
      BY <1>1 DEF MainLooks
    <3>1. task \in {"created", "runs"} /\ drefs' = drefs /\ awake' = awake
      BY <1>1 DEF MainLooks
    <3>2. drefs >= 0
      OBVIOUS
    <3>3. late' => late \/ drefs <= 0
      BY <1>1, Zenon DEF MainLooks
    <3>4. drefs = 0 => awake
      BY <3>1
    <3> QED  BY <3>1, <3>2, <3>3, <3>4
  <2> QED  BY <2>1, <2>2, <2>3, <2>4, <2>5
<1>2. ASSUME NEW u \in Users, User(u) PROVE IInv'
  <2>1. CASE Enter(u)
    BY <2>1 DEF Enter
  <2>2. CASE StoreOn(u)
    BY <1>0, <2>2 DEF StoreOn, Returns
  <2>3. CASE StoreOnDies(u)
    BY <2>3 DEF StoreOnDies
  <2>4. CASE StoreOffOrAbort(u)
    BY <2>4 DEF StoreOffOrAbort, Returns
  <2>5. CASE OtherAttribute(u)
    BY <2>5 DEF OtherAttribute, Returns
  <2> QED  BY <1>2, <2>1, <2>2, <2>3, <2>4, <2>5 DEF User
<1> QED  BY <1>1, <1>2

\* The invariant is inductive.
LEMMA NextIInv == ASSUME IInv, [Next]_vars PROVE IInv'
<1>1. CASE Next
  BY <1>1, DriverIInv, OthersIInv DEF Next, Driver
<1>2. CASE UNCHANGED vars
  BY <1>2 DEF vars, disk, object, thread, IInv, TypeInv, StageInv,
              DiskReferences, InsideInv, FreedInv
<1> QED  BY <1>1, <1>2

\* The safety of the users follows from it.
LEMMA SafeFromIInv == IInv => UsersAreSafe
<1> SUFFICES ASSUME IInv PROVE UsersAreSafe
  OBVIOUS
<1>1. ASSUME taken # "failed"
      PROVE  (inside # {} => drefs > 0) /\ (late => awake)
  <2>1. (dpc # "gone") <=> (drefs > 0)
    BY <1>1, AliveUntilGone
  <2> QED  BY <1>1, <2>1 DEF IInv, InsideInv, FreedInv
<1>2. inside # {} \/ task \in {"created", "runs", "asleep"} => kref > 0
  BY DEF IInv, StageInv, InsideInv
<1> QED  BY <1>1, <1>2 DEF UsersAreSafe

\* It holds in every reachable state.
LEMMA Inductive == Spec => []IInv
<1>1. IInv /\ [Next]_vars => IInv'
  BY NextIInv
<1> QED  BY InitIInv, <1>1, PTL DEF Spec

\* On every path through blk_register_scrub() and blk_unregister_scrub(), with
\* any number of users, the references of the gendisk are those of its holders.
THEOREM ReferencesBalance == Spec => []DiskReferences
<1>1. IInv => DiskReferences
  BY DEF IInv
<1> QED  BY Inductive, <1>1, PTL

\* No user inside a show or store meets a freed disk or scrubber, and a main
\* thread that slept when the disk was freed never looks at it again, and finds a
\* scrubber whenever it looks.
THEOREM UsersStaySafe == Spec => []UsersAreSafe
BY Inductive, SafeFromIInv, PTL
=============================================================================
