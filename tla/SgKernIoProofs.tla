--------------------------- MODULE SgKernIoProofs ---------------------------
(***************************************************************************)
(* Proofs about SgKernIo, for any set of callers and any number of         *)
(* switches of the elevator: the references of a VERIFY request are those  *)
(* of its holders, an elevator is not switched under its private data, and *)
(* the counters of the queue and of the elevators are exact.               *)
(***************************************************************************)
EXTENDS SgKernIo, FiniteSetTheorems, TLAPS

\* The types that the argument needs.
TypeInv ==
    /\ pc \in [Callers -> {"idle", "full", "alloc", "fill", "submit", "wait"}]
    /\ ref \in [Callers -> Int] /\ bio \in [Callers -> Int]
    /\ where \in [Callers -> {"none", "elevator", "list", "disk", "lost"}]
    /\ priv \in [Callers -> BOOLEAN] /\ sorted \in [Callers -> BOOLEAN]
    /\ started \in [Callers -> BOOLEAN] /\ done \in [Callers -> BOOLEAN]
    /\ setby \in [Callers -> Int] /\ active \in [Callers -> Int]
    /\ elvpriv \in Int /\ elevator \in Int /\ made \in Int /\ old \in Int
    /\ spc \in {"none", "sleep", "attached", "failed", "restored"}

\* What the place of a caller says about its request: it is with the queue
\* exactly while the caller sleeps and was not completed; it is marked sorted
\* from the insertion on, and started only after that.
PlaceInv ==
    \A c \in Callers :
      /\ (where[c] # "none") <=> (pc[c] = "wait" /\ ~done[c])
      /\ done[c] => pc[c] = "wait"
      /\ pc[c] = "wait" => sorted[c] /\ bio[c] = 2
      /\ pc[c] # "wait" => ~started[c] /\ bio[c] = 0
      /\ pc[c] \in {"idle", "full"} => ~priv[c]

\* The references.
RefInv ==
    \A c \in Callers :
      ref[c] = (IF pc[c] \in {"fill", "submit", "wait"} THEN 1 ELSE 0)
               + (IF where[c] # "none" THEN 1 ELSE 0)

\* The requests with private data, which q->rq.elvpriv counts.
Privs   == {c \in Callers : priv[c]}
PrivInv == elvpriv = Cardinality(Privs)

IInv == TypeInv /\ PlaceInv /\ RefInv /\ PrivInv /\ PrivateDataStays

USE DEF request, queue, switch, counts

-----------------------------------------------------------------------------
\* The counted set is finite.
LEMMA PrivsFinite == IsFiniteSet(Privs) /\ IsFiniteSet(Privs')
BY CallersAssumption, FS_Subset DEF Privs

\* No request is counted exactly when none has private data.
LEMMA NoneCounted ==
    ASSUME PrivInv, elvpriv = 0
    PROVE  \A c \in Callers : ~priv[c]
<1>1. Privs = {}
  BY PrivsFinite, FS_EmptySet DEF PrivInv
<1> QED  BY <1>1 DEF Privs

\* An idle queue satisfies the invariant.
LEMMA InitIInv == Init => IInv
<1> SUFFICES ASSUME Init PROVE IInv
  OBVIOUS
<1>1. TypeInv
  BY DEF Init, TypeInv, NoElevator
<1>2. PlaceInv /\ RefInv
  BY DEF Init, PlaceInv, RefInv
<1>3. PrivInv
  <2>1. Privs = {}
    BY DEF Init, Privs
  <2> QED  BY <2>1, FS_EmptySet DEF Init, PrivInv
<1>4. PrivateDataStays
  BY DEF Init, PrivateDataStays
<1> QED  BY <1>1, <1>2, <1>3, <1>4 DEF IInv

-----------------------------------------------------------------------------
(* The counter of private data.                                             *)

\* get_request() counts the request exactly if it will have private data.
LEMMA PrivGet ==
    ASSUME IInv, NEW c \in Callers, GetRequest(c) PROVE PrivInv'
<1>1. ~priv[c] /\ priv \in [Callers -> BOOLEAN] /\ elvpriv \in Int
  BY DEF IInv, TypeInv, PlaceInv, GetRequest, Goes
<1>2. CASE Switching
  <2>1. Privs' = Privs
    BY <1>1, <1>2 DEF GetRequest, Privs
  <2> QED  BY <1>1, <1>2, <2>1 DEF IInv, PrivInv, GetRequest
<1>3. CASE ~Switching
  <2>1. Privs' = Privs \cup {c} /\ c \notin Privs
    BY <1>1, <1>3 DEF GetRequest, Privs
  <2>2. Cardinality(Privs') = Cardinality(Privs) + 1
    BY <2>1, PrivsFinite, FS_AddElement
  <2> QED  BY <1>1, <1>3, <2>2 DEF IInv, PrivInv, GetRequest
<1> QED  BY <1>2, <1>3

\* One request gives its private data back, if it has any.
LEMMA PrivDrop ==
    ASSUME IInv, NEW c \in Callers, priv' = [priv EXCEPT ![c] = FALSE],
           elvpriv' = elvpriv - (IF priv[c] THEN 1 ELSE 0)
    PROVE  PrivInv'
<1>1. priv \in [Callers -> BOOLEAN] /\ elvpriv \in Int
  BY DEF IInv, TypeInv
<1>2. Privs' = Privs \ {c}
  BY <1>1 DEF Privs
<1>3. CASE priv[c]
  <2>1. c \in Privs
    BY <1>3 DEF Privs
  <2>2. Cardinality(Privs') = Cardinality(Privs) - 1
    BY <1>2, <2>1, PrivsFinite, FS_RemoveElement
  <2> QED  BY <1>1, <1>3, <2>2 DEF IInv, PrivInv
<1>4. CASE ~priv[c]
  <2>1. Privs' = Privs
    BY <1>2, <1>4 DEF Privs
  <2> QED  BY <1>1, <1>4, <2>1 DEF IInv, PrivInv
<1> QED  BY <1>3, <1>4

\* All other steps leave the counter and the flags alone.
LEMMA PrivKept ==
    ASSUME IInv, UNCHANGED <<priv, elvpriv>> PROVE PrivInv'
<1>1. Privs' = Privs
  BY DEF Privs
<1> QED  BY <1>1 DEF IInv, PrivInv

\* Putting a request gives back its private data with its last reference.
LEMMA PrivPut ==
    ASSUME IInv, NEW c \in Callers, blk_put_request(c) PROVE PrivInv'
<1>1. CASE ref[c] = 1
  BY <1>1, PrivDrop DEF blk_put_request, Freed
<1>2. CASE ref[c] # 1
  BY <1>2, PrivKept DEF blk_put_request
<1> QED  BY <1>1, <1>2

\* Every step of a request keeps the counter exact.
LEMMA PrivRequest ==
    ASSUME IInv, NEW c \in Callers, Request(c) PROVE PrivInv'
<1>1. CASE GetRequest(c)
  BY <1>1, PrivGet
<1>2. CASE AllocFails(c)
  BY <1>2, PrivDrop DEF AllocFails
<1>3. CASE FillFails(c) \/ Complete(c) \/ Finish(c)
  BY <1>3, PrivPut DEF FillFails, Complete, Finish
<1>4. CASE AllocRequest(c) \/ Fill(c) \/ Insert(c) \/ Dispatch(c) \/ Peek(c)
           \/ Start(c) \/ Requeue(c)
  BY <1>4, PrivKept DEF AllocRequest, Fill, Insert, InsertWith, Dispatch,
                        Peek, Start, Requeue
<1> QED  BY <1>1, <1>2, <1>3, <1>4 DEF Request

\* A switch neither gives nor takes private data.
LEMMA PrivSwitch == ASSUME IInv, Switch PROVE PrivInv'
BY PrivKept DEF Switch, SwitchStart, SwitchRetry, SwitchDone, SwitchFails,
                SwitchBack, SwitchRestored

-----------------------------------------------------------------------------
\* Putting a request keeps the types of what it changes.
LEMMA PutTypes ==
    ASSUME IInv, NEW c \in Callers, blk_put_request(c)
    PROVE  /\ ref' \in [Callers -> Int] /\ elvpriv' \in Int
           /\ priv' \in [Callers -> BOOLEAN] /\ sorted' \in [Callers -> BOOLEAN]
           /\ started' \in [Callers -> BOOLEAN]
           /\ setby' \in [Callers -> Int] /\ active' \in [Callers -> Int]
<1>1. CASE ref[c] = 1
  <2>1. Freed(c) /\ ref' = [ref EXCEPT ![c] = @ - 1]
    BY <1>1 DEF blk_put_request
  <2>2. ref' \in [Callers -> Int] /\ elvpriv' \in Int
    BY <2>1 DEF IInv, TypeInv, Freed
  <2>3. setby' \in [Callers -> Int] /\ active' \in [Callers -> Int]
    BY <2>1 DEF IInv, TypeInv, Freed, NoElevator
  <2>4. priv' \in [Callers -> BOOLEAN] /\ sorted' \in [Callers -> BOOLEAN]
    BY <2>1 DEF IInv, TypeInv, Freed
  <2>5. started' \in [Callers -> BOOLEAN]
    BY <2>1 DEF IInv, TypeInv, Freed
  <2> QED  BY <2>2, <2>3, <2>4, <2>5
<1>2. CASE ref[c] # 1
  BY <1>2 DEF IInv, TypeInv, blk_put_request
<1> QED  BY <1>1, <1>2

\* Every step of a request keeps the types.
LEMMA TypeRequest ==
    ASSUME IInv, NEW c \in Callers, Request(c) PROVE TypeInv'
<1> USE DEF IInv, TypeInv, Goes, NoElevator
<1>1. CASE GetRequest(c)
  BY <1>1 DEF GetRequest
<1>2. CASE AllocRequest(c)
  BY <1>2 DEF AllocRequest
<1>3. CASE AllocFails(c)
  BY <1>3 DEF AllocFails
<1>4. CASE Fill(c)
  BY <1>4 DEF Fill
<1>5. CASE FillFails(c)
  BY <1>5, PutTypes DEF FillFails
<1>6. CASE Insert(c)
  BY <1>6 DEF Insert, InsertWith
<1>7. CASE Dispatch(c)
  BY <1>7 DEF Dispatch
<1>8. CASE Peek(c)
  BY <1>8 DEF Peek
<1>9. CASE Start(c)
  BY <1>9 DEF Start
<1>10. CASE Requeue(c)
  BY <1>10 DEF Requeue
<1>11. CASE Complete(c)
  BY <1>11, PutTypes DEF Complete
<1>12. CASE Finish(c)
  BY <1>12, PutTypes DEF Finish
<1> QED  BY <1>1, <1>2, <1>3, <1>4, <1>5, <1>6, <1>7, <1>8, <1>9, <1>10, <1>11, <1>12
         DEF Request

\* So does every step of a switch.
LEMMA TypeSwitch == ASSUME IInv, Switch PROVE TypeInv'
<1> USE DEF IInv, TypeInv
<1>1. CASE SwitchStart
  BY <1>1 DEF SwitchStart, Quiesce, Drain, AttachUnless, InElevator
<1>2. CASE SwitchRetry
  BY <1>2 DEF SwitchRetry, Quiesce, Drain, AttachUnless, InElevator
<1>3. CASE SwitchDone
  BY <1>3 DEF SwitchDone
<1>4. CASE SwitchFails
  BY <1>4 DEF SwitchFails, InElevator
<1>5. CASE SwitchBack
  BY <1>5 DEF SwitchBack, InElevator
<1>6. CASE SwitchRestored
  BY <1>6 DEF SwitchRestored
<1> QED  BY <1>1, <1>2, <1>3, <1>4, <1>5, <1>6 DEF Switch

\* Every step of a request keeps its flags and its place consistent.
LEMMA PlaceRequest ==
    ASSUME IInv, NEW c \in Callers, Request(c) PROVE PlaceInv'
<1> USE DEF IInv, TypeInv, PlaceInv, RefInv, Goes
<1>1. CASE GetRequest(c)
  BY <1>1 DEF GetRequest
<1>2. CASE AllocRequest(c)
  BY <1>2 DEF AllocRequest
<1>3. CASE AllocFails(c)
  BY <1>3 DEF AllocFails
<1>4. CASE Fill(c)
  BY <1>4 DEF Fill
<1>5. CASE FillFails(c)
  BY <1>5 DEF FillFails, blk_put_request, Freed
<1>6. CASE Insert(c)
  BY <1>6 DEF Insert, InsertWith
<1>7. CASE Dispatch(c)
  BY <1>7 DEF Dispatch
<1>8. CASE Peek(c)
  BY <1>8 DEF Peek
<1>9. CASE Start(c)
  BY <1>9 DEF Start
<1>10. CASE Requeue(c)
  BY <1>10 DEF Requeue
<1>11. CASE Complete(c)
  BY <1>11 DEF Complete, blk_put_request, Freed
<1>12. CASE Finish(c)
  BY <1>12 DEF Finish, blk_put_request, Freed
<1> QED  BY <1>1, <1>2, <1>3, <1>4, <1>5, <1>6, <1>7, <1>8, <1>9, <1>10, <1>11, <1>12
         DEF Request

\* A switch moves requests from the elevator to the list, or loses them; either
\* way they stay with the queue.
LEMMA PlaceSwitch == ASSUME IInv, Switch PROVE PlaceInv'
<1> USE DEF IInv, TypeInv, PlaceInv, RefInv
<1>1. CASE SwitchStart
  BY <1>1 DEF SwitchStart, Quiesce, Drain, AttachUnless, InElevator
<1>2. CASE SwitchRetry
  BY <1>2 DEF SwitchRetry, Quiesce, Drain, AttachUnless, InElevator
<1>3. CASE SwitchDone
  BY <1>3 DEF SwitchDone
<1>4. CASE SwitchFails
  BY <1>4 DEF SwitchFails, InElevator
<1>5. CASE SwitchBack
  BY <1>5 DEF SwitchBack, InElevator
<1>6. CASE SwitchRestored
  BY <1>6 DEF SwitchRestored
<1> QED  BY <1>1, <1>2, <1>3, <1>4, <1>5, <1>6 DEF Switch

\* Every step of a request takes and drops the references of its holders.
LEMMA RefRequest ==
    ASSUME IInv, NEW c \in Callers, Request(c) PROVE RefInv'
<1> USE DEF IInv, TypeInv, PlaceInv, RefInv, Goes
<1>1. CASE GetRequest(c)
  BY <1>1 DEF GetRequest
<1>2. CASE AllocRequest(c)
  BY <1>2 DEF AllocRequest
<1>3. CASE AllocFails(c)
  BY <1>3 DEF AllocFails
<1>4. CASE Fill(c)
  BY <1>4 DEF Fill
<1>5. CASE FillFails(c)
  BY <1>5 DEF FillFails, blk_put_request, Freed
<1>6. CASE Insert(c)
  BY <1>6 DEF Insert, InsertWith
<1>7. CASE Dispatch(c)
  BY <1>7 DEF Dispatch
<1>8. CASE Peek(c)
  BY <1>8 DEF Peek
<1>9. CASE Start(c)
  BY <1>9 DEF Start
<1>10. CASE Requeue(c)
  BY <1>10 DEF Requeue
<1>11. CASE Complete(c)
  BY <1>11 DEF Complete, blk_put_request, Freed
<1>12. CASE Finish(c)
  BY <1>12 DEF Finish, blk_put_request, Freed
<1> QED  BY <1>1, <1>2, <1>3, <1>4, <1>5, <1>6, <1>7, <1>8, <1>9, <1>10, <1>11, <1>12
         DEF Request

\* A switch takes and drops no reference.
LEMMA RefSwitch == ASSUME IInv, Switch PROVE RefInv'
<1> USE DEF IInv, TypeInv, PlaceInv, RefInv
<1>1. CASE SwitchStart
  BY <1>1 DEF SwitchStart, Quiesce, Drain, AttachUnless, InElevator
<1>2. CASE SwitchRetry
  BY <1>2 DEF SwitchRetry, Quiesce, Drain, AttachUnless, InElevator
<1>3. CASE SwitchDone
  BY <1>3 DEF SwitchDone
<1>4. CASE SwitchFails
  BY <1>4 DEF SwitchFails, InElevator
<1>5. CASE SwitchBack
  BY <1>5 DEF SwitchBack, InElevator
<1>6. CASE SwitchRestored
  BY <1>6 DEF SwitchRestored
<1> QED  BY <1>1, <1>2, <1>3, <1>4, <1>5, <1>6 DEF Switch

\* Private data are set up by, and activated in, the elevator of the moment.
LEMMA StaysRequest ==
    ASSUME IInv, NEW c \in Callers, Request(c) PROVE PrivateDataStays'
<1> USE DEF IInv, TypeInv, PlaceInv, RefInv, PrivateDataStays, Switching, Goes
<1>1. CASE GetRequest(c)
  BY <1>1 DEF GetRequest
<1>2. CASE AllocRequest(c)
  BY <1>2 DEF AllocRequest
<1>3. CASE AllocFails(c)
  BY <1>3 DEF AllocFails
<1>4. CASE Fill(c)
  BY <1>4 DEF Fill
<1>5. CASE FillFails(c)
  BY <1>5 DEF FillFails, blk_put_request, Freed
<1>6. CASE Insert(c)
  BY <1>6 DEF Insert, InsertWith
<1>7. CASE Dispatch(c)
  BY <1>7 DEF Dispatch
<1>8. CASE Peek(c)
  BY <1>8 DEF Peek
<1>9. CASE Start(c)
  BY <1>9 DEF Start
<1>10. CASE Requeue(c)
  BY <1>10 DEF Requeue
<1>11. CASE Complete(c)
  BY <1>11 DEF Complete, blk_put_request, Freed
<1>12. CASE Finish(c)
  BY <1>12 DEF Finish, blk_put_request, Freed
<1> QED  BY <1>1, <1>2, <1>3, <1>4, <1>5, <1>6, <1>7, <1>8, <1>9, <1>10, <1>11, <1>12
         DEF Request

\* The elevator changes only once nobody has private data.
LEMMA StaysSwitch == ASSUME IInv, Switch PROVE PrivateDataStays'
<1> USE DEF IInv, TypeInv, PlaceInv, RefInv, PrivateDataStays, Switching
<1>1. CASE SwitchStart
  <2>1. CASE elvpriv = 0
    BY <1>1, <2>1, NoneCounted DEF SwitchStart, Quiesce, AttachUnless
  <2>2. CASE elvpriv # 0
    BY <1>1, <2>2 DEF SwitchStart, Quiesce, AttachUnless
  <2> QED  BY <2>1, <2>2
<1>2. CASE SwitchRetry
  <2>1. CASE elvpriv = 0
    BY <1>2, <2>1, NoneCounted DEF SwitchRetry, Quiesce, AttachUnless
  <2>2. CASE elvpriv # 0
    BY <1>2, <2>2 DEF SwitchRetry, Quiesce, AttachUnless
  <2> QED  BY <2>1, <2>2
<1>3. CASE SwitchDone
  BY <1>3 DEF SwitchDone
<1>4. CASE SwitchFails
  BY <1>4 DEF SwitchFails, InElevator
<1>5. CASE SwitchBack
  BY <1>5 DEF SwitchBack, InElevator
<1>6. CASE SwitchRestored
  BY <1>6 DEF SwitchRestored
<1> QED  BY <1>1, <1>2, <1>3, <1>4, <1>5, <1>6 DEF Switch

-----------------------------------------------------------------------------
\* The invariant is inductive.
LEMMA NextIInv == ASSUME IInv, [Next]_vars PROVE IInv'
<1>1. CASE Switch
  BY <1>1, TypeSwitch, PlaceSwitch, RefSwitch, PrivSwitch, StaysSwitch DEF IInv
<1>2. ASSUME NEW c \in Callers, Request(c) PROVE IInv'
  BY <1>2, TypeRequest, PlaceRequest, RefRequest, PrivRequest, StaysRequest
     DEF IInv
<1>3. CASE UNCHANGED vars
  <2>1. PrivInv'
    BY <1>3, PrivKept DEF vars
  <2> QED
    BY <1>3, <2>1 DEF vars, IInv, TypeInv, PlaceInv, RefInv, PrivateDataStays
<1> QED  BY <1>1, <1>2, <1>3 DEF Next

\* It holds in every reachable state.
LEMMA Inductive == Spec => []IInv
<1>1. IInv /\ [Next]_vars => IInv'
  BY NextIInv
<1> QED  BY InitIInv, <1>1, PTL DEF Spec

\* At every moment the references of every VERIFY request are those of the
\* sleeping caller and of the queue, and none is left, nor a bio, when
\* sg_kern_io() has returned.
THEOREM ReferencesAreHeld == Spec => []References
<1>1. IInv => References
  BY DEF IInv, TypeInv, PlaceInv, RefInv, References, CallerHolds, QueueHolds
<1> QED  BY Inductive, <1>1, PTL

\* elevator_switch() never changes the elevator under a VERIFY request that has
\* private data, however often it is called and however it fails.
THEOREM ElevatorStays == Spec => []PrivateDataStays
<1>1. IInv => PrivateDataStays
  BY DEF IInv
<1> QED  BY Inductive, <1>1, PTL

-----------------------------------------------------------------------------
(* The other counters.                                                      *)

\* A request is activated in an elevator exactly while it is started.
ActiveInv ==
    \A c \in Callers : IF started[c] THEN active[c] \in Elevators
                       ELSE active[c] = NoElevator

\* The elevators are ones that were allocated.
ElevatorInv ==
    /\ elevator \in Elevators /\ made \in Elevators /\ old \in Elevators
    /\ \A c \in Callers : setby[c] \in Elevators \cup {NoElevator}
    /\ in_flight \in Int /\ nr_sorted \in Int
    /\ in_driver \in [Elevators -> Int] /\ skewed \subseteq Elevators

\* What q->in_flight, q->nr_sorted and the rq_in_driver of an elevator count.
Flying     == {c \in Callers : started[c] /\ where[c] \in {"disk", "none"}}
Queued     == {c \in Callers : where[c] \in {"elevator", "lost"}}
InDriver(e) == {c \in Callers : active[c] = e}

FlyingInv == in_flight = Cardinality(Flying)
QueuedInv == nr_sorted = Cardinality(Queued)
DriverInv == \A e \in Elevators \ skewed :
               in_driver[e] = Cardinality(InDriver(e))

CountInv == IInv /\ ActiveInv /\ ElevatorInv /\ FlyingInv /\ QueuedInv /\ DriverInv

\* Cardinalities of sets of requests.
LEMMA Counting ==
    ASSUME NEW S \in SUBSET Callers, NEW c \in Callers
    PROVE  /\ Cardinality(S) \in Nat
           /\ c \notin S => Cardinality(S \cup {c}) = Cardinality(S) + 1
           /\ c \in S => Cardinality(S \ {c}) = Cardinality(S) - 1
<1>1. IsFiniteSet(S)
  BY CallersAssumption, FS_Subset
<1>2. Cardinality(S) \in Nat
  BY <1>1, FS_CardinalityType
<1>3. c \notin S => Cardinality(S \cup {c}) = Cardinality(S) + 1
  BY <1>1, FS_AddElement
<1>4. c \in S => Cardinality(S \ {c}) = Cardinality(S) - 1
  BY <1>1, FS_RemoveElement
<1> QED  BY <1>2, <1>3, <1>4

\* An idle queue satisfies the invariant.
LEMMA InitCountInv == Init => CountInv
<1> SUFFICES ASSUME Init PROVE CountInv
  OBVIOUS
<1>1. IInv
  BY InitIInv
<1>2. ActiveInv
  BY DEF Init, ActiveInv
<1>3. ElevatorInv
  BY MaxElevatorAssumption DEF Init, ElevatorInv, Elevators
<1>4. Flying = {} /\ Queued = {} /\ \A e \in Elevators : InDriver(e) = {}
  BY DEF Init, Flying, Queued, InDriver, Elevators, NoElevator
<1>5. FlyingInv /\ QueuedInv /\ DriverInv
  BY <1>4, FS_EmptySet DEF Init, FlyingInv, QueuedInv, DriverInv
<1> QED  BY <1>1, <1>2, <1>3, <1>5 DEF CountInv

-----------------------------------------------------------------------------
\* Every step of a request keeps the elevator that activated it.
LEMMA ActiveRequest ==
    ASSUME CountInv, NEW c \in Callers, Request(c) PROVE ActiveInv'
<1> USE DEF CountInv, IInv, TypeInv, PlaceInv, RefInv, ActiveInv, ElevatorInv, Goes
<1>1. CASE GetRequest(c) \/ AllocRequest(c) \/ AllocFails(c) \/ Fill(c)
           \/ Insert(c) \/ Dispatch(c) \/ Start(c)
  BY <1>1 DEF GetRequest, AllocRequest, AllocFails, Fill, Insert, InsertWith,
              Dispatch, Start
<1>2. CASE FillFails(c)
  BY <1>2 DEF FillFails, blk_put_request, Freed
<1>3. CASE Peek(c)
  BY <1>3 DEF Peek
<1>4. CASE Requeue(c)
  BY <1>4 DEF Requeue
<1>5. CASE Complete(c)
  BY <1>5 DEF Complete, blk_put_request, Freed
<1>6. CASE Finish(c)
  BY <1>6 DEF Finish, blk_put_request, Freed
<1> QED  BY <1>1, <1>2, <1>3, <1>4, <1>5, <1>6 DEF Request

\* Telling an elevator about a completion keeps the types of the counters.
LEMMA CompletedTypes ==
    ASSUME CountInv, NEW c \in Callers, elv_completed_request(c)
    PROVE  /\ in_flight' \in Int /\ in_driver' \in [Elevators -> Int]
           /\ skewed' \subseteq Elevators
<1> USE DEF CountInv, IInv, TypeInv, ActiveInv, ElevatorInv
<1>1. in_flight' \in Int
  BY DEF elv_completed_request
<1>2. in_driver' \in [Elevators -> Int]
  BY DEF elv_completed_request
<1>3. skewed' \subseteq Elevators
  BY DEF elv_completed_request, blk_account_rq
<1> QED  BY <1>1, <1>2, <1>3

\* Every step of a request knows only elevators that were allocated.
LEMMA ElevatorRequest ==
    ASSUME CountInv, NEW c \in Callers, Request(c) PROVE ElevatorInv'
<1> USE DEF CountInv, IInv, TypeInv, ElevatorInv
<1>1. CASE GetRequest(c) \/ AllocFails(c) \/ Fill(c)
  BY <1>1 DEF GetRequest, AllocFails, Fill
<1>2. CASE Insert(c) \/ Dispatch(c) \/ Start(c)
  <2>1. in_flight' \in Int /\ nr_sorted' \in Int
    BY <1>2 DEF Insert, InsertWith, Dispatch, Start
  <2> QED  BY <1>2, <2>1 DEF Insert, InsertWith, Dispatch, Start
<1>3. CASE AllocRequest(c)
  BY <1>3 DEF AllocRequest
<1>4. CASE Peek(c)
  BY <1>4 DEF Peek
<1>5. CASE Requeue(c)
  BY <1>5, CompletedTypes DEF Requeue
<1>6. ASSUME blk_put_request(c), UNCHANGED <<nr_sorted, switch>>
      PROVE  ElevatorInv'
  BY <1>6, CompletedTypes DEF blk_put_request, Freed
<1>7. CASE FillFails(c) \/ Complete(c) \/ Finish(c)
  BY <1>6, <1>7 DEF FillFails, Complete, Finish
<1> QED  BY <1>1, <1>2, <1>3, <1>4, <1>5, <1>7 DEF Request

\* A switch allocates at most MaxElevator of them.
LEMMA ElevatorSwitch == ASSUME CountInv, Switch PROVE ElevatorInv' /\ ActiveInv'
<1> USE DEF CountInv, ElevatorInv, ActiveInv
<1>1. CASE SwitchStart
  <2>1. made + 1 \in Elevators
    BY <1>1, MaxElevatorAssumption DEF SwitchStart, Elevators
  <2>2. Cardinality(InElevator) \in Int
    BY CallersAssumption, FS_Subset, FS_CardinalityType DEF InElevator
  <2> QED  BY <1>1, <2>1, <2>2 DEF SwitchStart, Quiesce, Drain, AttachUnless
<1>2. CASE SwitchRetry
  <2>1. Cardinality(InElevator) \in Int
    BY CallersAssumption, FS_Subset, FS_CardinalityType DEF InElevator
  <2> QED  BY <1>2, <2>1 DEF SwitchRetry, Quiesce, Drain, AttachUnless
<1>3. CASE SwitchDone \/ SwitchFails \/ SwitchBack \/ SwitchRestored
  BY <1>3 DEF SwitchDone, SwitchFails, SwitchBack, SwitchRestored
<1> QED  BY <1>1, <1>2, <1>3 DEF Switch

-----------------------------------------------------------------------------
(* q->in_flight                                                             *)

\* A step that leaves the started requests at the disk alone.
LEMMA FlyingKept ==
    ASSUME CountInv, Flying' = Flying, in_flight' = in_flight PROVE FlyingInv'
BY DEF CountInv, FlyingInv

\* One request is no longer in flight, if it was.
LEMMA FlyingLeaves ==
    ASSUME CountInv, NEW c \in Callers, where[c] \in {"disk", "none"},
           elv_completed_request(c), Flying' = Flying \ {c}
    PROVE  FlyingInv'
<1>1. Flying \in SUBSET Callers /\ in_flight \in Int
  BY DEF Flying, CountInv, ElevatorInv
<1>2. CASE started[c]
  <2>1. c \in Flying
    BY <1>2 DEF Flying
  <2>2. Cardinality(Flying') = Cardinality(Flying) - 1
    BY <1>1, <2>1, Counting
  <2> QED
    BY <1>1, <1>2, <2>2
       DEF CountInv, FlyingInv, elv_completed_request, blk_account_rq
<1>3. CASE ~started[c]
  <2>1. Flying' = Flying
    BY <1>3 DEF Flying
  <2> QED
    BY <1>1, <1>3, <2>1
       DEF CountInv, FlyingInv, elv_completed_request, blk_account_rq
<1> QED  BY <1>2, <1>3

\* Every step of a request keeps q->in_flight exact.
LEMMA FlyingRequest ==
    ASSUME CountInv, NEW c \in Callers, Request(c) PROVE FlyingInv'
<1> USE DEF CountInv, IInv, TypeInv, PlaceInv, RefInv, Goes
<1>1. CASE GetRequest(c) \/ AllocRequest(c) \/ AllocFails(c) \/ Fill(c)
  <2>1. Flying' = Flying /\ in_flight' = in_flight
    BY <1>1 DEF GetRequest, AllocRequest, AllocFails, Fill, Flying
  <2> QED  BY <2>1, FlyingKept
<1>2. CASE Insert(c)
  <2>1. Flying' = Flying /\ in_flight' = in_flight
    BY <1>2 DEF Insert, InsertWith, Flying
  <2> QED  BY <2>1, FlyingKept
<1>3. CASE Dispatch(c)
  <2>1. Flying' = Flying /\ in_flight' = in_flight
    BY <1>3 DEF Dispatch, Flying
  <2> QED  BY <2>1, FlyingKept
<1>4. CASE Peek(c)
  <2>1. Flying' = Flying /\ in_flight' = in_flight
    BY <1>4 DEF Peek, Flying
  <2> QED  BY <2>1, FlyingKept
<1>5. CASE Start(c)
  <2>1. Flying' = Flying \cup {c} /\ c \notin Flying
    BY <1>5 DEF Start, Flying
  <2>2. Flying \in SUBSET Callers
    BY DEF Flying
  <2>3. Cardinality(Flying') = Cardinality(Flying) + 1
    BY <2>1, <2>2, Counting
  <2> QED  BY <1>5, <2>3 DEF Start, blk_account_rq, FlyingInv
<1>6. CASE Requeue(c)
  <2>1. Flying' = Flying \ {c}
    BY <1>6 DEF Requeue, Flying
  <2> QED  BY <1>6, <2>1, FlyingLeaves DEF Requeue
<1>7. CASE Complete(c)
  <2>1. ref[c] # 1
    BY <1>7 DEF Complete
  <2>2. Flying' = Flying /\ in_flight' = in_flight
    BY <1>7, <2>1 DEF Complete, blk_put_request, Flying
  <2> QED  BY <2>2, FlyingKept
<1>8. CASE FillFails(c) \/ Finish(c)
  <2>1. ref[c] = 1 /\ where[c] = "none"
    BY <1>8 DEF FillFails, Finish
  <2>2. Freed(c) /\ where' = where
    BY <1>8, <2>1 DEF FillFails, Finish, blk_put_request
  <2>3. Flying' = Flying \ {c}
    BY <2>2 DEF Freed, Flying
  <2> QED  BY <2>1, <2>2, <2>3, FlyingLeaves DEF Freed
<1> QED  BY <1>1, <1>2, <1>3, <1>4, <1>5, <1>6, <1>7, <1>8 DEF Request

\* A switch moves only requests that are not at the disk.
LEMMA FlyingSwitch == ASSUME CountInv, Switch PROVE FlyingInv'
<1> USE DEF CountInv, IInv, TypeInv
<1>1. CASE SwitchStart \/ SwitchRetry
  <2>1. Flying' = Flying /\ in_flight' = in_flight
    BY <1>1 DEF SwitchStart, SwitchRetry, Quiesce, Drain, InElevator, Flying
  <2> QED  BY <2>1, FlyingKept
<1>2. CASE SwitchDone \/ SwitchFails \/ SwitchBack \/ SwitchRestored
  <2>1. Flying' = Flying /\ in_flight' = in_flight
    BY <1>2 DEF SwitchDone, SwitchFails, SwitchBack, SwitchRestored,
                InElevator, Flying
  <2> QED  BY <2>1, FlyingKept
<1> QED  BY <1>1, <1>2 DEF Switch

-----------------------------------------------------------------------------
(* q->nr_sorted                                                             *)

\* A step that leaves the requests in the elevator alone.
LEMMA QueuedKept ==
    ASSUME CountInv, Queued' = Queued, nr_sorted' = nr_sorted PROVE QueuedInv'
BY DEF CountInv, QueuedInv

\* Every step of a request keeps q->nr_sorted exact.
LEMMA QueuedRequest ==
    ASSUME CountInv, NEW c \in Callers, Request(c) PROVE QueuedInv'
<1> USE DEF CountInv, IInv, TypeInv, PlaceInv
<1>1. Queued \in SUBSET Callers /\ nr_sorted \in Int
  BY DEF Queued, ElevatorInv
<1>2. CASE GetRequest(c) \/ AllocRequest(c) \/ AllocFails(c) \/ Fill(c)
           \/ FillFails(c) \/ Peek(c) \/ Finish(c)
  <2>1. Queued' = Queued /\ nr_sorted' = nr_sorted
    BY <1>2 DEF GetRequest, AllocRequest, AllocFails, Fill, FillFails, Peek,
                Finish, Queued
  <2> QED  BY <2>1, QueuedKept
<1>3. CASE Start(c) \/ Requeue(c) \/ Complete(c)
  <2>1. Queued' = Queued /\ nr_sorted' = nr_sorted
    BY <1>3 DEF Start, Requeue, Complete, Queued
  <2> QED  BY <2>1, QueuedKept
<1>4. CASE Insert(c)
  <2>1. Queued' = Queued \cup {c} /\ c \notin Queued
    BY <1>4 DEF Insert, InsertWith, Goes, Queued
  <2>2. Cardinality(Queued') = Cardinality(Queued) + 1
    BY <1>1, <2>1, Counting
  <2> QED  BY <1>4, <2>2 DEF Insert, InsertWith, QueuedInv
<1>5. CASE Dispatch(c)
  <2>1. Queued' = Queued \ {c} /\ c \in Queued
    BY <1>5 DEF Dispatch, Queued
  <2>2. Cardinality(Queued') = Cardinality(Queued) - 1
    BY <1>1, <2>1, Counting
  <2> QED  BY <1>5, <2>2 DEF Dispatch, QueuedInv
<1> QED  BY <1>2, <1>3, <1>4, <1>5 DEF Request

\* Draining takes all requests from the elevator at once; those that were lost
\* in an elevator that failed to register stay counted.
LEMMA QueuedDrain == ASSUME CountInv, Drain PROVE QueuedInv'
<1>1. Queued' = Queued \ InElevator /\ Queued \cap InElevator = InElevator
  BY DEF Drain, Queued, InElevator, CountInv, IInv, TypeInv
<1>2. IsFiniteSet(Queued)
  BY CallersAssumption, FS_Subset DEF Queued
<1>3. Cardinality(Queued') = Cardinality(Queued) - Cardinality(InElevator)
  BY <1>1, <1>2, FS_Difference
<1> QED  BY <1>3 DEF Drain, CountInv, QueuedInv

\* Every step of a switch keeps it exact.
LEMMA QueuedSwitch == ASSUME CountInv, Switch PROVE QueuedInv'
<1> USE DEF CountInv, IInv, TypeInv
<1>1. CASE SwitchStart \/ SwitchRetry
  BY <1>1, QueuedDrain DEF SwitchStart, SwitchRetry, Quiesce
<1>2. CASE SwitchDone \/ SwitchFails \/ SwitchBack \/ SwitchRestored
  <2>1. Queued' = Queued /\ nr_sorted' = nr_sorted
    BY <1>2 DEF SwitchDone, SwitchFails, SwitchBack, SwitchRestored,
                InElevator, Queued
  <2> QED  BY <2>1, QueuedKept
<1> QED  BY <1>1, <1>2 DEF Switch

-----------------------------------------------------------------------------
(* rq_in_driver of an elevator                                              *)

\* A step that activates and completes nothing.
LEMMA DriverKept ==
    ASSUME CountInv, UNCHANGED <<active, in_driver, skewed>> PROVE DriverInv'
<1>1. \A e : InDriver(e)' = InDriver(e)
  BY DEF InDriver
<1> QED  BY <1>1 DEF CountInv, DriverInv

\* A request is completed or given back: its elevator counts one less, unless
\* another elevator is told, and then both are known to be wrong.
LEMMA DriverLeaves ==
    ASSUME CountInv, NEW c \in Callers, elv_completed_request(c),
           active' = [active EXCEPT ![c] = NoElevator]
    PROVE  DriverInv'
<1> USE DEF CountInv, IInv, TypeInv, PlaceInv, ActiveInv, ElevatorInv
<1> SUFFICES ASSUME NEW e \in Elevators, e \notin skewed'
             PROVE  in_driver'[e] = Cardinality(InDriver(e)')
  BY DEF DriverInv, InDriver
<1>1. InDriver(e)' = InDriver(e) \ {c} /\ InDriver(e) \in SUBSET Callers
  BY DEF InDriver, Elevators, NoElevator
<1>2. e \notin skewed /\ in_driver[e] = Cardinality(InDriver(e))
  BY DEF elv_completed_request, DriverInv
<1>3. started[c] => sorted[c]
  OBVIOUS
<1>4. c \notin InDriver(e) => InDriver(e)' = InDriver(e)
  BY <1>1
<1>5. CASE ~started[c]
  <2>1. c \notin InDriver(e)
    BY <1>5 DEF InDriver, Elevators, NoElevator
  <2>2. in_driver' = in_driver
    BY <1>5 DEF elv_completed_request, blk_account_rq
  <2> QED  BY <1>2, <1>4, <2>1, <2>2
<1>6. CASE started[c] /\ active[c] # elevator
  <2>1. in_driver'[e] = in_driver[e] /\ c \notin InDriver(e)
    BY <1>3, <1>6 DEF elv_completed_request, blk_account_rq, InDriver
  <2> QED  BY <1>2, <1>4, <2>1
<1>7. CASE started[c] /\ active[c] = elevator /\ e # elevator
  <2>1. in_driver'[e] = in_driver[e] /\ c \notin InDriver(e)
    BY <1>3, <1>7 DEF elv_completed_request, blk_account_rq, InDriver
  <2> QED  BY <1>2, <1>4, <2>1
<1>8. CASE started[c] /\ active[c] = elevator /\ e = elevator
  <2>1. in_driver'[e] = in_driver[e] - 1 /\ c \in InDriver(e)
    BY <1>3, <1>8 DEF elv_completed_request, blk_account_rq, InDriver
  <2>2. Cardinality(InDriver(e) \ {c}) = Cardinality(InDriver(e)) - 1
    BY <1>1, <2>1, Counting
  <2> QED  BY <1>1, <1>2, <2>1, <2>2
<1> QED  BY <1>5, <1>6, <1>7, <1>8

\* blk_peek_request() activates the request in the elevator of the moment.
LEMMA DriverPeek ==
    ASSUME CountInv, NEW c \in Callers, Peek(c) PROVE DriverInv'
<1> USE DEF CountInv, IInv, TypeInv, PlaceInv, ActiveInv, ElevatorInv
<1> SUFFICES ASSUME NEW e \in Elevators, e \notin skewed
             PROVE  in_driver'[e] = Cardinality(InDriver(e)')
  BY DEF DriverInv, InDriver, Peek
<1>1. in_driver[e] = Cardinality(InDriver(e)) /\ InDriver(e) \in SUBSET Callers
  BY DEF DriverInv, InDriver
<1>2. sorted[c] /\ active[c] = NoElevator
  BY DEF Peek
<1>3. /\ active' = [active EXCEPT ![c] = elevator]
      /\ in_driver' = [in_driver EXCEPT ![elevator] = @ + 1]
  BY <1>2 DEF Peek
<1>4. c \notin InDriver(e)
  BY <1>2 DEF InDriver, Elevators, NoElevator
<1>5. CASE e = elevator
  <2>1. InDriver(e)' = InDriver(e) \cup {c}
    BY <1>3, <1>5 DEF InDriver
  <2>2. Cardinality(InDriver(e)') = Cardinality(InDriver(e)) + 1
    BY <1>1, <1>4, <2>1, Counting
  <2> QED  BY <1>1, <1>3, <1>5, <2>2
<1>6. CASE e # elevator
  <2>1. InDriver(e)' = InDriver(e)
    BY <1>3, <1>4, <1>6 DEF InDriver
  <2> QED  BY <1>1, <1>3, <1>6, <2>1
<1> QED  BY <1>5, <1>6

\* Every step of a request keeps the counts of the other elevators exact.
LEMMA DriverRequest ==
    ASSUME CountInv, NEW c \in Callers, Request(c) PROVE DriverInv'
<1>1. CASE GetRequest(c) \/ AllocRequest(c) \/ AllocFails(c) \/ Fill(c)
           \/ Insert(c) \/ Dispatch(c) \/ Start(c)
  BY <1>1, DriverKept DEF GetRequest, AllocRequest, AllocFails, Fill, Insert,
                          InsertWith, Dispatch, Start
<1>2. CASE Peek(c)
  BY <1>2, DriverPeek
<1>3. CASE Requeue(c)
  BY <1>3, DriverLeaves DEF Requeue
<1>4. ASSUME blk_put_request(c) PROVE DriverInv'
  <2>1. CASE ref[c] = 1
    BY <1>4, <2>1, DriverLeaves DEF blk_put_request, Freed
  <2>2. CASE ref[c] # 1
    BY <1>4, <2>2, DriverKept DEF blk_put_request
  <2> QED  BY <2>1, <2>2
<1>5. CASE FillFails(c) \/ Complete(c) \/ Finish(c)
  BY <1>4, <1>5 DEF FillFails, Complete, Finish
<1> QED  BY <1>1, <1>2, <1>3, <1>5 DEF Request

\* A switch tells the elevators nothing about requests.
LEMMA DriverSwitch == ASSUME CountInv, Switch PROVE DriverInv'
BY DriverKept DEF Switch, SwitchStart, SwitchRetry, SwitchDone, SwitchFails,
                  SwitchBack, SwitchRestored

-----------------------------------------------------------------------------
\* The counters stay exact.
LEMMA NextCountInv == ASSUME CountInv, [Next]_vars PROVE CountInv'
<1>1. IInv'
  BY NextIInv DEF CountInv
<1>2. CASE Switch
  BY <1>1, <1>2, ElevatorSwitch, FlyingSwitch, QueuedSwitch, DriverSwitch
     DEF CountInv
<1>3. ASSUME NEW c \in Callers, Request(c) PROVE CountInv'
  BY <1>1, <1>3, ActiveRequest, ElevatorRequest, FlyingRequest, QueuedRequest,
     DriverRequest DEF CountInv
<1>4. CASE UNCHANGED vars
  <2>1. DriverInv'
    BY <1>4, DriverKept DEF vars
  <2>2. FlyingInv' /\ QueuedInv'
    BY <1>4 DEF vars, CountInv, FlyingInv, QueuedInv, Flying, Queued
  <2>3. ActiveInv' /\ ElevatorInv'
    BY <1>4 DEF vars, CountInv, ActiveInv, ElevatorInv
  <2> QED  BY <1>1, <2>1, <2>2, <2>3 DEF CountInv
<1> QED  BY <1>2, <1>3, <1>4 DEF Next

\* They are exact in every reachable state.
LEMMA InductiveCount == Spec => []CountInv
<1>1. CountInv /\ [Next]_vars => CountInv'
  BY NextCountInv
<1> QED  BY InitCountInv, <1>1, PTL DEF Spec

\* The counters of the queue agree with where the VERIFY requests are, and that
\* of an elevator unless a request crossed over from one to the next, whatever
\* the driver requeues and however often the elevator is switched.
THEOREM QueueCountsExact == Spec => []Counted
<1>1. CountInv => Counted
  BY DEF CountInv, IInv, PrivInv, Privs, FlyingInv, QueuedInv, DriverInv,
         Flying, Queued, InDriver, Counted
<1> QED  BY InductiveCount, <1>1, PTL

\* Every variable has its type, and no counter of the queue falls below zero.
THEOREM QueueTypes == Spec => []TypeOK
<1>1. ASSUME CountInv PROVE TypeOK
  <2> USE <1>1 DEF CountInv, IInv, TypeInv
  <2>1. Cardinality(Privs) \in Nat /\ Cardinality(Flying) \in Nat
        /\ Cardinality(Queued) \in Nat
    BY CallersAssumption, FS_Subset, FS_CardinalityType DEF Privs, Flying, Queued
  <2>2. elvpriv \in Nat /\ nr_sorted \in Nat /\ in_flight \in Nat
    BY <2>1 DEF PrivInv, FlyingInv, QueuedInv
  <2>3. ref \in [Callers -> 0..2] /\ bio \in [Callers -> {0, 2}]
    BY DEF PlaceInv, RefInv
  <2>4. setby \in [Callers -> Elevators \cup {NoElevator}]
    BY DEF ElevatorInv
  <2>5. active \in [Callers -> Elevators \cup {NoElevator}]
    BY DEF ActiveInv
  <2> QED  BY <2>2, <2>3, <2>4, <2>5 DEF ElevatorInv, TypeOK
<1> QED  BY InductiveCount, <1>1, PTL
=============================================================================
