------------------------------ MODULE SgKernIo ------------------------------
(***************************************************************************)
(* The VERIFY requests of the workers on the disk's request queue: from    *)
(* sg_kern_io(), which allocates one, hands it to the elevator by the      *)
(* insertion ELEVATOR_INSERT_VERIFY and sleeps until it is completed, to   *)
(* the driver and back, while the elevator of the queue is being switched. *)
(*                                                                         *)
(* Each caller (a worker) has at most one request, so that a request is    *)
(* named by its caller. What runs with the queue lock held is one step.    *)
(* An elevator is a number: instances are numbered as they are allocated.  *)
(***************************************************************************)
EXTENDS Integers, FiniteSets

CONSTANTS
    Callers,      \* threads that call scsi_kern_ioctl()
    MaxElevator   \* bound on the elevators allocated after the first

ASSUME CallersAssumption == IsFiniteSet(Callers)
ASSUME MaxElevatorAssumption == MaxElevator \in Nat

VARIABLES
    pc,          \* where caller c is in sg_kern_io()
    ref,         \* rq->ref_count; 0: the request is free
    bio,         \* references of the bio that goes with it
    where,       \* what the request is linked into
    priv,        \* REQ_ELVPRIV is set
    sorted,      \* REQ_SORTED is set
    started,     \* REQ_STARTED is set
    done,        \* the completion on the stack of sg_kern_io()
    setby,       \* history: the elevator whose set_req_fn saw it; NoElevator
    active,      \* history: the elevator that holds it as activated
    elvpriv,     \* q->rq.elvpriv
    nr_sorted,   \* q->nr_sorted
    in_flight,   \* q->in_flight
    elevator,    \* q->elevator
    in_driver,   \* rq_in_driver of each elevator: activated, not completed
    made,        \* the elevator allocated last
    spc,         \* where elevator_switch() is
    old,         \* its old_elevator
    skewed       \* history: elevators with a request completed by another

request == <<ref, bio, where, priv, sorted, started, done, setby, active>>
queue   == <<elvpriv, nr_sorted, in_flight>>
switch  == <<elevator, made, spc, old>>
counts  == <<in_driver, skewed>>
vars    == <<pc, request, queue, switch, counts>>

NoElevator == -1
Elevators  == 0..MaxElevator

\* QUEUE_FLAG_ELVSWITCH: set by elv_quiesce_start(), cleared at the very end.
Switching == spc # "none"

Init ==
    /\ pc = [c \in Callers |-> "idle"]
    /\ ref = [c \in Callers |-> 0] /\ bio = [c \in Callers |-> 0]
    /\ where = [c \in Callers |-> "none"]
    /\ priv = [c \in Callers |-> FALSE]
    /\ sorted = [c \in Callers |-> FALSE]
    /\ started = [c \in Callers |-> FALSE]
    /\ done = [c \in Callers |-> FALSE]
    /\ setby = [c \in Callers |-> NoElevator]
    /\ active = [c \in Callers |-> NoElevator]
    /\ elvpriv = 0 /\ nr_sorted = 0 /\ in_flight = 0
    /\ elevator = 0 /\ made = 0 /\ spc = "none" /\ old = 0
    /\ in_driver = [e \in Elevators |-> 0] /\ skewed = {}

Goes(c, from, to) == pc[c] = from /\ pc' = [pc EXCEPT ![c] = to]

-----------------------------------------------------------------------------
(* sg_kern_io() up to the insertion.                                        *)

\* get_request(), with the queue lock: the request will have private data of
\* the elevator unless the elevator is being switched. pc "idle" is the call,
\* pc "full" the sleep in get_request_wait() after an allocation that failed.
GetRequest(c) ==
    /\ \E from \in {"idle", "full"} : Goes(c, from, "alloc")
    /\ priv' = [priv EXCEPT ![c] = ~Switching]
    /\ elvpriv' = elvpriv + (IF Switching THEN 0 ELSE 1)
    /\ UNCHANGED <<ref, bio, where, sorted, started, done, setby, active,
                   nr_sorted, in_flight, switch, counts>>

\* blk_alloc_request(), without the lock: elv_set_request() calls the elevator
\* of that moment.
AllocRequest(c) ==
    /\ Goes(c, "alloc", "fill")
    /\ ref' = [ref EXCEPT ![c] = 1]
    /\ setby' = [setby EXCEPT ![c] = IF priv[c] THEN elevator ELSE NoElevator]
    /\ UNCHANGED <<bio, where, priv, sorted, started, done, active, queue,
                   switch, counts>>

\* Mutated form: the reservation of private data is not given back.
AllocFailsCounted(c) ==
    /\ Goes(c, "alloc", "full")
    /\ priv' = [priv EXCEPT ![c] = FALSE]
    /\ UNCHANGED <<ref, bio, where, sorted, started, done, setby, active,
                   queue, switch, counts>>

\* The allocation fails (the elevator has no memory for its data): freed_request().
AllocFails(c) ==
    /\ Goes(c, "alloc", "full")
    /\ priv' = [priv EXCEPT ![c] = FALSE]
    /\ elvpriv' = elvpriv - (IF priv[c] THEN 1 ELSE 0)
    /\ UNCHANGED <<ref, bio, where, sorted, started, done, setby, active,
                   nr_sorted, in_flight, switch, counts>>

\* blk_account_rq() of the kernel without the scrubber: these are no requests
\* of a file system. Mutated form.
AccountsFsOnly(c) == FALSE

\* blk_account_rq(): started, and a REQ_TYPE_BLOCK_PC request counts too.
blk_account_rq(c) == started[c]

\* elv_completed_request(): the elevator of this moment is told.
elv_completed_request(c) ==
    LET told == blk_account_rq(c) /\ sorted[c]
    IN  /\ in_flight' = in_flight - (IF blk_account_rq(c) THEN 1 ELSE 0)
        /\ in_driver' = IF told THEN [in_driver EXCEPT ![elevator] = @ - 1]
                        ELSE in_driver
        /\ skewed' = IF told /\ active[c] # elevator
                     THEN skewed \cup {active[c], elevator} ELSE skewed

\* The last reference goes: __blk_put_request() completes and frees it.
Freed(c) ==
    /\ elv_completed_request(c)
    /\ priv' = [priv EXCEPT ![c] = FALSE]
    /\ elvpriv' = elvpriv - (IF priv[c] THEN 1 ELSE 0)
    /\ setby' = [setby EXCEPT ![c] = NoElevator]
    /\ active' = [active EXCEPT ![c] = NoElevator]
    /\ sorted' = [sorted EXCEPT ![c] = FALSE]
    /\ started' = [started EXCEPT ![c] = FALSE]

blk_put_request(c) ==
    /\ ref' = [ref EXCEPT ![c] = @ - 1]
    /\ IF ref[c] = 1 THEN Freed(c)
       ELSE UNCHANGED <<priv, sorted, started, setby, active, elvpriv,
                        in_flight, counts>>

\* blk_kern_fill_sghdr_rq() finds the command permitted, or not: -EFAULT.
Fill(c) ==
    /\ Goes(c, "fill", "submit")
    /\ UNCHANGED <<request, queue, switch, counts>>

FillFails(c) ==
    /\ Goes(c, "fill", "idle")
    /\ blk_put_request(c)
    /\ UNCHANGED <<bio, where, done, nr_sorted, switch>>

\* The insertion with so many references to the request.
InsertWith(c, refs) ==
    /\ Goes(c, "submit", "wait")
    /\ ref' = [ref EXCEPT ![c] = refs]
    /\ bio' = [bio EXCEPT ![c] = 2]
    /\ sorted' = [sorted EXCEPT ![c] = TRUE]
    /\ nr_sorted' = nr_sorted + 1
    /\ where' = [where EXCEPT ![c] = "elevator"]
    /\ UNCHANGED <<priv, started, done, setby, active, elvpriv, in_flight,
                   switch, counts>>

\* Mutated form: no extra reference is taken.
InsertNoReference(c) == InsertWith(c, ref[c])

\* The rest of sg_kern_io() up to its sleep: the extra reference, the bio and
\* elv_insert(), which gives the request to the elevator whether or not it
\* has private data.
Insert(c) == InsertWith(c, ref[c] + 1)

-----------------------------------------------------------------------------
(* The request queue and its driver.                                        *)

\* elevator_dispatch_fn(): to the list the driver reads.
Dispatch(c) ==
    /\ where[c] = "elevator" /\ spc # "failed"
    /\ where' = [where EXCEPT ![c] = "list"]
    /\ nr_sorted' = nr_sorted - 1
    /\ UNCHANGED <<pc, ref, bio, priv, sorted, started, done, setby, active,
                   elvpriv, in_flight, switch, counts>>

\* blk_peek_request(): the driver sees the request, for the first time or
\* again after it requeued it. It may leave it on the list for now.
Peek(c) ==
    /\ where[c] = "list" /\ ~started[c]
    /\ started' = [started EXCEPT ![c] = TRUE]
    /\ IF sorted[c]
       THEN /\ active' = [active EXCEPT ![c] = elevator]
            /\ in_driver' = [in_driver EXCEPT ![elevator] = @ + 1]
       ELSE UNCHANGED <<active, in_driver>>
    /\ UNCHANGED <<pc, ref, bio, where, priv, sorted, done, setby, queue,
                   switch, skewed>>

\* blk_start_request(): off the list, to the disk.
Start(c) ==
    /\ where[c] = "list" /\ started[c]
    /\ where' = [where EXCEPT ![c] = "disk"]
    /\ in_flight' = in_flight + (IF blk_account_rq(c) THEN 1 ELSE 0)
    /\ UNCHANGED <<pc, ref, bio, priv, sorted, started, done, setby, active,
                   elvpriv, nr_sorted, switch, counts>>

\* elv_requeue_request(): the disk is busy, and the request goes back to the
\* front of the list; elv_deactivate_rq() tells the elevator of this moment.
Requeue(c) ==
    /\ where[c] = "disk"
    /\ where' = [where EXCEPT ![c] = "list"]
    /\ elv_completed_request(c)
    /\ started' = [started EXCEPT ![c] = FALSE]
    /\ active' = [active EXCEPT ![c] = NoElevator]
    /\ UNCHANGED <<pc, ref, bio, priv, sorted, done, setby, elvpriv,
                   nr_sorted, switch>>

\* The disk is done, or the request timed out or was killed: in all cases
\* sg_kern_complete_rq() drops the reference of the queue and completes.
Complete(c) ==
    /\ where[c] = "disk"
    /\ where' = [where EXCEPT ![c] = "none"]
    /\ done' = [done EXCEPT ![c] = TRUE]
    /\ blk_put_request(c)
    /\ UNCHANGED <<pc, bio, nr_sorted, switch>>

\* wait_for_completion_interruptible() returns (no signal reaches a kernel
\* thread), and blk_complete_sghdr_rq() reads the request, drops the bio twice
\* and puts the request.
Finish(c) ==
    /\ Goes(c, "wait", "idle")
    /\ done[c]
    /\ done' = [done EXCEPT ![c] = FALSE]
    /\ bio' = [bio EXCEPT ![c] = @ - 2]
    /\ blk_put_request(c)
    /\ UNCHANGED <<where, nr_sorted, switch>>

-----------------------------------------------------------------------------
(* elevator_switch()                                                        *)

InElevator == {c \in Callers : where[c] = "elevator"}

\* elv_drain_elevator(): all requests of the elevator go to the list.
Drain ==
    /\ where' = [c \in Callers |-> IF c \in InElevator THEN "list"
                                   ELSE where[c]]
    /\ nr_sorted' = nr_sorted - Cardinality(InElevator)

\* elevator_attach(): the new elevator takes over, with the lock still held.
AttachUnless(wait, new) ==
    IF wait THEN spc' = "sleep" /\ UNCHANGED <<elevator, old>>
    ELSE spc' = "attached" /\ elevator' = new /\ old' = elevator

\* Mutated form: requests with private data are not waited for.
QuiesceOnce(new) == Drain /\ AttachUnless(FALSE, new)

\* A turn of elv_quiesce_start(): it waits until no request has private data.
Quiesce(new) == Drain /\ AttachUnless(elvpriv # 0, new)

SwitchStart ==
    /\ spc = "none" /\ made < MaxElevator
    /\ made' = made + 1
    /\ Quiesce(made + 1)
    /\ UNCHANGED <<pc, ref, bio, priv, sorted, started, done, setby, active,
                   elvpriv, in_flight, counts>>

\* msleep() is over.
SwitchRetry ==
    /\ spc = "sleep"
    /\ Quiesce(made)
    /\ UNCHANGED <<pc, ref, bio, priv, sorted, started, done, setby, active,
                   elvpriv, in_flight, made, counts>>

\* The new elevator is registered, the old one exits, the flag is cleared.
SwitchDone ==
    /\ spc = "attached"
    /\ spc' = "none"
    /\ UNCHANGED <<pc, request, queue, elevator, made, old, counts>>

\* The registration fails: elevator_exit() frees the new elevator, with what
\* it holds.
SwitchFails ==
    /\ spc = "attached"
    /\ spc' = "failed"
    /\ where' = [c \in Callers |-> IF c \in InElevator THEN "lost"
                                   ELSE where[c]]
    /\ UNCHANGED <<pc, ref, bio, priv, sorted, started, done, setby, active,
                   queue, elevator, made, old, counts>>

\* The old elevator is attached again; until then q->elevator is one that has
\* exited, and a call of it is lost.
SwitchBack ==
    /\ spc = "failed"
    /\ spc' = "restored"
    /\ elevator' = old
    /\ where' = [c \in Callers |-> IF c \in InElevator THEN "lost"
                                   ELSE where[c]]
    /\ UNCHANGED <<pc, ref, bio, priv, sorted, started, done, setby, active,
                   queue, made, old, counts>>

SwitchRestored ==
    /\ spc = "restored"
    /\ spc' = "none"
    /\ UNCHANGED <<pc, request, queue, elevator, made, old, counts>>

-----------------------------------------------------------------------------
Switch == SwitchStart \/ SwitchRetry \/ SwitchDone \/ SwitchFails
          \/ SwitchBack \/ SwitchRestored

Request(c) ==
    GetRequest(c) \/ AllocRequest(c) \/ AllocFails(c) \/ Fill(c)
    \/ FillFails(c) \/ Insert(c) \/ Dispatch(c) \/ Peek(c) \/ Start(c)
    \/ Requeue(c) \/ Complete(c) \/ Finish(c)

Next == Switch \/ \E c \in Callers : Request(c)

Spec == Init /\ [][Next]_vars

\* The threads run, the elevator and the driver get to every request, a request
\* that is tried again and again ends at last (the SCSI layer bounds the time
\* for retries), and so does a switch. Nobody has to be able to allocate.
FairSpec ==
    /\ Spec
    /\ \A c \in Callers :
         /\ WF_vars(AllocRequest(c) \/ AllocFails(c))
         /\ WF_vars(Fill(c) \/ FillFails(c)) /\ WF_vars(Insert(c))
         /\ WF_vars(Dispatch(c)) /\ WF_vars(Peek(c)) /\ WF_vars(Start(c))
         /\ SF_vars(Complete(c)) /\ WF_vars(Finish(c))
    /\ WF_vars(SwitchRetry) /\ WF_vars(SwitchDone \/ SwitchFails)
    /\ WF_vars(SwitchBack) /\ WF_vars(SwitchRestored)

-----------------------------------------------------------------------------
\* The types; the counters of the queue never go below zero.
TypeOK ==
    /\ pc \in [Callers -> {"idle", "full", "alloc", "fill", "submit", "wait"}]
    /\ ref \in [Callers -> 0..2] /\ bio \in [Callers -> {0, 2}]
    /\ where \in [Callers -> {"none", "elevator", "list", "disk", "lost"}]
    /\ priv \in [Callers -> BOOLEAN] /\ sorted \in [Callers -> BOOLEAN]
    /\ started \in [Callers -> BOOLEAN] /\ done \in [Callers -> BOOLEAN]
    /\ setby \in [Callers -> Elevators \cup {NoElevator}]
    /\ active \in [Callers -> Elevators \cup {NoElevator}]
    /\ elvpriv \in Nat /\ nr_sorted \in Nat /\ in_flight \in Nat
    /\ elevator \in Elevators /\ made \in Elevators /\ old \in Elevators
    /\ spc \in {"none", "sleep", "attached", "failed", "restored"}
    /\ in_driver \in [Elevators -> Int] /\ skewed \subseteq Elevators

\* The caller, from the allocation on, and the queue, from the insertion to
\* the completion, hold the request.
CallerHolds(c) == pc[c] \in {"fill", "submit", "wait"}
QueueHolds(c)  == where[c] # "none"

\* The references of a request are those of its holders: it lives as long as
\* the sleeping caller and the driver may touch it, is freed at the latest when
\* the call returns, and takes its bio along.
References ==
    \A c \in Callers :
      /\ ref[c] = (IF CallerHolds(c) THEN 1 ELSE 0)
                  + (IF QueueHolds(c) THEN 1 ELSE 0)
      /\ pc[c] = "idle" => where[c] = "none" /\ bio[c] = 0
      /\ done[c] => pc[c] = "wait" /\ where[c] = "none"

\* The counters of the queue and of its elevators agree with where the requests
\* are. A request counts as in flight until its caller has put it, not until
\* it is completed; an elevator's count is wrong only if a request crossed over
\* from one elevator to the next.
Counted ==
    /\ elvpriv = Cardinality({c \in Callers : priv[c]})
    /\ in_flight = Cardinality({c \in Callers :
                     started[c] /\ where[c] \in {"disk", "none"}})
    /\ nr_sorted = Cardinality({c \in Callers :
                     where[c] \in {"elevator", "lost"}})
    /\ \A e \in Elevators \ skewed :
         in_driver[e] = Cardinality({c \in Callers : active[c] = e})

\* The elevator is not switched under a request that holds private data of it,
\* from the allocation (which runs without the lock) to the last reference:
\* every callback for such a request goes to the elevator that knows it.
PrivateDataStays ==
    \A c \in Callers :
      /\ priv[c] => spc \in {"none", "sleep"}
      /\ priv[c] /\ ref[c] > 0 => setby[c] = elevator
      /\ priv[c] /\ started[c] => active[c] = elevator

\* A sleeping caller is woken, unless its request was in a new elevator that
\* failed to register, and a switch of the elevator ends: the callers that hold
\* private data do not wait for it, and those that come meanwhile do not
\* prolong it.
NobodyWaitsForever ==
    /\ \A c \in Callers :
         pc[c] = "wait" ~> pc[c] = "idle" \/ where[c] = "lost"
    /\ Switching ~> ~Switching

\* All requests an elevator is given passed its set_req_fn before, as
\* Documentation/block/biodoc.txt has it.
FollowsRequestFlow ==
    \A c \in Callers : where[c] = "elevator" => setby[c] = elevator

=============================================================================
