--------------------------- MODULE ScrubLifecycle ---------------------------
(***************************************************************************)
(* The life of the scrubber of one disk: the driver adds the disk, which   *)
(* creates the scrubber, its main thread and its sysfs directory, users    *)
(* write to the attributes meanwhile, and the driver removes the disk.     *)
(* The references of the gendisk and of the scrubber's kobject decide what *)
(* is freed when; of the main thread only sleeping, waking and the looks   *)
(* at the disk are kept (ScrubRound has the rest).                         *)
(***************************************************************************)
EXTENDS Integers, FiniteSets

CONSTANT Users  \* processes that write attributes

ASSUME UsersAssumption == IsFiniteSet(Users)

VARIABLES
    dpc,       \* where the driver is with the disk
    drefs,     \* references of the gendisk; 0: freed
    modrefs,   \* references of the driver's module taken by get_disk()
    taken,     \* history: what became of the reference of get_disk()
    scrubber,  \* disk->scrubber is there
    kref,      \* references of its kobject
    parent,    \* the kobject has the disk as its parent
    insysfs,   \* its directory is there and its attributes can be entered
    inside,    \* users inside a show or store (sysfs active references)
    state,     \* scrubber->state: 0 on, 1 off, 2 abort
    task,      \* scrubber->task and the main thread
    awake,     \* history: the main thread ran when the disk was freed
    late,      \* history: the main thread has looked at a freed disk
    oops       \* a user died inside, with sysfs_lock held

disk   == <<drefs, modrefs, taken>>
object == <<kref, parent, insysfs, inside, oops>>
thread == <<state, task, awake, late>>
vars   == <<dpc, disk, scrubber, object, thread>>

\* alloc_disk() gives the driver its reference.
Init ==
    /\ dpc = "new" /\ drefs = 1 /\ modrefs = 0 /\ taken = "no"
    /\ scrubber = FALSE /\ kref = 0 /\ parent = FALSE /\ insysfs = FALSE
    /\ inside = {} /\ state = 1 /\ task = "none"
    /\ awake = FALSE /\ late = FALSE /\ oops = FALSE

Goes(from, to) == dpc = from /\ dpc' = to

-----------------------------------------------------------------------------
(* add_disk()                                                               *)

\* The major number is not one of a disk, or blk_init_scrub() finds no memory
\* for the structure: there is no scrubber, which add_disk() ignores.
AddOther ==
    /\ Goes("new", "up")
    /\ UNCHANGED <<disk, scrubber, object, thread>>

\* blk_init_scrub(): kobject_init() sets the reference count to one;
\* kthread_run() may fail, and s->task is then an error code, not tested.
InitScrub ==
    /\ Goes("new", "register")
    /\ scrubber' = TRUE
    /\ kref' = 1
    /\ task' \in {"error", "created"}
    /\ UNCHANGED <<disk, parent, insysfs, inside, oops, state, awake, late>>

\* kobject_add(&s->kobj, get_disk(disk), ...): with the parent it was given, if
\* any, or it fails and leaves the kobject without a parent.
RegisterWith(got) ==
    /\ Goes("register", "up")
    /\ taken' = IF got THEN "yes" ELSE "failed"
    /\ modrefs' = modrefs + (IF got THEN 1 ELSE 0)
    /\ \/ /\ insysfs' = TRUE
          /\ parent' = got
          /\ drefs' = drefs + (IF got THEN 2 ELSE 0)
       \/ /\ drefs' = drefs + (IF got THEN 1 ELSE 0)
          /\ UNCHANGED <<insysfs, parent>>
    /\ UNCHANGED <<scrubber, kref, inside, oops, thread>>

Register == RegisterWith(TRUE)

\* get_disk() fails, as the module of the driver is being unloaded.
RegisterOrphan == RegisterWith(FALSE)

-----------------------------------------------------------------------------
(* unlink_gendisk(), called from del_gendisk()                              *)

\* blk_unregister_scrub() without a scrubber: a warning.
UnlinkOther ==
    /\ Goes("up", "unlinked")
    /\ ~scrubber
    /\ UNCHANGED <<disk, scrubber, object, thread>>

\* Mutated form: the directory is not removed.
UnregisterKeepsDirectory ==
    /\ Goes("up", "remove")
    /\ scrubber
    /\ UNCHANGED <<disk, scrubber, object, thread>>

\* kobject_del(): sysfs_remove_dir() lets nobody enter any more...
Unregister ==
    /\ Goes("up", "remove")
    /\ scrubber
    /\ insysfs' = FALSE
    /\ UNCHANGED <<disk, scrubber, kref, parent, inside, oops, thread>>

\* The references fall to this many; at 0 the disk is freed.
DiskRefs(n) ==
    /\ drefs' = n
    /\ awake' = IF n = 0 THEN task \in {"created", "runs"} ELSE awake

\* Mutated form: the reference to the parent is not dropped.
RemoveKeepsParent ==
    /\ Goes("remove", "unlinked")
    /\ inside = {}
    /\ parent' = FALSE
    /\ taken' = IF taken = "yes" THEN "put" ELSE taken
    /\ DiskRefs(drefs - 1)
    /\ UNCHANGED <<modrefs, scrubber, kref, insysfs, inside, oops, state, task,
                   late>>

\* ...and waits for those inside; the reference to the parent goes, and then
\* put_disk(), whether or not get_disk() had succeeded. The kobject is not
\* put, and the module neither (put_disk() leaves that to its callers).
Remove ==
    /\ Goes("remove", "unlinked")
    /\ inside = {}
    /\ parent' = FALSE
    /\ taken' = IF taken = "yes" THEN "put" ELSE taken
    /\ DiskRefs(drefs - (IF parent THEN 2 ELSE 1))
    /\ UNCHANGED <<modrefs, scrubber, kref, insysfs, inside, oops, state, task,
                   late>>

\* The driver drops its own reference.
DriverPut ==
    /\ Goes("unlinked", "gone")
    /\ DiskRefs(drefs - 1)
    /\ UNCHANGED <<modrefs, taken, scrubber, object, state, task, late>>

-----------------------------------------------------------------------------
(* Users                                                                    *)

\* A user opens an attribute and reads or writes it: the directory cannot be
\* removed until the call returns.
Enter(u) ==
    /\ insysfs /\ u \notin inside
    /\ inside' = inside \cup {u}
    /\ UNCHANGED <<dpc, disk, scrubber, kref, parent, insysfs, oops, thread>>

Returns(u) ==
    /\ u \in inside /\ ~oops
    /\ inside' = inside \ {u}
    /\ UNCHANGED <<dpc, disk, scrubber, kref, parent, insysfs, oops, awake, late>>

\* scrub_state_store() of "on": the main thread is woken.
StoreOn(u) ==
    /\ Returns(u)
    /\ state # 0 /\ task # "error"
    /\ state' = 0
    /\ task' = IF task = "asleep" THEN "runs" ELSE task

\* There is no thread: wake_up_process() dereferences the error code, and the
\* user dies inside the store.
StoreOnDies(u) ==
    /\ u \in inside /\ ~oops
    /\ state # 0 /\ task = "error"
    /\ state' = 0
    /\ oops' = TRUE
    /\ UNCHANGED <<dpc, disk, scrubber, kref, parent, insysfs, inside, task,
                   awake, late>>

StoreOffOrAbort(u) ==
    /\ Returns(u)
    /\ \E v \in {1, 2} : state # v /\ state' = v
    /\ UNCHANGED task

\* A show, or a store of another attribute; some read the disk (s->disk).
OtherAttribute(u) ==
    /\ Returns(u)
    /\ UNCHANGED <<state, task>>

-----------------------------------------------------------------------------
(* The main thread: kscrubd_init() and scrubber()                           *)

\* It looks at disk->scrubber->state and does a round, or goes to sleep. It is
\* never told to stop: blk_release_scrub() is not reached.
MainLooks ==
    /\ task \in {"created", "runs"}
    /\ late' = (late \/ drefs <= 0)
    /\ task' = IF state = 0 THEN "runs" ELSE "asleep"
    /\ UNCHANGED <<dpc, disk, scrubber, object, state, awake>>

-----------------------------------------------------------------------------
User(u) == Enter(u) \/ StoreOn(u) \/ StoreOnDies(u) \/ StoreOffOrAbort(u)
           \/ OtherAttribute(u)

Next == AddOther \/ InitScrub \/ Register \/ RegisterOrphan \/ UnlinkOther
        \/ Unregister \/ Remove \/ DriverPut \/ MainLooks
        \/ \E u \in Users : User(u)

Spec == Init /\ [][Next]_vars

\* What the driver begins it ends, a call of an attribute returns, and the main
\* thread runs. A disk need not be removed.
FairSpec ==
    /\ Spec
    /\ WF_vars(Register \/ RegisterOrphan) /\ WF_vars(Remove)
    /\ WF_vars(DriverPut) /\ WF_vars(MainLooks)
    /\ \A u \in Users : WF_vars(StoreOn(u) \/ StoreOffOrAbort(u)
                                 \/ OtherAttribute(u))

-----------------------------------------------------------------------------
\* The references of the disk are those of the driver, of blk_register_scrub()
\* and of the kobject's parent pointer, on every path through registration and
\* removal: the disk is freed when the driver lets go of it, not before and not
\* never. The one exception is a registration whose get_disk() failed, as
\* put_disk() is called nevertheless.
DiskReferences ==
    taken # "failed" =>
      drefs = (IF dpc # "gone" THEN 1 ELSE 0)
              + (IF taken = "yes" THEN 1 ELSE 0) + (IF parent THEN 1 ELSE 0)

\* A user inside an attribute has a disk to work on, and a main thread that slept
\* when the disk was freed does not look at it again: only one that was running
\* does (nobody stops it). The scrubber itself outlives them all, on every path,
\* as its kobject is never put: it is not freed under a user or the main thread,
\* neither of which blk_unregister_scrub() gets rid of before.
UsersAreSafe ==
    /\ taken # "failed" => /\ inside # {} => drefs > 0
                           /\ late => awake
    /\ inside # {} \/ task \in {"created", "runs", "asleep"} => kref > 0

\* The removal of a disk ends, whatever users do, unless one of them died in a
\* store for want of a main thread.
RemovalEnds == dpc = "remove" ~> dpc = "gone" \/ oops

=============================================================================
