-------------------------- MODULE ScrubRoundProofs --------------------------
(***************************************************************************)
(* Theorems about ScrubRound, for any number of threads, jobs and requests *)
(* per job, in three parts: what is counted (the availability of workers,  *)
(* the jobs), the barriers and the wake-ups, and the refinement of         *)
(* WorkerPool.                                                             *)
(***************************************************************************)
EXTENDS ScrubRound, FiniteSetTheorems, TLAPS

-----------------------------------------------------------------------------
(* The type invariant. It is inductive together with three facts about     *)
(* counters: main only decrements available after it has seen it non-zero, *)
(* only calls segread() while jobs are left, and a worker in its chunk     *)
(* loop has a chunk left.                                                  *)

CounterInv ==
    /\ mpc = "claim" => available > 0
    /\ mpc = "need" => cur < round.total
    /\ \A t \in Threads : wpc[t] = "io" => left[t] > 0

TypeInv == TypeOK /\ CounterInv

USE MaxThreadsAssumption, MaxJobsAssumption, TicketModAssumption
USE DEF ran, counts, plan, tdata, tasks, locals, shared

\* What the parameters of a round are worth.
LEMMA RoundType ==
  ASSUME NEW r \in Rounds
  PROVE  r.threads \in 1..MaxThreads /\ r.total \in 0..MaxJobs
BY DEF Rounds

\* A thread number, and every number below the round's thread count.
LEMMA ThreadsType ==
  /\ 0 \in Threads
  /\ Threads \subseteq Nat
  /\ \A r \in Rounds : \A i \in Nat : i < r.threads => i \in Threads
BY RoundType DEF Threads

\* So are the parameters outside a round.
LEMMA NoRoundType == NoRound \in Rounds
BY DEF Rounds, NoRound

\* The initial state satisfies the type invariant.
LEMMA TypeInit == Init => TypeInv
<1> SUFFICES ASSUME Init PROVE TypeInv
  OBVIOUS
<1>1. round \in Rounds
  BY DEF Init, Rounds, NoRound
<1>3. TypeOK
  BY <1>1 DEF Init, TypeOK, Threads, MainPC, WorkerPC
<1>4. CounterInv
  BY DEF Init, CounterInv
<1> QED
  BY <1>3, <1>4 DEF TypeInv

\* Every step of main or of a sysfs writer keeps the types.
LEMMA TypeMain ==
  TypeInv /\ (StoreOn \/ StoreOffOrAbort \/ Main) => TypeOK'
<1> SUFFICES ASSUME TypeInv, StoreOn \/ StoreOffOrAbort \/ Main PROVE TypeOK'
  OBVIOUS
<1> USE DEF TypeInv
<1>1. CASE StoreOn
  BY <1>1 DEF TypeOK, StoreOn
<1>2. CASE StoreOffOrAbort
  BY <1>2 DEF TypeOK, StoreOffOrAbort
<1>3. CASE MStartRound
  BY <1>3, ThreadsType DEF TypeOK, MStartRound, MainStep, MainPC, FreshTdata
<1>4. CASE MPollOff
  BY <1>4 DEF TypeOK, MPollOff, MainStep, MainPC
<1>5. CASE MIdle
  BY <1>5 DEF TypeOK, MIdle, MainStep, MainPC
<1>6. CASE MWoken
  BY <1>6 DEF TypeOK, MWoken, MainStep, MainPC
<1>7. CASE MCreate
  <2>1. tc' \in Threads
    BY <1>7, ThreadsType, RoundType DEF TypeOK, MCreate, MainStep
  <2> QED
    BY <1>7, <2>1 DEF TypeOK, MCreate, MainStep, MainPC, NextJob, WorkerPC
<1>8. CASE MNeed
  <2>1. cur' \in 0..MaxJobs
    BY <1>8, RoundType DEF TypeOK, CounterInv, MNeed, MainStep
  <2> QED
    BY <1>8, <2>1 DEF TypeOK, MNeed, MainStep, MainPC
<1>9. CASE MTest
  BY <1>9 DEF TypeOK, MTest, MainStep, MainPC
<1>10. CASE MWait
  BY <1>10 DEF TypeOK, MWait, MainStep, MainPC
<1>11. CASE MClaim
  BY <1>11, ThreadsType DEF TypeOK, CounterInv, MClaim, MainStep, MainPC
<1>12. CASE MScan
  <2>1. (tc + 1) % round.threads \in 0..(round.threads - 1)
    BY ThreadsType, RoundType DEF TypeOK
  <2>2. tc' \in Threads
    BY <1>12, <2>1, ThreadsType, RoundType DEF TypeOK, MScan, ScanFor
  <2> QED
    BY <1>12, <2>2 DEF TypeOK, MScan, ScanFor, MainStep, MainPC
<1>13. CASE MPrep
  BY <1>13 DEF TypeOK, MPrep, MainPC
<1>14. CASE MRaise
  BY <1>14 DEF TypeOK, MRaise, MainStep, MainPC
<1>15. CASE MObserve
  BY <1>15 DEF TypeOK, MObserve, MainStep, MainPC
<1>16. CASE MWake
  BY <1>16 DEF TypeOK, MWake, MainStep, MainPC
<1>17. CASE MNext
  BY <1>17, ThreadsType DEF TypeOK, MNext, NextJob, MainPC
<1>18. CASE MStop
  BY <1>18 DEF TypeOK, MStop, MainStep, MainPC
<1>19. CASE MJoin
  <2>1. tc' \in Threads
    BY <1>19, ThreadsType, RoundType DEF TypeOK, MJoin, StopNext, MainStep
  <2> QED
    BY <1>19, <2>1 DEF TypeOK, MJoin, StopNext, MainStep, MainPC
<1>20. CASE MJoinFailed
  BY <1>20 DEF TypeOK, MJoinFailed, MainStep, MainPC
<1>21. CASE MRetry
  BY <1>21 DEF TypeOK, MRetry, MainStep, MainPC
<1>22. CASE MFinish
  BY <1>22, ThreadsType, NoRoundType DEF TypeOK, MFinish, MainStep, MainPC,
     WorkerPC, FreshTdata
<1> QED
  BY <1>1, <1>2, <1>3, <1>4, <1>5, <1>6, <1>7, <1>8, <1>9, <1>10, <1>11,
     <1>12, <1>13, <1>14, <1>15, <1>16, <1>17, <1>18, <1>19, <1>20, <1>21,
     <1>22 DEF Main

\* Every step of a worker keeps the types.
LEMMA TypeWorker ==
  ASSUME TypeInv, NEW t \in Threads, Worker(t) PROVE TypeOK'
<1> USE DEF TypeInv
<1>1. CASE WBegin(t)
  BY <1>1 DEF TypeOK, WBegin, BeginAs, WorkerStep, WorkerPC
<1>2. CASE WAvail(t)
  BY <1>2 DEF TypeOK, WAvail, WorkerStep, WorkerPC
<1>3. CASE WNotify(t)
  BY <1>3 DEF TypeOK, WNotify, WorkerStep, WorkerPC
<1>4. CASE WSetInt(t)
  BY <1>4 DEF TypeOK, WSetInt, WorkerStep, WorkerPC
<1>5. CASE WTry(t)
  <2>1. lock[t] = 0 => lock' \in [Threads -> 0..(TicketMod - 1)]
    BY <1>5 DEF TypeOK, WTry, WorkerStep
  <2>2. CASE lock[t] = 0
    BY <1>5, <2>1, <2>2 DEF TypeOK, WTry, WorkerStep, WorkerPC
  <2>3. CASE lock[t] # 0
    BY <1>5, <2>3 DEF TypeOK, WTry, WorkerStep, WorkerPC
  <2> QED
    BY <2>2, <2>3
<1>6. CASE WCheck(t)
  BY <1>6 DEF TypeOK, WCheck, WorkerStep, WorkerPC
<1>7. CASE WSched(t)
  BY <1>7 DEF TypeOK, WSched, WorkerStep, WorkerPC
<1>8. CASE WPassed(t)
  BY <1>8 DEF TypeOK, WPassed, WorkerStep, WorkerPC
<1>9. CASE WSwitch(t)
  BY <1>9, ChunksAssumption DEF TypeOK, WSwitch, WorkerStep, WorkerPC
<1>10. CASE WVerify(t)
  BY <1>10 DEF TypeOK, CounterInv, WVerify, WorkerStep, WorkerPC
<1>11. CASE WAccount(t)
  <2>1. reqcount' \in Nat /\ finished' \in Nat
    BY <1>11 DEF TypeOK, WAccount, AccountAs
  <2>0. verified' \subseteq 0..MaxJobs /\ early' \subseteq 0..MaxJobs
    <3>1. wpos[t] \in 0..MaxJobs
      BY DEF TypeOK
    <3>2. verified' = verified \/ verified' \subseteq verified \cup {wpos[t]}
      BY <1>11 DEF WAccount, AccountAs
    <3>3. early' = early
      BY <1>11 DEF WAccount, AccountAs
    <3> QED
      BY <3>1, <3>2, <3>3 DEF TypeOK
  <2>2. wpos' \in [Threads -> 0..MaxJobs] /\ wcount' \in [Threads -> 0..MaxJobs]
    BY <1>11 DEF TypeOK, WAccount, AccountAs
  <2>3. CASE left[t] > 0
    BY <1>11, <2>0, <2>1, <2>2, <2>3 DEF TypeOK, WAccount, AccountAs, WorkerStep,
       WorkerPC
  <2>4. CASE left[t] = 0
    BY <1>11, <2>0, <2>1, <2>2, <2>4 DEF TypeOK, WAccount, AccountAs, WorkerStep,
       WorkerPC
  <2> QED
    BY <2>3, <2>4 DEF TypeOK
<1> QED
  BY <1>1, <1>2, <1>3, <1>4, <1>5, <1>6, <1>7, <1>8, <1>9, <1>10, <1>11
     DEF Worker

\* No step of main or of a sysfs writer breaks the counter facts.
LEMMA CounterMain ==
  ASSUME TypeInv, StoreOn \/ StoreOffOrAbort \/ Main
  PROVE  CounterInv'
<1> USE DEF TypeInv, TypeOK, CounterInv
<1>1. CASE StoreOn
  BY <1>1 DEF StoreOn
<1>2. CASE StoreOffOrAbort
  BY <1>2 DEF StoreOffOrAbort
<1>3. CASE MStartRound
  BY <1>3 DEF MStartRound, FreshTdata, MainStep
<1>4. CASE MPollOff
  BY <1>4 DEF MPollOff, MainStep
<1>5. CASE MIdle
  BY <1>5 DEF MIdle, MainStep
<1>6. CASE MWoken
  BY <1>6 DEF MWoken, MainStep
<1>7. CASE MCreate
  BY <1>7 DEF MCreate, NextJob, MainStep
<1>8. CASE MNeed
  BY <1>8 DEF MNeed, MainStep
<1>9. CASE MTest
  BY <1>9 DEF MTest, MainStep
<1>10. CASE MWait
  BY <1>10 DEF MWait, MainStep
<1>11. CASE MClaim
  BY <1>11 DEF MClaim, MainStep
<1>12. CASE MScan
  BY <1>12 DEF MScan, ScanFor, MainStep
<1>13. CASE MPrep
  BY <1>13 DEF MPrep
<1>14. CASE MRaise
  BY <1>14 DEF MRaise, MainStep
<1>15. CASE MObserve
  BY <1>15 DEF MObserve, MainStep
<1>16. CASE MWake
  BY <1>16 DEF MWake, MainStep
<1>17. CASE MNext
  BY <1>17 DEF MNext, NextJob
<1>18. CASE MStop
  BY <1>18 DEF MStop, MainStep
<1>19. CASE MJoin
  BY <1>19 DEF MJoin, StopNext, MainStep
<1>20. CASE MJoinFailed
  BY <1>20 DEF MJoinFailed, MainStep
<1>21. CASE MRetry
  BY <1>21 DEF MRetry, MainStep
<1>22. CASE MFinish
  BY <1>22, NoRoundType DEF MFinish, FreshTdata, MainStep
<1> QED
  BY <1>1, <1>2, <1>3, <1>4, <1>5, <1>6, <1>7, <1>8, <1>9, <1>10, <1>11,
     <1>12, <1>13, <1>14, <1>15, <1>16, <1>17, <1>18, <1>19, <1>20, <1>21,
     <1>22 DEF Main

\* No step of a worker breaks the counter facts.
LEMMA CounterWorker ==
  ASSUME TypeInv, NEW t \in Threads, Worker(t)
  PROVE  CounterInv'
<1> USE DEF TypeInv, TypeOK, CounterInv
<1>1. CASE WBegin(t)
  BY <1>1 DEF WBegin, BeginAs, WorkerStep
<1>2. CASE WAvail(t)
  BY <1>2 DEF WAvail, WorkerStep
<1>3. CASE WNotify(t)
  BY <1>3 DEF WNotify, WorkerStep
<1>4. CASE WSetInt(t)
  BY <1>4 DEF WSetInt, WorkerStep
<1>5. CASE WTry(t)
  BY <1>5 DEF WTry, WorkerStep
<1>6. CASE WCheck(t)
  BY <1>6 DEF WCheck, WorkerStep
<1>7. CASE WSched(t)
  BY <1>7 DEF WSched, WorkerStep
<1>8. CASE WPassed(t)
  BY <1>8 DEF WPassed, WorkerStep
<1>9. CASE WSwitch(t)
  <2>1. tcount[t] \in 0..MaxJobs
    OBVIOUS
  <2>2. Chunks[tcount[t]] \in Nat \ {0}
    BY <2>1, ChunksAssumption
  <2> QED
    BY <1>9, <2>2 DEF WSwitch, WorkerStep
<1>10. CASE WVerify(t)
  BY <1>10 DEF WVerify, WorkerStep
<1>11. CASE WAccount(t)
  BY <1>11 DEF WAccount, AccountAs, WorkerStep
<1> QED
  BY <1>1, <1>2, <1>3, <1>4, <1>5, <1>6, <1>7, <1>8, <1>9, <1>10, <1>11
     DEF Worker

\* Every step keeps the type invariant.
LEMMA TypeStep == TypeInv /\ [Next]_vars => TypeInv'
<1>1. ASSUME TypeInv, UNCHANGED vars PROVE TypeInv'
  BY <1>1 DEF TypeInv, TypeOK, CounterInv, vars
<1> QED
  BY <1>1, TypeMain, TypeWorker, CounterMain, CounterWorker DEF TypeInv, Next

\* Every variable keeps its type: available never goes below zero, and no
\* index of tdata[] or barrier[] leaves the arrays.
THEOREM TypeCorrect == Spec => []TypeOK
<1>1. Spec => []TypeInv
  BY TypeInit, TypeStep, PTL DEF Spec
<1>2. TypeInv => TypeOK
  BY DEF TypeInv
<1> QED
  BY <1>1, <1>2, PTL

-----------------------------------------------------------------------------
(* Which worker can be where. The counting argument below needs to know    *)
(* that no worker of an old round survives, that a worker which has not    *)
(* started is TINIT and one in its chunk loop is TBUSY, and that the       *)
(* thread main is about to mark busy is still idle.                        *)

\* Between rounds there is no worker; while main creates or stops workers,
\* they are created and gone in the order of their numbers.
RosterInv ==
    /\ FreedWhenQuiet
    /\ \A t \in Threads : t >= round.threads => wpc[t] = "none"
    /\ mpc = "create" => \A t \in Threads : t >= tc => wpc[t] = "none"
    /\ mpc \in {"stop", "join", "retry"} =>
          \A t \in Threads : t < tc => wpc[t] = "exited"
    /\ mpc = "free" => \A t \in Threads : t < round.threads => wpc[t] = "exited"

\* The state a worker's place in the code implies.
StateInv ==
    /\ \A t \in Threads :
          /\ wpc[t] \in {"none", "created", "eintr"} => tstate[t] = "TINIT"
          /\ wpc[t] \in {"io", "account"} => tstate[t] = "TBUSY"
    /\ mpc = "prep" /\ "state" \in pend => tstate[tc] = "TIDLE"

\* Main keeps the roster.
LEMMA RosterMain ==
  ASSUME TypeInv, RosterInv, StoreOn \/ StoreOffOrAbort \/ Main
  PROVE  RosterInv'
<1> USE DEF TypeInv, TypeOK, FreedWhenQuiet, RosterInv, Allocated
<1>1. CASE StoreOn
  BY <1>1 DEF StoreOn
<1>2. CASE StoreOffOrAbort
  BY <1>2 DEF StoreOffOrAbort
<1>3. CASE MStartRound
  BY <1>3, ThreadsType, RoundType DEF MStartRound, FreshTdata, MainStep
<1>4. CASE MPollOff
  BY <1>4 DEF MPollOff, MainStep
<1>5. CASE MIdle
  BY <1>5 DEF MIdle, MainStep
<1>6. CASE MWoken
  BY <1>6 DEF MWoken, MainStep
<1>7. CASE MCreate
  BY <1>7, ThreadsType, RoundType DEF MCreate, NextJob, MainStep
<1>8. CASE MNeed
  BY <1>8 DEF MNeed, MainStep
<1>9. CASE MTest
  BY <1>9 DEF MTest, MainStep
<1>10. CASE MWait
  BY <1>10 DEF MWait, MainStep
<1>11. CASE MClaim
  BY <1>11 DEF MClaim, MainStep
<1>12. CASE MScan
  BY <1>12 DEF MScan, ScanFor, MainStep
<1>13. CASE MPrep
  BY <1>13 DEF MPrep
<1>14. CASE MRaise
  BY <1>14 DEF MRaise, MainStep
<1>15. CASE MObserve
  BY <1>15 DEF MObserve, MainStep
<1>16. CASE MWake
  BY <1>16 DEF MWake, MainStep
<1>17. CASE MNext
  BY <1>17, ThreadsType DEF MNext, NextJob
<1>18. CASE MStop
  BY <1>18 DEF MStop, MainStep
<1>19. CASE MJoin
  <2>1. /\ mpc = "join" /\ wpc[tc] = "exited" /\ wpc' = wpc /\ round' = round
        /\ \A t \in Threads : t < tc => wpc[t] = "exited"
        /\ tc \in Nat /\ Threads \subseteq Nat /\ round.threads \in Nat
        /\ \A t \in Threads : t >= round.threads => wpc[t] = "none"
    BY <1>19, ThreadsType, RoundType DEF MJoin, StopNext, MainStep
  <2>2. \A t \in Threads : t < tc + 1 => wpc[t] = "exited"
    BY <2>1
  <2>3. CASE mpc' = "stop" /\ tc' = tc + 1
    BY <2>1, <2>2, <2>3
  <2>4. CASE mpc' = "free" /\ tc + 1 = round.threads
    BY <2>1, <2>2, <2>4
  <2> QED
    BY <1>19, <2>3, <2>4 DEF MJoin, StopNext, MainStep
<1>20. CASE MJoinFailed
  BY <1>20 DEF MJoinFailed, MainStep
<1>21. CASE MRetry
  BY <1>21 DEF MRetry, MainStep
<1>22. CASE MFinish
  BY <1>22, ThreadsType, RoundType DEF MFinish, FreshTdata, NoRound,
     MainStep
<1> QED
  BY <1>1, <1>2, <1>3, <1>4, <1>5, <1>6, <1>7, <1>8, <1>9, <1>10, <1>11,
     <1>12, <1>13, <1>14, <1>15, <1>16, <1>17, <1>18, <1>19, <1>20, <1>21,
     <1>22 DEF Main

\* So do the workers: none comes from or returns to "none" or "exited".
LEMMA RosterWorker ==
  ASSUME TypeInv, RosterInv, NEW t \in Threads, Worker(t)
  PROVE  RosterInv'
<1> USE DEF TypeInv, TypeOK, FreedWhenQuiet, RosterInv, Allocated
<1>1. CASE WBegin(t)
  BY <1>1 DEF WBegin, BeginAs, WorkerStep
<1>2. CASE WAvail(t)
  BY <1>2 DEF WAvail, WorkerStep
<1>3. CASE WNotify(t)
  BY <1>3 DEF WNotify, WorkerStep
<1>4. CASE WSetInt(t)
  BY <1>4 DEF WSetInt, WorkerStep
<1>5. CASE WTry(t)
  BY <1>5 DEF WTry, WorkerStep
<1>6. CASE WCheck(t)
  BY <1>6 DEF WCheck, WorkerStep
<1>7. CASE WSched(t)
  BY <1>7 DEF WSched, WorkerStep
<1>8. CASE WPassed(t)
  BY <1>8 DEF WPassed, WorkerStep
<1>9. CASE WSwitch(t)
  BY <1>9 DEF WSwitch, WorkerStep
<1>10. CASE WVerify(t)
  BY <1>10 DEF WVerify, WorkerStep
<1>11. CASE WAccount(t)
  BY <1>11 DEF WAccount, AccountAs, WorkerStep
<1> QED
  BY <1>1, <1>2, <1>3, <1>4, <1>5, <1>6, <1>7, <1>8, <1>9, <1>10, <1>11
     DEF Worker

\* Main marks only idle threads.
LEMMA StateMain ==
  ASSUME TypeInv, RosterInv, StateInv, StoreOn \/ StoreOffOrAbort \/ Main
  PROVE  StateInv'
<1> USE DEF TypeInv, TypeOK, StateInv
<1>1. CASE StoreOn
  BY <1>1 DEF StoreOn
<1>2. CASE StoreOffOrAbort
  BY <1>2 DEF StoreOffOrAbort
<1>3. CASE MStartRound
  BY <1>3 DEF MStartRound, FreshTdata, MainStep, RosterInv, FreedWhenQuiet,
     Allocated
<1>4. CASE MPollOff
  BY <1>4 DEF MPollOff, MainStep
<1>5. CASE MIdle
  BY <1>5 DEF MIdle, MainStep
<1>6. CASE MWoken
  BY <1>6 DEF MWoken, MainStep
<1>7. CASE MCreate
  BY <1>7, ThreadsType DEF MCreate, NextJob, MainStep, RosterInv
<1>8. CASE MNeed
  BY <1>8 DEF MNeed, MainStep
<1>9. CASE MTest
  BY <1>9 DEF MTest, MainStep
<1>10. CASE MWait
  BY <1>10 DEF MWait, MainStep
<1>11. CASE MClaim
  BY <1>11 DEF MClaim, MainStep
<1>12. CASE MScan
  BY <1>12 DEF MScan, ScanFor, MainStep
<1>13. CASE MPrep
  BY <1>13 DEF MPrep
<1>14. CASE MRaise
  BY <1>14 DEF MRaise, MainStep
<1>15. CASE MObserve
  BY <1>15 DEF MObserve, MainStep
<1>16. CASE MWake
  BY <1>16 DEF MWake, MainStep
<1>17. CASE MNext
  BY <1>17 DEF MNext, NextJob
<1>18. CASE MStop
  BY <1>18 DEF MStop, MainStep
<1>19. CASE MJoin
  BY <1>19 DEF MJoin, StopNext, MainStep
<1>20. CASE MJoinFailed
  BY <1>20 DEF MJoinFailed, MainStep
<1>21. CASE MRetry
  BY <1>21 DEF MRetry, MainStep
<1>22. CASE MFinish
  <2>1. \A t \in Threads : wpc[t] \in {"none", "exited"}
    BY <1>22, ThreadsType, RoundType DEF MFinish, MainStep, RosterInv
  <2> QED
    BY <1>22, <2>1 DEF MFinish, FreshTdata, MainStep
<1> QED
  BY <1>1, <1>2, <1>3, <1>4, <1>5, <1>6, <1>7, <1>8, <1>9, <1>10, <1>11,
     <1>12, <1>13, <1>14, <1>15, <1>16, <1>17, <1>18, <1>19, <1>20, <1>21,
     <1>22 DEF Main

\* Workers store TIDLE only when they are new or done.
LEMMA StateWorker ==
  ASSUME TypeInv, StateInv, NEW t \in Threads, Worker(t)
  PROVE  StateInv'
<1> USE DEF TypeInv, TypeOK, StateInv
<1>1. CASE WBegin(t)
  BY <1>1 DEF WBegin, BeginAs, WorkerStep
<1>2. CASE WAvail(t)
  BY <1>2 DEF WAvail, WorkerStep
<1>3. CASE WNotify(t)
  BY <1>3 DEF WNotify, WorkerStep
<1>4. CASE WSetInt(t)
  BY <1>4 DEF WSetInt, WorkerStep
<1>5. CASE WTry(t)
  BY <1>5 DEF WTry, WorkerStep
<1>6. CASE WCheck(t)
  BY <1>6 DEF WCheck, WorkerStep
<1>7. CASE WSched(t)
  BY <1>7 DEF WSched, WorkerStep
<1>8. CASE WPassed(t)
  BY <1>8 DEF WPassed, WorkerStep
<1>9. CASE WSwitch(t)
  BY <1>9 DEF WSwitch, WorkerStep
<1>10. CASE WVerify(t)
  BY <1>10 DEF WVerify, WorkerStep
<1>11. CASE WAccount(t)
  BY <1>11 DEF WAccount, AccountAs, WorkerStep
<1> QED
  BY <1>1, <1>2, <1>3, <1>4, <1>5, <1>6, <1>7, <1>8, <1>9, <1>10, <1>11
     DEF Worker


-----------------------------------------------------------------------------
(* Counting. Idle, Announcing and Busy are finite sets of threads; an      *)
(* action moves at most one thread into or out of each.                    *)

CountInv == AvailableCounts /\ RunsCounted

\* Any set of threads is finite.
LEMMA ThreadSets ==
  ASSUME NEW S \in SUBSET Threads
  PROVE  IsFiniteSet(S) /\ Cardinality(S) \in Nat
<1>1. IsFiniteSet(Threads)
  BY FS_Interval DEF Threads
<1>2. IsFiniteSet(S)
  BY <1>1, FS_Subset
<1> QED
  BY <1>2, FS_CardinalityType

\* The three sets are sets of threads.
LEMMA SetsType ==
  /\ IsFiniteSet(Idle) /\ Cardinality(Idle) \in Nat
  /\ IsFiniteSet(Announcing) /\ Cardinality(Announcing) \in Nat
  /\ IsFiniteSet(Busy) /\ Cardinality(Busy) \in Nat
BY ThreadSets DEF Idle, Announcing, Busy

\* No thread enters or leaves one of the sets.
SameSets == Idle' = Idle /\ Busy' = Busy /\ Announcing' = Announcing

\* What is counted against the sets stays the same.
SameSums ==
    /\ available' + Claims' = available + Claims
    /\ Allocated' => Allocated /\ finished' + Handed = finished + Handed'

\* Then the counts stay right.
LEMMA QuietCount ==
  ASSUME TypeOK, TypeOK', CountInv, SameSets, SameSums
  PROVE  CountInv'
<1>1. available \in Int /\ finished \in Int /\ Claims \in Int /\ Handed \in Int
  BY DEF TypeOK, Claims, Handed
<1>2. available' \in Int /\ finished' \in Int /\ Claims' \in Int /\ Handed' \in Int
  BY DEF TypeOK, Claims, Handed
<1>3. /\ Cardinality(Idle)' = Cardinality(Idle)
      /\ Cardinality(Announcing)' = Cardinality(Announcing)
      /\ Cardinality(Busy)' = Cardinality(Busy)
  BY DEF SameSets
<1>4. AvailableCounts'
  BY <1>1, <1>2, <1>3, SetsType DEF SameSums, CountInv, AvailableCounts
<1>5. ASSUME Allocated' PROVE finished' + Cardinality(Busy)' = Handed'
  <2>1. finished + Cardinality(Busy) = Handed
    BY <1>5 DEF SameSums, CountInv, RunsCounted
  <2>2. finished' + Handed = finished + Handed'
    BY <1>5 DEF SameSums
  <2>3. finished' + Cardinality(Busy) = Handed'
    BY <1>1, <1>2, <2>1, <2>2, SetsType
  <2> QED
    BY <1>3, <2>3
<1> QED
  BY <1>4, <1>5 DEF CountInv, RunsCounted

\* The steps of main and of sysfs writers that store no thread state and
\* neither start nor finish a round move no thread.
LEMMA SetsQuietMain ==
  ASSUME TypeInv, RosterInv, StoreOn \/ StoreOffOrAbort \/ Main,
         ~MStartRound, ~MPrep, ~MFinish
  PROVE  SameSets /\ SameSums
<1> USE DEF TypeInv, TypeOK, SameSets, SameSums, Idle, Busy, Announcing, Claims,
        Claiming, Handed, Allocated
<1>1. CASE StoreOn
  BY <1>1 DEF StoreOn
<1>2. CASE StoreOffOrAbort
  BY <1>2 DEF StoreOffOrAbort
<1>3. CASE MPollOff
  BY <1>3 DEF MPollOff, MainStep
<1>4. CASE MIdle
  BY <1>4 DEF MIdle, MainStep
<1>5. CASE MWoken
  BY <1>5 DEF MWoken, MainStep
<1>6. CASE MCreate
  BY <1>6, ThreadsType DEF MCreate, NextJob, MainStep, RosterInv
<1>7. CASE MNeed
  BY <1>7 DEF MNeed, MainStep
<1>8. CASE MTest
  BY <1>8 DEF MTest, MainStep
<1>9. CASE MWait
  BY <1>9 DEF MWait, MainStep
<1>10. CASE MClaim
  BY <1>10 DEF MClaim, MainStep
<1>11. CASE MScan
  BY <1>11 DEF MScan, ScanFor, MainStep
<1>12. CASE MRaise
  BY <1>12 DEF MRaise, MainStep
<1>13. CASE MObserve
  BY <1>13 DEF MObserve, MainStep
<1>14. CASE MWake
  BY <1>14 DEF MWake, MainStep
<1>15. CASE MNext
  BY <1>15 DEF MNext, NextJob
<1>16. CASE MStop
  BY <1>16 DEF MStop, MainStep
<1>17. CASE MJoin
  BY <1>17 DEF MJoin, StopNext, MainStep
<1>18. CASE MJoinFailed
  BY <1>18 DEF MJoinFailed, MainStep
<1>19. CASE MRetry
  BY <1>19 DEF MRetry, MainStep
<1> QED
  BY <1>1, <1>2, <1>3, <1>4, <1>5, <1>6, <1>7, <1>8, <1>9, <1>10, <1>11,
     <1>12, <1>13, <1>14, <1>15, <1>16, <1>17, <1>18, <1>19 DEF Main

\* Nor do the steps of a worker that neither store a state nor announce it.
LEMMA SetsQuietWorker ==
  ASSUME TypeInv, NEW t \in Threads, Worker(t),
         ~WBegin(t), ~WAvail(t), ~WAccount(t)
  PROVE  SameSets /\ SameSums
<1> USE DEF TypeInv, TypeOK, SameSets, SameSums, Idle, Busy, Announcing, Claims,
        Claiming, Handed, Allocated, WorkerStep
<1>1. CASE WNotify(t)
  BY <1>1 DEF WNotify
<1>2. CASE WSetInt(t)
  BY <1>2 DEF WSetInt
<1>3. CASE WTry(t)
  BY <1>3 DEF WTry
<1>4. CASE WCheck(t)
  BY <1>4 DEF WCheck
<1>5. CASE WSched(t)
  BY <1>5 DEF WSched
<1>6. CASE WPassed(t)
  BY <1>6 DEF WPassed
<1>7. CASE WSwitch(t)
  BY <1>7 DEF WSwitch
<1>8. CASE WVerify(t)
  BY <1>8 DEF WVerify
<1> QED
  BY <1>1, <1>2, <1>3, <1>4, <1>5, <1>6, <1>7, <1>8 DEF Worker

\* The start and the end of a round leave the sets empty and the counters zero.
LEMMA CountRoundEdge ==
  ASSUME TypeInv, RosterInv, MStartRound \/ MFinish
  PROVE  CountInv'
<1>1. \A t \in Threads : wpc'[t] = "none"
  BY ThreadsType, RoundType DEF TypeInv, TypeOK, RosterInv, FreedWhenQuiet,
     Allocated, MStartRound, MFinish, MainStep
<1>2. Idle' = {} /\ Busy' = {} /\ Announcing' = {}
  BY <1>1 DEF Idle, Busy, Announcing, MStartRound, MFinish, FreshTdata
<1>3. available' = 0 /\ finished' = 0 /\ Claims' = 0 /\ Handed' = 0
  BY DEF MStartRound, MFinish, MainStep, Claims, Claiming, Handed
<1> QED
  BY <1>2, <1>3, FS_EmptySet DEF CountInv, AvailableCounts, RunsCounted

\* Storing TBUSY moves the thread main has found from Idle to Busy and turns
\* the claim into a job handed out. The other stores count for nothing.
LEMMA CountPrep ==
  ASSUME TypeInv, TypeOK', StateInv, CountInv, MPrep
  PROVE  CountInv'
<1>1. PICK f \in pend : 
         /\ pend' = pend \ {f}
         /\ mpc' = IF pend' = {} THEN "raise" ELSE "prep"
         /\ tstate' = IF f = "state" THEN [tstate EXCEPT ![tc] = "TBUSY"]
                                     ELSE tstate
  BY DEF MPrep
<1>2. /\ mpc = "prep" /\ tc \in Threads /\ Announcing' = Announcing
      /\ available' = available /\ finished' = finished /\ cur' = cur
      /\ available \in Nat /\ finished \in Nat /\ cur \in Nat
      /\ tstate \in [Threads -> {"TINIT", "TIDLE", "TBUSY"}]
  BY DEF MPrep, Announcing, TypeInv, TypeOK
<1>3. CASE f = "state"
  <2>1. tc \in Idle /\ tc \notin Busy
    BY <1>1, <1>2, <1>3 DEF StateInv, Idle, Busy
  <2>2. Idle' = Idle \ {tc} /\ Busy' = Busy \cup {tc}
    BY <1>1, <1>2, <1>3 DEF Idle, Busy
  <2>3. /\ Cardinality(Idle)' = Cardinality(Idle) - 1
        /\ Cardinality(Busy)' = Cardinality(Busy) + 1
        /\ Cardinality(Announcing)' = Cardinality(Announcing)
    BY <1>2, <2>1, <2>2, SetsType, FS_AddElement, FS_RemoveElement
  <2>4. Claims = 1 /\ Claims' = 0 /\ Handed = cur - 1 /\ Handed' = cur
    BY <1>1, <1>2, <1>3 DEF Claims, Claiming, Handed
  <2>5. Allocated
    BY <1>2 DEF Allocated
  <2> QED
    BY <1>2, <2>3, <2>4, <2>5, SetsType DEF CountInv, AvailableCounts,
       RunsCounted
<1>4. CASE f # "state"
  <2>1. SameSets
    BY <1>1, <1>2, <1>4 DEF SameSets, Idle, Busy
  <2>2. Claims' = Claims /\ Handed' = Handed /\ Allocated
    BY <1>1, <1>2, <1>4 DEF Claims, Claiming, Handed, Allocated
  <2>3. Claims \in Int /\ Handed \in Int
    BY <1>2 DEF Claims, Handed
  <2>4. SameSums
    BY <1>2, <2>2, <2>3 DEF SameSums
  <2> QED
    BY <2>1, <2>4, QuietCount DEF TypeInv
<1> QED
  BY <1>3, <1>4

\* A new worker and one that has finished its job become idle and start to
\* announce it; the announcement itself moves them from one count to the other.
LEMMA CountWorker ==
  ASSUME TypeInv, TypeOK', StateInv, CountInv, NEW t \in Threads, Worker(t)
  PROVE  CountInv'
<1> USE DEF TypeInv, TypeOK
<1>1. /\ tstate \in [Threads -> {"TINIT", "TIDLE", "TBUSY"}]
      /\ wpc \in [Threads -> WorkerPC]
      /\ available \in Nat /\ finished \in Nat /\ cur \in Nat
  OBVIOUS
<1>2. Claims \in Int /\ Handed \in Int
  BY <1>1 DEF Claims, Handed
<1>3. /\ Claims' = Claims /\ Handed' = Handed /\ Allocated' = Allocated
  BY
     DEF Worker, WBegin, BeginAs, WAvail, WNotify, WSetInt, WTry, WCheck, WSched,
     WPassed, WSwitch, WVerify, WAccount, AccountAs, WorkerStep, Claims, Claiming,
     Handed, Allocated
<1>4. CASE WBegin(t)
  <2>1. CASE t \in stopped
    <3>1. SameSets /\ SameSums
      BY <1>1, <1>2, <1>3, <1>4, <2>1
         DEF WBegin, BeginAs, WorkerStep, SameSets, SameSums,
         Idle, Busy, Announcing
    <3> QED
      BY <3>1, QuietCount
  <2>2. CASE t \notin stopped
    <3>1. t \notin Idle /\ t \notin Busy /\ t \notin Announcing
      BY <1>4 DEF WBegin, BeginAs, WorkerStep, StateInv, Idle, Busy, Announcing
    <3>2. /\ Idle' = Idle \cup {t} /\ Busy' = Busy
          /\ Announcing' = Announcing \cup {t}
      BY <1>1, <1>4, <2>2, <3>1 DEF WBegin, BeginAs, WorkerStep, Idle, Busy,
         Announcing
    <3>3. /\ Cardinality(Idle)' = Cardinality(Idle) + 1
          /\ Cardinality(Announcing)' = Cardinality(Announcing) + 1
          /\ Cardinality(Busy)' = Cardinality(Busy)
      BY <3>1, <3>2, SetsType, FS_AddElement
    <3>4. available' = available /\ finished' = finished
      BY <1>4 DEF WBegin, BeginAs
    <3> QED
      BY <1>1, <1>2, <1>3, <3>3, <3>4, SetsType DEF CountInv, AvailableCounts,
         RunsCounted
  <2> QED
    BY <2>1, <2>2
<1>5. CASE WAvail(t)
  <2>1. /\ Idle' = Idle /\ Busy' = Busy /\ t \in Announcing
        /\ Announcing' = Announcing \ {t}
    BY <1>1, <1>5 DEF WAvail, WorkerStep, Idle, Busy, Announcing
  <2>2. /\ Cardinality(Announcing)' = Cardinality(Announcing) - 1
        /\ Cardinality(Idle)' = Cardinality(Idle)
        /\ Cardinality(Busy)' = Cardinality(Busy)
    BY <2>1, SetsType, FS_RemoveElement
  <2>3. available' = available + 1 /\ finished' = finished
    BY <1>5 DEF WAvail
  <2> QED
    BY <1>1, <1>2, <1>3, <2>2, <2>3, SetsType DEF CountInv, AvailableCounts,
       RunsCounted
<1>6. CASE WAccount(t)
  <2>1. CASE left[t] > 0
    <3>1. SameSets
      BY <1>1, <1>6, <2>1 DEF WAccount, AccountAs, WorkerStep, SameSets, Idle,
         Busy, Announcing
    <3>2. available' = available /\ finished' = finished
      BY <1>1, <1>6, <2>1 DEF WAccount, AccountAs
    <3>3. SameSums
      BY <1>1, <1>2, <1>3, <3>2 DEF SameSums
    <3> QED
      BY <3>1, <3>3, QuietCount
  <2>2. CASE left[t] = 0
    <3>1. t \notin Idle /\ t \in Busy /\ t \notin Announcing
      BY <1>6
         DEF WAccount, AccountAs, WorkerStep, StateInv, Idle, Busy, Announcing
    <3>2. /\ Idle' = Idle \cup {t} /\ Busy' = Busy \ {t}
          /\ Announcing' = Announcing \cup {t}
      BY <1>1, <1>6, <2>2, <3>1
         DEF WAccount, AccountAs, WorkerStep, Idle, Busy,
         Announcing
    <3>3. /\ Cardinality(Idle)' = Cardinality(Idle) + 1
          /\ Cardinality(Announcing)' = Cardinality(Announcing) + 1
          /\ Cardinality(Busy)' = Cardinality(Busy) - 1
      BY <3>1, <3>2, SetsType, FS_AddElement, FS_RemoveElement
    <3>4. available' = available /\ finished' = finished + 1
      BY <1>6, <2>2 DEF WAccount, AccountAs
    <3> QED
      BY <1>1, <1>2, <1>3, <3>3, <3>4, SetsType DEF CountInv, AvailableCounts,
         RunsCounted
  <2> QED
    BY <2>1, <2>2
<1> QED
  BY <1>4, <1>5, <1>6, SetsQuietWorker, QuietCount

-----------------------------------------------------------------------------
(* The theorems.                                                           *)

IInv == TypeInv /\ RosterInv /\ StateInv /\ CountInv

\* The inductive invariant holds in every reachable state.
LEMMA Inductive == Spec => []IInv
<1>1. Init => IInv
  <2> SUFFICES ASSUME Init PROVE IInv
    OBVIOUS
  <2>1. Idle = {} /\ Busy = {} /\ Announcing = {}
    BY DEF Init, Idle, Busy, Announcing
  <2>2. CountInv
    BY <2>1, FS_EmptySet DEF Init, CountInv, AvailableCounts, RunsCounted,
       Allocated, Claims, Claiming
  <2>3. RosterInv /\ StateInv
    BY DEF Init, RosterInv, FreedWhenQuiet, StateInv
  <2> QED
    BY <2>2, <2>3, TypeInit DEF IInv
<1>2. IInv /\ [Next]_vars => IInv'
  <2> SUFFICES ASSUME IInv, [Next]_vars PROVE IInv'
    OBVIOUS
  <2>1. TypeInv' /\ TypeOK'
    BY TypeStep DEF IInv, TypeInv
  <2>2. CASE StoreOn \/ StoreOffOrAbort \/ Main
    <3>1. CountInv'
      BY <2>1, <2>2, CountRoundEdge, CountPrep, SetsQuietMain, QuietCount
         DEF IInv, TypeInv
    <3> QED
      BY <2>1, <2>2, <3>1, RosterMain, StateMain DEF IInv
  <2>3. ASSUME NEW t \in Threads, Worker(t) PROVE IInv'
    BY <2>1, <2>3, RosterWorker, StateWorker, CountWorker DEF IInv
  <2>4. CASE UNCHANGED vars
    <3>1. RosterInv' /\ StateInv'
      BY <2>4 DEF IInv, vars, RosterInv, StateInv, FreedWhenQuiet, Allocated
    <3>2. SameSets /\ SameSums
      BY <2>4
         DEF IInv, TypeInv, TypeOK, vars, SameSets, SameSums, Idle, Busy, Announcing, Claims,
         Claiming, Handed, Allocated
    <3> QED
      BY <2>1, <3>1, <3>2, QuietCount DEF IInv, TypeInv
  <2> QED
    BY <2>2, <2>3, <2>4 DEF Next
<1> QED
  BY <1>1, <1>2, PTL DEF Spec

\* s->available and the thread states agree in every reachable state.
THEOREM AvailableCorrect == Spec => []AvailableCounts
<1>1. IInv => AvailableCounts
  BY DEF IInv, CountInv
<1> QED
  BY <1>1, Inductive, PTL

\* segread() always finds an idle thread among those of its round.
THEOREM ScanFindsIdle == Spec => []IdleFound
<1>1. IInv => IdleFound
  <2> SUFFICES ASSUME IInv, mpc = "scan"
               PROVE  \E t \in Active : tstate[t] = "TIDLE"
    BY DEF IdleFound
  <2>1. Claims = 1 /\ available \in Nat
    BY DEF IInv, TypeInv, TypeOK, Claims, Claiming
  <2>2. Cardinality(Idle) # 0
    BY <2>1, SetsType DEF IInv, CountInv, AvailableCounts
  <2>3. PICK t \in Threads : tstate[t] = "TIDLE"
    BY <2>2, FS_EmptySet DEF Idle
  <2>4. t < round.threads
    BY <2>3, RoundType, ThreadsType
       DEF IInv, TypeInv, TypeOK, RosterInv, StateInv
  <2>5. t \in Active
    BY <2>4, RoundType, ThreadsType DEF Active, IInv, TypeInv, TypeOK
  <2> QED
    BY <2>3, <2>5
<1> QED
  BY <1>1, Inductive, PTL

\* The memory of a round is freed when none of its workers is left.
THEOREM FreeIsSafe == Spec => []FreedWhenQuiet
<1>1. IInv => FreedWhenQuiet
  BY DEF IInv, RosterInv
<1> QED
  BY <1>1, Inductive, PTL

-----------------------------------------------------------------------------
(* Which segment a run verifies. While main stores the fields of a job they *)
(* are known one by one; after that pos and count belong together, and a    *)
(* worker at work has loaded its own job or has loaded it too early.        *)

StoreInv ==
    /\ mpc = "prep" =>
          /\ "pos" \notin pend => tpos[tc] = cur
          /\ "count" \notin pend => tcount[tc] = cur
    /\ \A t \in Busy : ~(mpc = "prep" /\ tc = t) => tpos[t] = tcount[t]

LoadInv ==
    \A t \in Threads :
       wpc[t] \in {"io", "account"} =>
          JobOf(t) \in early \/ (wpos[t] = JobOf(t) /\ wcount[t] = JobOf(t))

JobInv == StoreInv /\ LoadInv /\ SegmentsKept

\* What a step leaves alone that neither stores into tdata[] nor loads from it.
SameJobs ==
    /\ tstate' = tstate /\ tpos' = tpos /\ tcount' = tcount
    /\ wpos' = wpos /\ wcount' = wcount /\ verified' = verified /\ early' = early
    /\ \A t \in Threads : wpc'[t] \in {"io", "account"} => wpc[t] \in {"io", "account"}
    /\ \/ mpc # "prep" /\ mpc' # "prep"
       \/ mpc' = mpc /\ tc' = tc /\ pend' = pend /\ cur' = cur
    /\ Allocated' => Allocated /\ Handed' = Handed

\* Such a step keeps what is known of the jobs.
LEMMA QuietJobs ==
  ASSUME JobInv, SameJobs
  PROVE  JobInv'
<1>1. Busy' = Busy
  BY DEF SameJobs, Busy
<1>2. \A t \in Threads : JobOf(t)' = JobOf(t)
  BY DEF SameJobs, JobOf
<1>3. StoreInv'
  BY <1>1 DEF SameJobs, JobInv, StoreInv
<1>4. LoadInv'
  BY <1>2 DEF SameJobs, JobInv, LoadInv
<1>5. SegmentsKept'
  <2> SUFFICES ASSUME Allocated', NEW j \in (1..Handed)'
               PROVE  j \in (verified \cup early)' \/ \E t \in Busy' : JobOf(t)' = j
    BY DEF SegmentsKept
  <2>1. Allocated /\ j \in 1..Handed
    BY DEF SameJobs
  <2>2. CASE j \in verified \cup early
    BY <2>2 DEF SameJobs
  <2>3. CASE \E t \in Busy : JobOf(t) = j
    BY <2>3, <1>1, <1>2 DEF Busy
  <2> QED
    BY <2>1, <2>2, <2>3 DEF JobInv, SegmentsKept
<1> QED
  BY <1>3, <1>4, <1>5 DEF JobInv

\* The steps of main and of sysfs writers outside the hand-off itself are of
\* that kind.
LEMMA QuietJobsMain ==
  ASSUME IInv, StoreOn \/ StoreOffOrAbort \/ Main,
         ~MStartRound, ~MScan, ~MPrep, ~MFinish
  PROVE  SameJobs
<1>0. SameSums /\ TypeOK /\ TypeOK'
  BY SetsQuietMain, TypeMain DEF IInv, TypeInv
<1>1. finished' = finished => (Allocated' => Allocated /\ Handed' = Handed)
  <2>1. Handed \in Int /\ Handed' \in Int /\ finished \in Int
    BY <1>0 DEF TypeOK, Handed
  <2>2. ASSUME finished' = finished, Allocated' PROVE Allocated /\ Handed' = Handed
    <3>1. Allocated
      BY <1>0, <2>2 DEF SameSums
    <3>2. finished + Handed = finished + Handed'
      BY <1>0, <2>2 DEF SameSums
    <3>3. \A a, b, c \in Int : a + b = a + c => c = b
      OBVIOUS
    <3>4. Handed' = Handed
      BY ONLY <2>1, <3>2, <3>3
    <3> QED
      BY <3>1, <3>4
  <2> QED
    BY <2>2
<1> USE <1>1 DEF SameJobs
<1>2. CASE StoreOn
  BY <1>2 DEF StoreOn
<1>3. CASE StoreOffOrAbort
  BY <1>3 DEF StoreOffOrAbort
<1>4. CASE MPollOff
  BY <1>4 DEF MPollOff, MainStep
<1>5. CASE MIdle
  BY <1>5 DEF MIdle, MainStep
<1>6. CASE MWoken
  BY <1>6 DEF MWoken, MainStep
<1>7. CASE MCreate
  <2>1. \A t \in Threads :
           wpc'[t] \in {"io", "account"} => wpc[t] \in {"io", "account"}
    BY <1>7, <1>0 DEF MCreate, TypeOK
  <2>2. mpc = "create" /\ mpc' # "prep" /\ finished' = finished
    BY <1>7 DEF MCreate, NextJob, MainStep
  <2> QED
    BY <1>7, <2>1, <2>2 DEF MCreate
<1>8. CASE MNeed
  BY <1>8 DEF MNeed, MainStep
<1>9. CASE MTest
  BY <1>9 DEF MTest, MainStep
<1>10. CASE MWait
  BY <1>10 DEF MWait, MainStep
<1>11. CASE MClaim
  BY <1>11 DEF MClaim, MainStep
<1>12. CASE MRaise
  BY <1>12 DEF MRaise, MainStep
<1>13. CASE MObserve
  BY <1>13 DEF MObserve, MainStep
<1>14. CASE MWake
  BY <1>14 DEF MWake, MainStep
<1>15. CASE MNext
  BY <1>15 DEF MNext, NextJob
<1>16. CASE MStop
  BY <1>16 DEF MStop, MainStep
<1>17. CASE MJoin
  BY <1>17 DEF MJoin, StopNext, MainStep
<1>18. CASE MJoinFailed
  BY <1>18 DEF MJoinFailed, MainStep
<1>19. CASE MRetry
  BY <1>19 DEF MRetry, MainStep
<1> QED
  BY <1>2, <1>3, <1>4, <1>5, <1>6, <1>7, <1>8, <1>9, <1>10, <1>11, <1>12,
     <1>13, <1>14, <1>15, <1>16, <1>17, <1>18, <1>19 DEF Main

\* Before and after a round there are no jobs.
LEMMA JobsRoundEdge ==
  ASSUME IInv, MStartRound \/ MFinish
  PROVE  JobInv'
<1>1. \A t \in Threads : wpc'[t] = "none"
  BY ThreadsType, RoundType DEF IInv, TypeInv, TypeOK, RosterInv, FreedWhenQuiet,
     Allocated, MStartRound, MFinish, MainStep
<1>2. \A t \in Threads : tpos'[t] = tcount'[t]
  BY DEF MStartRound, MFinish, FreshTdata
<1>3. mpc' \in {"create", "poll"} /\ (mpc' = "create" => cur' = 0)
  BY DEF MStartRound, MFinish, MainStep
<1>4. StoreInv'
  BY <1>2, <1>3 DEF StoreInv, Busy
<1>5. LoadInv'
  BY <1>1 DEF LoadInv
<1>6. SegmentsKept'
  BY <1>3 DEF SegmentsKept, Allocated, Handed, Claiming
<1> QED
  BY <1>4, <1>5, <1>6 DEF JobInv

\* Main hands the job to a thread it found idle.
LEMMA JobsScan ==
  ASSUME IInv, JobInv, MScan
  PROVE  JobInv'
<1> USE DEF IInv, TypeInv, TypeOK
<1>1. /\ mpc = "scan" /\ tc \in Threads
      /\ tstate' = tstate /\ tpos' = tpos /\ tcount' = tcount
      /\ wpos' = wpos /\ wcount' = wcount /\ wpc' = wpc /\ cur' = cur
      /\ verified' = verified /\ early' = early
      /\ \/ mpc' = "scan"
         \/ /\ mpc' = "prep" /\ tc' = tc /\ pend' = {"state", "pos", "count"}
            /\ tstate[tc] = "TIDLE"
  BY DEF MScan, ScanFor, MainStep
<1>2. Allocated /\ Handed' = Handed
  BY <1>1 DEF Allocated, Handed, Claiming
<1>3. Busy' = Busy
  BY <1>1 DEF Busy
<1>4. \A t \in Busy : JobOf(t)' = JobOf(t)
  BY <1>1 DEF Busy, JobOf
<1>5. StoreInv'
  BY <1>1, <1>3 DEF JobInv, StoreInv
<1>6. LoadInv'
  BY <1>1, <1>4 DEF JobInv, LoadInv, Busy, StateInv
<1>7. SegmentsKept'
  BY <1>1, <1>2, <1>3, <1>4 DEF JobInv, SegmentsKept
<1> QED
  BY <1>5, <1>6, <1>7 DEF JobInv

\* The stores of state, pos and count, in any order, give the thread the job.
LEMMA JobsPrep ==
  ASSUME IInv, JobInv, MPrep
  PROVE  JobInv'
<1> USE DEF IInv, TypeInv, TypeOK
<1>1. PICK f \in pend :
         /\ pend' = pend \ {f}
         /\ mpc' = IF pend' = {} THEN "raise" ELSE "prep"
         /\ tstate' = IF f = "state" THEN [tstate EXCEPT ![tc] = "TBUSY"]
                                     ELSE tstate
         /\ tpos' = IF f = "pos" THEN [tpos EXCEPT ![tc] = cur] ELSE tpos
         /\ tcount' = IF f = "count" THEN [tcount EXCEPT ![tc] = cur] ELSE tcount
  BY DEF MPrep
<1>2. /\ mpc = "prep" /\ tc' = tc /\ cur' = cur /\ wpc' = wpc
      /\ wpos' = wpos /\ wcount' = wcount /\ verified' = verified /\ early' = early
      /\ tc \in Threads /\ cur \in Nat
  BY DEF MPrep
<1>3. pend' = {} => tpos'[tc] = cur /\ tcount'[tc] = cur
  BY <1>1, <1>2 DEF JobInv, StoreInv
<1>4. \A t \in Threads : JobOf(t)' = JobOf(t)
  BY <1>1, <1>2, <1>3 DEF JobOf
<1>5. JobOf(tc) = cur
  BY <1>2 DEF JobOf
<1>6. StoreInv'
  <2>1. mpc' = "prep" => ("pos" \notin pend' => tpos'[tc] = cur)
                      /\ ("count" \notin pend' => tcount'[tc] = cur)
    BY <1>1, <1>2 DEF JobInv, StoreInv
  <2>2. \A t \in Threads \ {tc} :
           tstate'[t] = tstate[t] /\ tpos'[t] = tpos[t] /\ tcount'[t] = tcount[t]
    BY <1>1, <1>2
  <2>3. \A t \in Busy' : t # tc => tpos'[t] = tcount'[t]
    BY <1>2, <2>2 DEF JobInv, StoreInv, Busy
  <2>4. mpc' # "prep" => tpos'[tc] = tcount'[tc]
    BY <1>1, <1>3
  <2> QED
    BY <1>2, <2>1, <2>3, <2>4 DEF StoreInv
<1>7. LoadInv'
  BY <1>2, <1>4 DEF JobInv, LoadInv
<1>8. SegmentsKept'
  <2>1. Allocated
    BY <1>2 DEF Allocated
  <2>2. Busy \subseteq Busy'
    BY <1>1, <1>2 DEF Busy
  <2>3. ASSUME NEW j \in 1..Handed
        PROVE  j \in (verified \cup early)' \/ \E t \in Busy' : JobOf(t)' = j
    <3>1. CASE j \in verified \cup early
      BY <1>2, <3>1
    <3>2. CASE \E t \in Busy : JobOf(t) = j
      BY <1>4, <2>2, <3>2 DEF Busy
    <3> QED
      BY <2>1, <3>1, <3>2 DEF JobInv, SegmentsKept
  <2>4. CASE f # "state"
    <3>1. Handed' = Handed
      BY <1>1, <1>2, <2>4 DEF Handed, Claiming
    <3> QED
      BY <2>3, <3>1 DEF SegmentsKept
  <2>5. CASE f = "state"
    <3>1. Handed = cur - 1 /\ Handed' = cur
      BY <1>1, <1>2, <2>5 DEF Handed, Claiming
    <3>2. tc \in Busy'
      BY <1>1, <1>2, <2>5 DEF Busy
    <3>3. \E t \in Busy' : JobOf(t)' = cur
      <4>1. \A t \in Threads : t = tc => JobOf(t)' = cur
        BY <1>4, <1>5
      <4> QED
        BY <1>2, <3>2, <4>1
    <3>4. \A j \in 1..cur : j = cur \/ j \in 1..Handed
      BY <1>2, <3>1
    <3>5. \A j \in 1..cur :
             j \in (verified \cup early)' \/ \E t \in Busy' : JobOf(t)' = j
      BY <2>3, <3>3, <3>4
    <3> QED
      BY <3>1, <3>5 DEF SegmentsKept
  <2> QED
    BY <2>4, <2>5
<1> QED
  BY <1>6, <1>7, <1>8 DEF JobInv

\* A worker that loads too early is recorded, and a run that ends has verified
\* its job unless it was.
LEMMA JobsWorker ==
  ASSUME IInv, JobInv, NEW u \in Threads, Worker(u)
  PROVE  JobInv'
<1> USE DEF IInv, TypeInv, TypeOK
<1>0. /\ mpc' = mpc /\ tc' = tc /\ cur' = cur /\ pend' = pend
      /\ tpos' = tpos /\ tcount' = tcount
  BY DEF Worker, WBegin, BeginAs, WAvail, WNotify, WSetInt, WTry, WCheck, WSched,
     WPassed, WSwitch, WVerify, WAccount, AccountAs, WorkerStep
<1>1. /\ Allocated' <=> Allocated
      /\ Handed' = Handed
  BY <1>0 DEF Allocated, Handed, Claiming
<1>2. \A t \in Threads : JobOf(t)' = JobOf(t)
  BY <1>0 DEF JobOf
<1>3. CASE WBegin(u)
  <2>1. /\ wpos' = wpos /\ wcount' = wcount /\ verified' = verified /\ early' = early
        /\ tstate'[u] # "TBUSY" /\ tstate[u] # "TBUSY"
        /\ \A t \in Threads \ {u} : tstate'[t] = tstate[t] /\ wpc'[t] = wpc[t]
        /\ wpc'[u] \notin {"io", "account"}
    BY <1>3 DEF WBegin, BeginAs, WorkerStep, StateInv
  <2>2. Busy' = Busy
    BY <2>1 DEF Busy
  <2>3. StoreInv'
    BY <1>0, <2>2 DEF JobInv, StoreInv
  <2>4. LoadInv'
    BY <1>2, <2>1 DEF JobInv, LoadInv
  <2>5. SegmentsKept'
    BY <1>1, <1>2, <2>1, <2>2 DEF JobInv, SegmentsKept, Busy
  <2> QED
    BY <2>3, <2>4, <2>5 DEF JobInv
<1>4. CASE WSwitch(u) /\ tstate[u] = "TBUSY"
  <2>1. /\ wpos' = [wpos EXCEPT ![u] = tpos[u]]
        /\ wcount' = [wcount EXCEPT ![u] = tcount[u]]
        /\ early' = IF HalfStored(u) THEN early \cup {cur} ELSE early
        /\ verified' = verified /\ tstate' = tstate
        /\ wpc' = [wpc EXCEPT ![u] = "io"]
    BY <1>4 DEF WSwitch, WorkerStep
  <2>2. Busy' = Busy /\ early \subseteq early' /\ u \in Busy
    BY <1>4, <2>1 DEF Busy
  <2>3. StoreInv'
    BY <1>0, <2>2 DEF JobInv, StoreInv
  <2>4. JobOf(u) \in early' \/ (tpos[u] = JobOf(u) /\ tcount[u] = JobOf(u))
    <3>1. CASE mpc = "prep" /\ tc = u
      BY <2>1, <3>1 DEF HalfStored, JobOf, JobInv, StoreInv
    <3>2. CASE ~(mpc = "prep" /\ tc = u)
      BY <2>2, <3>2 DEF JobOf, JobInv, StoreInv
    <3> QED
      BY <3>1, <3>2
  <2>5. LoadInv'
    BY <1>2, <2>1, <2>2, <2>4 DEF JobInv, LoadInv
  <2>6. SegmentsKept'
    BY <1>1, <1>2, <2>1, <2>2 DEF JobInv, SegmentsKept, Busy
  <2> QED
    BY <2>3, <2>5, <2>6 DEF JobInv
<1>5. CASE WAccount(u) /\ left[u] = 0
  <2>1. /\ verified' = verified \cup ({wpos[u]} \cap {wcount[u]} \cap {JobOf(u)})
        /\ wpos' = [wpos EXCEPT ![u] = 0] /\ wcount' = [wcount EXCEPT ![u] = 0]
        /\ tstate' = [tstate EXCEPT ![u] = "TIDLE"]
        /\ wpc[u] = "account" /\ wpc' = [wpc EXCEPT ![u] = "avail"]
        /\ early' = early
    BY <1>5 DEF WAccount, AccountAs, WorkerStep
  <2>2. Busy' = Busy \ {u} /\ verified \subseteq verified'
    BY <2>1 DEF Busy
  <2>3. JobOf(u) \in verified' \cup early'
    BY <2>1 DEF JobInv, LoadInv
  <2>4. StoreInv'
    BY <1>0, <2>2 DEF JobInv, StoreInv
  <2>5. LoadInv'
    BY <1>2, <2>1 DEF JobInv, LoadInv
  <2>6. SegmentsKept'
    <3> SUFFICES ASSUME Allocated, NEW j \in 1..Handed
                 PROVE  j \in (verified \cup early)' \/ \E t \in Busy' : JobOf(t)' = j
      BY <1>1 DEF SegmentsKept
    <3>1. CASE j \in verified \cup early
      BY <2>1, <2>2, <3>1
    <3>2. ASSUME NEW t \in Busy, JobOf(t) = j
          PROVE  j \in (verified \cup early)' \/ \E x \in Busy' : JobOf(x)' = j
      <4>1. CASE t = u
        BY <2>3, <3>2, <4>1
      <4>2. CASE t # u
        <5>1. t \in Busy' /\ JobOf(t)' = j
          BY <1>2, <2>2, <3>2, <4>2 DEF Busy
        <5> QED
          BY <5>1
      <4> QED
        BY <4>1, <4>2
    <3> QED
      BY <3>1, <3>2 DEF JobInv, SegmentsKept
  <2> QED
    BY <2>4, <2>5, <2>6 DEF JobInv
<1>6. CASE ~WBegin(u) /\ ~(WSwitch(u) /\ tstate[u] = "TBUSY")
             /\ ~(WAccount(u) /\ left[u] = 0)
  <2>1. /\ wpos' = wpos /\ wcount' = wcount /\ verified' = verified /\ early' = early
        /\ tstate' = tstate
        /\ \A t \in Threads :
              wpc'[t] \in {"io", "account"} => wpc[t] \in {"io", "account"}
    BY <1>6 DEF Worker, WAvail, WNotify, WSetInt, WTry, WCheck, WSched,
       WPassed, WSwitch, WVerify, WAccount, AccountAs, WorkerStep
  <2> QED
    BY <1>0, <1>1, <2>1, QuietJobs DEF SameJobs
<1> QED
  BY <1>3, <1>4, <1>5, <1>6

\* Runs and busy workers add up to the hand-offs, and every segment handed out
\* is verified by its own run, waits with a busy worker, or was loaded before
\* main had stored it.
THEOREM JobsAreConserved == Spec => []JobsConserved
<1>1. Init => JobInv
  <2> SUFFICES ASSUME Init PROVE JobInv
    OBVIOUS
  <2>1. Busy = {} /\ ~Allocated /\ mpc = "poll"
    BY DEF Init, Busy, Allocated
  <2>2. LoadInv
    BY DEF Init, LoadInv
  <2> QED
    BY <2>1, <2>2 DEF JobInv, StoreInv, SegmentsKept
<1>2. IInv /\ JobInv /\ [Next]_vars => JobInv'
  <2> SUFFICES ASSUME IInv, JobInv, [Next]_vars PROVE JobInv'
    OBVIOUS
  <2>1. CASE StoreOn \/ StoreOffOrAbort \/ Main
    BY <2>1, JobsRoundEdge, JobsScan, JobsPrep, QuietJobsMain, QuietJobs
  <2>2. ASSUME NEW u \in Threads, Worker(u) PROVE JobInv'
    BY <2>2, JobsWorker
  <2>3. CASE UNCHANGED vars
    <3>1. SameJobs
      BY <2>3 DEF vars, SameJobs, Allocated, Handed, Claiming
    <3> QED
      BY <3>1, QuietJobs
  <2> QED
    BY <2>1, <2>2, <2>3 DEF Next
<1>3. IInv /\ JobInv => JobsConserved
  BY DEF IInv, CountInv, JobInv, JobsConserved
<1> QED
  BY <1>1, <1>2, <1>3, Inductive, PTL DEF Spec

-----------------------------------------------------------------------------
(* The barrier. A worker past it holds the lock unless main has released   *)
(* it behind the worker's back; main over-releases only a lock whose       *)
(* worker has not passed, and that worker cannot pass any more.            *)

PastBarrier == {"passed", "switch", "io", "account"}

Past(t) == wpc[t] \in {"passed", "switch"} /\ t \notin stopped

\* Who is stopped: only while main stops workers, and whoever has exited.
StopInv ==
    /\ ~Stopping => stopped = {}
    /\ \A t \in Threads : wpc[t] = "exited" => t \in stopped

\* What is known about a lock that is not free (1), a worker that passed with
\* no job (2), one that passed before main raised (3), and one that did not (4).
LockInv ==
    \A t \in Threads :
      /\ lock[t] \in {0, 1, TicketMod - 1}
      /\ Handing(t) => lock[t] # TicketMod - 1
      /\ Past(t) /\ tstate[t] # "TBUSY" => lock[t] = 1
      /\ Handing(t) /\ wpc[t] \in PastBarrier => lock[t] = 1
      /\ Marked(t) /\ wpc[t] \in {"passed", "switch"} => tstate[t] = "TBUSY"
      /\ Marked(t) /\ lock[t] = 0 => tstate[t] = "TBUSY" /\ wpc[t] \in BeforeBarrier

BarrierInv == StopInv /\ LockInv /\ OverReleaseIsFinal

\* A worker that has seen its barrier lowered and goes to sleep is woken.
WakeInv ==
    \A t \in Threads :
       wpc[t] \in {"check", "sched"} /\ wtask[t] = "I" /\ lock[t] = 0 =>
          mpc \in {"observe", "wake"} /\ tc = t

-----------------------------------------------------------------------------

\* When memory is freed only exited workers are left.
LEMMA FinishQuiet ==
  ASSUME TypeInv, RosterInv, MFinish
  PROVE  \A t \in Threads : wpc[t] \in {"none", "exited"} /\ wpc'[t] = "none"
BY ThreadsType, RoundType DEF TypeInv, TypeOK, MFinish, MainStep, RosterInv

\* Main stops workers only while it is stopping.
LEMMA StopMain ==
  ASSUME TypeInv, RosterInv, StopInv, StoreOn \/ StoreOffOrAbort \/ Main
  PROVE  StopInv'
<1> USE DEF TypeInv, TypeOK, StopInv, Stopping
<1>1. CASE StoreOn
  BY <1>1 DEF StoreOn
<1>2. CASE StoreOffOrAbort
  BY <1>2 DEF StoreOffOrAbort
<1>3. CASE MStartRound
  BY <1>3 DEF MStartRound, MainStep, FreshTdata
<1>4. CASE MPollOff
  BY <1>4 DEF MPollOff, MainStep
<1>5. CASE MIdle
  BY <1>5 DEF MIdle, MainStep
<1>6. CASE MWoken
  BY <1>6 DEF MWoken, MainStep
<1>7. CASE MCreate
  BY <1>7, ThreadsType DEF MCreate, MainStep, NextJob
<1>8. CASE MNeed
  BY <1>8 DEF MNeed, MainStep
<1>9. CASE MTest
  BY <1>9 DEF MTest, MainStep
<1>10. CASE MWait
  BY <1>10 DEF MWait, MainStep
<1>11. CASE MClaim
  BY <1>11 DEF MClaim, MainStep
<1>12. CASE MScan
  BY <1>12 DEF MScan, ScanFor, MainStep
<1>13. CASE MPrep
  BY <1>13 DEF MPrep
<1>14. CASE MRaise
  BY <1>14 DEF MRaise, MainStep
<1>15. CASE MObserve
  BY <1>15 DEF MObserve, MainStep
<1>16. CASE MWake
  BY <1>16 DEF MWake, MainStep
<1>17. CASE MNext
  BY <1>17 DEF MNext, NextJob
<1>18. CASE MStop
  BY <1>18 DEF MStop, MainStep
<1>19. CASE MJoin
  BY <1>19 DEF MJoin, StopNext, MainStep
<1>20. CASE MJoinFailed
  BY <1>20 DEF MJoinFailed, MainStep
<1>21. CASE MRetry
  BY <1>21 DEF MRetry, MainStep
<1>22. CASE MFinish
  BY <1>22, FinishQuiet DEF MFinish, MainStep, FreshTdata
<1> QED
  BY <1>1, <1>2, <1>3, <1>4, <1>5, <1>6, <1>7, <1>8, <1>9, <1>10, <1>11, <1>12, <1>13, <1>14, <1>15, <1>16, <1>17, <1>18, <1>19, <1>20, <1>21, <1>22 DEF Main

\* A worker exits only when it is stopped.
LEMMA StopWorker ==
  ASSUME TypeInv, StopInv, NEW u \in Threads, Worker(u)
  PROVE  StopInv'
<1> USE DEF TypeInv, TypeOK, StopInv, Stopping
<1>1. CASE WBegin(u)
  BY <1>1 DEF WBegin, BeginAs, WorkerStep
<1>2. CASE WAvail(u)
  BY <1>2 DEF WAvail, WorkerStep
<1>3. CASE WNotify(u)
  BY <1>3 DEF WNotify, WorkerStep
<1>4. CASE WSetInt(u)
  BY <1>4 DEF WSetInt, WorkerStep
<1>5. CASE WTry(u)
  BY <1>5 DEF WTry, WorkerStep
<1>6. CASE WCheck(u)
  BY <1>6 DEF WCheck, WorkerStep
<1>7. CASE WSched(u)
  BY <1>7 DEF WSched, WorkerStep
<1>8. CASE WPassed(u)
  BY <1>8 DEF WPassed, WorkerStep
<1>9. CASE WSwitch(u)
  BY <1>9 DEF WSwitch, WorkerStep
<1>10. CASE WVerify(u)
  BY <1>10 DEF WVerify, WorkerStep
<1>11. CASE WAccount(u)
  BY <1>11 DEF WAccount, AccountAs, WorkerStep
<1> QED
  BY <1>1, <1>2, <1>3, <1>4, <1>5, <1>6, <1>7, <1>8, <1>9, <1>10, <1>11 DEF Worker

\* Main raises the barrier of a worker in one of two ways: the worker has passed
\* it already, or it waits and the lock is left over-released.
LEMMA LockMain ==
  ASSUME TypeInv, RosterInv, StateInv, BarrierInv,
         StoreOn \/ StoreOffOrAbort \/ Main
  PROVE  LockInv' /\ OverReleaseIsFinal'
<1> USE DEF TypeInv, TypeOK, BarrierInv, LockInv, OverReleaseIsFinal, Handing,
        Marked, Past, PastBarrier, BeforeBarrier
<1>1. CASE StoreOn
  BY <1>1 DEF StoreOn
<1>2. CASE StoreOffOrAbort
  BY <1>2 DEF StoreOffOrAbort
<1>3. CASE MStartRound
  BY <1>3 DEF MStartRound, MainStep, FreshTdata, RosterInv, FreedWhenQuiet,
     Allocated
<1>4. CASE MPollOff
  BY <1>4 DEF MPollOff, MainStep
<1>5. CASE MIdle
  BY <1>5 DEF MIdle, MainStep
<1>6. CASE MWoken
  BY <1>6 DEF MWoken, MainStep
<1>7. CASE MCreate
  BY <1>7, ThreadsType DEF MCreate, MainStep, NextJob, RosterInv
<1>8. CASE MNeed
  BY <1>8 DEF MNeed, MainStep
<1>9. CASE MTest
  BY <1>9 DEF MTest, MainStep
<1>10. CASE MWait
  BY <1>10 DEF MWait, MainStep
<1>11. CASE MClaim
  BY <1>11 DEF MClaim, MainStep
<1>12. CASE MScan
  BY <1>12 DEF MScan, ScanFor, MainStep, StateInv, StopInv, Stopping
<1>13. CASE MPrep
  BY <1>13 DEF MPrep, StateInv, StopInv, Stopping, WorkerPC
<1>14. CASE MRaise
  BY <1>14 DEF MRaise, MainStep
<1>15. CASE MObserve
  BY <1>15 DEF MObserve, MainStep
<1>16. CASE MWake
  BY <1>16 DEF MWake, MainStep
<1>17. CASE MNext
  BY <1>17 DEF MNext, NextJob
<1>18. CASE MStop
  BY <1>18 DEF MStop, MainStep
<1>19. CASE MJoin
  BY <1>19 DEF MJoin, StopNext, MainStep
<1>20. CASE MJoinFailed
  BY <1>20 DEF MJoinFailed, MainStep
<1>21. CASE MRetry
  BY <1>21 DEF MRetry, MainStep
<1>22. CASE MFinish
  BY <1>22, FinishQuiet DEF MFinish, MainStep, FreshTdata
<1> QED
  BY <1>1, <1>2, <1>3, <1>4, <1>5, <1>6, <1>7, <1>8, <1>9, <1>10, <1>11, <1>12, <1>13, <1>14, <1>15, <1>16, <1>17, <1>18, <1>19, <1>20, <1>21, <1>22 DEF Main

\* A worker takes only a free lock.
LEMMA LockWorker ==
  ASSUME TypeInv, StateInv, BarrierInv, NEW u \in Threads, Worker(u)
  PROVE  LockInv' /\ OverReleaseIsFinal'
<1> USE DEF TypeInv, TypeOK, StateInv, BarrierInv, LockInv, OverReleaseIsFinal,
        Handing, Marked, Past, PastBarrier, BeforeBarrier
<1>1. CASE WBegin(u)
  BY <1>1 DEF WBegin, BeginAs, WorkerStep
<1>2. CASE WAvail(u)
  BY <1>2 DEF WAvail, WorkerStep
<1>3. CASE WNotify(u)
  BY <1>3 DEF WNotify, WorkerStep
<1>4. CASE WSetInt(u)
  BY <1>4 DEF WSetInt, WorkerStep
<1>5. CASE WTry(u)
  BY <1>5 DEF WTry, WorkerStep
<1>6. CASE WCheck(u)
  BY <1>6 DEF WCheck, WorkerStep, StopInv, Stopping
<1>7. CASE WSched(u)
  BY <1>7 DEF WSched, WorkerStep
<1>8. CASE WPassed(u)
  BY <1>8 DEF WPassed, WorkerStep
<1>9. CASE WSwitch(u)
  BY <1>9 DEF WSwitch, WorkerStep
<1>10. CASE WVerify(u)
  BY <1>10 DEF WVerify, WorkerStep
<1>11. CASE WAccount(u)
  BY <1>11 DEF WAccount, AccountAs, WorkerStep
<1> QED
  BY <1>1, <1>2, <1>3, <1>4, <1>5, <1>6, <1>7, <1>8, <1>9, <1>10, <1>11 DEF Worker

-----------------------------------------------------------------------------
(* The wake-ups, and what a worker loads.                                  *)

\* Main wakes the worker whose barrier it has raised before it turns to the
\* next job.
LEMMA WakeMain ==
  ASSUME TypeInv, RosterInv, WakeInv, StoreOn \/ StoreOffOrAbort \/ Main
  PROVE  WakeInv'
<1> USE DEF TypeInv, TypeOK, WakeInv
<1>1. CASE StoreOn
  BY <1>1 DEF StoreOn
<1>2. CASE StoreOffOrAbort
  BY <1>2 DEF StoreOffOrAbort
<1>3. CASE MStartRound
  BY <1>3 DEF MStartRound, MainStep, FreshTdata, RosterInv, FreedWhenQuiet,
     Allocated
<1>4. CASE MPollOff
  BY <1>4 DEF MPollOff, MainStep
<1>5. CASE MIdle
  BY <1>5 DEF MIdle, MainStep
<1>6. CASE MWoken
  BY <1>6 DEF MWoken, MainStep
<1>7. CASE MCreate
  BY <1>7, ThreadsType DEF MCreate, MainStep, NextJob
<1>8. CASE MNeed
  BY <1>8 DEF MNeed, MainStep
<1>9. CASE MTest
  BY <1>9 DEF MTest, MainStep
<1>10. CASE MWait
  BY <1>10 DEF MWait, MainStep
<1>11. CASE MClaim
  BY <1>11 DEF MClaim, MainStep
<1>12. CASE MScan
  BY <1>12 DEF MScan, ScanFor, MainStep
<1>13. CASE MPrep
  BY <1>13 DEF MPrep
<1>14. CASE MRaise
  BY <1>14 DEF MRaise, MainStep
<1>15. CASE MObserve
  BY <1>15 DEF MObserve, MainStep
<1>16. CASE MWake
  BY <1>16 DEF MWake, MainStep
<1>17. CASE MNext
  BY <1>17 DEF MNext, NextJob
<1>18. CASE MStop
  BY <1>18 DEF MStop, MainStep
<1>19. CASE MJoin
  BY <1>19 DEF MJoin, StopNext, MainStep
<1>20. CASE MJoinFailed
  BY <1>20 DEF MJoinFailed, MainStep
<1>21. CASE MRetry
  BY <1>21 DEF MRetry, MainStep
<1>22. CASE MFinish
  BY <1>22, FinishQuiet DEF MFinish, MainStep, FreshTdata
<1> QED
  BY <1>1, <1>2, <1>3, <1>4, <1>5, <1>6, <1>7, <1>8, <1>9, <1>10, <1>11, <1>12, <1>13, <1>14, <1>15, <1>16, <1>17, <1>18, <1>19, <1>20, <1>21, <1>22 DEF Main

\* A worker goes to sleep only after it has found its barrier lowered.
LEMMA WakeWorker ==
  ASSUME TypeInv, WakeInv, NEW u \in Threads, Worker(u)
  PROVE  WakeInv'
<1> USE DEF TypeInv, TypeOK, WakeInv
<1>1. CASE WBegin(u)
  BY <1>1 DEF WBegin, BeginAs, WorkerStep
<1>2. CASE WAvail(u)
  BY <1>2 DEF WAvail, WorkerStep
<1>3. CASE WNotify(u)
  BY <1>3 DEF WNotify, WorkerStep
<1>4. CASE WSetInt(u)
  BY <1>4 DEF WSetInt, WorkerStep
<1>5. CASE WTry(u)
  BY <1>5 DEF WTry, WorkerStep
<1>6. CASE WCheck(u)
  BY <1>6 DEF WCheck, WorkerStep
<1>7. CASE WSched(u)
  BY <1>7 DEF WSched, WorkerStep
<1>8. CASE WPassed(u)
  BY <1>8 DEF WPassed, WorkerStep
<1>9. CASE WSwitch(u)
  BY <1>9 DEF WSwitch, WorkerStep
<1>10. CASE WVerify(u)
  BY <1>10 DEF WVerify, WorkerStep
<1>11. CASE WAccount(u)
  BY <1>11 DEF WAccount, AccountAs, WorkerStep
<1> QED
  BY <1>1, <1>2, <1>3, <1>4, <1>5, <1>6, <1>7, <1>8, <1>9, <1>10, <1>11 DEF Worker

\* The other direction: a worker that makes itself available wakes main.
MainWakeInv ==
    mpc = "wait" /\ mtask = "I" /\ available > 0 =>
       \E t \in Threads : wpc[t] = "notify"

\* Main goes to sleep only after it has found nobody available.
LEMMA MainWakeMain ==
  ASSUME TypeInv, MainWakeInv, StoreOn \/ StoreOffOrAbort \/ Main
  PROVE  MainWakeInv'
<1> USE DEF TypeInv, TypeOK, MainWakeInv
<1>1. CASE StoreOn
  BY <1>1 DEF StoreOn
<1>2. CASE StoreOffOrAbort
  BY <1>2 DEF StoreOffOrAbort
<1>3. CASE MStartRound
  BY <1>3 DEF MStartRound, MainStep, FreshTdata
<1>4. CASE MPollOff
  BY <1>4 DEF MPollOff, MainStep
<1>5. CASE MIdle
  BY <1>5 DEF MIdle, MainStep
<1>6. CASE MWoken
  BY <1>6 DEF MWoken, MainStep
<1>7. CASE MCreate
  BY <1>7 DEF MCreate, MainStep, NextJob
<1>8. CASE MNeed
  BY <1>8 DEF MNeed, MainStep
<1>9. CASE MTest
  BY <1>9 DEF MTest, MainStep
<1>10. CASE MWait
  BY <1>10 DEF MWait, MainStep
<1>11. CASE MClaim
  BY <1>11 DEF MClaim, MainStep
<1>12. CASE MScan
  BY <1>12 DEF MScan, ScanFor, MainStep
<1>13. CASE MPrep
  BY <1>13 DEF MPrep
<1>14. CASE MRaise
  BY <1>14 DEF MRaise, MainStep
<1>15. CASE MObserve
  BY <1>15 DEF MObserve, MainStep
<1>16. CASE MWake
  BY <1>16 DEF MWake, MainStep
<1>17. CASE MNext
  BY <1>17 DEF MNext, NextJob
<1>18. CASE MStop
  BY <1>18 DEF MStop, MainStep
<1>19. CASE MJoin
  BY <1>19 DEF MJoin, StopNext, MainStep
<1>20. CASE MJoinFailed
  BY <1>20 DEF MJoinFailed, MainStep
<1>21. CASE MRetry
  BY <1>21 DEF MRetry, MainStep
<1>22. CASE MFinish
  BY <1>22 DEF MFinish, MainStep, FreshTdata
<1> QED
  BY <1>1, <1>2, <1>3, <1>4, <1>5, <1>6, <1>7, <1>8, <1>9, <1>10, <1>11, <1>12, <1>13, <1>14, <1>15, <1>16, <1>17, <1>18, <1>19, <1>20, <1>21, <1>22 DEF Main

\* Between the increment of available and the next sleep a worker wakes main.
LEMMA MainWakeWorker ==
  ASSUME TypeInv, MainWakeInv, NEW u \in Threads, Worker(u)
  PROVE  MainWakeInv'
<1> USE DEF TypeInv, TypeOK, MainWakeInv
<1>1. CASE WBegin(u)
  BY <1>1 DEF WBegin, BeginAs, WorkerStep
<1>2. CASE WAvail(u)
  BY <1>2 DEF WAvail, WorkerStep
<1>3. CASE WNotify(u)
  BY <1>3 DEF WNotify, WorkerStep
<1>4. CASE WSetInt(u)
  BY <1>4 DEF WSetInt, WorkerStep
<1>5. CASE WTry(u)
  BY <1>5 DEF WTry, WorkerStep
<1>6. CASE WCheck(u)
  BY <1>6 DEF WCheck, WorkerStep
<1>7. CASE WSched(u)
  BY <1>7 DEF WSched, WorkerStep
<1>8. CASE WPassed(u)
  BY <1>8 DEF WPassed, WorkerStep
<1>9. CASE WSwitch(u)
  BY <1>9 DEF WSwitch, WorkerStep
<1>10. CASE WVerify(u)
  BY <1>10 DEF WVerify, WorkerStep
<1>11. CASE WAccount(u)
  BY <1>11 DEF WAccount, AccountAs, WorkerStep
<1> QED
  BY <1>1, <1>2, <1>3, <1>4, <1>5, <1>6, <1>7, <1>8, <1>9, <1>10, <1>11 DEF Worker

\* Main overwrites the segment of a worker that is at work only when that worker
\* took the lock too early, and then leaves the lock free.
LEMMA LoadMain ==
  ASSUME TypeInv, RosterInv, LockInv, WaitedLoadIsWhole,
         StoreOn \/ StoreOffOrAbort \/ Main
  PROVE  WaitedLoadIsWhole'
<1> USE DEF TypeInv, TypeOK, WaitedLoadIsWhole
<1>1. CASE StoreOn
  BY <1>1 DEF StoreOn
<1>2. CASE StoreOffOrAbort
  BY <1>2 DEF StoreOffOrAbort
<1>3. CASE MStartRound
  BY <1>3 DEF MStartRound, MainStep, FreshTdata, RosterInv, FreedWhenQuiet,
     Allocated
<1>4. CASE MPollOff
  BY <1>4 DEF MPollOff, MainStep
<1>5. CASE MIdle
  BY <1>5 DEF MIdle, MainStep
<1>6. CASE MWoken
  BY <1>6 DEF MWoken, MainStep
<1>7. CASE MCreate
  BY <1>7, ThreadsType DEF MCreate, MainStep, NextJob
<1>8. CASE MNeed
  BY <1>8 DEF MNeed, MainStep
<1>9. CASE MTest
  BY <1>9 DEF MTest, MainStep
<1>10. CASE MWait
  BY <1>10 DEF MWait, MainStep
<1>11. CASE MClaim
  BY <1>11 DEF MClaim, MainStep
<1>12. CASE MScan
  BY <1>12 DEF MScan, ScanFor, MainStep
<1>13. CASE MPrep
  BY <1>13 DEF MPrep
<1>14. CASE MRaise
  BY <1>14 DEF MRaise, MainStep, LockInv, Handing, PastBarrier
<1>15. CASE MObserve
  BY <1>15 DEF MObserve, MainStep
<1>16. CASE MWake
  BY <1>16 DEF MWake, MainStep
<1>17. CASE MNext
  BY <1>17 DEF MNext, NextJob
<1>18. CASE MStop
  BY <1>18 DEF MStop, MainStep
<1>19. CASE MJoin
  BY <1>19 DEF MJoin, StopNext, MainStep
<1>20. CASE MJoinFailed
  BY <1>20 DEF MJoinFailed, MainStep
<1>21. CASE MRetry
  BY <1>21 DEF MRetry, MainStep
<1>22. CASE MFinish
  BY <1>22, FinishQuiet DEF MFinish, MainStep, FreshTdata
<1> QED
  BY <1>1, <1>2, <1>3, <1>4, <1>5, <1>6, <1>7, <1>8, <1>9, <1>10, <1>11, <1>12, <1>13, <1>14, <1>15, <1>16, <1>17, <1>18, <1>19, <1>20, <1>21, <1>22 DEF Main

\* A worker loads pos and count together.
LEMMA LoadWorker ==
  ASSUME TypeInv, WaitedLoadIsWhole, NEW u \in Threads, Worker(u)
  PROVE  WaitedLoadIsWhole'
<1> USE DEF TypeInv, TypeOK, WaitedLoadIsWhole
<1>1. CASE WBegin(u)
  BY <1>1 DEF WBegin, BeginAs, WorkerStep
<1>2. CASE WAvail(u)
  BY <1>2 DEF WAvail, WorkerStep
<1>3. CASE WNotify(u)
  BY <1>3 DEF WNotify, WorkerStep
<1>4. CASE WSetInt(u)
  BY <1>4 DEF WSetInt, WorkerStep
<1>5. CASE WTry(u)
  BY <1>5 DEF WTry, WorkerStep
<1>6. CASE WCheck(u)
  BY <1>6 DEF WCheck, WorkerStep
<1>7. CASE WSched(u)
  BY <1>7 DEF WSched, WorkerStep
<1>8. CASE WPassed(u)
  BY <1>8 DEF WPassed, WorkerStep
<1>9. CASE WSwitch(u)
  BY <1>9 DEF WSwitch, WorkerStep
<1>10. CASE WVerify(u)
  BY <1>10 DEF WVerify, WorkerStep
<1>11. CASE WAccount(u)
  BY <1>11 DEF WAccount, AccountAs, WorkerStep
<1> QED
  BY <1>1, <1>2, <1>3, <1>4, <1>5, <1>6, <1>7, <1>8, <1>9, <1>10, <1>11 DEF Worker

-----------------------------------------------------------------------------
(* The theorems.                                                           *)

BInv == IInv /\ BarrierInv /\ WakeInv /\ MainWakeInv /\ WaitedLoadIsWhole

\* The inductive invariant holds in every reachable state.
LEMMA BarrierInductive == Spec => []BInv
<1>1. Init => BarrierInv /\ WakeInv /\ MainWakeInv /\ WaitedLoadIsWhole
  <2> SUFFICES ASSUME Init
               PROVE  BarrierInv /\ WakeInv /\ MainWakeInv /\ WaitedLoadIsWhole
    OBVIOUS
  <2>1. StopInv /\ WakeInv /\ MainWakeInv /\ WaitedLoadIsWhole
    BY DEF Init, StopInv, WakeInv, MainWakeInv, WaitedLoadIsWhole
  <2>2. LockInv /\ OverReleaseIsFinal
    BY DEF Init, LockInv, OverReleaseIsFinal, Handing, Marked, Past, PastBarrier
  <2> QED
    BY <2>1, <2>2 DEF BarrierInv
<1>2. BInv /\ [Next]_vars => (BarrierInv /\ WakeInv /\ MainWakeInv /\ WaitedLoadIsWhole)'
  <2> SUFFICES ASSUME BInv, [Next]_vars
               PROVE  (BarrierInv /\ WakeInv /\ MainWakeInv /\ WaitedLoadIsWhole)'
    OBVIOUS
  <2> USE DEF BInv, IInv
  <2>1. CASE StoreOn \/ StoreOffOrAbort \/ Main
    BY <2>1, StopMain, LockMain, WakeMain, MainWakeMain, LoadMain DEF BarrierInv
  <2>2. ASSUME NEW u \in Threads, Worker(u)
        PROVE  (BarrierInv /\ WakeInv /\ MainWakeInv /\ WaitedLoadIsWhole)'
    BY <2>2, StopWorker, LockWorker, WakeWorker, MainWakeWorker, LoadWorker
       DEF BarrierInv
  <2>3. CASE UNCHANGED vars
    BY <2>3 DEF vars, BarrierInv, StopInv, Stopping, LockInv, OverReleaseIsFinal,
       Handing, Marked, Past, PastBarrier, WakeInv, MainWakeInv, WaitedLoadIsWhole
  <2> QED
    BY <2>1, <2>2, <2>3 DEF Next
<1> QED
  BY <1>1, <1>2, Inductive, PTL DEF Spec, BInv

\* A barrier released without being held stays one release off, and its worker
\* gets no other job and exits when it is stopped.
THEOREM OverReleaseStays == Spec => []OverReleaseIsFinal
<1>1. BInv => OverReleaseIsFinal
  BY DEF BInv, BarrierInv
<1> QED
  BY <1>1, BarrierInductive, PTL

\* Neither main nor a worker sleeps through the event it waits for.
THEOREM WakesArrive == Spec => []NoLostWake
<1>1. BInv => NoLostWake
  BY DEF BInv, WakeInv, MainWakeInv, NoLostWake
<1> QED
  BY <1>1, BarrierInductive, PTL

\* A worker that waited for its barrier verifies the segment it was handed.
THEOREM LoadsAreWhole == Spec => []WaitedLoadIsWhole
<1>1. BInv => WaitedLoadIsWhole
  BY DEF BInv
<1> QED
  BY <1>1, BarrierInductive, PTL

\* Between rounds nobody changes the request count in sysfs.
THEOREM CountIsFinal == Spec => PublishedCountStable
<1>1. ASSUME IInv, [Next]_vars, mpc \in {"poll", "idle", "asleep"}, ~MStartRound
      PROVE  reqcount' = reqcount
  <2>1. \A u \in Threads : wpc[u] = "none"
    BY <1>1 DEF IInv, RosterInv, FreedWhenQuiet, Allocated
  <2>2. CASE StoreOn \/ StoreOffOrAbort \/ Main
    BY <1>1, <2>2 DEF Main, StoreOn, StoreOffOrAbort, MPollOff, MIdle,
       MWoken, MCreate, MNeed, MTest, MWait, MClaim, MScan, ScanFor, MPrep, MRaise,
       MObserve, MWake, MNext, MStop, MJoin, StopNext, MJoinFailed, MRetry,
       MFinish, MainStep
  <2>3. ASSUME NEW u \in Threads, Worker(u) PROVE reqcount' = reqcount
    BY <2>1, <2>3 DEF Worker, WBegin, BeginAs, WAvail, WNotify, WSetInt, WTry,
       WCheck, WSched, WPassed, WSwitch, WVerify, WAccount, AccountAs, WorkerStep
  <2>4. CASE UNCHANGED vars
    BY <2>4 DEF vars
  <2> QED
    BY <1>1, <2>2, <2>3, <2>4 DEF Next
<1>2. IInv /\ [Next]_vars =>
        [(mpc \in {"poll", "idle", "asleep"}) =>
            (reqcount' = reqcount \/ MStartRound)]_vars
  BY <1>1
<1> QED
  BY <1>2, Inductive, PTL DEF Spec, PublishedCountStable

-----------------------------------------------------------------------------
(* A worker in step with its barrier stays so: the races of the lock that   *)
(* starts out free are over once the worker has seen it taken.              *)

\* Main raises the barrier only of the worker it has marked busy.
LEMMA InStepMain ==
  ASSUME BInv, StoreOn \/ StoreOffOrAbort \/ Main, NEW t \in Threads, InStep(t)
  PROVE  InStep(t)' \/ Stopping'
<1> USE DEF BInv, IInv, TypeInv, TypeOK, InStep, Stopping, Handing, Marked,
        BeforeBarrier
<1>1. CASE StoreOn
  BY <1>1 DEF StoreOn
<1>2. CASE StoreOffOrAbort
  BY <1>2 DEF StoreOffOrAbort
<1>3. CASE MStartRound
  BY <1>3 DEF MStartRound, MainStep, RosterInv, FreedWhenQuiet, Allocated
<1>4. CASE MPollOff
  BY <1>4 DEF MPollOff, MainStep
<1>5. CASE MIdle
  BY <1>5 DEF MIdle, MainStep
<1>6. CASE MWoken
  BY <1>6 DEF MWoken, MainStep
<1>7. CASE MCreate
  BY <1>7, ThreadsType DEF MCreate, MainStep, NextJob, RosterInv
<1>8. CASE MNeed
  BY <1>8 DEF MNeed, MainStep
<1>9. CASE MTest
  BY <1>9 DEF MTest, MainStep
<1>10. CASE MWait
  BY <1>10 DEF MWait, MainStep
<1>11. CASE MClaim
  BY <1>11 DEF MClaim, MainStep
<1>12. CASE MScan
  BY <1>12 DEF MScan, ScanFor, MainStep
<1>13. CASE MPrep
  <2>1. PICK f \in pend :
           /\ pend' = pend \ {f}
           /\ mpc' = IF pend' = {} THEN "raise" ELSE "prep"
           /\ tstate' = IF f = "state" THEN [tstate EXCEPT ![tc] = "TBUSY"]
                                       ELSE tstate
    BY <1>13 DEF MPrep
  <2>2. /\ mpc = "prep" /\ tc' = tc /\ tc \in Threads
        /\ wpc' = wpc /\ lock' = lock /\ wpos' = wpos /\ wcount' = wcount
        /\ "state" \in pend => tstate[tc] = "TIDLE"
    BY <1>13 DEF MPrep, StateInv
  <2>3. CASE t = tc
    BY <2>1, <2>2, <2>3
  <2>4. CASE t # tc
    <3>1. tpos'[t] = tpos[t] /\ tcount'[t] = tcount[t] /\ tstate'[t] = tstate[t]
      BY <1>13, <2>4 DEF MPrep
    <3> QED
      BY <2>1, <2>2, <2>4, <3>1
  <2> QED
    BY <2>3, <2>4
<1>14. CASE MRaise
  BY <1>14 DEF MRaise, MainStep
<1>15. CASE MObserve
  BY <1>15 DEF MObserve, MainStep
<1>16. CASE MWake
  BY <1>16 DEF MWake, MainStep
<1>17. CASE MNext
  BY <1>17 DEF MNext, NextJob
<1>18. CASE MStop
  BY <1>18 DEF MStop, MainStep
<1>19. CASE MJoin
  BY <1>19 DEF MJoin, StopNext, MainStep
<1>20. CASE MJoinFailed
  BY <1>20 DEF MJoinFailed, MainStep
<1>21. CASE MRetry
  BY <1>21 DEF MRetry, MainStep
<1>22. CASE MFinish
  BY <1>22, FinishQuiet DEF MFinish, MainStep
<1> QED
  BY <1>1, <1>2, <1>3, <1>4, <1>5, <1>6, <1>7, <1>8, <1>9, <1>10, <1>11,
     <1>12, <1>13, <1>14, <1>15, <1>16, <1>17, <1>18, <1>19, <1>20, <1>21,
     <1>22 DEF Main

\* A worker passes only a barrier that main has raised, and takes it again.
LEMMA InStepWorker ==
  ASSUME BInv, NEW u \in Threads, Worker(u), NEW t \in Threads, InStep(t)
  PROVE  InStep(t)' \/ Stopping'
<1> USE DEF BInv, IInv, TypeInv, TypeOK, InStep, Stopping, Handing, Marked,
        BeforeBarrier, WorkerStep
<1>1. CASE WBegin(u)
  BY <1>1 DEF WBegin, BeginAs
<1>2. CASE WAvail(u)
  BY <1>2 DEF WAvail
<1>3. CASE WNotify(u)
  BY <1>3 DEF WNotify
<1>4. CASE WSetInt(u)
  BY <1>4 DEF WSetInt
<1>5. CASE WTry(u)
  BY <1>5 DEF WTry, StateInv
<1>6. CASE WCheck(u)
  BY <1>6 DEF WCheck, BarrierInv, StopInv
<1>7. CASE WSched(u)
  BY <1>7 DEF WSched
<1>8. CASE WPassed(u)
  BY <1>8 DEF WPassed, BarrierInv, StopInv
<1>9. CASE WSwitch(u)
  BY <1>9 DEF WSwitch
<1>10. CASE WVerify(u)
  BY <1>10 DEF WVerify
<1>11. CASE WAccount(u)
  BY <1>11 DEF WAccount, AccountAs
<1> QED
  BY <1>1, <1>2, <1>3, <1>4, <1>5, <1>6, <1>7, <1>8, <1>9, <1>10, <1>11
     DEF Worker

\* A worker that has waited at its lowered barrier passes it only when main has
\* raised it for the next job, and works on that job, until the round is stopped.
THEOREM WorkersStayInStep == Spec => StaysInStep
<1>1. ASSUME BInv, [Next]_vars, NEW t \in Threads, InStep(t)
      PROVE  InStep(t)' \/ Stopping'
  <2>1. CASE StoreOn \/ StoreOffOrAbort \/ Main
    BY <1>1, <2>1, InStepMain
  <2>2. ASSUME NEW u \in Threads, Worker(u) PROVE InStep(t)' \/ Stopping'
    BY <1>1, <2>2, InStepWorker
  <2>3. CASE UNCHANGED vars
    BY <1>1, <2>3 DEF vars, InStep, Handing, Marked
  <2> QED
    BY <1>1, <2>1, <2>2, <2>3 DEF Next
<1>2. BInv /\ [Next]_vars =>
        [\A t \in Threads : InStep(t) => InStep(t)' \/ Stopping']_vars
  BY <1>1
<1> QED
  BY <1>2, BarrierInductive, PTL DEF Spec, StaysInStep

-----------------------------------------------------------------------------
(* The refinement: ScrubRound implements WorkerPool. The flag a worker's   *)
(* place in the code implies decides which step of the pool a step of a    *)
(* thread is.                                                              *)

\* A step that changes nothing the pool shows.
PoolStutter ==
    /\ PoolMode' = PoolMode /\ PoolOf' = PoolOf /\ PoolSlot' = PoolSlot
    /\ PoolHanded' = PoolHanded /\ PoolDone' = PoolDone

\* The initial state of the threads is that of a closed pool.
LEMMA PoolInit == Init => Pool!Init
<1> SUFFICES ASSUME Init PROVE Pool!Init
  OBVIOUS
<1>1. ~Allocated
  BY DEF Init, Allocated
<1>2. \A t \in Threads : Slot(t) = "free"
  BY DEF Init, Slot
<1>3. PoolSlot = [t \in Threads |-> "free"]
  BY <1>2 DEF PoolSlot
<1> QED
  BY <1>1, <1>3 DEF Pool!Init, Pool!Empty, PoolMode, PoolOf, PoolHanded, PoolDone

\* What has to stay the same for that. Stated with IF-free facts: where main is
\* only matters through the three predicates on it.
Hidden ==
    /\ Allocated' <=> Allocated
    /\ Stopping' <=> Stopping
    /\ Handed' = Handed /\ round' = round /\ finished' = finished

\* If no worker changes its slot either, the pool does not move.
LEMMA StutterFrom ==
  ASSUME Hidden, \A t \in Threads : Slot(t)' = Slot(t)
  PROVE  PoolStutter
<1>1. PoolSlot' = PoolSlot
  BY DEF PoolSlot
<1>2. PoolMode' = PoolMode /\ PoolHanded' = PoolHanded /\ PoolDone' = PoolDone
  BY DEF Hidden, PoolMode, PoolHanded, PoolDone
<1>3. PoolOf' = PoolOf
  BY DEF Hidden, PoolOf, Active
<1> QED
  BY <1>1, <1>2, <1>3 DEF PoolStutter

\* Most steps of main and of sysfs writers are invisible: they store no thread
\* state and neither begin, stop nor end a round.
LEMMA QuietMain ==
  ASSUME IInv, StoreOn \/ StoreOffOrAbort \/ Main,
         ~MStartRound, ~MPrep, ~MFinish, ~MNext, ~MCreate
  PROVE  PoolStutter
<1> USE DEF Hidden, Allocated, Stopping, Handed, Claiming
<1>0. TypeOK
  BY DEF IInv, TypeInv
<1> SUFFICES Hidden /\ wpc' = wpc /\ tstate' = tstate
  BY StutterFrom DEF Slot
<1>1. CASE StoreOn
  BY <1>1 DEF StoreOn
<1>2. CASE StoreOffOrAbort
  BY <1>2 DEF StoreOffOrAbort
<1>3. CASE MPollOff
  BY <1>3 DEF MPollOff, MainStep
<1>4. CASE MIdle
  BY <1>4 DEF MIdle, MainStep
<1>5. CASE MWoken
  BY <1>5 DEF MWoken, MainStep
<1>6. CASE MNeed
  BY <1>6, <1>0 DEF MNeed, MainStep, TypeOK
<1>7. CASE MTest
  BY <1>7 DEF MTest, MainStep
<1>8. CASE MWait
  BY <1>8 DEF MWait, MainStep
<1>9. CASE MClaim
  BY <1>9 DEF MClaim, MainStep
<1>10. CASE MScan
  BY <1>10 DEF MScan, ScanFor, MainStep
<1>11. CASE MRaise
  BY <1>11 DEF MRaise, MainStep
<1>12. CASE MObserve
  BY <1>12 DEF MObserve, MainStep
<1>13. CASE MWake
  BY <1>13 DEF MWake, MainStep
<1>14. CASE MStop
  BY <1>14 DEF MStop, MainStep
<1>15. CASE MJoin
  BY <1>15 DEF MJoin, StopNext, MainStep
<1>16. CASE MJoinFailed
  BY <1>16 DEF MJoinFailed, MainStep
<1>17. CASE MRetry
  BY <1>17 DEF MRetry, MainStep
<1> QED
  BY <1>1, <1>2, <1>3, <1>4, <1>5, <1>6, <1>7, <1>8, <1>9, <1>10, <1>11,
     <1>12, <1>13, <1>14, <1>15, <1>16, <1>17 DEF Main

\* The start of a round opens the pool: no worker is left of an earlier one.
LEMMA StartOpens ==
  ASSUME IInv, MStartRound
  PROVE  Pool!Open
<1>1. /\ ~Allocated /\ Allocated' /\ ~Stopping' /\ Handed' = 0 /\ finished' = 0
  BY DEF MStartRound, MainStep, Allocated, Stopping, Handed, Claiming
<1>2. \A t \in Threads : Slot(t) = "free" /\ Slot(t)' = "free"
  BY <1>1 DEF IInv, RosterInv, FreedWhenQuiet, StateInv, Slot, MStartRound,
     FreshTdata
<1>3. PoolSlot' = PoolSlot
  BY <1>2 DEF PoolSlot
<1>4. Active' \in SUBSET Threads
  BY RoundType, ThreadsType DEF MStartRound, Active, Threads
<1> QED
  BY <1>1, <1>3, <1>4 DEF Pool!Open, PoolMode, PoolOf, PoolHanded, PoolDone

\* The end of a round closes it: every worker has exited.
LEMMA FinishCloses ==
  ASSUME IInv, MFinish
  PROVE  Pool!Close
<1>1. Allocated /\ Stopping /\ ~Allocated'
  BY DEF MFinish, MainStep, Allocated, Stopping
<1>2. \A t \in Threads : wpc[t] \in {"none", "exited"}
  BY ThreadsType, RoundType DEF MFinish, MainStep, IInv, TypeInv, TypeOK, RosterInv
<1>3. \A t \in Threads : PoolSlot[t] # "working"
  BY <1>2 DEF PoolSlot, Slot
<1>4. \A t \in Threads : Slot(t)' = "free"
  BY <1>2 DEF MFinish, FreshTdata, Slot, IInv, TypeInv, TypeOK
<1>5. PoolSlot' = [t \in Threads |-> "free"]
  BY <1>4 DEF PoolSlot
<1> QED
  BY <1>1, <1>3, <1>5 DEF Pool!Close, Pool!Empty, PoolMode, PoolOf, PoolHanded,
     PoolDone

\* Leaving the loop over the segments stops the pool; going on is invisible.
LEMMA NextStops ==
  ASSUME IInv, MNext \/ MCreate
  PROVE  Pool!Stop \/ PoolStutter
<1>1. /\ Allocated /\ ~Stopping /\ Allocated' /\ Handed' = Handed
      /\ round' = round /\ finished' = finished
  BY DEF MNext, MCreate, NextJob, MainStep, Allocated, Stopping, Handed, Claiming
<1>2. \A t \in Threads : Slot(t)' = Slot(t)
  <2>1. CASE MNext
    BY <2>1 DEF MNext, Slot
  <2>2. CASE MCreate
    BY <2>2, ThreadsType DEF MCreate, MainStep, Slot, IInv, TypeInv, TypeOK, RosterInv
  <2> QED
    BY <2>1, <2>2
<1>3. CASE Stopping'
  <2>1. PoolSlot' = PoolSlot /\ PoolOf' = PoolOf
    BY <1>1, <1>2 DEF PoolSlot, PoolOf, Active
  <2> QED
    BY <1>1, <1>3, <2>1 DEF Pool!Stop, PoolMode, PoolHanded, PoolDone
<1>4. CASE ~Stopping'
  BY <1>1, <1>2, <1>4, StutterFrom DEF Hidden
<1> QED
  BY <1>3, <1>4

\* Storing TBUSY gives the worker main has found a segment.
LEMMA PrepTakes ==
  ASSUME IInv, MPrep
  PROVE  PoolStutter \/ \E t \in Threads : Pool!Take(t)
<1>1. PICK f \in pend :
         /\ pend' = pend \ {f}
         /\ mpc' = IF pend' = {} THEN "raise" ELSE "prep"
         /\ tstate' = IF f = "state" THEN [tstate EXCEPT ![tc] = "TBUSY"]
                                     ELSE tstate
  BY DEF MPrep
<1>2. /\ mpc = "prep" /\ tc \in Threads /\ cur \in Nat /\ finished' = finished
      /\ cur' = cur /\ round' = round /\ wpc' = wpc /\ round \in Rounds
      /\ tstate \in [Threads -> {"TINIT", "TIDLE", "TBUSY"}]
  BY DEF MPrep, IInv, TypeInv, TypeOK
<1>3. Allocated /\ Allocated' /\ ~Stopping /\ ~Stopping'
  BY <1>1, <1>2 DEF Allocated, Stopping
<1>4. CASE f = "state"
  <2>1. tstate[tc] = "TIDLE"
    BY <1>1, <1>2, <1>4 DEF IInv, StateInv
  <2>2. Handed' = Handed + 1
    BY <1>1, <1>2, <1>4 DEF Handed, Claiming
  <2>3. Slot(tc) = "free"
    BY <1>2, <2>1 DEF Slot, IInv, StateInv
  <2>4. wpc[tc] # "none"
    BY <1>2, <2>1 DEF IInv, StateInv
  <2>5. tc \in Active
    BY <1>2, <2>4, RoundType, ThreadsType DEF Active, IInv, RosterInv
  <2>6. wpc[tc] \notin {"io", "account"}
    BY <1>2, <2>1 DEF IInv, StateInv
  <2>7. \A t \in Threads : Slot(t)' = IF t = tc THEN "assigned" ELSE Slot(t)
    BY <1>1, <1>2, <1>4, <2>6 DEF Slot
  <2>8. PoolSlot[tc] = "free" /\ PoolSlot' = [PoolSlot EXCEPT ![tc] = "assigned"]
    BY <1>2, <2>3, <2>7 DEF PoolSlot
  <2>9. PoolMode = "open" /\ PoolMode' = "open" /\ PoolOf' = PoolOf /\ tc \in PoolOf
    BY <1>2, <1>3, <2>5 DEF PoolMode, PoolOf, Active
  <2>10. PoolHanded' = PoolHanded + 1 /\ PoolDone' = PoolDone
    BY <1>2, <1>3, <2>2 DEF PoolHanded, PoolDone
  <2>11. Pool!Take(tc)
    BY <2>8, <2>9, <2>10 DEF Pool!Take, Pool!Move
  <2> QED
    BY <1>2, <2>11
<1>5. CASE f # "state"
  <2>1. Handed' = Handed
    BY <1>1, <1>2, <1>5 DEF Handed, Claiming
  <2>2. \A t \in Threads : Slot(t)' = Slot(t)
    BY <1>1, <1>2, <1>5 DEF Slot
  <2> QED
    BY <1>2, <1>3, <2>1, <2>2, StutterFrom DEF Hidden
<1> QED
  BY <1>4, <1>5

\* A worker moves its slot when it loads its segment and when it is done with
\* the last request of it. Nothing else it does is seen.
LEMMA WorkerMoves ==
  ASSUME IInv, NEW t \in Threads, Worker(t)
  PROVE  PoolStutter \/ Pool!Begin(t) \/ Pool!Complete(t)
<1> USE DEF IInv, TypeInv, TypeOK
<1>1. /\ mpc' = mpc /\ cur' = cur /\ pend' = pend /\ round' = round
      /\ \A u \in Threads \ {t} : wpc'[u] = wpc[u] /\ tstate'[u] = tstate[u]
  BY DEF Worker, WBegin, BeginAs, WAvail, WNotify, WSetInt, WTry, WCheck, WSched,
     WPassed, WSwitch, WVerify, WAccount, AccountAs, WorkerStep
<1>2. /\ Allocated' <=> Allocated
      /\ Stopping' <=> Stopping
      /\ Handed' = Handed
  BY <1>1 DEF Allocated, Stopping, Handed, Claiming
<1>3. \A u \in Threads \ {t} : Slot(u)' = Slot(u)
  BY <1>1 DEF Slot
<1>4. Allocated \/ wpc[t] = "none"
  BY DEF RosterInv, FreedWhenQuiet
<1>5. Allocated
  BY <1>4 DEF Worker, WBegin, BeginAs, WAvail, WNotify, WSetInt, WTry, WCheck,
     WSched, WPassed, WSwitch, WVerify, WAccount, AccountAs, WorkerStep
<1>6. PoolMode' = PoolMode /\ PoolOf' = PoolOf /\ PoolHanded' = PoolHanded
  BY <1>1, <1>2 DEF PoolMode, PoolOf, PoolHanded, Active
<1>7. CASE WSwitch(t) /\ tstate[t] = "TBUSY"
  <2>1. Slot(t) = "assigned" /\ Slot(t)' = "working" /\ finished' = finished
    BY <1>7 DEF WSwitch, WorkerStep, Slot
  <2>2. PoolSlot[t] = "assigned" /\ PoolSlot' = [PoolSlot EXCEPT ![t] = "working"]
    BY <1>3, <2>1 DEF PoolSlot
  <2>3. PoolDone' = PoolDone
    BY <1>2, <2>1 DEF PoolDone
  <2> QED
    BY <1>6, <2>2, <2>3 DEF Pool!Begin, Pool!Move
<1>8. CASE WAccount(t) /\ left[t] = 0
  <2>1. Slot(t) = "working" /\ Slot(t)' = "free" /\ finished' = finished + 1
    BY <1>8 DEF WAccount, AccountAs, WorkerStep, Slot
  <2>2. PoolSlot[t] = "working" /\ PoolSlot' = [PoolSlot EXCEPT ![t] = "free"]
    BY <1>3, <2>1 DEF PoolSlot
  <2>3. PoolDone' = PoolDone + 1
    BY <1>2, <1>5, <2>1 DEF PoolDone
  <2> QED
    BY <1>6, <2>2, <2>3 DEF Pool!Complete, Pool!Move
<1>9. CASE ~(WSwitch(t) /\ tstate[t] = "TBUSY") /\ ~(WAccount(t) /\ left[t] = 0)
  <2>1. Slot(t)' = Slot(t) /\ finished' = finished
    <3>1. CASE WBegin(t)
      BY <3>1 DEF WBegin, BeginAs, WorkerStep, Slot, StateInv
    <3>2. CASE WAvail(t)
      BY <3>2 DEF WAvail, WorkerStep, Slot
    <3>3. CASE WNotify(t)
      BY <3>3 DEF WNotify, WorkerStep, Slot
    <3>4. CASE WSetInt(t)
      BY <3>4 DEF WSetInt, WorkerStep, Slot
    <3>5. CASE WTry(t)
      BY <3>5 DEF WTry, WorkerStep, Slot
    <3>6. CASE WCheck(t)
      BY <3>6 DEF WCheck, WorkerStep, Slot
    <3>7. CASE WSched(t)
      BY <3>7 DEF WSched, WorkerStep, Slot
    <3>8. CASE WPassed(t)
      BY <3>8 DEF WPassed, WorkerStep, Slot
    <3>9. CASE WSwitch(t) /\ tstate[t] # "TBUSY"
      BY <3>9 DEF WSwitch, WorkerStep, Slot
    <3>10. CASE WVerify(t)
      BY <3>10 DEF WVerify, WorkerStep, Slot
    <3>11. CASE WAccount(t) /\ left[t] # 0
      BY <3>11 DEF WAccount, AccountAs, WorkerStep, Slot
    <3> QED
      BY <1>9, <3>1, <3>2, <3>3, <3>4, <3>5, <3>6, <3>7, <3>8, <3>9, <3>10,
         <3>11 DEF Worker
  <2> QED
    BY <1>1, <1>2, <1>3, <2>1, StutterFrom DEF Hidden
<1> QED
  BY <1>7, <1>8, <1>9

\* The threads of a scrubbing round implement the pool of workers: a segment is
\* given to a worker that has none, is run to its end once begun, and none is
\* handed out after the stop has begun; the round ends when nobody is at work.
THEOREM RoundIsPool == Spec => PoolSpec
<1>1. IInv /\ [Next]_vars => [Pool!Next]_(Pool!vars)
  <2> SUFFICES ASSUME IInv, [Next]_vars PROVE [Pool!Next]_(Pool!vars)
    OBVIOUS
  <2>1. ASSUME PoolStutter PROVE [Pool!Next]_(Pool!vars)
    BY <2>1 DEF PoolStutter, Pool!vars
  <2>2. CASE StoreOn \/ StoreOffOrAbort \/ Main
    BY <2>1, <2>2, QuietMain, StartOpens, FinishCloses, NextStops, PrepTakes
       DEF Pool!Next
  <2>3. ASSUME NEW t \in Threads, Worker(t) PROVE [Pool!Next]_(Pool!vars)
    BY <2>1, <2>3, WorkerMoves DEF Pool!Next
  <2>4. CASE UNCHANGED vars
    <3>1. Hidden /\ wpc' = wpc /\ tstate' = tstate
      BY <2>4 DEF vars, Hidden, Allocated, Stopping, Handed, Claiming
    <3> QED
      BY <2>1, <3>1, StutterFrom DEF Slot
  <2> QED
    BY <2>2, <2>3, <2>4 DEF Next
<1> QED
  BY <1>1, PoolInit, Inductive, PTL DEF Spec, PoolSpec, Pool!Spec
=============================================================================
