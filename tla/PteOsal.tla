------------------------------- MODULE PteOsal -------------------------------
(***************************************************************************)
(* Threads of libpthreadglue (osal.c): creation with its error paths,      *)
(* start, exit, deletion, cancellation through a per-thread semaphore, and *)
(* the two polling waits, pte_osThreadWaitForEnd and                       *)
(* pte_osSemaphoreCancellablePend, that notice a cancellation.             *)
(*                                                                         *)
(* A program is well behaved, as pthread_join and pthread_detach are: the  *)
(* thread that created a thread starts it, cancels it and waits for it,    *)
(* and deletes it when the wait says that it has ended; a detached thread  *)
(* deletes itself.                                                         *)
(***************************************************************************)
EXTENDS Integers, FiniteSets

CONSTANTS
  Main,        \* the non-POSIX thread, whose data pte_osInit allocates
  Threads,     \* the handles of pthreads
  MaxCancel,   \* the maximum of a cancellation semaphore (255)
  MaxPosts,    \* bound on the value of the user semaphore
  Pends,       \* the actors that wait for the user semaphore
  None         \* no thread, no semaphore

Actors == Threads \cup {Main}

ASSUME PteOsalAssumption ==
  /\ Main \notin Threads /\ None \notin Actors /\ None \notin Nat
  /\ MaxCancel \in Nat \ {0} /\ MaxPosts \in Nat /\ Pends \subseteq Actors

VARIABLES
  status,     \* kernel state of a thread: none, dormant, running, stopped
  tls, data,  \* the threads whose TLS array, control data is allocated
  cancelSem,  \* [Actors -> 0 .. MaxCancel \cup {None}]: its cancellation semaphore
  sem,        \* the value of a user semaphore
  creator,    \* the actor that created a thread
  detached,   \* threads that delete themselves
  pc, target, \* what an actor is doing, and to which thread
  expired     \* the actors whose timeout is over

vars == <<status, tls, data, cancelSem, sem, creator, detached, pc, target, expired>>
resources == <<status, tls, data, cancelSem>>

(* pte_osInit has run. *)
Init ==
  /\ status = [a \in Actors |-> IF a = Main THEN "running" ELSE "none"]
  /\ tls = {Main} /\ data = {Main}
  /\ cancelSem = [a \in Actors |-> IF a = Main THEN 0 ELSE None]
  /\ sem = 0
  /\ creator = [t \in Threads |-> None]
  /\ detached = {}
  /\ pc = [a \in Actors |-> "run"]
  /\ target = [a \in Actors |-> None]
  /\ expired = {}

Goto(a, l) == pc' = [pc EXCEPT ![a] = l]
Runs(a) == status[a] = "running"
Free(a) == Runs(a) /\ pc[a] = "run"

-----------------------------------------------------------------------------
(* pte_osThreadCreate: the TLS array, the control data, the semaphore and  *)
(* the kernel thread, each of which may fail.                              *)
CreateCall(a) ==
  /\ Free(a)
  /\ \E t \in Threads :
       /\ status[t] = "none" /\ creator[t] = None
       /\ creator' = [creator EXCEPT ![t] = a]
       /\ target' = [target EXCEPT ![a] = t]
       /\ tls' = tls \cup {t}
  /\ Goto(a, "create_data")
  /\ UNCHANGED <<status, data, cancelSem, sem, detached, expired>>

(* Give up the creation: free what was allocated. *)
Abandon(a, semas) ==
  LET t == target[a] IN
    /\ tls' = tls \ {t}
    /\ data' = data \ {t}
    /\ cancelSem' = [cancelSem EXCEPT ![t] = semas]
    /\ creator' = [creator EXCEPT ![t] = None]
    /\ Goto(a, "run")

CreateData(a) ==
  /\ pc[a] = "create_data"
  /\ \/ /\ data' = data \cup {target[a]}
        /\ Goto(a, "create_sema")
        /\ UNCHANGED <<tls, cancelSem, creator>>
     \/ Abandon(a, None)
  /\ UNCHANGED <<status, sem, detached, target, expired>>

CreateSema(a) ==
  /\ pc[a] = "create_sema"
  /\ \/ /\ cancelSem' = [cancelSem EXCEPT ![target[a]] = 0]
        /\ Goto(a, "create_thread")
        /\ UNCHANGED <<tls, data, creator>>
     \/ Abandon(a, None)
  /\ UNCHANGED <<status, sem, detached, target, expired>>

CreateThreadKeepsSema(a) ==
  /\ pc[a] = "create_thread"
  /\ \/ /\ status' = [status EXCEPT ![target[a]] = "dormant"]
        /\ Goto(a, "run")
        /\ UNCHANGED <<tls, data, cancelSem, creator>>
     \/ Abandon(a, 0) /\ UNCHANGED status
  /\ UNCHANGED <<sem, detached, target, expired>>

CreateThread(a) ==
  /\ pc[a] = "create_thread"
  /\ \/ /\ status' = [status EXCEPT ![target[a]] = "dormant"]
        /\ Goto(a, "run")
        /\ UNCHANGED <<tls, data, cancelSem, creator>>
     \/ Abandon(a, None) /\ UNCHANGED status
  /\ UNCHANGED <<sem, detached, target, expired>>

(* pte_osThreadStart; the new thread reads its control data. *)
Start(a) ==
  /\ Free(a)
  /\ \E t \in Threads :
       /\ creator[t] = a /\ status[t] = "dormant"
       /\ status' = [status EXCEPT ![t] = "running"]
       /\ detached' \in {detached, detached \cup {t}}
  /\ UNCHANGED <<tls, data, cancelSem, sem, creator, pc, target, expired>>

(* pte_osThreadExit, of a thread that is joined. *)
Exit(t) ==
  /\ Free(t) /\ t \notin detached
  /\ status' = [status EXCEPT ![t] = "stopped"]
  /\ UNCHANGED <<tls, data, cancelSem, sem, creator, detached, pc, target, expired>>

CancelUnbounded(a) ==
  /\ Free(a)
  /\ \E t \in Threads :
       /\ creator[t] = a /\ t \notin detached /\ status[t] # "none"
       /\ cancelSem[t] # None
       /\ cancelSem' = [cancelSem EXCEPT ![t] = @ + 1]
  /\ UNCHANGED <<status, tls, data, sem, creator, detached, pc, target, expired>>

(* pte_osThreadCancel; the semaphore refuses to go beyond its maximum. *)
Cancel(a) ==
  /\ Free(a)
  /\ \E t \in Threads :
       /\ creator[t] = a /\ t \notin detached /\ status[t] # "none"
       /\ cancelSem[t] # None
       /\ cancelSem' = [cancelSem EXCEPT ![t] = IF @ < MaxCancel THEN @ + 1 ELSE @]
  /\ UNCHANGED <<status, tls, data, sem, creator, detached, pc, target, expired>>

Cancelled(a) == cancelSem[a] # None /\ cancelSem[a] > 0

-----------------------------------------------------------------------------
(* pte_osThreadWaitForEnd: poll the kernel for the end of the thread, then *)
(* the waiter's own cancellation semaphore, then sleep.                    *)
WaitCall(a) ==
  /\ Free(a)
  /\ \E t \in Threads :
       /\ creator[t] = a /\ t \notin detached
       /\ status[t] \in {"running", "stopped"}
       /\ target' = [target EXCEPT ![a] = t]
  /\ Goto(a, "wait_poll")
  /\ UNCHANGED <<resources, sem, creator, detached, expired>>

WaitPollDormant(a) ==
  /\ pc[a] = "wait_poll"
  /\ Goto(a, IF status[target[a]] = "dormant" THEN "ended" ELSE "wait_cancel")
  /\ UNCHANGED <<resources, sem, creator, detached, target, expired>>

WaitPollRunning(a) ==
  /\ pc[a] = "wait_poll"
  /\ Goto(a, IF status[target[a]] # "dormant" THEN "ended" ELSE "wait_cancel")
  /\ UNCHANGED <<resources, sem, creator, detached, target, expired>>

(* PTE_OS_OK when the status is PSP_THREAD_STOPPED. *)
WaitPoll(a) ==
  /\ pc[a] = "wait_poll"
  /\ Goto(a, IF status[target[a]] = "stopped" THEN "ended" ELSE "wait_cancel")
  /\ UNCHANGED <<resources, sem, creator, detached, target, expired>>

WaitCancelIgnored(a) ==
  /\ pc[a] = "wait_cancel"
  /\ Goto(a, "wait_poll")
  /\ UNCHANGED <<resources, sem, creator, detached, target, expired>>

(* PTE_OS_INTERRUPTED leaves the thread alone, to be waited for again. *)
WaitCancel(a) ==
  /\ pc[a] = "wait_cancel"
  /\ Goto(a, IF cancelSem[a] = None \/ Cancelled(a) THEN "run" ELSE "wait_poll")
  /\ UNCHANGED <<resources, sem, creator, detached, target, expired>>

(* pte_osThreadDelete, by the waiter or by the thread itself: the          *)
(* semaphore, the control data and the TLS array go before the thread.     *)
DeleteCall(a) ==
  /\ pc[a] = "ended"
  /\ Goto(a, "delete_sema")
  /\ UNCHANGED <<resources, sem, creator, detached, target, expired>>

DeleteSema(a) ==
  /\ pc[a] = "delete_sema"
  /\ cancelSem' = [cancelSem EXCEPT ![target[a]] = None]
  /\ Goto(a, "delete_memory")
  /\ UNCHANGED <<status, tls, data, sem, creator, detached, target, expired>>

DeleteMemory(a) ==
  /\ pc[a] = "delete_memory"
  /\ data' = data \ {target[a]}
  /\ tls' = tls \ {target[a]}
  /\ Goto(a, "delete_thread")
  /\ UNCHANGED <<status, cancelSem, sem, creator, detached, target, expired>>

(* sceKernelDeleteThread fails on the running thread itself, which then    *)
(* leaves through sceKernelExitDeleteThread.                               *)
DeleteThread(a) ==
  /\ pc[a] = "delete_thread"
  /\ status' = [status EXCEPT ![target[a]] = "none"]
  /\ creator' = [creator EXCEPT ![target[a]] = None]
  /\ detached' = detached \ {target[a]}
  /\ Goto(a, "run")
  /\ UNCHANGED <<tls, data, cancelSem, sem, target, expired>>

(* pte_osThreadExitAndDelete *)
ExitAndDelete(t) ==
  /\ Free(t) /\ t \in detached
  /\ target' = [target EXCEPT ![t] = t]
  /\ Goto(t, "delete_sema")
  /\ UNCHANGED <<resources, sem, creator, detached, expired>>

-----------------------------------------------------------------------------
(* pte_osSemaphorePost *)
Post(a) ==
  /\ Free(a) /\ sem < MaxPosts
  /\ sem' = sem + 1
  /\ UNCHANGED <<resources, creator, detached, pc, target, expired>>

(* pte_osSemaphoreCancellablePend, with or without a timeout: poll the     *)
(* semaphore, then the clock, then the cancellation semaphore, then sleep. *)
PendCall(a) ==
  /\ a \in Pends /\ Free(a)
  /\ \E l \in {"pend_poll", "pend_poll_timed"} : Goto(a, l)
  /\ expired' = expired \ {a}
  /\ UNCHANGED <<resources, sem, creator, detached, target>>

PendPoll(a) ==
  /\ pc[a] \in {"pend_poll", "pend_poll_timed"}
  /\ IF sem > 0
       THEN sem' = sem - 1 /\ Goto(a, "run")
       ELSE /\ sem' = sem
            /\ Goto(a, IF pc[a] = "pend_poll" THEN "pend_cancel" ELSE "pend_clock")
  /\ UNCHANGED <<resources, creator, detached, target, expired>>

PendClockOnce(a) ==
  /\ pc[a] = "pend_clock"
  /\ Goto(a, "pend_cancel_timed")
  /\ UNCHANGED <<resources, sem, creator, detached, target, expired>>

PendClock(a) ==
  /\ pc[a] = "pend_clock"
  /\ Goto(a, IF a \in expired THEN "run" ELSE "pend_cancel_timed")
  /\ UNCHANGED <<resources, sem, creator, detached, target, expired>>

PendCancel(a) ==
  /\ pc[a] \in {"pend_cancel", "pend_cancel_timed"}
  /\ Goto(a, IF cancelSem[a] = None \/ Cancelled(a) THEN "run"
             ELSE IF pc[a] = "pend_cancel" THEN "pend_poll" ELSE "pend_poll_timed")
  /\ UNCHANGED <<resources, sem, creator, detached, target, expired>>

(* The timeout of a wait runs out. *)
Timeout(a) ==
  /\ pc[a] \in {"pend_poll_timed", "pend_clock", "pend_cancel_timed"}
  /\ a \notin expired
  /\ expired' = expired \cup {a}
  /\ UNCHANGED <<resources, sem, creator, detached, pc, target>>

-----------------------------------------------------------------------------
(* A step of a call that has begun. *)
Work(a) == CreateData(a) \/ CreateSema(a) \/ CreateThread(a)
           \/ WaitPoll(a) \/ WaitCancel(a)
           \/ DeleteSema(a) \/ DeleteMemory(a) \/ DeleteThread(a)
           \/ PendPoll(a) \/ PendClock(a) \/ PendCancel(a)

Next ==
  \/ \E a \in Actors : CreateCall(a) \/ Start(a) \/ Cancel(a) \/ WaitCall(a) \/ DeleteCall(a)
                       \/ Post(a) \/ PendCall(a) \/ Timeout(a) \/ Work(a)
  \/ \E t \in Threads : Exit(t) \/ ExitAndDelete(t)

(* Every thread that is in a call gets to run: the waits sleep between two *)
(* polls, so a waiter does not starve the thread it waits for.  Time       *)
(* passes.  Programs need not make calls.                                  *)
Fairness == \A a \in Actors : WF_vars(Work(a)) /\ WF_vars(Timeout(a))

Spec == Init /\ [][Next]_vars
FairSpec == Spec /\ Fairness

-----------------------------------------------------------------------------
Labels == {"run", "create_data", "create_sema", "create_thread", "wait_poll",
           "wait_cancel", "ended", "delete_sema", "delete_memory", "delete_thread",
           "pend_poll", "pend_poll_timed", "pend_clock", "pend_cancel",
           "pend_cancel_timed"}

(* The variables keep their types. *)
TypeOK ==
  /\ status \in [Actors -> {"none", "dormant", "running", "stopped"}]
  /\ tls \subseteq Actors /\ data \subseteq Actors
  /\ cancelSem \in [Actors -> 0 .. MaxCancel \cup {None}]
  /\ sem \in 0 .. MaxPosts
  /\ creator \in [Threads -> Actors \cup {None}]
  /\ detached \subseteq Threads
  /\ pc \in [Actors -> Labels] /\ target \in [Actors -> Threads \cup {None}]
  /\ expired \subseteq Actors

(* A thread that executes pthread code can use its TLS array, its control  *)
(* data and its semaphore: nothing it needs is freed under it, save by its *)
(* own pte_osThreadExitAndDelete.                                          *)
RunningHasData ==
  \A a \in Actors :
    Runs(a) /\ pc[a] \notin {"delete_memory", "delete_thread"} =>
      a \in tls /\ a \in data /\ cancelSem[a] # None

(* When nobody is creating or deleting a thread, the memory and the        *)
(* semaphores in use are those of the threads that exist: every error path *)
(* of pte_osThreadCreate frees what it allocated, and deletion frees all.  *)
InTransit == {target[a] : a \in {b \in Actors : pc[b] \in
                {"create_data", "create_sema", "create_thread", "delete_sema",
                 "delete_memory", "delete_thread"}}}
NothingLeaked ==
  \A t \in Threads \ InTransit :
    LET exists == status[t] # "none" IN
      (t \in tls <=> exists) /\ (t \in data <=> exists)
        /\ (cancelSem[t] # None <=> exists)

(* A thread that is cancelled while it waits, for a semaphore or for the   *)
(* end of a thread, leaves the wait.                                       *)
Waiting(a) == pc[a] \in {"wait_poll", "wait_cancel", "pend_poll", "pend_cancel"}
CancelEndsWait == \A a \in Actors : (Waiting(a) /\ Cancelled(a)) ~> ~Waiting(a)

(* A wait for a thread that has ended is over. *)
EndIsNoticed ==
  \A a \in Actors : (pc[a] = "wait_poll" /\ status[target[a]] = "stopped")
                      ~> (pc[a] \notin {"wait_poll", "wait_cancel"})

(* A wait with a timeout ends. *)
TimedPendEnds ==
  \A a \in Actors : (pc[a] = "pend_poll_timed") ~> (pc[a] = "run")
=============================================================================
