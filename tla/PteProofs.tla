------------------------------ MODULE PteProofs ------------------------------
(* Proofs about the two modules of libpthreadglue: about PteTls, for any   *)
(* number of threads, keys and values, and about PteOsal, for any number   *)
(* of threads, and for cancellation and user semaphores of any maximum.    *)
EXTENDS PteTls, PteOsal, TLAPS

-----------------------------------------------------------------------------
(* Thread-local storage. *)
(* __globalTlsLock is held exactly by the thread inside a key call, and a  *)
(* key about to be taken is still unused.                                  *)
LockInv ==
  \A t \in Users :
    /\ stage[t] # "idle" <=> globalTlsLock = t
    /\ stage[t] \in {"take", "taken", "free", "freed"} => key[t] \in Keys
    /\ stage[t] = "take" => keysUsed[key[t]] = 0

TlsInv == TlsTypeOK /\ LockInv /\ KeyHasOneOwner

LEMMA TlsTypeStep == TlsTypeOK /\ LockInv /\ [TlsNext]_tlsVars => TlsTypeOK'
<1>. SUFFICES ASSUME TlsTypeOK, LockInv, [TlsNext]_tlsVars PROVE TlsTypeOK'
  OBVIOUS
<1>. USE PteTlsAssumption DEF TlsTypeOK, LockInv, TlsGoto, table, Keys
<1>0. CASE UNCHANGED tlsVars
  BY <1>0 DEF tlsVars
<1>. SUFFICES ASSUME NEW t \in Users,
                     ThreadInit(t) \/ ThreadDestroy(t) \/ AllocLock(t)
                       \/ FreeLock(t) \/ SetValue(t) \/ TlsStep(t)
              PROVE  TlsTypeOK'
  BY <1>0 DEF TlsNext
<1>1. CASE ThreadInit(t) BY <1>1 DEF ThreadInit
<1>2. CASE ThreadDestroy(t) BY <1>2 DEF ThreadDestroy
<1>3. CASE AllocLock(t) BY <1>3 DEF AllocLock
<1>4. CASE FreeLock(t) BY <1>4 DEF FreeLock
<1>5. CASE SetValue(t) BY <1>5 DEF SetValue
<1>6. CASE AllocScan(t)
  <2>1. stage[t] = "scan" /\ UNCHANGED <<keysUsed, globalTlsLock, table>>
    BY <1>6 DEF AllocScan
  <2>2. CASE key' = key /\ (TlsGoto(t, "take") \/ TlsGoto(t, "none"))
    <3>1. stage' \in [Users -> {"idle", "scan", "take", "taken", "none", "free", "freed"}]
      BY <2>2
    <3>. QED BY <2>1, <2>2, <3>1
  <2>3. CASE key[t] \in Keys /\ key' = [key EXCEPT ![t] = @ + 1] /\ stage' = stage
    BY <2>1, <2>3
  <2>. QED BY <1>6, <2>2, <2>3 DEF AllocScan
<1>7. CASE AllocTake(t) BY <1>7 DEF AllocTake
<1>8. CASE AllocReturn(t)
  <2>1. key[t] \in Keys BY <1>8 DEF AllocReturn
  <2>2. expected' \in [Users -> [Keys -> Values \cup {Zero}]]
    BY <1>8, <2>1 DEF AllocReturn
  <2>3. stage' \in [Users -> {"idle", "scan", "take", "taken", "none", "free", "freed"}]
    BY <1>8 DEF AllocReturn
  <2>. QED BY <1>8, <2>1, <2>2, <2>3 DEF AllocReturn
<1>9. CASE AllocNone(t) BY <1>9 DEF AllocNone
<1>10. CASE FreeClear(t) BY <1>10 DEF FreeClear
<1>11. CASE FreeUnlock(t) BY <1>11 DEF FreeUnlock
<1>. QED BY <1>1, <1>2, <1>3, <1>4, <1>5, <1>6, <1>7, <1>8, <1>9,
            <1>10, <1>11 DEF TlsStep

LEMMA LockStep == TlsTypeOK /\ LockInv /\ KeyHasOneOwner /\ [TlsNext]_tlsVars => LockInv'
<1>. SUFFICES ASSUME TlsTypeOK, LockInv, KeyHasOneOwner, [TlsNext]_tlsVars PROVE LockInv'
  OBVIOUS
<1>. USE PteTlsAssumption DEF TlsTypeOK, LockInv, TlsGoto, table
<1>0. CASE UNCHANGED tlsVars
  BY <1>0 DEF tlsVars
<1>. SUFFICES ASSUME NEW t \in Users,
                     ThreadInit(t) \/ ThreadDestroy(t) \/ AllocLock(t)
                       \/ FreeLock(t) \/ SetValue(t) \/ TlsStep(t)
              PROVE  LockInv'
  BY <1>0 DEF TlsNext
<1>1. CASE ThreadInit(t) BY <1>1 DEF ThreadInit
<1>2. CASE ThreadDestroy(t) BY <1>2 DEF ThreadDestroy
<1>3. CASE AllocLock(t) BY <1>3 DEF AllocLock
<1>4. CASE FreeLock(t) BY <1>4 DEF FreeLock
<1>5. CASE SetValue(t) BY <1>5 DEF SetValue
<1>6. CASE AllocScan(t) BY <1>6 DEF AllocScan
<1>7. CASE AllocTake(t) BY <1>7 DEF AllocTake
<1>8. CASE AllocReturn(t) BY <1>8 DEF AllocReturn
<1>9. CASE AllocNone(t) BY <1>9 DEF AllocNone
<1>10. CASE FreeClear(t) BY <1>10 DEF FreeClear
<1>11. CASE FreeUnlock(t) BY <1>11 DEF FreeUnlock
<1>. QED BY <1>1, <1>2, <1>3, <1>4, <1>5, <1>6, <1>7, <1>8, <1>9,
            <1>10, <1>11 DEF TlsStep

LEMMA OwnerStep ==
  TlsTypeOK /\ LockInv /\ KeyHasOneOwner /\ [TlsNext]_tlsVars => KeyHasOneOwner'
<1>. SUFFICES ASSUME TlsTypeOK, LockInv, KeyHasOneOwner, [TlsNext]_tlsVars
              PROVE  KeyHasOneOwner'
  OBVIOUS
<1>. USE PteTlsAssumption DEF TlsTypeOK, LockInv, KeyHasOneOwner, Claims, TlsGoto, table
<1>0. CASE UNCHANGED tlsVars
  BY <1>0 DEF tlsVars
<1>. SUFFICES ASSUME NEW t \in Users,
                     ThreadInit(t) \/ ThreadDestroy(t) \/ AllocLock(t)
                       \/ FreeLock(t) \/ SetValue(t) \/ TlsStep(t)
              PROVE  KeyHasOneOwner'
  BY <1>0 DEF TlsNext
<1>1. CASE ThreadInit(t) BY <1>1 DEF ThreadInit
<1>2. CASE ThreadDestroy(t) BY <1>2 DEF ThreadDestroy
<1>3. CASE AllocLock(t) BY <1>3 DEF AllocLock
<1>4. CASE FreeLock(t) BY <1>4 DEF FreeLock
<1>5. CASE SetValue(t) BY <1>5 DEF SetValue
<1>6. CASE AllocScan(t)
  <2>1. stage[t] = "scan" /\ UNCHANGED <<keysUsed, globalTlsLock, table>>
    BY <1>6 DEF AllocScan
  <2>2. CASE key' = key /\ TlsGoto(t, "take")
    BY <2>1, <2>2
  <2>4. CASE key' = key /\ TlsGoto(t, "none")
    BY <2>1, <2>4
  <2>3. CASE key[t] \in Keys /\ key' = [key EXCEPT ![t] = @ + 1] /\ stage' = stage
    BY <2>1, <2>3
  <2>. QED BY <1>6, <2>2, <2>3, <2>4 DEF AllocScan
<1>7. CASE AllocTake(t) BY <1>7 DEF AllocTake
<1>8. CASE AllocReturn(t) BY <1>8 DEF AllocReturn
<1>9. CASE AllocNone(t) BY <1>9 DEF AllocNone
<1>10. CASE FreeClear(t) BY <1>10 DEF FreeClear
<1>11. CASE FreeUnlock(t) BY <1>11 DEF FreeUnlock
<1>. QED BY <1>1, <1>2, <1>3, <1>4, <1>5, <1>6, <1>7, <1>8, <1>9,
            <1>10, <1>11 DEF TlsStep

(* At any number of threads a key in use belongs to the program or to one  *)
(* call in flight: __pteTlsAlloc never hands a key out twice, because the  *)
(* test and the store are under __globalTlsLock.                           *)
THEOREM KeysHaveOneOwner == TlsSpec => []KeyHasOneOwner
<1>1. TlsInit => TlsInv
  BY PteTlsAssumption DEF TlsInit, TlsInv, TlsTypeOK, LockInv, KeyHasOneOwner, Claims, Keys
<1>2. TlsInv /\ [TlsNext]_tlsVars => TlsInv'
  BY TlsTypeStep, LockStep, OwnerStep DEF TlsInv
<1>3. TlsInv => KeyHasOneOwner
  BY DEF TlsInv
<1>. QED BY <1>1, <1>2, <1>3, PTL DEF TlsSpec

(* What the theorem about values needs beside KeyHasOneOwner: the arrays   *)
(* agree with the program's view on the keys that were never freed, and    *)
(* hold 0 under those that the program does not have yet.                  *)
FreshInv ==
  \A t \in alive, k \in fresh :
    /\ values[t][k] = expected[t][k]
    /\ k \notin given => values[t][k] = Zero

LEMMA FreshStep == TlsInv /\ FreshInv /\ [TlsNext]_tlsVars => FreshInv'
<1>. SUFFICES ASSUME TlsInv, FreshInv, [TlsNext]_tlsVars PROVE FreshInv'
  OBVIOUS
<1>. USE PteTlsAssumption DEF TlsInv, TlsTypeOK, FreshInv, table
<1>0. CASE UNCHANGED tlsVars
  BY <1>0 DEF tlsVars
<1>. SUFFICES ASSUME NEW t \in Users,
                     ThreadInit(t) \/ ThreadDestroy(t) \/ AllocLock(t)
                       \/ FreeLock(t) \/ SetValue(t) \/ TlsStep(t)
              PROVE  FreshInv'
  BY <1>0 DEF TlsNext
<1>1. CASE ThreadInit(t) BY <1>1 DEF ThreadInit
<1>2. CASE ThreadDestroy(t) BY <1>2 DEF ThreadDestroy
<1>3. CASE AllocLock(t) BY <1>3 DEF AllocLock
<1>4. CASE FreeLock(t) BY <1>4 DEF FreeLock
<1>5. CASE SetValue(t) BY <1>5 DEF SetValue
<1>6. CASE AllocScan(t) BY <1>6 DEF AllocScan
<1>7. CASE AllocTake(t) BY <1>7 DEF AllocTake
<1>8. CASE AllocReturn(t) BY <1>8 DEF AllocReturn, LockInv, KeyHasOneOwner, Claims
<1>9. CASE AllocNone(t) BY <1>9 DEF AllocNone
<1>10. CASE FreeClear(t) BY <1>10 DEF FreeClear
<1>11. CASE FreeUnlock(t) BY <1>11 DEF FreeUnlock
<1>. QED BY <1>1, <1>2, <1>3, <1>4, <1>5, <1>6, <1>7, <1>8, <1>9,
            <1>10, <1>11 DEF TlsStep

(* Under a key that was never freed a thread reads 0 or what it stored:    *)
(* pteTlsThreadInit clears the array, only the owner of an array writes to *)
(* it, and only under keys the program holds.                              *)
THEOREM NewKeysReadOwn == TlsSpec => []NewKeyReadsOwn
<1>1. TlsInit => TlsInv /\ FreshInv
  BY PteTlsAssumption
     DEF TlsInit, TlsInv, FreshInv, TlsTypeOK, LockInv, KeyHasOneOwner, Claims, Keys
<1>2. TlsInv /\ FreshInv /\ [TlsNext]_tlsVars => TlsInv' /\ FreshInv'
  BY TlsTypeStep, LockStep, OwnerStep, FreshStep DEF TlsInv
<1>3. TlsInv /\ FreshInv => NewKeyReadsOwn
  BY DEF TlsInv, FreshInv, NewKeyReadsOwn, GetValue, KeyHasOneOwner
<1>. QED BY <1>1, <1>2, <1>3, PTL DEF TlsSpec

-----------------------------------------------------------------------------
(* Threads and cancellation. *)
Creating == {"create_data", "create_sema", "create_thread"}
Joining == {"wait_poll", "wait_cancel", "ended"}
Deleting == {"delete_sema", "delete_memory", "delete_thread"}

(* The thread a call works on.  A creation has marked it with its creator  *)
(* and no kernel thread exists yet; a join is the creator's, of a thread   *)
(* that will not delete itself; a deletion is the creator's, of a thread   *)
(* that has stopped, or the thread's own.                                  *)
Works(a) ==
  LET t == target[a] IN
    /\ pc[a] # "run" => Runs(a)
    /\ pc[a] \in Creating \cup Joining \cup Deleting => t \in Threads
    /\ pc[a] \in Creating => creator[t] = a /\ status[t] = "none"
    /\ pc[a] \in Joining =>
         creator[t] = a /\ t \notin detached /\ status[t] \in {"running", "stopped"}
    /\ pc[a] = "ended" => status[t] = "stopped"
    /\ pc[a] \in Deleting =>
         \/ t = a /\ a \in detached
         \/ creator[t] = a /\ t \notin detached /\ status[t] = "stopped"

(* How far a creation or a deletion has got with the memory and the        *)
(* semaphore of its thread.                                                *)
Progress(a) ==
  LET t == target[a] IN
    /\ pc[a] \in Creating \cup {"delete_sema", "delete_memory"} => t \in tls
    /\ pc[a] \in {"create_sema", "create_thread", "delete_sema", "delete_memory"} =>
         t \in data
    /\ pc[a] \in {"create_thread", "delete_sema"} => cancelSem[t] # None
    /\ pc[a] \in {"create_data", "create_sema", "delete_memory", "delete_thread"} =>
         cancelSem[t] = None
    /\ pc[a] \in {"create_data", "delete_thread"} => t \notin data
    /\ pc[a] = "delete_thread" => t \notin tls

(* A thread that no creation and no deletion works on has all its          *)
(* resources, or none.                                                     *)
Complete(t) ==
  LET exists == status[t] # "none" IN
    (t \in tls <=> exists) /\ (t \in data <=> exists) /\ (cancelSem[t] # None <=> exists)
Settled(t) == \A a \in Actors : pc[a] \in Creating \cup Deleting => target[a] # t

(* The non-POSIX thread is nobody's target. *)
MainInv == Main \in tls /\ Main \in data /\ cancelSem[Main] # None

IInv ==
  /\ TypeOK
  /\ \A a \in Actors : Works(a) /\ Progress(a)
  /\ \A t \in Threads : Settled(t) => Complete(t)
  /\ MainInv

(* The types, for which a call must know its thread. *)
LEMMA TypeStep == IInv /\ Next => TypeOK'
<1>. SUFFICES ASSUME IInv, Next PROVE TypeOK'
  OBVIOUS
<1>. USE PteOsalAssumption DEF IInv, TypeOK, Actors, Goto, Free, Runs, resources, Works, Labels, Creating, Joining, Deleting, Cancelled
<1>a. ASSUME NEW a \in Actors,
             CreateCall(a) \/ Start(a) \/ Cancel(a) \/ WaitCall(a) \/ DeleteCall(a)
               \/ Post(a) \/ PendCall(a) \/ Timeout(a) \/ Work(a)
      PROVE TypeOK'
  <2>1. CASE CreateCall(a) BY <2>1 DEF CreateCall
  <2>2. CASE Start(a) BY <2>2 DEF Start
  <2>3. CASE Cancel(a) BY <2>3 DEF Cancel
  <2>4. CASE WaitCall(a) BY <2>4 DEF WaitCall
  <2>5. CASE DeleteCall(a) BY <2>5 DEF DeleteCall
  <2>6. CASE Post(a) BY <2>6 DEF Post
  <2>7. CASE PendCall(a) BY <2>7 DEF PendCall
  <2>8. CASE Timeout(a) BY <2>8 DEF Timeout
  <2>9. CASE CreateData(a) BY <2>9 DEF CreateData, Abandon
  <2>10. CASE CreateSema(a) BY <2>10 DEF CreateSema, Abandon
  <2>11. CASE CreateThread(a) BY <2>11 DEF CreateThread, Abandon
  <2>12. CASE WaitPoll(a) BY <2>12 DEF WaitPoll
  <2>13. CASE WaitCancel(a) BY <2>13 DEF WaitCancel
  <2>14. CASE DeleteSema(a) BY <2>14 DEF DeleteSema
  <2>15. CASE DeleteMemory(a) BY <2>15 DEF DeleteMemory
  <2>16. CASE DeleteThread(a) BY <2>16 DEF DeleteThread
  <2>17. CASE PendPoll(a) BY <2>17 DEF PendPoll
  <2>18. CASE PendClock(a) BY <2>18 DEF PendClock
  <2>19. CASE PendCancel(a) BY <2>19 DEF PendCancel
  <2>. QED BY <1>a, <2>1, <2>2, <2>3, <2>4, <2>5, <2>6, <2>7, <2>8, <2>9, <2>10, <2>11, <2>12, <2>13, <2>14, <2>15, <2>16, <2>17, <2>18, <2>19 DEF Work
<1>b. ASSUME NEW t \in Threads, Exit(t) \/ ExitAndDelete(t) PROVE TypeOK'
  <2>1. CASE Exit(t) BY <2>1 DEF Exit
  <2>2. CASE ExitAndDelete(t) BY <2>2 DEF ExitAndDelete
  <2>. QED BY <1>b, <2>1, <2>2
<1>. QED BY <1>a, <1>b DEF Next

(* No step of one actor takes the thread of another's call away. *)
LEMMA WorksStep == IInv /\ Next => \A b \in Actors : Works(b)'
<1>. SUFFICES ASSUME IInv, Next, NEW b \in Actors PROVE Works(b)'
  OBVIOUS
<1>. USE PteOsalAssumption DEF IInv, TypeOK, Actors, Goto, Free, Runs, resources, Works, Creating, Joining, Deleting
<1>a. ASSUME NEW a \in Actors,
             CreateCall(a) \/ Start(a) \/ Cancel(a) \/ WaitCall(a) \/ DeleteCall(a)
               \/ Post(a) \/ PendCall(a) \/ Timeout(a) \/ Work(a)
      PROVE Works(b)'
  <2>1. CASE CreateCall(a) BY <2>1 DEF CreateCall
  <2>2. CASE Start(a) BY <2>2 DEF Start
  <2>3. CASE Cancel(a) BY <2>3 DEF Cancel
  <2>4. CASE WaitCall(a) BY <2>4 DEF WaitCall
  <2>5. CASE DeleteCall(a) BY <2>5 DEF DeleteCall
  <2>6. CASE Post(a) BY <2>6 DEF Post
  <2>7. CASE PendCall(a) BY <2>7 DEF PendCall
  <2>8. CASE Timeout(a) BY <2>8 DEF Timeout
  <2>9. CASE CreateData(a) BY <2>9 DEF CreateData, Abandon
  <2>10. CASE CreateSema(a) BY <2>10 DEF CreateSema, Abandon
  <2>11. CASE CreateThread(a) BY <2>11 DEF CreateThread, Abandon
  <2>12. CASE WaitPoll(a) BY <2>12 DEF WaitPoll
  <2>13. CASE WaitCancel(a) BY <2>13 DEF WaitCancel
  <2>14. CASE DeleteSema(a) BY <2>14 DEF DeleteSema
  <2>15. CASE DeleteMemory(a) BY <2>15 DEF DeleteMemory
  <2>16. CASE DeleteThread(a) BY <2>16 DEF DeleteThread
  <2>17. CASE PendPoll(a) BY <2>17 DEF PendPoll
  <2>18. CASE PendClock(a) BY <2>18 DEF PendClock
  <2>19. CASE PendCancel(a) BY <2>19 DEF PendCancel
  <2>. QED BY <1>a, <2>1, <2>2, <2>3, <2>4, <2>5, <2>6, <2>7, <2>8, <2>9, <2>10, <2>11, <2>12, <2>13, <2>14, <2>15, <2>16, <2>17, <2>18, <2>19 DEF Work
<1>b. ASSUME NEW t \in Threads, Exit(t) \/ ExitAndDelete(t) PROVE Works(b)'
  <2>1. CASE Exit(t) BY <2>1 DEF Exit
  <2>2. CASE ExitAndDelete(t) BY <2>2 DEF ExitAndDelete
  <2>. QED BY <1>b, <2>1, <2>2
<1>. QED BY <1>a, <1>b DEF Next

(* Nor does it touch that thread's memory and semaphore. *)
LEMMA ProgressStep == IInv /\ Next => \A b \in Actors : Progress(b)'
<1>. SUFFICES ASSUME IInv, Next, NEW b \in Actors PROVE Progress(b)'
  OBVIOUS
<1>. USE PteOsalAssumption DEF IInv, TypeOK, Actors, Goto, Free, Runs, resources, Works, Progress, Creating, Joining, Deleting
<1>a. ASSUME NEW a \in Actors,
             CreateCall(a) \/ Start(a) \/ Cancel(a) \/ WaitCall(a) \/ DeleteCall(a)
               \/ Post(a) \/ PendCall(a) \/ Timeout(a) \/ Work(a)
      PROVE Progress(b)'
  <2>1. CASE CreateCall(a)
    <3>1. PICK t \in Threads :
            /\ status[t] = "none" /\ creator[t] = None
            /\ target' = [target EXCEPT ![a] = t] /\ tls' = tls \cup {t}
      BY <2>1 DEF CreateCall
    <3>2. Complete(t) BY <3>1 DEF Settled
    <3>. QED BY <2>1, <3>1, <3>2 DEF CreateCall, Complete
  <2>2. CASE Start(a) BY <2>2 DEF Start
  <2>3. CASE Cancel(a) BY <2>3 DEF Cancel
  <2>4. CASE WaitCall(a) BY <2>4 DEF WaitCall
  <2>5. CASE DeleteCall(a)
    <3>1. pc[a] = "ended" /\ target[a] \in Threads /\ status[target[a]] = "stopped"
      BY <2>5 DEF DeleteCall
    <3>2. Complete(target[a])
      <4>1. ASSUME NEW c \in Actors, pc[c] \in Creating \cup Deleting, target[c] = target[a]
            PROVE  FALSE
        BY <3>1, <4>1
      <4>. QED BY <3>1, <4>1 DEF Settled
    <3>. QED BY <2>5, <3>1, <3>2 DEF DeleteCall, Complete
  <2>6. CASE Post(a) BY <2>6 DEF Post
  <2>7. CASE PendCall(a) BY <2>7 DEF PendCall
  <2>8. CASE Timeout(a) BY <2>8 DEF Timeout
  <2>9. CASE CreateData(a) BY <2>9 DEF CreateData, Abandon
  <2>10. CASE CreateSema(a) BY <2>10 DEF CreateSema, Abandon
  <2>11. CASE CreateThread(a) BY <2>11 DEF CreateThread, Abandon
  <2>12. CASE WaitPoll(a) BY <2>12 DEF WaitPoll
  <2>13. CASE WaitCancel(a) BY <2>13 DEF WaitCancel
  <2>14. CASE DeleteSema(a) BY <2>14 DEF DeleteSema
  <2>15. CASE DeleteMemory(a) BY <2>15 DEF DeleteMemory
  <2>16. CASE DeleteThread(a) BY <2>16 DEF DeleteThread
  <2>17. CASE PendPoll(a) BY <2>17 DEF PendPoll
  <2>18. CASE PendClock(a) BY <2>18 DEF PendClock
  <2>19. CASE PendCancel(a) BY <2>19 DEF PendCancel
  <2>. QED BY <1>a, <2>1, <2>2, <2>3, <2>4, <2>5, <2>6, <2>7, <2>8, <2>9, <2>10, <2>11, <2>12, <2>13, <2>14, <2>15, <2>16, <2>17, <2>18, <2>19 DEF Work
<1>b. ASSUME NEW t \in Threads, Exit(t) \/ ExitAndDelete(t) PROVE Progress(b)'
  <2>1. CASE Exit(t) BY <2>1 DEF Exit
  <2>2. CASE ExitAndDelete(t)
    <3>1. Free(t) /\ t \in detached BY <2>2 DEF ExitAndDelete
    <3>2. Complete(t)
      <4>1. ASSUME NEW c \in Actors, pc[c] \in Creating \cup Deleting, target[c] = t
            PROVE  FALSE
        BY <3>1, <4>1
      <4>. QED BY <4>1 DEF Settled
    <3>. QED BY <2>2, <3>1, <3>2 DEF ExitAndDelete, Complete
  <2>. QED BY <1>b, <2>1, <2>2
<1>. QED BY <1>a, <1>b DEF Next

(* A creation or a deletion that ends leaves all the resources or none. *)
LEMMA SettledStep == IInv /\ Next => \A u \in Threads : Settled(u)' => Complete(u)'
<1>. SUFFICES ASSUME IInv, Next, NEW u \in Threads, Settled(u)' PROVE Complete(u)'
  OBVIOUS
<1>. USE PteOsalAssumption DEF IInv, TypeOK, Actors, Goto, Free, Runs, resources, Works, Progress, Settled, Complete, Creating, Joining, Deleting
<1>a. ASSUME NEW a \in Actors,
             CreateCall(a) \/ Start(a) \/ Cancel(a) \/ WaitCall(a) \/ DeleteCall(a)
               \/ Post(a) \/ PendCall(a) \/ Timeout(a) \/ Work(a)
      PROVE Complete(u)'
  <2>1. CASE CreateCall(a) BY <2>1 DEF CreateCall
  <2>2. CASE Start(a) BY <2>2 DEF Start
  <2>3. CASE Cancel(a) BY <2>3 DEF Cancel
  <2>4. CASE WaitCall(a) BY <2>4 DEF WaitCall
  <2>5. CASE DeleteCall(a) BY <2>5 DEF DeleteCall
  <2>6. CASE Post(a) BY <2>6 DEF Post
  <2>7. CASE PendCall(a) BY <2>7 DEF PendCall
  <2>8. CASE Timeout(a) BY <2>8 DEF Timeout
  <2>9. CASE CreateData(a) BY <2>9 DEF CreateData, Abandon
  <2>10. CASE CreateSema(a) BY <2>10 DEF CreateSema, Abandon
  <2>11. CASE CreateThread(a) BY <2>11 DEF CreateThread, Abandon
  <2>12. CASE WaitPoll(a) BY <2>12 DEF WaitPoll
  <2>13. CASE WaitCancel(a) BY <2>13 DEF WaitCancel
  <2>14. CASE DeleteSema(a) BY <2>14 DEF DeleteSema
  <2>15. CASE DeleteMemory(a) BY <2>15 DEF DeleteMemory
  <2>16. CASE DeleteThread(a) BY <2>16 DEF DeleteThread
  <2>17. CASE PendPoll(a) BY <2>17 DEF PendPoll
  <2>18. CASE PendClock(a) BY <2>18 DEF PendClock
  <2>19. CASE PendCancel(a) BY <2>19 DEF PendCancel
  <2>. QED BY <1>a, <2>1, <2>2, <2>3, <2>4, <2>5, <2>6, <2>7, <2>8, <2>9, <2>10, <2>11, <2>12, <2>13, <2>14, <2>15, <2>16, <2>17, <2>18, <2>19 DEF Work
<1>b. ASSUME NEW t \in Threads, Exit(t) \/ ExitAndDelete(t) PROVE Complete(u)'
  <2>1. CASE Exit(t) BY <2>1 DEF Exit
  <2>2. CASE ExitAndDelete(t) BY <2>2 DEF ExitAndDelete
  <2>. QED BY <1>b, <2>1, <2>2
<1>. QED BY <1>a, <1>b DEF Next

LEMMA IInvStep == IInv /\ [Next]_vars => IInv'
<1>. SUFFICES ASSUME IInv, [Next]_vars PROVE IInv'
  OBVIOUS
<1>1. CASE UNCHANGED vars
  BY <1>1 DEF vars, IInv, TypeOK, Works, Progress, Settled, Complete, MainInv, Runs
<1>2. CASE Next
  <2>1. MainInv'
    <3>. USE PteOsalAssumption DEF IInv, TypeOK, MainInv, Works, Actors, resources,
               Creating, Joining, Deleting
    <3>1. ASSUME NEW t \in Threads PROVE t # Main
      OBVIOUS
    <3>2. CASE \E a \in Actors : CreateCall(a) \/ Start(a) \/ Cancel(a) \/ WaitCall(a)
                 \/ DeleteCall(a) \/ Post(a) \/ PendCall(a) \/ Timeout(a)
      BY <3>1, <3>2 DEF CreateCall, Start, Cancel, WaitCall, DeleteCall, Post, PendCall, Timeout
    <3>3. CASE \E a \in Actors : CreateData(a) \/ CreateSema(a) \/ CreateThread(a)
      BY <3>1, <3>3 DEF CreateData, CreateSema, CreateThread, Abandon
    <3>4. CASE \E a \in Actors : DeleteSema(a) \/ DeleteMemory(a) \/ DeleteThread(a)
      BY <3>1, <3>4 DEF DeleteSema, DeleteMemory, DeleteThread
    <3>5. CASE \E a \in Actors : WaitPoll(a) \/ WaitCancel(a) \/ PendPoll(a)
                 \/ PendClock(a) \/ PendCancel(a)
      BY <3>5 DEF WaitPoll, WaitCancel, PendPoll, PendClock, PendCancel
    <3>6. CASE \E t \in Threads : Exit(t) \/ ExitAndDelete(t)
      BY <3>6 DEF Exit, ExitAndDelete
    <3>. QED BY <1>2, <3>2, <3>3, <3>4, <3>5, <3>6 DEF Next, Work
  <2>. QED BY <1>2, <2>1, TypeStep, WorksStep, ProgressStep, SettledStep DEF IInv
<1>. QED BY <1>1, <1>2

LEMMA IInvInit == Init => IInv
<1>. SUFFICES ASSUME Init PROVE IInv
  OBVIOUS
<1>. USE PteOsalAssumption DEF Init, Actors, Creating, Joining, Deleting
<1>1. TypeOK BY DEF TypeOK, Labels
<1>2. \A a \in Actors : Works(a) /\ Progress(a) BY DEF Works, Progress
<1>3. \A t \in Threads : Settled(t) => Complete(t) BY DEF Settled, Complete
<1>4. MainInv BY DEF MainInv
<1>. QED BY <1>1, <1>2, <1>3, <1>4 DEF IInv

(* What a thread uses while it runs pthread code is not freed under it. *)
LEMMA IInvRunning == IInv => RunningHasData
<1>. SUFFICES ASSUME IInv, NEW a \in Actors, Runs(a),
                     pc[a] \notin {"delete_memory", "delete_thread"}
              PROVE  a \in tls /\ a \in data /\ cancelSem[a] # None
  BY DEF RunningHasData
<1>. USE PteOsalAssumption DEF IInv, TypeOK
<1>1. CASE a = Main BY <1>1 DEF MainInv
<1>2. CASE a \in Threads /\ Settled(a) BY <1>2 DEF Complete, Runs
<1>3. CASE a \in Threads /\ ~Settled(a)
  <2>1. PICK b \in Actors : pc[b] \in Creating \cup Deleting /\ target[b] = a
    BY <1>3 DEF Settled
  <2>2. b = a /\ pc[a] = "delete_sema"
    BY <2>1 DEF Works, Runs, Creating, Deleting
  <2>. QED BY <2>1, <2>2 DEF Progress
<1>. QED BY <1>1, <1>2, <1>3 DEF Actors

LEMMA IInvNothingLeaked == IInv => NothingLeaked
<1>. SUFFICES ASSUME IInv, NEW t \in Threads \ InTransit PROVE Complete(t)
  BY DEF NothingLeaked, Complete
<1>1. Settled(t) BY DEF Settled, InTransit, Creating, Deleting
<1>. QED BY <1>1 DEF IInv

LEMMA Invariance == Spec => []IInv
BY IInvInit, IInvStep, PTL DEF Spec

(* The variables of the thread layer keep their types, in particular a     *)
(* cancellation semaphore never goes beyond its maximum.                   *)
THEOREM TypeCorrect == Spec => []TypeOK
<1>1. IInv => TypeOK BY DEF IInv
<1>. QED BY <1>1, Invariance, PTL

(* No pte_osThreadDelete, of whichever thread, and no error path of        *)
(* pte_osThreadCreate frees the TLS array, the control data or the         *)
(* cancellation semaphore of a thread that runs pthread code.              *)
THEOREM RunningKeepsData == Spec => []RunningHasData
BY Invariance, IInvRunning, PTL

(* When no creation and no deletion of a thread is under way, its memory   *)
(* and its semaphore exist exactly when the kernel thread does.            *)
THEOREM ThreadsLeakNothing == Spec => []NothingLeaked
BY Invariance, IInvNothingLeaked, PTL
============================================================================
