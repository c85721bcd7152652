------------------------------- MODULE PteTls -------------------------------
(***************************************************************************)
(* Thread-local storage for pthreads (libpthreadglue/tls-helper.c): a      *)
(* table of used keys guarded by __globalTlsLock, and per thread an array  *)
(* of values that the thread reads and writes without the lock.            *)
(***************************************************************************)
EXTENDS Integers, FiniteSets

CONSTANTS
  Users,      \* the threads, the one non-POSIX thread among them
  MaxTls,     \* PSP_MAX_TLS, the number of keys
  Values,     \* the pointers a program stores
  Zero,       \* the null pointer
  Nobody      \* the owner of a free lock

Keys == 1 .. MaxTls

ASSUME PteTlsAssumption ==
  /\ MaxTls \in Nat
  /\ Zero \notin Values /\ Nobody \notin Users

VARIABLES
  keysUsed,      \* [Keys -> {0, 1}]
  globalTlsLock, \* the thread that holds __globalTlsLock
  stage, key,    \* where a thread is in __pteTlsAlloc or pteTlsFree, its i + 1
  alive,         \* the threads that have a TLS array
  values,        \* [Users -> [Keys -> Values \cup {Zero}]]
  given,         \* the keys the program holds
  fresh,         \* history: the keys that were never freed
  expected       \* history: what a thread last stored under a key it holds

tlsVars ==
  <<keysUsed, globalTlsLock, stage, key, alive, values, given, fresh, expected>>
table == <<alive, values, given, fresh, expected>>

TlsInit ==
  /\ keysUsed = [k \in Keys |-> 0]
  /\ globalTlsLock = Nobody
  /\ stage = [t \in Users |-> "idle"]
  /\ key = [t \in Users |-> 1]
  /\ alive = {}
  /\ values = [t \in Users |-> [k \in Keys |-> Zero]]
  /\ given = {} /\ fresh = Keys
  /\ expected = [t \in Users |-> [k \in Keys |-> Zero]]

TlsGoto(t, l) == stage' = [stage EXCEPT ![t] = l]

-----------------------------------------------------------------------------
(* pteTlsThreadInit, when the thread is created: every value is 0. *)
ThreadInitDirty(t) ==
  /\ t \notin alive
  /\ alive' = alive \cup {t}
  /\ expected' = [expected EXCEPT ![t] = [k \in Keys |-> Zero]]
  /\ UNCHANGED <<keysUsed, globalTlsLock, stage, key, values, given, fresh>>

ThreadInit(t) ==
  /\ t \notin alive
  /\ alive' = alive \cup {t}
  /\ values' = [values EXCEPT ![t] = [k \in Keys |-> Zero]]
  /\ expected' = [expected EXCEPT ![t] = [k \in Keys |-> Zero]]
  /\ UNCHANGED <<keysUsed, globalTlsLock, stage, key, given, fresh>>

(* pteTlsThreadDestroy; malloc may hand the array to another thread later. *)
ThreadDestroy(t) ==
  /\ t \in alive /\ stage[t] = "idle"
  /\ alive' = alive \ {t}
  /\ UNCHANGED <<keysUsed, globalTlsLock, stage, key, values, given, fresh, expected>>

(* __pteTlsAlloc: find the first key that is not used. *)
AllocLockNoWait(t) ==
  /\ t \in alive /\ stage[t] = "idle"
  /\ globalTlsLock' = t
  /\ key' = [key EXCEPT ![t] = 1]
  /\ TlsGoto(t, "scan")
  /\ UNCHANGED <<keysUsed, table>>

AllocLock(t) ==
  /\ t \in alive /\ stage[t] = "idle"
  /\ globalTlsLock = Nobody
  /\ globalTlsLock' = t
  /\ key' = [key EXCEPT ![t] = 1]
  /\ TlsGoto(t, "scan")
  /\ UNCHANGED <<keysUsed, table>>

AllocScan(t) ==
  /\ stage[t] = "scan"
  /\ \/ /\ key[t] \in Keys /\ keysUsed[key[t]] = 0
        /\ TlsGoto(t, "take")
        /\ key' = key
     \/ /\ key[t] \in Keys /\ keysUsed[key[t]] # 0
        /\ key' = [key EXCEPT ![t] = @ + 1]
        /\ stage' = stage
     \/ /\ key[t] = MaxTls + 1
        /\ TlsGoto(t, "none")
        /\ key' = key
  /\ UNCHANGED <<keysUsed, globalTlsLock, table>>

AllocTake(t) ==
  /\ stage[t] = "take"
  /\ keysUsed' = [keysUsed EXCEPT ![key[t]] = 1]
  /\ TlsGoto(t, "taken")
  /\ UNCHANGED <<globalTlsLock, key, table>>

(* Unlock and return: the key is the program's, and reads as 0 so far. *)
AllocReturn(t) ==
  /\ stage[t] = "taken"
  /\ globalTlsLock' = Nobody
  /\ given' = given \cup {key[t]}
  /\ expected' = [u \in Users |-> [expected[u] EXCEPT ![key[t]] = Zero]]
  /\ TlsGoto(t, "idle")
  /\ UNCHANGED <<keysUsed, key, alive, values, fresh>>

(* PTE_OS_NO_RESOURCES *)
AllocNone(t) ==
  /\ stage[t] = "none"
  /\ globalTlsLock' = Nobody
  /\ TlsGoto(t, "idle")
  /\ UNCHANGED <<keysUsed, key, table>>

(* pteTlsFree: the program gives the key up; the values stay. *)
FreeLock(t) ==
  /\ t \in alive /\ stage[t] = "idle"
  /\ globalTlsLock = Nobody
  /\ globalTlsLock' = t
  /\ \E k \in given :
       /\ given' = given \ {k} /\ fresh' = fresh \ {k}
       /\ key' = [key EXCEPT ![t] = k]
  /\ TlsGoto(t, "free")
  /\ UNCHANGED <<keysUsed, alive, values, expected>>

FreeClear(t) ==
  /\ stage[t] = "free"
  /\ keysUsed' = [keysUsed EXCEPT ![key[t]] = 0]
  /\ TlsGoto(t, "freed")
  /\ UNCHANGED <<globalTlsLock, key, table>>

FreeUnlock(t) ==
  /\ stage[t] = "freed"
  /\ globalTlsLock' = Nobody
  /\ TlsGoto(t, "idle")
  /\ UNCHANGED <<keysUsed, key, table>>

(* pte_osTlsSetValue in the calling thread's own array. *)
SetValue(t) ==
  /\ t \in alive /\ stage[t] = "idle"
  /\ \E k \in given, v \in Values :
       /\ values' = [values EXCEPT ![t][k] = v]
       /\ expected' = [expected EXCEPT ![t][k] = v]
  /\ UNCHANGED <<keysUsed, globalTlsLock, stage, key, alive, given, fresh>>

(* pteTlsGetValue *)
GetValue(t, k) == IF keysUsed[k] = 1 THEN values[t][k] ELSE Zero

TlsStep(t) ==
  AllocScan(t) \/ AllocTake(t) \/ AllocReturn(t) \/ AllocNone(t)
    \/ FreeClear(t) \/ FreeUnlock(t)

TlsNext == \E t \in Users :
  ThreadInit(t) \/ ThreadDestroy(t) \/ AllocLock(t) \/ FreeLock(t)
    \/ SetValue(t) \/ TlsStep(t)

TlsSpec == TlsInit /\ [][TlsNext]_tlsVars

-----------------------------------------------------------------------------
(* The variables keep their types. *)
TlsTypeOK ==
  /\ keysUsed \in [Keys -> {0, 1}]
  /\ globalTlsLock \in Users \cup {Nobody}
  /\ stage \in [Users -> {"idle", "scan", "take", "taken", "none", "free", "freed"}]
  /\ key \in [Users -> 1 .. MaxTls + 1]
  /\ alive \subseteq Users
  /\ values \in [Users -> [Keys -> Values \cup {Zero}]]
  /\ given \subseteq Keys /\ fresh \subseteq Keys
  /\ expected \in [Users -> [Keys -> Values \cup {Zero}]]

(* A key in use belongs to one client: the program, one allocation in      *)
(* flight or one free in flight.  Two threads that allocate at the same    *)
(* time never get the same key, and no key is lost.                        *)
Claims(t) == stage[t] \in {"taken", "free"}
KeyHasOneOwner ==
  /\ \A k \in given : keysUsed[k] = 1
  /\ \A t \in Users : Claims(t) =>
       /\ keysUsed[key[t]] = 1 /\ key[t] \notin given
       /\ \A u \in Users \ {t} : Claims(u) => key[u] # key[t]
  /\ \A k \in Keys : keysUsed[k] = 1 =>
       k \in given \/ \E t \in Users : Claims(t) /\ key[t] = k

(* Under a key that was never freed a thread reads what it stored there,   *)
(* and 0 before it stored anything, although values are read and written   *)
(* without the lock, other threads come and go and malloc hands the arrays *)
(* of ended threads to new ones.                                           *)
NewKeyReadsOwn ==
  \A t \in alive, k \in given \cap fresh : GetValue(t, k) = expected[t][k]
=============================================================================
