------------------------------- MODULE FdMan -------------------------------
(***************************************************************************)
(* The file descriptor manager of libcglue (fdman.c) as several threads    *)
(* run it: __fdman_get_new_descriptor and __fdman_get_dup_descriptor scan  *)
(* the descriptor map under __fdman_mutex, __fdman_release_descriptor      *)
(* takes no lock.  Every step below is one access to shared memory, so a   *)
(* preemption may fall between any two of them (the PSP has one core and a *)
(* priority-preemptive scheduler).  The callers _open and _close (glue.c)  *)
(* are modelled as far as they touch the map and the kernel handles; the   *)
(* type, the flags and the file name of a slot are in LibcFd.              *)
(*                                                                         *)
(* A program is well behaved: it closes or duplicates a descriptor only    *)
(* after the call that returned it, and no two calls use one descriptor at *)
(* the same time (avail holds the descriptors no call is using).           *)
(***************************************************************************)
EXTENDS Integers, FiniteSets

CONSTANTS
  Threads,      \* the threads of the program
  Handles,      \* the kernel handles (SceUIDs) sceIoOpen may return
  FILENO_MAX,   \* __FILENO_MAX, the size of the map and of the pool
  RefMod,       \* ref_count is an unsigned integer modulo RefMod (2^32)
  StdHandle,    \* the kernel handles of stdin, stdout and stderr, by descriptor
  AllowDup,     \* may the program call dup?
  AllowCloseStd,\* may the program close the standard descriptors?
  Null,         \* the null pointer of a map entry
  NoHandle,     \* the value 0 that a released slot holds
  Nobody        \* the owner of a free mutex

FD == 0 .. FILENO_MAX - 1
StdFds == DOMAIN StdHandle

ASSUME FdManAssumption ==
  /\ FILENO_MAX \in Nat
  /\ RefMod \in Nat /\ RefMod > 2
  /\ StdFds \subseteq FD
  /\ StdHandle \in [StdFds -> Handles]
  /\ \A f, g \in StdFds : StdHandle[f] = StdHandle[g] => f = g
  /\ AllowDup \in BOOLEAN /\ AllowCloseStd \in BOOLEAN
  /\ Null \notin FD /\ NoHandle \notin Handles /\ Nobody \notin Threads

VARIABLES
  descriptormap,  \* [FD -> FD \cup {Null}]: the slot an entry points at
  descriptor,     \* pool slot -> kernel handle
  ref_count,      \* pool slot -> number of map entries, modulo RefMod
  fdman_mutex,    \* the thread that holds __fdman_mutex
  pc, op,         \* where a thread is, and on behalf of which call
  i,              \* the scan index of a thread
  fd,             \* the descriptor argument of dup and close
  reg,            \* the register ref_count is incremented in
  scefd,          \* the kernel handle an open in flight has obtained
  live,           \* the kernel handles that are open
  avail,          \* descriptors owned by the program and not in use by a call
  bound           \* history: the kernel handle a descriptor was opened on

vars == <<descriptormap, descriptor, ref_count, fdman_mutex, pc, op, i, fd,
          reg, scefd, live, avail, bound>>
local == <<op, i, fd, reg, scefd>>

(* The labels inside the critical section and in the release path. *)
Critical == {"scan", "claim", "inc_load", "inc_store", "unlock", "full"}
Closing  == {"close_test", "dec_load", "dec_store", "rel_test", "rel_clear",
             "rel_unmap"}
Labels   == {"idle", "lock", "fill"} \cup Critical \cup Closing

Goto(t, l) == pc' = [pc EXCEPT ![t] = l]

(* The call returns, and its local variables are gone. *)
Return(t) ==
  /\ Goto(t, "idle")
  /\ op' = [op EXCEPT ![t] = "open"] /\ i' = [i EXCEPT ![t] = 0]
  /\ fd' = [fd EXCEPT ![t] = 0] /\ reg' = [reg EXCEPT ![t] = 0]
  /\ scefd' = [scefd EXCEPT ![t] = NoHandle]

(* Unsigned increment and decrement of ref_count. *)
Inc(n) == IF n = RefMod - 1 THEN 0 ELSE n + 1
Dec(n) == IF n = 0 THEN RefMod - 1 ELSE n - 1

(* __fdman_init: the standard descriptors are mapped, with ref_count 0. *)
fdman_init ==
  /\ descriptormap = [f \in FD |-> IF f \in StdFds THEN f ELSE Null]
  /\ descriptor = [f \in FD |-> IF f \in StdFds THEN StdHandle[f] ELSE NoHandle]
  /\ ref_count = [f \in FD |-> 0]

Init ==
  /\ fdman_init
  /\ fdman_mutex = Nobody
  /\ pc = [t \in Threads |-> "idle"]
  /\ op = [t \in Threads |-> "open"]
  /\ i = [t \in Threads |-> 0]
  /\ fd = [t \in Threads |-> 0]
  /\ reg = [t \in Threads |-> 0]
  /\ scefd = [t \in Threads |-> NoHandle]
  /\ live = {StdHandle[f] : f \in StdFds}
  /\ avail = StdFds
  /\ bound = descriptor

-----------------------------------------------------------------------------
(* _open when sceIoOpen returns an error: nothing was allocated yet. *)
OpenFail(t) == pc[t] = "idle" /\ UNCHANGED vars

(* _open: sceIoOpen has returned the kernel handle h. *)
OpenCall(t) ==
  /\ pc[t] = "idle"
  /\ \E h \in Handles \ live :
       /\ scefd' = [scefd EXCEPT ![t] = h]
       /\ live' = live \cup {h}
  /\ op' = [op EXCEPT ![t] = "open"]
  /\ Goto(t, "lock")
  /\ UNCHANGED <<descriptormap, descriptor, ref_count, fdman_mutex, i, fd, reg,
                 avail, bound>>

(* dup, through fcntl(F_DUPFD): the descriptor is checked before the lock. *)
DupCall(t) ==
  /\ AllowDup
  /\ pc[t] = "idle"
  /\ \E f \in avail :
       /\ descriptormap[f] # Null
       /\ fd' = [fd EXCEPT ![t] = f]
       /\ avail' = avail \ {f}
  /\ op' = [op EXCEPT ![t] = "dup"]
  /\ Goto(t, "lock")
  /\ UNCHANGED <<descriptormap, descriptor, ref_count, fdman_mutex, i, reg,
                 scefd, live, bound>>

(* sceKernelLockLwMutex at the head of both scans. *)
LockNoWait(t) ==
  /\ pc[t] = "lock"
  /\ fdman_mutex' = t
  /\ i' = [i EXCEPT ![t] = 0]
  /\ Goto(t, "scan")
  /\ UNCHANGED <<descriptormap, descriptor, ref_count, op, fd, reg, scefd, live,
                 avail, bound>>

LockFromFd(t) ==
  /\ pc[t] = "lock"
  /\ fdman_mutex = Nobody
  /\ fdman_mutex' = t
  /\ i' = [i EXCEPT ![t] = fd[t]]
  /\ Goto(t, "scan")
  /\ UNCHANGED <<descriptormap, descriptor, ref_count, op, fd, reg, scefd, live,
                 avail, bound>>

Lock(t) ==
  /\ pc[t] = "lock"
  /\ fdman_mutex = Nobody
  /\ fdman_mutex' = t
  /\ i' = [i EXCEPT ![t] = 0]
  /\ Goto(t, "scan")
  /\ UNCHANGED <<descriptormap, descriptor, ref_count, op, fd, reg, scefd, live,
                 avail, bound>>

(* One turn of the for loop: look for the first entry that is NULL. *)
Scan(t) ==
  /\ pc[t] = "scan"
  /\ \/ /\ i[t] = FILENO_MAX
        /\ Goto(t, "full")
        /\ i' = i
     \/ /\ i[t] < FILENO_MAX
        /\ descriptormap[i[t]] = Null
        /\ Goto(t, "claim")
        /\ i' = i
     \/ /\ i[t] < FILENO_MAX
        /\ descriptormap[i[t]] # Null
        /\ i' = [i EXCEPT ![t] = @ + 1]
        /\ pc' = pc
  /\ UNCHANGED <<descriptormap, descriptor, ref_count, fdman_mutex, op, fd, reg,
                 scefd, live, avail, bound>>

ClaimSlotOfFd(t) ==
  /\ pc[t] = "claim"
  /\ descriptormap' = [descriptormap EXCEPT ![i[t]] = fd[t]]
  /\ Goto(t, "inc_load")
  /\ UNCHANGED <<descriptor, ref_count, fdman_mutex, local, live, avail, bound>>

(* The entry is pointed at its own slot, or at slot fd when duplicating. *)
Claim(t) ==
  /\ pc[t] = "claim"
  /\ descriptormap' = [descriptormap EXCEPT ![i[t]] =
                         IF op[t] = "open" THEN i[t] ELSE fd[t]]
  /\ Goto(t, "inc_load")
  /\ UNCHANGED <<descriptor, ref_count, fdman_mutex, local, live, avail, bound>>

(* ref_count++ loads, adds and stores. *)
IncLoad(t) ==
  /\ pc[t] = "inc_load"
  /\ reg' = [reg EXCEPT ![t] = ref_count[descriptormap[i[t]]]]
  /\ Goto(t, "inc_store")
  /\ UNCHANGED <<descriptormap, descriptor, ref_count, fdman_mutex, op, i, fd,
                 scefd, live, avail, bound>>

IncStore(t) ==
  /\ pc[t] = "inc_store"
  /\ ref_count' = [ref_count EXCEPT ![descriptormap[i[t]]] = Inc(reg[t])]
  /\ Goto(t, "unlock")
  /\ UNCHANGED <<descriptormap, descriptor, fdman_mutex, local, live, avail,
                 bound>>

(* sceKernelUnlockLwMutex; dup returns here, open goes on to fill the slot. *)
Unlock(t) ==
  /\ pc[t] = "unlock"
  /\ fdman_mutex' = Nobody
  /\ \/ /\ op[t] = "open"
        /\ Goto(t, "fill")
        /\ UNCHANGED <<local, avail, bound>>
     \/ /\ op[t] = "dup"
        /\ Return(t)
        /\ avail' = avail \cup {fd[t], i[t]}
        /\ bound' = [bound EXCEPT ![i[t]] = bound[fd[t]]]
  /\ UNCHANGED <<descriptormap, descriptor, ref_count, live>>

(* _open stores the handle in the slot and returns the descriptor. *)
Fill(t) ==
  /\ pc[t] = "fill"
  /\ descriptor' = [descriptor EXCEPT ![descriptormap[i[t]]] = scefd[t]]
  /\ bound' = [bound EXCEPT ![i[t]] = scefd[t]]
  /\ avail' = avail \cup {i[t]}
  /\ Return(t)
  /\ UNCHANGED <<descriptormap, ref_count, fdman_mutex, live>>

(* No entry is free: unlock, return -1, and _open closes the kernel handle. *)
FullKeepsLock(t) ==
  /\ pc[t] = "full"
  /\ live' = IF op[t] = "open" THEN live \ {scefd[t]} ELSE live
  /\ avail' = IF op[t] = "dup" THEN avail \cup {fd[t]} ELSE avail
  /\ Return(t)
  /\ UNCHANGED <<descriptormap, descriptor, ref_count, fdman_mutex, bound>>

FullKeepsHandle(t) ==
  /\ pc[t] = "full"
  /\ fdman_mutex' = Nobody
  /\ avail' = IF op[t] = "dup" THEN avail \cup {fd[t]} ELSE avail
  /\ Return(t)
  /\ UNCHANGED <<descriptormap, descriptor, ref_count, live, bound>>

Full(t) ==
  /\ pc[t] = "full"
  /\ fdman_mutex' = Nobody
  /\ live' = IF op[t] = "open" THEN live \ {scefd[t]} ELSE live
  /\ avail' = IF op[t] = "dup" THEN avail \cup {fd[t]} ELSE avail
  /\ Return(t)
  /\ UNCHANGED <<descriptormap, descriptor, ref_count, bound>>

-----------------------------------------------------------------------------
(* _close of a descriptor the program owns. *)
CloseCall(t) ==
  /\ pc[t] = "idle"
  /\ \E f \in avail :
       /\ AllowCloseStd \/ f \notin StdFds
       /\ descriptormap[f] # Null
       /\ fd' = [fd EXCEPT ![t] = f]
       /\ avail' = avail \ {f}
  /\ Goto(t, "close_test")
  /\ UNCHANGED <<descriptormap, descriptor, ref_count, fdman_mutex, op, i, reg,
                 scefd, live, bound>>

(* _close closes the kernel handle when this is the last reference. *)
CloseTest(t) ==
  /\ pc[t] = "close_test"
  /\ LET s == descriptormap[fd[t]] IN
       live' = IF ref_count[s] = 1 THEN live \ {descriptor[s]} ELSE live
  /\ Goto(t, "dec_load")
  /\ UNCHANGED <<descriptormap, descriptor, ref_count, fdman_mutex, local, avail,
                 bound>>

(* __fdman_release_descriptor: ref_count-- without the lock. *)
DecLoad(t) ==
  /\ pc[t] = "dec_load"
  /\ reg' = [reg EXCEPT ![t] = ref_count[descriptormap[fd[t]]]]
  /\ Goto(t, "dec_store")
  /\ UNCHANGED <<descriptormap, descriptor, ref_count, fdman_mutex, op, i, fd,
                 scefd, live, avail, bound>>

DecStoreNoWrap(t) ==
  /\ pc[t] = "dec_store"
  /\ ref_count' = [ref_count EXCEPT ![descriptormap[fd[t]]] = reg[t] - 1]
  /\ Goto(t, "rel_test")
  /\ UNCHANGED <<descriptormap, descriptor, fdman_mutex, local, live, avail,
                 bound>>

DecStore(t) ==
  /\ pc[t] = "dec_store"
  /\ ref_count' = [ref_count EXCEPT ![descriptormap[fd[t]]] = Dec(reg[t])]
  /\ Goto(t, "rel_test")
  /\ UNCHANGED <<descriptormap, descriptor, fdman_mutex, local, live, avail,
                 bound>>

RelTestKeepsCount(t) ==
  /\ pc[t] = "rel_test"
  /\ IF ref_count[descriptormap[fd[t]]] = 0
       THEN /\ Goto(t, "rel_clear")
            /\ UNCHANGED ref_count
       ELSE /\ Goto(t, "rel_unmap")
            /\ ref_count' = [ref_count EXCEPT ![descriptormap[fd[t]]] = reg[t]]
  /\ UNCHANGED <<descriptormap, descriptor, fdman_mutex, local, live, avail, bound>>

RelTest(t) ==
  /\ pc[t] = "rel_test"
  /\ Goto(t, IF ref_count[descriptormap[fd[t]]] = 0
               THEN "rel_clear" ELSE "rel_unmap")
  /\ UNCHANGED <<descriptormap, descriptor, ref_count, fdman_mutex, local, live,
                 avail, bound>>

RelClear(t) ==
  /\ pc[t] = "rel_clear"
  /\ descriptor' = [descriptor EXCEPT ![descriptormap[fd[t]]] = NoHandle]
  /\ Goto(t, "rel_unmap")
  /\ UNCHANGED <<descriptormap, ref_count, fdman_mutex, local, live, avail, bound>>

(* The entry becomes free last, when the slot has been reset. *)
RelUnmap(t) ==
  /\ pc[t] = "rel_unmap"
  /\ descriptormap' = [descriptormap EXCEPT ![fd[t]] = Null]
  /\ Return(t)
  /\ UNCHANGED <<descriptor, ref_count, fdman_mutex, live, avail, bound>>

-----------------------------------------------------------------------------
Step(t) ==
  \/ Scan(t) \/ Claim(t) \/ IncLoad(t) \/ IncStore(t) \/ Unlock(t) \/ Fill(t)
  \/ Full(t) \/ CloseTest(t) \/ DecLoad(t) \/ DecStore(t) \/ RelTest(t)
  \/ RelClear(t) \/ RelUnmap(t)

Next == \E t \in Threads :
  OpenFail(t) \/ OpenCall(t) \/ DupCall(t) \/ CloseCall(t) \/ Lock(t) \/ Step(t)

(* A thread that is not blocked runs; __fdman_mutex is created with the    *)
(* attribute 0, whose wait queue is first in, first out, so a thread that  *)
(* waits for it gets it.  Programs need not make calls.                    *)
Fairness == \A t \in Threads : WF_vars(Step(t)) /\ SF_vars(Lock(t))

Spec == Init /\ [][Next]_vars
FairSpec == Spec /\ Fairness

-----------------------------------------------------------------------------
(* Every variable has its type; ref_count stays an unsigned integer. *)
TypeOK ==
  /\ descriptormap \in [FD -> FD \cup {Null}]
  /\ descriptor \in [FD -> Handles \cup {NoHandle}]
  /\ ref_count \in [FD -> 0 .. RefMod - 1]
  /\ fdman_mutex \in Threads \cup {Nobody}
  /\ pc \in [Threads -> Labels]
  /\ op \in [Threads -> {"open", "dup"}]
  /\ i \in [Threads -> 0 .. FILENO_MAX]
  /\ fd \in [Threads -> FD \cup {0}]
  /\ reg \in [Threads -> 0 .. RefMod - 1]
  /\ scefd \in [Threads -> Handles \cup {NoHandle}]
  /\ live \subseteq Handles
  /\ avail \subseteq FD
  /\ bound \in [FD -> Handles \cup {NoHandle}]

(* A thread is inside _open between sceIoOpen and its return. *)
Opening(t) == op[t] = "open" /\ pc[t] \in Critical \cup {"lock", "fill"}

(* A descriptor the program holds is mapped, its slot still holds the      *)
(* kernel handle it was opened on, that handle is open, and no two such    *)
(* descriptors share one.  __fdman_release_descriptor takes no lock, so    *)
(* this rests on the order of its writes and on who may write an entry.    *)
DescriptorIntact ==
  /\ \A f \in avail :
       /\ descriptormap[f] # Null
       /\ descriptor[descriptormap[f]] = bound[f]
       /\ bound[f] \in live
  /\ \A f, g \in avail : bound[f] = bound[g] => f = g

(* An open kernel handle can still be closed by somebody: a descriptor     *)
(* names it, an _open in flight holds it or a _close is about to close it. *)
(* A failed __fdman_get_new_descriptor must therefore close what           *)
(* sceIoOpen opened.                                                       *)
NoHandleLeak ==
  \A h \in live :
    \/ \E f \in avail : descriptor[descriptormap[f]] = h
    \/ \E t \in Threads : Opening(t) /\ scefd[t] = h
    \/ \E t \in Threads : pc[t] = "close_test"
                          /\ descriptor[descriptormap[fd[t]]] = h

(* Between calls, ref_count of a slot is the number of entries that point  *)
(* at it, modulo 2^32; the slots of the standard descriptors count one     *)
(* less, for __fdman_init maps them without counting them.  The comment    *)
(* "lock here to make thread safe" promises that the increments of         *)
(* __fdman_get_dup_descriptor are not lost.                                *)
RefCountExact ==
  (\A t \in Threads : pc[t] = "idle") =>
    \A s \in FD :
      (ref_count[s] + IF s \in StdFds THEN 1 ELSE 0) % RefMod
        = Cardinality({f \in FD : descriptormap[f] = s})

(* open and dup hand out the lowest descriptor that is free. *)
LowestDescriptor ==
  [][\A f \in FD : descriptormap[f] = Null /\ descriptormap'[f] # Null
       => \A g \in 0 .. f - 1 : descriptormap[g] # Null]_vars

(* Every call returns: the lock is released on every path, and the scan    *)
(* ends even while other threads release the entries it has passed.        *)
CallsReturn == \A t \in Threads : (pc[t] # "idle") ~> (pc[t] = "idle")

(* As long as nobody calls dup, the map, the pool and the lock implement   *)
(* the abstract table: open takes effect when _open stores the handle,     *)
(* close when the program gives the descriptor up.                         *)
Table == INSTANCE FdTable WITH
           None <- NoHandle,
           table <- [f \in FD |-> IF f \in avail THEN descriptor[f]
                                                 ELSE NoHandle]
RefinesFdTable == Table!Spec
=============================================================================
