---------------------------- MODULE FdManProofs ----------------------------
(***************************************************************************)
(* Proofs about FdMan, for any number of threads, handles and descriptors. *)
(***************************************************************************)
EXTENDS FdMan, FiniteSetTheorems, TLAPS

(* TypeOK is not inductive: avail stays within FD because a scan that ended *)
(* with "claim" stopped short of FILENO_MAX, and because dup and close      *)
(* checked their argument.                                                  *)
Indices ==
  \A t \in Threads :
    /\ pc[t] \in {"claim", "inc_load", "inc_store", "unlock", "fill"}
         => i[t] \in FD
    /\ op[t] = "dup" /\ pc[t] \in Critical \cup {"lock"} => fd[t] \in FD
    /\ pc[t] \in Closing => fd[t] \in FD

(* The holder of __fdman_mutex is the one thread in the critical section. *)
Mutex == \A t \in Threads : (pc[t] \in Critical) <=> (fdman_mutex = t)

(* Thread t is at work on entry f: it has taken it and not yet handed it   *)
(* over, it is closing it, or it is duplicating it.                        *)
Holds(t, f) ==
  \/ pc[t] \in {"inc_load", "inc_store", "unlock", "fill"} /\ f = i[t]
  \/ pc[t] \in Closing /\ f = fd[t]
  \/ pc[t] \in Critical \cup {"lock"} /\ op[t] = "dup" /\ f = fd[t]

(* Every mapped entry has one owner: the program or a single call.  Only   *)
(* its owner changes it, and only the holder of the lock takes a free one. *)
Ownership ==
  /\ \A f \in avail : descriptormap[f] # Null
  /\ \A t \in Threads, f \in FD : Holds(t, f) =>
       /\ descriptormap[f] # Null
       /\ f \notin avail
       /\ \A u \in Threads : Holds(u, f) => u = t
  /\ \A t \in Threads : pc[t] = "claim" => descriptormap[i[t]] = Null

(* Without dup an entry points at its own slot or nowhere. *)
OwnSlots ==
  /\ \A t \in Threads : op[t] = "open"
  /\ \A f \in FD : descriptormap[f] \in {f, Null}

(* Every handle that a descriptor, an open in flight or a close about to   *)
(* close it refers to is open and has no other reference.                  *)
HandlesApart ==
  /\ \A f \in avail : descriptor[f] = bound[f] /\ bound[f] \in live
  /\ \A f, g \in avail : bound[f] = bound[g] => f = g
  /\ \A t \in Threads : Opening(t) =>
       /\ scefd[t] \in live
       /\ \A f \in avail : bound[f] # scefd[t]
       /\ \A u \in Threads : Opening(u) /\ scefd[u] = scefd[t] => u = t
  /\ \A t \in Threads : pc[t] = "close_test" =>
       /\ descriptor[fd[t]] \in live
       /\ \A f \in avail : bound[f] # descriptor[fd[t]]
       /\ \A u \in Threads : Opening(u) => scefd[u] # descriptor[fd[t]]
       /\ \A u \in Threads : pc[u] = "close_test"
                             /\ descriptor[fd[u]] = descriptor[fd[t]] => u = t

(* The invariant of every program, whether or not it calls dup. *)
Safe == TypeOK /\ Indices /\ Mutex /\ Ownership

LEMMA SafeInit == Init => Safe
BY FdManAssumption DEF Init, fdman_init, Safe, TypeOK, FD, StdFds, Labels,
   Critical, Closing, Indices, Mutex, Ownership, Holds

(* A call that returns leaves its locals well typed and its thread idle. *)
LEMMA ReturnTypes ==
  ASSUME TypeOK, Indices, NEW t \in Threads, Return(t)
  PROVE  /\ pc' \in [Threads -> Labels] /\ op' \in [Threads -> {"open", "dup"}]
         /\ i' \in [Threads -> 0 .. FILENO_MAX] /\ fd' \in [Threads -> FD \cup {0}]
         /\ reg' \in [Threads -> 0 .. RefMod - 1]
         /\ scefd' \in [Threads -> Handles \cup {NoHandle}]
         /\ Indices'
BY FdManAssumption DEF TypeOK, Indices, Return, Goto, Labels, Critical, Closing

LEMMA TypeStep == Safe /\ [Next]_vars => TypeOK' /\ Indices'
<1>. SUFFICES ASSUME TypeOK, Indices, Ownership, [Next]_vars PROVE TypeOK' /\ Indices'
  BY DEF Safe
<1>. USE FdManAssumption DEF TypeOK, Indices, Goto, local, Labels, Critical, Closing
<1>0. CASE UNCHANGED vars
  BY <1>0 DEF vars
<1>. SUFFICES ASSUME NEW t \in Threads,
                     OpenFail(t) \/ OpenCall(t) \/ DupCall(t) \/ CloseCall(t)
                       \/ Lock(t) \/ Step(t)
              PROVE TypeOK' /\ Indices'
  BY <1>0 DEF Next
<1>1. CASE OpenFail(t) BY <1>1 DEF OpenFail, vars
<1>2. CASE OpenCall(t) BY <1>2 DEF OpenCall
<1>3. CASE DupCall(t) BY <1>3 DEF DupCall
<1>4. CASE Lock(t) BY <1>4 DEF Lock
<1>5. CASE Scan(t)
  <2>1. /\ UNCHANGED <<descriptormap, descriptor, ref_count, fdman_mutex, op,
                       fd, reg, scefd, live, avail, bound>>
        /\ pc[t] = "scan" /\ i[t] \in 0 .. FILENO_MAX /\ FILENO_MAX \in Nat
    BY <1>5 DEF Scan
  <2>2. CASE Goto(t, "full") /\ i' = i
    BY <2>1, <2>2
  <2>3. CASE Goto(t, "claim") /\ i' = i /\ i[t] < FILENO_MAX
    <3>. i[t] \in FD
      BY <2>1, <2>3 DEF FD
    <3>. QED BY <2>1, <2>3
  <2>4. CASE /\ i[t] < FILENO_MAX
             /\ i' = [i EXCEPT ![t] = @ + 1] /\ pc' = pc
    <3>. i' \in [Threads -> 0 .. FILENO_MAX]
      BY <2>1, <2>4
    <3>. QED BY <2>1, <2>4
  <2>. QED BY <1>5, <2>2, <2>3, <2>4 DEF Scan
<1>6. CASE Claim(t) BY <1>6 DEF Claim, FD
<1>7. CASE IncLoad(t)
  <2>. descriptormap[i[t]] \in FD
    BY <1>7 DEF IncLoad, Ownership, Holds
  <2>. QED BY <1>7 DEF IncLoad
<1>8. CASE IncStore(t)
  <2>. Inc(reg[t]) \in 0 .. RefMod - 1
    BY DEF Inc
  <2>. QED BY <1>8 DEF IncStore
<1>9. CASE Unlock(t)
  <2>1. CASE op[t] = "open" /\ Goto(t, "fill") /\ UNCHANGED <<local, avail, bound>>
    BY <1>9, <2>1 DEF Unlock
  <2>2. CASE /\ op[t] = "dup" /\ Return(t)
             /\ avail' = avail \cup {fd[t], i[t]}
             /\ bound' = [bound EXCEPT ![i[t]] = bound[fd[t]]]
    <3>1. i[t] \in FD /\ fd[t] \in FD
      BY <1>9, <2>2 DEF Unlock
    <3>2. avail' \subseteq FD /\ bound' \in [FD -> Handles \cup {NoHandle}]
      BY <2>2, <3>1
    <3>. QED BY <1>9, <2>2, <3>2, ReturnTypes DEF Unlock
  <2>. QED BY <1>9, <2>1, <2>2 DEF Unlock
<1>10. CASE Fill(t)
  <2>1. i[t] \in FD /\ Return(t) /\ descriptormap[i[t]] \in FD
    BY <1>10 DEF Fill, Ownership, Holds
  <2>2. /\ avail' \subseteq FD /\ bound' \in [FD -> Handles \cup {NoHandle}]
        /\ descriptor' \in [FD -> Handles \cup {NoHandle}]
    BY <1>10, <2>1 DEF Fill
  <2>. QED BY <1>10, <2>1, <2>2, ReturnTypes DEF Fill
<1>11. CASE Full(t) BY <1>11 DEF Full, Return
<1>12. CASE CloseCall(t) BY <1>12 DEF CloseCall
<1>13. CASE CloseTest(t) BY <1>13 DEF CloseTest
<1>14. CASE DecLoad(t)
  <2>. descriptormap[fd[t]] \in FD
    BY <1>14 DEF DecLoad, Ownership, Holds
  <2>. QED BY <1>14 DEF DecLoad
<1>15. CASE DecStore(t)
  <2>. Dec(reg[t]) \in 0 .. RefMod - 1
    BY DEF Dec
  <2>. QED BY <1>15 DEF DecStore
<1>16. CASE RelTest(t) BY <1>16 DEF RelTest
<1>17. CASE RelClear(t) BY <1>17 DEF RelClear
<1>18. CASE RelUnmap(t) BY <1>18 DEF RelUnmap, Return
<1>. QED BY <1>1, <1>2, <1>3, <1>4, <1>5, <1>6, <1>7, <1>8, <1>9,
            <1>10, <1>11, <1>12, <1>13, <1>14, <1>15, <1>16, <1>17, <1>18 DEF Step

LEMMA MutexStep == TypeOK /\ Mutex /\ [Next]_vars => Mutex'
<1>. SUFFICES ASSUME TypeOK, Mutex, [Next]_vars PROVE Mutex'
  OBVIOUS
<1>. USE FdManAssumption DEF TypeOK, Mutex, Goto, local, Labels, Critical, Closing
<1>0. CASE UNCHANGED vars
  BY <1>0 DEF vars
<1>. SUFFICES ASSUME NEW t \in Threads,
                     OpenFail(t) \/ OpenCall(t) \/ DupCall(t) \/ CloseCall(t)
                       \/ Lock(t) \/ Step(t)
              PROVE Mutex'
  BY <1>0 DEF Next
<1>1. CASE OpenFail(t) BY <1>1 DEF OpenFail, vars
<1>2. CASE OpenCall(t) BY <1>2 DEF OpenCall
<1>3. CASE DupCall(t) BY <1>3 DEF DupCall
<1>4. CASE Lock(t) BY <1>4 DEF Lock
<1>5. CASE Scan(t) BY <1>5 DEF Scan
<1>6. CASE Claim(t) BY <1>6 DEF Claim
<1>7. CASE IncLoad(t) BY <1>7 DEF IncLoad
<1>8. CASE IncStore(t) BY <1>8 DEF IncStore
<1>9. CASE Unlock(t) BY <1>9 DEF Unlock, Return
<1>10. CASE Fill(t) BY <1>10 DEF Fill, Return
<1>11. CASE Full(t) BY <1>11 DEF Full, Return
<1>12. CASE CloseCall(t) BY <1>12 DEF CloseCall
<1>13. CASE CloseTest(t) BY <1>13 DEF CloseTest
<1>14. CASE DecLoad(t) BY <1>14 DEF DecLoad
<1>15. CASE DecStore(t) BY <1>15 DEF DecStore
<1>16. CASE RelTest(t) BY <1>16 DEF RelTest
<1>17. CASE RelClear(t) BY <1>17 DEF RelClear
<1>18. CASE RelUnmap(t) BY <1>18 DEF RelUnmap, Return
<1>. QED BY <1>1, <1>2, <1>3, <1>4, <1>5, <1>6, <1>7, <1>8, <1>9,
            <1>10, <1>11, <1>12, <1>13, <1>14, <1>15, <1>16, <1>17, <1>18 DEF Step

LEMMA OwnershipStep == Safe /\ [Next]_vars => Ownership'
<1>. SUFFICES ASSUME TypeOK, Indices, Mutex, Ownership, [Next]_vars
              PROVE Ownership'
  BY DEF Safe
<1>. USE FdManAssumption DEF TypeOK, Indices, Mutex, Ownership, Holds, Goto, local, Labels, Critical, Closing
<1>0. CASE UNCHANGED vars
  BY <1>0 DEF vars
<1>. SUFFICES ASSUME NEW t \in Threads,
                     OpenFail(t) \/ OpenCall(t) \/ DupCall(t) \/ CloseCall(t)
                       \/ Lock(t) \/ Step(t)
              PROVE Ownership'
  BY <1>0 DEF Next
<1>1. CASE OpenFail(t) BY <1>1 DEF OpenFail, vars
<1>2. CASE OpenCall(t) BY <1>2 DEF OpenCall
<1>3. CASE DupCall(t) BY <1>3 DEF DupCall
<1>4. CASE Lock(t) BY <1>4 DEF Lock
<1>5. CASE Scan(t) BY <1>5 DEF Scan
<1>6. CASE Claim(t) BY <1>6 DEF Claim
<1>7. CASE IncLoad(t) BY <1>7 DEF IncLoad
<1>8. CASE IncStore(t) BY <1>8 DEF IncStore
<1>9. CASE Unlock(t) BY <1>9 DEF Unlock, Return
<1>10. CASE Fill(t) BY <1>10 DEF Fill, Return
<1>11. CASE Full(t) BY <1>11 DEF Full, Return
<1>12. CASE CloseCall(t) BY <1>12 DEF CloseCall
<1>13. CASE CloseTest(t) BY <1>13 DEF CloseTest
<1>14. CASE DecLoad(t) BY <1>14 DEF DecLoad
<1>15. CASE DecStore(t) BY <1>15 DEF DecStore
<1>16. CASE RelTest(t) BY <1>16 DEF RelTest
<1>17. CASE RelClear(t) BY <1>17 DEF RelClear
<1>18. CASE RelUnmap(t) BY <1>18 DEF RelUnmap, Return
<1>. QED BY <1>1, <1>2, <1>3, <1>4, <1>5, <1>6, <1>7, <1>8, <1>9,
            <1>10, <1>11, <1>12, <1>13, <1>14, <1>15, <1>16, <1>17, <1>18 DEF Step

LEMMA SafeStep == Safe /\ [Next]_vars => Safe'
BY TypeStep, MutexStep, OwnershipStep DEF Safe

(* Every variable of FdMan keeps its type, for programs that dup and close *)
(* as they please: no access goes through a null entry, and ref_count      *)
(* wraps and never leaves the unsigned range.                              *)
THEOREM TypeCorrect == Spec => []TypeOK
<1>1. Safe => TypeOK
  BY DEF Safe
<1>. QED BY SafeInit, SafeStep, <1>1, PTL DEF Spec

-----------------------------------------------------------------------------
LEMMA OwnSlotsStep ==
  ~AllowDup /\ TypeOK /\ OwnSlots /\ [Next]_vars => OwnSlots'
<1>. SUFFICES ASSUME ~AllowDup, TypeOK, OwnSlots, [Next]_vars PROVE OwnSlots'
  OBVIOUS
<1>. USE FdManAssumption DEF TypeOK, OwnSlots, Goto, local
<1>0. CASE UNCHANGED vars
  BY <1>0 DEF vars
<1>. SUFFICES ASSUME NEW t \in Threads,
                     OpenFail(t) \/ OpenCall(t) \/ DupCall(t) \/ CloseCall(t)
                       \/ Lock(t) \/ Step(t)
              PROVE OwnSlots'
  BY <1>0 DEF Next
<1>1. CASE OpenFail(t) BY <1>1 DEF OpenFail, vars
<1>2. CASE OpenCall(t) BY <1>2 DEF OpenCall
<1>3. CASE DupCall(t) BY <1>3 DEF DupCall
<1>4. CASE Lock(t) BY <1>4 DEF Lock
<1>5. CASE Scan(t) BY <1>5 DEF Scan
<1>6. CASE Claim(t) BY <1>6 DEF Claim
<1>7. CASE IncLoad(t) BY <1>7 DEF IncLoad
<1>8. CASE IncStore(t) BY <1>8 DEF IncStore
<1>9. CASE Unlock(t) BY <1>9 DEF Unlock, Return
<1>10. CASE Fill(t) BY <1>10 DEF Fill, Return
<1>11. CASE Full(t) BY <1>11 DEF Full, Return
<1>12. CASE CloseCall(t) BY <1>12 DEF CloseCall
<1>13. CASE CloseTest(t) BY <1>13 DEF CloseTest
<1>14. CASE DecLoad(t) BY <1>14 DEF DecLoad
<1>15. CASE DecStore(t) BY <1>15 DEF DecStore
<1>16. CASE RelTest(t) BY <1>16 DEF RelTest
<1>17. CASE RelClear(t) BY <1>17 DEF RelClear
<1>18. CASE RelUnmap(t) BY <1>18 DEF RelUnmap, Return
<1>. QED BY <1>1, <1>2, <1>3, <1>4, <1>5, <1>6, <1>7, <1>8, <1>9,
            <1>10, <1>11, <1>12, <1>13, <1>14, <1>15, <1>16, <1>17, <1>18 DEF Step

LEMMA HandlesStep ==
  ~AllowDup /\ Safe /\ OwnSlots /\ HandlesApart /\ [Next]_vars => HandlesApart'
<1>. SUFFICES ASSUME ~AllowDup, TypeOK, Indices, Ownership, OwnSlots,
                     HandlesApart, [Next]_vars
              PROVE HandlesApart'
  BY DEF Safe
<1>. USE FdManAssumption DEF TypeOK, Indices, OwnSlots, HandlesApart, Goto, local, Labels, Critical, Closing, Opening
<1>0. CASE UNCHANGED vars
  BY <1>0 DEF vars
<1>. SUFFICES ASSUME NEW t \in Threads,
                     OpenFail(t) \/ OpenCall(t) \/ DupCall(t) \/ CloseCall(t)
                       \/ Lock(t) \/ Step(t)
              PROVE HandlesApart'
  BY <1>0 DEF Next
<1>1. CASE OpenFail(t) BY <1>1 DEF OpenFail, vars
<1>2. CASE OpenCall(t) BY <1>2 DEF OpenCall
<1>3. CASE DupCall(t) BY <1>3 DEF DupCall
<1>4. CASE Lock(t) BY <1>4 DEF Lock
<1>5. CASE Scan(t) BY <1>5 DEF Scan
<1>6. CASE Claim(t) BY <1>6 DEF Claim
<1>7. CASE IncLoad(t) BY <1>7 DEF IncLoad
<1>8. CASE IncStore(t) BY <1>8 DEF IncStore
<1>9. CASE Unlock(t) BY <1>9 DEF Unlock, Return
<1>10. CASE Fill(t) BY <1>10 DEF Fill, Return, Ownership, Holds
<1>11. CASE Full(t) BY <1>11 DEF Full, Return
<1>12. CASE CloseCall(t) BY <1>12 DEF CloseCall, Ownership, Holds
<1>13. CASE CloseTest(t) BY <1>13 DEF CloseTest, Ownership, Holds
<1>14. CASE DecLoad(t) BY <1>14 DEF DecLoad
<1>15. CASE DecStore(t) BY <1>15 DEF DecStore
<1>16. CASE RelTest(t) BY <1>16 DEF RelTest
<1>17. CASE RelClear(t) BY <1>17 DEF RelClear, Ownership, Holds
<1>18. CASE RelUnmap(t) BY <1>18 DEF RelUnmap, Return
<1>. QED BY <1>1, <1>2, <1>3, <1>4, <1>5, <1>6, <1>7, <1>8, <1>9,
            <1>10, <1>11, <1>12, <1>13, <1>14, <1>15, <1>16, <1>17, <1>18 DEF Step

(* The invariant of the programs that do not call dup. *)
NoDupSafe == Safe /\ OwnSlots /\ HandlesApart

LEMMA NoDupInvariant == ASSUME ~AllowDup PROVE Spec => []NoDupSafe
<1>1. Init => NoDupSafe
  <2>1. Init => OwnSlots
    BY FdManAssumption DEF Init, fdman_init, OwnSlots
  <2>2. Init => HandlesApart
    BY FdManAssumption DEF Init, fdman_init, HandlesApart, Opening, FD, Critical
  <2>. QED BY SafeInit, <2>1, <2>2 DEF NoDupSafe
<1>2. NoDupSafe /\ [Next]_vars => NoDupSafe'
  BY SafeStep, OwnSlotsStep, HandlesStep DEF Safe, NoDupSafe
<1>. QED BY <1>1, <1>2, PTL DEF Spec

(* As long as the program does not call dup, every descriptor it holds is  *)
(* mapped and names, alone, the open kernel handle it was opened on, though *)
(* __fdman_release_descriptor runs without the lock, whoever closes the    *)
(* standard descriptors.                                                   *)
THEOREM DescriptorsIntact == ASSUME ~AllowDup PROVE Spec => []DescriptorIntact
<1>1. NoDupSafe => DescriptorIntact
  BY DEF NoDupSafe, Safe, TypeOK, Ownership, OwnSlots, HandlesApart,
         DescriptorIntact
<1>. QED BY NoDupInvariant, <1>1, PTL

(* The value of the abstract table. *)
TableOf == [f \in FD |-> IF f \in avail THEN descriptor[f] ELSE NoHandle]

(* A step of the map is a step of the table: _open takes effect in Fill,   *)
(* _close in CloseCall, and every other step leaves the table alone.       *)
LEMMA TableStep ==
  ~AllowDup /\ NoDupSafe /\ NoDupSafe' /\ [Next]_vars
    => [Table!Next]_TableOf
<1>. SUFFICES ASSUME ~AllowDup, TypeOK, Indices, Ownership, OwnSlots,
                     HandlesApart, TypeOK', [Next]_vars
              PROVE [Table!Next]_TableOf
  BY DEF NoDupSafe, Safe
<1>. USE FdManAssumption DEF TypeOK, OwnSlots, Goto, local
<1>0. CASE UNCHANGED vars
  BY <1>0 DEF vars, TableOf
<1>. SUFFICES ASSUME NEW t \in Threads,
                     OpenFail(t) \/ OpenCall(t) \/ DupCall(t) \/ CloseCall(t)
                       \/ Lock(t) \/ Step(t)
              PROVE [Table!Next]_TableOf
  BY <1>0 DEF Next
<1>1. CASE Fill(t)
  <2>1. /\ pc[t] = "fill" /\ i[t] \in FD /\ i[t] \notin avail
        /\ descriptormap[i[t]] = i[t]
    BY <1>1 DEF Fill, Indices, Ownership, Holds
  <2>2. /\ scefd[t] \in Handles
        /\ \A f \in avail : descriptor[f] # scefd[t]
    BY <1>1 DEF Fill, HandlesApart, Opening
  <2>3. TableOf' = [TableOf EXCEPT ![i[t]] = scefd[t]]
    BY <1>1, <2>1 DEF Fill, TableOf
  <2>4. PICK f \in FD, h \in Handles : f = i[t] /\ h = scefd[t]
    BY <2>1, <2>2
  <2>5. Table!Open(f, h)
    BY <2>1, <2>2, <2>3, <2>4 DEF Table!Open, TableOf
  <2>. QED BY <2>5 DEF Table!Next
<1>2. CASE CloseCall(t)
  <2>1. PICK f \in avail : avail' = avail \ {f}
    BY <1>2 DEF CloseCall
  <2>2. f \in FD /\ descriptor[f] # NoHandle
    BY <2>1 DEF HandlesApart
  <2>3. TableOf' = [TableOf EXCEPT ![f] = NoHandle]
    BY <1>2, <2>1 DEF CloseCall, TableOf
  <2>4. Table!Close(f)
    BY <2>1, <2>2, <2>3 DEF Table!Close, TableOf
  <2>. QED BY <2>2, <2>4 DEF Table!Next
<1>3. CASE RelClear(t)
  <2>. fd[t] \in FD /\ fd[t] \notin avail /\ descriptormap[fd[t]] = fd[t]
    BY <1>3 DEF RelClear, Indices, Ownership, Holds, Closing
  <2>. QED BY <1>3 DEF RelClear, TableOf
<1>4. CASE \/ OpenFail(t) \/ OpenCall(t) \/ Lock(t) \/ Scan(t) \/ Claim(t)
           \/ IncLoad(t) \/ IncStore(t) \/ Unlock(t) \/ Full(t)
           \/ CloseTest(t) \/ DecLoad(t) \/ DecStore(t) \/ RelTest(t)
           \/ RelUnmap(t)
  <2>. UNCHANGED <<descriptor, avail>>
    BY <1>4 DEF OpenFail, OpenCall, Lock, Scan, Claim, IncLoad, IncStore,
                Unlock, Full, CloseTest, DecLoad, DecStore, RelTest, RelUnmap,
                vars
  <2>. QED BY DEF TableOf
<1>. QED BY <1>1, <1>2, <1>3, <1>4 DEF Step, DupCall

(* As long as the program does not call dup, the descriptor manager        *)
(* implements the abstract table of FdTable.                               *)
THEOREM ImplementsTable == ASSUME ~AllowDup PROVE Spec => RefinesFdTable
<1>1. Init => Table!Init
  BY FdManAssumption DEF Init, fdman_init, Table!Init, FD, StdFds
<1>2. NoDupSafe /\ NoDupSafe' /\ [Next]_vars => [Table!Next]_TableOf
  BY TableStep
<1>. QED BY NoDupInvariant, <1>1, <1>2, PTL
            DEF Spec, RefinesFdTable, Table!Spec, TableOf

-----------------------------------------------------------------------------
(* When the standard descriptors stay open, ref_count of every other slot  *)
(* is 1 from the claim of its entry to its release, and a close therefore  *)
(* sees the last reference.                                                *)
OwnCounts ==
  /\ StdFds \subseteq avail
  /\ \A f \in FD \ StdFds :
       /\ descriptormap[f] = Null => ref_count[f] = 0
       /\ f \in avail => ref_count[f] = 1
  /\ \A t \in Threads :
       /\ pc[t] \in {"inc_load", "inc_store"} => ref_count[i[t]] = 0
       /\ pc[t] \in {"unlock", "fill"} => ref_count[i[t]] = 1
       /\ pc[t] = "inc_store" => reg[t] = 0
       /\ pc[t] \in {"close_test", "dec_load", "dec_store"} => ref_count[fd[t]] = 1
       /\ pc[t] = "dec_store" => reg[t] = 1
       /\ pc[t] \in {"rel_test", "rel_clear", "rel_unmap"} => ref_count[fd[t]] = 0

LEMMA OwnCountsStep ==
  ~AllowDup /\ ~AllowCloseStd /\ NoDupSafe /\ OwnCounts /\ [Next]_vars => OwnCounts'
<1>. SUFFICES ASSUME ~AllowDup, ~AllowCloseStd, TypeOK, Indices, Ownership, OwnSlots,
                     OwnCounts, [Next]_vars
              PROVE OwnCounts'
  BY DEF NoDupSafe, Safe
<1>. USE FdManAssumption DEF TypeOK, Indices, Ownership, OwnSlots, OwnCounts, Holds,
           Goto, local, Labels, Critical, Closing
<1>0. CASE UNCHANGED vars
  BY <1>0 DEF vars
<1>. SUFFICES ASSUME NEW t \in Threads,
                     OpenFail(t) \/ OpenCall(t) \/ DupCall(t) \/ CloseCall(t)
                       \/ Lock(t) \/ Step(t)
              PROVE OwnCounts'
  BY <1>0 DEF Next
<1>1. CASE OpenFail(t) BY <1>1 DEF OpenFail, vars
<1>2. CASE OpenCall(t) BY <1>2 DEF OpenCall
<1>3. CASE DupCall(t) BY <1>3 DEF DupCall
<1>4. CASE Lock(t) BY <1>4 DEF Lock
<1>5. CASE Scan(t) BY <1>5 DEF Scan
<1>6. CASE Claim(t) BY <1>6 DEF Claim
<1>7. CASE IncLoad(t) BY <1>7 DEF IncLoad
<1>8. CASE IncStore(t) BY <1>8 DEF IncStore, Inc
<1>9. CASE Unlock(t) BY <1>9 DEF Unlock, Return
<1>10. CASE Fill(t) BY <1>10 DEF Fill, Return
<1>11. CASE Full(t) BY <1>11 DEF Full, Return
<1>12. CASE CloseCall(t) BY <1>12 DEF CloseCall
<1>13. CASE CloseTest(t) BY <1>13 DEF CloseTest
<1>14. CASE DecLoad(t) BY <1>14 DEF DecLoad
<1>15. CASE DecStore(t) BY <1>15 DEF DecStore, Dec
<1>16. CASE RelTest(t) BY <1>16 DEF RelTest
<1>17. CASE RelClear(t) BY <1>17 DEF RelClear
<1>18. CASE RelUnmap(t) BY <1>18 DEF RelUnmap, Return
<1>. QED BY <1>1, <1>2, <1>3, <1>4, <1>5, <1>6, <1>7, <1>8, <1>9,
            <1>10, <1>11, <1>12, <1>13, <1>14, <1>15, <1>16, <1>17, <1>18 DEF Step

LEMMA LeakStep ==
  ~AllowDup /\ ~AllowCloseStd /\ NoDupSafe /\ OwnCounts /\ NoHandleLeak /\ [Next]_vars
    => NoHandleLeak'
<1>. SUFFICES ASSUME ~AllowDup, ~AllowCloseStd, TypeOK, Indices, Ownership, OwnSlots,
                     OwnCounts, NoHandleLeak, [Next]_vars
              PROVE NoHandleLeak'
  BY DEF NoDupSafe, Safe
<1>. USE FdManAssumption DEF TypeOK, Indices, Ownership, OwnSlots, NoHandleLeak, Opening,
           Holds, Goto, local, Labels, Critical, Closing
<1>0. CASE UNCHANGED vars
  BY <1>0 DEF vars
<1>. SUFFICES ASSUME NEW t \in Threads,
                     OpenFail(t) \/ OpenCall(t) \/ DupCall(t) \/ CloseCall(t)
                       \/ Lock(t) \/ Step(t)
              PROVE NoHandleLeak'
  BY <1>0 DEF Next
<1>1. CASE OpenFail(t) BY <1>1 DEF OpenFail, vars
<1>2. CASE OpenCall(t) BY <1>2 DEF OpenCall
<1>3. CASE DupCall(t) BY <1>3 DEF DupCall
<1>4. CASE Lock(t) BY <1>4 DEF Lock
<1>5. CASE Scan(t) BY <1>5 DEF Scan
<1>6. CASE Claim(t)
  <2>1. \A f \in avail : descriptormap'[f] = descriptormap[f] BY <1>6 DEF Claim
  <2>2. \A u \in Threads : pc[u] = "close_test" =>
          pc'[u] = "close_test" /\ descriptormap'[fd[u]] = descriptormap[fd[u]]
    BY <1>6 DEF Claim
  <2>3. \A u \in Threads : Opening(u) => Opening(u)' BY <1>6 DEF Claim
  <2>. QED BY <1>6, <2>1, <2>2, <2>3 DEF Claim
<1>7. CASE IncLoad(t) BY <1>7 DEF IncLoad
<1>8. CASE IncStore(t) BY <1>8 DEF IncStore
<1>9. CASE Unlock(t) BY <1>9 DEF Unlock, Return
<1>10. CASE Fill(t)
  <2>1. /\ pc[t] = "fill" /\ i[t] \in FD /\ i[t] \notin avail
        /\ descriptormap[i[t]] = i[t]
    BY <1>10 DEF Fill
  <2>2. descriptor'[i[t]] = scefd[t] /\ \A f \in FD \ {i[t]} : descriptor'[f] = descriptor[f]
    BY <1>10, <2>1 DEF Fill
  <2>3. \A f \in avail : descriptormap[f] = f /\ f \in FD /\ f # i[t] BY <2>1
  <2>4. \A u \in Threads : pc[u] = "close_test" =>
          /\ pc'[u] = "close_test" /\ fd'[u] = fd[u]
          /\ fd[u] \in FD /\ descriptormap[fd[u]] = fd[u] /\ fd[u] # i[t]
    BY <1>10, <2>1 DEF Fill, Return
  <2>5. \A u \in Threads \ {t} : Opening(u) => Opening(u)' /\ scefd'[u] = scefd[u]
    BY <1>10 DEF Fill, Return
  <2>6. avail' = avail \cup {i[t]} /\ live' = live /\ descriptormap' = descriptormap
    BY <1>10 DEF Fill
  <2>7. ASSUME NEW h \in live
        PROVE  \/ \E f \in avail' : descriptor'[descriptormap[f]] = h
               \/ \E u \in Threads : Opening(u)' /\ scefd'[u] = h
               \/ \E u \in Threads : pc'[u] = "close_test"
                                     /\ descriptor'[descriptormap[fd'[u]]] = h
    <3>1. CASE \E f \in avail : descriptor[descriptormap[f]] = h
      BY <2>2, <2>3, <2>6, <3>1
    <3>2. CASE scefd[t] = h BY <2>1, <2>2, <2>6, <3>2
    <3>3. CASE \E u \in Threads \ {t} : Opening(u) /\ scefd[u] = h BY <2>5, <3>3
    <3>4. CASE \E u \in Threads : pc[u] = "close_test"
                                  /\ descriptor[descriptormap[fd[u]]] = h
      BY <2>2, <2>4, <3>4
    <3>. QED BY <3>1, <3>2, <3>3, <3>4
  <2>. QED BY <2>6, <2>7
<1>11. CASE Full(t) BY <1>11 DEF Full, Return
<1>12. CASE CloseCall(t)
  <2>1. PICK f \in avail : fd' = [fd EXCEPT ![t] = f] /\ avail' = avail \ {f}
    BY <1>12 DEF CloseCall
  <2>2. pc'[t] = "close_test" /\ fd'[t] = f BY <1>12, <2>1 DEF CloseCall
  <2>3. \A u \in Threads : Opening(u) => Opening(u)' BY <1>12 DEF CloseCall
  <2>4. \A u \in Threads : pc[u] = "close_test" => pc'[u] = pc[u] /\ fd'[u] = fd[u]
    BY <1>12, <2>1 DEF CloseCall
  <2>5. UNCHANGED <<descriptormap, descriptor, live, scefd>> BY <1>12 DEF CloseCall
  <2>6. ASSUME NEW h \in live
        PROVE  \/ \E g \in avail' : descriptor[descriptormap[g]] = h
               \/ \E u \in Threads : Opening(u)' /\ scefd[u] = h
               \/ \E u \in Threads : pc'[u] = "close_test"
                                     /\ descriptor[descriptormap[fd'[u]]] = h
    <3>1. CASE \E g \in avail : descriptor[descriptormap[g]] = h BY <2>1, <2>2, <3>1
    <3>2. CASE \E u \in Threads : Opening(u) /\ scefd[u] = h BY <2>3, <3>2
    <3>3. CASE \E u \in Threads : pc[u] = "close_test"
                                  /\ descriptor[descriptormap[fd[u]]] = h
      BY <2>4, <3>3
    <3>. QED BY <3>1, <3>2, <3>3
  <2>. QED BY <2>5, <2>6
<1>13. CASE CloseTest(t) BY <1>13 DEF CloseTest, OwnCounts
<1>14. CASE DecLoad(t) BY <1>14 DEF DecLoad
<1>15. CASE DecStore(t) BY <1>15 DEF DecStore
<1>16. CASE RelTest(t) BY <1>16 DEF RelTest
<1>17. CASE RelClear(t)
  <2>1. fd[t] \in FD /\ fd[t] \notin avail /\ descriptormap[fd[t]] = fd[t]
        /\ pc[t] = "rel_clear"
    BY <1>17 DEF RelClear
  <2>2. \A f \in FD \ {fd[t]} : descriptor'[f] = descriptor[f]
    BY <1>17, <2>1 DEF RelClear
  <2>3. \A f \in avail : f \in FD /\ f # fd[t] /\ descriptormap[f] = f BY <2>1
  <2>4. \A u \in Threads : pc[u] = "close_test" =>
          /\ pc'[u] = "close_test" /\ fd[u] \in FD
          /\ fd[u] # fd[t] /\ descriptormap[fd[u]] = fd[u]
    BY <1>17, <2>1 DEF RelClear
  <2>5. \A u \in Threads : Opening(u) => Opening(u)' BY <1>17 DEF RelClear
  <2>6. UNCHANGED <<descriptormap, live, avail, scefd, fd>> BY <1>17 DEF RelClear
  <2>7. ASSUME NEW h \in live
        PROVE  \/ \E f \in avail : descriptor'[descriptormap[f]] = h
               \/ \E u \in Threads : Opening(u)' /\ scefd[u] = h
               \/ \E u \in Threads : pc'[u] = "close_test"
                                     /\ descriptor'[descriptormap[fd[u]]] = h
    <3>1. CASE \E f \in avail : descriptor[descriptormap[f]] = h BY <2>2, <2>3, <3>1
    <3>2. CASE \E u \in Threads : Opening(u) /\ scefd[u] = h BY <2>5, <3>2
    <3>3. CASE \E u \in Threads : pc[u] = "close_test"
                                  /\ descriptor[descriptormap[fd[u]]] = h
      BY <2>2, <2>4, <3>3
    <3>. QED BY <3>1, <3>2, <3>3
  <2>. QED BY <2>6, <2>7
<1>18. CASE RelUnmap(t)
  <2>1. \A f \in avail : descriptormap'[f] = descriptormap[f] BY <1>18 DEF RelUnmap
  <2>2. \A u \in Threads : pc[u] = "close_test" =>
          /\ pc'[u] = "close_test" /\ fd'[u] = fd[u]
          /\ descriptormap'[fd[u]] = descriptormap[fd[u]]
    BY <1>18 DEF RelUnmap, Return
  <2>3. \A u \in Threads : Opening(u) => Opening(u)' /\ scefd'[u] = scefd[u]
    BY <1>18 DEF RelUnmap, Return
  <2>4. ASSUME NEW h \in live
        PROVE  \/ \E f \in avail : descriptor[descriptormap'[f]] = h
               \/ \E u \in Threads : Opening(u)' /\ scefd'[u] = h
               \/ \E u \in Threads : pc'[u] = "close_test"
                                     /\ descriptor[descriptormap'[fd'[u]]] = h
    <3>1. CASE \E f \in avail : descriptor[descriptormap[f]] = h BY <2>1, <3>1
    <3>2. CASE \E u \in Threads : Opening(u) /\ scefd[u] = h BY <2>3, <3>2
    <3>3. CASE \E u \in Threads : pc[u] = "close_test"
                                  /\ descriptor[descriptormap[fd[u]]] = h
      BY <2>2, <3>3
    <3>. QED BY <3>1, <3>2, <3>3
  <2>. QED BY <1>18, <2>4 DEF RelUnmap
<1>. QED BY <1>1, <1>2, <1>3, <1>4, <1>5, <1>6, <1>7, <1>8, <1>9,
            <1>10, <1>11, <1>12, <1>13, <1>14, <1>15, <1>16, <1>17, <1>18 DEF Step

(* As long as the program does not call dup and keeps the standard         *)
(* descriptors, no kernel handle is lost: a full map gives the handle of   *)
(* sceIoOpen back, and _close finds ref_count at 1 whatever other threads  *)
(* release at the same time.                                               *)
THEOREM HandlesNotLeaked ==
  ASSUME ~AllowDup, ~AllowCloseStd PROVE Spec => []NoHandleLeak
<1>1. Init => OwnCounts /\ NoHandleLeak
  <2>1. Init => OwnCounts
    BY FdManAssumption DEF Init, fdman_init, OwnCounts
  <2>2. Init => NoHandleLeak
    BY FdManAssumption DEF Init, fdman_init, NoHandleLeak
  <2>. QED BY <2>1, <2>2
<1>2. NoDupSafe /\ OwnCounts /\ NoHandleLeak /\ [Next]_vars => (OwnCounts /\ NoHandleLeak)'
  BY OwnCountsStep, LeakStep
<1>. QED BY NoDupInvariant, <1>1, <1>2, PTL DEF Spec

-----------------------------------------------------------------------------
(* One thread that may also dup, and close the standard descriptors.       *)
Entries(s) == {f \in FD : descriptormap[f] = s}

(* Entry i is mapped and not yet counted, or fd uncounted and still mapped. *)
Pending(t, s) ==
  \/ pc[t] \in {"inc_load", "inc_store"} /\ s = descriptormap[i[t]]
  \/ pc[t] \in {"rel_test", "rel_clear", "rel_unmap"} /\ s = descriptormap[fd[t]]
Counted(s) == ref_count[s] + (IF s \in StdFds THEN 1 ELSE 0)
                           + (IF \E t \in Threads : Pending(t, s) THEN 1 ELSE 0)

(* ref_count and what is pending make the number of entries, up to one     *)
(* turn of the unsigned counter, which a closed standard slot has made.    *)
CountInv == \A s \in FD : Cardinality(Entries(s)) \in {Counted(s), Counted(s) - RefMod}
Registers ==
  \A t \in Threads :
    /\ pc[t] = "inc_store" => reg[t] = ref_count[descriptormap[i[t]]]
    /\ pc[t] = "dec_store" => reg[t] = ref_count[descriptormap[fd[t]]]

(* The scan leaves no free entry behind it. *)
Scanned ==
  \A t \in Threads : pc[t] \in {"scan", "claim"} =>
    \A g \in 0 .. i[t] - 1 : descriptormap[g] # Null

LEMMA RegistersStep ==
  ASSUME NEW t0, Threads = {t0}, Safe, Registers, [Next]_vars PROVE Registers'
<1>. USE FdManAssumption DEF Safe, TypeOK, Indices, Ownership, Holds, Registers, Goto, local,
           Labels, Critical, Closing
<1>0. CASE UNCHANGED vars
  BY <1>0 DEF vars
<1>. SUFFICES ASSUME NEW t \in Threads,
                     OpenFail(t) \/ OpenCall(t) \/ DupCall(t) \/ CloseCall(t)
                       \/ Lock(t) \/ Step(t)
              PROVE Registers'
  BY <1>0 DEF Next
<1>1. CASE OpenFail(t) BY <1>1 DEF OpenFail, vars
<1>2. CASE OpenCall(t) BY <1>2 DEF OpenCall
<1>3. CASE DupCall(t) BY <1>3 DEF DupCall
<1>4. CASE Lock(t) BY <1>4 DEF Lock
<1>5. CASE Scan(t) BY <1>5 DEF Scan
<1>6. CASE Claim(t) BY <1>6 DEF Claim
<1>7. CASE IncLoad(t) BY <1>7 DEF IncLoad
<1>8. CASE IncStore(t) BY <1>8 DEF IncStore
<1>9. CASE Unlock(t) BY <1>9 DEF Unlock, Return
<1>10. CASE Fill(t) BY <1>10 DEF Fill, Return
<1>11. CASE Full(t) BY <1>11 DEF Full, Return
<1>12. CASE CloseCall(t) BY <1>12 DEF CloseCall
<1>13. CASE CloseTest(t) BY <1>13 DEF CloseTest
<1>14. CASE DecLoad(t) BY <1>14 DEF DecLoad
<1>15. CASE DecStore(t) BY <1>15 DEF DecStore
<1>16. CASE RelTest(t) BY <1>16 DEF RelTest
<1>17. CASE RelClear(t) BY <1>17 DEF RelClear
<1>18. CASE RelUnmap(t) BY <1>18 DEF RelUnmap, Return
<1>. QED BY <1>1, <1>2, <1>3, <1>4, <1>5, <1>6, <1>7, <1>8, <1>9,
            <1>10, <1>11, <1>12, <1>13, <1>14, <1>15, <1>16, <1>17, <1>18 DEF Step

LEMMA ScannedStep ==
  ASSUME NEW t0, Threads = {t0}, Safe, Scanned, [Next]_vars PROVE Scanned'
<1>. USE FdManAssumption DEF Safe, TypeOK, Indices, Scanned, Goto, local, Labels, Critical,
           Closing
<1>0. CASE UNCHANGED vars
  BY <1>0 DEF vars
<1>. SUFFICES ASSUME NEW t \in Threads,
                     OpenFail(t) \/ OpenCall(t) \/ DupCall(t) \/ CloseCall(t)
                       \/ Lock(t) \/ Step(t)
              PROVE Scanned'
  BY <1>0 DEF Next
<1>1. CASE OpenFail(t) BY <1>1 DEF OpenFail, vars
<1>2. CASE OpenCall(t) BY <1>2 DEF OpenCall
<1>3. CASE DupCall(t) BY <1>3 DEF DupCall
<1>4. CASE Lock(t) BY <1>4 DEF Lock
<1>5. CASE Scan(t) BY <1>5 DEF Scan
<1>6. CASE Claim(t) BY <1>6 DEF Claim
<1>7. CASE IncLoad(t) BY <1>7 DEF IncLoad
<1>8. CASE IncStore(t) BY <1>8 DEF IncStore
<1>9. CASE Unlock(t) BY <1>9 DEF Unlock, Return
<1>10. CASE Fill(t) BY <1>10 DEF Fill, Return
<1>11. CASE Full(t) BY <1>11 DEF Full, Return
<1>12. CASE CloseCall(t) BY <1>12 DEF CloseCall
<1>13. CASE CloseTest(t) BY <1>13 DEF CloseTest
<1>14. CASE DecLoad(t) BY <1>14 DEF DecLoad
<1>15. CASE DecStore(t) BY <1>15 DEF DecStore
<1>16. CASE RelTest(t) BY <1>16 DEF RelTest
<1>17. CASE RelClear(t) BY <1>17 DEF RelClear
<1>18. CASE RelUnmap(t) BY <1>18 DEF RelUnmap, Return
<1>. QED BY <1>1, <1>2, <1>3, <1>4, <1>5, <1>6, <1>7, <1>8, <1>9,
            <1>10, <1>11, <1>12, <1>13, <1>14, <1>15, <1>16, <1>17, <1>18 DEF Step

(* Numbers of entries are natural and at most FILENO_MAX. *)
LEMMA EntriesFinite ==
  ASSUME NEW S \in SUBSET FD
  PROVE  IsFiniteSet(S) /\ Cardinality(S) \in Nat /\ Cardinality(S) <= FILENO_MAX
<1>1. IsFiniteSet(FD) /\ Cardinality(FD) = FILENO_MAX
  BY FS_Interval, FdManAssumption DEF FD
<1>. QED BY <1>1, FS_Subset, FS_CardinalityType

(* Mapping a free entry adds one to the entries of a slot, unmapping one   *)
(* takes one away, and the other slots keep theirs.                        *)
LEMMA EntriesMap ==
  ASSUME descriptormap \in [FD -> FD \cup {Null}], NEW f \in FD, NEW s \in FD,
         descriptormap[f] = Null, descriptormap' = [descriptormap EXCEPT ![f] = s]
  PROVE  /\ Cardinality(Entries(s)') = Cardinality(Entries(s)) + 1
         /\ \A r \in FD \ {s} : Entries(r)' = Entries(r)
<1>. USE FdManAssumption DEF Entries
<1>1. Entries(s)' = Entries(s) \cup {f} /\ f \notin Entries(s) OBVIOUS
<1>2. IsFiniteSet(Entries(s)) BY EntriesFinite
<1>3. Cardinality(Entries(s) \cup {f}) = Cardinality(Entries(s)) + 1
  BY <1>1, <1>2, FS_AddElement
<1>. QED BY <1>1, <1>3

LEMMA EntriesUnmap ==
  ASSUME descriptormap \in [FD -> FD \cup {Null}], NEW f \in FD, NEW s \in FD,
         descriptormap[f] = s, descriptormap' = [descriptormap EXCEPT ![f] = Null]
  PROVE  /\ Cardinality(Entries(s)') = Cardinality(Entries(s)) - 1
         /\ \A r \in FD \ {s} : Entries(r)' = Entries(r)
<1>. USE FdManAssumption DEF Entries
<1>1. Entries(s)' = Entries(s) \ {f} /\ f \in Entries(s) OBVIOUS
<1>2. IsFiniteSet(Entries(s)) BY EntriesFinite
<1>3. Cardinality(Entries(s) \ {f}) = Cardinality(Entries(s)) - 1
  BY <1>1, <1>2, FS_RemoveElement
<1>. QED BY <1>1, <1>3

(* What is pending is pending for the one thread. *)
LEMMA OnlyPending ==
  ASSUME NEW t0, Threads = {t0}, NEW t \in Threads
  PROVE  \A s \in FD : /\ (\E u \in Threads : Pending(u, s)) <=> Pending(t, s)
                       /\ (\E u \in Threads : Pending(u, s)') <=> Pending(t, s)'
<1>1. \A u \in Threads : u = t OBVIOUS
<1>2. ASSUME NEW s \in FD, NEW u \in Threads, Pending(u, s) PROVE Pending(t, s)
  BY <1>1, <1>2 DEF Pending
<1>3. ASSUME NEW s \in FD, NEW u \in Threads, Pending(u, s)' PROVE Pending(t, s)'
  BY <1>1, <1>3 DEF Pending
<1>. QED BY <1>2, <1>3

(* A step of the one thread keeps the count, for the counter takes every   *)
(* value of a register that was current, and no slot has as many entries   *)
(* as the counter has values.                                              *)
LEMMA CountStep ==
  ASSUME NEW t0, Threads = {t0}, FILENO_MAX < RefMod, Safe, Registers, CountInv, [Next]_vars
  PROVE  CountInv'
<1>p. \A t \in Threads, s \in FD :
        /\ Counted(s) = ref_count[s] + (IF s \in StdFds THEN 1 ELSE 0)
                                     + (IF Pending(t, s) THEN 1 ELSE 0)
        /\ Counted(s)' = ref_count'[s] + (IF s \in StdFds THEN 1 ELSE 0)
                                       + (IF Pending(t, s)' THEN 1 ELSE 0)
  BY OnlyPending DEF Counted
<1>. USE FdManAssumption DEF Safe, TypeOK, Indices, Ownership, Holds, CountInv, Pending,
           Goto, local, Labels, Critical, Closing
<1>s. ASSUME UNCHANGED <<descriptormap, ref_count>>,
             \A u \in Threads, s \in FD : Pending(u, s)' <=> Pending(u, s)
      PROVE  CountInv'
  <2>1. \A s \in FD : Entries(s)' = Entries(s) /\ Counted(s)' = Counted(s)
    BY <1>s DEF Entries, Counted
  <2>. QED BY <2>1
<1>c. \A s \in FD :
        /\ IsFiniteSet(Entries(s)) /\ Cardinality(Entries(s)) \in Nat
        /\ Cardinality(Entries(s)) <= FILENO_MAX
        /\ IsFiniteSet(Entries(s)') /\ Cardinality(Entries(s)') \in Nat
        /\ Cardinality(Entries(s)') <= FILENO_MAX
  BY EntriesFinite DEF Entries
<1>0. CASE UNCHANGED vars
  BY <1>0, <1>s DEF vars
<1>. SUFFICES ASSUME NEW t \in Threads,
                     OpenFail(t) \/ OpenCall(t) \/ DupCall(t) \/ CloseCall(t)
                       \/ Lock(t) \/ Step(t)
              PROVE CountInv'
  BY <1>0 DEF Next
<1>1. CASE OpenFail(t)
  BY <1>s, <1>1 DEF OpenFail, vars
<1>2. CASE OpenCall(t)
  BY <1>s, <1>2 DEF OpenCall
<1>3. CASE DupCall(t)
  BY <1>s, <1>3 DEF DupCall
<1>4. CASE Lock(t)
  BY <1>s, <1>4 DEF Lock
<1>5. CASE Scan(t)
  BY <1>s, <1>5 DEF Scan
<1>6. CASE Claim(t)
  <2>1. PICK s \in FD : s = IF op[t] = "open" THEN i[t] ELSE fd[t]
    BY <1>6 DEF Claim
  <2>2. /\ i[t] \in FD /\ descriptormap[i[t]] = Null
        /\ descriptormap' = [descriptormap EXCEPT ![i[t]] = s]
    BY <1>6, <2>1 DEF Claim
  <2>3. /\ Cardinality(Entries(s)') = Cardinality(Entries(s)) + 1
        /\ \A r \in FD \ {s} : Entries(r)' = Entries(r)
    BY <2>2, EntriesMap
  <2>4. \A r \in FD : ~Pending(t, r) /\ (Pending(t, r)' <=> r = s)
    BY <1>6, <2>2 DEF Claim
  <2>. QED BY <1>6, <1>p, <1>c, <2>3, <2>4 DEF Claim
<1>7. CASE IncLoad(t)
  BY <1>s, <1>7 DEF IncLoad
<1>8. CASE IncStore(t)
  <2>1. PICK s \in FD : s = descriptormap[i[t]] /\ reg[t] = ref_count[s]
    BY <1>8 DEF IncStore, Registers
  <2>2. \A r \in FD : ~Pending(t, r)' /\ (Pending(t, r) <=> r = s)
    BY <1>8, <2>1 DEF IncStore
  <2>3. /\ ref_count' = [ref_count EXCEPT ![s] = Inc(ref_count[s])]
        /\ \A r \in FD : Entries(r)' = Entries(r)
    BY <1>8, <2>1 DEF IncStore, Entries
  <2>. QED BY <1>p, <1>c, <2>2, <2>3 DEF Inc
<1>9. CASE Unlock(t)
  BY <1>s, <1>9 DEF Unlock, Return
<1>10. CASE Fill(t)
  BY <1>s, <1>10 DEF Fill, Return
<1>11. CASE Full(t)
  BY <1>s, <1>11 DEF Full, Return
<1>12. CASE CloseCall(t)
  BY <1>s, <1>12 DEF CloseCall
<1>13. CASE CloseTest(t)
  BY <1>s, <1>13 DEF CloseTest
<1>14. CASE DecLoad(t)
  BY <1>s, <1>14 DEF DecLoad
<1>15. CASE DecStore(t)
  <2>1. PICK s \in FD : s = descriptormap[fd[t]] /\ reg[t] = ref_count[s]
    BY <1>15 DEF DecStore, Registers
  <2>2. \A r \in FD : ~Pending(t, r) /\ (Pending(t, r)' <=> r = s)
    BY <1>15, <2>1 DEF DecStore
  <2>3. /\ ref_count' = [ref_count EXCEPT ![s] = Dec(ref_count[s])]
        /\ \A r \in FD : Entries(r)' = Entries(r)
    BY <1>15, <2>1 DEF DecStore, Entries
  <2>4. Cardinality(Entries(s)) # 0
    <3>1. fd[t] \in Entries(s) BY <1>15, <2>1 DEF DecStore, Entries
    <3>. QED BY <3>1, <1>c, FS_EmptySet
  <2>. QED BY <1>p, <1>c, <2>2, <2>3, <2>4 DEF Dec
<1>16. CASE RelTest(t)
  BY <1>s, <1>16 DEF RelTest
<1>17. CASE RelClear(t)
  BY <1>s, <1>17 DEF RelClear
<1>18. CASE RelUnmap(t)
  <2>1. PICK s \in FD : s = descriptormap[fd[t]]
    BY <1>18 DEF RelUnmap
  <2>2. /\ fd[t] \in FD
        /\ descriptormap' = [descriptormap EXCEPT ![fd[t]] = Null]
    BY <1>18 DEF RelUnmap
  <2>3. /\ Cardinality(Entries(s)') = Cardinality(Entries(s)) - 1
        /\ \A r \in FD \ {s} : Entries(r)' = Entries(r)
    BY <2>1, <2>2, EntriesUnmap
  <2>4. \A r \in FD : ~Pending(t, r)' /\ (Pending(t, r) <=> r = s)
    BY <1>18, <2>1 DEF RelUnmap, Return
  <2>. QED BY <1>18, <1>p, <1>c, <2>3, <2>4 DEF RelUnmap
<1>. QED BY <1>1, <1>2, <1>3, <1>4, <1>5, <1>6, <1>7, <1>8, <1>9,
            <1>10, <1>11, <1>12, <1>13, <1>14, <1>15, <1>16, <1>17, <1>18 DEF Step

LEMMA OneThreadInvariant ==
  ASSUME NEW t0, Threads = {t0}, FILENO_MAX < RefMod
  PROVE  Spec => [](Safe /\ Registers /\ CountInv)
<1>1. Init => Registers /\ CountInv
  <2>. SUFFICES ASSUME Init PROVE Registers /\ CountInv
    OBVIOUS
  <2>1. Registers BY DEF Init, Registers
  <2>2. ASSUME NEW s \in FD PROVE Cardinality(Entries(s)) = Counted(s)
    <3>1. ~ \E t \in Threads : Pending(t, s) BY DEF Init, Pending
    <3>2. ref_count[s] = 0 BY DEF Init, fdman_init
    <3>3. CASE s \in StdFds
      <4>1. Entries(s) = {s} BY <3>3, FdManAssumption DEF Init, fdman_init, Entries
      <4>2. Cardinality({s}) = 1 BY FS_Singleton
      <4>3. Counted(s) = 1 BY <3>1, <3>2, <3>3 DEF Counted
      <4>. QED BY <4>1, <4>2, <4>3
    <3>4. CASE s \notin StdFds
      <4>1. Entries(s) = {} BY <3>4, FdManAssumption DEF Init, fdman_init, Entries
      <4>. QED BY <3>1, <3>2, <3>4, <4>1, FS_EmptySet DEF Counted
    <3>. QED BY <3>3, <3>4
  <2>. QED BY <2>1, <2>2 DEF CountInv
<1>2. Safe /\ Registers /\ CountInv /\ [Next]_vars => (Safe /\ Registers /\ CountInv)'
  BY SafeStep, RegistersStep, CountStep
<1>. QED BY SafeInit, <1>1, <1>2, PTL DEF Spec

LEMMA Remainder ==
  ASSUME NEW m \in Nat, m > 0
  PROVE  /\ \A n \in 0 .. m - 1 : n % m = n
         /\ m % m = 0
OBVIOUS

(* With one thread, ref_count between calls is the number of entries of    *)
(* the slot, whatever the program opens, duplicates and closes: it counts  *)
(* modulo 2^32, which exceeds the number of descriptors, and so it wraps   *)
(* only for the standard slots, that __fdman_init does not count.          *)
THEOREM CountsExact ==
  ASSUME NEW t0, Threads = {t0}, FILENO_MAX < RefMod PROVE Spec => []RefCountExact
<1>1. Safe /\ CountInv => RefCountExact
  <2>. SUFFICES ASSUME Safe, CountInv, \A t \in Threads : pc[t] = "idle", NEW s \in FD
                PROVE  (ref_count[s] + IF s \in StdFds THEN 1 ELSE 0) % RefMod
                         = Cardinality(Entries(s))
    BY DEF RefCountExact, Entries
  <2>. DEFINE c == ref_count[s] + IF s \in StdFds THEN 1 ELSE 0
              n == Cardinality(Entries(s))
  <2>1. n \in Nat /\ n < RefMod
    BY EntriesFinite, FdManAssumption DEF Entries
  <2>2. c \in 0 .. RefMod BY FdManAssumption DEF Safe, TypeOK
  <2>3. Counted(s) = c
    <3>1. ~ \E t \in Threads : Pending(t, s) BY DEF Pending
    <3>2. ref_count[s] \in Nat BY FdManAssumption DEF Safe, TypeOK
    <3>. QED BY <3>1, <3>2 DEF Counted
  <2>4. n = c \/ n = c - RefMod BY <2>3 DEF CountInv
  <2>5. c % RefMod = n
    <3>. HIDE DEF c, n
    <3>1. CASE n = c BY <2>1, <3>1, Remainder, FdManAssumption
    <3>2. CASE n = c - RefMod
      <4>1. c = RefMod /\ n = 0 BY <2>1, <2>2, <3>2, FdManAssumption
      <4>. QED BY <4>1, Remainder, FdManAssumption
    <3>. QED BY <2>4, <3>1, <3>2
  <2>. QED BY <2>5 DEF c, n
<1>. QED BY <1>1, OneThreadInvariant, PTL

(* With one thread, open and dup take the lowest free entry: nothing is    *)
(* released behind the scan.                                               *)
THEOREM LowestTaken ==
  ASSUME NEW t0, Threads = {t0} PROVE Spec => LowestDescriptor
<1>1. Safe /\ Scanned /\ [Next]_vars =>
        [\A f \in FD : descriptormap[f] = Null /\ descriptormap'[f] # Null
           => \A g \in 0 .. f - 1 : descriptormap[g] # Null]_vars
  <2>. SUFFICES ASSUME Safe, Scanned, [Next]_vars, NEW f \in FD,
                       descriptormap[f] = Null, descriptormap'[f] # Null,
                       NEW g \in 0 .. f - 1
                PROVE  descriptormap[g] # Null
    OBVIOUS
  <2>. USE FdManAssumption DEF Safe, TypeOK, local
  <2>1. descriptormap' # descriptormap OBVIOUS
  <2>2. PICK t \in Threads : Claim(t) \/ RelUnmap(t)
    BY <2>1 DEF Next, Step, vars, OpenFail, OpenCall, DupCall, CloseCall, Lock, Scan,
                IncLoad, IncStore, Unlock, Fill, Full, CloseTest, DecLoad, DecStore,
                RelTest, RelClear
  <2>3. CASE Claim(t)
    <3>1. f = i[t] BY <2>3 DEF Claim
    <3>. QED BY <2>3, <3>1 DEF Claim, Scanned
  <2>4. CASE RelUnmap(t) BY <2>4 DEF RelUnmap
  <2>. QED BY <2>2, <2>3, <2>4
<1>2. Init => Scanned BY DEF Init, Scanned
<1>3. Safe /\ Scanned /\ [Next]_vars => (Safe /\ Scanned)' BY SafeStep, ScannedStep
<1>. QED BY <1>1, <1>2, <1>3, SafeInit, PTL DEF LowestDescriptor, Spec
=============================================================================
