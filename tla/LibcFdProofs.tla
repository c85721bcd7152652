---------------------------- MODULE LibcFdProofs ----------------------------
(***************************************************************************)
(* Proofs about LibcFd, for any program, any number of descriptors and any *)
(* kernel objects.                                                         *)
(***************************************************************************)
EXTENDS LibcFd, FiniteSetTheorems, TLAPS

(* A socket's slot holds a UID: only _lseekDir stores an error code. *)
SocketSlots == \A s \in FD : pool[s].type = "socket" => pool[s].descriptor \in Uids

Maps == [FD -> FD \cup {Null}]

LEMMA FDFinite == IsFiniteSet(FD) /\ Cardinality(FD) = FILENO_MAX
BY LibcFdAssumption, FS_Interval, 0 \in Int, FILENO_MAX - 1 \in Int DEF FD

(* No slot has more references than there are entries. *)
LEMMA CountBound ==
  ASSUME NEW map, NEW s
  PROVE  /\ IsFiniteSet(References(map, s))
         /\ Cardinality(References(map, s)) \in 0 .. FILENO_MAX
<1>1. References(map, s) \subseteq FD
  BY DEF References
<1>2. IsFiniteSet(References(map, s))
  BY <1>1, FDFinite, FS_Subset
<1>3. Cardinality(References(map, s)) \in Nat
  BY <1>2, FS_CardinalityType
<1>4. Cardinality(References(map, s)) <= FILENO_MAX
  BY <1>1, FDFinite, FS_Subset
<1>. QED BY <1>2, <1>3, <1>4, LibcFdAssumption

(* Taking a free entry adds one to the count of its slot and to no other. *)
LEMMA CountAdd ==
  ASSUME NEW map \in Maps, NEW f \in FD, NEW s \in FD, map[f] = Null
  PROVE  LET map2 == [map EXCEPT ![f] = s] IN
           /\ map2 \in Maps
           /\ CountOf(map2, s) = Inc(CountOf(map, s))
           /\ \A r \in FD \ {s} : CountOf(map2, r) = CountOf(map, r)
<1>. DEFINE map2 == [map EXCEPT ![f] = s]
<1>1. map2 \in Maps
  BY DEF Maps
<1>2. References(map2, s) = References(map, s) \cup {f} /\ f \notin References(map, s)
  BY LibcFdAssumption DEF Maps, References
<1>3. Cardinality(References(map2, s)) = Cardinality(References(map, s)) + 1
  BY <1>2, CountBound, FS_AddElement
<1>4. \A r \in FD \ {s} : References(map2, r) = References(map, r)
  BY LibcFdAssumption DEF Maps, References
<1>5. CountOf(map2, s) = Inc(CountOf(map, s))
  <2>. DEFINE n == Cardinality(References(map, s))
              d == IF s \in StdFds THEN 1 ELSE 0
  <2>1. n \in 0 .. FILENO_MAX /\ Cardinality(References(map2, s)) = n + 1
    BY <1>3, CountBound
  <2>2. d \in {0, 1}
    OBVIOUS
  <2>3. /\ CountOf(map, s) = IF n - d = -1 THEN RefMod - 1 ELSE n - d
        /\ CountOf(map2, s) = IF n + 1 - d = -1 THEN RefMod - 1 ELSE n + 1 - d
    BY <2>1 DEF CountOf
  <2>. HIDE DEF n, d
  <2>. QED BY <2>1, <2>2, <2>3, LibcFdAssumption DEF Inc
<1>6. ASSUME NEW r \in FD \ {s} PROVE CountOf(map2, r) = CountOf(map, r)
  <2>. References(map2, r) = References(map, r)
    BY <1>4
  <2>. HIDE DEF map2
  <2>. QED BY DEF CountOf
<1>. QED BY <1>1, <1>5, <1>6

(* Releasing an entry takes one from the count of its slot and no other. *)
LEMMA CountDrop ==
  ASSUME NEW map \in Maps, NEW f \in FD, map[f] # Null
  PROVE  LET map2 == [map EXCEPT ![f] = Null] IN
           /\ map2 \in Maps
           /\ CountOf(map2, map[f]) = Dec(CountOf(map, map[f]))
           /\ \A r \in FD \ {map[f]} : CountOf(map2, r) = CountOf(map, r)
<1>. DEFINE map2 == [map EXCEPT ![f] = Null]
            s == map[f]
<1>1. map2 \in Maps /\ s \in FD
  BY DEF Maps
<1>2. References(map2, s) = References(map, s) \ {f} /\ f \in References(map, s)
  BY <1>1, LibcFdAssumption DEF Maps, References
<1>3. Cardinality(References(map2, s)) = Cardinality(References(map, s)) - 1
  BY <1>2, CountBound, FS_RemoveElement
<1>4. \A r \in FD \ {s} : References(map2, r) = References(map, r)
  BY LibcFdAssumption DEF Maps, References
<1>5. CountOf(map2, s) = Dec(CountOf(map, s))
  <2>. DEFINE n == Cardinality(References(map, s))
              d == IF s \in StdFds THEN 1 ELSE 0
  <2>1. /\ n \in 0 .. FILENO_MAX /\ Cardinality(References(map2, s)) = n - 1
        /\ n - 1 \in 0 .. FILENO_MAX
    BY <1>3, CountBound
  <2>2. d \in {0, 1}
    OBVIOUS
  <2>3. /\ CountOf(map, s) = IF n - d = -1 THEN RefMod - 1 ELSE n - d
        /\ CountOf(map2, s) = IF n - 1 - d = -1 THEN RefMod - 1 ELSE n - 1 - d
    BY <2>1 DEF CountOf
  <2>. HIDE DEF n, d
  <2>. QED BY <2>1, <2>2, <2>3, LibcFdAssumption DEF Dec
<1>6. ASSUME NEW r \in FD \ {s} PROVE CountOf(map2, r) = CountOf(map, r)
  <2>. References(map2, r) = References(map, r)
    BY <1>4
  <2>. HIDE DEF map2
  <2>. QED BY DEF CountOf
<1>. QED BY <1>1, <1>5, <1>6
-----------------------------------------------------------------------------
LEMMA CountedSlot ==
  ASSUME NEW slot \in Slot
  PROVE  /\ Counted(slot) \in Slot
         /\ Counted(slot).ref_count = Inc(slot.ref_count)
         /\ Counted(slot).type = slot.type
         /\ Counted(slot).descriptor = slot.descriptor
<1>. Inc(slot.ref_count) \in 0 .. RefMod - 1
  BY LibcFdAssumption DEF Slot, Inc
<1>. QED BY DEF Counted, Slot

LEMMA NewSlotType ==
  ASSUME NEW slot \in Slot, NEW k \in Kinds, NEW u \in Uids
  PROVE  /\ NewSlot(slot, k, u) \in Slot
         /\ NewSlot(slot, k, u).ref_count = Inc(slot.ref_count)
         /\ NewSlot(slot, k, u).descriptor = u
<1>. DEFINE c == Counted(slot)
<1>. c \in Slot /\ c.ref_count = Inc(slot.ref_count)
  BY CountedSlot
<1>. NewSlot(slot, k, u) = [c EXCEPT !.descriptor = u, !.type = k]
  BY DEF NewSlot
<1>. HIDE DEF c
<1>. QED BY DEF Slot

LEMMA NamedSlot ==
  ASSUME NEW slot \in Slot, NEW nb \in BOOLEAN, NEW named \in BOOLEAN
  PROVE  /\ Named(slot, nb, named) \in Slot
         /\ Named(slot, nb, named).ref_count = slot.ref_count
         /\ Named(slot, nb, named).descriptor = slot.descriptor
BY DEF Named, Slot

LEMMA ReleasedSlot ==
  ASSUME NEW slot \in Slot
  PROVE  /\ Released(slot) \in Slot
         /\ Released(slot).ref_count = Dec(slot.ref_count)
         /\ Released(slot).type = "socket" =>
              Released(slot).type = slot.type /\ Released(slot).descriptor = slot.descriptor
<1>. Dec(slot.ref_count) \in 0 .. RefMod - 1
  BY LibcFdAssumption DEF Slot, Dec
<1>1. Empty \in Slot /\ Empty.ref_count = 0 /\ Empty.type = "file"
  BY LibcFdAssumption DEF Empty, Slot, Kinds
<1>2. CASE Dec(slot.ref_count) = 0
  BY <1>1, <1>2 DEF Released, Slot
<1>3. CASE Dec(slot.ref_count) # 0
  BY <1>3 DEF Released, Slot
<1>. QED BY <1>2, <1>3

(* fcntl asks setsockopt for the flag that it has stored. *)
LEMMA FlagOfOption == \A nb \in BOOLEAN : ((IF nb THEN 1 ELSE 0) = 1) = nb
<1>. SUFFICES ASSUME NEW nb \in BOOLEAN PROVE ((IF nb THEN 1 ELSE 0) = 1) = nb
  OBVIOUS
<1>1. CASE nb = TRUE BY <1>1
<1>2. CASE nb = FALSE BY <1>2
<1>. QED BY <1>1, <1>2

LEMMA TypeStep ==
  TypeOK /\ SocketSlots /\ [Next]_vars => TypeOK' /\ SocketSlots'
<1>. SUFFICES ASSUME TypeOK, SocketSlots, [Next]_vars
              PROVE  TypeOK' /\ SocketSlots'
  OBVIOUS
<1>. USE LibcFdAssumption DEF TypeOK, SocketSlots
<1>1. CASE UNCHANGED vars
  BY <1>1 DEF vars
<1>2. CASE CallFails
  BY <1>2 DEF CallFails, vars
<1>3. ASSUME NEW k \in Kinds, NEW u \in Uids, NEW f \in FD, NEW nb \in BOOLEAN,
             NEW named \in BOOLEAN,
             descriptormap' = [descriptormap EXCEPT ![f] = f],
             \/ pool' = [pool EXCEPT ![f] = NewSlot(@, k, u)]
             \/ pool' = [pool EXCEPT ![f] = Named(NewSlot(@, k, u), nb, named)],
             kernel' = Bind(kernel, u, k), held' = Bind(held, f, u),
             strings' \in Int, nonblocking' = nonblocking
      PROVE  TypeOK' /\ SocketSlots'
  <2>1. /\ NewSlot(pool[f], k, u) \in Slot
        /\ Named(NewSlot(pool[f], k, u), nb, named) \in Slot
        /\ NewSlot(pool[f], k, u).descriptor = u
        /\ Named(NewSlot(pool[f], k, u), nb, named).descriptor = u
    <3>1. pool[f] \in Slot
      OBVIOUS
    <3>2. NewSlot(pool[f], k, u) \in Slot /\ NewSlot(pool[f], k, u).descriptor = u
      BY <3>1, NewSlotType
    <3>. QED
      BY <3>2, NamedSlot
  <2>2. pool' \in [FD -> Slot] /\ pool'[f].descriptor = u
        /\ \A s \in FD \ {f} : pool'[s] = pool[s]
    BY <1>3, <2>1
  <2>3. DOMAIN kernel' \subseteq Uids /\ \A v \in DOMAIN kernel' : kernel'[v] \in Kinds
    BY <1>3 DEF Bind
  <2>4. DOMAIN held' \subseteq FD /\ \A g \in DOMAIN held' : held'[g] \in Uids \cup {Error}
    BY <1>3 DEF Bind
  <2>5. SocketSlots'
    BY <2>2
  <2>. QED BY <1>3, <2>2, <2>3, <2>4, <2>5
<1>4. CASE Open \/ Socket \/ Accept
  <2>1. CASE Open
    BY <1>1, <1>3, <2>1 DEF Open, NewDescriptor, Kinds
  <2>2. CASE Socket \/ Accept
    <3>. SUFFICES ASSUME ~UNCHANGED vars PROVE TypeOK' /\ SocketSlots'
      BY <1>1
    <3>1. PICK u \in Uids, f \in FD :
            /\ descriptormap' = [descriptormap EXCEPT ![f] = f]
            /\ pool' = [pool EXCEPT ![f] = NewSlot(@, "socket", u)]
            /\ kernel' = Bind(kernel, u, "socket")
            /\ held' = Bind(held, f, u)
            /\ strings' = strings + 0 /\ nonblocking' = nonblocking
      BY <2>2 DEF Socket, Accept, NewDescriptor
    <3>2. "socket" \in Kinds /\ TRUE \in BOOLEAN /\ strings' \in Int
      BY <3>1 DEF Kinds
    <3>. QED BY <1>3, <3>1, <3>2
  <2>. QED BY <1>4, <2>1, <2>2
<1>6. CASE Pipe
  <2>. SUFFICES ASSUME ~UNCHANGED vars PROVE TypeOK' /\ SocketSlots'
    BY <1>1
  <2>1. PICK u \in Uids, f \in FD :
          /\ \/ \E g \in FD :
                  /\ descriptormap' = [[descriptormap EXCEPT ![f] = f] EXCEPT ![g] = f]
                  /\ pool' = [pool EXCEPT ![f] = Counted(NewSlot(@, "pipe", u))]
                  /\ kernel' = Bind(kernel, u, "pipe")
                  /\ held' = Bind(Bind(held, f, u), g, u)
             \/ /\ descriptormap' = [descriptormap EXCEPT ![f] = f]
                /\ pool' = [pool EXCEPT ![f] = NewSlot(@, "pipe", u)]
                /\ UNCHANGED <<kernel, held>>
          /\ UNCHANGED <<nonblocking, strings>>
    BY <1>6 DEF Pipe
  <2>2. /\ NewSlot(pool[f], "pipe", u) \in Slot
        /\ Counted(NewSlot(pool[f], "pipe", u)) \in Slot
        /\ NewSlot(pool[f], "pipe", u).descriptor = u
        /\ Counted(NewSlot(pool[f], "pipe", u)).descriptor = u
    <3>1. NewSlot(pool[f], "pipe", u) \in Slot /\ NewSlot(pool[f], "pipe", u).descriptor = u
      BY NewSlotType, "pipe" \in Kinds DEF Kinds
    <3>. QED BY <3>1, CountedSlot
  <2>3. pool' \in [FD -> Slot] /\ pool'[f].descriptor = u
        /\ \A s \in FD \ {f} : pool'[s] = pool[s]
    BY <2>1, <2>2
  <2>4. descriptormap' \in [FD -> FD \cup {Null}]
    BY <2>1
  <2>5. DOMAIN kernel' \subseteq Uids /\ \A v \in DOMAIN kernel' : kernel'[v] \in Kinds
    <3>1. CASE kernel' = kernel BY <3>1
    <3>2. CASE kernel' = Bind(kernel, u, "pipe") BY <3>2 DEF Bind, Kinds
    <3>. QED BY <2>1, <3>1, <3>2
  <2>6. DOMAIN held' \subseteq FD /\ \A g \in DOMAIN held' : held'[g] \in Uids \cup {Error}
    BY <2>1 DEF Bind
  <2>. QED BY <2>1, <2>3, <2>4, <2>5, <2>6
<1>7. CASE Dup
  <2>. SUFFICES ASSUME ~UNCHANGED vars PROVE TypeOK' /\ SocketSlots'
    BY <1>1
  <2>1. PICK f \in DOMAIN held, g \in FD :
          /\ descriptormap' = [descriptormap EXCEPT ![g] = f]
          /\ pool' = [pool EXCEPT ![f] = Counted(@)]
          /\ held' = Bind(held, g, held[f])
          /\ UNCHANGED <<kernel, nonblocking, strings>>
    BY <1>7 DEF Dup
  <2>2. /\ Counted(pool[f]) \in Slot /\ Counted(pool[f]).type = pool[f].type
        /\ Counted(pool[f]).descriptor = pool[f].descriptor
    BY CountedSlot
  <2>3. DOMAIN held' \subseteq FD /\ \A h \in DOMAIN held' : held'[h] \in Uids \cup {Error}
    BY <2>1 DEF Bind
  <2>. QED BY <2>1, <2>2, <2>3
<1>8. CASE Close
  BY <1>8, ReleasedSlot DEF Close, CloseFd, Closes, Unbind
<1>9. CASE SeekFolder
  BY <1>9 DEF SeekFolder, Closes, Slot, Kinds, Bind, Unbind
<1>10. CASE SetSockOpt
  <2>1. PICK f \in DOMAIN held, optval \in OptVals :
          /\ descriptormap[f] # Null /\ pool[descriptormap[f]].type = "socket"
          /\ setsockopt(descriptormap[f], optval, pool[descriptormap[f]])
          /\ UNCHANGED <<descriptormap, kernel, strings, held>>
    BY <1>10 DEF SetSockOpt
  <2>2. descriptormap[f] \in FD /\ pool[descriptormap[f]] \in Slot BY <2>1
  <2>3. PICK nb \in BOOLEAN : nb = (optval = 1) OBVIOUS
  <2>4. \/ pool' = [pool EXCEPT ![descriptormap[f]].nonblock = nb]
        \/ pool' = pool /\ nonblocking' = nonblocking
    BY <2>1, <2>2, <2>3, Zenon DEF setsockopt
  <2>5. nonblocking' \subseteq nonblocking \cup {pool[descriptormap[f]].descriptor}
    BY <2>1 DEF setsockopt
  <2>. QED BY <2>1, <2>2, <2>4, <2>5 DEF Slot, Kinds
<1>11. CASE SetFl
  <2>1. PICK f \in DOMAIN held, nb \in BOOLEAN :
          LET s == descriptormap[f]
              slot == [pool[s] EXCEPT !.nonblock = nb]
          IN  /\ s # Null
              /\ IF slot.type = "socket"
                   THEN setsockopt(s, IF nb THEN 1 ELSE 0, slot)
                   ELSE /\ pool' = [pool EXCEPT ![s] = slot]
                        /\ nonblocking' = nonblocking
              /\ UNCHANGED <<descriptormap, kernel, strings, held>>
    BY <1>11 DEF SetFl
  <2>. DEFINE s == descriptormap[f]
              slot == [pool[s] EXCEPT !.nonblock = nb]
  <2>2. /\ slot \in Slot
        /\ [slot EXCEPT !.nonblock = ((IF nb THEN 1 ELSE 0) = 1)] = slot
        /\ slot.type = pool[s].type /\ slot.descriptor = pool[s].descriptor
    <3>. pool[s] \in Slot
      BY <2>1
    <3>1. ((IF nb THEN 1 ELSE 0) = 1) = nb BY FlagOfOption
    <3>2. [slot EXCEPT !.nonblock = nb] = slot
      <4>. HIDE DEF s
      <4>. QED BY DEF Slot
    <3>3. slot \in Slot /\ slot.type = pool[s].type /\ slot.descriptor = pool[s].descriptor
      <4>. HIDE DEF s
      <4>. QED BY DEF Slot
    <3>. QED BY <3>1, <3>2, <3>3, Zenon
  <2>3. /\ pool' = [pool EXCEPT ![s] = slot] /\ s \in FD
        /\ slot.type = "socket" /\ nonblocking' # nonblocking
              => nonblocking' \subseteq nonblocking \cup {slot.descriptor}
        /\ slot.type # "socket" => nonblocking' = nonblocking
    BY <2>1, <2>2 DEF setsockopt
  <2>. HIDE DEF slot, s
  <2>. QED BY <2>1, <2>2, <2>3
<1>12. CASE SetFd
  BY <1>12 DEF SetFd, Slot, Kinds
<1>. QED BY <1>1, <1>2, <1>4, <1>6, <1>7, <1>8, <1>9, <1>10, <1>11, <1>12 DEF Next

LEMMA CountStep ==
  TypeOK /\ RefCountAccurate /\ [Next]_vars => RefCountAccurate'
<1>. SUFFICES ASSUME TypeOK, RefCountAccurate, [Next]_vars
              PROVE  RefCountAccurate'
  OBVIOUS
<1>0. descriptormap \in Maps /\ pool \in [FD -> Slot]
  BY DEF TypeOK, Maps
<1>. USE DEF RefCountAccurate
<1>1. CASE UNCHANGED <<descriptormap, pool>>
  BY <1>1
<1>2. ASSUME NEW f \in FD, NEW s \in FD, descriptormap[f] = Null,
             descriptormap' = [descriptormap EXCEPT ![f] = s],
             pool'[s].ref_count = Inc(pool[s].ref_count),
             \A r \in FD \ {s} : pool'[r] = pool[r]
      PROVE  RefCountAccurate'
  <2>1. /\ CountOf(descriptormap', s) = Inc(CountOf(descriptormap, s))
        /\ \A r \in FD \ {s} : CountOf(descriptormap', r) = CountOf(descriptormap, r)
    BY <1>0, <1>2, CountAdd
  <2>. QED BY <1>2, <2>1
<1>3. CASE Open \/ Socket \/ Accept
  <2>. SUFFICES ASSUME ~UNCHANGED vars PROVE RefCountAccurate'
    BY <1>1 DEF vars
  <2>1. PICK k \in Kinds, u \in Uids, f \in FD, nb \in BOOLEAN, named \in BOOLEAN :
          /\ FirstFree(descriptormap, f)
          /\ descriptormap' = [descriptormap EXCEPT ![f] = f]
          /\ \/ pool' = [pool EXCEPT ![f] = NewSlot(@, k, u)]
             \/ pool' = [pool EXCEPT ![f] = Named(NewSlot(@, k, u), nb, named)]
    <3>1. CASE Open
      BY <3>1 DEF Open, NewDescriptor, Kinds
    <3>2. CASE Socket \/ Accept
      <4>1. "socket" \in Kinds /\ TRUE \in BOOLEAN
        BY DEF Kinds
      <4>2. \E u \in Uids, f \in FD :
              /\ FirstFree(descriptormap, f)
              /\ descriptormap' = [descriptormap EXCEPT ![f] = f]
              /\ pool' = [pool EXCEPT ![f] = NewSlot(@, "socket", u)]
        BY <3>2 DEF Socket, Accept, NewDescriptor
      <4>. QED BY <4>1, <4>2
    <3>. QED BY <1>3, <3>1, <3>2
  <2>2. /\ NewSlot(pool[f], k, u).ref_count = Inc(pool[f].ref_count)
        /\ Named(NewSlot(pool[f], k, u), nb, named).ref_count = Inc(pool[f].ref_count)
    BY <1>0, NewSlotType, NamedSlot
  <2>3. /\ pool'[f].ref_count = Inc(pool[f].ref_count)
        /\ \A r \in FD \ {f} : pool'[r] = pool[r]
    BY <1>0, <2>1, <2>2
  <2>. QED BY <1>2, <2>1, <2>3 DEF FirstFree
<1>4. CASE Pipe
  <2>. SUFFICES ASSUME ~UNCHANGED vars PROVE RefCountAccurate'
    BY <1>1 DEF vars
  <2>1. PICK u \in Uids, f \in FD :
          /\ FirstFree(descriptormap, f)
          /\ \/ \E g \in FD :
                  /\ FirstFree([descriptormap EXCEPT ![f] = f], g)
                  /\ descriptormap' = [[descriptormap EXCEPT ![f] = f] EXCEPT ![g] = f]
                  /\ pool' = [pool EXCEPT ![f] = Counted(NewSlot(@, "pipe", u))]
             \/ /\ descriptormap' = [descriptormap EXCEPT ![f] = f]
                /\ pool' = [pool EXCEPT ![f] = NewSlot(@, "pipe", u)]
    BY <1>4 DEF Pipe
  <2>2. /\ NewSlot(pool[f], "pipe", u) \in Slot
        /\ NewSlot(pool[f], "pipe", u).ref_count = Inc(pool[f].ref_count)
    BY <1>0, NewSlotType, "pipe" \in Kinds DEF Kinds
  <2>3. Counted(NewSlot(pool[f], "pipe", u)).ref_count = Inc(Inc(pool[f].ref_count))
    BY <2>2, CountedSlot
  <2>4. CASE pool' = [pool EXCEPT ![f] = NewSlot(@, "pipe", u)]
             /\ descriptormap' = [descriptormap EXCEPT ![f] = f]
    BY <1>0, <1>2, <2>1, <2>2, <2>4 DEF FirstFree
  <2>5. ASSUME NEW g \in FD,
               FirstFree([descriptormap EXCEPT ![f] = f], g),
               descriptormap' = [[descriptormap EXCEPT ![f] = f] EXCEPT ![g] = f],
               pool' = [pool EXCEPT ![f] = Counted(NewSlot(@, "pipe", u))]
        PROVE  RefCountAccurate'
    <3>. DEFINE map1 == [descriptormap EXCEPT ![f] = f]
    <3>1. /\ map1 \in Maps
          /\ CountOf(map1, f) = Inc(CountOf(descriptormap, f))
          /\ \A r \in FD \ {f} : CountOf(map1, r) = CountOf(descriptormap, r)
      BY <1>0, <2>1, CountAdd DEF FirstFree
    <3>2. map1[g] = Null /\ descriptormap' = [map1 EXCEPT ![g] = f]
      BY <2>5 DEF FirstFree
    <3>. HIDE DEF map1
    <3>3. /\ CountOf(descriptormap', f) = Inc(CountOf(map1, f))
          /\ \A r \in FD \ {f} : CountOf(descriptormap', r) = CountOf(map1, r)
      BY <3>1, <3>2, CountAdd
    <3>4. /\ pool'[f].ref_count = Inc(Inc(pool[f].ref_count))
          /\ \A r \in FD \ {f} : pool'[r] = pool[r]
      BY <1>0, <2>3, <2>5
    <3>. QED BY <3>1, <3>3, <3>4
  <2>. QED BY <2>1, <2>4, <2>5
<1>5. CASE Dup
  <2>. SUFFICES ASSUME ~UNCHANGED vars PROVE RefCountAccurate'
    BY <1>1 DEF vars
  <2>1. PICK f \in FD, g \in FD :
          /\ FirstFree(descriptormap, g)
          /\ descriptormap' = [descriptormap EXCEPT ![g] = f]
          /\ pool' = [pool EXCEPT ![f] = Counted(@)]
    BY <1>5 DEF Dup, TypeOK
  <2>2. Counted(pool[f]).ref_count = Inc(pool[f].ref_count)
    BY <1>0, CountedSlot
  <2>. QED BY <1>0, <1>2, <2>1, <2>2 DEF FirstFree
<1>6. CASE Close
  <2>1. PICK f \in FD :
          /\ descriptormap[f] # Null
          /\ descriptormap' = [descriptormap EXCEPT ![f] = Null]
          /\ pool' = [pool EXCEPT ![descriptormap[f]] = Released(@)]
    BY <1>6 DEF Close, CloseFd, TypeOK
  <2>. DEFINE s == descriptormap[f]
  <2>2. s \in FD /\ Released(pool[s]).ref_count = Dec(pool[s].ref_count)
    BY <1>0, <2>1, ReleasedSlot DEF Maps
  <2>3. /\ CountOf(descriptormap', s) = Dec(CountOf(descriptormap, s))
        /\ \A r \in FD \ {s} : CountOf(descriptormap', r) = CountOf(descriptormap, r)
    BY <1>0, <2>1, CountDrop
  <2>4. /\ pool'[s].ref_count = Dec(pool[s].ref_count)
        /\ \A r \in FD \ {s} : pool'[r] = pool[r]
    BY <1>0, <2>1, <2>2
  <2>. HIDE DEF s
  <2>. QED BY <2>2, <2>3, <2>4
<1>7. CASE SeekFolder \/ SetSockOpt \/ SetFl \/ SetFd
  <2>1. /\ descriptormap' = descriptormap
        /\ \A r \in FD : pool'[r].ref_count = pool[r].ref_count
    <3>1. CASE SeekFolder
      BY <1>0, <3>1 DEF SeekFolder, Slot
    <3>2. CASE SetSockOpt
      BY <1>0, <3>2 DEF SetSockOpt, setsockopt, Slot
    <3>3. CASE SetFl
      <4>1. PICK f \in DOMAIN held, nb \in BOOLEAN :
              LET r == descriptormap[f]
                  slot == [pool[r] EXCEPT !.nonblock = nb]
              IN  /\ r # Null
                  /\ IF slot.type = "socket"
                       THEN setsockopt(r, IF nb THEN 1 ELSE 0, slot)
                       ELSE pool' = [pool EXCEPT ![r] = slot]
                  /\ descriptormap' = descriptormap
        BY <3>3 DEF SetFl
      <4>. DEFINE r == descriptormap[f]
                  slot == [pool[r] EXCEPT !.nonblock = nb]
      <4>2. r \in FD /\ pool[r] \in Slot
        BY <1>0, <4>1 DEF TypeOK
      <4>3. /\ [slot EXCEPT !.nonblock = ((IF nb THEN 1 ELSE 0) = 1)] = slot
            /\ slot.ref_count = pool[r].ref_count
        <5>1. ((IF nb THEN 1 ELSE 0) = 1) = nb BY FlagOfOption
        <5>2. [slot EXCEPT !.nonblock = nb] = slot /\ slot.ref_count = pool[r].ref_count
          <6>. HIDE DEF r
          <6>. QED BY <4>2 DEF Slot
        <5>. QED BY <5>1, <5>2, Zenon
      <4>4. pool' = [pool EXCEPT ![r] = slot]
        BY <4>1, <4>3 DEF setsockopt
      <4>. HIDE DEF slot, r
      <4>. QED BY <1>0, <4>1, <4>2, <4>3, <4>4
    <3>4. CASE SetFd
      BY <1>0, <3>4 DEF SetFd, Slot
    <3>. QED BY <1>7, <3>1, <3>2, <3>3, <3>4
  <2>. QED BY <2>1
<1>. QED BY <1>1, <1>3, <1>4, <1>5, <1>6, <1>7 DEF Next, CallFails, vars

LEMMA CountInit == Init => RefCountAccurate
<1>. SUFFICES ASSUME Init, NEW s \in FD
              PROVE  pool[s].ref_count = CountOf(descriptormap, s)
  BY DEF RefCountAccurate
<1>1. pool[s].ref_count = 0
  BY DEF Init, Empty
<1>2. CASE s \in StdFds
  <2>. References(descriptormap, s) = {s}
    BY <1>2, LibcFdAssumption DEF Init, References
  <2>. Cardinality({s}) = 1
    BY FS_Singleton
  <2>. QED BY <1>1, <1>2 DEF CountOf
<1>3. CASE s \notin StdFds
  <2>. References(descriptormap, s) = {}
    BY <1>3, LibcFdAssumption DEF Init, References
  <2>. Cardinality({}) = 0
    BY FS_EmptySet
  <2>. QED BY <1>1, <1>3 DEF CountOf
<1>. QED BY <1>2, <1>3

LEMMA TypeInit == Init => TypeOK /\ SocketSlots
<1>. SUFFICES ASSUME Init PROVE TypeOK /\ SocketSlots
  OBVIOUS
<1>1. Empty \in Slot /\ Empty.type = "file"
  BY LibcFdAssumption DEF Empty, Slot, Kinds
<1>2. ASSUME NEW u \in Uids
      PROVE  LET slot == [Empty EXCEPT !.descriptor = u, !.type = "tty"] IN
               slot \in Slot /\ slot.type = "tty"
  BY <1>1 DEF Slot, Kinds
<1>3. pool \in [FD -> Slot] /\ SocketSlots
  BY <1>1, <1>2, LibcFdAssumption DEF Init, SocketSlots
<1>4. \A u \in DOMAIN kernel : kernel[u] \in Kinds
  BY DEF Init, Kinds
<1>5. /\ DOMAIN kernel \subseteq Uids /\ DOMAIN held \subseteq FD
      /\ \A f \in DOMAIN held : held[f] \in Uids \cup {Error}
  BY LibcFdAssumption DEF Init, StdFds
<1>6. descriptormap \in [FD -> FD \cup {Null}]
  <2>. descriptormap = [f \in FD |-> IF f \in StdFds THEN f ELSE Null]
    BY DEF Init
  <2>. QED OBVIOUS
<1>7. nonblocking \subseteq Uids /\ strings \in Int
  <2>. nonblocking = {} /\ strings = 0
    BY DEF Init
  <2>. QED OBVIOUS
<1>. QED BY <1>3, <1>4, <1>5, <1>6, <1>7 DEF TypeOK

(* Whatever the program does, the variables keep their types. *)
THEOREM TypeCorrect == Spec => []TypeOK
BY TypeInit, TypeStep, PTL DEF Spec

(* Whatever the program does, including duplicating duplicates, closing    *)
(* originals first and closing the standard descriptors, ref_count of      *)
(* every slot is the number of entries that point at it, one less for the  *)
(* standard slots, through the wrap to 2^32 - 1.                           *)
THEOREM RefCountsAccurate == Spec => []RefCountAccurate
<1>1. Init => RefCountAccurate
  BY CountInit
<1>2. TypeOK /\ RefCountAccurate /\ [Next]_vars => RefCountAccurate'
  BY CountStep
<1>. QED BY <1>1, <1>2, TypeCorrect, PTL DEF Spec

-----------------------------------------------------------------------------
(* A program that leaves the standard descriptors as they are and closes   *)
(* an original after its duplicates.                                       *)
Tidy == {"dup_std", "close_std", "close_orig"} \cap Program = {}

(* An entry points at its own slot or at that of an original, which the    *)
(* program holds as long as it holds a duplicate; the slot of any other    *)
(* entry is empty, and a standard descriptor has no duplicate.             *)
Layout ==
  /\ \A f \in FD : descriptormap[f] # Null =>
                      descriptormap[descriptormap[f]] = descriptormap[f]
  /\ \A s \in FD : descriptormap[s] # s => pool[s] = Empty
  /\ \A f \in FD : descriptormap[f] \in StdFds => descriptormap[f] = f
  /\ StdFds \subseteq DOMAIN held
  /\ \A f \in DOMAIN held : descriptormap[f] \in DOMAIN held

(* Two descriptors name one object only through one slot. *)
SlotPerObject ==
  \A f, g \in DOMAIN held : held[f] = held[g] /\ held[f] # Error =>
                              descriptormap[f] = descriptormap[g]

(* Every mode belongs to an open socket. *)
ModesOfSockets == \A u \in nonblocking : u \in DOMAIN kernel /\ kernel[u] = "socket"

Objects == HeldNamesObject /\ SlotPerObject /\ NoKernelLeak

(* What the calls of a tidy program do, field by field. *)
SameObject(a, b) == a.descriptor = b.descriptor /\ a.type = b.type
SameUse(a, b) == a.filename = b.filename /\ a.nonblock = b.nonblock
OthersKept(s) == \A r \in FD \ {s} : pool'[r] = pool[r]

NewEntry(f, k, u) ==
  /\ descriptormap[f] = Null /\ descriptormap' = [descriptormap EXCEPT ![f] = f]
  /\ pool'[f].descriptor = u /\ pool'[f].type = k /\ OthersKept(f)
  /\ k = "socket" => pool'[f].nonblock = FALSE
  /\ kernel' = Bind(kernel, u, k) /\ held' = Bind(held, f, u)
  /\ strings' = strings + IF pool'[f].filename THEN 1 ELSE 0
  /\ nonblocking' = nonblocking

PipePair(f, g, u) ==
  /\ f # g /\ descriptormap[f] = Null /\ descriptormap[g] = Null
  /\ descriptormap' = [h \in FD |-> IF h \in {f, g} THEN f ELSE descriptormap[h]]
  /\ pool'[f].descriptor = u /\ pool'[f].type = "pipe" /\ OthersKept(f)
  /\ pool'[f].filename = FALSE
  /\ kernel' = Bind(kernel, u, "pipe") /\ held' = Bind(Bind(held, f, u), g, u)
  /\ UNCHANGED <<nonblocking, strings>>

PipeHalf(f) ==
  /\ descriptormap[f] = Null /\ descriptormap' = [descriptormap EXCEPT ![f] = f]
  /\ pool'[f].filename = FALSE /\ OthersKept(f)
  /\ UNCHANGED <<kernel, held, nonblocking, strings>>

DupEntry(f, g) ==
  /\ f \notin StdFds /\ descriptormap[f] = f
  /\ descriptormap[g] = Null /\ descriptormap' = [descriptormap EXCEPT ![g] = f]
  /\ SameObject(pool'[f], pool[f]) /\ SameUse(pool'[f], pool[f]) /\ OthersKept(f)
  /\ held' = Bind(held, g, held[f])
  /\ UNCHANGED <<kernel, nonblocking, strings>>

CloseDup(f, s) ==
  /\ f \notin StdFds /\ s # f /\ descriptormap[f] = s
  /\ descriptormap' = [descriptormap EXCEPT ![f] = Null]
  /\ SameObject(pool'[s], pool[s]) /\ SameUse(pool'[s], pool[s]) /\ OthersKept(s)
  /\ kernel' = Unbind(kernel, {}) /\ held' = Unbind(held, {f})
  /\ nonblocking' = nonblocking /\ strings' = strings

CloseLast(f) ==
  /\ f \notin StdFds /\ descriptormap[f] = f
  /\ \A g \in FD : descriptormap[g] = f => g = f
  /\ descriptormap' = [descriptormap EXCEPT ![f] = Null]
  /\ pool'[f] = Empty /\ OthersKept(f)
  /\ kernel' = Unbind(kernel, Closes(pool[f])) /\ held' = Unbind(held, {f})
  /\ nonblocking' = nonblocking \ Closes(pool[f])
  /\ strings' = strings - IF pool[f].filename THEN 1 ELSE 0

Reopen(s, u) ==
  LET shut == Unbind(kernel, Closes(pool[s])) IN
    /\ descriptormap[s] = s /\ pool[s].type = "folder" /\ u \notin DOMAIN shut
    /\ kernel' = IF u = Error THEN shut ELSE Bind(shut, u, "folder")
    /\ pool'[s].descriptor = u /\ pool'[s].type = "folder" /\ SameUse(pool'[s], pool[s])
    /\ OthersKept(s)
    /\ held' = [g \in DOMAIN held |-> IF descriptormap[g] = s THEN u ELSE held[g]]
    /\ UNCHANGED <<descriptormap, nonblocking, strings>>

SetMode(s) ==
  /\ descriptormap[s] = s
  /\ SameObject(pool'[s], pool[s]) /\ pool'[s].filename = pool[s].filename /\ OthersKept(s)
  /\ \A u : u # pool[s].descriptor => (u \in nonblocking' <=> u \in nonblocking)
  /\ pool[s].type # "socket" => nonblocking' = nonblocking
  /\ UNCHANGED <<descriptormap, kernel, strings, held>>

(* A new entry's slot is empty, so nothing of an earlier use shows. *)
LEMMA EmptySlot == Empty \in Slot /\ ~Empty.nonblock /\ ~Empty.filename
BY LibcFdAssumption DEF Empty, Slot, Kinds

LEMMA NewShape ==
  ASSUME TypeOK, Layout, Open \/ Socket \/ Accept, ~UNCHANGED vars
  PROVE  \E k \in Kinds, u \in Uids \ DOMAIN kernel, f \in FD : NewEntry(f, k, u)
<1>. USE DEF TypeOK
<1>1. ASSUME NEW f \in FD, descriptormap[f] = Null, NEW k \in Kinds, NEW u \in Uids
      PROVE  LET slot == NewSlot(pool[f], k, u) IN
               /\ slot \in Slot /\ slot.descriptor = u /\ slot.type = k
               /\ slot.nonblock = FALSE /\ slot.filename = FALSE
  <2>1. pool[f] = Empty /\ Empty \in Slot BY <1>1, EmptySlot, LibcFdAssumption DEF Layout
  <2>2. NewSlot(pool[f], k, u) \in Slot BY NewSlotType
  <2>. QED BY <2>1, <2>2, EmptySlot DEF NewSlot, Counted, Slot
<1>2. CASE Open
  <2>2. PICK k \in {"file", "folder"}, u \in Uids \ DOMAIN kernel, nb \in BOOLEAN,
             named \in BOOLEAN, f \in FD :
          /\ FirstFree(descriptormap, f)
          /\ descriptormap' = [descriptormap EXCEPT ![f] = f]
          /\ pool' = [pool EXCEPT ![f] = Named(NewSlot(@, k, u), nb, named)]
          /\ kernel' = Bind(kernel, u, k)
          /\ held' = Bind(held, f, u)
          /\ strings' = strings + IF named THEN 1 ELSE 0
          /\ nonblocking' = nonblocking
    BY <1>2 DEF Open, NewDescriptor
  <2>. DEFINE slot == NewSlot(pool[f], k, u)
  <2>3. k \in Kinds /\ descriptormap[f] = Null BY <2>2 DEF Kinds, FirstFree
  <2>4. slot \in Slot /\ slot.descriptor = u /\ slot.type = k BY <1>1, <2>3
  <2>5. pool'[f] = Named(slot, nb, named) /\ OthersKept(f) BY <2>2 DEF OthersKept
  <2>6. /\ pool'[f].descriptor = u /\ pool'[f].type = k /\ pool'[f].filename = named
    <3>. HIDE DEF slot
    <3>. QED BY <2>4, <2>5 DEF Named, Slot
  <2>7. NewEntry(f, k, u) BY <2>2, <2>3, <2>5, <2>6 DEF NewEntry
  <2>. QED BY <2>3, <2>7
<1>3. CASE Socket \/ Accept
  <2>1. PICK u \in Uids \ DOMAIN kernel, f \in FD :
          /\ FirstFree(descriptormap, f)
          /\ descriptormap' = [descriptormap EXCEPT ![f] = f]
          /\ pool' = [pool EXCEPT ![f] = NewSlot(@, "socket", u)]
          /\ kernel' = Bind(kernel, u, "socket")
          /\ held' = Bind(held, f, u)
          /\ strings' = strings + 0
          /\ nonblocking' = nonblocking
    BY <1>3 DEF Socket, Accept, NewDescriptor
  <2>. DEFINE slot == NewSlot(pool[f], "socket", u)
  <2>2. "socket" \in Kinds /\ descriptormap[f] = Null BY <2>1 DEF Kinds, FirstFree
  <2>3. /\ slot.descriptor = u /\ slot.type = "socket"
        /\ slot.nonblock = FALSE /\ slot.filename = FALSE
    <3>1. pool[f] = Empty /\ Empty \in Slot
      BY <2>2, EmptySlot, LibcFdAssumption DEF Layout
    <3>. HIDE DEF TypeOK
    <3>. QED BY <3>1, EmptySlot DEF NewSlot, Counted, Slot
  <2>4. pool'[f] = slot /\ OthersKept(f) BY <2>1 DEF OthersKept
  <2>5. NewEntry(f, "socket", u) BY <2>1, <2>2, <2>3, <2>4 DEF NewEntry
  <2>. QED BY <2>2, <2>5
<1>. QED BY <1>2, <1>3

LEMMA PipeShape ==
  ASSUME TypeOK, Layout, Pipe, ~UNCHANGED vars
  PROVE  \/ \E f \in FD, g \in FD, u \in Uids \ DOMAIN kernel : PipePair(f, g, u)
         \/ \E f \in FD : PipeHalf(f)
<1>. USE LibcFdAssumption DEF TypeOK
<1>1. PICK u \in Uids \ DOMAIN kernel, f \in FD :
        /\ FirstFree(descriptormap, f)
        /\ \/ \E g \in FD :
                /\ FirstFree([descriptormap EXCEPT ![f] = f], g)
                /\ descriptormap' = [[descriptormap EXCEPT ![f] = f] EXCEPT ![g] = f]
                /\ pool' = [pool EXCEPT ![f] = Counted(NewSlot(@, "pipe", u))]
                /\ kernel' = Bind(kernel, u, "pipe")
                /\ held' = Bind(Bind(held, f, u), g, u)
           \/ /\ descriptormap' = [descriptormap EXCEPT ![f] = f]
              /\ pool' = [pool EXCEPT ![f] = NewSlot(@, "pipe", u)]
              /\ UNCHANGED <<kernel, held>>
        /\ UNCHANGED <<nonblocking, strings>>
  BY DEF Pipe
<1>. DEFINE slot == NewSlot(pool[f], "pipe", u)
<1>2. descriptormap[f] = Null BY <1>1 DEF FirstFree
<1>3. /\ slot \in Slot /\ slot.descriptor = u /\ slot.type = "pipe"
      /\ slot.filename = FALSE
  <2>1. pool[f] = Empty /\ Empty \in Slot BY <1>2, EmptySlot DEF Layout
  <2>2. slot \in Slot BY NewSlotType, "pipe" \in Kinds DEF Kinds
  <2>. QED BY <2>1, <2>2, EmptySlot DEF NewSlot, Counted, Slot
<1>4. /\ Counted(slot).descriptor = u /\ Counted(slot).type = "pipe"
      /\ Counted(slot).filename = FALSE
  <2>. HIDE DEF slot
  <2>. QED BY <1>3, CountedSlot DEF Counted, Slot
<1>5. OthersKept(f) BY <1>1 DEF OthersKept
<1>6. CASE /\ descriptormap' = [descriptormap EXCEPT ![f] = f]
           /\ pool' = [pool EXCEPT ![f] = NewSlot(@, "pipe", u)]
           /\ UNCHANGED <<kernel, held>>
  <2>1. pool'[f] = slot BY <1>6
  <2>. QED BY <1>1, <1>2, <1>3, <1>5, <1>6, <2>1 DEF PipeHalf
<1>7. ASSUME NEW g \in FD,
             FirstFree([descriptormap EXCEPT ![f] = f], g),
             descriptormap' = [[descriptormap EXCEPT ![f] = f] EXCEPT ![g] = f],
             pool' = [pool EXCEPT ![f] = Counted(NewSlot(@, "pipe", u))],
             kernel' = Bind(kernel, u, "pipe"),
             held' = Bind(Bind(held, f, u), g, u)
      PROVE  PipePair(f, g, u)
  <2>1. f # g /\ descriptormap[g] = Null BY <1>2, <1>7 DEF FirstFree
  <2>2. descriptormap' = [h \in FD |-> IF h \in {f, g} THEN f ELSE descriptormap[h]]
    BY <1>7
  <2>3. pool'[f] = Counted(slot) BY <1>7
  <2>. QED BY <1>1, <1>2, <1>4, <1>5, <1>7, <2>1, <2>2, <2>3 DEF PipePair
<1>. QED BY <1>1, <1>6, <1>7

LEMMA DupShape ==
  ASSUME TypeOK, Layout, Tidy, Dup, ~UNCHANGED vars
  PROVE  \E f \in DOMAIN held, g \in FD : DupEntry(f, g)
<1>. USE LibcFdAssumption DEF TypeOK
<1>1. PICK f \in DOMAIN held, g \in FD :
        /\ f \notin StdFds /\ descriptormap[f] = f
        /\ FirstFree(descriptormap, g)
        /\ descriptormap' = [descriptormap EXCEPT ![g] = f]
        /\ pool' = [pool EXCEPT ![f] = Counted(@)]
        /\ held' = Bind(held, g, held[f])
        /\ UNCHANGED <<kernel, nonblocking, strings>>
  BY DEF Dup, Tidy
<1>2. pool'[f] = Counted(pool[f]) /\ OthersKept(f) BY <1>1 DEF OthersKept
<1>3. SameObject(Counted(pool[f]), pool[f]) /\ SameUse(Counted(pool[f]), pool[f])
  BY DEF Counted, Slot, SameObject, SameUse
<1>4. DupEntry(f, g) BY <1>1, <1>2, <1>3 DEF DupEntry, FirstFree, SameObject, SameUse
<1>. QED BY <1>4

(* ref_count tells the last reference from the others. *)
LEMMA LastReference ==
  ASSUME TypeOK, RefCountAccurate, NEW f \in FD, descriptormap[f] \in FD \ StdFds
  PROVE  LET s == descriptormap[f] IN
           /\ pool[s].ref_count > 0
           /\ pool[s].ref_count = 1 => \A g \in FD : descriptormap[g] = s => g = f
           /\ s # f /\ descriptormap[s] = s => pool[s].ref_count > 1
<1>. DEFINE s == descriptormap[f]
            R == References(descriptormap, s)
<1>1. IsFiniteSet(R) /\ Cardinality(R) \in Nat BY CountBound
<1>2. f \in R BY DEF References
<1>3. Cardinality(R) # 0 BY <1>1, <1>2, FS_EmptySet
<1>4. pool[s].ref_count = Cardinality(R)
  BY <1>1 DEF RefCountAccurate, CountOf
<1>5. Cardinality(R) = 1 => \E x : R = {x} BY <1>1, FS_Singleton
<1>6. \A g \in FD : descriptormap[g] = s => g \in R BY DEF References
<1>. HIDE DEF R, s
<1>7. Cardinality(R) = 1 => \A g \in R : g = f BY <1>2, <1>5
<1>8. \A g \in FD : g \in R /\ g # f => Cardinality(R) > 1 BY <1>1, <1>3, <1>7
<1>9. s \in FD BY DEF s
<1>. QED BY <1>1, <1>3, <1>4, <1>6, <1>7, <1>8, <1>9 DEF s

LEMMA CloseShape ==
  ASSUME TypeOK, Layout, RefCountAccurate, Tidy, Close
  PROVE  \E f \in DOMAIN held : CloseLast(f) \/ CloseDup(f, descriptormap[f])
<1>. USE LibcFdAssumption DEF TypeOK
<1>1. PICK f \in DOMAIN held :
        /\ f \notin StdFds
        /\ descriptormap[f] = f => ~(pool[f].ref_count > 1)
        /\ descriptormap[f] # Null
        /\ CloseFd(f)
  BY DEF Close, Tidy
<1>. DEFINE s == descriptormap[f]
<1>2. s \in FD \ StdFds /\ descriptormap[s] = s BY <1>1 DEF Layout
<1>3. pool[s] \in Slot /\ pool[s].ref_count \in 0 .. RefMod - 1 BY <1>2 DEF Slot
<1>4. /\ pool[s].ref_count > 0
      /\ pool[s].ref_count = 1 => \A g \in FD : descriptormap[g] = s => g = f
      /\ s # f => pool[s].ref_count > 1
  BY <1>2, LastReference
<1>5. /\ descriptormap' = [descriptormap EXCEPT ![f] = Null]
      /\ pool' = [pool EXCEPT ![s] = Released(@)]
      /\ held' = Unbind(held, {f})
      /\ kernel' = Unbind(kernel, IF pool[s].ref_count = 1 THEN Closes(pool[s]) ELSE {})
      /\ nonblocking' = nonblocking \ (IF pool[s].ref_count = 1 THEN Closes(pool[s]) ELSE {})
      /\ strings' = strings - IF pool[s].filename /\ ~pool'[s].filename THEN 1 ELSE 0
  BY <1>1 DEF CloseFd
<1>6. pool'[s] = Released(pool[s]) /\ OthersKept(s) BY <1>2, <1>5 DEF OthersKept
<1>7. CASE s = f
  <2>1. pool[f].ref_count = 1 BY <1>1, <1>3, <1>4, <1>7
  <2>2. pool'[f] = Empty
    <3>. [pool[f] EXCEPT !.ref_count = Dec(@)].ref_count = 0
      BY <1>3, <1>7, <2>1 DEF Dec, Slot
    <3>. QED BY <1>6, <1>7 DEF Released
  <2>. QED BY <1>1, <1>4, <1>5, <1>6, <1>7, <2>1, <2>2, EmptySlot DEF CloseLast
<1>8. CASE s # f
  <2>1. pool[s].ref_count > 1 BY <1>4, <1>8
  <2>2. pool'[s] = [pool[s] EXCEPT !.ref_count = Dec(@)]
    <3>. [pool[s] EXCEPT !.ref_count = Dec(@)].ref_count # 0
      BY <1>3, <2>1 DEF Dec, Slot
    <3>. QED BY <1>6 DEF Released
  <2>3. SameObject(pool'[s], pool[s]) /\ SameUse(pool'[s], pool[s])
    <3>. HIDE DEF s
    <3>. QED BY <1>3, <2>2 DEF Slot, SameObject, SameUse
  <2>4. /\ kernel' = Unbind(kernel, {}) /\ nonblocking' = nonblocking
        /\ strings' = strings
    <3>1. kernel' = Unbind(kernel, {}) BY <1>5, <2>1
    <3>2. nonblocking' = nonblocking BY <1>5, <2>1
    <3>3. strings' = strings BY <1>5, <2>3 DEF SameUse
    <3>. QED BY <3>1, <3>2, <3>3
  <2>. QED BY <1>1, <1>5, <1>6, <1>8, <2>3, <2>4 DEF CloseDup
<1>. QED BY <1>7, <1>8

LEMMA ReopenShape ==
  ASSUME TypeOK, Layout, SeekFolder
  PROVE  \E s \in DOMAIN held, u \in Uids \cup {Error} : Reopen(s, u)
<1>. USE LibcFdAssumption DEF TypeOK
<1>1. PICK f \in DOMAIN held :
        LET s == descriptormap[f]
            shut == Unbind(kernel, Closes(pool[s]))
        IN  /\ s # Null
            /\ pool[s].type = "folder"
            /\ \E u \in (Uids \ DOMAIN shut) \cup {Error} :
                  /\ kernel' = IF u = Error THEN shut ELSE Bind(shut, u, "folder")
                  /\ pool' = [pool EXCEPT ![s].descriptor = u]
                  /\ held' = [g \in DOMAIN held |->
                                IF descriptormap[g] = s THEN u ELSE held[g]]
            /\ UNCHANGED <<descriptormap, nonblocking, strings>>
  BY DEF SeekFolder
<1>. DEFINE s == descriptormap[f]
            shut == Unbind(kernel, Closes(pool[s]))
<1>2. s \in DOMAIN held /\ s \in FD /\ descriptormap[s] = s BY <1>1 DEF Layout
<1>3. PICK u \in (Uids \ DOMAIN shut) \cup {Error} :
        /\ kernel' = IF u = Error THEN shut ELSE Bind(shut, u, "folder")
        /\ pool' = [pool EXCEPT ![s].descriptor = u]
        /\ held' = [g \in DOMAIN held |-> IF descriptormap[g] = s THEN u ELSE held[g]]
  BY <1>1
<1>4. u \notin DOMAIN shut /\ u \in Uids \cup {Error} BY DEF Unbind
<1>5. OthersKept(s) /\ pool'[s] = [pool[s] EXCEPT !.descriptor = u]
  <2>. HIDE DEF s, shut
  <2>. QED BY <1>2, <1>3 DEF OthersKept
<1>6. pool'[s].descriptor = u /\ pool'[s].type = pool[s].type /\ SameUse(pool'[s], pool[s])
  <2>1. pool[s] \in Slot BY <1>2
  <2>. HIDE DEF s, shut
  <2>. QED BY <1>5, <2>1 DEF Slot, SameUse
<1>7. Reopen(s, u) BY <1>1, <1>2, <1>3, <1>4, <1>5, <1>6 DEF Reopen
<1>. QED BY <1>2, <1>4, <1>7

LEMMA ModeShape ==
  ASSUME TypeOK, Layout, SetSockOpt \/ SetFl \/ SetFd
  PROVE  \E s \in DOMAIN held : SetMode(s)
<1>. USE LibcFdAssumption DEF TypeOK
<1>0. ASSUME NEW f \in DOMAIN held PROVE
        LET s == descriptormap[f] IN s \in DOMAIN held /\ s \in FD /\ descriptormap[s] = s
  BY DEF Layout
<1>1. ASSUME NEW s \in DOMAIN held, s \in FD, descriptormap[s] = s, NEW nb \in BOOLEAN,
             NEW slot \in {pool[s], [pool[s] EXCEPT !.nonblock = nb]}, NEW optval \in OptVals,
             setsockopt(s, optval, slot), UNCHANGED <<descriptormap, kernel, strings, held>>,
             slot.type = "socket"
      PROVE  SetMode(s)
  <2>1. /\ pool[s] \in Slot /\ slot \in Slot
        /\ SameObject(slot, pool[s]) /\ slot.filename = pool[s].filename
    BY <1>1 DEF Slot, SameObject
  <2>2. CASE /\ pool' = [pool EXCEPT ![s] = [slot EXCEPT !.nonblock = (optval = 1)]]
             /\ nonblocking' = IF optval = 0 THEN nonblocking \ {slot.descriptor}
                                             ELSE nonblocking \cup {slot.descriptor}
    <3>1. pool'[s] = [slot EXCEPT !.nonblock = (optval = 1)] /\ OthersKept(s)
      BY <1>1, <2>2 DEF OthersKept
    <3>2. SameObject(pool'[s], slot) /\ pool'[s].filename = slot.filename
      BY <2>1, <3>1 DEF Slot, SameObject
    <3>. QED BY <1>1, <2>1, <2>2, <3>1, <3>2 DEF SetMode, SameObject
  <2>3. CASE pool' = [pool EXCEPT ![s] = slot] /\ nonblocking' = nonblocking
    <3>1. pool'[s] = slot /\ OthersKept(s) BY <1>1, <2>3 DEF OthersKept
    <3>. QED BY <1>1, <2>1, <2>3, <3>1 DEF SetMode, SameObject
  <2>. QED BY <1>1, <2>2, <2>3 DEF setsockopt
<1>2. ASSUME NEW s \in DOMAIN held, s \in FD, descriptormap[s] = s, NEW nb \in BOOLEAN,
             pool' = [pool EXCEPT ![s] = [pool[s] EXCEPT !.nonblock = nb]],
             nonblocking' = nonblocking,
             UNCHANGED <<descriptormap, kernel, strings, held>>
      PROVE  SetMode(s)
  <2>1. pool'[s] = [pool[s] EXCEPT !.nonblock = nb] /\ OthersKept(s) /\ pool[s] \in Slot
    BY <1>2 DEF OthersKept
  <2>2. SameObject(pool'[s], pool[s]) /\ pool'[s].filename = pool[s].filename
    BY <2>1 DEF Slot, SameObject
  <2>. QED BY <1>2, <2>1, <2>2 DEF SetMode
<1>3. CASE SetSockOpt
  <2>1. PICK f \in DOMAIN held, optval \in OptVals :
          /\ pool[descriptormap[f]].type = "socket"
          /\ setsockopt(descriptormap[f], optval, pool[descriptormap[f]])
          /\ UNCHANGED <<descriptormap, kernel, strings, held>>
    BY <1>3 DEF SetSockOpt
  <2>. QED BY <1>0, <1>1, <2>1
<1>4. CASE SetFl
  <2>1. PICK f \in DOMAIN held, nb \in BOOLEAN :
          LET s == descriptormap[f]
              slot == [pool[s] EXCEPT !.nonblock = nb]
          IN  /\ IF slot.type = "socket"
                   THEN setsockopt(s, IF nb THEN 1 ELSE 0, slot)
                   ELSE /\ pool' = [pool EXCEPT ![s] = slot]
                        /\ nonblocking' = nonblocking
              /\ UNCHANGED <<descriptormap, kernel, strings, held>>
    BY <1>4 DEF SetFl
  <2>. DEFINE s == descriptormap[f]
              slot == [pool[s] EXCEPT !.nonblock = nb]
  <2>2. s \in DOMAIN held /\ s \in FD /\ descriptormap[s] = s /\ pool[s] \in Slot BY <1>0
  <2>3. slot.type = pool[s].type
    <3>. HIDE DEF s
    <3>. QED BY <2>2 DEF Slot
  <2>4. CASE slot.type = "socket"
    <3>1. (IF nb THEN 1 ELSE 0) \in OptVals BY DEF OptVals
    <3>. QED BY <1>1, <2>1, <2>2, <2>4, <3>1
  <2>5. CASE slot.type # "socket" BY <1>2, <2>1, <2>2, <2>3, <2>5
  <2>. QED BY <2>4, <2>5
<1>5. CASE SetFd
  <2>1. PICK f \in DOMAIN held, nb \in BOOLEAN :
          pool' = [pool EXCEPT ![descriptormap[f]].nonblock = nb]
    BY <1>5 DEF SetFd
  <2>. QED BY <1>0, <1>2, <1>5, <2>1 DEF SetFd
<1>. QED BY <1>3, <1>4, <1>5

(* A step of a tidy program has one of these shapes. *)
Shaped ==
  \/ \E k \in Kinds, u \in Uids \ DOMAIN kernel, f \in FD : NewEntry(f, k, u)
  \/ \E f \in FD, g \in FD, u \in Uids \ DOMAIN kernel : PipePair(f, g, u)
  \/ \E f \in FD : PipeHalf(f)
  \/ \E f \in DOMAIN held, g \in FD : DupEntry(f, g)
  \/ \E f \in DOMAIN held : CloseLast(f) \/ CloseDup(f, descriptormap[f])
  \/ \E s \in DOMAIN held, u \in Uids \cup {Error} : Reopen(s, u)
  \/ \E s \in DOMAIN held : SetMode(s)

LEMMA StepShape ==
  ASSUME TypeOK, Layout, RefCountAccurate, Tidy, [Next]_vars, ~UNCHANGED vars
  PROVE  Shaped
<1>1. CASE Open \/ Socket \/ Accept BY <1>1, NewShape DEF Shaped
<1>2. CASE Pipe BY <1>2, PipeShape DEF Shaped
<1>3. CASE Dup BY <1>3, DupShape DEF Shaped
<1>4. CASE Close BY <1>4, CloseShape DEF Shaped
<1>5. CASE SeekFolder BY <1>5, ReopenShape DEF Shaped
<1>6. CASE SetSockOpt \/ SetFl \/ SetFd BY <1>6, ModeShape DEF Shaped
<1>. QED BY <1>1, <1>2, <1>3, <1>4, <1>5, <1>6 DEF Next, CallFails

LEMMA LayoutShaped ==
  ASSUME TypeOK, Layout, Shaped
  PROVE  Layout'
<1>. USE LibcFdAssumption DEF TypeOK, Layout, OthersKept
<1>1. ASSUME NEW k \in Kinds, NEW u \in Uids \ DOMAIN kernel, NEW f \in FD, NewEntry(f, k, u) PROVE Layout'
  BY <1>1 DEF NewEntry, Bind
<1>2. ASSUME NEW f \in FD, NEW g \in FD, NEW u \in Uids \ DOMAIN kernel, PipePair(f, g, u) PROVE Layout'
  BY <1>2 DEF PipePair, Bind
<1>3. ASSUME NEW f \in FD, PipeHalf(f) PROVE Layout'
  BY <1>3 DEF PipeHalf
<1>4. ASSUME NEW f \in DOMAIN held, NEW g \in FD, DupEntry(f, g) PROVE Layout'
  BY <1>4 DEF DupEntry, Bind, SameObject
<1>5. ASSUME NEW f \in DOMAIN held, CloseLast(f) PROVE Layout'
  BY <1>5 DEF CloseLast, Unbind, Closes
<1>6. ASSUME NEW f \in DOMAIN held, CloseDup(f, descriptormap[f]) PROVE Layout'
  BY <1>6 DEF CloseDup, Unbind, SameObject
<1>7. ASSUME NEW s \in DOMAIN held, NEW u \in Uids \cup {Error}, Reopen(s, u) PROVE Layout'
  BY <1>7 DEF Reopen, Bind, Unbind, Closes
<1>8. ASSUME NEW s \in DOMAIN held, SetMode(s) PROVE Layout'
  BY <1>8 DEF SetMode, SameObject
<1>. QED BY <1>1, <1>2, <1>3, <1>4, <1>5, <1>6, <1>7, <1>8 DEF Shaped

LEMMA NamesObjectShaped ==
  ASSUME TypeOK, Layout, HeldNamesObject, SlotPerObject, Shaped
  PROVE  HeldNamesObject'
<1>. USE LibcFdAssumption DEF TypeOK, Layout, HeldNamesObject, SlotPerObject, OthersKept
<1>1. ASSUME NEW k \in Kinds, NEW u \in Uids \ DOMAIN kernel, NEW f \in FD, NewEntry(f, k, u) PROVE HeldNamesObject'
  BY <1>1 DEF NewEntry, Bind
<1>2. ASSUME NEW f \in FD, NEW g \in FD, NEW u \in Uids \ DOMAIN kernel, PipePair(f, g, u) PROVE HeldNamesObject'
  BY <1>2 DEF PipePair, Bind
<1>3. ASSUME NEW f \in FD, PipeHalf(f) PROVE HeldNamesObject'
  BY <1>3 DEF PipeHalf
<1>4. ASSUME NEW f \in DOMAIN held, NEW g \in FD, DupEntry(f, g) PROVE HeldNamesObject'
  BY <1>4 DEF DupEntry, Bind, SameObject
<1>5. ASSUME NEW f \in DOMAIN held, CloseLast(f) PROVE HeldNamesObject'
  BY <1>5 DEF CloseLast, Unbind, Closes
<1>6. ASSUME NEW f \in DOMAIN held, CloseDup(f, descriptormap[f]) PROVE HeldNamesObject'
  BY <1>6 DEF CloseDup, Unbind, SameObject
<1>7. ASSUME NEW s \in DOMAIN held, NEW u \in Uids \cup {Error}, Reopen(s, u) PROVE HeldNamesObject'
  BY <1>7 DEF Reopen, Bind, Unbind, Closes
<1>8. ASSUME NEW s \in DOMAIN held, SetMode(s) PROVE HeldNamesObject'
  BY <1>8 DEF SetMode, SameObject
<1>. QED BY <1>1, <1>2, <1>3, <1>4, <1>5, <1>6, <1>7, <1>8 DEF Shaped

LEMMA PerObjectShaped ==
  ASSUME TypeOK, Layout, HeldNamesObject, SlotPerObject, Shaped
  PROVE  SlotPerObject'
<1>. USE LibcFdAssumption DEF TypeOK, Layout, HeldNamesObject, SlotPerObject, OthersKept
<1>1. ASSUME NEW k \in Kinds, NEW u \in Uids \ DOMAIN kernel, NEW f \in FD, NewEntry(f, k, u) PROVE SlotPerObject'
  BY <1>1 DEF NewEntry, Bind
<1>2. ASSUME NEW f \in FD, NEW g \in FD, NEW u \in Uids \ DOMAIN kernel, PipePair(f, g, u) PROVE SlotPerObject'
  BY <1>2 DEF PipePair, Bind
<1>3. ASSUME NEW f \in FD, PipeHalf(f) PROVE SlotPerObject'
  BY <1>3 DEF PipeHalf
<1>4. ASSUME NEW f \in DOMAIN held, NEW g \in FD, DupEntry(f, g) PROVE SlotPerObject'
  BY <1>4 DEF DupEntry, Bind, SameObject
<1>5. ASSUME NEW f \in DOMAIN held, CloseLast(f) PROVE SlotPerObject'
  BY <1>5 DEF CloseLast, Unbind, Closes
<1>6. ASSUME NEW f \in DOMAIN held, CloseDup(f, descriptormap[f]) PROVE SlotPerObject'
  BY <1>6 DEF CloseDup, Unbind, SameObject
<1>7. ASSUME NEW s \in DOMAIN held, NEW u \in Uids \cup {Error}, Reopen(s, u) PROVE SlotPerObject'
  BY <1>7 DEF Reopen, Bind, Unbind, Closes
<1>8. ASSUME NEW s \in DOMAIN held, SetMode(s) PROVE SlotPerObject'
  BY <1>8 DEF SetMode, SameObject
<1>. QED BY <1>1, <1>2, <1>3, <1>4, <1>5, <1>6, <1>7, <1>8 DEF Shaped

LEMMA NoLeakShaped ==
  ASSUME TypeOK, Layout, HeldNamesObject, SlotPerObject, NoKernelLeak, Shaped
  PROVE  NoKernelLeak'
<1>. USE LibcFdAssumption DEF TypeOK, Layout, HeldNamesObject, SlotPerObject, NoKernelLeak
<1>1. ASSUME NEW k \in Kinds, NEW u \in Uids \ DOMAIN kernel, NEW f \in FD, NewEntry(f, k, u) PROVE NoKernelLeak'
  BY <1>1 DEF NewEntry, Bind
<1>2. ASSUME NEW f \in FD, NEW g \in FD, NEW u \in Uids \ DOMAIN kernel, PipePair(f, g, u) PROVE NoKernelLeak'
  BY <1>2 DEF PipePair, Bind
<1>3. ASSUME NEW f \in FD, PipeHalf(f) PROVE NoKernelLeak'
  BY <1>3 DEF PipeHalf
<1>4. ASSUME NEW f \in DOMAIN held, NEW g \in FD, DupEntry(f, g) PROVE NoKernelLeak'
  BY <1>4 DEF DupEntry, Bind, SameObject
<1>5. ASSUME NEW f \in DOMAIN held, CloseLast(f) PROVE NoKernelLeak'
  BY <1>5 DEF CloseLast, Unbind, Closes
<1>6. ASSUME NEW f \in DOMAIN held, CloseDup(f, descriptormap[f]) PROVE NoKernelLeak'
  BY <1>6 DEF CloseDup, Unbind, SameObject
<1>7. ASSUME NEW s \in DOMAIN held, NEW u \in Uids \cup {Error}, Reopen(s, u) PROVE NoKernelLeak'
  BY <1>7 DEF Reopen, Bind, Unbind, Closes
<1>8. ASSUME NEW s \in DOMAIN held, SetMode(s) PROVE NoKernelLeak'
  BY <1>8 DEF SetMode, SameObject
<1>. QED BY <1>1, <1>2, <1>3, <1>4, <1>5, <1>6, <1>7, <1>8 DEF Shaped

LEMMA ModesShaped ==
  ASSUME TypeOK, SocketSlots, Layout, HeldNamesObject, SlotPerObject, ModesOfSockets, Shaped
  PROVE  ModesOfSockets'
<1>. USE LibcFdAssumption DEF TypeOK, SocketSlots, Layout, HeldNamesObject, SlotPerObject, ModesOfSockets, OthersKept
<1>1. ASSUME NEW k \in Kinds, NEW u \in Uids \ DOMAIN kernel, NEW f \in FD, NewEntry(f, k, u) PROVE ModesOfSockets'
  BY <1>1 DEF NewEntry, Bind
<1>2. ASSUME NEW f \in FD, NEW g \in FD, NEW u \in Uids \ DOMAIN kernel, PipePair(f, g, u) PROVE ModesOfSockets'
  BY <1>2 DEF PipePair, Bind
<1>3. ASSUME NEW f \in FD, PipeHalf(f) PROVE ModesOfSockets'
  BY <1>3 DEF PipeHalf
<1>4. ASSUME NEW f \in DOMAIN held, NEW g \in FD, DupEntry(f, g) PROVE ModesOfSockets'
  BY <1>4 DEF DupEntry, Bind, SameObject, SameUse
<1>5. ASSUME NEW f \in DOMAIN held, CloseLast(f) PROVE ModesOfSockets'
  BY <1>5 DEF CloseLast, Unbind, Closes, Family
<1>6. ASSUME NEW f \in DOMAIN held, CloseDup(f, descriptormap[f]) PROVE ModesOfSockets'
  BY <1>6 DEF CloseDup, Unbind, SameObject, SameUse
<1>7. ASSUME NEW s \in DOMAIN held, NEW u \in Uids \cup {Error}, Reopen(s, u) PROVE ModesOfSockets'
  BY <1>7 DEF Reopen, Bind, Unbind, Closes, SameUse, Family
<1>8. ASSUME NEW s \in DOMAIN held, SetMode(s) PROVE ModesOfSockets'
  BY <1>8 DEF SetMode, SameObject
<1>. QED BY <1>1, <1>2, <1>3, <1>4, <1>5, <1>6, <1>7, <1>8 DEF Shaped

(* The shapes that give the program a new descriptor of a new object.      *)
NewSocketBlocks ==
  \A f \in DOMAIN held' \ DOMAIN held :
    /\ held'[f] \in DOMAIN kernel' \ DOMAIN kernel
    /\ kernel'[held'[f]] = "socket"
    => ~pool'[descriptormap'[f]].nonblock /\ held'[f] \notin nonblocking'

LEMMA NewSocketShaped ==
  ASSUME TypeOK, Layout, HeldNamesObject, ModesOfSockets, Shaped
  PROVE  NewSocketBlocks
<1>. USE LibcFdAssumption DEF TypeOK, NewSocketBlocks
<1>1. ASSUME NEW k \in Kinds, NEW u \in Uids \ DOMAIN kernel, NEW f \in FD, NewEntry(f, k, u) PROVE NewSocketBlocks
  BY <1>1 DEF NewEntry, Bind, ModesOfSockets
<1>2. ASSUME NEW f \in FD, NEW g \in FD, NEW u \in Uids \ DOMAIN kernel, PipePair(f, g, u) PROVE NewSocketBlocks
  BY <1>2 DEF PipePair, Bind
<1>3. ASSUME NEW f \in FD, PipeHalf(f) PROVE NewSocketBlocks
  BY <1>3 DEF PipeHalf
<1>4. ASSUME NEW f \in DOMAIN held, NEW g \in FD, DupEntry(f, g) PROVE NewSocketBlocks
  BY <1>4 DEF DupEntry
<1>5. ASSUME NEW f \in DOMAIN held, CloseLast(f) PROVE NewSocketBlocks
  BY <1>5 DEF CloseLast, Unbind
<1>6. ASSUME NEW f \in DOMAIN held, CloseDup(f, descriptormap[f]) PROVE NewSocketBlocks
  BY <1>6 DEF CloseDup, Unbind
<1>7. ASSUME NEW s \in DOMAIN held, NEW u \in Uids \cup {Error}, Reopen(s, u) PROVE NewSocketBlocks
  BY <1>7 DEF Reopen
<1>8. ASSUME NEW s \in DOMAIN held, SetMode(s) PROVE NewSocketBlocks
  BY <1>8 DEF SetMode
<1>. QED BY <1>1, <1>2, <1>3, <1>4, <1>5, <1>6, <1>7, <1>8 DEF Shaped

LEMMA NamesFinite ==
  ASSUME NEW S \in SUBSET FD
  PROVE  IsFiniteSet(S) /\ Cardinality(S) \in Nat
BY FDFinite, FS_Subset, FS_CardinalityType

LEMMA NamesShaped ==
  ASSUME TypeOK, TypeOK', Layout, NamesOwned, Shaped
  PROVE  NamesOwned'
<1>. DEFINE N == {s \in FD : pool[s].filename}
<1>. USE LibcFdAssumption DEF TypeOK
<1>1. IsFiniteSet(N) /\ Cardinality(N) \in Nat /\ strings = Cardinality(N)
  BY NamesFinite DEF NamesOwned
<1>2. ASSUME NEW f \in FD, OthersKept(f), pool'[f].filename = pool[f].filename,
             strings' = strings
      PROVE  NamesOwned'
  <2>. N' = N BY <1>2 DEF OthersKept
  <2>. QED BY <1>1, <1>2 DEF NamesOwned
<1>3. ASSUME NEW f \in FD, OthersKept(f), ~pool[f].filename, pool'[f].filename,
             strings' = strings + 1
      PROVE  NamesOwned'
  <2>1. N' = N \cup {f} /\ f \notin N BY <1>3 DEF OthersKept
  <2>2. Cardinality(N \cup {f}) = Cardinality(N) + 1 BY <1>1, <2>1, FS_AddElement
  <2>. QED BY <1>1, <1>3, <2>1, <2>2 DEF NamesOwned
<1>4. ASSUME NEW f \in FD, OthersKept(f), pool[f].filename, ~pool'[f].filename,
             strings' = strings - 1
      PROVE  NamesOwned'
  <2>1. N' = N \ {f} /\ f \in N BY <1>4 DEF OthersKept
  <2>2. Cardinality(N \ {f}) = Cardinality(N) - 1 BY <1>1, <2>1, FS_RemoveElement
  <2>. QED BY <1>1, <1>4, <2>1, <2>2 DEF NamesOwned
<1>. HIDE DEF N
<1>5. \A f \in FD : pool[f].filename \in BOOLEAN /\ pool'[f].filename \in BOOLEAN
  BY DEF Slot
<1>6. \A f \in FD : descriptormap[f] = Null => pool[f].filename = FALSE
  BY DEF Layout, Empty
<1>7. ASSUME NEW k, NEW u, NEW f \in FD, NewEntry(f, k, u) PROVE NamesOwned'
  <2>1. CASE pool'[f].filename BY <1>1, <1>3, <1>6, <1>7, <2>1 DEF NewEntry
  <2>2. CASE ~pool'[f].filename BY <1>1, <1>2, <1>5, <1>6, <1>7, <2>2 DEF NewEntry
  <2>. QED BY <2>1, <2>2
<1>8. ASSUME NEW f \in FD, NEW g \in FD, NEW u, PipePair(f, g, u) PROVE NamesOwned'
  BY <1>2, <1>6, <1>8 DEF PipePair
<1>9. ASSUME NEW f \in FD, PipeHalf(f) PROVE NamesOwned'
  BY <1>2, <1>6, <1>9 DEF PipeHalf
<1>10. ASSUME NEW f \in DOMAIN held, NEW g \in FD, DupEntry(f, g) PROVE NamesOwned'
  BY <1>2, <1>10 DEF DupEntry, SameUse
<1>11. ASSUME NEW f \in DOMAIN held, CloseLast(f) PROVE NamesOwned'
  <2>1. pool'[f].filename = FALSE BY <1>11 DEF CloseLast, Empty
  <2>2. CASE pool[f].filename BY <1>4, <1>11, <2>1, <2>2 DEF CloseLast
  <2>3. CASE ~pool[f].filename BY <1>1, <1>2, <1>5, <1>11, <2>1, <2>3 DEF CloseLast
  <2>. QED BY <2>2, <2>3
<1>12. ASSUME NEW f \in DOMAIN held, CloseDup(f, descriptormap[f]) PROVE NamesOwned'
  <2>1. descriptormap[f] \in FD BY DEF Layout
  <2>. QED BY <1>2, <1>12, <2>1 DEF CloseDup, SameUse
<1>13. ASSUME NEW s \in DOMAIN held, NEW u, Reopen(s, u) PROVE NamesOwned'
  BY <1>2, <1>13 DEF Reopen, SameUse
<1>14. ASSUME NEW s \in DOMAIN held, SetMode(s) PROVE NamesOwned'
  BY <1>2, <1>14 DEF SetMode
<1>. QED BY <1>7, <1>8, <1>9, <1>10, <1>11, <1>12, <1>13, <1>14 DEF Shaped

(* The invariant of the tidy programs. *)
TidyInv == /\ TypeOK /\ SocketSlots /\ RefCountAccurate /\ Layout /\ HeldNamesObject
           /\ SlotPerObject /\ NoKernelLeak /\ ModesOfSockets /\ NamesOwned

LEMMA TidyInit == Init => TidyInv
<1>. SUFFICES ASSUME Init PROVE TidyInv
  OBVIOUS
<1>1. TypeOK /\ SocketSlots /\ RefCountAccurate BY TypeInit, CountInit
<1>2. \A f \in StdFds : /\ pool[f].descriptor = StdUid[f] /\ pool[f].type = "tty"
                        /\ pool[f].filename = FALSE
  BY LibcFdAssumption DEF Init, Empty
<1>3. Layout BY LibcFdAssumption DEF Init, Layout, StdFds
<1>4. HeldNamesObject /\ SlotPerObject /\ NoKernelLeak
  <2>1. HeldNamesObject
    <3>1. /\ held = StdUid /\ DOMAIN held = StdFds /\ StdFds \subseteq FD
          /\ \A f \in StdFds : descriptormap[f] = f /\ kernel[StdUid[f]] = "tty"
                              /\ StdUid[f] \in DOMAIN kernel
      BY LibcFdAssumption DEF Init, StdFds
    <3>. QED BY <1>2, <3>1, LibcFdAssumption DEF HeldNamesObject
  <2>2. SlotPerObject BY LibcFdAssumption DEF Init, SlotPerObject, StdFds
  <2>3. NoKernelLeak BY LibcFdAssumption DEF Init, NoKernelLeak
  <2>. QED BY <2>1, <2>2, <2>3
<1>5. ModesOfSockets BY DEF Init, ModesOfSockets
<1>6. NamesOwned
  <2>1. \A s \in FD : pool[s].filename = FALSE
    BY <1>2, <1>3, EmptySlot, LibcFdAssumption DEF Init, Empty
  <2>2. {s \in FD : pool[s].filename} = {} BY <2>1
  <2>. QED BY <2>2, FS_EmptySet DEF Init, NamesOwned
<1>. QED BY <1>1, <1>3, <1>4, <1>5, <1>6 DEF TidyInv

LEMMA TidyStep == Tidy /\ TidyInv /\ [Next]_vars => TidyInv'
<1>. SUFFICES ASSUME Tidy, TidyInv, [Next]_vars PROVE TidyInv'
  OBVIOUS
<1>1. TypeOK' /\ SocketSlots' /\ RefCountAccurate' BY TypeStep, CountStep DEF TidyInv
<1>2. CASE UNCHANGED vars
  BY <1>1, <1>2 DEF vars, TidyInv, Layout, HeldNamesObject, SlotPerObject, NoKernelLeak,
                    ModesOfSockets, NamesOwned
<1>3. CASE ~UNCHANGED vars
  <2>1. Shaped BY <1>3, StepShape DEF TidyInv
  <2>. QED BY <1>1, <2>1, LayoutShaped, NamesObjectShaped, PerObjectShaped, NoLeakShaped,
              ModesShaped, NamesShaped DEF TidyInv
<1>. QED BY <1>2, <1>3

LEMMA TidyInvariant == ASSUME Tidy PROVE Spec => []TidyInv
<1>1. TidyInv /\ [Next]_vars => TidyInv' BY TidyStep
<1>. QED BY TidyInit, <1>1, PTL DEF Spec

(* As long as the program leaves the standard descriptors alone and closes *)
(* an original after its duplicates, every descriptor it holds names the   *)
(* object it was opened on, of the kind that chooses the kernel call.      *)
THEOREM HeldNames == ASSUME Tidy PROVE Spec => []HeldNamesObject
<1>1. TidyInv => HeldNamesObject BY DEF TidyInv
<1>. QED BY <1>1, TidyInvariant, PTL

(* Nor is a kernel object lost: the last _close closes it, a failed pipe   *)
(* deletes it, and a directory that is reopened replaces it.               *)
THEOREM KernelNotLeaked == ASSUME Tidy PROVE Spec => []NoKernelLeak
<1>1. TidyInv => NoKernelLeak BY DEF TidyInv
<1>. QED BY <1>1, TidyInvariant, PTL

(* Nor a file name: __fdman_release_descriptor frees it with the last      *)
(* reference, so that no later _open overwrites one.                       *)
THEOREM NamesFreed == ASSUME Tidy PROVE Spec => []NamesOwned
<1>1. TidyInv => NamesOwned BY DEF TidyInv
<1>. QED BY <1>1, TidyInvariant, PTL

(* A new socket of such a program blocks and its slot says so, whatever    *)
(* the modes and the flags of the sockets before it were, also when they   *)
(* disagreed.                                                              *)
THEOREM SocketsStartBlocking ==
  ASSUME Tidy
  PROVE  Spec => SocketStartsBlocking
<1>1. TidyInv /\ [Next]_vars => [NewSocketBlocks]_vars
  <2>. SUFFICES ASSUME TidyInv, [Next]_vars, ~UNCHANGED vars PROVE NewSocketBlocks
    OBVIOUS
  <2>1. Shaped BY StepShape DEF TidyInv
  <2>. QED BY <2>1, NewSocketShaped DEF TidyInv
<1>2. [][NewSocketBlocks]_vars => SocketStartsBlocking
  BY PTL DEF NewSocketBlocks, SocketStartsBlocking
<1>. QED BY <1>1, <1>2, TidyInvariant, PTL DEF Spec
=============================================================================
