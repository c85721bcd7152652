------------------------------- MODULE LibcFd -------------------------------
(***************************************************************************)
(* The descriptor calls of libcglue (glue.c, pipe.c, socket.c) above the   *)
(* descriptor manager, as one thread makes them: open, close, dup, pipe,   *)
(* socket, accept, fcntl, setsockopt and lseek on a directory.  A call is  *)
(* one step; FdMan has the steps inside the manager.  read, write, fstat   *)
(* and the other calls that only use a slot change none of this state.     *)
(***************************************************************************)
EXTENDS Integers, FiniteSets

CONSTANTS
  FILENO_MAX,  \* __FILENO_MAX
  Uids,        \* the kernel's UIDs of files, folders, pipes and sockets
  StdUid,      \* descriptor -> UID, for stdin, stdout and stderr
  RefMod,      \* ref_count is unsigned modulo RefMod (2^32)
  MaxStrings,  \* the heap has room for this many file names
  Program,     \* what the program does beyond the plain calls, see Features
  Null,        \* a null entry, and a descriptor field of 0
  Error        \* a negative error code kept as a UID

FD == 0 .. FILENO_MAX - 1
StdFds == DOMAIN StdUid

(* Things some programs do: duplicate a standard descriptor, close one,    *)
(* close the original of a duplicate first or duplicate a duplicate.       *)
Features == {"dup_std", "close_std", "close_orig"}

ASSUME LibcFdAssumption ==
  /\ FILENO_MAX \in Nat
  /\ RefMod \in Nat /\ RefMod > FILENO_MAX + 2
  /\ StdFds \subseteq FD /\ StdUid \in [StdFds -> Uids]
  /\ \A f, g \in StdFds : StdUid[f] = StdUid[g] => f = g
  /\ Program \subseteq Features /\ MaxStrings \in Nat
  /\ Null \notin FD \cup Uids /\ Error \notin Uids

Kinds == {"file", "folder", "pipe", "socket", "tty"}

VARIABLES
  descriptormap,  \* [FD -> FD \cup {Null}]
  pool,           \* __descriptor_data_pool: [FD -> Slot]
  kernel,         \* the open kernel objects: [uid -> kind], a partial function
  nonblocking,    \* the sockets the network stack does not block on
  strings,        \* the number of allocated file names
  held            \* the program's view: [descriptor -> uid], a partial function

vars == <<descriptormap, pool, kernel, nonblocking, strings, held>>

Slot == [descriptor : Uids \cup {Null, Error}, type : Kinds,
         nonblock : BOOLEAN, ref_count : 0 .. RefMod - 1, filename : BOOLEAN]

Inc(n) == IF n = RefMod - 1 THEN 0 ELSE n + 1
Dec(n) == IF n = 0 THEN RefMod - 1 ELSE n - 1

Bind(fn, x, y) == [z \in DOMAIN fn \cup {x} |-> IF z = x THEN y ELSE fn[z]]
Unbind(fn, S) == [z \in DOMAIN fn \ S |-> fn[z]]

(* The slot a zeroed pool holds: __DESCRIPTOR_TYPE_FILE is 0. *)
Empty == [descriptor |-> Null, type |-> "file", nonblock |-> FALSE,
          ref_count |-> 0, filename |-> FALSE]

(* __fdman_init *)
Init ==
  /\ descriptormap = [f \in FD |-> IF f \in StdFds THEN f ELSE Null]
  /\ pool = [f \in FD |-> IF f \in StdFds
                          THEN [Empty EXCEPT !.descriptor = StdUid[f],
                                             !.type = "tty"]
                          ELSE Empty]
  /\ kernel = [u \in {StdUid[f] : f \in StdFds} |-> "tty"]
  /\ nonblocking = {}
  /\ strings = 0
  /\ held = StdUid

-----------------------------------------------------------------------------
(* The scan of __fdman_get_new_descriptor stops at f. *)
FirstFree(map, f) == map[f] = Null /\ \A g \in FD : g < f => map[g] # Null
Full(map) == \A f \in FD : map[f] # Null

(* What __fdman_get_new_descriptor does to the slot of the entry it takes. *)
Uncounted(slot) == slot
Counted(slot) == [slot EXCEPT !.ref_count = Inc(@)]

(* The slot of a new entry for object u of kind k; _open adds the flags    *)
(* and the name.                                                           *)
NewSlot(slot, k, u) == [Counted(slot) EXCEPT !.descriptor = u, !.type = k]
Named(slot, nb, named) == [slot EXCEPT !.nonblock = nb, !.filename = named]

(* A new kernel object u of kind k, with names file names allocated for    *)
(* it, is stored in the slot of a new entry.  Without a free entry the     *)
(* caller closes the object again and fails.                               *)
NewDescriptor(k, u, names, update(_)) ==
  \/ /\ Full(descriptormap)
     /\ UNCHANGED vars
  \/ \E f \in FD :
       /\ FirstFree(descriptormap, f)
       /\ descriptormap' = [descriptormap EXCEPT ![f] = f]
       /\ pool' = [pool EXCEPT ![f] = update(NewSlot(@, k, u))]
       /\ kernel' = Bind(kernel, u, k)
       /\ held' = Bind(held, f, u)
       /\ strings' = strings + names
       /\ nonblocking' = nonblocking

(* The kernel refuses to open, create or accept: the call returns its      *)
(* error before it looks for an entry.                                     *)
CallFails == UNCHANGED vars

(* _open; strdup returns NULL when the heap is exhausted. *)
Open ==
  \E k \in {"file", "folder"}, u \in Uids \ DOMAIN kernel,
     nb \in BOOLEAN, named \in BOOLEAN :
    /\ named => strings < MaxStrings
    /\ NewDescriptor(k, u, IF named THEN 1 ELSE 0,
                     LAMBDA slot : Named(slot, nb, named))

(* socket sets neither the flags nor the file name of the slot. *)
Socket == \E u \in Uids \ DOMAIN kernel :
            NewDescriptor("socket", u, 0, LAMBDA slot : slot)

Accept == \E s \in DOMAIN held, u \in Uids \ DOMAIN kernel :
            /\ descriptormap[s] # Null
            /\ pool[descriptormap[s]].type = "socket"
            /\ NewDescriptor("socket", u, 0, LAMBDA slot : slot)

(* pipe: one kernel object, one new entry and one duplicate of it.  When   *)
(* only the second cannot be had, the object is deleted and the first      *)
(* entry stays.                                                            *)
Pipe ==
  \E u \in Uids \ DOMAIN kernel :
    \/ /\ Full(descriptormap)
       /\ UNCHANGED vars
    \/ \E f \in FD :
         LET map1 == [descriptormap EXCEPT ![f] = f]
             slot1 == NewSlot(pool[f], "pipe", u)
         IN  /\ FirstFree(descriptormap, f)
             /\ \/ \E g \in FD :
                     /\ FirstFree(map1, g)
                     /\ descriptormap' = [map1 EXCEPT ![g] = f]
                     /\ pool' = [pool EXCEPT ![f] = Counted(slot1)]
                     /\ kernel' = Bind(kernel, u, "pipe")
                     /\ held' = Bind(Bind(held, f, u), g, u)
                \/ /\ Full(map1)
                   /\ descriptormap' = map1
                   /\ pool' = [pool EXCEPT ![f] = slot1]
                   /\ UNCHANGED <<kernel, held>>
             /\ UNCHANGED <<nonblocking, strings>>

DupOfUid ==
  \E f \in DOMAIN held :
    /\ f \in StdFds => "dup_std" \in Program
    /\ descriptormap[f] # f => "close_orig" \in Program
    /\ descriptormap[f] # Null
    /\ \E g \in FD :
         /\ FirstFree(descriptormap, g)
         /\ descriptormap' = [descriptormap EXCEPT ![g] = pool[f].descriptor]
         /\ pool' = [pool EXCEPT ![f] = Counted(@)]
         /\ held' = Bind(held, g, held[f])
         /\ UNCHANGED <<kernel, nonblocking, strings>>

(* fcntl(F_DUPFD): the new entry points at slot f, not at the slot that    *)
(* entry f points at.                                                      *)
Dup ==
  \E f \in DOMAIN held :
    /\ f \in StdFds => "dup_std" \in Program
    /\ descriptormap[f] # f => "close_orig" \in Program
    /\ descriptormap[f] # Null
    /\ \/ /\ Full(descriptormap)
          /\ UNCHANGED vars
       \/ \E g \in FD :
            /\ FirstFree(descriptormap, g)
            /\ descriptormap' = [descriptormap EXCEPT ![g] = f]
            /\ pool' = [pool EXCEPT ![f] = Counted(@)]
            /\ held' = Bind(held, g, held[f])
            /\ UNCHANGED <<kernel, nonblocking, strings>>

-----------------------------------------------------------------------------
(* The kernel's close calls work on objects of their own kind only. *)
Family(k) == IF k = "tty" THEN "file" ELSE k
Closes(slot) == {u \in DOMAIN kernel : u = slot.descriptor
                                       /\ Family(kernel[u]) = Family(slot.type)}

ReleasedKeepsFlags(slot) ==
  LET one_less == [slot EXCEPT !.ref_count = Dec(@)]
  IN  IF one_less.ref_count = 0 THEN [Empty EXCEPT !.nonblock = slot.nonblock]
                                ELSE one_less

ReleasedKeepsName(slot) ==
  LET one_less == [slot EXCEPT !.ref_count = Dec(@)]
  IN  IF one_less.ref_count = 0 THEN [Empty EXCEPT !.filename = slot.filename]
                                ELSE one_less

(* __fdman_release_descriptor *)
Released(slot) == LET one_less == [slot EXCEPT !.ref_count = Dec(@)]
                  IN  IF one_less.ref_count = 0 THEN Empty ELSE one_less

(* _close, __pipe_close and __socket_close: the kernel object goes with    *)
(* the last reference.                                                     *)
CloseEarly(f) ==
  LET s == descriptormap[f]
      gone == IF pool[s].ref_count <= 2 THEN Closes(pool[s]) ELSE {}
  IN  /\ kernel' = Unbind(kernel, gone)
      /\ nonblocking' = nonblocking \ gone
      /\ pool' = [pool EXCEPT ![s] = Released(@)]
      /\ strings' = strings - IF pool[s].filename /\ ~pool'[s].filename
                              THEN 1 ELSE 0
      /\ descriptormap' = [descriptormap EXCEPT ![f] = Null]
      /\ held' = Unbind(held, {f})

CloseNever(f) ==
  LET s == descriptormap[f] IN
      /\ pool' = [pool EXCEPT ![s] = Released(@)]
      /\ strings' = strings - IF pool[s].filename /\ ~pool'[s].filename
                              THEN 1 ELSE 0
      /\ descriptormap' = [descriptormap EXCEPT ![f] = Null]
      /\ held' = Unbind(held, {f})
      /\ UNCHANGED <<kernel, nonblocking>>

CloseFd(f) ==
  LET s == descriptormap[f]
      gone == IF pool[s].ref_count = 1 THEN Closes(pool[s]) ELSE {}
  IN  /\ kernel' = Unbind(kernel, gone)
      /\ nonblocking' = nonblocking \ gone
      /\ pool' = [pool EXCEPT ![s] = Released(@)]
      /\ strings' = strings - IF pool[s].filename /\ ~pool'[s].filename
                              THEN 1 ELSE 0
      /\ descriptormap' = [descriptormap EXCEPT ![f] = Null]
      /\ held' = Unbind(held, {f})

Close ==
  \E f \in DOMAIN held :
    /\ f \in StdFds => "close_std" \in Program
    /\ descriptormap[f] = f /\ pool[f].ref_count > 1 => "close_orig" \in Program
    /\ descriptormap[f] # Null
    /\ CloseFd(f)

(* _lseekDir closes the folder and opens it again by its name. *)
SeekFolder ==
  \E f \in DOMAIN held :
    LET s == descriptormap[f] IN
      /\ s # Null
      /\ pool[s].type = "folder" /\ pool[s].filename
      /\ LET shut == Unbind(kernel, Closes(pool[s])) IN
           \E u \in (Uids \ DOMAIN shut) \cup {Error} :
             /\ kernel' = IF u = Error THEN shut ELSE Bind(shut, u, "folder")
             /\ pool' = [pool EXCEPT ![s].descriptor = u]
             /\ held' = [g \in DOMAIN held |->
                           IF descriptormap[g] = s THEN u ELSE held[g]]
      /\ UNCHANGED <<descriptormap, nonblocking, strings>>

(* The values of the option SO_NONBLOCK: 2 stands for every int that is    *)
(* neither 0 nor 1.                                                        *)
OptVals == 0 .. 2

(* setsockopt(SO_NONBLOCK): the network stack takes any value but 0 for    *)
(* non-blocking, the flag of the slot is set for 1 alone.  The stack may   *)
(* refuse, and the slot keeps what the caller had stored in it.            *)
setsockopt(s, optval, slot) ==
  \/ /\ pool' = [pool EXCEPT ![s] = [slot EXCEPT !.nonblock = (optval = 1)]]
     /\ nonblocking' = IF optval = 0 THEN nonblocking \ {slot.descriptor}
                                     ELSE nonblocking \cup {slot.descriptor}
  \/ /\ pool' = [pool EXCEPT ![s] = slot]
     /\ nonblocking' = nonblocking

SetSockOpt ==
  \E f \in DOMAIN held, optval \in OptVals :
    /\ descriptormap[f] # Null
    /\ pool[descriptormap[f]].type = "socket"
    /\ setsockopt(descriptormap[f], optval, pool[descriptormap[f]])
    /\ UNCHANGED <<descriptormap, kernel, strings, held>>

(* fcntl(F_SETFL) stores the flags, then tells the socket. *)
SetFl ==
  \E f \in DOMAIN held, nb \in BOOLEAN :
    LET s == descriptormap[f]
        slot == [pool[s] EXCEPT !.nonblock = nb]
    IN  /\ s # Null
        /\ IF slot.type = "socket"
             THEN setsockopt(s, IF nb THEN 1 ELSE 0, slot)
             ELSE /\ pool' = [pool EXCEPT ![s] = slot]
                  /\ nonblocking' = nonblocking
        /\ UNCHANGED <<descriptormap, kernel, strings, held>>

(* fcntl(F_SETFD) overwrites the same flags and tells nobody. *)
SetFd ==
  /\ \E f \in DOMAIN held, nb \in BOOLEAN :
       /\ descriptormap[f] # Null
       /\ pool' = [pool EXCEPT ![descriptormap[f]].nonblock = nb]
  /\ UNCHANGED <<descriptormap, kernel, nonblocking, strings, held>>

Next == \/ CallFails \/ Open \/ Socket \/ Accept \/ Pipe \/ Dup \/ Close
        \/ SeekFolder \/ SetSockOpt \/ SetFl \/ SetFd

Spec == Init /\ [][Next]_vars

-----------------------------------------------------------------------------
(* The variables keep their types: ref_count stays unsigned, and no call   *)
(* stores anything but a UID or an error code in a slot.                   *)
TypeOK ==
  /\ descriptormap \in [FD -> FD \cup {Null}]
  /\ pool \in [FD -> Slot]
  /\ DOMAIN kernel \subseteq Uids /\ \A u \in DOMAIN kernel : kernel[u] \in Kinds
  /\ nonblocking \subseteq Uids
  /\ strings \in Int
  /\ DOMAIN held \subseteq FD
  /\ \A f \in DOMAIN held : held[f] \in Uids \cup {Error}

References(map, s) == {f \in FD : map[f] = s}

(* What ref_count of slot s must be under a map. *)
CountOf(map, s) ==
  LET n == Cardinality(References(map, s)) - IF s \in StdFds THEN 1 ELSE 0
  IN  IF n = -1 THEN RefMod - 1 ELSE n

(* ref_count counts the entries that point at a slot through every open,   *)
(* dup, pipe and close; __fdman_init leaves the standard slots one short,  *)
(* so that closing one takes it through 0 to 2^32 - 1.                     *)
RefCountAccurate ==
  \A s \in FD : pool[s].ref_count = CountOf(descriptormap, s)

(* A descriptor the program holds names the object it was opened on or     *)
(* duplicated from, and the slot's type, which chooses among sceIoClose,   *)
(* sceIoDclose, sceKernelDeleteMsgPipe and sceNetInetClose, is the kind of *)
(* that object.                                                            *)
HeldNamesObject ==
  \A f \in DOMAIN held :
    /\ descriptormap[f] # Null
    /\ LET slot == pool[descriptormap[f]] IN
         /\ slot.descriptor = held[f]
         /\ held[f] # Error => /\ held[f] \in DOMAIN kernel
                               /\ kernel[held[f]] = slot.type

(* Every open kernel object can still be reached by a descriptor. *)
NoKernelLeak == \A u \in DOMAIN kernel : \E f \in DOMAIN held : held[f] = u

(* Every allocated file name is in a slot, and is freed with it. *)
NamesOwned == strings = Cardinality({s \in FD : pool[s].filename})

(* The descriptor of a new socket has O_NONBLOCK clear, and the socket     *)
(* blocks: socket and accept never write the flags of the slot, so this    *)
(* rests on __fdman_release_descriptor having cleared them, whatever       *)
(* F_SETFL, F_SETFD and setsockopt had made of the flags and of the mode   *)
(* of an earlier socket.                                                   *)
SocketStartsBlocking ==
  [][\A f \in DOMAIN held' \ DOMAIN held :
       /\ held'[f] \in DOMAIN kernel' \ DOMAIN kernel
       /\ kernel'[held'[f]] = "socket"
       => ~pool'[descriptormap'[f]].nonblock /\ held'[f] \notin nonblocking']_vars
=============================================================================
