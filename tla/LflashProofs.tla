---------------------------- MODULE LflashProofs ----------------------------
(***************************************************************************)
(* Proofs about Lflash, for any number of blocks, pages and values, any    *)
(* number of failing operations and any number of power losses.            *)
(***************************************************************************)
EXTENDS Lflash, SequenceTheorems, FiniteSetTheorems, WellFoundedInduction, TLAPS

(* What the program counter says about the cache and the block in flight.  *)
(* While the disk is mounted, only blocks behind the scan are known.       *)
Control ==
  /\ cache_lbn = None <=> cache_pbn = None
  /\ pc \in {"clear", "pop", "program", "retire"} => cache_lbn # None
  /\ pc \in {"program", "retire"} <=> new_pbn # None
  /\ pc = "load" => caller \in WriteCalls
  /\ pc = "retire" => flash[new_pbn].lbn = cache_lbn
  /\ pc = "mount" =>
       /\ cache_lbn = None
       /\ \A p \in Pb : p >= n => ~Queued(p) /\ ~Mapped(p)

Safe == TypeOK /\ BlocksApart /\ Control

(* The constants of the segment, as the provers use them. *)
LEMMA Constants ==
  /\ None \notin Pb /\ None \notin Lb
  /\ Blank \in Contents /\ Erased \in Block /\ Erased.lbn = None
  /\ SyncCall \notin WriteCalls
  /\ \A c \in WriteCalls : c.lbn \in Lb /\ c.pages \subseteq Page /\ c.val \in Val
                           /\ c.code \in Codes
  /\ 0 \in Page
BY LflashAssumption DEF Pb, Page, Blank, Erased, Block, Contents, SyncCall, WriteCalls

LEMMA SafeInit == Init => Safe
<1>. SUFFICES ASSUME Init PROVE Safe
  OBVIOUS
<1>1. flash \in [Pb -> Block]
  <2>1. PICK at \in [Present -> Pb] :
          flash = [p \in Pb |->
            IF \E l \in Present : at[l] = p
              THEN LET l == CHOOSE l \in Present : at[l] = p IN
                   [lbn |-> l, inuse |-> TRUE, data |-> [q \in Page |-> Formatted],
                    code |-> Scramble[l]]
              ELSE Erased]
    BY DEF Init
  <2>2. ASSUME NEW p \in Pb PROVE flash[p] \in Block
    <3>1. CASE \E l \in Present : at[l] = p
      <4>. DEFINE l == CHOOSE l \in Present : at[l] = p
      <4>1. l \in Present
        BY <3>1
      <4>2. flash[p] = [lbn |-> l, inuse |-> TRUE, data |-> [q \in Page |-> Formatted],
                        code |-> Scramble[l]]
        BY <2>1, <3>1
      <4>. HIDE DEF l
      <4>3. l \in Lb /\ Scramble[l] \in Codes /\ [q \in Page |-> Formatted] \in Contents
        BY <4>1, LflashAssumption DEF Contents
      <4>. QED
        BY <4>2, <4>3 DEF Block
    <3>2. CASE ~ \E l \in Present : at[l] = p
      BY <2>1, <3>2, Constants
    <3>. QED
      BY <3>1, <3>2
  <2>. QED
    BY <2>1, <2>2
<1>2. TypeOK
  BY <1>1, Constants, LflashAssumption DEF Init, TypeOK, Pb
<1>3. BlocksApart /\ Control
  BY Constants, LflashAssumption DEF Init, BlocksApart, Control, Queued, Mapped
<1>. QED
  BY <1>2, <1>3 DEF Safe

-----------------------------------------------------------------------------
(* A block that is not queued is appended once, if there is room. *)
LEMMA QueueGrows ==
  ASSUME NEW q \in Seq(Pb), Len(q) < MaxNodes, NEW p \in Pb,
         \A j, k \in 1 .. Len(q) : q[j] = q[k] => j = k,
         \A k \in 1 .. Len(q) : q[k] # p
  PROVE  /\ Append(q, p) \in Seq(Pb) /\ Len(Append(q, p)) <= MaxNodes
         /\ \A j, k \in 1 .. Len(Append(q, p)) : Append(q, p)[j] = Append(q, p)[k] => j = k
         /\ \A k \in 1 .. Len(Append(q, p)) :
              Append(q, p)[k] = p \/ \E j \in 1 .. Len(q) : q[j] = Append(q, p)[k]
BY LflashAssumption

(* What is left of the queue was in it, and its head is gone. *)
LEMMA QueueShrinks ==
  ASSUME NEW q \in Seq(Pb), q # <<>>, Len(q) <= MaxNodes,
         \A j, k \in 1 .. Len(q) : q[j] = q[k] => j = k
  PROVE  /\ Tail(q) \in Seq(Pb) /\ Len(Tail(q)) <= MaxNodes /\ Head(q) \in Pb
         /\ \A j, k \in 1 .. Len(Tail(q)) : Tail(q)[j] = Tail(q)[k] => j = k
         /\ \A k \in 1 .. Len(Tail(q)) :
              Tail(q)[k] # Head(q) /\ \E j \in 1 .. Len(q) : q[j] = Tail(q)[k]
         /\ Head(q) = q[1] /\ 1 \in 1 .. Len(q)
<1>1. Len(q) \in Nat /\ Len(q) >= 1 /\ Head(q) = q[1] /\ q[1] \in Pb
  BY EmptySeq, LenProperties
<1>2. Tail(q) \in Seq(Pb) /\ Len(Tail(q)) = Len(q) - 1
      /\ \A k \in 1 .. Len(q) - 1 : Tail(q)[k] = q[k + 1]
  BY HeadTailProperties
<1>. QED
  BY <1>1, <1>2, LflashAssumption

(* add_block_to_unused_list on a block p that is not queued and that no    *)
(* logical block but l is mapped to keeps the types and the queue apart    *)
(* from the blocks in use.                                                 *)
LEMMA AddUnusedSafe ==
  ASSUME TypeOK, BlocksApart, NEW p \in Pb, ~Queued(p), NEW l \in Lb \cup {None},
         AddUnused(p, l)
  PROVE  /\ flash' \in [Pb -> Block]
         /\ unused_blocks' \in Seq(Pb) /\ Len(unused_blocks') <= MaxNodes
         /\ failed' \subseteq Lb \cup {None} /\ failures' \in Nat
         /\ \A j, k \in 1 .. Len(unused_blocks') :
              unused_blocks'[j] = unused_blocks'[k] => j = k
         /\ \A q \in Pb : Queued(q)' => q = p \/ Queued(q)
         /\ \A q \in Pb : Queued(q)' => flash'[q].lbn = None
         /\ \A q \in Pb : q # p => flash'[q] = flash[q]
<1>1. CASE Fails(l) /\ UNCHANGED <<flash, unused_blocks>>
  BY <1>1 DEF Fails, TypeOK, BlocksApart, Queued
<1>2. CASE /\ flash' = [flash EXCEPT ![p] = Erased]
           /\ unused_blocks' = IF Len(unused_blocks) < MaxNodes
                                 THEN Append(unused_blocks, p) ELSE unused_blocks
           /\ UNCHANGED harm
  <2>1. /\ flash' \in [Pb -> Block] /\ flash'[p].lbn = None
        /\ \A q \in Pb : q # p => flash'[q] = flash[q]
        /\ failed' \subseteq Lb \cup {None} /\ failures' \in Nat
    BY <1>2, Constants DEF TypeOK, harm
  <2>2. CASE Len(unused_blocks) < MaxNodes
    <3>1. unused_blocks' = Append(unused_blocks, p) /\ unused_blocks \in Seq(Pb)
      BY <1>2, <2>2 DEF TypeOK
    <3>2. \A k \in 1 .. Len(unused_blocks) : unused_blocks[k] # p
      BY DEF Queued
    <3>3. /\ unused_blocks' \in Seq(Pb) /\ Len(unused_blocks') <= MaxNodes
          /\ \A j, k \in 1 .. Len(unused_blocks') :
               unused_blocks'[j] = unused_blocks'[k] => j = k
          /\ \A k \in 1 .. Len(unused_blocks') :
               unused_blocks'[k] = p \/ \E j \in 1 .. Len(unused_blocks) :
                                          unused_blocks[j] = unused_blocks'[k]
      BY <3>1, <3>2, <2>2, QueueGrows DEF BlocksApart
    <3>4. \A q \in Pb : Queued(q)' => q = p \/ Queued(q)
      BY <3>3 DEF Queued
    <3>5. \A q \in Pb : Queued(q)' => flash'[q].lbn = None
      BY <2>1, <3>4 DEF BlocksApart
    <3>. QED
      BY <2>1, <3>3, <3>4, <3>5
  <2>3. CASE ~(Len(unused_blocks) < MaxNodes)
    BY <1>2, <2>1, <2>3 DEF TypeOK, BlocksApart, Queued
  <2>. QED
    BY <2>2, <2>3
<1>. QED
  BY <1>1, <1>2 DEF AddUnused

-----------------------------------------------------------------------------
(* One turn of the loop of init_segment. *)
LEMMA MountUnusedStep == Safe /\ MountUnused => Safe'
<1>. SUFFICES ASSUME Safe, MountUnused PROVE Safe'
  OBVIOUS
<1>. USE DEF Safe
<1>1. /\ pc = "mount" /\ n \in Nat /\ n \in Pb /\ n' = n + 1 /\ n' \in 0 .. NumPb
      /\ flash[n].lbn = None /\ AddUnused(n, None) /\ ~Queued(n) /\ ~Mapped(n)
      /\ cache_lbn = None /\ new_pbn = None
      /\ UNCHANGED <<pbn_lookup, cache, pc, new_pbn, caller>>
  BY LflashAssumption DEF MountUnused, TypeOK, Control, Pb
<1>2. /\ flash' \in [Pb -> Block]
      /\ unused_blocks' \in Seq(Pb) /\ Len(unused_blocks') <= MaxNodes
      /\ failed' \subseteq Lb \cup {None} /\ failures' \in Nat
      /\ \A j, k \in 1 .. Len(unused_blocks') :
           unused_blocks'[j] = unused_blocks'[k] => j = k
      /\ \A q \in Pb : Queued(q)' => q = n \/ Queued(q)
      /\ \A q \in Pb : Queued(q)' => flash'[q].lbn = None
      /\ \A q \in Pb : q # n => flash'[q] = flash[q]
  BY <1>1, AddUnusedSafe
<1>3. TypeOK'
  BY <1>1, <1>2 DEF TypeOK, cache
<1>4. ASSUME NEW k \in Lb, pbn_lookup'[k] # None
      PROVE  flash'[pbn_lookup'[k]].lbn = k
  <2>1. pbn_lookup'[k] = pbn_lookup[k] /\ pbn_lookup[k] \in Pb /\ pbn_lookup[k] # n
    BY <1>1, <1>4 DEF TypeOK, Mapped
  <2>. QED
    BY <1>2, <1>4, <2>1 DEF BlocksApart
<1>5. BlocksApart'
  BY <1>1, <1>2, <1>4 DEF BlocksApart, cache
<1>6. Control'
  BY <1>1, <1>2, LflashAssumption DEF Control, Mapped, cache, Pb
<1>. QED
  BY <1>3, <1>5, <1>6

LEMMA MountFirstStep == Safe /\ MountFirst => Safe'
<1>. SUFFICES ASSUME Safe, MountFirst PROVE Safe'
  OBVIOUS
<1>. USE DEF Safe
<1>. DEFINE l == flash[n].lbn
<1>1. /\ pc = "mount" /\ n \in Nat /\ n \in Pb /\ n' = n + 1 /\ n' \in 0 .. NumPb
      /\ ~Queued(n) /\ ~Mapped(n) /\ cache_lbn = None /\ new_pbn = None
      /\ l \in Lb /\ pbn_lookup' = [pbn_lookup EXCEPT ![l] = n]
      /\ UNCHANGED <<flash, unused_blocks, cache, pc, new_pbn, caller, harm>>
  BY LflashAssumption DEF MountFirst, TypeOK, Control, Pb, Block
<1>2. TypeOK'
  BY <1>1 DEF TypeOK, cache, harm
<1>3. \A k \in Lb : pbn_lookup'[k] = IF k = l THEN n ELSE pbn_lookup[k]
  BY <1>1 DEF TypeOK
<1>4. BlocksApart'
  BY <1>1, <1>3 DEF BlocksApart, Queued, TypeOK, cache
<1>5. Control'
  BY <1>1, <1>3, LflashAssumption DEF Control, Queued, Mapped, cache, Pb
<1>. QED
  BY <1>2, <1>4, <1>5

LEMMA MountAgainStep == Safe /\ MountAgain => Safe'
<1>. SUFFICES ASSUME Safe, MountAgain PROVE Safe'
  OBVIOUS
<1>. USE DEF Safe
<1>. DEFINE l == flash[n].lbn
            other == pbn_lookup[l]
<1>1. /\ pc = "mount" /\ n \in Nat /\ n \in Pb /\ n' = n + 1 /\ n' \in 0 .. NumPb
      /\ ~Queued(n) /\ ~Mapped(n) /\ cache_lbn = None /\ new_pbn = None
      /\ l \in Lb /\ other \in Pb
      /\ UNCHANGED <<cache, pc, new_pbn, caller>>
  BY LflashAssumption DEF MountAgain, TypeOK, Control, Pb, Block
<1>2. /\ flash[other].lbn = l /\ ~Queued(other) /\ other # n
      /\ \A k \in Lb : pbn_lookup[k] = other => k = l
  BY <1>1, Constants DEF BlocksApart, Mapped
<1>3. CASE AddUnused(n, l) /\ UNCHANGED pbn_lookup
  <2>1. /\ flash' \in [Pb -> Block]
        /\ unused_blocks' \in Seq(Pb) /\ Len(unused_blocks') <= MaxNodes
        /\ failed' \subseteq Lb \cup {None} /\ failures' \in Nat
        /\ \A j, k \in 1 .. Len(unused_blocks') :
             unused_blocks'[j] = unused_blocks'[k] => j = k
        /\ \A q \in Pb : Queued(q)' => q = n \/ Queued(q)
        /\ \A q \in Pb : Queued(q)' => flash'[q].lbn = None
        /\ \A q \in Pb : q # n => flash'[q] = flash[q]
    BY <1>1, <1>3, AddUnusedSafe
  <2>2. TypeOK'
    BY <1>1, <1>3, <2>1 DEF TypeOK, cache
  <2>3. ASSUME NEW k \in Lb, pbn_lookup'[k] # None
        PROVE  flash'[pbn_lookup'[k]].lbn = k
    <3>1. pbn_lookup'[k] = pbn_lookup[k] /\ pbn_lookup[k] \in Pb /\ pbn_lookup[k] # n
      BY <1>1, <1>3, <2>3 DEF TypeOK, Mapped
    <3>. QED
      BY <2>1, <2>3, <3>1 DEF BlocksApart
  <2>4. BlocksApart'
    BY <1>1, <2>1, <2>3 DEF BlocksApart, cache
  <2>5. ASSUME NEW p \in Pb, p >= n' PROVE ~Queued(p)' /\ ~Mapped(p)'
    <3>1. p >= n /\ p # n
      BY <1>1, <2>5, LflashAssumption DEF Pb
    <3>2. ~Queued(p) /\ ~Mapped(p)
      BY <1>1, <3>1 DEF Control
    <3>. QED
      BY <1>3, <2>1, <3>1, <3>2 DEF Mapped
  <2>6. Control'
    BY <1>1, <2>5 DEF Control, cache
  <2>. QED
    BY <2>2, <2>4, <2>6
<1>4. CASE AddUnused(other, l) /\ pbn_lookup' = [pbn_lookup EXCEPT ![l] = n]
  <2>1. /\ flash' \in [Pb -> Block]
        /\ unused_blocks' \in Seq(Pb) /\ Len(unused_blocks') <= MaxNodes
        /\ failed' \subseteq Lb \cup {None} /\ failures' \in Nat
        /\ \A j, k \in 1 .. Len(unused_blocks') :
             unused_blocks'[j] = unused_blocks'[k] => j = k
        /\ \A q \in Pb : Queued(q)' => q = other \/ Queued(q)
        /\ \A q \in Pb : Queued(q)' => flash'[q].lbn = None
        /\ \A q \in Pb : q # other => flash'[q] = flash[q]
    BY <1>1, <1>2, <1>4, AddUnusedSafe
  <2>2. \A k \in Lb : pbn_lookup'[k] = IF k = l THEN n ELSE pbn_lookup[k]
    BY <1>1, <1>4 DEF TypeOK
  <2>3. TypeOK'
    BY <1>1, <1>4, <2>1 DEF TypeOK, cache
  <2>4. ASSUME NEW k \in Lb, pbn_lookup'[k] # None
        PROVE  flash'[pbn_lookup'[k]].lbn = k
    <3>1. CASE k = l
      BY <1>1, <1>2, <2>1, <2>2, <3>1
    <3>2. CASE k # l
      <4>1. pbn_lookup'[k] = pbn_lookup[k] /\ pbn_lookup[k] \in Pb /\ pbn_lookup[k] # other
        BY <1>2, <2>2, <2>4, <3>2 DEF TypeOK
      <4>. QED
        BY <2>1, <2>4, <4>1 DEF BlocksApart
    <3>. QED
      BY <3>1, <3>2
  <2>5. BlocksApart'
    BY <1>1, <2>1, <2>4, Constants DEF BlocksApart, cache
  <2>6. ASSUME NEW p \in Pb, p >= n' PROVE ~Queued(p)' /\ ~Mapped(p)'
    <3>1. p >= n /\ p # n
      BY <1>1, <2>6, LflashAssumption DEF Pb
    <3>2. ~Queued(p) /\ ~Mapped(p)
      BY <1>1, <3>1 DEF Control
    <3>3. p # other
      BY <1>1, <3>2 DEF Mapped
    <3>. QED
      BY <2>1, <2>2, <3>1, <3>2, <3>3 DEF Mapped
  <2>7. Control'
    BY <1>1, <2>6 DEF Control, cache
  <2>. QED
    BY <2>3, <2>5, <2>7
<1>. QED
  BY <1>3, <1>4 DEF MountAgain

LEMMA MountEndStep == Safe /\ MountEnd => Safe'
<1>. SUFFICES ASSUME Safe, MountEnd PROVE Safe'
  OBVIOUS
<1>. USE DEF Safe
<1>1. TypeOK'
  BY Constants DEF MountEnd, TypeOK, maps, cache, harm
<1>2. BlocksApart' /\ Control'
  BY Constants DEF MountEnd, TypeOK, BlocksApart, Control, Queued, Mapped, maps, cache, harm
<1>. QED
  BY <1>1, <1>2

-----------------------------------------------------------------------------
(* The calls of the program. *)
LEMMA CallStep == Safe /\ (Sync \/ WriteHit \/ WriteMiss) => Safe'
<1>. SUFFICES ASSUME Safe, Sync \/ WriteHit \/ WriteMiss PROVE Safe'
  OBVIOUS
<1>. USE DEF Safe
<1>1. CASE Sync
  <2>1. TypeOK'
    BY <1>1 DEF Sync, TypeOK, maps, cache, harm
  <2>2. BlocksApart' /\ Control'
    BY <1>1 DEF Sync, BlocksApart, Control, Queued, Mapped, maps, cache
  <2>. QED
    BY <2>1, <2>2
<1>2. CASE WriteHit
  <2>1. PICK c \in WriteCalls : block_buffer' = Copied(block_buffer, c)
    BY <1>2 DEF WriteHit
  <2>2. block_buffer' \in Contents
    BY <2>1, Constants DEF Copied, Contents, TypeOK
  <2>3. TypeOK'
    BY <1>2, <2>2 DEF WriteHit, TypeOK, maps, harm
  <2>4. BlocksApart' /\ Control'
    BY <1>2 DEF WriteHit, BlocksApart, Control, Queued, Mapped, maps
  <2>. QED
    BY <2>3, <2>4
<1>3. CASE WriteMiss
  <2>1. pc' \in {"load", "clear"} /\ (pc' = "clear" => cache_lbn # None)
        /\ caller' \in WriteCalls /\ pc = "idle"
        /\ UNCHANGED <<flash, maps, cache, n, new_pbn, harm>>
    BY <1>3 DEF WriteMiss
  <2>2. TypeOK'
    BY <2>1 DEF TypeOK, maps, cache, harm
  <2>3. BlocksApart' /\ Control'
    BY <2>1 DEF BlocksApart, Control, Queued, Mapped, maps, cache
  <2>. QED
    BY <2>2, <2>3
<1>. QED
  BY <1>1, <1>2, <1>3

LEMMA LoadStep == Safe /\ Load => Safe'
<1>. SUFFICES ASSUME Safe, Load PROVE Safe'
  OBVIOUS
<1>. USE DEF Safe
<1>. DEFINE p == pbn_lookup[caller.lbn]
<1>1. /\ pc = "load" /\ pc' = "idle" /\ caller' = SyncCall
      /\ caller \in WriteCalls /\ caller.lbn \in Lb /\ p \in Pb \cup {None}
      /\ UNCHANGED <<flash, maps, n, new_pbn, harm>>
  BY Constants DEF Load, Control, TypeOK
<1>2. CASE p = None
  <2>1. UNCHANGED cache
    BY <1>2 DEF Load
  <2>2. TypeOK'
    BY <1>1, <2>1 DEF TypeOK, maps, cache, harm
  <2>3. BlocksApart' /\ Control'
    BY <1>1, <2>1 DEF BlocksApart, Control, Queued, Mapped, maps, cache
  <2>. QED
    BY <2>2, <2>3
<1>3. CASE p # None
  <2>. DEFINE b == IF flash[p].code = CodeAtLoad THEN flash[p].data ELSE Blank
  <2>1. cache_lbn' = caller.lbn /\ cache_pbn' = p /\ block_buffer' = Copied(b, caller)
    BY <1>3 DEF Load
  <2>2. b \in Contents
    BY <1>1, <1>3, Constants DEF TypeOK, Block
  <2>3. block_buffer' \in Contents
    <3>. HIDE DEF b
    <3>. QED
      BY <1>1, <2>1, <2>2, Constants DEF Copied, Contents
  <2>4. TypeOK'
    BY <1>1, <1>3, <2>1, <2>3 DEF TypeOK, maps, harm
  <2>5. BlocksApart' /\ Control'
    BY <1>1, <1>3, <2>1, Constants DEF BlocksApart, Control, Queued, Mapped, maps
  <2>. QED
    BY <2>4, <2>5
<1>. QED
  BY <1>2, <1>3

-----------------------------------------------------------------------------
(* The steps of sync_write. *)
LEMMA ClearStep == Safe /\ Clear => Safe'
<1>. SUFFICES ASSUME Safe, Clear PROVE Safe'
  OBVIOUS
<1>. USE DEF Safe
<1>1. /\ pc = "clear" /\ pc' = "pop" /\ cache_pbn \in Pb /\ cache_lbn \in Lb /\ new_pbn = None
      /\ flash' = [flash EXCEPT ![cache_pbn].inuse = FALSE]
      /\ UNCHANGED <<maps, cache, n, new_pbn, caller, harm>>
  BY DEF Clear, Control, TypeOK
<1>2. flash' \in [Pb -> Block] /\ \A p \in Pb : flash'[p].lbn = flash[p].lbn
  BY <1>1 DEF TypeOK, Block
<1>3. TypeOK'
  BY <1>1, <1>2 DEF TypeOK, maps, cache, harm
<1>4. BlocksApart' /\ Control'
  BY <1>1, <1>2 DEF BlocksApart, Control, TypeOK, Queued, Mapped, maps, cache
<1>. QED
  BY <1>3, <1>4

LEMMA SyncFailsStep == Safe /\ (ClearFails \/ Exhausted) => Safe'
<1>. SUFFICES ASSUME Safe, ClearFails \/ Exhausted PROVE Safe'
  OBVIOUS
<1>. USE DEF Safe
<1>1. /\ failed' \subseteq Lb \cup {None} /\ failures' \in Nat
      /\ new_pbn = None /\ SyncFails
  BY DEF ClearFails, Exhausted, Fails, Control, TypeOK
<1>2. /\ UNCHANGED <<flash, maps, cache>> /\ n' = 0 /\ new_pbn' = None
      /\ pc' \in {"load", "idle"} /\ (pc' = "load" => caller' \in WriteCalls)
      /\ caller' \in {SyncCall} \cup WriteCalls
  BY <1>1 DEF SyncFails, Return, TypeOK
<1>3. TypeOK'
  BY <1>1, <1>2, Constants DEF TypeOK, maps, cache
<1>4. BlocksApart' /\ Control'
  BY <1>1, <1>2 DEF BlocksApart, Control, Queued, Mapped, maps, cache
<1>. QED
  BY <1>3, <1>4

LEMMA PopStep == Safe /\ Pop => Safe'
<1>. SUFFICES ASSUME Safe, Pop PROVE Safe'
  OBVIOUS
<1>. USE DEF Safe
<1>. DEFINE h == Head(unused_blocks)
<1>1. /\ pc = "pop" /\ unused_blocks # <<>> /\ unused_blocks' = Tail(unused_blocks)
      /\ cache_lbn \in Lb /\ new_pbn = None
      /\ UNCHANGED <<pbn_lookup, cache, n, caller>>
  BY DEF Pop, Control, TypeOK
<1>2. /\ unused_blocks' \in Seq(Pb) /\ Len(unused_blocks') <= MaxNodes /\ h \in Pb
      /\ \A j, k \in 1 .. Len(unused_blocks') :
           unused_blocks'[j] = unused_blocks'[k] => j = k
      /\ \A k \in 1 .. Len(unused_blocks') :
           unused_blocks'[k] # h /\ \E j \in 1 .. Len(unused_blocks) :
                                      unused_blocks[j] = unused_blocks'[k]
      /\ h = unused_blocks[1] /\ 1 \in 1 .. Len(unused_blocks)
  <2>1. /\ unused_blocks \in Seq(Pb) /\ Len(unused_blocks) <= MaxNodes
        /\ \A j, k \in 1 .. Len(unused_blocks) : unused_blocks[j] = unused_blocks[k] => j = k
    BY DEF TypeOK, BlocksApart
  <2>. QED
    BY ONLY <1>1, <2>1, QueueShrinks
<1>3. /\ \A p \in Pb : Queued(p)' => Queued(p) /\ p # h
      /\ Queued(h) /\ flash[h].lbn = None
  BY <1>2 DEF Queued, BlocksApart
<1>4. \A k \in Lb : pbn_lookup[k] # h
  BY <1>2, <1>3, Constants DEF BlocksApart
<1>. HIDE DEF h
<1>5. CASE flash' = [flash EXCEPT ![h] = Erased] /\ new_pbn' = h /\ pc' = "program"
           /\ UNCHANGED harm
  <2>1. /\ flash' \in [Pb -> Block] /\ flash'[h].lbn = None
        /\ \A p \in Pb : p # h => flash'[p] = flash[p]
    BY <1>2, <1>5, Constants DEF TypeOK
  <2>2. TypeOK'
    BY <1>1, <1>2, <1>5, <2>1 DEF TypeOK, cache, harm
  <2>3. \A p \in Pb : Queued(p)' => flash'[p].lbn = None
    BY <1>3, <2>1 DEF BlocksApart
  <2>4. \A k \in Lb : pbn_lookup'[k] # None => flash'[pbn_lookup'[k]].lbn = k
    BY <1>1, <1>4, <2>1 DEF BlocksApart, TypeOK
  <2>5. ~Queued(new_pbn)' /\ ~Mapped(new_pbn)'
    BY <1>1, <1>2, <1>4, <1>5 DEF Queued, Mapped
  <2>6. BlocksApart'
    BY <1>1, <1>2, <2>3, <2>4, <2>5 DEF BlocksApart, cache
  <2>7. Control'
    BY <1>1, <1>2, <1>5, Constants DEF Control, cache
  <2>. QED
    BY <2>2, <2>6, <2>7
<1>6. CASE failed' = failed \cup {cache_lbn} /\ UNCHANGED <<flash, new_pbn, pc, failures>>
  <2>1. TypeOK'
    BY <1>1, <1>2, <1>6 DEF TypeOK, cache
  <2>2. BlocksApart'
    BY <1>1, <1>2, <1>3, <1>6 DEF BlocksApart, cache
  <2>3. Control'
    BY <1>1, <1>6 DEF Control, cache
  <2>. QED
    BY <2>1, <2>2, <2>3
<1>. QED
  BY <1>5, <1>6 DEF Pop, h

LEMMA ProgramStep == Safe /\ (Program \/ ProgramFails) => Safe'
<1>. SUFFICES ASSUME Safe, Program \/ ProgramFails PROVE Safe'
  OBVIOUS
<1>. USE DEF Safe
<1>1. /\ pc = "program" /\ new_pbn \in Pb /\ cache_lbn \in Lb /\ cache_pbn \in Pb
      /\ n \in Page /\ flash[new_pbn] \in Block /\ Scramble[cache_lbn] \in Codes
      /\ block_buffer \in Contents /\ ~Queued(new_pbn) /\ ~Mapped(new_pbn)
  BY LflashAssumption DEF Program, ProgramFails, Control, TypeOK, BlocksApart
<1>2. ASSUME NEW b \in Block, flash' = [flash EXCEPT ![new_pbn] = b]
      PROVE  /\ flash' \in [Pb -> Block] /\ flash'[new_pbn].lbn = b.lbn
             /\ \A p \in Pb : Queued(p) => flash'[p].lbn = None
             /\ \A k \in Lb : pbn_lookup[k] # None => flash'[pbn_lookup[k]].lbn = k
  <2>1. /\ flash' \in [Pb -> Block] /\ flash'[new_pbn] = b
        /\ \A p \in Pb : p # new_pbn => flash'[p] = flash[p]
    BY <1>1, <1>2 DEF TypeOK
  <2>. QED
    BY <1>1, <2>1 DEF BlocksApart, TypeOK, Mapped
<1>3. CASE Program
  <2>. DEFINE d == [flash[new_pbn].data EXCEPT ![n] = block_buffer[n]]
              b == [lbn |-> cache_lbn, inuse |-> TRUE, data |-> d, code |-> Scramble[cache_lbn]]
  <2>1. d \in Contents
    BY <1>1 DEF Block, Contents
  <2>2. /\ flash' = [flash EXCEPT ![new_pbn] = b]
        /\ pc' \in {"program", "retire"} /\ n' \in Page
        /\ UNCHANGED <<maps, cache, new_pbn, caller, harm>>
    BY <1>1, <1>3, LflashAssumption DEF Program, Page
  <2>. HIDE DEF d
  <2>3. b \in Block /\ b.lbn = cache_lbn
    BY <1>1, <2>1 DEF Block
  <2>. HIDE DEF b
  <2>4. /\ flash' \in [Pb -> Block] /\ flash'[new_pbn].lbn = cache_lbn
        /\ \A p \in Pb : Queued(p) => flash'[p].lbn = None
        /\ \A k \in Lb : pbn_lookup[k] # None => flash'[pbn_lookup[k]].lbn = k
    BY <1>2, <2>2, <2>3
  <2>5. TypeOK'
    BY <2>2, <2>4 DEF TypeOK, maps, cache, harm
  <2>6. BlocksApart'
    BY <1>1, <2>2, <2>4 DEF BlocksApart, Queued, Mapped, maps, cache
  <2>7. Control'
    BY <1>1, <2>2, <2>4 DEF Control, maps, cache
  <2>. QED
    BY <2>5, <2>6, <2>7
<1>4. CASE ProgramFails
  <2>1. PICK b \in {Erased, flash[new_pbn],
                    [lbn |-> cache_lbn, inuse |-> TRUE, data |-> Blank,
                     code |-> Scramble[cache_lbn]]} :
          flash' = [flash EXCEPT ![new_pbn] = b]
    BY <1>4 DEF ProgramFails
  <2>2. b \in Block
    <3>1. [lbn |-> cache_lbn, inuse |-> TRUE, data |-> Blank,
           code |-> Scramble[cache_lbn]] \in Block
      BY <1>1, Constants DEF Block
    <3>. QED
      BY <1>1, <2>1, <3>1, Constants
  <2>3. /\ pc' = "pop" /\ n' = 0 /\ new_pbn' = None
        /\ failed' \subseteq Lb \cup {None} /\ failures' \in Nat
        /\ UNCHANGED <<maps, cache, caller>>
    BY <1>1, <1>4 DEF ProgramFails, Fails, TypeOK
  <2>4. /\ flash' \in [Pb -> Block]
        /\ \A p \in Pb : Queued(p) => flash'[p].lbn = None
        /\ \A k \in Lb : pbn_lookup[k] # None => flash'[pbn_lookup[k]].lbn = k
    BY <1>2, <2>1, <2>2
  <2>5. TypeOK'
    BY <2>3, <2>4, Constants DEF TypeOK, maps, cache
  <2>6. BlocksApart'
    BY <2>3, <2>4 DEF BlocksApart, Queued, maps, cache
  <2>7. Control'
    BY <1>1, <2>3 DEF Control, maps, cache
  <2>. QED
    BY <2>5, <2>6, <2>7
<1>. QED
  BY <1>3, <1>4

LEMMA RetireStep == Safe /\ Retire => Safe'
<1>. SUFFICES ASSUME Safe, Retire PROVE Safe'
  OBVIOUS
<1>. USE DEF Safe
<1>1. /\ pc = "retire" /\ new_pbn \in Pb /\ cache_lbn \in Lb /\ cache_pbn \in Pb
      /\ pbn_lookup[cache_lbn] = cache_pbn /\ flash[new_pbn].lbn = cache_lbn
      /\ ~Queued(new_pbn) /\ ~Mapped(new_pbn)
      /\ AddUnused(cache_pbn, cache_lbn)
      /\ pbn_lookup' = [pbn_lookup EXCEPT ![cache_lbn] = new_pbn]
      /\ cache_lbn' = None /\ cache_pbn' = None /\ block_buffer' = Blank
      /\ n' = 0 /\ new_pbn' = None
      /\ pc' \in {"load", "idle"} /\ (pc' = "load" => caller' \in WriteCalls)
      /\ caller' \in {SyncCall} \cup WriteCalls
  BY DEF Retire, Return, Control, TypeOK, BlocksApart
<1>2. /\ flash[cache_pbn].lbn = cache_lbn /\ ~Queued(cache_pbn) /\ cache_pbn # new_pbn
      /\ \A k \in Lb : pbn_lookup[k] = cache_pbn => k = cache_lbn
  BY <1>1, Constants DEF BlocksApart, Mapped
<1>3. /\ flash' \in [Pb -> Block]
      /\ unused_blocks' \in Seq(Pb) /\ Len(unused_blocks') <= MaxNodes
      /\ failed' \subseteq Lb \cup {None} /\ failures' \in Nat
      /\ \A j, k \in 1 .. Len(unused_blocks') :
           unused_blocks'[j] = unused_blocks'[k] => j = k
      /\ \A q \in Pb : Queued(q)' => flash'[q].lbn = None
      /\ \A q \in Pb : q # cache_pbn => flash'[q] = flash[q]
  BY <1>1, <1>2, AddUnusedSafe
<1>4. \A k \in Lb : pbn_lookup'[k] = IF k = cache_lbn THEN new_pbn ELSE pbn_lookup[k]
  BY <1>1 DEF TypeOK
<1>5. TypeOK'
  BY <1>1, <1>3, Constants DEF TypeOK
<1>6. ASSUME NEW k \in Lb, pbn_lookup'[k] # None
      PROVE  flash'[pbn_lookup'[k]].lbn = k
  <2>1. CASE k = cache_lbn
    BY <1>1, <1>2, <1>3, <1>4, <2>1
  <2>2. CASE k # cache_lbn
    <3>1. pbn_lookup'[k] = pbn_lookup[k] /\ pbn_lookup[k] \in Pb /\ pbn_lookup[k] # cache_pbn
      BY <1>2, <1>4, <1>6, <2>2 DEF TypeOK
    <3>. QED
      BY <1>3, <1>6, <3>1 DEF BlocksApart
  <2>. QED
    BY <2>1, <2>2
<1>7. BlocksApart'
  BY <1>1, <1>3, <1>6 DEF BlocksApart
<1>8. Control'
  BY <1>1 DEF Control
<1>. QED
  BY <1>5, <1>7, <1>8

-----------------------------------------------------------------------------
LEMMA PowerLossStep == Safe /\ PowerLoss => Safe'
<1>. SUFFICES ASSUME Safe, PowerLoss PROVE Safe'
  OBVIOUS
<1>1. TypeOK'
  BY Constants, LflashAssumption DEF Safe, PowerLoss, PowerOn, TypeOK, Pb
<1>2. BlocksApart' /\ Control'
  BY Constants DEF PowerLoss, PowerOn, BlocksApart, Control, Queued, Mapped
<1>. QED
  BY <1>1, <1>2 DEF Safe

LEMMA SafeNext == Safe /\ [Next]_vars => Safe'
<1>. SUFFICES ASSUME Safe, [Next]_vars PROVE Safe'
  OBVIOUS
<1>1. CASE UNCHANGED vars
  BY <1>1 DEF Safe, TypeOK, BlocksApart, Control, Queued, Mapped, vars
<1>. QED
  BY <1>1, MountUnusedStep, MountFirstStep, MountAgainStep, MountEndStep, CallStep,
     LoadStep, ClearStep, SyncFailsStep, PopStep, ProgramStep, RetireStep,
     PowerLossStep DEF Next

LEMMA SafeAlways == Spec => []Safe
BY SafeInit, SafeNext, PTL DEF Spec

(* The translation layer keeps its types: no page past the end of a block  *)
(* is programmed, a sync writes to a block of the segment, and the queue   *)
(* never needs more nodes than init_segment made.                          *)
THEOREM TypeCorrect == Spec => []TypeOK
<1>1. Safe => TypeOK
  BY DEF Safe
<1>. QED
  BY <1>1, SafeAlways, PTL

(* Whatever fails and whenever the power goes, pop_unused_block never      *)
(* hands out a block that a logical block is mapped to, and a mapped block *)
(* carries in its spare area the number of its logical block.              *)
THEOREM BlocksStayApart == Spec => []BlocksApart
<1>1. Safe => BlocksApart
  BY DEF Safe
<1>. QED
  BY <1>1, SafeAlways, PTL
-----------------------------------------------------------------------------
(* Why the nodes do not run out.  A formatted block is never without a     *)
(* copy on the flash: it is mapped, or the scan of init_segment has still  *)
(* to come to its copy.                                                    *)
Kept ==
  \A l \in Present :
    pbn_lookup[l] # None \/ (pc = "mount" /\ \E p \in Pb : p >= n /\ flash[p].lbn = l)

(* PoolComplete with the scan of init_segment: what it has not come to is  *)
(* not lost either.                                                        *)
Enough == NumPb <= Cardinality(Present) + MaxNodes
Pool ==
  failed = {} /\ Enough =>
    \A p \in Pb : (pc = "mount" /\ p >= n) \/ Mapped(p) \/ Queued(p) \/ p = new_pbn

(* Blocks without an lbn are apart from the copies of the formatted ones:  *)
(* when the queue is full and one more block has been erased, there are    *)
(* more blocks than formatted ones and nodes.                              *)
LEMMA FullQueue ==
  ASSUME NEW f \in [Pb -> Block], NEW q \in Seq(Pb), Len(q) >= MaxNodes,
         \A j, k \in 1 .. Len(q) : q[j] = q[k] => j = k,
         \A k \in 1 .. Len(q) : f[q[k]].lbn = None,
         NEW p \in Pb, f[p].lbn = None, \A k \in 1 .. Len(q) : q[k] # p,
         \A l \in Present : \E r \in Pb : f[r].lbn = l
  PROVE  ~Enough
<1>. DEFINE Q == {q[k] : k \in 1 .. Len(q)}
            C == {r \in Pb : f[r].lbn \in Present}
            g == [k \in 1 .. Len(q) |-> q[k]]
            h == [r \in C |-> f[r].lbn]
<1>1. Len(q) \in Nat /\ MaxNodes \in Nat /\ NumPb \in Nat /\ None \notin Present
      /\ \A k \in 1 .. Len(q) : q[k] \in Pb
  BY LenProperties, LflashAssumption
<1>2. IsFiniteSet(Pb) /\ Cardinality(Pb) = NumPb
  BY <1>1, FS_Interval DEF Pb
<1>3. IsFiniteSet(Q) /\ Cardinality(Q) = Len(q)
  <2>1. g \in Bijection(1 .. Len(q), Q)
    BY DEF Bijection, Injection, Surjection, IsInjective
  <2>2. IsFiniteSet(1 .. Len(q)) /\ Cardinality(1 .. Len(q)) = Len(q)
    <3>1. /\ IsFiniteSet(1 .. Len(q))
          /\ Cardinality(1 .. Len(q)) = IF 1 > Len(q) THEN 0 ELSE Len(q) - 1 + 1
      BY ONLY <1>1, FS_Interval
    <3>. QED
      BY ONLY <1>1, <3>1
  <2>. QED
    BY <2>1, <2>2, FS_Bijection DEF ExistsBijection
<1>4. IsFiniteSet(C) /\ Cardinality(C) \in Nat
  BY <1>2, FS_Subset, FS_CardinalityType
<1>5. IsFiniteSet(Present) /\ Cardinality(Present) <= Cardinality(C)
  <2>1. h \in Surjection(C, Present)
    BY DEF Surjection
  <2>. QED
    BY <1>4, <2>1, FS_Surjection
<1>6. IsFiniteSet(Q \cup {p}) /\ Cardinality(Q \cup {p}) = Len(q) + 1
  <2>1. p \notin Q
    OBVIOUS
  <2>. HIDE DEF Q
  <2>. QED
    BY <1>3, <2>1, FS_AddElement
<1>7. (Q \cup {p}) \cap C = {} /\ (Q \cup {p}) \cup C \subseteq Pb
  BY <1>1
<1>. HIDE DEF Q, C, g, h
<1>8. Cardinality((Q \cup {p}) \cup C) = Len(q) + 1 + Cardinality(C)
  <2>1. Cardinality((Q \cup {p}) \cup C)
          = Cardinality(Q \cup {p}) + Cardinality(C) - Cardinality((Q \cup {p}) \cap C)
    BY ONLY <1>4, <1>6, FS_Union
  <2>2. Cardinality((Q \cup {p}) \cap C) = 0
    BY ONLY <1>7, FS_EmptySet, Zenon
  <2>. QED
    BY ONLY <1>1, <1>4, <1>6, <2>1, <2>2
<1>9. Cardinality((Q \cup {p}) \cup C) <= NumPb
  BY <1>2, <1>7, FS_Subset
<1>10. Cardinality(Present) \in Nat
  BY <1>5, FS_CardinalityType
<1>. QED
  BY <1>1, <1>4, <1>5, <1>8, <1>9, <1>10 DEF Enough

(* A mapped block has its copy on the flash, so that Kept gives a copy of  *)
(* every formatted block.                                                  *)
LEMMA Copies ==
  ASSUME TypeOK, BlocksApart, Kept
  PROVE  \A l \in Present : \E r \in Pb : flash[r].lbn = l
BY LflashAssumption DEF TypeOK, BlocksApart, Kept

(* A block that has been erased is queued, if nothing failed. *)
LEMMA AddUnusedQueues ==
  ASSUME Safe, Safe', Kept', NEW p \in Pb, ~Queued(p), NEW l \in Lb \cup {None},
         AddUnused(p, l), failed' = {}, Enough
  PROVE  /\ failed = {} /\ Queued(p)'
         /\ \A q \in Pb : Queued(q) => Queued(q)'
<1>1. /\ flash' = [flash EXCEPT ![p] = Erased] /\ UNCHANGED harm
      /\ unused_blocks' = IF Len(unused_blocks) < MaxNodes
                            THEN Append(unused_blocks, p) ELSE unused_blocks
  BY DEF AddUnused, Fails
<1>2. failed = {} /\ flash'[p].lbn = None /\ unused_blocks \in Seq(Pb)
      /\ flash' \in [Pb -> Block]
  BY <1>1, Constants DEF harm, Safe, TypeOK
<1>3. Len(unused_blocks) < MaxNodes
  <2>. SUFFICES ASSUME ~(Len(unused_blocks) < MaxNodes) PROVE FALSE
    OBVIOUS
  <2>1. unused_blocks' = unused_blocks /\ Len(unused_blocks) >= MaxNodes
    BY <1>1, <1>2, LenProperties, LflashAssumption
  <2>2. /\ \A j, k \in 1 .. Len(unused_blocks) : unused_blocks[j] = unused_blocks[k] => j = k
        /\ \A k \in 1 .. Len(unused_blocks) : flash'[unused_blocks[k]].lbn = None
        /\ \A k \in 1 .. Len(unused_blocks) : unused_blocks[k] # p
    BY <1>2, <2>1, LenProperties DEF Safe, BlocksApart, Queued
  <2>3. \A k \in Present : \E r \in Pb : flash'[r].lbn = k
    BY LflashAssumption DEF Safe, TypeOK, BlocksApart, Kept
  <2>. QED
    BY <1>2, <2>1, <2>2, <2>3, FullQueue
<1>4. unused_blocks' = Append(unused_blocks, p)
  BY <1>1, <1>3
<1>5. Len(unused_blocks') = Len(unused_blocks) + 1
      /\ unused_blocks'[Len(unused_blocks) + 1] = p
      /\ \A k \in 1 .. Len(unused_blocks) : unused_blocks'[k] = unused_blocks[k]
      /\ Len(unused_blocks) \in Nat
  BY <1>2, <1>4, AppendProperties, LenProperties
<1>. QED
  BY <1>2, <1>5 DEF Queued

(* Every step keeps a copy of every formatted block. *)
LEMMA KeptNext == ASSUME Safe, Safe', Kept, [Next]_vars PROVE Kept'
<1>. SUFFICES ASSUME NEW l \in Present
              PROVE  \/ pbn_lookup'[l] # None
                     \/ pc' = "mount" /\ \E p \in Pb : p >= n' /\ flash'[p].lbn = l
  BY DEF Kept
<1>. USE DEF Safe
<1>0. /\ l \in Lb /\ l # None /\ pbn_lookup \in [Lb -> Pb \cup {None}]
      /\ flash \in [Pb -> Block] /\ NumPb \in Nat
      /\ pc = "mount" => n \in 0 .. NumPb
      /\ pbn_lookup[l] # None \/ (pc = "mount" /\ \E p \in Pb : p >= n /\ flash[p].lbn = l)
  BY LflashAssumption DEF TypeOK, Kept
<1>1. CASE MountUnused
  <2>1. /\ n \in Pb /\ n' = n + 1 /\ pc = "mount" /\ pc' = "mount"
        /\ flash[n].lbn = None /\ pbn_lookup' = pbn_lookup
        /\ flash' = [flash EXCEPT ![n] = Erased] \/ flash' = flash
    BY <1>0, <1>1 DEF MountUnused, AddUnused, Pb
  <2>2. \A p \in Pb : p >= n /\ flash[p].lbn = l => p >= n' /\ flash'[p].lbn = l
    BY <1>0, <2>1 DEF Pb
  <2>. QED
    BY <1>0, <2>1, <2>2
<1>2. CASE MountFirst
  <2>1. /\ n \in Pb /\ n' = n + 1 /\ pc = "mount" /\ pc' = "mount" /\ flash' = flash
        /\ flash[n].lbn \in Lb /\ pbn_lookup' = [pbn_lookup EXCEPT ![flash[n].lbn] = n]
    BY <1>0, <1>2 DEF MountFirst, Pb, Block
  <2>2. n # None
    BY <2>1, Constants
  <2>3. CASE flash[n].lbn = l
    BY <1>0, <2>1, <2>2, <2>3
  <2>4. CASE flash[n].lbn # l
    <3>1. pbn_lookup'[l] = pbn_lookup[l]
      BY <1>0, <2>1, <2>4
    <3>2. \A p \in Pb : p >= n /\ flash[p].lbn = l => p >= n'
      BY <1>0, <2>1, <2>4 DEF Pb
    <3>. QED
      BY <1>0, <2>1, <3>1, <3>2
  <2>. QED
    BY <2>3, <2>4
<1>3. CASE MountAgain
  <2>. DEFINE k == flash[n].lbn
  <2>1. /\ n \in Pb /\ n' = n + 1 /\ pc = "mount" /\ pc' = "mount"
        /\ k \in Lb /\ pbn_lookup[k] \in Pb /\ flash[pbn_lookup[k]].lbn = k
    BY <1>0, <1>3 DEF MountAgain, Pb, Block, BlocksApart
  <2>2. /\ pbn_lookup' = pbn_lookup \/ pbn_lookup' = [pbn_lookup EXCEPT ![k] = n]
        /\ \/ flash' = flash
           \/ flash' = [flash EXCEPT ![n] = Erased]
           \/ flash' = [flash EXCEPT ![pbn_lookup[k]] = Erased]
    BY <1>3 DEF MountAgain, AddUnused
  <2>. HIDE DEF k
  <2>3. CASE k = l
    BY <1>0, <2>1, <2>2, <2>3, Constants
  <2>4. CASE k # l
    <3>1. pbn_lookup'[l] = pbn_lookup[l]
      BY <1>0, <2>1, <2>2, <2>4
    <3>2. ASSUME NEW p \in Pb, p >= n, flash[p].lbn = l
          PROVE  p >= n' /\ flash'[p].lbn = l
      <4>1. p # n /\ p # pbn_lookup[k]
        BY <2>1, <2>4, <3>2 DEF k
      <4>. QED
        BY <1>0, <2>1, <2>2, <3>2, <4>1 DEF Pb
    <3>. QED
      BY <1>0, <2>1, <3>1, <3>2
  <2>. QED
    BY <2>3, <2>4
<1>4. CASE MountEnd
  <2>1. /\ n = NumPb /\ pbn_lookup' = pbn_lookup
    BY <1>4 DEF MountEnd, maps
  <2>. QED
    BY <1>0, <2>1 DEF Pb
<1>5. CASE \/ Sync \/ WriteHit \/ WriteMiss \/ Load \/ Clear \/ ClearFails \/ Pop
           \/ Exhausted \/ Program \/ ProgramFails
  <2>1. pc # "mount" /\ pbn_lookup' = pbn_lookup
    BY <1>5 DEF Sync, WriteHit, WriteMiss, Load, Clear, ClearFails, Pop, Exhausted, Program,
                ProgramFails, SyncFails, maps
  <2>. QED
    BY <1>0, <2>1
<1>6. CASE Retire
  <2>1. /\ pc = "retire" /\ new_pbn # None
        /\ pbn_lookup' = [pbn_lookup EXCEPT ![cache_lbn] = new_pbn]
    BY <1>6 DEF Retire, Control
  <2>. QED
    BY <1>0, <2>1
<1>7. CASE PowerLoss
  <2>1. pc' = "mount" /\ n' = 0 /\ flash' = flash
    BY <1>7 DEF PowerLoss, PowerOn
  <2>2. PICK r \in Pb : flash[r].lbn = l
    BY Copies
  <2>3. r >= 0
    BY DEF Pb
  <2>. QED
    BY <2>1, <2>2, <2>3
<1>8. CASE UNCHANGED vars
  BY <1>0, <1>8 DEF vars
<1>. QED
  BY <1>1, <1>2, <1>3, <1>4, <1>5, <1>6, <1>7, <1>8 DEF Next

(* And no step loses a block, as long as nothing fails. *)
LEMMA PoolNext == ASSUME Safe, Safe', Kept', Pool, [Next]_vars PROVE Pool'
<1>. SUFFICES ASSUME failed' = {}, Enough, NEW q \in Pb
              PROVE  \/ pc' = "mount" /\ q >= n'
                     \/ Mapped(q)' \/ Queued(q)' \/ q = new_pbn'
  BY DEF Pool, Enough
<1>. USE DEF Safe
<1>0. /\ pbn_lookup \in [Lb -> Pb \cup {None}] /\ flash \in [Pb -> Block] /\ NumPb \in Nat
      /\ pc = "mount" => n \in 0 .. NumPb
      /\ failed = {} =>
           (pc = "mount" /\ q >= n) \/ Mapped(q) \/ Queued(q) \/ q = new_pbn
  BY LflashAssumption DEF TypeOK, Pool
<1>1. CASE MountUnused
  <2>1. /\ n \in Pb /\ n' = n + 1 /\ pc = "mount" /\ pc' = "mount"
        /\ AddUnused(n, None) /\ pbn_lookup' = pbn_lookup /\ new_pbn' = new_pbn
    BY <1>0, <1>1 DEF MountUnused, Pb
  <2>2. ~Queued(n)
    BY <1>0, <2>1 DEF Control, Pb
  <2>3. failed = {} /\ (q = n => Queued(q)') /\ (Queued(q) => Queued(q)')
    <3>1. PICK m \in Pb : m = n
      BY <2>1
    <3>. QED
      BY <2>1, <2>2, <3>1, AddUnusedQueues
  <2>4. Mapped(q) => Mapped(q)'
    BY <2>1 DEF Mapped
  <2>5. q >= n => q >= n' \/ q = n
    BY <1>0, <2>1 DEF Pb
  <2>. QED
    BY <1>0, <2>1, <2>3, <2>4, <2>5
<1>2. CASE MountFirst
  <2>1. /\ n \in Pb /\ n' = n + 1 /\ pc = "mount" /\ pc' = "mount" /\ failed = {}
        /\ flash[n].lbn \in Lb /\ pbn_lookup' = [pbn_lookup EXCEPT ![flash[n].lbn] = n]
        /\ pbn_lookup[flash[n].lbn] = None
        /\ unused_blocks' = unused_blocks /\ new_pbn' = new_pbn
    BY <1>0, <1>2 DEF MountFirst, Pb, Block, harm
  <2>2. Queued(q) => Queued(q)'
    BY <2>1 DEF Queued
  <2>3. (q = n => Mapped(q)') /\ (Mapped(q) => Mapped(q)')
    BY <1>0, <2>1, Constants DEF Mapped
  <2>4. q >= n => q >= n' \/ q = n
    BY <1>0, <2>1 DEF Pb
  <2>. QED
    BY <1>0, <2>1, <2>2, <2>3, <2>4
<1>3. CASE MountAgain
  <2>. DEFINE l == flash[n].lbn
              other == pbn_lookup[l]
  <2>1. /\ n \in Pb /\ n' = n + 1 /\ pc = "mount" /\ pc' = "mount" /\ l \in Lb
        /\ other \in Pb /\ new_pbn' = new_pbn /\ ~Queued(n) /\ flash[other].lbn = l
    BY <1>0, <1>3 DEF MountAgain, Pb, Block, BlocksApart, Control
  <2>2. ~Queued(other)
    BY <2>1, Constants DEF BlocksApart
  <2>3. q >= n => q >= n' \/ q = n
    BY <1>0, <2>1 DEF Pb
  <2>4. CASE AddUnused(n, l) /\ UNCHANGED pbn_lookup
    <3>1. failed = {} /\ (q = n => Queued(q)') /\ (Queued(q) => Queued(q)')
      <4>1. PICK m \in Pb, k \in Lb : m = n /\ k = l
        BY <2>1
      <4>. QED
        BY <2>1, <2>4, <4>1, AddUnusedQueues
    <3>2. Mapped(q) => Mapped(q)'
      BY <2>4 DEF Mapped
    <3>. QED
      BY <1>0, <2>1, <2>3, <3>1, <3>2
  <2>5. CASE AddUnused(other, l) /\ pbn_lookup' = [pbn_lookup EXCEPT ![l] = n]
    <3>1. failed = {} /\ (q = other => Queued(q)') /\ (Queued(q) => Queued(q)')
      <4>1. PICK m \in Pb, k \in Lb : m = other /\ k = l
        BY <2>1
      <4>. QED
        BY <2>1, <2>2, <2>5, <4>1, AddUnusedQueues
    <3>2. (q = n => Mapped(q)') /\ (Mapped(q) => Mapped(q)' \/ q = other)
      BY <1>0, <2>1, <2>5 DEF Mapped
    <3>. QED
      BY <1>0, <2>1, <2>3, <3>1, <3>2
  <2>. QED
    BY <1>3, <2>4, <2>5 DEF MountAgain
<1>4. CASE MountEnd
  <2>1. n = NumPb /\ UNCHANGED <<maps, new_pbn, failed>>
    BY <1>4 DEF MountEnd, harm
  <2>2. ~(q >= n)
    BY <1>0, <2>1 DEF Pb
  <2>. QED
    BY <1>0, <2>1, <2>2 DEF Mapped, Queued, maps
<1>5. CASE Sync \/ WriteHit \/ WriteMiss \/ Load \/ Clear \/ Program
  <2>1. pc # "mount" /\ UNCHANGED <<maps, new_pbn, failed>>
    BY <1>5 DEF Sync, WriteHit, WriteMiss, Load, Clear, Program, harm
  <2>. QED
    BY <1>0, <2>1 DEF Mapped, Queued, maps
<1>6. CASE ClearFails \/ Exhausted \/ ProgramFails
  BY <1>6 DEF ClearFails, Exhausted, ProgramFails, Fails
<1>7. CASE Pop
  <2>1. /\ pc = "pop" /\ unused_blocks # <<>> /\ unused_blocks' = Tail(unused_blocks)
        /\ new_pbn' = Head(unused_blocks) /\ failed = {} /\ pbn_lookup' = pbn_lookup
    BY <1>7 DEF Pop, harm
  <2>2. new_pbn = None /\ unused_blocks \in Seq(Pb) /\ q # None
    BY <2>1, Constants DEF Control, TypeOK
  <2>3. /\ Len(Tail(unused_blocks)) = Len(unused_blocks) - 1 /\ Len(unused_blocks) \in Nat
        /\ Head(unused_blocks) = unused_blocks[1]
        /\ \A k \in 1 .. Len(unused_blocks) - 1 : Tail(unused_blocks)[k] = unused_blocks[k + 1]
    BY <2>1, <2>2, HeadTailProperties, LenProperties
  <2>4. ASSUME Queued(q) PROVE q = new_pbn' \/ Queued(q)'
    <3>1. PICK k \in 1 .. Len(unused_blocks) : unused_blocks[k] = q
      BY <2>4 DEF Queued
    <3>2. CASE k = 1
      BY <2>1, <2>3, <3>1, <3>2
    <3>3. CASE k # 1
      <4>1. k - 1 \in 1 .. Len(unused_blocks')
        BY <2>1, <2>3, <3>1, <3>3
      <4>2. unused_blocks'[k - 1] = q
        BY <2>1, <2>3, <3>1, <3>3
      <4>. QED
        BY <4>1, <4>2 DEF Queued
    <3>. QED
      BY <3>2, <3>3
  <2>5. Mapped(q) => Mapped(q)'
    BY <2>1 DEF Mapped
  <2>. QED
    BY <1>0, <2>1, <2>2, <2>4, <2>5
<1>8. CASE Retire
  <2>1. /\ pc = "retire" /\ new_pbn \in Pb /\ cache_lbn \in Lb /\ cache_pbn \in Pb
        /\ pbn_lookup[cache_lbn] = cache_pbn /\ AddUnused(cache_pbn, cache_lbn)
        /\ pbn_lookup' = [pbn_lookup EXCEPT ![cache_lbn] = new_pbn]
    BY <1>8 DEF Retire, Control, TypeOK, BlocksApart
  <2>2. ~Queued(cache_pbn)
    BY <2>1, Constants DEF BlocksApart
  <2>3. failed = {} /\ (q = cache_pbn => Queued(q)') /\ (Queued(q) => Queued(q)')
    <3>1. PICK m \in Pb, k \in Lb : m = cache_pbn /\ k = cache_lbn
      BY <2>1
    <3>. QED
      BY <2>1, <2>2, <3>1, AddUnusedQueues
  <2>4. (q = new_pbn => Mapped(q)') /\ (Mapped(q) => Mapped(q)' \/ q = cache_pbn)
    BY <1>0, <2>1 DEF Mapped
  <2>. QED
    BY <1>0, <2>1, <2>3, <2>4
<1>9. CASE PowerLoss
  <2>1. pc' = "mount" /\ n' = 0
    BY <1>9 DEF PowerLoss, PowerOn
  <2>. QED
    BY <2>1 DEF Pb
<1>10. CASE UNCHANGED vars
  BY <1>0, <1>10 DEF vars, Mapped, Queued
<1>. QED
  BY <1>1, <1>2, <1>3, <1>4, <1>5, <1>6, <1>7, <1>8, <1>9, <1>10 DEF Next

(* A fresh disk has a copy of every formatted block. *)
LEMMA KeptInit == Init => Kept /\ Pool
<1>. SUFFICES ASSUME Init PROVE Kept /\ Pool
  OBVIOUS
<1>1. PICK at \in [Present -> Pb] :
        /\ \A k, l \in Present : at[k] = at[l] => k = l
        /\ flash = [p \in Pb |->
            IF \E l \in Present : at[l] = p
              THEN LET l == CHOOSE l \in Present : at[l] = p IN
                   [lbn |-> l, inuse |-> TRUE, data |-> [q \in Page |-> Formatted],
                    code |-> Scramble[l]]
              ELSE Erased]
  BY DEF Init
<1>2. ASSUME NEW k \in Present PROVE at[k] \in Pb /\ flash[at[k]].lbn = k
  <2>. DEFINE l == CHOOSE l \in Present : at[l] = at[k]
  <2>1. l = k
    BY <1>1
  <2>2. flash[at[k]] = [lbn |-> l, inuse |-> TRUE, data |-> [q \in Page |-> Formatted],
                        code |-> Scramble[l]]
    BY <1>1
  <2>. HIDE DEF l
  <2>. QED
    BY <1>1, <2>1, <2>2
<1>3. pc = "mount" /\ n = 0 /\ \A p \in Pb : p >= 0
  BY DEF Init, Pb
<1>. QED
  BY <1>2, <1>3 DEF Kept, Pool

(* The question "can this happen?" of add_block_to_unused_list, answered   *)
(* for every segment: with as many nodes as there are blocks besides the   *)
(* formatted ones, and no operation failing since power-on, a block that   *)
(* is erased finds a node, so that none is lost, through any syncs, power  *)
(* losses and failures before that.                                        *)
THEOREM NoBlockLost == Spec => []PoolComplete
<1>1. Init => Safe /\ Kept /\ Pool
  BY SafeInit, KeptInit
<1>2. (Safe /\ Kept /\ Pool) /\ [Next]_vars => (Safe /\ Kept /\ Pool)'
  BY SafeNext, KeptNext, PoolNext
<1>3. Safe /\ Kept /\ Pool => PoolComplete
  BY DEF Pool, PoolComplete, Enough
<1>. QED
  BY <1>1, <1>2, <1>3, PTL DEF Spec
-----------------------------------------------------------------------------
(* The copy init_segment settles on.  Block w wins for l on the flash f if *)
(* every copy behind it has flag 0x10, as it has itself then, and if it    *)
(* has the flag, every copy before it is followed by one without.          *)
Wins(f, l, w) ==
  /\ w \in Pb /\ f[w].lbn = l
  /\ \A q \in Pb : f[q].lbn = l /\ q > w => f[q].inuse /\ f[w].inuse
  /\ \A q \in Pb : f[q].lbn = l /\ q < w /\ f[w].inuse =>
       \E c \in Pb : f[c].lbn = l /\ ~f[c].inuse /\ q <= c /\ c < w

(* Winner, Read and what a power cycle would leave of l, as functions of   *)
(* the flash.                                                              *)
WinnerOf(f, l) ==
  LET copies == {p \in Pb : f[p].lbn = l}
      cleared == {p \in copies : ~f[p].inuse}
      last == Greatest(cleared)
      behind == {p \in copies : p > last} IN
  IF copies = {} THEN None
  ELSE IF cleared = {} THEN Least(copies)
  ELSE IF behind = {} THEN last ELSE Least(behind)
ReadOf(f, l, p) == IF p = None \/ f[p].code # Scramble[l] THEN Blank ELSE f[p].data
Stored(f, l) == ReadOf(f, l, WinnerOf(f, l))

(* A set of blocks that is not empty has a first and a last one. *)
LEMMA LeastBlock ==
  ASSUME NEW S \in SUBSET Pb, S # {}
  PROVE  Least(S) \in S /\ \A q \in S : Least(S) <= q
<1>. DEFINE R == OpToRel(<, Nat)
<1>1. IsWellFoundedOn(R, Nat)
  BY NatLessThanWellFounded
<1>2. \A x \in Nat, y \in Nat : y < x => <<y, x>> \in R
  BY DEF OpToRel
<1>. HIDE DEF R
<1>3. S \in SUBSET Nat
  BY LflashAssumption DEF Pb
<1>4. PICK x \in S : \A y \in S : ~ (<<y, x>> \in R)
  BY <1>1, <1>3, WFMin
<1>5. ASSUME NEW y \in S PROVE x <= y
  <2>1. x \in Nat /\ y \in Nat
    BY <1>3
  <2>2. ~(y < x)
    BY <1>2, <1>4, <2>1
  <2>. QED
    BY ONLY <2>1, <2>2
<1>. QED
  BY <1>5 DEF Least

LEMMA GreatestBlock ==
  ASSUME NEW S \in SUBSET Pb, S # {}
  PROVE  Greatest(S) \in S /\ \A q \in S : Greatest(S) >= q
<1>. DEFINE T == {NumPb - 1 - p : p \in S}
<1>1. T \in SUBSET Pb /\ T # {}
  BY LflashAssumption DEF Pb
<1>. HIDE DEF T
<1>2. Least(T) \in T /\ \A q \in T : Least(T) <= q
  BY <1>1, LeastBlock
<1>. USE DEF T
<1>3. PICK x \in S : Least(T) = NumPb - 1 - x
  BY <1>2
<1>4. \A q \in S : x >= q
  <2>. SUFFICES ASSUME NEW q \in S PROVE x >= q
    OBVIOUS
  <2>1. NumPb - 1 - x <= NumPb - 1 - q
    BY <1>2, <1>3
  <2>. QED
    BY <2>1, LflashAssumption DEF Pb
<1>. QED
  BY <1>4 DEF Greatest

(* There is only one winner, *)
LEMMA OneWinner ==
  ASSUME NEW f, NEW l \in Lb, NEW v, NEW w, Wins(f, l, v), Wins(f, l, w)
  PROVE  v = w
<1>1. v \in Int /\ w \in Int
  BY LflashAssumption DEF Wins, Pb
<1>2. ASSUME NEW x \in Pb, NEW y \in Pb, Wins(f, l, x), Wins(f, l, y), x < y PROVE FALSE
  <2>1. f[x].inuse /\ f[y].inuse
    BY <1>2 DEF Wins
  <2>2. PICK c \in Pb : f[c].lbn = l /\ ~f[c].inuse /\ x <= c /\ c < y
    BY <1>2, <2>1 DEF Wins
  <2>3. c > x
    BY <2>1, <2>2, LflashAssumption DEF Pb
  <2>. QED
    BY <1>2, <2>2, <2>3 DEF Wins
<1>. QED
  BY <1>1, <1>2 DEF Wins

(* and it is the block the definition names, if there is a copy at all. *)
LEMMA WinnerWins ==
  ASSUME NEW f, NEW l \in Lb, NEW p \in Pb, f[p].lbn = l
  PROVE  Wins(f, l, WinnerOf(f, l))
<1>. DEFINE copies == {r \in Pb : f[r].lbn = l}
            cleared == {r \in copies : ~f[r].inuse}
            last == Greatest(cleared)
            behind == {r \in copies : r > last}
<1>1. copies # {} /\ copies \in SUBSET Pb /\ cleared \in SUBSET Pb /\ behind \in SUBSET Pb
  OBVIOUS
<1>0. Pb \subseteq Int
  BY LflashAssumption DEF Pb
<1>2. CASE cleared = {}
  <2>1. WinnerOf(f, l) = Least(copies)
    BY <1>1, <1>2 DEF WinnerOf
  <2>2. Least(copies) \in copies /\ \A q \in copies : Least(copies) <= q
    <3>. HIDE DEF copies
    <3>. QED
      BY <1>1, LeastBlock
  <2>3. PICK w : w = Least(copies)
    OBVIOUS
  <2>4. w \in Pb /\ f[w].lbn = l /\ \A q \in Pb : f[q].lbn = l => w <= q /\ f[q].inuse
    BY <1>2, <2>2, <2>3
  <2>5. Wins(f, l, w)
    <3>. HIDE DEF copies, cleared, last, behind
    <3>. QED
      BY <1>0, <2>4 DEF Wins
  <2>. QED
    BY <2>1, <2>3, <2>5
<1>3. CASE cleared # {}
  <2>1. PICK m : m = last
    OBVIOUS
  <2>2. m \in cleared /\ \A q \in cleared : m >= q
    <3>. HIDE DEF cleared
    <3>. QED
      BY <1>1, <1>3, <2>1, GreatestBlock
  <2>3. CASE behind = {}
    <3>1. WinnerOf(f, l) = m
      BY <1>1, <1>3, <2>1, <2>3 DEF WinnerOf
    <3>2. \A q \in Pb : f[q].lbn = l => ~(q > m)
      BY <2>1, <2>3
    <3>3. m \in Pb /\ f[m].lbn = l /\ ~f[m].inuse
      BY <2>2
    <3>. QED
      BY <1>0, <3>1, <3>2, <3>3 DEF Wins
  <2>4. CASE behind # {}
    <3>1. WinnerOf(f, l) = Least(behind)
      BY <1>1, <1>3, <2>4 DEF WinnerOf
    <3>2. PICK w : w = Least(behind)
      OBVIOUS
    <3>3. w \in behind /\ \A q \in behind : w <= q
      <4>. HIDE DEF behind
      <4>. QED
        BY <1>1, <2>4, <3>2, LeastBlock
    <3>4. /\ m \in Pb /\ f[m].lbn = l /\ ~f[m].inuse
          /\ w \in Pb /\ f[w].lbn = l /\ w > m
          /\ \A q \in Pb : f[q].lbn = l /\ ~f[q].inuse => m >= q
          /\ \A q \in Pb : f[q].lbn = l /\ q > m => w <= q
      BY <2>1, <2>2, <3>3
    <3>5. Wins(f, l, w)
      <4>. HIDE DEF copies, cleared, last, behind
      <4>1. f[w].inuse /\ \A q \in Pb : f[q].lbn = l /\ q > w => f[q].inuse
        BY <1>0, <3>4
      <4>2. \A q \in Pb : f[q].lbn = l /\ q < w => q <= m /\ m < w
        BY <1>0, <3>4
      <4>. QED
        BY <3>4, <4>1, <4>2 DEF Wins
    <3>. QED
      BY <3>1, <3>2, <3>5
  <2>. QED
    BY <2>3, <2>4
<1>. QED
  BY <1>2, <1>3

LEMMA WinnerIs ==
  ASSUME NEW f, NEW l \in Lb, NEW w, Wins(f, l, w)
  PROVE  WinnerOf(f, l) = w
BY WinnerWins, OneWinner DEF Wins

LEMMA NoWinner ==
  ASSUME NEW f, NEW l \in Lb, \A p \in Pb : f[p].lbn # l
  PROVE  WinnerOf(f, l) = None
<1>1. {p \in Pb : f[p].lbn = l} = {}
  OBVIOUS
<1>. QED
  BY <1>1 DEF WinnerOf

(* What is stored of l depends on the copies of l only. *)
LEMMA StoredSame ==
  ASSUME NEW f, NEW g, NEW l \in Lb,
         \A p \in Pb : f[p].lbn = l \/ g[p].lbn = l => f[p] = g[p]
  PROVE  Stored(f, l) = Stored(g, l)
<1>1. CASE \A p \in Pb : f[p].lbn # l
  BY <1>1, NoWinner DEF Stored, ReadOf
<1>2. CASE \E p \in Pb : f[p].lbn = l
  <2>1. PICK w : w = WinnerOf(f, l)
    OBVIOUS
  <2>2. Wins(f, l, w)
    BY <1>2, <2>1, WinnerWins
  <2>3. Wins(g, l, w)
    BY <2>2 DEF Wins
  <2>4. WinnerOf(g, l) = w /\ f[w] = g[w]
    BY <2>2, <2>3, WinnerIs DEF Wins
  <2>. QED
    BY <2>1, <2>4 DEF Stored, ReadOf
<1>. QED
  BY <1>1, <1>2
-----------------------------------------------------------------------------
(* A logical block nothing failed for has one copy among the blocks the    *)
(* mount has come to, the mapped one; a second one is the block that the   *)
(* sync of it writes to.                                                   *)
Single ==
  \A l \in Lb \ failed, p \in Pb :
    flash[p].lbn = l /\ (pc = "mount" => p < n) =>
      p = pbn_lookup[l] \/ (p = new_pbn /\ l = cache_lbn)

(* The pages before page n of the block a sync writes to are those of the  *)
(* cache, and all of them are when the old block is retired.               *)
InFlight ==
  /\ pc \notin {"mount", "program"} => n = 0
  /\ pc = "program" =>
       /\ flash[new_pbn].lbn \in {None, cache_lbn}
       /\ \A q \in Page : q < n => flash[new_pbn].data[q] = block_buffer[q]
  /\ pc = "retire" =>
       /\ flash[new_pbn].data = block_buffer
       /\ flash[new_pbn].code = Scramble[cache_lbn]

(* A write that missed is not for the cached block, and when it reads its  *)
(* block, the cache has been synced or its sync has failed.                *)
Missed ==
  /\ caller # SyncCall => caller.lbn # cache_lbn
  /\ pc = "load" => cache_lbn \in {None} \cup failed

Stores == Safe /\ Single /\ InFlight /\ Missed

LEMMA StoresInit == Init => Single /\ InFlight /\ Missed
<1>. SUFFICES ASSUME Init PROVE Single /\ InFlight /\ Missed
  OBVIOUS
<1>1. pc = "mount" /\ n = 0 /\ caller = SyncCall
  BY DEF Init
<1>. QED
  BY <1>1, LflashAssumption DEF Single, InFlight, Missed, Pb

(* The steps of init_segment *)
LEMMA SingleMount ==
  ASSUME Safe, Single, MountUnused \/ MountFirst \/ MountAgain \/ MountEnd
  PROVE  Single'
<1>. SUFFICES ASSUME NEW l \in Lb \ failed', NEW p \in Pb, flash'[p].lbn = l,
                     pc' = "mount" => p < n'
              PROVE  p = pbn_lookup'[l] \/ (p = new_pbn' /\ l = cache_lbn')
  BY DEF Single
<1>0. /\ flash \in [Pb -> Block] /\ pbn_lookup \in [Lb -> Pb \cup {None}]
      /\ l # None /\ pc = "mount" /\ n \in 0 .. NumPb /\ NumPb \in Nat /\ Pb \subseteq Int
      /\ p < NumPb
  BY Constants, LflashAssumption
     DEF Safe, TypeOK, MountUnused, MountFirst, MountAgain, MountEnd, Pb
<1>s. \A k \in Lb \ failed, q \in Pb : flash[q].lbn = k /\ q < n =>
        q = pbn_lookup[k] \/ (q = new_pbn /\ k = cache_lbn)
  BY <1>0 DEF Single
<1>c. cache_lbn = None /\ new_pbn = None
  BY <1>0 DEF Safe, Control
<1>1. CASE MountUnused
  <2>1. /\ n \in Pb /\ flash[n].lbn = None /\ AddUnused(n, None) /\ n' = n + 1
        /\ pbn_lookup' = pbn_lookup /\ pc' = pc
    BY <1>1, <1>0 DEF MountUnused, Pb
  <2>2. flash' = [flash EXCEPT ![n] = Erased] \/ flash' = flash
    BY <2>1 DEF AddUnused
  <2>3. p # n /\ flash[p].lbn = l
    BY <1>0, <2>1, <2>2, Constants
  <2>4. l \notin failed
    BY <2>1 DEF AddUnused, Fails, harm
  <2>. QED
    BY <1>0, <1>s, <1>c, <2>1, <2>3, <2>4
<1>2. CASE MountFirst
  <2>1. /\ n \in Pb /\ flash[n].lbn # None /\ pbn_lookup[flash[n].lbn] = None
        /\ pbn_lookup' = [pbn_lookup EXCEPT ![flash[n].lbn] = n]
        /\ n' = n + 1 /\ flash' = flash /\ pc' = pc /\ failed' = failed
    BY <1>2, <1>0 DEF MountFirst, Pb, harm
  <2>2. CASE p = n
    BY <1>0, <2>1, <2>2
  <2>3. CASE p # n
    <3>1. p < n /\ p = pbn_lookup[l]
      BY <1>0, <1>s, <1>c, <2>1, <2>3
    <3>. QED
      BY <1>0, <2>1, <3>1, Constants
  <2>. QED
    BY <2>2, <2>3
<1>3. CASE MountAgain
  <2>1. PICK k \in Lb, o \in Pb : k = flash[n].lbn /\ o = pbn_lookup[k]
    BY <1>3, <1>0 DEF MountAgain, Pb, Block
  <2>2. /\ n \in Pb /\ k # None /\ n' = n + 1 /\ pc' = pc
        /\ \/ flash[n].inuse /\ flash[o].inuse /\ AddUnused(n, k) /\ pbn_lookup' = pbn_lookup
           \/ AddUnused(o, k) /\ pbn_lookup' = [pbn_lookup EXCEPT ![k] = n]
    BY <1>3, <1>0, <2>1 DEF MountAgain, Pb
  <2>3. flash[o].lbn = k /\ o # n
    <3>1. flash[o].lbn = k
      BY <2>1, Constants DEF Safe, BlocksApart
    <3>2. ~Mapped(n)
      BY <1>0, <2>2 DEF Safe, Control
    <3>. QED
      BY <2>1, <3>1, <3>2 DEF Mapped
  <2>4. CASE l = k
    <3>1. PICK d \in {n, o} :
            /\ flash' = [flash EXCEPT ![d] = Erased] /\ failed' = failed
            /\ pbn_lookup' = [pbn_lookup EXCEPT ![k] = IF d = n THEN o ELSE n]
      BY <1>0, <2>1, <2>2, <2>3, <2>4 DEF AddUnused, Fails, harm
    <3>2. p # d /\ flash[p].lbn = l /\ l \notin failed
      BY <1>0, <2>1, <2>2, <3>1, Constants
    <3>3. p \in {n, o}
      BY <1>0, <1>s, <1>c, <2>1, <2>2, <2>4, <3>2
    <3>. QED
      BY <1>0, <2>3, <2>4, <3>1, <3>2, <3>3
  <2>5. CASE l # k
    <3>1. \/ flash' = [flash EXCEPT ![n] = Erased] \/ flash' = [flash EXCEPT ![o] = Erased]
          \/ flash' = flash
      BY <2>2 DEF AddUnused
    <3>2. p # n /\ flash[p].lbn = l
      BY <1>0, <2>1, <2>2, <2>3, <2>5, <3>1, Constants
    <3>3. l \notin failed /\ pbn_lookup'[l] = pbn_lookup[l]
      BY <1>0, <2>2, <2>5 DEF AddUnused, Fails, harm
    <3>. QED
      BY <1>0, <1>s, <1>c, <2>2, <3>2, <3>3
  <2>. QED
    BY <2>4, <2>5
<1>4. CASE MountEnd
  <2>1. n = NumPb /\ flash' = flash /\ pbn_lookup' = pbn_lookup /\ failed' = failed
    BY <1>4 DEF MountEnd, maps, harm
  <2>. QED
    BY <1>0, <1>s, <1>c, <2>1
<1>. QED
  BY <1>1, <1>2, <1>3, <1>4

(* the calls, the sync and the loss of power. *)
LEMMA SingleCall ==
  ASSUME Safe, Single, InFlight,
         Sync \/ WriteHit \/ WriteMiss \/ Load \/ Clear \/ ClearFails \/ Pop \/ Exhausted
           \/ Program \/ ProgramFails
  PROVE  Single'
<1>. SUFFICES ASSUME NEW l \in Lb \ failed', NEW p \in Pb, flash'[p].lbn = l
              PROVE  p = pbn_lookup'[l] \/ (p = new_pbn' /\ l = cache_lbn')
  BY DEF Single
<1>0. /\ flash \in [Pb -> Block] /\ l # None /\ pc # "mount"
      /\ pc \in {"program", "retire"} <=> new_pbn # None
      /\ p # None /\ new_pbn \in Pb \cup {None}
  BY Constants DEF Safe, TypeOK, Control, Sync, WriteHit, WriteMiss, Load, Clear, ClearFails,
     Pop, Exhausted, Program, ProgramFails
<1>s. \A k \in Lb \ failed, q \in Pb : flash[q].lbn = k =>
        q = pbn_lookup[k] \/ (q = new_pbn /\ k = cache_lbn)
  BY <1>0 DEF Single
<1>1. CASE Sync \/ WriteHit \/ WriteMiss \/ Load
  BY <1>1, <1>0, <1>s DEF Sync, WriteHit, WriteMiss, Load, maps, cache, harm
<1>2. CASE Clear
  <2>1. flash'[p].lbn = flash[p].lbn
    BY <1>2, <1>0 DEF Clear, Block
  <2>. QED
    BY <1>2, <1>s, <2>1 DEF Clear, maps, cache, harm
<1>3. CASE ClearFails \/ Exhausted
  BY <1>3, <1>0, <1>s DEF ClearFails, Exhausted, SyncFails, Return, Fails, maps, cache
<1>4. CASE Pop
  <2>1. Head(unused_blocks) \in Pb
    BY <1>4 DEF Pop, Safe, TypeOK
  <2>2. flash[p].lbn = l /\ l \notin failed
    BY <1>4, <1>0, <2>1, Constants DEF Pop, harm
  <2>3. p = pbn_lookup[l]
    BY <1>4, <1>0, <1>s, <2>2 DEF Pop
  <2>. QED
    BY <1>4, <2>3 DEF Pop
<1>5. CASE Program
  BY <1>5, <1>0, <1>s DEF Program, maps, cache, harm
<1>6. CASE ProgramFails
  <2>1. l # cache_lbn /\ l \notin failed
    BY <1>6 DEF ProgramFails, Fails
  <2>2. new_pbn \in Pb /\ flash[new_pbn].lbn \in {None, cache_lbn}
    BY <1>6, <1>0 DEF ProgramFails, InFlight
  <2>3. PICK b \in {Erased, flash[new_pbn], [lbn |-> cache_lbn, inuse |-> TRUE,
                      data |-> Blank, code |-> Scramble[cache_lbn]]} :
          flash' = [flash EXCEPT ![new_pbn] = b]
    BY <1>6 DEF ProgramFails
  <2>4. b.lbn \in {None, cache_lbn}
    BY <2>2, Constants
  <2>5. flash[p].lbn = l
    BY <1>0, <2>1, <2>2, <2>3, <2>4
  <2>. QED
    BY <1>6, <1>s, <2>1, <2>5 DEF ProgramFails, maps
<1>. QED
  BY <1>1, <1>2, <1>3, <1>4, <1>5, <1>6

LEMMA SingleRetire == ASSUME Safe, Single, Retire PROVE Single'
<1>. SUFFICES ASSUME NEW l \in Lb \ failed', NEW p \in Pb, flash'[p].lbn = l
              PROVE  p = pbn_lookup'[l] \/ (p = new_pbn' /\ l = cache_lbn')
  BY DEF Single
<1>0. /\ flash \in [Pb -> Block] /\ l # None /\ pc = "retire"
      /\ cache_lbn \in Lb /\ cache_pbn = pbn_lookup[cache_lbn] /\ cache_pbn \in Pb
      /\ pbn_lookup \in [Lb -> Pb \cup {None}] /\ new_pbn \in Pb
  BY Constants DEF Safe, TypeOK, Control, BlocksApart, Retire
<1>1. l \notin failed
  BY DEF Retire, AddUnused, Fails, harm
<1>2. p = pbn_lookup[l] \/ (p = new_pbn /\ l = cache_lbn)
  <2>1. flash[p].lbn = l
    BY <1>0, Constants DEF Retire, AddUnused
  <2>. QED
    BY <1>0, <1>1, <2>1 DEF Single
<1>3. CASE l = cache_lbn
  <2>1. flash' = [flash EXCEPT ![cache_pbn] = Erased]
    BY <1>3 DEF Retire, AddUnused, Fails
  <2>2. p # cache_pbn
    BY <1>0, <2>1, Constants
  <2>. QED
    BY <1>0, <1>2, <1>3, <2>2 DEF Retire
<1>4. CASE l # cache_lbn
  BY <1>0, <1>2, <1>4 DEF Retire
<1>. QED
  BY <1>3, <1>4

LEMMA InFlightNext == ASSUME Safe, Safe', InFlight, [Next]_vars PROVE InFlight'
<1>0. /\ flash \in [Pb -> Block] /\ block_buffer \in Contents
      /\ new_pbn \in Pb \cup {None} /\ Page \subseteq Int /\ NumPages \in Nat
      /\ pc \in {"program", "retire"} => new_pbn \in Pb
      /\ pc # "mount" => n \in Page
  BY LflashAssumption, Constants DEF Safe, TypeOK, Control, Page
<1>1. CASE Program
  <2>1. /\ pc = "program" /\ new_pbn' = new_pbn /\ block_buffer' = block_buffer
        /\ cache_lbn' = cache_lbn /\ new_pbn \in Pb /\ n \in Page
        /\ flash'[new_pbn] = [lbn |-> cache_lbn, inuse |-> TRUE,
             data |-> [flash[new_pbn].data EXCEPT ![n] = block_buffer[n]],
             code |-> Scramble[cache_lbn]]
        /\ IF n + 1 < NumPages THEN n' = n + 1 /\ pc' = pc ELSE n' = 0 /\ pc' = "retire"
    BY <1>1, <1>0 DEF Program, cache
  <2>2. flash[new_pbn].data \in Contents
    BY <1>0, <2>1 DEF Block
  <2>3. \A q \in Page : q < n + 1 => flash'[new_pbn].data[q] = block_buffer[q]
    <3>. SUFFICES ASSUME NEW q \in Page, q < n + 1
                  PROVE  [flash[new_pbn].data EXCEPT ![n] = block_buffer[n]][q] = block_buffer[q]
      BY <2>1
    <3>1. q = n \/ (q < n /\ q # n)
      BY <1>0, <2>1
    <3>2. q < n => flash[new_pbn].data[q] = block_buffer[q]
      BY <2>1 DEF InFlight
    <3>. QED
      BY <2>1, <2>2, <3>1, <3>2 DEF Contents
  <2>4. CASE n + 1 < NumPages
    BY <2>1, <2>3, <2>4 DEF InFlight
  <2>5. CASE ~(n + 1 < NumPages)
    <3>1. \A q \in Page : q < n + 1
      BY <1>0, <2>1, <2>5 DEF Page
    <3>2. flash'[new_pbn].data = block_buffer
      <4>1. flash'[new_pbn].data \in Contents
        BY <2>1, <2>2, <1>0 DEF Contents
      <4>2. \A q \in Page : flash'[new_pbn].data[q] = block_buffer[q]
        BY <2>3, <3>1
      <4>3. flash'[new_pbn].data = [q \in Page |-> flash'[new_pbn].data[q]]
            /\ block_buffer = [q \in Page |-> block_buffer[q]]
        BY <1>0, <4>1 DEF Contents
      <4>4. [q \in Page |-> flash'[new_pbn].data[q]] = [q \in Page |-> block_buffer[q]]
        BY <4>2
      <4>. QED
        BY <4>3, <4>4
    <3>. QED
      BY <2>1, <2>5, <3>2 DEF InFlight
  <2>. QED
    BY <2>4, <2>5
<1>2. CASE Pop
  <2>1. pc = "pop" /\ n = 0 /\ n' = n /\ Head(unused_blocks) \in Pb
    BY <1>2 DEF Pop, InFlight, Safe, TypeOK
  <2>2. CASE pc' = "pop"
    BY <2>1, <2>2 DEF InFlight
  <2>3. CASE pc' # "pop"
    <3>1. pc' = "program" /\ flash'[new_pbn'].lbn = None
      BY <1>2, <1>0, <2>1, <2>3, Constants DEF Pop
    <3>2. \A q \in Page : ~(q < n')
      BY <2>1 DEF Page
    <3>. QED
      BY <2>1, <3>1, <3>2 DEF InFlight
  <2>. QED
    BY <2>2, <2>3
<1>3. CASE MountUnused \/ MountFirst \/ MountAgain \/ PowerLoss
  BY <1>3 DEF MountUnused, MountFirst, MountAgain, PowerLoss, PowerOn, InFlight
<1>4. CASE MountEnd \/ Sync \/ WriteHit \/ WriteMiss \/ Load \/ Clear
  BY <1>4 DEF MountEnd, Sync, WriteHit, WriteMiss, Load, Clear, InFlight
<1>5. CASE ClearFails \/ Exhausted \/ ProgramFails \/ Retire
  BY <1>5 DEF ClearFails, Exhausted, ProgramFails, Retire, SyncFails, Return, InFlight
<1>6. CASE UNCHANGED vars
  BY <1>6 DEF vars, InFlight
<1>. QED
  BY <1>1, <1>2, <1>3, <1>4, <1>5, <1>6 DEF Next

LEMMA MissedNext == ASSUME Safe, Missed, [Next]_vars PROVE Missed'
<1>0. SyncCall \notin WriteCalls /\ \A c \in WriteCalls : c.lbn \in Lb /\ c.lbn # None
  BY Constants
<1>1. CASE MountUnused \/ MountFirst \/ MountAgain \/ MountEnd \/ PowerLoss
  BY <1>1 DEF MountUnused, MountFirst, MountAgain, MountEnd, PowerLoss, PowerOn, Missed, cache
<1>2. CASE Sync \/ WriteHit
  BY <1>2 DEF Sync, WriteHit, Missed, cache
<1>3. CASE WriteMiss
  BY <1>3 DEF WriteMiss, Missed, cache
<1>4. CASE Load
  BY <1>4 DEF Load, Missed
<1>5. CASE Clear \/ Pop \/ Program \/ ProgramFails
  BY <1>5 DEF Clear, Pop, Program, ProgramFails, Missed, cache
<1>6. CASE ClearFails \/ Exhausted
  BY <1>6 DEF ClearFails, Exhausted, SyncFails, Return, Fails, Missed, cache
<1>7. CASE Retire
  <2>1. caller \in {SyncCall} \cup WriteCalls
    BY DEF Safe, TypeOK
  <2>. QED
    BY <1>0, <1>7, <2>1 DEF Retire, Return, Missed
<1>8. CASE UNCHANGED vars
  BY <1>8 DEF vars, Missed
<1>. QED
  BY <1>1, <1>2, <1>3, <1>4, <1>5, <1>6, <1>7, <1>8 DEF Next

LEMMA StoresNext == Stores /\ [Next]_vars => Stores'
<1>. SUFFICES ASSUME Stores, [Next]_vars PROVE Stores'
  OBVIOUS
<1>1. Safe /\ Single /\ InFlight /\ Missed /\ Safe'
  BY SafeNext DEF Stores
<1>2. Single'
  <2>1. CASE UNCHANGED vars
    BY <1>1, <2>1 DEF vars, Single
  <2>2. CASE PowerLoss
    <3>1. pc' = "mount" /\ n' = 0
      BY <2>2 DEF PowerLoss, PowerOn
    <3>. QED
      BY <3>1 DEF Single, Pb
  <2>. QED
    BY <1>1, <2>1, <2>2, SingleMount, SingleCall, SingleRetire DEF Next
<1>. QED
  BY <1>1, <1>2, InFlightNext, MissedNext DEF Stores
-----------------------------------------------------------------------------
(* The variables of FlashDisk, by logical block. *)
CurOf(l) ==
  IF pc = "mount" THEN Stored(flash, l)
  ELSE IF l = cache_lbn THEN block_buffer ELSE ReadOf(flash, l, pbn_lookup[l])
DiskCur == [l \in Lb |-> IF pc = "mount" THEN Read(l, Winner(l))
                         ELSE IF l = cache_lbn THEN block_buffer
                         ELSE Read(l, pbn_lookup[l])]
DiskStable == [l \in Lb |-> Read(l, Winner(l))]
DiskVars == <<DiskCur, DiskStable, cache_lbn, failed \cap Lb, pc # "mount">>

LEMMA Mapping ==
  /\ DiskCur = [l \in Lb |-> CurOf(l)] /\ DiskCur' = [l \in Lb |-> CurOf(l)']
  /\ DiskStable = [l \in Lb |-> Stored(flash, l)]
  /\ DiskStable' = [l \in Lb |-> Stored(flash', l)]
BY DEF DiskCur, DiskStable, CurOf, Stored, ReadOf, Read, Winner, WinnerOf

(* What a step has to do to the logical blocks to be a step of the disk. *)
LEMMA IsStutter ==
  ASSUME UNCHANGED cache_lbn, failed' \cap Lb = failed \cap Lb,
         pc' = "mount" <=> pc = "mount",
         \A x \in Lb : CurOf(x)' = CurOf(x) /\ Stored(flash', x) = Stored(flash, x)
  PROVE  UNCHANGED DiskVars
<1>1. DiskCur' = DiskCur /\ DiskStable' = DiskStable
  BY Mapping
<1>. QED
  BY <1>1 DEF DiskVars

LEMMA IsFlush ==
  ASSUME cache_lbn \in Lb, UNCHANGED cache_lbn, pc' = "mount" <=> pc = "mount",
         failed' \in {failed, failed \cup {cache_lbn}},
         \A x \in Lb : CurOf(x)' = CurOf(x),
         \A x \in Lb \ {cache_lbn} : Stored(flash', x) = Stored(flash, x)
  PROVE  Disk!Flush
<1>1. DiskCur' = DiskCur /\ \A x \in Lb \ {cache_lbn} : DiskStable'[x] = DiskStable[x]
  BY Mapping
<1>2. failed' \cap Lb \in {failed \cap Lb, (failed \cap Lb) \cup {cache_lbn}}
  OBVIOUS
<1>3. cache_lbn # None
  BY Constants
<1>. QED
  BY <1>1, <1>2, <1>3 DEF Disk!Flush, Disk!OnlyDirty, DiskCur, DiskStable

LEMMA IsSync ==
  ASSUME cache_lbn \in Lb, cache_lbn' = None, pc' = "mount" <=> pc = "mount",
         failed' \in {failed, failed \cup {cache_lbn}},
         \A x \in Lb : CurOf(x)' = CurOf(x),
         \A x \in Lb \ {cache_lbn} : Stored(flash', x) = Stored(flash, x),
         cache_lbn \notin failed' => Stored(flash', cache_lbn) = CurOf(cache_lbn)
  PROVE  Disk!Sync
<1>1. DiskCur' = DiskCur /\ \A x \in Lb \ {cache_lbn} : DiskStable'[x] = DiskStable[x]
  BY Mapping
<1>2. failed' \cap Lb \in {failed \cap Lb, (failed \cap Lb) \cup {cache_lbn}}
  OBVIOUS
<1>3. cache_lbn # None
  BY Constants
<1>4. cache_lbn \notin failed' \cap Lb => DiskStable'[cache_lbn] = DiskCur[cache_lbn]
  BY Mapping
<1>. QED
  BY <1>1, <1>2, <1>3, <1>4 DEF Disk!Sync, Disk!OnlyDirty, DiskCur, DiskStable

LEMMA IsMount ==
  ASSUME pc = "mount", UNCHANGED cache_lbn,
         NEW l \in Lb \cup {None}, failed' \in {failed, failed \cup {l}},
         \A x \in Lb \ failed' :
           Stored(flash', x) = Stored(flash, x) /\ CurOf(x)' = CurOf(x)
  PROVE  Disk!Mount
<1>1. \A x \in Lb \ (failed' \cap Lb) :
        DiskStable'[x] = DiskStable[x] /\ DiskCur'[x] = DiskCur[x]
  BY Mapping
<1>2. \/ failed' \cap Lb = failed \cap Lb
      \/ \E b \in Lb : failed' \cap Lb = (failed \cap Lb) \cup {b}
  BY Constants
<1>. QED
  BY <1>1, <1>2 DEF Disk!Mount, DiskCur, DiskStable

LEMMA IsWrite ==
  ASSUME NEW c \in WriteCalls, pc # "mount", pc' # "mount",
         cache_lbn \in {None, c.lbn} \cup failed, cache_lbn \in Lb \cup {None},
         cache_lbn' = c.lbn, UNCHANGED <<flash, failed>>,
         NEW old, CurOf(c.lbn)' = Copied(old, c),
         Scramble[c.lbn] # NoCode \/ c.lbn = cache_lbn => old = CurOf(c.lbn),
         \A x \in Lb \ {c.lbn, cache_lbn} : CurOf(x)' = CurOf(x)
  PROVE  Disk!Next
<1>0. c.lbn \in Lb /\ c.pages \in SUBSET Page /\ c.val \in Val
  BY Constants
<1>1. \A x \in Lb \ {c.lbn, cache_lbn} : DiskCur'[x] = DiskCur[x]
  BY Mapping
<1>2. DiskCur'[c.lbn] = [p \in Page |->
         IF p \in c.pages THEN c.val
         ELSE IF c.lbn \in {l \in Lb : Scramble[l] = NoCode} /\ c.lbn # cache_lbn THEN DiskCur'[c.lbn][p]
         ELSE DiskCur[c.lbn][p]]
  <2>1. PICK new : new = DiskCur'[c.lbn] /\ new = Copied(old, c)
    BY <1>0, Mapping
  <2>2. Scramble[c.lbn] # NoCode \/ c.lbn = cache_lbn => old = DiskCur[c.lbn]
    BY <1>0, Mapping
  <2>3. new = [p \in Page |-> IF p \in c.pages THEN c.val ELSE old[p]]
    BY <2>1 DEF Copied
  <2>4. new = [p \in Page |->
          IF p \in c.pages THEN c.val
          ELSE IF c.lbn \in {l \in Lb : Scramble[l] = NoCode} /\ c.lbn # cache_lbn THEN new[p]
          ELSE DiskCur[c.lbn][p]]
    BY <1>0, <2>2, <2>3
  <2>. QED
    BY <2>1, <2>4
<1>3. DiskStable' = DiskStable
  BY Mapping
<1>4. cache_lbn \in {None, c.lbn} \cup (failed \cap Lb)
  OBVIOUS
<1>5. Disk!Write(c.lbn, c.pages, c.val)
  BY <1>1, <1>2, <1>3, <1>4 DEF Disk!Write, DiskCur, DiskStable
<1>. QED
  BY <1>0, <1>5 DEF Disk!Next

(* Erasing or programming a block does not change what is stored of the    *)
(* logical blocks whose it is not.                                         *)
LEMMA StoredElsewhere ==
  ASSUME NEW f, NEW g, NEW p \in Pb, NEW x \in Lb,
         \A q \in Pb : q # p => g[q] = f[q], f[p].lbn # x, g[p].lbn # x
  PROVE  Stored(g, x) = Stored(f, x)
<1>1. \A q \in Pb : f[q].lbn = x \/ g[q].lbn = x => f[q] = g[q]
  OBVIOUS
<1>. QED
  BY <1>1, StoredSame

(* Of two copies, init_segment erases the one that would not win. *)
LEMMA LoserDropped ==
  ASSUME NEW f, NEW g, NEW k \in Lb, NEW m \in Pb, NEW o \in Pb, o < m,
         f[o].lbn = k, f[m].lbn = k, \A q \in Pb : f[q].lbn = k /\ q < m => q = o,
         NEW d, d = IF f[m].inuse /\ f[o].inuse THEN m ELSE o,
         \A q \in Pb : q # d => g[q] = f[q], g[d].lbn # k
  PROVE  Stored(g, k) = Stored(f, k)
<1>0. /\ Pb \subseteq Int /\ d \in Pb /\ g[d].lbn # k
      /\ \A q \in Pb : q # d => g[q] = f[q]
  BY Constants, LflashAssumption DEF Pb
<1>1. PICK w : w = WinnerOf(f, k) /\ Wins(f, k, w)
  BY WinnerWins
<1>2. w # d
  <2>1. CASE f[m].inuse /\ f[o].inuse /\ w = m
    <3>1. PICK c \in Pb : f[c].lbn = k /\ ~f[c].inuse /\ c < m
      BY <1>1, <2>1 DEF Wins
    <3>. QED
      BY <2>1, <3>1
  <2>2. CASE ~(f[m].inuse /\ f[o].inuse) /\ w = o
    BY <1>0, <1>1, <2>2 DEF Wins
  <2>. QED
    BY <2>1, <2>2
<1>3. w \in Pb /\ g[w] = f[w] /\ g[w].lbn = k
  BY <1>0, <1>1, <1>2 DEF Wins
<1>4. \A q \in Pb : g[q].lbn = k => q # d /\ f[q].lbn = k /\ g[q] = f[q]
  BY <1>0
<1>5. \A q \in Pb : g[q].lbn = k /\ q > w => g[q].inuse /\ g[w].inuse
  BY <1>1, <1>3, <1>4 DEF Wins
<1>6. ASSUME NEW q \in Pb, g[q].lbn = k, q < w, g[w].inuse
      PROVE  \E c \in Pb : g[c].lbn = k /\ ~g[c].inuse /\ q <= c /\ c < w
  <2>1. PICK c \in Pb : f[c].lbn = k /\ ~f[c].inuse /\ q <= c /\ c < w
    BY <1>1, <1>3, <1>4, <1>6 DEF Wins
  <2>2. c # d
    <3>1. CASE d = m /\ f[m].inuse
      BY <2>1, <3>1
    <3>2. CASE d = o
      <4>1. q # o /\ q >= m
        BY <1>0, <1>4, <1>6, <3>2
      <4>. QED
        BY <1>0, <2>1, <3>2, <4>1
    <3>. QED
      BY <3>1, <3>2
  <2>. QED
    BY <1>0, <2>1, <2>2
<1>7. Wins(g, k, w)
  BY <1>3, <1>5, <1>6 DEF Wins
<1>8. WinnerOf(g, k) = w
  BY <1>7, WinnerIs
<1>. QED
  BY <1>1, <1>3, <1>8 DEF Stored, ReadOf

(* init_segment: the scan settles on the copy that was stored. *)
LEMMA MountIsMount ==
  ASSUME Stores, MountUnused \/ MountFirst \/ MountAgain \/ MountEnd
  PROVE  Disk!Mount
<1>0. /\ flash \in [Pb -> Block] /\ pbn_lookup \in [Lb -> Pb \cup {None}]
      /\ pc = "mount" /\ n \in 0 .. NumPb /\ NumPb \in Nat /\ Pb \subseteq Int
      /\ cache_lbn = None /\ new_pbn = None /\ None \notin Lb /\ None \notin Pb
  BY Constants, LflashAssumption
     DEF Stores, Safe, TypeOK, Control, MountUnused, MountFirst, MountAgain, MountEnd, Pb
<1>s. \A k \in Lb \ failed, q \in Pb : flash[q].lbn = k /\ q < n => q = pbn_lookup[k]
  BY <1>0 DEF Stores, Single
<1>c. \A x \in Lb : CurOf(x) = Stored(flash, x)
                    /\ (pc' = "mount" => CurOf(x)' = Stored(flash', x))
  BY <1>0 DEF CurOf
<1>1. CASE MountUnused
  <2>1. n \in Pb /\ flash[n].lbn = None /\ AddUnused(n, None) /\ UNCHANGED <<pc, cache_lbn>>
    BY <1>1, <1>0 DEF MountUnused, Pb, cache
  <2>2. failed' \in {failed, failed \cup {None}}
    BY <2>1 DEF AddUnused, Fails, harm
  <2>3. \A x \in Lb : Stored(flash', x) = Stored(flash, x)
    <3>1. CASE flash' = flash
      BY <3>1
    <3>2. CASE flash' = [flash EXCEPT ![n] = Erased]
      <4>1. flash'[n].lbn = None /\ \A q \in Pb : q # n => flash'[q] = flash[q]
        BY <1>0, <2>1, <3>2, Constants
      <4>2. PICK p \in Pb : p = n
        BY <2>1
      <4>3. \A x \in Lb : flash[p].lbn # x /\ flash'[p].lbn # x
        BY <1>0, <2>1, <4>1, <4>2
      <4>4. \A q \in Pb : q # p => flash'[q] = flash[q]
        BY <4>1, <4>2
      <4>. QED
        BY <4>3, <4>4, StoredElsewhere
    <3>. QED
      BY <2>1, <3>1, <3>2 DEF AddUnused
  <2>. QED
    BY <1>0, <1>c, <2>1, <2>2, <2>3, IsMount
<1>2. CASE MountFirst
  <2>1. UNCHANGED <<flash, pc, cache_lbn, failed>>
    BY <1>2 DEF MountFirst, cache, harm
  <2>2. \A x \in Lb : CurOf(x)' = CurOf(x)
    BY <1>0, <2>1 DEF CurOf
  <2>3. failed' \in {failed, failed \cup {None}}
    BY <2>1
  <2>. QED
    BY <1>0, <2>1, <2>2, <2>3, IsMount
<1>3. CASE MountAgain
  <2>1. PICK k \in Lb, o \in Pb : k = flash[n].lbn /\ o = pbn_lookup[k]
    BY <1>3, <1>0 DEF MountAgain, Pb, Block
  <2>2. PICK d \in Pb :
          /\ d = IF flash[n].inuse /\ flash[o].inuse THEN n ELSE o
          /\ AddUnused(d, k) /\ UNCHANGED <<pc, cache_lbn>> /\ n \in Pb
    BY <1>3, <1>0, <2>1 DEF MountAgain, Pb, cache
  <2>3. flash[o].lbn = k /\ o < n
    <3>1. flash[o].lbn = k
      BY <1>0, <2>1 DEF Stores, Safe, BlocksApart
    <3>2. ~(o >= n)
      BY <1>0, <2>1 DEF Stores, Safe, Control, Mapped
    <3>. QED
      BY <1>0, <3>1, <3>2
  <2>4. failed' \in {failed, failed \cup {k}}
    BY <2>2 DEF AddUnused, Fails, harm
  <2>5. ASSUME NEW x \in Lb \ failed' PROVE Stored(flash', x) = Stored(flash, x)
    <3>1. CASE flash' = flash
      BY <3>1
    <3>2. CASE flash' = [flash EXCEPT ![d] = Erased] /\ failed' = failed
      <4>0. flash'[d].lbn = None /\ \A q \in Pb : q # d => flash'[q] = flash[q]
        BY <1>0, <3>2, Constants
      <4>1. CASE x # k
        <5>1. flash[d].lbn # x
          BY <2>1, <2>2, <2>3, <4>1
        <5>. QED
          BY <1>0, <4>0, <5>1, StoredElsewhere
      <4>2. CASE x = k
        <5>1. \A q \in Pb : flash[q].lbn = k /\ q < n => q = o
          BY <1>s, <2>1, <2>5, <3>2, <4>2
        <5>2. PICK i \in Pb : i = n
          BY <2>2
        <5>3. d = IF flash[i].inuse /\ flash[o].inuse THEN i ELSE o
          BY <2>2, <5>2
        <5>4. flash[i].lbn = k /\ o < i /\ flash'[d].lbn # k
              /\ \A q \in Pb : flash[q].lbn = k /\ q < i => q = o
          BY <1>0, <2>1, <2>3, <4>0, <5>1, <5>2
        <5>. QED
          BY <2>3, <4>0, <4>2, <5>3, <5>4, LoserDropped
      <4>. QED
        BY <4>1, <4>2
    <3>. QED
      BY <2>2, <3>1, <3>2 DEF AddUnused, harm
  <2>. QED
    BY <1>0, <1>c, <2>2, <2>4, <2>5, IsMount
<1>4. CASE MountEnd
  <2>1. n = NumPb /\ pc' = "idle" /\ UNCHANGED <<flash, pbn_lookup, cache_lbn, failed>>
    BY <1>4 DEF MountEnd, maps, cache, harm
  <2>2. ASSUME NEW x \in Lb \ failed PROVE CurOf(x)' = CurOf(x)
    <3>1. CurOf(x)' = ReadOf(flash, x, pbn_lookup[x])
      BY <1>0, <2>1 DEF CurOf
    <3>2. pbn_lookup[x] = WinnerOf(flash, x)
      <4>1. \A q \in Pb : flash[q].lbn = x => q = pbn_lookup[x]
        BY <1>0, <1>s, <2>1 DEF Pb
      <4>2. CASE pbn_lookup[x] = None
        BY <1>0, <4>1, <4>2, NoWinner
      <4>3. CASE pbn_lookup[x] # None
        <5>1. Wins(flash, x, pbn_lookup[x])
          BY <1>0, <4>1, <4>3 DEF Wins, Stores, Safe, BlocksApart
        <5>. QED
          BY <5>1, WinnerIs
      <4>. QED
        BY <4>2, <4>3
    <3>. QED
      BY <1>c, <3>1, <3>2 DEF Stored
  <2>3. failed' \in {failed, failed \cup {None}}
    BY <2>1
  <2>. QED
    BY <1>0, <2>1, <2>2, <2>3, IsMount
<1>. QED
  BY <1>1, <1>2, <1>3, <1>4

(* Steps that change neither flash, map nor cache. *)
LEMMA CallIsStutter ==
  ASSUME Stores, Sync \/ WriteMiss \/ UNCHANGED vars
  PROVE  UNCHANGED DiskVars
<1>1. UNCHANGED <<flash, pbn_lookup, cache_lbn, block_buffer, failed>>
      /\ (pc' = "mount" <=> pc = "mount")
  BY DEF Sync, WriteMiss, vars, maps, cache, harm
<1>2. \A x \in Lb : CurOf(x)' = CurOf(x)
  BY <1>1 DEF CurOf
<1>. QED
  BY <1>1, <1>2, IsStutter

(* write_sectors for the cached block, and for one that it reads first. *)
LEMMA HitIsWrite == ASSUME Stores, WriteHit PROVE Disk!Next
<1>1. PICK c \in WriteCalls : cache_lbn = c.lbn /\ block_buffer' = Copied(block_buffer, c)
  BY DEF WriteHit
<1>2. /\ pc = "idle" /\ pc' = pc /\ UNCHANGED <<flash, pbn_lookup, cache_lbn, failed>>
  BY DEF WriteHit, maps, harm
<1>3. PICK old : old = CurOf(c.lbn) /\ CurOf(c.lbn)' = Copied(old, c)
      /\ \A x \in Lb \ {c.lbn, cache_lbn} : CurOf(x)' = CurOf(x)
  BY <1>1, <1>2 DEF CurOf
<1>4. cache_lbn \in Lb \cup {None}
  BY DEF Stores, Safe, TypeOK
<1>. QED
  BY <1>1, <1>2, <1>3, <1>4, IsWrite

LEMMA LoadIsWrite ==
  ASSUME Stores, Load
  PROVE  [Disk!Next]_DiskVars
<1>1. PICK c \in WriteCalls : c = caller
  BY DEF Load, Stores, Safe, Control
<1>2. /\ pc = "load" /\ pc' = "idle" /\ UNCHANGED <<flash, pbn_lookup, failed>>
      /\ cache_lbn \in Lb \cup {None} /\ c.lbn \in Lb /\ c.lbn # cache_lbn
      /\ cache_lbn \in {None} \cup failed
  BY <1>1, Constants DEF Load, maps, harm, Stores, Safe, TypeOK, Missed
<1>3. CASE pbn_lookup[c.lbn] = None
  <2>1. UNCHANGED <<cache_lbn, block_buffer>>
    BY <1>1, <1>3 DEF Load, cache
  <2>2. \A x \in Lb : CurOf(x)' = CurOf(x)
    BY <1>2, <2>1 DEF CurOf
  <2>. QED
    BY <1>2, <2>1, <2>2, IsStutter
<1>4. CASE pbn_lookup[c.lbn] # None
  <2>1. Scramble[c.lbn] # NoCode => CodeAtLoad = Scramble[c.lbn]
    BY <1>1, <1>2 DEF CodeAtLoad
  <2>2. PICK old :
          /\ cache_lbn' = c.lbn /\ block_buffer' = Copied(old, c)
          /\ Scramble[c.lbn] # NoCode => old = ReadOf(flash, c.lbn, pbn_lookup[c.lbn])
    BY <1>1, <1>4, <2>1 DEF Load, ReadOf
  <2>3. /\ CurOf(c.lbn)' = Copied(old, c)
        /\ Scramble[c.lbn] # NoCode => old = CurOf(c.lbn)
    BY <1>2, <2>2 DEF CurOf
  <2>4. \A x \in Lb \ {c.lbn, cache_lbn} : CurOf(x)' = CurOf(x)
    BY <1>2, <2>2 DEF CurOf
  <2>5. cache_lbn \in {None, c.lbn} \cup failed /\ pc # "mount" /\ pc' # "mount"
    BY <1>2
  <2>. QED
    BY <1>2, <2>2, <2>3, <2>4, <2>5, IsWrite
<1>. QED
  BY <1>3, <1>4

(* The steps of a sync before the new block is mapped touch only copies of *)
(* the cached block.                                                       *)
LEMMA SyncIsFlush ==
  ASSUME Stores, Clear \/ ClearFails \/ Pop \/ Exhausted \/ Program \/ ProgramFails
  PROVE  Disk!Flush
<1>0. /\ flash \in [Pb -> Block] /\ pbn_lookup \in [Lb -> Pb \cup {None}]
      /\ cache_lbn \in Lb /\ cache_pbn \in Pb /\ cache_pbn = pbn_lookup[cache_lbn]
      /\ flash[cache_pbn].lbn = cache_lbn /\ None \notin Lb /\ None \notin Pb
      /\ pc # "mount"
  BY Constants DEF Stores, Safe, TypeOK, Control, BlocksApart,
     Clear, ClearFails, Pop, Exhausted, Program, ProgramFails
<1>1. /\ UNCHANGED <<pbn_lookup, cache_lbn, block_buffer>> /\ pc' # "mount"
      /\ failed' \in {failed, failed \cup {cache_lbn}}
  BY DEF Clear, ClearFails, Pop, Exhausted, Program, ProgramFails, SyncFails, Return, Fails,
     maps, cache, harm
<1>2. \/ flash' = flash
      \/ \E p \in Pb : \E b :
           /\ flash' = [flash EXCEPT ![p] = b]
           /\ flash[p].lbn \in {None, cache_lbn} /\ b.lbn \in {None, cache_lbn}
           /\ \A x \in Lb : pbn_lookup[x] = p => x = cache_lbn
  <2>1. CASE Clear
    <3>. DEFINE b == [flash[cache_pbn] EXCEPT !.inuse = FALSE]
    <3>1. flash' = [flash EXCEPT ![cache_pbn] = b] /\ b.lbn = cache_lbn
      BY <1>0, <2>1 DEF Clear, Block
    <3>2. \A x \in Lb : pbn_lookup[x] = cache_pbn => x = cache_lbn
      BY <1>0 DEF Stores, Safe, BlocksApart
    <3>. HIDE DEF b
    <3>. QED
      BY <1>0, <3>1, <3>2
  <2>2. CASE ClearFails \/ Exhausted
    BY <2>2 DEF ClearFails, Exhausted, SyncFails
  <2>3. CASE Pop
    <3>1. PICK p \in Pb : p = Head(unused_blocks)
      BY <2>3 DEF Pop, Stores, Safe, TypeOK
    <3>2. flash[p].lbn = None
      <4>1. unused_blocks \in Seq(Pb) /\ unused_blocks # <<>>
        BY <2>3 DEF Pop, Stores, Safe, TypeOK
      <4>2. 1 \in 1 .. Len(unused_blocks) /\ unused_blocks[1] = p
        BY <3>1, <4>1
      <4>. QED
        BY <4>2 DEF Stores, Safe, BlocksApart, Queued
    <3>3. \A x \in Lb : pbn_lookup[x] # p
      BY <1>0, <3>2 DEF Stores, Safe, BlocksApart
    <3>4. flash' = flash \/ flash' = [flash EXCEPT ![p] = Erased]
      BY <2>3, <3>1 DEF Pop
    <3>. QED
      BY <3>2, <3>3, <3>4, Constants
  <2>4. CASE Program \/ ProgramFails
    <3>1. /\ new_pbn \in Pb /\ flash[new_pbn].lbn \in {None, cache_lbn}
          /\ \A x \in Lb : pbn_lookup[x] # new_pbn
      BY <2>4 DEF Program, ProgramFails, Stores, InFlight, Safe, TypeOK, Control, BlocksApart,
                  Mapped
    <3>2. \E b : flash' = [flash EXCEPT ![new_pbn] = b] /\ b.lbn \in {None, cache_lbn}
      <4>1. CASE Program
        <5>. DEFINE b == [lbn |-> cache_lbn, inuse |-> TRUE,
                          data |-> [flash[new_pbn].data EXCEPT ![n] = block_buffer[n]],
                          code |-> Scramble[cache_lbn]]
        <5>1. flash' = [flash EXCEPT ![new_pbn] = b] /\ b.lbn = cache_lbn
          BY <4>1 DEF Program
        <5>. HIDE DEF b
        <5>. QED
          BY <5>1
      <4>2. CASE ProgramFails
        <5>1. PICK b \in {Erased, flash[new_pbn], [lbn |-> cache_lbn, inuse |-> TRUE,
                            data |-> Blank, code |-> Scramble[cache_lbn]]} :
                flash' = [flash EXCEPT ![new_pbn] = b]
          BY <4>2 DEF ProgramFails
        <5>2. b.lbn \in {None, cache_lbn}
          BY <3>1, Constants
        <5>. QED
          BY <5>1, <5>2
      <4>. QED
        BY <2>4, <4>1, <4>2
    <3>. QED
      BY <3>1, <3>2
  <2>. QED
    BY <2>1, <2>2, <2>3, <2>4
<1>3. \A x \in Lb \ {cache_lbn} :
        /\ Stored(flash', x) = Stored(flash, x)
        /\ ReadOf(flash', x, pbn_lookup[x]) = ReadOf(flash, x, pbn_lookup[x])
  <2>1. CASE flash' = flash
    BY <2>1
  <2>2. CASE flash' # flash
    <3>0. PICK p \in Pb : \E b :
            /\ flash' = [flash EXCEPT ![p] = b]
            /\ flash[p].lbn \in {None, cache_lbn} /\ b.lbn \in {None, cache_lbn}
            /\ \A x \in Lb : pbn_lookup[x] = p => x = cache_lbn
      BY <1>2, <2>2
    <3>1. PICK b :
            /\ flash' = [flash EXCEPT ![p] = b]
            /\ flash[p].lbn \in {None, cache_lbn} /\ b.lbn \in {None, cache_lbn}
            /\ \A x \in Lb : pbn_lookup[x] = p => x = cache_lbn
      BY <3>0
    <3>. SUFFICES ASSUME NEW x \in Lb \ {cache_lbn}
                  PROVE  /\ Stored(flash', x) = Stored(flash, x)
                         /\ ReadOf(flash', x, pbn_lookup[x]) = ReadOf(flash, x, pbn_lookup[x])
      OBVIOUS
    <3>2. flash[p].lbn # x /\ flash'[p].lbn # x
          /\ \A q \in Pb : q # p => flash'[q] = flash[q]
      BY <1>0, <3>1
    <3>3. Stored(flash', x) = Stored(flash, x)
      BY <3>2, StoredElsewhere
    <3>4. pbn_lookup[x] # None => flash'[pbn_lookup[x]] = flash[pbn_lookup[x]]
      BY <1>0, <3>1
    <3>. QED
      BY <3>3, <3>4 DEF ReadOf
  <2>. QED
    BY <2>1, <2>2
<1>4. \A x \in Lb : CurOf(x)' = CurOf(x)
  BY <1>0, <1>1, <1>3 DEF CurOf
<1>. QED
  BY <1>0, <1>1, <1>3, <1>4, IsFlush

(* The old block is retired: the new one is then the only copy. *)
LEMMA RetireIsSync == ASSUME Stores, Retire PROVE Disk!Sync
<1>0. /\ flash \in [Pb -> Block] /\ pbn_lookup \in [Lb -> Pb \cup {None}]
      /\ pc = "retire" /\ cache_lbn \in Lb /\ cache_pbn \in Pb /\ new_pbn \in Pb
      /\ cache_pbn = pbn_lookup[cache_lbn] /\ flash[cache_pbn].lbn = cache_lbn
      /\ flash[new_pbn].lbn = cache_lbn /\ new_pbn # cache_pbn
      /\ None \notin Lb /\ None \notin Pb
  BY Constants DEF Stores, Safe, TypeOK, Control, BlocksApart, Retire, Mapped
<1>1. /\ pbn_lookup' = [pbn_lookup EXCEPT ![cache_lbn] = new_pbn]
      /\ cache_lbn' = None /\ pc' # "mount"
      /\ failed' \in {failed, failed \cup {cache_lbn}}
      /\ cache_lbn \notin failed' => cache_lbn \notin failed /\ flash'[cache_pbn].lbn = None
      /\ flash'[cache_pbn].lbn \in {None, cache_lbn}
      /\ \A q \in Pb : q # cache_pbn => flash'[q] = flash[q]
  BY <1>0, Constants DEF Retire, Return, AddUnused, Fails, harm
<1>2. flash[new_pbn].data = block_buffer /\ flash[new_pbn].code = Scramble[cache_lbn]
  BY <1>0 DEF Stores, InFlight
<1>3. ReadOf(flash', cache_lbn, new_pbn) = block_buffer
  BY <1>0, <1>1, <1>2 DEF ReadOf
<1>4. ASSUME NEW x \in Lb \ {cache_lbn}
      PROVE  Stored(flash', x) = Stored(flash, x) /\ CurOf(x)' = CurOf(x)
  <2>1. flash[cache_pbn].lbn # x /\ flash'[cache_pbn].lbn # x
    BY <1>0, <1>1
  <2>2. Stored(flash', x) = Stored(flash, x)
    <3>1. PICK p \in Pb : p = cache_pbn
      BY <1>0
    <3>2. \A q \in Pb : q # p => flash'[q] = flash[q]
      BY <1>1, <3>1
    <3>3. flash[p].lbn # x /\ flash'[p].lbn # x
      BY <2>1, <3>1
    <3>. QED
      BY <3>2, <3>3, StoredElsewhere
  <2>3. pbn_lookup'[x] = pbn_lookup[x]
        /\ (pbn_lookup[x] # None => flash'[pbn_lookup[x]] = flash[pbn_lookup[x]])
    BY <1>0, <1>1, <2>1 DEF Stores, Safe, BlocksApart
  <2>4. ReadOf(flash', x, pbn_lookup'[x]) = ReadOf(flash, x, pbn_lookup[x])
    BY <2>3 DEF ReadOf
  <2>. QED
    BY <1>0, <1>1, <2>2, <2>4 DEF CurOf
<1>5. CurOf(cache_lbn) = block_buffer
  BY <1>0 DEF CurOf
<1>6. \A x \in Lb : CurOf(x)' = CurOf(x)
  <2>1. PICK l \in Lb : l = cache_lbn
    BY <1>0
  <2>2. CurOf(l)' = CurOf(l)
    BY <1>0, <1>1, <1>3, <1>5, <2>1 DEF CurOf
  <2>. QED
    BY <1>4, <2>1, <2>2
<1>7. ASSUME cache_lbn \notin failed' PROVE Stored(flash', cache_lbn) = CurOf(cache_lbn)
  <2>1. \A q \in Pb : flash'[q].lbn = cache_lbn => q = new_pbn
    BY <1>0, <1>1, <1>7 DEF Stores, Single
  <2>2. Wins(flash', cache_lbn, new_pbn)
    <3>1. Pb \subseteq Int /\ flash'[new_pbn].lbn = cache_lbn
      BY <1>0, <1>1, LflashAssumption DEF Pb
    <3>. QED
      BY <1>0, <2>1, <3>1 DEF Wins
  <2>3. WinnerOf(flash', cache_lbn) = new_pbn
    BY <1>0, <2>2, WinnerIs
  <2>. QED
    BY <1>3, <1>5, <2>3 DEF Stored
<1>. QED
  BY <1>0, <1>1, <1>4, <1>6, <1>7, IsSync

LEMMA LossIsPowerCycle == ASSUME Stores, PowerLoss PROVE Disk!PowerCycle
<1>1. pc' = "mount" /\ cache_lbn' = None /\ failed' = {} /\ flash' = flash
  BY DEF PowerLoss, PowerOn
<1>2. DiskStable' = DiskStable /\ DiskCur' = DiskStable
  BY <1>1, Mapping DEF CurOf
<1>3. failed' \cap Lb = {}
  BY <1>1
<1>. QED
  BY <1>1, <1>2, <1>3 DEF Disk!PowerCycle, DiskCur, DiskStable

(* With scrambled partitions and partitions with the code 0, the           *)
(* translation layer implements the abstract disk, whatever fails and      *)
(* whenever the power goes: a write changes the sectors it names and       *)
(* nothing else, except in a block with the code 0, whose other sectors    *)
(* the first write may garble; a block that was synced survives; and a     *)
(* loss of power costs at most the block that was not synced and those an  *)
(* operation failed for.                                                   *)
THEOREM ImplementsDisk == Spec => RefinesFlashDisk
<1>1. Init => Disk!Init
  <2>. SUFFICES ASSUME Init PROVE Disk!Init
    OBVIOUS
  <2>1. pc = "mount" /\ cache_lbn = None /\ failed = {}
    BY DEF Init
  <2>2. DiskCur = DiskStable
    BY <2>1 DEF DiskCur, DiskStable
  <2>. QED
    BY <2>1, <2>2 DEF Disk!Init, DiskCur, DiskStable
<1>2. Stores /\ [Next]_vars => [Disk!Next]_DiskVars
  <2>. SUFFICES ASSUME Stores, [Next]_vars PROVE [Disk!Next]_DiskVars
    OBVIOUS
  <2>1. CASE MountUnused \/ MountFirst \/ MountAgain \/ MountEnd
    BY <2>1, MountIsMount DEF Disk!Next
  <2>2. CASE Sync \/ WriteMiss \/ UNCHANGED vars
    BY <2>2, CallIsStutter
  <2>3. CASE WriteHit \/ Load
    BY <2>3, HitIsWrite, LoadIsWrite
  <2>4. CASE Clear \/ ClearFails \/ Pop \/ Exhausted \/ Program \/ ProgramFails
    BY <2>4, SyncIsFlush DEF Disk!Next
  <2>5. CASE Retire \/ PowerLoss
    BY <2>5, RetireIsSync, LossIsPowerCycle DEF Disk!Next
  <2>. QED
    BY <2>1, <2>2, <2>3, <2>4, <2>5 DEF Next
<1>3. Init => Stores
  BY SafeInit, StoresInit DEF Stores
<1>. QED
  BY <1>1, <1>2, <1>3, StoresNext, PTL
     DEF Spec, RefinesFlashDisk, Disk!Spec, DiskVars, DiskCur, DiskStable
=============================================================================
