------------------------------- MODULE Lflash -------------------------------
(***************************************************************************)
(* The flash translation layer of iplsdk (lflash.c) on one segment of NAND *)
(* flash (emcsm.c): logical blocks are mapped to physical ones, a written  *)
(* block is kept in a cache and goes to a fresh physical block when it is  *)
(* synced, and the map is rebuilt from the spare areas when the program    *)
(* starts.  One step is one operation of the flash, which may fail; the    *)
(* power may go between any two of them, and between two pages of a block. *)
(***************************************************************************)
EXTENDS Integers, Sequences, FiniteSets

CONSTANTS
  NumPb,        \* the number of good physical blocks of the segment
  Lb,           \* the logical blocks of the segment
  Present,      \* the logical blocks that have been formatted
  NumPages,     \* pages per block
  Runs,         \* [Lb -> sets of pages]: the runs of pages the program writes
  Val, Formatted, Written, \* the contents of a page, those of a fresh disk and
                \* those the program writes
  Scramble,     \* [Lb -> Codes]: the scramble code of a block's partition
  Codes, NoCode,\* the scramble codes, and the code 0
  MaxNodes,     \* MAX_NUM_UNUSED_BLOCKS_PER_SEGMENT
  MaxFailures,  \* how many operations may fail, not counting the erasure of
                \* unused blocks (a bound of the model)
  Junk,         \* the contents of a page that was not, or not properly, written
  None          \* INVALID_PBN and INVALID_LBN

Pb == 0 .. NumPb - 1
Page == 0 .. NumPages - 1
Contents == [Page -> Val \cup {Junk}]

ASSUME LflashAssumption ==
  /\ NumPb \in Nat /\ NumPages \in Nat \ {0} /\ MaxNodes \in Nat
  /\ Formatted \in Val /\ Written \subseteq Val /\ Runs \in [Lb -> SUBSET SUBSET Page]
  /\ Present \subseteq Lb /\ NoCode \in Codes /\ Scramble \in [Lb -> Codes]
  /\ MaxFailures \in Nat /\ Junk \notin Val
  /\ None \notin Lb /\ None \notin Nat

VARIABLES
  flash,      \* the physical blocks: spare area (lbn, flag 0x10), pages, code
  pbn_lookup, \* [Lb -> Pb \cup {None}]
  unused_blocks,         \* the queue of erased blocks
  cache_lbn, cache_pbn,  \* the block in block_buffer
  block_buffer,
  pc, n,      \* the next flash operation, and the block or page it is at
  new_pbn,    \* the block a sync writes to
  caller,     \* the write that called sync_write, with the scramble code the
              \* flash controller is left with, or SyncCall
  failed,     \* history: logical blocks an operation failed for since power-on
  failures    \* the number of operations that have failed

vars == <<flash, pbn_lookup, unused_blocks, cache_lbn, cache_pbn, block_buffer,
          pc, n, new_pbn, caller, failed, failures>>
maps == <<pbn_lookup, unused_blocks>>
harm == <<failed, failures>>
cache == <<cache_lbn, cache_pbn, block_buffer>>

(* An operation on behalf of logical block l fails. *)
Fails(l) ==
  /\ failures < MaxFailures
  /\ failures' = failures + 1
  /\ failed' = failed \cup {l}

Blank == [p \in Page |-> Junk]
Erased == [lbn |-> None, inuse |-> TRUE, data |-> Blank, code |-> NoCode]
Block == [lbn : Lb \cup {None}, inuse : BOOLEAN, data : Contents, code : Codes]
SyncCall == [lbn |-> None, pages |-> {}, val |-> Junk,
             code |-> NoCode]
WriteCalls == {c \in [lbn : Lb, pages : SUBSET Page, val : Written, code : Codes] :
                 c.pages \in Runs[c.lbn]}

(* Start of init_segment: nothing mapped, no unused block, empty cache. *)
PowerOn ==
  /\ pbn_lookup' = [l \in Lb |-> None] /\ unused_blocks' = <<>>
  /\ cache_lbn' = None /\ cache_pbn' = None /\ block_buffer' = Blank
  /\ pc' = "mount" /\ n' = 0 /\ new_pbn' = None /\ caller' = SyncCall
  /\ failed' = {}

Init ==
  /\ \E at \in [Present -> Pb] :
       /\ \A k, l \in Present : at[k] = at[l] => k = l
       /\ flash = [p \in Pb |->
            IF \E l \in Present : at[l] = p
              THEN LET l == CHOOSE l \in Present : at[l] = p IN
                   [lbn |-> l, inuse |-> TRUE, data |-> [q \in Page |-> Formatted],
                    code |-> Scramble[l]]
              ELSE Erased]
  /\ pbn_lookup = [l \in Lb |-> None] /\ unused_blocks = <<>>
  /\ cache_lbn = None /\ cache_pbn = None /\ block_buffer = Blank
  /\ pc = "mount" /\ n = 0 /\ new_pbn = None /\ caller = SyncCall
  /\ failed = {} /\ failures = 0

-----------------------------------------------------------------------------
(* add_block_to_unused_list: the block is erased and queued if a node is   *)
(* left; a block that cannot be erased is forgotten.  l is the logical     *)
(* block on whose behalf this happens.                                     *)
AddUnused(p, l) ==
  \/ /\ flash' = [flash EXCEPT ![p] = Erased]
     /\ unused_blocks' = IF Len(unused_blocks) < MaxNodes
                           THEN Append(unused_blocks, p) ELSE unused_blocks
     /\ UNCHANGED harm
  \/ Fails(l) /\ UNCHANGED <<flash, unused_blocks>>

(* One turn of the loop of init_segment that finds an empty block, *)
MountUnused ==
  /\ pc = "mount" /\ n < NumPb
  /\ flash[n].lbn = None
  /\ AddUnused(n, None)
  /\ n' = n + 1
  /\ UNCHANGED <<pbn_lookup, cache, pc, new_pbn, caller>>

(* the first copy of a logical block, *)
MountFirst ==
  /\ pc = "mount" /\ n < NumPb
  /\ LET l == flash[n].lbn IN
       /\ l # None /\ pbn_lookup[l] = None
       /\ pbn_lookup' = [pbn_lookup EXCEPT ![l] = n]
  /\ n' = n + 1
  /\ UNCHANGED <<flash, unused_blocks, cache, pc, new_pbn, caller, harm>>

(* or another copy: the later one stays, unless both have flag 0x10 set. *)
MountAgainDrops ==
  /\ pc = "mount" /\ n < NumPb
  /\ LET l == flash[n].lbn IN
       /\ l # None /\ pbn_lookup[l] # None
       /\ AddUnused(n, l)
  /\ n' = n + 1
  /\ UNCHANGED <<pbn_lookup, cache, pc, new_pbn, caller>>

MountAgain ==
  /\ pc = "mount" /\ n < NumPb
  /\ LET l == flash[n].lbn
         other == pbn_lookup[l] IN
       /\ l # None /\ other # None
       /\ IF flash[n].inuse /\ flash[other].inuse
            THEN AddUnused(n, l) /\ UNCHANGED pbn_lookup
            ELSE AddUnused(other, l)
                 /\ pbn_lookup' = [pbn_lookup EXCEPT ![l] = n]
  /\ n' = n + 1
  /\ UNCHANGED <<cache, pc, new_pbn, caller>>

MountEnd ==
  /\ pc = "mount" /\ n = NumPb
  /\ pc' = "idle" /\ n' = 0
  /\ UNCHANGED <<flash, maps, cache, new_pbn, caller, harm>>

-----------------------------------------------------------------------------
(* lflash_sync and read_sector with a block in the cache enter sync_write; *)
(* without one they change nothing.  read_sector then reads the mapped     *)
(* block.  Every call sets the code of the block it works on first.        *)
Sync ==
  /\ pc = "idle" /\ cache_lbn # None
  /\ pc' = "clear"
  /\ UNCHANGED <<flash, maps, cache, n, new_pbn, caller, harm>>

(* The sectors of a call are copied into the cached block. *)
Copied(b, c) == [p \in Page |-> IF p \in c.pages THEN c.val ELSE b[p]]

(* write_sectors for the block in the cache; *)
WriteHit ==
  /\ pc = "idle"
  /\ \E c \in WriteCalls :
       /\ cache_lbn = c.lbn
       /\ block_buffer' = Copied(block_buffer, c)
  /\ UNCHANGED <<flash, maps, cache_lbn, cache_pbn, pc, n, new_pbn, caller, harm>>

(* and for another block: the cache is synced first, under its own code. *)
WriteMiss ==
  /\ pc = "idle"
  /\ caller' \in {c \in WriteCalls : c.lbn # cache_lbn}
  /\ IF cache_lbn = None
       THEN caller'.code = Scramble[caller'.lbn] /\ pc' = "load"
       ELSE caller'.code = Scramble[cache_lbn] /\ pc' = "clear"
  /\ UNCHANGED <<flash, maps, cache, n, new_pbn, harm>>

(* read_pbn_spare_data sets the code of the block, unless it is 0. *)
CodeAtLoad ==
  IF Scramble[caller.lbn] # NoCode THEN Scramble[caller.lbn] ELSE caller.code

(* The block is read into the cache, whatever came of the sync; an         *)
(* unformatted block makes the call fail.                                  *)
Load ==
  /\ pc = "load"
  /\ LET p == pbn_lookup[caller.lbn] IN
       IF p = None
         THEN UNCHANGED cache
         ELSE /\ cache_lbn' = caller.lbn /\ cache_pbn' = p
              /\ block_buffer' = Copied(IF flash[p].code = CodeAtLoad
                                          THEN flash[p].data ELSE Blank, caller)
  /\ pc' = "idle" /\ caller' = SyncCall
  /\ UNCHANGED <<flash, maps, n, new_pbn, harm>>

-----------------------------------------------------------------------------
(* sync_write returns to its caller; write_sectors ignores the result. *)
Return ==
  /\ n' = 0 /\ new_pbn' = None
  /\ IF caller # SyncCall
       THEN pc' = "load" /\ UNCHANGED caller
       ELSE pc' = "idle" /\ caller' = SyncCall

SyncFails == Return /\ UNCHANGED <<flash, maps, cache>>

(* The flag 0x10 of the old block is cleared, or that fails. *)
Clear ==
  /\ pc = "clear"
  /\ flash' = [flash EXCEPT ![cache_pbn].inuse = FALSE]
  /\ pc' = "pop"
  /\ UNCHANGED <<maps, cache, n, new_pbn, caller, harm>>

ClearFails == pc = "clear" /\ Fails(cache_lbn) /\ SyncFails

(* The next unused block is taken and erased; if that fails, the next.     *)
PopKeepsHead ==
  /\ pc = "pop" /\ unused_blocks # <<>>
  /\ unused_blocks' = unused_blocks
  /\ \/ /\ flash' = [flash EXCEPT ![Head(unused_blocks)] = Erased]
        /\ new_pbn' = Head(unused_blocks) /\ pc' = "program" /\ UNCHANGED harm
     \/ /\ failed' = failed \cup {cache_lbn}
        /\ UNCHANGED <<flash, new_pbn, pc, failures>>
  /\ UNCHANGED <<pbn_lookup, cache, n, caller>>

Pop ==
  /\ pc = "pop" /\ unused_blocks # <<>>
  /\ unused_blocks' = Tail(unused_blocks)
  /\ \/ /\ flash' = [flash EXCEPT ![Head(unused_blocks)] = Erased]
        /\ new_pbn' = Head(unused_blocks) /\ pc' = "program" /\ UNCHANGED harm
     \/ /\ failed' = failed \cup {cache_lbn}
        /\ UNCHANGED <<flash, new_pbn, pc, failures>>
  /\ UNCHANGED <<pbn_lookup, cache, n, caller>>

Exhausted ==
  /\ pc = "pop" /\ unused_blocks = <<>>
  /\ failed' = failed \cup {cache_lbn} /\ UNCHANGED failures
  /\ SyncFails

(* write_new_block programs page n and its spare area, *)
ProgramPastEnd ==
  /\ pc = "program"
  /\ flash' = [flash EXCEPT ![new_pbn] =
       [lbn |-> cache_lbn, inuse |-> TRUE,
        data |-> [flash[new_pbn].data EXCEPT ![n] = block_buffer[n]],
        code |-> Scramble[cache_lbn]]]
  /\ IF n < NumPages THEN n' = n + 1 /\ pc' = pc ELSE n' = 0 /\ pc' = "retire"
  /\ UNCHANGED <<maps, cache, new_pbn, caller, harm>>

Program ==
  /\ pc = "program"
  /\ flash' = [flash EXCEPT ![new_pbn] =
       [lbn |-> cache_lbn, inuse |-> TRUE,
        data |-> [flash[new_pbn].data EXCEPT ![n] = block_buffer[n]],
        code |-> Scramble[cache_lbn]]]
  /\ IF n + 1 < NumPages THEN n' = n + 1 /\ pc' = pc ELSE n' = 0 /\ pc' = "retire"
  /\ UNCHANGED <<maps, cache, new_pbn, caller, harm>>

(* or the erasure, the programming or the verification fails: the block is *)
(* given up with what it holds, and another one is tried.                  *)
ProgramFails ==
  /\ pc = "program" /\ Fails(cache_lbn)
  /\ \E b \in {Erased, flash[new_pbn],
                [lbn |-> cache_lbn, inuse |-> TRUE, data |-> Blank,
                 code |-> Scramble[cache_lbn]]} :
       flash' = [flash EXCEPT ![new_pbn] = b]
  /\ pc' = "pop" /\ n' = 0 /\ new_pbn' = None
  /\ UNCHANGED <<maps, cache, caller>>

(* The new block is mapped, the old one erased and queued. *)
RetireForgets ==
  /\ pc = "retire"
  /\ pbn_lookup' = [pbn_lookup EXCEPT ![cache_lbn] = new_pbn]
  /\ flash' = [flash EXCEPT ![cache_pbn] = Erased]
  /\ cache_lbn' = None /\ cache_pbn' = None /\ block_buffer' = Blank
  /\ Return
  /\ UNCHANGED <<unused_blocks, harm>>

Retire ==
  /\ pc = "retire"
  /\ pbn_lookup' = [pbn_lookup EXCEPT ![cache_lbn] = new_pbn]
  /\ AddUnused(cache_pbn, cache_lbn)
  /\ cache_lbn' = None /\ cache_pbn' = None /\ block_buffer' = Blank
  /\ Return

(* The power fails: only the flash is left, and the program starts again. *)
PowerLoss == PowerOn /\ UNCHANGED <<flash, failures>>

Next ==
  \/ MountUnused \/ MountFirst \/ MountAgain \/ MountEnd
  \/ Sync \/ WriteHit \/ WriteMiss \/ Load
  \/ Clear \/ ClearFails \/ Pop \/ Exhausted \/ Program \/ ProgramFails \/ Retire
  \/ PowerLoss

Spec == Init /\ [][Next]_vars

-----------------------------------------------------------------------------
(* Every variable has its type, and no page past the end of a block is     *)
(* programmed.                                                             *)
TypeOK ==
  /\ flash \in [Pb -> Block]
  /\ pbn_lookup \in [Lb -> Pb \cup {None}]
  /\ unused_blocks \in Seq(Pb) /\ Len(unused_blocks) <= MaxNodes
  /\ cache_lbn \in Lb \cup {None} /\ cache_pbn \in Pb \cup {None}
  /\ block_buffer \in Contents
  /\ pc \in {"mount", "idle", "load", "clear", "pop", "program", "retire"}
  /\ n \in IF pc = "mount" THEN 0 .. NumPb ELSE Page
  /\ new_pbn \in Pb \cup {None}
  /\ caller \in {SyncCall} \cup WriteCalls
  /\ failed \subseteq Lb \cup {None} /\ failures \in Nat

Queued(p) == \E k \in 1 .. Len(unused_blocks) : unused_blocks[k] = p
Mapped(p) == \E l \in Lb : pbn_lookup[l] = p

(* A block of the queue is erased, queued once and mapped by nobody; a      *)
(* mapped block says in its spare area whose it is; the block a sync writes *)
(* to is neither.  A sync must never erase what another block needs.        *)
BlocksApart ==
  /\ \A j, k \in 1 .. Len(unused_blocks) : unused_blocks[j] = unused_blocks[k] => j = k
  /\ \A p \in Pb : Queued(p) => flash[p].lbn = None
  /\ \A l \in Lb : pbn_lookup[l] # None => flash[pbn_lookup[l]].lbn = l
  /\ new_pbn # None => ~Queued(new_pbn) /\ ~Mapped(new_pbn)
  /\ cache_lbn # None => pbn_lookup[cache_lbn] = cache_pbn

(* No block is lost as long as no operation fails and there are nodes for  *)
(* all blocks but the formatted ones: a block is mapped, queued or being   *)
(* written.  (The comment "can this happen?" of add_block_to_unused_list   *)
(* asks whether the nodes may run out.)                                    *)
PoolComplete ==
  failed = {} /\ pc # "mount" /\ NumPb <= Cardinality(Present) + MaxNodes =>
    \A p \in Pb : Mapped(p) \/ Queued(p) \/ p = new_pbn

(* The copy of block l that init_segment settles on: the first one behind  *)
(* the last copy whose flag 0x10 is cleared, or that copy, or, when no     *)
(* flag is cleared, the first.                                             *)
Least(S) == CHOOSE p \in S : \A q \in S : p <= q
Greatest(S) == CHOOSE p \in S : \A q \in S : p >= q
Winner(l) ==
  LET copies == {p \in Pb : flash[p].lbn = l}
      cleared == {p \in copies : ~flash[p].inuse}
      last == Greatest(cleared)
      behind == {p \in copies : p > last} IN
  IF copies = {} THEN None
  ELSE IF cleared = {} THEN Least(copies)
  ELSE IF behind = {} THEN last ELSE Least(behind)

Read(l, p) == IF p = None \/ flash[p].code # Scramble[l] THEN Blank ELSE flash[p].data

(* The layer implements the abstract disk.  What a read returns is the     *)
(* cached block or the mapped one; what it would return after a power      *)
(* cycle is the copy init_segment would settle on.  The blocks of a        *)
(* partition with the code 0 are plain: Load reads them under the code of  *)
(* the block that was synced before.                                       *)
Disk == INSTANCE FlashDisk WITH
  Blocks <- Lb, Pages <- Page, Values <- Val,
  Plain <- {l \in Lb : Scramble[l] = NoCode},
  cur <- [l \in Lb |-> IF pc = "mount" THEN Read(l, Winner(l))
                       ELSE IF l = cache_lbn THEN block_buffer
                       ELSE Read(l, pbn_lookup[l])],
  stable <- [l \in Lb |-> Read(l, Winner(l))],
  dirty <- cache_lbn,
  failed <- failed \cap Lb,
  up <- pc # "mount"
RefinesFlashDisk == Disk!Spec
=============================================================================
