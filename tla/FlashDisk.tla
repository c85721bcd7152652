----------------------------- MODULE FlashDisk -----------------------------
(***************************************************************************)
(* What a program may expect of the flash translation layer: a disk with a *)
(* write-back cache of one block.  A write changes the sectors it names    *)
(* and nothing else; a block that was synced survives a loss of power; a   *)
(* loss of power costs at most the block that was not yet synced, and the  *)
(* blocks for which the hardware reported a failure since power-on.  It    *)
(* may not expect the first of these of a block without a scramble code:   *)
(* the first write to part of it may garble the rest.                      *)
(***************************************************************************)
CONSTANTS
  Blocks, Pages, Values, None,
  Plain    \* the blocks that are stored without a scramble code

VARIABLES
  cur,     \* [Blocks -> [Pages -> contents]]: what a read returns
  stable,  \* [Blocks -> [Pages -> contents]]: what a read returns after a power cycle
  dirty,   \* the block that was written and not synced, or None
  failed,  \* the blocks an operation has failed for since power-on
  up       \* the disk is mounted

Init == cur = stable /\ dirty = None /\ failed = {} /\ up = FALSE

(* The value v is written to the pages S of block b, which becomes the     *)
(* dirty one; a dirty block that could not be synced is given up.  The     *)
(* other pages keep their contents, unless the block is a plain one that   *)
(* was not dirty already.                                                  *)
Write(b, S, v) ==
  /\ up /\ dirty \in {None, b} \cup failed
  /\ dirty' = b
  /\ UNCHANGED <<stable, failed, up>>
  /\ cur'[b] = [p \in Pages |-> IF p \in S THEN v
                                ELSE IF b \in Plain /\ b # dirty THEN cur'[b][p] ELSE cur[b][p]]
  /\ \A x \in Blocks \ {b, dirty} : cur'[x] = cur[x]

(* Only the dirty block changes on the flash, and it may come to harm. *)
OnlyDirty == \A x \in Blocks \ {dirty} : stable'[x] = stable[x]

Flush ==
  /\ dirty # None /\ UNCHANGED <<cur, dirty, up>>
  /\ failed' \in {failed, failed \cup {dirty}}
  /\ OnlyDirty

Sync ==
  /\ dirty # None /\ dirty' = None /\ UNCHANGED <<cur, up>>
  /\ failed' \in {failed, failed \cup {dirty}}
  /\ OnlyDirty
  /\ dirty \notin failed' => stable'[dirty] = cur[dirty]

PowerCycle ==
  /\ up' = FALSE /\ dirty' = None /\ failed' = {}
  /\ UNCHANGED stable /\ cur' = stable

(* While the disk is mounted, leftover copies of blocks are reclaimed; only *)
(* a block for which that fails may change.                                 *)
Mount ==
  /\ ~up /\ UNCHANGED dirty
  /\ failed' = failed \/ \E b \in Blocks : failed' = failed \cup {b}
  /\ \A x \in Blocks \ failed' : stable'[x] = stable[x] /\ cur'[x] = cur[x]

Next ==
  \/ Flush \/ Sync \/ PowerCycle \/ Mount
  \/ \E b \in Blocks, S \in SUBSET Pages, v \in Values : Write(b, S, v)

Spec == Init /\ [][Next]_<<cur, stable, dirty, failed, up>>
=============================================================================
