------------------------------- MODULE GuList -------------------------------
(***************************************************************************)
(* Display lists of libgu: the program appends commands to a list that the *)
(* graphics engine (GE) reads at the same time, up to a stall address that *)
(* the program moves.  One call of the library is one step, one command is *)
(* one step of the GE.  A BASE command is one word with the command that   *)
(* follows it, and so are BOUNDING_BOX with its conditional jump and       *)
(* FINISH with its END.                                                    *)
(*                                                                         *)
(* The program has one GU_DIRECT list, reused every frame, and one GU_CALL *)
(* list.  It waits for the GE before it starts a list again or swaps the   *)
(* buffers, terminates every object in the list it was begun in, keeps     *)
(* within the memory of its lists and sets no swapBuffersCallback.         *)
(* sceGeListUpdateStallAddr does not fail: it is only called for the list  *)
(* that sceGeListEnQueue has returned, before the GE is done with it.      *)
(***************************************************************************)
EXTENDS Integers, SequencesExt

CONSTANTS
  DirectWords, CallWords,  \* the sizes of the two lists, in words: there is
                           \* room for the frame buffer and the end of the list
  MaxObjects,              \* GU_OBJECT_STACK_SIZE
  MemoryInObject           \* may the program call sceGuGetMemory in an object?

ASSUME GuListAssumption ==
  /\ DirectWords \in Nat \ {0, 1} /\ CallWords \in Nat \ {0}
  /\ MaxObjects \in Nat /\ MemoryInObject \in BOOLEAN

DirectStart == 1
CallStart == DirectWords + 1
Addr == 1 .. DirectWords + CallWords
Context == {"GU_DIRECT", "GU_CALL"}
Region(c) == IF c = "GU_DIRECT" THEN DirectStart .. DirectWords
                                ELSE CallStart .. DirectWords + CallWords
StartOf(c) == IF c = "GU_DIRECT" THEN DirectStart ELSE CallStart

VARIABLES
  mem,                      \* [Addr -> Word]: the memory of the lists
  gu_contexts,              \* [Context -> [current, parent_context]]
  gu_curr_context,
  gu_object_stack,          \* the addresses of the conditional jumps
  frame_buffer, disp_buffer, \* gu_draw_buffer
  gu_display_on,
  set_buffer,               \* the argument of the last sceDisplaySetFrameBuf, which
                            \* is on display from the next hsync or vsync on
  ge_pc, ge_stall, ge_ret, ge_frame, \* the GE; address 0 means no list
  phase,                    \* the program: outside a frame, in it, or after it
  lent, recorded,           \* the GU_CALL list: the GE may be in it; its draws
  issued, drawn, hidden     \* history of the frame: draws the program asked for,
                            \* with the objects around them, draws the GE made,
                            \* and the objects that were out of sight

building == <<mem, gu_contexts, gu_curr_context, gu_object_stack>>
screen == <<frame_buffer, disp_buffer, gu_display_on, set_buffer>>
ge == <<ge_pc, ge_stall, ge_ret, ge_frame>>
program == <<phase, lent, recorded, issued>>
vars == <<building, screen, ge, program, drawn, hidden>>

Word(o, a) == [op |-> o, arg |-> a]
Stale == Word("stale", 0)
Hole == Word("bjump", 0)  \* what sceGuBeginObject leaves
NoBuffer == -1            \* NULL: the display is off

current == gu_contexts[gu_curr_context].current
Room(k) == current + k + 1 \in Region(gu_curr_context) \* and the end of the list

(* After sceGuInit; the program has then given the library its two buffers *)
(* (sceGuDrawBuffer, sceGuDispBuffer), which sceGuInit sets both to 0.     *)
Init ==
  /\ mem = [a \in Addr |-> Stale]
  /\ gu_contexts = [c \in Context |-> [current |-> StartOf(c), parent_context |-> "GU_DIRECT"]]
  /\ gu_curr_context = "GU_DIRECT" /\ gu_object_stack = <<>>
  /\ frame_buffer = 0 /\ disp_buffer = 1
  /\ gu_display_on = FALSE /\ set_buffer = NoBuffer
  /\ ge_pc = 0 /\ ge_stall = 0 /\ ge_ret = 0 /\ ge_frame = 0
  /\ phase = "out" /\ lent = FALSE /\ recorded = <<>>
  /\ issued = <<>> /\ drawn = <<>> /\ hidden = {}

-----------------------------------------------------------------------------
(* sendCommandi appends a word; what follows is sent with it. *)
Append1(w, size) ==
  /\ mem' = [mem EXCEPT ![current] = w]
  /\ gu_contexts' = [gu_contexts EXCEPT ![gu_curr_context].current = @ + size]

(* _sceGuUpdateStallAddr, with the object stack as it is after the call. *)
UpdateStallAddrAlways ==
  /\ ge_stall' = IF gu_curr_context = "GU_DIRECT"
                   THEN gu_contexts'["GU_DIRECT"].current ELSE ge_stall
  /\ UNCHANGED <<ge_pc, ge_ret, ge_frame>>

UpdateStallAddr ==
  /\ ge_stall' = IF gu_curr_context = "GU_DIRECT" /\ gu_object_stack' = <<>>
                   THEN gu_contexts'["GU_DIRECT"].current ELSE ge_stall
  /\ UNCHANGED <<ge_pc, ge_ret, ge_frame>>

(* sceGuStart sets the list up, for GU_DIRECT hands it to the GE, stalled  *)
(* at its first word, and sends the address of the frame buffer.  What     *)
(* an earlier frame left in the memory counts as stale.                    *)
Context1(c, size) ==
  /\ gu_contexts' = [gu_contexts EXCEPT ![c] =
       [current |-> StartOf(c) + size, parent_context |-> gu_curr_context]]
  /\ gu_curr_context' = c

StartDirectNoFrame ==
  /\ phase = "out" /\ ge_pc = 0 /\ gu_curr_context = "GU_DIRECT"
  /\ Context1("GU_DIRECT", 0)
  /\ mem' = [a \in Addr |-> IF a \in Region("GU_DIRECT") THEN Stale ELSE mem[a]]
  /\ ge_pc' = DirectStart /\ ge_stall' = DirectStart
  /\ phase' = "in" /\ issued' = <<>> /\ drawn' = <<>> /\ hidden' = {}
  /\ UNCHANGED <<gu_object_stack, screen, ge_ret, ge_frame, lent, recorded>>

StartDirect ==
  /\ phase = "out" /\ ge_pc = 0 /\ gu_curr_context = "GU_DIRECT"
  /\ Context1("GU_DIRECT", 1)
  /\ mem' = [a \in Addr |->
       IF a = DirectStart THEN Word("frame", frame_buffer)
       ELSE IF a \in Region("GU_DIRECT") THEN Stale ELSE mem[a]]
  /\ ge_pc' = DirectStart /\ ge_stall' = DirectStart
  /\ phase' = "in" /\ issued' = <<>> /\ drawn' = <<>> /\ hidden' = {}
  /\ UNCHANGED <<gu_object_stack, screen, ge_ret, ge_frame, lent, recorded>>

(* sceGeListEnQueue fails when the list has already become the current one. *)
StartFails ==
  /\ phase = "out" /\ ge_pc = 0 /\ gu_curr_context = "GU_DIRECT"
  /\ Context1("GU_DIRECT", 0)
  /\ UNCHANGED <<mem, gu_object_stack, screen, ge, program, drawn, hidden>>

StartCall ==
  /\ phase # "done" /\ gu_curr_context = "GU_DIRECT" /\ ~lent
  /\ Context1("GU_CALL", 0)
  /\ mem' = [a \in Addr |-> IF a \in Region("GU_CALL") THEN Stale ELSE mem[a]]
  /\ recorded' = <<>>
  /\ UNCHANGED <<gu_object_stack, screen, ge, phase, lent, issued, drawn, hidden>>

(* sceGuDrawArray, its variants and sceGuSignal. *)
Open == {gu_object_stack[k] : k \in DOMAIN gu_object_stack}
Draw ==
  /\ phase = "in" \/ gu_curr_context = "GU_CALL"
  /\ Room(1)
  /\ Append1(Word("prim", current), 1)
  /\ IF gu_curr_context = "GU_DIRECT"
       THEN issued' = Append(issued, [id |-> current, within |-> Open]) /\ UNCHANGED recorded
       ELSE recorded' = Append(recorded, current) /\ UNCHANGED issued
  /\ UNCHANGED <<gu_curr_context, gu_object_stack>>
  /\ UpdateStallAddr
  /\ UNCHANGED <<screen, phase, lent, drawn, hidden>>

(* sceGuGetMemory: a jump over the memory, here one word; the stall        *)
(* address moves behind it whatever objects are open.                      *)
GetMemory ==
  /\ phase = "in" \/ gu_curr_context = "GU_CALL"
  /\ Room(2)
  /\ gu_curr_context = "GU_DIRECT" /\ gu_object_stack # <<>> => MemoryInObject
  /\ Append1(Word("jump", current + 2), 2)
  /\ ge_stall' = IF gu_curr_context = "GU_DIRECT" THEN current + 2 ELSE ge_stall
  /\ UNCHANGED <<gu_curr_context, gu_object_stack, screen, ge_pc, ge_ret, ge_frame,
                 program, drawn, hidden>>

(* sceGuBeginObject leaves a jump to be patched, and no word of the object *)
(* may run before that.                                                    *)
BeginObject ==
  /\ phase = "in" /\ gu_curr_context = "GU_DIRECT" /\ Room(1)
  /\ Len(gu_object_stack) < MaxObjects
  /\ Append1(Hole, 1)
  /\ gu_object_stack' = Append(gu_object_stack, current)
  /\ UNCHANGED <<gu_curr_context, screen, ge, program, drawn, hidden>>

(* sceGuEndObject patches the jump to lead here. *)
EndObjectOuter ==
  /\ phase = "in" /\ gu_curr_context = "GU_DIRECT" /\ gu_object_stack # <<>>
  /\ mem' = [mem EXCEPT ![Head(gu_object_stack)] = Word("bjump", current)]
  /\ gu_object_stack' = Front(gu_object_stack)
  /\ UNCHANGED <<gu_contexts, gu_curr_context>>
  /\ UpdateStallAddr
  /\ UNCHANGED <<screen, program, drawn, hidden>>

EndObject ==
  /\ phase = "in" /\ gu_curr_context = "GU_DIRECT" /\ gu_object_stack # <<>>
  /\ mem' = [mem EXCEPT ![Last(gu_object_stack)] = Word("bjump", current)]
  /\ gu_object_stack' = Front(gu_object_stack)
  /\ UNCHANGED <<gu_contexts, gu_curr_context>>
  /\ UpdateStallAddr
  /\ UNCHANGED <<screen, program, drawn, hidden>>

(* sceGuCallList *)
CallList ==
  /\ phase = "in" /\ gu_curr_context = "GU_DIRECT" /\ Room(1)
  /\ mem[CallStart] # Stale
  /\ Append1(Word("call", CallStart), 1)
  /\ lent' = TRUE
  /\ issued' = issued \o [k \in DOMAIN recorded |-> [id |-> recorded[k], within |-> Open]]
  /\ UNCHANGED <<gu_curr_context, gu_object_stack>>
  /\ UpdateStallAddr
  /\ UNCHANGED <<screen, phase, recorded, drawn, hidden>>

(* sceGuFinishId ends the list and goes back to the parent's. *)
FinishDirectStalled ==
  /\ phase = "in" /\ gu_curr_context = "GU_DIRECT" /\ gu_object_stack = <<>>
  /\ Append1(Word("finish", 0), 1)
  /\ gu_curr_context' = gu_contexts["GU_DIRECT"].parent_context
  /\ phase' = "done"
  /\ UNCHANGED <<gu_object_stack, ge, screen, lent, recorded, issued, drawn, hidden>>

FinishDirect ==
  /\ phase = "in" /\ gu_curr_context = "GU_DIRECT" /\ gu_object_stack = <<>>
  /\ Append1(Word("finish", 0), 1)
  /\ gu_curr_context' = gu_contexts["GU_DIRECT"].parent_context
  /\ UNCHANGED gu_object_stack
  /\ UpdateStallAddr
  /\ phase' = "done"
  /\ UNCHANGED <<screen, lent, recorded, issued, drawn, hidden>>

FinishCall ==
  /\ gu_curr_context = "GU_CALL"
  /\ Append1(Word("ret", 0), 1)
  /\ gu_curr_context' = gu_contexts["GU_CALL"].parent_context
  /\ UNCHANGED <<gu_object_stack, screen, ge, program, drawn, hidden>>

(* sceGuSync(GU_SYNC_FINISH) returns when the GE has no list left; with    *)
(* GU_SYNC_NOWAIT it only asks.                                            *)
SyncNoWait == phase = "done" /\ UNCHANGED vars
Sync ==
  /\ phase = "done" /\ ge_pc = 0
  /\ phase' = "out" /\ lent' = FALSE
  /\ UNCHANGED <<building, screen, ge, recorded, issued, drawn, hidden>>

SwapBuffers ==
  /\ phase = "out"
  /\ disp_buffer' = frame_buffer /\ frame_buffer' = disp_buffer
  /\ set_buffer' = IF gu_display_on THEN disp_buffer' ELSE set_buffer
  /\ UNCHANGED <<building, gu_display_on, ge, program, drawn, hidden>>

(* sceGuDisplay, at any time *)
Display ==
  /\ gu_display_on' \in BOOLEAN
  /\ set_buffer' = IF gu_display_on' THEN disp_buffer ELSE NoBuffer
  /\ UNCHANGED <<building, frame_buffer, disp_buffer, ge, program, drawn, hidden>>

-----------------------------------------------------------------------------
(* The GE runs the word at ge_pc, unless that is the stall address. *)
GeAt(op) == ge_pc # 0 /\ ge_pc # ge_stall /\ mem[ge_pc].op = op
GeNext(a) == ge_pc' = a /\ UNCHANGED <<building, screen, program, ge_stall>>
arg == mem[ge_pc].arg

GePrim == GeAt("prim") /\ GeNext(ge_pc + 1) /\ drawn' = Append(drawn, arg)
          /\ UNCHANGED <<ge_ret, ge_frame, hidden>>
GeFrame == GeAt("frame") /\ GeNext(ge_pc + 1) /\ ge_frame' = arg
           /\ UNCHANGED <<ge_ret, drawn, hidden>>
GeJump == GeAt("jump") /\ GeNext(arg) /\ UNCHANGED <<ge_ret, ge_frame, drawn, hidden>>
(* An object is in sight, or is skipped. *)
GeVisible == GeAt("bjump") /\ GeNext(ge_pc + 1)
             /\ UNCHANGED <<ge_ret, ge_frame, drawn, hidden>>
GeHidden == GeAt("bjump") /\ GeNext(arg) /\ hidden' = hidden \cup {ge_pc}
            /\ UNCHANGED <<ge_ret, ge_frame, drawn>>
GeCall == GeAt("call") /\ GeNext(arg) /\ ge_ret' = ge_pc + 1
          /\ UNCHANGED <<ge_frame, drawn, hidden>>
GeRet == GeAt("ret") /\ GeNext(ge_ret) /\ ge_ret' = 0
         /\ UNCHANGED <<ge_frame, drawn, hidden>>
GeFinish == GeAt("finish") /\ GeNext(0) /\ UNCHANGED <<ge_ret, ge_frame, drawn, hidden>>

Ge == \/ GePrim \/ GeFrame \/ GeJump \/ GeVisible \/ GeHidden \/ GeCall \/ GeRet
      \/ GeFinish

Next ==
  \/ StartDirect \/ StartFails \/ StartCall \/ Draw \/ GetMemory \/ BeginObject
  \/ EndObject \/ CallList \/ FinishDirect \/ FinishCall \/ Sync \/ SyncNoWait
  \/ SwapBuffers \/ Display \/ Ge

(* The GE runs, and a thread that waits for it returns. *)
Spec == Init /\ [][Next]_vars /\ WF_vars(Ge) /\ WF_vars(Sync)

-----------------------------------------------------------------------------
(* The GE never runs ahead of the program: what it is about to run is a    *)
(* word of this frame, and not a jump that is still to be patched.  (The   *)
(* comment in _sceGuUpdateStallAddr says the stall address moves "Just if  *)
(* there are no objects in the stack (no guBeginObject)", and the one in   *)
(* sceGuBeginObject calls the jump "dummy commands, overwritten in         *)
(* sceGuEndObject()".)                                                     *)
RunsFinishedWords ==
  ge_pc # 0 /\ ge_pc # ge_stall => mem[ge_pc] # Stale /\ mem[ge_pc] # Hole

(* The GE makes the draws of a frame in the order of the calls, through    *)
(* call lists, memory blocks and nested objects, and when it has finished  *)
(* it has made all but those of objects that are out of sight.             *)
Seen(draws, outside, n) ==
  LET seen[k \in 0 .. n] ==
        IF k = 0 THEN <<>>
        ELSE IF draws[k].within \cap outside = {} THEN Append(seen[k - 1], draws[k].id)
        ELSE seen[k - 1]
  IN  seen[n]
Visible == Seen(issued, hidden, Len(issued))
DrawnInOrder ==
  /\ IsPrefix(drawn, Visible)
  /\ ge_pc = 0 => drawn = Visible

(* What is drawn never goes to the buffer the display has been set to:     *)
(* sceGuStart hands the GE the buffer that sceGuSwapBuffers took off the   *)
(* display, and switching the display off and on does not mix them up.     *)
(* The display follows at the next hsync or vsync only; the library does   *)
(* not wait for it, and a frame begun before then is drawn in sight.       *)
DrawsBehindDisplay ==
  [][drawn' # drawn /\ drawn' # <<>> => ge_frame # set_buffer]_vars

(* sceGuSync returns: sceGuFinish lets the GE run to the end of the list.  *)
SyncReturns == phase = "done" ~> phase = "out"
=============================================================================
