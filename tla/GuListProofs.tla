---------------------------- MODULE GuListProofs ----------------------------
(***************************************************************************)
(* Proofs about GuList, for lists of any length and any depth of objects.  *)
(***************************************************************************)
EXTENDS GuList, SequenceTheorems, WellFoundedInduction, TLAPS

cd == gu_contexts["GU_DIRECT"].current
cc == gu_contexts["GU_CALL"].current

Ops == {"stale", "frame", "prim", "jump", "bjump", "call", "ret", "finish"}
TypeOK ==
  /\ mem \in [Addr -> [op : Ops, arg : Nat]]
  /\ gu_contexts \in [Context -> [current : Nat, parent_context : {"GU_DIRECT"}]]
  /\ gu_curr_context \in Context /\ gu_object_stack \in Seq(Nat)
  /\ frame_buffer \in Nat /\ disp_buffer \in Nat
  /\ gu_display_on \in BOOLEAN
  /\ ge_pc \in Nat /\ ge_stall \in Nat /\ ge_ret \in Nat
  /\ phase \in {"out", "in", "done"} /\ lent \in BOOLEAN

(* The word at a may send the GE to s, in the list that a is in. *)
Leads(a, s) ==
  \/ mem[a].op \in {"frame", "prim", "bjump", "call"} /\ s = a + 1
  \/ mem[a].op \in {"jump", "bjump"} /\ mem[a] # Hole /\ s = mem[a].arg

(* Where the program is in its lists. *)
Places ==
  /\ phase = "in" => cd \in 2 .. DirectWords
  /\ phase = "done" => cd \in 2 .. DirectWords + 1
  /\ phase # "out" => ge_stall \in 1 .. cd
  /\ phase # "in" => gu_object_stack = <<>>
  /\ gu_curr_context = "GU_CALL" => cc \in Region("GU_CALL") /\ phase # "done" /\ ~lent

(* The direct list of a frame leads from word to word, up to the one the   *)
(* program writes next, and not past the stall address; the jumps that are *)
(* still to be patched lie behind it, and their addresses on the stack.    *)
DirectList ==
  phase # "out" =>
    /\ \A k \in 1 .. Len(gu_object_stack) :
         /\ gu_object_stack[k] \in ge_stall .. cd - 1
         /\ gu_object_stack[k] \in Region("GU_DIRECT")
         /\ mem[gu_object_stack[k]].op = "bjump"
    /\ \A a \in Region("GU_DIRECT") :
         /\ mem[a].op # "ret"
         /\ mem[a].op = "call" => lent /\ mem[a].arg = CallStart
         /\ mem[a].op = "frame" => mem[a].arg = frame_buffer
         /\ mem[a] = Hole => \E k \in 1 .. Len(gu_object_stack) : gu_object_stack[k] = a
         /\ \A s \in Nat : Leads(a, s) =>
              /\ s \in 1 .. cd
              /\ s # cd => s \in Region("GU_DIRECT") /\ mem[s] # Stale
              /\ a < ge_stall => s <= ge_stall

(* The called list leads from word to word, and once it is finished never  *)
(* out of itself.                                                          *)
CalledList ==
  /\ \A a \in Region("GU_CALL") :
       /\ mem[a].op \in {"stale", "prim", "jump", "ret"}
       /\ \A s \in Nat : Leads(a, s) =>
            /\ s \in Region("GU_CALL")
            /\ mem[s] = Stale => gu_curr_context = "GU_CALL" /\ s = cc
  /\ lent => mem[CallStart] # Stale

(* The GE is in the direct list, up to the stall address, or in the called *)
(* list, from where it returns to the direct one.                          *)
Good(x) == x \in 1 .. ge_stall /\ (x # cd => x \in Region("GU_DIRECT") /\ mem[x] # Stale)
GePlace ==
  /\ ge_pc = 0 => ge_ret = 0
  /\ ge_pc # 0 => phase # "out"
  /\ ge_pc # 0 /\ ge_ret = 0 => Good(ge_pc)
  /\ ge_ret # 0 => /\ ge_pc \in Region("GU_CALL") /\ mem[ge_pc] # Stale /\ lent
                   /\ Good(ge_ret)

(* The buffer the GE draws to is the one the display is not set to. *)
Buffers ==
  /\ frame_buffer # disp_buffer
  /\ set_buffer = IF gu_display_on THEN disp_buffer ELSE NoBuffer
  /\ phase # "out" => mem[DirectStart] = Word("frame", frame_buffer)
  /\ ge_pc # 0 /\ ge_pc # DirectStart => ge_frame = frame_buffer

IInv == TypeOK /\ Places /\ DirectList /\ CalledList /\ GePlace /\ Buffers

-----------------------------------------------------------------------------
(* The two lists lie apart. *)
LEMMA Regions ==
  /\ Region("GU_DIRECT") = 1 .. DirectWords
  /\ Region("GU_CALL") = DirectWords + 1 .. DirectWords + CallWords
  /\ DirectStart = 1 /\ CallStart = DirectWords + 1
  /\ CallStart \in Region("GU_CALL") /\ DirectStart \in Region("GU_DIRECT")
  /\ DirectWords \in Nat /\ DirectWords >= 2 /\ CallWords \in Nat /\ CallWords >= 1
  /\ \A a \in Region("GU_DIRECT") : a \in Addr /\ a \in Nat /\ a \notin Region("GU_CALL")
  /\ \A a \in Region("GU_CALL") : a \in Addr /\ a \in Nat /\ a \notin Region("GU_DIRECT")
BY GuListAssumption DEF Region, DirectStart, CallStart, Addr

LEMMA Words ==
  /\ Stale = [op |-> "stale", arg |-> 0] /\ Hole = [op |-> "bjump", arg |-> 0]
  /\ Stale \in [op : Ops, arg : Nat] /\ Hole \in [op : Ops, arg : Nat] /\ Hole # Stale
  /\ \A o \in Ops, x \in Nat : Word(o, x) \in [op : Ops, arg : Nat]
                               /\ Word(o, x).op = o /\ Word(o, x).arg = x
BY DEF Stale, Hole, Word, Ops

LEMMA InitInv == Init => IInv
<1>. SUFFICES ASSUME Init PROVE IInv
  OBVIOUS
<1>1. TypeOK
  <2>1. mem \in [Addr -> [op : Ops, arg : Nat]]
    BY Words DEF Init
  <2>2. gu_contexts \in [Context -> [current : Nat, parent_context : {"GU_DIRECT"}]]
    BY GuListAssumption DEF Init, StartOf, DirectStart, CallStart
  <2>3. gu_object_stack \in Seq(Nat)
    BY EmptySeq DEF Init
  <2>. QED
    BY <2>1, <2>2, <2>3 DEF Init, TypeOK, Context
<1>2. Places
  BY DEF Init, Places
<1>3. DirectList /\ GePlace /\ Buffers
  BY DEF Init, DirectList, GePlace, Buffers
<1>4. CalledList
  BY Regions, Words DEF Init, CalledList, Leads
<1>. QED
  BY <1>1, <1>2, <1>3, <1>4 DEF IInv

-----------------------------------------------------------------------------
(* The GE.  Wherever it is and not stalled, the word it is at is finished, *)
(* and leads to a place where it may be.                                   *)
LEMMA Reach ==
  ASSUME IInv, ge_pc # 0, ge_pc # ge_stall
  PROVE  /\ ge_pc \in Addr /\ mem[ge_pc] # Stale /\ mem[ge_pc] # Hole
         /\ ge_ret = 0 => /\ ge_pc \in Region("GU_DIRECT")
                          /\ \A s \in Nat : Leads(ge_pc, s) => Good(s)
         /\ ge_ret # 0 => /\ ge_pc \in Region("GU_CALL")
                          /\ \A s \in Nat : Leads(ge_pc, s) =>
                               s \in Region("GU_CALL") /\ mem[s] # Stale
<1>. USE DEF IInv
<1>1. phase # "out" /\ ge_stall \in 1 .. cd /\ cd \in Nat /\ ge_pc \in Nat
      /\ cd <= DirectWords + 1
  BY Regions DEF GePlace, Places, TypeOK
<1>2. CASE ge_ret = 0
  <2>1. ge_pc < ge_stall
    BY <1>1, <1>2 DEF GePlace, Good
  <2>2. ge_pc \in Region("GU_DIRECT") /\ mem[ge_pc] # Stale
    BY <1>1, <1>2, <2>1 DEF GePlace, Good
  <2>3. mem[ge_pc] # Hole
    BY <1>1, <2>1, <2>2 DEF DirectList
  <2>4. ASSUME NEW s \in Nat, Leads(ge_pc, s) PROVE Good(s)
    <3>1. /\ s \in 1 .. cd /\ (s # cd => s \in Region("GU_DIRECT") /\ mem[s] # Stale)
          /\ s <= ge_stall
      BY <1>1, <2>1, <2>2, <2>4 DEF DirectList
    <3>. QED
      BY <1>1, <3>1 DEF Good
  <2>. QED
    BY <1>2, <2>2, <2>3, <2>4, Regions
<1>3. CASE ge_ret # 0
  <2>1. ge_pc \in Region("GU_CALL") /\ mem[ge_pc] # Stale /\ lent
    BY <1>3 DEF GePlace
  <2>2. gu_curr_context # "GU_CALL"
    BY <2>1 DEF Places
  <2>3. mem[ge_pc].op # "bjump"
    BY <2>1 DEF CalledList
  <2>4. mem[ge_pc] # Hole
    BY <2>3, Words
  <2>5. \A s \in Nat : Leads(ge_pc, s) => s \in Region("GU_CALL") /\ mem[s] # Stale
    BY <2>1, <2>2 DEF CalledList
  <2>. QED
    BY <1>3, <2>1, <2>4, <2>5, Regions
<1>. QED
  BY <1>2, <1>3

(* What a step of the GE has to keep. *)
LEMMA GeKeeps ==
  ASSUME IInv, UNCHANGED <<building, screen, program, ge_stall>>,
         ge_pc' \in Nat, ge_ret' \in Nat, GePlace',
         ge_pc' # 0 /\ ge_pc' # DirectStart => ge_frame' = frame_buffer
  PROVE  IInv'
<1>. USE DEF IInv, building, screen, program
<1>1. TypeOK' /\ Places'
  BY DEF TypeOK, Places, cd, cc
<1>2. DirectList' /\ CalledList'
  BY DEF DirectList, CalledList, Leads, cd, cc
<1>3. Buffers'
  BY DEF Buffers
<1>. QED
  BY <1>1, <1>2, <1>3

(* The next word of the list, or the target of a jump. *)
LEMMA GeLed ==
  ASSUME IInv, ge_pc # 0, ge_pc # ge_stall, ge_pc' \in Nat \ {0}, Leads(ge_pc, ge_pc'),
         UNCHANGED <<building, screen, program, ge_stall, ge_ret>>,
         ge_frame' = IF mem[ge_pc].op = "frame" THEN mem[ge_pc].arg ELSE ge_frame
  PROVE  IInv'
<1>1. PICK s \in Nat : s = ge_pc'
  OBVIOUS
<1>2. /\ ge_ret = 0 => ge_pc \in Region("GU_DIRECT") /\ Good(s)
      /\ ge_ret # 0 => ge_pc \in Region("GU_CALL") /\ s \in Region("GU_CALL") /\ mem[s] # Stale
  BY <1>1, Reach
<1>3. GePlace'
  <2>1. phase' # "out"
    BY DEF IInv, GePlace, program
  <2>2. ge_ret = 0 => (Good(s))'
    BY <1>2 DEF Good, cd, building
  <2>3. ge_ret # 0 => lent' /\ (ge_ret' = ge_ret) /\ Good(ge_ret)
    BY DEF IInv, GePlace, program
  <2>4. ge_ret # 0 => Good(ge_ret)'
    BY <2>3 DEF Good, cd, building
  <2>. QED
    BY <1>1, <1>2, <2>1, <2>2, <2>3, <2>4 DEF GePlace, Good, building
<1>4. ge_frame' = frame_buffer
  <2>1. CASE mem[ge_pc].op = "frame"
    BY <1>2, <2>1 DEF IInv, DirectList, CalledList, GePlace
  <2>2. CASE mem[ge_pc].op # "frame"
    <3>1. phase # "out"
      BY DEF IInv, GePlace
    <3>2. mem[DirectStart].op = "frame"
      BY <3>1, Words DEF IInv, Buffers, Word
    <3>. QED
      BY <2>2, <3>2 DEF IInv, Buffers
  <2>. QED
    BY <2>1, <2>2
<1>5. ge_ret' \in Nat
  BY DEF IInv, TypeOK
<1>. QED
  BY <1>3, <1>4, <1>5, GeKeeps

LEMMA GeStep == ASSUME IInv, Ge PROVE IInv'
<1>1. /\ ge_pc # 0 /\ ge_pc # ge_stall /\ ge_pc \in Nat /\ ge_ret \in Nat
      /\ phase # "out"
      /\ UNCHANGED <<building, screen, program, ge_stall>>
  BY DEF Ge, GePrim, GeFrame, GeJump, GeVisible, GeHidden, GeCall, GeRet, GeFinish,
         GeAt, GeNext, IInv, TypeOK, GePlace
<1>2. /\ ge_pc \in Addr /\ mem[ge_pc] # Stale /\ mem[ge_pc] # Hole
      /\ ge_ret = 0 => /\ ge_pc \in Region("GU_DIRECT")
                       /\ \A s \in Nat : Leads(ge_pc, s) => Good(s)
      /\ ge_ret # 0 => /\ ge_pc \in Region("GU_CALL")
                       /\ \A s \in Nat : Leads(ge_pc, s) =>
                            s \in Region("GU_CALL") /\ mem[s] # Stale
  BY <1>1, Reach
<1>3. CASE GePrim \/ GeFrame \/ GeVisible
  <2>1. /\ ge_pc' = ge_pc + 1 /\ ge_ret' = ge_ret
        /\ mem[ge_pc].op \in {"prim", "frame", "bjump"}
        /\ ge_frame' = IF mem[ge_pc].op = "frame" THEN mem[ge_pc].arg ELSE ge_frame
    BY <1>3 DEF GePrim, GeFrame, GeVisible, GeAt, GeNext, arg
  <2>2. Leads(ge_pc, ge_pc') /\ ge_pc' \in Nat \ {0}
    BY <1>1, <2>1 DEF Leads
  <2>. QED
    BY <1>1, <2>1, <2>2, GeLed
<1>4. CASE GeJump \/ GeHidden
  <2>1. /\ ge_pc' = mem[ge_pc].arg /\ ge_ret' = ge_ret /\ ge_frame' = ge_frame
        /\ mem[ge_pc].op \in {"jump", "bjump"}
    BY <1>4 DEF GeJump, GeHidden, GeAt, GeNext, arg
  <2>2. mem[ge_pc].arg \in Nat
    BY <1>2 DEF IInv, TypeOK
  <2>3. Leads(ge_pc, mem[ge_pc].arg)
    BY <1>2, <2>1 DEF Leads
  <2>4. mem[ge_pc].arg # 0
    BY <1>2, <2>2, <2>3, Regions DEF Good
  <2>. QED
    BY <1>1, <2>1, <2>2, <2>3, <2>4, GeLed
<1>5. CASE GeCall
  <2>1. /\ mem[ge_pc].op = "call" /\ ge_pc' = mem[ge_pc].arg /\ ge_ret' = ge_pc + 1
        /\ ge_frame' = ge_frame
    BY <1>5 DEF GeCall, GeAt, GeNext, arg
  <2>2. ge_ret = 0
    BY <1>2, <2>1 DEF IInv, CalledList
  <2>3. Good(ge_pc + 1)
    BY <1>1, <1>2, <2>1, <2>2 DEF Leads
  <2>4. lent /\ ge_pc' = CallStart /\ mem[CallStart] # Stale
    BY <1>1, <1>2, <2>1, <2>2 DEF IInv, DirectList, CalledList
  <2>5. PICK r \in Nat : r = ge_pc + 1
    BY <1>1
  <2>6. (Good(r))'
    BY <1>1, <2>3, <2>5 DEF Good, cd, building
  <2>7. GePlace'
    BY <1>1, <2>1, <2>4, <2>5, <2>6, Regions DEF GePlace, Good, building, program
  <2>8. ge_frame' = frame_buffer
    <3>1. mem[DirectStart].op = "frame"
      BY <1>1, Words DEF IInv, Buffers, Word
    <3>. QED
      BY <1>1, <2>1, <3>1 DEF IInv, Buffers
  <2>9. ge_pc' \in Nat /\ ge_ret' \in Nat
    BY <1>1, <2>1, <2>4, Regions
  <2>. QED
    BY <1>1, <2>7, <2>8, <2>9, GeKeeps
<1>6. CASE GeRet
  <2>1. mem[ge_pc].op = "ret" /\ ge_pc' = ge_ret /\ ge_ret' = 0 /\ ge_frame' = ge_frame
    BY <1>6 DEF GeRet, GeAt, GeNext
  <2>2. ge_ret # 0 /\ Good(ge_ret)
    BY <1>1, <1>2, <2>1 DEF IInv, DirectList, GePlace
  <2>3. PICK r \in Nat : r = ge_ret
    BY <1>1
  <2>4. (Good(r))'
    BY <1>1, <2>2, <2>3 DEF Good, cd, building
  <2>5. GePlace'
    BY <1>1, <2>1, <2>3, <2>4 DEF GePlace, Good, program
  <2>6. ge_frame' = frame_buffer
    <3>1. mem[DirectStart].op = "frame"
      BY <1>1, Words DEF IInv, Buffers, Word
    <3>. QED
      BY <1>1, <2>1, <3>1 DEF IInv, Buffers
  <2>. QED
    BY <1>1, <2>1, <2>5, <2>6, GeKeeps
<1>7. CASE GeFinish
  <2>1. mem[ge_pc].op = "finish" /\ ge_pc' = 0 /\ ge_ret' = ge_ret
    BY <1>7 DEF GeFinish, GeAt, GeNext
  <2>2. ge_ret = 0
    BY <1>2, <2>1 DEF IInv, CalledList
  <2>3. GePlace'
    BY <2>1, <2>2 DEF GePlace
  <2>. QED
    BY <1>1, <2>1, <2>3, GeKeeps
<1>. QED
  BY <1>3, <1>4, <1>5, <1>6, <1>7 DEF Ge

-----------------------------------------------------------------------------
(* The list that is built grows. *)
LEMMA ListGrows ==
  ASSUME TypeOK, NEW c \in Context, gu_curr_context = c, NEW w, NEW size \in {1, 2},
         Append1(w, size)
  PROVE  /\ gu_contexts' \in [Context -> [current : Nat, parent_context : {"GU_DIRECT"}]]
         /\ gu_contexts'[c].current = gu_contexts[c].current + size
         /\ \A d \in Context : d # c => gu_contexts'[d] = gu_contexts[d]
<1>1. /\ gu_contexts \in [Context -> [current : Nat, parent_context : {"GU_DIRECT"}]]
      /\ gu_contexts' = [gu_contexts EXCEPT ![c].current = @ + size]
  BY DEF TypeOK, Append1
<1>2. /\ gu_contexts[c] \in [current : Nat, parent_context : {"GU_DIRECT"}]
      /\ gu_contexts[c].current + size \in Nat
  BY <1>1
<1>3. gu_contexts' = [gu_contexts EXCEPT ![c] =
                       [gu_contexts[c] EXCEPT !.current = gu_contexts[c].current + size]]
  BY <1>1
<1>. QED
  BY <1>1, <1>2, <1>3

(* The program.  A word w goes to the end of the direct list; what it      *)
(* leads to is the new end.  The stall address stays, or moves to the new  *)
(* end if no object is open.                                               *)
LEMMA AppendDirect ==
  ASSUME IInv, phase = "in", gu_curr_context = "GU_DIRECT",
         NEW w \in [op : {"prim", "jump", "bjump", "call", "finish"}, arg : Nat],
         NEW size \in {1, 2}, Append1(w, size),
         w.op \in {"prim", "bjump", "call"} => size = 1,
         w.op = "jump" => w.arg = cd + size,
         w.op = "bjump" => w = Hole,
         w.op = "call" => w.arg = CallStart /\ lent' /\ mem[CallStart] # Stale,
         lent' = (lent \/ w.op = "call"),
         gu_object_stack' = IF w = Hole THEN Append(gu_object_stack, cd) ELSE gu_object_stack,
         phase' \in {"in", "done"}, cd + size <= DirectWords + 1,
         phase' = "in" => cd + size <= DirectWords,
         phase' = "done" => gu_object_stack' = <<>>,
         \/ ge_stall' = ge_stall
         \/ ge_stall' = cd + size /\ gu_object_stack' = <<>>,
         UNCHANGED <<gu_curr_context, screen, ge_pc, ge_ret, ge_frame>>
  PROVE  IInv'
<1>. USE DEF IInv
<1>1. PICK e \in Nat : e = cd
  BY DEF TypeOK, cd, Context
<1>2. e \in 2 .. DirectWords /\ e \in Region("GU_DIRECT") /\ e \in Addr /\ ge_stall \in 1 .. e
      /\ phase # "out"
  BY <1>1, Regions DEF Places
<1>3. /\ cd' = e + size /\ cc' = cc /\ cd' \in Nat
      /\ gu_contexts' \in [Context -> [current : Nat, parent_context : {"GU_DIRECT"}]]
  BY <1>1, ListGrows DEF TypeOK, Context, cd, cc
<1>4. /\ mem' \in [Addr -> [op : Ops, arg : Nat]] /\ mem'[e] = w
      /\ \A a \in Addr : a # e => mem'[a] = mem[a]
  BY <1>1, <1>2 DEF Append1, TypeOK, cd, Ops, current
<1>5. w # Stale
  BY Words
<1>6. /\ gu_object_stack' \in Seq(Nat) /\ Len(gu_object_stack) \in Nat
      /\ w = Hole => /\ Len(gu_object_stack') = Len(gu_object_stack) + 1
                     /\ gu_object_stack'[Len(gu_object_stack) + 1] = e
                     /\ \A k \in 1 .. Len(gu_object_stack) :
                          gu_object_stack'[k] = gu_object_stack[k]
      /\ w # Hole => gu_object_stack' = gu_object_stack
  BY <1>1, AppendProperties, LenProperties DEF TypeOK
<1>7. ge_stall' \in Nat /\ ge_stall' >= ge_stall /\ ge_stall' <= e + size
  BY <1>1, <1>2
<1>8. TypeOK'
  BY <1>3, <1>4, <1>6, <1>7 DEF TypeOK, screen
<1>9. Places'
  <2>1. cd' \in 2 .. DirectWords + 1 /\ (phase' = "in" => cd' \in 2 .. DirectWords)
    BY <1>1, <1>2, <1>3, Regions
  <2>2. ge_stall' \in 1 .. cd'
    BY <1>2, <1>3, <1>7
  <2>. QED
    BY <2>1, <2>2 DEF Places
<1>10. DirectList'
  <2>1. ASSUME NEW k \in 1 .. Len(gu_object_stack')
        PROVE  /\ gu_object_stack'[k] \in ge_stall' .. cd' - 1
               /\ gu_object_stack'[k] \in Region("GU_DIRECT")
               /\ mem'[gu_object_stack'[k]].op = "bjump"
    <3>1. ge_stall' = ge_stall
      BY <1>6, <2>1
    <3>2. CASE k \in 1 .. Len(gu_object_stack)
      <4>1. gu_object_stack'[k] = gu_object_stack[k]
        BY <1>6, <3>2
      <4>2. /\ gu_object_stack[k] \in ge_stall .. e - 1
            /\ gu_object_stack[k] \in Region("GU_DIRECT")
            /\ mem[gu_object_stack[k]].op = "bjump"
        BY <1>1, <1>2, <3>2 DEF DirectList
      <4>3. gu_object_stack[k] # e /\ gu_object_stack[k] \in Addr
        BY <1>2, <4>2, Regions
      <4>4. mem'[gu_object_stack[k]].op = "bjump"
        BY <1>2, <1>3, <1>4, <4>2, <4>3
      <4>5. gu_object_stack[k] \in ge_stall .. cd' - 1
        <5>1. cd' = e + size
          BY <1>3
        <5>2. ge_stall \in 1 .. e
          BY <1>2
        <5>3. ge_stall .. e - 1 \subseteq ge_stall .. e + size - 1
          BY ONLY <5>2, e \in Nat, size \in {1, 2}
        <5>. QED
          BY ONLY <4>2, <5>1, <5>3
      <4>. QED
        BY <3>1, <4>1, <4>2, <4>4, <4>5
    <3>3. CASE k \notin 1 .. Len(gu_object_stack)
      <4>1. w = Hole /\ gu_object_stack'[k] = e
        BY <1>6, <2>1, <3>3
      <4>. QED
        BY <1>2, <1>3, <1>4, <3>1, <4>1, Words
    <3>. QED
      BY <3>2, <3>3
  <2>2. ASSUME NEW a \in Region("GU_DIRECT")
        PROVE  /\ mem'[a].op # "ret"
               /\ mem'[a].op = "call" => lent' /\ mem'[a].arg = CallStart
               /\ mem'[a].op = "frame" => mem'[a].arg = frame_buffer'
               /\ mem'[a] = Hole =>
                    \E k \in 1 .. Len(gu_object_stack') : gu_object_stack'[k] = a
    <3>1. CASE a = e
      <4>1. w = Hole => \E k \in 1 .. Len(gu_object_stack') : gu_object_stack'[k] = e
        BY <1>6
      <4>. QED
        BY <1>4, <3>1, <4>1
    <3>2. CASE a # e
      <4>1. mem'[a] = mem[a]
        BY <1>4, <3>2, Regions
      <4>2. /\ mem[a].op # "ret"
            /\ mem[a].op = "call" => lent /\ mem[a].arg = CallStart
            /\ mem[a].op = "frame" => mem[a].arg = frame_buffer
            /\ mem[a] = Hole => \E k \in 1 .. Len(gu_object_stack) : gu_object_stack[k] = a
        BY <1>2 DEF DirectList
      <4>3. mem[a] = Hole => \E k \in 1 .. Len(gu_object_stack') : gu_object_stack'[k] = a
        BY <1>6, <4>2
      <4>. QED
        BY <4>1, <4>2, <4>3 DEF screen
    <3>. QED
      BY <3>1, <3>2
  <2>3. ASSUME NEW a \in Region("GU_DIRECT"), NEW s \in Nat, Leads(a, s)'
        PROVE  /\ s \in 1 .. cd'
               /\ s # cd' => s \in Region("GU_DIRECT") /\ mem'[s] # Stale
               /\ a < ge_stall' => s <= ge_stall'
    <3>1. CASE a = e
      <4>1. s = e + size
        BY <1>1, <1>4, <2>3, <3>1, Words DEF Leads
      <4>2. a < ge_stall' => ge_stall' = e + size
        BY <1>1, <1>2, <3>1
      <4>. QED
        BY <1>2, <1>3, <4>1, <4>2
    <3>2. CASE a # e
      <4>1. Leads(a, s)
        BY <1>4, <2>3, <3>2, Regions DEF Leads
      <4>2. /\ s \in 1 .. e /\ (s # e => s \in Region("GU_DIRECT") /\ mem[s] # Stale)
            /\ a < ge_stall => s <= ge_stall
        BY <1>1, <1>2, <4>1 DEF DirectList
      <4>3. s \in 1 .. cd' /\ s # cd'
        BY <1>2, <1>3, <4>2
      <4>4. s \in Region("GU_DIRECT") /\ mem'[s] # Stale
        BY <1>2, <1>4, <1>5, <4>2, Regions
      <4>5. a < ge_stall' => s <= ge_stall'
        BY <1>1, <1>2, <1>3, <4>2
      <4>. QED
        BY <4>3, <4>4, <4>5
    <3>. QED
      BY <3>1, <3>2
  <2>. QED
    BY <2>1, <2>2, <2>3 DEF DirectList
<1>11. CalledList'
  <2>1. \A a \in Region("GU_CALL") : mem'[a] = mem[a] /\ \A s : Leads(a, s)' <=> Leads(a, s)
    BY <1>2, <1>4, Regions DEF Leads
  <2>2. lent' => mem'[CallStart] # Stale
    BY <2>1, Regions DEF CalledList
  <2>. QED
    BY <1>3, <2>1, <2>2 DEF CalledList
<1>12. ASSUME NEW x \in Nat, Good(x) PROVE Good(x)'
  <2>1. x \in 1 .. ge_stall' /\ x <= e
    BY <1>2, <1>7, <1>12 DEF Good
  <2>2. x \in Region("GU_DIRECT") /\ mem'[x] # Stale
    BY <1>1, <1>2, <1>4, <1>5, <1>12, Regions DEF Good
  <2>. QED
    BY <2>1, <2>2 DEF Good
<1>13. GePlace'
  <2>1. PICK x \in Nat, y \in Nat : x = ge_pc /\ y = ge_ret
    BY DEF TypeOK
  <2>2. y # 0 => mem'[x] # Stale
    BY <1>2, <1>4, <2>1, Regions DEF GePlace
  <2>3. (Good(x) => Good(x)') /\ (Good(y) => Good(y)')
    BY <1>12
  <2>. QED
    BY <2>1, <2>2, <2>3 DEF GePlace, Good
<1>14. Buffers'
  <2>1. mem'[DirectStart] = mem[DirectStart]
    BY <1>2, <1>4, Regions
  <2>. QED
    BY <1>2, <2>1 DEF Buffers, screen
<1>. QED
  BY <1>8, <1>9, <1>10, <1>11, <1>13, <1>14

(* A word goes to the end of the called list, which the GE does not read   *)
(* while it is built.                                                      *)
LEMMA AppendCall ==
  ASSUME IInv, gu_curr_context = "GU_CALL",
         NEW w \in [op : {"prim", "jump", "ret"}, arg : Nat],
         NEW size \in {1, 2}, Append1(w, size),
         w.op = "prim" => size = 1,
         w.op = "jump" => w.arg = cc + size,
         w.op # "ret" => cc + size \in Region("GU_CALL"),
         gu_curr_context' = IF w.op = "ret" THEN "GU_DIRECT" ELSE "GU_CALL",
         UNCHANGED <<gu_object_stack, screen, ge, phase, lent>>
  PROVE  IInv'
<1>. USE DEF IInv
<1>1. PICK e \in Nat : e = cc
  BY DEF TypeOK, cc, Context
<1>2. e \in Region("GU_CALL") /\ e \in Addr /\ phase # "done" /\ ~lent
  BY <1>1, Regions DEF Places
<1>3. /\ cc' = e + size /\ cd' = cd
      /\ gu_contexts' \in [Context -> [current : Nat, parent_context : {"GU_DIRECT"}]]
  BY <1>1, ListGrows DEF TypeOK, Context, cd, cc
<1>4. /\ mem' \in [Addr -> [op : Ops, arg : Nat]] /\ mem'[e] = w
      /\ \A a \in Addr : a # e => mem'[a] = mem[a]
  BY <1>1, <1>2 DEF Append1, TypeOK, cc, Ops, current
<1>5. w # Stale /\ w.op # "stale"
  BY Words
<1>6. TypeOK'
  BY <1>3, <1>4 DEF TypeOK, screen, ge, Context
<1>7. Places'
  BY <1>1, <1>2, <1>3 DEF Places, ge
<1>8. \A a \in Region("GU_DIRECT") : mem'[a] = mem[a] /\ \A s : Leads(a, s)' <=> Leads(a, s)
  BY <1>2, <1>4, Regions DEF Leads
<1>9. DirectList'
  BY <1>3, <1>8 DEF DirectList, ge, screen
<1>10. CalledList'
  <2>1. ASSUME NEW a \in Region("GU_CALL")
        PROVE  mem'[a].op \in {"stale", "prim", "jump", "ret"}
    BY <1>4, Regions DEF CalledList
  <2>2. ASSUME NEW a \in Region("GU_CALL"), NEW s \in Nat, Leads(a, s)'
        PROVE  /\ s \in Region("GU_CALL")
               /\ mem'[s] = Stale => gu_curr_context' = "GU_CALL" /\ s = cc'
    <3>1. CASE a = e
      <4>1. w.op # "ret" /\ s = e + size
        BY <1>1, <1>4, <2>2, <3>1 DEF Leads
      <4>. QED
        BY <1>1, <1>3, <4>1
    <3>2. CASE a # e
      <4>1. Leads(a, s)
        BY <1>4, <2>2, <3>2, Regions DEF Leads
      <4>2. s \in Region("GU_CALL") /\ (mem[s] = Stale => s = e)
        BY <1>1, <4>1 DEF CalledList
      <4>. QED
        BY <1>4, <1>5, <4>2, Regions
    <3>. QED
      BY <3>1, <3>2
  <2>. QED
    BY <1>2, <2>1, <2>2 DEF CalledList
<1>11. GePlace'
  <2>1. ge_ret = 0
    BY <1>2 DEF GePlace
  <2>. QED
    BY <1>3, <1>8, <2>1 DEF GePlace, Good, ge
<1>12. Buffers'
  BY <1>8, Regions DEF Buffers, screen, ge
<1>. QED
  BY <1>6, <1>7, <1>9, <1>10, <1>11, <1>12

-----------------------------------------------------------------------------
(* The calls that append. *)
LEMMA DrawStep == ASSUME IInv, Draw PROVE IInv'
<1>. USE DEF IInv
<1>1. CASE gu_curr_context = "GU_DIRECT"
  <2>1. PICK w \in [op : {"prim"}, arg : Nat] : w = Word("prim", current)
    BY <1>1 DEF Word, current, TypeOK, Context
  <2>2. current = cd /\ phase = "in" /\ Append1(w, 1) /\ cd + 1 <= DirectWords /\ w # Hole
    <3>1. current = cd /\ cd \in Nat
      BY <1>1 DEF current, cd, TypeOK, Context
    <3>2. cd + 1 <= DirectWords
      BY <1>1, <3>1, Regions DEF Draw, Room
    <3>3. phase = "in" /\ Append1(w, 1)
      BY <1>1, <2>1 DEF Draw
    <3>4. w # Hole
      BY <2>1, Words
    <3>. QED
      BY <3>1, <3>2, <3>3, <3>4
  <2>3. /\ gu_object_stack' = gu_object_stack /\ phase' = "in" /\ lent' = lent
        /\ UNCHANGED <<gu_curr_context, screen, ge_pc, ge_ret, ge_frame>>
    BY <2>2 DEF Draw, UpdateStallAddr
  <2>4. \/ ge_stall' = ge_stall
        \/ ge_stall' = cd + 1 /\ gu_object_stack' = <<>>
    BY <1>1, <2>2, ListGrows DEF Draw, UpdateStallAddr, cd, Context
  <2>5. lent \in BOOLEAN /\ cd \in Nat
    BY DEF TypeOK, cd, Context
  <2>. QED
    BY <1>1, <2>1, <2>2, <2>3, <2>4, <2>5, AppendDirect, Regions
<1>2. CASE gu_curr_context = "GU_CALL"
  <2>1. PICK w \in [op : {"prim"}, arg : Nat] : w = Word("prim", current)
    BY <1>2 DEF Word, current, TypeOK, Context
  <2>2. /\ Append1(w, 1) /\ cc + 1 \in Region("GU_CALL")
        /\ UNCHANGED <<gu_curr_context, gu_object_stack, screen, ge, phase, lent>>
    <3>1. Append1(w, 1)
      BY <2>1 DEF Draw
    <3>2. cc + 1 + 1 \in Region("GU_CALL") /\ cc \in Region("GU_CALL")
      BY <1>2 DEF Draw, Room, current, cc, Places
    <3>3. cc + 1 \in Region("GU_CALL")
      BY <3>2, Regions
    <3>4. UNCHANGED <<gu_curr_context, gu_object_stack, screen, ge, phase, lent>>
      BY <1>2 DEF Draw, UpdateStallAddr, ge
    <3>. QED
      BY <3>1, <3>3, <3>4
  <2>. QED
    BY <1>2, <2>1, <2>2, AppendCall
<1>. QED
  BY <1>1, <1>2 DEF TypeOK, Context

LEMMA GetMemoryStep == ASSUME IInv, ~MemoryInObject, GetMemory PROVE IInv'
<1>. USE DEF IInv
<1>1. CASE gu_curr_context = "GU_DIRECT"
  <2>1. PICK w \in [op : {"jump"}, arg : Nat] : w = Word("jump", current + 2)
    <3>1. current \in Nat
      BY <1>1 DEF current, TypeOK, Context
    <3>2. Word("jump", current + 2) \in [op : {"jump"}, arg : Nat]
      BY <3>1 DEF Word
    <3>. QED
      BY <3>2, Zenon
  <2>2. /\ current = cd /\ phase = "in" /\ Append1(w, 2) /\ cd + 2 <= DirectWords /\ w # Hole
        /\ w.arg = cd + 2
    BY <1>1, <2>1, Regions, Words DEF GetMemory, Room, current, cd, TypeOK, Context, Word
  <2>3. /\ gu_object_stack' = gu_object_stack /\ phase' = "in" /\ lent' = lent
        /\ gu_object_stack = <<>> /\ ge_stall' = cd + 2
        /\ UNCHANGED <<gu_curr_context, screen, ge_pc, ge_ret, ge_frame>>
    BY <1>1, <2>2 DEF GetMemory, program
  <2>4. lent \in BOOLEAN /\ cd \in Nat
    BY DEF TypeOK, cd, Context
  <2>. QED
    BY <1>1, <2>1, <2>2, <2>3, <2>4, AppendDirect, Regions
<1>2. CASE gu_curr_context = "GU_CALL"
  <2>1. PICK w \in [op : {"jump"}, arg : Nat] : w = Word("jump", current + 2)
    <3>1. current \in Nat
      BY <1>2 DEF current, TypeOK, Context
    <3>2. Word("jump", current + 2) \in [op : {"jump"}, arg : Nat]
      BY <3>1 DEF Word
    <3>. QED
      BY <3>2, Zenon
  <2>2. /\ Append1(w, 2) /\ cc + 2 \in Region("GU_CALL") /\ w.arg = cc + 2
        /\ UNCHANGED <<gu_curr_context, gu_object_stack, screen, ge, phase, lent>>
    BY <1>2, <2>1, Regions
       DEF GetMemory, Room, current, cc, TypeOK, Context, ge, program, Word, Places
  <2>. QED
    BY <1>2, <2>1, <2>2, AppendCall
<1>. QED
  BY <1>1, <1>2 DEF TypeOK, Context

LEMMA BeginObjectStep == ASSUME IInv, BeginObject PROVE IInv'
<1>. USE DEF IInv
<1>1. PICK w \in [op : {"bjump"}, arg : Nat] : w = Hole
  BY Words
<1>2. /\ gu_curr_context = "GU_DIRECT" /\ phase = "in" /\ Append1(w, 1)
      /\ current = cd /\ cd + 1 <= DirectWords
  BY <1>1, Regions DEF BeginObject, Room, current, cd, TypeOK, Context
<1>3. /\ gu_object_stack' = Append(gu_object_stack, cd) /\ phase' = "in" /\ lent' = lent
      /\ ge_stall' = ge_stall
      /\ UNCHANGED <<gu_curr_context, screen, ge_pc, ge_ret, ge_frame>>
  BY <1>2 DEF BeginObject, ge, program
<1>4. lent \in BOOLEAN /\ cd \in Nat
  BY DEF TypeOK, cd, Context
<1>. QED
  BY <1>1, <1>2, <1>3, <1>4, AppendDirect, Regions

LEMMA CallListStep == ASSUME IInv, CallList PROVE IInv'
<1>. USE DEF IInv
<1>1. PICK w \in [op : {"call"}, arg : Nat] : w = Word("call", CallStart)
  BY Regions DEF Word
<1>2. /\ gu_curr_context = "GU_DIRECT" /\ phase = "in" /\ Append1(w, 1) /\ w # Hole
      /\ current = cd /\ cd + 1 <= DirectWords /\ w.arg = CallStart /\ mem[CallStart] # Stale
  BY <1>1, Regions, Words DEF CallList, Room, current, cd, TypeOK, Context, Word
<1>3. /\ gu_object_stack' = gu_object_stack /\ phase' = "in" /\ lent' = TRUE
      /\ UNCHANGED <<gu_curr_context, screen, ge_pc, ge_ret, ge_frame>>
  BY <1>2 DEF CallList, UpdateStallAddr
<1>4. \/ ge_stall' = ge_stall
      \/ ge_stall' = cd + 1 /\ gu_object_stack' = <<>>
  BY <1>2, ListGrows DEF CallList, UpdateStallAddr, cd, Context
<1>5. lent' = (lent \/ w.op = "call") /\ cd \in Nat
  BY <1>1, <1>3 DEF TypeOK, cd, Context
<1>. QED
  BY <1>1, <1>2, <1>3, <1>4, <1>5, AppendDirect, Regions

LEMMA FinishDirectStep == ASSUME IInv, FinishDirect PROVE IInv'
<1>. USE DEF IInv
<1>1. PICK w \in [op : {"finish"}, arg : Nat] : w = Word("finish", 0)
  BY DEF Word
<1>2. /\ gu_curr_context = "GU_DIRECT" /\ phase = "in" /\ Append1(w, 1) /\ w # Hole
      /\ cd + 1 <= DirectWords + 1 /\ gu_curr_context' = "GU_DIRECT"
  <2>1. gu_curr_context = "GU_DIRECT" /\ phase = "in" /\ Append1(w, 1)
    BY <1>1 DEF FinishDirect
  <2>2. w # Hole
    BY <1>1, Words
  <2>3. cd + 1 <= DirectWords + 1
    BY <2>1, Regions DEF Places
  <2>4. gu_curr_context' = "GU_DIRECT"
    BY DEF FinishDirect, TypeOK, Context
  <2>. QED
    BY <2>1, <2>2, <2>3, <2>4
<1>3. /\ gu_object_stack' = gu_object_stack /\ gu_object_stack = <<>> /\ phase' = "done"
      /\ lent' = lent /\ UNCHANGED <<screen, ge_pc, ge_ret, ge_frame>>
  BY <1>2 DEF FinishDirect, UpdateStallAddr
<1>4. ge_stall' = cd + 1
  BY <1>2, <1>3, ListGrows DEF FinishDirect, UpdateStallAddr, cd, Context
<1>5. lent \in BOOLEAN /\ cd \in Nat
  BY DEF TypeOK, cd, Context
<1>. QED
  BY <1>1, <1>2, <1>3, <1>4, <1>5, AppendDirect, Regions

LEMMA FinishCallStep == ASSUME IInv, FinishCall PROVE IInv'
<1>. USE DEF IInv
<1>1. PICK w \in [op : {"ret"}, arg : Nat] : w = Word("ret", 0)
  BY DEF Word
<1>2. /\ gu_curr_context = "GU_CALL" /\ Append1(w, 1) /\ gu_curr_context' = "GU_DIRECT"
      /\ UNCHANGED <<gu_object_stack, screen, ge, phase, lent>>
  BY <1>1 DEF FinishCall, TypeOK, Context, program
<1>. QED
  BY <1>1, <1>2, AppendCall

-----------------------------------------------------------------------------
(* sceGuEndObject takes the last address h off the stack and fills the     *)
(* hole there with a jump to e, where the program writes next.             *)
Patches(last, h, e) ==
  /\ phase = "in" /\ gu_curr_context = "GU_DIRECT" /\ e = cd /\ cd' = e /\ cc' = cc
  /\ last = Len(gu_object_stack) /\ last >= 1 /\ h = gu_object_stack[last]
  /\ e \in 2 .. DirectWords /\ h \in ge_stall .. e - 1 /\ h \in Region("GU_DIRECT")
  /\ h \in Addr /\ mem[h].op = "bjump" /\ ge_stall \in 1 .. e
  /\ gu_object_stack' \in Seq(Nat) /\ Len(gu_object_stack') = last - 1
  /\ \A k \in 1 .. last - 1 : gu_object_stack'[k] = gu_object_stack[k]
  /\ mem' \in [Addr -> [op : Ops, arg : Nat]]
  /\ mem'[h].op = "bjump" /\ mem'[h].arg = e /\ mem'[h] # Hole /\ mem'[h] # Stale
  /\ \A a \in Addr : a # h => mem'[a] = mem[a]
  /\ ge_stall' = IF gu_object_stack' = <<>> THEN e ELSE ge_stall
  /\ UNCHANGED <<gu_contexts, gu_curr_context, screen, program, ge_pc, ge_ret, ge_frame>>

LEMMA Patched ==
  ASSUME IInv, EndObject
  PROVE  \E last \in Nat, h \in Nat, e \in Nat : Patches(last, h, e)
<1>. USE DEF IInv
<1>. DEFINE last == Len(gu_object_stack)
<1>1. /\ phase = "in" /\ phase # "out" /\ gu_curr_context = "GU_DIRECT"
      /\ gu_object_stack # <<>> /\ gu_object_stack \in Seq(Nat) /\ last \in Nat /\ last >= 1
  BY EmptySeq, LenProperties DEF EndObject, TypeOK
<1>2. PICK h \in Nat, e \in Nat : h = gu_object_stack[last] /\ e = cd
  BY <1>1 DEF TypeOK, cd, Context
<1>3. /\ e \in 2 .. DirectWords /\ h \in ge_stall .. e - 1 /\ h \in Region("GU_DIRECT")
      /\ h \in Addr /\ mem[h].op = "bjump" /\ ge_stall \in 1 .. e
  BY <1>1, <1>2, Regions DEF DirectList, Places
<1>4. /\ mem' = [mem EXCEPT ![h] = Word("bjump", e)]
      /\ gu_object_stack' = SubSeq(gu_object_stack, 1, last - 1)
      /\ UNCHANGED <<gu_contexts, gu_curr_context, screen, program, ge_pc, ge_ret, ge_frame>>
      /\ ge_stall' = IF gu_object_stack' = <<>> THEN e ELSE ge_stall
  BY <1>1, <1>2 DEF EndObject, Front, Last, current, cd, UpdateStallAddr
<1>5. /\ gu_object_stack' \in Seq(Nat) /\ Len(gu_object_stack') = last - 1
      /\ \A k \in 1 .. last - 1 : gu_object_stack'[k] = gu_object_stack[k]
  <2>1. last - 1 \in Int /\ \A k \in 1 .. last - 1 : gu_object_stack[k] \in Nat
    BY <1>1
  <2>. DEFINE sub == SubSeq(gu_object_stack, 1, last - 1)
  <2>2. /\ sub \in Seq(Nat) /\ Len(sub) = IF 1 <= last - 1 THEN last - 1 - 1 + 1 ELSE 0
        /\ \A k \in 1 .. last - 1 - 1 + 1 : sub[k] = gu_object_stack[1 + k - 1]
    BY ONLY <2>1, SubSeqProperties
  <2>. HIDE DEF sub
  <2>3. \A k \in 1 .. last - 1 : sub[k] = gu_object_stack[k]
    <3>. TAKE k \in 1 .. last - 1
    <3>1. k \in 1 .. last - 1 - 1 + 1 /\ 1 + k - 1 = k
      BY <1>1
    <3>. QED
      BY <2>2, <3>1
  <2>4. gu_object_stack' = sub
    BY <1>4 DEF sub
  <2>5. Len(sub) = last - 1
    <3>. HIDE DEF last
    <3>1. last \in Nat /\ last >= 1
      BY <1>1
    <3>2. Len(sub) = IF 1 <= last - 1 THEN last - 1 - 1 + 1 ELSE 0
      BY <2>2
    <3>. QED
      BY ONLY <3>1, <3>2
  <2>. QED
    BY <2>2, <2>3, <2>4, <2>5
<1>6. /\ mem' \in [Addr -> [op : Ops, arg : Nat]]
      /\ mem'[h].op = "bjump" /\ mem'[h].arg = e /\ mem'[h] # Hole /\ mem'[h] # Stale
      /\ \A a \in Addr : a # h => mem'[a] = mem[a]
  <2>1. Word("bjump", e) \in [op : Ops, arg : Nat] /\ Word("bjump", e).op = "bjump"
        /\ Word("bjump", e).arg = e
    BY Words DEF Ops
  <2>. QED
    BY <1>3, <1>4, <2>1, Words DEF TypeOK
<1>7. cd' = e /\ cc' = cc
  BY <1>2, <1>4 DEF cd, cc
<1>8. Patches(last, h, e)
  BY <1>1, <1>2, <1>3, <1>4, <1>5, <1>6, <1>7 DEF Patches
<1>. HIDE DEF last
<1>. QED
  BY <1>1, <1>8

(* sceGuEndObject fills the last hole; when that was the only one, the GE  *)
(* may run up to the end of the list.                                      *)
LEMMA EndObjectStep == ASSUME IInv, EndObject PROVE IInv'
<1>. USE DEF IInv
<1>1. PICK last \in Nat, h \in Nat, e \in Nat : Patches(last, h, e)
  BY Patched
<1>2. /\ phase = "in" /\ phase # "out" /\ gu_curr_context = "GU_DIRECT"
      /\ e = cd /\ cd' = e /\ cc' = cc
      /\ last = Len(gu_object_stack) /\ last >= 1 /\ h = gu_object_stack[last]
      /\ e \in 2 .. DirectWords /\ h \in ge_stall .. e - 1 /\ h \in Region("GU_DIRECT")
      /\ h \in Addr /\ mem[h].op = "bjump" /\ ge_stall \in 1 .. e
      /\ gu_object_stack' \in Seq(Nat) /\ Len(gu_object_stack') = last - 1
      /\ \A k \in 1 .. last - 1 : gu_object_stack'[k] = gu_object_stack[k]
      /\ mem' \in [Addr -> [op : Ops, arg : Nat]]
      /\ mem'[h].op = "bjump" /\ mem'[h].arg = e /\ mem'[h] # Hole /\ mem'[h] # Stale
      /\ \A a \in Addr : a # h => mem'[a] = mem[a]
      /\ ge_stall' = IF gu_object_stack' = <<>> THEN e ELSE ge_stall
      /\ UNCHANGED <<gu_contexts, gu_curr_context, screen, program, ge_pc, ge_ret, ge_frame>>
  BY <1>1 DEF Patches
<1>3. ge_stall' \in Nat /\ ge_stall' \in ge_stall .. e
  BY <1>2
<1>4. TypeOK'
  BY <1>2, <1>3 DEF TypeOK, screen, program
<1>5. Places'
  BY <1>2, <1>3 DEF Places, program
<1>6. DirectList'
  <2>1. ASSUME NEW k \in 1 .. Len(gu_object_stack')
        PROVE  /\ gu_object_stack'[k] \in ge_stall' .. cd' - 1
               /\ gu_object_stack'[k] \in Region("GU_DIRECT")
               /\ mem'[gu_object_stack'[k]].op = "bjump"
    <3>1. gu_object_stack' # <<>> /\ k \in 1 .. last
          /\ gu_object_stack'[k] = gu_object_stack[k]
      BY <1>2, <2>1, EmptySeq
    <3>2. /\ gu_object_stack[k] \in ge_stall .. e - 1
          /\ gu_object_stack[k] \in Region("GU_DIRECT")
          /\ mem[gu_object_stack[k]].op = "bjump"
      BY <1>2, <3>1 DEF DirectList
    <3>. QED
      BY <1>2, <3>1, <3>2, Regions
  <2>2. ASSUME NEW a \in Region("GU_DIRECT")
        PROVE  /\ mem'[a].op # "ret"
               /\ mem'[a].op = "call" => lent' /\ mem'[a].arg = CallStart
               /\ mem'[a].op = "frame" => mem'[a].arg = frame_buffer'
               /\ mem'[a] = Hole =>
                    \E k \in 1 .. Len(gu_object_stack') : gu_object_stack'[k] = a
    <3>1. CASE a = h
      BY <1>2, <3>1
    <3>2. CASE a # h
      <4>1. mem'[a] = mem[a]
        BY <1>2, <3>2, Regions
      <4>2. /\ mem[a].op # "ret"
            /\ mem[a].op = "call" => lent /\ mem[a].arg = CallStart
            /\ mem[a].op = "frame" => mem[a].arg = frame_buffer
            /\ mem[a] = Hole => \E k \in 1 .. last : gu_object_stack[k] = a
        BY <1>2 DEF DirectList
      <4>3. ASSUME mem[a] = Hole
            PROVE  \E k \in 1 .. Len(gu_object_stack') : gu_object_stack'[k] = a
        <5>1. PICK k \in 1 .. last : gu_object_stack[k] = a
          BY <4>2, <4>3
        <5>2. k \in 1 .. last - 1
          BY <1>2, <3>2, <5>1
        <5>. QED
          BY <1>2, <5>1, <5>2
      <4>. QED
        BY <1>2, <4>1, <4>2, <4>3 DEF screen, program
    <3>. QED
      BY <3>1, <3>2
  <2>3. ASSUME NEW a \in Region("GU_DIRECT"), NEW s \in Nat, Leads(a, s)'
        PROVE  /\ s \in 1 .. cd'
               /\ s # cd' => s \in Region("GU_DIRECT") /\ mem'[s] # Stale
               /\ a < ge_stall' => s <= ge_stall'
    <3>1. Leads(a, s) \/ (a = h /\ s = e)
      <4>1. CASE a = h
        BY <1>2, <2>3, <4>1 DEF Leads
      <4>2. CASE a # h
        BY <1>2, <2>3, <4>2, Regions DEF Leads
      <4>. QED
        BY <4>1, <4>2
    <3>2. CASE Leads(a, s)
      <4>1. /\ s \in 1 .. e /\ (s # e => s \in Region("GU_DIRECT") /\ mem[s] # Stale)
            /\ a < ge_stall => s <= ge_stall
        BY <1>2, <3>2 DEF DirectList
      <4>2. s # e => mem'[s] # Stale
        BY <1>2, <4>1, Regions
      <4>3. a < ge_stall' => s <= ge_stall'
        BY <1>2, <4>1
      <4>. QED
        BY <1>2, <4>1, <4>2, <4>3
    <3>3. CASE a = h /\ s = e
      BY <1>2, <3>3
    <3>. QED
      BY <3>1, <3>2, <3>3
  <2>. QED
    BY <2>1, <2>2, <2>3 DEF DirectList
<1>7. CalledList'
  <2>1. \A a \in Region("GU_CALL") : mem'[a] = mem[a] /\ \A s : Leads(a, s)' <=> Leads(a, s)
    BY <1>2, Regions DEF Leads
  <2>2. UNCHANGED <<cc, gu_curr_context, lent>>
    BY <1>2 DEF program
  <2>. QED
    BY <2>1, <2>2, Regions DEF CalledList
<1>8. ASSUME NEW x \in Nat, Good(x) PROVE Good(x)'
  <2>1. x \in 1 .. ge_stall'
    BY <1>2, <1>3, <1>8 DEF Good
  <2>2. x # e => x \in Region("GU_DIRECT") /\ mem[x] # Stale
    BY <1>2, <1>8 DEF Good
  <2>3. x # e => mem'[x] # Stale
    BY <1>2, <2>2, Regions
  <2>. QED
    BY <1>2, <2>1, <2>2, <2>3 DEF Good
<1>9. GePlace'
  <2>1. PICK x \in Nat, y \in Nat : x = ge_pc /\ y = ge_ret
    BY DEF TypeOK
  <2>2. y # 0 => mem'[x] # Stale
    BY <1>2, <2>1, Regions DEF GePlace
  <2>3. (Good(x) => Good(x)') /\ (Good(y) => Good(y)')
    BY <1>8
  <2>. QED
    BY <1>2, <2>1, <2>2, <2>3 DEF GePlace, Good, program
<1>10. Buffers'
  <2>1. mem[DirectStart].op = "frame"
    BY <1>2, Words DEF Buffers, Word
  <2>2. mem'[DirectStart] = mem[DirectStart]
    BY <1>2, <2>1, Regions
  <2>. QED
    BY <1>2, <2>2 DEF Buffers, screen, program
<1>. QED
  BY <1>4, <1>5, <1>6, <1>7, <1>9, <1>10

-----------------------------------------------------------------------------
(* sceGuStart of the direct list. *)
LEMMA StartDirectStep == ASSUME IInv, StartDirect PROVE IInv'
<1>. USE DEF IInv
<1>1. /\ phase = "out" /\ ge_pc = 0 /\ ge_ret = 0 /\ gu_curr_context = "GU_DIRECT"
      /\ gu_object_stack = <<>> /\ phase' = "in" /\ ge_pc' = 1 /\ ge_stall' = 1
      /\ gu_curr_context' = "GU_DIRECT"
      /\ UNCHANGED <<gu_object_stack, screen, ge_ret, ge_frame, lent>>
  BY Regions DEF StartDirect, Context1, GePlace, Places
<1>2. /\ gu_contexts' = [gu_contexts EXCEPT !["GU_DIRECT"] =
                          [current |-> 2, parent_context |-> "GU_DIRECT"]]
  BY <1>1, Regions DEF StartDirect, Context1, StartOf
<1>3. /\ cd' = 2 /\ cc' = cc
      /\ gu_contexts' \in [Context -> [current : Nat, parent_context : {"GU_DIRECT"}]]
  BY <1>2 DEF TypeOK, Context, cd, cc
<1>4. /\ mem' \in [Addr -> [op : Ops, arg : Nat]]
      /\ mem'[DirectStart] = Word("frame", frame_buffer)
      /\ \A a \in Region("GU_DIRECT") : a # DirectStart => mem'[a] = Stale
      /\ \A a \in Region("GU_CALL") : mem'[a] = mem[a]
  <2>1. Word("frame", frame_buffer) \in [op : Ops, arg : Nat]
    BY Words DEF TypeOK, Ops
  <2>2. mem' = [a \in Addr |->
          IF a = DirectStart THEN Word("frame", frame_buffer)
          ELSE IF a \in Region("GU_DIRECT") THEN Stale ELSE mem[a]]
    BY DEF StartDirect
  <2>3. mem' \in [Addr -> [op : Ops, arg : Nat]]
    <3>1. \A a \in Addr : mem[a] \in [op : Ops, arg : Nat]
      BY DEF TypeOK
    <3>2. Stale \in [op : Ops, arg : Nat]
      BY Words
    <3>. QED
      BY ONLY <2>1, <2>2, <3>1, <3>2
  <2>4. mem'[DirectStart] = Word("frame", frame_buffer)
    BY <2>2, Regions
  <2>5. \A a \in Region("GU_DIRECT") : a # DirectStart => mem'[a] = Stale
    BY <2>2, Regions
  <2>6. \A a \in Region("GU_CALL") : mem'[a] = mem[a]
    BY <2>2, Regions
  <2>. QED
    BY <2>3, <2>4, <2>5, <2>6
<1>5. TypeOK'
  BY <1>1, <1>3, <1>4 DEF TypeOK, screen
<1>6. Places'
  BY <1>1, <1>3, Regions DEF Places
<1>7. DirectList'
  <2>1. Len(gu_object_stack') = 0
    BY <1>1, EmptySeq
  <2>2. /\ mem'[DirectStart].op = "frame" /\ mem'[DirectStart].arg = frame_buffer
        /\ Stale.op = "stale" /\ Hole.op = "bjump"
    BY <1>4, Words DEF TypeOK, Ops
  <2>3. ASSUME NEW a \in Region("GU_DIRECT"), NEW s \in Nat, Leads(a, s)'
        PROVE  s = 2
    BY <1>4, <2>2, <2>3, Regions DEF Leads
  <2>4. ASSUME NEW a \in Region("GU_DIRECT")
        PROVE  /\ mem'[a].op \in {"frame", "stale"} /\ mem'[a] # Hole
               /\ mem'[a].op = "frame" => mem'[a].arg = frame_buffer
    BY <1>4, <2>2
  <2>5. 2 \in 1 .. cd' /\ \A a \in Region("GU_DIRECT") : ~(a < ge_stall')
    BY <1>1, <1>3, Regions
  <2>6. frame_buffer' = frame_buffer
    BY <1>1 DEF screen
  <2>. QED
    BY <1>3, <2>1, <2>3, <2>4, <2>5, <2>6 DEF DirectList
<1>8. CalledList'
  <2>1. \A a \in Region("GU_CALL") : \A s : Leads(a, s)' <=> Leads(a, s)
    BY <1>4 DEF Leads
  <2>. QED
    BY <1>1, <1>3, <1>4, <2>1, Regions DEF CalledList
<1>9. GePlace'
  <2>1. mem'[DirectStart] # Stale /\ DirectStart = 1 /\ 1 \in Region("GU_DIRECT")
    BY <1>4, Words, Regions DEF TypeOK, Ops
  <2>. QED
    BY <1>1, <2>1 DEF GePlace, Good
<1>10. Buffers'
  BY <1>1, <1>4, Regions DEF Buffers, screen
<1>. QED
  BY <1>5, <1>6, <1>7, <1>8, <1>9, <1>10

(* The list could not be queued. *)
LEMMA StartFailsStep == ASSUME IInv, StartFails PROVE IInv'
<1>. USE DEF IInv
<1>1. /\ phase = "out" /\ ge_pc = 0 /\ gu_curr_context' = gu_curr_context
      /\ gu_curr_context = "GU_DIRECT"
      /\ UNCHANGED <<mem, gu_object_stack, screen, ge, program, drawn, hidden>>
      /\ gu_contexts' = [gu_contexts EXCEPT !["GU_DIRECT"] =
                          [current |-> DirectStart + 0, parent_context |-> "GU_DIRECT"]]
  BY DEF StartFails, Context1, StartOf
<1>2. cc' = cc
      /\ gu_contexts' \in [Context -> [current : Nat, parent_context : {"GU_DIRECT"}]]
  BY <1>1 DEF TypeOK, Context, cc, DirectStart
<1>3. TypeOK' /\ Places'
  BY <1>1, <1>2 DEF TypeOK, Places, screen, ge, program
<1>4. CalledList'
  BY <1>1, <1>2 DEF CalledList, Leads, program
<1>5. DirectList' /\ GePlace' /\ Buffers'
  BY <1>1 DEF DirectList, GePlace, Buffers, ge, program, screen
<1>. QED
  BY <1>3, <1>4, <1>5

(* sceGuStart of the called list, which the GE is not in. *)
LEMMA StartCallStep == ASSUME IInv, StartCall PROVE IInv'
<1>. USE DEF IInv
<1>1. /\ phase # "done" /\ gu_curr_context = "GU_DIRECT" /\ ~lent /\ ge_ret = 0
      /\ gu_curr_context' = "GU_CALL"
      /\ UNCHANGED <<gu_object_stack, screen, ge, phase, lent>>
      /\ gu_contexts' = [gu_contexts EXCEPT !["GU_CALL"] =
                          [current |-> CallStart + 0, parent_context |-> "GU_DIRECT"]]
  BY DEF StartCall, Context1, StartOf, GePlace
<1>2. /\ cd' = cd /\ cc' = CallStart
      /\ gu_contexts' \in [Context -> [current : Nat, parent_context : {"GU_DIRECT"}]]
  <2>1. CallStart + 0 = CallStart /\ CallStart \in Nat
    BY Regions
  <2>. QED
    BY <1>1, <2>1 DEF TypeOK, Context, cc, cd
<1>3. /\ mem' \in [Addr -> [op : Ops, arg : Nat]]
      /\ \A a \in Region("GU_DIRECT") : mem'[a] = mem[a]
      /\ \A a \in Region("GU_CALL") : mem'[a] = Stale
  <2>1. mem' = [a \in Addr |-> IF a \in Region("GU_CALL") THEN Stale ELSE mem[a]]
    BY DEF StartCall
  <2>. QED
    BY <2>1, Regions, Words DEF TypeOK
<1>4. TypeOK' /\ Places'
  BY <1>1, <1>2, <1>3, Regions DEF TypeOK, Places, screen, ge, Context
<1>5. DirectList'
  <2>1. \A a \in Region("GU_DIRECT") : \A s : Leads(a, s)' <=> Leads(a, s)
    BY <1>3 DEF Leads
  <2>. QED
    BY <1>1, <1>2, <1>3, <2>1 DEF DirectList, ge, screen
<1>6. CalledList'
  BY <1>1, <1>3, Words DEF CalledList, Leads
<1>7. GePlace'
  BY <1>1, <1>2, <1>3 DEF GePlace, Good, ge
<1>8. Buffers'
  BY <1>1, <1>3, Regions DEF Buffers, ge, screen
<1>. QED
  BY <1>4, <1>5, <1>6, <1>7, <1>8

(* sceGuSync and sceGuSwapBuffers, when the GE has no list, and            *)
(* sceGuDisplay.                                                           *)
LEMMA SyncStep == ASSUME IInv, Sync PROVE IInv'
<1>1. /\ phase = "done" /\ phase' = "out" /\ ge_pc = 0 /\ lent' = FALSE
      /\ UNCHANGED <<building, screen, ge>>
  BY DEF Sync
<1>2. TypeOK' /\ Places'
  BY <1>1 DEF IInv, TypeOK, Places, building, screen, ge, cc, cd
<1>3. CalledList'
  BY <1>1 DEF IInv, CalledList, Leads, building, cc
<1>4. DirectList' /\ GePlace' /\ Buffers'
  BY <1>1 DEF IInv, DirectList, GePlace, Buffers, ge, screen
<1>. QED
  BY <1>2, <1>3, <1>4 DEF IInv

LEMMA SwapStep == ASSUME IInv, SwapBuffers PROVE IInv'
<1>1. /\ phase = "out" /\ UNCHANGED <<building, ge, program>>
      /\ disp_buffer' = frame_buffer /\ frame_buffer' = disp_buffer
      /\ gu_display_on' = gu_display_on
      /\ set_buffer' = IF gu_display_on THEN frame_buffer ELSE set_buffer
  BY DEF SwapBuffers
<1>2. TypeOK' /\ Places'
  BY <1>1 DEF IInv, TypeOK, Places, building, ge, program, cc, cd
<1>3. CalledList'
  BY <1>1 DEF IInv, CalledList, Leads, building, program, cc
<1>4. DirectList' /\ GePlace' /\ Buffers'
  BY <1>1 DEF IInv, DirectList, GePlace, Buffers, ge, program
<1>. QED
  BY <1>2, <1>3, <1>4 DEF IInv

LEMMA DisplayStep == ASSUME IInv, Display PROVE IInv'
<1>1. /\ UNCHANGED <<building, ge, program, frame_buffer, disp_buffer>>
      /\ gu_display_on' \in BOOLEAN
      /\ set_buffer' = IF gu_display_on' THEN disp_buffer ELSE NoBuffer
  BY DEF Display
<1>2. TypeOK' /\ Places'
  BY <1>1 DEF IInv, TypeOK, Places, building, ge, program, cc, cd
<1>3. DirectList' /\ CalledList'
  BY <1>1 DEF IInv, DirectList, CalledList, Leads, building, ge, program, cc, cd
<1>4. GePlace'
  BY <1>1 DEF IInv, GePlace, Good, building, ge, program, cd
<1>5. Buffers'
  BY <1>1 DEF IInv, Buffers, building, ge, program
<1>. QED
  BY <1>2, <1>3, <1>4, <1>5 DEF IInv

LEMMA InvNext == ASSUME ~MemoryInObject PROVE IInv /\ [Next]_vars => IInv'
<1>. SUFFICES ASSUME IInv, [Next]_vars PROVE IInv'
  OBVIOUS
<1>1. CASE UNCHANGED vars
  <2>1. UNCHANGED <<building, screen, ge, program>>
    BY <1>1 DEF vars
  <2>2. TypeOK' /\ Places'
    BY <2>1 DEF IInv, TypeOK, Places, building, screen, ge, program, cc, cd
  <2>3. DirectList' /\ CalledList'
    BY <2>1 DEF IInv, DirectList, CalledList, Leads, building, screen, ge, program, cc, cd
  <2>4. GePlace' /\ Buffers'
    BY <2>1 DEF IInv, GePlace, Good, Buffers, building, screen, ge, program, cd
  <2>. QED
    BY <2>2, <2>3, <2>4 DEF IInv
<1>2. CASE SyncNoWait
  BY <1>1, <1>2 DEF SyncNoWait
<1>. QED
  BY <1>1, <1>2, StartDirectStep, StartFailsStep, StartCallStep, DrawStep, GetMemoryStep,
     BeginObjectStep, EndObjectStep, CallListStep, FinishDirectStep, FinishCallStep,
     SyncStep, SwapStep, DisplayStep, GeStep DEF Next

LEMMA Always == ASSUME ~MemoryInObject PROVE Spec => []IInv
<1>1. IInv /\ [Next]_vars => IInv'
  BY InvNext
<1>. QED
  BY <1>1, InitInv, PTL DEF Spec

(* If the program takes no memory inside an object, the GE runs only words *)
(* of this frame and no jump that sceGuEndObject has still to patch, for   *)
(* lists of any length, objects of any depth and called lists: moving the  *)
(* stall address only when no object is open is enough.                    *)
THEOREM GeRunsFinished == ASSUME ~MemoryInObject PROVE Spec => []RunsFinishedWords
<1>1. IInv => RunsFinishedWords
  BY Reach DEF RunsFinishedWords
<1>. QED
  BY <1>1, Always, PTL

(* The GE never draws to the buffer the display has been set to: the first *)
(* word of the list sets the buffer sceGuStart found, sceGuSwapBuffers is  *)
(* only called when the GE has no list, and sceGuDisplay sets the display  *)
(* to the other one.                                                       *)
THEOREM BehindDisplay == ASSUME ~MemoryInObject PROVE Spec => DrawsBehindDisplay
<1>. DEFINE A == drawn' # drawn /\ drawn' # <<>> => ge_frame # set_buffer
<1>1. IInv /\ [Next]_vars => [A]_vars
  <2>. SUFFICES ASSUME IInv, Next, drawn' # drawn, drawn' # <<>> PROVE ge_frame # set_buffer
    OBVIOUS
  <2>1. GePrim
    BY DEF Next, StartDirect, StartFails, StartCall, Draw, GetMemory, BeginObject, EndObject,
           CallList, FinishDirect, FinishCall, Sync, SyncNoWait, SwapBuffers, Display, Ge, GeFrame,
           GeJump, GeVisible, GeHidden, GeCall, GeRet, GeFinish, vars
  <2>2. ge_pc # 0 /\ mem[ge_pc].op = "prim" /\ phase # "out"
    BY <2>1 DEF GePrim, GeAt, IInv, GePlace
  <2>3. mem[DirectStart].op = "frame"
    BY <2>2, Words DEF IInv, Buffers, Word
  <2>4. ge_frame = frame_buffer /\ frame_buffer \in Nat /\ NoBuffer \notin Nat
    BY <2>2, <2>3 DEF IInv, Buffers, TypeOK, NoBuffer
  <2>. QED
    BY <2>4 DEF IInv, Buffers
<1>. QED
  BY <1>1, Always, PTL DEF Spec, DrawsBehindDisplay

-----------------------------------------------------------------------------
(* Marks count, for every address of a list, the draws of the words before *)
(* it.  In the called list they are counted in recorded.                   *)
CallMarks(c) ==
  /\ c[CallStart] = 0
  /\ gu_curr_context = "GU_CALL" => c[cc] = Len(recorded)
  /\ \A a \in Region("GU_CALL") :
       /\ gu_curr_context = "GU_CALL" /\ a >= cc => mem[a] = Stale
       /\ mem[a].op = "prim" => /\ c[a + 1] = c[a] + 1 /\ c[a] < Len(recorded)
                                /\ recorded[c[a] + 1] = mem[a].arg
       /\ mem[a].op = "jump" => /\ c[mem[a].arg] = c[a]
                                /\ gu_curr_context = "GU_CALL" => mem[a].arg <= cc
       /\ mem[a].op = "ret" => gu_curr_context # "GU_CALL" /\ c[a] = Len(recorded)

(* In the direct list they are counted in issued. *)
DirectMarks(m) ==
  phase # "out" =>
    /\ m[DirectStart] = 0 /\ (phase = "in" => m[cd] = Len(issued))
    /\ \A a \in 1 .. DirectWords + 1 : m[a] <= Len(issued)
    /\ \A a \in Region("GU_DIRECT") :
         /\ a >= cd => mem[a] = Stale
         /\ mem[a].op \in {"frame", "bjump"} => m[a + 1] = m[a]
         /\ mem[a].op = "prim" => m[a + 1] = m[a] + 1 /\ issued[m[a] + 1].id = mem[a].arg
         /\ mem[a].op = "jump" => m[mem[a].arg] = m[a]
         /\ mem[a].op = "call" =>
              /\ m[a + 1] = m[a] + Len(recorded)
              /\ \A j \in 1 .. Len(recorded) : issued[m[a] + j].id = recorded[j]
         /\ mem[a].op = "finish" => phase = "done" /\ m[a] = Len(issued)

(* The draws of an object are those between its jump and where that leads. *)
ObjectMarks(m) ==
  phase # "out" =>
    /\ \A k \in 1 .. Len(gu_object_stack) : mem[gu_object_stack[k]] = Hole
    /\ \A j, k \in 1 .. Len(gu_object_stack) :
         j # k => gu_object_stack[j] # gu_object_stack[k]
    /\ \A k \in 1 .. Len(issued) : issued[k].within \subseteq 1 .. cd - 1
    /\ \A a \in Region("GU_DIRECT") : mem[a].op = "bjump" =>
         /\ mem[a] # Hole => m[a] <= m[mem[a].arg]
         /\ \A k \in 1 .. Len(issued) :
              a \in issued[k].within <=> m[a] < k /\ (mem[a] # Hole => k <= m[mem[a].arg])

(* The draws the GE has passed. *)
Passed(m, c) ==
  IF ge_pc = 0 THEN Len(issued)
  ELSE IF ge_ret = 0 THEN m[ge_pc]
  ELSE m[ge_ret - 1] + c[ge_pc]

(* It has made those that are to be seen, and those ahead are in sight. *)
GeMarks(p) ==
  /\ ge_pc = 0 => phase # "in"
  /\ ge_ret # 0 => ge_ret - 1 \in Region("GU_DIRECT") /\ mem[ge_ret - 1].op = "call"
  /\ phase # "out" =>
       \A h \in hidden : h \in Region("GU_DIRECT") /\ mem[h].op = "bjump" /\ mem[h] # Hole
  /\ \A k \in p + 1 .. Len(issued) : issued[k].within \cap hidden = {}
  /\ p <= Len(issued)
  /\ drawn = Seen(issued, hidden, p)

DrawType ==
  /\ issued \in Seq([id : Nat, within : SUBSET Nat]) /\ recorded \in Seq(Nat)

Marked(m, c) ==
  /\ CallMarks(c) /\ DirectMarks(m) /\ ObjectMarks(m) /\ GeMarks(Passed(m, c))

RInv == IInv /\ DrawType /\ \E m \in [Nat -> Nat], c \in [Nat -> Nat] : Marked(m, c)

-----------------------------------------------------------------------------
(* Induction over the numbers, for a set of them. *)
LEMMA Induct ==
  ASSUME NEW S, 0 \in S, \A k \in Nat : k \in S => k + 1 \in S
  PROVE  Nat \subseteq S
<1>. DEFINE R == OpToRel(<, Nat)
            T == Nat \ S
<1>1. IsWellFoundedOn(R, Nat)
  BY NatLessThanWellFounded
<1>2. \A x \in Nat, y \in Nat : y < x => <<y, x>> \in R
  BY DEF OpToRel
<1>3. SUFFICES ASSUME T # {} PROVE FALSE
  OBVIOUS
<1>4. T \subseteq Nat
  OBVIOUS
<1>5. PICK x \in T : \A y \in T : ~ (<<y, x>> \in R)
  <2>. HIDE DEF R, T
  <2>. QED
    BY <1>1, <1>3, <1>4, WFMin
<1>6. x \in Nat /\ x # 0 /\ x \notin S
  OBVIOUS
<1>7. x - 1 \in Nat /\ x - 1 < x /\ x - 1 + 1 = x
  BY <1>6
<1>8. x - 1 \in S
  <2>1. <<x - 1, x>> \in R
    BY <1>2, <1>6, <1>7
  <2>. HIDE DEF R
  <2>. QED
    BY <1>5, <1>7, <2>1
<1>9. x \in S
  BY <1>7, <1>8
<1>. QED
  BY <1>6, <1>9

(* What a recursive function over 0 .. n computes, when its n steps are    *)
(* those of F: the function exists, and there is only one.                 *)
Runs(r, n, F, base) ==
  r = [k \in 0 .. n |-> IF k = 0 THEN base ELSE F[<<k, r[k - 1]>>]]

LEMMA Recursion ==
  ASSUME NEW n \in Nat, NEW T, NEW base \in T, NEW F \in [(1 .. n) \X T -> T]
  PROVE  \E r \in [0 .. n -> T] : Runs(r, n, F, base)
<1>. DEFINE S == {m \in Nat : m <= n => \E r \in [0 .. m -> T] : Runs(r, m, F, base)}
<1>1. 0 \in S
  <2>. DEFINE r == [k \in 0 .. 0 |-> base]
  <2>1. r \in [0 .. 0 -> T]
    OBVIOUS
  <2>2. Runs(r, 0, F, base)
    BY DEF Runs
  <2>. QED
    BY <2>1, <2>2
<1>2. ASSUME NEW m \in Nat, m \in S PROVE m + 1 \in S
  <2>. SUFFICES ASSUME m + 1 <= n PROVE \E r \in [0 .. m + 1 -> T] : Runs(r, m + 1, F, base)
    OBVIOUS
  <2>1. PICK r \in [0 .. m -> T] : Runs(r, m, F, base)
    BY <1>2
  <2>2. F[<<m + 1, r[m]>>] \in T
    <3>1. r[m] \in T /\ m + 1 \in 1 .. n
      BY <2>1
    <3>. QED
      BY <3>1
  <2>. DEFINE q == [k \in 0 .. m + 1 |-> IF k = m + 1 THEN F[<<m + 1, r[m]>>] ELSE r[k]]
  <2>3. q \in [0 .. m + 1 -> T]
    BY <2>1, <2>2
  <2>4. ASSUME NEW k \in 0 .. m + 1 PROVE q[k] = IF k = 0 THEN base ELSE F[<<k, q[k - 1]>>]
    <3>1. CASE k = m + 1
      <4>1. q[m + 1] = F[<<m + 1, r[m]>>] /\ q[m] = r[m] /\ m + 1 - 1 = m /\ m + 1 # 0
        OBVIOUS
      <4>. QED
        BY <3>1, <4>1
    <3>2. CASE k # m + 1
      <4>1. k \in 0 .. m /\ q[k] = r[k] /\ (k # 0 => k - 1 \in 0 .. m + 1 /\ q[k - 1] = r[k - 1])
        BY <3>2
      <4>2. r[k] = IF k = 0 THEN base ELSE F[<<k, r[k - 1]>>]
        BY <2>1, <4>1 DEF Runs
      <4>. QED
        BY <4>1, <4>2
    <3>. QED
      BY <3>1, <3>2
  <2>5. Runs(q, m + 1, F, base)
    BY <2>4 DEF Runs
  <2>. QED
    BY <2>3, <2>5
<1>3. n \in S
  <2>. HIDE DEF S
  <2>. QED
    BY <1>1, <1>2, Induct
<1>. QED
  BY <1>3

-----------------------------------------------------------------------------
(* Which draws are seen. *)
DrawOf == [id : Nat, within : SUBSET Nat]
InSight(d, outside) == d.within \cap outside = {}
See(t, d, outside) == IF d.within \cap outside = {} THEN Append(t, d.id) ELSE t
Sees(r, draws, outside, n) ==
  r = [k \in 0 .. n |-> IF k = 0 THEN <<>> ELSE See(r[k - 1], draws[k], outside)]

LEMMA SeeType ==
  ASSUME NEW t \in Seq(Nat), NEW d \in DrawOf, NEW outside
  PROVE  See(t, d, outside) \in Seq(Nat)
BY AppendProperties DEF See, DrawOf

LEMMA SeenRun ==
  ASSUME NEW draws \in Seq(DrawOf), NEW outside, NEW n \in Nat, n <= Len(draws)
  PROVE  \E r \in [0 .. n -> Seq(Nat)] : Sees(r, draws, outside, n)
<1>. DEFINE F == [p \in (1 .. n) \X Seq(Nat) |-> See(p[2], draws[p[1]], outside)]
<1>1. Len(draws) \in Nat /\ \A k \in 1 .. Len(draws) : draws[k] \in DrawOf
  BY LenProperties, ElementOfSeq
<1>2. \A k \in 1 .. n : draws[k] \in DrawOf
  BY <1>1
<1>3. F \in [(1 .. n) \X Seq(Nat) -> Seq(Nat)]
  BY <1>2, SeeType
<1>4. PICK r \in [0 .. n -> Seq(Nat)] : Runs(r, n, F, <<>>)
  <2>1. <<>> \in Seq(Nat)
    BY EmptySeq
  <2>. HIDE DEF F
  <2>. QED
    BY <1>3, <2>1, Recursion
<1>5. ASSUME NEW k \in 0 .. n, k # 0
      PROVE  F[<<k, r[k - 1]>>] = See(r[k - 1], draws[k], outside)
  <2>1. k \in 1 .. n /\ k - 1 \in 0 .. n
    BY <1>5
  <2>2. r[k - 1] \in Seq(Nat)
    BY <2>1
  <2>. QED
    BY <2>1, <2>2
<1>6. Sees(r, draws, outside, n)
  <2>. HIDE DEF F
  <2>. QED
    BY <1>4, <1>5 DEF Runs, Sees
<1>. QED
  BY <1>6

LEMMA SeenIs ==
  ASSUME NEW draws, NEW outside, NEW n \in Nat, NEW r, Sees(r, draws, outside, n)
  PROVE  Seen(draws, outside, n) = r[n]
<1>. DEFINE g == CHOOSE q : Sees(q, draws, outside, n)
            S == {k \in Nat : k <= n => g[k] = r[k]}
<1>1. Sees(g, draws, outside, n)
  OBVIOUS
<1>2. Seen(draws, outside, n) = g[n]
  BY DEF Seen, Sees, See
<1>. HIDE DEF g
<1>4. 0 \in S
  BY <1>1 DEF Sees
<1>5. ASSUME NEW k \in Nat, k \in S PROVE k + 1 \in S
  <2>. SUFFICES ASSUME k + 1 <= n PROVE g[k + 1] = r[k + 1]
    OBVIOUS
  <2>1. g[k] = r[k] /\ k + 1 \in 0 .. n /\ k + 1 # 0 /\ k + 1 - 1 = k
    BY <1>5
  <2>2. /\ g[k + 1] = See(g[k], draws[k + 1], outside)
        /\ r[k + 1] = See(r[k], draws[k + 1], outside)
    BY <1>1, <2>1 DEF Sees
  <2>. QED
    BY <2>1, <2>2
<1>6. n \in S
  <2>. HIDE DEF S
  <2>. QED
    BY <1>4, <1>5, Induct
<1>. QED
  BY <1>2, <1>6

LEMMA SeenZero ==
  ASSUME NEW draws \in Seq(DrawOf), NEW outside
  PROVE  Seen(draws, outside, 0) = <<>>
<1>1. PICK r \in [0 .. 0 -> Seq(Nat)] : Sees(r, draws, outside, 0)
  <2>1. 0 \in Nat /\ 0 <= Len(draws)
    BY LenProperties
  <2>. QED
    BY <2>1, SeenRun
<1>. QED
  BY <1>1, SeenIs DEF Sees

LEMMA SeenNext ==
  ASSUME NEW draws \in Seq(DrawOf), NEW outside, NEW n \in Nat, n + 1 <= Len(draws)
  PROVE  Seen(draws, outside, n + 1) = See(Seen(draws, outside, n), draws[n + 1], outside)
<1>1. PICK r \in [0 .. n + 1 -> Seq(Nat)] : Sees(r, draws, outside, n + 1)
  <2>1. PICK m \in Nat : m = n + 1
    OBVIOUS
  <2>2. \E r \in [0 .. m -> Seq(Nat)] : Sees(r, draws, outside, m)
    BY <2>1, SeenRun
  <2>. QED
    BY <2>1, <2>2
<1>. DEFINE q == [k \in 0 .. n |-> r[k]]
<1>2. ASSUME NEW k \in 0 .. n PROVE q[k] = IF k = 0 THEN <<>> ELSE See(q[k - 1], draws[k], outside)
  <2>1. /\ k \in 0 .. n + 1 /\ q[k] = r[k]
        /\ k # 0 => k - 1 \in 0 .. n /\ q[k - 1] = r[k - 1]
    OBVIOUS
  <2>2. r[k] = IF k = 0 THEN <<>> ELSE See(r[k - 1], draws[k], outside)
    BY <1>1, <2>1 DEF Sees
  <2>. HIDE DEF q
  <2>. QED
    BY <2>1, <2>2
<1>3. Sees(q, draws, outside, n)
  BY <1>2 DEF Sees
<1>4. Seen(draws, outside, n) = q[n] /\ q[n] = r[n]
  BY <1>3, SeenIs
<1>5. Seen(draws, outside, n + 1) = r[n + 1]
  BY <1>1, SeenIs
<1>6. r[n + 1] = See(r[n], draws[n + 1], outside)
  <2>1. n + 1 \in 0 .. n + 1 /\ n + 1 # 0 /\ n + 1 - 1 = n
    OBVIOUS
  <2>2. r[n + 1] = See(r[n + 1 - 1], draws[n + 1], outside)
    BY <1>1, <2>1 DEF Sees
  <2>. QED
    BY <2>1, <2>2
<1>. QED
  BY <1>4, <1>5, <1>6

LEMMA SeenType ==
  ASSUME NEW draws \in Seq(DrawOf), NEW outside, NEW n \in Nat, n <= Len(draws)
  PROVE  Seen(draws, outside, n) \in Seq(Nat)
<1>1. PICK r \in [0 .. n -> Seq(Nat)] : Sees(r, draws, outside, n)
  BY SeenRun
<1>2. r[n] \in Seq(Nat)
  BY <1>1
<1>. QED
  BY <1>1, <1>2, SeenIs

(* The first n draws decide which of them are seen. *)
LEMMA SeenSame ==
  ASSUME NEW d \in Seq(DrawOf), NEW e \in Seq(DrawOf), NEW x, NEW y, NEW n \in Nat,
         n <= Len(d), n <= Len(e),
         \A k \in 1 .. n : d[k] = e[k],
         \A k \in 1 .. n : InSight(d[k], x) <=> InSight(d[k], y)
  PROVE  Seen(d, x, n) = Seen(e, y, n)
<1>. DEFINE S == {k \in Nat : k <= n => Seen(d, x, k) = Seen(e, y, k)}
<1>0. Len(d) \in Nat /\ Len(e) \in Nat
  BY LenProperties
<1>1. 0 \in S
  BY SeenZero
<1>2. ASSUME NEW k \in Nat, k \in S PROVE k + 1 \in S
  <2>. SUFFICES ASSUME k + 1 <= n PROVE Seen(d, x, k + 1) = Seen(e, y, k + 1)
    OBVIOUS
  <2>1. Seen(d, x, k) = Seen(e, y, k) /\ k + 1 \in 1 .. n /\ k + 1 <= Len(d) /\ k + 1 <= Len(e)
    BY <1>0, <1>2
  <2>2. /\ Seen(d, x, k + 1) = See(Seen(d, x, k), d[k + 1], x)
        /\ Seen(e, y, k + 1) = See(Seen(e, y, k), e[k + 1], y)
    BY <2>1, SeenNext
  <2>. QED
    BY <2>1, <2>2 DEF See, InSight
<1>3. n \in S
  <2>. HIDE DEF S
  <2>. QED
    BY <1>1, <1>2, Induct
<1>. QED
  BY <1>3

(* Of draws that are all outside, none is seen. *)
LEMMA SeenNothing ==
  ASSUME NEW d \in Seq(DrawOf), NEW x, NEW a \in Nat, NEW b \in Nat, a <= b, b <= Len(d),
         \A k \in a + 1 .. b : d[k].within \cap x # {}
  PROVE  Seen(d, x, b) = Seen(d, x, a)
<1>. DEFINE S == {k \in Nat : a <= k /\ k <= b => Seen(d, x, k) = Seen(d, x, a)}
<1>0. Len(d) \in Nat
  BY LenProperties
<1>1. 0 \in S
  OBVIOUS
<1>2. ASSUME NEW k \in Nat, k \in S PROVE k + 1 \in S
  <2>. SUFFICES ASSUME a <= k + 1, k + 1 <= b PROVE Seen(d, x, k + 1) = Seen(d, x, a)
    OBVIOUS
  <2>1. CASE a = k + 1
    BY <2>1
  <2>2. CASE a <= k
    <3>1. Seen(d, x, k) = Seen(d, x, a) /\ k + 1 \in a + 1 .. b /\ k + 1 <= Len(d)
      BY <1>0, <1>2, <2>2
    <3>. QED
      BY <3>1, SeenNext DEF See
  <2>. QED
    BY <2>1, <2>2
<1>3. b \in S
  <2>. HIDE DEF S
  <2>. QED
    BY <1>1, <1>2, Induct
<1>. QED
  BY <1>3

(* What is seen of the first draws is a prefix of what is seen of all. *)
LEMMA SeenPrefix ==
  ASSUME NEW d \in Seq(DrawOf), NEW x, NEW a \in Nat, NEW b \in Nat, a <= b, b <= Len(d)
  PROVE  IsPrefix(Seen(d, x, a), Seen(d, x, b))
<1>. DEFINE s == Seen(d, x, a)
            Begins(t) == Len(s) <= Len(t) /\ \A j \in 1 .. Len(s) : t[j] = s[j]
            S == {k \in Nat : a <= k /\ k <= b => Begins(Seen(d, x, k))}
<1>0. Len(d) \in Nat /\ s \in Seq(Nat) /\ Len(s) \in Nat
  BY LenProperties, SeenType
<1>. HIDE DEF s
<1>1. 0 \in S
  BY <1>0 DEF s
<1>2. ASSUME NEW k \in Nat, k \in S PROVE k + 1 \in S
  <2>. SUFFICES ASSUME a <= k + 1, k + 1 <= b PROVE Begins(Seen(d, x, k + 1))
    OBVIOUS
  <2>1. CASE a = k + 1
    BY <1>0, <2>1 DEF s
  <2>2. CASE a <= k
    <3>1. Begins(Seen(d, x, k)) /\ k <= Len(d) /\ k + 1 <= Len(d)
      BY <1>0, <1>2, <2>2
    <3>2. PICK t \in Seq(Nat) : t = Seen(d, x, k)
      BY <3>1, SeenType
    <3>3. d[k + 1].id \in Nat
      <4>1. k + 1 \in 1 .. Len(d)
        BY <1>0, <3>1
      <4>2. d[k + 1] \in DrawOf
        BY <4>1, ElementOfSeq
      <4>. QED
        BY <4>2 DEF DrawOf
    <3>4. Begins(t) /\ Len(t) \in Nat
      BY <3>1, <3>2, LenProperties
    <3>5. PICK z \in Nat : z = d[k + 1].id
      BY <3>3
    <3>6. Begins(Append(t, z))
      BY <1>0, <3>4, AppendProperties
    <3>7. Seen(d, x, k + 1) = See(t, d[k + 1], x)
      BY <3>1, <3>2, SeenNext
    <3>8. Seen(d, x, k + 1) \in {t, Append(t, z)}
      BY <3>5, <3>7 DEF See
    <3>. QED
      BY <3>4, <3>6, <3>8
  <2>. QED
    BY <2>1, <2>2
<1>3. b \in S
  <2>. HIDE DEF S
  <2>. QED
    BY <1>1, <1>2, Induct
<1>4. PICK t \in Seq(Nat) : t = Seen(d, x, b)
  BY SeenType
<1>5. Begins(t) /\ Len(t) \in Nat
  BY <1>3, <1>4, LenProperties
<1>6. SubSeq(s, 1, Len(s)) = SubSeq(t, 1, Len(s))
  <2>. DEFINE n == Len(s)
  <2>1. \A j \in 1 .. n : s[j] \in Nat /\ t[j] \in Nat /\ s[j] = t[j]
    BY <1>0, <1>5, ElementOfSeq
  <2>. HIDE DEF n
  <2>2. n \in Int /\ n \in Nat
    BY <1>0 DEF n
  <2>3. /\ SubSeq(s, 1, n) \in Seq(Nat) /\ SubSeq(t, 1, n) \in Seq(Nat)
        /\ Len(SubSeq(s, 1, n)) = (IF 1 <= n THEN n - 1 + 1 ELSE 0)
        /\ Len(SubSeq(t, 1, n)) = (IF 1 <= n THEN n - 1 + 1 ELSE 0)
        /\ \A j \in 1 .. n - 1 + 1 : SubSeq(s, 1, n)[j] = s[1 + j - 1]
        /\ \A j \in 1 .. n - 1 + 1 : SubSeq(t, 1, n)[j] = t[1 + j - 1]
    BY ONLY <2>1, <2>2, SubSeqProperties
  <2>4. PICK u \in Seq(Nat), v \in Seq(Nat) : u = SubSeq(s, 1, n) /\ v = SubSeq(t, 1, n)
    BY <2>3
  <2>5. Len(u) = n /\ Len(v) = n /\ \A j \in 1 .. n : u[j] = s[j] /\ v[j] = t[j]
    BY <2>2, <2>3, <2>4
  <2>6. u = v
    BY <2>1, <2>5, SeqEqual
  <2>. QED
    BY <2>4, <2>6 DEF n
<1>. QED
  BY <1>4, <1>5, <1>6 DEF IsPrefix, s

-----------------------------------------------------------------------------
(* The steps of the GE leave the lists and their marks alone. *)
LEMMA MarksStay ==
  ASSUME NEW m, NEW c, CallMarks(c), DirectMarks(m), ObjectMarks(m),
         UNCHANGED <<building, phase, recorded, issued>>
  PROVE  CallMarks(c)' /\ DirectMarks(m)' /\ ObjectMarks(m)'
<1>. USE DEF building
<1>1. CallMarks(c)'
  BY DEF CallMarks, cc
<1>2. DirectMarks(m)'
  BY DEF DirectMarks, cd
<1>3. ObjectMarks(m)'
  BY DEF ObjectMarks, cd
<1>. QED
  BY <1>1, <1>2, <1>3

(* The GE passes no draw. *)
LEMMA GePasses ==
  ASSUME NEW m, NEW c, Marked(m, c),
         UNCHANGED <<building, program, drawn, hidden>>,
         ge_pc' = 0 => phase # "in",
         ge_ret' # 0 => ge_ret' - 1 \in Region("GU_DIRECT") /\ mem[ge_ret' - 1].op = "call",
         Passed(m, c)' = Passed(m, c)
  PROVE  Marked(m, c)'
<1>1. CallMarks(c)' /\ DirectMarks(m)' /\ ObjectMarks(m)'
  BY MarksStay DEF Marked, program
<1>2. GeMarks(Passed(m, c))'
  <2>1. PICK p : p = Passed(m, c)
    OBVIOUS
  <2>2. GeMarks(p)
    BY <2>1 DEF Marked
  <2>3. GeMarks(p)'
    BY <2>2 DEF GeMarks, building, program
  <2>. QED
    BY <2>1, <2>3 DEF GeMarks
<1>. QED
  BY <1>1, <1>2 DEF Marked

(* What the GE has passed, in either list. *)
LEMMA WhereGeIs ==
  ASSUME IInv, DrawType, NEW m \in [Nat -> Nat], NEW c \in [Nat -> Nat], Marked(m, c)
  PROVE  /\ Passed(m, c) \in Nat /\ Passed(m, c) <= Len(issued) /\ Len(issued) \in Nat
         /\ ge_pc = 0 => Passed(m, c) = Len(issued)
         /\ ge_pc # 0 /\ ge_ret = 0 => Passed(m, c) = m[ge_pc]
         /\ ge_pc # 0 /\ ge_ret # 0 => Passed(m, c) = m[ge_ret - 1] + c[ge_pc]
<1>1. Len(issued) \in Nat /\ ge_pc \in Nat /\ ge_ret \in Nat
  BY LenProperties DEF DrawType, IInv, TypeOK
<1>2. Passed(m, c) <= Len(issued)
  BY DEF Marked, GeMarks
<1>3. Passed(m, c) \in Nat
  <2>1. CASE ge_pc = 0
    BY <1>1, <2>1 DEF Passed
  <2>2. CASE ge_pc # 0 /\ ge_ret = 0
    <3>1. m[ge_pc] \in Nat
      BY <1>1
    <3>. QED
      BY <2>2, <3>1 DEF Passed
  <2>3. CASE ge_pc # 0 /\ ge_ret # 0
    <3>1. ge_ret - 1 \in Nat
      BY <1>1, <2>3
    <3>2. m[ge_ret - 1] \in Nat /\ c[ge_pc] \in Nat
      BY <1>1, <3>1
    <3>. QED
      BY <2>3, <3>2 DEF Passed
  <2>. QED
    BY <2>1, <2>2, <2>3
<1>. QED
  BY <1>1, <1>2, <1>3 DEF Passed

LEMMA GePrimMarks ==
  ASSUME IInv, DrawType, NEW m \in [Nat -> Nat], NEW c \in [Nat -> Nat], Marked(m, c), GePrim
  PROVE  Marked(m, c)'
<1>1. /\ ge_pc # 0 /\ ge_pc # ge_stall /\ mem[ge_pc].op = "prim" /\ ge_pc' = ge_pc + 1
      /\ drawn' = Append(drawn, mem[ge_pc].arg) /\ ge_pc \in Nat /\ ge_pc' # 0 /\ ge_ret \in Nat
      /\ UNCHANGED <<building, screen, program, ge_stall, ge_ret, hidden>> /\ phase # "out"
  BY DEF GePrim, GeAt, GeNext, arg, IInv, TypeOK, GePlace
<1>2. PICK p \in Nat : p = Passed(m, c) /\ p <= Len(issued)
  BY WhereGeIs
<1>3. /\ ge_ret = 0 => ge_pc \in Region("GU_DIRECT")
      /\ ge_ret # 0 => ge_pc \in Region("GU_CALL")
  BY <1>1, Reach
<1>4. /\ p + 1 <= Len(issued) /\ issued[p + 1].id = mem[ge_pc].arg /\ Passed(m, c)' = p + 1
  <2>1. CASE ge_ret = 0
    <3>1. p = m[ge_pc] /\ Passed(m, c)' = m[ge_pc + 1]
      BY <1>1, <1>2, <2>1 DEF Passed
    <3>2. /\ m[ge_pc + 1] = m[ge_pc] + 1 /\ issued[m[ge_pc] + 1].id = mem[ge_pc].arg
          /\ m[ge_pc + 1] <= Len(issued)
      <4>1. ge_pc + 1 \in 1 .. DirectWords + 1
        BY <1>1, <1>3, <2>1, Regions
      <4>. QED
        BY <1>1, <1>3, <2>1, <4>1 DEF Marked, DirectMarks
    <3>. QED
      BY <3>1, <3>2
  <2>2. CASE ge_ret # 0
    <3>1. PICK r \in Nat : r = ge_ret - 1 /\ r \in Region("GU_DIRECT") /\ mem[r].op = "call"
      <4>1. ge_ret - 1 \in Region("GU_DIRECT") /\ mem[ge_ret - 1].op = "call"
        BY <2>2 DEF Marked, GeMarks
      <4>2. ge_ret - 1 \in Nat
        BY <1>1, <2>2
      <4>. QED
        BY <4>1, <4>2
    <3>2. p = m[r] + c[ge_pc] /\ Passed(m, c)' = m[r] + c[ge_pc + 1]
      BY <1>1, <1>2, <2>2, <3>1 DEF Passed
    <3>3. /\ c[ge_pc + 1] = c[ge_pc] + 1 /\ c[ge_pc] < Len(recorded)
          /\ recorded[c[ge_pc] + 1] = mem[ge_pc].arg
      BY <1>1, <1>3, <2>2 DEF Marked, CallMarks
    <3>4. /\ m[r + 1] = m[r] + Len(recorded) /\ m[r + 1] <= Len(issued)
          /\ \A j \in 1 .. Len(recorded) : issued[m[r] + j].id = recorded[j]
      <4>1. r + 1 \in 1 .. DirectWords + 1
        <5>1. r \in 1 .. DirectWords /\ DirectWords \in Nat
          BY <3>1, Regions
        <5>. QED
          BY ONLY <5>1
      <4>. QED
        BY <1>1, <3>1, <4>1 DEF Marked, DirectMarks
    <3>5. PICK x \in Nat, y \in Nat : x = m[r] /\ y = c[ge_pc]
      <4>1. m[r] \in Nat /\ c[ge_pc] \in Nat
        BY <1>1, <3>1
      <4>. QED
        BY <4>1
    <3>6. Len(recorded) \in Nat /\ Len(issued) \in Nat
      BY LenProperties DEF DrawType
    <3>7. y + 1 \in 1 .. Len(recorded) /\ x + (y + 1) = p + 1 /\ p + 1 <= Len(issued)
      <4>1. /\ p = x + y /\ y < Len(recorded) /\ x + Len(recorded) <= Len(issued)
            /\ x \in Nat /\ y \in Nat
        BY <3>2, <3>3, <3>4, <3>5
      <4>2. PICK l \in Nat, n \in Nat : l = Len(recorded) /\ n = Len(issued)
        BY <3>6
      <4>3. p = x + y /\ y < l /\ x + l <= n /\ x \in Nat /\ y \in Nat
        BY <4>1, <4>2
      <4>4. y + 1 \in 1 .. l /\ x + (y + 1) = p + 1 /\ p + 1 <= n
        BY ONLY <4>3, l \in Nat, n \in Nat
      <4>. QED
        BY <4>2, <4>4
    <3>8. issued[x + (y + 1)].id = mem[ge_pc].arg
      BY <3>3, <3>4, <3>5, <3>7
    <3>9. Passed(m, c)' = p + 1
      <4>1. Passed(m, c)' = x + (y + 1)
        BY <3>2, <3>3, <3>5
      <4>. QED
        BY <3>7, <4>1
    <3>. QED
      BY <3>7, <3>8, <3>9
  <2>. QED
    BY <2>1, <2>2
<1>5. CallMarks(c)' /\ DirectMarks(m)' /\ ObjectMarks(m)'
  BY <1>1, MarksStay DEF Marked, program
<1>6. GeMarks(p)
  BY <1>2 DEF Marked
<1>7. Len(issued) \in Nat /\ issued \in Seq(DrawOf)
  BY LenProperties DEF DrawType, DrawOf
<1>8. Append(drawn, mem[ge_pc].arg) = Seen(issued, hidden, p + 1)
  <2>1. issued[p + 1].within \cap hidden = {}
    <3>1. p + 1 \in p + 1 .. Len(issued)
      <4>1. p \in Nat /\ Len(issued) \in Nat /\ p + 1 <= Len(issued)
        BY <1>2, <1>4, <1>7
      <4>. QED
        BY ONLY <4>1
    <3>. QED
      BY <1>6, <3>1 DEF GeMarks
  <2>2. Seen(issued, hidden, p + 1) = See(Seen(issued, hidden, p), issued[p + 1], hidden)
    BY <1>4, <1>7, SeenNext
  <2>. QED
    BY <1>4, <1>6, <2>1, <2>2 DEF See, GeMarks
<1>9. GeMarks(p + 1)'
  <2>1. /\ ge_pc' = 0 => phase' # "in"
        /\ ge_ret' # 0 => ge_ret' - 1 \in Region("GU_DIRECT") /\ mem'[ge_ret' - 1].op = "call"
        /\ phase' # "out" =>
            \A h \in hidden' : h \in Region("GU_DIRECT") /\ mem'[h].op = "bjump" /\ mem'[h] # Hole
    BY <1>1, <1>6 DEF GeMarks, building, program
  <2>2. \A k \in p + 1 + 1 .. Len(issued) : issued[k].within \cap hidden = {}
    <3>1. \A k \in p + 1 + 1 .. Len(issued) : k \in p + 1 .. Len(issued)
      BY <1>2, <1>7
    <3>. QED
      BY <1>6, <3>1 DEF GeMarks
  <2>3. issued' = issued /\ hidden' = hidden
    BY <1>1 DEF program
  <2>4. drawn' = Seen(issued, hidden, p + 1)
    BY <1>1, <1>8
  <2>. QED
    BY <1>4, <2>1, <2>2, <2>3, <2>4 DEF GeMarks
<1>. QED
  BY <1>4, <1>5, <1>9 DEF Marked, GeMarks

LEMMA GeHiddenMarks ==
  ASSUME IInv, DrawType, NEW m \in [Nat -> Nat], NEW c \in [Nat -> Nat], Marked(m, c), GeHidden
  PROVE  Marked(m, c)'
<1>1. /\ ge_pc # 0 /\ ge_pc # ge_stall /\ mem[ge_pc].op = "bjump" /\ ge_pc' = mem[ge_pc].arg
      /\ hidden' = hidden \cup {ge_pc} /\ ge_pc \in Nat /\ ge_ret \in Nat
      /\ UNCHANGED <<building, screen, program, ge_stall, ge_ret, drawn>> /\ phase # "out"
  BY DEF GeHidden, GeAt, GeNext, arg, IInv, TypeOK, GePlace
<1>2. PICK p \in Nat : p = Passed(m, c) /\ p <= Len(issued)
  BY WhereGeIs
<1>3. /\ ge_ret = 0 => ge_pc \in Region("GU_DIRECT")
      /\ ge_ret # 0 => ge_pc \in Region("GU_CALL")
      /\ mem[ge_pc] # Hole /\ ge_pc \in Addr
      /\ ge_ret = 0 => \A s \in Nat : Leads(ge_pc, s) => Good(s)
  BY <1>1, Reach
<1>4. ge_ret = 0 /\ ge_pc \in Region("GU_DIRECT")
  BY <1>1, <1>3 DEF IInv, CalledList
<1>5. PICK a \in Nat, s \in Nat : a = ge_pc /\ s = mem[ge_pc].arg
  BY <1>1, <1>3 DEF IInv, TypeOK
<1>6. s \in 1 .. DirectWords + 1 /\ s # 0
  <2>1. Good(s) /\ ge_stall \in 1 .. cd /\ cd \in Nat /\ cd <= DirectWords + 1
    <3>1. Good(s)
      BY <1>1, <1>3, <1>4, <1>5 DEF Leads
    <3>2. phase \in {"in", "done"}
      BY <1>1 DEF IInv, TypeOK
    <3>3. ge_stall \in 1 .. cd /\ cd \in 2 .. DirectWords + 1
      <4>1. cd \in 2 .. DirectWords \/ cd \in 2 .. DirectWords + 1
        BY <3>2 DEF IInv, Places
      <4>2. ge_stall \in 1 .. cd
        BY <1>1 DEF IInv, Places
      <4>3. DirectWords \in Nat
        BY Regions
      <4>. QED
        BY ONLY <4>1, <4>2, <4>3
    <3>. QED
      BY <3>1, <3>3, Regions
  <2>. QED
    BY <2>1, Regions DEF Good
<1>7. PICK q \in Nat : q = m[s] /\ q <= Len(issued) /\ p <= q
  BY <1>1, <1>2, <1>3, <1>4, <1>5, <1>6 DEF Marked, DirectMarks, ObjectMarks, Passed
<1>8. p = m[a] /\ Passed(m, c)' = q
  BY <1>1, <1>2, <1>4, <1>5, <1>6, <1>7 DEF Passed
<1>9. \A k \in 1 .. Len(issued) : a \in issued[k].within <=> p < k /\ k <= q
  BY <1>1, <1>3, <1>4, <1>5, <1>7, <1>8 DEF Marked, ObjectMarks
<1>10. CallMarks(c)' /\ DirectMarks(m)' /\ ObjectMarks(m)'
  BY <1>1, MarksStay DEF Marked, program
<1>11. GeMarks(p)
  BY <1>2 DEF Marked
<1>12. Len(issued) \in Nat /\ issued \in Seq(DrawOf)
  BY LenProperties DEF DrawType, DrawOf
<1>. DEFINE out == hidden \cup {a}
<1>13. drawn = Seen(issued, out, q)
  <2>1. Seen(issued, hidden, p) = Seen(issued, out, p)
    <3>1. \A k \in 1 .. p : InSight(issued[k], hidden) <=> InSight(issued[k], out)
      <4>. SUFFICES ASSUME NEW k \in 1 .. p PROVE a \notin issued[k].within
        BY DEF InSight
      <4>1. k \in 1 .. Len(issued) /\ ~(p < k)
        <5>1. p \in Nat /\ Len(issued) \in Nat /\ p <= Len(issued) /\ k \in 1 .. p
          BY <1>2, <1>12
        <5>. QED
          BY ONLY <5>1
      <4>. QED
        BY <1>9, <4>1
    <3>2. p <= Len(issued) /\ p \in Nat
      BY <1>2
    <3>. HIDE DEF out
    <3>. QED
      BY <1>12, <3>1, <3>2, SeenSame
  <2>2. Seen(issued, out, q) = Seen(issued, out, p)
    <3>1. \A k \in p + 1 .. q : issued[k].within \cap out # {}
      <4>. SUFFICES ASSUME NEW k \in p + 1 .. q PROVE a \in issued[k].within
        OBVIOUS
      <4>1. k \in 1 .. Len(issued) /\ p < k /\ k <= q
        <5>1. /\ p \in Nat /\ q \in Nat /\ Len(issued) \in Nat /\ q <= Len(issued)
              /\ k \in p + 1 .. q
          BY <1>2, <1>7, <1>12
        <5>. QED
          BY ONLY <5>1
      <4>. QED
        BY <1>9, <4>1
    <3>. HIDE DEF out
    <3>. QED
      BY <1>2, <1>7, <1>12, <3>1, SeenNothing
  <2>. QED
    BY <1>11, <2>1, <2>2 DEF GeMarks
<1>14. \A k \in q + 1 .. Len(issued) : issued[k].within \cap out = {}
  <2>. SUFFICES ASSUME NEW k \in q + 1 .. Len(issued) PROVE issued[k].within \cap out = {}
    OBVIOUS
  <2>1. k \in p + 1 .. Len(issued) /\ k \in 1 .. Len(issued) /\ ~(k <= q)
    <3>1. /\ p \in Nat /\ q \in Nat /\ Len(issued) \in Nat /\ p <= q
          /\ k \in q + 1 .. Len(issued)
      BY <1>2, <1>7, <1>12
    <3>. QED
      BY ONLY <3>1
  <2>2. issued[k].within \cap hidden = {} /\ a \notin issued[k].within
    BY <1>9, <1>11, <2>1 DEF GeMarks
  <2>. QED
    BY <2>2
<1>15. GeMarks(q)'
  <2>1. /\ ge_pc' = 0 => phase' # "in"
        /\ ge_ret' # 0 => ge_ret' - 1 \in Region("GU_DIRECT") /\ mem'[ge_ret' - 1].op = "call"
        /\ phase' # "out" =>
            \A h \in hidden' : h \in Region("GU_DIRECT") /\ mem'[h].op = "bjump" /\ mem'[h] # Hole
    BY <1>1, <1>3, <1>4, <1>5, <1>6, <1>11 DEF GeMarks, building, program
  <2>2. issued' = issued /\ hidden' = out /\ drawn' = drawn
    BY <1>1, <1>5 DEF program
  <2>. HIDE DEF out
  <2>. QED
    BY <1>7, <1>13, <1>14, <2>1, <2>2 DEF GeMarks
<1>. QED
  BY <1>8, <1>10, <1>15 DEF Marked, GeMarks

LEMMA GeMarked ==
  ASSUME IInv, DrawType, NEW m \in [Nat -> Nat], NEW c \in [Nat -> Nat], Marked(m, c), Ge
  PROVE  Marked(m, c)'
<1>1. /\ ge_pc # 0 /\ ge_pc # ge_stall /\ ge_pc \in Nat /\ ge_ret \in Nat /\ phase # "out"
      /\ UNCHANGED <<building, screen, program, ge_stall>>
  BY DEF Ge, GePrim, GeFrame, GeJump, GeVisible, GeHidden, GeCall, GeRet, GeFinish,
         GeAt, GeNext, IInv, TypeOK, GePlace
<1>2. /\ ge_pc \in Addr /\ mem[ge_pc].arg \in Nat
      /\ ge_ret = 0 => ge_pc \in Region("GU_DIRECT") /\ mem[ge_pc].op # "ret"
      /\ ge_ret # 0 => /\ ge_pc \in Region("GU_CALL")
                       /\ mem[ge_pc].op \in {"stale", "prim", "jump", "ret"}
  <2>1. /\ ge_pc \in Addr
        /\ ge_ret = 0 => ge_pc \in Region("GU_DIRECT")
        /\ ge_ret # 0 => ge_pc \in Region("GU_CALL")
    BY <1>1, Reach
  <2>. QED
    BY <1>1, <2>1 DEF IInv, TypeOK, DirectList, CalledList
<1>3. PICK a \in Nat, s \in Nat : a = ge_pc /\ s = mem[ge_pc].arg
  BY <1>1, <1>2
<1>4. /\ ge_ret # 0 => ge_ret - 1 \in Region("GU_DIRECT") /\ mem[ge_ret - 1].op = "call"
  BY DEF Marked, GeMarks
<1>5. CASE GePrim
  BY <1>5, GePrimMarks
<1>6. CASE GeHidden
  BY <1>6, GeHiddenMarks
<1>7. CASE GeFrame \/ GeVisible
  <2>1. /\ ge_pc' = a + 1 /\ mem[a].op \in {"frame", "bjump"}
        /\ UNCHANGED <<ge_ret, drawn, hidden>>
    BY <1>3, <1>7 DEF GeFrame, GeVisible, GeAt, GeNext
  <2>2. ge_ret = 0 /\ a \in Region("GU_DIRECT")
    BY <1>2, <1>3, <2>1
  <2>3. m[a + 1] = m[a] /\ a + 1 # 0
    <3>1. m[a + 1] = m[a]
      BY <1>1, <2>1, <2>2 DEF Marked, DirectMarks
    <3>2. a + 1 # 0
      BY <1>3
    <3>. QED
      BY <3>1, <3>2
  <2>4. Passed(m, c)' = Passed(m, c)
    BY <1>1, <1>3, <2>1, <2>2, <2>3 DEF Passed
  <2>. QED
    BY <1>1, <2>1, <2>2, <2>3, <2>4, GePasses
<1>8. CASE GeJump
  <2>1. ge_pc' = s /\ mem[a].op = "jump" /\ UNCHANGED <<ge_ret, drawn, hidden>>
    BY <1>3, <1>8 DEF GeJump, GeAt, GeNext, arg
  <2>2. s # 0
    <3>1. Leads(a, s)
      BY <1>3, <2>1, Words DEF Leads
    <3>2. /\ ge_ret = 0 => Good(s)
          /\ ge_ret # 0 => s \in Region("GU_CALL")
      BY <1>1, <1>3, <3>1, Reach
    <3>. QED
      BY <3>2, Regions DEF Good
  <2>3. /\ ge_ret = 0 => m[s] = m[a]
        /\ ge_ret # 0 => c[s] = c[a]
    BY <1>1, <1>2, <1>3, <2>1 DEF Marked, DirectMarks, CallMarks
  <2>4. Passed(m, c)' = Passed(m, c)
    BY <1>1, <1>3, <2>1, <2>2, <2>3 DEF Passed
  <2>. QED
    BY <1>1, <1>4, <2>1, <2>2, <2>4, GePasses
<1>9. CASE GeCall
  <2>1. ge_pc' = s /\ mem[a].op = "call" /\ ge_ret' = a + 1 /\ UNCHANGED <<drawn, hidden>>
    BY <1>3, <1>9 DEF GeCall, GeAt, GeNext, arg
  <2>2. ge_ret = 0 /\ a \in Region("GU_DIRECT") /\ s = CallStart /\ s # 0
    <3>1. ge_ret = 0 /\ a \in Region("GU_DIRECT")
      BY <1>2, <1>3, <2>1
    <3>2. s = CallStart
      BY <1>1, <1>3, <2>1, <3>1 DEF IInv, DirectList
    <3>. QED
      BY <3>1, <3>2, Regions
  <2>3. c[s] = 0 /\ a + 1 - 1 = a /\ a + 1 # 0
    <3>1. c[s] = 0
      BY <2>2 DEF Marked, CallMarks
    <3>2. a \in Nat
      BY <2>2, Regions
    <3>3. a + 1 - 1 = a /\ a + 1 # 0
      BY ONLY <3>2
    <3>. QED
      BY <3>1, <3>3
  <2>4. Passed(m, c) = m[a] /\ Passed(m, c)' = m[a] + 0
    BY <1>1, <1>3, <2>1, <2>2, <2>3 DEF Passed
  <2>5. m[a] + 0 = m[a]
    <3>1. m[a] \in Nat
      OBVIOUS
    <3>. QED
      BY ONLY <3>1
  <2>6. ge_ret' - 1 = a
    BY <2>1, <2>3
  <2>. QED
    BY <1>1, <2>1, <2>2, <2>4, <2>5, <2>6, GePasses
<1>10. CASE GeRet
  <2>1. ge_pc' = ge_ret /\ mem[a].op = "ret" /\ ge_ret' = 0 /\ UNCHANGED <<drawn, hidden>>
    BY <1>3, <1>10 DEF GeRet, GeAt, GeNext
  <2>2. ge_ret # 0 /\ a \in Region("GU_CALL")
    BY <1>2, <1>3, <2>1
  <2>3. PICK r \in Nat : r + 1 = ge_ret /\ r = ge_ret - 1
    <3>1. ge_ret - 1 \in Nat /\ ge_ret - 1 + 1 = ge_ret
      BY <1>1, <2>2
    <3>. QED
      BY <3>1
  <2>4. c[a] = Len(recorded) /\ m[r + 1] = m[r] + Len(recorded)
    <3>1. c[a] = Len(recorded)
      BY <2>1, <2>2 DEF Marked, CallMarks
    <3>2. r \in Region("GU_DIRECT") /\ mem[r].op = "call"
      BY <1>4, <2>2, <2>3
    <3>3. m[r + 1] = m[r] + Len(recorded)
      BY <1>1, <3>2 DEF Marked, DirectMarks
    <3>. QED
      BY <3>1, <3>3
  <2>5. Passed(m, c) = m[r] + c[a] /\ Passed(m, c)' = m[r + 1]
    BY <1>1, <1>3, <2>1, <2>2, <2>3 DEF Passed
  <2>. QED
    BY <1>1, <2>1, <2>2, <2>4, <2>5, GePasses
<1>11. CASE GeFinish
  <2>1. ge_pc' = 0 /\ mem[a].op = "finish" /\ UNCHANGED <<ge_ret, drawn, hidden>>
    BY <1>3, <1>11 DEF GeFinish, GeAt, GeNext
  <2>2. ge_ret = 0 /\ a \in Region("GU_DIRECT")
    BY <1>2, <1>3, <2>1
  <2>3. phase = "done" /\ m[a] = Len(issued)
    BY <1>1, <2>1, <2>2 DEF Marked, DirectMarks
  <2>4. Passed(m, c) = m[a] /\ Passed(m, c)' = Len(issued)
    BY <1>1, <1>3, <2>1, <2>2 DEF Passed, program
  <2>. QED
    BY <1>1, <2>1, <2>2, <2>3, <2>4, GePasses
<1>. QED
  BY <1>5, <1>6, <1>7, <1>8, <1>9, <1>10, <1>11 DEF Ge

-----------------------------------------------------------------------------
(* A word, and the draws it stands for, go to the end of the direct list. *)
Adds(w, size) ==
  /\ phase = "in" /\ gu_curr_context = "GU_DIRECT" /\ Append1(w, size)
  /\ w.op \in {"prim", "bjump", "call"} => size = 1
  /\ w.op = "jump" => w.arg = cd + size
  /\ w.op = "bjump" => w = Hole
  /\ gu_object_stack' = IF w = Hole THEN Append(gu_object_stack, cd) ELSE gu_object_stack
  /\ phase' = IF w.op = "finish" THEN "done" ELSE "in"
  /\ issued' \in Seq(DrawOf) /\ Len(issued) <= Len(issued')
  /\ \A k \in 1 .. Len(issued) : issued'[k] = issued[k]
  /\ \A k \in Len(issued) + 1 .. Len(issued') : issued'[k].within = Open
  /\ w.op = "prim" => Len(issued') = Len(issued) + 1 /\ issued'[Len(issued) + 1].id = w.arg
  /\ w.op = "call" =>
       /\ Len(issued') = Len(issued) + Len(recorded)
       /\ \A j \in 1 .. Len(recorded) : issued'[Len(issued) + j].id = recorded[j]
  /\ w.op \notin {"prim", "call"} => Len(issued') = Len(issued)
  /\ UNCHANGED <<gu_curr_context, recorded, drawn, hidden, ge_pc, ge_ret>>

AddedWord == [op : {"prim", "jump", "bjump", "call", "finish"}, arg : Nat]

LEMMA AppendMarks ==
  ASSUME IInv, DrawType, NEW m \in [Nat -> Nat], NEW c \in [Nat -> Nat], Marked(m, c),
         NEW w \in AddedWord, NEW size \in {1, 2}, Adds(w, size)
  PROVE  \E n \in [Nat -> Nat] : Marked(n, c)'
<1>1. PICK e \in Nat, l \in Nat, t \in Nat, r \in Nat :
        e = cd /\ l = Len(issued) /\ t = Len(issued') /\ r = Len(recorded)
  <2>1. issued' \in Seq(DrawOf) /\ issued \in Seq(DrawOf) /\ recorded \in Seq(Nat)
    BY DEF Adds, DrawType, DrawOf
  <2>2. Len(issued') \in Nat /\ Len(issued) \in Nat /\ Len(recorded) \in Nat
    BY <2>1, LenProperties
  <2>3. cd \in Nat
    BY DEF IInv, TypeOK, cd, Context
  <2>. QED
    BY <2>2, <2>3
<1>2. phase = "in" /\ phase # "out" /\ gu_curr_context = "GU_DIRECT" /\ Append1(w, size)
      /\ UNCHANGED <<gu_curr_context, recorded, drawn, hidden, ge_pc, ge_ret>>
      /\ phase' = (IF w.op = "finish" THEN "done" ELSE "in")
      /\ gu_object_stack' = IF w = Hole THEN Append(gu_object_stack, e) ELSE gu_object_stack
  BY <1>1 DEF Adds
<1>3. /\ w.op \in {"prim", "jump", "bjump", "call", "finish"} /\ w.arg \in Nat
      /\ w.op \in {"prim", "bjump", "call"} => size = 1
      /\ w.op = "jump" => w.arg = e + size
      /\ w.op = "bjump" => w = Hole
  BY <1>1 DEF Adds, AddedWord
<1>4. /\ l <= t
      /\ \A k \in 1 .. l : issued'[k] = issued[k]
      /\ \A k \in l + 1 .. t : issued'[k].within = Open
      /\ w.op = "prim" => t = l + 1 /\ issued'[l + 1].id = w.arg
      /\ w.op = "call" => t = l + r /\ \A j \in 1 .. r : issued'[l + j].id = recorded[j]
      /\ w.op \notin {"prim", "call"} => t = l
  BY <1>1 DEF Adds
<1>5. /\ e \in 2 .. DirectWords /\ e \in Region("GU_DIRECT") /\ e \in Addr /\ ge_stall \in 1 .. e
      /\ DirectWords \in Nat /\ e >= 2
  <2>1. e \in 2 .. DirectWords /\ ge_stall \in 1 .. e
    BY <1>1, <1>2 DEF IInv, Places
  <2>2. DirectWords \in Nat /\ CallWords \in Nat
    BY Regions
  <2>3. e >= 2 /\ e \in 1 .. DirectWords /\ e \in 1 .. DirectWords + CallWords
    BY ONLY <2>1, <2>2, e \in Nat
  <2>. QED
    BY <2>1, <2>2, <2>3, Regions DEF Addr
<1>6. cd' = e + size /\ cc' = cc
  <2>1. TypeOK /\ gu_curr_context \in Context /\ "GU_CALL" \in Context /\ "GU_DIRECT" \in Context
    BY DEF IInv, TypeOK, Context
  <2>2. gu_contexts'["GU_DIRECT"].current = cd + size /\ gu_contexts'["GU_CALL"] = gu_contexts["GU_CALL"]
    BY <1>2, <2>1, ListGrows DEF cd
  <2>. QED
    BY <1>1, <2>2 DEF cd, cc
<1>7. mem'[e] = w /\ \A a \in Addr : a # e => mem'[a] = mem[a]
  BY <1>1, <1>2, <1>5 DEF Append1, IInv, TypeOK, cd, current
<1>8. PICK n \in [Nat -> Nat] : \A x \in Nat : n[x] = IF x > e THEN t ELSE m[x]
  <2>. DEFINE f == [x \in Nat |-> IF x > e THEN t ELSE m[x]]
  <2>1. f \in [Nat -> Nat] /\ \A x \in Nat : f[x] = IF x > e THEN t ELSE m[x]
    OBVIOUS
  <2>. HIDE DEF f
  <2>. QED
    BY <2>1
<1>9. \A x \in Nat : (x <= e => n[x] = m[x]) /\ (x > e => n[x] = t)
  BY ONLY <1>8, e \in Nat
<1>10. /\ m[1] = 0 /\ m[e] = l /\ \A a \in 1 .. DirectWords + 1 : m[a] <= l
      /\ \A a \in Region("GU_DIRECT") : a >= e => mem[a] = Stale
  BY <1>1, <1>2, <1>5, Regions DEF Marked, DirectMarks
<1>11. Stale.op = "stale" /\ mem[e] = Stale
  <2>1. e >= e
    BY ONLY e \in Nat
  <2>. QED
    BY <1>5, <1>10, <2>1, Words
<1>12. ASSUME NEW a \in Region("GU_DIRECT"), a # e, mem[a] # Stale
      PROVE  /\ a \in Nat /\ a < e /\ a + 1 <= e /\ mem'[a] = mem[a]
             /\ n[a] = m[a] /\ n[a + 1] = m[a + 1] /\ m[a] <= l /\ m[a + 1] <= l
             /\ m[a] \in Nat /\ m[a + 1] \in Nat
  <2>1. a \in Nat /\ a \in Addr /\ ~(a >= e) /\ a \in 1 .. DirectWords
    BY <1>10, <1>12, Regions
  <2>2. a < e /\ a + 1 <= e /\ a + 1 \in Nat
    BY ONLY <2>1, e \in Nat
  <2>3. n[a] = m[a] /\ n[a + 1] = m[a + 1]
    BY <1>9, <2>1, <2>2
  <2>4. a \in 1 .. DirectWords + 1 /\ a + 1 \in 1 .. DirectWords + 1
    BY <1>2, <1>5, <2>1
  <2>5. m[a] <= l /\ m[a + 1] <= l /\ m[a] \in Nat /\ m[a + 1] \in Nat
    BY <1>10, <2>1, <2>2, <2>4
  <2>. QED
    BY <1>7, <1>12, <2>1, <2>2, <2>3, <2>5
<1>13. ASSUME NEW a \in Region("GU_DIRECT"), a # e, mem[a].op \in {"jump", "bjump"}, mem[a] # Hole
       PROVE  /\ mem[a].arg \in Nat /\ mem[a].arg <= e /\ n[mem[a].arg] = m[mem[a].arg]
              /\ m[mem[a].arg] <= l
  <2>1. mem[a].arg \in Nat
    BY Regions DEF IInv, TypeOK
  <2>2. Leads(a, mem[a].arg)
    BY <1>13 DEF Leads
  <2>3. mem[a].arg \in 1 .. e
    BY <1>1, <1>2, <1>5, <2>1, <2>2 DEF IInv, DirectList
  <2>4. mem[a].arg <= e /\ mem[a].arg \in 1 .. DirectWords + 1
    BY ONLY <1>5, <2>3, e \in Nat
  <2>. QED
    BY <1>9, <1>10, <2>1, <2>4
<1>14. CallMarks(c)'
  <2>1. \A a \in Region("GU_CALL") : mem'[a] = mem[a]
    BY <1>2, <1>5, <1>7, Regions
  <2>. QED
    BY <1>2, <1>6, <2>1, Regions DEF CallMarks, Marked
<1>15. DirectMarks(n)'
  <2>1. n[1] = 0 /\ (phase' = "in" => n[cd'] = t)
    <3>1. 1 <= e /\ e + size \in Nat /\ e + size > e /\ 1 \in Nat
      BY ONLY <1>5, e \in Nat, size \in {1, 2}
    <3>. QED
      BY ONLY <1>6, <1>9, <1>10, <3>1
  <2>2. \A a \in 1 .. DirectWords + 1 : n[a] <= t
    <3>. SUFFICES ASSUME NEW a \in 1 .. DirectWords + 1 PROVE n[a] <= t
      OBVIOUS
    <3>1. a \in Nat /\ m[a] <= l /\ m[a] \in Nat
      BY <1>10
    <3>2. n[a] \in {t, m[a]}
      BY <1>9, <3>1
    <3>. QED
      BY ONLY <1>4, <3>1, <3>2, l \in Nat, t \in Nat
  <2>3. ASSUME NEW a \in Region("GU_DIRECT")
        PROVE  /\ a >= cd' => mem'[a] = Stale
               /\ mem'[a].op \in {"frame", "bjump"} => n[a + 1] = n[a]
               /\ mem'[a].op = "prim" => n[a + 1] = n[a] + 1 /\ issued'[n[a] + 1].id = mem'[a].arg
               /\ mem'[a].op = "jump" => n[mem'[a].arg] = n[a]
               /\ mem'[a].op = "call" =>
                    /\ n[a + 1] = n[a] + r
                    /\ \A j \in 1 .. r : issued'[n[a] + j].id = recorded[j]
               /\ mem'[a].op = "finish" => phase' = "done" /\ n[a] = t
    <3>1. CASE a = e
      <4>1. n[e] = l /\ n[e + 1] = t /\ n[e + size] = t /\ ~(e >= cd')
        <5>1. /\ e <= e /\ e + 1 > e /\ e + size > e /\ e + 1 \in Nat /\ e + size \in Nat
              /\ ~(e >= e + size)
          BY ONLY e \in Nat, size \in {1, 2}
        <5>. QED
          BY ONLY <1>6, <1>9, <1>10, <5>1, e \in Nat
      <4>2. w.op \in {"frame", "bjump"} => t = l
        BY <1>4
      <4>3. w.op = "prim" => t = l + 1 /\ issued'[l + 1].id = w.arg
        BY <1>2, <1>3, <1>4
      <4>4. w.op = "jump" => w.arg = e + size /\ t = l
        BY <1>2, <1>3, <1>4
      <4>5. w.op = "call" => t = l + r /\ \A j \in 1 .. r : issued'[l + j].id = recorded[j]
        BY <1>2, <1>3, <1>4
      <4>6. w.op = "finish" => phase' = "done" /\ t = l
        BY <1>2, <1>3, <1>4
      <4>. QED
        BY <1>7, <3>1, <4>1, <4>2, <4>3, <4>4, <4>5, <4>6
    <3>2. CASE a # e /\ mem[a] = Stale
      <4>1. mem'[a] = Stale
        BY <1>7, <3>2, Regions
      <4>. QED
        BY <1>11, <4>1
    <3>3. CASE a # e /\ mem[a] # Stale
      <4>1. /\ a \in Nat /\ a < e /\ a + 1 <= e /\ mem'[a] = mem[a]
            /\ n[a] = m[a] /\ n[a + 1] = m[a + 1] /\ m[a] <= l /\ m[a + 1] <= l
            /\ m[a] \in Nat /\ m[a + 1] \in Nat
        BY <1>12, <3>3
      <4>2. ~(a >= cd')
        BY <1>6, <4>1
      <4>3. /\ mem[a].op \in {"frame", "bjump"} => m[a + 1] = m[a]
            /\ mem[a].op = "prim" => m[a + 1] = m[a] + 1 /\ issued[m[a] + 1].id = mem[a].arg
            /\ mem[a].op = "jump" => m[mem[a].arg] = m[a]
            /\ mem[a].op = "call" =>
                 /\ m[a + 1] = m[a] + r
                 /\ \A j \in 1 .. r : issued[m[a] + j].id = recorded[j]
            /\ mem[a].op # "finish"
        BY <1>1, <1>2, <1>5 DEF Marked, DirectMarks
      <4>4. mem[a].op = "prim" => issued'[m[a] + 1] = issued[m[a] + 1]
        <5>1. mem[a].op = "prim" => m[a] + 1 \in 1 .. l
          BY ONLY <4>1, <4>3, l \in Nat
        <5>. QED
          BY <1>4, <5>1
      <4>5. mem[a].op = "call" => \A j \in 1 .. r : issued'[m[a] + j] = issued[m[a] + j]
        <5>1. mem[a].op = "call" => \A j \in 1 .. r : m[a] + j \in 1 .. l
          BY ONLY <4>1, <4>3, l \in Nat, r \in Nat
        <5>. QED
          BY <1>4, <5>1
      <4>6. mem[a].op = "jump" => n[mem[a].arg] = m[mem[a].arg]
        <5>1. mem[a].op = "jump" => mem[a] # Hole
          <6>1. Hole.op = "bjump"
            BY DEF Hole, Word
          <6>. QED
            BY ONLY <6>1
        <5>. QED
          BY <1>13, <3>3, <5>1
      <4>. QED
        BY <4>1, <4>2, <4>3, <4>4, <4>5, <4>6
    <3>. QED
      BY <3>1, <3>2, <3>3
  <2>4. Len(issued') = t /\ recorded' = recorded /\ Len(recorded) = r
    BY <1>1, <1>2
  <2>. QED
    BY <2>1, <2>2, <2>3, <2>4 DEF DirectMarks, DirectStart
<1>16. PICK o \in Nat : /\ o = Len(gu_object_stack) /\ gu_object_stack \in Seq(Nat)
                        /\ \A x \in 1 .. o : gu_object_stack[x] \in Open
                        /\ \A a \in Open : a \in Nat /\ \E x \in 1 .. o : a = gu_object_stack[x]
  <2>1. gu_object_stack \in Seq(Nat)
    BY DEF IInv, TypeOK
  <2>2. Len(gu_object_stack) \in Nat /\ DOMAIN gu_object_stack = 1 .. Len(gu_object_stack)
    BY <2>1, LenProperties
  <2>3. \A x \in 1 .. Len(gu_object_stack) : gu_object_stack[x] \in Nat
    BY <2>1, ElementOfSeq
  <2>. QED
    BY <2>1, <2>2, <2>3 DEF Open
<1>17. /\ w # Hole => gu_object_stack' = gu_object_stack
       /\ w = Hole => /\ Len(gu_object_stack') = o + 1 /\ gu_object_stack'[o + 1] = e
                      /\ \A x \in 1 .. o : gu_object_stack'[x] = gu_object_stack[x]
  BY <1>2, <1>16, AppendProperties
<1>18. \A a \in Open : a \in Region("GU_DIRECT") /\ a \in 1 .. e - 1 /\ mem[a] = Hole /\ a # e
  <2>. SUFFICES ASSUME NEW a \in Open
       PROVE  a \in Region("GU_DIRECT") /\ a \in 1 .. e - 1 /\ mem[a] = Hole /\ a # e
    OBVIOUS
  <2>1. PICK k \in 1 .. o : a = gu_object_stack[k]
    BY <1>16
  <2>2. a \in ge_stall .. e - 1 /\ a \in Region("GU_DIRECT")
    BY <1>1, <1>2, <1>16, <2>1 DEF IInv, DirectList
  <2>3. mem[a] = Hole
    BY <1>2, <1>16, <2>1 DEF Marked, ObjectMarks
  <2>4. a \in 1 .. e - 1 /\ a # e
    <3>1. ge_stall \in 1 .. e
      BY <1>5
    <3>. QED
      BY ONLY <2>2, <3>1, e \in Nat
  <2>. QED
    BY <2>2, <2>3, <2>4
<1>19. ObjectMarks(n)'
  <2>1. ASSUME NEW k \in 1 .. Len(gu_object_stack') PROVE mem'[gu_object_stack'[k]] = Hole
    <3>1. CASE w = Hole /\ k = Len(gu_object_stack) + 1
      <4>1. gu_object_stack'[k] = e
        BY <1>17, <1>16, <3>1
      <4>. QED
        BY <1>7, <3>1, <4>1
    <3>2. CASE k \in 1 .. Len(gu_object_stack)
      <4>1. gu_object_stack'[k] = gu_object_stack[k]
        BY <1>17, <1>16, <3>2
      <4>2. gu_object_stack[k] \in Open
        BY <3>2, LenProperties DEF Open, IInv, TypeOK
      <4>. QED
        BY <1>7, <1>18, <4>1, <4>2, Regions
    <3>. QED
      <4>1. k \in 1 .. o \/ (w = Hole /\ k \in 1 .. o + 1)
        BY <1>17, <1>16, <2>1
      <4>2. k \in 1 .. o \/ (w = Hole /\ k = o + 1)
        BY ONLY <4>1, o \in Nat
      <4>. QED
        BY <1>16, <3>1, <3>2, <4>2
  <2>2. ASSUME NEW j \in 1 .. Len(gu_object_stack'), NEW k \in 1 .. Len(gu_object_stack'), j # k
        PROVE  gu_object_stack'[j] # gu_object_stack'[k]
    <3>1. gu_object_stack \in Seq(Nat) /\ Len(gu_object_stack) \in Nat
      BY LenProperties DEF IInv, TypeOK
    <3>2. \A x, y \in 1 .. Len(gu_object_stack) : x # y => gu_object_stack[x] # gu_object_stack[y]
      BY <1>2, <1>5 DEF Marked, ObjectMarks
    <3>3. \A x \in 1 .. Len(gu_object_stack) : gu_object_stack[x] # e
      <4>1. \A x \in 1 .. Len(gu_object_stack) : gu_object_stack[x] \in Open
        BY <1>16
      <4>. QED
        BY <1>18, <4>1
    <3>4. CASE w # Hole
      BY <1>17, <2>2, <3>2, <3>4
    <3>5. CASE w = Hole
      <4>1. /\ Len(gu_object_stack') = Len(gu_object_stack) + 1
            /\ gu_object_stack'[Len(gu_object_stack) + 1] = e
            /\ \A x \in 1 .. Len(gu_object_stack) : gu_object_stack'[x] = gu_object_stack[x]
        BY <1>17, <1>16, <3>5
      <4>. QED
        <5>0. j \in 1 .. o + 1 /\ k \in 1 .. o + 1
          BY <1>16, <2>2, <4>1
        <5>1. j \in 1 .. o \/ j = o + 1
          BY ONLY <5>0, o \in Nat
        <5>2. k \in 1 .. o \/ k = o + 1
          BY ONLY <5>0, o \in Nat
        <5>3. CASE j \in 1 .. o /\ k \in 1 .. o
          BY <1>16, <2>2, <3>2, <4>1, <5>3
        <5>4. CASE j = o + 1 /\ k \in 1 .. o
          BY <1>16, <3>3, <4>1, <5>4
        <5>5. CASE j \in 1 .. o /\ k = o + 1
          BY <1>16, <3>3, <4>1, <5>5
        <5>. QED
          BY <2>2, <5>1, <5>2, <5>3, <5>4, <5>5
    <3>. QED
      BY <3>4, <3>5
  <2>3. ASSUME NEW k \in 1 .. t
        PROVE  \/ k \in 1 .. l /\ issued'[k] = issued[k]
               \/ k > l /\ issued'[k].within = Open
    <3>1. k \in 1 .. l \/ (k > l /\ k \in l + 1 .. t)
      BY ONLY <1>4, k \in 1 .. t, l \in Nat, t \in Nat
    <3>. QED
      BY <1>4, <3>1
  <2>4. \A k \in 1 .. l : issued[k].within \subseteq 1 .. e - 1
    BY <1>1, <1>2, <1>5 DEF Marked, ObjectMarks
  <2>5. ASSUME NEW k \in 1 .. t PROVE issued'[k].within \subseteq 1 .. cd' - 1
    <3>1. 1 .. e - 1 \subseteq 1 .. cd' - 1
      BY <1>1, <1>6
    <3>2. Open \subseteq 1 .. e - 1
      BY <1>18
    <3>. QED
      BY <2>3, <2>4, <3>1, <3>2
  <2>6. ASSUME NEW a \in Region("GU_DIRECT"), mem'[a].op = "bjump"
        PROVE  /\ mem'[a] # Hole => n[a] <= n[mem'[a].arg]
               /\ \A k \in 1 .. t :
                    a \in issued'[k].within <=> n[a] < k /\ (mem'[a] # Hole => k <= n[mem'[a].arg])
    <3>1. CASE a = e
      <4>1. w = Hole /\ mem'[a] = Hole /\ n[e] = l /\ t = l
        <5>1. e <= e
          BY ONLY e \in Nat
        <5>. QED
          BY <1>3, <1>4, <1>7, <1>9, <1>10, <2>6, <3>1, <5>1
      <4>2. ASSUME NEW k \in 1 .. t PROVE e \notin issued'[k].within /\ ~(n[e] < k)
        <5>1. k \in 1 .. l /\ issued'[k] = issued[k] /\ ~(l < k)
          <6>1. ~(l < k)
            BY ONLY <4>1, k \in 1 .. t, l \in Nat
          <6>. QED
            BY <2>3, <4>1, <6>1
        <5>2. e \notin 1 .. e - 1
          BY <1>1
        <5>. QED
          BY <2>4, <4>1, <5>1, <5>2
      <4>. QED
        BY <3>1, <4>1, <4>2
    <3>2. CASE a # e
      <4>0. mem'[a] = mem[a] /\ mem[a].op = "bjump" /\ mem[a] # Stale
        BY <1>7, <1>11, <2>6, <3>2, Regions
      <4>1. n[a] = m[a] /\ m[a] <= l /\ m[a] \in Nat
        BY <1>12, <3>2, <4>0
      <4>2. mem[a] # Hole => /\ n[mem[a].arg] = m[mem[a].arg] /\ m[mem[a].arg] <= l
                             /\ m[mem[a].arg] \in Nat
        BY <1>13, <3>2, <4>0
      <4>3. /\ mem[a] # Hole => m[a] <= m[mem[a].arg]
            /\ \A k \in 1 .. l :
                 a \in issued[k].within <=> m[a] < k /\ (mem[a] # Hole => k <= m[mem[a].arg])
        BY <1>1, <1>2, <1>5, <4>0 DEF Marked, ObjectMarks
      <4>4. a \in Open <=> mem[a] = Hole
        <5>1. mem[a] = Hole => \E x \in 1 .. Len(gu_object_stack) : gu_object_stack[x] = a
          BY <1>2 DEF IInv, DirectList
        <5>. QED
          BY <1>18, <1>16, <5>1
      <4>5. ASSUME NEW k \in 1 .. t
            PROVE  a \in issued'[k].within <=> m[a] < k /\ (mem[a] # Hole => k <= m[mem[a].arg])
        <5>1. CASE k \in 1 .. l /\ issued'[k] = issued[k]
          BY <4>3, <5>1
        <5>2. CASE k > l /\ issued'[k].within = Open
          <6>1. k \in Nat /\ m[a] < k
            BY ONLY <4>1, <5>2, k \in 1 .. t, l \in Nat
          <6>2. mem[a] # Hole => ~(k <= m[mem[a].arg])
            <7>1. k \in Nat /\ l \in Nat /\ k > l
              BY <1>1, <5>2
            <7>. QED
              BY ONLY <4>2, <7>1
          <6>. QED
            BY <4>4, <5>2, <6>1, <6>2
        <5>. QED
          BY <2>3, <5>1, <5>2
      <4>. QED
        BY <4>0, <4>1, <4>2, <4>3, <4>5
    <3>. QED
      BY <3>1, <3>2
  <2>. QED
    BY <1>1, <2>1, <2>2, <2>5, <2>6 DEF ObjectMarks
<1>20. PICK p \in Nat : p = Passed(m, c) /\ p <= l
  BY <1>1, WhereGeIs
<1>21. GeMarks(p)
  BY <1>20 DEF Marked
<1>22. ge_pc # 0 /\ ge_pc \in Nat /\ ge_ret \in Nat
  BY <1>2, <1>21 DEF GeMarks, IInv, TypeOK
<1>23. Passed(n, c)' = p
  <2>1. CASE ge_ret = 0
    <3>1. ge_pc <= e
      BY <1>2, <1>5, <1>22, <2>1 DEF IInv, GePlace, Good
    <3>2. n[ge_pc] = m[ge_pc]
      BY <1>9, <1>22, <3>1
    <3>. QED
      BY <1>2, <1>20, <1>22, <2>1, <3>2 DEF Passed
  <2>2. CASE ge_ret # 0
    <3>1. ge_ret <= e /\ ge_ret - 1 \in Nat /\ ge_ret - 1 <= e
      <4>1. ge_ret \in 1 .. ge_stall /\ ge_stall \in 1 .. e
        BY <1>5, <2>2 DEF IInv, GePlace, Good
      <4>. QED
        BY ONLY <4>1, e \in Nat
    <3>2. n[ge_ret - 1] = m[ge_ret - 1]
      BY <1>9, <3>1
    <3>. QED
      BY <1>2, <1>20, <1>22, <2>2, <3>2 DEF Passed
  <2>. QED
    BY <2>1, <2>2
<1>24. issued \in Seq(DrawOf)
  BY DEF DrawType, DrawOf
<1>25. drawn' = Seen(issued', hidden, p)
  <2>1. p <= l /\ l <= t
    BY <1>4, <1>20
  <2>2. p <= t /\ 1 .. p \subseteq 1 .. l
    BY ONLY <2>1, l \in Nat, t \in Nat, p \in Nat
  <2>3. PICK d \in Seq(DrawOf) : d = issued'
    BY DEF Adds
  <2>4. p <= Len(issued) /\ p <= Len(d) /\ \A k \in 1 .. p : issued[k] = d[k]
    BY <1>1, <1>4, <2>1, <2>2, <2>3
  <2>5. \A k \in 1 .. p : InSight(issued[k], hidden) <=> InSight(issued[k], hidden)
    OBVIOUS
  <2>6. Seen(issued, hidden, p) = Seen(d, hidden, p)
    BY <1>24, <2>3, <2>4, <2>5, SeenSame
  <2>. QED
    BY <1>2, <1>21, <2>3, <2>6 DEF GeMarks
<1>26. \A h \in hidden : h \in Region("GU_DIRECT") /\ mem[h].op = "bjump" /\ mem[h] # Hole
  BY <1>2, <1>5, <1>21 DEF GeMarks
<1>27. ASSUME NEW k \in p + 1 .. t PROVE issued'[k].within \cap hidden = {}
  <2>1. CASE k <= l
    <3>1. k \in 1 .. l /\ k \in p + 1 .. l
      BY <1>20, <2>1
    <3>. QED
      BY <1>1, <1>4, <1>21, <3>1 DEF GeMarks
  <2>2. CASE k > l
    <3>1. k \in l + 1 .. t
      BY <1>1, <1>20, <2>2
    <3>. QED
      BY <1>4, <1>18, <1>26, <3>1
  <2>. QED
    BY ONLY <2>1, <2>2, k \in p + 1 .. t, l \in Nat, t \in Nat, p \in Nat
<1>28. GeMarks(p)'
  <2>1. ge_ret' # 0 => ge_ret' - 1 \in Region("GU_DIRECT") /\ mem'[ge_ret' - 1].op = "call"
    <3>1. ge_ret # 0 => ge_ret - 1 \in Region("GU_DIRECT") /\ mem[ge_ret - 1].op = "call"
      BY <1>21 DEF GeMarks
    <3>. QED
      BY <1>2, <1>7, <1>11, <3>1, Regions
  <2>2. \A h \in hidden : mem'[h] = mem[h]
    BY <1>7, <1>11, <1>26, Regions
  <2>3. p <= t
    BY ONLY <1>4, <1>20, l \in Nat, t \in Nat, p \in Nat
  <2>. QED
    BY <1>1, <1>2, <1>22, <1>25, <1>26, <1>27, <2>1, <2>2, <2>3 DEF GeMarks
<1>29. Marked(n, c)'
  BY <1>14, <1>15, <1>19, <1>23, <1>28 DEF Marked, GeMarks
<1>. QED
  BY <1>29

(* While it is not called, the direct list does not depend on the called   *)
(* one.                                                                    *)
LEMMA DirectStays ==
  ASSUME NEW m, DirectMarks(m), UNCHANGED <<phase, issued, cd>>,
         \A a \in Region("GU_DIRECT") : mem'[a] = mem[a],
         phase # "out" => \A a \in Region("GU_DIRECT") : mem[a].op # "call"
  PROVE  DirectMarks(m)'
<1>1. CASE phase = "out"
  BY <1>1 DEF DirectMarks
<1>2. CASE phase # "out"
  <2>1. ASSUME NEW a \in Region("GU_DIRECT")
        PROVE  /\ a >= cd => mem'[a] = Stale
               /\ mem'[a].op \in {"frame", "bjump"} => m[a + 1] = m[a]
               /\ mem'[a].op = "prim" => m[a + 1] = m[a] + 1 /\ issued[m[a] + 1].id = mem'[a].arg
               /\ mem'[a].op = "jump" => m[mem'[a].arg] = m[a]
               /\ mem'[a].op # "call"
               /\ mem'[a].op = "finish" => phase = "done" /\ m[a] = Len(issued)
    <3>1. mem'[a] = mem[a] /\ mem[a].op # "call"
      BY <1>2
    <3>. QED
      BY <1>2, <3>1 DEF DirectMarks
  <2>2. /\ m[DirectStart] = 0 /\ (phase = "in" => m[cd] = Len(issued))
        /\ \A a \in 1 .. DirectWords + 1 : m[a] <= Len(issued)
    BY <1>2 DEF DirectMarks
  <2>. QED
    BY <2>1, <2>2 DEF DirectMarks
<1>. QED
  BY <1>1, <1>2

(* A word, and the draw it may stand for, go to the end of the called list. *)
Records(w, size) ==
  /\ gu_curr_context = "GU_CALL" /\ Append1(w, size)
  /\ w.op = "prim" => size = 1 /\ recorded' = Append(recorded, w.arg)
  /\ w.op # "prim" => recorded' = recorded
  /\ w.op = "jump" => w.arg = cc + size
  /\ gu_curr_context' = IF w.op = "ret" THEN "GU_DIRECT" ELSE "GU_CALL"
  /\ UNCHANGED <<gu_object_stack, phase, issued, drawn, hidden, ge_pc, ge_ret>>

RecordedWord == [op : {"prim", "jump", "ret"}, arg : Nat]

LEMMA RecordMarks ==
  ASSUME IInv, DrawType, NEW m \in [Nat -> Nat], NEW c \in [Nat -> Nat], Marked(m, c),
         NEW w \in RecordedWord, NEW size \in {1, 2}, Records(w, size)
  PROVE  \E d \in [Nat -> Nat] : Marked(m, d)'
<1>1. PICK e \in Nat, r \in Nat, t \in Nat :
        /\ e = cc /\ r = Len(recorded) /\ t = Len(recorded')
        /\ \A k \in 1 .. r : recorded'[k] = recorded[k]
        /\ w.op = "prim" => t = r + 1 /\ recorded'[r + 1] = w.arg
        /\ w.op # "prim" => t = r
  <2>1. recorded \in Seq(Nat) /\ w.arg \in Nat
    BY DEF DrawType, RecordedWord
  <2>2. Len(recorded) \in Nat /\ Len(recorded) + 1 \in Nat /\ cc \in Nat
    <3>1. Len(recorded) \in Nat
      BY <2>1, LenProperties
    <3>2. cc \in Nat
      BY DEF IInv, TypeOK, cc, Context
    <3>. QED
      BY <3>1, <3>2
  <2>3. CASE w.op = "prim"
    <3>1. recorded' = Append(recorded, w.arg)
      BY <2>3 DEF Records
    <3>2. /\ Len(recorded') = Len(recorded) + 1 /\ recorded'[Len(recorded) + 1] = w.arg
          /\ \A k \in 1 .. Len(recorded) : recorded'[k] = recorded[k]
      BY <2>1, <3>1, AppendProperties
    <3>. QED
      BY <2>2, <2>3, <3>2
  <2>4. CASE w.op # "prim"
    <3>1. recorded' = recorded
      BY <2>4 DEF Records
    <3>. QED
      BY <2>2, <2>4, <3>1
  <2>. QED
    BY <2>3, <2>4
<1>2. /\ gu_curr_context = "GU_CALL" /\ Append1(w, size)
      /\ gu_curr_context' = (IF w.op = "ret" THEN "GU_DIRECT" ELSE "GU_CALL")
      /\ UNCHANGED <<gu_object_stack, phase, issued, drawn, hidden, ge_pc, ge_ret>>
  BY DEF Records
<1>3. /\ w.op \in {"prim", "jump", "ret"}
      /\ w.op = "prim" => size = 1 /\ t = r + 1
      /\ w.op # "prim" => t = r
      /\ w.op = "jump" => w.arg = e + size
  BY <1>1 DEF Records, RecordedWord
<1>4. /\ \A k \in 1 .. r : recorded'[k] = recorded[k]
      /\ w.op = "prim" => recorded'[r + 1] = w.arg
  BY <1>1
<1>5. r <= t
  BY ONLY <1>3, r \in Nat
<1>6. /\ e \in Region("GU_CALL") /\ e \in Addr /\ CallStart <= e /\ CallStart \in Nat
      /\ phase # "done" /\ ~lent /\ ge_ret = 0
  <2>1. e \in Region("GU_CALL") /\ phase # "done" /\ ~lent /\ ge_ret = 0
    BY <1>1, <1>2 DEF IInv, Places, GePlace
  <2>2. e \in DirectWords + 1 .. DirectWords + CallWords /\ CallStart = DirectWords + 1
        /\ DirectWords \in Nat /\ CallWords \in Nat
    BY <2>1, Regions
  <2>3. DirectWords + 1 <= e /\ DirectWords + 1 \in Nat
    BY ONLY <2>2, e \in Nat
  <2>. QED
    BY <2>1, <2>2, <2>3, Regions
<1>7. cc' = e + size /\ cd' = cd
  <2>1. TypeOK /\ gu_curr_context \in Context /\ "GU_CALL" \in Context /\ "GU_DIRECT" \in Context
    BY DEF IInv, TypeOK, Context
  <2>2. gu_contexts'["GU_CALL"].current = cc + size /\ gu_contexts'["GU_DIRECT"] = gu_contexts["GU_DIRECT"]
    BY <1>2, <2>1, ListGrows DEF cc
  <2>. QED
    BY <1>1, <2>2 DEF cd, cc
<1>8. mem'[e] = w /\ \A a \in Addr : a # e => mem'[a] = mem[a]
  BY <1>1, <1>2, <1>6 DEF Append1, IInv, TypeOK, cc, current
<1>9. \A a \in Region("GU_DIRECT") : mem'[a] = mem[a]
  BY <1>6, <1>8, Regions
<1>10. PICK d \in [Nat -> Nat] : \A x \in Nat : d[x] = IF x > e THEN t ELSE c[x]
  <2>. DEFINE f == [x \in Nat |-> IF x > e THEN t ELSE c[x]]
  <2>1. f \in [Nat -> Nat] /\ \A x \in Nat : f[x] = IF x > e THEN t ELSE c[x]
    OBVIOUS
  <2>. HIDE DEF f
  <2>. QED
    BY <2>1
<1>11. \A x \in Nat : (x <= e => d[x] = c[x]) /\ (x > e => d[x] = t)
  BY ONLY <1>10, e \in Nat
<1>12. c[CallStart] = 0 /\ c[e] = r
  BY <1>1, <1>2 DEF Marked, CallMarks
<1>13. CallMarks(d)'
  <2>1. d[CallStart] = 0
    BY <1>6, <1>11, <1>12
  <2>2. d[cc'] = t /\ d[e] = r /\ d[e + 1] = t
    <3>1. e + size > e /\ e + size \in Nat /\ e <= e /\ e + 1 > e /\ e + 1 \in Nat
      BY ONLY e \in Nat, size \in {1, 2}
    <3>. QED
      BY ONLY <1>7, <1>11, <1>12, <3>1, e \in Nat
  <2>3. ASSUME NEW a \in Region("GU_CALL")
        PROVE  /\ a >= cc' => mem'[a] = Stale
               /\ mem'[a].op = "prim" => /\ d[a + 1] = d[a] + 1 /\ d[a] < t
                                         /\ recorded'[d[a] + 1] = mem'[a].arg
               /\ mem'[a].op = "jump" => /\ d[mem'[a].arg] = d[a] /\ mem'[a].arg <= cc'
               /\ mem'[a].op = "ret" => gu_curr_context' # "GU_CALL" /\ d[a] = t
    <3>1. CASE a = e
      <4>1. ~(e >= e + size) /\ e + size <= e + size
        BY ONLY e \in Nat, size \in {1, 2}
      <4>2. w.op = "prim" => r < t
        BY ONLY <1>3, r \in Nat
      <4>. QED
        BY <1>2, <1>3, <1>4, <1>7, <1>8, <2>2, <3>1, <4>1, <4>2
    <3>2. CASE a # e
      <4>1. mem'[a] = mem[a] /\ a \in Nat
        BY <1>8, <3>2, Regions
      <4>2. /\ a >= e => mem[a] = Stale
            /\ mem[a].op = "prim" => /\ c[a + 1] = c[a] + 1 /\ c[a] < r
                                     /\ recorded[c[a] + 1] = mem[a].arg
            /\ mem[a].op = "jump" => c[mem[a].arg] = c[a] /\ mem[a].arg <= e
            /\ mem[a].op # "ret"
        BY <1>1, <1>2 DEF Marked, CallMarks
      <4>3. CASE a >= e
        <5>1. mem'[a] = Stale /\ Stale.op = "stale"
          BY <4>1, <4>2, <4>3 DEF Stale, Word
        <5>. QED
          BY <5>1
      <4>4. CASE ~(a >= e)
        <5>1. a <= e /\ a + 1 <= e /\ a + 1 \in Nat /\ ~(a >= e + size)
          BY ONLY <4>1, <4>4, a \in Nat, e \in Nat, size \in {1, 2}
        <5>2. d[a] = c[a] /\ d[a + 1] = c[a + 1]
          BY <1>11, <4>1, <5>1
        <5>3. mem[a].arg \in Nat
          BY Regions DEF IInv, TypeOK
        <5>4. mem[a].op = "jump" => d[mem[a].arg] = c[mem[a].arg] /\ mem[a].arg <= e + size
          BY <1>11, <4>2, <5>3
        <5>5. mem[a].op = "prim" => c[a] < t /\ c[a] + 1 \in 1 .. r
          <6>1. c[a] \in Nat
            BY <4>1
          <6>. QED
            BY ONLY <1>5, <4>2, <6>1, r \in Nat, t \in Nat
        <5>. QED
          BY <1>4, <1>7, <4>1, <4>2, <5>1, <5>2, <5>4, <5>5
      <4>. QED
        BY <4>3, <4>4
    <3>. QED
      BY <3>1, <3>2
  <2>. QED
    BY <1>1, <2>1, <2>2, <2>3 DEF CallMarks
<1>14. DirectMarks(m)'
  <2>1. phase # "out" => \A a \in Region("GU_DIRECT") : mem[a].op # "call"
    BY <1>6 DEF IInv, DirectList
  <2>2. UNCHANGED <<phase, issued, cd>> /\ DirectMarks(m)
    BY <1>2, <1>7 DEF Marked
  <2>. QED
    BY <1>9, <2>1, <2>2, DirectStays
<1>15. ObjectMarks(m)'
  <2>1. phase # "out" =>
          \A k \in 1 .. Len(gu_object_stack) : mem'[gu_object_stack[k]] = mem[gu_object_stack[k]]
    BY <1>9 DEF IInv, DirectList
  <2>. QED
    BY <1>2, <1>7, <1>9, <2>1, Regions DEF ObjectMarks, Marked
<1>16. GeMarks(Passed(m, d))'
  <2>1. PICK p : p = Passed(m, c)
    OBVIOUS
  <2>2. Passed(m, d)' = p
    BY <1>2, <1>6, <2>1 DEF Passed
  <2>3. GeMarks(p)
    BY <2>1 DEF Marked
  <2>4. GeMarks(p)'
    BY <1>2, <1>6, <1>9, <2>3 DEF GeMarks
  <2>. QED
    BY <2>2, <2>4 DEF GeMarks
<1>. QED
  BY <1>13, <1>14, <1>15, <1>16 DEF Marked

-----------------------------------------------------------------------------
Remarked == DrawType /\ \E m \in [Nat -> Nat], c \in [Nat -> Nat] : Marked(m, c)

LEMMA OpenType == ASSUME IInv PROVE Open \in SUBSET Nat
<1>1. gu_object_stack \in Seq(Nat)
  BY DEF IInv, TypeOK
<1>2. /\ DOMAIN gu_object_stack = 1 .. Len(gu_object_stack)
      /\ \A x \in 1 .. Len(gu_object_stack) : gu_object_stack[x] \in Nat
  BY <1>1, LenProperties, ElementOfSeq
<1>. QED
  BY <1>2 DEF Open

LEMMA WordIs ==
  ASSUME NEW o \in Ops, NEW x \in Nat
  PROVE  /\ Word(o, x).op = o /\ Word(o, x).arg = x
         /\ o \in {"prim", "jump", "bjump", "call", "finish"} => Word(o, x) \in AddedWord
         /\ o \in {"prim", "jump", "ret"} => Word(o, x) \in RecordedWord
         /\ o # "bjump" => Word(o, x) # Hole
<1>1. Word(o, x).op = o /\ Word(o, x).arg = x /\ Hole.op = "bjump"
  BY DEF Word, Hole
<1>2. o # "bjump" => Word(o, x) # Hole
  BY ONLY <1>1
<1>. QED
  BY <1>1, <1>2 DEF Word, AddedWord, RecordedWord

LEMMA Lengths ==
  ASSUME DrawType
  PROVE  issued \in Seq(DrawOf) /\ Len(issued) \in Nat /\ Len(issued) + 1 .. Len(issued) = {}
         /\ Len(issued) <= Len(issued)
<1>1. issued \in Seq(DrawOf)
  BY DEF DrawType, DrawOf
<1>2. PICK l \in Nat : l = Len(issued)
  BY <1>1, LenProperties
<1>3. l + 1 .. l = {} /\ l <= l
  OBVIOUS
<1>. QED
  BY <1>1, <1>2, <1>3

LEMMA DrawMarks ==
  ASSUME IInv, DrawType, NEW m \in [Nat -> Nat], NEW c \in [Nat -> Nat], Marked(m, c), Draw
  PROVE  Remarked'
<1>1. PICK x \in Nat : x = current
  BY DEF IInv, TypeOK, current
<1>2. PICK w : w = Word("prim", x) /\ w.op = "prim" /\ w.arg = x
               /\ w \in AddedWord /\ w \in RecordedWord /\ w # Hole
  BY WordIs DEF Ops
<1>3. CASE gu_curr_context = "GU_DIRECT"
  <2>1. /\ phase = "in" /\ Append1(w, 1) /\ x = cd /\ gu_object_stack' = gu_object_stack
        /\ phase' = "in" /\ UNCHANGED <<gu_curr_context, recorded, drawn, hidden, ge_pc, ge_ret>>
    BY <1>1, <1>2, <1>3 DEF Draw, UpdateStallAddr, current, cd
  <2>2. PICK i \in DrawOf : i = [id |-> x, within |-> Open] /\ i.id = x /\ i.within = Open
    <3>1. [id |-> x, within |-> Open] \in DrawOf
      BY OpenType DEF DrawOf
    <3>. QED
      BY <3>1
  <2>3. issued' = Append(issued, i) /\ issued \in Seq(DrawOf)
    BY <1>1, <1>3, <2>2 DEF Draw, DrawType, DrawOf
  <2>4. /\ issued' \in Seq(DrawOf) /\ Len(issued') = Len(issued) + 1 /\ Len(issued) \in Nat
        /\ issued'[Len(issued) + 1] = i /\ \A k \in 1 .. Len(issued) : issued'[k] = issued[k]
    BY <2>3, AppendProperties, LenProperties
  <2>5. Adds(w, 1)
    <3>1. PICK l \in Nat : l = Len(issued)
      BY <2>4
    <3>2. l <= l + 1 /\ \A k \in l + 1 .. l + 1 : k = l + 1
      BY ONLY l \in Nat
    <3>3. /\ Len(issued) <= Len(issued')
          /\ \A k \in Len(issued) + 1 .. Len(issued') : issued'[k].within = Open
      BY <2>2, <2>4, <3>1, <3>2
    <3>. QED
      BY <1>2, <1>3, <2>1, <2>2, <2>4, <3>3 DEF Adds
  <2>6. \E n \in [Nat -> Nat] : Marked(n, c)'
    BY <1>2, <2>5, AppendMarks
  <2>7. DrawType'
    BY <2>1, <2>4 DEF DrawType, DrawOf
  <2>. QED
    BY <2>6, <2>7 DEF Remarked
<1>4. CASE gu_curr_context = "GU_CALL"
  <2>1. Records(w, 1)
    BY <1>1, <1>2, <1>4 DEF Draw, UpdateStallAddr, Records
  <2>2. \E d \in [Nat -> Nat] : Marked(m, d)'
    BY <1>2, <2>1, RecordMarks
  <2>3. issued' = issued /\ recorded' = Append(recorded, x)
    BY <1>1, <1>4 DEF Draw
  <2>4. DrawType'
    BY <2>3, AppendProperties DEF DrawType
  <2>. QED
    BY <2>2, <2>4 DEF Remarked
<1>. QED
  BY <1>3, <1>4 DEF IInv, TypeOK, Context

LEMMA GetMemoryMarks ==
  ASSUME IInv, DrawType, NEW m \in [Nat -> Nat], NEW c \in [Nat -> Nat], Marked(m, c), GetMemory
  PROVE  Remarked'
<1>1. PICK x \in Nat : x = current
  BY DEF IInv, TypeOK, current
<1>2. PICK w : w = Word("jump", x + 2) /\ w.op = "jump" /\ w.arg = x + 2
               /\ w \in AddedWord /\ w \in RecordedWord /\ w # Hole
  <2>1. PICK y \in Nat : y = x + 2
    OBVIOUS
  <2>2. PICK w : w = Word("jump", y) /\ w.op = "jump" /\ w.arg = y
                 /\ w \in AddedWord /\ w \in RecordedWord /\ w # Hole
    BY WordIs DEF Ops
  <2>. QED
    BY <2>1, <2>2, Zenon
<1>3. /\ Append1(w, 2) /\ gu_object_stack' = gu_object_stack
      /\ UNCHANGED <<phase, gu_curr_context, recorded, issued, drawn, hidden, ge_pc, ge_ret>>
  BY <1>1, <1>2 DEF GetMemory, program
<1>4. DrawType'
  BY <1>3 DEF DrawType
<1>5. CASE gu_curr_context = "GU_DIRECT"
  <2>1. phase = "in" /\ x = cd
    BY <1>1, <1>5 DEF GetMemory, current, cd
  <2>3. Adds(w, 2)
    BY <1>2, <1>3, <1>5, <2>1, Lengths DEF Adds
  <2>. QED
    BY <1>2, <1>4, <2>3, AppendMarks DEF Remarked
<1>6. CASE gu_curr_context = "GU_CALL"
  <2>1. x = cc
    BY <1>1, <1>6 DEF current, cc
  <2>2. Records(w, 2)
    BY <1>2, <1>3, <1>6, <2>1 DEF Records
  <2>. QED
    BY <1>2, <1>4, <2>2, RecordMarks DEF Remarked
<1>. QED
  BY <1>5, <1>6 DEF IInv, TypeOK, Context

LEMMA BeginObjectMarks ==
  ASSUME IInv, DrawType, NEW m \in [Nat -> Nat], NEW c \in [Nat -> Nat], Marked(m, c), BeginObject
  PROVE  Remarked'
<1>1. PICK w : w = Hole /\ w.op = "bjump" /\ w \in AddedWord
  BY WordIs DEF Hole, Ops
<1>2. /\ phase = "in" /\ gu_curr_context = "GU_DIRECT" /\ Append1(w, 1)
      /\ gu_object_stack' = Append(gu_object_stack, cd)
      /\ UNCHANGED <<phase, gu_curr_context, recorded, issued, drawn, hidden, ge_pc, ge_ret>>
  BY <1>1 DEF BeginObject, current, cd, ge, program
<1>4. Adds(w, 1)
  BY <1>1, <1>2, Lengths DEF Adds
<1>5. DrawType'
  BY <1>2 DEF DrawType
<1>. QED
  BY <1>1, <1>4, <1>5, AppendMarks DEF Remarked

LEMMA CallListMarks ==
  ASSUME IInv, DrawType, NEW m \in [Nat -> Nat], NEW c \in [Nat -> Nat], Marked(m, c), CallList
  PROVE  Remarked'
<1>1. PICK w : w = Word("call", CallStart) /\ w.op = "call" /\ w \in AddedWord /\ w # Hole
  BY WordIs, Regions DEF Ops
<1>2. PICK s : s = [k \in DOMAIN recorded |-> [id |-> recorded[k], within |-> Open]]
  OBVIOUS
<1>3. /\ phase = "in" /\ gu_curr_context = "GU_DIRECT" /\ Append1(w, 1)
      /\ issued' = issued \o s /\ gu_object_stack' = gu_object_stack
      /\ UNCHANGED <<phase, gu_curr_context, recorded, drawn, hidden, ge_pc, ge_ret>>
  BY <1>1, <1>2 DEF CallList, UpdateStallAddr
<1>4. PICK r \in Nat : /\ r = Len(recorded) /\ DOMAIN recorded = 1 .. r
                       /\ \A k \in 1 .. r : recorded[k] \in Nat
  BY LenProperties, ElementOfSeq DEF DrawType
<1>5. /\ s \in Seq(DrawOf) /\ Len(s) = r
      /\ \A k \in 1 .. r : s[k].id = recorded[k] /\ s[k].within = Open
  <2>1. \A k \in 1 .. r : [id |-> recorded[k], within |-> Open] \in DrawOf
    BY <1>4, OpenType DEF DrawOf
  <2>2. s \in [1 .. r -> DrawOf]
    BY <1>2, <1>4, <2>1
  <2>3. s \in Seq(DrawOf) /\ Len(s) = r
    BY <2>2
  <2>. QED
    BY <1>2, <1>4, <2>3
<1>6. issued \in Seq(DrawOf) /\ Len(issued) \in Nat
  BY LenProperties DEF DrawType, DrawOf
<1>7. PICK l \in Nat : l = Len(issued)
  BY <1>6
<1>8. /\ issued' \in Seq(DrawOf) /\ Len(issued') = l + r
      /\ \A k \in 1 .. l + r : issued'[k] = IF k <= l THEN issued[k] ELSE s[k - l]
  BY <1>3, <1>5, <1>6, <1>7, ConcatProperties
<1>9. \A k \in 1 .. l : issued'[k] = issued[k]
  <2>1. \A k \in 1 .. l : k \in 1 .. l + r /\ k <= l
    BY ONLY l \in Nat, r \in Nat
  <2>. QED
    BY <1>8, <2>1
<1>10. \A j \in 1 .. r : issued'[l + j] = s[j]
  <2>1. \A j \in 1 .. r : l + j \in 1 .. l + r /\ ~(l + j <= l) /\ (l + j) - l = j
    BY ONLY l \in Nat, r \in Nat
  <2>. QED
    BY <1>8, <2>1
<1>11. \A k \in l + 1 .. l + r : issued'[k].within = Open
  <2>1. \A k \in l + 1 .. l + r : k - l \in 1 .. r /\ l + (k - l) = k
    BY ONLY l \in Nat, r \in Nat
  <2>. SUFFICES ASSUME NEW k \in l + 1 .. l + r PROVE issued'[k].within = Open
    OBVIOUS
  <2>2. PICK j \in 1 .. r : j = k - l /\ l + j = k
    BY <2>1
  <2>. QED
    BY <1>5, <1>10, <2>2
<1>12. l <= l + r
  BY ONLY l \in Nat, r \in Nat
<1>13. Adds(w, 1)
  BY <1>1, <1>3, <1>4, <1>5, <1>7, <1>8, <1>9, <1>10, <1>11, <1>12 DEF Adds
<1>14. DrawType'
  BY <1>3, <1>8 DEF DrawType, DrawOf
<1>. QED
  BY <1>1, <1>13, <1>14, AppendMarks DEF Remarked

LEMMA FinishMarks ==
  ASSUME IInv, DrawType, NEW m \in [Nat -> Nat], NEW c \in [Nat -> Nat], Marked(m, c),
         FinishDirect \/ FinishCall
  PROVE  Remarked'
<1>1. CASE FinishDirect
  <2>1. PICK w : w = Word("finish", 0) /\ w.op = "finish" /\ w \in AddedWord /\ w # Hole
    BY WordIs DEF Ops
  <2>2. /\ phase = "in" /\ gu_curr_context = "GU_DIRECT" /\ Append1(w, 1)
        /\ gu_object_stack' = gu_object_stack /\ phase' = "done"
        /\ UNCHANGED <<recorded, issued, drawn, hidden, ge_pc, ge_ret>>
    BY <1>1, <2>1 DEF FinishDirect, UpdateStallAddr
  <2>3. gu_curr_context' = gu_curr_context
    BY <1>1 DEF FinishDirect, IInv, TypeOK, Context
  <2>5. Adds(w, 1)
    BY <2>1, <2>2, <2>3, Lengths DEF Adds
  <2>6. DrawType'
    BY <2>2 DEF DrawType
  <2>. QED
    BY <2>1, <2>5, <2>6, AppendMarks DEF Remarked
<1>2. CASE FinishCall
  <2>1. PICK w : w = Word("ret", 0) /\ w.op = "ret" /\ w \in RecordedWord
    BY WordIs DEF Ops
  <2>2. /\ gu_curr_context = "GU_CALL" /\ Append1(w, 1)
        /\ UNCHANGED <<gu_object_stack, phase, recorded, issued, drawn, hidden, ge_pc, ge_ret>>
    BY <1>2, <2>1 DEF FinishCall, ge, program
  <2>3. gu_curr_context' = "GU_DIRECT"
    BY <1>2 DEF FinishCall, IInv, TypeOK, Context
  <2>4. Records(w, 1)
    BY <2>1, <2>2, <2>3 DEF Records
  <2>5. DrawType'
    BY <2>2 DEF DrawType
  <2>. QED
    BY <2>1, <2>4, <2>5, RecordMarks DEF Remarked
<1>. QED
  BY <1>1, <1>2

LEMMA EndObjectMarks ==
  ASSUME IInv, DrawType, NEW m \in [Nat -> Nat], NEW c \in [Nat -> Nat], Marked(m, c), EndObject
  PROVE  Remarked'
<1>1. PICK last \in Nat, h \in Nat, e \in Nat : Patches(last, h, e)
  BY Patched
<1>2. /\ phase = "in" /\ e = cd /\ cd' = e /\ cc' = cc
      /\ last = Len(gu_object_stack) /\ last >= 1 /\ h = gu_object_stack[last]
      /\ e \in 2 .. DirectWords /\ h \in ge_stall .. e - 1 /\ h \in Region("GU_DIRECT")
      /\ h \in Addr /\ mem[h].op = "bjump" /\ ge_stall \in 1 .. e
      /\ Len(gu_object_stack') = last - 1
      /\ \A k \in 1 .. last - 1 : gu_object_stack'[k] = gu_object_stack[k]
      /\ mem'[h].op = "bjump" /\ mem'[h].arg = e /\ mem'[h] # Hole
      /\ \A a \in Addr : a # h => mem'[a] = mem[a]
      /\ UNCHANGED <<gu_curr_context, program, ge_pc, ge_ret>>
  BY <1>1 DEF Patches
<1>3. phase' = "in" /\ phase # "out" /\ issued' = issued /\ recorded' = recorded
      /\ drawn' = drawn /\ hidden' = hidden
  BY <1>2 DEF program, EndObject
<1>4. PICK l \in Nat : l = Len(issued)
  BY Lengths
<1>5. ~(h >= e) /\ h < e /\ last \in 1 .. last
  <2>1. h \in ge_stall .. e - 1 /\ ge_stall \in 1 .. e /\ last >= 1
    BY <1>2
  <2>. QED
    BY ONLY <2>1, e \in Nat, h \in Nat, last \in Nat
<1>6. mem[h] = Hole
  BY <1>2, <1>3, <1>5 DEF Marked, ObjectMarks
<1>7. \A k \in 1 .. last - 1 : k \in 1 .. last /\ k # last
  BY ONLY last \in Nat
<1>8. CallMarks(c)'
  <2>1. \A a \in Region("GU_CALL") : mem'[a] = mem[a]
    BY <1>2, Regions
  <2>2. UNCHANGED <<cc, gu_curr_context, recorded>>
    BY <1>2, <1>3
  <2>. QED
    BY <2>1, <2>2 DEF CallMarks, Marked
<1>9. m[e] = l /\ m[h] <= l /\ m[h] \in Nat
  <2>1. h \in 1 .. DirectWords + 1
    <3>1. h \in 1 .. DirectWords /\ DirectWords \in Nat
      BY <1>2, Regions
    <3>. QED
      BY ONLY <3>1
  <2>. QED
    BY <1>2, <1>3, <1>4, <2>1 DEF Marked, DirectMarks
<1>10. DirectMarks(m)'
  <2>1. ASSUME NEW a \in Region("GU_DIRECT")
        PROVE  /\ a >= cd => mem'[a] = Stale
               /\ mem'[a].op \in {"frame", "bjump"} => m[a + 1] = m[a]
               /\ mem'[a].op = "prim" => m[a + 1] = m[a] + 1 /\ issued[m[a] + 1].id = mem'[a].arg
               /\ mem'[a].op = "jump" => m[mem'[a].arg] = m[a]
               /\ mem'[a].op = "call" =>
                    /\ m[a + 1] = m[a] + Len(recorded)
                    /\ \A j \in 1 .. Len(recorded) : issued[m[a] + j].id = recorded[j]
               /\ mem'[a].op # "finish"
    <3>1. CASE a = h
      <4>1. m[h + 1] = m[h]
        BY <1>2, <1>3 DEF Marked, DirectMarks
      <4>. QED
        BY <1>2, <1>5, <3>1, <4>1
    <3>2. CASE a # h
      <4>1. mem'[a] = mem[a]
        BY <1>2, <3>2, Regions
      <4>2. /\ a >= cd => mem[a] = Stale
            /\ mem[a].op \in {"frame", "bjump"} => m[a + 1] = m[a]
            /\ mem[a].op = "prim" => m[a + 1] = m[a] + 1 /\ issued[m[a] + 1].id = mem[a].arg
            /\ mem[a].op = "jump" => m[mem[a].arg] = m[a]
            /\ mem[a].op = "call" =>
                 /\ m[a + 1] = m[a] + Len(recorded)
                 /\ \A j \in 1 .. Len(recorded) : issued[m[a] + j].id = recorded[j]
            /\ mem[a].op # "finish"
        <5>1. phase = "in"
          BY <1>2
        <5>. QED
          BY <5>1 DEF Marked, DirectMarks
      <4>. QED
        BY <4>1, <4>2
    <3>. QED
      BY <3>1, <3>2
  <2>2. m[DirectStart] = 0 /\ m[cd] = Len(issued) /\ \A a \in 1 .. DirectWords + 1 : m[a] <= Len(issued)
    BY <1>2, <1>3 DEF Marked, DirectMarks
  <2>. QED
    BY <1>2, <1>3, <2>1, <2>2 DEF DirectMarks
<1>11. ObjectMarks(m)'
  <2>1. \A j, k \in 1 .. last : j # k => gu_object_stack[j] # gu_object_stack[k]
    BY <1>2, <1>3 DEF Marked, ObjectMarks
  <2>2. \A k \in 1 .. last - 1 : gu_object_stack[k] # h
    BY <1>2, <1>5, <1>7, <2>1
  <2>3. \A k \in 1 .. last : gu_object_stack[k] \in Addr /\ mem[gu_object_stack[k]] = Hole
    BY <1>2, <1>3, Regions DEF Marked, ObjectMarks, IInv, DirectList
  <2>4. \A k \in 1 .. Len(gu_object_stack') : mem'[gu_object_stack'[k]] = Hole
    <3>. SUFFICES ASSUME NEW k \in 1 .. last - 1 PROVE mem'[gu_object_stack'[k]] = Hole
      BY <1>2
    <3>1. gu_object_stack'[k] = gu_object_stack[k] /\ gu_object_stack[k] # h
      BY <1>2, <2>2
    <3>2. gu_object_stack[k] \in Addr /\ mem[gu_object_stack[k]] = Hole
      BY <1>7, <2>3
    <3>. QED
      BY <1>2, <3>1, <3>2
  <2>5. \A j, k \in 1 .. Len(gu_object_stack') :
          j # k => gu_object_stack'[j] # gu_object_stack'[k]
    <3>. SUFFICES ASSUME NEW j \in 1 .. last - 1, NEW k \in 1 .. last - 1, j # k
                  PROVE  gu_object_stack'[j] # gu_object_stack'[k]
      BY <1>2
    <3>1. gu_object_stack'[j] = gu_object_stack[j] /\ gu_object_stack'[k] = gu_object_stack[k]
      BY <1>2
    <3>. QED
      BY <1>7, <2>1, <3>1
  <2>6. \A k \in 1 .. l : issued[k].within \subseteq 1 .. cd - 1
    BY <1>3, <1>4 DEF Marked, ObjectMarks
  <2>7. ASSUME NEW a \in Region("GU_DIRECT"), mem'[a].op = "bjump"
        PROVE  /\ mem'[a] # Hole => m[a] <= m[mem'[a].arg]
               /\ \A k \in 1 .. l :
                    a \in issued[k].within <=> m[a] < k /\ (mem'[a] # Hole => k <= m[mem'[a].arg])
    <3>1. CASE a = h
      <4>1. \A k \in 1 .. l : h \in issued[k].within <=> m[h] < k
        BY <1>2, <1>3, <1>4, <1>6 DEF Marked, ObjectMarks
      <4>2. \A k \in 1 .. l : k <= l
        BY ONLY l \in Nat
      <4>. QED
        BY <1>2, <1>9, <3>1, <4>1, <4>2
    <3>2. CASE a # h
      <4>1. mem'[a] = mem[a]
        BY <1>2, <3>2, Regions
      <4>. QED
        BY <1>3, <1>4, <2>7, <4>1 DEF Marked, ObjectMarks
    <3>. QED
      BY <3>1, <3>2
  <2>. QED
    BY <1>2, <1>3, <1>4, <2>4, <2>5, <2>6, <2>7 DEF ObjectMarks
<1>12. GeMarks(Passed(m, c))'
  <2>1. PICK p : p = Passed(m, c)
    OBVIOUS
  <2>2. Passed(m, c)' = p
    BY <1>2, <1>3, <2>1 DEF Passed
  <2>3. GeMarks(p)
    BY <2>1 DEF Marked
  <2>4. ge_ret # 0 => ge_ret - 1 \in Region("GU_DIRECT") /\ mem'[ge_ret - 1].op = "call"
    <3>1. ge_ret # 0 => ge_ret - 1 \in Region("GU_DIRECT") /\ mem[ge_ret - 1].op = "call"
      BY <2>3 DEF GeMarks
    <3>. QED
      BY <1>2, <3>1, Regions
  <2>5. \A x \in hidden : x \in Region("GU_DIRECT") /\ mem'[x].op = "bjump" /\ mem'[x] # Hole
    <3>1. \A x \in hidden : x \in Region("GU_DIRECT") /\ mem[x].op = "bjump" /\ mem[x] # Hole
      BY <1>3, <2>3 DEF GeMarks
    <3>2. \A x \in hidden : x # h /\ x \in Addr
      BY <1>6, <3>1, Regions
    <3>. QED
      BY <1>2, <3>1, <3>2
  <2>6. GeMarks(p)'
    BY <1>2, <1>3, <2>3, <2>4, <2>5 DEF GeMarks
  <2>. QED
    BY <2>2, <2>6 DEF GeMarks
<1>13. DrawType'
  BY <1>3 DEF DrawType
<1>. QED
  BY <1>8, <1>10, <1>11, <1>12, <1>13 DEF Marked, Remarked

LEMMA StartDirectMarks ==
  ASSUME IInv, DrawType, NEW m \in [Nat -> Nat], NEW c \in [Nat -> Nat], Marked(m, c), StartDirect
  PROVE  Remarked'
<1>1. /\ phase = "out" /\ ge_ret = 0 /\ gu_curr_context = "GU_DIRECT" /\ gu_object_stack' = <<>>
      /\ phase' = "in" /\ ge_pc' = 1 /\ gu_curr_context' = "GU_DIRECT"
      /\ issued' = <<>> /\ drawn' = <<>> /\ hidden' = {} /\ UNCHANGED <<ge_ret, recorded>>
  BY Regions DEF StartDirect, Context1, IInv, GePlace, Places
<1>2. cd' = 2 /\ cc' = cc
  <2>1. gu_contexts' = [gu_contexts EXCEPT !["GU_DIRECT"] =
                          [current |-> 2, parent_context |-> "GU_DIRECT"]]
    BY <1>1, Regions DEF StartDirect, Context1, StartOf
  <2>. QED
    BY <2>1 DEF IInv, TypeOK, Context, cd, cc
<1>3. mem' = [a \in Addr |->
        IF a = DirectStart THEN Word("frame", frame_buffer)
        ELSE IF a \in Region("GU_DIRECT") THEN Stale ELSE mem[a]]
  BY DEF StartDirect
<1>4. /\ mem'[1].op = "frame" /\ mem'[1] # Stale
      /\ \A a \in Region("GU_DIRECT") : a # 1 => mem'[a] = Stale /\ mem'[a].op = "stale"
      /\ \A a \in Region("GU_CALL") : mem'[a] = mem[a]
  <2>1. mem'[1] = Word("frame", frame_buffer)
    BY <1>3, Regions
  <2>2. Word("frame", frame_buffer).op = "frame" /\ Stale.op = "stale"
    BY DEF Word, Stale
  <2>3. \A a \in Region("GU_DIRECT") : a # 1 => mem'[a] = Stale
    BY <1>3, Regions
  <2>4. \A a \in Region("GU_CALL") : mem'[a] = mem[a]
    BY <1>3, Regions
  <2>. QED
    BY <2>1, <2>2, <2>3, <2>4
<1>5. PICK n \in [Nat -> Nat] : \A x \in Nat : n[x] = 0
  <2>. DEFINE f == [x \in Nat |-> 0]
  <2>1. f \in [Nat -> Nat] /\ \A x \in Nat : f[x] = 0
    OBVIOUS
  <2>. QED
    BY <2>1
<1>6. Len(issued') = 0 /\ Len(gu_object_stack') = 0 /\ 1 .. 0 = {}
  BY <1>1, EmptySeq
<1>7. CallMarks(c)'
  <2>1. recorded' = recorded /\ gu_curr_context' = gu_curr_context
    BY <1>1
  <2>2. \A a \in Region("GU_CALL") : mem'[a] = mem[a]
    BY <1>4
  <2>. QED
    BY <1>2, <2>1, <2>2 DEF CallMarks, Marked
<1>8. DirectMarks(n)'
  <2>1. n[DirectStart] = 0 /\ n[2] = 0 /\ \A a \in 1 .. DirectWords + 1 : n[a] <= 0
    <3>1. 1 \in Nat /\ 2 \in Nat /\ 0 <= 0 /\ \A a \in 1 .. DirectWords + 1 : a \in Nat
      BY Regions
    <3>. QED
      BY <1>5, <3>1, Regions
  <2>2. ASSUME NEW a \in Region("GU_DIRECT")
        PROVE  /\ a >= 2 => mem'[a] = Stale
               /\ n[a + 1] = n[a] /\ mem'[a].op \in {"frame", "stale"}
    <3>1. a \in Nat /\ a + 1 \in Nat /\ (a >= 2 => a # 1)
      BY Regions
    <3>2. n[a] = 0 /\ n[a + 1] = 0
      BY <1>5, <3>1
    <3>. QED
      BY <1>4, <3>1, <3>2
  <2>. QED
    BY <1>1, <1>2, <1>6, <2>1, <2>2 DEF DirectMarks
<1>9. ObjectMarks(n)'
  <2>1. \A a \in Region("GU_DIRECT") : mem'[a].op # "bjump"
    BY <1>4
  <2>. QED
    BY <1>6, <2>1 DEF ObjectMarks
<1>10. GeMarks(Passed(n, c))'
  <2>1. Passed(n, c)' = 0
    BY <1>1, <1>5 DEF Passed
  <2>2. Seen(<<>>, {}, 0) = <<>>
    BY SeenZero, EmptySeq
  <2>3. 0 + 1 .. 0 = {}
    OBVIOUS
  <2>4. GeMarks(0)'
    BY <1>1, <1>6, <2>2, <2>3 DEF GeMarks
  <2>. QED
    BY <2>1, <2>4 DEF GeMarks
<1>11. DrawType'
  BY <1>1, EmptySeq DEF DrawType
<1>. QED
  BY <1>5, <1>7, <1>8, <1>9, <1>10, <1>11 DEF Marked, Remarked

LEMMA StartCallMarks ==
  ASSUME IInv, DrawType, NEW m \in [Nat -> Nat], NEW c \in [Nat -> Nat], Marked(m, c), StartCall
  PROVE  Remarked'
<1>1. /\ ~lent /\ ge_ret = 0 /\ gu_curr_context' = "GU_CALL" /\ recorded' = <<>>
      /\ UNCHANGED <<gu_object_stack, ge_pc, ge_ret, phase, issued, drawn, hidden>>
  BY DEF StartCall, Context1, IInv, GePlace, ge
<1>2. cd' = cd /\ cc' = CallStart
  <2>1. gu_contexts' = [gu_contexts EXCEPT !["GU_CALL"] =
                          [current |-> CallStart + 0, parent_context |-> "GU_DIRECT"]]
    BY DEF StartCall, Context1, StartOf
  <2>2. CallStart + 0 = CallStart
    BY Regions
  <2>. QED
    BY <2>1, <2>2 DEF IInv, TypeOK, Context, cd, cc
<1>3. /\ \A a \in Region("GU_DIRECT") : mem'[a] = mem[a]
      /\ \A a \in Region("GU_CALL") : mem'[a] = Stale
  <2>1. mem' = [a \in Addr |-> IF a \in Region("GU_CALL") THEN Stale ELSE mem[a]]
    BY DEF StartCall
  <2>. QED
    BY <2>1, Regions
<1>4. PICK d \in [Nat -> Nat] : \A x \in Nat : d[x] = 0
  <2>. DEFINE f == [x \in Nat |-> 0]
  <2>1. f \in [Nat -> Nat] /\ \A x \in Nat : f[x] = 0
    OBVIOUS
  <2>. QED
    BY <2>1
<1>5. CallMarks(d)'
  <2>1. d[CallStart] = 0 /\ Len(recorded') = 0 /\ Stale.op = "stale"
    BY <1>1, <1>4, EmptySeq, Regions DEF Stale, Word
  <2>. QED
    BY <1>2, <1>3, <2>1 DEF CallMarks
<1>6. DirectMarks(m)'
  <2>1. phase # "out" => \A a \in Region("GU_DIRECT") : mem[a].op # "call"
    BY <1>1 DEF IInv, DirectList
  <2>2. UNCHANGED <<phase, issued, cd>> /\ DirectMarks(m)
    BY <1>1, <1>2 DEF Marked
  <2>. QED
    BY <1>3, <2>1, <2>2, DirectStays
<1>7. ObjectMarks(m)'
  <2>1. phase # "out" =>
          \A k \in 1 .. Len(gu_object_stack) : mem'[gu_object_stack[k]] = mem[gu_object_stack[k]]
    BY <1>3 DEF IInv, DirectList
  <2>. QED
    BY <1>1, <1>2, <1>3, <2>1 DEF ObjectMarks, Marked
<1>8. GeMarks(Passed(m, d))'
  <2>1. PICK p : p = Passed(m, c)
    OBVIOUS
  <2>2. Passed(m, d)' = p
    BY <1>1, <2>1 DEF Passed
  <2>3. GeMarks(p)
    BY <2>1 DEF Marked
  <2>4. GeMarks(p)'
    BY <1>1, <1>3, <2>3 DEF GeMarks
  <2>. QED
    BY <2>2, <2>4 DEF GeMarks
<1>9. DrawType'
  BY <1>1, EmptySeq DEF DrawType
<1>. QED
  BY <1>4, <1>5, <1>6, <1>7, <1>8, <1>9 DEF Marked, Remarked

(* The other calls of the program leave the marks as they are. *)
LEMMA QuietMarks ==
  ASSUME IInv, DrawType, NEW m \in [Nat -> Nat], NEW c \in [Nat -> Nat], Marked(m, c),
         StartFails \/ Sync \/ SwapBuffers \/ Display \/ SyncNoWait \/ UNCHANGED vars
  PROVE  Remarked'
<1>1. /\ UNCHANGED <<mem, gu_object_stack, gu_curr_context, recorded, issued, drawn, hidden,
                     ge_pc, ge_ret>>
      /\ cc' = cc
  <2>1. CASE StartFails
    <3>1. gu_contexts' = [gu_contexts EXCEPT !["GU_DIRECT"] =
                           [current |-> DirectStart + 0, parent_context |-> "GU_DIRECT"]]
      BY <2>1 DEF StartFails, Context1, StartOf
    <3>2. cc' = cc
      BY <3>1 DEF IInv, TypeOK, Context, cc
    <3>. QED
      BY <2>1, <3>2 DEF StartFails, Context1, ge, program
  <2>2. CASE Sync \/ SwapBuffers \/ Display \/ SyncNoWait \/ UNCHANGED vars
    BY <2>2 DEF Sync, SwapBuffers, Display, SyncNoWait, vars, building, ge, program, cc
  <2>. QED
    BY <2>1, <2>2
<1>2. phase' = "out" \/ UNCHANGED <<phase, gu_contexts>>
  BY DEF StartFails, Sync, SwapBuffers, Display, SyncNoWait, vars, building, ge, program
<1>3. CallMarks(c)'
  BY <1>1 DEF CallMarks, Marked
<1>4. DirectMarks(m)' /\ ObjectMarks(m)'
  BY <1>1, <1>2 DEF DirectMarks, ObjectMarks, Marked, cd
<1>5. GeMarks(Passed(m, c))'
  <2>1. PICK p : p = Passed(m, c)
    OBVIOUS
  <2>2. Passed(m, c)' = p
    BY <1>1, <2>1 DEF Passed
  <2>3. GeMarks(p)
    BY <2>1 DEF Marked
  <2>4. GeMarks(p)'
    BY <1>1, <1>2, <2>3 DEF GeMarks
  <2>. QED
    BY <2>2, <2>4 DEF GeMarks
<1>6. DrawType'
  BY <1>1 DEF DrawType
<1>. QED
  BY <1>3, <1>4, <1>5, <1>6 DEF Marked, Remarked

LEMMA InitMarks == Init => RInv
<1>. SUFFICES ASSUME Init PROVE RInv
  OBVIOUS
<1>1. IInv
  BY InitInv
<1>2. PICK m \in [Nat -> Nat] : \A x \in Nat : m[x] = 0
  <2>. DEFINE f == [x \in Nat |-> 0]
  <2>1. f \in [Nat -> Nat] /\ \A x \in Nat : f[x] = 0
    OBVIOUS
  <2>. QED
    BY <2>1
<1>3. /\ phase = "out" /\ ge_pc = 0 /\ ge_ret = 0 /\ gu_curr_context = "GU_DIRECT"
      /\ issued = <<>> /\ recorded = <<>> /\ drawn = <<>> /\ hidden = {}
      /\ \A a \in Addr : mem[a] = Stale
  BY DEF Init
<1>4. CallMarks(m)
  <2>1. Stale.op = "stale" /\ m[CallStart] = 0
    BY <1>2, Regions DEF Stale, Word
  <2>. QED
    BY <1>3, <2>1, Regions DEF CallMarks
<1>5. GeMarks(Passed(m, m))
  <2>1. Passed(m, m) = 0 /\ Len(issued) = 0
    BY <1>3, EmptySeq DEF Passed
  <2>2. Seen(<<>>, {}, 0) = <<>>
    BY SeenZero, EmptySeq
  <2>3. GeMarks(0)
    BY <1>3, <2>1, <2>2 DEF GeMarks
  <2>. QED
    BY <2>1, <2>3
<1>6. DirectMarks(m) /\ ObjectMarks(m)
  BY <1>3 DEF DirectMarks, ObjectMarks
<1>7. DrawType
  BY <1>3, EmptySeq DEF DrawType
<1>. QED
  BY <1>1, <1>2, <1>4, <1>5, <1>6, <1>7 DEF Marked, RInv

LEMMA NextMarks == ASSUME ~MemoryInObject PROVE RInv /\ [Next]_vars => RInv'
<1>. SUFFICES ASSUME RInv, [Next]_vars PROVE RInv'
  OBVIOUS
<1>1. IInv /\ DrawType /\ IInv'
  BY InvNext DEF RInv
<1>2. PICK m \in [Nat -> Nat], c \in [Nat -> Nat] : Marked(m, c)
  BY DEF RInv
<1>3. CASE Ge
  <2>1. Marked(m, c)'
    BY <1>1, <1>2, <1>3, GeMarked
  <2>2. issued' = issued /\ recorded' = recorded
    BY <1>3 DEF Ge, GePrim, GeFrame, GeJump, GeVisible, GeHidden, GeCall, GeRet, GeFinish,
                GeNext, program
  <2>3. DrawType'
    BY <1>1, <2>2 DEF DrawType
  <2>. QED
    BY <1>1, <2>1, <2>3 DEF RInv
<1>4. CASE ~Ge
  <2>1. Remarked'
    BY <1>1, <1>2, <1>4, StartDirectMarks, StartCallMarks, DrawMarks, GetMemoryMarks,
       BeginObjectMarks, EndObjectMarks, CallListMarks, FinishMarks, QuietMarks DEF Next
  <2>. QED
    BY <1>1, <2>1 DEF Remarked, RInv
<1>. QED
  BY <1>3, <1>4

LEMMA AlwaysMarked == ASSUME ~MemoryInObject PROVE Spec => []RInv
<1>1. RInv /\ [Next]_vars => RInv'
  BY NextMarks
<1>. QED
  BY <1>1, InitMarks, PTL DEF Spec

(* If the program takes no memory inside an object, the GE makes the draws *)
(* of a frame in the order of the calls, those of called lists where they  *)
(* are called, and skips exactly the objects that it finds out of sight;   *)
(* when it has come to the end of the list it has made all the others.     *)
(* The lists may have any length and the objects any depth.                *)
THEOREM DrawsInOrder == ASSUME ~MemoryInObject PROVE Spec => []DrawnInOrder
<1>1. RInv => DrawnInOrder
  <2>. SUFFICES ASSUME RInv PROVE DrawnInOrder
    OBVIOUS
  <2>1. IInv /\ DrawType
    BY DEF RInv
  <2>2. PICK m \in [Nat -> Nat], c \in [Nat -> Nat] : Marked(m, c)
    BY DEF RInv
  <2>3. PICK p \in Nat, l \in Nat : /\ p = Passed(m, c) /\ l = Len(issued) /\ p <= l
                                    /\ ge_pc = 0 => p = l
    BY <2>1, <2>2, WhereGeIs
  <2>4. drawn = Seen(issued, hidden, p)
    BY <2>2, <2>3 DEF Marked, GeMarks
  <2>5. issued \in Seq(DrawOf) /\ l <= Len(issued)
    BY <2>1, <2>3, Lengths
  <2>6. IsPrefix(Seen(issued, hidden, p), Seen(issued, hidden, l))
    BY <2>3, <2>5, SeenPrefix
  <2>. QED
    BY <2>3, <2>4, <2>6 DEF DrawnInOrder, Visible
<1>. QED
  BY <1>1, AlwaysMarked, PTL
=============================================================================
