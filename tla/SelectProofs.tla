---------------------------- MODULE SelectProofs ----------------------------
(***************************************************************************)
(* Proofs about Select, for any number of descriptors, any timeout and any *)
(* interleaving with the kernel and with other threads.                    *)
(***************************************************************************)
EXTENDS Select, FiniteSetTheorems, TLAPS

InPoll == pc \in {"poll", "read", "write"}

(* While it polls, the loop has passed the descriptors below fd, and has   *)
(* found ready, or failed, only ones that it has passed or is asking.      *)
Passed ==
  /\ fd \in 0 .. N /\ count \in Int /\ erred \in BOOLEAN
  /\ pc \in {"idle", "poll", "read", "write", "check", "fault"}
  /\ pc \in {"poll", "read"} => /\ ready_readfds \subseteq 0 .. fd - 1
                                /\ ready_exceptfds \subseteq 0 .. fd - 1
  /\ InPoll => /\ ready_readfds \subseteq 0 .. fd
               /\ ready_exceptfds \subseteq 0 .. fd
               /\ ready_writefds \subseteq 0 .. fd - 1
  /\ pc \in {"read", "write"} => fd < N

FoundBits == Cardinality(ready_readfds) + Cardinality(ready_writefds)

(* CountIsBits while a poll is under way.  A descriptor that has failed    *)
(* for reading may still fail for writing, which counts and adds no bit.   *)
(* A kernel object that has failed stays so for the rest of the call, so   *)
(* that a poll that ends with none has met none.                           *)
Tally ==
  InPoll =>
    /\ count <= FoundBits + 2 * Cardinality(ready_exceptfds)
                - (IF pc = "write" /\ fd \in ready_exceptfds THEN 1 ELSE 0)
    /\ ~erred => count >= FoundBits + Cardinality(ready_exceptfds)
    /\ ~erred /\ broken = {} => ready_exceptfds = {}

(* The caller's sets are as they were passed until a poll found something. *)
Kept ==
  InPoll \/ (pc = "check" /\ count <= 0) => <<readfds, writefds, exceptfds>> = passed

IInv == Passed /\ Tally /\ Kept /\ CountIsBits

(* A descriptor the loop has not passed is one more bit. *)
LEMMA OneMore ==
  ASSUME NEW f \in Nat, NEW S \in SUBSET (0 .. f - 1)
  PROVE  /\ IsFiniteSet(S) /\ Cardinality(S) \in Nat
         /\ Cardinality(S \cup {f}) = Cardinality(S) + 1
         /\ S \subseteq 0 .. f /\ S \cup {f} \subseteq 0 .. f
<1>1. IsFiniteSet(0 .. f - 1)
  BY FS_Interval
<1>2. IsFiniteSet(S) /\ Cardinality(S) \in Nat
  BY <1>1, FS_Subset, FS_CardinalityType
<1>3. f \notin S
  OBVIOUS
<1>4. Cardinality(S \cup {f}) = Cardinality(S) + 1
  BY <1>2, <1>3, FS_AddElement
<1>. QED
  BY <1>2, <1>4

LEMMA CountNat ==
  ASSUME NEW f \in Nat, NEW S \in SUBSET (0 .. f)
  PROVE  Cardinality(S) \in Nat
<1>1. IsFiniteSet(0 .. f)
  BY FS_Interval
<1>. QED
  BY <1>1, FS_Subset, FS_CardinalityType

(* A loop that has passed nothing. *)
LEMMA Nothing ==
  ASSUME NEW f, NEW c, NEW R, NEW W, NEW E, f = 0, c = 0, R = {}, W = {}, E = {}
  PROVE  /\ f \in 0 .. N /\ c \in Int
         /\ R \subseteq 0 .. f - 1 /\ W \subseteq 0 .. f - 1 /\ E \subseteq 0 .. f - 1
         /\ R \subseteq 0 .. f /\ E \subseteq 0 .. f
BY SelectAssumption

LEMMA InitInv == Init => IInv
<1>. SUFFICES ASSUME Init PROVE IInv
  OBVIOUS
<1>1. Passed
  BY Nothing DEF Init, Passed
<1>. QED
  BY <1>1 DEF Init, IInv, Tally, Kept, CountIsBits, InPoll

(* A poll begins with nothing found. *)
LEMMA StartPollStep ==
  ASSUME StartPoll, <<readfds, writefds, exceptfds>>' = passed'
  PROVE  IInv'
<1>1. Cardinality({}) = 0
  BY FS_EmptySet
<1>2. Passed'
  BY Nothing DEF StartPoll, Passed
<1>3. Tally'
  BY <1>1 DEF StartPoll, Tally, FoundBits
<1>4. Kept' /\ CountIsBits'
  BY DEF StartPoll, CountIsBits, Kept
<1>. QED
  BY <1>2, <1>3, <1>4 DEF IInv

LEMMA LookStep == ASSUME IInv, Look PROVE IInv'
<1>. USE DEF IInv
<1>1. /\ fd \in Nat /\ fd < N /\ pc = "poll" /\ pc' = "read"
      /\ UNCHANGED <<env, sets, fd, count, ready, erred, passed>>
  BY SelectAssumption DEF Look, Passed
<1>2. Passed'
  BY <1>1 DEF Passed, ready, InPoll
<1>3. Tally' /\ CountIsBits' /\ Kept'
  BY <1>1 DEF Tally, CountIsBits, Kept, FoundBits, ready, env, sets, InPoll
<1>. QED
  BY <1>2, <1>3

(* What an answer does to the tally: c, r, w and e are count and the       *)
(* numbers of bits found, before and after.                                *)
LEMMA OneAnswer ==
  ASSUME NEW c \in Int, NEW c1 \in Int, NEW n \in Nat, NEW n1 \in Nat, NEW e \in Nat,
         NEW e1 \in Nat, NEW slack \in {0, 1}, NEW slack1 \in {0, 1},
         c <= n + 2 * e - slack,
         \/ c1 = -1 /\ n1 = n /\ e1 = e /\ slack1 <= slack
         \/ c1 = c + 1 /\ n1 = n + 1 /\ e1 = e /\ slack1 <= slack
         \/ c1 = c + 1 /\ n1 = n /\ e1 = e /\ slack = 1 /\ slack1 = 0
         \/ c1 = c + 1 /\ n1 = n /\ e1 = e + 1 /\ slack = 0
         \/ c1 = c /\ n1 = n /\ e1 = e /\ slack1 <= slack,
         slack = 1 => e > 0
  PROVE  /\ c1 <= n1 + 2 * e1 - slack1
         /\ c >= n + e => c1 = -1 \/ c1 >= n1 + e1
OBVIOUS

(* The question about reading: the descriptor adds to at most one set. *)
LEMMA AskReadStep == ASSUME IInv, AskRead PROVE IInv'
<1>. USE DEF IInv
<1>. DEFINE k == kind[fd]
            R == ready_readfds
            W == ready_writefds
            E == ready_exceptfds
<1>1. /\ fd \in Nat /\ fd < N /\ N \in Nat /\ pc = "read" /\ pc' = "write" /\ fd' = fd
      /\ broken' = broken /\ count \in Int /\ W' = W
      /\ UNCHANGED <<sets, passed>>
      /\ R \subseteq 0 .. fd - 1 /\ W \subseteq 0 .. fd - 1 /\ E \subseteq 0 .. fd - 1
      /\ InPoll /\ InPoll'
  BY SelectAssumption DEF AskRead, Passed, env, InPoll
<1>2. /\ Cardinality(R) \in Nat /\ Cardinality(W) \in Nat /\ Cardinality(E) \in Nat
      /\ Cardinality(R \cup {fd}) = Cardinality(R) + 1
      /\ Cardinality(E \cup {fd}) = Cardinality(E) + 1
      /\ R \subseteq 0 .. fd /\ R \cup {fd} \subseteq 0 .. fd
      /\ E \subseteq 0 .. fd /\ E \cup {fd} \subseteq 0 .. fd
  BY <1>1, OneMore
<1>3. \/ count' = -1 /\ erred' = TRUE /\ R' = R /\ E' = E
      \/ count' = count + 1 /\ erred' = erred /\ R' = R \cup {fd} /\ E' = E
      \/ count' = count + 1 /\ erred' = erred /\ R' = R /\ E' = E \cup {fd} /\ broken # {}
      \/ count' = count /\ erred' = erred /\ R' = R /\ E' = E
  <2>. DEFINE ok == Readable(k)
  <2>1. CASE SocketError(k, readfds)
    BY <2>1 DEF AskRead, Answer, CountAfter, SocketError, Found, Passed
  <2>2. CASE ~SocketError(k, readfds) /\ Refused(k, readfds)
    BY <2>2 DEF AskRead, Answer, CountAfter, Refused, Found, Passed
  <2>3. CASE ~SocketError(k, readfds) /\ ~Refused(k, readfds) /\ Found(k, readfds, ok)
    BY <2>3 DEF AskRead, Answer, CountAfter, Passed
  <2>4. CASE ~SocketError(k, readfds) /\ ~Refused(k, readfds) /\ ~Found(k, readfds, ok)
    BY <2>4 DEF AskRead, Answer, CountAfter, Passed
  <2>. QED
    BY <2>1, <2>2, <2>3, <2>4
<1>4. /\ count <= Cardinality(R) + Cardinality(W) + 2 * Cardinality(E)
      /\ ~erred => count >= Cardinality(R) + Cardinality(W) + Cardinality(E)
      /\ ~erred /\ broken = {} => E = {}
  BY <1>1, <1>2 DEF Tally, FoundBits
<1>5. fd \notin E
  BY <1>1
<1>6. /\ count' \in Int /\ erred' \in BOOLEAN
      /\ R' \subseteq 0 .. fd /\ E' \subseteq 0 .. fd
      /\ Cardinality(R') \in Nat /\ Cardinality(E') \in Nat
  <2>1. CASE count' = -1 /\ erred' = TRUE /\ R' = R /\ E' = E
    BY <1>2, <2>1
  <2>2. CASE count' = count + 1 /\ erred' = erred /\ R' = R \cup {fd} /\ E' = E
    BY <1>1, <1>2, <2>2 DEF Passed
  <2>3. CASE count' = count + 1 /\ erred' = erred /\ R' = R /\ E' = E \cup {fd}
    BY <1>1, <1>2, <2>3 DEF Passed
  <2>4. CASE count' = count /\ erred' = erred /\ R' = R /\ E' = E
    BY <1>1, <1>2, <2>4 DEF Passed
  <2>. QED
    BY <1>3, <2>1, <2>2, <2>3, <2>4
<1>7. Passed' /\ Tally'
  <2>1. Passed'
    BY <1>1, <1>6 DEF Passed, InPoll
  <2>. DEFINE n == Cardinality(R) + Cardinality(W)
              n1 == Cardinality(R') + Cardinality(W)
              e == Cardinality(E)
              e1 == Cardinality(E')
              s1 == IF fd \in E' THEN 1 ELSE 0
  <2>2. n \in Nat /\ n1 \in Nat /\ e \in Nat /\ e1 \in Nat /\ s1 \in {0, 1}
    BY <1>2, <1>6
  <2>3. \/ count' = -1 /\ n1 = n /\ e1 = e /\ s1 <= 0
        \/ count' = count + 1 /\ n1 = n + 1 /\ e1 = e /\ s1 <= 0
        \/ count' = count + 1 /\ n1 = n /\ e1 = e + 1
        \/ count' = count /\ n1 = n /\ e1 = e /\ s1 <= 0
    BY <1>2, <1>3, <1>5
  <2>4. count <= n + 2 * e - 0
    BY <1>1, <1>4, <2>2
  <2>5. count' <= n1 + 2 * e1 - s1 /\ (count >= n + e => count' = -1 \/ count' >= n1 + e1)
    <3>. HIDE DEF n, n1, e, e1, s1
    <3>. QED
      BY <1>1, <1>6, <2>2, <2>3, <2>4, OneAnswer
  <2>6. ~erred' => ~erred /\ (count' = count \/ count' = count + 1)
                   /\ (broken = {} => E' = E)
    BY <1>3
  <2>7. ~erred => count >= n + e
    BY <1>1, <1>4, <2>2
  <2>8. ~erred' => count' >= n1 + e1
    <3>. HIDE DEF n, n1, e, e1
    <3>. QED
      BY <1>1, <1>6, <2>2, <2>5, <2>6, <2>7
  <2>9. Tally'
    BY <1>1, <1>4, <2>2, <2>5, <2>6, <2>8 DEF Tally, FoundBits
  <2>. QED
    BY <2>1, <2>9
<1>8. Kept' /\ CountIsBits'
  BY <1>1 DEF Kept, CountIsBits, sets, InPoll
<1>. QED
  BY <1>7, <1>8

(* The question about writing, which may add to exceptfds a bit that the   *)
(* first question added already.                                           *)
LEMMA AskWriteStep == ASSUME IInv, AskWrite PROVE IInv'
<1>. USE DEF IInv
<1>. DEFINE R == ready_readfds
            W == ready_writefds
            E == ready_exceptfds
<1>1. /\ fd \in Nat /\ fd < N /\ N \in Nat /\ pc = "write" /\ pc' = "poll" /\ fd' = fd + 1
      /\ fd' - 1 = fd
      /\ broken' = broken /\ count \in Int /\ R' = R
      /\ UNCHANGED <<sets, passed>>
      /\ R \subseteq 0 .. fd /\ W \subseteq 0 .. fd - 1 /\ E \subseteq 0 .. fd
      /\ InPoll /\ InPoll'
  BY SelectAssumption DEF AskWrite, Passed, env, InPoll
<1>2. /\ Cardinality(R) \in Nat /\ Cardinality(W) \in Nat /\ Cardinality(E) \in Nat
      /\ Cardinality(W \cup {fd}) = Cardinality(W) + 1
      /\ W \subseteq 0 .. fd /\ W \cup {fd} \subseteq 0 .. fd
  BY <1>1, OneMore, CountNat
<1>3. /\ fd \notin E => Cardinality(E \cup {fd}) = Cardinality(E) + 1
      /\ fd \in E => E \cup {fd} = E
      /\ E \cup {fd} \subseteq 0 .. fd
  <2>1. fd \notin E => E \subseteq 0 .. fd - 1
    BY <1>1
  <2>. QED
    BY <1>1, <2>1, OneMore
<1>4. \/ count' = -1 /\ erred' = TRUE /\ W' = W /\ E' = E
      \/ count' = count + 1 /\ erred' = erred /\ W' = W \cup {fd} /\ E' = E
      \/ count' = count + 1 /\ erred' = erred /\ W' = W /\ E' = E \cup {fd} /\ broken # {}
      \/ count' = count /\ erred' = erred /\ W' = W /\ E' = E
  <2>1. CASE SocketError(type, writefds)
    BY <2>1 DEF AskWrite, Answer, CountAfter, SocketError, Found, Passed
  <2>2. CASE ~SocketError(type, writefds) /\ Refused(type, writefds)
    BY <2>2 DEF AskWrite, Answer, CountAfter, Refused, Found, Passed
  <2>3. CASE /\ ~SocketError(type, writefds) /\ ~Refused(type, writefds)
             /\ Found(type, writefds, Writable)
    BY <2>3 DEF AskWrite, Answer, CountAfter, Passed
  <2>4. CASE /\ ~SocketError(type, writefds) /\ ~Refused(type, writefds)
             /\ ~Found(type, writefds, Writable)
    BY <2>4 DEF AskWrite, Answer, CountAfter, Passed
  <2>. QED
    BY <2>1, <2>2, <2>3, <2>4
<1>5. /\ count <= Cardinality(R) + Cardinality(W) + 2 * Cardinality(E)
                  - (IF fd \in E THEN 1 ELSE 0)
      /\ ~erred => count >= Cardinality(R) + Cardinality(W) + Cardinality(E)
      /\ ~erred /\ broken = {} => E = {}
  BY <1>1, <1>2 DEF Tally, FoundBits
<1>6. /\ count' \in Int /\ erred' \in BOOLEAN
      /\ R \subseteq 0 .. fd /\ W' \subseteq 0 .. fd /\ E' \subseteq 0 .. fd
      /\ Cardinality(W') \in Nat /\ Cardinality(E') \in Nat
  <2>1. Cardinality(E \cup {fd}) \in Nat
    BY <1>1, <1>3, CountNat
  <2>2. CASE count' = -1 /\ erred' = TRUE /\ W' = W /\ E' = E
    BY <1>1, <1>2, <2>2
  <2>3. CASE count' = count + 1 /\ erred' = erred /\ W' = W \cup {fd} /\ E' = E
    BY <1>1, <1>2, <2>3 DEF Passed
  <2>4. CASE count' = count + 1 /\ erred' = erred /\ W' = W /\ E' = E \cup {fd}
    BY <1>1, <1>2, <1>3, <2>1, <2>4 DEF Passed
  <2>5. CASE count' = count /\ erred' = erred /\ W' = W /\ E' = E
    BY <1>1, <1>2, <2>5 DEF Passed
  <2>. QED
    BY <1>4, <2>2, <2>3, <2>4, <2>5
<1>7. Passed' /\ Tally'
  <2>1. Passed'
    <3>1. /\ fd' \in 0 .. N /\ 0 .. fd' - 1 = 0 .. fd /\ 0 .. fd \subseteq 0 .. fd'
      BY <1>1
    <3>. QED
      BY <1>1, <1>6, <3>1 DEF Passed, InPoll
  <2>. DEFINE n == Cardinality(R) + Cardinality(W)
              n1 == Cardinality(R) + Cardinality(W')
              e == Cardinality(E)
              e1 == Cardinality(E')
              sl == IF fd \in E THEN 1 ELSE 0
  <2>2. n \in Nat /\ n1 \in Nat /\ e \in Nat /\ e1 \in Nat /\ sl \in {0, 1}
    BY <1>2, <1>6
  <2>3. sl = 1 => e > 0
    <3>1. ASSUME fd \in E, e = 0 PROVE FALSE
      <4>1. IsFiniteSet(0 .. fd) /\ E \subseteq 0 .. fd
        BY <1>1, FS_Interval
      <4>2. IsFiniteSet(E)
        BY <4>1, FS_Subset
      <4>. QED
        BY <3>1, <4>2, FS_EmptySet
    <3>. QED
      BY <2>2, <3>1
  <2>4. \/ count' = -1 /\ n1 = n /\ e1 = e
        \/ count' = count + 1 /\ n1 = n + 1 /\ e1 = e
        \/ count' = count + 1 /\ n1 = n /\ e1 = e /\ sl = 1
        \/ count' = count + 1 /\ n1 = n /\ e1 = e + 1 /\ sl = 0
        \/ count' = count /\ n1 = n /\ e1 = e
    BY <1>2, <1>3, <1>4
  <2>5. count <= n + 2 * e - sl
    BY <1>1, <1>5, <2>2
  <2>6. count' <= n1 + 2 * e1 - 0 /\ (count >= n + e => count' = -1 \/ count' >= n1 + e1)
    <3>. HIDE DEF n, n1, e, e1, sl
    <3>1. 0 <= sl
      BY <2>2
    <3>. QED
      BY <1>1, <1>6, <2>2, <2>3, <2>4, <2>5, <3>1, OneAnswer
  <2>7. ~erred' => ~erred /\ (count' = count \/ count' = count + 1)
                   /\ (broken = {} => E' = E)
    BY <1>4
  <2>8. ~erred => count >= n + e
    BY <1>1, <1>5, <2>2
  <2>9. ~erred' => count' >= n1 + e1
    <3>. HIDE DEF n, n1, e, e1
    <3>. QED
      BY <1>1, <1>6, <2>2, <2>6, <2>7, <2>8
  <2>10. Tally'
    BY <1>1, <1>5, <1>6, <2>2, <2>6, <2>7, <2>9 DEF Tally, FoundBits
  <2>. QED
    BY <2>1, <2>10
<1>8. Kept' /\ CountIsBits'
  BY <1>1 DEF Kept, CountIsBits, sets, InPoll
<1>. QED
  BY <1>7, <1>8

(* The other steps of the loop. *)
LEMMA NullEntryStep == ASSUME IInv, NullEntry PROVE IInv'
BY DEF IInv, NullEntry, Passed, Tally, Kept, CountIsBits, InPoll

LEMMA PollNoneStep == ASSUME IInv, PollNone PROVE IInv'
<1>. USE DEF IInv
<1>1. /\ fd \in Nat /\ fd < N /\ N \in Nat /\ fd' = fd + 1 /\ pc = "poll"
      /\ UNCHANGED <<env, sets, pc, count, ready, erred, passed>>
  BY SelectAssumption DEF PollNone, Passed
<1>2. Passed'
  BY <1>1 DEF Passed, ready, InPoll
<1>3. Tally' /\ CountIsBits' /\ Kept'
  BY <1>1 DEF Tally, CountIsBits, Kept, FoundBits, ready, env, sets, InPoll
<1>. QED
  BY <1>2, <1>3

LEMMA PollBadStep == ASSUME IInv, PollBad PROVE IInv'
<1>1. Passed'
  BY SelectAssumption DEF IInv, PollBad, Passed, InPoll
<1>2. Tally' /\ CountIsBits'
  BY DEF PollBad, Tally, CountIsBits, InPoll
<1>3. Kept'
  BY DEF IInv, PollBad, Kept, InPoll, sets
<1>. QED
  BY <1>1, <1>2, <1>3 DEF IInv

LEMMA PollEndStep == ASSUME IInv, PollEnd PROVE IInv'
<1>. USE DEF IInv
<1>. DEFINE R == Cardinality(ready_readfds)
            W == Cardinality(ready_writefds)
            E == Cardinality(ready_exceptfds)
<1>1. /\ pc = "poll" /\ pc' = "check" /\ UNCHANGED <<env, fd, count, ready, erred, passed>>
      /\ exceptnull' = exceptnull
  BY DEF PollEnd, sets
<1>2. Passed'
  BY <1>1 DEF Passed, InPoll
<1>3. Tally'
  BY <1>1 DEF Tally, InPoll
<1>4. R \in Nat /\ W \in Nat /\ E \in Nat /\ count \in Int
  <2>1. /\ fd \in Nat /\ count \in Int /\ ready_readfds \subseteq 0 .. fd
        /\ ready_writefds \subseteq 0 .. fd /\ ready_exceptfds \subseteq 0 .. fd
    BY <1>1, SelectAssumption DEF Passed, InPoll
  <2>. QED
    BY <2>1, CountNat
<1>5. /\ count <= R + W + 2 * E
      /\ ~erred => count >= R + W + E
      /\ ~erred /\ broken = {} => ready_exceptfds = {}
  BY <1>1, <1>4 DEF Tally, FoundBits, InPoll
<1>6. <<readfds, writefds, exceptfds>> = passed
  BY <1>1 DEF Kept, InPoll
<1>7. CASE count > 0
  <2>1. /\ readfds' = ready_readfds /\ writefds' = ready_writefds
        /\ exceptfds' = IF exceptnull THEN {} ELSE ready_exceptfds
    BY <1>7 DEF PollEnd
  <2>2. Cardinality({}) = 0
    BY FS_EmptySet
  <2>3. Bits' = R + W
    BY <2>1 DEF Bits
  <2>4. Cardinality(exceptfds') = IF exceptnull THEN 0 ELSE E
    BY <2>1, <2>2
  <2>5. ~erred /\ broken = {} => E = 0
    BY <1>5, <2>2
  <2>6. CountIsBits'
    <3>. SUFFICES /\ ~exceptnull => count <= Bits' + 2 * Cardinality(exceptfds')
                  /\ ~erred => /\ count >= Bits' + Cardinality(exceptfds')
                               /\ broken = {} => count = Bits'
      BY <1>1, <1>4, <1>7 DEF CountIsBits, env
    <3>. HIDE DEF R, W, E
    <3>. QED
      BY <1>4, <1>5, <2>3, <2>4, <2>5
  <2>7. Kept'
    BY <1>1, <1>4, <1>7 DEF Kept, InPoll
  <2>. QED
    BY <1>2, <1>3, <2>6, <2>7
<1>8. CASE ~(count > 0)
  <2>1. UNCHANGED <<readfds, writefds, exceptfds>>
    BY <1>8 DEF PollEnd, sets
  <2>2. ~erred => count >= 0
    <3>. HIDE DEF R, W, E
    <3>. QED
      BY <1>4, <1>5
  <2>3. CountIsBits'
    BY <1>1, <1>6, <1>8, <2>1, <2>2 DEF CountIsBits
  <2>4. Kept'
    BY <1>1, <1>6, <2>1 DEF Kept
  <2>. QED
    BY <1>2, <1>3, <2>3, <2>4
<1>. QED
  BY <1>7, <1>8

LEMMA AgainStep == ASSUME IInv, Again PROVE IInv'
<1>1. <<readfds, writefds, exceptfds>>' = passed'
  BY DEF IInv, Again, Kept, sets
<1>. QED
  BY <1>1, StartPollStep DEF Again

LEMMA ReturnStep == ASSUME Return PROVE IInv'
<1>1. Passed'
  BY Nothing DEF Return, Idle, Passed
<1>. QED
  BY <1>1 DEF Return, Idle, IInv, Tally, Kept, CountIsBits, InPoll

(* Time passes, data come and go, kernel objects fail and another thread   *)
(* closes descriptors: none of them reaches into the loop's own variables. *)
LEMMA OutsideStep == ASSUME IInv, Tick \/ Change \/ Break \/ CloseElsewhere PROVE IInv'
<1>1. /\ UNCHANGED <<sets, pc, fd, count, ready, erred, passed>>
      /\ broken' = {} => broken = {}
  BY DEF Tick, Change, Break, CloseElsewhere, env
<1>2. Passed' /\ Kept'
  BY <1>1 DEF IInv, Passed, Kept, InPoll, sets, ready
<1>3. Tally'
  BY <1>1 DEF IInv, Tally, FoundBits, InPoll, ready
<1>4. CountIsBits'
  BY <1>1 DEF IInv, CountIsBits, Bits, sets
<1>. QED
  BY <1>2, <1>3, <1>4 DEF IInv

LEMMA InvNext == IInv /\ [Next]_vars => IInv'
<1>. SUFFICES ASSUME IInv, [Next]_vars PROVE IInv'
  OBVIOUS
<1>1. CASE Call
  BY <1>1, StartPollStep DEF Call
<1>2. CASE UNCHANGED vars
  BY <1>2 DEF IInv, Passed, Tally, FoundBits, Kept, CountIsBits, Bits, InPoll, vars, env, sets, ready
<1>. QED
  BY <1>1, <1>2, LookStep, AskReadStep, AskWriteStep, NullEntryStep, PollNoneStep, PollBadStep,
     PollEndStep, ReturnStep, AgainStep, OutsideStep DEF Next, Loop

(* Whatever select is asked for and whatever happens to the descriptors    *)
(* while it polls, a result of 0 leaves the caller's sets alone, and a     *)
(* positive result is the number of bits left in them, with the exceptions *)
(* that CountIsBits names.                                                 *)
THEOREM CountsBits == Spec => []CountIsBits
<1>1. IInv => CountIsBits
  BY DEF IInv
<1>. QED
  BY <1>1, InitInv, InvNext, PTL DEF Spec
=============================================================================
