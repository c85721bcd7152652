------------------------------- MODULE Select -------------------------------
(***************************************************************************)
(* select of libcglue (select.c): a loop that asks every descriptor of the *)
(* caller's sets in turn, sleeps and asks again until something is ready,  *)
(* the timeout is over or an error is seen.  A descriptor takes three      *)
(* steps: its entry is looked at, then it is asked about reading, then     *)
(* about writing.  Between any two steps data comes and goes, kernel       *)
(* objects fail and other threads close descriptors, also the one that is  *)
(* being asked, whose entry is then NULL when the loop comes back to it.   *)
(***************************************************************************)
EXTENDS Integers, FiniteSets

CONSTANTS
  N,            \* the first argument of select: descriptors 0 .. N - 1
  KindSet,      \* the kinds of descriptor the run looks at
  MaxAsked,     \* the most bits a caller sets in the three sets
  MaxClock,     \* the largest timeout, in ticks of the clock
  NoTimeout     \* the null timeout pointer

FD == 0 .. N - 1

ASSUME SelectAssumption ==
  /\ N \in Nat /\ MaxAsked \in Nat /\ MaxClock \in Nat
  /\ KindSet \subseteq {"pipe", "file", "socket", "tty", "folder"}
  /\ NoTimeout \notin Nat

VARIABLES
  kind,                         \* [FD -> KindSet \cup {"none"}]
  readable, writable, broken,   \* what the kernel would answer about the
                                \* descriptors of the call
  readfds, writefds, exceptfds, \* the caller's sets
  exceptnull,                   \* the exceptfds pointer is null
  timeout, clock,               \* the timeout, and the ticks since the call
  pc, fd, type, count,          \* the loop; type selects the case of the switch
  ready_readfds, ready_writefds, ready_exceptfds,
  erred,                        \* history: this poll saw an error nobody asked for
  passed                        \* history: the sets as the caller passed them

env == <<kind, readable, writable, broken>>
sets == <<readfds, writefds, exceptfds, exceptnull>>
ready == <<ready_readfds, ready_writefds, ready_exceptfds>>
vars == <<env, sets, timeout, clock, pc, fd, type, count, ready, erred, passed>>

Init ==
  /\ kind \in [FD -> KindSet]
  /\ readable = {} /\ writable = {} /\ broken = {}
  /\ readfds = {} /\ writefds = {} /\ exceptfds = {} /\ exceptnull = TRUE
  /\ timeout = NoTimeout /\ clock = 0
  /\ pc = "idle" /\ fd = 0 /\ type = "none" /\ count = 0
  /\ ready_readfds = {} /\ ready_writefds = {} /\ ready_exceptfds = {}
  /\ erred = FALSE /\ passed = <<{}, {}, {}>>

-----------------------------------------------------------------------------
(* The start of a __poll_select. *)
StartPoll ==
  /\ pc' = "poll" /\ fd' = 0 /\ type' = "none" /\ count' = 0
  /\ ready_readfds' = {} /\ ready_writefds' = {} /\ ready_exceptfds' = {}
  /\ erred' = FALSE

(* The descriptors whose state select asks the kernel for. *)
Kernel == {f \in FD : kind[f] \in {"pipe", "socket"}}

Call ==
  /\ pc = "idle"
  /\ readfds' \in SUBSET FD /\ writefds' \in SUBSET FD /\ exceptfds' \in SUBSET FD
  /\ Cardinality(readfds') + Cardinality(writefds') + Cardinality(exceptfds')
       <= MaxAsked
  /\ exceptnull' \in {TRUE, FALSE} /\ (exceptnull' => exceptfds' = {})
  /\ timeout' \in 0 .. MaxClock \cup {NoTimeout}
  /\ clock' = 0
  /\ passed' = <<readfds', writefds', exceptfds'>>
  /\ StartPoll
  /\ readable' \in SUBSET (readfds' \cap Kernel)
  /\ writable' \in SUBSET (writefds' \cap Kernel)
  /\ UNCHANGED <<kind, broken>>

(* if (__descriptormap[fd] != NULL) *)
Look ==
  /\ pc = "poll" /\ fd < N
  /\ kind[fd] # "none"
  /\ pc' = "read"
  /\ UNCHANGED <<env, sets, timeout, clock, fd, type, count, ready, erred, passed>>

(* The kernel's answer about descriptor fd of kind k, when asked for       *)
(* holds it and ok are the descriptors that are ready: an error, which     *)
(* goes to exceptfds or, for a socket whose exceptions nobody asked for,   *)
(* to count; or a bit of the set.                                          *)
Refused(k, asked) == fd \in asked /\ k \in {"pipe", "socket"} /\ fd \in broken
SocketError(k, asked) == Refused(k, asked) /\ k = "socket" /\ fd \notin exceptfds
Found(k, asked, ok) == fd \in asked \cap ok /\ ~Refused(k, asked)

CountAfterOverwrites(k, asked, ok) ==
  IF SocketError(k, asked) THEN -1
  ELSE IF fd \notin asked THEN count
  ELSE IF Refused(k, asked) \/ Found(k, asked, ok) THEN 1 ELSE 0

CountAfter(k, asked, ok) ==
  IF SocketError(k, asked) THEN -1
  ELSE IF Refused(k, asked) \/ Found(k, asked, ok) THEN count + 1 ELSE count

Answer(k, asked, ok) ==
  /\ count' = CountAfter(k, asked, ok)
  /\ erred' = (erred \/ SocketError(k, asked))
  /\ ready_exceptfds' = IF Refused(k, asked) /\ ~SocketError(k, asked)
                          THEN ready_exceptfds \cup {fd} ELSE ready_exceptfds

(* The cases' first halves.  A file is always readable; terminals and      *)
(* folders have no case.                                                   *)
Readable(k) == IF k = "file" THEN FD ELSE IF fd \in Kernel THEN readable ELSE {}
AskRead ==
  /\ pc = "read" /\ kind[fd] # "none"
  /\ Answer(kind[fd], readfds, Readable(kind[fd]))
  /\ ready_readfds' = IF Found(kind[fd], readfds, Readable(kind[fd]))
                         THEN ready_readfds \cup {fd} ELSE ready_readfds
  /\ type' = kind[fd] /\ pc' = "write"
  /\ UNCHANGED <<env, sets, timeout, clock, fd, ready_writefds, passed>>

(* The second halves, for pipes and sockets. *)
AsksWrite == type \in {"pipe", "socket"} /\ fd \in writefds
Writable == IF AsksWrite THEN writable ELSE {}
AskWrite ==
  /\ pc = "write" /\ (AsksWrite => kind[fd] # "none")
  /\ Answer(type, writefds, Writable)
  /\ ready_writefds' = IF Found(type, writefds, Writable)
                          THEN ready_writefds \cup {fd} ELSE ready_writefds
  /\ fd' = fd + 1 /\ type' = "none" /\ pc' = "poll"
  /\ UNCHANGED <<env, sets, timeout, clock, ready_readfds, passed>>

(* __descriptormap[fd]-> with an entry that another thread has set to NULL *)
(* since the loop looked at it: the program is at an end.                  *)
NullEntry ==
  /\ pc = "read" \/ (pc = "write" /\ AsksWrite)
  /\ kind[fd] = "none"
  /\ pc' = "fault"
  /\ UNCHANGED <<env, sets, timeout, clock, fd, type, count, ready, erred, passed>>

(* A descriptor that is not open and that nobody asked for. *)
PollNone ==
  /\ pc = "poll" /\ fd < N
  /\ kind[fd] = "none" /\ fd \notin readfds \cup writefds \cup exceptfds
  /\ fd' = fd + 1
  /\ UNCHANGED <<env, sets, timeout, clock, pc, type, count, ready, erred, passed>>

(* EBADF: the descriptor was asked for and is not open. *)
PollBad ==
  /\ pc = "poll" /\ fd < N
  /\ kind[fd] = "none" /\ fd \in readfds \cup writefds \cup exceptfds
  /\ count' = -1 /\ erred' = TRUE /\ pc' = "check"
  /\ UNCHANGED <<env, sets, timeout, clock, fd, type, ready, passed>>

(* The sets the caller passed are replaced only when something is ready. *)
PollEnd ==
  /\ pc = "poll" /\ fd = N
  /\ pc' = "check"
  /\ IF count > 0
       THEN /\ readfds' = ready_readfds /\ writefds' = ready_writefds
            /\ exceptfds' = IF exceptnull THEN {} ELSE ready_exceptfds
            /\ UNCHANGED exceptnull
       ELSE UNCHANGED sets
  /\ UNCHANGED <<env, timeout, clock, fd, type, count, ready, erred, passed>>

Expired == timeout # NoTimeout /\ clock >= timeout

(* select returns count, and nothing of the call is left. *)
Idle ==
  /\ pc' = "idle" /\ fd' = 0 /\ type' = "none" /\ count' = 0 /\ erred' = FALSE
  /\ passed' = <<{}, {}, {}>>
  /\ readfds' = {} /\ writefds' = {} /\ exceptfds' = {} /\ exceptnull' = TRUE
  /\ ready_readfds' = {} /\ ready_writefds' = {} /\ ready_exceptfds' = {}
  /\ timeout' = NoTimeout /\ clock' = 0
  /\ readable' = {} /\ writable' = {} /\ broken' = {}
  /\ UNCHANGED kind

ReturnIgnoresTimeout ==
  /\ pc = "check"
  /\ count # 0
  /\ Idle

Return ==
  /\ pc = "check"
  /\ count > 0 \/ Expired \/ count < 0
  /\ Idle

(* Nothing found: sleep SELECT_POLLING_DELAY_IN_us and poll again. *)
Again ==
  /\ pc = "check"
  /\ count = 0 /\ ~Expired
  /\ StartPoll
  /\ UNCHANGED <<env, sets, timeout, clock, passed>>

-----------------------------------------------------------------------------
Tick ==
  /\ pc \notin {"idle", "fault"} /\ timeout # NoTimeout /\ clock < timeout
  /\ clock' = clock + 1
  /\ UNCHANGED <<env, sets, timeout, pc, fd, type, count, ready, erred, passed>>

(* Data arrives and is consumed, buffers fill and drain. *)
Change ==
  /\ pc \notin {"idle", "fault"}
  /\ \/ \E f \in readfds \cap Kernel : readable' \in {readable \cup {f}, readable \ {f}}
                           /\ UNCHANGED writable
     \/ \E f \in writefds \cap Kernel : writable' \in {writable \cup {f}, writable \ {f}}
                            /\ UNCHANGED readable
  /\ UNCHANGED <<kind, broken, sets, timeout, clock, pc, fd, type, count, ready, erred, passed>>

(* The kernel answers with an error from now on. *)
Break ==
  /\ pc \notin {"idle", "fault"}
  /\ \E f \in (readfds \cup writefds) \cap Kernel : broken' = broken \cup {f}
  /\ UNCHANGED <<kind, readable, writable, sets, timeout, clock, pc, fd, type,
                 count, ready, erred, passed>>

(* Another thread closes a descriptor. *)
CloseElsewhere ==
  /\ \E f \in FD :
       /\ kind' = [kind EXCEPT ![f] = "none"]
       /\ readable' = readable \ {f} /\ writable' = writable \ {f}
  /\ UNCHANGED <<broken, sets, timeout, clock, pc, fd, type, count, ready, erred, passed>>

Loop == \/ Look \/ AskRead \/ AskWrite \/ NullEntry \/ PollNone \/ PollBad \/ PollEnd
        \/ Return \/ Again
Next == Call \/ Loop \/ Tick \/ Change \/ Break \/ CloseElsewhere

(* The caller's thread runs, and time passes. *)
Fairness == WF_vars(Loop) /\ WF_vars(Tick)
Spec == Init /\ [][Next]_vars
FairSpec == Spec /\ Fairness

-----------------------------------------------------------------------------
(* The result is the number of bits select leaves in the caller's sets: a  *)
(* result of 0 leaves the sets as they were passed, and a positive one     *)
(* leaves that many bits, unless the kernel reported an error: a           *)
(* descriptor that failed for reading and for writing counts twice for its *)
(* one bit of exceptfds, or for none when the caller passed no exceptfds.  *)
(* After an error that nobody asked for (erred) the result may be short of *)
(* the bits, but is never more.                                            *)
Bits == Cardinality(readfds) + Cardinality(writefds)
CountIsBits ==
  pc = "check" =>
    /\ count > 0 /\ ~exceptnull => count <= Bits + 2 * Cardinality(exceptfds)
    /\ ~erred => /\ count = 0 => <<readfds, writefds, exceptfds>> = passed
                 /\ count > 0 => count >= Bits + Cardinality(exceptfds)
                 /\ count > 0 /\ broken = {} => count = Bits
                 /\ count >= 0

(* The caller waits no longer than its timeout, unless a descriptor it     *)
(* waits for is closed under its feet.                                     *)
Over == pc \in {"idle", "fault"}
TimeoutReturns == (~Over /\ timeout # NoTimeout) ~> Over

(* Without a timeout, the caller returns when a pipe or socket it reads    *)
(* stays readable and the kernel reports no error.  (After an error the    *)
(* count may come out as 0 poll after poll: CountAfter adds to the -1.)    *)
Awaited(f) == broken = {} /\ f \in readfds /\ f \in readable /\ kind[f] # "tty" /\ kind[f] # "folder"
ReadyReturns ==
  \A f \in FD : []((~Over /\ [](~Over => Awaited(f))) => <>Over)
=============================================================================
