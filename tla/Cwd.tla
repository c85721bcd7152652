--------------------------------- MODULE Cwd ---------------------------------
(***************************************************************************)
(* The working directory of libcglue: chdir (glue.c) with __path_absolute  *)
(* and __path_normalize (cwd.c), which edit a path in place.  A path is a  *)
(* sequence of characters; one step is one iteration of a loop.  Strings   *)
(* are indexed from 0 in the code and from 1 here.                         *)
(***************************************************************************)
EXTENDS Integers, SequencesExt

CONSTANTS
  Chars,    \* the characters of paths; "a" stands for letters and digits
  MaxLen,   \* MAXNAMLEN, the size of the buffers
  MaxPath,  \* bound on the length of the paths a program passes
  MaxDir    \* bound on the length, behind the drive, of directories that exist

AnyChar == {"/", ".", "a", ":"}
Paths == BoundedSeq(Chars, MaxPath)

ASSUME CwdAssumption ==
  /\ Chars \subseteq AnyChar
  /\ MaxLen \in Nat /\ MaxPath \in Nat /\ MaxDir \in Nat
  /\ MaxLen > 5  \* the directories of Init fit

VARIABLES
  cwd,           \* __cwd
  drive, out,    \* the output buffer: the drive, and the rest of the path
  asked,         \* history: the path the program passed
  pc, i, first, next

vars == <<cwd, drive, out, asked, pc, i, first, next>>

(* __init_cwd has changed to the directory of the module, or has left      *)
(* __cwd empty: argv[0] is NULL or has no "/", or its chdir failed.        *)
Init ==
  /\ cwd \in {<<>>, <<"a", ":">>, <<"a", ":", "/", "a", "a">>}
  /\ drive = <<>> /\ out = <<>> /\ asked = <<>>
  /\ pc = "idle" /\ i = 1 /\ first = 1 /\ next = 1

-----------------------------------------------------------------------------
(* The prefix "drive:" of a path, empty when it has none. *)
get_drive(d) ==
  LET colons == {k \in 1 .. Len(d) : d[k] = ":" /\ \A j \in 1 .. k - 1 : d[j] = "a"} IN
    IF colons = {} THEN <<>> ELSE SubSeq(d, 1, CHOOSE k \in colons : TRUE)
Rest(d) == SubSeq(d, Len(get_drive(d)) + 1, Len(d))
Absolute(d) == Len(d) > 0 /\ d[1] = "/"

(* strcpy and strcat return 0 if the string does not fit. *)
FitsExactly(s) == Len(s) <= MaxLen
Fits(s) == Len(s) < MaxLen

(* The three forms of a path: with a drive, absolute, relative.  out[dr]=0 *)
(* cuts __cwd after its drive; if it has none, dr is -1 and all of __cwd   *)
(* stays.                                                                  *)
HasOwnDrive(path) == get_drive(path) # <<>> /\ Absolute(Rest(path))
Join(path) ==
  IF HasOwnDrive(path) THEN path
  ELSE IF ~Absolute(path) THEN cwd \o <<"/">> \o path
  ELSE (IF get_drive(cwd) = <<>> THEN cwd ELSE get_drive(cwd)) \o path

(* __path_absolute up to the loops: "/" is appended first. *)
Begin(path) ==
  LET s == Join(path) IN
    /\ pc = "idle"
    /\ Fits(s) /\ Fits(Append(s, "/"))
    /\ drive' = get_drive(s)
    /\ out' = Append(Rest(s), "/")
    /\ asked' = path
    /\ pc' = "slashes" /\ i' = 1
    /\ UNCHANGED <<cwd, first, next>>

(* ENAMETOOLONG *)
TooLong(path) ==
  /\ pc = "idle"
  /\ ~(Fits(Join(path)) /\ Fits(Append(Join(path), "/")))
  /\ UNCHANGED vars

(* With dr = -1 the terminator is written to the byte before the buffer.   *)
(* Begin is the case that the byte does not matter; if it does, nothing is *)
(* said of the program from there on.                                      *)
StrayWrite(path) ==
  /\ pc = "idle"
  /\ ~HasOwnDrive(path) /\ Absolute(path) /\ get_drive(cwd) = <<>>
  /\ pc' = "corrupt"
  /\ UNCHANGED <<cwd, drive, out, asked, i, first, next>>
Corrupt == pc = "corrupt" /\ UNCHANGED vars

Chdir == \E path \in Paths : Begin(path) \/ TooLong(path) \/ StrayWrite(path)

(* Is str at position k of the buffer? *)
At(str, k) == k + Len(str) - 1 <= Len(out) /\ SubSeq(out, k, k + Len(str) - 1) = str
(* Remove n characters after position k.  The shift loops copy out[j + n]  *)
(* to out[j] as long as out[j] was not 0, so they go on after copying the  *)
(* terminator: they read n - 1 characters behind the old terminator, and   *)
(* store them behind the new one, where nothing looks at them.  With n = 2 *)
(* ("/./") this stays in the buffer (BufferFits); with ".." n is as large  *)
(* as the name that is removed and the reads may leave the buffer.         *)
Cut(k, n) == SubSeq(out, 1, k) \o SubSeq(out, k + n + 1, Len(out))

(* Convert "//" to "/". *)
Slashes ==
  /\ pc = "slashes"
  /\ \/ /\ At(<<"/", "/">>, i)
        /\ out' = Cut(i, 1) /\ UNCHANGED <<i, pc>>
     \/ /\ i < Len(out) /\ ~At(<<"/", "/">>, i)
        /\ i' = i + 1 /\ UNCHANGED <<out, pc>>
     \/ /\ i >= Len(out)
        /\ i' = 1 /\ pc' = "dots" /\ UNCHANGED out
  /\ UNCHANGED <<cwd, drive, asked, first, next>>

(* Convert "/./" to "/". *)
Dots ==
  /\ pc = "dots"
  /\ \/ /\ At(<<"/", ".", "/">>, i)
        /\ out' = Cut(i, 2) /\ UNCHANGED <<i, pc, first, next>>
     \/ /\ i + 2 <= Len(out) /\ ~At(<<"/", ".", "/">>, i)
        /\ i' = i + 1 /\ UNCHANGED <<out, pc, first, next>>
     \/ /\ i + 2 > Len(out)
        /\ pc' = "parents" /\ first' = 1 /\ next' = 1 /\ UNCHANGED <<out, i>>
  /\ UNCHANGED <<cwd, drive, asked>>

(* Convert "/asdf/../" to "/", and a leading "/../" too. *)
UpFromHere ==
  /\ out' = Cut(first, next + 3 - first)
  /\ UNCHANGED <<first, next, pc>>

UpKeepsDots ==
  /\ out' = Cut(first, next - first)
  /\ first' = 1 /\ next' = 1 /\ pc' = pc

Up ==
  /\ out' = Cut(first, next + 3 - first)
  /\ first' = 1 /\ next' = 1 /\ pc' = pc

(* Find the next slash. *)
Advance ==
  LET slashes == {k \in next + 1 .. Len(out) : out[k] = "/"} IN
    /\ first' = next
    /\ IF slashes = {} THEN next' = Len(out) + 1 /\ pc' = "trailing"
       ELSE next' = Min(slashes) /\ pc' = pc
    /\ UNCHANGED out

Parents ==
  /\ pc = "parents"
  /\ \/ At(<<".", ".", "/">>, next + 1) /\ Up
     \/ ~At(<<".", ".", "/">>, next + 1) /\ Advance
  /\ UNCHANGED <<cwd, drive, asked, i>>

TrailingForgotten ==
  /\ pc = "trailing"
  /\ out' = out
  /\ pc' = "resolved"
  /\ UNCHANGED <<cwd, drive, asked, i, first, next>>

(* Remove the trailing "/". *)
Trailing ==
  /\ pc = "trailing"
  /\ out' = IF Len(out) > 0 /\ Last(out) = "/" THEN Front(out) ELSE out
  /\ pc' = "resolved"
  /\ UNCHANGED <<cwd, drive, asked, i, first, next>>

(* The directory exists or not (sceIoDopen).  chdir returns. *)
EnterDropsDrive ==
  /\ pc = "resolved"
  /\ cwd' = out \/ UNCHANGED cwd
  /\ drive' = <<>> /\ out' = <<>> /\ asked' = <<>>
  /\ pc' = "idle" /\ i' = 1 /\ first' = 1 /\ next' = 1

Enter ==
  /\ pc = "resolved"
  /\ \/ Len(out) <= MaxDir /\ cwd' = drive \o out
     \/ UNCHANGED cwd
  /\ drive' = <<>> /\ out' = <<>> /\ asked' = <<>>
  /\ pc' = "idle" /\ i' = 1 /\ first' = 1 /\ next' = 1

Loop == Slashes \/ Dots \/ Parents \/ Trailing \/ Enter
Next == Chdir \/ Loop \/ Corrupt

Spec == Init /\ [][Next]_vars
FairSpec == Spec /\ WF_vars(Loop)

-----------------------------------------------------------------------------
(* What a path denotes, from a directory: the stack of its components. *)
Push(stack, c) ==
  IF c \in {<<>>, <<".">>} THEN stack
  ELSE IF c = <<".", ".">> THEN (IF stack = <<>> THEN stack ELSE Front(stack))
  ELSE Append(stack, c)
Read(acc, c) ==
  IF c = "/" THEN [stack |-> Push(acc.stack, acc.cur), cur |-> <<>>]
  ELSE [acc EXCEPT !.cur = Append(@, c)]
Scan(acc, s) ==
  LET acc_at[k \in 0 .. Len(s)] == IF k = 0 THEN acc ELSE Read(acc_at[k - 1], s[k])
  IN  acc_at[Len(s)]
Denotes(stack, s) == Scan([stack |-> stack, cur |-> <<>>], Append(s, "/")).stack
Written(stack) ==
  LET text[k \in 0 .. Len(stack)] ==
        IF k = 0 THEN <<>> ELSE text[k - 1] \o <<"/">> \o stack[k]
  IN  text[Len(stack)]

(* The variables keep their types, and the index of the loops that look    *)
(* for "//" and "/./" stays in the string, also right after a cut has      *)
(* shortened it.                                                           *)
TypeOK ==
  /\ cwd \in Seq(AnyChar) /\ drive \in Seq(AnyChar) /\ out \in Seq(AnyChar)
  /\ asked \in Paths
  /\ pc \in {"idle", "slashes", "dots", "parents", "trailing", "resolved", "corrupt"}
  /\ pc \in {"slashes", "dots"} => i \in 1 .. Len(out)
  /\ first \in Nat /\ next \in Nat

(* __path_normalize works "by removing . and .. components, duplicated /,  *)
(* etc.": the path resolved is the one the program's path denotes, walked  *)
(* component by component from the working directory, in whatever order    *)
(* the three kinds of redundancy come.  An absolute path is walked from    *)
(* the drive of the working directory, but from the directory itself if    *)
(* that has no drive.                                                      *)
ResolvesPath ==
  LET named == HasOwnDrive(asked)
      from == IF named \/ (Absolute(asked) /\ get_drive(cwd) # <<>>)
                THEN <<>> ELSE Denotes(<<>>, Rest(cwd))
  IN  pc = "resolved" =>
        /\ drive = get_drive(IF named THEN asked ELSE cwd)
        /\ out = Written(Denotes(from, IF named THEN Rest(asked) ELSE asked))

(* The working directory is in normal form behind its drive, with or       *)
(* without a drive.                                                        *)
CwdCanonical == Rest(cwd) = Written(Denotes(<<>>, Rest(cwd)))

(* A working directory that has a drive is only replaced by one that has,  *)
(* so that once a chdir has given it one every path can be completed and   *)
(* out[dr] = 0 never again misses the buffer.                              *)
KeepsDrive == [][get_drive(cwd) # <<>> => get_drive(cwd') # <<>>]_vars

(* The buffers of MAXNAMLEN + 1 characters hold every string with its      *)
(* terminator and one character to spare.                                  *)
BufferFits == Len(drive) + Len(out) < MaxLen /\ Len(cwd) < MaxLen

(* chdir returns: every loop that edits the path in place ends. *)
ChdirReturns == (pc \notin {"idle", "corrupt"}) ~> (pc = "idle")
=============================================================================
