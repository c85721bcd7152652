# A TLA+ model of the PSPSDK runtime

PSPSDK is the SDK for PSP homebrew. Most of the repository is import tables,
headers and samples. What it adds to the kernel it runs on is a C runtime:
`libcglue`, which gives newlib its POSIX system calls, and `libpthreadglue`,
which gives pthread-embedded its threads. Programs of several threads share the
state of both. Around it stand libraries with protocols of their own: display
lists that the graphics engine reads while they are written, a flash
translation layer for boot code, a reader of compressed images. This project
models these, checks them with TLC and proves their most important invariants
with TLAPS. Paths below are relative to `src/src/`.

## 1. Inventory

| Component | State | Operations | What is hard | What makes it correct |
|---|---|---|---|---|
| Descriptor manager, `libcglue/fdman.c` | `__descriptormap` (pointers), `__descriptor_data_pool` (slots with kernel handle, type, flags, name, reference count), `__fdman_mutex` | get new, get dup, release | get takes the lock, release does not; unsigned counts that start at 0 or 1; a duplicate shares a slot | a descriptor keeps its handle; no handle leaks; counts are exact |
| Descriptor calls, `libcglue/glue.c`, `pipe.c`, `socket.c` | the above and the kernel objects | open, close, dup, pipe, socket, accept, fcntl, setsockopt, lseek on folders | every call has an error path after it took something | a descriptor names the object it was opened on; objects and names are freed once; a new descriptor inherits nothing |
| `select`, `libcglue/select.c` | three sets, a count, a clock | a polling loop | the world changes between two polls; one variable is both count and error | the result fits the bits left in the sets; it returns in time and misses nothing that stays |
| Working directory, `libcglue/cwd.c`, `chdir` | `__cwd` | chdir, getcwd, path resolution | in-place editing with three kinds of redundancy, bounded buffers | a path resolves to what it denotes |
| TLS, `libpthreadglue/tls-helper.c` | `__keysUsed`, `__globalTlsLock`, an array per thread | allocate, free, get, set, thread init and destroy | concurrent allocation, reuse of keys | a key has one owner; a thread reads what it wrote |
| Threads, `libpthreadglue/osal.c` | per thread: TLS array, control data, cancellation semaphore | create, start, exit, delete, cancel, wait for end, cancellable pend | four allocations that may each fail; deletion of what others use; waits that poll two things | nothing leaks, nothing in use is freed, waits end |
| Heap and locks, `glue.c` `_sbrk`, `lock.c`, `init.c` | break pointer, newlib's locks | sbrk, lock hooks, init and deinit | unsigned sizes, memory that runs out | regions are disjoint and inside the block |
| Pipes, `pipe.c` reads and writes | kernel message pipe | read, write, blocking or not | peek and receive are two steps | no illegal size, no bytes lost |
| USB device driver, `USBDeviceDriver/main.c` | patched driver table, unassigned flash partitions, cached disc sector | set device, finish device, read a synthesised FAT | partial failure, a stale sector cache | what was unassigned is assigned again; the FAT chain covers the file |
| Flash translation layer, `iplsdk/src/lflash.c`, `emcsm.c` | map from logical to physical blocks, queue of unused blocks, one-block write-back cache, spare areas on the flash | init, read, write, sync | the power goes at any point; any flash operation may fail; two copies of a block exist for a while | a disk: synced data survive, no block is used twice or lost |
| Compressed ISO reader, `LibCisoRead/cisoreader.c` | window of block offsets, the caller's buffer used as scratch | open, read, close | window limits, chunks read ahead into the output buffer, unsigned differences | a read returns the bytes of the image |
| GU display lists, `gu/` | contexts with their lists, the object stack, the stall address, the draw and display buffers | start, draw, get memory, begin and end object, call, finish, sync, swap | the graphics engine reads the list while it is written, and jumps in it are patched later | it runs finished words only, draws in order and behind the buffer set for display; sync returns |
| gdb stub, profiler, debug output, `debug/`, `prof/` | packet buffers, breakpoints | packet loop | retransmission | a packet is acted on once |

Interaction: `__libcglue_init` creates the mutexes, then the descriptor table,
then the TLS of the main thread, then the working directory, before any thread
starts. Descriptor calls go through the descriptor manager, `select` reads the
map without the lock, `pte_osThreadCreate` allocates a TLS array, and the
thread finds it through its kernel name. Everything else is a kernel call. The
flash layer, the ISO reader and the GU libraries stand alone: the first runs on
the bare machine, the second on a `read_data` of the program, the third
shares memory with the graphics engine and nothing with libcglue.

Not modelled, with reasons, are the parts listed in `PROJECT.json` as
`not_modelled`: import stubs and headers (no code), register-level drivers,
cryptography and vendored code, firmware utilities, samples, host tools,
arithmetic without control.

## 2. Modules

| Module | Models | State and steps |
|---|---|---|
| `FdTable` | what the descriptor table promises | an atomic map from descriptors to kernel handles |
| `FdMan`, `MCFdMan` | `fdman.c` with `_open`, `_close` around it | one step per access to shared memory: lock, scan, claim, count load and store, unlock, fill; close tests, decrements, clears, unmaps |
| `LibcFd`, `MCLibcFd` | the descriptor calls | one action per call, with every failure; `kernel` holds the open objects, `held` what the program believes |
| `Select` | `select.c` | three steps per descriptor (the check for NULL, the question about reading, the one about writing); data, errors and closes happen between any two |
| `Cwd` | `cwd.c` and `chdir` | paths are character sequences, one step per loop iteration |
| `PteTls` | `tls-helper.c` | lock, scan, take, unlock are steps of their own |
| `PteOsal` | threads and waits of `osal.c` | each allocation, each free and each poll is a step |
| `FlashDisk` | what a flash disk promises | current and stable contents, the dirty block, the blocks an operation failed for |
| `Lflash`, `MCLflash` | `lflash.c` on `emcsm.c` | one step per flash operation (page, block or spare area), each may fail; `PowerLoss` at any point, then the mount block by block |
| `GuList` | the display lists of `gu/` | one step per library call, one per word the engine runs; the display has the buffer it was last set to; `issued` and `drawn` record what was asked for and done |
| `Ciso` | `cisoreader.c` | the head of `ciso_read` and each turn of its loop are steps; memory cells hold a unit of the image or of the compressed file |
| `FdManProofs`, `LibcFdProofs`, `SelectProofs`, `CwdProofs`, `LflashProofs`, `GuListProofs`, `CisoProofs` | theorems about the module they are named after | |
| `PteProofs` | theorems about `PteTls` and `PteOsal` | |

`FdMan` and `LibcFd` describe the same table at two grains: `FdMan` for
interleavings inside the manager, `LibcFd` for sequences of whole calls with
all kinds of descriptor. `FdMan` is shown to implement `FdTable`
(`RefinesFdTable`): the step that fills a claimed slot is the abstract open, the
beginning of a close is the abstract close, all else stutters. `Lflash` is shown
to implement `FlashDisk` (`RefinesFlashDisk`): what is current is the cached
block or the mapped copy, what is stable is the copy `init_segment` would settle
on if the power went now (`Winner`). Most steps of a sync stutter; the abstract
sync is the step that makes the new copy the winner.

What `Lflash` leaves out: other segments, bad blocks, decay of stored data, the
partition table. Erasing an unused block may fail without limit, other
operations `MaxFailures` times. A failed program leaves the block erased, as
programmed, or with a header and blank pages. A partition may have the scramble
code 0; `lflash.c:528` then leaves the controller with the code of the block that
was synced before. `FlashDisk` calls such blocks `Plain` and lets the first write
to part of one garble the rest; it promises nothing of a block that an operation
failed for (`failed`) until the next power cycle.

What `GuList` leaves out: `GU_SEND` lists, pausing signals, the signal call
mode, objects inside call lists. A `BASE` word counts as one with the command it
belongs to. The program is a correct one: it waits with `sceGuSync` before it
starts the list again or swaps, terminates its objects, stays inside its lists,
and gives the library two buffers that differ. It sets no swap callback, and
`sceGeListUpdateStallAddr` does not fail. `set_buffer` is the argument of the last
`sceDisplaySetFrameBuf`; when the display follows (the next hsync or vsync) is not
in the model.

`Cwd` starts with a working directory on a drive or with the empty one that
`__init_cwd` leaves when it has no path or its `chdir` fails. With the empty one
`cwd.c:158` writes to the byte before the buffer: `StrayWrite` is the case that
this matters (the program is then `corrupt` and nothing more is said of it),
`Begin` the case that it does not. A cut is one step; what the shift loops read
behind the string on the way (section 5) is not followed.

`Select` lets other threads close descriptors, never open one under the same
number. A use of an entry that was closed after the check for NULL ends the
program (`fault`).

`Ciso` counts in units. The formats differ as the code tells them apart: the
header before a block, the missing last offset of DAX (`Junk` is what is read
in its place), the size of the buffers, the rule by which a stored block is told
from a compressed one (`Copies`: the top bit, or the length handed to the
decompressor). The last block of an image may be cut short, in every format.
Offsets and their differences are unsigned numbers modulo `W`. Block sizes are
powers of two, as the mask in `cisoreader.c:226` needs; the model takes the
remainder. External are the three decompression libraries, which make a block
out of all its compressed units. Images are assumed to have no block longer than
`com_size` (`block_size` for JISO), and `memalign`, whose result the code does not
look at, not to fail.

The kernel is external. A call that may fail is a disjunction of success and
failure; a lightweight mutex is a variable that names its owner; time is a tick.

## 3. Runs

| Run | Question | Result |
|---|---|---|
| `fdman_open_close` | two threads open and close concurrently | descriptors intact, no handle leaked, implements `FdTable`, every call returns |
| `fdman_dup` | one thread with dup and with the standard descriptors closed | counts exact through the wrap, lowest descriptor handed out |
| `fdman_dup_race` | two threads with dup | violated: a decrement outside the lock is lost |
| `libcfd` | programs that keep originals open as long as duplicates | descriptors, objects, counts and names agree; a new socket inherits no mode |
| `select` | descriptors of every kind, errors, concurrent closes, timeouts | without errors the result is the number of bits left in the caller's sets, with them it is bounded by the bits; `select` returns in time and does not miss data that stay |
| `cwd` | path resolution | paths resolve to what they denote; the directory stays in normal form and keeps its drive; the loops end; no string outgrows its buffer |
| `tls` | keys allocated, freed and used by threads that come and go | one owner per key; own values under keys that were never freed |
| `osal` | creation failures, deletion, waits | nothing leaks or is freed in use; waits end |
| `lflash` | writes and syncs with failing operations and power losses at any point | blocks in use and unused ones stay apart, none is lost without a failure, the layer implements `FlashDisk`, with a block that has the code 0 among them |
| `gu` | frames with nested objects, memory blocks and a call list, the engine one word at a time | only finished words run; the visible draws are made in order, never to the buffer set for display; `sceGuSync` returns |
| `gu_memory` | `sceGuGetMemory` inside an object | violated: the engine runs the jump that is still to be patched |
| `ciso` | reads of any offset, in sequence, with close and reopen in between | blocks that can be told are delivered, offsets stay in the window, blocks fit their buffer but for a last DAX block cut short, reads end |

Bounds. The table has three or four entries in place of 1024: enough to be
full, to have a free entry below a used one, and to hold a slot, its duplicate
and a newcomer. Two threads suffice to race for one entry, lock or key. The
counts wrap at 8 in place of 2^32, so that the wrap of the standard slots
happens. `Select` polls two descriptors of every kind, because one descriptor's
result is combined with the next one's. `Cwd` has every path of up to five
characters over `/ . a :` from directories of up to two characters behind the
drive (three at the start), which holds `../..` from a directory, every pair of redundancies next to each other
and paths that just do and just do not fit the buffer of twelve. The
cancellation semaphore has maximum 1 in place of 255: the refusal at the maximum
happens. `Lflash` has four physical blocks for two formatted logical ones (and
one that no block holds), so that the queue is used up by one failed sync, two
pages to a block, so that a block may be half written, one failure next to any
number of power losses; one of the two blocks is scrambled, the other has the
code 0. `GuList` has room for seven words and a call list of
four: two nested objects with a draw and a call inside, or a memory block among
draws. `Ciso` has images of four blocks of two units, compressed to one, two or
three units, the second and the last possibly stored, with and without a header
of one unit, and a window of three offsets: the window is replaced in the middle
of a read, chunks are read again in the middle of a read, blocks grow under
compression, data read ahead are overtaken by the output, a stored block is
mistaken for a compressed one, the last DAX block runs over its buffer. Each of
these cases is reached. All bounds are constants of the modules or of the configurations.

`LibcFd` takes the set of unusual things a program does as a constant
(`Program`). `libcfd` runs with none of them. With them its properties fail,
because of the code, as TLC shows when the constant is changed: a duplicate
points at the slot numbered by its original (`fdman.c:105`), which the next open
takes over once the original is closed; a duplicate of a standard descriptor
closes the stream when it is closed, because `__fdman_init` gives the standard
slots no reference (`fdman.c:49`); closing a standard descriptor leaves its
kernel handle open. Two more weaknesses are in the model in any case: `pipe` does
not release its first descriptor when there is no second one (`pipe.c:81`), and
the flags of a slot need not be the mode of its socket, because `F_SETFD`
overwrites them, `F_SETFL` stores `O_NONBLOCK` before the network stack may refuse
it (`glue.c:421`), and `setsockopt` stores it for the option value 1 only
(`socket.c:300`). What holds all the same is that a new socket starts without
either (`SocketStartsBlocking`).

Deadlock is checked except in `osal`, where a program may end with all its
threads idle and one that nobody will join.

Fairness. `fdman_open_close` assumes that a thread inside a call takes its next
step (weak fairness: the scheduler of the kernel does not stop a ready thread
for ever) and that a thread that waits for `__fdman_mutex` gets it eventually
(strong fairness: the mutex is created with attribute 0, first in, first
served). `Select` and `PteOsal` assume that the polling thread runs and that
the clock advances; their loops sleep between polls, so a waiter does not keep
the thread it waits for from running. `GuList` assumes that the engine runs while
it has a word before the stall address and that the waiting thread returns when
it has none; `Ciso` that the reading thread runs. No program is assumed to make
a call, and the flash layer is checked for safety only.

## 4. Proofs

The theorems hold for every value of the constants that the `ASSUME` of the
module allows: any number of threads, descriptors, keys, blocks, pages, words.
A theorem with hypotheses of its own states them in its `ASSUME`. In each proof
module the inductive invariant is a conjunction of named parts; it was checked
with TLC on the instance of the run before it was proved.

`FdManProofs`:
- `TypeCorrect`. With dup and with closed standard descriptors, no step goes
  through a null entry. The invariant adds to `TypeOK` that the loop indices and
  the descriptors a thread works on are in range and mapped (`Indices`,
  `Ownership`).
- `DescriptorsIntact`, assuming no dup. The lock gives `Mutex`: one thread
  scans. Release takes no lock, and is safe all the same, because an entry
  belongs to one thread from claim to fill and from test to unmap
  (`Ownership`), an entry points at its own slot (`OwnSlots`) and handles in use
  are distinct (`HandlesApart`). `DescriptorIntact` alone is not inductive: it
  says nothing of entries in transit.
- `ImplementsTable`, assuming no dup. Every step maps to a step of `FdTable` or
  a stutter, by the same invariant.
- `HandlesNotLeaked`, assuming no dup and that nobody closes a standard
  descriptor (whose count `__fdman_init` leaves at 0, so that its handle does
  leak). `_close` gives the handle back when it sees the last reference; that it
  always does needs the counts in every stage of an open and of a close
  (`OwnCounts`).
- `CountsExact` and `LowestTaken`, assuming one thread (with two, the run
  `fdman_dup_race` shows the counts wrong), with dup and with closed standard
  descriptors. `CountInv` follows the number of entries through the pending
  increment or decrement, in either of its two values modulo 2^32; that the map
  has fewer entries than 2^32 makes the count exact. `Scanned` says that the
  entries before the scan are taken.

`LibcFdProofs`:
- `TypeCorrect`.
- `RefCountsAccurate`. Whatever a program calls, the count of a slot is the
  number of entries that point at it (one less for standard slots), modulo the
  width. The lemmas `CountAdd` and `CountDrop` say how the cardinality changes
  when an entry is mapped or unmapped; the modulus is carried through the
  increment and the decrement.
- `HeldNames`, `KernelNotLeaked`, `NamesFreed` and the action property
  `SocketsStartBlocking`, assuming a `Tidy` program: it leaves the standard
  descriptors alone and closes an original after its duplicates. Without that
  they fail in the code (section 3). Socket options may be refused, have any
  value and be overwritten by `F_SETFD`. The invariant `TidyInv` adds
  the layout of the map (a slot in use is mapped by its own number) and that a
  kernel object has one slot. Each call is first reduced to what it does to
  map, pool and kernel (`Shaped`), then each part of the invariant is shown for
  the few shapes.

`SelectProofs`:
- `CountsBits`, for any number of descriptors: about the bits in the caller's
  sets, with the exceptions `CountIsBits` names for errors. The invariant says, in
  the middle of a poll, that bits are set only for descriptors already passed
  (`Passed`), bounds the count by theirs from both sides (`Tally`), and keeps the
  caller's sets as passed until a poll finds something (`Kept`).

`PteProofs`, about `PteTls`:
- `KeysHaveOneOwner`. The invariant adds that the thread between lock and
  unlock holds the lock, so that the key a scan found free is still free when
  it is taken.
- `NewKeysReadOwn`. The invariant `FreshInv` adds that the arrays of live threads
  hold 0 under every key that was never given out, which is what a key reads as
  when it is given out for the first time. It fails for keys that were freed.

`PteProofs`, about `PteOsal`:
- `TypeCorrect`, `RunningKeepsData` and `ThreadsLeakNothing`. The invariant says
  which thread a call works on (`Works`: a creation is its creator's and there is
  no kernel thread yet; a deletion is the creator's, of a thread that has
  stopped, or the thread's own), how far the creation or deletion has come
  (`Progress`), and that a thread nobody works on is `Complete`.

`CwdProofs`:
- `TypeCorrect` and `BuffersFit`, for paths and buffers of any length. The index
  of the loops for `//` and `/./` stays in the string, also after a cut, because
  the appended slash stops it; the `..` loop ends because the earlier of its two
  slashes stays in the string (`Between`). Sequence lemmas: `CutShortens`, `Split` (a
  path is its drive and its rest), `JoinHasDrive`.
- `DriveKept`, an action property: a working directory with a drive is replaced
  only by one with a drive, because nothing is cut from the drive and what is
  left behind it begins with a slash. A drive at the start is not assumed.
- `PathsResolved` and `CwdStaysCanonical`, again for paths of any length. The
  meaning of a path is what walking it gives (`Denotes`, a recursive function over
  its characters). The invariant adds that, at every point of the three loops, the
  string on hand still denotes what was asked (`Meaning`), that what a loop has
  passed has none of the redundancies of that loop and of those before it
  (`Edited`), and that the working directory is clean behind its drive, if it has
  one (`Home`). `CutMeaning` says
  when a cut leaves the meaning alone: when what is cut, read after what is in
  front of it, brings the walk back to where it was; the cuts of `//`, `/./` and
  `/name/../` are shown to be such. `CleanWritten` closes the argument: a string
  without redundancies is the one spelling (`Written`) of what it denotes.

`LflashProofs`:
- `TypeCorrect` and `BlocksStayApart`, for any segment, any number of failures and
  power losses. `BlocksApart` alone is not inductive: while the map is rebuilt a
  block must not be met twice, and a sync holds a block that is neither queued
  nor mapped. The invariant `Safe` adds to it and to `TypeOK` what the program
  counter says (`Control`): cache and block in flight are set exactly in the
  steps that use them, the block being retired still carries the header of the
  cached logical block, and during the mount no block beyond the scan is
  queued or mapped. The queue is a sequence; `QueueGrows` and `QueueShrinks` say
  which blocks a push adds and a pop removes, and that it repeats none.
- `NoBlockLost`. A formatted block always has a copy, mapped or ahead of the
  scan (`Kept`), so that a full queue and one more erased block would be more
  blocks than there are (`FullQueue`, by counting).
- `ImplementsDisk`: the layer implements `FlashDisk`, whatever fails, whenever
  the power goes and whichever partitions have a scramble code. What a
  power cycle leaves is the copy that the mount settles on (`Winner`). `Wins`
  says without a choice which copy that is; there is exactly one
  (`OneWinner`, `WinnerWins`), it depends on the copies of its logical block only
  (`StoredSame`), and dropping one of two copies by the rule of `init_segment`
  never drops it (`LoserDropped`). The invariant `Stores` adds to `Safe` that a
  block nothing failed for has one copy behind the scan, and while it is synced
  the one in flight (`Single`), that the pages programmed so far are those of
  the cache (`InFlight`), and that a write that missed finds the cache synced or
  its sync failed (`Missed`). Each step is then a mount, flush, sync, write or
  power cycle of the disk, or a stutter.

`GuListProofs`:
- `GeRunsFinished` and the action property `BehindDisplay`, for lists of any length
  and objects of any
  depth, assuming that no memory is taken inside an object (the run `gu_memory`
  shows what happens otherwise). `RunsFinishedWords` alone is not inductive: the
  invariant says where each word of a list may send the engine, that a word
  before the stall address never leads past it, and that the jumps still to be
  patched are the open objects and lie at or behind it (`DirectList`,
  `CalledList`), where the program and the engine stand (`Places`, `GePlace`), and
  which buffer is drawn to and which one the display was set to (`Buffers`).
- `DrawsInOrder`, under the same assumption. That the engine runs finished words
  does not say that it runs each of them once, and in order, through jumps over
  objects and through called lists. The invariant adds that there are marks: a
  number for every address of the direct and of the called list, the draws the
  program had made when it wrote that address (`DirectMarks`, `CallMarks`). A draw
  raises the mark by one, a jump over an object leads from the mark before the
  object's draws to the mark behind them (`ObjectMarks`), a call from one list to
  the other and back. `GeMarks` then relates the engine to the program: what is
  drawn is what is in sight of the draws before the engine's mark, and the objects
  it has skipped are out of sight. `AppendMarks`, `RecordMarks` and `Patched` say
  what adding a word, a draw and the end of an object do to the marks; `SeenSame`,
  `SeenNothing` and `SeenPrefix` what they do to the selection.

`CisoProofs`:
- `ReadsDeliver` and `BlocksFit`, for images of every format, blocks, block headers,
  index windows and requests of any size, with unsigned differences taken modulo
  any `W` that is more than twice the compressed image. `ReadsDeliver` is about the
  blocks that a decompressor can tell (`Told`): not the cut-short last block of a
  DAX file, nor a stored block read behind a header, nor a compressed one of the
  size of a stored one, which the code delivers wrong (section 5). `BlocksFit`
  excepts the cut-short last DAX block alone (`Known`). `Delivered` alone is not inductive.
  The invariant adds that the window, if there is one, is the part of the table
  of the image that is open (`IndexInv`), that it does not begin behind the block
  that is read (`Window`), how far the call has come (`CallInv`), and that from
  `c_buf` on, where the output has not come, the caller's buffer holds the
  compressed file from the current block on (`ReadAheadInv`). A new chunk never
  reaches into the output because it is no longer than what is still wanted
  (`HeldNow`); every block that can be told is whole when it is decompressed or
  copied (`WholeBlock`), which for the last block of a DAX file rests on its size being taken as the largest;
  a slow read keeps `c_buf` in step because, the header skipped, it runs into the
  next block (`ReadCount`). The place of a block is a recursive sum (`BeginsAre`,
  `BeginsGrow`); `DivMod`, `DivIs`, `DivBounded` and `DivMonotone` are the facts about
  quotients that are used.

Two assumptions came out of the proofs: `GuList` needs a list with room for two
words (the frame buffer and the end; `sceGuStart` and `sceGuFinish` write them
without a test), and `Cwd` a buffer that the initial directory fits in.

Every invariant, action property and refinement of the passing runs is stated by a
theorem. `TypeOK` of `Cwd` is proved and in no run. Only model-checked
are the properties that need fairness, which are out of the prover's reach:
`CallsReturn`, `TimeoutReturns`, `ReadyReturns`, `CancelEndsWait`, `EndIsNoticed`,
`TimedPendEnds`, `ChdirReturns`, `SyncReturns`, `ReadReturns`.

The library's induction theorems cannot be used with the provers at hand. Where
a proof needs induction over a length (`Induct` in `CwdProofs`, `GuListProofs` and
`CisoProofs`), it takes the least number for which the claim fails, which the
well-foundedness of the naturals gives. `Recursion`, and `SumsExist` in
`CisoProofs`, give the equations of a recursive function the same way.

## 5. Findings

Two runs show code that does not do what its comments promise: the lost update
of a reference count (`libcglue/fdman.c:127`, run `fdman_dup_race`) and the stall
address that `sceGuGetMemory` moves past an object that is still open
(`gu/sceGuGetMemory.c:32`, run `gu_memory`).

Seen while modelling, without a run of their own:

- `select.c:103` records a socket error as `count = -1` and goes on, so that a
  descriptor found ready afterwards makes the result 0 or positive and the error
  is lost. `Select` has this (`CountAfter`), and its properties say what holds
  nevertheless. A failing pipe is counted as an exception even when the caller
  passed no `exceptfds`.
- `select.c:47` checks an entry for NULL and goes through it again up to five
  times without the lock of the descriptor manager: a close in between is a null
  dereference (`NullEntry`).
- `cwd.c:119` goes on shifting behind the terminator it has copied, so that it
  reads as many characters behind the string as it removes, possibly behind the
  buffer; line 105 reads one more, which is inside. What is read so is never
  looked at.
- `cwd.c:158` writes `out[-1]` when the working directory has no drive, which is so
  until a `chdir` with a drive succeeds (`StrayWrite`).
- `tls-helper.c:191`: a freed key keeps its values, and its next owner reads them
  instead of zero. `NewKeyReadsOwn` is therefore about keys never freed.
- `lflash.c:528` does not set the scramble code when it is 0, which it is for some
  partitions (lines 381 and 404): a write to such a block that follows the sync of a
  scrambled one loads it under the wrong code, and the pages that are not
  written come out garbled and are synced so. `Lflash` has this (`CodeAtLoad`).
- `lflash.c:511` computes an address from `INVALID_PBN` for a logical block that no
  physical block holds.
- `lflash.c:173` asks "can this happen?" of the list nodes running out.
  `PoolComplete` answers: without failures, not as long as there is a node for
  every block but the mapped ones.
- `cisoreader.c:82` rounds the number of blocks down, so that the correction for
  the last DAX block (line 247, "fix for last DAX block") misses one that is cut
  short, and corrects the block before it instead. The size of the cut block is
  then computed from what follows the table, and the copy of line 265 may run
  over `block_buf` (`Overrun`).
- `cisoreader.c:47`, `:54` and `:73` tell a stored block by its size. A compressed
  block of that size is copied as it is, the stored last block of a DAX file,
  whose size is taken as the largest, is decompressed, and a stored block that is
  read behind a block header begins at the wrong byte. A stored block of a JISO
  file with block headers would be longer than `com_size` (line 141).
- Line 265 of `cisoreader.c` reads up to four bytes behind the caller's buffer when
  blocks have headers; what `read_data` returns is ignored except in line 269.
- `sceGuSwapBuffers` does not wait for the display to follow (by default at the next
  hsync): a frame that is started at once is drawn to a buffer still in sight.
- `sceGuEndObject.c:23` leaves the depth at -1 when no object is open; `sceGuSync` in
  the modes `GU_SYNC_SIGNAL` and `GU_SYNC_DONE` returns at once.
- Multiplications of timeouts wrap at `select.c:172` and `osal.c:686`;
  `tls-helper.c:82` writes through the result of a failed `malloc`; `glue.c:710`
  subtracts a threshold from a heap size that may be smaller.

## 6. Not modelled, and the plan

`UsbDevice` (device selection with partial failure), `Sbrk` with its theorem,
`Pipe` (peek and receive as two steps), `GdbStub`, then threads in `Cwd`, `GU_SEND`
lists and the signal call mode in `GuList`, several segments in `Lflash`.
The rest of the repository is outside: import tables, headers, generated and
vendored code, cryptography, register-level drivers, samples, host tools.
