-------------------------------- MODULE Ciso --------------------------------
(***************************************************************************)
(* The reader of compressed images, LibCisoRead.  An image is a table of   *)
(* offsets and the compressed blocks.  ciso_read keeps a window of the     *)
(* table in idx_cache, and reads compressed data ahead into the end of the *)
(* very buffer whose front it fills.                                       *)
(*                                                                         *)
(* Data are counted in units, block_size units to a block.  A cell of      *)
(* memory holds unit u of the image (the number u), unit a of the          *)
(* compressed file (the number -a), or neither (Blank).  The libraries     *)
(* behind the decompressors are external: they make a block out of all its *)
(* compressed units and nothing out of anything else.  Offsets are as the  *)
(* code uses them, without the top bit and shifted by align; ZISO files    *)
(* are treated as CISO files are, and JISO files of either method alike.   *)
(***************************************************************************)
EXTENDS Integers, FiniteSetsExt

CONSTANTS
  W,                    \* unsigned numbers are taken modulo W
  Blocks, block_size,   \* the blocks of an image, the units of a block
  Sizes, com_size,      \* the compressed sizes of a block; com_size but for JISO
  Stored,               \* the blocks that may be stored uncompressed
  Headers,              \* the sizes of a block's header
  idx_cache_num,
  Junk,                 \* what follows the table of a DAX file, read as an offset
  Wants                 \* the sizes a program reads

Blank == -W

ASSUME CisoAssumption ==
  /\ W \in Nat /\ Blocks \in Nat \ {0} /\ block_size \in Nat \ {0} /\ idx_cache_num \in Nat
  /\ com_size \in Nat /\ Sizes \subseteq 1 .. com_size /\ idx_cache_num > 2
  /\ block_size <= com_size
  /\ Headers \subseteq Nat
  /\ Wants \subseteq Nat /\ Junk \subseteq 0 .. W \div 2 - 1
  /\ Blocks * com_size < W \div 2

(* A DAX file has no offset behind the last block's.  The last block of an *)
(* image may be cut short.  block_header units of a block precede its      *)
(* data; but a block that is stored begins with its data, and is told by   *)
(* the top bit of its offset (CISO) or by its size alone.  No block is     *)
(* longer than com_size.                                                   *)
DaxFormats == {"dax0", "dax1"}
Image ==
  {i \in [format : DaxFormats \cup {"jiso", "ciso", "cso2"}, junk : Junk,
          sizes : [0 .. Blocks - 1 -> Sizes], stored : SUBSET Stored,
          block_header : Headers,
          uncompressed_size : (Blocks - 1) * block_size + 1 .. Blocks * block_size] :
     /\ i.format \in DaxFormats => i.block_header # 0
     /\ i.format \in {"ciso", "cso2"} => i.block_header = 0
     /\ i.format \notin DaxFormats => i.junk = Min(Junk)
     /\ i.format = "dax0" => i.stored = {}
     /\ \A k \in DOMAIN i.sizes :
          /\ i.sizes[k] > i.block_header
          /\ i.format = "jiso" => i.sizes[k] <= block_size
          /\ k \in i.stored => i.sizes[k] >= block_size}

VARIABLES
  pc,                               \* "closed", "open", "reading", "returned" or "corrupt"
  file,                             \* the image
  idx_start_block, idx_cache,
  addr, size, offset, c_buf, o_end, \* locals of ciso_read; c_buf = 0 is NULL
  want, o_offset, buf               \* the request, and the caller's buffer

index == <<idx_start_block, idx_cache>>
call == <<addr, size, offset, c_buf, o_end, want, o_offset, buf>>
vars == <<pc, file, index, call>>

top_addr == want + 1
dax == file.format \in DaxFormats
header == file.block_header
Com == IF file.format = "jiso" THEN block_size ELSE com_size
total_blocks == file.uncompressed_size \div block_size

-----------------------------------------------------------------------------
(* The compressed file: where block k begins, and what the table says. *)
Begins(sizes) ==
  LET at[k \in 0 .. Blocks] == IF k = 0 THEN 1 ELSE at[k - 1] + sizes[k - 1]
  IN  at
Begin == Begins(file.sizes)
Table(k) == IF k < Blocks \/ (k = Blocks /\ ~dax) THEN Begin[k] ELSE file.junk
InFile(a) == a \in 1 .. Begin[Blocks] - 1
Minus(x, y) == (x - y) % W

(* read_data into the caller's buffer. *)
ReadInto(b, at, n, from) ==
  [k \in DOMAIN b |-> IF k \in at .. at + n - 1 /\ InFile(from + k - at)
                        THEN -(from + k - at) ELSE b[k]]

Index(k) == [j \in 0 .. idx_cache_num - 1 |-> Table(k + j)]

NoIndex == [j \in 0 .. idx_cache_num - 1 |-> 0]

(* ciso_open, which a program calls again only after ciso_close.  The      *)
(* results of memalign are not checked by the code; here it never fails.   *)
Init ==
  /\ pc = "open" /\ file \in Image
  /\ idx_start_block = -1 /\ idx_cache = NoIndex
  /\ addr = 1 /\ size = 0 /\ offset = 0 /\ c_buf = 0 /\ o_end = 0
  /\ want = 0 /\ o_offset = 0 /\ buf = <<>>

Open ==
  /\ pc = "closed" /\ pc' = "open"
  /\ file' \in Image
  /\ UNCHANGED <<index, call>>

(* The arguments are bad, the header cannot be read, or it has no magic    *)
(* number that is known.                                                   *)
OpenFails == pc = "closed" /\ UNCHANGED vars

Close ==
  /\ pc = "open" /\ pc' = "closed"
  /\ idx_start_block' = -1 /\ idx_cache' = NoIndex
  /\ UNCHANGED <<file, call>>

-----------------------------------------------------------------------------
(* Called beyond the end of the image, ciso_read returns 0. *)
ReadBeyond ==
  /\ pc = "open" /\ pc' = "returned"
  /\ o_offset' = file.uncompressed_size + 1 /\ offset' = o_offset'
  /\ UNCHANGED <<file, index, addr, size, c_buf, o_end, want, buf>>

(* The first part of ciso_read: cut the request, make sure that the index  *)
(* covers the first block, and read ahead when more than two blocks are    *)
(* wanted.                                                                 *)
ReadAhead(n, first, last, start, cache) ==
  LET end == IF last - start < idx_cache_num - 1 THEN cache[last - start] ELSE Table(last)
      o_start == cache[first - start]
      all == Minus(end, o_start)
      compressed_size == IF n < all THEN n - block_size ELSE all
      many == n > 2 * block_size
  IN  /\ o_end' = end
      /\ c_buf' = IF many THEN top_addr' - compressed_size ELSE 0
      /\ buf' = LET empty == [k \in 1 .. want' |-> Blank]
                IN  IF many THEN ReadInto(empty, c_buf', compressed_size, o_start) ELSE empty

ReadCall(o, w) ==
  LET n == IF o + w > file.uncompressed_size THEN file.uncompressed_size - o ELSE w
      first == o \div block_size
      refresh == \/ idx_start_block < 0 \/ first < idx_start_block
                 \/ first - idx_start_block + 1 >= idx_cache_num - 1
  IN  /\ pc = "open" /\ pc' = "reading"
      /\ o <= file.uncompressed_size
      /\ idx_start_block' = IF refresh THEN first ELSE idx_start_block
      /\ idx_cache' = IF refresh THEN Index(first) ELSE idx_cache
      /\ addr' = 1 /\ size' = n /\ offset' = o /\ o_offset' = o /\ want' = w
      /\ ReadAhead(n, first, (o + n) \div block_size, idx_start_block', idx_cache')
      /\ UNCHANGED file

-----------------------------------------------------------------------------
(* One turn of the loop.  The index is refreshed when the offset of the    *)
(* block or the next one lies outside it.  The sizes of blocks are powers  *)
(* of two, so that the mask in the code is a remainder.                    *)
cur_block == offset \div block_size
pos == offset % block_size
StaleLate == cur_block - idx_start_block >= idx_cache_num
Stale == cur_block - idx_start_block >= idx_cache_num - 1
start_now == IF Stale THEN cur_block ELSE idx_start_block
cache_now == IF Stale THEN Index(cur_block) ELSE idx_cache
at_now == cur_block - start_now
InIndex == at_now \in 0 .. idx_cache_num - 2

b_offset == cache_now[at_now]
b_size == IF dax /\ cur_block = total_blocks - 1 THEN com_size
          ELSE Minus(cache_now[at_now + 1], b_offset)

(* Whether a block lies in the data read ahead. *)
AheadStale(c) == c + b_size <= top_addr
Ahead(c) == c >= addr /\ c + b_size <= top_addr

(* Another chunk is read ahead if the data there are used up. *)
chunk == LET left == Minus(o_end, b_offset)
         IN  IF size < left THEN size - block_size ELSE left
Again == ~Ahead(c_buf) /\ size > b_size + block_size /\ chunk >= b_size
c_now == IF Again THEN top_addr - chunk ELSE c_buf
buf_now == IF Again THEN ReadInto(buf, c_now, chunk, b_offset) ELSE buf

(* What the block buffer holds, of the caller's buffer or of the file. *)
block_buf ==
  [j \in 0 .. b_size - 1 |->
     IF Ahead(c_now)
       THEN IF c_now + header + j \in DOMAIN buf THEN buf_now[c_now + header + j] ELSE Blank
       ELSE IF InFile(b_offset + header + j) THEN -(b_offset + header + j) ELSE Blank]
n_read == IF Ahead(c_now) THEN b_size ELSE Cardinality({j \in DOMAIN block_buf : block_buf[j] # Blank})

(* The decompressors: each decides by its own rule, from src_len or the    *)
(* top bit, whether to copy the block or to inflate it.                    *)
Copies(k, src_len) ==
  \/ file.format \in {"dax1", "jiso"} /\ src_len = block_size
  \/ file.format = "ciso" /\ k \in file.stored
  \/ file.format = "cso2" /\ src_len >= block_size

Whole == \A a \in Begin[cur_block] + header .. Begin[cur_block + 1] - 1 :
           LET j == a - Begin[cur_block] - header
           IN  j \in DOMAIN block_buf /\ block_buf[j] = -a
Raw(p) == p \in DOMAIN block_buf /\ block_buf[p] = -(Begin[cur_block] + p)
Right(p) == IF Copies(cur_block, n_read) THEN cur_block \in file.stored /\ Raw(p)
                                         ELSE cur_block \notin file.stored /\ Whole
dec_buf == [p \in 0 .. block_size - 1 |->
              IF Right(p) THEN cur_block * block_size + p ELSE Blank]

BytesShort == Min({size, block_size - 1 - pos})
Bytes == Min({size, block_size - pos})

(* The fast copy of a block that is too long for block_buf.  It happens to *)
(* the last block of a DAX file that is cut short, whose size is junk: if  *)
(* that block seems to lie in the data read ahead, or if the address       *)
(* behind it wraps, which C leaves undefined.                              *)
TooLong == b_size > Com
Overrun ==
  /\ pc = "reading" /\ size > 0 /\ TooLong
  /\ Ahead(c_now) \/ (c_now >= addr /\ b_size >= W \div 2)
  /\ pc' = "corrupt"
  /\ UNCHANGED <<file, index, call>>

Corrupt == pc = "corrupt" /\ UNCHANGED vars

Turn ==
  /\ pc = "reading" /\ size > 0 /\ ~(TooLong /\ Ahead(c_now))
  /\ idx_start_block' = start_now /\ idx_cache' = cache_now
  /\ c_buf' = IF c_now # 0 THEN c_now + n_read ELSE c_now
  /\ buf' = [k \in DOMAIN buf |->
               IF k \in addr .. addr + Bytes - 1 THEN dec_buf[pos + k - addr] ELSE buf_now[k]]
  /\ size' = size - Bytes /\ addr' = addr + Bytes /\ offset' = offset + Bytes
  /\ UNCHANGED <<pc, file, o_end, want, o_offset>>

ReadReturn ==
  /\ pc = "reading" /\ size = 0 /\ pc' = "returned"
  /\ UNCHANGED <<file, index, call>>

(* The program uses what it has read. *)
Use ==
  /\ pc = "returned" /\ pc' = "open"
  /\ addr' = 1 /\ size' = 0 /\ offset' = 0 /\ c_buf' = 0 /\ o_end' = 0
  /\ want' = 0 /\ o_offset' = 0 /\ buf' = <<>>
  /\ UNCHANGED <<file, index>>

Next ==
  \/ Open \/ OpenFails \/ Close \/ ReadBeyond \/ Turn \/ ReadReturn \/ Use
  \/ Overrun \/ Corrupt
  \/ \E o \in 0 .. Blocks * block_size, w \in Wants : ReadCall(o, w)

Spec == Init /\ [][Next]_vars /\ WF_vars(Turn \/ Overrun) /\ WF_vars(ReadReturn)

-----------------------------------------------------------------------------
(* What is known of a block: the size the code takes for it, and how many  *)
(* units a fast or a slow read hands to the decompressor.  The code cannot *)
(* know the size of the last block of a DAX file that is cut short, which  *)
(* is beyond total_blocks.                                                 *)
Known(k) == dax => k < total_blocks
SizeOf(k) == IF dax /\ k = total_blocks - 1 THEN com_size ELSE file.sizes[k]
SrcLens(k) == {SizeOf(k), Min({SizeOf(k), Begin[Blocks] - Begin[k] - header})}

(* Whether a decompressor can tell a stored block from a compressed one:   *)
(* not if a stored block is read behind a header it does not have, nor if  *)
(* the size of a compressed block happens to be that of a stored one.      *)
Told(k) ==
  /\ Known(k) /\ (k \in file.stored => header = 0)
  /\ \A src_len \in SrcLens(k) : Copies(k, src_len) <=> k \in file.stored

(* What ciso_read has delivered is the image from the offset asked for,    *)
(* but for the blocks that the decompressors cannot tell: neither the data *)
(* read ahead into the same buffer, nor an index left by an earlier read   *)
(* or by the image opened before, gets into it; and a call returns all     *)
(* there is.                                                               *)
Delivered ==
  /\ \A k \in 1 .. addr - 1 :
       Told((o_offset + k - 1) \div block_size) => buf[k] = o_offset + k - 1
  /\ pc = "returned" => offset - o_offset =
       IF o_offset > file.uncompressed_size THEN 0
       ELSE Min({want, file.uncompressed_size - o_offset})

(* The pair of offsets a turn uses lies in the index cache; the block they *)
(* describe fits into block_buf, also the last one of a DAX file unless it *)
(* is cut short; and only there may a copy run over block_buf.             *)
BlockFits ==
  /\ pc = "reading" /\ size > 0 => InIndex /\ (Known(cur_block) => ~TooLong)
  /\ pc = "corrupt" => ~Known(cur_block)

(* A read comes to its end, unless it has run over its buffer. *)
ReadReturns == pc = "reading" ~> pc \in {"returned", "corrupt"}
=============================================================================
