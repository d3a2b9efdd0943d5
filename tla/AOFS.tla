-------------------------------- MODULE AOFS --------------------------------
(***************************************************************************)
(* The All-In-One Folder File System of asgn4: the block operations of     *)
(* aofs.c and the FUSE handlers of run_fs.c, one handler at a time.        *)
(*                                                                         *)
(* The disk image is a superblock (the allocation bitmap) followed by      *)
(* BLOCK_NUM blocks; a file is a chain of blocks linked by `next`, whose   *)
(* first block has `head` set and carries the name and the size.           *)
(*                                                                         *)
(* BLOCK_OFFSET(-1) is the offset of the bitmap itself (aofs.h:31), so a   *)
(* handler that uses block number -1 as a block takes bitmap bytes for a   *)
(* block and overwrites them.  What follows depends on the bytes of names  *)
(* and data; `astray` records that a handler did so, the image being left  *)
(* as that handler found it, and no later handler is modelled.             *)
(*                                                                         *)
(* Times, owners, modes and flags of a block are abstracted away.          *)
(***************************************************************************)
EXTENDS Integers, Sequences, FiniteSetsExt, SequencesExt

CONSTANTS
    BLOCK_NUM,    \* blocks on the disk
    BLOCK_DATA,   \* data bytes of a block
    Name,         \* paths of files
    NoName,       \* the empty filename of a cleared block
    Byte,         \* bytes that writers use
    MaxLen,       \* bound: bytes of one write or read
    MaxSize       \* bound: largest offset and truncation size

ASSUME AOFSAssumption ==
    /\ BLOCK_NUM \in Nat \ {0} /\ BLOCK_DATA \in Nat \ {0}
    /\ NoName \notin Name
    /\ Byte \subseteq Nat
    /\ MaxLen \in Nat \ {0} /\ MaxSize \in Nat

\* What k rounds of a loop with the body Body make of x.
Times(Body(_), x, k) ==
    LET after[i \in 0 .. k] == IF i = 0 THEN x ELSE Body(after[i - 1]) IN after[k]

VARIABLE disk     \* the disk image: [bitmap, block, astray]
vars == disk

BlockNum == 0 .. BLOCK_NUM - 1
Blank    == [i \in 0 .. BLOCK_DATA - 1 |-> 0]

Block == [filename : Name \cup {NoName}, next : BlockNum \cup {-1}, head : BOOLEAN,
          st_size : Nat, data : [0 .. BLOCK_DATA - 1 -> Byte \cup {0}]]

TypeOK == disk \in [bitmap : SUBSET BlockNum, block : [BlockNum -> Block], astray : BOOLEAN]

-----------------------------------------------------------------------------
(* Blocks and the bitmap.  An operator that changes the disk takes the     *)
(* image d and returns the new image.                                      *)

clear_block == [filename |-> NoName, next |-> -1, head |-> FALSE,
                st_size |-> 0, data |-> Blank]

GoAstray(d) == [d EXCEPT !.astray = TRUE]

\* Only reached with n = -1 where the result is not used (the read past the
\* last block of a write) or where GoAstray follows.
read_block(d, n) == IF n = -1 THEN clear_block ELSE d.block[n]

write_block(d, n, b) == IF n = -1 THEN GoAstray(d) ELSE [d EXCEPT !.block[n] = b]

find_free_bit(map) == IF BlockNum \subseteq map THEN -1 ELSE Min(BlockNum \ map)

set_bit(d, n) == [d EXCEPT !.bitmap = @ \cup {n}]

init_fs == [bitmap |-> {}, block |-> [n \in BlockNum |-> clear_block], astray |-> FALSE]

\* The new image and the block number, -1 when the disk is full.
allocate_block(d) ==
    LET n == find_free_bit(d.bitmap)
    IN  IF n = -1 THEN [disk |-> d, num |-> -1]
        ELSE [disk |-> write_block(set_bit(d, n), n, clear_block), num |-> n]

\* The block that follows n, and the one k links after n.
Follow(d, n)  == IF n = -1 THEN -1 ELSE d.block[n].next
Seek(d, n, k) == Times(LAMBDA m : Follow(d, m), n, k)

\* The blocks of the chain that begins at n; no chain has more than BLOCK_NUM.
ChainBlocks(d, n) == {Seek(d, n, k) : k \in 0 .. BLOCK_NUM - 1} \ {-1}

\* deallocate_block for every block of S.
deallocate_blocks(d, S) ==
    [d EXCEPT !.bitmap = @ \ S,
              !.block = [n \in BlockNum |-> IF n \in S THEN clear_block ELSE @[n]]]

\* Mutant: the head is deallocated and the loop left.
delete_chain_head(d, n) == deallocate_blocks(d, {n} \ {-1})

\* The loop deallocates the blocks one after the other and meets none twice.
delete_chain(d, n) == deallocate_blocks(d, ChainBlocks(d, n))

aofs_create_file(d, name) ==
    LET a == allocate_block(d)
    IN  IF a.num = -1 THEN a
        ELSE [a EXCEPT !.disk = write_block(@, a.num,
                                   [clear_block EXCEPT !.filename = name, !.head = TRUE])]

\* Mutant: the scan ends one block early.
Heads_short(d, name) ==
    {n \in d.bitmap \ {BLOCK_NUM - 1} : d.block[n].head /\ d.block[n].filename = name}

Heads(d, name) == {n \in d.bitmap : d.block[n].head /\ d.block[n].filename = name}

aofs_find_file_head(d, name) == IF Heads(d, name) = {} THEN -1 ELSE Min(Heads(d, name))

-----------------------------------------------------------------------------
(* Writing.                                                                *)

\* Mutant: memcpy to data[0] instead of data[offset].
write_to_block_start(buf, b, off) ==
    [b EXCEPT !.data = [i \in DOMAIN @ |->
        IF i < Len(buf) /\ i + off < BLOCK_DATA THEN buf[i + 1] ELSE @[i]]]

\* memcpy of buf's first bytes to b.data[off ..], as many as fit in the block.
write_to_block(buf, b, off) ==
    [b EXCEPT !.data = [i \in DOMAIN @ |->
        IF i \in off .. off + Len(buf) - 1 THEN buf[i - off + 1] ELSE @[i]]]

\* One round of the main loop: num is block_num, b the block in memory, off what
\* is left of the offset, buf what is left to write.
WriteRound(name, s) ==
    IF s.buf = <<>> \/ s.disk.astray THEN s
    ELSE IF s.num = -1 THEN [s EXCEPT !.disk = GoAstray(@)]
    ELSE IF s.off > BLOCK_DATA
         THEN [s EXCEPT !.num = s.b.next, !.b = read_block(s.disk, s.b.next), !.off = @ - BLOCK_DATA]
    ELSE LET rest == SubSeq(s.buf, BLOCK_DATA - s.off + 1, Len(s.buf))
             grow == rest # <<>> /\ s.b.next = -1
             a    == IF grow THEN allocate_block(s.disk) ELSE [disk |-> s.disk, num |-> s.b.next]
             nb   == read_block(a.disk, a.num)
             nb2  == IF grow THEN [nb EXCEPT !.filename = name] ELSE nb
             wb   == [write_to_block(s.buf, s.b, s.off) EXCEPT !.next = a.num]
         IN  [disk |-> write_block(a.disk, s.num, wb), num |-> a.num, b |-> nb2, buf |-> rest, off |-> 0]

\* Every round that has something to write shortens the offset or the buffer.
aofs_write_file(d, name, buf, offset) ==
    LET h == aofs_find_file_head(d, name)
        c == IF h = -1 THEN aofs_create_file(d, name) ELSE [disk |-> d, num |-> h]
        b == read_block(c.disk, c.num)
        off == IF offset > b.st_size THEN b.st_size ELSE offset
        b1  == [b EXCEPT !.st_size = Len(buf) + off]
        r   == Times(LAMBDA s : WriteRound(name, s),
                     [disk |-> write_block(c.disk, c.num, b1), num |-> c.num, b |-> b1,
                      buf |-> buf, off |-> off],
                     off + Len(buf)).disk
    IN  IF r.astray THEN GoAstray(d) ELSE r

-----------------------------------------------------------------------------
(* Deleting and truncating.                                                *)

aofs_delete_file(d, name) ==
    LET h == aofs_find_file_head(d, name) IN IF h = -1 THEN d ELSE delete_chain(d, h)

\* The last block of the chain of n.
SeekLast(d, n) == CHOOSE m \in ChainBlocks(d, n) : d.block[m].next = -1

\* Mutants: one link too far; zeroing from one byte too early.
BreakDown_far(d, h, new_blocks, block_offset) ==
    LET prev == Seek(d, h, new_blocks + 1)
    IN  IF prev = -1 THEN GoAstray(d)
        ELSE [delete_chain(d, d.block[prev].next) EXCEPT !.block[prev].next = -1]
BreakDown_early(d, h, new_blocks, block_offset) ==
    LET prev == Seek(d, h, new_blocks)
    IN  [delete_chain(d, d.block[prev].next) EXCEPT !.block[prev] =
            [@ EXCEPT !.next = -1,
                 !.data = [i \in DOMAIN @ |-> IF i + 1 >= block_offset THEN 0 ELSE @[i]]]]

\* "break down file": keep new_blocks links, delete the rest, zero the tail.
BreakDown(d, h, new_blocks, block_offset) ==
    LET prev == Seek(d, h, new_blocks)
        d1   == delete_chain(d, d.block[prev].next)
    IN  IF prev = -1 THEN GoAstray(d)
        ELSE write_block(d1, prev, [d.block[prev] EXCEPT !.next = -1,
                 !.data = [i \in DOMAIN @ |-> IF i >= block_offset THEN 0 ELSE @[i]]])

\* One round of "expand file": chain a new block behind prev, if there is one.
Grow(name, s) ==
    LET a    == allocate_block(s.disk)
        link == [a.disk EXCEPT !.block[s.prev].next = a.num]
    IN  IF a.num = -1 THEN [s EXCEPT !.full = TRUE]
        ELSE [disk |-> write_block(link, a.num, [clear_block EXCEPT !.filename = name]),
              prev |-> a.num, full |-> FALSE]

\* k rounds of it; full when a block is missing.
Expand(d, name, prev, k) ==
    Times(LAMBDA s : Grow(name, s), [disk |-> d, prev |-> prev, full |-> FALSE], k)

\* Mutant: the size is stored although the disk was full.
truncate_file_full(d, name, size) ==
    LET h          == aofs_find_file_head(d, name)
        cur_blocks == d.block[h].st_size \div BLOCK_DATA
        new_blocks == size \div BLOCK_DATA
        r == IF new_blocks < cur_blocks THEN BreakDown(d, h, new_blocks, size % BLOCK_DATA)
             ELSE Expand(d, name, SeekLast(d, h), new_blocks - cur_blocks).disk
    IN  IF h = -1 THEN d ELSE [r EXCEPT !.block[h].st_size = size]

\* Mutant: the size is counted from zero.
truncate_file_short(d, name, size) ==
    LET h == aofs_find_file_head(d, name)
    IN  IF h = -1 THEN d ELSE [d EXCEPT !.block[h].st_size = size - 1]

\* A truncation that runs out of space returns before the size is stored.
aofs_truncate_file(d, name, size) ==
    LET h          == aofs_find_file_head(d, name)
        cur_size   == d.block[h].st_size
        cur_blocks == cur_size \div BLOCK_DATA
        new_blocks == size \div BLOCK_DATA
        r == IF size < cur_size /\ cur_blocks # new_blocks
             THEN [disk |-> BreakDown(d, h, new_blocks, size % BLOCK_DATA), full |-> FALSE]
             ELSE IF size > cur_size /\ new_blocks # cur_blocks
             THEN Expand(d, name, SeekLast(d, h), new_blocks - cur_blocks)
             ELSE [disk |-> d, full |-> FALSE]
    IN  IF h = -1 THEN d
        ELSE IF r.disk.astray \/ r.full THEN r.disk
        ELSE [r.disk EXCEPT !.block[h].st_size = size]

-----------------------------------------------------------------------------
(* Reading: the bytes copied to the buffer, as a function from positions,  *)
(* and the count returned.  The head block is written back with a new      *)
(* access time, which the model does not keep.                             *)

Copy(buf, pos, data, from, len) ==
    [i \in DOMAIN buf \cup pos .. pos + len - 1 |->
        IF i \in pos .. pos + len - 1 THEN data[from + i - pos] ELSE buf[i]]

\* Copy the block after s.n, the one number s.i of them from 0; the last takes size_l.
ReadRound(d, plan, block_offset, s) ==
    LET nx   == d.block[s.n].next
        last == s.i = plan.num_blocks - 1
        len  == IF last THEN plan.size_l ELSE BLOCK_DATA
        pos  == block_offset + BLOCK_DATA * (IF last THEN plan.num_blocks ELSE s.i)
    IN  IF nx = -1 THEN s
        ELSE [n |-> nx, buf |-> Copy(s.buf, pos, d.block[nx].data, 0, len),
              count |-> s.count + len, i |-> s.i + 1]

\* Mutant: the first block is taken whole although the read ends in it.
ReadPlan_whole(size, block_offset) ==
    LET num_blocks == (block_offset + size - 1) \div BLOCK_DATA
        size_f     == BLOCK_DATA - block_offset
    IN  [num_blocks |-> num_blocks, size_f |-> size_f,
         size_l |-> IF num_blocks = 0 THEN 0
                    ELSE size - (size_f + (num_blocks - 1) * BLOCK_DATA)]

\* How a read of size bytes at block_offset divides over the blocks.
ReadPlan(size, block_offset) ==
    LET num_blocks == (block_offset + size - 1) \div BLOCK_DATA
        size_f     == IF num_blocks = 0 THEN size ELSE BLOCK_DATA - block_offset
    IN  [num_blocks |-> num_blocks, size_f |-> size_f,
         size_l |-> IF num_blocks = 0 THEN 0
                    ELSE size - (size_f + (num_blocks - 1) * BLOCK_DATA)]

\* Mutant: the first block is copied from its start.
read_file_start(d, name, size, offset) ==
    LET n == Seek(d, aofs_find_file_head(d, name), offset \div BLOCK_DATA)
    IN  IF n = -1 THEN [buf |-> <<>>, count |-> 0]
        ELSE [buf |-> Copy(<<>>, 0, d.block[n].data, 0, Min({size, BLOCK_DATA})), count |-> size]

aofs_read_file(d, name, size, offset) ==
    LET start_block  == offset \div BLOCK_DATA
        block_offset == offset - start_block * BLOCK_DATA
        plan         == ReadPlan(size, block_offset)
        n            == Seek(d, aofs_find_file_head(d, name), start_block)
        first        == Copy(<<>>, 0, d.block[n].data, block_offset, plan.size_f)
    IN  IF n = -1 THEN [buf |-> <<>>, count |-> 0]
        ELSE Times(LAMBDA s : ReadRound(d, plan, block_offset, s),
                   [n |-> n, buf |-> first, count |-> plan.size_f, i |-> 0], plan.num_blocks)

-----------------------------------------------------------------------------
(* The FUSE handlers.  The kernel looks a path up (getattr) before it      *)
(* calls a handler on it: create is called for a path that is not there.   *)

ENOENT == 2

aofs_getattr(name) ==
    LET h == aofs_find_file_head(disk, name)
    IN  IF h = -1 THEN -ENOENT ELSE disk.block[h].st_size

aofs_readdir == LET heads == {n \in disk.bitmap : disk.block[n].head}
                IN  [n \in heads |-> disk.block[n].filename]

Exists(name) == aofs_getattr(name) # -ENOENT

aofs_create(name) ==
    /\ ~disk.astray /\ ~Exists(name)
    /\ disk' = aofs_create_file(disk, name).disk

aofs_write(name, buf, offset) ==
    /\ ~disk.astray
    /\ disk' = aofs_write_file(disk, name, buf, offset)

aofs_unlink(name) ==
    /\ ~disk.astray
    /\ disk' = aofs_delete_file(disk, name)

aofs_truncate(name, size) ==
    /\ ~disk.astray
    /\ disk' = aofs_truncate_file(disk, name, size)

\* utimens and chown write the head block back (times and owners are not
\* kept) and do not test for a missing file.
aofs_utimens(name) ==
    /\ ~disk.astray
    /\ LET h == aofs_find_file_head(disk, name)
       IN  disk' = write_block(disk, h, read_block(disk, h))

\* read changes only the access time of the head block, which it writes back.
aofs_read(name) ==
    /\ ~disk.astray
    /\ LET h == aofs_find_file_head(disk, name)
       IN  disk' = IF h = -1 THEN disk ELSE write_block(disk, h, read_block(disk, h))

aofs_release == UNCHANGED disk

Buffer == UNION {[1 .. k -> Byte] : k \in 1 .. MaxLen}

Init == disk = init_fs

Next ==
    \E name \in Name :
        \/ aofs_create(name)
        \/ \E buf \in Buffer, offset \in 0 .. MaxSize : aofs_write(name, buf, offset)
        \/ aofs_unlink(name)
        \/ \E size \in 0 .. MaxSize : aofs_truncate(name, size)
        \/ aofs_read(name)
        \/ Exists(name) /\ aofs_utimens(name)
        \/ aofs_release

Spec == Init /\ [][Next]_vars

-----------------------------------------------------------------------------
(* What an image means.                                                    *)

HeadBlocks(d) == {n \in d.bitmap : d.block[n].head}

\* The chain of n, cut off after BLOCK_NUM + 1 blocks.
ChainLen(d, n) == Cardinality({k \in 0 .. BLOCK_NUM : Seek(d, n, k) # -1})
Chain(d, n)    == [k \in 1 .. ChainLen(d, n) |-> Seek(d, n, k - 1)]

\* All data bytes of the chain, and those of them inside the file's size.
ChainBytes(d, n) ==
    LET chain == Chain(d, n)
    IN  [p \in 1 .. BLOCK_DATA * Len(chain) |->
            d.block[chain[(p - 1) \div BLOCK_DATA + 1]].data[(p - 1) % BLOCK_DATA]]

Contents(d, n) == LET all == ChainBytes(d, n)
                  IN  SubSeq(all, 1, Min({d.block[n].st_size, Len(all)}))

FilesOf(d) == [name \in {f \in Name : Heads(d, f) # {}} |->
                  Contents(d, aofs_find_file_head(d, name))]

-----------------------------------------------------------------------------
(* Properties.                                                             *)

\* Every allocated block lies on the chain of exactly one file, at exactly one
\* place, and chains hold only allocated blocks: no sequence of creates, writes
\* (extending, overwriting, cutting short), truncations and unlinks leaks a
\* block, shares one between files, or closes a cycle (allocate_block,
\* deallocate_block, delete_chain and the loops that link blocks).
ChainsPartitionBitmap ==
    /\ \A h \in HeadBlocks(disk) : Range(Chain(disk, h)) \subseteq disk.bitmap
    /\ \A n \in disk.bitmap :
          Cardinality({at \in HeadBlocks(disk) \X (1 .. BLOCK_NUM + 1) :
                          at[2] <= Len(Chain(disk, at[1])) /\ Chain(disk, at[1])[at[2]] = n}) = 1

\* A file has one head, so readdir lists every name once and getattr, read and
\* unlink agree on which block it is.
ReaddirListsEachFileOnce == IsInjective(aofs_readdir)

\* A chain is never shorter than the number of full blocks the size speaks of.
\* aofs_truncate_file walks size / BLOCK_DATA links without testing `next`, so
\* this is what keeps it from walking off the end of a chain.
ChainCoversFullBlocks ==
    \A h \in HeadBlocks(disk) : Len(Chain(disk, h)) >= disk.block[h].st_size \div BLOCK_DATA

\* Truncation never uses block number -1, whatever was done to the file before
\* (unlike aofs_write_file it has no need of space to shrink, and returns when it
\* cannot grow).
TruncateKeepsToTheChain ==
    ~disk.astray => \A name \in Name, size \in 0 .. MaxSize :
                        ~aofs_truncate_file(disk, name, size).astray

FileOf(name) == Contents(disk, aofs_find_file_head(disk, name))

\* A read that begins inside the file counts the bytes asked for or those that the
\* file still has, although the copying is split over a first block, middle blocks
\* and a last block with early returns between them; at the end of the file it may
\* count more, as ReadStopsAtFileSize says (aofs_read_file).
ReadCountsFileBytes ==
    \A name \in Name, size \in 1 .. MaxLen, offset \in 0 .. MaxSize :
        LET left  == Len(FileOf(name)) - offset
            count == aofs_read_file(disk, name, size, offset).count
        IN  Exists(name) /\ left > 0 => count <= size /\ (count >= left \/ count = size)

\* A read inside one block and inside the file delivers the file's bytes.
ReadInsideOneBlockIsExact ==
    \A name \in Name, size \in 1 .. MaxLen, offset \in 0 .. MaxSize :
        LET r == aofs_read_file(disk, name, size, offset)
        IN  (Exists(name) /\ (offset % BLOCK_DATA) + size <= BLOCK_DATA /\ offset + size <= Len(FileOf(name)))
            => \A i \in 0 .. size - 1 : r.buf[i] = FileOf(name)[offset + i + 1]

-----------------------------------------------------------------------------
(* What the documentation says and the code does not do.                   *)

GrownFile(name, size) == aofs_truncate_file(disk, name, size).block[aofs_find_file_head(disk, name)]

GrowsTo(name, size) == /\ Exists(name) /\ size > aofs_getattr(name)
                       /\ GrownFile(name, size).st_size = size

\* A file that truncation makes longer has the blocks for its new size, and the
\* bytes that truncation adds are zero (aofs_truncate_file, "expand file").
TruncatePadsWithZeros ==
    \A name \in Name, size \in 0 .. MaxSize :
        GrowsTo(name, size) =>
            LET new == Contents(aofs_truncate_file(disk, name, size), aofs_find_file_head(disk, name))
            IN  /\ Len(new) = size
                /\ \A i \in aofs_getattr(name) + 1 .. Len(new) : new[i] = 0

\* No handler reads or writes block -1, that is, the superblock's bitmap
\* (aofs_write_file when allocate_block fails).
SuperBlockNotOverwritten == ~disk.astray

\* A read inside the file delivers the file's bytes (aofs_read_file; aofs.h:115).
ReadDeliversFileBytes ==
    \A name \in Name, size \in 1 .. MaxLen, offset \in 0 .. MaxSize :
        LET r == aofs_read_file(disk, name, size, offset)
        IN  (Exists(name) /\ offset + size <= Len(FileOf(name)))
            => \A i \in 0 .. size - 1 : i \in DOMAIN r.buf /\ r.buf[i] = FileOf(name)[offset + i + 1]

\* A read counts no bytes behind the end of the file: its offset is truncated to the
\* file size (design_doc.md:124-131; aofs_read_file does not look at st_size).
ReadStopsAtFileSize ==
    \A name \in Name, size \in 1 .. MaxLen, offset \in 0 .. MaxSize :
        Exists(name) =>
            aofs_read_file(disk, name, size, offset).count <= Max({0, Len(FileOf(name)) - offset})
=============================================================================
