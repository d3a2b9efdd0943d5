------------------------------ MODULE AOFSDisk ------------------------------
(***************************************************************************)
(* AOFS at the grain of single reads and writes of the disk image: what a  *)
(* crash between two of them, or a second FUSE thread, can see.            *)
(*                                                                         *)
(* Of a block only its link and, if it is a head, the name of its file are *)
(* kept (data and sizes are in module AOFS); how many blocks a request     *)
(* covers is therefore a free choice at each block.  A thread holds copies *)
(* of what it read (the superblock in map, a block in cur, mnext, mhead)   *)
(* and writes whole copies back, as the code does.                         *)
(*                                                                         *)
(* Abstracted: aofs_find_file_head, which scans all blocks, is one step,   *)
(* and so are two adjacent reads.  The write of one block, or of the       *)
(* superblock, is atomic.                                                  *)
(***************************************************************************)
EXTENDS Integers

CONSTANTS BLOCK_NUM, Name, NoName, Thread

ASSUME DiskAssumption == BLOCK_NUM \in Nat \ {0} /\ NoName \notin Name

VARIABLES
    bitmap,   \* on disk: the allocated blocks
    next,     \* on disk: link of each block, -1 at the end of a chain
    head,     \* on disk: the file whose head the block is, or NoName
    astray,   \* a thread went on with block number -1 (see module AOFS)
    files,    \* history: files created whose removal was not asked for
    depth,    \* history: links between a block and the head it was chained to
    torn,     \* history: "torn" when a crash has left a link to a free block, "used"
              \* when a handler has started on such an image
    pc,       \* where each thread is
    op,       \* what it does
    path,     \* for which file
    map,      \* its copy of the bitmap
    cur, mnext, mhead,   \* the block in its memory
    new,      \* the block allocate_block has chosen
    victim, aft          \* the block being deallocated and the one after it

diskVars == <<bitmap, next, head>>
memVars  == <<cur, mnext, mhead>>
vars     == <<bitmap, next, head, astray, files, depth, torn, pc, op, path, map, cur,
              mnext, mhead, new, victim, aft>>

Block == 0 .. BLOCK_NUM - 1

Op == {"create", "write", "touch", "unlink", "shrink", "grow"}
Pc == {"idle", "find_free", "mark", "clear", "head", "link", "grown", "store", "block",
       "walk", "dealloc", "wipe", "unmark", "cut"}

TypeOK ==
    /\ bitmap \in SUBSET Block
    /\ next \in [Block -> Block \cup {-1}]
    /\ head \in [Block -> Name \cup {NoName}]
    /\ astray \in BOOLEAN
    /\ files \in SUBSET Name /\ depth \in [Block -> Nat]
    /\ torn \in {"no", "torn", "used"}
    /\ pc \in [Thread -> Pc] /\ op \in [Thread -> Op] /\ path \in [Thread -> Name]
    /\ map \in [Thread -> SUBSET Block]
    /\ cur \in [Thread -> Block \cup {-1}]
    /\ mnext \in [Thread -> Block \cup {-1}]
    /\ mhead \in [Thread -> Name \cup {NoName}]
    /\ new \in [Thread -> Block \cup {-1}]
    /\ victim \in [Thread -> Block \cup {-1}]
    /\ aft \in [Thread -> Block \cup {-1}]

Init ==
    /\ bitmap = {} /\ next = [b \in Block |-> -1] /\ head = [b \in Block |-> NoName]
    /\ astray = FALSE /\ files = {} /\ depth = [b \in Block |-> 0]
    /\ torn = "no"
    /\ pc = [t \in Thread |-> "idle"] /\ op = [t \in Thread |-> "touch"]
    /\ path \in [Thread -> Name]
    /\ map = [t \in Thread |-> {}]
    /\ cur = [t \in Thread |-> -1] /\ mnext = [t \in Thread |-> -1]
    /\ mhead = [t \in Thread |-> NoName] /\ new = [t \in Thread |-> -1]
    /\ victim = [t \in Thread |-> -1] /\ aft = [t \in Thread |-> -1]

-----------------------------------------------------------------------------
Goto(t, l) == pc' = [pc EXCEPT ![t] = l]

IsHeadOf(b, name) == b \in bitmap /\ head[b] = name

\* Mutant: any head block matches.
find_file_head_any(h, name) == h \in Block /\ \E other \in Name : IsHeadOf(h, other)

\* aofs_find_file_head takes the first; the block number goes to h.
find_file_head(h, name) ==
    h \in Block /\ IsHeadOf(h, name) /\ \A b \in Block : IsHeadOf(b, name) => h <= b

Missing(name) == ~\E b \in Block : IsHeadOf(b, name)

\* read_block into the thread's memory.
ReadBlock(t, b) ==
    /\ cur' = [cur EXCEPT ![t] = b]
    /\ mnext' = [mnext EXCEPT ![t] = next[b]]
    /\ mhead' = [mhead EXCEPT ![t] = head[b]]

\* write_block of block b.
WriteTo(b, nx, hd) ==
    /\ next' = [next EXCEPT ![b] = nx]
    /\ head' = [head EXCEPT ![b] = hd]

-----------------------------------------------------------------------------
(* The FUSE handlers begin.  The kernel calls create for a path it did not *)
(* find.  It locks the file for the time of a handler, and the directory   *)
(* for the time of a create or an unlink.                                  *)

VnodeFree(t, name) == \A s \in Thread \ {t} : pc[s] # "idle" => path[s] # name
DirFree(t) == \A s \in Thread \ {t} : pc[s] # "idle" => op[s] \notin {"create", "unlink"}

Begin(t, o, name, l) ==
    /\ pc[t] = "idle" /\ ~astray
    /\ op' = [op EXCEPT ![t] = o] /\ path' = [path EXCEPT ![t] = name]
    /\ Goto(t, l)
    /\ torn' = IF torn = "no" THEN "no" ELSE "used"

aofs_create(t, name) ==
    /\ Missing(name)
    /\ Begin(t, "create", name, "find_free")
    /\ UNCHANGED <<diskVars, memVars, astray, files, map, new, victim, aft, depth>>

\* A write to a missing file begins by creating it.
aofs_write_missing(t, name) ==
    /\ Missing(name)
    /\ Begin(t, "write", name, "find_free")
    /\ cur' = [cur EXCEPT ![t] = -1]
    /\ UNCHANGED <<diskVars, mnext, mhead, astray, files, map, new, victim, aft, depth>>

aofs_write(t, name) ==
    \E h \in Block :
        /\ find_file_head(h, name) /\ ReadBlock(t, h)
        /\ Begin(t, "write", name, "store")
        /\ UNCHANGED <<diskVars, astray, files, map, new, victim, aft, depth>>

\* read, utimens and chown: read the head block, write it back.
aofs_touch(t, name) ==
    \E h \in Block :
        /\ find_file_head(h, name) /\ ReadBlock(t, h)
        /\ Begin(t, "touch", name, "store")
        /\ UNCHANGED <<diskVars, astray, files, map, new, victim, aft, depth>>

aofs_truncate(t, name) ==
    \E h \in Block, o \in {"shrink", "grow"} :
        /\ find_file_head(h, name) /\ ReadBlock(t, h)
        /\ Begin(t, o, name, "walk")
        /\ UNCHANGED <<diskVars, astray, files, map, new, victim, aft, depth>>

aofs_unlink(t, name) ==
    \E h \in Block :
        /\ find_file_head(h, name)
        /\ victim' = [victim EXCEPT ![t] = h]
        /\ Begin(t, "unlink", name, "dealloc")
        /\ files' = files \ {name}
        /\ UNCHANGED <<diskVars, memVars, astray, map, new, aft, depth>>

-----------------------------------------------------------------------------
(* allocate_block: read the superblock, write it back with the first free  *)
(* bit set, write a cleared block.                                         *)

FirstFree(b, m) == b \notin m /\ \A c \in Block : c < b => c \in m

AllocRead(t) ==
    /\ pc[t] = "find_free" /\ ~astray
    /\ \E b \in Block : FirstFree(b, bitmap) /\ new' = [new EXCEPT ![t] = b]
    /\ map' = [map EXCEPT ![t] = bitmap]
    /\ Goto(t, "mark")
    /\ UNCHANGED <<diskVars, memVars, astray, files, op, path, victim, aft, depth, torn>>

\* Mutant: the -1 of find_free_bit is not tested.
AllocFull_on(t) ==
    /\ pc[t] = "find_free" /\ ~astray
    /\ Block \subseteq bitmap
    /\ new' = [new EXCEPT ![t] = -1] /\ map' = [map EXCEPT ![t] = bitmap]
    /\ Goto(t, "mark")
    /\ UNCHANGED <<diskVars, memVars, astray, files, op, path, victim, aft, depth, torn>>

\* No free block: create and truncate return -1; write takes -1 for a block.
AllocFull(t) ==
    /\ pc[t] = "find_free" /\ ~astray
    /\ Block \subseteq bitmap
    /\ astray' = (op[t] = "write")
    /\ Goto(t, "idle")
    /\ UNCHANGED <<diskVars, memVars, files, op, path, map, new, victim, aft, depth, torn>>

AllocMark(t) ==
    /\ pc[t] = "mark" /\ ~astray
    /\ bitmap' = map[t] \cup {new[t]}
    /\ Goto(t, "clear")
    /\ UNCHANGED <<next, head, memVars, astray, files, op, path, map, new,
                   victim, aft, depth, torn>>

Creating(t) == op[t] = "create" \/ (op[t] = "write" /\ cur[t] = -1)

AllocClear(t) ==
    /\ pc[t] = "clear" /\ ~astray
    /\ WriteTo(new[t], -1, NoName)
    /\ Goto(t, IF Creating(t) THEN "head" ELSE "link")
    /\ UNCHANGED <<bitmap, memVars, astray, files, op, path, map, new,
                   victim, aft, depth, torn>>

\* aofs_create_file stores the head block; aofs_write_file reads it and goes on.
CreateHead(t) ==
    /\ pc[t] = "head" /\ ~astray
    /\ WriteTo(new[t], -1, path[t])
    /\ files' = files \cup {path[t]}
    /\ IF op[t] = "write"
       THEN /\ cur' = [cur EXCEPT ![t] = new[t]]
            /\ mnext' = [mnext EXCEPT ![t] = -1]
            /\ mhead' = [mhead EXCEPT ![t] = path[t]]
            /\ Goto(t, "store")
       ELSE Goto(t, "idle") /\ UNCHANGED memVars
    /\ UNCHANGED <<bitmap, astray, op, path, map, new, victim, aft, depth, torn>>

\* The block in memory is stored with its link to the new block, which is read.
Link(t) ==
    /\ pc[t] = "link" /\ ~astray
    /\ WriteTo(cur[t], new[t], mhead[t])
    /\ depth' = IF torn = "no" THEN [depth EXCEPT ![new[t]] = depth[cur[t]] + 1] ELSE depth
    /\ cur' = [cur EXCEPT ![t] = new[t]]
    /\ mnext' = [mnext EXCEPT ![t] = next[new[t]]]
    /\ mhead' = [mhead EXCEPT ![t] = head[new[t]]]
    /\ Goto(t, IF op[t] = "grow" THEN "grown" ELSE "block")
    /\ UNCHANGED <<bitmap, astray, files, op, path, map, new, victim, aft, torn>>

-----------------------------------------------------------------------------
(* aofs_write_file.                                                        *)

\* The head block with the new size (write), or with new times (touch).
Store(t) ==
    /\ pc[t] = "store" /\ ~astray
    /\ WriteTo(cur[t], mnext[t], mhead[t])
    /\ Goto(t, IF op[t] = "write" THEN "block" ELSE "idle")
    /\ UNCHANGED <<bitmap, memVars, astray, files, op, path, map, new,
                   victim, aft, depth, torn>>

\* The next block is on the chain: read it, store this one, go on.  (A block that
\* the offset skips is only read; here it is stored as it was.)
WriteNext(t) ==
    /\ pc[t] = "block" /\ ~astray /\ mnext[t] # -1
    /\ WriteTo(cur[t], mnext[t], mhead[t])
    /\ ReadBlock(t, mnext[t])
    /\ UNCHANGED <<bitmap, astray, files, pc, op, path, map, new, victim, aft, depth, torn>>

\* More to write and no block left on the chain.
WriteExtend(t) ==
    /\ pc[t] = "block" /\ ~astray /\ mnext[t] = -1
    /\ Goto(t, "find_free")
    /\ UNCHANGED <<diskVars, memVars, astray, files, op, path, map, new,
                   victim, aft, depth, torn>>

WriteLast(t) ==
    /\ pc[t] = "block" /\ ~astray
    /\ WriteTo(cur[t], mnext[t], mhead[t])
    /\ Goto(t, "idle")
    /\ UNCHANGED <<bitmap, memVars, astray, files, op, path, map, new,
                   victim, aft, depth, torn>>

-----------------------------------------------------------------------------
(* aofs_truncate_file.  Its last step, which stores the size in the head   *)
(* block after reading it again, changes nothing that is kept here.        *)

\* Mutant: the loop reads the block it has.
WalkNext_same(t) ==
    /\ pc[t] = "walk" /\ ~astray /\ mnext[t] # -1
    /\ ReadBlock(t, cur[t])
    /\ UNCHANGED <<diskVars, astray, files, pc, op, path, map, new,
                   victim, aft, depth, torn>>

\* Read on: to the last block to keep, or to the last block.
WalkNext(t) ==
    /\ pc[t] = "walk" /\ ~astray /\ mnext[t] # -1
    /\ ReadBlock(t, mnext[t])
    /\ UNCHANGED <<diskVars, astray, files, pc, op, path, map, new,
                   victim, aft, depth, torn>>

WalkGrow(t) ==
    /\ pc[t] = "walk" /\ ~astray /\ op[t] = "grow" /\ mnext[t] = -1
    /\ Goto(t, "find_free")
    /\ UNCHANGED <<diskVars, memVars, astray, files, op, path, map, new,
                   victim, aft, depth, torn>>

\* Delete the chain behind the block to keep, which still links to it.
WalkCut(t) ==
    /\ pc[t] = "walk" /\ ~astray /\ op[t] = "shrink"
    /\ victim' = [victim EXCEPT ![t] = mnext[t]]
    /\ Goto(t, IF mnext[t] = -1 THEN "cut" ELSE "dealloc")
    /\ UNCHANGED <<diskVars, memVars, astray, files, op, path, map, new, aft, depth, torn>>

\* Mutant: the link is not reset.
Cut_linked(t) ==
    /\ pc[t] = "cut" /\ ~astray
    /\ WriteTo(cur[t], mnext[t], mhead[t])
    /\ Goto(t, "idle")
    /\ UNCHANGED <<bitmap, memVars, astray, files, op, path, map, new,
                   victim, aft, depth, torn>>

Cut(t) ==
    /\ pc[t] = "cut" /\ ~astray
    /\ WriteTo(cur[t], -1, mhead[t])
    /\ Goto(t, "idle")
    /\ UNCHANGED <<bitmap, memVars, astray, files, op, path, map, new,
                   victim, aft, depth, torn>>

\* The new block is cleared once more; another one may be needed.
Grown(t) ==
    /\ pc[t] = "grown" /\ ~astray
    /\ WriteTo(cur[t], -1, NoName)
    /\ mnext' = [mnext EXCEPT ![t] = -1] /\ mhead' = [mhead EXCEPT ![t] = NoName]
    /\ Goto(t, "find_free") \/ Goto(t, "idle")
    /\ UNCHANGED <<bitmap, cur, astray, files, op, path, map, new,
                   victim, aft, depth, torn>>

-----------------------------------------------------------------------------
(* delete_chain: deallocate_block for one block after the other.           *)

\* Mutant: the link is taken from the cleared block.
DeallocRead_cleared(t) ==
    /\ pc[t] = "dealloc" /\ ~astray
    /\ map' = [map EXCEPT ![t] = bitmap \ {victim[t]}]
    /\ aft' = [aft EXCEPT ![t] = -1]
    /\ Goto(t, "wipe")
    /\ UNCHANGED <<diskVars, memVars, astray, files, op, path, new, victim, depth, torn>>

DeallocRead(t) ==
    /\ pc[t] = "dealloc" /\ ~astray
    /\ map' = [map EXCEPT ![t] = bitmap \ {victim[t]}]
    /\ aft' = [aft EXCEPT ![t] = next[victim[t]]]
    /\ Goto(t, "wipe")
    /\ UNCHANGED <<diskVars, memVars, astray, files, op, path, new, victim, depth, torn>>

\* Mutant: the block is not wiped on disk.
DeallocWipe_lost(t) ==
    /\ pc[t] = "wipe" /\ ~astray
    /\ Goto(t, "unmark")
    /\ UNCHANGED <<diskVars, memVars, astray, files, op, path, map, new,
                   victim, aft, depth, torn>>

DeallocWipe(t) ==
    /\ pc[t] = "wipe" /\ ~astray
    /\ WriteTo(victim[t], -1, NoName)
    /\ Goto(t, "unmark")
    /\ UNCHANGED <<bitmap, memVars, astray, files, op, path, map, new,
                   victim, aft, depth, torn>>

DeallocUnmark(t) ==
    /\ pc[t] = "unmark" /\ ~astray
    /\ bitmap' = map[t]
    /\ depth' = [depth EXCEPT ![victim[t]] = 0]
    /\ victim' = [victim EXCEPT ![t] = aft[t]]
    /\ Goto(t, IF aft[t] # -1 THEN "dealloc" ELSE IF op[t] = "unlink" THEN "idle" ELSE "cut")
    /\ UNCHANGED <<next, head, memVars, astray, files, op, path, map, new, aft, torn>>

-----------------------------------------------------------------------------
\* A shrinking truncation between its first deallocation and the write that
\* cuts the link: the block to keep links to blocks that are freed one by one.
InCut(t) == op[t] = "shrink" /\ pc[t] \in {"dealloc", "wipe", "unmark", "cut"}

LinkToFree == \E b \in Block : next[b] # -1 /\ next[b] \notin bitmap

\* The daemon dies (or the machine does) between any two writes and is started
\* again: memory is lost, the image is what was written.
Crash ==
    /\ ~astray
    /\ pc' = [t \in Thread |-> "idle"]
    /\ map' = [t \in Thread |-> {}] /\ mhead' = [t \in Thread |-> NoName]
    /\ LET lost == [t \in Thread |-> -1] IN
        cur' = lost /\ mnext' = lost /\ new' = lost /\ victim' = lost /\ aft' = lost
    /\ torn' = IF torn = "no" /\ LinkToFree THEN "torn" ELSE torn
    /\ UNCHANGED <<diskVars, astray, files, op, path, depth>>

Handler(t) ==
    \E name \in Name :
        /\ VnodeFree(t, name)
        /\ \/ DirFree(t) /\ (aofs_create(t, name) \/ aofs_unlink(t, name))
           \/ aofs_write_missing(t, name) \/ aofs_write(t, name)
           \/ aofs_touch(t, name) \/ aofs_truncate(t, name)

Step(t) ==
    \/ AllocRead(t) \/ AllocFull(t) \/ AllocMark(t) \/ AllocClear(t)
    \/ CreateHead(t) \/ Link(t)
    \/ Store(t) \/ WriteNext(t) \/ WriteExtend(t) \/ WriteLast(t)
    \/ WalkNext(t) \/ WalkGrow(t) \/ WalkCut(t) \/ Cut(t) \/ Grown(t)
    \/ DeallocRead(t) \/ DeallocWipe(t) \/ DeallocUnmark(t)

\* Handlers other than those above (getattr, open, readdir) write nothing.
aofs_getattr(t) == pc[t] = "idle" /\ UNCHANGED vars

Next == (\E t \in Thread : Handler(t) \/ Step(t) \/ aofs_getattr(t)) \/ Crash

Spec == Init /\ [][Next]_vars

\* A thread that is in a handler goes on: its reads and writes return.
FairSpec == Spec /\ \A t \in Thread : WF_vars(Step(t))

-----------------------------------------------------------------------------
(* Properties.  A truncation frees the blocks behind the one it keeps      *)
(* before it stores that one without its link (aofs.c:524), so a crash in  *)
(* between may leave a link to a free block behind.  Once a handler has    *)
(* started on such an image (torn = "used") the code promises nothing:     *)
(* the free block is taken for another file while the old link leads to    *)
(* it.  Everything below is claimed until then.                            *)

Intact == torn # "used"

\* The block whose link is being cut, if the thread is at it.
CutBlock(b) == \E t \in Thread : InCut(t) /\ cur[t] = b

\* No block is on two chains or twice on one; links lead to allocated blocks that
\* are no heads and lie one step further from the head (no cycles).  Only the block
\* that a truncation is cutting, or was cutting at the crash, may link to a free
\* block.  At every read or write of every handler, and after a crash at any of
\* them, until a handler starts on an image that a crash left with such a link.
NoSharedBlocks ==
    Intact =>
        /\ \A a, b \in Block : next[a] = next[b] /\ next[a] # -1 => a = b
        /\ \A b \in Block : next[b] # -1 =>
              \/ /\ next[b] \in bitmap /\ head[next[b]] = NoName
                 /\ depth[next[b]] = depth[b] + 1
              \/ next[b] \notin bitmap /\ (CutBlock(b) \/ torn = "torn")

\* A free block is clean on disk: deallocate_block wipes a block before it gives
\* it back, so allocate_block may mark a block, and crash, without bringing an
\* old file back.  After any crash, until a handler starts on a torn image.
FreeBlocksAreClean ==
    Intact => \A b \in Block : b \notin bitmap => next[b] = -1 /\ head[b] = NoName

\* A file that was created and not unlinked is found, under a single head: its
\* block is not given away, wiped or overwritten by other requests or by a crash,
\* in the middle of a truncation too, until a handler starts on a torn image.
FilesAreFound ==
    Intact =>
        /\ \A name \in files : \E b \in bitmap : head[b] = name
        /\ \A a, b \in Block : head[a] = head[b] /\ head[a] # NoName => a = b

\* Every request ends: the loops over the links of a chain come to its end.  (On a
\* torn image a block may come to link to itself.)
RequestsEnd == \A t \in Thread : pc[t] # "idle" ~> (pc[t] = "idle" \/ astray \/ ~Intact)

\* allocate_block hands a block to one caller only.
AllocationIsExclusive ==
    \A s, t \in Thread :
        s # t /\ {pc[s], pc[t]} \subseteq {"clear", "head", "link"} => new[s] # new[t]

-----------------------------------------------------------------------------
(* The inductive invariant: what the copies a thread holds have to do with *)
(* the disk at each place, as long as no other thread writes.              *)

MemIsDisk(t) == /\ cur[t] \in bitmap
                /\ mnext[t] = next[cur[t]] /\ mhead[t] = head[cur[t]]

Allocating(t) ==
    /\ op[t] \in {"create", "write", "grow"}
    /\ IF Creating(t) THEN \A b \in Block : head[b] # path[t]
                      ELSE MemIsDisk(t) /\ mnext[t] = -1

Fresh(t) ==
    /\ new[t] \in bitmap /\ next[new[t]] = -1 /\ head[new[t]] = NoName
    /\ \A b \in Block : next[b] # new[t]
    /\ Creating(t) \/ cur[t] # new[t]

\* Nobody links to b but the block that a truncation of t is about to cut.
OnlyCutLinksTo(t, b) == \A a \in Block : next[a] = b => InCut(t) /\ a = cur[t]

Doomed(t) ==
    /\ op[t] \in {"unlink", "shrink"}
    /\ victim[t] \in bitmap /\ head[victim[t]] \notin files
    /\ OnlyCutLinksTo(t, victim[t])
    /\ InCut(t) => depth[cur[t]] < depth[victim[t]]

Wiped(t) ==
    /\ op[t] \in {"unlink", "shrink"}
    /\ victim[t] \in bitmap /\ map[t] = bitmap \ {victim[t]}
    /\ next[victim[t]] = -1 /\ head[victim[t]] = NoName
    /\ OnlyCutLinksTo(t, victim[t])
    /\ InCut(t) => cur[t] # victim[t]
    /\ aft[t] # -1 => /\ aft[t] \in bitmap \ {victim[t]} /\ head[aft[t]] = NoName
                      /\ \A b \in Block : next[b] # aft[t]
                      /\ InCut(t) => depth[cur[t]] < depth[aft[t]]

ThreadInv(t) ==
    /\ pc[t] \in {"find_free", "mark", "clear", "head", "link"} => Allocating(t)
    /\ pc[t] = "mark" => new[t] \in Block \ bitmap /\ map[t] = bitmap
    /\ pc[t] \in {"clear", "head", "link"} => Fresh(t)
    /\ pc[t] = "head" => Creating(t)
    /\ pc[t] = "link" => ~Creating(t)
    /\ pc[t] \in {"store", "block", "walk"} => MemIsDisk(t) /\ op[t] # "create"
    /\ pc[t] = "walk" => op[t] \in {"shrink", "grow"}
    /\ pc[t] = "block" => op[t] = "write"
    /\ pc[t] = "grown" => /\ op[t] = "grow" /\ cur[t] \in bitmap
                          /\ next[cur[t]] = -1 /\ head[cur[t]] = NoName
    /\ InCut(t) => cur[t] \in bitmap /\ mhead[t] = head[cur[t]]
    /\ pc[t] \in {"dealloc", "wipe"} => Doomed(t)
    /\ pc[t] = "wipe" => map[t] = bitmap \ {victim[t]} /\ aft[t] = next[victim[t]]
    /\ pc[t] = "unmark" => Wiped(t)
    /\ pc[t] = "cut" => op[t] = "shrink"

\* Whatever the image, a block that a handler is about to read or write exists.
Located(t) ==
    /\ pc[t] \in {"mark", "clear", "head", "link"} => new[t] # -1
    /\ pc[t] \in {"find_free", "mark", "clear"} => Creating(t) \/ cur[t] # -1
    /\ pc[t] \in {"store", "block", "walk", "grown", "link", "cut"} \/ InCut(t) => cur[t] # -1
    /\ pc[t] \in {"dealloc", "wipe", "unmark"} =>
           victim[t] # -1 /\ op[t] \in {"unlink", "shrink"}

Typed == TypeOK /\ \A t \in Thread : Located(t)

Sound ==
    /\ NoSharedBlocks /\ FreeBlocksAreClean /\ FilesAreFound
    /\ Intact => \A t \in Thread : ThreadInv(t)
    /\ torn = "torn" => \A t \in Thread : pc[t] = "idle"

IInv == Typed /\ Sound
=============================================================================
