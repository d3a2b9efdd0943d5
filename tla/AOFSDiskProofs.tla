--------------------------- MODULE AOFSDiskProofs ---------------------------
(***************************************************************************)
(* Proof that a single FUSE thread keeps the disk image sound at every     *)
(* single read and write, whatever the number of blocks and files, and     *)
(* through crashes at any of them, until a handler starts on an image on   *)
(* which a crash inside a shrinking truncation (aofs.c:524) has left a     *)
(* link to a free block: Intact, in the properties, says until when.  The  *)
(* types hold for any number of threads and any image.                     *)
(***************************************************************************)
EXTENDS AOFSDisk, TLAPS

\* The requests come one at a time: the file system is run with FUSE's option -s.
\* Without it fuse_main, which run_fs.c calls, serves requests with several threads,
\* and nothing below holds (AllocationIsExclusive in AOFSDisk is violated).
OneThread == \A s, t \in Thread : s = t

\* Whatever the image holds, with any number of threads, a handler starts within the
\* blocks and keeps the types; a start on a torn image is recorded.
LEMMA HandlerTyped ==
    ASSUME Typed, NEW t \in Thread, Handler(t)
    PROVE  Typed' /\ torn' = IF torn = "no" THEN "no" ELSE "used"
<1> USE DiskAssumption DEF Block, Goto, diskVars, memVars, ReadBlock,
           Begin, InCut, Creating, Typed
<1>0. PICK name \in Name :
          \/ aofs_create(t, name) \/ aofs_write_missing(t, name) \/ aofs_write(t, name)
          \/ aofs_touch(t, name) \/ aofs_truncate(t, name) \/ aofs_unlink(t, name)
  BY DEF Handler
<1>1. CASE aofs_create(t, name)
  <2>1. TypeOK'  BY <1>1 DEF TypeOK, Pc, Op, Located, aofs_create
  <2>2. \A s \in Thread : Located(s)'  BY <1>1 DEF TypeOK, Located, aofs_create
  <2>3. QED  BY <1>1, <2>1, <2>2 DEF aofs_create
<1>2. CASE aofs_write_missing(t, name)
  <2>1. TypeOK'  BY <1>2 DEF TypeOK, Pc, Op, Located, aofs_write_missing
  <2>2. \A s \in Thread : Located(s)'  BY <1>2 DEF TypeOK, Located, aofs_write_missing
  <2>3. QED  BY <1>2, <2>1, <2>2 DEF aofs_write_missing
<1>3. CASE aofs_write(t, name)
  <2>1. TypeOK'
    <3>1. PICK h \in Block : ReadBlock(t, h)  BY <1>3 DEF aofs_write
    <3>2. next[h] \in Block \cup {-1} /\ head[h] \in Name \cup {NoName}  BY DEF TypeOK
    <3>3. cur' \in [Thread -> Block \cup {-1}] /\ mnext' \in [Thread -> Block \cup {-1}]
          /\ mhead' \in [Thread -> Name \cup {NoName}]
      BY <3>1, <3>2 DEF TypeOK
    <3>4. pc' \in [Thread -> Pc] /\ op' \in [Thread -> Op] /\ path' \in [Thread -> Name]
      BY <1>3 DEF TypeOK, aofs_write, Pc, Op
    <3>5. torn' \in {"no", "torn", "used"}  BY <1>3 DEF aofs_write
    <3>6. QED  BY <1>3, <3>3, <3>4, <3>5 DEF TypeOK, aofs_write
  <2>2. \A s \in Thread : Located(s)'  BY <1>3 DEF TypeOK, Located, aofs_write
  <2>3. QED  BY <1>3, <2>1, <2>2 DEF aofs_write
<1>4. CASE aofs_touch(t, name)
  <2>1. TypeOK'
    <3>1. PICK h \in Block : ReadBlock(t, h)  BY <1>4 DEF aofs_touch
    <3>2. next[h] \in Block \cup {-1} /\ head[h] \in Name \cup {NoName}  BY DEF TypeOK
    <3>3. cur' \in [Thread -> Block \cup {-1}] /\ mnext' \in [Thread -> Block \cup {-1}]
          /\ mhead' \in [Thread -> Name \cup {NoName}]
      BY <3>1, <3>2 DEF TypeOK
    <3>4. pc' \in [Thread -> Pc] /\ op' \in [Thread -> Op] /\ path' \in [Thread -> Name]
      BY <1>4 DEF TypeOK, aofs_touch, Pc, Op
    <3>5. torn' \in {"no", "torn", "used"}  BY <1>4 DEF aofs_touch
    <3>6. QED  BY <1>4, <3>3, <3>4, <3>5 DEF TypeOK, aofs_touch
  <2>2. \A s \in Thread : Located(s)'  BY <1>4 DEF TypeOK, Located, aofs_touch
  <2>3. QED  BY <1>4, <2>1, <2>2 DEF aofs_touch
<1>5. CASE aofs_truncate(t, name)
  <2>1. TypeOK'
    <3>1. PICK h \in Block : ReadBlock(t, h)  BY <1>5 DEF aofs_truncate
    <3>2. next[h] \in Block \cup {-1} /\ head[h] \in Name \cup {NoName}  BY DEF TypeOK
    <3>3. cur' \in [Thread -> Block \cup {-1}] /\ mnext' \in [Thread -> Block \cup {-1}]
          /\ mhead' \in [Thread -> Name \cup {NoName}]
      BY <3>1, <3>2 DEF TypeOK
    <3>4. pc' \in [Thread -> Pc] /\ op' \in [Thread -> Op] /\ path' \in [Thread -> Name]
      BY <1>5 DEF TypeOK, aofs_truncate, Pc, Op
    <3>5. torn' \in {"no", "torn", "used"}  BY <1>5 DEF aofs_truncate
    <3>6. QED  BY <1>5, <3>3, <3>4, <3>5 DEF TypeOK, aofs_truncate
  <2>2. \A s \in Thread : Located(s)'  BY <1>5 DEF TypeOK, Located, aofs_truncate
  <2>3. QED  BY <1>5, <2>1, <2>2 DEF aofs_truncate
<1>6. CASE aofs_unlink(t, name)
  <2>1. TypeOK'
    <3>1. PICK h \in Block : victim' = [victim EXCEPT ![t] = h]  BY <1>6 DEF aofs_unlink
    <3>2. victim' \in [Thread -> Block \cup {-1}]  BY <3>1 DEF TypeOK
    <3>3. pc' \in [Thread -> Pc] /\ op' \in [Thread -> Op] /\ path' \in [Thread -> Name]
      BY <1>6 DEF TypeOK, aofs_unlink, Pc, Op
    <3>4. torn' \in {"no", "torn", "used"} /\ files' \in SUBSET Name
      BY <1>6 DEF TypeOK, aofs_unlink
    <3>5. QED  BY <1>6, <3>2, <3>3, <3>4 DEF TypeOK, aofs_unlink
  <2>2. \A s \in Thread : Located(s)'  BY <1>6 DEF TypeOK, Located, aofs_unlink
  <2>3. QED  BY <1>6, <2>1, <2>2 DEF aofs_unlink
<1>7. QED  BY <1>0, <1>1, <1>2, <1>3, <1>4, <1>5, <1>6

\* And so does every step of a handler.
LEMMA StepTyped ==
    ASSUME Typed, NEW t \in Thread, Step(t)
    PROVE  Typed' /\ torn' = torn
<1> USE DiskAssumption DEF Block, Goto, diskVars, memVars, WriteTo,
           ReadBlock, InCut, Creating, Typed
<1>1. CASE AllocRead(t)
  <2>1. TypeOK'  BY <1>1 DEF TypeOK, Pc, Op, Located, AllocRead
  <2>2. \A s \in Thread : Located(s)'  BY <1>1 DEF TypeOK, Located, AllocRead
  <2>3. QED  BY <1>1, <2>1, <2>2 DEF AllocRead
<1>2. CASE AllocFull(t)
  <2>1. TypeOK'  BY <1>2 DEF TypeOK, Pc, Op, Located, AllocFull
  <2>2. \A s \in Thread : Located(s)'  BY <1>2 DEF TypeOK, Located, AllocFull
  <2>3. QED  BY <1>2, <2>1, <2>2 DEF AllocFull
<1>3. CASE AllocMark(t)
  <2>1. TypeOK'  BY <1>3 DEF TypeOK, Pc, Op, Located, AllocMark
  <2>2. \A s \in Thread : Located(s)'  BY <1>3 DEF TypeOK, Located, AllocMark
  <2>3. QED  BY <1>3, <2>1, <2>2 DEF AllocMark
<1>4. CASE AllocClear(t)
  <2>1. TypeOK'  BY <1>4 DEF TypeOK, Pc, Op, Located, AllocClear
  <2>2. \A s \in Thread : Located(s)'  BY <1>4 DEF TypeOK, Located, AllocClear
  <2>3. QED  BY <1>4, <2>1, <2>2 DEF AllocClear
<1>5. CASE CreateHead(t)
  <2>1. TypeOK'
    <3>1. path[t] \in Name /\ new[t] \in Block  BY <1>5 DEF TypeOK, Located, CreateHead
    <3>2. next' \in [Block -> Block \cup {-1}]  BY <1>5 DEF TypeOK, CreateHead
    <3>3. head' \in [Block -> Name \cup {NoName}]  BY <1>5, <3>1 DEF TypeOK, CreateHead
    <3>4. files' \in SUBSET Name  BY <1>5, <3>1 DEF TypeOK, CreateHead
    <3>5. cur' \in [Thread -> Block \cup {-1}] /\ mnext' \in [Thread -> Block \cup {-1}]
          /\ mhead' \in [Thread -> Name \cup {NoName}]
      BY <1>5, <3>1 DEF TypeOK, CreateHead
    <3>6. pc' = [pc EXCEPT ![t] = "store"] \/ pc' = [pc EXCEPT ![t] = "idle"]
      BY <1>5 DEF CreateHead
    <3>7. pc' \in [Thread -> Pc]  BY <3>6 DEF TypeOK, Pc
    <3>8. QED  BY <1>5, <3>2, <3>3, <3>4, <3>5, <3>7 DEF TypeOK, CreateHead
  <2>2. \A s \in Thread : Located(s)'  BY <1>5 DEF TypeOK, Located, CreateHead
  <2>3. QED  BY <1>5, <2>1, <2>2 DEF CreateHead
<1>6. CASE Link(t)
  <2>1. TypeOK'
    <3>1. new[t] \in Block /\ cur[t] \in Block  BY <1>6 DEF TypeOK, Located, Link
    <3>2. next[new[t]] \in Block \cup {-1} /\ head[new[t]] \in Name \cup {NoName}
          /\ depth[cur[t]] + 1 \in Nat
      BY <3>1 DEF TypeOK
    <3>3. next' \in [Block -> Block \cup {-1}] /\ head' \in [Block -> Name \cup {NoName}]
      BY <1>6, <3>1 DEF TypeOK, Link
    <3>4. depth' \in [Block -> Nat]  BY <1>6, <3>2 DEF TypeOK, Link
    <3>5. cur' \in [Thread -> Block \cup {-1}] /\ mnext' \in [Thread -> Block \cup {-1}]
          /\ mhead' \in [Thread -> Name \cup {NoName}]
      BY <1>6, <3>1, <3>2 DEF TypeOK, Link
    <3>6. pc' \in [Thread -> Pc]  BY <1>6 DEF TypeOK, Link, Pc
    <3>7. QED  BY <1>6, <3>3, <3>4, <3>5, <3>6 DEF TypeOK, Link
  <2>2. \A s \in Thread : Located(s)'  BY <1>6 DEF TypeOK, Located, Link
  <2>3. QED  BY <1>6, <2>1, <2>2 DEF Link
<1>7. CASE Store(t)
  <2>1. TypeOK'  BY <1>7 DEF TypeOK, Pc, Op, Located, Store
  <2>2. \A s \in Thread : Located(s)'  BY <1>7 DEF TypeOK, Located, Store
  <2>3. QED  BY <1>7, <2>1, <2>2 DEF Store
<1>8. CASE WriteNext(t)
  <2>1. TypeOK'  BY <1>8 DEF TypeOK, Pc, Op, Located, WriteNext
  <2>2. \A s \in Thread : Located(s)'  BY <1>8 DEF TypeOK, Located, WriteNext
  <2>3. QED  BY <1>8, <2>1, <2>2 DEF WriteNext
<1>9. CASE WriteExtend(t)
  <2>1. TypeOK'  BY <1>9 DEF TypeOK, Pc, Op, Located, WriteExtend
  <2>2. \A s \in Thread : Located(s)'  BY <1>9 DEF TypeOK, Located, WriteExtend
  <2>3. QED  BY <1>9, <2>1, <2>2 DEF WriteExtend
<1>10. CASE WriteLast(t)
  <2>1. TypeOK'  BY <1>10 DEF TypeOK, Pc, Op, Located, WriteLast
  <2>2. \A s \in Thread : Located(s)'  BY <1>10 DEF TypeOK, Located, WriteLast
  <2>3. QED  BY <1>10, <2>1, <2>2 DEF WriteLast
<1>11. CASE WalkNext(t)
  <2>1. TypeOK'  BY <1>11 DEF TypeOK, Pc, Op, Located, WalkNext
  <2>2. \A s \in Thread : Located(s)'  BY <1>11 DEF TypeOK, Located, WalkNext
  <2>3. QED  BY <1>11, <2>1, <2>2 DEF WalkNext
<1>12. CASE WalkGrow(t)
  <2>1. TypeOK'  BY <1>12 DEF TypeOK, Pc, Op, Located, WalkGrow
  <2>2. \A s \in Thread : Located(s)'  BY <1>12 DEF TypeOK, Located, WalkGrow
  <2>3. QED  BY <1>12, <2>1, <2>2 DEF WalkGrow
<1>13. CASE WalkCut(t)
  <2>1. TypeOK'  BY <1>13 DEF TypeOK, Pc, Op, Located, WalkCut
  <2>2. \A s \in Thread : Located(s)'  BY <1>13 DEF TypeOK, Located, WalkCut
  <2>3. QED  BY <1>13, <2>1, <2>2 DEF WalkCut
<1>14. CASE Cut(t)
  <2>1. TypeOK'  BY <1>14 DEF TypeOK, Pc, Op, Located, Cut
  <2>2. \A s \in Thread : Located(s)'  BY <1>14 DEF TypeOK, Located, Cut
  <2>3. QED  BY <1>14, <2>1, <2>2 DEF Cut
<1>15. CASE Grown(t)
  <2>1. TypeOK'  BY <1>15 DEF TypeOK, Pc, Op, Located, Grown
  <2>2. \A s \in Thread : Located(s)'  BY <1>15 DEF TypeOK, Located, Grown
  <2>3. QED  BY <1>15, <2>1, <2>2 DEF Grown
<1>16. CASE DeallocRead(t)
  <2>1. TypeOK'  BY <1>16 DEF TypeOK, Pc, Op, Located, DeallocRead
  <2>2. \A s \in Thread : Located(s)'  BY <1>16 DEF TypeOK, Located, DeallocRead
  <2>3. QED  BY <1>16, <2>1, <2>2 DEF DeallocRead
<1>17. CASE DeallocWipe(t)
  <2>1. TypeOK'  BY <1>17 DEF TypeOK, Pc, Op, Located, DeallocWipe
  <2>2. \A s \in Thread : Located(s)'  BY <1>17 DEF TypeOK, Located, DeallocWipe
  <2>3. QED  BY <1>17, <2>1, <2>2 DEF DeallocWipe
<1>18. CASE DeallocUnmark(t)
  <2>1. TypeOK'  BY <1>18 DEF TypeOK, Pc, Op, Located, DeallocUnmark
  <2>2. \A s \in Thread : Located(s)'  BY <1>18 DEF TypeOK, Located, DeallocUnmark
  <2>3. QED  BY <1>18, <2>1, <2>2 DEF DeallocUnmark
<1>19. QED

    BY <1>1, <1>2, <1>3, <1>4, <1>5, <1>6, <1>7, <1>8, <1>9, <1>10, <1>11, <1>12, <1>13,
       <1>14, <1>15, <1>16, <1>17, <1>18 DEF Step

\* And a crash, which resets every thread.
LEMMA CrashTyped == ASSUME Typed, Crash PROVE Typed'
<1> USE DEF Typed, Crash, diskVars
<1>1. TypeOK'  BY DEF TypeOK, Pc, Block
<1>2. \A t \in Thread : Located(t)'  BY DEF Located, InCut
<1>3. QED  BY <1>1, <1>2

\* And a step that changes no variable.
LEMMA StutterTyped == ASSUME Typed, UNCHANGED vars PROVE Typed'
BY DEF Typed, TypeOK, Located, Creating, InCut, vars

\* The image stays sound when create begins.
LEMMA aofs_createKeeps ==
    ASSUME IInv, OneThread, torn = "no", NEW t \in Thread, NEW name \in Name,
           aofs_create(t, name)
    PROVE  Sound'
<1> USE DiskAssumption DEF Block, Goto, diskVars, memVars, WriteTo, ReadBlock,
           Begin, InCut, Creating, IInv, Typed, Sound, Intact
<1>0. ThreadInv(t)  OBVIOUS
<1>1. /\ \A b \in Block : CutBlock(b) <=> InCut(t) /\ cur[t] = b
      /\ \A b \in Block : CutBlock(b)' <=> InCut(t)' /\ cur'[t] = b
  BY DEF OneThread, CutBlock
<1>2. torn' = "no"
  BY DEF aofs_create
<1>3. NoSharedBlocks'
  BY <1>1, <1>2 DEF aofs_create, NoSharedBlocks
<1>4. FreeBlocksAreClean'
  BY <1>2 DEF aofs_create, FreeBlocksAreClean
<1>5. FilesAreFound'
  BY <1>2 DEF aofs_create, FilesAreFound
<1>6. ThreadInv(t)'
  BY <1>0, <1>2 DEF aofs_create, TypeOK, ThreadInv, Allocating, Missing, IsHeadOf,
     FreeBlocksAreClean
<1>7. QED  BY <1>2, <1>3, <1>4, <1>5, <1>6 DEF OneThread

\* The image stays sound when write begins by creating the file.
LEMMA aofs_write_missingKeeps ==
    ASSUME IInv, OneThread, torn = "no", NEW t \in Thread, NEW name \in Name,
           aofs_write_missing(t, name)
    PROVE  Sound'
<1> USE DiskAssumption DEF Block, Goto, diskVars, memVars, WriteTo, ReadBlock,
           Begin, InCut, Creating, IInv, Typed, Sound, Intact
<1>0. ThreadInv(t)  OBVIOUS
<1>1. /\ \A b \in Block : CutBlock(b) <=> InCut(t) /\ cur[t] = b
      /\ \A b \in Block : CutBlock(b)' <=> InCut(t)' /\ cur'[t] = b
  BY DEF OneThread, CutBlock
<1>2. torn' = "no"
  BY DEF aofs_write_missing
<1>3. NoSharedBlocks'
  BY <1>1, <1>2 DEF aofs_write_missing, NoSharedBlocks
<1>4. FreeBlocksAreClean'
  BY <1>2 DEF aofs_write_missing, FreeBlocksAreClean
<1>5. FilesAreFound'
  BY <1>2 DEF aofs_write_missing, FilesAreFound
<1>6. ThreadInv(t)'
  BY <1>0, <1>2 DEF aofs_write_missing, TypeOK, ThreadInv, Allocating, Missing, IsHeadOf,
     FreeBlocksAreClean
<1>7. QED  BY <1>2, <1>3, <1>4, <1>5, <1>6 DEF OneThread

\* The image stays sound when write begins at the head block.
LEMMA aofs_writeKeeps ==
    ASSUME IInv, OneThread, torn = "no", NEW t \in Thread, NEW name \in Name,
           aofs_write(t, name)
    PROVE  Sound'
<1> USE DiskAssumption DEF Block, Goto, diskVars, memVars, WriteTo, ReadBlock,
           Begin, InCut, Creating, IInv, Typed, Sound, Intact
<1>0. ThreadInv(t)  OBVIOUS
<1>1. /\ \A b \in Block : CutBlock(b) <=> InCut(t) /\ cur[t] = b
      /\ \A b \in Block : CutBlock(b)' <=> InCut(t)' /\ cur'[t] = b
  BY DEF OneThread, CutBlock
<1>2. torn' = "no"
  BY DEF aofs_write
<1>3. NoSharedBlocks'
  BY <1>1, <1>2 DEF aofs_write, NoSharedBlocks
<1>4. FreeBlocksAreClean'
  BY <1>2 DEF aofs_write, FreeBlocksAreClean
<1>5. FilesAreFound'
  BY <1>2 DEF aofs_write, FilesAreFound
<1>6. ThreadInv(t)'
  BY <1>0, <1>2 DEF aofs_write, TypeOK, ThreadInv, MemIsDisk, find_file_head, IsHeadOf
<1>7. QED  BY <1>2, <1>3, <1>4, <1>5, <1>6 DEF OneThread

\* The image stays sound when read, utimens and chown begin.
LEMMA aofs_touchKeeps ==
    ASSUME IInv, OneThread, torn = "no", NEW t \in Thread, NEW name \in Name,
           aofs_touch(t, name)
    PROVE  Sound'
<1> USE DiskAssumption DEF Block, Goto, diskVars, memVars, WriteTo, ReadBlock,
           Begin, InCut, Creating, IInv, Typed, Sound, Intact
<1>0. ThreadInv(t)  OBVIOUS
<1>1. /\ \A b \in Block : CutBlock(b) <=> InCut(t) /\ cur[t] = b
      /\ \A b \in Block : CutBlock(b)' <=> InCut(t)' /\ cur'[t] = b
  BY DEF OneThread, CutBlock
<1>2. torn' = "no"
  BY DEF aofs_touch
<1>3. NoSharedBlocks'
  BY <1>1, <1>2 DEF aofs_touch, NoSharedBlocks
<1>4. FreeBlocksAreClean'
  BY <1>2 DEF aofs_touch, FreeBlocksAreClean
<1>5. FilesAreFound'
  BY <1>2 DEF aofs_touch, FilesAreFound
<1>6. ThreadInv(t)'
  BY <1>0, <1>2 DEF aofs_touch, TypeOK, ThreadInv, MemIsDisk, find_file_head, IsHeadOf
<1>7. QED  BY <1>2, <1>3, <1>4, <1>5, <1>6 DEF OneThread

\* The image stays sound when truncate begins.
LEMMA aofs_truncateKeeps ==
    ASSUME IInv, OneThread, torn = "no", NEW t \in Thread, NEW name \in Name,
           aofs_truncate(t, name)
    PROVE  Sound'
<1> USE DiskAssumption DEF Block, Goto, diskVars, memVars, WriteTo, ReadBlock,
           Begin, InCut, Creating, IInv, Typed, Sound, Intact
<1>0. ThreadInv(t)  OBVIOUS
<1>1. /\ \A b \in Block : CutBlock(b) <=> InCut(t) /\ cur[t] = b
      /\ \A b \in Block : CutBlock(b)' <=> InCut(t)' /\ cur'[t] = b
  BY DEF OneThread, CutBlock
<1>2. torn' = "no"
  BY DEF aofs_truncate
<1>3. NoSharedBlocks'
  BY <1>1, <1>2 DEF aofs_truncate, NoSharedBlocks
<1>4. FreeBlocksAreClean'
  BY <1>2 DEF aofs_truncate, FreeBlocksAreClean
<1>5. FilesAreFound'
  BY <1>2 DEF aofs_truncate, FilesAreFound
<1>6. ThreadInv(t)'
  BY <1>0, <1>2 DEF aofs_truncate, TypeOK, ThreadInv, MemIsDisk, find_file_head, IsHeadOf
<1>7. QED  BY <1>2, <1>3, <1>4, <1>5, <1>6 DEF OneThread

\* The image stays sound when unlink begins.
LEMMA aofs_unlinkKeeps ==
    ASSUME IInv, OneThread, torn = "no", NEW t \in Thread, NEW name \in Name,
           aofs_unlink(t, name)
    PROVE  Sound'
<1> USE DiskAssumption DEF Block, Goto, diskVars, memVars, WriteTo, ReadBlock,
           Begin, InCut, Creating, IInv, Typed, Sound, Intact
<1>0. ThreadInv(t)  OBVIOUS
<1>1. /\ \A b \in Block : CutBlock(b) <=> InCut(t) /\ cur[t] = b
      /\ \A b \in Block : CutBlock(b)' <=> InCut(t)' /\ cur'[t] = b
  BY DEF OneThread, CutBlock
<1>2. torn' = "no"
  BY DEF aofs_unlink
<1>3. NoSharedBlocks'
  BY <1>1, <1>2 DEF aofs_unlink, NoSharedBlocks
<1>4. FreeBlocksAreClean'
  BY <1>2 DEF aofs_unlink, FreeBlocksAreClean
<1>5. FilesAreFound'
  BY <1>2 DEF aofs_unlink, FilesAreFound
<1>6. ThreadInv(t)'
  <2>1. PICK h \in Block : find_file_head(h, name) /\ victim' = [victim EXCEPT ![t] = h]
    BY DEF aofs_unlink
  <2>2. h \in bitmap /\ head[h] = name  BY <2>1 DEF find_file_head, IsHeadOf
  <2>3. pc'[t] = "dealloc" /\ op'[t] = "unlink" /\ victim'[t] = h /\ ~InCut(t)'
    BY <2>1 DEF IInv, TypeOK, aofs_unlink
  <2>4. \A a \in Block : ~CutBlock(a)
    BY <1>1 DEF aofs_unlink
  <2>5. \A a \in Block : next[a] # h
    <3> SUFFICES ASSUME NEW a \in Block, next[a] = h PROVE FALSE
      OBVIOUS
    <3>1. h # -1 /\ ~CutBlock(a)  BY <2>4
    <3>2. head[h] = NoName  BY <3>1 DEF IInv, NoSharedBlocks
    <3>3. QED  BY <3>2, <2>2
  <2>6. Doomed(t)'
    BY <2>2, <2>3, <2>5 DEF Doomed, OnlyCutLinksTo, aofs_unlink, IInv, TypeOK
  <2>7. QED  BY <2>3, <2>6 DEF ThreadInv
<1>7. QED  BY <1>2, <1>3, <1>4, <1>5, <1>6 DEF OneThread

\* The image stays sound when allocate_block reads the superblock.
LEMMA AllocReadKeeps ==
    ASSUME IInv, OneThread, torn = "no", NEW t \in Thread, AllocRead(t)
    PROVE  Sound'
<1> USE DiskAssumption DEF Block, Goto, diskVars, memVars, WriteTo, ReadBlock,
           Begin, InCut, Creating, IInv, Typed, Sound, Intact
<1>0. ThreadInv(t)  OBVIOUS
<1>1. /\ \A b \in Block : CutBlock(b) <=> InCut(t) /\ cur[t] = b
      /\ \A b \in Block : CutBlock(b)' <=> InCut(t)' /\ cur'[t] = b
  BY DEF OneThread, CutBlock
<1>2. torn' = "no"
  BY DEF AllocRead
<1>3. NoSharedBlocks'
  BY <1>1, <1>2 DEF AllocRead, NoSharedBlocks
<1>4. FreeBlocksAreClean'
  BY <1>2 DEF AllocRead, FreeBlocksAreClean
<1>5. FilesAreFound'
  BY <1>2 DEF AllocRead, FilesAreFound
<1>6. ThreadInv(t)'
  BY <1>0, <1>1, <1>2 DEF AllocRead, TypeOK, ThreadInv, MemIsDisk, Allocating, Fresh,
     Doomed, Wiped, OnlyCutLinksTo, NoSharedBlocks, FreeBlocksAreClean, FilesAreFound,
     find_file_head, IsHeadOf, Missing, FirstFree
<1>7. QED  BY <1>2, <1>3, <1>4, <1>5, <1>6 DEF OneThread

\* The image stays sound when allocate_block finds no free block.
LEMMA AllocFullKeeps ==
    ASSUME IInv, OneThread, torn = "no", NEW t \in Thread, AllocFull(t)
    PROVE  Sound'
<1> USE DiskAssumption DEF Block, Goto, diskVars, memVars, WriteTo, ReadBlock,
           Begin, InCut, Creating, IInv, Typed, Sound, Intact
<1>0. ThreadInv(t)  OBVIOUS
<1>1. /\ \A b \in Block : CutBlock(b) <=> InCut(t) /\ cur[t] = b
      /\ \A b \in Block : CutBlock(b)' <=> InCut(t)' /\ cur'[t] = b
  BY DEF OneThread, CutBlock
<1>2. torn' = "no"
  BY DEF AllocFull
<1>3. NoSharedBlocks'
  BY <1>1, <1>2 DEF AllocFull, NoSharedBlocks
<1>4. FreeBlocksAreClean'
  BY <1>2 DEF AllocFull, FreeBlocksAreClean
<1>5. FilesAreFound'
  BY <1>2 DEF AllocFull, FilesAreFound
<1>6. ThreadInv(t)'
  BY <1>0, <1>2 DEF AllocFull, TypeOK, ThreadInv
<1>7. QED  BY <1>2, <1>3, <1>4, <1>5, <1>6 DEF OneThread

\* The image stays sound when allocate_block stores the bitmap.
LEMMA AllocMarkKeeps ==
    ASSUME IInv, OneThread, torn = "no", NEW t \in Thread, AllocMark(t)
    PROVE  Sound'
<1> USE DiskAssumption DEF Block, Goto, diskVars, memVars, WriteTo, ReadBlock,
           Begin, InCut, Creating, IInv, Typed, Sound, Intact
<1>0. ThreadInv(t)  OBVIOUS
<1>1. /\ \A b \in Block : CutBlock(b) <=> InCut(t) /\ cur[t] = b
      /\ \A b \in Block : CutBlock(b)' <=> InCut(t)' /\ cur'[t] = b
  BY DEF OneThread, CutBlock
<1>2. torn' = "no"
  BY DEF AllocMark
<1>3. NoSharedBlocks'
  BY <1>0, <1>1, <1>2 DEF AllocMark, NoSharedBlocks, TypeOK, ThreadInv, MemIsDisk
<1>4. FreeBlocksAreClean'
  BY <1>0, <1>2 DEF AllocMark, FreeBlocksAreClean, TypeOK, ThreadInv, MemIsDisk
<1>5. FilesAreFound'
  BY <1>0, <1>2 DEF AllocMark, FilesAreFound, TypeOK, ThreadInv, MemIsDisk
<1>6. ThreadInv(t)'
  BY <1>0, <1>1, <1>2 DEF AllocMark, TypeOK, ThreadInv, MemIsDisk, Allocating, Fresh,
     Doomed, Wiped, OnlyCutLinksTo, NoSharedBlocks, FreeBlocksAreClean, FilesAreFound,
     find_file_head, IsHeadOf, Missing, FirstFree
<1>7. QED  BY <1>2, <1>3, <1>4, <1>5, <1>6 DEF OneThread

\* The image stays sound when allocate_block stores the cleared block.
LEMMA AllocClearKeeps ==
    ASSUME IInv, OneThread, torn = "no", NEW t \in Thread, AllocClear(t)
    PROVE  Sound'
<1> USE DiskAssumption DEF Block, Goto, diskVars, memVars, WriteTo, ReadBlock,
           Begin, InCut, Creating, IInv, Typed, Sound, Intact
<1>0. ThreadInv(t)  OBVIOUS
<1>1. /\ \A b \in Block : CutBlock(b) <=> InCut(t) /\ cur[t] = b
      /\ \A b \in Block : CutBlock(b)' <=> InCut(t)' /\ cur'[t] = b
  BY DEF OneThread, CutBlock
<1>2. torn' = "no"
  BY DEF AllocClear
<1>3. NoSharedBlocks'
  BY <1>1, <1>2 DEF AllocClear, NoSharedBlocks
<1>4. FreeBlocksAreClean'
  BY <1>2 DEF AllocClear, FreeBlocksAreClean
<1>5. FilesAreFound'
  BY <1>0, <1>2 DEF AllocClear, FilesAreFound, TypeOK, ThreadInv, Fresh, Allocating,
     MemIsDisk
<1>6. ThreadInv(t)'
  BY <1>0, <1>2 DEF AllocClear, TypeOK, ThreadInv, Allocating, MemIsDisk, Fresh
<1>7. QED  BY <1>2, <1>3, <1>4, <1>5, <1>6 DEF OneThread

\* The image stays sound when aofs_create_file stores the head block.
LEMMA CreateHeadKeeps ==
    ASSUME IInv, OneThread, torn = "no", NEW t \in Thread, CreateHead(t)
    PROVE  Sound'
<1> USE DiskAssumption DEF Block, Goto, diskVars, memVars, WriteTo, ReadBlock,
           Begin, InCut, Creating, IInv, Typed, Sound, Intact
<1>0. ThreadInv(t)  OBVIOUS
<1>1. /\ \A b \in Block : CutBlock(b) <=> InCut(t) /\ cur[t] = b
      /\ \A b \in Block : CutBlock(b)' <=> InCut(t)' /\ cur'[t] = b
  BY DEF OneThread, CutBlock
<1>2. torn' = "no"
  BY DEF CreateHead
<1>3. NoSharedBlocks'
  BY <1>0, <1>1, <1>2 DEF CreateHead, NoSharedBlocks, TypeOK, ThreadInv, Fresh, Allocating,
     MemIsDisk
<1>4. FreeBlocksAreClean'
  BY <1>0, <1>2 DEF CreateHead, FreeBlocksAreClean, TypeOK, ThreadInv, Fresh, Allocating,
     MemIsDisk
<1>5. FilesAreFound'
  BY <1>0, <1>2 DEF CreateHead, FilesAreFound, TypeOK, ThreadInv, Fresh, Allocating,
     MemIsDisk
<1>6. ThreadInv(t)'
  BY <1>0, <1>2 DEF CreateHead, TypeOK, ThreadInv, Allocating, MemIsDisk, Fresh
<1>7. QED  BY <1>2, <1>3, <1>4, <1>5, <1>6 DEF OneThread

\* The image stays sound when the new block is linked to the chain.
LEMMA LinkKeeps ==
    ASSUME IInv, OneThread, torn = "no", NEW t \in Thread, Link(t)
    PROVE  Sound'
<1> USE DiskAssumption DEF Block, Goto, diskVars, memVars, WriteTo, ReadBlock,
           Begin, InCut, Creating, IInv, Typed, Sound, Intact
<1>0. ThreadInv(t)  OBVIOUS
<1>1. /\ \A b \in Block : CutBlock(b) <=> InCut(t) /\ cur[t] = b
      /\ \A b \in Block : CutBlock(b)' <=> InCut(t)' /\ cur'[t] = b
  BY DEF OneThread, CutBlock
<1>2. torn' = "no"
  BY DEF Link
<1>3. NoSharedBlocks'
  BY <1>0, <1>1, <1>2 DEF Link, NoSharedBlocks, TypeOK, ThreadInv, Fresh, Allocating,
     MemIsDisk
<1>4. FreeBlocksAreClean'
  BY <1>0, <1>2 DEF Link, FreeBlocksAreClean, TypeOK, ThreadInv, Fresh, Allocating,
     MemIsDisk
<1>5. FilesAreFound'
  BY <1>0, <1>2 DEF Link, FilesAreFound, TypeOK, ThreadInv, Fresh, Allocating, MemIsDisk
<1>6. ThreadInv(t)'
  BY <1>0, <1>2 DEF Link, TypeOK, ThreadInv, Allocating, MemIsDisk, Fresh
<1>7. QED  BY <1>2, <1>3, <1>4, <1>5, <1>6 DEF OneThread

\* The image stays sound when the head block is written back.
LEMMA StoreKeeps ==
    ASSUME IInv, OneThread, torn = "no", NEW t \in Thread, Store(t)
    PROVE  Sound'
<1> USE DiskAssumption DEF Block, Goto, diskVars, memVars, WriteTo, ReadBlock,
           Begin, InCut, Creating, IInv, Typed, Sound, Intact
<1>0. ThreadInv(t)  OBVIOUS
<1>1. /\ \A b \in Block : CutBlock(b) <=> InCut(t) /\ cur[t] = b
      /\ \A b \in Block : CutBlock(b)' <=> InCut(t)' /\ cur'[t] = b
  BY DEF OneThread, CutBlock
<1>2. torn' = "no"
  BY DEF Store
<1>3. NoSharedBlocks'
  BY <1>0, <1>1, <1>2 DEF Store, NoSharedBlocks, TypeOK, ThreadInv, MemIsDisk
<1>4. FreeBlocksAreClean'
  BY <1>0, <1>2 DEF Store, FreeBlocksAreClean, TypeOK, ThreadInv, MemIsDisk
<1>5. FilesAreFound'
  BY <1>0, <1>2 DEF Store, FilesAreFound, TypeOK, ThreadInv, MemIsDisk
<1>6. ThreadInv(t)'
  BY <1>0, <1>2 DEF Store, TypeOK, ThreadInv, MemIsDisk
<1>7. QED  BY <1>2, <1>3, <1>4, <1>5, <1>6 DEF OneThread

\* The image stays sound when write goes on to the next block.
LEMMA WriteNextKeeps ==
    ASSUME IInv, OneThread, torn = "no", NEW t \in Thread, WriteNext(t)
    PROVE  Sound'
<1> USE DiskAssumption DEF Block, Goto, diskVars, memVars, WriteTo, ReadBlock,
           Begin, InCut, Creating, IInv, Typed, Sound, Intact
<1>0. ThreadInv(t)  OBVIOUS
<1>1. /\ \A b \in Block : CutBlock(b) <=> InCut(t) /\ cur[t] = b
      /\ \A b \in Block : CutBlock(b)' <=> InCut(t)' /\ cur'[t] = b
  BY DEF OneThread, CutBlock
<1>2. torn' = "no"
  BY DEF WriteNext
<1>3. NoSharedBlocks'
  BY <1>0, <1>1, <1>2 DEF WriteNext, NoSharedBlocks, TypeOK, ThreadInv, MemIsDisk
<1>4. FreeBlocksAreClean'
  BY <1>0, <1>2 DEF WriteNext, FreeBlocksAreClean, TypeOK, ThreadInv, MemIsDisk
<1>5. FilesAreFound'
  BY <1>0, <1>2 DEF WriteNext, FilesAreFound, TypeOK, ThreadInv, MemIsDisk
<1>6. ThreadInv(t)'
  BY <1>0, <1>1, <1>2 DEF WriteNext, TypeOK, ThreadInv, MemIsDisk, NoSharedBlocks
<1>7. QED  BY <1>2, <1>3, <1>4, <1>5, <1>6 DEF OneThread

\* The image stays sound when write comes to the end of the chain.
LEMMA WriteExtendKeeps ==
    ASSUME IInv, OneThread, torn = "no", NEW t \in Thread, WriteExtend(t)
    PROVE  Sound'
<1> USE DiskAssumption DEF Block, Goto, diskVars, memVars, WriteTo, ReadBlock,
           Begin, InCut, Creating, IInv, Typed, Sound, Intact
<1>0. ThreadInv(t)  OBVIOUS
<1>1. /\ \A b \in Block : CutBlock(b) <=> InCut(t) /\ cur[t] = b
      /\ \A b \in Block : CutBlock(b)' <=> InCut(t)' /\ cur'[t] = b
  BY DEF OneThread, CutBlock
<1>2. torn' = "no"
  BY DEF WriteExtend
<1>3. NoSharedBlocks'
  BY <1>1, <1>2 DEF WriteExtend, NoSharedBlocks
<1>4. FreeBlocksAreClean'
  BY <1>2 DEF WriteExtend, FreeBlocksAreClean
<1>5. FilesAreFound'
  BY <1>2 DEF WriteExtend, FilesAreFound
<1>6. ThreadInv(t)'
  BY <1>0, <1>2 DEF WriteExtend, TypeOK, ThreadInv, Allocating, MemIsDisk
<1>7. QED  BY <1>2, <1>3, <1>4, <1>5, <1>6 DEF OneThread

\* The image stays sound when write stores its last block.
LEMMA WriteLastKeeps ==
    ASSUME IInv, OneThread, torn = "no", NEW t \in Thread, WriteLast(t)
    PROVE  Sound'
<1> USE DiskAssumption DEF Block, Goto, diskVars, memVars, WriteTo, ReadBlock,
           Begin, InCut, Creating, IInv, Typed, Sound, Intact
<1>0. ThreadInv(t)  OBVIOUS
<1>1. /\ \A b \in Block : CutBlock(b) <=> InCut(t) /\ cur[t] = b
      /\ \A b \in Block : CutBlock(b)' <=> InCut(t)' /\ cur'[t] = b
  BY DEF OneThread, CutBlock
<1>2. torn' = "no"
  BY DEF WriteLast
<1>3. NoSharedBlocks'
  BY <1>0, <1>1, <1>2 DEF WriteLast, NoSharedBlocks, TypeOK, ThreadInv, MemIsDisk
<1>4. FreeBlocksAreClean'
  BY <1>0, <1>2 DEF WriteLast, FreeBlocksAreClean, TypeOK, ThreadInv, MemIsDisk
<1>5. FilesAreFound'
  BY <1>0, <1>2 DEF WriteLast, FilesAreFound, TypeOK, ThreadInv, MemIsDisk
<1>6. ThreadInv(t)'
  BY <1>0, <1>2 DEF WriteLast, TypeOK, ThreadInv
<1>7. QED  BY <1>2, <1>3, <1>4, <1>5, <1>6 DEF OneThread

\* The image stays sound when truncate walks the chain.
LEMMA WalkNextKeeps ==
    ASSUME IInv, OneThread, torn = "no", NEW t \in Thread, WalkNext(t)
    PROVE  Sound'
<1> USE DiskAssumption DEF Block, Goto, diskVars, memVars, WriteTo, ReadBlock,
           Begin, InCut, Creating, IInv, Typed, Sound, Intact
<1>0. ThreadInv(t)  OBVIOUS
<1>1. /\ \A b \in Block : CutBlock(b) <=> InCut(t) /\ cur[t] = b
      /\ \A b \in Block : CutBlock(b)' <=> InCut(t)' /\ cur'[t] = b
  BY DEF OneThread, CutBlock
<1>2. torn' = "no"
  BY DEF WalkNext
<1>3. NoSharedBlocks'
  BY <1>1, <1>2 DEF WalkNext, NoSharedBlocks
<1>4. FreeBlocksAreClean'
  BY <1>2 DEF WalkNext, FreeBlocksAreClean
<1>5. FilesAreFound'
  BY <1>2 DEF WalkNext, FilesAreFound
<1>6. ThreadInv(t)'
  BY <1>0, <1>1, <1>2 DEF WalkNext, TypeOK, ThreadInv, MemIsDisk, NoSharedBlocks
<1>7. QED  BY <1>2, <1>3, <1>4, <1>5, <1>6 DEF OneThread

\* The image stays sound when truncate comes to the last block.
LEMMA WalkGrowKeeps ==
    ASSUME IInv, OneThread, torn = "no", NEW t \in Thread, WalkGrow(t)
    PROVE  Sound'
<1> USE DiskAssumption DEF Block, Goto, diskVars, memVars, WriteTo, ReadBlock,
           Begin, InCut, Creating, IInv, Typed, Sound, Intact
<1>0. ThreadInv(t)  OBVIOUS
<1>1. /\ \A b \in Block : CutBlock(b) <=> InCut(t) /\ cur[t] = b
      /\ \A b \in Block : CutBlock(b)' <=> InCut(t)' /\ cur'[t] = b
  BY DEF OneThread, CutBlock
<1>2. torn' = "no"
  BY DEF WalkGrow
<1>3. NoSharedBlocks'
  BY <1>1, <1>2 DEF WalkGrow, NoSharedBlocks
<1>4. FreeBlocksAreClean'
  BY <1>2 DEF WalkGrow, FreeBlocksAreClean
<1>5. FilesAreFound'
  BY <1>2 DEF WalkGrow, FilesAreFound
<1>6. ThreadInv(t)'
  BY <1>0, <1>2 DEF WalkGrow, TypeOK, ThreadInv, Allocating, MemIsDisk
<1>7. QED  BY <1>2, <1>3, <1>4, <1>5, <1>6 DEF OneThread

\* The image stays sound when truncate comes to the block to keep.
LEMMA WalkCutKeeps ==
    ASSUME IInv, OneThread, torn = "no", NEW t \in Thread, WalkCut(t)
    PROVE  Sound'
<1> USE DiskAssumption DEF Block, Goto, diskVars, memVars, WriteTo, ReadBlock,
           Begin, InCut, Creating, IInv, Typed, Sound, Intact
<1>0. ThreadInv(t)  OBVIOUS
<1>1. /\ \A b \in Block : CutBlock(b) <=> InCut(t) /\ cur[t] = b
      /\ \A b \in Block : CutBlock(b)' <=> InCut(t)' /\ cur'[t] = b
  BY DEF OneThread, CutBlock
<1>2. torn' = "no"
  BY DEF WalkCut
<1>3. NoSharedBlocks'
  BY <1>1, <1>2 DEF WalkCut, NoSharedBlocks
<1>4. FreeBlocksAreClean'
  BY <1>2 DEF WalkCut, FreeBlocksAreClean
<1>5. FilesAreFound'
  BY <1>2 DEF WalkCut, FilesAreFound
<1>6. ThreadInv(t)'
  BY <1>0, <1>1, <1>2 DEF WalkCut, TypeOK, ThreadInv, MemIsDisk, NoSharedBlocks, Doomed,
     OnlyCutLinksTo
<1>7. QED  BY <1>2, <1>3, <1>4, <1>5, <1>6 DEF OneThread

\* The image stays sound when truncate cuts the link.
LEMMA CutKeeps ==
    ASSUME IInv, OneThread, torn = "no", NEW t \in Thread, Cut(t)
    PROVE  Sound'
<1> USE DiskAssumption DEF Block, Goto, diskVars, memVars, WriteTo, ReadBlock,
           Begin, InCut, Creating, IInv, Typed, Sound, Intact
<1>0. ThreadInv(t)  OBVIOUS
<1>1. /\ \A b \in Block : CutBlock(b) <=> InCut(t) /\ cur[t] = b
      /\ \A b \in Block : CutBlock(b)' <=> InCut(t)' /\ cur'[t] = b
  BY DEF OneThread, CutBlock
<1>2. torn' = "no"
  BY DEF Cut
<1>3. NoSharedBlocks'
  BY <1>0, <1>1, <1>2 DEF Cut, NoSharedBlocks, TypeOK, ThreadInv, MemIsDisk
<1>4. FreeBlocksAreClean'
  BY <1>0, <1>2 DEF Cut, FreeBlocksAreClean, TypeOK, ThreadInv, MemIsDisk
<1>5. FilesAreFound'
  BY <1>0, <1>2 DEF Cut, FilesAreFound, TypeOK, ThreadInv, MemIsDisk
<1>6. ThreadInv(t)'
  BY <1>0, <1>2 DEF Cut, TypeOK, ThreadInv
<1>7. QED  BY <1>2, <1>3, <1>4, <1>5, <1>6 DEF OneThread

\* The image stays sound when truncate clears the block it added.
LEMMA GrownKeeps ==
    ASSUME IInv, OneThread, torn = "no", NEW t \in Thread, Grown(t)
    PROVE  Sound'
<1> USE DiskAssumption DEF Block, Goto, diskVars, memVars, WriteTo, ReadBlock,
           Begin, InCut, Creating, IInv, Typed, Sound, Intact
<1>0. ThreadInv(t)  OBVIOUS
<1>1. /\ \A b \in Block : CutBlock(b) <=> InCut(t) /\ cur[t] = b
      /\ \A b \in Block : CutBlock(b)' <=> InCut(t)' /\ cur'[t] = b
  BY DEF OneThread, CutBlock
<1>2. torn' = "no"
  BY DEF Grown
<1>3. NoSharedBlocks'
  BY <1>1, <1>2 DEF Grown, NoSharedBlocks
<1>4. FreeBlocksAreClean'
  BY <1>2 DEF Grown, FreeBlocksAreClean
<1>5. FilesAreFound'
  BY <1>0, <1>2 DEF Grown, FilesAreFound, TypeOK, ThreadInv, MemIsDisk
<1>6. ThreadInv(t)'
  BY <1>0, <1>2 DEF Grown, TypeOK, ThreadInv, Allocating, MemIsDisk
<1>7. QED  BY <1>2, <1>3, <1>4, <1>5, <1>6 DEF OneThread

\* The image stays sound when deallocate_block reads.
LEMMA DeallocReadKeeps ==
    ASSUME IInv, OneThread, torn = "no", NEW t \in Thread, DeallocRead(t)
    PROVE  Sound'
<1> USE DiskAssumption DEF Block, Goto, diskVars, memVars, WriteTo, ReadBlock,
           Begin, InCut, Creating, IInv, Typed, Sound, Intact
<1>0. ThreadInv(t)  OBVIOUS
<1>1. /\ \A b \in Block : CutBlock(b) <=> InCut(t) /\ cur[t] = b
      /\ \A b \in Block : CutBlock(b)' <=> InCut(t)' /\ cur'[t] = b
  BY DEF OneThread, CutBlock
<1>2. torn' = "no"
  BY DEF DeallocRead
<1>3. NoSharedBlocks'
  BY <1>1, <1>2 DEF DeallocRead, NoSharedBlocks
<1>4. FreeBlocksAreClean'
  BY <1>2 DEF DeallocRead, FreeBlocksAreClean
<1>5. FilesAreFound'
  BY <1>2 DEF DeallocRead, FilesAreFound
<1>6. ThreadInv(t)'
  BY <1>0, <1>2 DEF DeallocRead, TypeOK, ThreadInv, Doomed, OnlyCutLinksTo
<1>7. QED  BY <1>2, <1>3, <1>4, <1>5, <1>6 DEF OneThread

\* The image stays sound when deallocate_block wipes the block.
LEMMA DeallocWipeKeeps ==
    ASSUME IInv, OneThread, torn = "no", NEW t \in Thread, DeallocWipe(t)
    PROVE  Sound'
<1> USE DiskAssumption DEF Block, Goto, diskVars, memVars, WriteTo, ReadBlock,
           Begin, InCut, Creating, IInv, Typed, Sound, Intact
<1>0. ThreadInv(t)  OBVIOUS
<1>1. /\ \A b \in Block : CutBlock(b) <=> InCut(t) /\ cur[t] = b
      /\ \A b \in Block : CutBlock(b)' <=> InCut(t)' /\ cur'[t] = b
  BY DEF OneThread, CutBlock
<1>2. torn' = "no"
  BY DEF DeallocWipe
<1>3. NoSharedBlocks'
  BY <1>0, <1>1, <1>2 DEF DeallocWipe, NoSharedBlocks, TypeOK, ThreadInv, Doomed,
     OnlyCutLinksTo
<1>4. FreeBlocksAreClean'
  BY <1>2 DEF DeallocWipe, FreeBlocksAreClean
<1>5. FilesAreFound'
  BY <1>0, <1>2 DEF DeallocWipe, FilesAreFound, TypeOK, ThreadInv, Doomed
<1>6. ThreadInv(t)'
  BY <1>0, <1>1, <1>2 DEF DeallocWipe, TypeOK, ThreadInv, Wiped, Doomed, OnlyCutLinksTo,
     NoSharedBlocks
<1>7. QED  BY <1>2, <1>3, <1>4, <1>5, <1>6 DEF OneThread

\* The image stays sound when deallocate_block stores the bitmap.
LEMMA DeallocUnmarkKeeps ==
    ASSUME IInv, OneThread, torn = "no", NEW t \in Thread, DeallocUnmark(t)
    PROVE  Sound'
<1> USE DiskAssumption DEF Block, Goto, diskVars, memVars, WriteTo, ReadBlock,
           Begin, InCut, Creating, IInv, Typed, Sound, Intact
<1>0. ThreadInv(t)  OBVIOUS
<1>1. /\ \A b \in Block : CutBlock(b) <=> InCut(t) /\ cur[t] = b
      /\ \A b \in Block : CutBlock(b)' <=> InCut(t)' /\ cur'[t] = b
  BY DEF OneThread, CutBlock
<1>2. torn' = "no"
  BY DEF DeallocUnmark
<1>3. NoSharedBlocks'
  BY <1>0, <1>1, <1>2 DEF DeallocUnmark, NoSharedBlocks, TypeOK, ThreadInv, Wiped,
     OnlyCutLinksTo
<1>4. FreeBlocksAreClean'
  BY <1>0, <1>2 DEF DeallocUnmark, FreeBlocksAreClean, TypeOK, ThreadInv, Wiped
<1>5. FilesAreFound'
  BY <1>0, <1>2 DEF DeallocUnmark, FilesAreFound, TypeOK, ThreadInv, Wiped
<1>6. ThreadInv(t)'
  BY <1>0, <1>2 DEF DeallocUnmark, TypeOK, ThreadInv, Wiped, Doomed, OnlyCutLinksTo
<1>7. QED  BY <1>2, <1>3, <1>4, <1>5, <1>6 DEF OneThread

\* A crash: the threads are idle and forget what they had read; the disk is as it was.
LEMMA CrashKeeps ==
    ASSUME IInv, OneThread, Crash
    PROVE  IInv'
<1> USE DiskAssumption DEF IInv, Typed, Sound, Intact, diskVars
<1>1. \A t \in Thread : pc'[t] = "idle"  BY DEF Crash
<1>2. Typed'  BY CrashTyped
<1>3. \A t \in Thread : ThreadInv(t)'
  BY <1>1 DEF ThreadInv, InCut
<1>4. NoSharedBlocks'
  <2>1. CASE torn = "no"
    <3>1. CASE LinkToFree
      BY <2>1, <3>1 DEF Crash, NoSharedBlocks
    <3>2. CASE ~LinkToFree
      BY <2>1, <3>2 DEF Crash, NoSharedBlocks, LinkToFree
    <3>3. QED  BY <3>1, <3>2
  <2>2. CASE torn # "no"
    BY <2>2 DEF Crash, NoSharedBlocks, TypeOK, CutBlock, InCut
  <2>3. QED  BY <2>1, <2>2
<1>5. FreeBlocksAreClean' /\ FilesAreFound'
  BY DEF Crash, FreeBlocksAreClean, FilesAreFound
<1>6. QED  BY <1>1, <1>2, <1>3, <1>4, <1>5

\* A step that changes no variable (getattr and the other reading handlers).
LEMMA StutterKeeps == ASSUME IInv, UNCHANGED vars PROVE IInv'
<1> USE DEF vars, IInv, Typed, Sound, Intact
<1>1. Typed'  BY StutterTyped
<1>2. NoSharedBlocks' /\ FreeBlocksAreClean' /\ FilesAreFound'
  BY DEF NoSharedBlocks, FreeBlocksAreClean, FilesAreFound, CutBlock, InCut
<1>3. ASSUME NEW t \in Thread, Intact PROVE ThreadInv(t)'
  <2>1. ThreadInv(t)  BY <1>3
  <2>2. QED  BY <2>1 DEF ThreadInv, Allocating, MemIsDisk, Creating, Fresh, Doomed, Wiped,
                        OnlyCutLinksTo, InCut
<1>4. QED  BY <1>1, <1>2, <1>3

\* The freshly formatted image, with no request under way.
LEMMA InitHolds == Init => IInv
<1> SUFFICES ASSUME Init PROVE IInv  OBVIOUS
<1> USE DiskAssumption DEF Init, Block
<1>1. TypeOK
  <2>1. next \in [Block -> Block \cup {-1}] /\ head \in [Block -> Name \cup {NoName}]
        /\ depth \in [Block -> Nat] /\ bitmap \in SUBSET Block /\ files \in SUBSET Name
    OBVIOUS
  <2>2. pc \in [Thread -> Pc] /\ op \in [Thread -> Op]  BY DEF Pc, Op
  <2>3. QED  BY <2>1, <2>2 DEF TypeOK
<1>2. NoSharedBlocks /\ FreeBlocksAreClean /\ FilesAreFound
  BY DEF NoSharedBlocks, FreeBlocksAreClean, FilesAreFound
<1>3. ASSUME NEW t \in Thread PROVE ThreadInv(t) /\ Located(t)
  BY DEF ThreadInv, Located, InCut
<1>4. QED  BY <1>1, <1>2, <1>3 DEF IInv, Typed, Sound

\* Every step of the specification preserves the invariant, one lemma per action.
LEMMA NextKeeps == ASSUME IInv, OneThread, [Next]_vars PROVE IInv'
<1> USE DEF IInv
<1>1. ASSUME torn' = "used" PROVE Sound'
  BY <1>1 DEF Sound, Intact, NoSharedBlocks, FreeBlocksAreClean, FilesAreFound
<1>2. torn \in {"no", "torn", "used"}  BY DEF Typed, TypeOK
<1>3. ASSUME NEW t \in Thread, Handler(t) PROVE IInv'
  <2>1. Typed' /\ torn' = IF torn = "no" THEN "no" ELSE "used"  BY <1>3, HandlerTyped
  <2>2. CASE torn # "no"  BY <2>1, <2>2, <1>1
  <2>3. CASE torn = "no"
    <3>1. PICK name \in Name :
              \/ aofs_create(t, name) \/ aofs_write_missing(t, name) \/ aofs_write(t, name)
              \/ aofs_touch(t, name) \/ aofs_truncate(t, name) \/ aofs_unlink(t, name)
      BY <1>3 DEF Handler
    <3>2. QED
      BY <2>1, <2>3, <3>1, aofs_createKeeps, aofs_write_missingKeeps, aofs_writeKeeps,
                  aofs_touchKeeps, aofs_truncateKeeps, aofs_unlinkKeeps
  <2>4. QED  BY <2>2, <2>3
<1>4. ASSUME NEW t \in Thread, Step(t) PROVE IInv'
  <2>1. Typed' /\ torn' = torn  BY <1>4, StepTyped
  <2>2. CASE torn = "used"  BY <2>1, <2>2, <1>1
  <2>3. CASE torn = "torn"
    <3>1. pc[t] = "idle"  BY <2>3 DEF Sound
    <3>2. QED
      BY <1>4, <3>1 DEF Step, AllocRead, AllocFull, AllocMark, AllocClear, CreateHead, Link,
         Store, WriteNext, WriteExtend, WriteLast, WalkNext, WalkGrow, WalkCut, Cut, Grown,
         DeallocRead, DeallocWipe, DeallocUnmark
  <2>4. CASE torn = "no"
    BY <1>4, <2>1, <2>4, AllocReadKeeps, AllocFullKeeps, AllocMarkKeeps, AllocClearKeeps,
       CreateHeadKeeps, LinkKeeps, StoreKeeps, WriteNextKeeps, WriteExtendKeeps,
       WriteLastKeeps, WalkNextKeeps, WalkGrowKeeps, WalkCutKeeps, CutKeeps, GrownKeeps,
       DeallocReadKeeps, DeallocWipeKeeps, DeallocUnmarkKeeps DEF Step
  <2>5. QED  BY <1>2, <2>2, <2>3, <2>4
<1>5. QED  BY <1>3, <1>4, CrashKeeps, StutterKeeps DEF Next, aofs_getattr

\* A single thread (FUSE with -s) keeps the inductive invariant: its copies agree with
\* the disk wherever a handler relies on them, from mkfs on, through every request and
\* every crash, until a handler starts on an image torn by a crash in a truncation.
THEOREM InvariantHolds == ASSUME OneThread PROVE Spec => []IInv
<1>1. Init => IInv  BY InitHolds
<1>2. IInv /\ [Next]_vars => IInv'  BY NextKeeps
<1>3. QED  BY <1>1, <1>2, PTL DEF Spec

\* With any number of threads, on a torn image too, every link and every cached copy of
\* a block stays in its type, and a handler reads and writes no block that is not there.
THEOREM TypesStay == Spec => []TypeOK
<1>1. Init => Typed  BY InitHolds DEF IInv
<1>2. ASSUME Typed, [Next]_vars PROVE Typed'
  BY <1>2, HandlerTyped, StepTyped, CrashTyped, StutterTyped DEF Next, aofs_getattr
<1>3. Typed => TypeOK  BY DEF Typed
<1>4. QED  BY <1>1, <1>2, <1>3, PTL DEF Spec

\* With a single thread (FUSE with -s) no block is ever on two chains or reached twice, and
\* links lead to allocated blocks that are not heads, but for the link that a shrinking
\* truncation is about to cut: at every read and write of every handler and after every
\* crash.  A crash at that place (aofs.c:524) leaves the link behind, and once a handler
\* has started on such an image (torn = "used") nothing is claimed.
THEOREM ChainsStayDisjoint == ASSUME OneThread PROVE Spec => []NoSharedBlocks
<1>1. IInv => NoSharedBlocks  BY DEF IInv, Sound
<1>2. Spec => []IInv  BY InvariantHolds
<1>3. QED  BY <1>1, <1>2, PTL

\* With a single thread (FUSE with -s) no free block keeps an old name or link, so a crash
\* between marking a block and clearing it brings no deleted file back; until a handler
\* has started on an image torn by a crash in a truncation.
THEOREM FreeBlocksStayClean == ASSUME OneThread PROVE Spec => []FreeBlocksAreClean
<1>1. IInv => FreeBlocksAreClean  BY DEF IInv, Sound
<1>2. Spec => []IInv  BY InvariantHolds
<1>3. QED  BY <1>1, <1>2, PTL

\* With a single thread (FUSE with -s) every file created and not unlinked is found, under
\* one head, through the requests on other files and through every crash, those inside a
\* truncation (aofs.c:524) included, until a handler has started on an image that such a
\* crash has left with a link to a free block.
THEOREM FilesStayFound == ASSUME OneThread PROVE Spec => []FilesAreFound
<1>1. IInv => FilesAreFound  BY DEF IInv, Sound
<1>2. Spec => []IInv  BY InvariantHolds
<1>3. QED  BY <1>1, <1>2, PTL
=============================================================================
