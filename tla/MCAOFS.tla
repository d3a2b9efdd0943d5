------------------------------- MODULE MCAOFS -------------------------------
(* Model-checking instance of AOFS, and the file contents it implements.   *)
EXTENDS AOFS

\* The meaning of the image, kept beside it so that TLC evaluates it once.
VARIABLE files

FS == INSTANCE FileSpec WITH files <- files

\* Names only ever are compared.
NameSymmetry == Permutations(Name)

MCInit == Init /\ files = FilesOf(disk)
MCNext == Next /\ files' = FilesOf(disk')
MCSpec == MCInit /\ [][MCNext]_<<disk, files>>

\* Every behaviour of the image is one of FileSpec's: each handler acts on the
\* bytes of one file as a file system would, and on no other file's, through
\* block chains, reused blocks and leftover bytes beyond the size.
ImplementsFileSpec == FS!Spec

\* A write leaves in the file exactly what was before its offset and then the
\* bytes of its own buffer, and touches no other file, for every buffer and
\* offset in every image: also where the chain is longer than the size, where
\* the offset falls on a block boundary, and where blocks must be added
\* (aofs_write_file).
WriteStoresBuffer ==
    ~disk.astray => \A name \in Name, buf \in Buffer, offset \in 0 .. MaxSize :
        LET d == aofs_write_file(disk, name, buf, offset)
        IN  d.astray \/ FilesOf(d) = FS!Written(files, name, buf, offset)

\* A truncation cuts the file to its first bytes or keeps all of them, and
\* touches no other file, also when it runs out of space half way
\* (aofs_truncate_file).
TruncateKeepsPrefix ==
    ~disk.astray => \A name \in DOMAIN files, size \in 0 .. MaxSize :
        FS!Truncated(files, FilesOf(aofs_truncate_file(disk, name, size)), name, size)
=============================================================================
