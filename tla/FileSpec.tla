------------------------------ MODULE FileSpec ------------------------------
(***************************************************************************)
(* What AOFS promises of its files, without blocks: a file is a sequence   *)
(* of bytes under a name.  A write cuts the file off after the last byte   *)
(* it writes (aofs.c:312: the new size is the bytes written plus the       *)
(* starting offset) and an offset past the end is moved to the end.  An    *)
(* operation may fail and change nothing.                                  *)
(***************************************************************************)
EXTENDS Integers, Sequences, SequencesExt

CONSTANTS Name, Byte, MaxLen, MaxSize

VARIABLE files   \* from the names that exist to their bytes

Bytes(fs, name) == IF name \in DOMAIN fs THEN fs[name] ELSE <<>>

Put(fs, name, bytes) == [f \in DOMAIN fs \cup {name} |-> IF f = name THEN bytes ELSE fs[f]]

\* The files after a write: what lies before the offset, then the bytes written.
Written(fs, name, buf, offset) ==
    LET old == Bytes(fs, name)
        cut == IF offset > Len(old) THEN Len(old) ELSE offset
    IN  Put(fs, name, SubSeq(old, 1, cut) \o buf)

Removed(fs, name) == [f \in DOMAIN fs \ {name} |-> fs[f]]

\* gs is fs after name was truncated to size.  A shorter file keeps its first
\* bytes; a longer one keeps all of them, and which bytes appear behind them,
\* up to the new size, is left open.
Truncated(fs, gs, name, size) ==
    IF size < Len(fs[name]) THEN gs = Put(fs, name, SubSeq(fs[name], 1, size))
    ELSE /\ DOMAIN gs = DOMAIN fs /\ gs = Put(fs, name, gs[name])
         /\ Len(gs[name]) <= size /\ IsPrefix(fs[name], gs[name])

Create(name) == name \notin DOMAIN files /\ files' = Put(files, name, <<>>)

Write(name, buf, offset) == files' = Written(files, name, buf, offset)

Unlink(name) == files' = Removed(files, name)

Truncate(name, size) == name \in DOMAIN files /\ Truncated(files, files', name, size)

Init == files = <<>>

Next ==
    \E name \in Name :
        \/ Create(name)
        \/ \E buf \in UNION {[1 .. k -> Byte] : k \in 1 .. MaxLen}, offset \in 0 .. MaxSize :
              Write(name, buf, offset)
        \/ Unlink(name)
        \/ \E size \in 0 .. MaxSize : Truncate(name, size)

Spec == Init /\ [][Next]_files
=============================================================================
