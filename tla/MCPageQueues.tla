---------------------------- MODULE MCPageQueues ----------------------------
EXTENDS PageQueues, TLC

CONSTANTS p1, p2, p3

\* Two pages that are mapped and written, one page that is also held or wired, and a
\* queue of three pages, so long that a scan goes past a page that it cannot take.
MCWorkload ==
    [allocates : {{p1, p2}}, maps : {{p1, p2}}, pins : {{}}, vnode : BOOLEAN]
        \cup UNION {[allocates : {{p1, p2}}, maps : {{p}}, pins : {{p}}, vnode : BOOLEAN] : p \in {p1, p2}}
        \cup [allocates : {{p1, p2, p3}}, maps : {{}}, pins : {{p3}}, vnode : {FALSE}]

\* Every workload is the same, or another one of the set, with p1 and p2 swapped.
MCSymmetry == Permutations({p1, p2})
=============================================================================
