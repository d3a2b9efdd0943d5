------------------------------- MODULE MCULE -------------------------------
(* An instance of ULE: the threads may run on all CPUs but the first, which *)
(* idles, handles interrupts and balances the other two.                    *)
EXTENDS ULE

MCcpuset == [t \in Thread |-> CPU \ {Min(CPU)}]
=============================================================================
