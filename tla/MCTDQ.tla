------------------------------ MODULE MCTDQ ------------------------------
(* TDQ with values of nice that give a thread no ticket or two.           *)
EXTENDS TDQ

MCNice == {-1, 1}

\* Threads of the same kind are interchangeable.
Sym == Permutations(Root) \cup Permutations(Thread \ Root)

\* No timeshare thread starves (sched_clock, tdq_runq_add): where every thread is root, what
\* holds of one thread holds of all.
TimeshareThreadsRun == TimeshareThreadRuns(CHOOSE td \in Thread : TRUE)
=============================================================================
