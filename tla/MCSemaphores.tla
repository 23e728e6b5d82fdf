---------------------------- MODULE MCSemaphores ----------------------------
EXTENDS Semaphores, TLC

CONSTANTS c1, c2, t1, t2

\* Two processes of one thread, which ask for the base priority.
OneEach  == t1 :> c1 @@ t2 :> c2
BaseOnly == [t \in Thread |-> {0}]

\* Two threads of a process; t1 asks for priority 1, and so for 1 and 0.
Siblings == [t \in Thread |-> c1]
HighLow  == t1 :> {1} @@ t2 :> {0}
============================================================================
