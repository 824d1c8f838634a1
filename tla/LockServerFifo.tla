--------------------------- MODULE LockServerFifo ---------------------------
(***************************************************************************)
(* The lock server as an implementation of FifoLock.  As many entries as   *)
(* there are holders lead the queue; the others wait.                      *)
(***************************************************************************)
EXTENDS LockServer

Waiting == SubSeq(queue, Holders + 1, Len(queue))

Fifo == INSTANCE FifoLock WITH holders <- Held, waiting <- Waiting

\* The server grants a lock as FifoLock does: exclusively, in order of arrival
\* except among requests that can share the lock.
ImplementsFifoLock == Fifo!Spec
=============================================================================
