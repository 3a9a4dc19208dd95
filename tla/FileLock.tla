------------------------------- MODULE FileLock -------------------------------
(***************************************************************************)
(* execution/cache.py, `locked`: an exclusive flock on a lock file that is *)
(* opened for the `with` block and never deleted.  The kernel drops the    *)
(* lock when the stream is closed, so leaving the block and the death of   *)
(* the process both free it; flock itself blocks until the lock is free.   *)
(***************************************************************************)
CONSTANTS
    Procs,      \* the processes that open the lock file
    NoProc      \* the value of `holder` while nobody holds the lock, no process

VARIABLE holder

Free == holder = NoProc

Acquire(p) ==
    /\ Free
    /\ holder' = p

\* The `with` block ends, normally or by an exception.
Release(p) ==
    /\ holder = p
    /\ holder' = NoProc

\* The process dies: the lock is dropped if, and only if, it was the holder.
Die(p) == holder' = IF holder = p THEN NoProc ELSE holder
===============================================================================
