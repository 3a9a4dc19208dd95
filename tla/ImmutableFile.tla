----------------------------- MODULE ImmutableFile ----------------------------
(***************************************************************************)
(* execution/cache.py, `write_json_immutable`, on one path, with the code  *)
(* that reads such a path without the lock.  Launch plans, lockfiles and   *)
(* verification receipts are all written this way: under the path's lock   *)
(* an existing file is compared, otherwise a temporary file is written,    *)
(* fsynced and renamed to the path.  rename replaces an existing file      *)
(* without a word, so that nothing but the order of these steps keeps the  *)
(* file immutable.                                                         *)
(*                                                                         *)
(* Processes may be killed and the machine may lose power at any step.  A  *)
(* power cut spares what was fsynced; the directory is never fsynced, so a *)
(* new name may be lost, and the bytes of a file that was not fsynced may  *)
(* be lost even though its new name survives.                              *)
(***************************************************************************)
EXTENDS Naturals

CONSTANTS
    Procs,
    Values,         \* values with different canonical JSON
    Garbage,        \* content json.loads refuses: half a file, another format
    NoValue,        \* no file
    NoProc,
    MaxCalls,       \* bound on calls
    MaxFaults       \* bound on kills and power cuts

ASSUME FileAssumption ==
    /\ Garbage \notin Values /\ NoValue \notin Values /\ Garbage # NoValue
    /\ NoProc \notin Procs
    /\ MaxCalls \in Nat /\ MaxFaults \in Nat

VARIABLES
    lock,       \* the holder of .<name>.lock
    file,       \* what the path holds
    durable,    \* are the bytes of `file`, and is its name, safe on disk
    temp,       \* per process: what its mkstemp file holds
    synced,     \* per process: was its temporary file fsynced
    pc,
    value,      \* per process: the value it writes
    holds,      \* per process: what its successful call told it about the file
    calls, faults

vars == <<lock, file, durable, temp, synced, pc, value, holds, calls, faults>>

Lock == INSTANCE FileLock WITH holder <- lock

Contents == Values \cup {Garbage, NoValue}
Locked   == {"check", "write", "sync", "rename", "unlink", "leave"}
Ended    == {"idle", "done", "failed", "killed"}
Labels   == Locked \cup Ended \cup {"lock"}

Goto(p, label) == pc' = [pc EXCEPT ![p] = label]

-------------------------------------------------------------------------------
\* A lockfile path may be given that already exists, with any content.
Init ==
    /\ lock = NoProc
    /\ file \in Contents
    /\ durable = [bytes |-> TRUE, name |-> TRUE]
    /\ temp = [p \in Procs |-> NoValue]
    /\ synced = [p \in Procs |-> FALSE]
    /\ pc = [p \in Procs |-> "idle"]
    /\ value = [p \in Procs |-> NoValue]
    /\ holds = [p \in Procs |-> NoValue]
    /\ calls = 0
    /\ faults = 0

Call ==
    /\ calls < MaxCalls
    /\ calls' = calls + 1

\* Mutant of Start: a value canonical() would refuse (NaN) is accepted.
StartUnchecked(p) ==
    /\ pc[p] \in Ended
    /\ Call
    /\ \E v \in Values \cup {Garbage} : value' = [value EXCEPT ![p] = v]
    /\ holds' = [holds EXCEPT ![p] = NoValue]
    /\ Goto(p, "lock")
    /\ UNCHANGED <<lock, file, durable, temp, synced, faults>>

Start(p) ==
    /\ pc[p] \in Ended
    /\ Call
    /\ \E v \in Values : value' = [value EXCEPT ![p] = v]
    /\ holds' = [holds EXCEPT ![p] = NoValue]
    /\ Goto(p, "lock")
    /\ UNCHANGED <<lock, file, durable, temp, synced, faults>>

\* A receipt, a plan or a lockfile is read, without the lock.
Read(p) ==
    /\ pc[p] \in Ended
    /\ Call
    /\ IF file \in Values
       THEN holds' = [holds EXCEPT ![p] = file] /\ Goto(p, "done")
       ELSE holds' = [holds EXCEPT ![p] = NoValue] /\ Goto(p, "failed")
    /\ UNCHANGED <<lock, file, durable, temp, synced, value, faults>>

\* Mutant of AcquireLock: the lock is on a file per process, not per path.
AcquireOwnLock(p) ==
    /\ pc[p] = "lock"
    /\ lock' = p
    /\ Goto(p, "check")
    /\ UNCHANGED <<file, durable, temp, synced, value, holds, calls, faults>>

AcquireLock(p) ==
    /\ pc[p] = "lock"
    /\ Lock!Acquire(p)
    /\ Goto(p, "check")
    /\ UNCHANGED <<file, durable, temp, synced, value, holds, calls, faults>>

\* The path exists: an equal value is a success, another one or one that does
\* not parse is an error.
Compare(p) ==
    /\ pc[p] = "check"
    /\ file # NoValue
    /\ holds' = [holds EXCEPT ![p] = IF file = value[p] THEN file ELSE NoValue]
    /\ Goto(p, "leave")
    /\ UNCHANGED <<lock, file, durable, temp, synced, value, calls, faults>>

\* mkstemp: an empty file, which does not parse.
MakeTemp(p) ==
    /\ pc[p] = "check"
    /\ file = NoValue
    /\ temp' = [temp EXCEPT ![p] = Garbage]
    /\ synced' = [synced EXCEPT ![p] = FALSE]
    /\ Goto(p, "write")
    /\ UNCHANGED <<lock, file, durable, value, holds, calls, faults>>

\* out.write and out.flush, or an I/O error after which the file is unlinked.
WriteTemp(p) ==
    /\ pc[p] = "write"
    /\ \/ temp' = [temp EXCEPT ![p] = value[p]] /\ Goto(p, "sync")
       \/ UNCHANGED temp /\ Goto(p, "unlink")
    /\ UNCHANGED <<lock, file, durable, synced, value, holds, calls, faults>>

\* Mutant of SyncTemp: the file is flushed to the kernel but not fsynced.
FlushTemp(p) ==
    /\ pc[p] = "sync"
    /\ Goto(p, "rename")
    /\ UNCHANGED <<lock, file, durable, temp, synced, value, holds, calls, faults>>

SyncTemp(p) ==
    /\ pc[p] = "sync"
    /\ \/ synced' = [synced EXCEPT ![p] = TRUE] /\ Goto(p, "rename")
       \/ UNCHANGED synced /\ Goto(p, "unlink")
    /\ UNCHANGED <<lock, file, durable, temp, value, holds, calls, faults>>

\* os.rename replaces whatever the path holds.
Rename(p) ==
    /\ pc[p] = "rename"
    /\ file' = temp[p]
    /\ durable' = [bytes |-> synced[p], name |-> FALSE]
    /\ temp' = [temp EXCEPT ![p] = NoValue]
    /\ holds' = [holds EXCEPT ![p] = value[p]]
    /\ Goto(p, "unlink")
    /\ UNCHANGED <<lock, synced, value, calls, faults>>

\* finally: the temporary file is unlinked if it still exists.
Unlink(p) ==
    /\ pc[p] = "unlink"
    /\ temp' = [temp EXCEPT ![p] = NoValue]
    /\ synced' = [synced EXCEPT ![p] = FALSE]
    /\ Goto(p, "leave")
    /\ UNCHANGED <<lock, file, durable, value, holds, calls, faults>>

Leave(p) ==
    /\ pc[p] = "leave"
    /\ Lock!Release(p)
    /\ Goto(p, IF holds[p] = NoValue THEN "failed" ELSE "done")
    /\ UNCHANGED <<file, durable, temp, synced, value, holds, calls, faults>>

\* A killed process leaves its temporary file under a name nobody uses again.
Kill(p) ==
    /\ pc[p] \in Locked \cup {"lock"}
    /\ faults < MaxFaults
    /\ faults' = faults + 1
    /\ Lock!Die(p)
    /\ Goto(p, "killed")
    /\ temp' = [temp EXCEPT ![p] = NoValue]
    /\ synced' = [synced EXCEPT ![p] = FALSE]
    /\ holds' = [holds EXCEPT ![p] = NoValue]
    /\ UNCHANGED <<file, durable, value, calls>>

\* What a power cut may leave of the file.
Survivors ==
    {file} \cup (IF durable.name THEN {} ELSE {NoValue})
           \cup (IF durable.bytes THEN {} ELSE {Garbage})

PowerCut ==
    /\ faults < MaxFaults
    /\ faults' = faults + 1
    /\ file' \in Survivors
    /\ durable' = [bytes |-> TRUE, name |-> TRUE]
    /\ lock' = NoProc
    /\ pc' = [p \in Procs |-> "killed"]
    /\ temp' = [p \in Procs |-> NoValue]
    /\ synced' = [p \in Procs |-> FALSE]
    /\ holds' = [p \in Procs |-> NoValue]
    /\ UNCHANGED <<value, calls>>

Step(p) ==
    \/ AcquireLock(p) \/ Compare(p) \/ MakeTemp(p) \/ WriteTemp(p)
    \/ SyncTemp(p) \/ Rename(p) \/ Unlink(p) \/ Leave(p)

Next ==
    \/ \E p \in Procs : Start(p) \/ Read(p) \/ Step(p) \/ Kill(p)
    \/ PowerCut

Spec == Init /\ [][Next]_vars

-------------------------------------------------------------------------------
TypeOK ==
    /\ lock \in Procs \cup {NoProc}
    /\ file \in Contents
    /\ durable \in [bytes : BOOLEAN, name : BOOLEAN]
    /\ temp \in [Procs -> Contents]
    /\ synced \in [Procs -> BOOLEAN]
    /\ pc \in [Procs -> Labels]
    /\ value \in [Procs -> Values \cup {NoValue}]
    /\ holds \in [Procs -> Values \cup {NoValue}]
    /\ calls \in Nat
    /\ faults \in Nat

\* Whatever a successful write or read told a live process about the path still
\* stands, so all of them agree: of launchers that race to write different plans
\* or lockfiles at one path, only those with the winning value succeed.
KnownValueStands == \A p \in Procs : holds[p] # NoValue => file = holds[p]

Abs == INSTANCE WriteOnce

\* write_json_immutable and its readers implement the write-once register, torn
\* writes, kills and power cuts included.
RefinesWriteOnce == Abs!OnceSpec
===============================================================================
