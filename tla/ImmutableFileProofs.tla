-------------------------- MODULE ImmutableFileProofs --------------------------
(***************************************************************************)
(* For any number of processes, values, calls, kills and power cuts:       *)
(* write_json_immutable and its unlocked readers implement a write-once    *)
(* register.  rename alone would replace a file; what keeps it is that the *)
(* process about to rename holds the lock and has seen no file since.      *)
(***************************************************************************)
EXTENDS ImmutableFile, TLAPS

\* Only the holder of the lock is between its `with` and the end of the block.
HolderOnly == \A p \in Procs : pc[p] \in Locked => lock = p

\* A call writes a valid value.
ValueGiven == \A p \in Procs : pc[p] \in Locked \cup {"lock"} => value[p] \in Values

\* Nobody has created the file since the holder looked for it.
StillAbsent == \A p \in Procs : pc[p] \in {"write", "sync", "rename"} => file = NoValue

\* What is renamed is whole, and on disk.
TempWhole ==
    \A p \in Procs :
        /\ pc[p] \in {"sync", "rename"} => temp[p] = value[p]
        /\ pc[p] = "rename" => synced[p]

IInv ==
    /\ TypeOK
    /\ HolderOnly
    /\ ValueGiven
    /\ StillAbsent
    /\ TempWhole
    /\ durable.bytes
    /\ KnownValueStands

-------------------------------------------------------------------------------
LEMMA InitIInv == Init => IInv
BY FileAssumption DEF Init, IInv, TypeOK, HolderOnly, ValueGiven, StillAbsent, TempWhole,
   KnownValueStands, Contents, Locked, Ended, Labels

\* The variables have their types after every step.
LEMMA TypeInductive == IInv /\ [Next]_vars => TypeOK'
<1> SUFFICES ASSUME IInv, [Next]_vars PROVE TypeOK'
  OBVIOUS
<1> USE FileAssumption DEF IInv, TypeOK, Contents, Locked, Ended, Labels, Goto
<1>1. ASSUME NEW p \in Procs, Start(p) PROVE TypeOK'
  BY <1>1 DEF Start, Call
<1>2. ASSUME NEW p \in Procs, Read(p) PROVE TypeOK'
  BY <1>2 DEF Read, Call
<1>3. ASSUME NEW p \in Procs, AcquireLock(p) PROVE TypeOK'
  BY <1>3 DEF AcquireLock, Lock!Acquire
<1>4. ASSUME NEW p \in Procs, Compare(p) PROVE TypeOK'
  <2>1. holds' \in [Procs -> Values \cup {NoValue}]
    BY <1>4 DEF Compare, ValueGiven
  <2> QED BY <1>4, <2>1 DEF Compare
<1>5. ASSUME NEW p \in Procs, MakeTemp(p) PROVE TypeOK'
  BY <1>5 DEF MakeTemp
<1>6. ASSUME NEW p \in Procs, WriteTemp(p) PROVE TypeOK'
  BY <1>6 DEF WriteTemp
<1>7. ASSUME NEW p \in Procs, SyncTemp(p) PROVE TypeOK'
  BY <1>7 DEF SyncTemp
<1>8. ASSUME NEW p \in Procs, Rename(p) PROVE TypeOK'
  BY <1>8 DEF Rename
<1>9. ASSUME NEW p \in Procs, Unlink(p) PROVE TypeOK'
  BY <1>9 DEF Unlink
<1>10. ASSUME NEW p \in Procs, Leave(p) PROVE TypeOK'
  BY <1>10 DEF Leave, Lock!Release
<1>11. ASSUME NEW p \in Procs, Kill(p) PROVE TypeOK'
  BY <1>11 DEF Kill, Lock!Die
<1>12. ASSUME PowerCut PROVE TypeOK'
  BY <1>12 DEF PowerCut, Survivors
<1>13. CASE UNCHANGED vars
  BY <1>13 DEF vars
<1> QED
  BY <1>1, <1>2, <1>3, <1>4, <1>5, <1>6, <1>7, <1>8, <1>9, <1>10, <1>11, <1>12, <1>13
     DEF Next, Step

\* A process between "check" and "leave" finds the others outside.
LEMMA IInvInductive == IInv /\ [Next]_vars => IInv'
<1> SUFFICES ASSUME IInv, [Next]_vars PROVE IInv'
  OBVIOUS
<1>t. TypeOK'
  BY TypeInductive
<1> USE FileAssumption, <1>t DEF IInv, TypeOK, Locked, Ended, Goto, HolderOnly, ValueGiven,
        StillAbsent, TempWhole, KnownValueStands
<1>1. ASSUME NEW p \in Procs, Start(p) PROVE IInv'
  BY <1>1 DEF Start, Call
<1>2. ASSUME NEW p \in Procs, Read(p) PROVE IInv'
  BY <1>2 DEF Read, Call
<1>3. ASSUME NEW p \in Procs, AcquireLock(p) PROVE IInv'
  BY <1>3 DEF AcquireLock, Lock!Acquire, Lock!Free
<1>4. ASSUME NEW p \in Procs, Compare(p) PROVE IInv'
  BY <1>4 DEF Compare
<1>5. ASSUME NEW p \in Procs, MakeTemp(p) PROVE IInv'
  BY <1>5 DEF MakeTemp
<1>6. ASSUME NEW p \in Procs, WriteTemp(p) PROVE IInv'
  BY <1>6 DEF WriteTemp
<1>7. ASSUME NEW p \in Procs, SyncTemp(p) PROVE IInv'
  BY <1>7 DEF SyncTemp
<1>8. ASSUME NEW p \in Procs, Rename(p) PROVE IInv'
  BY <1>8 DEF Rename
<1>9. ASSUME NEW p \in Procs, Unlink(p) PROVE IInv'
  BY <1>9 DEF Unlink
<1>10. ASSUME NEW p \in Procs, Leave(p) PROVE IInv'
  BY <1>10 DEF Leave, Lock!Release
<1>11. ASSUME NEW p \in Procs, Kill(p) PROVE IInv'
  BY <1>11 DEF Kill, Lock!Die
<1>12. ASSUME PowerCut PROVE IInv'
  BY <1>12 DEF PowerCut, Survivors
<1>13. CASE UNCHANGED vars
  BY <1>13 DEF vars
<1> QED
  BY <1>1, <1>2, <1>3, <1>4, <1>5, <1>6, <1>7, <1>8, <1>9, <1>10, <1>11, <1>12, <1>13
     DEF Next, Step

LEMMA Invariant == Spec => []IInv
BY InitIInv, IInvInductive, PTL DEF Spec

-------------------------------------------------------------------------------
\* The variables of write_json_immutable keep their types.
THEOREM FileTypes == Spec => []TypeOK
<1>1. IInv => TypeOK
  BY DEF IInv
<1> QED BY <1>1, Invariant, PTL

\* What a successful write or read told a process about the path stands as long
\* as the process lives: two live processes never know different values.
THEOREM KnownValuesStand == Spec => []KnownValueStands
<1>1. IInv => KnownValueStands
  BY DEF IInv
<1> QED BY <1>1, Invariant, PTL

\* Every step of the code is a step of the write-once register, or none.
LEMMA StepSimulation == IInv /\ [Next]_vars => [Abs!OnceNext]_<<file, holds>>
<1> SUFFICES ASSUME IInv, [Next]_vars PROVE [Abs!OnceNext]_<<file, holds>>
  OBVIOUS
<1> USE FileAssumption DEF IInv, TypeOK, Contents
<1>1. ASSUME NEW p \in Procs, Start(p) PROVE Abs!Lose(p)
  BY <1>1 DEF Start, Abs!Lose
<1>2. ASSUME NEW p \in Procs, Read(p) PROVE Abs!Observe(p) \/ Abs!Lose(p)
  BY <1>2 DEF Read, Abs!Observe, Abs!Lose
<1>3. ASSUME NEW p \in Procs, Compare(p) PROVE Abs!Observe(p) \/ Abs!Lose(p)
  <2>1. value[p] \in Values
    BY <1>3 DEF Compare, ValueGiven, Locked
  <2> QED BY <1>3, <2>1 DEF Compare, Abs!Observe, Abs!Lose
<1>4. ASSUME NEW p \in Procs, Rename(p) PROVE value[p] \in Values /\ Abs!Create(p, value[p])
  BY <1>4 DEF Rename, Abs!Create, ValueGiven, StillAbsent, TempWhole, Locked
<1>5. ASSUME NEW p \in Procs, Kill(p) PROVE Abs!Lose(p)
  BY <1>5 DEF Kill, Abs!Lose
<1>6. ASSUME PowerCut PROVE Abs!Vanish
  BY <1>6 DEF PowerCut, Survivors, Abs!Vanish
<1>7. ASSUME NEW p \in Procs,
             \/ AcquireLock(p) \/ MakeTemp(p) \/ WriteTemp(p) \/ SyncTemp(p)
             \/ Unlink(p) \/ Leave(p)
      PROVE  UNCHANGED <<file, holds>>
  BY <1>7 DEF AcquireLock, MakeTemp, WriteTemp, SyncTemp, Unlink, Leave
<1>8. CASE UNCHANGED vars
  BY <1>8 DEF vars
<1> QED
  BY <1>1, <1>2, <1>3, <1>4, <1>5, <1>6, <1>7, <1>8 DEF Next, Step, Abs!OnceNext

\* write_json_immutable and its readers implement the write-once register.
THEOREM ImplementsWriteOnce == Spec => RefinesWriteOnce
<1>1. Init => Abs!OnceInit
  BY DEF Init, Contents, Abs!OnceInit
<1> QED
  BY <1>1, StepSimulation, Invariant, PTL DEF Spec, RefinesWriteOnce, Abs!OnceSpec, Abs!onceVars
===============================================================================
