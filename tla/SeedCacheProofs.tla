---------------------------- MODULE SeedCacheProofs ----------------------------
(***************************************************************************)
(* For any processes and seed: within one container a cache directory that *)
(* came from the seed is whole, a start without harm finds a cache, and    *)
(* nobody takes anything out of a cache.                                   *)
(***************************************************************************)
EXTENDS SeedCache, TLAPS

Fresh == {"idle", "look", "make"}
Making == {"copy", "mark", "rename"}

\* In one namespace a process id has one bearer at a time.
Alone ==
    \A p, q \in Procs :
        p # q /\ PidOf[p] = PidOf[q] /\ pc[p] \in Live => pc[q] \notin Live

\* What is at a temporary path was made there, and is not the cache's directory.
PathOfMaker ==
    \A k \in Pids :
        temp[k] # NoDir => PidOf[temp[k]] = k /\ temp[k] # target /\ pc[temp[k]] \notin Fresh

\* A process that copies finds its own directory at its path.
OwnPath == \A p \in Procs : pc[p] \in Making => temp[PidOf[p]] = p

NotYet == \A p \in Procs : pc[p] \in Fresh => target # p /\ todo[p] = {} /\ ~ broken[p]

\* What copytree and write_text have brought into it.
Copied ==
    \A p \in Procs :
        /\ pc[p] = "copy" /\ ~ broken[p] => SeedFiles \subseteq files[p] \cup todo[p]
        /\ pc[p] = "mark" => SeedFiles \subseteq files[p]
        /\ pc[p] = "rename" => Whole \subseteq files[p]

\* rmtree holds a directory of its process id that is not the cache's.
HoldsTemp ==
    \A p \in Procs :
        pc[p] = "removing" =>
            opened[p] \in Procs /\ PidOf[opened[p]] = PidOf[p] /\ opened[p] # target

\* Without harm nobody is killed, nothing is collected, and only those have given up
\* or are past it who saw a cache.
Harmless ==
    ~ harm =>
        \A p \in Procs :
            /\ pc[p] # "killed" /\ ~ broken[p]
            /\ pc[p] \in {"count", "remove", "removing", "start"} => target # NoDir

\* An engine has made its cache.
EngineHasCache == \A p \in Procs : pc[p] = "engine" => target # NoDir

IInv ==
    /\ TypeOK
    /\ Alone /\ PathOfMaker /\ OwnPath /\ NotYet /\ Copied /\ HoldsTemp
    /\ Harmless /\ EngineHasCache
    /\ SeenWhole

-------------------------------------------------------------------------------
LEMMA InitIInv == Init => IInv
BY SeedAssumption DEF Init, IInv, TypeOK, Alone, PathOfMaker, OwnPath, NotYet, Copied,
   HoldsTemp, Harmless, EngineHasCache, SeenWhole, Fresh, Making, Labels, Live, Dirs

LEMMA Spaces ==
    /\ \A q \in Procs : PidOf[q] \in Pids
    /\ Procs \subseteq Dirs /\ NoDir \notin Dirs /\ Warm \in Dirs \ Procs
BY SeedAssumption DEF Pids, Dirs

\* The types are kept, given the invariant: what the steps need of the rest
\* of the invariant is only where an rmtree and an engine find their directory.
LEMMA TypeInductive == IInv /\ [Next]_vars => TypeOK'
<1> SUFFICES ASSUME IInv, [Next]_vars PROVE TypeOK'
  OBVIOUS
<1>t. TypeOK
  BY DEF IInv
<1> USE Spaces DEF Goto, Key, Path, Labels, Live
<1>1. ASSUME NEW p \in Procs, Begin(p) \/ Look(p) \/ FinishCopy(p) \/ Count(p) \/ Kill(p)
      PROVE  TypeOK'
  BY <1>t, <1>1 DEF Begin, Look, FinishCopy, Count, Kill, TypeOK
<1>2. ASSUME NEW p \in Procs, MakeTemp(p) PROVE TypeOK'
  <2>1. SeedFiles \in SUBSET Names
    BY DEF Names
  <2>2. temp' \in [Pids -> Procs \cup {NoDir}]
    BY <1>t, <1>2 DEF MakeTemp, TypeOK
  <2>3. todo' \in [Procs -> SUBSET Names]
    BY <1>t, <1>2, <2>1 DEF MakeTemp, TypeOK
  <2> QED BY <1>t, <1>2, <2>2, <2>3 DEF MakeTemp, TypeOK
<1>3. ASSUME NEW p \in Procs, CopyFile(p) PROVE TypeOK'
  <2>1. PICK f \in todo[p] :
          /\ todo' = [todo EXCEPT ![p] = @ \ {f}]
          /\ \/ /\ temp[PidOf[p]] # NoDir
                /\ files' = [files EXCEPT ![temp[PidOf[p]]] = @ \cup {f}]
                /\ UNCHANGED <<broken, harm>>
             \/ /\ broken' = [broken EXCEPT ![p] = TRUE]
                /\ harm' = (harm \/ temp[PidOf[p]] # NoDir)
                /\ UNCHANGED files
    BY <1>3 DEF CopyFile
  <2>2. f \in Names /\ temp[PidOf[p]] \in Procs \cup {NoDir}
    BY <1>t DEF TypeOK
  <2>3. files' \in [Dirs -> SUBSET Names]
    BY <1>t, <2>1, <2>2 DEF TypeOK
  <2>4. todo' \in [Procs -> SUBSET Names]
    BY <1>t, <2>1 DEF TypeOK
  <2> QED BY <1>t, <1>3, <2>1, <2>3, <2>4 DEF CopyFile, TypeOK
<1>4. ASSUME NEW p \in Procs, Mark(p) PROVE TypeOK'
  <2>1. temp[PidOf[p]] \in Procs \cup {NoDir}
    BY <1>t DEF TypeOK
  <2>2. files' \in [Dirs -> SUBSET Names]
    BY <1>t, <1>4, <2>1 DEF Mark, TypeOK, Names
  <2> QED BY <1>t, <1>4, <2>2 DEF Mark, TypeOK
<1>5. ASSUME NEW p \in Procs, Rename(p) PROVE TypeOK'
  BY <1>t, <1>5 DEF Rename, TypeOK
<1>6. ASSUME NEW p \in Procs, OpenTemp(p) PROVE TypeOK'
  BY <1>t, <1>6 DEF OpenTemp, TypeOK
<1>7. ASSUME NEW p \in Procs, RemoveFile(p) PROVE TypeOK'
  <2>1. opened[p] \in Dirs
    BY <1>7 DEF IInv, HoldsTemp, RemoveFile
  <2>2. PICK f \in todo[p] :
          /\ todo' = [todo EXCEPT ![p] = @ \ {f}]
          /\ files' = [files EXCEPT ![opened[p]] = @ \ {f}]
    BY <1>7 DEF RemoveFile
  <2>3. files' \in [Dirs -> SUBSET Names]
    BY <1>t, <2>1, <2>2 DEF TypeOK
  <2>4. todo' \in [Procs -> SUBSET Names]
    BY <1>t, <2>2 DEF TypeOK
  <2> QED BY <1>t, <1>7, <2>3, <2>4 DEF RemoveFile, TypeOK
<1>8. ASSUME NEW p \in Procs, RemoveTemp(p) PROVE TypeOK'
  BY <1>t, <1>8 DEF RemoveTemp, TypeOK
<1>9. ASSUME NEW p \in Procs, OpenCache(p) PROVE TypeOK'
  BY <1>t, <1>9 DEF OpenCache, TypeOK
<1>10. ASSUME NEW p \in Procs, WriteEntry(p) PROVE TypeOK'
  <2>1. target \in Dirs
    BY <1>t, <1>10 DEF IInv, EngineHasCache, WriteEntry, TypeOK
  <2>2. files' \in [Dirs -> SUBSET Names]
    BY <1>t, <1>10, <2>1 DEF WriteEntry, TypeOK, Names
  <2> QED BY <1>t, <1>10, <2>2 DEF WriteEntry, TypeOK
<1>11. CASE UNCHANGED vars
  BY <1>t, <1>11 DEF vars, TypeOK
<1> QED BY <1>1, <1>2, <1>3, <1>4, <1>5, <1>6, <1>7, <1>8, <1>9, <1>10, <1>11 DEF Next, Step

\* What each step does to the parts of the invariant, within one container.
LEMMA BeginInductive ==
    ASSUME OneNamespace, IInv, NEW p \in Procs, Begin(p), TypeOK'
    PROVE  IInv'
<1> USE Spaces DEF IInv, TypeOK, Live, Labels, Fresh, Making, Goto, Key, Path
<1>1. Alone' /\ PathOfMaker' /\ OwnPath' /\ NotYet'
  BY DEF Begin, Alone, PathOfMaker, OwnPath, NotYet
<1>2. Copied' /\ HoldsTemp' /\ Harmless' /\ EngineHasCache' /\ SeenWhole'
  BY DEF Begin, Copied, HoldsTemp, Harmless, EngineHasCache, SeenWhole
<1> QED BY <1>1, <1>2

LEMMA LookInductive ==
    ASSUME OneNamespace, IInv, NEW p \in Procs, Look(p), TypeOK'
    PROVE  IInv'
<1> USE Spaces DEF IInv, TypeOK, Live, Labels, Fresh, Making, Goto, Key, Path
<1>1. Alone' /\ PathOfMaker' /\ OwnPath' /\ NotYet'
  BY DEF Look, Alone, PathOfMaker, OwnPath, NotYet
<1>2. Copied' /\ HoldsTemp' /\ Harmless' /\ EngineHasCache' /\ SeenWhole'
  BY DEF Look, Copied, HoldsTemp, Harmless, EngineHasCache, SeenWhole
<1> QED BY <1>1, <1>2

LEMMA MakeTempInductive ==
    ASSUME OneNamespace, IInv, NEW p \in Procs, MakeTemp(p), TypeOK'
    PROVE  IInv'
<1> USE Spaces DEF IInv, TypeOK, Live, Labels, Fresh, Making, Goto, Key, Path
<1>1. Alone' /\ NotYet' /\ HoldsTemp' /\ EngineHasCache'
  BY DEF MakeTemp, Alone, NotYet, HoldsTemp, EngineHasCache
<1>2. SeenWhole'
  BY DEF MakeTemp, SeenWhole
<1>3. PathOfMaker'
  BY DEF MakeTemp, PathOfMaker, NotYet, Alone
<1>4. OwnPath'
  BY DEF MakeTemp, OwnPath, Alone
<1>5. Copied'
  BY DEF MakeTemp, Copied, NotYet
<1>6. Harmless'
  BY DEF MakeTemp, Harmless, PathOfMaker, Alone
<1> QED BY <1>1, <1>2, <1>3, <1>4, <1>5, <1>6

LEMMA CopyFileInductive ==
    ASSUME OneNamespace, IInv, NEW p \in Procs, CopyFile(p), TypeOK'
    PROVE  IInv'
<1> USE Spaces DEF IInv, TypeOK, Live, Labels, Fresh, Making, Goto, Key, Path
<1>1. Alone' /\ PathOfMaker' /\ OwnPath' /\ NotYet'
  BY DEF CopyFile, Alone, PathOfMaker, OwnPath, NotYet
<1>2. HoldsTemp' /\ EngineHasCache' /\ SeenWhole'
  BY DEF CopyFile, HoldsTemp, EngineHasCache, SeenWhole
<1>3. Copied'
  BY DEF CopyFile, Copied, OwnPath
<1>4. Harmless'
  BY DEF CopyFile, Harmless, OwnPath
<1> QED BY <1>1, <1>2, <1>3, <1>4

LEMMA FinishCopyInductive ==
    ASSUME OneNamespace, IInv, NEW p \in Procs, FinishCopy(p), TypeOK'
    PROVE  IInv'
<1> USE Spaces DEF IInv, TypeOK, Live, Labels, Fresh, Making, Goto, Key, Path
<1>1. Alone' /\ PathOfMaker' /\ OwnPath' /\ NotYet'
  BY DEF FinishCopy, Alone, PathOfMaker, OwnPath, NotYet
<1>2. Copied' /\ HoldsTemp' /\ EngineHasCache' /\ SeenWhole'
  BY DEF FinishCopy, Copied, HoldsTemp, EngineHasCache, SeenWhole
<1>3. Harmless'
  BY DEF FinishCopy, Harmless, OwnPath
<1> QED BY <1>1, <1>2, <1>3

LEMMA MarkInductive ==
    ASSUME OneNamespace, IInv, NEW p \in Procs, Mark(p), TypeOK'
    PROVE  IInv'
<1> USE Spaces DEF IInv, TypeOK, Live, Labels, Fresh, Making, Goto, Key, Path
<1>1. Alone' /\ PathOfMaker' /\ OwnPath' /\ NotYet'
  BY DEF Mark, Alone, PathOfMaker, OwnPath, NotYet
<1>2. HoldsTemp' /\ EngineHasCache' /\ SeenWhole'
  BY DEF Mark, HoldsTemp, EngineHasCache, SeenWhole
<1>3. Copied'
  BY DEF Mark, Copied, OwnPath, Whole
<1>4. Harmless'
  BY DEF Mark, Harmless, OwnPath
<1> QED BY <1>1, <1>2, <1>3, <1>4

LEMMA RenameInductive ==
    ASSUME OneNamespace, IInv, NEW p \in Procs, Rename(p), TypeOK'
    PROVE  IInv'
<1> USE Spaces DEF IInv, TypeOK, Live, Labels, Fresh, Making, Goto, Key, Path
<1>1. Alone' /\ Copied' /\ EngineHasCache'
  BY DEF Rename, Alone, Copied, EngineHasCache
<1>2. PathOfMaker'
  BY DEF Rename, PathOfMaker, OwnPath
<1>3. OwnPath'
  BY DEF Rename, OwnPath, Alone
<1>4. NotYet'
  BY DEF Rename, NotYet, OwnPath
<1>5. HoldsTemp'
  BY DEF Rename, HoldsTemp, OwnPath, Alone
<1>6. Harmless'
  BY DEF Rename, Harmless, OwnPath
<1>7. SeenWhole'
  BY DEF Rename, SeenWhole, OwnPath, Copied
<1> QED BY <1>1, <1>2, <1>3, <1>4, <1>5, <1>6, <1>7

LEMMA CountInductive ==
    ASSUME OneNamespace, IInv, NEW p \in Procs, Count(p), TypeOK'
    PROVE  IInv'
<1> USE Spaces DEF IInv, TypeOK, Live, Labels, Fresh, Making, Goto, Key, Path
<1>1. Alone' /\ PathOfMaker' /\ OwnPath' /\ NotYet'
  BY DEF Count, Alone, PathOfMaker, OwnPath, NotYet
<1>2. Copied' /\ HoldsTemp' /\ Harmless' /\ EngineHasCache' /\ SeenWhole'
  BY DEF Count, Copied, HoldsTemp, Harmless, EngineHasCache, SeenWhole
<1> QED BY <1>1, <1>2

LEMMA OpenTempInductive ==
    ASSUME OneNamespace, IInv, NEW p \in Procs, OpenTemp(p), TypeOK'
    PROVE  IInv'
<1> USE Spaces DEF IInv, TypeOK, Live, Labels, Fresh, Making, Goto, Key, Path
<1>1. Alone' /\ PathOfMaker' /\ OwnPath' /\ NotYet'
  BY DEF OpenTemp, Alone, PathOfMaker, OwnPath, NotYet
<1>2. Copied' /\ Harmless' /\ EngineHasCache' /\ SeenWhole'
  BY DEF OpenTemp, Copied, Harmless, EngineHasCache, SeenWhole
<1>3. HoldsTemp'
  BY DEF OpenTemp, HoldsTemp, PathOfMaker
<1> QED BY <1>1, <1>2, <1>3

LEMMA RemoveFileInductive ==
    ASSUME OneNamespace, IInv, NEW p \in Procs, RemoveFile(p), TypeOK'
    PROVE  IInv'
<1> USE Spaces DEF IInv, TypeOK, Live, Labels, Fresh, Making, Goto, Key, Path
<1>1. Alone' /\ PathOfMaker' /\ OwnPath' /\ NotYet'
  BY DEF RemoveFile, Alone, PathOfMaker, OwnPath, NotYet
<1>2. HoldsTemp' /\ Harmless' /\ EngineHasCache'
  BY DEF RemoveFile, HoldsTemp, Harmless, EngineHasCache
<1>3. Copied'
  BY DEF RemoveFile, Copied, HoldsTemp, Alone
<1>4. SeenWhole'
  BY DEF RemoveFile, SeenWhole, HoldsTemp
<1> QED BY <1>1, <1>2, <1>3, <1>4

LEMMA RemoveTempInductive ==
    ASSUME OneNamespace, IInv, NEW p \in Procs, RemoveTemp(p), TypeOK'
    PROVE  IInv'
<1> USE Spaces DEF IInv, TypeOK, Live, Labels, Fresh, Making, Goto, Key, Path
<1>1. Alone' /\ PathOfMaker' /\ NotYet' /\ Copied'
  BY DEF RemoveTemp, Alone, PathOfMaker, NotYet, Copied
<1>2. HoldsTemp' /\ Harmless' /\ EngineHasCache' /\ SeenWhole'
  BY DEF RemoveTemp, HoldsTemp, Harmless, EngineHasCache, SeenWhole
<1>3. OwnPath'
  BY DEF RemoveTemp, OwnPath, Alone
<1> QED BY <1>1, <1>2, <1>3

LEMMA OpenCacheInductive ==
    ASSUME OneNamespace, IInv, NEW p \in Procs, OpenCache(p), TypeOK'
    PROVE  IInv'
<1> USE Spaces DEF IInv, TypeOK, Live, Labels, Fresh, Making, Goto, Key, Path
<1>1. Alone' /\ PathOfMaker' /\ OwnPath' /\ NotYet'
  BY DEF OpenCache, Alone, PathOfMaker, OwnPath, NotYet
<1>2. Copied' /\ HoldsTemp' /\ Harmless' /\ EngineHasCache' /\ SeenWhole'
  BY DEF OpenCache, Copied, HoldsTemp, Harmless, EngineHasCache, SeenWhole
<1> QED BY <1>1, <1>2

LEMMA WriteEntryInductive ==
    ASSUME OneNamespace, IInv, NEW p \in Procs, WriteEntry(p), TypeOK'
    PROVE  IInv'
<1> USE Spaces DEF IInv, TypeOK, Live, Labels, Fresh, Making, Goto, Key, Path
<1>1. Alone' /\ PathOfMaker' /\ OwnPath' /\ NotYet'
  BY DEF WriteEntry, Alone, PathOfMaker, OwnPath, NotYet
<1>2. Copied' /\ HoldsTemp' /\ Harmless' /\ EngineHasCache' /\ SeenWhole'
  BY DEF WriteEntry, Copied, HoldsTemp, Harmless, EngineHasCache, SeenWhole
<1> QED BY <1>1, <1>2

LEMMA KillInductive ==
    ASSUME OneNamespace, IInv, NEW p \in Procs, Kill(p), TypeOK'
    PROVE  IInv'
<1> USE Spaces DEF IInv, TypeOK, Live, Labels, Fresh, Making, Goto, Key, Path
<1>1. Alone' /\ PathOfMaker' /\ OwnPath' /\ NotYet'
  BY DEF Kill, Alone, PathOfMaker, OwnPath, NotYet
<1>2. Copied' /\ HoldsTemp' /\ Harmless' /\ EngineHasCache' /\ SeenWhole'
  BY DEF Kill, Copied, HoldsTemp, Harmless, EngineHasCache, SeenWhole
<1> QED BY <1>1, <1>2

\* The invariant is inductive within one container.
THEOREM Invariant == OneNamespace /\ Spec => []IInv
<1> SUFFICES ASSUME OneNamespace PROVE Spec => []IInv
  OBVIOUS
<1>1. IInv /\ [Next]_vars => IInv'
  <2> SUFFICES ASSUME IInv, [Next]_vars PROVE IInv'
    OBVIOUS
  <2>t. TypeOK'
    BY TypeInductive
  <2>1. CASE Next
    BY <2>1, <2>t, BeginInductive, LookInductive, MakeTempInductive, CopyFileInductive,
       FinishCopyInductive, MarkInductive, RenameInductive, CountInductive, OpenTempInductive,
       RemoveFileInductive, RemoveTempInductive, OpenCacheInductive, WriteEntryInductive,
       KillInductive DEF Next, Step
  <2>2. CASE UNCHANGED vars
    BY <2>2, <2>t DEF vars, IInv, Alone, PathOfMaker, OwnPath, NotYet, Copied, HoldsTemp,
       Harmless, EngineHasCache, SeenWhole
  <2> QED BY <2>1, <2>2
<1> QED BY InitIInv, <1>1, PTL DEF Spec

-------------------------------------------------------------------------------
\* The variables of seed_caches keep their types; no rmtree ever holds a directory that
\* an engine made.
THEOREM SeedTypes == OneNamespace /\ Spec => []TypeOK
<1>1. IInv => TypeOK
  BY DEF IInv
<1> QED BY Invariant, <1>1, PTL

\* "a concurrent process sees either nothing or the complete seed": within one container
\* a cache directory that came from seed_caches holds every file and the marker.
THEOREM SeedSeenWhole == OneNamespace /\ Spec => []SeenWhole
<1>1. IInv => SeenWhole
  BY DEF IInv
<1> QED BY Invariant, <1>1, PTL

\* Without a kill or a failed file operation, every process that comes out of
\* seed_caches finds a cache there, although nobody waits for another's copy.
THEOREM SeedAlwaysArrives == OneNamespace /\ Spec => []SeedArrives
<1>1. IInv => SeedArrives
  BY DEF IInv, Harmless, SeedArrives
<1> QED BY Invariant, <1>1, PTL

\* "A directory that exists (a warm cache) is never touched": no copy, rename or removal
\* of any process takes an entry out of a cache, or puts another directory in its place.
THEOREM CacheUntouched == OneNamespace /\ Spec => WarmUntouched
<1> DEFINE Untouched == target # NoDir /\ files[target] # {} =>
              target' = target /\ files[target] \subseteq files'[target]
<1>1. IInv /\ [Next]_vars => [Untouched]_vars
  <2> SUFFICES ASSUME IInv, Next PROVE Untouched
    BY DEF vars, Untouched
  <2>t. TypeOK
    BY DEF IInv
  <2>1. CASE \E p \in Procs : RemoveFile(p)
    BY <2>1, <2>t DEF IInv, HoldsTemp, RemoveFile, TypeOK, Dirs
  <2>2. CASE \E p \in Procs : CopyFile(p) \/ Mark(p)
    BY <2>2, <2>t DEF CopyFile, Mark, TypeOK
  <2>3. CASE \E p \in Procs : Rename(p) \/ OpenCache(p) \/ WriteEntry(p)
    BY <2>3, <2>t DEF Rename, OpenCache, WriteEntry, TypeOK
  <2> QED BY <2>1, <2>2, <2>3 DEF Next, Step, Begin, Look, MakeTemp, FinishCopy, Count,
             OpenTemp, RemoveTemp, Kill
<1> QED BY Invariant, <1>1, PTL DEF Spec, WarmUntouched
===============================================================================
