--------------------------- MODULE PackageCacheProofs ---------------------------
(***************************************************************************)
(* For any launchers, declared files, archives, bundles and any number of  *)
(* calls and faults: prepare_package implements the write-once entry, and  *)
(* whoever renames is alone with an intact staging directory.              *)
(***************************************************************************)
EXTENDS PackageCache, FiniteSetTheorems, TLAPS

\* Only the holder of the lock is inside the `with`.
HolderOnly == \A p \in Launchers : pc[p] \in Critical => lock = p

\* A launcher has a staging directory from mkdtemp to its removal, and it exists
\* until it has been renamed.
StagingHeld ==
    \A p \in Launchers :
        /\ pc[p] \in Gathering \cup {"cleanup"} => dir[p] \in TempNames
        /\ pc[p] \in Gathering => temp[dir[p]] \in Dirs
        /\ dir[p] \in TempNames => pc[p] \in Gathering \cup {"cleanup"}

\* Nobody has installed an entry since the holder looked for one.
StillAbsent == \A p \in Launchers : pc[p] \in Gathering => entry = NoDir

\* The staging directory was verified and nobody else writes into it.
Verified == \A p \in Launchers : pc[p] = "publish" => Intact(temp[dir[p]])

\* An archive is only opened when there is one.
ArchivePinned ==
    \A p \in Launchers : pc[p] \in {"check_archive", "extract"} => archive # NoArchive

IInv ==
    /\ TypeOK
    /\ HolderOnly
    /\ StagingHeld
    /\ StillAbsent
    /\ Verified
    /\ ArchivePinned

-------------------------------------------------------------------------------
\* Writing a file of a staging directory gives a staging directory.
LEMMA WriteTypes ==
    ASSUME TypeOK, NEW p \in Launchers, dir[p] \in TempNames, temp[dir[p]] \in Dirs,
           NEW n \in AllNames, NEW c \in Contents, Write(p, n, c)
    PROVE  /\ temp' \in [TempNames -> Dirs \cup {NoDir}]
           /\ temp'[dir[p]] \in Dirs
<1> DEFINE d == [temp[dir[p]] EXCEPT ![n] = c]
<1>1. d \in Dirs
  BY DEF Dirs
<1>2. temp' = [temp EXCEPT ![dir[p]] = d]
  BY DEF Write
<1>3. temp \in [TempNames -> Dirs \cup {NoDir}]
  BY DEF TypeOK
<1> HIDE DEF d
<1> QED BY <1>1, <1>2, <1>3

\* The number of members taken is a number, and the next member is one.
LEMMA NextMember ==
    ASSUME TypeOK, NEW p \in Launchers, archive # NoArchive
    PROVE  /\ Taken(p) \in Nat
           /\ Taken(p) < Len(archive) => archive[Taken(p) + 1] \in Members
<1>1. seen[p] \in SUBSET Names /\ IsFiniteSet(Names)
  BY ConstantsAssumption DEF TypeOK
<1>2. Taken(p) \in Nat
  BY <1>1, FS_Subset, FS_CardinalityType DEF Taken
<1>3. archive \in Seq(Members)
  BY ConstantsAssumption DEF TypeOK
<1> QED BY <1>2, <1>3

\* Counting keeps the counters.
LEMMA BumpTypes ==
    ASSUME TypeOK, NEW c \in Counters, Bump(c)
    PROVE  count' \in [Counters -> Nat]
BY DEF TypeOK, Bump

LEMMA InitIInv == Init => IInv
<1> SUFFICES ASSUME Init PROVE IInv
  OBVIOUS
<1> USE ConstantsAssumption DEF Init
<1>1. TypeOK
  BY DEF TypeOK, Labels, Ended, Origins, Results, Counters
<1>2. HolderOnly /\ StagingHeld /\ StillAbsent /\ Verified /\ ArchivePinned
  BY DEF HolderOnly, StagingHeld, StillAbsent, Verified, ArchivePinned, Critical, Gathering
<1> QED BY <1>1, <1>2 DEF IInv

\* The labels that are not in the critical section.
LEMMA LabelFacts ==
    /\ Gathering \subseteq Critical /\ Critical \subseteq Labels /\ Ended \subseteq Labels
    /\ Ended \cap Critical = {} /\ "lock" \in Labels \ Critical
    /\ {"check", "cleanup", "leave"} \subseteq Critical \ Gathering
    /\ {"verify_bundle", "copy", "fetch", "check_archive", "extract", "verify", "publish"}
          = Gathering
BY DEF Gathering, Critical, Ended, Labels

LEMMA TypeInductive == IInv /\ [Next]_vars => TypeOK'
<1> SUFFICES ASSUME IInv, [Next]_vars PROVE TypeOK'
  OBVIOUS
<1>t. TypeOK
  BY DEF IInv
<1>1. ASSUME NEW p \in Launchers, Start(p) PROVE TypeOK'
  <2>1. count' \in [Counters -> Nat]
    BY <1>t, <1>1, BumpTypes DEF Start, Counters
  <2> QED BY <1>t, <1>1, <2>1 DEF Start, TypeOK, Goto, Labels, Results
<1>2. ASSUME NEW p \in Launchers, AcquireLock(p) PROVE TypeOK'
  BY <1>t, <1>2 DEF AcquireLock, Lock!Acquire, TypeOK, Goto, Labels, Critical
<1>3. ASSUME NEW p \in Launchers, Reuse(p) PROVE TypeOK'
  BY <1>t, <1>3 DEF Reuse, TypeOK, Goto, Labels, Critical, Results
<1>4. ASSUME NEW p \in Launchers, Stage(p) PROVE TypeOK'
  <2>1. Empty \in Dirs
    BY DEF Empty, Dirs, Contents
  <2>2. PICK t \in TempNames : /\ temp' = [temp EXCEPT ![t] = Empty]
                               /\ dir' = [dir EXCEPT ![p] = t]
    BY <1>4 DEF Stage, Unused
  <2> HIDE DEF Empty
  <2>3. pc' \in [Launchers -> Labels]
    BY <1>t, <1>4 DEF Stage, TypeOK, Goto, Labels, Critical, Gathering
  <2>4. temp' \in [TempNames -> Dirs \cup {NoDir}]
    BY <1>t, <2>1, <2>2 DEF TypeOK
  <2>5. dir' \in [Launchers -> TempNames \cup {NoTemp}]
    BY <1>t, <2>2 DEF TypeOK
  <2> QED BY <1>t, <1>4, <2>3, <2>4, <2>5 DEF Stage, TypeOK
<1>5. ASSUME NEW p \in Launchers, VerifyBundle(p) PROVE TypeOK'
  BY <1>t, <1>5 DEF VerifyBundle, TypeOK, Goto, Raise, Labels, Critical, Gathering, Results
<1>6. ASSUME NEW p \in Launchers, CopyFile(p) PROVE TypeOK'
  <2>1. dir[p] \in TempNames /\ temp[dir[p]] \in Dirs
    BY <1>6, LabelFacts DEF CopyFile, IInv, StagingHeld
  <2>2. PICK n \in Names \ seen[p] :
          IF bundle[n] = "none"
          THEN Raise(p, "refused") /\ UNCHANGED <<temp, seen>>
          ELSE /\ Write(p, n, bundle[n])
               /\ seen' = [seen EXCEPT ![p] = @ \cup {n}]
               /\ Goto(p, IF seen'[p] = Names THEN "verify" ELSE "copy")
               /\ UNCHANGED out
    BY <1>6 DEF CopyFile
  <2>3. n \in AllNames /\ bundle[n] \in Contents
    BY <1>t DEF AllNames, TypeOK
  <2>4. temp' \in [TempNames -> Dirs \cup {NoDir}]
    BY <1>t, <2>1, <2>2, <2>3, WriteTypes DEF TypeOK
  <2>5. seen' \in [Launchers -> SUBSET Names]
    BY <1>t, <2>2 DEF TypeOK
  <2>6. pc' \in [Launchers -> Labels] /\ out' \in [Launchers -> Results]
    BY <1>t, <2>2 DEF TypeOK, Goto, Raise, Labels, Critical, Gathering, Results
  <2> QED BY <1>t, <1>6, <2>4, <2>5, <2>6 DEF CopyFile, TypeOK
<1>7. ASSUME NEW p \in Launchers, NoPayload(p) PROVE TypeOK'
  BY <1>t, <1>7 DEF NoPayload, TypeOK, Goto, Raise, Labels, Critical, Results
<1>8. ASSUME NEW p \in Launchers, Fetch(p) PROVE TypeOK'
  <2>1. dir[p] \in TempNames /\ temp[dir[p]] \in Dirs
    BY <1>8, LabelFacts DEF Fetch, IInv, StagingHeld
  <2>2. Download \in AllNames /\ "good" \in Contents /\ "bad" \in Contents
    BY DEF AllNames, Contents
  <2>3. temp' \in [TempNames -> Dirs \cup {NoDir}]
    <3>1. CASE UNCHANGED temp
      BY <1>t, <3>1 DEF TypeOK
    <3>2. CASE \E data \in {"good", "bad"} : Write(p, Download, data)
      BY <1>t, <2>1, <2>2, <3>2, WriteTypes
    <3> QED BY <1>8, <3>1, <3>2 DEF Fetch
  <2>4. pc' \in [Launchers -> Labels] /\ out' \in [Launchers -> Results]
    BY <1>t, <1>8 DEF Fetch, TypeOK, Goto, Raise, Labels, Critical, Gathering, Results
  <2> QED BY <1>t, <1>8, <2>3, <2>4 DEF Fetch, TypeOK
<1>9. ASSUME NEW p \in Launchers, CheckArchive(p) PROVE TypeOK'
  BY <1>t, <1>9 DEF CheckArchive, TypeOK, Goto, Raise, Labels, Critical, Gathering, Results
<1>10. ASSUME NEW p \in Launchers, ExtractMember(p) PROVE TypeOK'
  <2>1. dir[p] \in TempNames /\ temp[dir[p]] \in Dirs
    BY <1>10, LabelFacts DEF ExtractMember, IInv, StagingHeld
  <2> DEFINE m == archive[Taken(p) + 1]
  <2>2. m \in Members
    BY <1>t, <1>10, NextMember DEF ExtractMember, IInv, ArchivePinned
  <2>3. m.data \in Contents
    BY <2>2 DEF Members, Contents
  <2>4. IF m.name \in Names \ seen[p]
        THEN /\ Write(p, m.name, m.data)
             /\ seen' = [seen EXCEPT ![p] = @ \cup {m.name}]
             /\ UNCHANGED <<pc, out>>
        ELSE Raise(p, "refused") /\ UNCHANGED <<temp, seen>>
    BY <1>10 DEF ExtractMember
  <2> HIDE DEF m
  <2>5. CASE m.name \in Names \ seen[p]
    <3>1. temp' \in [TempNames -> Dirs \cup {NoDir}]
      BY <1>t, <2>1, <2>3, <2>4, <2>5, WriteTypes DEF AllNames
    <3>2. seen' \in [Launchers -> SUBSET Names]
      BY <1>t, <2>4, <2>5 DEF TypeOK
    <3> QED BY <1>t, <1>10, <2>4, <2>5, <3>1, <3>2 DEF ExtractMember, TypeOK
  <2>6. CASE m.name \notin Names \ seen[p]
    BY <1>t, <1>10, <2>4, <2>6 DEF ExtractMember, TypeOK, Goto, Raise, Labels, Critical, Results
  <2> QED BY <2>5, <2>6
<1>11. ASSUME NEW p \in Launchers, FinishExtract(p) PROVE TypeOK'
  <2>1. dir[p] \in TempNames /\ temp[dir[p]] \in Dirs
    BY <1>11, LabelFacts DEF FinishExtract, IInv, StagingHeld
  <2>2. temp' \in [TempNames -> Dirs \cup {NoDir}]
    BY <1>t, <1>11, <2>1, WriteTypes DEF FinishExtract, AllNames, Contents, TypeOK
  <2>3. pc' \in [Launchers -> Labels] /\ out' \in [Launchers -> Results]
    BY <1>t, <1>11 DEF FinishExtract, TypeOK, Goto, Raise, Labels, Critical, Gathering, Results
  <2> QED BY <1>t, <1>11, <2>2, <2>3 DEF FinishExtract, TypeOK
<1>12. ASSUME NEW p \in Launchers, VerifyStaging(p) PROVE TypeOK'
  BY <1>t, <1>12 DEF VerifyStaging, TypeOK, Goto, Raise, Labels, Critical, Gathering, Results
<1>13. ASSUME NEW p \in Launchers, Publish(p) PROVE TypeOK'
  <2>1. dir[p] \in TempNames /\ temp[dir[p]] \in Dirs
    BY <1>13, LabelFacts DEF Publish, IInv, StagingHeld
  <2> QED BY <1>t, <1>13, <2>1
     DEF Publish, TypeOK, Goto, Raise, Labels, Critical, Gathering, Results
<1>14. ASSUME NEW p \in Launchers, Cleanup(p) PROVE TypeOK'
  BY <1>t, <1>14 DEF Cleanup, TypeOK, Goto, Labels, Critical
<1>15. ASSUME NEW p \in Launchers, Leave(p) PROVE TypeOK'
  BY <1>t, <1>15 DEF Leave, Lock!Release, Forget, TypeOK, Goto, Labels, Ended, Origins
<1>16. ASSUME NEW p \in Launchers, Interrupt(p) PROVE TypeOK'
  <2>1. count' \in [Counters -> Nat]
    BY <1>t, <1>16, BumpTypes DEF Interrupt, Fault, Counters
  <2> QED BY <1>t, <1>16, <2>1 DEF Interrupt, TypeOK, Goto, Raise, Labels, Critical, Results
<1>17. ASSUME NEW p \in Launchers, Kill(p) PROVE TypeOK'
  <2>1. count' \in [Counters -> Nat]
    BY <1>t, <1>17, BumpTypes DEF Kill, Fault, Counters
  <2> QED BY <1>t, <1>17, <2>1
     DEF Kill, Lock!Die, Forget, TypeOK, Goto, Labels, Ended, Origins, Results
<1>18. ASSUME EditBundle PROVE TypeOK'
  <2>1. count' \in [Counters -> Nat]
    BY <1>t, <1>18, BumpTypes DEF EditBundle, Fault, Counters
  <2> QED BY <1>t, <1>18, <2>1 DEF EditBundle, TypeOK
<1>19. ASSUME Damage PROVE TypeOK'
  <2>1. count' \in [Counters -> Nat]
    BY <1>t, <1>19, BumpTypes DEF Damage, Fault, Counters
  <2>2. entry' \in Dirs
    BY <1>t, <1>19 DEF Damage, TypeOK, Dirs
  <2> QED BY <1>t, <1>19, <2>1, <2>2 DEF Damage, TypeOK
<1>20. CASE UNCHANGED vars
  BY <1>t, <1>20 DEF vars, TypeOK
<1> QED
  BY <1>1, <1>2, <1>3, <1>4, <1>5, <1>6, <1>7, <1>8, <1>9, <1>10, <1>11, <1>12, <1>13,
     <1>14, <1>15, <1>16, <1>17, <1>18, <1>19, <1>20 DEF Next, Step

\* While one launcher is in the critical section the others are outside, without
\* a staging directory.
LEMMA Alone ==
    ASSUME IInv, NEW p \in Launchers, pc[p] \in Critical, NEW q \in Launchers \ {p}
    PROVE  pc[q] \notin Critical /\ dir[q] \notin TempNames
<1>1. pc[q] \notin Critical
  BY ConstantsAssumption DEF IInv, HolderOnly
<1>2. dir[q] \notin TempNames
  BY <1>1, LabelFacts DEF IInv, StagingHeld
<1> QED BY <1>1, <1>2

\* What one launcher's step in the critical section has to keep: its own part.
LEMMA OwnPart ==
    ASSUME IInv, TypeOK', NEW p \in Launchers, pc[p] \in Critical,
           \A q \in Launchers \ {p} : pc'[q] = pc[q] /\ dir'[q] = dir[q],
           pc'[p] \in Critical => lock' = p,
           pc'[p] \in Gathering \cup {"cleanup"} => dir'[p] \in TempNames,
           pc'[p] \in Gathering => temp'[dir'[p]] \in Dirs /\ entry' = NoDir,
           dir'[p] \in TempNames => pc'[p] \in Gathering \cup {"cleanup"},
           pc'[p] = "publish" => Intact(temp'[dir'[p]]),
           pc'[p] \in {"check_archive", "extract"} => archive' # NoArchive
    PROVE  IInv'
<1>1. \A q \in Launchers \ {p} : pc'[q] \notin Critical /\ dir'[q] \notin TempNames
  BY Alone
<1>2. HolderOnly'
  BY <1>1 DEF HolderOnly
<1>3. StagingHeld'
  BY <1>1, LabelFacts DEF StagingHeld
<1>4. StillAbsent'
  BY <1>1, LabelFacts DEF StillAbsent
<1>5. Verified'
  BY <1>1, LabelFacts DEF Verified
<1>6. ArchivePinned'
  BY <1>1, LabelFacts DEF ArchivePinned
<1> QED BY <1>2, <1>3, <1>4, <1>5, <1>6 DEF IInv

\* An error in the `try` keeps the staging directory for the `finally` clause.
LEMMA RaiseKeeps ==
    ASSUME IInv, TypeOK', NEW p \in Launchers, pc[p] \in Gathering, NEW code,
           Raise(p, code), UNCHANGED <<lock, entry, dir>>
    PROVE  IInv'
<1>1. pc'[p] = "cleanup" /\ \A q \in Launchers \ {p} : pc'[q] = pc[q]
  BY DEF Raise, Goto, IInv, TypeOK
<1>2. lock = p /\ dir[p] \in TempNames
  BY LabelFacts DEF IInv, HolderOnly, StagingHeld
<1>3. pc'[p] \notin Gathering
  BY <1>1, LabelFacts
<1> QED BY <1>1, <1>2, <1>3, LabelFacts, OwnPart

\* A step of the `try` to the next one, with the staging directory still there.
LEMMA GatherKeeps ==
    ASSUME IInv, TypeOK', NEW p \in Launchers, pc[p] \in Gathering,
           NEW label \in Gathering, Goto(p, label),
           UNCHANGED <<lock, entry, dir, archive>>,
           temp'[dir[p]] \in Dirs,
           label = "publish" => Intact(temp'[dir[p]]),
           label \in {"check_archive", "extract"} => archive # NoArchive
    PROVE  IInv'
<1>1. pc'[p] = label /\ \A q \in Launchers \ {p} : pc'[q] = pc[q]
  BY DEF Goto, IInv, TypeOK
<1>2. lock = p /\ dir[p] \in TempNames /\ entry = NoDir
  BY LabelFacts DEF IInv, HolderOnly, StagingHeld, StillAbsent
<1> QED BY <1>1, <1>2, LabelFacts, OwnPart

LEMMA IInvInductive == IInv /\ [Next]_vars => IInv'
<1> SUFFICES ASSUME IInv, [Next]_vars PROVE IInv'
  OBVIOUS
<1>t. TypeOK /\ TypeOK'
  BY TypeInductive DEF IInv
<1>g. ASSUME NEW p \in Launchers, pc[p] \in Gathering
      PROVE  dir[p] \in TempNames /\ temp[dir[p]] \in Dirs
  BY <1>g DEF IInv, StagingHeld
<1>1. ASSUME NEW p \in Launchers, Start(p) PROVE IInv'
  <2>1. pc'[p] = "lock" /\ \A q \in Launchers \ {p} : pc'[q] = pc[q]
    BY <1>1, <1>t DEF Start, Goto, TypeOK
  <2>2. dir[p] \notin TempNames
    BY <1>1, LabelFacts DEF Start, IInv, StagingHeld
  <2>3. UNCHANGED <<lock, entry, temp, archive, dir>>
    BY <1>1 DEF Start
  <2> QED BY <1>t, <2>1, <2>2, <2>3, LabelFacts
     DEF IInv, HolderOnly, StagingHeld, StillAbsent, Verified, ArchivePinned
<1>2. ASSUME NEW p \in Launchers, AcquireLock(p) PROVE IInv'
  <2>1. pc'[p] = "check" /\ \A q \in Launchers \ {p} : pc'[q] = pc[q]
    BY <1>2, <1>t DEF AcquireLock, Goto, TypeOK
  <2>2. lock = NoProc /\ lock' = p /\ UNCHANGED <<entry, temp, archive, dir>>
    BY <1>2 DEF AcquireLock, Lock!Acquire, Lock!Free
  <2>3. \A q \in Launchers : pc[q] \notin Critical
    BY <2>2, ConstantsAssumption DEF IInv, HolderOnly
  <2>4. \A q \in Launchers : dir[q] \notin TempNames
    BY <2>3, LabelFacts DEF IInv, StagingHeld
  <2> QED BY <1>t, <2>1, <2>2, <2>3, <2>4, LabelFacts
     DEF IInv, HolderOnly, StagingHeld, StillAbsent, Verified, ArchivePinned
<1>3. ASSUME NEW p \in Launchers, Reuse(p) PROVE IInv'
  <2>1. pc[p] = "check" /\ pc'[p] = "leave" /\ \A q \in Launchers \ {p} : pc'[q] = pc[q]
    BY <1>3, <1>t DEF Reuse, Goto, TypeOK
  <2>2. UNCHANGED <<lock, entry, temp, archive, dir>>
    BY <1>3 DEF Reuse
  <2>3. lock = p /\ dir[p] \notin TempNames
    BY <2>1, LabelFacts DEF IInv, HolderOnly, StagingHeld
  <2> QED BY <1>t, <2>1, <2>2, <2>3, LabelFacts, OwnPart
<1>4. ASSUME NEW p \in Launchers, Stage(p) PROVE IInv'
  <2>1. PICK t \in TempNames : /\ temp' = [temp EXCEPT ![t] = Empty]
                               /\ dir' = [dir EXCEPT ![p] = t]
    BY <1>4 DEF Stage, Unused
  <2>2. /\ pc[p] = "check" /\ pc'[p] \in {"verify_bundle", "fetch"}
        /\ \A q \in Launchers \ {p} : pc'[q] = pc[q] /\ dir'[q] = dir[q]
        /\ entry = NoDir /\ UNCHANGED <<lock, entry, archive>>
    BY <1>4, <1>t, <2>1 DEF Stage, Goto, TypeOK
  <2>3. Empty \in Dirs
    BY DEF Empty, Dirs, Contents
  <2>4. dir'[p] = t /\ temp'[t] \in Dirs
    BY <1>t, <2>1, <2>3 DEF TypeOK
  <2>5. lock = p
    BY <2>2, LabelFacts DEF IInv, HolderOnly
  <2> QED BY <1>t, <2>2, <2>4, <2>5, LabelFacts, OwnPart
<1>5. ASSUME NEW p \in Launchers, VerifyBundle(p) PROVE IInv'
  <2>1. pc[p] \in Gathering /\ UNCHANGED <<lock, entry, temp, dir, archive>>
    BY <1>5, LabelFacts DEF VerifyBundle
  <2>2. CASE Goto(p, "copy")
    BY <1>t, <1>g, <2>1, <2>2, LabelFacts, GatherKeeps
  <2>3. CASE Raise(p, "refused")
    BY <1>t, <2>1, <2>3, RaiseKeeps
  <2> QED BY <1>5, <2>2, <2>3 DEF VerifyBundle
<1>6. ASSUME NEW p \in Launchers, CopyFile(p) PROVE IInv'
  <2>1. pc[p] \in Gathering /\ UNCHANGED <<lock, entry, dir, archive>>
    BY <1>6, LabelFacts DEF CopyFile
  <2>2. CASE Raise(p, "refused")
    BY <1>t, <2>1, <2>2, RaiseKeeps
  <2>3. ASSUME NEW n \in Names, bundle[n] # "none", Write(p, n, bundle[n]),
               Goto(p, IF seen'[p] = Names THEN "verify" ELSE "copy")
        PROVE  IInv'
    <3>1. n \in AllNames /\ bundle[n] \in Contents
      BY <1>t DEF AllNames, TypeOK
    <3>2. temp'[dir[p]] \in Dirs
      BY <1>t, <1>g, <2>1, <2>3, <3>1, WriteTypes
    <3>3. Goto(p, "verify") \/ Goto(p, "copy")
      BY <2>3
    <3> QED BY <1>t, <2>1, <3>2, <3>3, LabelFacts, GatherKeeps
  <2> QED BY <1>6, <2>2, <2>3 DEF CopyFile
<1>7. ASSUME NEW p \in Launchers, NoPayload(p) PROVE IInv'
  BY <1>t, <1>7, LabelFacts, RaiseKeeps DEF NoPayload
<1>8. ASSUME NEW p \in Launchers, Fetch(p) PROVE IInv'
  <2>1. /\ pc[p] \in Gathering /\ UNCHANGED <<lock, entry, dir, archive>>
        /\ archive # NoArchive
    BY <1>8, LabelFacts DEF Fetch
  <2>2. CASE Raise(p, "refused")
    BY <1>t, <2>1, <2>2, RaiseKeeps
  <2>3. ASSUME NEW data \in {"good", "bad"}, Write(p, Download, data), Goto(p, "check_archive")
        PROVE  IInv'
    <3>1. Download \in AllNames /\ data \in Contents
      BY DEF AllNames, Contents
    <3>2. temp'[dir[p]] \in Dirs
      BY <1>t, <1>g, <2>1, <2>3, <3>1, WriteTypes
    <3> QED BY <1>t, <2>1, <2>3, <3>2, LabelFacts, GatherKeeps
  <2> QED BY <1>8, <2>2, <2>3 DEF Fetch
<1>9. ASSUME NEW p \in Launchers, CheckArchive(p) PROVE IInv'
  <2>1. /\ pc[p] \in Gathering /\ UNCHANGED <<lock, entry, temp, dir, archive>>
        /\ archive # NoArchive
    BY <1>9, LabelFacts DEF CheckArchive, IInv, ArchivePinned
  <2>2. CASE Goto(p, "extract")
    BY <1>t, <1>g, <2>1, <2>2, LabelFacts, GatherKeeps
  <2>3. CASE Raise(p, "refused")
    BY <1>t, <2>1, <2>3, RaiseKeeps
  <2> QED BY <1>9, <2>2, <2>3 DEF CheckArchive
<1>10. ASSUME NEW p \in Launchers, ExtractMember(p) PROVE IInv'
  <2>1. /\ pc[p] \in Gathering /\ UNCHANGED <<lock, entry, dir, archive>>
        /\ archive # NoArchive /\ pc[p] = "extract"
    BY <1>10, LabelFacts DEF ExtractMember, IInv, ArchivePinned
  <2>2. CASE Raise(p, "refused")
    BY <1>t, <2>1, <2>2, RaiseKeeps
  <2>3. ASSUME NEW m \in Members, m.name \in Names, Write(p, m.name, m.data), UNCHANGED pc
        PROVE  IInv'
    <3>1. m.name \in AllNames /\ m.data \in Contents
      BY <2>3 DEF AllNames, Members, Contents
    <3>2. temp'[dir[p]] \in Dirs
      BY <1>t, <1>g, <2>1, <2>3, <3>1, WriteTypes
    <3>3. Goto(p, "extract")
      BY <1>t, <2>1, <2>3 DEF Goto, TypeOK
    <3> QED BY <1>t, <2>1, <3>2, <3>3, LabelFacts, GatherKeeps
  <2>4. archive[Taken(p) + 1] \in Members
    BY <1>t, <1>10, <2>1, NextMember DEF ExtractMember
  <2> QED BY <1>10, <2>2, <2>3, <2>4 DEF ExtractMember
<1>11. ASSUME NEW p \in Launchers, FinishExtract(p) PROVE IInv'
  <2>1. pc[p] \in Gathering /\ UNCHANGED <<lock, entry, dir, archive>>
    BY <1>11, LabelFacts DEF FinishExtract
  <2>2. CASE Raise(p, "refused")
    BY <1>t, <2>1, <2>2, RaiseKeeps
  <2>3. CASE Write(p, Download, "none") /\ Goto(p, "verify")
    <3>1. Download \in AllNames /\ "none" \in Contents
      BY DEF AllNames, Contents
    <3>2. temp'[dir[p]] \in Dirs
      BY <1>t, <1>g, <2>1, <2>3, <3>1, WriteTypes
    <3> QED BY <1>t, <2>1, <2>3, <3>2, LabelFacts, GatherKeeps
  <2> QED BY <1>11, <2>2, <2>3 DEF FinishExtract
<1>12. ASSUME NEW p \in Launchers, VerifyStaging(p) PROVE IInv'
  <2>1. pc[p] \in Gathering /\ UNCHANGED <<lock, entry, temp, dir, archive>>
    BY <1>12, LabelFacts DEF VerifyStaging
  <2>2. CASE Intact(temp[dir[p]]) /\ Goto(p, "publish")
    BY <1>t, <1>g, <2>1, <2>2, LabelFacts, GatherKeeps
  <2>3. CASE Raise(p, "refused")
    BY <1>t, <2>1, <2>3, RaiseKeeps
  <2> QED BY <1>12, <2>2, <2>3 DEF VerifyStaging
<1>13. ASSUME NEW p \in Launchers, Publish(p) PROVE IInv'
  <2>1. pc[p] \in Gathering /\ UNCHANGED <<lock, dir>> /\ Goto(p, "cleanup")
    BY <1>13, LabelFacts DEF Publish, Raise
  <2>2. pc'[p] = "cleanup" /\ \A q \in Launchers \ {p} : pc'[q] = pc[q]
    BY <1>t, <2>1 DEF Goto, TypeOK
  <2>3. lock = p /\ dir[p] \in TempNames
    BY <2>1, LabelFacts DEF IInv, HolderOnly, StagingHeld
  <2> QED BY <1>t, <2>1, <2>2, <2>3, LabelFacts, OwnPart
<1>14. ASSUME NEW p \in Launchers, Cleanup(p) PROVE IInv'
  <2>1. /\ pc[p] = "cleanup" /\ pc'[p] = "leave" /\ dir'[p] = NoTemp /\ UNCHANGED lock
        /\ \A q \in Launchers \ {p} : pc'[q] = pc[q] /\ dir'[q] = dir[q]
    BY <1>14, <1>t DEF Cleanup, Goto, TypeOK
  <2>2. lock = p /\ dir'[p] \notin TempNames
    BY <2>1, LabelFacts, ConstantsAssumption DEF IInv, HolderOnly
  <2> QED BY <1>t, <2>1, <2>2, LabelFacts, OwnPart
<1>15. ASSUME NEW p \in Launchers, Leave(p) PROVE IInv'
  <2>1. /\ pc[p] = "leave" /\ pc'[p] \in Ended /\ dir'[p] = NoTemp
        /\ \A q \in Launchers \ {p} : pc'[q] = pc[q] /\ dir'[q] = dir[q]
    BY <1>15, <1>t DEF Leave, Forget, Goto, TypeOK, Ended
  <2>2. dir'[p] \notin TempNames /\ pc'[p] \notin Critical
    BY <2>1, LabelFacts, ConstantsAssumption
  <2> QED BY <1>t, <2>1, <2>2, LabelFacts, OwnPart
<1>16. ASSUME NEW p \in Launchers, Interrupt(p) PROVE IInv'
  BY <1>t, <1>16, RaiseKeeps DEF Interrupt
<1>17. ASSUME NEW p \in Launchers, Kill(p) PROVE IInv'
  <2>1. /\ pc'[p] = "killed" /\ dir'[p] = NoTemp
        /\ \A q \in Launchers \ {p} : pc'[q] = pc[q] /\ dir'[q] = dir[q]
        /\ UNCHANGED <<entry, temp, archive>>
    BY <1>17, <1>t DEF Kill, Forget, Goto, TypeOK
  <2>2. dir'[p] \notin TempNames /\ pc'[p] \notin Critical
    BY <2>1, LabelFacts, ConstantsAssumption DEF Ended
  <2>3. \A q \in Launchers \ {p} : lock = q => lock' = q
    BY <1>17 DEF Kill, Lock!Die
  <2> QED BY <1>t, <2>1, <2>2, <2>3, LabelFacts
     DEF IInv, HolderOnly, StagingHeld, StillAbsent, Verified, ArchivePinned
<1>18. ASSUME EditBundle PROVE IInv'
  BY <1>t, <1>18
     DEF EditBundle, IInv, HolderOnly, StagingHeld, StillAbsent, Verified, ArchivePinned
<1>19. ASSUME Damage PROVE IInv'
  BY <1>t, <1>19
     DEF Damage, IInv, HolderOnly, StagingHeld, StillAbsent, Verified, ArchivePinned
<1>20. CASE UNCHANGED vars
  BY <1>t, <1>20
     DEF vars, IInv, HolderOnly, StagingHeld, StillAbsent, Verified, ArchivePinned
<1> QED
  BY <1>1, <1>2, <1>3, <1>4, <1>5, <1>6, <1>7, <1>8, <1>9, <1>10, <1>11, <1>12, <1>13,
     <1>14, <1>15, <1>16, <1>17, <1>18, <1>19, <1>20 DEF Next, Step

LEMMA Invariant == Spec => []IInv
<1>1. IInv /\ [Next]_vars => IInv'
  BY IInvInductive
<1> QED BY InitIInv, <1>1, PTL DEF Spec

\* Every variable of prepare_package keeps its type, whatever fails or is killed; only
\* declared members are ever extracted from an archive.
THEOREM CacheTypes == Spec => []TypeOK
<1>1. IInv => TypeOK
  BY DEF IInv
<1> QED BY <1>1, Invariant, PTL

\* The launcher that is about to rename its staging directory holds the lock, no
\* entry is there, and the directory is intact.
THEOREM PublicationIsSafe == Spec => []PublishSafe
<1>1. IInv => PublishSafe
  BY LabelFacts DEF IInv, HolderOnly, StillAbsent, Verified, PublishSafe
<1> QED BY <1>1, Invariant, PTL

-------------------------------------------------------------------------------
(* Staging directories that nobody owns.                                    *)

Litter == {t \in TempNames : temp[t] # NoDir /\ ~ Owned(t)}

LitterCounted == IsFiniteSet(Litter) /\ Cardinality(Litter) <= count["kills"]

\* Without new litter the count stands.
LEMMA NoNewLitter ==
    ASSUME TypeOK, LitterCounted, Litter' \subseteq Litter,
           UNCHANGED count \/ \E c \in Counters \ {"kills"} : Bump(c)
    PROVE  LitterCounted'
<1>1. IsFiniteSet(Litter') /\ Cardinality(Litter') <= Cardinality(Litter)
  BY FS_Subset DEF LitterCounted
<1>2. count'["kills"] = count["kills"]
  BY DEF TypeOK, Bump, Counters
<1>3. Cardinality(Litter') \in Nat /\ Cardinality(Litter) \in Nat /\ count["kills"] \in Nat
  BY <1>1, FS_CardinalityType DEF LitterCounted, TypeOK, Counters
<1> QED BY <1>1, <1>2, <1>3 DEF LitterCounted

\* A launcher that writes into its own staging directory makes no litter.
LEMMA OwnWrites ==
    ASSUME NEW p \in Launchers, dir[p] \in TempNames, UNCHANGED dir,
           \A t \in TempNames \ {dir[p]} : temp'[t] = temp[t]
    PROVE  Litter' \subseteq Litter
BY DEF Litter, Owned

LEMMA LitterInductive == IInv /\ LitterCounted /\ [Next]_vars => LitterCounted'
<1> SUFFICES ASSUME IInv, LitterCounted, [Next]_vars PROVE LitterCounted'
  OBVIOUS
<1>t. TypeOK
  BY DEF IInv
<1>n. ASSUME Litter' \subseteq Litter,
             UNCHANGED count \/ \E c \in Counters \ {"kills"} : Bump(c)
      PROVE  LitterCounted'
  BY <1>t, <1>n, NoNewLitter
<1>u. ASSUME UNCHANGED <<temp, dir>> PROVE Litter' \subseteq Litter
  BY <1>u DEF Litter, Owned
<1>w. ASSUME NEW p \in Launchers, pc[p] \in Gathering, NEW n, NEW c, Write(p, n, c),
             UNCHANGED dir
      PROVE  Litter' \subseteq Litter
  <2>1. dir[p] \in TempNames
    BY <1>w DEF IInv, StagingHeld
  <2>2. \A t \in TempNames \ {dir[p]} : temp'[t] = temp[t]
    BY <1>t, <1>w DEF Write, TypeOK
  <2> QED BY <1>w, <2>1, <2>2, OwnWrites
<1>1. ASSUME NEW p \in Launchers, Start(p) PROVE LitterCounted'
  BY <1>1, <1>n, <1>u DEF Start, Counters
<1>2. ASSUME NEW p \in Launchers,
             AcquireLock(p) \/ Reuse(p) \/ VerifyBundle(p) \/ NoPayload(p)
                \/ CheckArchive(p) \/ VerifyStaging(p)
      PROVE  LitterCounted'
  BY <1>2, <1>n, <1>u DEF AcquireLock, Reuse, VerifyBundle, NoPayload, CheckArchive,
     VerifyStaging
<1>3. ASSUME NEW p \in Launchers, Stage(p) PROVE LitterCounted'
  <2>1. PICK t \in TempNames : /\ temp' = [temp EXCEPT ![t] = Empty]
                               /\ dir' = [dir EXCEPT ![p] = t]
    BY <1>3 DEF Stage, Unused
  <2>2. dir[p] \notin TempNames
    BY <1>3, LabelFacts DEF Stage, IInv, StagingHeld
  <2>3. /\ dir'[p] = t /\ \A q \in Launchers \ {p} : dir'[q] = dir[q]
        /\ \A u \in TempNames \ {t} : temp'[u] = temp[u]
    BY <1>t, <2>1 DEF TypeOK
  <2>4. Litter' \subseteq Litter
    BY <2>2, <2>3 DEF Litter, Owned
  <2> QED BY <1>3, <1>n, <2>4 DEF Stage
<1>4. ASSUME NEW p \in Launchers, CopyFile(p) PROVE LitterCounted'
  <2>1. Litter' \subseteq Litter
    BY <1>4, <1>u, <1>w, LabelFacts DEF CopyFile
  <2> QED BY <1>4, <1>n, <2>1 DEF CopyFile
<1>5. ASSUME NEW p \in Launchers, Fetch(p) PROVE LitterCounted'
  <2>1. Litter' \subseteq Litter
    BY <1>5, <1>u, <1>w, LabelFacts DEF Fetch
  <2> QED BY <1>5, <1>n, <2>1 DEF Fetch
<1>6. ASSUME NEW p \in Launchers, ExtractMember(p) PROVE LitterCounted'
  <2>1. Litter' \subseteq Litter
    BY <1>6, <1>u, <1>w, LabelFacts DEF ExtractMember
  <2> QED BY <1>6, <1>n, <2>1 DEF ExtractMember
<1>7. ASSUME NEW p \in Launchers, FinishExtract(p) PROVE LitterCounted'
  <2>1. Litter' \subseteq Litter
    BY <1>7, <1>u, <1>w, LabelFacts DEF FinishExtract
  <2> QED BY <1>7, <1>n, <2>1 DEF FinishExtract
<1>8. ASSUME NEW p \in Launchers, Publish(p) PROVE LitterCounted'
  <2>1. dir[p] \in TempNames
    BY <1>8, LabelFacts DEF Publish, IInv, StagingHeld
  <2>2. \A t \in TempNames \ {dir[p]} : temp'[t] = temp[t]
    BY <1>t, <1>8, <2>1 DEF Publish, TypeOK
  <2> QED BY <1>8, <1>n, <2>1, <2>2, OwnWrites DEF Publish
<1>9. ASSUME NEW p \in Launchers, Cleanup(p) PROVE LitterCounted'
  <2>1. dir[p] \in TempNames
    BY <1>9, LabelFacts DEF Cleanup, IInv, StagingHeld
  <2>2. /\ temp'[dir[p]] = NoDir
        /\ \A t \in TempNames \ {dir[p]} : temp'[t] = temp[t]
        /\ \A q \in Launchers \ {p} : dir'[q] = dir[q]
    BY <1>t, <1>9, <2>1 DEF Cleanup, TypeOK
  <2>3. Litter' \subseteq Litter
    BY <2>1, <2>2 DEF Litter, Owned
  <2> QED BY <1>9, <1>n, <2>3 DEF Cleanup
<1>10. ASSUME NEW p \in Launchers, Leave(p) PROVE LitterCounted'
  <2>1. dir[p] \notin TempNames
    BY <1>10, LabelFacts DEF Leave, IInv, StagingHeld
  <2>2. UNCHANGED temp /\ \A q \in Launchers \ {p} : dir'[q] = dir[q]
    BY <1>t, <1>10 DEF Leave, Forget, TypeOK
  <2>3. Litter' \subseteq Litter
    BY <2>1, <2>2 DEF Litter, Owned
  <2> QED BY <1>10, <1>n, <2>3 DEF Leave
<1>11. ASSUME NEW p \in Launchers, Interrupt(p) PROVE LitterCounted'
  BY <1>11, <1>n, <1>u DEF Interrupt, Fault, Counters
<1>12. ASSUME NEW p \in Launchers, Kill(p) PROVE LitterCounted'
  <2>1. UNCHANGED temp /\ \A q \in Launchers \ {p} : dir'[q] = dir[q]
    BY <1>t, <1>12 DEF Kill, Forget, TypeOK
  <2>2. Litter' \subseteq Litter \cup {dir[p]}
    BY <2>1 DEF Litter, Owned
  <2>3. /\ IsFiniteSet(Litter \cup {dir[p]})
        /\ Cardinality(Litter \cup {dir[p]}) <= Cardinality(Litter) + 1
    BY FS_AddElement, FS_CardinalityType DEF LitterCounted
  <2>4. IsFiniteSet(Litter') /\ Cardinality(Litter') <= Cardinality(Litter \cup {dir[p]})
    BY <2>2, <2>3, FS_Subset
  <2>5. count'["kills"] = count["kills"] + 1 /\ count["kills"] \in Nat
    BY <1>t, <1>12 DEF Kill, Fault, Bump, TypeOK, Counters
  <2>6. /\ Cardinality(Litter') \in Nat /\ Cardinality(Litter) \in Nat
        /\ Cardinality(Litter \cup {dir[p]}) \in Nat
    BY <2>3, <2>4, FS_CardinalityType DEF LitterCounted
  <2> QED BY <2>3, <2>4, <2>5, <2>6 DEF LitterCounted
<1>13. ASSUME EditBundle PROVE LitterCounted'
  BY <1>13, <1>n, <1>u DEF EditBundle, Fault, Counters
<1>14. ASSUME Damage PROVE LitterCounted'
  BY <1>14, <1>n, <1>u DEF Damage, Fault, Counters
<1>15. CASE UNCHANGED vars
  BY <1>15, <1>n, <1>u DEF vars
<1> QED
  BY <1>1, <1>2, <1>3, <1>4, <1>5, <1>6, <1>7, <1>8, <1>9, <1>10, <1>11, <1>12, <1>13,
     <1>14, <1>15 DEF Next, Step

\* Only killed launchers leave staging directories behind, at most one each,
\* however often calls fail, are refused or interrupted.
THEOREM LitterIsFromKills == Spec => []LitterOnlyFromKills
<1>1. Init => LitterCounted
  <2> SUFFICES ASSUME Init PROVE LitterCounted
    OBVIOUS
  <2>1. Litter = {} /\ count["kills"] = 0
    BY DEF Init, Litter, Counters
  <2> QED BY <2>1, FS_EmptySet DEF LitterCounted
<1>2. LitterCounted => LitterOnlyFromKills
  BY DEF LitterCounted, Litter, LitterOnlyFromKills
<1> QED BY <1>1, <1>2, Invariant, LitterInductive, PTL DEF Spec

-------------------------------------------------------------------------------
(* prepare_package implements CacheEntry.                                   *)

\* A call ends without a path, or another one begins.
LEMMA ForgetStep ==
    ASSUME TypeOK, NEW p \in Launchers, NEW code, code # "ok",
           out' = [out EXCEPT ![p] = code], UNCHANGED entry
    PROVE  Abs!Forget(p)
<1>1. {q \in Launchers : out'[q] = "ok"} = {q \in Launchers : out[q] = "ok"} \ {p}
  BY DEF TypeOK
<1> QED BY <1>1 DEF Abs!Forget

LEMMA StepSimulation == IInv /\ IInv' /\ [Next]_vars => [Abs!EntryNext]_(Abs!entryVars)
<1> SUFFICES ASSUME IInv, IInv', [Next]_vars
             PROVE  Abs!EntryNext \/ UNCHANGED Abs!entryVars
  OBVIOUS
<1>t. TypeOK /\ TypeOK'
  BY DEF IInv
<1>s. ASSUME UNCHANGED <<entry, out>> PROVE UNCHANGED Abs!entryVars
  BY <1>s DEF Abs!entryVars
<1>r. ASSUME NEW p \in Launchers, NEW code, code # "ok",
             out' = [out EXCEPT ![p] = code], UNCHANGED entry
      PROVE  Abs!EntryNext
  BY <1>t, <1>r, ForgetStep DEF Abs!EntryNext
<1>a. ASSUME NEW p \in Launchers, out' = [out EXCEPT ![p] = "ok"]
      PROVE  {q \in Launchers : out'[q] = "ok"} = {q \in Launchers : out[q] = "ok"} \cup {p}
  BY <1>t, <1>a DEF TypeOK
<1>1. ASSUME NEW p \in Launchers, Start(p) \/ Kill(p) PROVE Abs!EntryNext
  BY <1>1, <1>r DEF Start, Kill
<1>2. ASSUME NEW p \in Launchers, Reuse(p) PROVE Abs!EntryNext
  <2>1. CASE Intact(entry)
    <3>1. entry # NoDir /\ UNCHANGED entry /\ out' = [out EXCEPT ![p] = "ok"]
      BY <1>2, <2>1 DEF Reuse
    <3>2. Abs!Grant(p)
      BY <1>a, <2>1, <3>1 DEF Abs!Grant
    <3> QED BY <3>2 DEF Abs!EntryNext
  <2>2. CASE ~ Intact(entry)
    BY <1>2, <1>r, <2>2 DEF Reuse
  <2> QED BY <2>1, <2>2
<1>3. ASSUME NEW p \in Launchers, Publish(p) PROVE Abs!EntryNext
  <2>1. CASE entry = NoDir
    <3>1. entry' = temp[dir[p]] /\ out' = [out EXCEPT ![p] = "ok"]
      BY <1>3, <2>1 DEF Publish
    <3>2. temp[dir[p]] \in Dirs /\ Intact(temp[dir[p]])
      BY <1>3, LabelFacts DEF Publish, IInv, StagingHeld, Verified
    <3>3. entry' # NoDir /\ Intact(entry')
      BY <3>1, <3>2, ConstantsAssumption
    <3>4. Abs!Install(p)
      BY <1>a, <2>1, <3>1, <3>3 DEF Abs!Install
    <3> QED BY <3>4 DEF Abs!EntryNext
  <2>2. CASE entry # NoDir
    BY <1>3, <1>r, <2>2 DEF Publish, Raise
  <2> QED BY <2>1, <2>2
<1>4. ASSUME NEW p \in Launchers,
             VerifyBundle(p) \/ CopyFile(p) \/ NoPayload(p) \/ Fetch(p) \/ CheckArchive(p)
                \/ ExtractMember(p) \/ FinishExtract(p) \/ VerifyStaging(p) \/ Interrupt(p)
      PROVE  Abs!EntryNext \/ UNCHANGED Abs!entryVars
  <2>1. UNCHANGED entry /\ (UNCHANGED out \/ \E code \in {"refused", "interrupted"} : Raise(p, code))
    BY <1>4 DEF VerifyBundle, CopyFile, NoPayload, Fetch, CheckArchive, ExtractMember,
       FinishExtract, VerifyStaging, Interrupt
  <2> QED BY <1>r, <1>s, <2>1 DEF Raise
<1>5. ASSUME NEW p \in Launchers, AcquireLock(p) \/ Stage(p) \/ Cleanup(p) \/ Leave(p)
      PROVE  UNCHANGED Abs!entryVars
  BY <1>5, <1>s DEF AcquireLock, Stage, Cleanup, Leave
<1>6. ASSUME Damage PROVE Abs!EntryNext
  <2>1. entry # NoDir /\ UNCHANGED out
    BY <1>6 DEF Damage
  <2>2. entry' \in Dirs
    BY <1>t, <1>6 DEF Damage, TypeOK, Dirs
  <2>3. Abs!Harm
    BY <2>1, <2>2, ConstantsAssumption DEF Abs!Harm
  <2> QED BY <2>3 DEF Abs!EntryNext
<1>7. ASSUME EditBundle \/ UNCHANGED vars PROVE UNCHANGED Abs!entryVars
  BY <1>7, <1>s DEF EditBundle, vars
<1> QED BY <1>1, <1>2, <1>3, <1>4, <1>5, <1>6, <1>7 DEF Next, Step

\* The entry of a package is write-once: installed whole, never altered by a
\* launcher, and granted only while it is intact.
THEOREM ImplementsCacheEntry == Spec => RefinesCacheEntry
<1>1. Init => Abs!EntryInit
  BY DEF Init, Abs!EntryInit
<1> QED BY <1>1, Invariant, StepSimulation, PTL DEF Spec, RefinesCacheEntry, Abs!EntrySpec
===============================================================================
