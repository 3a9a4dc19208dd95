--------------------------- MODULE ServingModelProofs ---------------------------
(***************************************************************************)
(* For any launchers, files, calls and faults: what the rename shows is    *)
(* whole, receipts bind hashed copies, and an engine reads what was        *)
(* verified unless it was changed after the last look.                     *)
(***************************************************************************)
EXTENDS ServingModel, TLAPS

Verifying(p, kind) == pc[p] \in {"verify", "hash"} /\ pass[p] = kind

\* The launcher is making the directory; it has one; it has a plan.
Staging(p) == pc[p] \in {"copy", "source"} \/ Verifying(p, "staged")
Existing(p) ==
    \/ Verifying(p, "light") \/ Verifying(p, "full") \/ Verifying(p, "again")
    \/ pc[p] = "remember"
Settled(p) == pc[p] \in {"planned", "load"} \/ Verifying(p, "plan")

\* Only the holder of the lock makes, verifies or remembers a directory.
Holder(p) == pc[p] = "check" \/ Staging(p) \/ Existing(p) => lock = p

\* A copy is hashed after its row was taken, in a full pass.
HashPlace(p) == pc[p] = "hash" => pass[p] \in Hashing /\ file[p] \in Copied \ todo[p]

\* What the loops over some of the files have left.
LoopTodo(p) ==
    /\ pc[p] = "copy" => todo[p] \subseteq Copied
    /\ pc[p] \in {"source", "planned"} => todo[p] \subseteq Linked

\* There is a temporary directory and no other, or there is one.
DirectoryThere(p) ==
    /\ Staging(p) => target = NoDir /\ temp[p] \in Dirs
    /\ Existing(p) \/ Settled(p) => target # NoDir

\* A copy, once made, is in its first version until it is published.
CopiesMade(p) ==
    Staging(p) => \A f \in Copied : (pc[p] = "copy" /\ f \in todo[p]) \/ Len(temp[p][f]) = 1

BeingHashed(p, f) == pc[p] = "hash" /\ f = file[p]

\* What the passes of verify have established of the copies so far.
StagedHashed(p) ==
    Verifying(p, "staged") =>
        \A f \in Copied \ todo[p] :
            rec[p][f] = 1 /\ (Good(temp[p][f], 1) \/ BeingHashed(p, f))

FullHashed(p) ==
    Verifying(p, "full") =>
        \A f \in Copied \ todo[p] :
            /\ rec[p][f] \in 1 .. Len(target[f])
            /\ \/ Good(target[f], rec[p][f])
               \/ rec[p][f] # Len(target[f])
               \/ BeingHashed(p, f)

AgainCompared(p) ==
    Verifying(p, "again") =>
        \A f \in Copied :
            /\ rec[p][f] \in 1 .. Len(target[f])
            /\ \/ Good(target[f], rec[p][f])
               \/ f \in todo[p] /\ rec[p][f] # Len(target[f])

\* The engine loads after the last validation.
LoadPass(p) == pc[p] = "load" => pass[p] = "plan"

\* What is about to be remembered, or planned.
RecordsGood(p) ==
    pc[p] = "remember" \/ Settled(p) => \A f \in Copied : Good(target[f], rec[p][f])

\* The rows of links are fingerprints there have been, and after validate_source
\* that of the inspection.
LinkSeen(p, f) ==
    \/ f \notin todo[p] /\ \/ Verifying(p, "staged")
                           \/ Verifying(p, "light")
                           \/ Verifying(p, "full")
    \/ Verifying(p, "again") \/ pc[p] \in {"remember", "planned"}

LinkInspected(p, f) ==
    \/ pc[p] = "planned" /\ f \notin todo[p]
    \/ Verifying(p, "plan") \/ pc[p] = "load"

LinkRows(p) ==
    \A f \in Linked :
        /\ LinkSeen(p, f) => rec[p][f] \in 1 .. Len(weights[f])
        /\ LinkInspected(p, f) => rec[p][f] = 1

\* What was compared in the last validation is current, or late.
Sealed(f) == IF f \in Linked THEN weights[f] ELSE target[f]
Current(p, f) == rec[p][f] = Len(Sealed(f)) \/ f \in late[p]

PlanChecked(p) ==
    /\ Verifying(p, "plan") => \A f \in Files \ todo[p] : Current(p, f)
    /\ pc[p] = "load" => \A f \in Files : Current(p, f)

LoadedGood(p) ==
    /\ pc[p] = "load" => \A f \in Files \ todo[p] : loaded[p][f] = "good" \/ f \in late[p]
    /\ pc[p] = "serving" => \A f \in Files : loaded[p][f] = "good" \/ f \in late[p]

LauncherInv(p) ==
    /\ Holder(p) /\ HashPlace(p) /\ LoopTodo(p) /\ DirectoryThere(p) /\ CopiesMade(p)
    /\ StagedHashed(p) /\ FullHashed(p) /\ AgainCompared(p)
    /\ LoadPass(p) /\ RecordsGood(p) /\ LinkRows(p) /\ PlanChecked(p) /\ LoadedGood(p)

WeightsInspected == \A f \in Linked : Good(weights[f], 1)

IInv ==
    /\ TypeOK
    /\ WeightsInspected
    /\ PublishedWhole
    /\ ReceiptsBindGoodCopies
    /\ \A p \in Launchers : LauncherInv(p)

-------------------------------------------------------------------------------
\* The phases exclude each other, seen by the label and the pass.
LEMMA Phases ==
    ASSUME NEW p \in Launchers
    PROVE  /\ pc[p] \in Ended \cup {"lock"} =>
                 ~ Staging(p) /\ ~ Existing(p) /\ (pc[p] # "check") /\ ~ Settled(p)
           /\ Settled(p) => ~ Staging(p) /\ ~ Existing(p) /\ pc[p] # "check"
           /\ Existing(p) => ~ Staging(p)
BY DEF Ended, Staging, Existing, Settled, Verifying

\* Writing one cell of a matrix writes that cell only.
LEMMA CellUpdate ==
    ASSUME NEW I, NEW J, NEW V, NEW F \in [I -> [J -> V]], NEW i \in I, NEW j \in J,
           NEW v \in V, NEW G, G = [F EXCEPT ![i][j] = v]
    PROVE  /\ G \in [I -> [J -> V]]
           /\ \A k \in I, l \in J : G[k][l] = IF k = i /\ l = j THEN v ELSE F[k][l]
           /\ \A k \in I \ {i} : G[k] = F[k]
<1> DEFINE row == [F[i] EXCEPT ![j] = v]
<1>1. G = [F EXCEPT ![i] = row]
  OBVIOUS
<1>2. row \in [J -> V] /\ \A l \in J : row[l] = IF l = j THEN v ELSE F[i][l]
  OBVIOUS
<1> HIDE DEF row
<1> QED BY <1>1, <1>2

\* A file that changes keeps what it has been.
LEMMA AppendKeeps ==
    ASSUME NEW h \in Seq(Contents), NEW c \in Contents
    PROVE  /\ Append(h, c) \in Seq(Contents) /\ Len(Append(h, c)) = Len(h) + 1
           /\ \A n \in 1 .. Len(h) : Append(h, c)[n] = h[n]
           /\ \A n : Good(h, n) => Good(Append(h, c), n)
BY DEF Good

LEMMA InitIInv == Init => IInv
<1> SUFFICES ASSUME Init PROVE IInv
  OBVIOUS
<1> USE ServingAssumption DEF Init
<1>1. <<"good">> \in Seq(Contents) /\ Good(<<"good">>, 1)
  BY DEF Contents, Good
<1>2. TypeOK
  BY <1>1 DEF TypeOK, Labels, Ended, Passes, None, Contents
<1>3. WeightsInspected /\ PublishedWhole /\ ReceiptsBindGoodCopies
  BY <1>1 DEF WeightsInspected, PublishedWhole, ReceiptsBindGoodCopies
<1>4. ASSUME NEW p \in Launchers PROVE LauncherInv(p)
  BY DEF LauncherInv, Holder, HashPlace, LoopTodo, DirectoryThere, CopiesMade, StagedHashed,
     FullHashed, AgainCompared, LoadPass, RecordsGood, LinkRows, LinkSeen, LinkInspected,
     PlanChecked, LoadedGood, Staging, Existing, Settled, Verifying
<1> QED BY <1>2, <1>3, <1>4 DEF IInv

-------------------------------------------------------------------------------
(* Types.                                                                   *)

\* Every file there is has a content.
LEMMA ContentTypes ==
    ASSUME IInv, NEW p \in Launchers, NEW f \in Files,
           Verifying(p, "staged") \/ Existing(p) \/ Settled(p),
           pass[p] # "staged" \/ pc[p] \in {"verify", "hash"}
    PROVE  /\ History(p, f) \in Seq(Contents) /\ Fingerprint(p, f) \in Nat /\ Fingerprint(p, f) >= 1
           /\ Content(p, f) \in Contents
<1>1. CASE f \in Linked
  <2>1. weights[f] \in Seq(Contents) /\ Len(weights[f]) >= 1
    BY <1>1 DEF IInv, TypeOK, WeightsInspected, Good
  <2> QED BY <1>1, <2>1 DEF History, Fingerprint, Content
<1>2. CASE f \in Copied /\ f \notin Linked
  <2>1. CASE pass[p] = "staged"
    <3>1. temp[p] \in Dirs /\ Len(temp[p][f]) = 1
      BY <1>2, <2>1 DEF IInv, LauncherInv, DirectoryThere, CopiesMade, Staging, Verifying
    <3>2. temp[p][f] \in Seq(Contents)
      BY <1>2, <3>1 DEF Dirs
    <3>3. History(p, f) = temp[p][f]
      BY <1>2, <2>1 DEF History, Root
    <3>4. temp[p][f][1] \in Contents
      BY <3>1, <3>2
    <3> QED BY <3>1, <3>2, <3>3, <3>4 DEF Fingerprint, Content
  <2>2. CASE pass[p] # "staged"
    <3>1. target # NoDir
      BY <2>2 DEF IInv, LauncherInv, DirectoryThere, Verifying
    <3>2. target[f] \in Seq(Contents)
      <4>1. target \in Dirs
        BY <3>1 DEF IInv, TypeOK
      <4> QED BY <1>2, <4>1 DEF Dirs
    <3>3. Len(target[f]) >= 1
      BY <1>2, <3>1 DEF IInv, PublishedWhole, Good
    <3> QED BY <1>2, <2>2, <3>2, <3>3 DEF History, Fingerprint, Content, Root
  <2> QED BY <2>1, <2>2
<1> QED BY <1>1, <1>2 DEF Files

LEMMA TypeInductive == IInv /\ [Next]_vars => TypeOK'
<1> SUFFICES ASSUME IInv, [Next]_vars PROVE TypeOK'
  OBVIOUS
<1>t. TypeOK
  BY DEF IInv
<1> USE ServingAssumption DEF disk
<1>l. ASSUME NEW p \in Launchers, NEW label \in Labels, Leave(p, label)
      PROVE  /\ lock' \in Launchers \cup {NoProc} /\ pc' \in [Launchers -> Labels]
             /\ temp' \in [Launchers -> Dirs \cup {NoDir}]
  BY <1>t, <1>l DEF TypeOK, Leave, Goto, Lock!Die
<1>f. ASSUME NEW p \in Launchers, Fail(p)
      PROVE  /\ lock' \in Launchers \cup {NoProc} /\ pc' \in [Launchers -> Labels]
             /\ temp' \in [Launchers -> Dirs \cup {NoDir}]
             /\ UNCHANGED <<weights, target, receipts>>
  <2>1. "failed" \in Labels
    BY DEF Labels, Ended
  <2> QED BY <1>l, <1>f, <2>1 DEF Fail
<1>v. ASSUME NEW p \in Launchers, NEW kind \in Passes, Verify(p, kind)
      PROVE  /\ pc' \in [Launchers -> Labels] /\ pass' \in [Launchers -> Passes]
             /\ todo' \in [Launchers -> SUBSET Files]
  BY <1>t, <1>v DEF TypeOK, Verify, Goto, Labels, Locked
<1>p. ASSUME NEW p \in Launchers, Plan(p)
      PROVE  /\ lock' \in Launchers \cup {NoProc} /\ pc' \in [Launchers -> Labels]
             /\ todo' \in [Launchers -> SUBSET Files]
  BY <1>t, <1>p DEF TypeOK, Plan, Goto, Lock!Release, Labels, Files
<1>c. ASSUME Fault PROVE faults' \in Nat
  BY <1>t, <1>c DEF TypeOK, Fault
<1>1. ASSUME NEW p \in Launchers, Begin(p) PROVE TypeOK'
  <2>1. None \in [Files -> Nat]
    BY DEF None
  <2> HIDE DEF None
  <2> QED BY <1>t, <1>1, <2>1 DEF Begin, TypeOK, Goto, Labels
<1>2. ASSUME NEW p \in Launchers, AcquireLock(p) PROVE TypeOK'
  BY <1>t, <1>2 DEF AcquireLock, Lock!Acquire, TypeOK, Goto, Labels, Locked
<1>3. ASSUME NEW p \in Launchers, Reuse(p) PROVE TypeOK'
  BY <1>t, <1>3, <1>v DEF Reuse, TypeOK, Passes
<1>4. ASSUME NEW p \in Launchers, MakeTemp(p) PROVE TypeOK'
  <2>1. [f \in Copied |-> <<>>] \in Dirs
    BY DEF Dirs
  <2>2. temp' \in [Launchers -> Dirs \cup {NoDir}]
    BY <1>t, <1>4, <2>1 DEF MakeTemp, TypeOK
  <2> QED BY <1>t, <1>4, <2>2 DEF MakeTemp, TypeOK, Goto, Labels, Locked, Files
<1>5. ASSUME NEW p \in Launchers, Copy(p) PROVE TypeOK'
  <2>1. temp[p] \in Dirs
    BY <1>5 DEF Copy, IInv, LauncherInv, DirectoryThere, Staging
  <2>2. PICK f \in todo[p], c \in Contents : /\ temp' = [temp EXCEPT ![p][f] = <<c>>]
                                             /\ todo' = [todo EXCEPT ![p] = @ \ {f}]
    BY <1>5 DEF Copy
  <2> DEFINE d == [temp[p] EXCEPT ![f] = <<c>>]
  <2>3. d \in Dirs
    <3>1. <<c>> \in Seq(Contents)
      OBVIOUS
    <3> QED BY <2>1, <3>1 DEF Dirs
  <2>5. temp' = [temp EXCEPT ![p] = d]
    BY <2>2
  <2> HIDE DEF d
  <2>4. temp' \in [Launchers -> Dirs \cup {NoDir}]
    BY <1>t, <2>3, <2>5 DEF TypeOK
  <2> QED BY <1>t, <1>5, <2>2, <2>4 DEF Copy, TypeOK
<1>6. ASSUME NEW p \in Launchers, StartSource(p) PROVE TypeOK'
  BY <1>t, <1>6 DEF StartSource, TypeOK, Goto, Labels, Locked, Files
<1>7. ASSUME NEW p \in Launchers, CheckSource(p) PROVE TypeOK'
  <2>1. CASE Fail(p) /\ UNCHANGED <<todo, late>>
    BY <1>t, <1>7, <1>f, <2>1 DEF CheckSource, TypeOK
  <2>2. ASSUME NEW f \in todo[p],
               todo' = [todo EXCEPT ![p] = @ \ {f}], late' = [late EXCEPT ![p] = @ \ {f}],
               UNCHANGED <<lock, disk, pc>>
        PROVE  TypeOK'
    BY <1>t, <1>7, <2>2 DEF CheckSource, TypeOK
  <2> QED BY <1>7, <2>1, <2>2 DEF CheckSource
<1>8. ASSUME NEW p \in Launchers, SourceChecked(p) PROVE TypeOK'
  <2>1. CASE Fail(p) /\ UNCHANGED <<pass, todo>>
    BY <1>t, <1>8, <1>f, <2>1 DEF SourceChecked, TypeOK
  <2>2. CASE ~ (Fail(p) /\ UNCHANGED <<pass, todo>>)
    BY <1>t, <1>8, <1>v, <2>2 DEF SourceChecked, TypeOK, Passes
  <2> QED BY <2>1, <2>2
<1>9. ASSUME NEW p \in Launchers, VerifyFile(p) PROVE TypeOK'
  <2>1. CASE Fail(p) /\ UNCHANGED <<todo, file, rec, late>>
    BY <1>t, <1>9, <1>f, <2>1 DEF VerifyFile, TypeOK
  <2>2. ASSUME NEW f \in todo[p], Take(p, f, Fingerprint(p, f)),
               IF pass[p] \in Hashing /\ f \in Copied
               THEN Goto(p, "hash") /\ file' = [file EXCEPT ![p] = f]
               ELSE UNCHANGED <<pc, file>>,
               UNCHANGED <<lock, disk>>
        PROVE  TypeOK'
    <3>1. f \in Files
      BY <1>t, <2>2 DEF TypeOK
    <3>2. Fingerprint(p, f) \in Nat
      <4>1. Verifying(p, "staged") \/ Existing(p) \/ Settled(p)
        BY <1>t, <1>9 DEF VerifyFile, TypeOK, Passes, Verifying, Existing, Settled
      <4> QED BY <1>9, <3>1, <4>1, ContentTypes DEF VerifyFile
    <3>3. rec' \in [Launchers -> [Files -> Nat]]
      <4>1. CASE rec' = rec
        BY <1>t, <4>1 DEF TypeOK
      <4>2. CASE rec' = [rec EXCEPT ![p][f] = Fingerprint(p, f)]
        BY <1>t, <3>1, <3>2, <4>2, CellUpdate DEF TypeOK
      <4> QED BY <2>2, <4>1, <4>2 DEF Take
    <3>4. /\ todo' \in [Launchers -> SUBSET Files] /\ late' \in [Launchers -> SUBSET Files]
      BY <1>t, <2>2 DEF Take, TypeOK
    <3>5. pc' \in [Launchers -> Labels] /\ file' \in [Launchers -> Files]
      <4>1. "hash" \in Labels
        BY DEF Labels, Locked
      <4>2. CASE Goto(p, "hash") /\ file' = [file EXCEPT ![p] = f]
        BY <1>t, <3>1, <4>1, <4>2 DEF Goto, TypeOK
      <4>3. CASE UNCHANGED <<pc, file>>
        BY <1>t, <4>3 DEF TypeOK
      <4> QED BY <2>2, <4>2, <4>3
    <3> QED BY <1>t, <1>9, <2>2, <3>3, <3>4, <3>5 DEF VerifyFile, TypeOK
  <2> QED BY <1>9, <2>1, <2>2 DEF VerifyFile
<1>10. ASSUME NEW p \in Launchers, HashFile(p) PROVE TypeOK'
  <2>1. CASE Fail(p)
    BY <1>t, <1>10, <1>f, <2>1 DEF HashFile, TypeOK
  <2>2. CASE Goto(p, "verify") /\ UNCHANGED <<lock, disk>>
    BY <1>t, <1>10, <2>2 DEF HashFile, TypeOK, Goto, Labels, Locked
  <2> QED BY <1>10, <2>1, <2>2 DEF HashFile
<1>11. ASSUME NEW p \in Launchers, Publish(p) PROVE TypeOK'
  BY <1>t, <1>11 DEF Publish, TypeOK, Goto, Labels, Locked
<1>12. ASSUME NEW p \in Launchers, DecideReceipt(p) PROVE TypeOK'
  <2>1. CASE Plan(p) /\ UNCHANGED pass
    BY <1>t, <1>12, <1>p, <2>1 DEF DecideReceipt, TypeOK
  <2>2. CASE Verify(p, "full") /\ UNCHANGED lock
    BY <1>t, <1>12, <1>v, <2>2 DEF DecideReceipt, TypeOK, Passes
  <2> QED BY <1>12, <2>1, <2>2 DEF DecideReceipt
<1>13. ASSUME NEW p \in Launchers, VerifyAgain(p) PROVE TypeOK'
  <2>1. CASE Verify(p, "again")
    BY <1>t, <1>13, <1>v, <2>1 DEF VerifyAgain, TypeOK, Passes
  <2>2. CASE ~ Verify(p, "again")
    BY <1>t, <1>13, <2>2 DEF VerifyAgain, TypeOK, Goto, Labels, Locked
  <2> QED BY <2>1, <2>2
<1>14. ASSUME NEW p \in Launchers, Remember(p) PROVE TypeOK'
  <2>1. pc[p] = "remember" /\ LauncherInv(p) /\ rec[p] \in [Files -> Nat]
    BY <1>t, <1>14 DEF Remember, IInv, TypeOK
  <2>2. ASSUME NEW f \in Copied PROVE rec[p][f] \in Nat \ {0}
    BY <2>1, <2>2 DEF LauncherInv, RecordsGood, Good
  <2>3. ASSUME NEW f \in Linked PROVE rec[p][f] \in Nat \ {0}
    BY <2>1, <2>3 DEF LauncherInv, LinkRows, LinkSeen
  <2>4. rec[p] \in [Files -> Nat \ {0}]
    BY <2>1, <2>2, <2>3 DEF Files
  <2>5. receipts' \in SUBSET [Files -> Nat \ {0}]
    BY <1>t, <1>14, <2>4 DEF Remember, TypeOK
  <2> QED BY <1>t, <1>14, <1>p, <2>5 DEF Remember, TypeOK
<1>15. ASSUME NEW p \in Launchers, StartLoad(p) PROVE TypeOK'
  BY <1>t, <1>15 DEF StartLoad, TypeOK, Goto, Labels
<1>16. ASSUME NEW p \in Launchers, LoadFile(p) PROVE TypeOK'
  <2>1. PICK f \in todo[p] :
           /\ loaded' = [loaded EXCEPT ![p][f] = Content(p, f)]
           /\ todo' = [todo EXCEPT ![p] = @ \ {f}]
           /\ Goto(p, IF todo'[p] = {} THEN "serving" ELSE "load")
    BY <1>16 DEF LoadFile
  <2>2. f \in Files
    BY <1>t DEF TypeOK
  <2>3. pass[p] # "staged"
    BY <1>16 DEF LoadFile, IInv, LauncherInv, LoadPass
  <2>4. Content(p, f) \in Contents
    BY <1>16, <2>2, <2>3, ContentTypes DEF LoadFile, Settled
  <2>5. loaded' \in [Launchers -> [Files -> Contents]]
    BY <1>t, <2>1, <2>2, <2>4, CellUpdate DEF TypeOK
  <2>6. todo' \in [Launchers -> SUBSET Files] /\ pc' \in [Launchers -> Labels]
    BY <1>t, <2>1 DEF TypeOK, Goto, Labels, Ended
  <2> QED BY <1>t, <1>16, <2>5, <2>6 DEF LoadFile, TypeOK
<1>17. ASSUME NEW p \in Launchers, Interrupt(p) \/ Kill(p) PROVE TypeOK'
  <2>1. "aborted" \in Labels /\ "killed" \in Labels
    BY DEF Labels, Ended
  <2> QED BY <1>t, <1>17, <1>l, <1>c, <2>1 DEF Interrupt, Kill, TypeOK
<1>18. ASSUME Edit PROVE TypeOK'
  <2>1. PICK f \in Files, c \in Contents :
          /\ IF f \in Linked
             THEN weights' = [weights EXCEPT ![f] = Append(@, c)] /\ UNCHANGED target
             ELSE /\ target # NoDir
                  /\ target' = [target EXCEPT ![f] = Append(@, c)]
                  /\ UNCHANGED weights
          /\ late' = [p \in Launchers |-> late[p] \cup {f}]
    BY <1>18 DEF Edit
  <2>2. weights' \in [Linked -> Seq(Contents)]
    <3>1. CASE f \in Linked
      <4>1. Append(weights[f], c) \in Seq(Contents)
        BY <1>t, <3>1, AppendKeeps DEF TypeOK
      <4>2. weights' = [weights EXCEPT ![f] = Append(weights[f], c)]
        BY <2>1, <3>1
      <4> QED BY <1>t, <4>1, <4>2 DEF TypeOK
    <3>2. CASE f \notin Linked
      BY <1>t, <2>1, <3>2 DEF TypeOK
    <3> QED BY <3>1, <3>2
  <2>3. target' \in Dirs \cup {NoDir}
    <3>1. CASE f \notin Linked
      <4>1. target \in Dirs /\ f \in Copied
        BY <1>t, <2>1, <3>1 DEF TypeOK, Files
      <4>2. Append(target[f], c) \in Seq(Contents)
        BY <4>1, AppendKeeps DEF Dirs
      <4>3. target' = [target EXCEPT ![f] = Append(target[f], c)]
        BY <2>1, <3>1
      <4> QED BY <4>1, <4>2, <4>3 DEF Dirs
    <3>2. CASE f \in Linked
      BY <1>t, <2>1, <3>2 DEF TypeOK
    <3> QED BY <3>1, <3>2
  <2>4. late' \in [Launchers -> SUBSET Files]
    BY <1>t, <2>1 DEF TypeOK
  <2> QED BY <1>t, <1>18, <1>c, <2>2, <2>3, <2>4 DEF Edit, TypeOK
<1>19. CASE UNCHANGED vars
  BY <1>t, <1>19 DEF vars, TypeOK
<1> QED
  BY <1>1, <1>2, <1>3, <1>4, <1>5, <1>6, <1>7, <1>8, <1>9, <1>10, <1>11, <1>12, <1>13,
     <1>14, <1>15, <1>16, <1>17, <1>18, <1>19 DEF Next, Step

-------------------------------------------------------------------------------
(* The invariant.  One launcher moves at a time: the others keep their part. *)

OthersKeep(p) ==
    \A q \in Launchers \ {p} :
        /\ pc'[q] = pc[q] /\ pass'[q] = pass[q] /\ todo'[q] = todo[q] /\ file'[q] = file[q]
        /\ rec'[q] = rec[q] /\ late'[q] = late[q] /\ loaded'[q] = loaded[q]
        /\ temp'[q] = temp[q]
        /\ lock = q => lock' = q

LEMMA Frame ==
    ASSUME IInv, NEW p \in Launchers, OthersKeep(p), UNCHANGED <<weights, target>>,
           NEW q \in Launchers \ {p}
    PROVE  LauncherInv(q)'
<1> DEFINE Same == /\ pc'[q] = pc[q] /\ pass'[q] = pass[q] /\ todo'[q] = todo[q]
                   /\ file'[q] = file[q] /\ rec'[q] = rec[q] /\ late'[q] = late[q]
                   /\ loaded'[q] = loaded[q] /\ temp'[q] = temp[q]
                   /\ lock = q => lock' = q
                   /\ UNCHANGED <<weights, target>>
<1>1. Same
  BY DEF OthersKeep
<1>2. LauncherInv(q)
  BY DEF IInv
<1>3. Holder(q)' /\ HashPlace(q)' /\ LoopTodo(q)' /\ DirectoryThere(q)' /\ LoadPass(q)'
  BY <1>1, <1>2 DEF LauncherInv, Holder, HashPlace, LoopTodo, DirectoryThere, LoadPass,
     Staging, Existing, Settled, Verifying
<1>4. CopiesMade(q)' /\ StagedHashed(q)'
  BY <1>1, <1>2 DEF LauncherInv, CopiesMade, StagedHashed, BeingHashed, Staging, Verifying
<1>5. FullHashed(q)' /\ AgainCompared(q)' /\ RecordsGood(q)'
  BY <1>1, <1>2 DEF LauncherInv, FullHashed, AgainCompared, RecordsGood, BeingHashed,
     Settled, Verifying
<1>6. LinkRows(q)'
  BY <1>1, <1>2 DEF LauncherInv, LinkRows, LinkSeen, LinkInspected, Verifying
<1>7. PlanChecked(q)' /\ LoadedGood(q)'
  BY <1>1, <1>2 DEF LauncherInv, PlanChecked, LoadedGood, Current, Sealed, Verifying
<1> QED BY <1>3, <1>4, <1>5, <1>6, <1>7 DEF LauncherInv

\* A step that changes no file but a temporary directory.
LEMMA OneMoves ==
    ASSUME IInv, TypeOK', NEW p \in Launchers, OthersKeep(p), UNCHANGED <<weights, target>>,
           LauncherInv(p)', ReceiptsBindGoodCopies'
    PROVE  IInv'
<1>1. \A q \in Launchers : LauncherInv(q)'
  BY Frame
<1>2. WeightsInspected' /\ PublishedWhole'
  BY DEF IInv, WeightsInspected, PublishedWhole
<1> QED BY <1>1, <1>2 DEF IInv

LEMMA ReceiptsStand ==
    ASSUME IInv, UNCHANGED <<target, receipts>>
    PROVE  ReceiptsBindGoodCopies'
BY DEF IInv, ReceiptsBindGoodCopies

\* Outside prepare and after a plan has failed there is nothing to keep.
LEMMA Outside ==
    ASSUME NEW p \in Launchers, pc'[p] \in {"idle", "failed", "aborted", "killed", "lock"}
    PROVE  LauncherInv(p)'
BY DEF LauncherInv, Holder, HashPlace, LoopTodo, DirectoryThere, CopiesMade, StagedHashed,
   FullHashed, AgainCompared, LoadPass, RecordsGood, LinkRows, LinkSeen, LinkInspected,
   PlanChecked, LoadedGood, Staging, Existing, Settled, Verifying

\* A launcher that gives up disturbs nobody.
LEMMA LeaveKeeps ==
    ASSUME IInv, TypeOK', NEW p \in Launchers, NEW label \in {"failed", "aborted", "killed"},
           Leave(p, label),
           UNCHANGED <<weights, target, receipts, pass, todo, file, rec, late, loaded>>
    PROVE  IInv'
<1>1. OthersKeep(p) /\ pc'[p] = label
  BY DEF Leave, Goto, Lock!Die, OthersKeep, IInv, TypeOK
<1>2. LauncherInv(p)'
  BY <1>1, Outside
<1> QED BY <1>1, <1>2, OneMoves, ReceiptsStand

LEMMA FailKeeps ==
    ASSUME IInv, TypeOK', NEW p \in Launchers, Fail(p),
           UNCHANGED <<pass, todo, file, rec, late, loaded>>
    PROVE  IInv'
BY LeaveKeeps DEF Fail

LEMMA IInvInductive == IInv /\ [Next]_vars => IInv'
<1> SUFFICES ASSUME IInv, [Next]_vars PROVE IInv'
  OBVIOUS
<1>t. TypeOK /\ TypeOK'
  BY TypeInductive DEF IInv
<1>p. \A p \in Launchers : LauncherInv(p)
  BY DEF IInv
<1> USE ServingAssumption DEF disk
<1>1. ASSUME NEW p \in Launchers, Begin(p) PROVE IInv'
  <2>1. OthersKeep(p) /\ pc'[p] = "lock"
    BY <1>t, <1>1 DEF Begin, Goto, OthersKeep, TypeOK
  <2>2. LauncherInv(p)'
    BY <2>1, Outside
  <2> QED BY <1>t, <1>1, <2>1, <2>2, OneMoves, ReceiptsStand DEF Begin
<1>2. ASSUME NEW p \in Launchers, AcquireLock(p) PROVE IInv'
  <2>1. OthersKeep(p) /\ pc'[p] = "check" /\ lock' = p
    BY <1>t, <1>2 DEF AcquireLock, Lock!Acquire, Lock!Free, Goto, OthersKeep, TypeOK
  <2>2. LauncherInv(p)'
    BY <2>1 DEF LauncherInv, Holder, HashPlace, LoopTodo, DirectoryThere, CopiesMade,
       StagedHashed, FullHashed, AgainCompared, LoadPass, RecordsGood, LinkRows, LinkSeen,
       LinkInspected, PlanChecked, LoadedGood, Staging, Existing, Settled, Verifying
  <2> QED BY <1>t, <1>2, <2>1, <2>2, OneMoves, ReceiptsStand DEF AcquireLock
<1>3. ASSUME NEW p \in Launchers, Reuse(p) PROVE IInv'
  <2>1. OthersKeep(p) /\ pc'[p] = "verify" /\ pass'[p] = "light" /\ todo'[p] = Files
    BY <1>t, <1>3 DEF Reuse, Verify, Goto, OthersKeep, TypeOK
  <2>2. lock' = p /\ target' # NoDir
    BY <1>p, <1>3 DEF Reuse, LauncherInv, Holder
  <2>3. LauncherInv(p)'
    BY <2>1, <2>2 DEF LauncherInv, Holder, HashPlace, LoopTodo, DirectoryThere, CopiesMade,
       StagedHashed, FullHashed, AgainCompared, LoadPass, RecordsGood, LinkRows, LinkSeen,
       LinkInspected, PlanChecked, LoadedGood, Staging, Existing, Settled, Verifying, Files
  <2> QED BY <1>t, <1>3, <2>1, <2>3, OneMoves, ReceiptsStand DEF Reuse
<1>4. ASSUME NEW p \in Launchers, MakeTemp(p) PROVE IInv'
  <2>1. /\ OthersKeep(p) /\ pc'[p] = "copy" /\ todo'[p] = Copied
        /\ temp'[p] = [f \in Copied |-> <<>>] /\ target' = NoDir
    BY <1>t, <1>4 DEF MakeTemp, Goto, OthersKeep, TypeOK
  <2>2. lock' = p /\ temp'[p] \in Dirs
    <3>1. [f \in Copied |-> <<>>] \in Dirs
      BY DEF Dirs
    <3> QED BY <1>p, <1>4, <2>1, <3>1 DEF MakeTemp, LauncherInv, Holder
  <2>3. LauncherInv(p)'
    BY <2>1, <2>2 DEF LauncherInv, Holder, HashPlace, LoopTodo, DirectoryThere, CopiesMade,
       StagedHashed, FullHashed, AgainCompared, LoadPass, RecordsGood, LinkRows, LinkSeen,
       LinkInspected, PlanChecked, LoadedGood, Staging, Existing, Settled, Verifying
  <2> QED BY <1>t, <1>4, <2>1, <2>3, OneMoves, ReceiptsStand DEF MakeTemp
<1>5. ASSUME NEW p \in Launchers, Copy(p) PROVE IInv'
  <2>1. PICK f \in todo[p], c \in Contents : /\ temp' = [temp EXCEPT ![p][f] = <<c>>]
                                             /\ todo' = [todo EXCEPT ![p] = @ \ {f}]
    BY <1>5 DEF Copy
  <2>2. temp[p] \in Dirs /\ target = NoDir /\ lock = p /\ todo[p] \subseteq Copied
    BY <1>p, <1>5 DEF Copy, LauncherInv, DirectoryThere, Holder, LoopTodo, Staging
  <2> DEFINE d == [temp[p] EXCEPT ![f] = <<c>>]
  <2>3. d \in Dirs /\ d[f] = <<c>> /\ \A g \in Copied \ {f} : d[g] = temp[p][g]
    <3>1. <<c>> \in Seq(Contents)
      OBVIOUS
    <3> QED BY <2>2, <3>1 DEF Dirs
  <2>4. temp' = [temp EXCEPT ![p] = d]
    BY <2>1
  <2> HIDE DEF d
  <2>5. OthersKeep(p) /\ temp'[p] = d /\ todo'[p] = todo[p] \ {f}
    BY <1>t, <1>5, <2>1, <2>4 DEF Copy, OthersKeep, TypeOK
  <2>6. CopiesMade(p)'
    <3>1. CopiesMade(p) /\ pc[p] = "copy" /\ pc'[p] = "copy"
      BY <1>p, <1>5 DEF LauncherInv, Copy
    <3>2. Len(d[f]) = 1
      BY <2>3
    <3> QED BY <2>2, <2>3, <2>5, <3>1, <3>2 DEF CopiesMade, Staging
  <2>7. pc'[p] = "copy" /\ target' = NoDir /\ lock' = p /\ temp'[p] \in Dirs
        /\ todo'[p] \subseteq Copied
    BY <1>5, <2>2, <2>3, <2>5 DEF Copy
  <2>8. LauncherInv(p)'
    BY <2>6, <2>7 DEF LauncherInv, Holder, HashPlace, LoopTodo, DirectoryThere,
       StagedHashed, FullHashed, AgainCompared, LoadPass, RecordsGood, LinkRows, LinkSeen,
       LinkInspected, PlanChecked, LoadedGood, Staging, Existing, Settled, Verifying
  <2> QED BY <1>t, <1>5, <2>5, <2>8, OneMoves, ReceiptsStand DEF Copy
<1>6. ASSUME NEW p \in Launchers, StartSource(p) PROVE IInv'
  <2>1. OthersKeep(p) /\ pc'[p] = "source" /\ todo'[p] = Linked /\ UNCHANGED <<lock, disk>>
    BY <1>t, <1>6 DEF StartSource, Goto, OthersKeep, TypeOK
  <2>2. /\ lock = p /\ target = NoDir /\ temp[p] \in Dirs
        /\ \A f \in Copied : Len(temp[p][f]) = 1
    BY <1>p, <1>6 DEF StartSource, LauncherInv, Holder, DirectoryThere, CopiesMade, Staging
  <2>3. LauncherInv(p)'
    BY <2>1, <2>2 DEF LauncherInv, Holder, HashPlace, LoopTodo, DirectoryThere, CopiesMade,
       StagedHashed, FullHashed, AgainCompared, LoadPass, RecordsGood, LinkRows, LinkSeen,
       LinkInspected, PlanChecked, LoadedGood, Staging, Existing, Settled, Verifying
  <2> QED BY <1>t, <2>1, <2>3, OneMoves, ReceiptsStand
<1>7. ASSUME NEW p \in Launchers, CheckSource(p) PROVE IInv'
  <2>1. CASE Fail(p) /\ UNCHANGED <<todo, late>>
    BY <1>t, <1>7, <2>1, FailKeeps DEF CheckSource
  <2>2. ASSUME NEW f \in todo[p], Len(weights[f]) = 1,
               todo' = [todo EXCEPT ![p] = @ \ {f}], late' = [late EXCEPT ![p] = @ \ {f}],
               UNCHANGED <<lock, disk, pc>>
        PROVE  IInv'
    <3>1. /\ OthersKeep(p) /\ todo'[p] = todo[p] \ {f}
          /\ UNCHANGED <<lock, disk, pc, pass, file, rec, loaded>>
      BY <1>t, <1>7, <2>2 DEF CheckSource, OthersKeep, TypeOK
    <3>2. pc[p] \in {"source", "planned"}
      BY <1>7 DEF CheckSource
    <3>3. /\ Holder(p)' /\ HashPlace(p)' /\ LoopTodo(p)' /\ DirectoryThere(p)' /\ LoadPass(p)'
          /\ CopiesMade(p)' /\ StagedHashed(p)' /\ FullHashed(p)' /\ AgainCompared(p)'
          /\ RecordsGood(p)' /\ PlanChecked(p)' /\ LoadedGood(p)'
      BY <1>p, <3>1, <3>2 DEF LauncherInv, Holder, HashPlace, LoopTodo, DirectoryThere,
         CopiesMade, StagedHashed, FullHashed, AgainCompared, LoadPass, RecordsGood,
         PlanChecked, LoadedGood, Staging, Existing, Settled, Verifying
    <3>4. LinkRows(p)'
      <4>1. LinkRows(p) /\ (f \in Linked)
        BY <1>p, <3>2, <2>2 DEF LauncherInv, LoopTodo
      <4>2. pc[p] = "planned" => rec[p][f] = 1
        <5>1. pc[p] = "planned" => rec[p][f] \in 1 .. Len(weights[f])
          BY <4>1 DEF LinkRows, LinkSeen
        <5>2. Len(weights[f]) = 1 /\ 1 .. 1 = {1}
          BY <2>2
        <5> QED BY <5>1, <5>2
      <4> QED BY <3>1, <3>2, <4>1, <4>2 DEF LinkRows, LinkSeen, LinkInspected, Verifying
    <3>5. LauncherInv(p)'
      BY <3>3, <3>4 DEF LauncherInv
    <3> QED BY <1>t, <3>1, <3>5, OneMoves, ReceiptsStand
  <2> QED BY <1>7, <2>1, <2>2 DEF CheckSource
<1>8. ASSUME NEW p \in Launchers, SourceChecked(p) PROVE IInv'
  <2>1. CASE Fail(p) /\ UNCHANGED <<pass, todo>>
    BY <1>t, <1>8, <2>1, FailKeeps DEF SourceChecked
  <2>2. CASE ~ (Fail(p) /\ UNCHANGED <<pass, todo>>)
    <3>1. /\ OthersKeep(p) /\ pc'[p] = "verify" /\ todo'[p] = Files
          /\ pass'[p] = IF pc[p] = "source" THEN "staged" ELSE "plan"
          /\ UNCHANGED <<lock, disk, file, rec, late, loaded>>
      BY <1>t, <1>8, <2>2 DEF SourceChecked, Verify, Goto, OthersKeep, TypeOK
    <3>2. pc[p] \in {"source", "planned"} /\ todo[p] = {} /\ LauncherInv(p)
      BY <1>p, <1>8 DEF SourceChecked
    <3>3. Holder(p)' /\ HashPlace(p)' /\ LoopTodo(p)' /\ DirectoryThere(p)' /\ LoadPass(p)'
      BY <3>1, <3>2 DEF LauncherInv, Holder, HashPlace, LoopTodo, DirectoryThere, LoadPass,
         Staging, Existing, Settled, Verifying
    <3>4. CopiesMade(p)' /\ StagedHashed(p)' /\ FullHashed(p)' /\ AgainCompared(p)'
          /\ RecordsGood(p)'
      BY <3>1, <3>2 DEF LauncherInv, CopiesMade, StagedHashed, FullHashed, AgainCompared,
         RecordsGood, Staging, Settled, Verifying, Files
    <3>5. LinkRows(p)' /\ PlanChecked(p)' /\ LoadedGood(p)'
      BY <3>1, <3>2 DEF LauncherInv, LinkRows, LinkSeen, LinkInspected, PlanChecked,
         LoadedGood, Verifying, Files
    <3>6. LauncherInv(p)'
      BY <3>3, <3>4, <3>5 DEF LauncherInv
    <3> QED BY <1>t, <3>1, <3>6, OneMoves, ReceiptsStand
  <2> QED BY <2>1, <2>2
<1>9. ASSUME NEW p \in Launchers, VerifyFile(p) PROVE IInv'
  <2>1. CASE Fail(p) /\ UNCHANGED <<todo, file, rec, late>>
    BY <1>t, <1>9, <2>1, FailKeeps DEF VerifyFile
  <2>2. ASSUME NEW f \in todo[p],
               pass[p] \in Compared => rec[p][f] = Fingerprint(p, f),
               Take(p, f, Fingerprint(p, f)),
               IF pass[p] \in Hashing /\ f \in Copied
               THEN Goto(p, "hash") /\ file' = [file EXCEPT ![p] = f]
               ELSE UNCHANGED <<pc, file>>,
               UNCHANGED <<lock, disk>>
        PROVE  IInv'
    <3> DEFINE print == Fingerprint(p, f)
               hashing == pass[p] \in Hashing /\ f \in Copied
    <3>1. f \in Files /\ pc[p] = "verify" /\ LauncherInv(p) /\ UNCHANGED <<pass, loaded>>
      BY <1>t, <1>p, <1>9, <2>2 DEF TypeOK, VerifyFile
    <3>2. /\ pc'[p] = IF hashing THEN "hash" ELSE "verify"
          /\ hashing => file'[p] = f
          /\ todo'[p] = todo[p] \ {f} /\ late'[p] = late[p] \ {f}
          /\ OthersKeep(p)
      <4>1. /\ pc'[p] = IF hashing THEN "hash" ELSE "verify"
            /\ hashing => file'[p] = f
            /\ \A q \in Launchers \ {p} : pc'[q] = pc[q] /\ file'[q] = file[q]
        BY <1>t, <2>2, <3>1 DEF Goto, TypeOK
      <4>2. /\ todo'[p] = todo[p] \ {f} /\ late'[p] = late[p] \ {f}
            /\ \A q \in Launchers \ {p} :
                  todo'[q] = todo[q] /\ late'[q] = late[q] /\ rec'[q] = rec[q]
        BY <1>t, <2>2 DEF Take, TypeOK
      <4> QED BY <2>2, <3>1, <4>1, <4>2 DEF OthersKeep
    <3>3. rec'[p][f] = print /\ \A g \in Files \ {f} : rec'[p][g] = rec[p][g]
      <4>1. CASE pass[p] \in Compared
        BY <2>2, <4>1 DEF Take
      <4>2. CASE pass[p] \notin Compared
        <5>1. rec' = [rec EXCEPT ![p][f] = print]
          BY <2>2, <4>2 DEF Take
        <5>2. rec \in [Launchers -> [Files -> Nat]] /\ print \in Nat
          <6>1. Verifying(p, "staged") \/ Existing(p) \/ Settled(p)
            BY <1>t, <3>1 DEF TypeOK, Passes, Verifying, Existing, Settled
          <6> QED BY <1>t, <3>1, <6>1, ContentTypes DEF TypeOK
        <5> HIDE DEF print
        <5> QED BY <3>1, <5>1, <5>2, CellUpdate
      <4> QED BY <4>1, <4>2
    <3>4. /\ f \in Linked => print = Len(weights[f])
          /\ f \in Copied /\ pass[p] = "staged" => print = Len(temp[p][f])
          /\ f \in Copied /\ pass[p] # "staged" => print = Len(target[f])
      BY DEF Fingerprint, History, Root
    <3>5. /\ \A g \in Linked : Len(weights[g]) \in Nat /\ Len(weights[g]) >= 1
          /\ target # NoDir => \A g \in Copied : Len(target[g]) \in Nat /\ Len(target[g]) >= 1
      BY DEF IInv, WeightsInspected, PublishedWhole, Good
    <3> HIDE DEF print
    <3>6. Holder(p)' /\ HashPlace(p)' /\ LoopTodo(p)' /\ DirectoryThere(p)' /\ LoadPass(p)'
      BY <2>2, <3>1, <3>2 DEF LauncherInv, Holder, HashPlace, LoopTodo, DirectoryThere,
         LoadPass, Staging, Existing, Settled, Verifying
    <3>7. CopiesMade(p)' /\ RecordsGood(p)' /\ LoadedGood(p)'
      BY <2>2, <3>1, <3>2, <3>3, <3>4 DEF LauncherInv, CopiesMade, RecordsGood, LoadedGood,
         Take, Compared, Staging, Settled, Verifying
    <3>8. StagedHashed(p)'
      BY <2>2, <3>1, <3>2, <3>3, <3>4 DEF LauncherInv, StagedHashed, CopiesMade, BeingHashed,
         Hashing, Staging, Verifying, Files
    <3>9. FullHashed(p)'
      <4> SUFFICES ASSUME pass[p] = "full", NEW g \in Copied \ (todo[p] \ {f})
                   PROVE  /\ rec'[p][g] \in 1 .. Len(target[g])
                          /\ \/ Good(target[g], rec'[p][g])
                             \/ rec'[p][g] # Len(target[g])
                             \/ pc'[p] = "hash" /\ g = file'[p]
        BY <2>2, <3>1, <3>2 DEF FullHashed, BeingHashed, Verifying
      <4>1. CASE g = f
        <5>1. target # NoDir
          BY <3>1 DEF LauncherInv, DirectoryThere, Existing, Verifying
        <5>2. rec'[p][g] = Len(target[g]) /\ pc'[p] = "hash" /\ g = file'[p]
          BY <3>2, <3>3, <3>4, <4>1 DEF Hashing
        <5> QED BY <3>5, <5>1, <5>2
      <4>2. CASE g # f
        <5>1. rec'[p][g] = rec[p][g] /\ g \in Copied \ todo[p]
          BY <3>3, <4>2 DEF Files
        <5> QED BY <3>1, <5>1 DEF LauncherInv, FullHashed, BeingHashed, Verifying
      <4> QED BY <4>1, <4>2
    <3>10. AgainCompared(p)'
      <4> SUFFICES ASSUME pass[p] = "again", NEW g \in Copied
                   PROVE  /\ rec'[p][g] \in 1 .. Len(target[g])
                          /\ \/ Good(target[g], rec'[p][g])
                             \/ g \in todo[p] \ {f} /\ rec'[p][g] # Len(target[g])
        BY <2>2, <3>1, <3>2 DEF AgainCompared, Verifying
      <4>1. rec' = rec /\ (g = f => rec[p][g] = Len(target[g]))
        BY <2>2, <3>3, <3>4 DEF Take, Compared
      <4>2. /\ rec[p][g] \in 1 .. Len(target[g])
            /\ \/ Good(target[g], rec[p][g])
               \/ g \in todo[p] /\ rec[p][g] # Len(target[g])
        BY <3>1 DEF LauncherInv, AgainCompared, Verifying
      <4>3. rec'[p][g] = rec[p][g]
        BY <4>1
      <4>4. CASE g = f
        BY <4>1, <4>2, <4>3, <4>4
      <4>5. CASE g # f
        BY <4>2, <4>3, <4>5
      <4> QED BY <4>4, <4>5
    <3>11. LinkRows(p)'
      <4> SUFFICES ASSUME NEW g \in Linked
                   PROVE  /\ LinkSeen(p, g)' => rec'[p][g] \in 1 .. Len(weights[g])
                          /\ LinkInspected(p, g)' => rec'[p][g] = 1
        BY <2>2 DEF LinkRows
      <4>1. /\ LinkSeen(p, g)' => LinkSeen(p, g) \/ (g = f /\ pass[p] \notin Compared)
            /\ LinkInspected(p, g)' => LinkInspected(p, g) /\ pass[p] \in Compared
        BY <2>2, <3>1, <3>2 DEF LinkSeen, LinkInspected, Verifying, Compared
      <4>2. /\ LinkSeen(p, g) => rec[p][g] \in 1 .. Len(weights[g])
            /\ LinkInspected(p, g) => rec[p][g] = 1
        BY <3>1 DEF LauncherInv, LinkRows
      <4>3. CASE g = f
        <5>1. rec'[p][g] \in 1 .. Len(weights[g])
          BY <3>3, <3>4, <3>5, <4>3
        <5>2. pass[p] \in Compared => rec'[p][g] = rec[p][g]
          BY <2>2 DEF Take
        <5> QED BY <4>1, <4>2, <5>1, <5>2
      <4>4. CASE g # f
        <5>1. rec'[p][g] = rec[p][g]
          BY <3>3, <4>4 DEF Files
        <5> QED BY <4>1, <4>2, <4>4, <5>1
      <4> QED BY <4>3, <4>4
    <3>12. PlanChecked(p)'
      BY <2>2, <3>1, <3>2, <3>3, <3>4 DEF LauncherInv, PlanChecked, Current, Sealed,
         Compared, Hashing, Verifying, Files
    <3>13. LauncherInv(p)'
      BY <3>6, <3>7, <3>8, <3>9, <3>10, <3>11, <3>12 DEF LauncherInv
    <3> QED BY <1>t, <2>2, <3>2, <3>13, OneMoves, ReceiptsStand
  <2> QED BY <1>9, <2>1, <2>2 DEF VerifyFile
<1>10. ASSUME NEW p \in Launchers, HashFile(p) PROVE IInv'
  <2> DEFINE changed == rec[p][file[p]] # Fingerprint(p, file[p])
  <2>1. CASE Fail(p)
    BY <1>t, <1>10, <2>1, FailKeeps DEF HashFile
  <2>2. CASE /\ Content(p, file[p]) = "good" \/ changed
             /\ Goto(p, "verify") /\ UNCHANGED <<lock, disk>>
    <3>1. /\ pc[p] = "hash" /\ pc'[p] = "verify" /\ OthersKeep(p) /\ LauncherInv(p)
          /\ UNCHANGED <<lock, disk, pass, todo, file, rec, late, loaded>>
      BY <1>t, <1>p, <1>10, <2>2 DEF HashFile, Goto, OthersKeep, TypeOK
    <3>2. file[p] \in Copied \ todo[p] /\ file[p] \notin Linked /\ pass[p] \in {"staged", "full"}
      BY <3>1 DEF LauncherInv, HashPlace, Hashing
    <3>3. Holder(p)' /\ HashPlace(p)' /\ LoopTodo(p)' /\ DirectoryThere(p)' /\ LoadPass(p)'
          /\ CopiesMade(p)' /\ RecordsGood(p)' /\ LoadedGood(p)'
      BY <3>1 DEF LauncherInv, Holder, HashPlace, LoopTodo, DirectoryThere, LoadPass,
         CopiesMade, RecordsGood, LoadedGood, Staging, Existing, Settled, Verifying
    <3>4. LinkRows(p)' /\ PlanChecked(p)' /\ AgainCompared(p)'
      BY <3>1, <3>2 DEF LauncherInv, LinkRows, LinkSeen, LinkInspected, PlanChecked,
         AgainCompared, Verifying
    <3>5. StagedHashed(p)'
      <4>1. CASE pass[p] = "staged"
        <5>1. History(p, file[p]) = temp[p][file[p]] /\ Len(temp[p][file[p]]) = 1
              /\ rec[p][file[p]] = 1
          BY <3>1, <3>2, <4>1 DEF LauncherInv, CopiesMade, StagedHashed, Staging, Verifying,
             History, Root
        <5>2. Good(temp[p][file[p]], 1)
          BY <2>2, <5>1 DEF Content, Fingerprint, Good
        <5> QED BY <3>1, <5>2 DEF LauncherInv, StagedHashed, BeingHashed, Verifying
      <4>2. CASE pass[p] # "staged"
        BY <3>1, <4>2 DEF StagedHashed, Verifying
      <4> QED BY <4>1, <4>2
    <3>6. FullHashed(p)'
      <4>1. CASE pass[p] = "full"
        <5>1. History(p, file[p]) = target[file[p]]
              /\ rec[p][file[p]] \in 1 .. Len(target[file[p]])
          BY <3>1, <3>2, <4>1 DEF LauncherInv, FullHashed, Verifying, History, Root
        <5>2. Good(target[file[p]], rec[p][file[p]]) \/ rec[p][file[p]] # Len(target[file[p]])
          BY <2>2, <5>1 DEF Content, Fingerprint, Good
        <5> QED BY <3>1, <5>2 DEF LauncherInv, FullHashed, BeingHashed, Verifying
      <4>2. CASE pass[p] # "full"
        BY <3>1, <4>2 DEF FullHashed, Verifying
      <4> QED BY <4>1, <4>2
    <3>7. LauncherInv(p)'
      BY <3>3, <3>4, <3>5, <3>6 DEF LauncherInv
    <3> QED BY <1>t, <3>1, <3>7, OneMoves, ReceiptsStand
  <2> QED BY <1>10, <2>1, <2>2 DEF HashFile
<1>12. ASSUME NEW p \in Launchers, DecideReceipt(p) PROVE IInv'
  <2>1. pc[p] = "verify" /\ todo[p] = {} /\ pass[p] = "light" /\ LauncherInv(p)
    BY <1>p, <1>12 DEF DecideReceipt, Verified
  <2>2. CASE rec[p] \in receipts
    <3>1. /\ OthersKeep(p) /\ pc'[p] = "planned" /\ todo'[p] = Linked
          /\ UNCHANGED <<disk, pass, file, rec, late, loaded>>
      BY <1>t, <1>12, <2>2 DEF DecideReceipt, Plan, Goto, Lock!Release, OthersKeep, TypeOK
    <3>2. target # NoDir /\ \A f \in Copied : Good(target[f], rec[p][f])
      BY <2>2 DEF IInv, ReceiptsBindGoodCopies
    <3>3. LauncherInv(p)'
      BY <2>1, <3>1, <3>2 DEF LauncherInv, Holder, HashPlace, LoopTodo, DirectoryThere, CopiesMade,
         StagedHashed, FullHashed, AgainCompared, LoadPass, RecordsGood, LinkRows, LinkSeen,
         LinkInspected, PlanChecked, LoadedGood, Staging, Existing, Settled, Verifying
    <3> QED BY <1>t, <3>1, <3>3, OneMoves, ReceiptsStand
  <2>3. CASE rec[p] \notin receipts
    <3>1. /\ OthersKeep(p) /\ pc'[p] = "verify" /\ pass'[p] = "full" /\ todo'[p] = Files
          /\ UNCHANGED <<lock, disk, file, rec, late, loaded>>
      BY <1>t, <1>12, <2>3 DEF DecideReceipt, Verify, Goto, OthersKeep, TypeOK
    <3>2. LauncherInv(p)'
      BY <2>1, <3>1 DEF LauncherInv, Holder, HashPlace, LoopTodo, DirectoryThere, CopiesMade,
         StagedHashed, FullHashed, AgainCompared, LoadPass, RecordsGood, LinkRows, LinkSeen,
         LinkInspected, PlanChecked, LoadedGood, Staging, Existing, Settled, Verifying, Files
    <3> QED BY <1>t, <3>1, <3>2, OneMoves, ReceiptsStand
  <2> QED BY <2>2, <2>3
<1>11. ASSUME NEW p \in Launchers, Publish(p) PROVE IInv'
  <2>1. /\ pc[p] = "verify" /\ todo[p] = {} /\ pass[p] = "staged" /\ LauncherInv(p)
        /\ target' = temp[p] /\ pc'[p] = "remember" /\ OthersKeep(p)
        /\ UNCHANGED <<lock, weights, receipts, pass, todo, file, rec, late, loaded>>
    BY <1>t, <1>p, <1>11 DEF Publish, Verified, Goto, OthersKeep, TypeOK
  <2>2. /\ lock = p /\ target = NoDir /\ temp[p] \in Dirs /\ target' # NoDir
        /\ \A f \in Copied : rec[p][f] = 1 /\ Good(target'[f], 1)
    BY <2>1 DEF LauncherInv, Holder, DirectoryThere, StagedHashed, BeingHashed, Staging,
       Verifying, Dirs
  <2>3. WeightsInspected' /\ PublishedWhole' /\ ReceiptsBindGoodCopies'
    BY <2>1, <2>2 DEF IInv, WeightsInspected, PublishedWhole, ReceiptsBindGoodCopies
  <2>4. LauncherInv(p)'
    <3>1. \A f \in Linked : rec[p][f] \in 1 .. Len(weights[f])
      BY <2>1 DEF LauncherInv, LinkRows, LinkSeen, Verifying
    <3> QED BY <2>1, <2>2, <3>1 DEF LauncherInv, Holder, HashPlace, LoopTodo, DirectoryThere,
         CopiesMade, StagedHashed, FullHashed, AgainCompared, LoadPass, RecordsGood, LinkRows,
         LinkSeen, LinkInspected, PlanChecked, LoadedGood, Staging, Existing, Settled, Verifying
  <2>5. ASSUME NEW q \in Launchers \ {p} PROVE LauncherInv(q)'
    <3>1. ~ Staging(q) /\ ~ Existing(q) /\ ~ Settled(q) /\ pc[q] # "check" /\ LauncherInv(q)
      <4>1. LauncherInv(q)
        BY <1>p
      <4> QED BY <2>2, <4>1 DEF LauncherInv, Holder, DirectoryThere
    <3>2. /\ pc'[q] = pc[q] /\ pass'[q] = pass[q] /\ todo'[q] = todo[q]
          /\ loaded'[q] = loaded[q] /\ late'[q] = late[q] /\ rec'[q] = rec[q] /\ file'[q] = file[q]
      BY <2>1 DEF OthersKeep
    <3>3. pc'[q] \notin {"check", "copy", "source", "verify", "hash", "remember", "planned", "load"}
      BY <1>t, <3>1, <3>2 DEF TypeOK, Passes, Staging, Existing, Settled, Verifying
    <3>4. LoadedGood(q)'
      BY <3>1, <3>2, <3>3 DEF LauncherInv, LoadedGood
    <3> QED BY <3>3, <3>4 DEF LauncherInv, Holder, HashPlace, LoopTodo, DirectoryThere,
         CopiesMade, StagedHashed, FullHashed, AgainCompared, LoadPass, RecordsGood, LinkRows,
         LinkSeen, LinkInspected, PlanChecked, Staging, Existing, Settled, Verifying
  <2> QED BY <1>t, <2>3, <2>4, <2>5 DEF IInv
<1>13. ASSUME NEW p \in Launchers, VerifyAgain(p) PROVE IInv'
  <2>1. CASE Verified(p, "full") /\ Verify(p, "again")
    <3>1. /\ pc[p] = "verify" /\ todo[p] = {} /\ pass[p] = "full" /\ LauncherInv(p)
          /\ pc'[p] = "verify" /\ todo'[p] = Files /\ pass'[p] = "again" /\ OthersKeep(p)
          /\ UNCHANGED <<lock, disk, file, rec, late, loaded>>
      BY <1>t, <1>p, <1>13, <2>1 DEF VerifyAgain, Verified, Verify, Goto, OthersKeep, TypeOK
    <3>2. AgainCompared(p)'
      BY <3>1 DEF LauncherInv, FullHashed, AgainCompared, BeingHashed, Verifying, Files
    <3>3. LauncherInv(p)'
      BY <3>1, <3>2 DEF LauncherInv, Holder, HashPlace, LoopTodo, DirectoryThere, CopiesMade,
         StagedHashed, FullHashed, LoadPass, RecordsGood, LinkRows, LinkSeen,
         LinkInspected, PlanChecked, LoadedGood, Staging, Existing, Settled, Verifying
    <3> QED BY <1>t, <3>1, <3>3, OneMoves, ReceiptsStand
  <2>2. CASE Verified(p, "again") /\ Goto(p, "remember") /\ UNCHANGED <<pass, todo>>
    <3>1. /\ pc[p] = "verify" /\ todo[p] = {} /\ pass[p] = "again" /\ LauncherInv(p)
          /\ pc'[p] = "remember" /\ OthersKeep(p)
          /\ UNCHANGED <<lock, disk, pass, todo, file, rec, late, loaded>>
      BY <1>t, <1>p, <1>13, <2>2 DEF VerifyAgain, Verified, Goto, OthersKeep, TypeOK
    <3>2. RecordsGood(p)'
      BY <3>1 DEF LauncherInv, AgainCompared, RecordsGood, Verifying
    <3>3. LauncherInv(p)'
      BY <3>1, <3>2 DEF LauncherInv, Holder, HashPlace, LoopTodo, DirectoryThere, CopiesMade,
         StagedHashed, FullHashed, AgainCompared, LoadPass, LinkRows, LinkSeen,
         LinkInspected, PlanChecked, LoadedGood, Staging, Existing, Settled, Verifying
    <3> QED BY <1>t, <3>1, <3>3, OneMoves, ReceiptsStand
  <2> QED BY <1>13, <2>1, <2>2 DEF VerifyAgain
<1>14. ASSUME NEW p \in Launchers, Remember(p) PROVE IInv'
  <2>1. /\ pc[p] = "remember" /\ LauncherInv(p) /\ receipts' = receipts \cup {rec[p]}
        /\ pc'[p] = "planned" /\ todo'[p] = Linked /\ OthersKeep(p)
        /\ UNCHANGED <<weights, target, temp, pass, file, rec, late, loaded>>
    BY <1>t, <1>p, <1>14 DEF Remember, Plan, Goto, Lock!Release, OthersKeep, TypeOK
  <2>2. target # NoDir /\ \A f \in Copied : Good(target[f], rec[p][f])
    BY <2>1 DEF LauncherInv, DirectoryThere, RecordsGood, Existing
  <2>3. ReceiptsBindGoodCopies'
    BY <2>1, <2>2 DEF IInv, ReceiptsBindGoodCopies
  <2>4. LauncherInv(p)'
    BY <2>1, <2>2 DEF LauncherInv, Holder, HashPlace, LoopTodo, DirectoryThere, CopiesMade,
       StagedHashed, FullHashed, AgainCompared, LoadPass, RecordsGood, LinkRows, LinkSeen,
       LinkInspected, PlanChecked, LoadedGood, Staging, Existing, Settled, Verifying
  <2> QED BY <1>t, <2>1, <2>3, <2>4, OneMoves
<1>15. ASSUME NEW p \in Launchers, StartLoad(p) PROVE IInv'
  <2>1. /\ pc[p] = "verify" /\ todo[p] = {} /\ pass[p] = "plan" /\ LauncherInv(p)
        /\ pc'[p] = "load" /\ todo'[p] = Files /\ OthersKeep(p)
        /\ UNCHANGED <<lock, disk, pass, file, rec, late, loaded>>
    BY <1>t, <1>p, <1>15 DEF StartLoad, Verified, Goto, OthersKeep, TypeOK
  <2>2. PlanChecked(p)' /\ LoadedGood(p)' /\ RecordsGood(p)' /\ LinkRows(p)'
    BY <2>1 DEF LauncherInv, PlanChecked, LoadedGood, RecordsGood, LinkRows, LinkSeen,
       LinkInspected, Current, Sealed, Settled, Verifying
  <2>3. LauncherInv(p)'
    BY <2>1, <2>2 DEF LauncherInv, Holder, HashPlace, LoopTodo, DirectoryThere, CopiesMade,
       StagedHashed, FullHashed, AgainCompared, LoadPass, Staging, Existing, Settled, Verifying
  <2> QED BY <1>t, <2>1, <2>3, OneMoves, ReceiptsStand
<1>16. ASSUME NEW p \in Launchers, LoadFile(p) PROVE IInv'
  <2>1. PICK f \in todo[p] :
           /\ loaded' = [loaded EXCEPT ![p][f] = Content(p, f)]
           /\ todo' = [todo EXCEPT ![p] = @ \ {f}]
           /\ Goto(p, IF todo'[p] = {} THEN "serving" ELSE "load")
    BY <1>16 DEF LoadFile
  <2>2. /\ f \in Files /\ pc[p] = "load" /\ LauncherInv(p) /\ pass[p] = "plan"
        /\ UNCHANGED <<lock, disk, pass, file, rec, late>>
    BY <1>t, <1>p, <1>16 DEF LoadFile, TypeOK, LauncherInv, LoadPass
  <2>3. Content(p, f) = "good" \/ f \in late[p]
    <3>1. Sealed(f) = History(p, f)
      BY <2>2 DEF Sealed, History, Root
    <3>2. Good(Sealed(f), rec[p][f])
      <4>1. CASE f \in Linked
        BY <2>2, <4>1 DEF IInv, WeightsInspected, LauncherInv, LinkRows, LinkInspected, Sealed
      <4>2. CASE f \notin Linked
        BY <2>2, <4>2 DEF LauncherInv, RecordsGood, Settled, Sealed, Files
      <4> QED BY <4>1, <4>2
    <3>3. rec[p][f] = Len(Sealed(f)) \/ f \in late[p]
      BY <2>2 DEF LauncherInv, PlanChecked, Current
    <3> QED BY <3>1, <3>2, <3>3 DEF Content, Fingerprint, Good
  <2>4. loaded'[p][f] = Content(p, f) /\ \A g \in Files \ {f} : loaded'[p][g] = loaded[p][g]
    <3>1. Content(p, f) \in Contents
      BY <2>2, ContentTypes DEF Settled
    <3>2. loaded \in [Launchers -> [Files -> Contents]]
      BY <1>t DEF TypeOK
    <3> QED BY <2>1, <2>2, <3>1, <3>2, CellUpdate
  <2>5. \A q \in Launchers \ {p} : loaded'[q] = loaded[q]
    BY <1>t, <2>1 DEF TypeOK
  <2>6. /\ todo'[p] = todo[p] \ {f} /\ OthersKeep(p)
        /\ pc'[p] = IF todo'[p] = {} THEN "serving" ELSE "load"
    BY <1>t, <2>1, <2>2, <2>5 DEF Goto, OthersKeep, TypeOK
  <2>7. LoadedGood(p)'
    <3>1. \A g \in Files \ todo'[p] : loaded'[p][g] = "good" \/ g \in late[p]
      BY <2>2, <2>3, <2>4, <2>6 DEF LauncherInv, LoadedGood
    <3> QED BY <2>2, <2>6, <3>1 DEF LoadedGood
  <2>8. PlanChecked(p)' /\ RecordsGood(p)' /\ LinkRows(p)'
    BY <2>2, <2>6 DEF LauncherInv, PlanChecked, RecordsGood, LinkRows, LinkSeen,
       LinkInspected, Current, Sealed, Settled, Verifying
  <2>9. LauncherInv(p)'
    BY <2>2, <2>6, <2>7, <2>8 DEF LauncherInv, Holder, HashPlace, LoopTodo, DirectoryThere,
       CopiesMade, StagedHashed, FullHashed, AgainCompared, LoadPass, Staging, Existing,
       Settled, Verifying
  <2> QED BY <1>t, <2>2, <2>6, <2>9, OneMoves, ReceiptsStand
<1>17. ASSUME NEW p \in Launchers, Interrupt(p) \/ Kill(p) PROVE IInv'
  BY <1>t, <1>17, LeaveKeeps DEF Interrupt, Kill
<1>18. CASE Edit
  <2>1. PICK f \in Files, c \in Contents :
          /\ IF f \in Linked
             THEN weights' = [weights EXCEPT ![f] = Append(@, c)] /\ UNCHANGED target
             ELSE /\ target # NoDir
                  /\ target' = [target EXCEPT ![f] = Append(@, c)]
                  /\ UNCHANGED weights
          /\ late' = [p \in Launchers |-> late[p] \cup {f}]
    BY <1>18 DEF Edit
  <2>2. UNCHANGED <<lock, temp, receipts, pc, pass, todo, file, rec, loaded>>
    BY <1>18 DEF Edit
  <2>3. ASSUME NEW g \in Linked
        PROVE  /\ Len(weights[g]) \in Nat /\ Len(weights'[g]) \in Nat
               /\ Len(weights'[g]) >= Len(weights[g])
               /\ \A n : Good(weights[g], n) => Good(weights'[g], n)
               /\ g = f \/ weights'[g] = weights[g]
    <3>1. weights[g] \in Seq(Contents)
      BY <1>t DEF TypeOK
    <3>2. weights'[g] = weights[g] \/ (g = f /\ weights'[g] = Append(weights[g], c))
      <4>1. CASE f \in Linked
        <5>1. weights' = [weights EXCEPT ![f] = Append(weights[f], c)]
          BY <2>1, <4>1
        <5> QED BY <1>t, <5>1 DEF TypeOK
      <4>2. CASE f \notin Linked
        BY <2>1, <4>2
      <4> QED BY <4>1, <4>2
    <3>3. /\ Len(Append(weights[g], c)) = Len(weights[g]) + 1
          /\ \A n : Good(weights[g], n) => Good(Append(weights[g], c), n)
      BY <3>1, AppendKeeps
    <3>4. Len(weights[g]) \in Nat
      BY <3>1
    <3>5. CASE weights'[g] = weights[g]
      BY <3>4, <3>5
    <3>6. CASE g = f /\ weights'[g] = Append(weights[g], c)
      <4>1. \A n : Good(weights[g], n) => Good(weights'[g], n)
        BY <3>3, <3>6, Zenon
      <4>2. Len(weights'[g]) = Len(weights[g]) + 1
        BY <3>3, <3>6, Zenon
      <4> QED BY <3>4, <3>6, <4>1, <4>2
    <3> QED BY <3>2, <3>5, <3>6
  <2>4. (target' = NoDir) <=> (target = NoDir)
    <3>1. CASE f \in Linked
      BY <2>1, <3>1
    <3>2. CASE f \notin Linked
      <4>1. target # NoDir /\ target' = [target EXCEPT ![f] = Append(target[f], c)]
        BY <2>1, <3>2
      <4>2. f \in Copied /\ target \in Dirs
        BY <1>t, <3>2, <4>1 DEF TypeOK, Files
      <4>3. Append(target[f], c) \in Seq(Contents)
        BY <4>2, AppendKeeps DEF Dirs
      <4>4. target' \in Dirs
        BY <4>1, <4>2, <4>3 DEF Dirs
      <4> QED BY <4>1, <4>4 DEF Dirs
    <3> QED BY <3>1, <3>2
  <2>5. ASSUME NEW g \in Copied, target # NoDir
        PROVE  /\ Len(target[g]) \in Nat /\ Len(target'[g]) \in Nat
               /\ Len(target'[g]) >= Len(target[g])
               /\ \A n : Good(target[g], n) => Good(target'[g], n)
               /\ target'[g] = target[g] \/ (g = f /\ Len(target'[g]) = Len(target[g]) + 1)
    <3>1. target[g] \in Seq(Contents) /\ target \in Dirs
      BY <1>t, <2>5 DEF TypeOK, Dirs
    <3>2. target'[g] = target[g] \/ (g = f /\ target'[g] = Append(target[g], c))
      <4>1. CASE f \in Linked
        BY <2>1, <4>1
      <4>2. CASE f \notin Linked
        <5>1. target' = [target EXCEPT ![f] = Append(target[f], c)]
          BY <2>1, <4>2
        <5> QED BY <3>1, <5>1 DEF Dirs
      <4> QED BY <4>1, <4>2
    <3>3. /\ Len(Append(target[g], c)) = Len(target[g]) + 1
          /\ \A n : Good(target[g], n) => Good(Append(target[g], c), n)
      BY <3>1, AppendKeeps
    <3>4. Len(target[g]) \in Nat
      BY <3>1
    <3>5. CASE target'[g] = target[g]
      BY <3>4, <3>5
    <3>6. CASE g = f /\ target'[g] = Append(target[g], c)
      <4>1. \A n : Good(target[g], n) => Good(target'[g], n)
        BY <3>3, <3>6, Zenon
      <4>2. Len(target'[g]) = Len(target[g]) + 1
        BY <3>3, <3>6, Zenon
      <4> QED BY <3>4, <3>6, <4>1, <4>2
    <3> QED BY <3>2, <3>5, <3>6
  <2>6. WeightsInspected' /\ PublishedWhole' /\ ReceiptsBindGoodCopies'
    BY <2>2, <2>3, <2>4, <2>5 DEF IInv, WeightsInspected, PublishedWhole, ReceiptsBindGoodCopies
  <2>7. ASSUME NEW q \in Launchers PROVE LauncherInv(q)'
    <3>1. LauncherInv(q) /\ late'[q] = late[q] \cup {f}
      BY <1>p, <2>1
    <3>2. Holder(q)' /\ HashPlace(q)' /\ LoopTodo(q)' /\ DirectoryThere(q)' /\ LoadPass(q)'
          /\ CopiesMade(q)' /\ StagedHashed(q)' /\ LoadedGood(q)'
      BY <2>2, <2>4, <3>1 DEF LauncherInv, Holder, HashPlace, LoopTodo, DirectoryThere,
         LoadPass, CopiesMade, StagedHashed, LoadedGood, BeingHashed, Staging, Existing,
         Settled, Verifying
    <3>3. FullHashed(q)'
      <4> SUFFICES ASSUME Verifying(q, "full"), NEW g \in Copied \ todo[q]
                   PROVE  /\ rec[q][g] \in 1 .. Len(target'[g])
                          /\ \/ Good(target'[g], rec[q][g])
                             \/ rec[q][g] # Len(target'[g])
                             \/ BeingHashed(q, g)
        BY <2>2 DEF FullHashed, BeingHashed, Verifying
      <4>1. target # NoDir
        BY <3>1 DEF LauncherInv, DirectoryThere, Existing
      <4>2. /\ rec[q][g] \in 1 .. Len(target[g])
            /\ \/ Good(target[g], rec[q][g])
               \/ rec[q][g] # Len(target[g])
               \/ BeingHashed(q, g)
        BY <3>1 DEF LauncherInv, FullHashed
      <4> QED BY <2>5, <4>1, <4>2
    <3>4. AgainCompared(q)'
      <4> SUFFICES ASSUME Verifying(q, "again"), NEW g \in Copied
                   PROVE  /\ rec[q][g] \in 1 .. Len(target'[g])
                          /\ \/ Good(target'[g], rec[q][g])
                             \/ g \in todo[q] /\ rec[q][g] # Len(target'[g])
        BY <2>2 DEF AgainCompared, Verifying
      <4>1. target # NoDir
        BY <3>1 DEF LauncherInv, DirectoryThere, Existing
      <4>2. /\ rec[q][g] \in 1 .. Len(target[g])
            /\ \/ Good(target[g], rec[q][g])
               \/ g \in todo[q] /\ rec[q][g] # Len(target[g])
        BY <3>1 DEF LauncherInv, AgainCompared
      <4> QED BY <2>5, <4>1, <4>2
    <3>5. RecordsGood(q)'
      BY <2>2, <2>5, <3>1 DEF LauncherInv, RecordsGood, DirectoryThere, Existing, Settled,
         Verifying
    <3>6. LinkRows(q)'
      <4> SUFFICES ASSUME NEW g \in Linked
                   PROVE  /\ LinkSeen(q, g) => rec[q][g] \in 1 .. Len(weights'[g])
                          /\ LinkInspected(q, g) => rec[q][g] = 1
        BY <2>2 DEF LinkRows, LinkSeen, LinkInspected, Verifying
      <4> QED BY <2>3, <3>1 DEF LauncherInv, LinkRows
    <3>7. PlanChecked(q)'
      <4>1. \A g \in Files : target # NoDir /\ Current(q, g) => Current(q, g)'
        BY <1>t, <2>2, <2>3, <2>5, <3>1 DEF Current, Sealed, Files
      <4>2. Verifying(q, "plan") \/ pc[q] = "load" => target # NoDir
        BY <3>1 DEF LauncherInv, DirectoryThere, Settled
      <4> QED BY <2>2, <3>1, <4>1, <4>2 DEF LauncherInv, PlanChecked, Verifying
    <3> QED BY <3>2, <3>3, <3>4, <3>5, <3>6, <3>7 DEF LauncherInv
  <2> QED BY <1>t, <2>6, <2>7 DEF IInv
<1>19. CASE UNCHANGED vars
  BY <1>19 DEF vars, IInv, TypeOK, WeightsInspected, PublishedWhole, ReceiptsBindGoodCopies,
     LauncherInv, Holder, HashPlace, LoopTodo, DirectoryThere, CopiesMade, StagedHashed,
     FullHashed, AgainCompared, LoadPass, RecordsGood, LinkRows, LinkSeen, LinkInspected,
     PlanChecked, LoadedGood, Current, Sealed, BeingHashed, Staging, Existing, Settled,
     Verifying
<1> QED
  BY <1>1, <1>2, <1>3, <1>4, <1>5, <1>6, <1>7, <1>8, <1>9, <1>10, <1>11, <1>12, <1>13,
     <1>14, <1>15, <1>16, <1>17, <1>18, <1>19 DEF Next, Step

THEOREM Invariant == Spec => []IInv
<1>1. Init => IInv
  BY InitIInv
<1>2. IInv /\ [Next]_vars => IInv'
  BY IInvInductive
<1> QED BY <1>1, <1>2, PTL DEF Spec

-------------------------------------------------------------------------------
\* The state of serving preparation is well formed; every receipt has a row for every
\* copy and every link.
THEOREM ServingTypes == Spec => []TypeOK
<1>1. IInv => TypeOK
  BY DEF IInv
<1> QED BY <1>1, Invariant, PTL

\* A prepared directory appears whole: os.replace is reached only after every copy
\* has been hashed in the temporary directory, which nobody else writes.
THEOREM PublicationIsWhole == Spec => []PublishedWhole
<1>1. IInv => PublishedWhole
  BY DEF IInv
<1> QED BY <1>1, Invariant, PTL

\* A receipt of _remember_verification binds fingerprints of copies that had their
\* declared digests, also when files change while they are hashed: verify runs once
\* more, against the records, between hashing and the receipt.
THEOREM ServingReceiptsSound == Spec => []ReceiptsBindGoodCopies
<1>1. IInv => ReceiptsBindGoodCopies
  BY DEF IInv
<1> QED BY <1>1, Invariant, PTL

\* What the engine reads after validate_plan is what was verified, or was changed
\* after the last look at that file.
THEOREM ServedWasVerified == Spec => []ServedIsVerified
<1>1. IInv => ServedIsVerified
  BY DEF IInv, LauncherInv, LoadedGood, ServedIsVerified
<1> QED BY <1>1, Invariant, PTL
===============================================================================
