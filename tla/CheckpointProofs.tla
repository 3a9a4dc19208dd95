---------------------------- MODULE CheckpointProofs ----------------------------
(***************************************************************************)
(* For every set of launchers, every checkpoint and every number of edits: *)
(* receipts and plans bind good bytes, and an engine serves other bytes    *)
(* only if they were written after the last check.                         *)
(***************************************************************************)
EXTENDS Checkpoint, TLAPS

\* Every file has a content: the current fingerprint exists.
NonEmpty == \A f \in Files : Fingerprint(f) >= 1

\* While everything is hashed, what has been recorded is good.
FullIsGood ==
    \A p \in Launchers :
        (pc[p] \in {"inspect", "hash"} /\ pass[p] = "full") =>
            \A f \in Files \ todo[p] : Good(f, full[p][f])

\* What is about to be remembered, or is planned, is good.
CandIsGood ==
    \A p \in Launchers :
        pc[p] \in Planned \cup {"remember"} => \A f \in Files : Good(f, cand[p][f])

\* A file that was checked in this round is unchanged since, or late.
CheckedOrLate ==
    \A p \in Launchers :
        /\ pc[p] = "validate" =>
              \A f \in Files \ todo[p] : Fingerprint(f) = cand[p][f] \/ f \in late[p]
        /\ pc[p] = "load" =>
              \A f \in Files : Fingerprint(f) = cand[p][f] \/ f \in late[p]

LoadedOrLate ==
    \A p \in Launchers :
        /\ pc[p] = "load" =>
              \A f \in Files \ todo[p] : Good(f, loaded[p][f]) \/ f \in late[p]
        /\ pc[p] = "serving" =>
              \A f \in Files : Good(f, loaded[p][f]) \/ f \in late[p]

IInv ==
    /\ TypeOK
    /\ NonEmpty
    /\ ReceiptsBindGoodBytes
    /\ FullIsGood
    /\ CandIsGood
    /\ CheckedOrLate
    /\ LoadedOrLate

-------------------------------------------------------------------------------
\* Writing one cell of a matrix of fingerprints writes that cell only.
LEMMA CellUpdate ==
    ASSUME NEW F \in [Launchers -> Prints], NEW p \in Launchers, NEW f \in Files, NEW n \in Nat,
           NEW G, G = [F EXCEPT ![p][f] = n]
    PROVE  /\ G \in [Launchers -> Prints]
           /\ \A q \in Launchers, g \in Files :
                 G[q][g] = IF q = p /\ g = f THEN n ELSE F[q][g]
<1>1. G = [F EXCEPT ![p] = [F[p] EXCEPT ![f] = n]]
  OBVIOUS
<1>2. [F[p] EXCEPT ![f] = n] \in Prints
  BY DEF Prints
<1>3. G \in [Launchers -> Prints]
  BY <1>1, <1>2
<1>4. ASSUME NEW q \in Launchers, NEW g \in Files
      PROVE  G[q][g] = IF q = p /\ g = f THEN n ELSE F[q][g]
  <2>1. CASE q = p
    BY <1>1, <2>1 DEF Prints
  <2>2. CASE q # p
    BY <1>1, <2>2
  <2> QED BY <2>1, <2>2
<1> QED BY <1>3, <1>4

\* Recording a fingerprint keeps the types and writes one cell of one vector.
LEMMA RecordUpdates ==
    ASSUME TypeOK, NEW p \in Launchers, NEW f \in Files, NEW n \in Nat, Record(p, f, n)
    PROVE  /\ cand' \in [Launchers -> Prints]
           /\ full' \in [Launchers -> Prints]
           /\ todo' \in [Launchers -> SUBSET Files]
           /\ \A q \in Launchers, g \in Files :
                 full'[q][g] = IF q = p /\ g = f /\ pass[p] = "full" THEN n ELSE full[q][g]
<1>1. cand \in [Launchers -> Prints] /\ full \in [Launchers -> Prints]
  BY DEF TypeOK
<1>2. cand' \in [Launchers -> Prints]
  BY <1>1, CellUpdate DEF Record
<1>3. full' \in [Launchers -> Prints]
  BY <1>1, CellUpdate DEF Record
<1>4. todo' \in [Launchers -> SUBSET Files]
  BY DEF Record, TypeOK
<1>5. CASE pass[p] = "candidate"
  BY <1>2, <1>3, <1>4, <1>5 DEF Record
<1>6. CASE pass[p] = "full"
  <2>1. full' = [full EXCEPT ![p][f] = n]
    BY <1>6 DEF Record
  <2>2. \A q \in Launchers, g \in Files :
            full'[q][g] = IF q = p /\ g = f THEN n ELSE full[q][g]
    BY <1>1, <2>1 DEF Prints
  <2> QED BY <1>2, <1>3, <1>4, <1>6, <2>2
<1> QED BY <1>5, <1>6 DEF TypeOK

\* A rewrite gives the file a new last version and keeps the earlier ones: a
\* fingerprint of good bytes is one for ever.
LEMMA EditKeepsGood ==
    ASSUME TypeOK, Edit, NEW f \in Files, NEW n, Good(f, n)
    PROVE  Good(f, n)'
<1>1. PICK g \in Files, c \in Contents :
          versions' = [versions EXCEPT ![g] = Append(@, c)]
  BY DEF Edit
<1>2. versions[f] \in Seq(Contents)
  BY DEF TypeOK
<1>3. CASE f = g
  <2>1. versions'[f] = Append(versions[f], c)
    BY <1>1, <1>3 DEF TypeOK
  <2>2. n \in 1 .. Len(versions[f]) /\ versions[f][n] = "good"
    BY DEF Good
  <2>3. Len(versions'[f]) = Len(versions[f]) + 1 /\ versions'[f][n] = versions[f][n]
    BY <1>2, <2>1, <2>2
  <2> QED BY <1>2, <2>2, <2>3 DEF Good
<1>4. CASE f # g
  BY <1>1, <1>4 DEF TypeOK, Good
<1> QED BY <1>3, <1>4

\* A rewrite touches one file, and marks it late for everybody.
LEMMA EditMarksLate ==
    ASSUME TypeOK, NonEmpty, Edit, NEW f \in Files
    PROVE  /\ Fingerprint(f)' >= 1
           /\ Fingerprint(f)' = Fingerprint(f) \/ \A p \in Launchers : f \in late'[p]
           /\ \A p \in Launchers : late[p] \subseteq late'[p]
<1>1. PICK g \in Files, c \in Contents :
          /\ versions' = [versions EXCEPT ![g] = Append(@, c)]
          /\ late' = [p \in Launchers |-> late[p] \cup {g}]
  BY DEF Edit
<1>2. versions[f] \in Seq(Contents) /\ Len(versions[f]) >= 1
  BY DEF TypeOK, NonEmpty, Fingerprint
<1>3. CASE f = g
  <2>1. versions'[f] = Append(versions[f], c)
    BY <1>1, <1>3 DEF TypeOK
  <2>2. Len(versions'[f]) = Len(versions[f]) + 1
    BY <1>2, <2>1
  <2> QED BY <1>1, <1>2, <1>3, <2>2 DEF Fingerprint
<1>4. CASE f # g
  BY <1>1, <1>2, <1>4 DEF TypeOK, Fingerprint
<1> QED BY <1>3, <1>4

\* A digest that matches bytes unchanged since their fingerprint was taken is
\* the digest of the bytes with that fingerprint.
LEMMA MatchIsGood ==
    ASSUME TypeOK, NonEmpty, NEW p \in Launchers,
           DigestMayMatch(p), Fingerprint(file[p]) = before[p]
    PROVE  Good(file[p], before[p])
<1>1. file[p] \in Files /\ versions[file[p]] \in Seq(Contents)
  BY DEF TypeOK
<1>2. Content(file[p]) = "good" /\ Fingerprint(file[p]) >= 1
  BY <1>1 DEF DigestMayMatch, NonEmpty
<1> QED BY <1>1, <1>2 DEF Good, Content, Fingerprint

-------------------------------------------------------------------------------
LEMMA InitIInv == Init => IInv
<1> SUFFICES ASSUME Init PROVE IInv
  OBVIOUS
<1>1. \A f \in Files : \E c \in Contents : versions[f] = <<c>>
  BY DEF Init
<1>2. versions \in [Files -> Seq(Contents)]
  <2>1. \A c \in Contents : <<c>> \in Seq(Contents)
    OBVIOUS
  <2>2. versions \in [Files -> {<<c>> : c \in Contents}]
    BY DEF Init
  <2> QED BY <2>1, <2>2
<1>3. TypeOK
  BY <1>2, CheckpointAssumption DEF Init, TypeOK, Labels, Ended, Prints, None
<1>4. NonEmpty
  BY <1>1 DEF NonEmpty, Fingerprint
<1> QED
  BY <1>3, <1>4 DEF Init, IInv, ReceiptsBindGoodBytes, FullIsGood, CandIsGood,
     CheckedOrLate, LoadedOrLate, Planned

-------------------------------------------------------------------------------
\* The type invariant is inductive, as what is remembered has a row for every file.
LEMMA TypeInductive == TypeOK /\ CandIsGood /\ [Next]_vars => TypeOK'
<1> SUFFICES ASSUME TypeOK, CandIsGood, [Next]_vars PROVE TypeOK'
  OBVIOUS
<1> USE CheckpointAssumption DEF TypeOK, Labels, Ended, Planned, Prints, Goto, Fail, scan
<1>0. \A f \in Files : Fingerprint(f) \in Nat
  BY DEF Fingerprint
<1>1. ASSUME NEW p \in Launchers, Begin(p) PROVE TypeOK'
  BY <1>1 DEF Begin, None
<1>2. ASSUME NEW p \in Launchers, InspectFile(p) PROVE TypeOK'
  <2> USE <1>2 DEF InspectFile
  <2>1. PICK f \in todo[p] :
            \/ Fail(p) /\ UNCHANGED <<todo, file, before, cand, full>>
            \/ Record(p, f, Fingerprint(f)) /\ UNCHANGED <<pc, file, before>>
            \/ /\ file' = [file EXCEPT ![p] = f]
               /\ before' = [before EXCEPT ![p] = Fingerprint(f)]
               /\ Goto(p, "hash")
               /\ UNCHANGED <<todo, cand, full>>
    OBVIOUS
  <2>2. f \in Files /\ Fingerprint(f) \in Nat
    BY <1>0
  <2>3. CASE Record(p, f, Fingerprint(f)) /\ UNCHANGED <<pc, file, before>>
    BY <2>2, <2>3, RecordUpdates
  <2>4. CASE Fail(p) /\ UNCHANGED <<todo, file, before, cand, full>>
    BY <2>4
  <2>5. CASE /\ file' = [file EXCEPT ![p] = f]
             /\ before' = [before EXCEPT ![p] = Fingerprint(f)]
             /\ Goto(p, "hash")
             /\ UNCHANGED <<todo, cand, full>>
    BY <2>2, <2>5
  <2> QED BY <2>1, <2>3, <2>4, <2>5
<1>3. ASSUME NEW p \in Launchers, HashFile(p) PROVE TypeOK'
  <2>1. CASE Record(p, file[p], before[p]) /\ Goto(p, "inspect")
    BY <1>3, <2>1, RecordUpdates DEF HashFile
  <2>2. CASE Fail(p) /\ UNCHANGED <<todo, cand, full>>
    BY <1>3, <2>2 DEF HashFile
  <2> QED BY <1>3, <2>1, <2>2 DEF HashFile
<1>4. ASSUME NEW p \in Launchers, DecideReceipt(p) PROVE TypeOK'
  <2>1. pc' \in [Launchers -> Labels] /\ pass' \in [Launchers -> {"candidate", "full"}]
    BY <1>4 DEF DecideReceipt, StartValidation
  <2>2. todo' \in [Launchers -> SUBSET Files]
    BY <1>4 DEF DecideReceipt, StartValidation
  <2> QED BY <1>4, <2>1, <2>2 DEF DecideReceipt
<1>5. ASSUME NEW p \in Launchers, CompareInspections(p) PROVE TypeOK'
  BY <1>5 DEF CompareInspections
<1>6. ASSUME NEW p \in Launchers, WriteReceipt(p) PROVE TypeOK'
  <2>1. \A f \in Files : cand[p][f] \in Nat \ {0}
    BY <1>6 DEF WriteReceipt, CandIsGood, Good
  <2>2. cand[p] \in [Files -> Nat \ {0}]
    BY <2>1
  <2>3. receipts' \in SUBSET [Files -> Nat \ {0}]
    BY <1>6, <2>2 DEF WriteReceipt
  <2> QED BY <1>6, <2>3 DEF WriteReceipt, StartValidation
<1>7. ASSUME NEW p \in Launchers, ValidateFile(p) PROVE TypeOK'
  <2>1. PICK f \in todo[p] :
            \/ /\ todo' = [todo EXCEPT ![p] = @ \ {f}]
               /\ late' = [late EXCEPT ![p] = @ \ {f}]
               /\ UNCHANGED pc
            \/ Fail(p) /\ UNCHANGED <<todo, late>>
    BY <1>7 DEF ValidateFile
  <2>2. CASE Fail(p) /\ UNCHANGED <<todo, late>>
    BY <1>7, <2>2 DEF ValidateFile
  <2>3. CASE /\ todo' = [todo EXCEPT ![p] = @ \ {f}]
             /\ late' = [late EXCEPT ![p] = @ \ {f}]
             /\ UNCHANGED pc
    BY <1>7, <2>3 DEF ValidateFile
  <2> QED BY <2>1, <2>2, <2>3
<1>8. ASSUME NEW p \in Launchers, FinishRound(p) PROVE TypeOK'
  BY <1>8 DEF FinishRound
<1>9. ASSUME NEW p \in Launchers, LoadFile(p) PROVE TypeOK'
  <2>1. PICK f \in todo[p] :
            /\ loaded' = [loaded EXCEPT ![p][f] = Fingerprint(f)]
            /\ todo' = [todo EXCEPT ![p] = @ \ {f}]
            /\ pc' = [pc EXCEPT ![p] = IF todo'[p] = {} THEN "serving" ELSE "load"]
    BY <1>9 DEF LoadFile
  <2>2. loaded' \in [Launchers -> Prints]
    <3>1. f \in Files /\ Fingerprint(f) \in Nat /\ loaded \in [Launchers -> Prints]
      BY <1>0
    <3> HIDE DEF Prints
    <3> QED BY <2>1, <3>1, CellUpdate
  <2>3. todo' \in [Launchers -> SUBSET Files]
    BY <2>1
  <2>4. pc' \in [Launchers -> Labels]
    BY <2>1
  <2> QED BY <1>9, <2>2, <2>3, <2>4 DEF LoadFile
<1>10. ASSUME Edit PROVE TypeOK'
  <2>1. PICK g \in Files, c \in Contents :
            /\ versions' = [versions EXCEPT ![g] = Append(@, c)]
            /\ late' = [p \in Launchers |-> late[p] \cup {g}]
    BY <1>10 DEF Edit
  <2>2. versions' \in [Files -> Seq(Contents)]
    BY <2>1
  <2> QED BY <1>10, <2>1, <2>2 DEF Edit
<1>11. CASE UNCHANGED vars
  BY <1>11 DEF vars
<1> QED
  BY <1>1, <1>2, <1>3, <1>4, <1>5, <1>6, <1>7, <1>8, <1>9, <1>10, <1>11 DEF Next, Step

\* No step of a launcher changes a file, and each leaves the others alone.
LEMMA IInvInductive == IInv /\ [Next]_vars => IInv'
<1> SUFFICES ASSUME IInv, [Next]_vars PROVE IInv'
  OBVIOUS
<1>t. TypeOK /\ TypeOK'
  BY TypeInductive DEF IInv
<1>n. NonEmpty
  BY DEF IInv
<1> USE DEF Planned, Goto, Fail, scan
<1>1. ASSUME NEW p \in Launchers, Begin(p) PROVE IInv'
  <2> USE <1>1, <1>t DEF Begin, IInv, TypeOK
  <2>1. NonEmpty' BY DEF NonEmpty, Fingerprint
  <2>2. ReceiptsBindGoodBytes' BY DEF Good, ReceiptsBindGoodBytes
  <2>3. FullIsGood' BY DEF Good, FullIsGood
  <2>4. CandIsGood' BY DEF Good, CandIsGood
  <2>5. CheckedOrLate' BY DEF Fingerprint, CheckedOrLate
  <2>6. LoadedOrLate' BY DEF Good, LoadedOrLate
  <2> QED BY <2>1, <2>2, <2>3, <2>4, <2>5, <2>6
<1>2. ASSUME NEW p \in Launchers, InspectFile(p) PROVE IInv'
  <2> USE <1>2, <1>t DEF InspectFile, Record, IInv, TypeOK
  <2>1. NonEmpty' BY DEF NonEmpty, Fingerprint
  <2>2. ReceiptsBindGoodBytes' BY DEF Good, ReceiptsBindGoodBytes
  <2>3. FullIsGood'
    <3> SUFFICES ASSUME NEW q \in Launchers, (pc[q] \in {"inspect", "hash"} /\ pass[q] = "full")',
                        NEW f \in Files \ todo'[q]
                 PROVE  Good(f, full'[q][f])
      BY DEF FullIsGood, Good
    <3>1. todo'[q] = todo[q] /\ full' = full
      OBVIOUS
    <3>2. pc[q] \in {"inspect", "hash"} /\ pass[q] = "full"
      OBVIOUS
    <3> QED BY <3>1, <3>2 DEF FullIsGood, Good
  <2>4. CandIsGood'
    <3> SUFFICES ASSUME NEW q \in Launchers, pc'[q] \in Planned \cup {"remember"},
                        NEW f \in Files
                 PROVE  Good(f, cand'[q][f])
      BY DEF CandIsGood, Good
    <3>1. q # p /\ pc[q] = pc'[q]
      OBVIOUS
    <3>2. cand'[q] = cand[q]
      BY <3>1
    <3> QED BY <3>1, <3>2 DEF CandIsGood, Good
  <2>5. CheckedOrLate'
    <3> SUFFICES ASSUME NEW q \in Launchers, NEW f \in Files,
                        \/ pc'[q] = "validate" /\ f \notin todo'[q]
                        \/ pc'[q] = "load"
                 PROVE  Fingerprint(f) = cand'[q][f] \/ f \in late[q]
      BY DEF CheckedOrLate, Fingerprint
    <3>1. q # p
      OBVIOUS
    <3>2. pc'[q] = pc[q] /\ todo'[q] = todo[q] /\ cand'[q] = cand[q]
      BY <3>1
    <3> QED BY <3>1, <3>2 DEF CheckedOrLate
  <2>6. LoadedOrLate'
    <3> SUFFICES ASSUME NEW q \in Launchers, NEW f \in Files,
                        \/ pc'[q] = "load" /\ f \notin todo'[q]
                        \/ pc'[q] = "serving"
                 PROVE  Good(f, loaded[q][f]) \/ f \in late[q]
      BY DEF LoadedOrLate, Good
    <3>1. q # p
      OBVIOUS
    <3>2. pc'[q] = pc[q] /\ todo'[q] = todo[q]
      BY <3>1
    <3> QED BY <3>1, <3>2 DEF LoadedOrLate
  <2> QED BY <2>1, <2>2, <2>3, <2>4, <2>5, <2>6
<1>3. ASSUME NEW p \in Launchers, HashFile(p) PROVE IInv'
  <2>0. \/ /\ Good(file[p], before[p])
           /\ Record(p, file[p], before[p]) /\ Goto(p, "inspect")
        \/ Fail(p) /\ UNCHANGED <<todo, cand, full>>
    BY <1>3, <1>t, <1>n, MatchIsGood DEF HashFile
  <2>a. file[p] \in Files /\ before[p] \in Nat
    BY <1>t DEF TypeOK
  <2>b. ASSUME NEW q \in Launchers, NEW f \in Files,
               ~ (q = p /\ f = file[p] /\ pass[p] = "full")
        PROVE  full'[q][f] = full[q][f]
    BY <1>t, <2>0, <2>a, <2>b, RecordUpdates
  <2>c. pass[p] = "full" /\ Record(p, file[p], before[p]) => full'[p][file[p]] = before[p]
    BY <1>t, <2>a, RecordUpdates
  <2> USE <1>3, <1>t DEF HashFile, Record, IInv, TypeOK
  <2>1. NonEmpty' BY DEF NonEmpty, Fingerprint
  <2>2. ReceiptsBindGoodBytes' BY DEF Good, ReceiptsBindGoodBytes
  <2>3. FullIsGood'
    <3> SUFFICES ASSUME NEW q \in Launchers, (pc[q] \in {"inspect", "hash"} /\ pass[q] = "full")',
                        NEW f \in Files \ todo'[q]
                 PROVE  Good(f, full'[q][f])
      BY DEF FullIsGood, Good
    <3>1. CASE q # p \/ f # file[p]
      <4>1. f \notin todo[q]
        BY <2>0, <3>1
      <4>2. full'[q][f] = full[q][f]
        BY <2>b, <3>1
      <4>3. pc[q] \in {"inspect", "hash"} /\ pass[q] = "full"
        OBVIOUS
      <4> QED BY <4>1, <4>2, <4>3 DEF FullIsGood
    <3>2. CASE q = p /\ f = file[p]
      <4>1. pc'[p] # "failed" /\ pass[p] = "full"
        BY <3>2
      <4>2. Good(file[p], before[p]) /\ Record(p, file[p], before[p])
        BY <2>0, <4>1
      <4> QED BY <2>c, <3>2, <4>1, <4>2
    <3> QED BY <3>1, <3>2
  <2>4. CandIsGood' BY DEF Good, CandIsGood
  <2>5. CheckedOrLate'
    <3> SUFFICES ASSUME NEW q \in Launchers, NEW f \in Files,
                        \/ pc'[q] = "validate" /\ f \notin todo'[q]
                        \/ pc'[q] = "load"
                 PROVE  Fingerprint(f) = cand'[q][f] \/ f \in late[q]
      BY DEF CheckedOrLate, Fingerprint
    <3>1. q # p
      BY <2>0
    <3>2. pc'[q] = pc[q] /\ todo'[q] = todo[q] /\ cand'[q] = cand[q]
      BY <2>0, <3>1
    <3> QED BY <3>1, <3>2 DEF CheckedOrLate
  <2>6. LoadedOrLate'
    <3> SUFFICES ASSUME NEW q \in Launchers, NEW f \in Files,
                        \/ pc'[q] = "load" /\ f \notin todo'[q]
                        \/ pc'[q] = "serving"
                 PROVE  Good(f, loaded[q][f]) \/ f \in late[q]
      BY DEF LoadedOrLate, Good
    <3>1. q # p
      BY <2>0
    <3>2. pc'[q] = pc[q] /\ todo'[q] = todo[q]
      BY <2>0, <3>1
    <3> QED BY <3>1, <3>2 DEF LoadedOrLate
  <2> QED BY <2>1, <2>2, <2>3, <2>4, <2>5, <2>6
<1>4. ASSUME NEW p \in Launchers, DecideReceipt(p) PROVE IInv'
  <2> USE <1>4, <1>t DEF DecideReceipt, StartValidation, IInv, TypeOK
  <2>1. NonEmpty' BY DEF NonEmpty, Fingerprint
  <2>2. ReceiptsBindGoodBytes' BY DEF Good, ReceiptsBindGoodBytes
  <2>3. FullIsGood' BY DEF Good, FullIsGood
  <2>4. CandIsGood'
    <3> SUFFICES ASSUME NEW q \in Launchers, pc'[q] \in Planned \cup {"remember"},
                        NEW f \in Files
                 PROVE  Good(f, cand[q][f])
      BY DEF CandIsGood, Good
    <3>1. CASE q = p
      <4>1. cand[p] \in receipts
        BY <3>1
      <4> QED BY <3>1, <4>1 DEF ReceiptsBindGoodBytes
    <3>2. CASE q # p
      BY <3>2 DEF CandIsGood
    <3> QED BY <3>1, <3>2
  <2>5. CheckedOrLate' BY DEF Fingerprint, CheckedOrLate
  <2>6. LoadedOrLate' BY DEF Good, LoadedOrLate
  <2> QED BY <2>1, <2>2, <2>3, <2>4, <2>5, <2>6
<1>5. ASSUME NEW p \in Launchers, CompareInspections(p) PROVE IInv'
  <2> USE <1>5, <1>t DEF CompareInspections, IInv, TypeOK
  <2>1. NonEmpty' BY DEF NonEmpty, Fingerprint
  <2>2. ReceiptsBindGoodBytes' BY DEF Good, ReceiptsBindGoodBytes
  <2>3. FullIsGood' BY DEF Good, FullIsGood
  <2>4. CandIsGood'
    <3> SUFFICES ASSUME NEW q \in Launchers, pc'[q] \in Planned \cup {"remember"},
                        NEW f \in Files
                 PROVE  Good(f, cand[q][f])
      BY DEF CandIsGood, Good
    <3>1. CASE q = p
      <4>1. full[p] = cand[p] /\ f \in Files \ todo[p]
        BY <3>1
      <4> QED BY <3>1, <4>1 DEF FullIsGood
    <3>2. CASE q # p
      BY <3>2 DEF CandIsGood
    <3> QED BY <3>1, <3>2
  <2>5. CheckedOrLate' BY DEF Fingerprint, CheckedOrLate
  <2>6. LoadedOrLate' BY DEF Good, LoadedOrLate
  <2> QED BY <2>1, <2>2, <2>3, <2>4, <2>5, <2>6
<1>6. ASSUME NEW p \in Launchers, WriteReceipt(p) PROVE IInv'
  <2> USE <1>6, <1>t DEF WriteReceipt, StartValidation, IInv, TypeOK
  <2>1. NonEmpty' BY DEF NonEmpty, Fingerprint
  <2>2. ReceiptsBindGoodBytes' BY DEF Good, ReceiptsBindGoodBytes, CandIsGood
  <2>3. FullIsGood' BY DEF Good, FullIsGood
  <2>4. CandIsGood' BY DEF Good, CandIsGood
  <2>5. CheckedOrLate' BY DEF Fingerprint, CheckedOrLate
  <2>6. LoadedOrLate' BY DEF Good, LoadedOrLate
  <2> QED BY <2>1, <2>2, <2>3, <2>4, <2>5, <2>6
<1>7. ASSUME NEW p \in Launchers, ValidateFile(p) PROVE IInv'
  <2> USE <1>7, <1>t DEF ValidateFile, IInv, TypeOK
  <2>1. NonEmpty' BY DEF NonEmpty, Fingerprint
  <2>2. ReceiptsBindGoodBytes' BY DEF Good, ReceiptsBindGoodBytes
  <2>3. FullIsGood' BY DEF Good, FullIsGood
  <2>4. CandIsGood' BY DEF Good, CandIsGood
  <2>5. CheckedOrLate'
    <3> SUFFICES ASSUME NEW q \in Launchers, NEW f \in Files,
                        \/ pc'[q] = "validate" /\ f \notin todo'[q]
                        \/ pc'[q] = "load"
                 PROVE  Fingerprint(f) = cand[q][f] \/ f \in late'[q]
      BY DEF CheckedOrLate, Fingerprint
    <3>1. CASE q = p
      BY <3>1 DEF CheckedOrLate
    <3>2. CASE q # p
      BY <3>2 DEF CheckedOrLate
    <3> QED BY <3>1, <3>2
  <2>6. LoadedOrLate' BY DEF Good, LoadedOrLate
  <2> QED BY <2>1, <2>2, <2>3, <2>4, <2>5, <2>6
<1>8. ASSUME NEW p \in Launchers, FinishRound(p) PROVE IInv'
  <2> USE <1>8, <1>t DEF FinishRound, IInv, TypeOK
  <2>1. NonEmpty' BY DEF NonEmpty, Fingerprint
  <2>2. ReceiptsBindGoodBytes' BY DEF Good, ReceiptsBindGoodBytes
  <2>3. FullIsGood' BY DEF Good, FullIsGood
  <2>4. CandIsGood' BY DEF Good, CandIsGood
  <2>5. CheckedOrLate'
    <3> SUFFICES ASSUME NEW q \in Launchers, NEW f \in Files,
                        \/ pc'[q] = "validate" /\ f \notin todo'[q]
                        \/ pc'[q] = "load"
                 PROVE  Fingerprint(f) = cand[q][f] \/ f \in late'[q]
      BY DEF CheckedOrLate, Fingerprint
    <3>1. CASE q = p
      BY <3>1 DEF CheckedOrLate
    <3>2. CASE q # p
      BY <3>2 DEF CheckedOrLate
    <3> QED BY <3>1, <3>2
  <2>6. LoadedOrLate' BY DEF Good, LoadedOrLate
  <2> QED BY <2>1, <2>2, <2>3, <2>4, <2>5, <2>6
<1>9. ASSUME NEW p \in Launchers, LoadFile(p) PROVE IInv'
  <2>a. PICK g \in todo[p] :
            /\ loaded' = [loaded EXCEPT ![p][g] = Fingerprint(g)]
            /\ todo' = [todo EXCEPT ![p] = @ \ {g}]
            /\ pc' = [pc EXCEPT ![p] = IF todo'[p] = {} THEN "serving" ELSE "load"]
    BY <1>9 DEF LoadFile
  <2>b. /\ g \in Files /\ Fingerprint(g) \in Nat
        /\ loaded \in [Launchers -> Prints]
    BY <1>t DEF TypeOK, Fingerprint
  <2>c. \A q \in Launchers, f \in Files :
            loaded'[q][f] = IF q = p /\ f = g THEN Fingerprint(g) ELSE loaded[q][f]
    <3> DEFINE G == loaded'
    <3>1. G = [loaded EXCEPT ![p][g] = Fingerprint(g)]
      BY <2>a
    <3> HIDE DEF G
    <3>2. \A q \in Launchers, f \in Files :
              G[q][f] = IF q = p /\ f = g THEN Fingerprint(g) ELSE loaded[q][f]
      BY <2>b, <3>1, CellUpdate
    <3> QED BY <3>2 DEF G
  <2>d. Good(g, Fingerprint(g)) \/ g \in late[p]
    <3>1. Fingerprint(g) = cand[p][g] \/ g \in late[p]
      BY <1>9, <2>b DEF LoadFile, IInv, CheckedOrLate
    <3>2. Good(g, cand[p][g])
      BY <1>9, <2>b DEF LoadFile, IInv, CandIsGood
    <3> QED BY <3>1, <3>2
  <2> USE <1>9, <1>t DEF LoadFile, IInv, TypeOK
  <2>1. NonEmpty' BY DEF NonEmpty, Fingerprint
  <2>2. ReceiptsBindGoodBytes' BY DEF Good, ReceiptsBindGoodBytes
  <2>3. FullIsGood' BY DEF Good, FullIsGood
  <2>4. CandIsGood' BY DEF Good, CandIsGood
  <2>5. CheckedOrLate' BY DEF Fingerprint, CheckedOrLate
  <2>6. LoadedOrLate'
    <3> SUFFICES ASSUME NEW q \in Launchers, NEW f \in Files,
                        \/ pc'[q] = "load" /\ f \notin todo'[q]
                        \/ pc'[q] = "serving"
                 PROVE  Good(f, loaded'[q][f]) \/ f \in late[q]
      BY DEF LoadedOrLate, Good
    <3>1. CASE q = p /\ f = g
      <4>1. loaded'[q][f] = Fingerprint(g)
        BY <2>b, <2>c, <3>1
      <4> QED BY <2>d, <3>1, <4>1
    <3>2. CASE q = p /\ f # g
      <4>1. loaded'[q][f] = loaded[q][f]
        BY <2>c, <3>2
      <4>2. f \notin todo[q]
        BY <2>a, <3>2
      <4> QED BY <3>2, <4>1, <4>2 DEF LoadedOrLate
    <3>3. CASE q # p
      BY <2>a, <2>c, <3>3 DEF LoadedOrLate
    <3> QED BY <3>1, <3>2, <3>3
  <2> QED BY <2>1, <2>2, <2>3, <2>4, <2>5, <2>6
<1>10. ASSUME Edit PROVE IInv'
  <2>0. UNCHANGED <<receipts, pc, todo, pass, cand, full, loaded>>
    BY <1>10 DEF Edit
  <2> USE <1>t, <1>n, <1>10, <2>0 DEF IInv
  <2>1. NonEmpty' BY EditMarksLate DEF NonEmpty
  <2>2. ReceiptsBindGoodBytes' BY EditKeepsGood DEF ReceiptsBindGoodBytes
  <2>3. FullIsGood' BY EditKeepsGood DEF FullIsGood
  <2>4. CandIsGood' BY EditKeepsGood DEF CandIsGood
  <2>5. CheckedOrLate' BY EditMarksLate DEF CheckedOrLate
  <2>6. LoadedOrLate' BY EditKeepsGood, EditMarksLate DEF LoadedOrLate
  <2> QED BY <2>1, <2>2, <2>3, <2>4, <2>5, <2>6
<1>11. CASE UNCHANGED vars
  <2> USE <1>11, <1>t DEF vars, IInv
  <2>1. NonEmpty' BY DEF NonEmpty, Fingerprint
  <2>2. ReceiptsBindGoodBytes' BY DEF Good, ReceiptsBindGoodBytes
  <2>3. FullIsGood' BY DEF Good, FullIsGood
  <2>4. CandIsGood' BY DEF Good, CandIsGood
  <2>5. CheckedOrLate' BY DEF Fingerprint, CheckedOrLate
  <2>6. LoadedOrLate' BY DEF Good, LoadedOrLate
  <2> QED BY <2>1, <2>2, <2>3, <2>4, <2>5, <2>6
<1> QED
  BY <1>1, <1>2, <1>3, <1>4, <1>5, <1>6, <1>7, <1>8, <1>9, <1>10, <1>11 DEF Next, Step

LEMMA Invariant == Spec => []IInv
BY InitIInv, IInvInductive, PTL DEF Spec

-------------------------------------------------------------------------------
\* The variables of inspect_model, api.prepare and the launch keep their types; every
\* receipt has a fingerprint of every file.
THEOREM CheckpointTypes == Spec => []TypeOK
<1>1. IInv => TypeOK
  BY DEF IInv
<1> QED BY <1>1, Invariant, PTL

\* Whatever happens to the files while launchers inspect them, a verified-model
\* receipt only ever binds fingerprints of bytes with the catalogue's digests.
THEOREM ReceiptsAreSound == Spec => []ReceiptsBindGoodBytes
<1>1. IInv => ReceiptsBindGoodBytes
  BY DEF IInv
<1> QED BY <1>1, Invariant, PTL

\* The same of the plan that api.prepare returns, with or without a receipt.
THEOREM PlansAreSound == Spec => []PlansBindGoodBytes
<1>1. IInv => PlansBindGoodBytes
  BY DEF IInv, CandIsGood, PlansBindGoodBytes
<1> QED BY <1>1, Invariant, PTL

\* For any number of validation rounds, an engine serves what the plan verified,
\* except for files rewritten after the last round looked at them.
THEOREM OnlyLateEdits == Spec => []OnlyLateEditsEscape
<1>1. IInv => OnlyLateEditsEscape
  BY DEF IInv, LoadedOrLate, OnlyLateEditsEscape
<1> QED BY <1>1, Invariant, PTL
===============================================================================
