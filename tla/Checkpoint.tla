------------------------------ MODULE Checkpoint ------------------------------
(***************************************************************************)
(* From the bytes of a checkpoint to an engine that serves them:           *)
(* execution/inspection.py (inspect_model, validate_source), the part of   *)
(* execution/api.py that reuses or writes the verified-model receipt and   *)
(* the three validations of the launch plan (launch, initialize and        *)
(* init_device), while somebody may rewrite the files.                     *)
(*                                                                         *)
(* A file is the sequence of the contents it has had.  Its length stands   *)
(* for the fingerprint (device, inode, size, mtime, ctime): every change   *)
(* gives a file a fingerprint it never had.  "short" is a content of       *)
(* another size than the catalogue's, "bad" one of the right size and the  *)
(* wrong digest.                                                           *)
(***************************************************************************)
EXTENDS Naturals, Sequences

CONSTANTS
    Launchers,
    Files,          \* the files of the checkpoint
    Weights,        \* those whose digest is only computed when there is no receipt
    Rounds,         \* validations between the plan and the load
    MaxBegins,      \* bound on preparations
    MaxEdits        \* bound on changes of the checkpoint

Contents == {"good", "bad", "short"}

ASSUME CheckpointAssumption ==
    /\ Weights \subseteq Files
    /\ Rounds \in Nat \ {0}
    /\ MaxBegins \in Nat /\ MaxEdits \in Nat

VARIABLES
    versions,   \* per file: the contents it has had, the current one last
    receipts,   \* the vectors of fingerprints in verified-models/
    pc,
    pass,       \* per launcher: the kind of inspect_model it runs
    todo,       \* per launcher: the files left in the current loop
    file,       \* per launcher: the file being hashed (when pc is "hash")
    before,     \* per launcher: its fingerprint before hashing
    cand,       \* per launcher: the fingerprints of the first inspection
    full,       \* per launcher: ... and of the one that hashed everything
    round,      \* per launcher: validations passed
    loaded,     \* per launcher: the fingerprint of each file its engine read
    late,       \* history: files changed since the launcher last checked them
    begins, edits

vars == <<versions, receipts, pc, pass, todo, file, before, cand, full, round,
          loaded, late, begins, edits>>

\* The launchers' loop variables, for UNCHANGED.
scan == <<pass, file, before, cand, full>>

Fingerprint(f) == Len(versions[f])
Content(f)     == versions[f][Fingerprint(f)]
Good(f, print) == print \in 1 .. Len(versions[f]) /\ versions[f][print] = "good"

Ended   == {"idle", "failed", "serving"}
Planned == {"validate", "load", "serving"}
Labels  == Ended \cup Planned \cup {"inspect", "hash", "decide", "remember"}
Prints  == [Files -> Nat]
None    == [f \in Files |-> 0]

Goto(p, label) == pc' = [pc EXCEPT ![p] = label]
Fail(p)        == Goto(p, "failed")

-------------------------------------------------------------------------------
Init ==
    /\ versions \in [Files -> {<<c>> : c \in Contents}]
    /\ receipts = {}
    /\ pc = [p \in Launchers |-> "idle"]
    /\ pass = [p \in Launchers |-> "candidate"]
    /\ todo = [p \in Launchers |-> {}]
    /\ file \in [Launchers -> Files]
    /\ before = [p \in Launchers |-> 0]
    /\ cand = [p \in Launchers |-> None]
    /\ full = [p \in Launchers |-> None]
    /\ round = [p \in Launchers |-> 0]
    /\ loaded = [p \in Launchers |-> None]
    /\ late = [p \in Launchers |-> {}]
    /\ begins = 0
    /\ edits = 0

\* api.prepare calls inspect_model without verify_weights.  (inspect_model first
\* looks for undeclared files and at config.json by itself; what that refuses of
\* config.json the loop over the declared files refuses too.)
Begin(p) ==
    /\ pc[p] \in Ended
    /\ begins < MaxBegins
    /\ begins' = begins + 1
    /\ Goto(p, "inspect")
    /\ pass' = [pass EXCEPT ![p] = "candidate"]
    /\ todo' = [todo EXCEPT ![p] = Files]
    /\ cand' = [cand EXCEPT ![p] = None]
    /\ full' = [full EXCEPT ![p] = None]
    /\ round' = [round EXCEPT ![p] = 0]
    /\ loaded' = [loaded EXCEPT ![p] = None]
    /\ UNCHANGED <<versions, receipts, file, before, late, edits>>

\* Mutant of Record: only the metadata files get a row in `records`.
RecordMetadata(p, f, print) ==
    /\ IF f \in Weights
       THEN UNCHANGED <<cand, full>>
       ELSE IF pass[p] = "candidate"
       THEN cand' = [cand EXCEPT ![p][f] = print] /\ UNCHANGED full
       ELSE full' = [full EXCEPT ![p][f] = print] /\ UNCHANGED cand
    /\ todo' = [todo EXCEPT ![p] = @ \ {f}]

\* records.append((name, sha256, *before))
Record(p, f, print) ==
    /\ IF pass[p] = "candidate"
       THEN cand' = [cand EXCEPT ![p][f] = print] /\ UNCHANGED full
       ELSE full' = [full EXCEPT ![p][f] = print] /\ UNCHANGED cand
    /\ todo' = [todo EXCEPT ![p] = @ \ {f}]

\* The next file of inspect_model: its fingerprint and size; a weight is only
\* recorded in the first pass, everything else is hashed.
InspectFile(p) ==
    /\ pc[p] = "inspect"
    /\ \E f \in todo[p] :
          \/ /\ Content(f) = "short"
             /\ Fail(p)
             /\ UNCHANGED <<todo, file, before, cand, full>>
          \/ /\ Content(f) # "short"
             /\ f \in Weights /\ pass[p] = "candidate"
             /\ Record(p, f, Fingerprint(f))
             /\ UNCHANGED <<pc, file, before>>
          \/ /\ Content(f) # "short"
             /\ ~ (f \in Weights /\ pass[p] = "candidate")
             /\ file' = [file EXCEPT ![p] = f]
             /\ before' = [before EXCEPT ![p] = Fingerprint(f)]
             /\ Goto(p, "hash")
             /\ UNCHANGED <<todo, cand, full>>
    /\ UNCHANGED <<versions, receipts, pass, round, loaded, late, begins, edits>>

\* What sha256 may say of the file: if it was rewritten meanwhile, the digest
\* may be of a mixture of versions and match by that.
DigestMayMatch(p) == Content(file[p]) = "good" \/ Fingerprint(file[p]) # before[p]
DigestMayDiffer(p) == Content(file[p]) # "good" \/ Fingerprint(file[p]) # before[p]

\* Mutant of HashFile: the fingerprint is not compared again after hashing.
HashFileOnce(p) ==
    /\ pc[p] = "hash"
    /\ \/ /\ DigestMayMatch(p)
          /\ Record(p, file[p], before[p])
          /\ Goto(p, "inspect")
       \/ /\ DigestMayDiffer(p)
          /\ Fail(p)
          /\ UNCHANGED <<todo, cand, full>>
    /\ UNCHANGED <<versions, receipts, pass, file, before, round, loaded, late, begins, edits>>

\* "model-identity" if the digest differs, "model-race" if the file changed.
HashFile(p) ==
    /\ pc[p] = "hash"
    /\ \/ /\ DigestMayMatch(p)
          /\ IF Fingerprint(file[p]) = before[p]
             THEN Record(p, file[p], before[p]) /\ Goto(p, "inspect")
             ELSE Fail(p) /\ UNCHANGED <<todo, cand, full>>
       \/ /\ DigestMayDiffer(p)
          /\ Fail(p)
          /\ UNCHANGED <<todo, cand, full>>
    /\ UNCHANGED <<versions, receipts, pass, file, before, round, loaded, late, begins, edits>>

\* A plan exists from here on; its model.files are `cand`.
StartValidation(p) ==
    /\ Goto(p, "validate")
    /\ todo' = [todo EXCEPT ![p] = Files]

\* The receipt of exactly these fingerprints makes the model verified; without
\* one everything is hashed.
DecideReceipt(p) ==
    /\ pc[p] = "inspect" /\ todo[p] = {}
    /\ pass[p] = "candidate"
    /\ IF cand[p] \in receipts
       THEN StartValidation(p) /\ UNCHANGED pass
       ELSE /\ pass' = [pass EXCEPT ![p] = "full"]
            /\ todo' = [todo EXCEPT ![p] = Files]
            /\ UNCHANGED pc
    /\ UNCHANGED <<versions, receipts, file, before, cand, full, round, loaded,
                   late, begins, edits>>

\* Mutant of CompareInspections: model.files is not compared with candidate.files.
TrustInspection(p) ==
    /\ pc[p] = "inspect" /\ todo[p] = {}
    /\ pass[p] = "full"
    /\ Goto(p, "remember")
    /\ UNCHANGED <<versions, receipts, todo, scan, round, loaded, late, begins, edits>>

\* "model-race" unless both inspections saw the same fingerprints.
CompareInspections(p) ==
    /\ pc[p] = "inspect" /\ todo[p] = {}
    /\ pass[p] = "full"
    /\ IF full[p] = cand[p] THEN Goto(p, "remember") ELSE Fail(p)
    /\ UNCHANGED <<versions, receipts, todo, scan, round, loaded, late, begins, edits>>

\* write_json_immutable(receipt_path, receipt): the path is the digest of the
\* receipt, so that a file already there is this receipt.
WriteReceipt(p) ==
    /\ pc[p] = "remember"
    /\ receipts' = receipts \cup {cand[p]}
    /\ StartValidation(p)
    /\ UNCHANGED <<versions, scan, round, loaded, late, begins, edits>>

\* Mutant of ValidateFile: only the metadata files are compared.
ValidateMetadata(p) ==
    /\ pc[p] = "validate"
    /\ \E f \in todo[p] :
          IF f \in Weights \/ Fingerprint(f) = cand[p][f]
          THEN /\ todo' = [todo EXCEPT ![p] = @ \ {f}]
               /\ late' = [late EXCEPT ![p] = @ \ {f}]
               /\ UNCHANGED pc
          ELSE Fail(p) /\ UNCHANGED <<todo, late>>
    /\ UNCHANGED <<versions, receipts, scan, round, loaded, begins, edits>>

\* validate_source compares one file with the plan, or "model-changed".
ValidateFile(p) ==
    /\ pc[p] = "validate"
    /\ \E f \in todo[p] :
          IF Fingerprint(f) = cand[p][f]
          THEN /\ todo' = [todo EXCEPT ![p] = @ \ {f}]
               /\ late' = [late EXCEPT ![p] = @ \ {f}]
               /\ UNCHANGED pc
          ELSE Fail(p) /\ UNCHANGED <<todo, late>>
    /\ UNCHANGED <<versions, receipts, scan, round, loaded, begins, edits>>

\* validate_plan succeeds: in `launch`, then in each worker's `initialize`, then
\* in `init_device`, after which the engine loads the weights.
FinishRound(p) ==
    /\ pc[p] = "validate" /\ todo[p] = {}
    /\ round' = [round EXCEPT ![p] = @ + 1]
    /\ todo' = [todo EXCEPT ![p] = Files]
    /\ Goto(p, IF round'[p] = Rounds THEN "load" ELSE "validate")
    /\ UNCHANGED <<versions, receipts, scan, loaded, late, begins, edits>>

\* vLLM reads a file of the checkpoint.
LoadFile(p) ==
    /\ pc[p] = "load"
    /\ \E f \in todo[p] :
          /\ loaded' = [loaded EXCEPT ![p][f] = Fingerprint(f)]
          /\ todo' = [todo EXCEPT ![p] = @ \ {f}]
          /\ Goto(p, IF todo'[p] = {} THEN "serving" ELSE "load")
    /\ UNCHANGED <<versions, receipts, scan, round, late, begins, edits>>

\* Somebody rewrites a file of the checkpoint, in place or by another file.
Edit ==
    /\ edits < MaxEdits
    /\ edits' = edits + 1
    /\ \E f \in Files, c \in Contents :
          /\ versions' = [versions EXCEPT ![f] = Append(@, c)]
          /\ late' = [p \in Launchers |-> late[p] \cup {f}]
    /\ UNCHANGED <<receipts, pc, todo, scan, round, loaded, begins>>

Step(p) ==
    \/ InspectFile(p) \/ HashFile(p) \/ DecideReceipt(p) \/ CompareInspections(p)
    \/ WriteReceipt(p) \/ ValidateFile(p) \/ FinishRound(p) \/ LoadFile(p)

Next ==
    \/ \E p \in Launchers : Begin(p) \/ Step(p)
    \/ Edit

Spec == Init /\ [][Next]_vars

-------------------------------------------------------------------------------
\* The variables keep their types.  0 stands for a row that `records` does not
\* have (yet), so that a receipt, in particular, has a row for every file.
TypeOK ==
    /\ versions \in [Files -> Seq(Contents)]
    /\ receipts \in SUBSET [Files -> Nat \ {0}]
    /\ pc \in [Launchers -> Labels]
    /\ pass \in [Launchers -> {"candidate", "full"}]
    /\ todo \in [Launchers -> SUBSET Files]
    /\ file \in [Launchers -> Files]
    /\ before \in [Launchers -> Nat]
    /\ cand \in [Launchers -> Prints]
    /\ full \in [Launchers -> Prints]
    /\ round \in [Launchers -> Nat]
    /\ loaded \in [Launchers -> Prints]
    /\ late \in [Launchers -> SUBSET Files]
    /\ begins \in Nat
    /\ edits \in Nat

\* Every receipt binds fingerprints of bytes that had the catalogue's digests,
\* however the files changed while it was made; reusing it without hashing the
\* weights again is therefore sound.
ReceiptsBindGoodBytes == \A r \in receipts, f \in Files : Good(f, r[f])

\* A launch plan carries `verified` only for fingerprints of good bytes, whether
\* it took them from a receipt or from its own inspection.
PlansBindGoodBytes ==
    \A p \in Launchers : pc[p] \in Planned => \A f \in Files : Good(f, cand[p][f])

\* An engine serves bytes other than the catalogue's only if they were written
\* after the last worker's last look at that file: whatever changed between the
\* inspection, the plan, the exec and the worker's start has been refused.
OnlyLateEditsEscape ==
    \A p \in Launchers :
        pc[p] = "serving" =>
            \A f \in Files : Good(f, loaded[p][f]) \/ f \in late[p]
===============================================================================
