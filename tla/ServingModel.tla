------------------------------ MODULE ServingModel ------------------------------
(***************************************************************************)
(* execution/serving.py: the prepared model directory of one verified      *)
(* checkpoint and package.  It holds copies (of checkpoint metadata, of    *)
(* bundle files, and the new shards of a resharded checkpoint) and links   *)
(* to the checkpoint's weights.  The first launcher builds it in a         *)
(* temporary directory, hashes the copies, renames it into place and       *)
(* leaves a receipt; the others verify it, and hash it if no receipt binds *)
(* what they see.  Then the plan is validated and the engine reads it.     *)
(*                                                                         *)
(* The directory's name is the digest of the checkpoint with its           *)
(* fingerprints, so that all launchers here have inspected the same        *)
(* weights.  As in Checkpoint a file is the sequence of its contents and   *)
(* its length the fingerprint.  "short" stands for everything verify sees  *)
(* without hashing: a wrong size, a missing or extra file, a changed link. *)
(***************************************************************************)
EXTENDS Naturals, Sequences

CONSTANTS
    Launchers,
    Copied,         \* the files that the directory holds itself
    Linked,         \* the files that it links to
    NoDir, NoProc,
    MaxBegins,      \* bound on preparations
    MaxFaults       \* bound on kills, interrupts, edits of weights and damage

Files    == Copied \cup Linked
Contents == {"good", "bad", "short"}

ASSUME ServingAssumption ==
    /\ Copied \cap Linked = {}
    /\ NoDir \notin [Copied -> Seq(Contents)]
    /\ NoProc \notin Launchers
    /\ MaxBegins \in Nat /\ MaxFaults \in Nat

VARIABLES
    lock,       \* the holder of serving-models/<key>.lock
    weights,    \* per linked file: the contents it has had; inspected as the first
    target,     \* serving-models/<key>: NoDir, or per copy the contents it has had
    temp,       \* per launcher: its .prepare- directory
    receipts,   \* the vectors of fingerprints in verified-serving-models/
    pc,
    pass,       \* per launcher: which call of verify it is in
    todo,       \* per launcher: the files left in the current loop
    file,       \* per launcher: the file being hashed (when pc is "hash")
    rec,        \* per launcher: `records`, and then plan.serving_files
    late,       \* history: files changed since the launcher last checked them
    loaded,     \* per launcher: the contents its engine read
    begins, faults

vars == <<lock, weights, target, temp, receipts, pc, pass, todo, file, rec, late,
          loaded, begins, faults>>

disk == <<weights, target, temp, receipts>>

Lock == INSTANCE FileLock WITH Procs <- Launchers, holder <- lock

\* Mutant of Hashing: a new directory is verified without full=True.
HashingExisting == {"full"}

\* The calls of verify that hash: with full=True.
Hashing == {"staged", "full"}

\* The calls of verify: in the temporary directory, of an existing one, its full
\* version, the comparison after that, and the one in `validate`.
Passes   == {"staged", "light", "full", "again", "plan"}
Compared == {"again", "plan"}
Ended    == {"idle", "failed", "aborted", "killed", "serving"}
Locked   == {"check", "copy", "source", "verify", "hash", "remember"}
Labels   == Ended \cup Locked \cup {"lock", "planned", "load"}
None     == [f \in Files |-> 0]

\* The directory that verify reads, the history of one of its files, and what
\* stat and the content say of it now.
Root(p)           == IF pass[p] = "staged" THEN temp[p] ELSE target
History(p, f)     == IF f \in Linked THEN weights[f] ELSE Root(p)[f]
Fingerprint(p, f) == Len(History(p, f))
Content(p, f)     == History(p, f)[Fingerprint(p, f)]

Goto(p, label) == pc' = [pc EXCEPT ![p] = label]

\* An exception: the temporary directory and the lock are given up.
Leave(p, label) ==
    /\ Goto(p, label)
    /\ temp' = [temp EXCEPT ![p] = NoDir]
    /\ Lock!Die(p)

Fail(p) == Leave(p, "failed") /\ UNCHANGED <<weights, target, receipts>>

Verify(p, kind) ==
    /\ Goto(p, "verify")
    /\ pass' = [pass EXCEPT ![p] = kind]
    /\ todo' = [todo EXCEPT ![p] = Files]

Fault ==
    /\ faults < MaxFaults
    /\ faults' = faults + 1

-------------------------------------------------------------------------------
Init ==
    /\ lock = NoProc
    /\ weights = [f \in Linked |-> <<"good">>]
    /\ target = NoDir
    /\ temp = [p \in Launchers |-> NoDir]
    /\ receipts = {}
    /\ pc = [p \in Launchers |-> "idle"]
    /\ pass = [p \in Launchers |-> "light"]
    /\ todo = [p \in Launchers |-> {}]
    /\ file \in [Launchers -> Files]
    /\ rec = [p \in Launchers |-> None]
    /\ late = [p \in Launchers |-> {}]
    /\ loaded = [p \in Launchers |-> [f \in Files |-> "good"]]
    /\ begins = 0 /\ faults = 0

\* api.prepare has inspected the checkpoint and calls serving.prepare.  Only the
\* unchanged checkpoint leads to this directory.
Begin(p) ==
    /\ pc[p] \in Ended
    /\ begins < MaxBegins /\ begins' = begins + 1
    /\ \A f \in Linked : Len(weights[f]) = 1
    /\ Goto(p, "lock")
    /\ rec' = [rec EXCEPT ![p] = None]
    /\ late' = [late EXCEPT ![p] = {}]
    /\ UNCHANGED <<lock, disk, pass, todo, file, loaded, faults>>

AcquireLock(p) ==
    /\ pc[p] = "lock"
    /\ Lock!Acquire(p)
    /\ Goto(p, "check")
    /\ UNCHANGED <<disk, pass, todo, file, rec, late, loaded, begins, faults>>

\* target.exists(): verify(target, expected).
Reuse(p) ==
    /\ pc[p] = "check" /\ target # NoDir
    /\ Verify(p, "light")
    /\ UNCHANGED <<lock, disk, file, rec, late, loaded, begins, faults>>

\* mkdtemp; the copies do not exist yet.
MakeTemp(p) ==
    /\ pc[p] = "check" /\ target = NoDir
    /\ temp' = [temp EXCEPT ![p] = [f \in Copied |-> <<>>]]
    /\ todo' = [todo EXCEPT ![p] = Copied]
    /\ Goto(p, "copy")
    /\ UNCHANGED <<lock, weights, target, receipts, pass, file, rec, late, loaded,
                   begins, faults>>

\* copy2 of one file, or one shard of reshard_checkpoint.  Nothing is known of
\* the source at this moment: the copy may be good, bad or cut short.
Copy(p) ==
    /\ pc[p] = "copy"
    /\ \E f \in todo[p], c \in Contents :
          /\ temp' = [temp EXCEPT ![p][f] = <<c>>]
          /\ todo' = [todo EXCEPT ![p] = @ \ {f}]
    /\ UNCHANGED <<lock, weights, target, receipts, pc, pass, file, rec, late,
                   loaded, begins, faults>>

\* All copies and links are made: validate_source(model), file by file.
StartSource(p) ==
    /\ pc[p] = "copy" /\ todo[p] = {}
    /\ todo' = [todo EXCEPT ![p] = Linked]
    /\ Goto(p, "source")
    /\ UNCHANGED <<lock, disk, pass, file, rec, late, loaded, begins, faults>>

\* Mutant of CheckSource: the plan's weights are not compared again.
TrustSource(p) ==
    /\ pc[p] \in {"source", "planned"}
    /\ \E f \in todo[p] :
          /\ todo' = [todo EXCEPT ![p] = @ \ {f}]
          /\ late' = [late EXCEPT ![p] = @ \ {f}]
    /\ UNCHANGED <<lock, disk, pc, pass, file, rec, loaded, begins, faults>>

\* One file of validate_source, in prepare or in validate_plan: still as inspected.
CheckSource(p) ==
    /\ pc[p] \in {"source", "planned"}
    /\ \E f \in todo[p] :
          IF Len(weights[f]) = 1
          THEN /\ todo' = [todo EXCEPT ![p] = @ \ {f}]
               /\ late' = [late EXCEPT ![p] = @ \ {f}]
               /\ UNCHANGED <<lock, disk, pc>>
          ELSE Fail(p) /\ UNCHANGED <<todo, late>>
    /\ UNCHANGED <<pass, file, rec, loaded, begins, faults>>

\* The weights are as they were; the sources of the copies, which are compared as
\* well, may not be.  Then the temporary directory is verified, or the plan's.
SourceChecked(p) ==
    /\ pc[p] \in {"source", "planned"} /\ todo[p] = {}
    /\ \/ Verify(p, IF pc[p] = "source" THEN "staged" ELSE "plan") /\ UNCHANGED <<lock, disk>>
       \/ Fail(p) /\ UNCHANGED <<pass, todo>>
    /\ UNCHANGED <<file, rec, late, loaded, begins, faults>>

\* Mutant of Take: after the test of a link the loop goes on to the next file.
TakeCopied(p, f, print) ==
    /\ rec' = IF pass[p] \in Compared \/ f \in Linked
              THEN rec ELSE [rec EXCEPT ![p][f] = print]
    /\ todo' = [todo EXCEPT ![p] = @ \ {f}]
    /\ late' = [late EXCEPT ![p] = @ \ {f}]

\* result.append(row), and a look at the file as it is now.
Take(p, f, print) ==
    /\ rec' = IF pass[p] \in Compared THEN rec ELSE [rec EXCEPT ![p][f] = print]
    /\ todo' = [todo EXCEPT ![p] = @ \ {f}]
    /\ late' = [late EXCEPT ![p] = @ \ {f}]

\* The inventory, the size, the given records; a copy is then hashed in a full
\* pass, a link never.  The row is the fingerprint before hashing.
VerifyFile(p) ==
    /\ pc[p] = "verify"
    /\ \E f \in todo[p] :
          \/ /\ \/ Content(p, f) = "short"
                \/ pass[p] \in Compared /\ rec[p][f] # Fingerprint(p, f)
             /\ Fail(p)
             /\ UNCHANGED <<todo, file, rec, late>>
          \/ /\ Content(p, f) # "short"
             /\ pass[p] \in Compared => rec[p][f] = Fingerprint(p, f)
             /\ Take(p, f, Fingerprint(p, f))
             /\ IF pass[p] \in Hashing /\ f \in Copied
                THEN Goto(p, "hash") /\ file' = [file EXCEPT ![p] = f]
                ELSE UNCHANGED <<pc, file>>
             /\ UNCHANGED <<lock, disk>>
    /\ UNCHANGED <<pass, loaded, begins, faults>>

\* sha256; of a file that changed meanwhile the digest may say anything.
HashFile(p) ==
    /\ pc[p] = "hash"
    /\ LET changed == rec[p][file[p]] # Fingerprint(p, file[p]) IN
          \/ /\ Content(p, file[p]) = "good" \/ changed
             /\ Goto(p, "verify")
             /\ UNCHANGED <<lock, disk>>
          \/ /\ Content(p, file[p]) # "good" \/ changed
             /\ Fail(p)
    /\ UNCHANGED <<pass, todo, file, rec, late, loaded, begins, faults>>

Verified(p, kind) == pc[p] = "verify" /\ todo[p] = {} /\ pass[p] = kind

\* os.replace(temp, target); the files keep their fingerprints.
Publish(p) ==
    /\ Verified(p, "staged")
    /\ target' = temp[p]
    /\ temp' = [temp EXCEPT ![p] = NoDir]
    /\ Goto(p, "remember")
    /\ UNCHANGED <<lock, weights, receipts, pass, todo, file, rec, late, loaded,
                   begins, faults>>

\* The `with` block ends and the plan is made; its sources are validated next.
Plan(p) ==
    /\ Lock!Release(p)
    /\ Goto(p, "planned")
    /\ todo' = [todo EXCEPT ![p] = Linked]

\* Mutant of DecideReceipt: a directory without a receipt is refused.
RefuseUnreceipted(p) ==
    /\ Verified(p, "light")
    /\ IF rec[p] \in receipts
       THEN Plan(p) /\ UNCHANGED disk
       ELSE Fail(p) /\ UNCHANGED todo
    /\ UNCHANGED <<pass, file, rec, late, loaded, begins, faults>>

\* A receipt of these very records: reused.  Otherwise everything is hashed.
DecideReceipt(p) ==
    /\ Verified(p, "light")
    /\ IF rec[p] \in receipts
       THEN Plan(p) /\ UNCHANGED pass
       ELSE Verify(p, "full") /\ UNCHANGED lock
    /\ UNCHANGED <<disk, file, rec, late, loaded, begins, faults>>

\* Mutant of VerifyAgain: the fingerprints are not compared after hashing.
SkipAgain(p) ==
    /\ Verified(p, "full")
    /\ Goto(p, "remember")
    /\ UNCHANGED <<lock, disk, pass, todo, file, rec, late, loaded, begins, faults>>

\* verify(target, expected, records=records), then the receipt.
VerifyAgain(p) ==
    /\ \/ Verified(p, "full") /\ Verify(p, "again")
       \/ Verified(p, "again") /\ Goto(p, "remember") /\ UNCHANGED <<pass, todo>>
    /\ UNCHANGED <<lock, disk, file, rec, late, loaded, begins, faults>>

\* _remember_verification: an immutable file named after its content.
Remember(p) ==
    /\ pc[p] = "remember"
    /\ receipts' = receipts \cup {rec[p]}
    /\ Plan(p)
    /\ UNCHANGED <<weights, target, temp, pass, file, rec, late, loaded, begins,
                   faults>>

\* validate_plan has succeeded for the last time.
StartLoad(p) ==
    /\ Verified(p, "plan")
    /\ Goto(p, "load")
    /\ todo' = [todo EXCEPT ![p] = Files]
    /\ UNCHANGED <<lock, disk, pass, file, rec, late, loaded, begins, faults>>

\* vLLM reads a file of the prepared directory.
LoadFile(p) ==
    /\ pc[p] = "load"
    /\ \E f \in todo[p] :
          /\ loaded' = [loaded EXCEPT ![p][f] = Content(p, f)]
          /\ todo' = [todo EXCEPT ![p] = @ \ {f}]
          /\ Goto(p, IF todo'[p] = {} THEN "serving" ELSE "load")
    /\ UNCHANGED <<lock, disk, pass, file, rec, late, begins, faults>>

\* An I/O error or Ctrl-C anywhere under the lock.
Interrupt(p) ==
    /\ pc[p] \in Locked
    /\ Fault
    /\ Leave(p, "aborted")
    /\ UNCHANGED <<weights, target, receipts, pass, todo, file, rec, late, loaded,
                   begins>>

\* The process dies; its temporary directory, which nobody uses, is forgotten.
Kill(p) ==
    /\ pc[p] \in Locked \cup {"lock"}
    /\ Fault
    /\ Leave(p, "killed")
    /\ UNCHANGED <<weights, target, receipts, pass, todo, file, rec, late, loaded,
                   begins>>

\* Somebody rewrites a weight of the checkpoint or a file of the directory.
Edit ==
    /\ Fault
    /\ \E f \in Files, c \in Contents :
          /\ IF f \in Linked
             THEN weights' = [weights EXCEPT ![f] = Append(@, c)] /\ UNCHANGED target
             ELSE /\ target # NoDir
                  /\ target' = [target EXCEPT ![f] = Append(@, c)]
                  /\ UNCHANGED weights
          /\ late' = [p \in Launchers |-> late[p] \cup {f}]
    /\ UNCHANGED <<lock, temp, receipts, pc, pass, todo, file, rec, loaded, begins>>

Step(p) ==
    \/ AcquireLock(p) \/ Reuse(p) \/ MakeTemp(p) \/ Copy(p) \/ StartSource(p)
    \/ CheckSource(p) \/ SourceChecked(p) \/ VerifyFile(p) \/ HashFile(p) \/ Publish(p)
    \/ DecideReceipt(p) \/ VerifyAgain(p) \/ Remember(p) \/ StartLoad(p) \/ LoadFile(p)

Next ==
    \/ \E p \in Launchers : Begin(p) \/ Step(p) \/ Interrupt(p) \/ Kill(p)
    \/ Edit

Spec == Init /\ [][Next]_vars

\* A process that is not killed keeps running, and flock wakes a waiter.
FairSpec == Spec /\ \A p \in Launchers : WF_vars(Step(p))

-------------------------------------------------------------------------------
Dirs == [Copied -> Seq(Contents)]

\* The variables keep their types.  0 stands for a row that the records do not
\* have (yet): a receipt has a row for every file, the links included.
TypeOK ==
    /\ lock \in Launchers \cup {NoProc}
    /\ weights \in [Linked -> Seq(Contents)]
    /\ target \in Dirs \cup {NoDir}
    /\ temp \in [Launchers -> Dirs \cup {NoDir}]
    /\ receipts \in SUBSET [Files -> Nat \ {0}]
    /\ pc \in [Launchers -> Labels]
    /\ pass \in [Launchers -> Passes]
    /\ todo \in [Launchers -> SUBSET Files]
    /\ file \in [Launchers -> Files]
    /\ rec \in [Launchers -> [Files -> Nat]]
    /\ late \in [Launchers -> SUBSET Files]
    /\ loaded \in [Launchers -> [Files -> Contents]]
    /\ begins \in Nat /\ faults \in Nat

Good(history, print) == print \in 1 .. Len(history) /\ history[print] = "good"

\* What the rename made visible was whole: every copy in its first version has the
\* declared digest, however the copying went and whoever died meanwhile.
PublishedWhole == target # NoDir => \A f \in Copied : Good(target[f], 1)

\* Receipts are the reason why nobody hashes the directory again: of the files
\* in it they only bind bytes that had the declared digest.
ReceiptsBindGoodCopies ==
    \A r \in receipts : target # NoDir /\ \A f \in Copied : Good(target[f], r[f])

\* What the engine reads through the directory is what was verified, link targets
\* included, unless it was changed after the last check of that file.
ServedIsVerified ==
    \A p \in Launchers :
        pc[p] = "serving" => \A f \in Files : loaded[p][f] = "good" \/ f \in late[p]

Untouched ==
    /\ \A f \in Linked : Len(weights[f]) = 1
    /\ target # NoDir => \A f \in Copied : Len(target[f]) = 1

\* A directory that is there can be used, also when its maker died between the
\* rename and the receipt: the next launcher that is left alone gets its plan.
PublishedIsUsable ==
    []Untouched =>
        \A p \in Launchers :
            (pc[p] = "lock" /\ target # NoDir) ~> pc[p] \in {"planned", "aborted", "killed"}

\* "this private-cache entry binds trusted digests to device/inode/ctime/mtime/size":
\* of every file, the links to the weights included.
ReceiptsBindTrustedDigests ==
    \A r \in receipts, f \in Linked : Good(weights[f], r[f])
===============================================================================
