----------------------------- MODULE PackageCache -----------------------------
(***************************************************************************)
(* execution/cache.py, `prepare_package` and the calls it makes: several   *)
(* launcher processes install one native execution package into a cache    *)
(* directory they share.  Everything happens under the package's file      *)
(* lock: an existing entry is verified and reused or refused; otherwise    *)
(* the files are gathered in a fresh staging directory, from a local       *)
(* --bundle or from the pinned archive, verified and renamed into place.   *)
(*                                                                         *)
(* A directory is the function from the file names that matter to what is  *)
(* in the file: "none" (no such file), "good" (the declared digest) or     *)
(* "bad".  Processes may be killed, and may be interrupted by an exception *)
(* the code does not raise itself (an I/O error, Ctrl-C), at any step.     *)
(***************************************************************************)
EXTENDS Naturals, Sequences, FiniteSets

CONSTANTS
    Launchers,      \* the processes calling prepare_package
    Names,          \* the files the manifest declares, execution.json included
    Download,       \* the name of the downloaded archive, ".download.partial"
    Foreign,        \* stands for every archive member refused on sight
    Archives,       \* the archives the catalogue may pin: sequences of members
    NoArchive,      \* ... or it pins none
    TempNames,      \* the names mkdtemp may draw
    Bundles,        \* the --bundle directories the users may start with
    NoProc, NoDir, NoTemp,
    MaxStarts,      \* bound on calls of prepare_package
    MaxFaults       \* bound on everything that happens from outside the code:
                    \* kills, interrupts, edits of the bundle, damage

Contents == {"none", "good", "bad"}
Members  == [name : Names \cup {Foreign}, data : {"good", "bad"}]
AllNames == Names \cup {Download}
Dirs     == [AllNames -> Contents]

ASSUME ConstantsAssumption ==
    /\ IsFiniteSet(Names)
    /\ Download \notin Names /\ Foreign \notin Names
    /\ Archives \subseteq Seq(Members)
    /\ NoProc \notin Launchers /\ NoTemp \notin TempNames
    /\ NoDir \notin Dirs
    /\ NoArchive \notin Archives
    /\ Bundles \subseteq [Names -> Contents]
    /\ MaxStarts \in Nat /\ MaxFaults \in Nat

VARIABLES
    lock,       \* the holder of locks/<digest>.lock
    entry,      \* executions/<digest>: NoDir or a directory
    temp,       \* the staging directories next to it
    bundle,     \* the directory given with --bundle
    archive,    \* the pinned archive, or NoArchive
    pc,         \* per launcher: where it is in prepare_package
    origin,     \* per launcher: the arguments `source` and `offline`
    dir,        \* per launcher: its `staging`, or NoTemp
    seen,       \* per launcher: the files copied or extracted so far
    out,        \* per launcher: "ok", or the code of the error it raises
    count       \* how often each bounded thing happened

vars == <<lock, entry, temp, bundle, archive, pc, origin, dir, seen, out, count>>

Lock == INSTANCE FileLock WITH Procs <- Launchers, holder <- lock

Empty == [n \in AllNames |-> "none"]

\* verify_package: the declared files with the declared digests, nothing else.
\* It reads file after file; as no launcher writes into a directory another one
\* verifies, the reads are one step here (damage during the reads is the damage
\* before or after them, which the launch and every worker check for again).
Intact(d) == \A n \in AllNames : d[n] = IF n \in Names THEN "good" ELSE "none"

BundleIntact == \A n \in Names : bundle[n] = "good"

Gathering == {"verify_bundle", "copy", "fetch", "check_archive", "extract",
              "verify", "publish"}
Critical  == Gathering \cup {"check", "cleanup", "leave"}
Ended     == {"idle", "returned", "failed", "killed"}
Labels    == Critical \cup Ended \cup {"lock"}
\* "refused" stands for every error the code raises itself before it installs.
Results   == {"none", "ok", "cache-corrupt", "refused", "interrupted"}
Counters  == {"starts", "kills", "interrupts", "edits", "damage"}
\* Where the payload may come from: --offline only matters without --bundle.
Origins   == {"bundle", "online", "offline"}

Goto(p, label) == pc' = [pc EXCEPT ![p] = label]

Bump(c) == count' = [count EXCEPT ![c] = @ + 1]

\* Something from outside happens, while the budget of such things lasts.
Fault(c) ==
    /\ count["kills"] + count["interrupts"] + count["edits"] + count["damage"]
          < MaxFaults
    /\ Bump(c)

\* The call is over, and its local variables with it.
Forget(p) ==
    /\ origin' = [origin EXCEPT ![p] = "offline"]
    /\ dir' = [dir EXCEPT ![p] = NoTemp]
    /\ seen' = [seen EXCEPT ![p] = {}]

\* An exception in the `try`: the `finally` clause runs before it propagates.
Raise(p, code) ==
    /\ out' = [out EXCEPT ![p] = code]
    /\ Goto(p, "cleanup")

Write(p, n, data) == temp' = [temp EXCEPT ![dir[p]][n] = data]

-------------------------------------------------------------------------------
Init ==
    /\ lock = NoProc
    /\ entry = NoDir
    /\ temp = [t \in TempNames |-> NoDir]
    /\ bundle \in Bundles
    /\ archive \in Archives \cup {NoArchive}
    /\ pc = [p \in Launchers |-> "idle"]
    /\ origin = [p \in Launchers |-> "offline"]
    /\ dir = [p \in Launchers |-> NoTemp]
    /\ seen = [p \in Launchers |-> {}]
    /\ out = [p \in Launchers |-> "none"]
    /\ count = [c \in Counters |-> 0]

\* A launcher process calls prepare_package(root, package, source, offline).
Start(p) ==
    /\ pc[p] \in Ended
    /\ count["starts"] < MaxStarts
    /\ \E o \in Origins : origin' = [origin EXCEPT ![p] = o]
    /\ out' = [out EXCEPT ![p] = "none"]
    /\ Goto(p, "lock")
    /\ Bump("starts")
    /\ UNCHANGED <<lock, entry, temp, bundle, archive, dir, seen>>

\* Mutant of AcquireLock: the lock file is opened but flock is not called.
AcquireUnlocked(p) ==
    /\ pc[p] = "lock"
    /\ lock' = p
    /\ Goto(p, "check")
    /\ UNCHANGED <<entry, temp, bundle, archive, origin, dir, seen, out, count>>

AcquireLock(p) ==
    /\ pc[p] = "lock"
    /\ Lock!Acquire(p)
    /\ Goto(p, "check")
    /\ UNCHANGED <<entry, temp, bundle, archive, origin, dir, seen, out, count>>

\* Mutant of Reuse: an existing entry is trusted without verify_package.
ReuseUnverified(p) ==
    /\ pc[p] = "check"
    /\ entry # NoDir
    /\ out' = [out EXCEPT ![p] = "ok"]
    /\ Goto(p, "leave")
    /\ UNCHANGED <<lock, entry, temp, bundle, archive, origin, dir, seen, count>>

\* final.exists() and verify_package(final) accepts it, or "cache-corrupt".
Reuse(p) ==
    /\ pc[p] = "check"
    /\ entry # NoDir
    /\ out' = [out EXCEPT ![p] = IF Intact(entry) THEN "ok" ELSE "cache-corrupt"]
    /\ Goto(p, "leave")
    /\ UNCHANGED <<lock, entry, temp, bundle, archive, origin, dir, seen, count>>

\* mkdtemp draws a name nobody uses; which one makes no difference.
Unused == {t \in TempNames : temp[t] = NoDir}

\* No entry yet: a new, empty staging directory.
Stage(p) ==
    /\ pc[p] = "check"
    /\ entry = NoDir
    /\ Unused # {}
    /\ LET t == CHOOSE t \in Unused : TRUE IN
          /\ temp' = [temp EXCEPT ![t] = Empty]
          /\ dir' = [dir EXCEPT ![p] = t]
    /\ Goto(p, IF origin[p] = "bundle" THEN "verify_bundle" ELSE "fetch")
    /\ UNCHANGED <<lock, entry, bundle, archive, origin, seen, out, count>>

VerifyBundle(p) ==
    /\ pc[p] = "verify_bundle"
    /\ IF BundleIntact
       THEN Goto(p, "copy") /\ UNCHANGED out
       ELSE Raise(p, "refused")
    /\ UNCHANGED <<lock, entry, temp, bundle, archive, origin, dir, seen, count>>

\* One shutil.copyfile; the bundle may have changed since it was verified.
CopyFile(p) ==
    /\ pc[p] = "copy"
    /\ \E n \in Names \ seen[p] :
          IF bundle[n] = "none"
          THEN Raise(p, "refused") /\ UNCHANGED <<temp, seen>>
          ELSE /\ Write(p, n, bundle[n])
               /\ seen' = [seen EXCEPT ![p] = @ \cup {n}]
               /\ Goto(p, IF seen'[p] = Names THEN "verify" ELSE "copy")
               /\ UNCHANGED out
    /\ UNCHANGED <<lock, entry, bundle, archive, origin, dir, count>>

NoPayload(p) ==
    /\ pc[p] = "fetch"
    /\ origin[p] = "offline" \/ archive = NoArchive
    /\ Raise(p, "refused")
    /\ UNCHANGED <<lock, entry, temp, bundle, archive, origin, dir, seen, count>>

\* The download ends in a file of the declared size or in an error (origin,
\* oversize, network); a short or altered file is left to verify_file.
Fetch(p) ==
    /\ pc[p] = "fetch"
    /\ origin[p] # "offline" /\ archive # NoArchive
    /\ \/ \E data \in {"good", "bad"} :
             /\ Write(p, Download, data)
             /\ Goto(p, "check_archive")
             /\ UNCHANGED out
       \/ Raise(p, "refused") /\ UNCHANGED temp
    /\ UNCHANGED <<lock, entry, bundle, archive, origin, dir, seen, count>>

CheckArchive(p) ==
    /\ pc[p] = "check_archive"
    /\ IF temp[dir[p]][Download] = "good"
       THEN Goto(p, "extract") /\ UNCHANGED out
       ELSE Raise(p, "refused")
    /\ UNCHANGED <<lock, entry, temp, bundle, archive, origin, dir, seen, count>>

\* The members are taken in order and none twice: as many are seen as taken.
Taken(p) == Cardinality(seen[p])

\* Mutant of ExtractMember: it does not ask whether the member is declared.
ExtractUndeclared(p) ==
    /\ pc[p] = "extract"
    /\ Taken(p) < Len(archive)
    /\ LET m == archive[Taken(p) + 1] IN
          IF m.name \notin seen[p]
          THEN /\ Write(p, m.name, m.data)
               /\ seen' = [seen EXCEPT ![p] = @ \cup {m.name}]
               /\ UNCHANGED <<pc, out>>
          ELSE Raise(p, "refused") /\ UNCHANGED <<temp, seen>>
    /\ UNCHANGED <<lock, entry, bundle, archive, origin, dir, count>>

ExtractMember(p) ==
    /\ pc[p] = "extract"
    /\ Taken(p) < Len(archive)
    /\ LET m == archive[Taken(p) + 1] IN
          IF m.name \in Names \ seen[p]
          THEN /\ Write(p, m.name, m.data)
               /\ seen' = [seen EXCEPT ![p] = @ \cup {m.name}]
               /\ UNCHANGED <<pc, out>>
          ELSE Raise(p, "refused") /\ UNCHANGED <<temp, seen>>
    /\ UNCHANGED <<lock, entry, bundle, archive, origin, dir, count>>

\* Nothing may be missing; then the archive itself is removed from staging.
FinishExtract(p) ==
    /\ pc[p] = "extract"
    /\ Taken(p) >= Len(archive)
    /\ IF seen[p] = Names
       THEN Write(p, Download, "none") /\ Goto(p, "verify") /\ UNCHANGED out
       ELSE Raise(p, "refused") /\ UNCHANGED temp
    /\ UNCHANGED <<lock, entry, bundle, archive, origin, dir, seen, count>>

VerifyStaging(p) ==
    /\ pc[p] = "verify"
    /\ IF Intact(temp[dir[p]])
       THEN Goto(p, "publish") /\ UNCHANGED out
       ELSE Raise(p, "refused")
    /\ UNCHANGED <<lock, entry, temp, bundle, archive, origin, dir, seen, count>>

\* os.rename refuses a destination that is a directory with files in it.
Publish(p) ==
    /\ pc[p] = "publish"
    /\ IF entry = NoDir
       THEN /\ entry' = temp[dir[p]]
            /\ temp' = [temp EXCEPT ![dir[p]] = NoDir]
            /\ out' = [out EXCEPT ![p] = "ok"]
            /\ Goto(p, "cleanup")
       ELSE Raise(p, "refused") /\ UNCHANGED <<entry, temp>>
    /\ UNCHANGED <<lock, bundle, archive, origin, dir, seen, count>>

\* Mutant of Cleanup: the rmtree is not in a `finally` clause.
CleanupOnSuccess(p) ==
    /\ pc[p] = "cleanup"
    /\ temp' = [temp EXCEPT ![dir[p]] = IF out[p] = "ok" THEN NoDir ELSE @]
    /\ dir' = [dir EXCEPT ![p] = NoTemp]
    /\ Goto(p, "leave")
    /\ UNCHANGED <<lock, entry, bundle, archive, origin, seen, out, count>>

\* finally: rmtree(staging) if it is still there.
Cleanup(p) ==
    /\ pc[p] = "cleanup"
    /\ temp' = [temp EXCEPT ![dir[p]] = NoDir]
    /\ dir' = [dir EXCEPT ![p] = NoTemp]
    /\ Goto(p, "leave")
    /\ UNCHANGED <<lock, entry, bundle, archive, origin, seen, out, count>>

Leave(p) ==
    /\ pc[p] = "leave"
    /\ Lock!Release(p)
    /\ Forget(p)
    /\ Goto(p, IF out[p] = "ok" THEN "returned" ELSE "failed")
    /\ UNCHANGED <<entry, temp, bundle, archive, out, count>>

\* An exception the code does not raise itself, anywhere inside the `try`.
Interrupt(p) ==
    /\ pc[p] \in Gathering
    /\ Fault("interrupts")
    /\ Raise(p, "interrupted")
    /\ UNCHANGED <<lock, entry, temp, bundle, archive, origin, dir, seen>>

\* Mutant of Kill: the lock is a file created by the holder, and outlives it.
KillKeepsLock(p) ==
    /\ pc[p] \in Critical \cup {"lock"}
    /\ Fault("kills")
    /\ Goto(p, "killed")
    /\ Forget(p)
    /\ out' = [out EXCEPT ![p] = "none"]
    /\ UNCHANGED <<lock, entry, temp, bundle, archive>>

\* The process dies; its staging directory stays behind.
Kill(p) ==
    /\ pc[p] \in Critical \cup {"lock"}
    /\ Fault("kills")
    /\ Lock!Die(p)
    /\ Goto(p, "killed")
    /\ Forget(p)
    /\ out' = [out EXCEPT ![p] = "none"]
    /\ UNCHANGED <<entry, temp, bundle, archive>>

\* The user rewrites a file of the --bundle directory.
EditBundle ==
    /\ Fault("edits")
    /\ \E n \in Names, c \in Contents : bundle' = [bundle EXCEPT ![n] = c]
    /\ UNCHANGED <<lock, entry, temp, archive, pc, origin, dir, seen, out>>

\* A disk fault, a lost write after a power cut, or a person changes the entry.
Damage ==
    /\ entry # NoDir
    /\ Fault("damage")
    /\ \E n \in AllNames, c \in Contents : entry' = [entry EXCEPT ![n] = c]
    /\ UNCHANGED <<lock, temp, bundle, archive, pc, origin, dir, seen, out>>

\* The steps a running launcher takes by itself.
Step(p) ==
    \/ AcquireLock(p) \/ Reuse(p) \/ Stage(p)
    \/ VerifyBundle(p) \/ CopyFile(p)
    \/ NoPayload(p) \/ Fetch(p) \/ CheckArchive(p)
    \/ ExtractMember(p) \/ FinishExtract(p)
    \/ VerifyStaging(p) \/ Publish(p) \/ Cleanup(p) \/ Leave(p)

Next ==
    \/ \E p \in Launchers : Start(p) \/ Step(p) \/ Interrupt(p) \/ Kill(p)
    \/ EditBundle
    \/ Damage

Spec == Init /\ [][Next]_vars

\* A process that is not killed keeps running, and flock wakes a waiter.
FairSpec == Spec /\ \A p \in Launchers : WF_vars(Step(p))

-------------------------------------------------------------------------------
\* The variables keep their types; of an archive, in particular, only files that the
\* manifest declares are ever extracted.
TypeOK ==
    /\ lock \in Launchers \cup {NoProc}
    /\ entry \in Dirs \cup {NoDir}
    /\ temp \in [TempNames -> Dirs \cup {NoDir}]
    /\ bundle \in [Names -> Contents]
    /\ archive \in Archives \cup {NoArchive}
    /\ pc \in [Launchers -> Labels]
    /\ origin \in [Launchers -> Origins]
    /\ dir \in [Launchers -> TempNames \cup {NoTemp}]
    /\ seen \in [Launchers -> SUBSET Names]
    /\ out \in [Launchers -> Results]
    /\ count \in [Counters -> Nat]

\* Whoever is about to rename is alone: no entry exists yet, so the rename
\* cannot meet another launcher's entry, and its staging directory is still the
\* intact one it verified.  (cache.py: the lock spans the test for `final` and
\* the rename, and mkdtemp never hands out a name in use.)
PublishSafe ==
    \A p \in Launchers :
        pc[p] = "publish" =>
            /\ lock = p
            /\ entry = NoDir
            /\ Intact(temp[dir[p]])

Owned(t) == \E p \in Launchers : dir[p] = t

\* Staging directories are only ever left behind by killed processes: at most
\* one for each, whatever fails, is refused or is interrupted in between.
LitterOnlyFromKills ==
    Cardinality({t \in TempNames : temp[t] # NoDir /\ ~ Owned(t)}) <= count["kills"]

Abs == INSTANCE CacheEntry WITH
    entry <- IF entry = NoDir THEN "absent"
             ELSE IF Intact(entry) THEN "intact" ELSE "damaged",
    granted <- {p \in Launchers : out[p] = "ok"}

\* prepare_package implements the write-once entry of CacheEntry: no launcher
\* replaces or alters an entry, a path is granted only while it is intact.
RefinesCacheEntry == Abs!EntrySpec

\* A launcher with a good --bundle gets the package, unless it is itself killed
\* or interrupted, whatever the others do: an attempt that fails, is offline,
\* meets a bad archive or dies halfway never stands in its way.
GoodBundlePrepares ==
    [](BundleIntact /\ count["damage"] = 0) =>
        \A p \in Launchers :
            (pc[p] = "lock" /\ origin[p] = "bundle") ~>
                \/ pc[p] \in {"returned", "killed"}
                \/ out[p] = "interrupted"
===============================================================================
