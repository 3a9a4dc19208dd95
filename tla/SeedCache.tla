------------------------------- MODULE SeedCache -------------------------------
(***************************************************************************)
(* seed_caches of cache_namespace.py for one kind of compile cache: a      *)
(* missing cache directory is filled from the image's seed by a copy into  *)
(* <target>.seed.tmp.<pid> and a rename, without a lock.  Several          *)
(* processes, in one container or in several that share the volume, start  *)
(* at once; then their engines make the directory, if it is still missing, *)
(* and write their own entries.                                            *)
(*                                                                         *)
(* A directory is an object with a set of names, reached by a path as long *)
(* as no rename or removal takes it away: rmtree holds the directory that  *)
(* it opened, copytree and rename use the path anew each time.  The seed   *)
(* is taken flat: the makedirs of a nested seed may also bring a removed   *)
(* temporary directory back, which adds to what two containers can meet.   *)
(***************************************************************************)
EXTENDS Naturals

CONSTANTS
    Procs,
    PidOf,          \* the process id of each, in its own namespace
    OneNamespace,   \* whether all run in one container
    SeedFiles,      \* the files of the seed
    Marker, Own,    \* ".paiton-seed"; what an engine writes into its cache
    Warm, NoDir     \* the directory that an engine makes; none

Names == SeedFiles \cup {Marker, Own}
Whole == SeedFiles \cup {Marker}
Pids  == {PidOf[p] : p \in Procs}
Dirs  == Procs \cup {Warm}      \* a temporary directory is named after its maker

ASSUME SeedAssumption ==
    /\ OneNamespace \in BOOLEAN
    /\ Marker \notin SeedFiles /\ Own \notin Whole
    /\ Warm \notin Procs /\ NoDir \notin Dirs

VARIABLES
    target,     \* the directory at the cache's path
    temp,       \* per process id: the directory at the temporary path
    files,      \* per directory: the names in it
    pc,
    todo,       \* per process: the files left to copy or to remove
    broken,     \* per process: copytree has collected an error
    opened,     \* per process: the directory that its rmtree holds
    harm        \* history: a process was killed or an I/O error happened

vars == <<target, temp, files, pc, todo, broken, opened, harm>>

Live   == {"look", "make", "copy", "mark", "rename", "count", "remove", "removing",
           "start", "engine"}
Labels == Live \cup {"idle", "killed"}

\* Mutant of Key: the temporary name is the same for all.
OneKey(p) == CHOOSE k \in Pids : TRUE

\* <target>.seed.tmp.<pid>, and the directory there.
Key(p)  == PidOf[p]
Path(p) == temp[Key(p)]

Goto(p, label) == pc' = [pc EXCEPT ![p] = label]

Init ==
    /\ target = NoDir
    /\ temp = [k \in Pids |-> NoDir]
    /\ files = [d \in Dirs |-> {}]
    /\ pc = [p \in Procs |-> "idle"]
    /\ todo = [p \in Procs |-> {}]
    /\ broken = [p \in Procs |-> FALSE]
    /\ opened = [p \in Procs |-> NoDir]
    /\ harm = FALSE

\* Within one namespace an id is given again only after its bearer has died.
Begin(p) ==
    /\ pc[p] = "idle"
    /\ OneNamespace =>
          \A q \in Procs \ {p} : PidOf[q] = PidOf[p] => pc[q] \in {"idle", "killed"}
    /\ Goto(p, "look")
    /\ UNCHANGED <<target, temp, files, todo, broken, opened, harm>>

\* if target.exists(): continue
Look(p) ==
    /\ pc[p] = "look"
    /\ Goto(p, IF target = NoDir THEN "make" ELSE "start")
    /\ UNCHANGED <<target, temp, files, todo, broken, opened, harm>>

\* Mutant of MakeTemp: it waits until the temporary path is free.
WaitForTemp(p) ==
    /\ pc[p] = "make" /\ Path(p) = NoDir
    /\ temp' = [temp EXCEPT ![Key(p)] = p]
    /\ todo' = [todo EXCEPT ![p] = SeedFiles]
    /\ Goto(p, "copy")
    /\ UNCHANGED <<target, files, broken, opened, harm>>

\* copytree's os.makedirs(tmp): FileExistsError, some other error, or a directory.
MakeTemp(p) ==
    /\ pc[p] = "make"
    /\ \/ Path(p) # NoDir /\ Goto(p, "remove") /\ UNCHANGED <<temp, todo, harm>>
       \/ harm' = TRUE /\ Goto(p, "remove") /\ UNCHANGED <<temp, todo>>
       \/ /\ Path(p) = NoDir
          /\ temp' = [temp EXCEPT ![Key(p)] = p]
          /\ todo' = [todo EXCEPT ![p] = SeedFiles]
          /\ Goto(p, "copy")
          /\ UNCHANGED harm
    /\ UNCHANGED <<target, files, broken, opened>>

\* One file: written at the path, wherever that leads now, or an error collected.
CopyFile(p) ==
    /\ pc[p] = "copy"
    /\ \E f \in todo[p] :
          /\ todo' = [todo EXCEPT ![p] = @ \ {f}]
          /\ \/ /\ Path(p) # NoDir
                /\ files' = [files EXCEPT ![Path(p)] = @ \cup {f}]
                /\ UNCHANGED <<broken, harm>>
             \/ /\ broken' = [broken EXCEPT ![p] = TRUE]
                /\ harm' = (harm \/ Path(p) # NoDir)
                /\ UNCHANGED files
    /\ UNCHANGED <<target, temp, pc, opened>>

\* Mutant of FinishCopy: errors of single files are ignored.
FinishAnyway(p) ==
    /\ pc[p] = "copy" /\ todo[p] = {}
    /\ Goto(p, "mark")
    /\ UNCHANGED <<target, temp, files, todo, broken, opened, harm>>

\* copystat(src, tmp); then copytree raises what it has collected.
FinishCopy(p) ==
    /\ pc[p] = "copy" /\ todo[p] = {}
    /\ Goto(p, IF broken[p] \/ Path(p) = NoDir THEN "remove" ELSE "mark")
    /\ UNCHANGED <<target, temp, files, todo, broken, opened, harm>>

\* (tmp / ".paiton-seed").write_text
Mark(p) ==
    /\ pc[p] = "mark"
    /\ \/ /\ Path(p) # NoDir
          /\ files' = [files EXCEPT ![Path(p)] = @ \cup {Marker}]
          /\ Goto(p, "rename")
          /\ UNCHANGED harm
       \/ /\ harm' = (harm \/ Path(p) # NoDir)
          /\ Goto(p, "remove")
          /\ UNCHANGED files
    /\ UNCHANGED <<target, temp, todo, broken, opened>>

\* Mutant of Rename: whatever is at the target is replaced.
RenameOver(p) ==
    /\ pc[p] = "rename"
    /\ IF Path(p) # NoDir
       THEN /\ target' = Path(p)
            /\ temp' = [temp EXCEPT ![Key(p)] = NoDir]
            /\ Goto(p, "count")
       ELSE Goto(p, "remove") /\ UNCHANGED <<target, temp>>
    /\ UNCHANGED <<files, todo, broken, opened, harm>>

\* os.rename of a directory: it replaces nothing but an empty one.
Rename(p) ==
    /\ pc[p] = "rename"
    /\ IF Path(p) # NoDir /\ (target = NoDir \/ files[target] = {})
       THEN /\ target' = Path(p)
            /\ temp' = [temp EXCEPT ![Key(p)] = NoDir]
            /\ Goto(p, "count")
       ELSE Goto(p, "remove") /\ UNCHANGED <<target, temp>>
    /\ UNCHANGED <<files, todo, broken, opened, harm>>

\* The files of the target are counted for the log, in the same try.
Count(p) ==
    /\ pc[p] = "count"
    /\ \/ Goto(p, "start") /\ UNCHANGED harm
       \/ Goto(p, "remove") /\ harm' = TRUE
    /\ UNCHANGED <<target, temp, files, todo, broken, opened>>

\* Mutant of OpenTemp: rmtree(target), which may be another engine's by now.
OpenTarget(p) ==
    /\ pc[p] = "remove"
    /\ IF target = NoDir
       THEN Goto(p, "start") /\ UNCHANGED <<todo, opened>>
       ELSE /\ opened' = [opened EXCEPT ![p] = target]
            /\ todo' = [todo EXCEPT ![p] = files[target]]
            /\ Goto(p, "removing")
    /\ UNCHANGED <<target, temp, files, broken, harm>>

\* rmtree(tmp, ignore_errors=True) opens the directory at the path and lists it,
\* removes what it listed from that directory, and then the path if empty.
OpenTemp(p) ==
    /\ pc[p] = "remove"
    /\ IF Path(p) = NoDir
       THEN Goto(p, "start") /\ UNCHANGED <<todo, opened>>
       ELSE /\ opened' = [opened EXCEPT ![p] = Path(p)]
            /\ todo' = [todo EXCEPT ![p] = files[Path(p)]]
            /\ Goto(p, "removing")
    /\ UNCHANGED <<target, temp, files, broken, harm>>

RemoveFile(p) ==
    /\ pc[p] = "removing"
    /\ \E f \in todo[p] :
          /\ todo' = [todo EXCEPT ![p] = @ \ {f}]
          /\ files' = [files EXCEPT ![opened[p]] = @ \ {f}]
    /\ UNCHANGED <<target, temp, pc, broken, opened, harm>>

RemoveTemp(p) ==
    /\ pc[p] = "removing" /\ todo[p] = {}
    /\ IF Path(p) # NoDir /\ files[Path(p)] = {}
       THEN temp' = [temp EXCEPT ![Key(p)] = NoDir]
       ELSE UNCHANGED temp
    /\ opened' = [opened EXCEPT ![p] = NoDir]
    /\ Goto(p, "start")
    /\ UNCHANGED <<target, files, todo, broken, harm>>

\* vLLM, Triton or inductor make their cache directory if it is missing.
OpenCache(p) ==
    /\ pc[p] = "start"
    /\ IF target = NoDir THEN target' = Warm ELSE UNCHANGED target
    /\ Goto(p, "engine")
    /\ UNCHANGED <<temp, files, todo, broken, opened, harm>>

WriteEntry(p) ==
    /\ pc[p] = "engine"
    /\ files' = [files EXCEPT ![target] = @ \cup {Own}]
    /\ UNCHANGED <<target, temp, pc, todo, broken, opened, harm>>

\* A killed process leaves its temporary directory.
Kill(p) ==
    /\ pc[p] \in Live
    /\ Goto(p, "killed")
    /\ harm' = TRUE
    /\ UNCHANGED <<target, temp, files, todo, broken, opened>>

Step(p) ==
    \/ Look(p) \/ MakeTemp(p) \/ CopyFile(p) \/ FinishCopy(p) \/ Mark(p) \/ Rename(p)
    \/ Count(p) \/ OpenTemp(p) \/ RemoveFile(p) \/ RemoveTemp(p) \/ OpenCache(p)

Next == \E p \in Procs : Begin(p) \/ Step(p) \/ WriteEntry(p) \/ Kill(p)

Spec == Init /\ [][Next]_vars

\* A process that is not killed keeps running; it never waits for another one.
FairSpec == Spec /\ \A p \in Procs : WF_vars(Step(p))

-------------------------------------------------------------------------------
\* The variables keep their types; what an rmtree holds, in particular, was made as a
\* temporary directory and never by an engine.
TypeOK ==
    /\ target \in Dirs \cup {NoDir}
    /\ temp \in [Pids -> Procs \cup {NoDir}]
    /\ files \in [Dirs -> SUBSET Names]
    /\ pc \in [Procs -> Labels]
    /\ todo \in [Procs -> SUBSET Names]
    /\ broken \in [Procs -> BOOLEAN]
    /\ opened \in [Procs -> Procs \cup {NoDir}]
    /\ harm \in BOOLEAN

\* "a concurrent process sees either nothing or the complete seed".
SeenWhole == target \in Procs => Whole \subseteq files[target]

\* "when a target directory does not exist yet, it is created from the seed": unless
\* somebody was killed or a file operation failed, no engine starts with nothing.
SeedArrives == (\E p \in Procs : pc[p] = "start") => target # NoDir \/ harm

\* "A directory that exists (a warm cache) is never touched": what is in the cache
\* stays, the entries of engines and of the seed.
WarmUntouched ==
    [][target # NoDir /\ files[target] # {} =>
          target' = target /\ files[target] \subseteq files'[target]]_vars

\* "a seed must never stop a start", whatever others left at the temporary path.
SeedNeverStops ==
    \A p \in Procs : pc[p] = "look" ~> pc[p] \in {"engine", "killed"}
===============================================================================
