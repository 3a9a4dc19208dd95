------------------------------ MODULE CacheEntry ------------------------------
(***************************************************************************)
(* What `prepare_package` promises its callers about the one directory     *)
(* executions/<digest>: it is installed at most once, whole and verified;  *)
(* no launcher ever changes it again; and a launcher is granted its path   *)
(* only in a state in which it is intact.  Damage is the only other thing  *)
(* that can happen to an installed entry, and it is not repaired.          *)
(***************************************************************************)
CONSTANT Launchers

VARIABLES
    entry,      \* "absent", "intact" or "damaged"
    granted     \* the launchers that hold the path of the entry

entryVars == <<entry, granted>>

EntryInit ==
    /\ entry = "absent"
    /\ granted = {}

Install(p) ==
    /\ entry = "absent"
    /\ entry' = "intact"
    /\ granted' = granted \cup {p}

Grant(p) ==
    /\ entry = "intact"
    /\ granted' = granted \cup {p}
    /\ UNCHANGED entry

\* The launcher ends, or starts another call.
Forget(p) ==
    /\ granted' = granted \ {p}
    /\ UNCHANGED entry

\* Something that is not a launcher changes the files of an installed entry.
Harm ==
    /\ entry # "absent"
    /\ entry' \in {"intact", "damaged"}
    /\ UNCHANGED granted

EntryNext ==
    \/ \E p \in Launchers : Install(p) \/ Grant(p) \/ Forget(p)
    \/ Harm

EntrySpec == EntryInit /\ [][EntryNext]_entryVars
===============================================================================
