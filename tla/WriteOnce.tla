------------------------------- MODULE WriteOnce ------------------------------
(***************************************************************************)
(* What `write_json_immutable` promises about one path: the file appears   *)
(* once, whole, and is never changed; a write succeeds only when the file  *)
(* holds its value, and a reader sees nothing or the whole value.  Only a  *)
(* power cut, which ends every process, may take a file away again.        *)
(***************************************************************************)
CONSTANTS
    Procs,
    Values,     \* what is written
    Garbage,    \* a file that was there before and is no valid JSON
    NoValue

VARIABLES
    file,       \* the value at the path, or NoValue
    holds       \* per process: the value it knows the path to hold, or NoValue

onceVars == <<file, holds>>

OnceInit ==
    /\ file \in Values \cup {Garbage, NoValue}
    /\ holds = [p \in Procs |-> NoValue]

Create(p, v) ==
    /\ file = NoValue
    /\ file' = v
    /\ holds' = [holds EXCEPT ![p] = v]

\* An identical write, or a read.
Observe(p) ==
    /\ file \in Values
    /\ holds' = [holds EXCEPT ![p] = file]
    /\ UNCHANGED file

Lose(p) ==
    /\ holds' = [holds EXCEPT ![p] = NoValue]
    /\ UNCHANGED file

Vanish ==
    /\ file' \in {file, NoValue}
    /\ holds' = [p \in Procs |-> NoValue]

OnceNext ==
    \/ \E p \in Procs : (\E v \in Values : Create(p, v)) \/ Observe(p) \/ Lose(p)
    \/ Vanish

OnceSpec == OnceInit /\ [][OnceNext]_onceVars
===============================================================================
