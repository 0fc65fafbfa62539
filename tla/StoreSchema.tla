---------------------------- MODULE StoreSchema ----------------------------
(***************************************************************************)
(* How JobStore opens its database (app/core/job_store.py): the check of   *)
(* the schema's version, the migrations in one transaction and the health  *)
(* probe, by processes of one release or two that start, fail and start    *)
(* again in any order.  A part of the schema is numbered by the migration  *)
(* that creates it.                                                        *)
(***************************************************************************)
EXTENDS Integers

CONSTANTS
    None,       \* nobody
    Processes,
    Supports,   \* CURRENT_SCHEMA_VERSION of each process's release
    MaxProbes,  \* bound: probes
    MaxCrashes  \* bound: failed starts and restarts

Versions == 0 .. 4
Probe == 4  \* the migration that creates health_probe

\* What the constants must satisfy.
SchemaAssumption ==
    /\ None \notin Processes /\ Supports \in [Processes -> Versions]
    /\ MaxProbes \in Nat /\ MaxCrashes \in Nat

VARIABLES
    version,     \* PRAGMA user_version
    parts,       \* the parts of the schema that exist
    generation,  \* of the row in health_probe
    lock,        \* the process whose transaction writes
    proc,        \* of each process: where it is and the version it has read
    probes,      \* history: probes committed
    broken,      \* history: a statement met a part twice, or not at all
    crashes

vars == <<version, parts, generation, lock, proc, probes, broken, crashes>>

\* The database of an earlier release, whole, or none.
Init ==
    /\ version \in Versions /\ parts = 1 .. version
    /\ generation = 0 /\ probes = 0 /\ broken = FALSE /\ crashes = 0
    /\ lock = None
    /\ proc = [p \in Processes |-> [pc |-> "start", read |-> 0]]

(* Every variable keeps its type. *)
TypeOK ==
    /\ version \in Versions /\ parts \subseteq Versions \ {0}
    /\ generation \in 0 .. MaxProbes /\ probes \in 0 .. MaxProbes
    /\ lock \in Processes \cup {None} /\ broken \in BOOLEAN /\ crashes \in 0 .. MaxCrashes
    /\ \A p \in Processes :
          proc[p].pc \in {"start", "refused", "begin", "migrate", "ready"} /\ proc[p].read \in Versions

At(p, pc) == proc[p].pc = pc
Goes(p, pc) == proc' = [proc EXCEPT ![p].pc = pc]

\* The version is read, and a newer schema refused, before the transaction.
ReadVersion(p) ==
    /\ At(p, "start")
    /\ proc' = [proc EXCEPT ![p] =
          [pc |-> IF version > Supports[p] THEN "refused" ELSE "begin", read |-> version]]
    /\ UNCHANGED <<version, parts, generation, lock, probes, broken, crashes>>

\* BEGIN IMMEDIATE, within busy_timeout of the other process's transaction.
Begin(p) ==
    /\ At(p, "begin") /\ lock = None
    /\ lock' = p /\ Goes(p, "migrate")
    /\ UNCHANGED <<version, parts, generation, probes, broken, crashes>>

\* The migrations from the version that was read.
Todo(p) == (proc[p].read + 1) .. Supports[p]

\* Fault: the row of the probe is written again.
RowAgain(p) == IF Probe \in Todo(p) THEN 0 ELSE generation

\* CREATE ... IF NOT EXISTS, ALTER for a missing column, INSERT OR IGNORE.
Row(p) == IF Probe \in Todo(p) \ parts THEN 0 ELSE generation

\* The migrations and the new version are committed together.
Commit(p) ==
    /\ At(p, "migrate")
    /\ parts' = parts \cup Todo(p)
    /\ generation' = Row(p)
    /\ version' = Supports[p]
    /\ lock' = None /\ Goes(p, "ready")
    /\ UNCHANGED <<probes, broken, crashes>>

\* A statement fails, the lock is not to be had, or the process dies: what was
\* not committed is rolled back, and the next operation or process starts over.
Fails(p) ==
    /\ ~At(p, "start") /\ crashes < MaxCrashes
    /\ crashes' = crashes + 1
    /\ lock' = IF lock = p THEN None ELSE lock
    /\ proc' = [proc EXCEPT ![p] = [pc |-> "start", read |-> 0]]
    /\ UNCHANGED <<version, parts, generation, probes, broken>>

\* write_probe under a live worker lease: it counts in the row, which a release
\* that has the probe finds.
WriteProbe(p) ==
    /\ At(p, "ready") /\ lock = None /\ probes < MaxProbes /\ Supports[p] >= Probe
    /\ IF Probe \in parts
       THEN generation' = generation + 1 /\ probes' = probes + 1 /\ UNCHANGED broken
       ELSE broken' = TRUE /\ UNCHANGED <<generation, probes>>
    /\ UNCHANGED <<version, parts, lock, proc, crashes>>

\* Any other operation needs the parts its release knows.
Operate(p) ==
    /\ At(p, "ready") /\ lock = None
    /\ broken' = (broken \/ ~(1 .. Supports[p] \subseteq parts))
    /\ UNCHANGED <<version, parts, generation, lock, proc, probes, crashes>>

Step(p) == ReadVersion(p) \/ Begin(p) \/ Commit(p)

Next == \E p \in Processes : Step(p) \/ Fails(p) \/ WriteProbe(p) \/ Operate(p)

Spec == Init /\ [][Next]_vars /\ \A p \in Processes : WF_vars(Step(p))

-----------------------------------------------------------------------------
(* Properties. *)

(* A store that has opened finds all its release needs, the version never    *)
(* promises a part that is missing, and no probe is ever forgotten, although *)
(* the version is read outside the transaction, so that a process may repeat *)
(* migrations and put an older version number over a newer schema.           *)
MigrationsAreSafe ==
    /\ TypeOK /\ ~broken
    /\ 1 .. version \subseteq parts
    /\ \A p \in Processes : At(p, "ready") => 1 .. Supports[p] \subseteq parts
    /\ generation = probes

\* The process is opening the store.
Waits(p) == At(p, "begin") \/ At(p, "migrate")
=============================================================================
