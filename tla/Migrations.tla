----------------------------- MODULE Migrations -----------------------------
(***************************************************************************)
(* The schema (internal/store/migrate.go).  Every start of the program     *)
(* migrates, the service and the commands that create a user or unpair a   *)
(* chat alike, so two processes of two releases may be at it at a time;    *)
(* what was applied is read once and each file runs in a transaction of    *)
(* its own.                                                                *)
(*                                                                         *)
(* A file is a version and a checksum.  Applying one of a version that is  *)
(* there fails, on its SQL or on the key of schema_migrations.             *)
(***************************************************************************)
EXTENDS Naturals

CONSTANTS
  Processes,
  Releases,     \* the migrations each release comes with: sets of files
  MaxStarts     \* bound

Files == UNION Releases

MigrationAssumption ==
  /\ \A f \in Files : f.version \in Nat
  /\ \A release \in Releases : \A f, g \in release : f.version = g.version => f = g   \* loadMigrations
  /\ MaxStarts \in Nat

VARIABLES
  recorded,   \* schema_migrations: the files applied
  schema,     \* the files whose effect is in the database
  process,    \* down, migrating or serving
  starts

vars == <<recorded, schema, process, starts>>

Down == [at |-> "down"]

TypeOK ==
  /\ recorded \subseteq Files /\ schema \subseteq Files
  /\ \A p \in Processes :
       \/ process[p] = Down
       \/ /\ process[p].at \in {"starting", "migrating", "serving"}
          /\ process[p].release \in Releases
          /\ process[p].applied \subseteq Files
          /\ process[p].left \subseteq process[p].release
  /\ starts \in 0 .. MaxStarts

Init ==
  /\ recorded = {} /\ schema = {}
  /\ process = [p \in Processes |-> Down]
  /\ starts = 0

Goes(p, state) == process' = [process EXCEPT ![p] = state]
First(files) == CHOOSE f \in files : \A g \in files : f.version <= g.version
Versions(files) == {f.version : f \in files}

Start(p, release) ==
  /\ process[p] = Down
  /\ starts < MaxStarts /\ starts' = starts + 1
  /\ Goes(p, [at |-> "starting", release |-> release, applied |-> {}, left |-> release])
  /\ UNCHANGED <<recorded, schema>>

appliedByVersion(p) ==
  /\ process[p].at = "starting"
  /\ Goes(p, [process[p] EXCEPT !.at = "migrating", !.applied = recorded])
  /\ UNCHANGED <<recorded, schema, starts>>

\* One file: applied before, changed since, or to be applied.
Applied(p)  == First(process[p].left) \in process[p].applied
Mismatch(p) == ~Applied(p) /\ First(process[p].left).version \in Versions(process[p].applied)

Skip(p) ==
  /\ process[p].at = "migrating" /\ process[p].left # {} /\ Applied(p)
  /\ Goes(p, [process[p] EXCEPT !.left = @ \ {First(@)}])
  /\ UNCHANGED <<recorded, schema, starts>>

\* The SQL and its record, committed together or not at all.
Replace(f) ==     \* mutant: INSERT OR REPLACE
  /\ recorded' = {g \in recorded : g.version # f.version} \cup {f}
  /\ schema' = {g \in schema : g.version # f.version} \cup {f}
apply(f) ==
  /\ f.version \notin Versions(recorded)
  /\ recorded' = recorded \cup {f}
  /\ schema' = schema \cup {f}

Migrate(p) ==
  /\ process[p].at = "migrating" /\ process[p].left # {}
  /\ ~Applied(p) /\ ~Mismatch(p)
  /\ apply(First(process[p].left))
  /\ Goes(p, [process[p] EXCEPT !.left = @ \ {First(@)}])
  /\ UNCHANGED starts

Serve(p) ==
  /\ process[p].at = "migrating" /\ process[p].left = {}
  /\ Goes(p, [process[p] EXCEPT !.at = "serving"])
  /\ UNCHANGED <<recorded, schema, starts>>

\* Refused on a mismatch, failed on a file another process applied, or stopped.
Stop(p) ==
  /\ Goes(p, Down)
  /\ UNCHANGED <<recorded, schema, starts>>

Next == \E p \in Processes :
  \/ \E release \in Releases : Start(p, release)
  \/ appliedByVersion(p) \/ Skip(p) \/ Migrate(p) \/ Serve(p) \/ Stop(p)

Spec == Init /\ [][Next]_vars

-----------------------------------------------------------------------------
\* Whatever releases start at once and wherever one is stopped: what is recorded is
\* what the schema has, no version twice, and who serves has every migration of its
\* release applied as it came with it.
MigratedOnce ==
  /\ TypeOK
  /\ recorded = schema
  /\ \A f, g \in schema : f.version = g.version => f = g
  /\ \A p \in Processes : process[p].at = "serving" => process[p].release \subseteq schema

\* migrate.go: "Before applying anything it verifies that the migrations already
\* recorded still hash to what was recorded."  It does so file by file, and one
\* that was missing is applied before a later one is found to have changed.
VerifiedFirst ==
  [][\A p \in Processes :
       process[p].at = "migrating" /\ process'[p] # process[p] /\ recorded' # recorded
         => \A f \in process[p].release :
              f.version \in Versions(process[p].applied) => f \in process[p].applied]_vars
=============================================================================
