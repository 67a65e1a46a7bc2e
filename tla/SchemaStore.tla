---------------------------- MODULE SchemaStore ----------------------------
(***************************************************************************)
(* Dataset definitions: engine/schemamgr (Store, HTTP handlers) and the    *)
(* ingest handler of engine/api, for one dataset name.                     *)
(*                                                                         *)
(* Requests run concurrently.  Each reads the datasets row, decides, and   *)
(* writes in a transaction of its own, then applies DDL to ClickHouse: the *)
(* row it read may be stale when it writes, and the table and the metadata *)
(* are two systems.  A definition is abstracted to its set of columns; a   *)
(* column has a name and a type.                                           *)
(***************************************************************************)
EXTENDS Integers, FiniteSets

CONSTANTS
    Request,    \* HTTP requests
    Name,       \* column names
    Type,       \* column types
    MaxFaults   \* bound: database errors, failed DDL calls, server crashes

ASSUME MaxFaultsAssumption == MaxFaults \in Nat

Column == [name : Name, type : Type]

\* Dataset.Validate: at least one column, and no name twice.
NoNameTwice(def) == \A c, d \in def : c.name = d.name => c = d
Valid(def) == def # {} /\ NoNameTwice(def)

\* What a request can carry.  The columns InferColumns makes of a sample are
\* valid: the keys of a JSON object, received_at_unix_ms among them.
Input(kind) ==
    IF kind = "ingest" THEN {c \in SUBSET Column : Valid(c)} ELSE SUBSET Column

VARIABLES
    row,      \* table datasets: the latest version and its columns; 0 is "no row"
    history,  \* table dataset_versions: primary key version -> columns
    table,    \* the ClickHouse table's columns, {} when there is no table
    ensured,  \* ingestHandler's cache has the dataset
    op,       \* what a request is for
    cols,     \* its columns: the new ones of an add, the sample's of an ingest
    pc,       \* where its handler is
    read,     \* the row it read
    status,   \* the answer, 0 while there is none
    faults

database == <<row, history>>
request  == <<op, cols, pc, read>>
vars     == <<database, table, ensured, request, status, faults>>

NoRow == [version |-> 0, columns |-> {}]

Init ==
    /\ row = NoRow
    /\ history = [v \in {} |-> {}]
    /\ table = {} /\ ensured = FALSE
    /\ op = [r \in Request |-> "none"]
    /\ cols = [r \in Request |-> {}]
    /\ pc = [r \in Request |-> "idle"]
    /\ read = [r \in Request |-> NoRow]
    /\ status = [r \in Request |-> 0]
    /\ faults = 0

----------------------------------------------------------------------------
Goto(r, where) == pc' = [pc EXCEPT ![r] = where] /\ UNCHANGED status

Answer(r, code) ==
    /\ pc' = [pc EXCEPT ![r] = "done"]
    /\ status' = [status EXCEPT ![r] = code]

Fault == faults < MaxFaults /\ faults' = faults + 1

\* A request with columns c arrives.
Arrive(r, kind, c) ==
    /\ pc[r] = "idle"
    /\ op' = [op EXCEPT ![r] = kind]
    /\ cols' = [cols EXCEPT ![r] = c]
    /\ Goto(r, "get")
    /\ UNCHANGED <<database, table, ensured, read, faults>>

\* Mutation: the new columns replace the old ones.
Defined_Replaces(r) == cols[r]

\* The definition a request writes: a new one, or the one it read and more.
Defined(r) == read[r].columns \cup cols[r]

\* Store.Create up to persist: Validate, no row or 409 (a 500 for an ingest).
CreateGet(r) ==
    /\ \/ pc[r] = "get" /\ op[r] = "create"
       \/ pc[r] = "ensure"
    /\ IF ~Valid(cols[r]) THEN Answer(r, IF op[r] = "create" THEN 400 ELSE 500)
       ELSE IF row.version = 0 THEN Goto(r, "persist")
       ELSE Answer(r, IF op[r] = "create" THEN 409 ELSE 500)
    /\ read' = [read EXCEPT ![r] = NoRow]
    /\ UNCHANGED <<database, table, ensured, op, cols, faults>>

\* Get fails otherwise than with "not found".  Create takes any error for "no such
\* dataset" and goes on; AddColumns and EnsureDataset give up.
GetFails(r) ==
    /\ pc[r] \in {"get", "ensure"} /\ Fault
    /\ read' = [read EXCEPT ![r] = NoRow]
    /\ IF pc[r] = "ensure" \/ op[r] = "create"
       THEN Valid(cols[r]) /\ Goto(r, "persist")
       ELSE Answer(r, 500)
    /\ UNCHANGED <<database, table, ensured, op, cols>>

\* Validate on the columns that were there followed by the new ones.
CanAppend(old, new) ==
    NoNameTwice(new) /\ \A c \in new, d \in old : c.name # d.name

\* Store.AddColumns up to persist: Get, append, Validate.  What Validate lets
\* through is backward compatible.  No new column is no error.
AddGet(r) ==
    /\ pc[r] = "get" /\ op[r] = "add"
    /\ read' = [read EXCEPT ![r] = row]
    /\ IF row.version = 0 THEN Answer(r, 404)
       ELSE IF CanAppend(row.columns, cols[r]) THEN Goto(r, "persist")
       ELSE Answer(r, 400)
    /\ UNCHANGED <<database, table, ensured, op, cols, faults>>

\* EnsureDataset's Get: use the row, or go on to Create.
IngestGet(r) ==
    /\ pc[r] = "get" /\ op[r] = "ingest"
    /\ read' = [read EXCEPT ![r] = row]
    /\ Goto(r, IF row.version = 0 THEN "ensure" ELSE "ddl")
    /\ UNCHANGED <<database, table, ensured, op, cols, faults>>

\* Mutation: the version is not incremented.
Persist_SameVersion(r) ==
    /\ pc[r] = "persist"
    /\ LET n == read[r].version IN
        /\ n \notin DOMAIN history
        /\ row' = [version |-> n, columns |-> Defined(r)]
        /\ history' = [v \in DOMAIN history \cup {n} |->
                          IF v = n THEN Defined(r) ELSE history[v]]
    /\ Goto(r, "ddl")
    /\ UNCHANGED <<table, ensured, op, cols, read, faults>>

\* Mutation: INSERT OR REPLACE, or no primary key: the last writer wins.
Persist_Overwrites(r) ==
    /\ pc[r] = "persist"
    /\ LET n == read[r].version + 1 IN
        /\ row' = [version |-> n, columns |-> Defined(r)]
        /\ history' = [v \in DOMAIN history \cup {n} |->
                          IF v = n THEN Defined(r) ELSE history[v]]
    /\ Goto(r, "ddl")
    /\ UNCHANGED <<table, ensured, op, cols, read, faults>>

\* persist: upsert the row and insert the version in one transaction.
Persist(r) ==
    /\ pc[r] = "persist"
    /\ LET n == read[r].version + 1 IN
        /\ n \notin DOMAIN history
        /\ row' = [version |-> n, columns |-> Defined(r)]
        /\ history' = [v \in DOMAIN history \cup {n} |->
                          IF v = n THEN Defined(r) ELSE history[v]]
    /\ Goto(r, "ddl")
    /\ UNCHANGED <<table, ensured, op, cols, read, faults>>

\* Mutation: the error of persist is not looked at.
PersistConflict_Ignored(r) ==
    /\ pc[r] = "persist"
    /\ read[r].version + 1 \in DOMAIN history
    /\ Goto(r, "ddl")
    /\ UNCHANGED <<database, table, ensured, op, cols, read, faults>>

\* persist fails on the primary key of dataset_versions: the transaction, with
\* the upsert in it, is rolled back.
PersistConflict(r) ==
    /\ pc[r] = "persist"
    /\ read[r].version + 1 \in DOMAIN history
    /\ Answer(r, 500)
    /\ UNCHANGED <<database, table, ensured, op, cols, read, faults>>

\* Any other database error before the commit (SQLITE_BUSY, disk full).
PersistFails(r) ==
    /\ pc[r] = "persist" /\ Fault
    /\ Answer(r, 500)
    /\ UNCHANGED <<database, table, ensured, op, cols, read>>

\* The definition GenerateDDL is called with.  An ingest that found a row has its
\* columns from the row alone.
DDLColumns(r) ==
    IF op[r] = "ingest" /\ read[r].version > 0 THEN read[r].columns ELSE Defined(r)

\* CREATE TABLE IF NOT EXISTS: an existing table is left as it is.
CreateTable(r) == IF table = {} THEN DDLColumns(r) ELSE table

CreateDDL(r) ==
    /\ pc[r] = "ddl" /\ op[r] = "create"
    /\ table' = CreateTable(r)
    /\ Answer(r, 201)
    /\ UNCHANGED <<database, ensured, op, cols, read, faults>>

\* ALTER TABLE ADD COLUMN fails as a whole without a table, without a column to
\* add, or when a column of that name is there.
CanAlter(r) == table # {} /\ cols[r] # {} /\ CanAppend(table, cols[r])

\* Mutation: the error of the ALTER is not looked at.
AddDDL_ErrorIgnored(r) ==
    /\ pc[r] = "ddl" /\ op[r] = "add"
    /\ table' = IF CanAlter(r) THEN table \cup cols[r] ELSE table
    /\ Answer(r, 200)
    /\ UNCHANGED <<database, ensured, op, cols, read, faults>>

AddDDL(r) ==
    /\ pc[r] = "ddl" /\ op[r] = "add"
    /\ IF CanAlter(r) THEN table' = table \cup cols[r] /\ Answer(r, 200)
                      ELSE UNCHANGED table /\ Answer(r, 500)
    /\ UNCHANGED <<database, ensured, op, cols, read, faults>>

\* ingestHandler between EnsureDataset and Insert.
IngestDDL(r) ==
    /\ pc[r] = "ddl" /\ op[r] = "ingest"
    /\ table' = IF ensured THEN table ELSE CreateTable(r)
    /\ ensured' = TRUE
    /\ Goto(r, "insert")
    /\ UNCHANGED <<database, op, cols, read, faults>>

\* The DDL call fails on the way: ClickHouse may have executed it.
DDLFails(r) ==
    /\ pc[r] = "ddl" /\ (op[r] = "ingest" => ~ensured) /\ Fault
    /\ \/ UNCHANGED table
       \/ op[r] # "add" /\ table' = CreateTable(r)
       \/ op[r] = "add" /\ CanAlter(r) /\ table' = table \cup cols[r]
    /\ Answer(r, 500)
    /\ UNCHANGED <<database, ensured, op, cols, read>>

\* inserter.Insert: fails without a table.
Insert(r) ==
    /\ pc[r] = "insert"
    /\ Answer(r, IF table = {} THEN 500 ELSE 202)
    /\ UNCHANGED <<database, table, ensured, op, cols, read, faults>>

\* ClickHouse cannot be reached or refuses the rows.
InsertFails(r) ==
    /\ pc[r] = "insert" /\ Fault
    /\ Answer(r, 500)
    /\ UNCHANGED <<database, table, ensured, op, cols, read>>

\* The server dies: its handlers and the cache are gone, nobody is answered.
Crash ==
    /\ Fault
    /\ ensured' = FALSE
    /\ pc' = [r \in Request |-> IF pc[r] = "idle" THEN "idle" ELSE "done"]
    /\ UNCHANGED <<database, table, op, cols, read, status>>

Next ==
    \/ \E r \in Request :
        \/ \E kind \in {"create", "add", "ingest"} : \E c \in Input(kind) : Arrive(r, kind, c)
        \/ CreateGet(r) \/ AddGet(r) \/ IngestGet(r) \/ GetFails(r)
        \/ Persist(r) \/ PersistConflict(r) \/ PersistFails(r)
        \/ CreateDDL(r) \/ AddDDL(r) \/ IngestDDL(r) \/ DDLFails(r)
        \/ Insert(r) \/ InsertFails(r)
    \/ Crash

Spec == Init /\ [][Next]_vars

----------------------------------------------------------------------------
(* Properties. *)

Definition == SUBSET Column
Row == [version : Nat, columns : Definition]

(* Every variable keeps its type; versions are numbered from one.              *)
TypeOK ==
    /\ row \in Row
    /\ DOMAIN history \subseteq Nat \ {0}
    /\ \A v \in DOMAIN history : history[v] \in Definition
    /\ table \in Definition /\ ensured \in BOOLEAN
    /\ op \in [Request -> {"none", "create", "add", "ingest"}]
    /\ cols \in [Request -> Definition]
    /\ pc \in [Request -> {"idle", "get", "ensure", "persist", "ddl", "insert", "done"}]
    /\ read \in [Request -> Row]
    /\ status \in [Request -> {0, 200, 201, 202, 400, 404, 409, 500}]
    /\ faults \in 0..MaxFaults

(* The two tables agree whatever requests overlap: dataset_versions holds      *)
(* every version up to the one in datasets, which is the last of them.         *)
RegistryConsistent ==
    /\ DOMAIN history = 1..row.version
    /\ row.version > 0 => history[row.version] = row.columns

(* Compatibility: a later version has every column of an earlier one, with its *)
(* type, and no name twice, also when two requests evolve the same version.    *)
OnlyAddsColumns ==
    \A v, w \in DOMAIN history : v <= w => history[v] \subseteq history[w] /\ Valid(history[w])

(* A version, once written, never changes and never goes away.                 *)
HistoryIsImmutable ==
    [][\A v \in DOMAIN history : v \in DOMAIN history' /\ history'[v] = history[v]]_vars

(* The store is a versioned registry: whatever requests overlap, fail or die,  *)
(* each step leaves it alone or publishes one more definition that extends the *)
(* current one.                                                                *)
R == INSTANCE VersionedRegistry WITH current <- row, versions <- history
ImplementsRegistry == R!Spec

(* No lost update: a request that got past persist has its columns in the      *)
(* current version for good, although others wrote after reading an older one. *)
NoLostUpdate ==
    \A r \in Request :
        status[r] \in {200, 201} \/ (pc[r] = "ddl" /\ op[r] # "ingest")
            => cols[r] \subseteq row.columns

(* What was answered with success can be queried: the columns of a successful  *)
(* create or add are columns of the table, and an accepted ingest has a table, *)
(* although metadata and table are written in two steps that interleave.       *)
SuccessIsQueryable ==
    \A r \in Request :
        /\ status[r] \in {200, 201} => cols[r] \subseteq table
        /\ status[r] = 202 => table # {}

(* The table never runs ahead of the registry.                                 *)
TableWithinRegistry == table \subseteq row.columns

(* http.go: WithDDLExecutor "makes Create/AddColumns also apply the generated  *)
(* DDL to a real ClickHouse, instead of only persisting metadata": without a   *)
(* single fault, when no request is under way, the table has every column.     *)
DDLIsApplied ==
    faults = 0 /\ (\A r \in Request : pc[r] \in {"idle", "done"}) => table = row.columns
=============================================================================
