------------------------- MODULE SchemaStoreProofs -------------------------
(***************************************************************************)
(* Proofs about SchemaStore, for any number of requests, columns and       *)
(* faults.                                                                 *)
(***************************************************************************)
EXTENDS SchemaStore, TLAPS

\* A request that is not done was not answered.
NotYetAnswered == \A r \in Request : pc[r] # "done" => status[r] = 0

\* Only an ingest goes from Get to Create.
OnlyIngestEnsures == \A r \in Request : pc[r] = "ensure" => op[r] = "ingest"

\* The row a request read is no row or a version that was written.
ReadIsAVersion ==
    \A r \in Request :
        /\ read[r].version <= row.version
        /\ read[r].version = 0 => read[r].columns = {}
        /\ read[r].version > 0 => read[r].columns = history[read[r].version]

\* What a request checked before it writes.
CheckedBeforePersist ==
    \A r \in Request : pc[r] = "persist" =>
        /\ op[r] # "add" => read[r].version = 0 /\ Valid(cols[r])
        /\ op[r] = "add" => read[r].version > 0 /\ CanAppend(read[r].columns, cols[r])

\* What a request knows once it is at its DDL.
KnownAtDDL ==
    \A r \in Request : pc[r] = "ddl" =>
        /\ op[r] # "ingest" => cols[r] \subseteq row.columns
        /\ row.version > 0
        /\ read[r].version = 0 => cols[r] = history[1]
        /\ op[r] \notin {"add", "ingest"} => read[r].version = 0

\* The table has at least the columns of the first version.
TableHasFirstVersion == table # {} => row.version > 0 /\ history[1] \subseteq table

NoRowNoColumns == row.version = 0 => row.columns = {}

\* The part of the inductive invariant about the registry.
RegistryInv ==
    /\ TypeOK
    /\ RegistryConsistent
    /\ NoRowNoColumns
    /\ OnlyAddsColumns
    /\ NotYetAnswered
    /\ OnlyIngestEnsures
    /\ ReadIsAVersion
    /\ CheckedBeforePersist
    /\ NoLostUpdate
    /\ KnownAtDDL

\* The inductive invariant.
IInv ==
    /\ RegistryInv
    /\ TableWithinRegistry
    /\ TableHasFirstVersion
    /\ SuccessIsQueryable

-----------------------------------------------------------------------------
(* The invariant holds of an empty database. *)
LEMMA InitIInv == Init => IInv
<1> SUFFICES ASSUME Init PROVE IInv
  OBVIOUS
<1> USE MaxFaultsAssumption DEF Init, NoRow
<1>1. TypeOK
  <2>1. row \in Row /\ read \in [Request -> Row]
    BY DEF Row, Definition
  <2>2. DOMAIN history \subseteq Nat \ {0} /\ \A v \in DOMAIN history : history[v] \in Definition
    OBVIOUS
  <2>3. ensured \in BOOLEAN
    OBVIOUS
  <2> QED
    BY <2>1, <2>2, <2>3 DEF TypeOK, Definition
<1>2. RegistryConsistent /\ NoRowNoColumns /\ OnlyAddsColumns
  BY DEF RegistryConsistent, NoRowNoColumns, OnlyAddsColumns
<1>3. /\ NotYetAnswered /\ OnlyIngestEnsures /\ ReadIsAVersion
      /\ CheckedBeforePersist /\ NoLostUpdate /\ KnownAtDDL
  BY DEF NotYetAnswered, OnlyIngestEnsures, ReadIsAVersion, CheckedBeforePersist, NoLostUpdate, KnownAtDDL
<1>4. TableWithinRegistry /\ TableHasFirstVersion /\ SuccessIsQueryable
  BY DEF TableWithinRegistry, TableHasFirstVersion, SuccessIsQueryable
<1> QED
  BY <1>1, <1>2, <1>3, <1>4 DEF IInv, RegistryInv

(* What persist does when the primary key does not object: nobody wrote since  *)
(* the request read, so the new version extends the current one.               *)
LEMMA PersistExtends ==
    ASSUME NEW r \in Request, RegistryInv, Persist(r)
    PROVE  /\ read[r].version = row.version
           /\ row' = [version |-> row.version + 1, columns |-> row.columns \cup cols[r]]
           /\ DOMAIN history' = 1..row'.version
           /\ history'[row'.version] = row'.columns
           /\ \A v \in DOMAIN history : history'[v] = history[v]
           /\ Valid(row'.columns)
           /\ row.version = 0 => row.columns = {}
<1> USE DEF RegistryInv, TypeOK, Row, Definition
<1>1. read[r].version \in Nat /\ row.version \in Nat /\ read[r].version <= row.version
  BY DEF ReadIsAVersion
<1>2. read[r].version = row.version
  BY <1>1 DEF Persist, RegistryConsistent
<1>3. read[r].columns = row.columns
  <2>1. CASE row.version = 0
    <3>1. read[r].version = 0 => read[r].columns = {}
      BY Zenon DEF ReadIsAVersion
    <3>2. read[r].columns = {}
      BY <1>2, <2>1, <3>1, Zenon
    <3>3. row.columns = {}
      BY <2>1, Zenon DEF NoRowNoColumns
    <3> QED BY <3>2, <3>3
  <2>2. CASE row.version > 0
    BY <1>2, <2>2 DEF ReadIsAVersion, RegistryConsistent
  <2> QED
    BY <1>1, <2>1, <2>2
<1>4. row' = [version |-> row.version + 1, columns |-> row.columns \cup cols[r]]
  BY <1>2, <1>3 DEF Persist, Defined
<1>5. history' = [v \in (1..row.version) \cup {row.version + 1} |->
                    IF v = row.version + 1 THEN row.columns \cup cols[r] ELSE history[v]]
  BY <1>2, <1>3 DEF Persist, Defined, RegistryConsistent
<1>6. (1..row.version) \cup {row.version + 1} = 1..(row.version + 1)
  BY <1>1
<1>7. Valid(row.columns \cup cols[r])
  <2>1. CASE op[r] # "add"
    <3>1. row.columns = {} /\ Valid(cols[r])
      BY <1>2, <2>1 DEF Persist, CheckedBeforePersist, NoRowNoColumns
    <3>2. row.columns \cup cols[r] = cols[r]
      BY <3>1
    <3> QED
      BY <3>1, <3>2
  <2>2. CASE op[r] = "add"
    <3>1. row.version > 0 /\ CanAppend(row.columns, cols[r])
      BY <1>2, <1>3, <2>2 DEF Persist, CheckedBeforePersist
    <3>2. Valid(row.columns)
      BY <1>1, <3>1 DEF OnlyAddsColumns, RegistryConsistent
    <3> QED
      BY <3>1, <3>2 DEF CanAppend, Valid, NoNameTwice
  <2> QED
    BY <2>1, <2>2
<1> QED
  BY <1>1, <1>2, <1>4, <1>5, <1>6, <1>7 DEF RegistryConsistent, NoRowNoColumns

(* A step of request r that leaves the registry alone: it goes to where, is    *)
(* answered code, has read got, and what it then claims holds.                 *)
Moves(r, where, code, got) ==
    /\ UNCHANGED <<row, history, cols, op>>
    /\ where \in {"get", "ensure", "persist", "ddl", "insert", "done"}
    /\ code \in {0, 200, 201, 202, 400, 404, 409, 500}
    /\ pc' = [pc EXCEPT ![r] = where]
    /\ status' = [status EXCEPT ![r] = code]
    /\ read' = [read EXCEPT ![r] = got]
    /\ table' \in Definition /\ ensured' \in BOOLEAN /\ faults' \in 0..MaxFaults
    /\ where # "done" => code = 0
    /\ where = "ensure" => op[r] = "ingest"
    /\ got \in Row
    /\ got.version <= row.version
    /\ got.version = 0 => got.columns = {}
    /\ got.version > 0 => got.columns = history[got.version]
    /\ where = "persist" =>
         /\ op[r] # "add" => got.version = 0 /\ Valid(cols[r])
         /\ op[r] = "add" => got.version > 0 /\ CanAppend(got.columns, cols[r])
    /\ code \in {200, 201} => cols[r] \subseteq row.columns
    /\ where = "ddl" =>
         /\ op[r] # "ingest" => cols[r] \subseteq row.columns
         /\ row.version > 0
         /\ got.version = 0 => cols[r] = history[1]
         /\ op[r] \notin {"add", "ingest"} => got.version = 0

LEMMA MovesRegistry ==
    ASSUME NEW r \in Request, RegistryInv, NEW where, NEW code, NEW got,
           Moves(r, where, code, got)
    PROVE  RegistryInv'
<1> USE DEF RegistryInv, Moves
<1>1. TypeOK'
  BY DEF TypeOK
<1>2. (RegistryConsistent /\ NoRowNoColumns /\ OnlyAddsColumns)'
  BY DEF RegistryConsistent, NoRowNoColumns, OnlyAddsColumns
<1>3. NotYetAnswered' /\ OnlyIngestEnsures'
  BY DEF NotYetAnswered, OnlyIngestEnsures, TypeOK
<1>4. ReadIsAVersion'
  BY DEF ReadIsAVersion, TypeOK
<1>5. CheckedBeforePersist'
  BY DEF CheckedBeforePersist, TypeOK
<1>6. NoLostUpdate'
  BY DEF NoLostUpdate, TypeOK
<1>7. KnownAtDDL'
  BY DEF KnownAtDDL, TypeOK
<1> QED
  BY <1>1, <1>2, <1>3, <1>4, <1>5, <1>6, <1>7

(* What is known of a request under way: the row it read, and that nothing was *)
(* answered.                                                                   *)
LEMMA UnderWay ==
    ASSUME NEW r \in Request, RegistryInv, pc[r] # "done"
    PROVE  /\ status = [status EXCEPT ![r] = 0]
           /\ read = [read EXCEPT ![r] = read[r]]
           /\ read[r] \in Row /\ row \in Row /\ NoRow \in Row
           /\ read[r].version <= row.version
           /\ read[r].version = 0 => read[r].columns = {}
           /\ read[r].version > 0 => read[r].columns = history[read[r].version]
           /\ row.version = 0 => row.columns = {}
           /\ row.version > 0 => row.columns = history[row.version]
<1> USE DEF RegistryInv
<1>1. status[r] = 0
  BY DEF NotYetAnswered
<1>2. status = [status EXCEPT ![r] = 0]
  BY <1>1 DEF TypeOK
<1>3. read = [read EXCEPT ![r] = read[r]]
  BY DEF TypeOK
<1>4. read[r] \in Row /\ row \in Row /\ NoRow \in Row
  BY DEF TypeOK, Row, NoRow, Definition
<1> QED
  BY <1>2, <1>3, <1>4 DEF ReadIsAVersion, NoRowNoColumns, RegistryConsistent

(* The arrival of a request. *)
LEMMA ArriveRegistry ==
    ASSUME NEW r \in Request, RegistryInv, NEW kind \in {"create", "add", "ingest"},
           NEW c \in Input(kind), Arrive(r, kind, c)
    PROVE  RegistryInv'
<1> USE DEF RegistryInv, Arrive, Goto
<1>1. TypeOK'
  BY DEF TypeOK, database, Input, Definition
<1>2. (RegistryConsistent /\ NoRowNoColumns /\ OnlyAddsColumns)'
  BY DEF RegistryConsistent, NoRowNoColumns, OnlyAddsColumns, database
<1>3. NotYetAnswered' /\ OnlyIngestEnsures'
  BY DEF NotYetAnswered, OnlyIngestEnsures, TypeOK
<1>4. ReadIsAVersion'
  BY DEF ReadIsAVersion, TypeOK, database
<1>5. CheckedBeforePersist'
  BY DEF CheckedBeforePersist, TypeOK
<1>6. NoLostUpdate'
  <2>1. status[r] = 0
    BY DEF NotYetAnswered
  <2> QED
    BY <2>1 DEF NoLostUpdate, TypeOK, database
<1>7. KnownAtDDL'
  BY DEF KnownAtDDL, TypeOK, database
<1> QED
  BY <1>1, <1>2, <1>3, <1>4, <1>5, <1>6, <1>7

(* A crash of the server. *)
LEMMA CrashRegistry == RegistryInv /\ Crash => RegistryInv'
<1> SUFFICES ASSUME RegistryInv, Crash PROVE RegistryInv'
  OBVIOUS
<1> USE DEF RegistryInv, Crash
<1>1. TypeOK'
  <2>1. faults' \in 0..MaxFaults
    BY MaxFaultsAssumption DEF TypeOK, Fault
  <2>2. ensured' \in BOOLEAN
    OBVIOUS
  <2>3. pc' \in [Request -> {"idle", "get", "ensure", "persist", "ddl", "insert", "done"}]
    OBVIOUS
  <2> QED
    BY <2>1, <2>2, <2>3 DEF TypeOK, database
<1>2. (RegistryConsistent /\ NoRowNoColumns /\ OnlyAddsColumns)'
  BY DEF RegistryConsistent, NoRowNoColumns, OnlyAddsColumns, database
<1>3. NotYetAnswered' /\ OnlyIngestEnsures' /\ CheckedBeforePersist' /\ KnownAtDDL'
  BY DEF NotYetAnswered, OnlyIngestEnsures, CheckedBeforePersist, KnownAtDDL
<1>4. ReadIsAVersion'
  BY DEF ReadIsAVersion, database
<1>5. NoLostUpdate'
  BY DEF NoLostUpdate, database
<1> QED
  BY <1>1, <1>2, <1>3, <1>4, <1>5

(* A new version: everything that was known of the earlier ones is still true. *)
LEMMA PersistRegistry ==
    ASSUME NEW r \in Request, RegistryInv, Persist(r)
    PROVE  RegistryInv'
<1> USE DEF RegistryInv
<1> DEFINE n == row.version + 1
<1>1. /\ read[r].version = row.version
      /\ row' = [version |-> n, columns |-> row.columns \cup cols[r]]
      /\ DOMAIN history' = 1..row'.version
      /\ history'[row'.version] = row'.columns
      /\ \A v \in DOMAIN history : history'[v] = history[v]
      /\ Valid(row'.columns)
      /\ row.version = 0 => row.columns = {}
  BY PersistExtends
<1>2. row.version \in Nat /\ n \in Nat /\ n > 0 /\ row'.version = n
  BY <1>1 DEF TypeOK, Row
<1>3. DOMAIN history = 1..row.version /\ DOMAIN history' = 1..n
  BY <1>1, <1>2 DEF RegistryConsistent
<1>4. row' \in Row
  BY <1>1, <1>2 DEF TypeOK, Row, Definition
<1>5. \A v \in DOMAIN history' : v = n \/ v \in DOMAIN history
  BY <1>2, <1>3
<1>6. pc' = [pc EXCEPT ![r] = "ddl"] /\ status' = status /\ read' = read
      /\ op' = op /\ cols' = cols /\ table' = table /\ ensured' = ensured /\ faults' = faults
  BY DEF Persist, Goto
<1>7. TypeOK'
  <2>1. ASSUME NEW v \in DOMAIN history' PROVE history'[v] \in Definition
    <3>1. CASE v = n
      <4>1. history'[v] = row'.columns
        BY <1>1, <1>2, <3>1
      <4> QED BY <1>4, <4>1 DEF Row
    <3>2. CASE v \in DOMAIN history
      <4>1. history'[v] = history[v]
        BY <1>1, <3>2, Zenon
      <4> QED BY <3>2, <4>1 DEF TypeOK
    <3> QED BY <1>5, <3>1, <3>2
  <2>2. DOMAIN history' \subseteq Nat \ {0}
    BY <1>2, <1>3
  <2> QED
    BY <1>4, <1>6, <2>1, <2>2 DEF TypeOK
<1>8. RegistryConsistent' /\ NoRowNoColumns'
  BY <1>1, <1>2 DEF RegistryConsistent, NoRowNoColumns
<1>9. OnlyAddsColumns'
  <2>1. \A v \in DOMAIN history : history[v] \subseteq row.columns
    BY <1>2, <1>3 DEF OnlyAddsColumns, RegistryConsistent
  <2>2. \A v \in DOMAIN history : v < n
    BY <1>2, <1>3
  <2>3. ASSUME NEW v \in DOMAIN history', NEW w \in DOMAIN history', v <= w
        PROVE  history'[v] \subseteq history'[w] /\ Valid(history'[w])
    <3>1. CASE w \in DOMAIN history
      <4>1. v \in DOMAIN history
        BY <1>2, <1>3, <2>3, <3>1
      <4> QED
        BY <1>1, <2>3, <3>1, <4>1 DEF OnlyAddsColumns
    <3>2. CASE w = n /\ v \in DOMAIN history
      BY <1>1, <1>2, <2>1, <3>2
    <3>3. CASE w = n /\ v = n
      BY <1>1, <1>2, <3>3
    <3> QED
      BY <1>5, <3>1, <3>2, <3>3
  <2> QED
    BY <2>3 DEF OnlyAddsColumns
<1>10. NotYetAnswered' /\ OnlyIngestEnsures' /\ CheckedBeforePersist'
  BY <1>6 DEF NotYetAnswered, OnlyIngestEnsures, CheckedBeforePersist, TypeOK, Persist
<1>11. ReadIsAVersion'
  <2>1. ASSUME NEW q \in Request
        PROVE  /\ read[q].version \in Nat /\ read[q].version <= n
               /\ read[q].version = 0 => read[q].columns = {}
               /\ read[q].version > 0 => read[q].columns = history'[read[q].version]
    BY <1>1, <1>2, <1>3 DEF ReadIsAVersion, TypeOK, Row
  <2> QED
    BY <1>2, <1>6, <2>1 DEF ReadIsAVersion
<1>12. row.columns \subseteq row'.columns /\ cols[r] \subseteq row'.columns
  BY <1>1
<1>13. NoLostUpdate'
  BY <1>6, <1>12 DEF NoLostUpdate, TypeOK
<1>14. KnownAtDDL'
  <2>1. ASSUME NEW q \in Request, pc[q] = "ddl"
        PROVE  /\ op[q] # "ingest" => cols[q] \subseteq row'.columns
               /\ read[q].version = 0 => cols[q] = history'[1]
               /\ op[q] \notin {"add", "ingest"} => read[q].version = 0
    BY <1>1, <1>2, <1>3, <1>12, <2>1 DEF KnownAtDDL
  <2>2. read[r].version = 0 => cols[r] = history'[1]
    BY <1>1, <1>2
  <2>3. op[r] \notin {"add", "ingest"} => read[r].version = 0
    BY DEF Persist, CheckedBeforePersist
  <2> QED
    BY <1>2, <1>6, <1>12, <2>1, <2>2, <2>3 DEF KnownAtDDL, TypeOK
<1> QED
  BY <1>7, <1>8, <1>9, <1>10, <1>11, <1>13, <1>14

(* The registry's part of the invariant is preserved by every step. *)
LEMMA NextRegistry == IInv /\ [Next]_vars => RegistryInv'
<1> SUFFICES ASSUME IInv, [Next]_vars PROVE RegistryInv'
  OBVIOUS
<1> USE DEF IInv
<1>0. ensured \in BOOLEAN /\ TRUE \in BOOLEAN /\ FALSE \in BOOLEAN /\ table \in Definition
      /\ faults \in 0..MaxFaults
  BY DEF RegistryInv, TypeOK
<1>f. Fault => faults' \in 0..MaxFaults
  BY <1>0, MaxFaultsAssumption DEF Fault
<1>1. ASSUME NEW r \in Request, NEW kind \in {"create", "add", "ingest"},
             NEW c \in Input(kind), Arrive(r, kind, c)
      PROVE  RegistryInv'
  BY <1>1, ArriveRegistry
<1>2. ASSUME NEW r \in Request, CreateGet(r) PROVE RegistryInv'
  <2>1. pc[r] # "done" /\ op[r] # "add"
    BY <1>2 DEF CreateGet, OnlyIngestEnsures, RegistryInv
  <2>2. UNCHANGED <<row, history, op, cols, table, ensured, faults>>
        /\ read' = [read EXCEPT ![r] = NoRow] /\ NoRow.version = 0 /\ NoRow.columns = {}
    BY <1>2 DEF CreateGet, database, NoRow
  <2>3. NoRow \in Row /\ row.version \in Nat /\ status = [status EXCEPT ![r] = 0]
    BY <2>1, UnderWay DEF Row
  <2>4. CASE Valid(cols[r]) /\ row.version = 0
    <3>1. Moves(r, "persist", 0, NoRow)
      BY <1>0, <1>2, <2>1, <2>2, <2>3, <2>4 DEF CreateGet, Goto, Moves
    <3> QED
      BY <3>1, MovesRegistry
  <2>5. CASE ~Valid(cols[r]) \/ row.version # 0
    <3>1. PICK code \in {400, 409, 500} : Answer(r, code)
      BY <1>2, <2>5 DEF CreateGet
    <3>2. Moves(r, "done", code, NoRow)
      BY <1>0, <2>1, <2>2, <2>3, <3>1 DEF Answer, Moves
    <3> QED
      BY <3>2, MovesRegistry
  <2> QED
    BY <2>4, <2>5
<1>3. ASSUME NEW r \in Request, AddGet(r) PROVE RegistryInv'
  <2>1. pc[r] # "done" /\ op[r] = "add"
    BY <1>3 DEF AddGet
  <2>2. UNCHANGED <<row, history, op, cols, table, ensured, faults>>
        /\ read' = [read EXCEPT ![r] = row]
    BY <1>3 DEF AddGet, database
  <2>3. row \in Row /\ row.version \in Nat /\ status = [status EXCEPT ![r] = 0]
        /\ (row.version = 0 => row.columns = {})
        /\ (row.version > 0 => row.columns = history[row.version])
    BY <2>1, UnderWay DEF Row
  <2>4. CASE row.version # 0 /\ CanAppend(row.columns, cols[r])
    <3>1. Moves(r, "persist", 0, row)
      BY <1>0, <1>3, <2>1, <2>2, <2>3, <2>4 DEF AddGet, Goto, Moves
    <3> QED
      BY <3>1, MovesRegistry
  <2>5. CASE row.version = 0 \/ ~CanAppend(row.columns, cols[r])
    <3>1. PICK code \in {400, 404} : Answer(r, code)
      BY <1>3, <2>5 DEF AddGet
    <3>2. Moves(r, "done", code, row)
      BY <1>0, <2>1, <2>2, <2>3, <3>1 DEF Answer, Moves
    <3> QED
      BY <3>2, MovesRegistry
  <2> QED
    BY <2>4, <2>5
<1>4. ASSUME NEW r \in Request, IngestGet(r) PROVE RegistryInv'
  <2>1. pc[r] # "done" /\ op[r] = "ingest"
    BY <1>4 DEF IngestGet
  <2>2. UNCHANGED <<row, history, op, cols, table, ensured, faults>>
        /\ read' = [read EXCEPT ![r] = row]
    BY <1>4 DEF IngestGet, database
  <2>3. row \in Row /\ row.version \in Nat /\ status = [status EXCEPT ![r] = 0]
        /\ (row.version = 0 => row.columns = {})
        /\ (row.version > 0 => row.columns = history[row.version])
    BY <2>1, UnderWay DEF Row
  <2>4. CASE row.version = 0
    <3>1. Moves(r, "ensure", 0, row)
      BY <1>0, <1>4, <2>1, <2>2, <2>3, <2>4 DEF IngestGet, Goto, Moves
    <3> QED
      BY <3>1, MovesRegistry
  <2>5. CASE row.version # 0
    <3>1. Moves(r, "ddl", 0, row)
      BY <1>0, <1>4, <2>1, <2>2, <2>3, <2>5 DEF IngestGet, Goto, Moves
    <3> QED
      BY <3>1, MovesRegistry
  <2> QED
    BY <2>4, <2>5
<1>5. ASSUME NEW r \in Request, Persist(r) PROVE RegistryInv'
  BY <1>5, PersistRegistry
<1>6. ASSUME NEW r \in Request, PersistConflict(r) PROVE RegistryInv'
  <2>1. Moves(r, "done", 500, read[r])
    BY <1>0, <1>6, UnderWay DEF PersistConflict, Answer, Moves, database
  <2> QED
    BY <2>1, MovesRegistry
<1>7. ASSUME NEW r \in Request, PersistFails(r) PROVE RegistryInv'
  <2>1. Moves(r, "done", 500, read[r])
    BY <1>0, <1>f, <1>7, UnderWay DEF PersistFails, Answer, Moves, database
  <2> QED
    BY <2>1, MovesRegistry
<1>8. ASSUME NEW r \in Request, pc[r] = "ddl"
      PROVE  /\ CreateTable(r) \in Definition
             /\ table \cup cols[r] \in Definition
             /\ op[r] # "ingest" => cols[r] \subseteq row.columns
  BY <1>0, <1>8 DEF CreateTable, DDLColumns, Defined, RegistryInv, TypeOK, Row, Definition, KnownAtDDL
<1>9. ASSUME NEW r \in Request, CreateDDL(r) PROVE RegistryInv'
  <2>0. /\ pc[r] = "ddl" /\ op[r] = "create"
        /\ table' = CreateTable(r) /\ CreateTable(r) \in Definition
        /\ cols[r] \subseteq row.columns
    BY <1>8, <1>9 DEF CreateDDL
  <2>1. Moves(r, "done", 201, read[r])
    BY <1>0, <1>9, <2>0, UnderWay DEF CreateDDL, Answer, Moves, database
  <2> QED
    BY <2>1, MovesRegistry
<1>10. ASSUME NEW r \in Request, AddDDL(r) PROVE RegistryInv'
  <2>1. Answer(r, 200) \/ Answer(r, 500)
    BY <1>10 DEF AddDDL
  <2>2. table' \in Definition
    BY <1>0, <1>8, <1>10 DEF AddDDL
  <2>3. pc[r] = "ddl" /\ op[r] = "add" /\ UNCHANGED <<row, history, ensured, op, cols, read, faults>>
    BY <1>10 DEF AddDDL, database
  <2>4. cols[r] \subseteq row.columns
    BY <1>8, <2>3
  <2>5. Answer(r, 200) => Moves(r, "done", 200, read[r])
    BY <1>0, <2>2, <2>3, <2>4, UnderWay DEF Answer, Moves
  <2>6. Answer(r, 500) => Moves(r, "done", 500, read[r])
    BY <1>0, <2>2, <2>3, UnderWay DEF Answer, Moves
  <2> QED
    BY <2>1, <2>5, <2>6, MovesRegistry
<1>11. ASSUME NEW r \in Request, IngestDDL(r) PROVE RegistryInv'
  <2>1. table' \in Definition /\ ensured' \in BOOLEAN
    BY <1>0, <1>8, <1>11 DEF IngestDDL
  <2>2. Moves(r, "insert", 0, read[r])
    BY <1>0, <1>11, <2>1, UnderWay DEF IngestDDL, Goto, Moves, database
  <2> QED
    BY <2>2, MovesRegistry
<1>12. ASSUME NEW r \in Request, DDLFails(r) PROVE RegistryInv'
  <2>1. table' \in Definition
    BY <1>0, <1>8, <1>12 DEF DDLFails
  <2>2. Moves(r, "done", 500, read[r])
    BY <1>0, <1>f, <1>12, <2>1, UnderWay DEF DDLFails, Answer, Moves, database
  <2> QED
    BY <2>2, MovesRegistry
<1>13. ASSUME NEW r \in Request, Insert(r) \/ InsertFails(r) PROVE RegistryInv'
  <2>1. PICK code \in {202, 500} : Answer(r, code)
    BY <1>13 DEF Insert, InsertFails
  <2>2. /\ pc[r] = "insert" /\ UNCHANGED <<row, history, table, ensured, op, cols, read>>
        /\ faults' = faults \/ Fault
    BY <1>13 DEF Insert, InsertFails, database
  <2>3. Moves(r, "done", code, read[r])
    BY <1>0, <1>f, <2>1, <2>2, UnderWay DEF Answer, Moves
  <2> QED
    BY <2>3, MovesRegistry
<1>g. ASSUME NEW r \in Request, GetFails(r) PROVE RegistryInv'
  <2>1. pc[r] # "done" /\ (pc[r] = "ensure" \/ op[r] = "create" => op[r] # "add")
    BY <1>g DEF GetFails, OnlyIngestEnsures, RegistryInv
  <2>2. UNCHANGED <<row, history, op, cols, table, ensured>>
        /\ read' = [read EXCEPT ![r] = NoRow] /\ NoRow.version = 0 /\ NoRow.columns = {}
    BY <1>g DEF GetFails, database, NoRow
  <2>3. faults' \in 0..MaxFaults
    BY <1>f, <1>g DEF GetFails
  <2>4. NoRow \in Row /\ row.version \in Nat /\ status = [status EXCEPT ![r] = 0]
    BY <2>1, UnderWay DEF Row
  <2>5. CASE pc[r] = "ensure" \/ op[r] = "create"
    <3>1. Valid(cols[r]) /\ Goto(r, "persist")
      BY <1>g, <2>5 DEF GetFails
    <3>2. Moves(r, "persist", 0, NoRow)
      BY <1>0, <2>1, <2>2, <2>3, <2>4, <2>5, <3>1 DEF Goto, Moves
    <3> QED
      BY <3>2, MovesRegistry
  <2>6. CASE ~(pc[r] = "ensure" \/ op[r] = "create")
    <3>1. Answer(r, 500)
      BY <1>g, <2>6 DEF GetFails
    <3>2. Moves(r, "done", 500, NoRow)
      BY <1>0, <2>1, <2>2, <2>3, <2>4, <3>1 DEF Answer, Moves
    <3> QED
      BY <3>2, MovesRegistry
  <2> QED
    BY <2>5, <2>6
<1>14. CASE Crash
  BY <1>14, CrashRegistry
<1>15. CASE UNCHANGED vars
  BY <1>15 DEF vars, database, request, RegistryInv, TypeOK, RegistryConsistent, NoRowNoColumns,
       OnlyAddsColumns, NotYetAnswered, OnlyIngestEnsures, ReadIsAVersion,
       CheckedBeforePersist, NoLostUpdate, KnownAtDDL
<1> QED
  BY <1>1, <1>2, <1>3, <1>4, <1>5, <1>6, <1>7, <1>9, <1>10, <1>11, <1>12, <1>13, <1>g, <1>14, <1>15
     DEF Next

(* CREATE TABLE IF NOT EXISTS leaves a table with at least the first version's *)
(* columns and at most the current one's, however late it comes.               *)
LEMMA CreateTableBetween ==
    ASSUME NEW r \in Request, IInv, pc[r] = "ddl", op[r] # "add"
    PROVE  /\ table \subseteq CreateTable(r)
           /\ CreateTable(r) \subseteq row.columns
           /\ row.version > 0
           /\ history[1] \subseteq CreateTable(r)
           /\ CreateTable(r) # {}
           /\ op[r] = "create" => cols[r] = history[1]
<1> USE DEF IInv
<1>1. row.version \in Nat /\ row.version > 0 /\ DOMAIN history = 1..row.version
      /\ history[row.version] = row.columns
  BY DEF RegistryInv, KnownAtDDL, RegistryConsistent, TypeOK, Row
<1>2. 1 \in DOMAIN history /\ row.version \in DOMAIN history
  BY <1>1
<1>3. history[1] # {} /\ history[1] \subseteq row.columns
  BY <1>1, <1>2 DEF RegistryInv, OnlyAddsColumns, Valid
<1>4. op[r] = "create" => cols[r] = history[1]
  BY DEF RegistryInv, KnownAtDDL
<1>5. read[r].version \in Nat /\ read[r].version <= row.version
  BY DEF RegistryInv, ReadIsAVersion, TypeOK, Row
<1>6. DDLColumns(r) \subseteq row.columns /\ history[1] \subseteq DDLColumns(r)
  <2>1. CASE read[r].version = 0
    <3>1. read[r].columns = {} /\ cols[r] = history[1]
      BY <2>1 DEF RegistryInv, ReadIsAVersion, KnownAtDDL
    <3>2. Defined(r) = history[1]
      BY <3>1 DEF Defined
    <3> QED
      BY <1>3, <2>1, <3>2 DEF DDLColumns
  <2>2. CASE read[r].version > 0
    <3>1. op[r] = "ingest"
      BY <2>2 DEF RegistryInv, KnownAtDDL, TypeOK
    <3>2. DDLColumns(r) = history[read[r].version]
      BY <2>2, <3>1 DEF DDLColumns, RegistryInv, ReadIsAVersion
    <3>3. read[r].version \in DOMAIN history /\ 1 <= read[r].version
      BY <1>1, <1>5, <2>2
    <3> QED
      BY <1>1, <1>2, <1>5, <3>2, <3>3 DEF RegistryInv, OnlyAddsColumns
  <2> QED
    BY <1>5, <2>1, <2>2
<1>7. CASE table = {}
  BY <1>1, <1>3, <1>4, <1>6, <1>7 DEF CreateTable
<1>8. CASE table # {}
  BY <1>1, <1>4, <1>8 DEF CreateTable, TableWithinRegistry, TableHasFirstVersion
<1> QED
  BY <1>7, <1>8

(* A step that only grows the table, within the registry, and answers no       *)
(* request, or one that may be answered.                                       *)
Grows ==
    /\ row' = row /\ history' = history /\ cols' = cols
    /\ table \subseteq table' /\ table' \subseteq row.columns
    /\ table' # {} => row.version > 0 /\ history[1] \subseteq table'

MayAnswer(r, code) ==
    /\ status' = [status EXCEPT ![r] = code]
    /\ code \in {200, 201} => cols[r] \subseteq table'
    /\ code = 202 => table' # {}

LEMMA GrowsTable ==
    ASSUME NEW r \in Request, IInv, Grows, NEW code, status' = status \/ MayAnswer(r, code)
    PROVE  (TableWithinRegistry /\ TableHasFirstVersion /\ SuccessIsQueryable)'
<1> USE DEF IInv, Grows
<1>1. (TableWithinRegistry /\ TableHasFirstVersion)'
  BY DEF TableWithinRegistry, TableHasFirstVersion
<1>2. table # {} => table' # {}
  OBVIOUS
<1>3. SuccessIsQueryable'
  BY <1>2 DEF SuccessIsQueryable, MayAnswer, RegistryInv, TypeOK
<1> QED
  BY <1>1, <1>3

(* The table's part of the invariant is preserved by every step. *)
LEMMA NextTable ==
    IInv /\ [Next]_vars => (TableWithinRegistry /\ TableHasFirstVersion /\ SuccessIsQueryable)'
<1> DEFINE Goal == (TableWithinRegistry /\ TableHasFirstVersion /\ SuccessIsQueryable)'
<1> SUFFICES ASSUME IInv, [Next]_vars PROVE Goal
  OBVIOUS
<1> USE DEF IInv
<1>0. ASSUME UNCHANGED <<row, history, table, cols>> PROVE Grows
  BY <1>0 DEF Grows, TableWithinRegistry, TableHasFirstVersion
<1>1. ASSUME NEW r \in Request, NEW kind \in {"create", "add", "ingest"},
             NEW c \in Input(kind), Arrive(r, kind, c)
      PROVE  Goal
  <2>1. UNCHANGED <<row, history, table, status>> /\ cols' = [cols EXCEPT ![r] = c]
    BY <1>1 DEF Arrive, Goto, database
  <2>2. status[r] = 0
    BY <1>1 DEF Arrive, RegistryInv, NotYetAnswered
  <2>3. SuccessIsQueryable'
    BY <2>1, <2>2 DEF SuccessIsQueryable, RegistryInv, TypeOK
  <2> QED
    BY <2>1, <2>3 DEF TableWithinRegistry, TableHasFirstVersion
<1>2. ASSUME NEW r \in Request, CreateGet(r) \/ AddGet(r) \/ GetFails(r) PROVE Goal
  <2>1. Grows
    BY <1>0, <1>2 DEF CreateGet, AddGet, GetFails, database
  <2>2. status' = status \/ \E code \in {400, 404, 409, 500} : MayAnswer(r, code)
    BY <1>2 DEF CreateGet, AddGet, GetFails, Goto, Answer, MayAnswer
  <2> QED
    BY <2>1, <2>2, GrowsTable
<1>3. ASSUME NEW r \in Request, IngestGet(r) PROVE Goal
  BY <1>0, <1>3, GrowsTable DEF IngestGet, Goto, database
<1>4. ASSUME NEW r \in Request, Persist(r) PROVE Goal
  <2>1. UNCHANGED <<table, cols, status>>
    BY <1>4 DEF Persist, Goto
  <2>2. /\ row' = [version |-> row.version + 1, columns |-> row.columns \cup cols[r]]
        /\ \A v \in DOMAIN history : history'[v] = history[v]
    BY <1>4, PersistExtends
  <2>3. row.version \in Nat /\ DOMAIN history = 1..row.version
    BY DEF RegistryInv, TypeOK, Row, RegistryConsistent
  <2>4. TableWithinRegistry'
    BY <2>1, <2>2 DEF TableWithinRegistry
  <2>5. TableHasFirstVersion'
    BY <2>1, <2>2, <2>3 DEF TableHasFirstVersion
  <2>6. SuccessIsQueryable'
    BY <2>1 DEF SuccessIsQueryable
  <2> QED
    BY <2>4, <2>5, <2>6
<1>5. ASSUME NEW r \in Request, PersistConflict(r) \/ PersistFails(r) PROVE Goal
  <2>1. Grows
    BY <1>0, <1>5 DEF PersistConflict, PersistFails, database
  <2>2. MayAnswer(r, 500)
    BY <1>5 DEF PersistConflict, PersistFails, Answer, MayAnswer
  <2> QED
    BY <2>1, <2>2, GrowsTable
<1>6. ASSUME NEW r \in Request, CreateDDL(r) PROVE Goal
  <2>1. pc[r] = "ddl" /\ op[r] = "create" /\ table' = CreateTable(r) /\ Answer(r, 201)
        /\ UNCHANGED <<row, history, cols>>
    BY <1>6 DEF CreateDDL, database
  <2>2. Grows /\ cols[r] \subseteq table'
    BY <2>1, CreateTableBetween DEF Grows
  <2>3. MayAnswer(r, 201)
    BY <2>1, <2>2 DEF Answer, MayAnswer
  <2> QED
    BY <2>2, <2>3, GrowsTable
<1>7. ASSUME NEW r \in Request, pc[r] = "ddl", op[r] = "add", CanAlter(r),
             table' = table \cup cols[r], UNCHANGED <<row, history, cols>>
      PROVE  Grows /\ cols[r] \subseteq table'
  <2>1. cols[r] \subseteq row.columns /\ table \subseteq row.columns
    BY <1>7 DEF RegistryInv, KnownAtDDL, TableWithinRegistry
  <2>2. row.version > 0 /\ history[1] \subseteq table
    BY <1>7 DEF CanAlter, TableHasFirstVersion
  <2> QED
    BY <1>7, <2>1, <2>2 DEF Grows
<1>8. ASSUME NEW r \in Request, AddDDL(r) PROVE Goal
  <2>1. pc[r] = "ddl" /\ op[r] = "add" /\ UNCHANGED <<row, history, cols>>
    BY <1>8 DEF AddDDL, database
  <2>2. CASE CanAlter(r)
    <3>1. table' = table \cup cols[r] /\ Answer(r, 200)
      BY <1>8, <2>2 DEF AddDDL
    <3>2. Grows /\ MayAnswer(r, 200)
      BY <1>7, <2>1, <2>2, <3>1 DEF Answer, MayAnswer
    <3> QED
      BY <3>2, GrowsTable
  <2>3. CASE ~CanAlter(r)
    <3>1. table' = table /\ Answer(r, 500)
      BY <1>8, <2>3 DEF AddDDL
    <3>2. Grows /\ MayAnswer(r, 500)
      BY <1>0, <2>1, <3>1 DEF Answer, MayAnswer
    <3> QED
      BY <3>2, GrowsTable
  <2> QED
    BY <2>2, <2>3
<1>9. ASSUME NEW r \in Request, IngestDDL(r) PROVE Goal
  <2>1. pc[r] = "ddl" /\ op[r] = "ingest" /\ UNCHANGED <<row, history, cols, status>>
        /\ table' = IF ensured THEN table ELSE CreateTable(r)
    BY <1>9 DEF IngestDDL, Goto, database
  <2>2. Grows
    BY <1>0, <2>1, CreateTableBetween DEF Grows
  <2> QED
    BY <2>1, <2>2, GrowsTable
<1>10. ASSUME NEW r \in Request, DDLFails(r) PROVE Goal
  <2>1. pc[r] = "ddl" /\ UNCHANGED <<row, history, cols>> /\ Answer(r, 500)
    BY <1>10 DEF DDLFails, database
  <2>2. MayAnswer(r, 500)
    BY <2>1 DEF Answer, MayAnswer
  <2>3. CASE table' = table
    BY <1>0, <2>1, <2>3, <2>2, GrowsTable
  <2>4. CASE op[r] # "add" /\ table' = CreateTable(r)
    <3>1. Grows
      BY <2>1, <2>4, CreateTableBetween DEF Grows
    <3> QED
      BY <2>2, <3>1, GrowsTable
  <2>5. CASE op[r] = "add" /\ CanAlter(r) /\ table' = table \cup cols[r]
    BY <1>7, <2>1, <2>5, <2>2, GrowsTable
  <2> QED
    BY <1>10, <2>3, <2>4, <2>5 DEF DDLFails
<1>11. ASSUME NEW r \in Request, Insert(r) PROVE Goal
  <2>1. Grows
    BY <1>0, <1>11 DEF Insert, database
  <2>2. MayAnswer(r, 202) \/ MayAnswer(r, 500)
    <3>1. CASE table = {}
      BY <1>11, <3>1 DEF Insert, Answer, MayAnswer
    <3>2. CASE table # {}
      <4>1. Answer(r, 202) /\ table' = table
        BY <1>11, <3>2 DEF Insert
      <4> QED
        BY <3>2, <4>1 DEF Answer, MayAnswer
    <3> QED
      BY <3>1, <3>2
  <2> QED
    BY <2>1, <2>2, GrowsTable
<1>13. ASSUME NEW r \in Request, InsertFails(r) PROVE Goal
  <2>1. Grows /\ MayAnswer(r, 500)
    BY <1>0, <1>13 DEF InsertFails, database, Answer, MayAnswer
  <2> QED
    BY <2>1, GrowsTable
<1>12. CASE Crash \/ UNCHANGED vars
  <2>1. UNCHANGED <<row, history, table, cols, status>>
    BY <1>12 DEF Crash, vars, database, request
  <2> QED
    BY <2>1 DEF TableWithinRegistry, TableHasFirstVersion, SuccessIsQueryable
<1> QED
  BY <1>1, <1>2, <1>3, <1>4, <1>5, <1>6, <1>8, <1>9, <1>10, <1>11, <1>12, <1>13 DEF Next

-----------------------------------------------------------------------------
(* The inductive invariant holds in every reachable state. *)
THEOREM Invariance == Spec => []IInv
<1>1. IInv /\ [Next]_vars => IInv'
  BY NextRegistry, NextTable DEF IInv
<1> QED
  BY InitIInv, <1>1, PTL DEF Spec

(* Every variable keeps its type. *)
THEOREM TypeCorrect == Spec => []TypeOK
<1>1. IInv => TypeOK
  BY DEF IInv, RegistryInv
<1> QED
  BY <1>1, Invariance, PTL

(* Store.persist: datasets and dataset_versions agree, for any number of       *)
(* overlapping requests.                                                       *)
THEOREM RegistryAgrees == Spec => []RegistryConsistent
<1>1. IInv => RegistryConsistent
  BY DEF IInv, RegistryInv
<1> QED
  BY <1>1, Invariance, PTL

(* CheckBackwardCompatible: a version only ever adds columns, although the     *)
(* check was made on a row read before the transaction.                        *)
THEOREM VersionsAreCompatible == Spec => []OnlyAddsColumns
<1>1. IInv => OnlyAddsColumns
  BY DEF IInv, RegistryInv
<1> QED
  BY <1>1, Invariance, PTL

(* The primary key of dataset_versions is enough of a lock: no accepted        *)
(* request's columns are overwritten by another one's.                         *)
THEOREM UpdatesAreKept == Spec => []NoLostUpdate
<1>1. IInv => NoLostUpdate
  BY DEF IInv, RegistryInv
<1> QED
  BY <1>1, Invariance, PTL

(* A successful create, add or ingest has its columns, or its table, in        *)
(* ClickHouse, in whatever order the statements got there.                     *)
THEOREM SuccessMeansQueryable == Spec => []SuccessIsQueryable
<1>1. IInv => SuccessIsQueryable
  BY DEF IInv
<1> QED
  BY <1>1, Invariance, PTL

(* The ClickHouse table has no column the registry does not know.              *)
THEOREM TableInRegistry == Spec => []TableWithinRegistry
<1>1. IInv => TableWithinRegistry
  BY DEF IInv
<1> QED
  BY <1>1, Invariance, PTL

(* A step of the model other than Persist leaves the registry alone. *)
LEMMA OnlyPersistWrites ==
    [Next]_vars => UNCHANGED database \/ \E r \in Request : Persist(r)
<1> SUFFICES ASSUME [Next]_vars PROVE UNCHANGED database \/ \E r \in Request : Persist(r)
  OBVIOUS
<1>1. CASE Crash \/ UNCHANGED vars
  BY <1>1 DEF Crash, vars
<1>2. ASSUME NEW r \in Request,
             \/ \E kind \in {"create", "add", "ingest"} : \E c \in Input(kind) : Arrive(r, kind, c)
             \/ CreateGet(r) \/ AddGet(r) \/ IngestGet(r) \/ GetFails(r)
             \/ PersistConflict(r) \/ PersistFails(r)
             \/ CreateDDL(r) \/ AddDDL(r) \/ IngestDDL(r) \/ DDLFails(r)
             \/ Insert(r) \/ InsertFails(r)
      PROVE  UNCHANGED database
  BY <1>2 DEF Arrive, CreateGet, AddGet, IngestGet, GetFails, PersistConflict, PersistFails,
       CreateDDL, AddDDL, IngestDDL, DDLFails, Insert, InsertFails
<1> QED
  BY <1>1, <1>2 DEF Next

(* No step changes or removes a version that was written.                      *)
THEOREM HistoryKept == Spec => HistoryIsImmutable
<1> DEFINE Kept == \A v \in DOMAIN history : v \in DOMAIN history' /\ history'[v] = history[v]
<1>1. IInv /\ [Next]_vars => [Kept]_vars
  <2> SUFFICES ASSUME IInv, [Next]_vars PROVE Kept
    OBVIOUS
  <2>1. CASE UNCHANGED database
    BY <2>1 DEF database
  <2>2. ASSUME NEW r \in Request, Persist(r) PROVE Kept
    <3>1. RegistryInv
      BY DEF IInv
    <3>2. \A v \in DOMAIN history : history'[v] = history[v]
      BY <2>2, <3>1, PersistExtends
    <3>3. DOMAIN history \subseteq DOMAIN history'
      BY <2>2 DEF Persist
    <3> QED
      BY <3>2, <3>3
  <2> QED
    BY <2>1, <2>2, OnlyPersistWrites
<1> QED
  BY <1>1, Invariance, PTL DEF Spec, HistoryIsImmutable

(* What persist writes is one publication of the abstract registry. *)
LEMMA PersistPublishes ==
    ASSUME NEW r \in Request, RegistryInv, Persist(r)
    PROVE  R!Next
<1> DEFINE def == row.columns \cup cols[r]
<1>1. row.version \in Nat /\ row.columns \in SUBSET Column /\ def \in SUBSET Column
  BY DEF RegistryInv, TypeOK, Row, Definition
<1>2. row' = [version |-> row.version + 1, columns |-> def]
  BY PersistExtends
<1>3. def # {} /\ R!NoNameTwice(def) /\ row.columns \subseteq def
  BY <1>2, PersistExtends DEF Valid, NoNameTwice, R!NoNameTwice
<1>4. history' = [v \in 1..(row.version + 1) |-> IF v <= row.version THEN history[v] ELSE def]
  <2>0. read[r].version = row.version
    BY PersistExtends
  <2>1. read[r].version = row.version /\ read[r].columns = row.columns
    <3>1. CASE row.version = 0
      BY <2>0, <3>1 DEF RegistryInv, ReadIsAVersion, NoRowNoColumns
    <3>2. CASE row.version > 0
      BY <2>0, <3>2 DEF RegistryInv, ReadIsAVersion, RegistryConsistent
    <3> QED
      BY <1>1, <2>0, <3>1, <3>2
  <2>2. history' = [v \in (1..row.version) \cup {row.version + 1} |->
                      IF v = row.version + 1 THEN def ELSE history[v]]
    BY <2>1 DEF Persist, Defined, RegistryInv, RegistryConsistent
  <2>3. (1..row.version) \cup {row.version + 1} = 1..(row.version + 1)
    BY <1>1
  <2> QED
    BY <1>1, <2>2, <2>3
<1>5. R!Publish(def)
  BY <1>2, <1>3, <1>4 DEF R!Publish
<1> QED
  BY <1>1, <1>5 DEF R!Next

(* The store implements the versioned registry: with any number of concurrent  *)
(* requests, faults and crashes, datasets and dataset_versions change only by   *)
(* publishing the next version, in one step, on top of the current one.        *)
THEOREM StoreIsRegistry == Spec => ImplementsRegistry
<1>1. Init => R!Init
  BY DEF Init, NoRow, R!Init
<1>2. IInv /\ [Next]_vars => [R!Next]_<<row, history>>
  <2> SUFFICES ASSUME IInv, [Next]_vars PROVE [R!Next]_<<row, history>>
    OBVIOUS
  <2>1. CASE UNCHANGED database
    BY <2>1 DEF database
  <2>2. ASSUME NEW r \in Request, Persist(r) PROVE R!Next
    BY <2>2, PersistPublishes DEF IInv
  <2> QED
    BY <2>1, <2>2, OnlyPersistWrites
<1> QED
  BY <1>1, <1>2, Invariance, PTL DEF Spec, ImplementsRegistry, R!Spec
=============================================================================
