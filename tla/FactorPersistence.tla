-------------------------- MODULE FactorPersistence --------------------------
(***************************************************************************)
(* The identities under which parsed factors are stored                    *)
(* (persistence/parsed_factor_persistence_writer.py) and the one           *)
(* transaction that inserts a batch of them                                *)
(* (persistence/postgresql_source_family_repository.py and the statements  *)
(* and uuids it uses).                                                     *)
(*                                                                         *)
(* The writer turns a batch of rows into master and detail records.  A     *)
(* master belongs to an artifact, or, for the families whose parser sets   *)
(* master_external_key, to one factor of one version, whatever artifact    *)
(* it comes from.  Every statement of the transaction has an ON CONFLICT   *)
(* DO NOTHING for its natural key only: a row that collides on its         *)
(* primary key, or refers to a row that is not there, fails the batch.     *)
(* A digest or an uuid is the tuple it is made of.                         *)
(***************************************************************************)
EXTENDS FiniteSets, Integers

CONSTANTS Families,      \* source families
          PerFactor,     \* families whose parser sets the master and detail identities
          Absent         \* None

ASSUME PersistenceAssumption == PerFactor \subseteq Families

-----------------------------------------------------------------------------
(* Rows.  A row has a family, the artifact (its reference and checksum) it  *)
(* was parsed from, its number there, a factor, unit, further qualifiers    *)
(* and value, the year in its column and its version, which may name        *)
(* another year.                                                            *)

\* The year in the version goes before the year of the row.
MasterYear(row) == IF row.versionYear # Absent THEN row.versionYear ELSE row.year

\* A row without a value, a unit or any year is not stored.
Complete(row) ==
  row.value # Absent /\ row.unit # Absent /\ MasterYear(row) # Absent

ExternalKey(row) ==
  IF row.family \in PerFactor THEN <<row.year, row.version, row.factor>>
  ELSE <<MasterYear(row), row.version, row.uri, row.sum>>

MasterOf(row, document) ==
  [id |-> <<row.family, ExternalKey(row)>>, family |-> row.family, year |-> MasterYear(row),
   version |-> row.version, key |-> ExternalKey(row), document |-> document,
   uri |-> row.uri, sum |-> row.sum]

DetailKey(row) == <<row.factor, row.unit, row.qualifiers>>

\* MUTANT of DetailId: the parser's identity of a detail is its key, as elsewhere.
DetailIdOfKey(row, masterId) == <<row.family, masterId, DetailKey(row)>>

\* The identity the parser gives a detail holds neither its unit nor its qualifiers.
DetailId(row, masterId) ==
  IF row.family \in PerFactor THEN <<row.family, row.year, row.version, row.factor>>
  ELSE <<row.family, masterId, DetailKey(row)>>

DetailOf(row, document) ==
  LET master == MasterOf(row, document).id IN
  [id |-> DetailId(row, master), master |-> master, key |-> DetailKey(row),
   number |-> row.number, value |-> row.value]

NoRecords == {"no_records"}

\* Two masters with one identity have to be the same record, and so have two
\* details, whose row numbers differ when they are two rows.
CommandIssues(rows, document) ==
  LET masters == {MasterOf(r, document) : r \in rows}
      details == {DetailOf(r, document) : r \in rows}
  IN IF rows = {} THEN NoRecords
     ELSE {issue \in {"missing_required_field", "master_conflict", "detail_conflict"} :
             CASE issue = "missing_required_field" -> \E r \in rows : ~Complete(r)
               [] issue = "master_conflict" ->
                    \E m, n \in masters : m.id = n.id /\ m # n
               [] issue = "detail_conflict" ->
                    \E d, e \in details : d.master = e.master /\ d.key = e.key /\ d # e}

Command(rows, document) ==
  LET complete == {r \in rows : Complete(r)} IN
  [masters |-> {MasterOf(r, document) : r \in complete},
   details |-> {DetailOf(r, document) : r \in complete},
   issues  |-> CommandIssues(rows, document)]

-----------------------------------------------------------------------------
(* The tables: source_documents, and the masters and details of a family.   *)

EmptyStore == [documents |-> {}, masters |-> {}, details |-> {}]

DocumentOf(master) ==
  [id |-> <<master.family, master.document>>, family |-> master.family,
   uri |-> master.uri, sum |-> master.sum]

SameDocument(d, e) == d.family = e.family /\ d.uri = e.uri /\ d.sum = e.sum
SameMaster(m, n) ==
  m.family = n.family /\ m.year = n.year /\ m.version = n.version /\ m.key = n.key
SameDetail(d, e) == d.master = e.master /\ d.key = e.key

\* MUTANT of NewDocuments: an identity that is taken is a conflict to ignore, too.
NewIdentities(store, masters) ==
  {d \in {DocumentOf(m) : m \in masters} :
     \A e \in store.documents : ~SameDocument(d, e) /\ d.id # e.id}

\* The records that have no row under their natural key yet.
NewDocuments(store, masters) ==
  {d \in {DocumentOf(m) : m \in masters} : \A e \in store.documents : ~SameDocument(d, e)}
NewMasters(store, masters) ==
  {m \in masters : \A n \in store.masters : ~SameMaster(m, n)}
NewDetails(store, details) ==
  {d \in details : \A e \in store.details : ~SameDetail(d, e)}

After(store, command) ==
  [documents |-> store.documents \cup NewDocuments(store, command.masters),
   masters   |-> store.masters \cup NewMasters(store, command.masters),
   details   |-> store.details \cup NewDetails(store, command.details)]

UniqueIds(records) == \A x, y \in records : x.id = y.id => x = y

\* What the primary and foreign keys ask of the tables.
KeysHold(store) ==
  /\ UniqueIds(store.documents) /\ UniqueIds(store.masters) /\ UniqueIds(store.details)
  /\ \A m \in store.masters :
       \E d \in store.documents : d.id = <<m.family, m.document>>
  /\ \A d \in store.details : \E m \in store.masters : m.id = d.master

\* A detail has to have its master in the command.
RepositoryIssues(command) ==
  {d \in command.details : \A m \in command.masters : m.id # d.master}

Accepts(store, command) ==
  RepositoryIssues(command) = {} /\ KeysHold(After(store, command))

\* MUTANT of Transaction: every insert is a transaction of its own.
InsertByInsert(store, command) ==
  IF Accepts(store, command) THEN After(store, command)
  ELSE [After(store, command) EXCEPT !.details = store.details]

\* The transaction goes through, or a key is violated and all of it goes.
Transaction(store, command) ==
  IF Accepts(store, command) THEN After(store, command) ELSE store

\* MUTANT of Persisted: what was attempted is taken for what was inserted.
Attempted(store, command) ==
  [masters |-> Cardinality(command.masters), details |-> Cardinality(command.details)]

\* What the repository reports of a committed batch.
Persisted(store, command) ==
  [masters |-> Cardinality(NewMasters(store, command.masters)),
   details |-> Cardinality(NewDetails(store, command.details))]
=============================================================================
