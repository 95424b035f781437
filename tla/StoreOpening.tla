---------------------------- MODULE StoreOpening ----------------------------
(***************************************************************************)
(* Opening the store (session/sqlite_store.go OpenSQLite, data_dir.go,       *)
(* migrations.go).  Every process does it, with the migrations its own       *)
(* binary embeds: it checks and makes the data directory, connects, reads    *)
(* which migrations the database has, and applies those that are missing,    *)
(* each in a transaction of its own.                                         *)
(*                                                                           *)
(* Several processes open the same database, newer binaries and binaries of  *)
(* another branch among them, and die between any two statements.  What was  *)
(* read of the ledger is not read again.                                     *)
(*                                                                           *)
(* A migration is its content; its version is its place in the binary.  The  *)
(* tables are named for the version that makes them: every migration here    *)
(* fails when one of its version was applied before.                         *)
(***************************************************************************)
EXTENDS Naturals, Sequences, FiniteSets

CONSTANTS
  Opener,     \* processes
  Binary,     \* the migrations of a binary, in the order of their versions
  Missing,    \* no migration of that version
  MaxOpens    \* bound: times a process starts

ASSUME OpeningBounds == Binary # {} /\ MaxOpens \in Nat /\ \A b \in Binary : Missing \notin {b[v] : v \in DOMAIN b}

ASSUME BinariesAreSequences == \A b \in Binary : b \in Seq({b[v] : v \in DOMAIN b})

ASSUME OneBinaryIsLongest == \E n \in {Len(b) : b \in Binary} : \A b \in Binary : Len(b) <= n

ASSUME NobodyIsNoOpener == "nobody" \notin Opener

VARIABLES
  directory,   \* absent, plain, or something the store must not use
  database,    \* what is committed: schema_migrations, and the tables there are
  transaction, \* the one that holds the write lock
  opening,     \* what every process is doing
  starts       \* times one has started

openingVars == <<directory, database, transaction, opening, starts>>

Version == 1..(CHOOSE n \in {Len(b) : b \in Binary} : \A b \in Binary : Len(b) <= n)

Closed      == [at |-> "closed"]
NoOne       == [by |-> "nobody"]

OpeningInit ==
  /\ directory = "absent"
  /\ database = [ledger |-> [v \in Version |-> Missing], tables |-> [v \in Version |-> Missing]]
  /\ transaction = NoOne
  /\ opening = [p \in Opener |-> Closed]
  /\ starts = 0

OpeningAt(p, step)  == opening[p].at = step
OpeningGoes(p, to)  == opening' = [opening EXCEPT ![p] = to]
Fails(p)            == OpeningGoes(p, Closed)

-----------------------------------------------------------------------------
(***************************************************************************)
(* The data directory.                                                       *)
(***************************************************************************)

\* validateDataDir: not a link, a file, a share, or a part of the project.
ValidDataDir == directory # "other"

\* ResolveDataDir, and the first check of OpenSQLite.
ResolveDataDir(p) ==
  /\ OpeningAt(p, "closed") /\ starts < MaxOpens /\ starts' = starts + 1
  /\ ValidDataDir
  /\ \E binary \in Binary : OpeningGoes(p, [at |-> "resolved", binary |-> binary])
  /\ UNCHANGED <<directory, database, transaction>>

\* prepareDataDir: made when it is missing, and checked again.
PrepareDataDir(p) ==
  /\ OpeningAt(p, "resolved")
  /\ directory' = IF directory = "absent" THEN "plain" ELSE directory
  /\ IF ValidDataDir THEN OpeningGoes(p, [opening[p] EXCEPT !.at = "prepared"]) ELSE Fails(p)
  /\ UNCHANGED <<database, transaction, starts>>

\* The connection is not what the DSN asked for, or cannot be made.
VerifyPragmas(p) ==
  /\ OpeningAt(p, "prepared")
  /\ \/ OpeningGoes(p, [opening[p] EXCEPT !.at = "connected"])
     \/ Fails(p)
  /\ UNCHANGED <<directory, database, transaction, starts>>

\* Somebody else makes the directory.
Occupy ==
  /\ directory = "absent" /\ directory' \in {"plain", "other"}
  /\ UNCHANGED <<database, transaction, opening, starts>>

-----------------------------------------------------------------------------
(***************************************************************************)
(* applyMigrations.                                                          *)
(***************************************************************************)

Item(p) == opening[p].binary[opening[p].next]

\* loadAppliedMigrations; a database with a later version is refused.
LoadAppliedMigrations(p) ==
  /\ OpeningAt(p, "connected")
  /\ IF \E v \in Version : v > Len(opening[p].binary) /\ database.ledger[v] # Missing
     THEN Fails(p)
     ELSE OpeningGoes(p, [at |-> "migrating", binary |-> opening[p].binary, applied |-> database.ledger, next |-> 1])
  /\ UNCHANGED <<directory, database, transaction, starts>>

\* One round of the loop for a version that was there: skipped, or refused as drift.
SkipApplied(p) ==
  /\ OpeningAt(p, "migrating") /\ opening[p].next <= Len(opening[p].binary)
  /\ opening[p].applied[opening[p].next] # Missing
  /\ IF opening[p].applied[opening[p].next] = Item(p) THEN OpeningGoes(p, [opening[p] EXCEPT !.next = @ + 1]) ELSE Fails(p)
  /\ UNCHANGED <<directory, database, transaction, starts>>

\* BEGIN IMMEDIATE waits for the lock, or gives up after the busy timeout.
BeginMigration(p) ==
  /\ OpeningAt(p, "migrating") /\ opening[p].next <= Len(opening[p].binary)
  /\ opening[p].applied[opening[p].next] = Missing
  /\ IF transaction = NoOne
     THEN /\ transaction' = [by |-> p, database |-> database]
          /\ OpeningGoes(p, [opening[p] EXCEPT !.at = "executing"])
     ELSE Fails(p) /\ UNCHANGED transaction
  /\ UNCHANGED <<directory, database, starts>>

\* mutant: statements of a migration are not held back until its commit
Autocommitted(p, written) == transaction' = [by |-> p, database |-> written] /\ database' = written

\* A statement in a transaction: nobody else sees what it has written.
Uncommitted(p, written) == transaction' = [by |-> p, database |-> written] /\ UNCHANGED database

RollBack(p) == transaction' = NoOne /\ Fails(p) /\ UNCHANGED database

\* The SQL of the migration: its tables must not be there.
ExecuteMigration(p) ==
  /\ OpeningAt(p, "executing")
  /\ IF transaction.database.tables[opening[p].next] = Missing
     THEN /\ Uncommitted(p, [transaction.database EXCEPT !.tables[opening[p].next] = Item(p)])
          /\ OpeningGoes(p, [opening[p] EXCEPT !.at = "recording"])
     ELSE RollBack(p)
  /\ UNCHANGED <<directory, starts>>

\* The row of the ledger: version is its primary key.
RecordMigration(p) ==
  /\ OpeningAt(p, "recording")
  /\ IF transaction.database.ledger[opening[p].next] = Missing
     THEN /\ Uncommitted(p, [transaction.database EXCEPT !.ledger[opening[p].next] = Item(p)])
          /\ OpeningGoes(p, [opening[p] EXCEPT !.at = "committing"])
     ELSE RollBack(p)
  /\ UNCHANGED <<directory, starts>>

CommitMigration(p) ==
  /\ OpeningAt(p, "committing")
  /\ database' = transaction.database /\ transaction' = NoOne
  /\ OpeningGoes(p, [opening[p] EXCEPT !.at = "migrating", !.next = @ + 1])
  /\ UNCHANGED <<directory, starts>>

-----------------------------------------------------------------------------
(***************************************************************************)
(* The rest of OpenSQLite, and the end.                                      *)
(***************************************************************************)

\* The file is protected, the artifacts are collected (SessionContext).
FinishOpening(p) ==
  /\ OpeningAt(p, "migrating") /\ opening[p].next > Len(opening[p].binary)
  /\ \/ OpeningGoes(p, [at |-> "open", binary |-> opening[p].binary])
     \/ Fails(p)
  /\ UNCHANGED <<directory, database, transaction, starts>>

\* Close, or the end of the process wherever it is; SQLite rolls back.
CloseStore(p) ==
  /\ ~OpeningAt(p, "closed") /\ Fails(p)
  /\ transaction' = IF transaction.by = p THEN NoOne ELSE transaction
  /\ UNCHANGED <<directory, database, starts>>

OpenerStep(p) ==
  \/ ResolveDataDir(p) \/ PrepareDataDir(p) \/ VerifyPragmas(p)
  \/ LoadAppliedMigrations(p) \/ SkipApplied(p) \/ BeginMigration(p)
  \/ ExecuteMigration(p) \/ RecordMigration(p) \/ CommitMigration(p)
  \/ FinishOpening(p) \/ CloseStore(p)

OpeningNext == (\E p \in Opener : OpenerStep(p)) \/ Occupy

OpeningSpec == OpeningInit /\ [][OpeningNext]_openingVars

-----------------------------------------------------------------------------
(***************************************************************************)
(* Properties.                                                               *)
(***************************************************************************)

\* Whoever opens the database at the same time, with whatever binary, and dies
\* wherever it does: the tables are those the ledger names, with no version
\* left out before a later one, so that the next process can go on; and a
\* store that was opened has every migration of its binary, with its content.
\* (A newer binary may add versions after an older one has read the ledger:
\* the older one then has an open store whose schema is newer than itself.)
MigrationsStand ==
  /\ database.tables = database.ledger
  /\ \A v \in Version : v > 1 /\ database.ledger[v] # Missing => database.ledger[v - 1] # Missing
  /\ \A p \in Opener : OpeningAt(p, "open") =>
       \A v \in DOMAIN opening[p].binary : database.ledger[v] = opening[p].binary[v]
=============================================================================
