---------------------------- MODULE StoreProofs ----------------------------
(***************************************************************************)
(* Theorems about what is stored, one part after the other: the schema     *)
(* (StoreOpening), the proposals to change memories (Reflection), the view *)
(* of a session and its snapshot (SessionView), the private conversation   *)
(* and its files (SessionContext).                                         *)
(***************************************************************************)
EXTENDS StoreOpening, SessionView, SessionContext, Reflection, SequenceTheorems, DataLemmas

-----------------------------------------------------------------------------
(***************************************************************************)
(* StoreOpening: the schema of the store stands, for any number of processes *)
(* and any binaries: what is committed is the ledger's and has no gap, and   *)
(* an open store has every migration of its binary.                          *)
(***************************************************************************)

\* A migration, or none, at every version.
Content   == (UNION {{b[v] : v \in DOMAIN b} : b \in Binary}) \cup {Missing}
Schema    == [Version -> Content]
Database  == [ledger : Schema, tables : Schema]

Early     == {"resolved", "prepared", "connected"}
Writing   == {"executing", "recording", "committing"}
Migrating == {"migrating"} \cup Writing

State ==
  {Closed} \cup [at : Early \cup {"open"}, binary : Binary]
    \cup [at : Migrating, binary : Binary, applied : Schema, next : Nat]

OpeningTypes ==
  /\ database \in Database
  /\ opening \in [Opener -> State]
  /\ transaction \in {NoOne} \cup [by : Opener, database : Database]

(***************************************************************************)
(* What is committed, whoever looks at it.                                 *)
(***************************************************************************)
Standing(d) ==
  /\ d.tables = d.ledger
  /\ \A v \in Version : v > 1 /\ d.ledger[v] # Missing => d.ledger[v - 1] # Missing

(***************************************************************************)
(* What a process knows of the database: the versions it has passed have   *)
(* its migrations, and what it has read is still there.                    *)
(***************************************************************************)
Knows(o, d) ==
  /\ o.at = "open" => \A v \in DOMAIN o.binary : d.ledger[v] = o.binary[v]
  /\ o.at \in Migrating =>
       /\ o.next \in 1..(Len(o.binary) + 1)
       /\ \A v \in 1..(o.next - 1) : d.ledger[v] = o.binary[v]
       /\ \A v \in Version : o.applied[v] # Missing => d.ledger[v] = o.applied[v]
  /\ o.at \in Writing => o.next <= Len(o.binary)

(***************************************************************************)
(* The transaction belongs to the process that writes, and differs from    *)
(* what is committed by what that process has written.                     *)
(***************************************************************************)
Holds(p, o, t, d) ==
  /\ t.by = p <=> o.at \in Writing
  /\ o.at = "executing" => t.database = d
  /\ o.at \in {"recording", "committing"} => d.ledger[o.next] = Missing
  /\ o.at = "recording" =>
       t.database = [d EXCEPT !.tables = [d.tables EXCEPT ![o.next] = o.binary[o.next]]]
  /\ o.at = "committing" =>
       t.database = [ledger |-> [d.ledger EXCEPT ![o.next] = o.binary[o.next]],
                     tables |-> [d.tables EXCEPT ![o.next] = o.binary[o.next]]]

OpeningInv ==
  /\ OpeningTypes
  /\ Standing(database)
  /\ \A p \in Opener : Knows(opening[p], database)
  /\ \A p \in Opener : Holds(p, opening[p], transaction, database)

-----------------------------------------------------------------------------
(***************************************************************************)
(* Versions and binaries.                                                  *)
(***************************************************************************)

LEMMA LengthsAreNumbers == \A b \in Binary : Len(b) \in Nat /\ DOMAIN b = 1..Len(b)
BY BinariesAreSequences

\* There is a last version, and no binary has a later one.
LEMMA LastVersion == \E n \in Nat : Version = 1..n /\ \A b \in Binary : Len(b) <= n
<1> DEFINE Longest(n) == \A c \in Binary : Len(c) <= n
<1> DEFINE max == CHOOSE n \in {Len(c) : c \in Binary} : Longest(n)
<1>1. max \in {Len(c) : c \in Binary} /\ Longest(max)
  BY OneBinaryIsLongest
<1>2. Version = 1..max
  BY DEF Version
<1> HIDE DEF max
<1>3. PICK b \in Binary : max = Len(b)
  BY <1>1
<1> QED
  BY <1>1, <1>2, <1>3, LengthsAreNumbers

\* The version of every migration of every binary is a version.
LEMMA VersionsOfBinaries ==
  ASSUME NEW b \in Binary
  PROVE  /\ Len(b) \in Nat /\ DOMAIN b = 1..Len(b)
         /\ \A v \in 1..Len(b) : v \in Version /\ b[v] \in Content /\ b[v] # Missing
<1>1. Len(b) \in Nat /\ DOMAIN b = 1..Len(b)
  BY LengthsAreNumbers
<1>2. \A v \in 1..Len(b) : v \in Version
  BY <1>1, LastVersion
<1>3. \A v \in 1..Len(b) : b[v] \in {b[w] : w \in DOMAIN b}
  BY <1>1
<1>4. \A v \in 1..Len(b) : b[v] \in Content /\ b[v] # Missing
  BY <1>3, OpeningBounds DEF Content
<1> QED
  BY <1>1, <1>2, <1>4

\* The fields of a state.
LEMMA Fields ==
  ASSUME NEW o \in State
  PROVE  /\ o.at \in Early \cup {"open"} \cup Migrating => o.binary \in Binary
         /\ o.at \in Migrating => o.applied \in Schema /\ o.next \in Nat
         /\ o.at \in {"closed", "open"} \cup Early \cup Migrating
         /\ o.at \in Early \cup {"open"} => o \in [at : Early \cup {"open"}, binary : Binary]
         /\ o.at \in Migrating => o \in [at : Migrating, binary : Binary, applied : Schema, next : Nat]
BY DEF State, Closed, Early, Migrating, Writing

-----------------------------------------------------------------------------
(***************************************************************************)
(* Growth: a database that only gains migrations keeps what is known.      *)
(***************************************************************************)
Grows(d, e) == \A v \in Version : d.ledger[v] # Missing => e.ledger[v] = d.ledger[v]

LEMMA KnowledgeKept ==
  ASSUME NEW o \in State, NEW d, NEW e, Knows(o, d), Grows(d, e)
  PROVE  Knows(o, e)
<1>1. CASE o.at = "open"
  <2>1. o.binary \in Binary
    BY <1>1, Fields
  <2>2. \A v \in DOMAIN o.binary : v \in Version /\ o.binary[v] # Missing
    BY <2>1, VersionsOfBinaries
  <2> QED
    BY <1>1, <2>2 DEF Knows, Grows, Migrating, Writing
<1>2. CASE o.at \in Migrating
  <2>1. o.binary \in Binary /\ o.next \in Nat
    BY <1>2, Fields
  <2>2. \A v \in 1..(o.next - 1) : v \in 1..Len(o.binary)
    BY <1>2, <2>1, VersionsOfBinaries DEF Knows
  <2>3. \A v \in 1..(o.next - 1) : v \in Version /\ o.binary[v] # Missing
    BY <2>1, <2>2, VersionsOfBinaries
  <2> QED
    BY <1>2, <2>3 DEF Knows, Grows, Migrating, Writing
<1>3. CASE o.at \notin Migrating \cup {"open"}
  BY <1>3 DEF Knows, Migrating, Writing
<1> QED
  BY <1>1, <1>2, <1>3

-----------------------------------------------------------------------------
(***************************************************************************)
(* The two kinds of a step.                                                *)
(***************************************************************************)

\* A process goes on that does not hold the transaction and does not take it.
LEMMA Reads ==
  ASSUME OpeningInv, NEW q \in Opener, NEW o \in State,
         opening' = [opening EXCEPT ![q] = o],
         database' = database, transaction' = transaction,
         opening[q].at \notin Writing, o.at \notin Writing, Knows(o, database)
  PROVE  OpeningInv'
<1>1. opening \in [Opener -> State] /\ opening' \in [Opener -> State]
  BY DEF OpeningInv, OpeningTypes
<1>2. OpeningTypes' /\ Standing(database')
  BY <1>1 DEF OpeningInv, OpeningTypes
<1>3. \A p \in Opener : Knows(opening'[p], database')
  BY <1>1 DEF OpeningInv
<1>4. \A p \in Opener : Holds(p, opening'[p], transaction', database')
  <2>1. Holds(q, opening[q], transaction, database)
    BY DEF OpeningInv
  <2>2. Holds(q, o, transaction, database)
    BY <2>1 DEF Holds, Writing
  <2> QED
    BY <1>1, <2>2 DEF OpeningInv
<1> QED
  BY <1>2, <1>3, <1>4 DEF OpeningInv

\* A process takes the transaction, writes in it, or gives it back.
LEMMA Writes ==
  ASSUME OpeningInv, NEW q \in Opener, NEW o \in State,
         opening' = [opening EXCEPT ![q] = o],
         transaction = NoOne \/ transaction.by = q,
         transaction' = NoOne \/ (transaction' \in [by : Opener, database : Database] /\ transaction'.by = q),
         database' \in Database, Standing(database'), Grows(database, database'),
         Knows(o, database'), Holds(q, o, transaction', database')
  PROVE  OpeningInv'
<1>1. opening \in [Opener -> State] /\ opening' \in [Opener -> State]
  BY DEF OpeningInv, OpeningTypes
<1>2. OpeningTypes'
  BY <1>1 DEF OpeningTypes
<1>3. \A p \in Opener : Knows(opening'[p], database')
  <2>1. \A p \in Opener : Knows(opening[p], database')
    BY <1>1, KnowledgeKept DEF OpeningInv
  <2> QED
    BY <1>1, <2>1
<1>4. \A p \in Opener : Holds(p, opening'[p], transaction', database')
  <2>1. ASSUME NEW p \in Opener, p # q PROVE Holds(p, opening'[p], transaction', database')
    <3>1. transaction.by # p /\ transaction'.by # p
      BY <2>1, NobodyIsNoOpener DEF NoOne
    <3>2. opening[p].at \notin Writing
      BY <3>1 DEF OpeningInv, Holds
    <3> QED
      BY <1>1, <2>1, <3>1, <3>2 DEF Holds, Writing
  <2> QED
    BY <1>1, <2>1
<1> QED
  BY <1>2, <1>3, <1>4 DEF OpeningInv

\* A process that holds the transaction stops, and nothing of it stays.
LEMMA RollsBack ==
  ASSUME OpeningInv, NEW q \in Opener, transaction.by = q,
         transaction' = NoOne, Fails(q), UNCHANGED database
  PROVE  OpeningInv'
<1>1. Closed \in State /\ opening' = [opening EXCEPT ![q] = Closed]
  BY DEF State, Fails, OpeningGoes
<1>2. Knows(Closed, database') /\ Holds(q, Closed, NoOne, database')
  BY NobodyIsNoOpener DEF Knows, Holds, Closed, NoOne, Migrating, Writing
<1>3. Grows(database, database') /\ Standing(database') /\ database' \in Database
  BY DEF Grows, OpeningInv, OpeningTypes
<1> QED
  BY <1>1, <1>2, <1>3, Writes

\* A process that holds none stops.
LEMMA GivesUp ==
  ASSUME OpeningInv, NEW q \in Opener, opening[q].at \notin Writing,
         transaction' = transaction, Fails(q), UNCHANGED database
  PROVE  OpeningInv'
<1>1. Closed \in State /\ opening' = [opening EXCEPT ![q] = Closed]
  BY DEF State, Fails, OpeningGoes
<1>2. Knows(Closed, database) /\ Closed.at \notin Writing
  BY DEF Knows, Closed, Migrating, Writing
<1> QED
  BY <1>1, <1>2, Reads

-----------------------------------------------------------------------------
(***************************************************************************)
(* Every step keeps the invariant.                                         *)
(***************************************************************************)

LEMMA ResolveKeeps == ASSUME OpeningInv, NEW p \in Opener, ResolveDataDir(p) PROVE OpeningInv'
<1>1. PICK binary \in Binary : OpeningGoes(p, [at |-> "resolved", binary |-> binary])
  BY DEF ResolveDataDir
<1> DEFINE o == [at |-> "resolved", binary |-> binary]
<1>2. o \in State /\ o.at \notin Writing /\ Knows(o, database)
  BY DEF State, Early, Writing, Migrating, Knows
<1>3. opening[p].at \notin Writing /\ UNCHANGED <<database, transaction>>
  BY DEF ResolveDataDir, OpeningAt, Writing
<1> QED
  BY <1>1, <1>2, <1>3, Reads DEF OpeningGoes

\* PrepareDataDir and VerifyPragmas.
LEMMA EarlyKeeps ==
  ASSUME OpeningInv, NEW p \in Opener, PrepareDataDir(p) \/ VerifyPragmas(p)
  PROVE  OpeningInv'
<1>1. opening[p] \in State /\ opening[p].at \in {"resolved", "prepared"}
  BY DEF OpeningInv, OpeningTypes, PrepareDataDir, VerifyPragmas, OpeningAt
<1>2. opening[p].at \notin Writing /\ UNCHANGED <<database, transaction>>
  BY <1>1 DEF PrepareDataDir, VerifyPragmas, Writing
<1>3. CASE Fails(p)
  BY <1>2, <1>3, GivesUp
<1>4. ASSUME NEW step \in {"prepared", "connected"}, OpeningGoes(p, [opening[p] EXCEPT !.at = step])
      PROVE  OpeningInv'
  <2> DEFINE o == [opening[p] EXCEPT !.at = step]
  <2>1. opening[p] \in [at : Early \cup {"open"}, binary : Binary]
    BY <1>1, Fields DEF Early
  <2>2. o \in [at : Early \cup {"open"}, binary : Binary] /\ o.at = step
    BY <2>1 DEF Early
  <2>3. o \in State /\ o.at \notin Writing /\ Knows(o, database)
    BY <2>2 DEF State, Writing, Migrating, Knows, Early
  <2> HIDE DEF o
  <2>4. opening' = [opening EXCEPT ![p] = o]
    BY <1>4 DEF OpeningGoes, o
  <2> QED
    BY <1>2, <2>3, <2>4, Reads
<1> QED
  BY <1>3, <1>4 DEF PrepareDataDir, VerifyPragmas

LEMMA LoadKeeps == ASSUME OpeningInv, NEW p \in Opener, LoadAppliedMigrations(p) PROVE OpeningInv'
<1>1. opening[p] \in State /\ opening[p].at = "connected"
  BY DEF OpeningInv, OpeningTypes, LoadAppliedMigrations, OpeningAt
<1>2. opening[p].at \notin Writing /\ UNCHANGED <<database, transaction>>
  BY <1>1 DEF LoadAppliedMigrations, Writing
<1>3. CASE Fails(p)
  BY <1>2, <1>3, GivesUp
<1> DEFINE o == [at |-> "migrating", binary |-> opening[p].binary, applied |-> database.ledger, next |-> 1]
<1>4. CASE OpeningGoes(p, o)
  <2>1. opening[p].binary \in Binary /\ database.ledger \in Schema
    BY <1>1, Fields DEF Early, OpeningInv, OpeningTypes, Database
  <2>2. o \in State /\ o.at \notin Writing
    BY <2>1 DEF State, Migrating, Writing
  <2>3. Knows(o, database)
    BY <2>1, LengthsAreNumbers DEF Knows, Migrating, Writing
  <2> QED
    BY <1>2, <1>4, <2>2, <2>3, Reads DEF OpeningGoes
<1> QED
  BY <1>3, <1>4 DEF LoadAppliedMigrations

\* What a process in the loop knows.
LEMMA InTheLoop ==
  ASSUME OpeningInv, NEW p \in Opener, opening[p].at \in Migrating
  PROVE  /\ opening[p] \in [at : Migrating, binary : Binary, applied : Schema, next : Nat]
         /\ opening[p].binary \in Binary
         /\ opening[p].next \in 1..(Len(opening[p].binary) + 1)
         /\ Len(opening[p].binary) \in Nat
         /\ Knows(opening[p], database)
         /\ opening[p].next <= Len(opening[p].binary) =>
              /\ opening[p].next \in 1..Len(opening[p].binary)
              /\ opening[p].next \in Version
              /\ Item(p) \in Content /\ Item(p) # Missing
<1>1. opening[p] \in State
  BY DEF OpeningInv, OpeningTypes
<1>2. opening[p].binary \in Binary /\ opening[p] \in [at : Migrating, binary : Binary, applied : Schema, next : Nat]
  BY <1>1, Fields
<1>3. Knows(opening[p], database)
  BY DEF OpeningInv
<1> QED
  BY <1>2, <1>3, VersionsOfBinaries DEF Knows, Item

LEMMA SkipKeeps == ASSUME OpeningInv, NEW p \in Opener, SkipApplied(p) PROVE OpeningInv'
<1>1. opening[p].at = "migrating" /\ UNCHANGED <<database, transaction>>
  BY DEF SkipApplied, OpeningAt
<1>2. opening[p].at \in Migrating /\ opening[p].at \notin Writing
  BY <1>1 DEF Migrating, Writing
<1>3. CASE Fails(p)
  BY <1>1, <1>2, <1>3, GivesUp
<1> DEFINE o == [opening[p] EXCEPT !.next = @ + 1]
<1> DEFINE n == opening[p].next
<1>4. CASE opening[p].applied[n] = Item(p) /\ OpeningGoes(p, o)
  <2>1. /\ opening[p] \in [at : Migrating, binary : Binary, applied : Schema, next : Nat]
        /\ n \in 1..Len(opening[p].binary) /\ n \in Version /\ Item(p) # Missing
        /\ Knows(opening[p], database)
        /\ Len(opening[p].binary) \in Nat
    BY <1>2, InTheLoop DEF SkipApplied
  <2>2. /\ o.at = "migrating" /\ o.binary = opening[p].binary
        /\ o.applied = opening[p].applied /\ o.next = n + 1
        /\ o \in [at : Migrating, binary : Binary, applied : Schema, next : Nat]
    BY <1>1, <2>1
  <2>3. database.ledger[n] = opening[p].binary[n]
    BY <1>2, <1>4, <2>1 DEF Knows, Item
  <2>4. \A v \in 1..(o.next - 1) : database.ledger[v] = o.binary[v]
    <3>1. ASSUME NEW v \in 1..(o.next - 1) PROVE v = n \/ v \in 1..(n - 1)
      BY <2>1, <2>2, <3>1
    <3> QED
      BY <1>2, <2>1, <2>2, <2>3, <3>1 DEF Knows
  <2>5. o.next \in 1..(Len(o.binary) + 1)
    BY <2>1, <2>2
  <2>6. \A v \in Version : o.applied[v] # Missing => database.ledger[v] = o.applied[v]
    BY <1>2, <2>1, <2>2 DEF Knows
  <2> HIDE DEF o, n
  <2>7. Knows(o, database) /\ o \in State /\ o.at \notin Writing
    BY <2>2, <2>4, <2>5, <2>6 DEF Knows, Writing, State
  <2>8. opening' = [opening EXCEPT ![p] = o]
    BY <1>4 DEF OpeningGoes, o
  <2> QED
    BY <1>1, <1>2, <2>7, <2>8, Reads
<1> QED
  BY <1>3, <1>4 DEF SkipApplied

\* A writing process differs from its last state in where it is only.
LEMMA NextStatement ==
  ASSUME OpeningInv, NEW p \in Opener, opening[p].at \in Migrating, NEW step \in Migrating,
         opening[p].next <= Len(opening[p].binary)
  PROVE  LET o == [opening[p] EXCEPT !.at = step]
         IN  /\ o \in State /\ o.at = step /\ o.next = opening[p].next /\ o.binary = opening[p].binary
             /\ \A d : Knows(opening[p], d) => Knows(o, d)
<1> DEFINE o == [opening[p] EXCEPT !.at = step]
<1>1. /\ opening[p] \in [at : Migrating, binary : Binary, applied : Schema, next : Nat]
      /\ opening[p].next \in Nat
  BY InTheLoop
<1>2. /\ o \in [at : Migrating, binary : Binary, applied : Schema, next : Nat]
      /\ o.at = step /\ o.next = opening[p].next /\ o.binary = opening[p].binary
      /\ o.applied = opening[p].applied
  BY <1>1
<1> HIDE DEF o
<1>3. ASSUME NEW d, Knows(opening[p], d) PROVE Knows(o, d)
  <2>1. o.at # "open"
    BY <1>2 DEF Migrating, Writing
  <2> QED
    BY <1>2, <1>3, <2>1 DEF Knows
<1>4. o \in State
  BY <1>2 DEF State
<1> QED
  BY <1>2, <1>3, <1>4 DEF o

LEMMA BeginKeeps == ASSUME OpeningInv, NEW p \in Opener, BeginMigration(p) PROVE OpeningInv'
<1>1. opening[p].at = "migrating" /\ UNCHANGED database
  BY DEF BeginMigration, OpeningAt
<1>2. opening[p].at \in Migrating /\ opening[p].at \notin Writing
  BY <1>1 DEF Migrating, Writing
<1>3. CASE Fails(p) /\ UNCHANGED transaction
  BY <1>1, <1>2, <1>3, GivesUp
<1> DEFINE o == [opening[p] EXCEPT !.at = "executing"]
<1>4. CASE transaction = NoOne /\ transaction' = [by |-> p, database |-> database] /\ OpeningGoes(p, o)
  <2>1. opening[p].next <= Len(opening[p].binary)
    BY DEF BeginMigration
  <2>2. Knows(opening[p], database) /\ database \in Database
    BY DEF OpeningInv, OpeningTypes
  <2>3. o \in State /\ o.at = "executing" /\ Knows(o, database)
    BY <1>2, <2>1, <2>2, NextStatement DEF Migrating, Writing
  <2> HIDE DEF o
  <2>4. Holds(p, o, transaction', database')
    BY <1>1, <1>4, <2>3 DEF Holds, Writing
  <2>5. Grows(database, database') /\ Standing(database')
    BY <1>1 DEF Grows, OpeningInv
  <2>6. opening' = [opening EXCEPT ![p] = o]
    BY <1>4 DEF OpeningGoes, o
  <2> QED
    BY <1>1, <1>4, <2>2, <2>3, <2>4, <2>5, <2>6, Writes
<1> QED
  BY <1>3, <1>4 DEF BeginMigration

LEMMA ExecuteKeeps == ASSUME OpeningInv, NEW p \in Opener, ExecuteMigration(p) PROVE OpeningInv'
<1>1. opening[p].at = "executing" /\ opening[p].at \in Writing /\ opening[p].at \in Migrating
  BY DEF ExecuteMigration, OpeningAt, Writing, Migrating
<1>2. transaction.by = p /\ transaction.database = database
  BY <1>1 DEF OpeningInv, Holds
<1>3. CASE RollBack(p)
  BY <1>2, <1>3, RollsBack DEF RollBack
<1> DEFINE n == opening[p].next
<1> DEFINE o == [opening[p] EXCEPT !.at = "recording"]
<1> DEFINE d == [database EXCEPT !.tables = [database.tables EXCEPT ![n] = Item(p)]]
<1>4. CASE database.tables[n] = Missing /\ transaction' = [by |-> p, database |-> d] /\ UNCHANGED database
           /\ OpeningGoes(p, o)
  <2>1. n <= Len(opening[p].binary) /\ Knows(opening[p], database)
    BY <1>1 DEF OpeningInv, Knows
  <2>2. n \in Version /\ Item(p) \in Content
    BY <1>1, <2>1, InTheLoop
  <2>3. database \in Database /\ Standing(database)
    BY DEF OpeningInv, OpeningTypes
  <2>4. d \in Database
    BY <2>2, <2>3 DEF Database, Schema
  <2>5. o \in State /\ o.at = "recording" /\ o.next = n /\ o.binary = opening[p].binary /\ Knows(o, database)
    BY <1>1, <2>1, NextStatement DEF Migrating, Writing
  <2>6. d = [database EXCEPT !.tables = [database.tables EXCEPT ![o.next] = o.binary[o.next]]]
    BY <2>5 DEF Item
  <2> HIDE DEF o, d
  <2>7. Holds(p, o, transaction', database')
    <3>1. database.ledger[n] = Missing
      BY <1>4, <2>3 DEF Standing
    <3> QED
      BY <1>4, <2>5, <2>6, <3>1 DEF Holds, Writing
  <2>8. Grows(database, database')
    BY <1>4 DEF Grows
  <2>9. opening' = [opening EXCEPT ![p] = o]
    BY <1>4 DEF OpeningGoes, o
  <2>10. transaction' \in [by : Opener, database : Database] /\ transaction'.by = p
    BY <1>4, <2>4
  <2>11. database' \in Database /\ Standing(database') /\ Knows(o, database')
    BY <1>4, <2>3, <2>5
  <2> QED
    BY <1>2, <2>5, <2>7, <2>8, <2>9, <2>10, <2>11, Writes
<1> QED
  BY <1>2, <1>3, <1>4 DEF ExecuteMigration, Uncommitted

LEMMA RecordKeeps == ASSUME OpeningInv, NEW p \in Opener, RecordMigration(p) PROVE OpeningInv'
<1>1. opening[p].at = "recording" /\ opening[p].at \in Writing /\ opening[p].at \in Migrating
  BY DEF RecordMigration, OpeningAt, Writing, Migrating
<1> DEFINE n == opening[p].next
<1>2. /\ transaction.by = p /\ database.ledger[n] = Missing
      /\ transaction.database = [database EXCEPT !.tables = [database.tables EXCEPT ![n] = Item(p)]]
  BY <1>1 DEF OpeningInv, Holds, Item
<1>3. CASE RollBack(p)
  BY <1>2, <1>3, RollsBack DEF RollBack
<1> DEFINE o == [opening[p] EXCEPT !.at = "committing"]
<1> DEFINE d == [transaction.database EXCEPT !.ledger = [transaction.database.ledger EXCEPT ![n] = Item(p)]]
<1>4. CASE transaction' = [by |-> p, database |-> d] /\ UNCHANGED database /\ OpeningGoes(p, o)
  <2>1. n <= Len(opening[p].binary) /\ Knows(opening[p], database)
    BY <1>1 DEF OpeningInv, Knows
  <2>2. n \in Version /\ Item(p) \in Content
    BY <1>1, <2>1, InTheLoop
  <2>3. database \in Database /\ Standing(database)
    BY DEF OpeningInv, OpeningTypes
  <2>4. d = [ledger |-> [database.ledger EXCEPT ![n] = Item(p)], tables |-> [database.tables EXCEPT ![n] = Item(p)]]
    <3> DEFINE tables == [database.tables EXCEPT ![n] = Item(p)]
    <3>1. /\ transaction.database.ledger = database.ledger
          /\ transaction.database = [ledger |-> database.ledger, tables |-> tables]
      BY <1>2, <2>3 DEF Database
    <3> HIDE DEF tables
    <3>2. d = [ledger |-> [database.ledger EXCEPT ![n] = Item(p)], tables |-> tables]
      BY <3>1
    <3> QED
      BY <3>2 DEF tables
  <2>5. d \in Database
    BY <2>2, <2>3, <2>4 DEF Database, Schema
  <2>6. o \in State /\ o.at = "committing" /\ o.next = n /\ o.binary = opening[p].binary /\ Knows(o, database)
    BY <1>1, <2>1, NextStatement DEF Migrating, Writing
  <2>7. d = [ledger |-> [database.ledger EXCEPT ![o.next] = o.binary[o.next]],
             tables |-> [database.tables EXCEPT ![o.next] = o.binary[o.next]]]
    BY <2>4, <2>6 DEF Item
  <2> HIDE DEF o, d
  <2>8. Holds(p, o, transaction', database')
    BY <1>2, <1>4, <2>6, <2>7 DEF Holds, Writing
  <2>9. Grows(database, database')
    BY <1>4 DEF Grows
  <2>10. opening' = [opening EXCEPT ![p] = o]
    BY <1>4 DEF OpeningGoes, o
  <2>11. transaction' \in [by : Opener, database : Database] /\ transaction'.by = p
    BY <1>4, <2>5
  <2>12. database' \in Database /\ Standing(database') /\ Knows(o, database')
    BY <1>4, <2>3, <2>6
  <2> QED
    BY <1>2, <2>6, <2>8, <2>9, <2>10, <2>11, <2>12, Writes
<1> QED
  BY <1>3, <1>4 DEF RecordMigration, Uncommitted

LEMMA CommitKeeps == ASSUME OpeningInv, NEW p \in Opener, CommitMigration(p) PROVE OpeningInv'
<1>1. opening[p].at = "committing" /\ opening[p].at \in Writing /\ opening[p].at \in Migrating
  BY DEF CommitMigration, OpeningAt, Writing, Migrating
<1> DEFINE b == opening[p].binary
<1> DEFINE n == opening[p].next
<1> DEFINE ledger == [database.ledger EXCEPT ![n] = b[n]]
<1> DEFINE o == [opening[p] EXCEPT !.at = "migrating", !.next = n + 1]
<1>2. /\ transaction.by = p /\ database.ledger[n] = Missing
      /\ database' = [ledger |-> ledger, tables |-> [database.tables EXCEPT ![n] = b[n]]]
  BY <1>1 DEF OpeningInv, Holds, CommitMigration
<1>3. /\ opening[p] \in [at : Migrating, binary : Binary, applied : Schema, next : Nat]
      /\ n \in 1..Len(b) /\ n \in Version /\ b[n] \in Content /\ b[n] # Missing
      /\ Len(b) \in Nat /\ Knows(opening[p], database)
  <2>1. n <= Len(b)
    BY <1>1 DEF OpeningInv, Knows
  <2> QED
    BY <1>1, <2>1, InTheLoop DEF Item
<1>4. database \in Database /\ Standing(database)
  BY DEF OpeningInv, OpeningTypes
<1>5. opening' = [opening EXCEPT ![p] = o] /\ transaction' = NoOne
  BY DEF CommitMigration, OpeningGoes
<1>6. \A v \in Version : ledger[v] = IF v = n THEN b[n] ELSE database.ledger[v]
  BY <1>3, <1>4 DEF Database, Schema
<1>7. database' \in Database /\ database'.ledger = ledger /\ database'.tables = ledger
  <2>1. ledger \in Schema /\ database.tables = database.ledger
    BY <1>3, <1>4 DEF Database, Schema, Standing
  <2> QED
    BY <1>2, <2>1 DEF Database
<1>8. /\ o.at = "migrating" /\ o.binary = b /\ o.applied = opening[p].applied /\ o.next = n + 1
      /\ o \in [at : Migrating, binary : Binary, applied : Schema, next : Nat]
  <2>1. n + 1 \in Nat
    BY <1>3
  <2>2. "migrating" \in Migrating
    BY DEF Migrating
  <2> QED
    BY <1>3, <2>1, <2>2
<1> HIDE DEF ledger, o
<1>9. Grows(database, database')
  BY <1>2, <1>6, <1>7 DEF Grows
\* The version before it was there, and it is no gap itself.
<1>10. Standing(database')
  <2>1. ASSUME NEW v \in Version, v > 1, ledger[v] # Missing PROVE ledger[v - 1] # Missing
    <3>1. v - 1 \in Version
      BY <2>1, LastVersion
    <3>2. CASE v - 1 = n
      BY <1>3, <1>6, <3>1, <3>2
    <3>3. CASE v = n /\ v - 1 # n
      <4>1. v - 1 \in 1..(n - 1) /\ v - 1 \in 1..Len(b)
        BY <1>3, <2>1, <3>3
      <4>2. database.ledger[v - 1] = b[v - 1]
        BY <1>1, <1>3, <4>1 DEF Knows
      <4>3. b[v - 1] # Missing
        BY <1>3, <4>1, VersionsOfBinaries
      <4> QED
        BY <1>6, <3>1, <3>3, <4>2, <4>3
    <3>4. CASE v # n /\ v - 1 # n
      BY <1>4, <1>6, <2>1, <3>1, <3>4 DEF Standing
    <3> QED
      BY <3>2, <3>3, <3>4
  <2> QED
    BY <1>7, <2>1 DEF Standing
<1>11. Knows(o, database')
  <2>1. Knows(opening[p], database')
    BY <1>9, KnowledgeKept DEF OpeningInv, OpeningTypes
  <2>2. database'.ledger[n] = b[n]
    BY <1>3, <1>6, <1>7
  <2>3. \A v \in 1..(o.next - 1) : database'.ledger[v] = b[v]
    <3>1. ASSUME NEW v \in 1..(o.next - 1) PROVE v = n \/ v \in 1..(n - 1)
      BY <1>3, <1>8
    <3> QED
      BY <1>1, <2>1, <2>2, <3>1 DEF Knows
  <2>4. o.next \in 1..(Len(o.binary) + 1)
    BY <1>3, <1>8
  <2>5. \A v \in Version : o.applied[v] # Missing => database'.ledger[v] = o.applied[v]
    BY <1>1, <1>8, <2>1 DEF Knows
  <2> QED
    BY <1>8, <2>3, <2>4, <2>5 DEF Knows, Writing
<1>12. Holds(p, o, transaction', database')
  BY <1>5, <1>8, NobodyIsNoOpener DEF Holds, NoOne, Writing
<1>13. o \in State
  BY <1>8 DEF State
<1> QED
  BY <1>2, <1>5, <1>7, <1>9, <1>10, <1>11, <1>12, <1>13, Writes

\* A process that has passed every version of its binary has opened the store.
LEMMA FinishKeeps == ASSUME OpeningInv, NEW p \in Opener, FinishOpening(p) PROVE OpeningInv'
<1>1. opening[p].at = "migrating" /\ UNCHANGED <<database, transaction>>
  BY DEF FinishOpening, OpeningAt
<1>2. opening[p].at \in Migrating /\ opening[p].at \notin Writing
  BY <1>1 DEF Migrating, Writing
<1>3. CASE Fails(p)
  BY <1>1, <1>2, <1>3, GivesUp
<1> DEFINE b == opening[p].binary
<1> DEFINE o == [at |-> "open", binary |-> b]
<1>4. CASE OpeningGoes(p, o)
  <2>1. /\ b \in Binary /\ Len(b) \in Nat /\ DOMAIN b = 1..Len(b)
        /\ opening[p].next \in 1..(Len(b) + 1) /\ Knows(opening[p], database)
    BY <1>2, InTheLoop, VersionsOfBinaries
  <2>2. \A v \in 1..Len(b) : v \in 1..(opening[p].next - 1)
    BY <2>1 DEF FinishOpening
  <2>3. \A v \in DOMAIN b : database.ledger[v] = b[v]
    BY <1>2, <2>1, <2>2 DEF Knows
  <2>4. Knows(o, database) /\ o \in State /\ o.at \notin Writing
    BY <2>1, <2>3 DEF Knows, State, Migrating, Writing
  <2> QED
    BY <1>1, <1>2, <1>4, <2>4, Reads DEF OpeningGoes
<1> QED
  BY <1>3, <1>4 DEF FinishOpening

LEMMA CloseKeeps == ASSUME OpeningInv, NEW p \in Opener, CloseStore(p) PROVE OpeningInv'
<1>1. CASE transaction.by = p
  BY <1>1, RollsBack DEF CloseStore
<1>2. CASE transaction.by # p
  <2>1. opening[p].at \notin Writing
    BY <1>2 DEF OpeningInv, Holds
  <2> QED
    BY <1>2, <2>1, GivesUp DEF CloseStore
<1> QED
  BY <1>1, <1>2

LEMMA FirstDatabase == OpeningInit => OpeningInv
<1> SUFFICES ASSUME OpeningInit PROVE OpeningInv
  OBVIOUS
<1>1. OpeningTypes /\ Standing(database)
  <2>1. [v \in Version |-> Missing] \in Schema
    BY DEF Schema, Content
  <2>2. Standing(database)
    BY LastVersion DEF OpeningInit, Standing
  <2> QED
    BY <2>1, <2>2 DEF OpeningInit, OpeningTypes, Database, State
<1>2. \A p \in Opener : Knows(opening[p], database) /\ Holds(p, opening[p], transaction, database)
  BY NobodyIsNoOpener DEF OpeningInit, Knows, Holds, Closed, NoOne, Migrating, Writing
<1> QED
  BY <1>1, <1>2 DEF OpeningInv

LEMMA StepKeeps == OpeningInv /\ [OpeningNext]_openingVars => OpeningInv'
<1> SUFFICES ASSUME OpeningInv, [OpeningNext]_openingVars PROVE OpeningInv'
  OBVIOUS
<1>1. CASE UNCHANGED <<database, transaction, opening>>
  BY <1>1 DEF OpeningInv, OpeningTypes
<1>2. ASSUME NEW p \in Opener, OpenerStep(p) PROVE OpeningInv'
  BY <1>2, ResolveKeeps, EarlyKeeps, LoadKeeps, SkipKeeps, BeginKeeps, ExecuteKeeps, RecordKeeps,
     CommitKeeps, FinishKeeps, CloseKeeps DEF OpenerStep
<1> QED
  BY <1>1, <1>2 DEF OpeningNext, Occupy, openingVars

\* Whatever processes open the store, at the same time and with whatever
\* binaries, and wherever they die: the schema is the ledger's, has no gap, and is
\* that of every process that has opened it, as far as its binary goes.
THEOREM SchemaStands == OpeningSpec => []MigrationsStand
<1>1. OpeningInv => MigrationsStand
  BY DEF OpeningInv, Standing, Knows, MigrationsStand, OpeningAt
<1> QED
  BY <1>1, FirstDatabase, StepKeeps, PTL DEF OpeningSpec

-----------------------------------------------------------------------------
(***************************************************************************)
(* Reflection: what is applied was reviewed, and a success on record is     *)
(* one, for any commands, proposals and memories.                           *)
(***************************************************************************)

Reviewed == {"approved", "rejected"}

IsProposal(p) ==
  /\ {"kind", "about", "status", "complete"} \subseteq DOMAIN p
  /\ p.complete \in BOOLEAN
  /\ p.complete => p.about \in Memory

ReflectionShapes ==
  /\ proposals \in Seq(Rows(proposals)) /\ Len(proposals) <= MaxProposals
  /\ \A i \in DOMAIN proposals : IsProposal(proposals[i])
  /\ applies \in [1..MaxProposals -> [result : {"none", "success", "failed"}, by : SUBSET Command]]
  /\ DOMAIN memories = Memory
  /\ \A m \in Memory : {"authority", "status"} \subseteq DOMAIN memories[m]
  /\ effected \subseteq DOMAIN proposals
  /\ DOMAIN command = Command

\* The change of a complete proposal was made, or its memory is gone.
Earned(i) == proposals[i].complete /\ (i \in effected \/ memories[proposals[i].about].status = "absent")

\* Only what was reviewed is applied, and a success is one before it is recorded.
SoundCommand(k) ==
  /\ "at" \in DOMAIN k
  /\ k.at = "propose" => "left" \in DOMAIN k /\ \A p \in k.left : IsProposal(p)
  /\ k.at \in {"guard", "execute", "upgrade", "record"} =>
       "of" \in DOMAIN k /\ k.of \in DOMAIN proposals /\ proposals[k.of].status \in Reviewed
  /\ k.at = "upgrade" => proposals[k.of].complete
  /\ k.at = "record" => k.result \in {"success", "failed"} /\ (k.result = "success" => Earned(k.of))

RecordsAreSound ==
  /\ \A i \in 1..MaxProposals : applies[i].result # "none" => i \in DOMAIN proposals
  /\ \A i \in DOMAIN proposals :
       /\ i \in effected => proposals[i].status \in Reviewed
       /\ applies[i].result = "success" => Earned(i)

ReflectionInv == ReflectionShapes /\ RecordsAreSound /\ \A c \in Command : SoundCommand(command[c])

\* A proposal stays what it is about and reviewed, a change stays made and a
\* memory that is gone stays gone.
Stays ==
  /\ \A i \in DOMAIN proposals :
       /\ i \in DOMAIN proposals'
       /\ proposals'[i].about = proposals[i].about /\ proposals'[i].complete = proposals[i].complete
       /\ proposals[i].status \in Reviewed => proposals'[i].status \in Reviewed
  /\ effected \subseteq effected'
  /\ \A m \in Memory : memories[m].status = "absent" => memories'[m].status = "absent"

LEMMA StaysSound ==
  ASSUME ReflectionShapes, Stays
  PROVE  /\ \A i \in DOMAIN proposals : Earned(i) => Earned(i)'
         /\ \A k : SoundCommand(k) => SoundCommand(k)'
<1>1. \A i \in DOMAIN proposals : Earned(i) => Earned(i)'
  BY DEF Earned, Stays, ReflectionShapes, IsProposal
<1>2. ASSUME NEW k, SoundCommand(k) PROVE SoundCommand(k)'
  BY <1>1, <1>2 DEF SoundCommand, Stays
<1> QED
  BY <1>1, <1>2

\* One command moves, to what is sound in the new state.
LEMMA CommandMoves ==
  ASSUME ReflectionInv, Stays, NEW c \in Command, NEW k, Proceeds(c, k),
         \A l : l = k => SoundCommand(l)'
  PROVE  DOMAIN command' = Command /\ \A d \in Command : SoundCommand(command[d])'
<1>1. command' = [command EXCEPT ![c] = k] /\ DOMAIN command = Command
  BY DEF Proceeds, ReflectionInv, ReflectionShapes
<1>2. \A l : SoundCommand(l) => SoundCommand(l)'
  BY StaysSound DEF ReflectionInv
<1>3. ASSUME NEW d \in Command PROVE \A l : l = command'[d] => SoundCommand(l)'
  BY <1>1, <1>2 DEF ReflectionInv
<1> QED
  BY <1>1, <1>3

\* Nothing that is stored changes.
LEMMA StoredStays ==
  ASSUME ReflectionInv, UNCHANGED <<proposals, applies, memories, effected>>,
         DOMAIN command' = Command, \A d \in Command : SoundCommand(command[d])'
  PROVE  ReflectionInv'
BY DEF ReflectionInv, ReflectionShapes, RecordsAreSound, Earned, IsProposal, Rows

LEMMA SameStays ==
  ASSUME UNCHANGED <<proposals, memories, effected>>
  PROVE  Stays
BY DEF Stays

\* A command goes on, and writes nothing.
LEMMA ReadKeeps ==
  ASSUME ReflectionInv, UNCHANGED <<proposals, applies, memories, effected>>, NEW c \in Command, NEW k,
         Proceeds(c, k), SoundCommand(k)
  PROVE  ReflectionInv'
<1>1. Stays
  BY SameStays
<1>2. \A l : l = k => SoundCommand(l)'
  BY <1>1, StaysSound DEF ReflectionInv
<1> QED
  BY <1>1, <1>2, CommandMoves, StoredStays

LEMMA DoneIsSound == SoundCommand(Done) /\ (SoundCommand(Done))'
BY DEF SoundCommand, Done

\* What the detectors find is in the form of a proposal.
LEMMA DetectedAreProposals ==
  ASSUME NEW scan, NEW found, NEW p \in Detected(scan, found)
  PROVE  IsProposal(p)
<1>1. \A kind, about : IsProposal(Proposed(kind, about))
  BY DEF IsProposal, Proposed
<1>2. p \in DetectRepeatedCorrection(scan) => IsProposal(p)
  <2> HIDE DEF Proposed, IsProposal
  <2> QED
    BY <1>1 DEF DetectRepeatedCorrection
<1>3. p \in DetectRepeatedToolPreference(scan) => IsProposal(p)
  BY <1>1 DEF DetectRepeatedToolPreference
<1>4. p \in DetectForgottenTest(scan) => IsProposal(p)
  BY <1>1 DEF DetectForgottenTest
<1>5. p \in DetectCrossSessionPattern(found) => IsProposal(p)
  BY <1>1 DEF DetectCrossSessionPattern
<1>6. p \in DetectObsoleteClaim(found) => IsProposal(p)
  BY <1>1 DEF DetectObsoleteClaim
<1> QED
  BY <1>2, <1>3, <1>4, <1>5, <1>6 DEF Detected

\* Begin, ScanSession, ExtractSession, Reflected: nothing is written.
LEMMA ReflectKeeps ==
  ASSUME ReflectionInv, NEW c \in Command, BeginReflect(c) \/ ScanSession(c) \/ ExtractSession(c) \/ Reflected(c)
  PROVE  ReflectionInv'
<1>1. UNCHANGED <<proposals, applies, memories, effected>>
  BY DEF BeginReflect, ScanSession, ExtractSession, Reflected
<1>2. SoundCommand(command[c])
  BY DEF ReflectionInv
<1>3. CASE BeginReflect(c)
  <2> DEFINE k == [at |-> "scan", left |-> {s \in Session : logs[s] # <<>>}, scan |-> Empty, found |-> Empty]
  <2>1. SoundCommand(k)
    BY DEF SoundCommand
  <2>2. Proceeds(c, k)
    BY <1>3 DEF BeginReflect, Begin
  <2> HIDE DEF k
  <2> QED
    BY <1>1, <2>1, <2>2, ReadKeeps
<1>4. CASE ScanSession(c)
  <2>1. PICK s \in command[c].left :
          Proceeds(c, [command[c] EXCEPT !.left = @ \ {s}, !.scan = With(@, s, logs[s])])
    BY <1>4 DEF ScanSession
  <2> DEFINE k == [command[c] EXCEPT !.left = @ \ {s}, !.scan = With(@, s, logs[s])]
  <2>2. command[c].at = "scan"
    BY <1>4 DEF ScanSession, CommandAt
  <2>3. k.at = "scan" /\ "at" \in DOMAIN k
    BY <1>2, <2>2 DEF SoundCommand
  <2>4. Proceeds(c, k)
    BY <2>1
  <2> HIDE DEF k
  <2>5. SoundCommand(k)
    BY <2>3 DEF SoundCommand
  <2> QED
    BY <1>1, <2>4, <2>5, ReadKeeps
<1>5. CASE ExtractSession(c)
  <2>1. PICK s \in DOMAIN command[c].scan \ DOMAIN command[c].found :
          Proceeds(c, [command[c] EXCEPT !.found = With(@, s, Extract(logs[s]))])
    BY <1>5 DEF ExtractSession
  <2> DEFINE k == [command[c] EXCEPT !.found = With(@, s, Extract(logs[s]))]
  <2>2. command[c].at = "scan"
    BY <1>5 DEF ExtractSession, CommandAt
  <2>3. k.at = "scan" /\ "at" \in DOMAIN k
    BY <1>2, <2>2 DEF SoundCommand
  <2>4. Proceeds(c, k)
    BY <2>1
  <2> HIDE DEF k
  <2>5. SoundCommand(k)
    BY <2>3 DEF SoundCommand
  <2> QED
    BY <1>1, <2>4, <2>5, ReadKeeps
<1>6. CASE Reflected(c)
  <2> DEFINE k == [at |-> "propose", left |-> Detected(command[c].scan, command[c].found)]
  <2>1. SoundCommand(k)
    BY DetectedAreProposals DEF SoundCommand
  <2>2. Proceeds(c, k)
    BY <1>6 DEF Reflected
  <2> HIDE DEF k
  <2> QED
    BY <1>1, <2>1, <2>2, ReadKeeps
<1> QED
  BY <1>3, <1>4, <1>5, <1>6

LEMMA ProposeKeeps ==
  ASSUME ReflectionInv, NEW c \in Command, Propose(c)
  PROVE  ReflectionInv'
<1>1. UNCHANGED <<applies, memories, effected>> /\ SoundCommand(command[c]) /\ command[c].at = "propose"
  BY DEF Propose, ReflectionInv, CommandAt
<1>2. CASE Proceeds(c, Done) /\ UNCHANGED proposals
  BY <1>1, <1>2, DoneIsSound, ReadKeeps
<1>3. ASSUME NEW p \in command[c].left, Len(proposals) < MaxProposals, proposals' = Append(proposals, p),
             Proceeds(c, [command[c] EXCEPT !.left = @ \ {p}])
      PROVE  ReflectionInv'
  <2> DEFINE all == Rows(proposals) \cup {p}
             k   == [command[c] EXCEPT !.left = @ \ {p}]
  <2>1. IsProposal(p)
    BY <1>1, <1>3 DEF SoundCommand
  <2>2. proposals \in Seq(all)
    <3>1. \A S, T : S \subseteq T => Seq(S) \subseteq Seq(T)
      OBVIOUS
    <3> QED
      BY <3>1 DEF ReflectionInv, ReflectionShapes
  <2>3. /\ proposals' \in Seq(all) /\ Len(proposals') = Len(proposals) + 1
        /\ \A i \in DOMAIN proposals : i \in DOMAIN proposals' /\ proposals'[i] = proposals[i]
        /\ DOMAIN proposals = 1..Len(proposals) /\ DOMAIN proposals' = 1..Len(proposals')
        /\ proposals'[Len(proposals) + 1] = p /\ Len(proposals) \in Nat
    <3> HIDE DEF all
    <3>1. p \in all
      BY DEF all
    <3> QED
      BY <1>3, <2>2, <3>1
  <2>4. \A i \in DOMAIN proposals' : IsProposal(proposals'[i])
    BY <2>1, <2>3 DEF ReflectionInv, ReflectionShapes
  <2>5. proposals' \in Seq(Rows(proposals'))
    BY <2>3 DEF Rows
  <2>6. Stays
    BY <1>1, <2>3 DEF Stays
  <2>7. \A l : l = k => SoundCommand(l)'
    <3>1. k.at = "propose" /\ {"at", "left"} \subseteq DOMAIN k /\ k.left \subseteq command[c].left
      BY <1>1 DEF SoundCommand
    <3> HIDE DEF k
    <3>2. SoundCommand(k)
      BY <1>1, <3>1 DEF SoundCommand
    <3>3. \A l : SoundCommand(l) => SoundCommand(l)'
      BY <2>6, StaysSound DEF ReflectionInv
    <3> QED
      BY <3>2, <3>3
  <2>8. DOMAIN command' = Command /\ \A d \in Command : SoundCommand(command[d])'
    <3>1. Proceeds(c, k)
      BY <1>3
    <3> HIDE DEF k
    <3> QED
      BY <2>6, <2>7, <3>1, CommandMoves
  <2>9. ReflectionShapes'
    BY <1>1, <1>3, <2>3, <2>4, <2>5, <2>8, ReflectionBounds DEF ReflectionInv, ReflectionShapes
  <2>10. RecordsAreSound'
    <3>1. \A i \in 1..MaxProposals : applies'[i].result # "none" => i \in DOMAIN proposals'
      BY <1>1, <2>3 DEF ReflectionInv, RecordsAreSound
    <3>2. ASSUME NEW i \in DOMAIN proposals'
          PROVE  /\ i \in effected' => proposals'[i].status \in Reviewed
                 /\ applies'[i].result = "success" => Earned(i)'
      <4>1. CASE i \in DOMAIN proposals
        BY <1>1, <2>3, <2>6, <4>1, StaysSound DEF ReflectionInv, RecordsAreSound
      <4>2. CASE i \notin DOMAIN proposals
        <5>1. i \in 1..MaxProposals /\ i \notin effected'
          BY <1>1, <1>3, <2>3, <4>2, ReflectionBounds DEF ReflectionInv, ReflectionShapes
        <5> QED
          BY <1>1, <4>2, <5>1 DEF ReflectionInv, RecordsAreSound
      <4> QED
        BY <4>1, <4>2
    <3> QED
      BY <3>1, <3>2 DEF RecordsAreSound
  <2> QED
    BY <2>8, <2>9, <2>10 DEF ReflectionInv
<1> QED
  BY <1>2, <1>3 DEF Propose, Finishes

\* UpdateStatus: whatever was reviewed stays reviewed.
LEMMA ReviewKeeps ==
  ASSUME ReflectionInv, NEW c \in Command, Approve(c) \/ Reject(c)
  PROVE  ReflectionInv'
<1>1. PICK verdict \in Reviewed : Review(c, verdict)
  BY DEF Approve, Reject, Reviewed
<1>2. PICK i \in Queue : proposals' = [proposals EXCEPT ![i].status = verdict]
  BY <1>1 DEF Review
<1>3. UNCHANGED <<applies, memories, effected>> /\ Proceeds(c, Done)
  BY <1>1 DEF Review, Begin
<1>4. i \in DOMAIN proposals /\ proposals \in Seq(Rows(proposals))
  BY DEF Queue, ReflectionInv, ReflectionShapes
<1> DEFINE p == [proposals[i] EXCEPT !.status = verdict]
<1>5. /\ DOMAIN p = DOMAIN proposals[i] /\ p.status = verdict /\ p.about = proposals[i].about
      /\ p.complete = proposals[i].complete /\ IsProposal(p)
  BY <1>4 DEF ReflectionInv, ReflectionShapes, IsProposal
<1>6. proposals' = [proposals EXCEPT ![i] = p]
  BY <1>2
<1> HIDE DEF p
<1>7. /\ DOMAIN proposals' = DOMAIN proposals /\ Len(proposals') = Len(proposals) /\ proposals'[i] = p
      /\ \A j \in DOMAIN proposals \ {i} : proposals'[j] = proposals[j]
  <2>1. \A S : proposals \in Seq(S) => proposals' \in Seq(S \cup {p}) /\ Len(proposals') = Len(proposals)
    BY <1>4, <1>6
  <2> QED
    BY <1>4, <1>6, <2>1
<1>8. proposals' \in Seq(Rows(proposals'))
  <2>1. proposals' \in Seq(Rows(proposals) \cup {p})
    BY <1>4, <1>6
  <2> QED
    BY <2>1 DEF Rows
<1>9. Stays
  BY <1>3, <1>5, <1>7 DEF Stays
<1>10. DOMAIN command' = Command /\ \A d \in Command : SoundCommand(command[d])'
  BY <1>3, <1>9, DoneIsSound, CommandMoves DEF Done, SoundCommand
<1>11. ReflectionShapes'
  BY <1>3, <1>5, <1>7, <1>8, <1>10 DEF ReflectionInv, ReflectionShapes
<1>12. RecordsAreSound'
  <2>1. \A j \in DOMAIN proposals : proposals'[j].status \in Reviewed \/ proposals'[j] = proposals[j]
    BY <1>5, <1>7
  <2>2. \A j \in DOMAIN proposals : Earned(j) => Earned(j)'
    BY <1>9, StaysSound DEF ReflectionInv
  <2> QED
    BY <1>3, <1>7, <2>1, <2>2 DEF ReflectionInv, RecordsAreSound
<1> QED
  BY <1>10, <1>11, <1>12 DEF ReflectionInv

LEMMA GuardKeeps ==
  ASSUME ReflectionInv, NEW c \in Command,
         ReadToApply(c) \/ GuardApplied(c) \/ ReadToUpgrade(c) \/ ApplyFile(c) \/ ReadToRevert(c) \/ Killed(c)
  PROVE  ReflectionInv'
<1>1. UNCHANGED <<proposals, applies, memories, effected>>
  BY DEF ReadToApply, GuardApplied, ReadToUpgrade, ApplyFile, ReadToRevert, Killed
<1>2. SoundCommand(command[c]) /\ SoundCommand(Done)
  BY DoneIsSound DEF ReflectionInv
<1>3. \A k : Proceeds(c, k) /\ SoundCommand(k) => ReflectionInv'
  BY <1>1, ReadKeeps
<1>4. CASE ReadToApply(c)
  <2>1. PICK i \in DOMAIN proposals : Applicable(i) /\ Proceeds(c, [at |-> "guard", of |-> i])
    BY <1>4 DEF ReadToApply, Begin
  <2>2. SoundCommand([at |-> "guard", of |-> i])
    BY <2>1 DEF SoundCommand, Applicable, Reviewed
  <2> QED
    BY <1>3, <2>1, <2>2
<1>5. CASE GuardApplied(c)
  <2>1. command[c].at = "guard"
    BY <1>5 DEF GuardApplied, CommandAt
  <2> DEFINE k == [command[c] EXCEPT !.at = "execute"]
  <2>2. k.at = "execute" /\ {"at", "of"} \subseteq DOMAIN k /\ k.of = command[c].of
    BY <1>2, <2>1 DEF SoundCommand
  <2>3. Proceeds(c, k) \/ Proceeds(c, Done)
    BY <1>5 DEF GuardApplied, Finishes
  <2> HIDE DEF k
  <2>4. SoundCommand(k)
    BY <1>2, <2>1, <2>2 DEF SoundCommand
  <2> QED
    BY <1>2, <1>3, <2>3, <2>4
<1>6. ASSUME Results(c, "failed"), command[c].at = "execute"
      PROVE  ReflectionInv'
  <2> DEFINE k == [at |-> "record", of |-> command[c].of, result |-> "failed"]
  <2>1. SoundCommand(k)
    BY <1>2, <1>6 DEF SoundCommand
  <2>2. Proceeds(c, k)
    BY <1>6 DEF Results
  <2> HIDE DEF k
  <2> QED
    BY <1>3, <2>1, <2>2
<1>7. CASE ReadToUpgrade(c)
  <2>1. command[c].at = "execute"
    BY <1>7 DEF ReadToUpgrade, CommandAt
  <2> DEFINE k == [command[c] EXCEPT !.at = "upgrade"]
  <2>2. k.at = "upgrade" /\ {"at", "of"} \subseteq DOMAIN k /\ k.of = command[c].of
    BY <1>2, <2>1 DEF SoundCommand
  <2>3. (Proceeds(c, k) /\ proposals[command[c].of].complete) \/ Results(c, "failed")
    BY <1>7 DEF ReadToUpgrade, Of
  <2> HIDE DEF k
  <2>4. proposals[command[c].of].complete => SoundCommand(k)
    BY <1>2, <2>1, <2>2 DEF SoundCommand
  <2> QED
    BY <1>3, <1>6, <2>1, <2>3, <2>4
<1>8. CASE ApplyFile(c)
  BY <1>6, <1>8 DEF ApplyFile, CommandAt
<1>9. CASE ReadToRevert(c)
  <2>1. PICK i \in DOMAIN proposals : Proceeds(c, [at |-> "revert", of |-> i])
    BY <1>9 DEF ReadToRevert, Begin
  <2>2. SoundCommand([at |-> "revert", of |-> i])
    BY DEF SoundCommand
  <2> QED
    BY <1>3, <2>1, <2>2
<1>10. CASE Killed(c)
  BY <1>2, <1>3, <1>10 DEF Killed, Finishes
<1> QED
  BY <1>4, <1>5, <1>7, <1>8, <1>9, <1>10

\* A change is made, and its command will record it.
LEMMA EffectKeeps ==
  ASSUME ReflectionInv, NEW c \in Command, UNCHANGED <<proposals, applies>>,
         DOMAIN memories' = Memory, \A m \in Memory : {"authority", "status"} \subseteq DOMAIN memories'[m],
         \A m \in Memory : memories[m].status = "absent" => memories'[m].status = "absent",
         command[c].at \in {"execute", "upgrade"}, proposals[command[c].of].complete,
         effected' = effected \cup {command[c].of} \/ (effected' = effected /\ memories'[proposals[command[c].of].about].status = "absent"),
         Results(c, "success")
  PROVE  ReflectionInv'
<1> DEFINE i == command[c].of
           k == [at |-> "record", of |-> i, result |-> "success"]
<1>1. i \in DOMAIN proposals /\ proposals[i].status \in Reviewed
  BY DEF ReflectionInv, SoundCommand
<1>2. Stays
  BY DEF Stays
<1>3. \A l : l = k => SoundCommand(l)'
  BY <1>1 DEF SoundCommand, Earned
<1>4. Proceeds(c, k)
  BY DEF Results
<1>5. DOMAIN command' = Command /\ \A d \in Command : SoundCommand(command[d])'
  <2> HIDE DEF k
  <2> QED
    BY <1>2, <1>3, <1>4, CommandMoves
<1>6. ReflectionShapes'
  BY <1>1, <1>5 DEF ReflectionInv, ReflectionShapes
<1>7. RecordsAreSound'
  <2>1. \A j \in DOMAIN proposals : Earned(j) => Earned(j)'
    BY <1>2, StaysSound DEF ReflectionInv
  <2>2. \A j \in effected' : j \in effected \/ j = i
    OBVIOUS
  <2> HIDE DEF i
  <2> QED
    BY <1>1, <2>1, <2>2 DEF ReflectionInv, RecordsAreSound
<1> QED
  BY <1>5, <1>6, <1>7 DEF ReflectionInv

LEMMA ApplyKeeps ==
  ASSUME ReflectionInv, NEW c \in Command, UpgradeMemory(c) \/ ApplyObsolete(c)
  PROVE  ReflectionInv'
<1> DEFINE m == proposals[command[c].of].about
<1>1. SoundCommand(command[c]) /\ ReflectionShapes
  BY DEF ReflectionInv
<1>2. CASE UpgradeMemory(c)
  <2>1. command[c].at = "upgrade" /\ UNCHANGED <<proposals, applies>> /\ Results(c, "success")
    BY <1>2 DEF UpgradeMemory, CommandAt
  <2>2. proposals[command[c].of].complete /\ m \in Memory
    BY <1>1, <2>1 DEF SoundCommand, ReflectionShapes, IsProposal
  <2>3. CASE memories[m].status = "absent" /\ UNCHANGED <<memories, effected>>
    BY <1>1, <2>1, <2>2, <2>3, EffectKeeps DEF ReflectionShapes
  <2>4. CASE memories' = [memories EXCEPT ![m].authority = Of(c).authority] /\ effected' = effected \cup {command[c].of}
    <3>1. /\ DOMAIN memories' = Memory
          /\ \A n \in Memory : DOMAIN memories'[n] = DOMAIN memories[n] /\ memories'[n].status = memories[n].status
      BY <1>1, <2>2, <2>4 DEF ReflectionShapes
    <3>2. \A n \in Memory : {"authority", "status"} \subseteq DOMAIN memories'[n]
      BY <1>1, <3>1 DEF ReflectionShapes
    <3> QED
      BY <2>1, <2>2, <2>4, <3>1, <3>2, EffectKeeps
  <2> QED
    BY <1>2, <2>3, <2>4 DEF UpgradeMemory, Of
<1>3. CASE ApplyObsolete(c)
  <2>1. command[c].at = "execute" /\ UNCHANGED <<proposals, applies>>
    BY <1>3 DEF ApplyObsolete, CommandAt
  <2>2. CASE Results(c, "failed") /\ UNCHANGED <<memories, effected>>
    <3> DEFINE k == [at |-> "record", of |-> command[c].of, result |-> "failed"]
    <3>1. SoundCommand(k)
      BY <1>1, <2>1 DEF SoundCommand
    <3>2. Proceeds(c, k)
      BY <2>2 DEF Results
    <3> HIDE DEF k
    <3> QED
      BY <2>1, <2>2, <3>1, <3>2, ReadKeeps
  <2>3. CASE /\ proposals[command[c].of].complete /\ memories[m].status # "absent"
             /\ memories' = [memories EXCEPT ![m].status = "archived"] /\ effected' = effected \cup {command[c].of}
             /\ Results(c, "success")
    <3>1. m \in Memory
      BY <1>1, <2>1, <2>3 DEF SoundCommand, ReflectionShapes, IsProposal
    <3>2. /\ DOMAIN memories' = Memory
          /\ \A n \in Memory : DOMAIN memories'[n] = DOMAIN memories[n] /\ (n # m => memories'[n] = memories[n])
      BY <1>1, <2>3, <3>1 DEF ReflectionShapes
    <3>3. \A n \in Memory : {"authority", "status"} \subseteq DOMAIN memories'[n]
      BY <1>1, <3>2 DEF ReflectionShapes
    <3>4. \A n \in Memory : memories[n].status = "absent" => memories'[n].status = "absent"
      BY <2>3, <3>2
    <3> QED
      BY <2>1, <2>3, <3>2, <3>3, <3>4, EffectKeeps
  <2> QED
    BY <1>3, <2>2, <2>3 DEF ApplyObsolete, Of
<1> QED
  BY <1>2, <1>3

\* What a command writes to the record of its proposal.
LEMMA ApplyRecordKeeps ==
  ASSUME ReflectionInv, NEW c \in Command, RecordApply(c) \/ MarkReverted(c)
  PROVE  ReflectionInv' /\ \A i \in DOMAIN applies : applies[i] # Unapplied =>
           applies'[i] = applies[i] \/ (applies[i].by = {} /\ applies'[i].result = applies[i].result)
<1> DEFINE i == command[c].of
<1>1. UNCHANGED <<proposals, memories, effected>> /\ Proceeds(c, Done) /\ ReflectionShapes /\ SoundCommand(command[c])
  BY DEF RecordApply, MarkReverted, Finishes, ReflectionInv
<1>2. \A l : l = Done => SoundCommand(l)'
  BY DoneIsSound DEF SoundCommand, Done
<1>3. DOMAIN command' = Command /\ \A d \in Command : SoundCommand(command[d])'
  BY <1>1, <1>2, SameStays, CommandMoves
<1>4. applies \in [1..MaxProposals -> [result : {"none", "success", "failed"}, by : SUBSET Command]]
  BY <1>1 DEF ReflectionShapes
<1>5. CASE RecordApply(c)
  <2>1. command[c].at = "record"
    BY <1>5 DEF RecordApply, CommandAt
  <2>2. i \in DOMAIN proposals /\ command[c].result \in {"success", "failed"} /\ (command[c].result = "success" => Earned(i))
    BY <1>1, <2>1 DEF SoundCommand
  <2>3. i \in 1..MaxProposals
    BY <1>1, <2>2, ReflectionBounds DEF ReflectionShapes
  <2>4. applies' = applies \/ (applies[i] = Unapplied /\ applies' = [applies EXCEPT ![i].result = command[c].result])
    BY <1>5 DEF RecordApply
  <2> HIDE DEF i
  <2>5. applies' = applies \/ (/\ applies[i] = Unapplied
                               /\ applies'[i].result = command[c].result /\ applies'[i].by = applies[i].by
                               /\ applies' \in [1..MaxProposals -> [result : {"none", "success", "failed"}, by : SUBSET Command]]
                               /\ \A j \in 1..MaxProposals \ {i} : applies'[j] = applies[j])
    BY <1>4, <2>2, <2>3, <2>4
  <2>6. applies' \in [1..MaxProposals -> [result : {"none", "success", "failed"}, by : SUBSET Command]]
    BY <1>4, <2>5
  <2>7. ReflectionShapes'
    BY <1>1, <1>3, <2>6 DEF ReflectionShapes
  <2>8. \A j : Earned(j)' <=> Earned(j)
    BY <1>1 DEF Earned
  <2>9. ASSUME NEW j \in 1..MaxProposals
        PROVE  /\ applies'[j].result # "none" => j \in DOMAIN proposals
               /\ applies'[j].result = "success" => Earned(j)
    <3>1. j # i \/ applies' = applies => applies'[j] = applies[j]
      BY <2>5, <2>9
    <3> QED
      BY <1>1, <2>2, <2>5, <3>1 DEF ReflectionInv, RecordsAreSound
  <2>10. RecordsAreSound'
    <3>1. \A j \in DOMAIN proposals : j \in 1..MaxProposals
      BY <1>1, ReflectionBounds DEF ReflectionShapes
    <3> QED
      BY <1>1, <2>8, <2>9, <3>1 DEF ReflectionInv, RecordsAreSound
  <2> QED
    BY <1>3, <1>4, <2>5, <2>7, <2>10 DEF ReflectionInv
<1>6. CASE MarkReverted(c)
  <2>1. applies' = applies \/ (applies[i].by = {} /\ applies' = [applies EXCEPT ![i].by = {c}])
    BY <1>6 DEF MarkReverted, Unreverted
  <2> HIDE DEF i
  <2>2. /\ applies' \in [1..MaxProposals -> [result : {"none", "success", "failed"}, by : SUBSET Command]]
        /\ \A j \in 1..MaxProposals : applies'[j].result = applies[j].result
        /\ \A j \in 1..MaxProposals : applies'[j] = applies[j] \/ applies[j].by = {}
    <3> DEFINE marked == [applies[i] EXCEPT !.by = {c}]
    <3>1. CASE applies' = applies
      BY <1>4, <3>1
    <3>2. CASE applies[i].by = {} /\ applies' = [applies EXCEPT ![i] = marked] /\ i \in 1..MaxProposals
      <4>1. marked \in [result : {"none", "success", "failed"}, by : SUBSET Command] /\ marked.result = applies[i].result
        BY <1>4, <3>2
      <4> HIDE DEF marked
      <4> QED
        BY <1>4, <3>2, <4>1
    <3>3. CASE applies' = [applies EXCEPT ![i].by = {c}] /\ i \notin 1..MaxProposals
      BY <1>4, <3>3
    <3> QED
      BY <2>1, <3>1, <3>2, <3>3
  <2>3. ReflectionShapes'
    BY <1>1, <1>3, <2>2 DEF ReflectionShapes
  <2>4. RecordsAreSound'
    <3>1. \A j \in DOMAIN proposals : j \in 1..MaxProposals
      BY <1>1, ReflectionBounds DEF ReflectionShapes
    <3> QED
      BY <1>1, <2>2, <3>1 DEF ReflectionInv, RecordsAreSound, Earned
  <2> QED
    BY <1>3, <1>4, <2>2, <2>3, <2>4 DEF ReflectionInv
<1> QED
  BY <1>5, <1>6

\* A memory that is gone makes no success less of one.
LEMMA ForgetKeeps ==
  ASSUME ReflectionInv, ForgetHard
  PROVE  ReflectionInv'
<1>1. PICK m \in Memory : memories' = [memories EXCEPT ![m] = Gone]
  BY DEF ForgetHard
<1>2. UNCHANGED <<proposals, applies, command, effected>>
  BY DEF ForgetHard
<1>3. /\ DOMAIN memories' = Memory /\ \A n \in Memory : memories'[n] = memories[n] \/ memories'[n] = Gone
  BY <1>1 DEF ReflectionInv, ReflectionShapes
<1>4. Gone.status = "absent" /\ DOMAIN Gone = {"authority", "status"}
  BY DEF Gone
<1>5. Stays
  BY <1>2, <1>3, <1>4 DEF Stays
<1>6. ReflectionShapes'
  BY <1>2, <1>3, <1>4 DEF ReflectionInv, ReflectionShapes
<1>7. RecordsAreSound'
  BY <1>2, <1>5, StaysSound DEF ReflectionInv, RecordsAreSound
<1>8. ASSUME NEW c \in Command PROVE \A k : k = command'[c] => SoundCommand(k)'
  BY <1>2, <1>5, StaysSound DEF ReflectionInv
<1> QED
  BY <1>6, <1>7, <1>8 DEF ReflectionInv

THEOREM ReflectionInvariant == ReflectionSpec => []ReflectionInv
<1>1. ReflectionInit => ReflectionInv
  <2> SUFFICES ASSUME ReflectionInit PROVE ReflectionInv
    OBVIOUS
  <2>1. PICK p \in Foreign : proposals = <<p>>
    BY DEF ReflectionInit
  <2>2. Len(proposals) = 1 /\ DOMAIN proposals = {1} /\ proposals[1] = p /\ proposals \in Seq(Rows(proposals))
    BY <2>1 DEF Rows
  <2>3. IsProposal(p)
    BY ForeignIsComplete DEF IsProposal
  <2>4. ReflectionShapes
    BY <2>2, <2>3, ReflectionBounds DEF ReflectionInit, ReflectionShapes, Unapplied
  <2>5. RecordsAreSound
    BY <2>2, ReflectionBounds DEF ReflectionInit, RecordsAreSound, Unapplied
  <2> QED
    BY <2>4, <2>5, DoneIsSound DEF ReflectionInit, ReflectionInv
<1>2. ReflectionInv /\ [ReflectionNext]_reflectionVars => ReflectionInv'
  <2> SUFFICES ASSUME ReflectionInv, [ReflectionNext]_reflectionVars PROVE ReflectionInv'
    OBVIOUS
  <2>1. CASE \E c \in Command : CommandStep(c)
    BY <2>1, ReflectKeeps, ProposeKeeps, ReviewKeeps, GuardKeeps, ApplyKeeps, ApplyRecordKeeps DEF CommandStep
  <2>2. ASSUME UNCHANGED <<proposals, applies, memories, command, effected>> PROVE ReflectionInv'
    <3>1. \A k : SoundCommand(k) => SoundCommand(k)'
      BY <2>2, SameStays, StaysSound DEF ReflectionInv
    <3>2. ASSUME NEW c \in Command PROVE \A k : k = command'[c] => SoundCommand(k)'
      BY <2>2, <3>1 DEF ReflectionInv
    <3>3. DOMAIN command' = Command
      BY <2>2 DEF ReflectionInv, ReflectionShapes
    <3> QED
      BY <2>2, <3>2, <3>3, StoredStays
  <2> QED
    BY <2>1, <2>2, ForgetKeeps DEF ReflectionNext, LogEvent, reflectionVars
<1> QED
  BY <1>1, <1>2, PTL DEF ReflectionSpec

\* What Executor.Apply does to a memory was approved first, and its success
\* is on record only if it happened, or the memory was deleted under it.
THEOREM AppliesEarned == ReflectionSpec => []AppliesAreEarned
<1>1. ReflectionInv => AppliesAreEarned
  BY DEF ReflectionInv, RecordsAreSound, Earned, AppliesAreEarned, Reviewed
<1> QED
  BY <1>1, ReflectionInvariant, PTL

\* insertApplyResult and MarkReverted: of the applications and reverts of one
\* proposal that race, one is on record, and stays.
THEOREM RecordsOnce == ReflectionSpec => RecordsStand
<1>1. ReflectionInv /\ [ReflectionNext]_reflectionVars =>
        [\A i \in DOMAIN applies : applies[i] # Unapplied =>
           applies'[i] = applies[i] \/ (applies[i].by = {} /\ applies'[i].result = applies[i].result)]_reflectionVars
  <2> SUFFICES ASSUME ReflectionInv, ReflectionNext, NEW i \in DOMAIN applies, applies[i] # Unapplied
               PROVE  applies'[i] = applies[i] \/ (applies[i].by = {} /\ applies'[i].result = applies[i].result)
    BY DEF reflectionVars
  <2>1. CASE UNCHANGED applies
    BY <2>1
  <2>2. CASE \E c \in Command : RecordApply(c) \/ MarkReverted(c)
    BY <2>2, ApplyRecordKeeps
  <2> QED
    BY <2>1, <2>2 DEF ReflectionNext, CommandStep, BeginReflect, ScanSession, ExtractSession, Reflected, Propose, Approve,
         Reject, Review, ReadToApply, GuardApplied, ReadToUpgrade, UpgradeMemory, ApplyObsolete, ApplyFile, ReadToRevert,
         Killed, LogEvent, ForgetHard
<1> QED
  BY <1>1, ReflectionInvariant, PTL DEF ReflectionSpec, RecordsStand

-----------------------------------------------------------------------------
(***************************************************************************)
(* SessionView: a view is the log, for any readers, facts and page size,    *)
(* whatever is appended, saved, spoiled, discarded and deleted meanwhile.   *)
(***************************************************************************)

Details == {fact.of : fact \in Fact}

IsView(v) ==
  /\ DOMAIN v = {"seq", "status", "runs", "tools", "lists", "todos", "tokens"}
  /\ v.seq \in Nat /\ v.tokens \in Nat
  /\ DOMAIN v.runs = Runs /\ DOMAIN v.tools = Calls
  /\ v.lists \in [Listed -> Seq(Details)]

\* It shows a beginning of the log.
Shows(v) == IsView(v) /\ v.seq <= Len(log) /\ IsViewOf(v, v.seq)

ReadingShape(r) ==
  /\ "at" \in DOMAIN r
  /\ r.at # "rest" => DOMAIN r = {"at", "for", "asOf", "expected", "view"} /\ r.asOf \in Nat

ViewShapes ==
  /\ log \in Seq(Fact)
  /\ DOMAIN reader = Reader
  /\ \A p \in Reader : ReadingShape(reader[p])
  /\ snapshot # Nothing => DOMAIN snapshot = {"kind", "valid", "view"}

\* What is read so far is the beginning of the log, and all that was asked
\* for once the last page is read.
ReadingIsRight(r) ==
  r.at # "rest" =>
    /\ r.asOf <= Len(log)
    /\ r.at \in {"snapshot", "discard", "page", "save", "given"} => Shows(r.view)
    /\ r.at \in {"save", "given"} => r.asOf <= r.view.seq

ReadersAreRight == Present => \A p \in Reader : ReadingIsRight(reader[p])

SnapshotIsRight == snapshot # Nothing => Present /\ Shows(snapshot.view)

ViewInv == ViewShapes /\ ReadersAreRight /\ SnapshotIsRight

\* What a fact adds to what there is of its kind.
LEMMA FactsNext ==
  ASSUME NEW n \in Nat, NEW K
  PROVE  /\ FactsOf(n + 1, K) = IF log[n + 1].kind \in K THEN FactsOf(n, K) \cup {n + 1} ELSE FactsOf(n, K)
         /\ n + 1 \notin FactsOf(n, K)
         /\ IsFiniteSet(FactsOf(n, K)) /\ FactsOf(n, K) \subseteq 1..n
<1>1. IsFiniteSet(1..n)
  BY FS_Interval
<1> QED
  BY <1>1, FS_Subset DEF FactsOf

LEMMA LastAboutNext ==
  ASSUME NEW n \in Nat, NEW K, NEW of
  PROVE  /\ log[n + 1].kind \in K /\ log[n + 1].of = of => LastAbout(n + 1, K, of) = {n + 1}
         /\ log[n + 1].kind \notin K \/ log[n + 1].of # of => LastAbout(n + 1, K, of) = LastAbout(n, K, of)
<1>1. CASE log[n + 1].kind \in K /\ log[n + 1].of = of
  <2>1. \A i \in 1..n : n + 1 \in i + 1..n + 1
    OBVIOUS
  <2>2. n + 1 \in LastAbout(n + 1, K, of)
    BY <1>1 DEF LastAbout
  <2>3. \A i \in LastAbout(n + 1, K, of) : i = n + 1
    BY <1>1, <2>1 DEF LastAbout
  <2> QED
    BY <1>1, <2>2, <2>3
<1>2. CASE ~(log[n + 1].kind \in K /\ log[n + 1].of = of)
  <2>1. \A i \in 1..n, j \in Nat : j \in i + 1..n + 1 <=> (j \in i + 1..n \/ j = n + 1)
    OBVIOUS
  <2>2. LastAbout(n + 1, K, of) \subseteq LastAbout(n, K, of)
    BY <1>2 DEF LastAbout
  <2>3. LastAbout(n, K, of) \subseteq LastAbout(n + 1, K, of)
    BY <1>2, <2>1 DEF LastAbout
  <2> QED
    BY <1>2, <2>2, <2>3
<1> QED
  BY <1>1, <1>2

\* Reduced, field by field.
LEMMA ReducedFields ==
  ASSUME NEW v, IsView(v), NEW fact \in Fact
  PROVE  LET w == Reduced(v, fact) IN
         /\ IsView(w) /\ w.seq = v.seq + 1
         /\ w.runs = IF fact.kind \in DOMAIN RunStatus THEN [v.runs EXCEPT ![fact.of] = RunStatus[fact.kind]] ELSE v.runs
         /\ w.status = IF fact.kind \in DOMAIN RunStatus THEN SessionStatus(fact.kind) ELSE v.status
         /\ w.tools = IF fact.kind \in DOMAIN ToolPhase THEN [v.tools EXCEPT ![fact.of] = ToolPhase[fact.kind]] ELSE v.tools
         /\ w.lists = IF fact.kind \in Listed THEN [v.lists EXCEPT ![fact.kind] = Append(@, fact.of)] ELSE v.lists
         /\ w.todos = IF fact.kind = "todo.updated" THEN fact.of ELSE v.todos
         /\ w.tokens = IF fact.kind = "usage.updated" THEN v.tokens + fact.of ELSE v.tokens
<1> DEFINE next == [v EXCEPT !.seq = @ + 1]
           w == Reduced(v, fact)
<1>1. /\ DOMAIN next = DOMAIN v /\ next.seq = v.seq + 1 /\ next.runs = v.runs /\ next.tools = v.tools
      /\ next.lists = v.lists /\ next.status = v.status /\ next.todos = v.todos /\ next.tokens = v.tokens
  BY DEF IsView
<1>2. /\ DOMAIN RunStatus = {"run.started", "run.completed", "run.failed", "run.cancelled"}
      /\ DOMAIN ToolPhase = {"tool.proposed", "tool.started", "tool.completed"}
      /\ Listed = {"message.completed", "recovery.resolved", "context.compacted", "warning"}
  BY DEF RunStatus, ToolPhase, Listed
<1>3. w = CASE fact.kind \in DOMAIN RunStatus ->
                 [next EXCEPT !.runs[fact.of] = RunStatus[fact.kind], !.status = SessionStatus(fact.kind)]
            [] fact.kind \in DOMAIN ToolPhase -> [next EXCEPT !.tools[fact.of] = ToolPhase[fact.kind]]
            [] fact.kind \in Listed           -> [next EXCEPT !.lists[fact.kind] = Append(@, fact.of)]
            [] fact.kind = "todo.updated"     -> [next EXCEPT !.todos = fact.of]
            [] fact.kind = "usage.updated"    -> [next EXCEPT !.tokens = @ + fact.of]
            [] OTHER                          -> next
  BY DEF Reduced
<1> HIDE DEF next, w
<1>4. CASE fact.kind \in DOMAIN RunStatus
  <2>1. w = [next EXCEPT !.runs = [next.runs EXCEPT ![fact.of] = RunStatus[fact.kind]], !.status = SessionStatus(fact.kind)]
    BY <1>2, <1>3, <1>4
  <2> QED
    BY <1>1, <1>2, <1>4, <2>1 DEF IsView, w
<1>5. CASE fact.kind \in DOMAIN ToolPhase
  <2>1. w = [next EXCEPT !.tools = [next.tools EXCEPT ![fact.of] = ToolPhase[fact.kind]]]
    BY <1>2, <1>3, <1>5
  <2> QED
    BY <1>1, <1>2, <1>5, <2>1 DEF IsView, w
<1>6. CASE fact.kind \in Listed
  <2> DEFINE more == [next.lists EXCEPT ![fact.kind] = Append(@, fact.of)]
  <2>1. w = [next EXCEPT !.lists = more]
    BY <1>2, <1>3, <1>6
  <2>2. more \in [Listed -> Seq(Details)]
    BY <1>1, <1>6 DEF IsView, Details
  <2>3. more = [v.lists EXCEPT ![fact.kind] = Append(@, fact.of)]
    BY <1>1
  <2> HIDE DEF more
  <2> QED
    BY <1>1, <1>2, <1>6, <2>1, <2>2, <2>3 DEF IsView, w
<1>7. CASE fact.kind = "todo.updated"
  <2>1. w = [next EXCEPT !.todos = fact.of]
    BY <1>2, <1>3, <1>7
  <2> QED
    BY <1>1, <1>2, <1>7, <2>1 DEF IsView, w
<1>8. CASE fact.kind = "usage.updated"
  <2>1. w = [next EXCEPT !.tokens = v.tokens + fact.of]
    BY <1>1, <1>2, <1>3, <1>8
  <2>2. fact.of \in Nat
    BY <1>8, ViewBounds
  <2> QED
    BY <1>1, <1>2, <1>8, <2>1, <2>2 DEF IsView, w
<1>9. CASE /\ fact.kind \notin DOMAIN RunStatus /\ fact.kind \notin DOMAIN ToolPhase /\ fact.kind \notin Listed
           /\ fact.kind # "todo.updated" /\ fact.kind # "usage.updated"
  <2>1. w = next
    BY <1>2, <1>3, <1>9
  <2> QED
    BY <1>1, <1>9, <2>1 DEF IsView, w
<1> QED
  BY <1>4, <1>5, <1>6, <1>7, <1>8, <1>9

\* A position of a list, counted among those of its kind.
LEMMA OrderNext ==
  ASSUME NEW n \in Nat, NEW kind, NEW list \in Seq(Details), log[n + 1].of \in Details, InOrder(list, n, kind)
  PROVE  IF log[n + 1].kind = kind THEN InOrder(Append(list, log[n + 1].of), n + 1, kind) ELSE InOrder(list, n + 1, kind)
<1> DEFINE at   == FactsOf(n, {kind})
           more == Append(list, log[n + 1].of)
<1>1. /\ FactsOf(n + 1, {kind}) = IF log[n + 1].kind = kind THEN at \cup {n + 1} ELSE at
      /\ n + 1 \notin at /\ IsFiniteSet(at) /\ at \subseteq 1..n
  BY FactsNext
<1>2. Len(list) = Cardinality(at) /\ \A i \in at : list[Cardinality({j \in at : j <= i})] = log[i].of
  BY DEF InOrder
<1>3. CASE log[n + 1].kind # kind
  BY <1>1, <1>2, <1>3 DEF InOrder
<1>4. CASE log[n + 1].kind = kind
  <2> DEFINE then == at \cup {n + 1}
  <2>1. FactsOf(n + 1, {kind}) = then
    BY <1>1, <1>4
  <2> HIDE DEF at
  <2>2. Cardinality(at) \in Nat /\ Cardinality(then) = Cardinality(at) + 1
    BY <1>1, FS_CardinalityType, FS_AddElement
  <2>3. Len(more) = Cardinality(at) + 1 /\ more[Cardinality(at) + 1] = log[n + 1].of
        /\ \A k \in 1..Cardinality(at) : more[k] = list[k]
    <3>1. Len(list) = Cardinality(at) /\ list \in Seq(Details) /\ log[n + 1].of \in Details
      BY <1>2
    <3> HIDE DEF Details
    <3> QED
      BY <3>1
  <2>4. {j \in then : j <= n + 1} = then
    <3>1. \A j \in then : j <= n + 1
      BY <1>1
    <3> QED
      BY <3>1
  <2>5. ASSUME NEW i \in at PROVE more[Cardinality({j \in then : j <= i})] = log[i].of
    <3> DEFINE upto == {j \in at : j <= i}
    <3>1. {j \in then : j <= i} = upto
      BY <1>1
    <3>2. IsFiniteSet(upto) /\ Cardinality(upto) <= Cardinality(at)
      BY <1>1, FS_Subset
    <3>3. Cardinality(upto) \in 1..Cardinality(at)
      <4>1. upto # {}
        BY <1>1
      <4> HIDE DEF upto
      <4> QED
        BY <2>2, <3>2, <4>1, FS_CardinalityType, FS_EmptySet
    <3>4. list[Cardinality(upto)] = log[i].of
      BY <1>2 DEF at
    <3> HIDE DEF upto
    <3> QED
      BY <2>3, <3>1, <3>3, <3>4
  <2>6. \A i \in then : more[Cardinality({j \in then : j <= i})] = log[i].of
    BY <2>2, <2>3, <2>4, <2>5
  <2> HIDE DEF then, more
  <2>7. InOrder(more, n + 1, kind)
    BY <2>1, <2>2, <2>3, <2>6 DEF InOrder
  <2> QED
    BY <1>4, <2>7 DEF more
<1> QED
  BY <1>3, <1>4

LEMMA SaysNext ==
  ASSUME NEW n \in Nat, NEW names, NEW of, NEW entry, Says(entry, n, names, of)
  PROVE  IF log[n + 1].kind \in DOMAIN names /\ log[n + 1].of = of
         THEN Says(names[log[n + 1].kind], n + 1, names, of) ELSE Says(entry, n + 1, names, of)
<1>1. CASE log[n + 1].kind \in DOMAIN names /\ log[n + 1].of = of
  <2>1. LastAbout(n + 1, DOMAIN names, of) = {n + 1}
    BY <1>1, LastAboutNext
  <2> QED
    BY <1>1, <2>1 DEF Says
<1>2. CASE ~(log[n + 1].kind \in DOMAIN names /\ log[n + 1].of = of)
  <2>1. LastAbout(n + 1, DOMAIN names, of) = LastAbout(n, DOMAIN names, of)
    BY <1>2, LastAboutNext
  <2>2. Says(entry, n + 1, names, of)
    BY <2>1 DEF Says
  <2> QED
    BY <1>2, <2>2
<1> QED
  BY <1>1, <1>2

\* reduceRecord: a view of a beginning of the log and the next fact.
LEMMA OneMore ==
  ASSUME log \in Seq(Fact), NEW v, IsView(v), IsViewOf(v, v.seq), v.seq < Len(log), Fits(v, log[v.seq + 1])
  PROVE  LET w == Reduced(v, log[v.seq + 1]) IN IsView(w) /\ w.seq = v.seq + 1 /\ IsViewOf(w, v.seq + 1)
<1> DEFINE n    == v.seq
           fact == log[n + 1]
           w    == Reduced(v, fact)
<1>1. n \in Nat /\ fact \in Fact
  BY DEF IsView
<1>2. /\ IsView(w) /\ w.seq = n + 1
      /\ w.runs = IF fact.kind \in DOMAIN RunStatus THEN [v.runs EXCEPT ![fact.of] = RunStatus[fact.kind]] ELSE v.runs
      /\ w.status = IF fact.kind \in DOMAIN RunStatus THEN SessionStatus(fact.kind) ELSE v.status
      /\ w.tools = IF fact.kind \in DOMAIN ToolPhase THEN [v.tools EXCEPT ![fact.of] = ToolPhase[fact.kind]] ELSE v.tools
      /\ w.lists = IF fact.kind \in Listed THEN [v.lists EXCEPT ![fact.kind] = Append(@, fact.of)] ELSE v.lists
      /\ w.todos = IF fact.kind = "todo.updated" THEN fact.of ELSE v.todos
      /\ w.tokens = IF fact.kind = "usage.updated" THEN v.tokens + fact.of ELSE v.tokens
  BY <1>1, ReducedFields
<1> HIDE DEF n, w
<1>3. v.seq = n /\ IsViewOf(v, n) /\ IsView(v)
  BY DEF n
<1>4. \A r \in Runs : Says(w.runs[r], n + 1, RunStatus, r)
  <2> SUFFICES ASSUME NEW r \in Runs PROVE Says(w.runs[r], n + 1, RunStatus, r)
    OBVIOUS
  <2>1. Says(v.runs[r], n, RunStatus, r)
    BY <1>3 DEF IsViewOf
  <2>2. w.runs[r] = IF fact.kind \in DOMAIN RunStatus /\ fact.of = r THEN RunStatus[fact.kind] ELSE v.runs[r]
    BY <1>2, <1>3 DEF IsView
  <2> QED
    BY <1>1, <2>1, <2>2, SaysNext
<1>5. \A c \in Calls : Says(w.tools[c], n + 1, ToolPhase, c)
  <2> SUFFICES ASSUME NEW c \in Calls PROVE Says(w.tools[c], n + 1, ToolPhase, c)
    OBVIOUS
  <2>1. Says(v.tools[c], n, ToolPhase, c)
    BY <1>3 DEF IsViewOf
  <2>2. w.tools[c] = IF fact.kind \in DOMAIN ToolPhase /\ fact.of = c THEN ToolPhase[fact.kind] ELSE v.tools[c]
    BY <1>2, <1>3 DEF IsView
  <2> QED
    BY <1>1, <2>1, <2>2, SaysNext
<1>6. \A i \in FactsOf(n + 1, DOMAIN RunStatus) :
        (\A j \in FactsOf(n + 1, DOMAIN RunStatus) : j <= i) => w.status = SessionStatus(log[i].kind)
  <2> DEFINE at   == FactsOf(n, DOMAIN RunStatus)
             then == FactsOf(n + 1, DOMAIN RunStatus)
  <2>1. at \subseteq 1..n /\ then = IF fact.kind \in DOMAIN RunStatus THEN at \cup {n + 1} ELSE at
    BY <1>1, FactsNext
  <2>2. \A i \in at : (\A j \in at : j <= i) => v.status = SessionStatus(log[i].kind)
    BY <1>3 DEF IsViewOf
  <2> HIDE DEF at, then
  <2>3. CASE fact.kind \in DOMAIN RunStatus
    <3> SUFFICES ASSUME NEW i \in then, \A j \in then : j <= i PROVE w.status = SessionStatus(log[i].kind)
      BY DEF then
    <3>1. then = at \cup {n + 1} /\ i \in then
      BY <2>1, <2>3
    <3>2. n + 1 <= i /\ (i \in at => i <= n)
      BY <1>1, <2>1, <3>1
    <3>3. i = n + 1
      BY <1>1, <2>1, <3>1, <3>2
    <3> QED
      BY <1>2, <2>3, <3>3
  <2>4. CASE fact.kind \notin DOMAIN RunStatus
    BY <1>2, <2>1, <2>2, <2>4 DEF then
  <2> QED
    BY <2>3, <2>4
<1>7. \A kind \in Listed : InOrder(w.lists[kind], n + 1, kind)
  <2> SUFFICES ASSUME NEW kind \in Listed PROVE InOrder(w.lists[kind], n + 1, kind)
    OBVIOUS
  <2>1. InOrder(v.lists[kind], n, kind) /\ v.lists[kind] \in Seq(Details) /\ fact.of \in Details
    BY <1>1, <1>3 DEF IsViewOf, IsView, Details
  <2>2. w.lists[kind] = IF fact.kind = kind THEN Append(v.lists[kind], fact.of) ELSE v.lists[kind]
    BY <1>2, <1>3 DEF IsView
  <2> QED
    BY <1>1, <2>1, <2>2, OrderNext
<1>8. ASSUME NEW i \in 1..n + 1, log[i].kind = "todo.updated", \A j \in i + 1..n + 1 : log[j].kind # "todo.updated"
      PROVE  w.todos = log[i].of
  <2>1. CASE i = n + 1
    BY <1>2, <1>8, <2>1
  <2>2. CASE i # n + 1
    <3>1. i \in 1..n /\ n + 1 \in i + 1..n + 1 /\ \A j \in i + 1..n : j \in i + 1..n + 1
      BY <1>1, <2>2
    <3>2. v.todos = log[i].of
      BY <1>3, <1>8, <3>1 DEF IsViewOf
    <3> QED
      BY <1>2, <1>8, <3>1, <3>2
  <2> QED
    BY <2>1, <2>2
<1>9. w.tokens = Total([i \in FactsOf(n + 1, {"usage.updated"}) |-> log[i].of]) /\ w.tokens <= MaxTokens
  <2> DEFINE at == FactsOf(n, {"usage.updated"})
             f  == [i \in at |-> log[i].of]
             g  == [i \in FactsOf(n + 1, {"usage.updated"}) |-> log[i].of]
  <2>1. /\ FactsOf(n + 1, {"usage.updated"}) = IF fact.kind = "usage.updated" THEN at \cup {n + 1} ELSE at
        /\ n + 1 \notin at /\ IsFiniteSet(at) /\ at \subseteq 1..n
    BY <1>1, FactsNext
  <2>2. v.tokens = Total(f) /\ v.tokens <= MaxTokens
    BY <1>3 DEF IsViewOf
  <2>3. CASE fact.kind # "usage.updated"
    BY <1>2, <2>1, <2>2, <2>3
  <2>4. CASE fact.kind = "usage.updated"
    <3>1. \A i \in at : log[i].of \in Nat
      BY <1>1, <2>1, ViewBounds DEF FactsOf, n
    <3>2. fact.of \in Nat
      BY <1>1, <2>4, ViewBounds
    <3>3. Numbers(f) /\ DOMAIN f = at
      BY <2>1, <3>1 DEF Numbers
    <3>4. DOMAIN g = at \cup {n + 1}
      BY <2>1, <2>4
    <3>5. g = [y \in at \cup {n + 1} |-> IF y = n + 1 THEN fact.of ELSE f[y]]
      BY <2>1, <2>4
    <3> HIDE DEF f, g
    <3>6. Total(g) = Total(f) + fact.of
      BY <2>1, <3>2, <3>3, <3>4, <3>5, TotalAdds
    <3>7. v.tokens + fact.of <= MaxTokens
      BY <2>4 DEF Fits, n
    <3> QED
      BY <1>2, <2>2, <2>4, <3>6, <3>7 DEF g
  <2> QED
    BY <2>3, <2>4
<1>10. IsViewOf(w, n + 1)
  BY <1>2, <1>4, <1>5, <1>6, <1>7, <1>8, <1>9 DEF IsViewOf
<1> QED
  BY <1>2, <1>10 DEF n, w
\* Reduce's function, up to a number of records.
Folds(after, v, records, m) ==
  after = [n \in 0..m |->
             IF n = 0 THEN v
             ELSE IF after[n - 1] = Nothing \/ ~Fits(after[n - 1], records[n]) THEN Nothing
             ELSE Reduced(after[n - 1], records[n])]

LEMMA FoldExists ==
  ASSUME NEW v, NEW records, NEW m \in Nat
  PROVE  \E after : Folds(after, v, records, m)
<1> DEFINE good == {k \in Nat : \E after : Folds(after, v, records, k)}
<1>1. 0 \in good
  <2>1. Folds([n \in 0..0 |-> v], v, records, 0)
    BY DEF Folds
  <2> QED
    BY <2>1
<1>2. ASSUME NEW k \in Nat, k \in good PROVE k + 1 \in good
  <2>1. PICK a : Folds(a, v, records, k)
    BY <1>2
  <2> DEFINE last == IF a[k] = Nothing \/ ~Fits(a[k], records[k + 1]) THEN Nothing ELSE Reduced(a[k], records[k + 1])
             b    == [n \in 0..k + 1 |-> IF n = k + 1 THEN last ELSE a[n]]
  <2>2. \A n \in 0..k : n \in 0..k + 1 /\ n # k + 1 /\ b[n] = a[n]
    OBVIOUS
  <2>3. b[k + 1] = last /\ b[k] = a[k] /\ k + 1 - 1 = k /\ k + 1 # 0
    OBVIOUS
  <2>4. \A n \in 0..k + 1 : n = k + 1 \/ n \in 0..k
    OBVIOUS
  <2>5. \A n \in 0..k : n # 0 => n - 1 \in 0..k
    OBVIOUS
  <2>6. DOMAIN b = 0..k + 1 /\ b = [n \in 0..k + 1 |-> b[n]]
    OBVIOUS
  <2>7. \A n \in 0..k : a[n] = IF n = 0 THEN v
                               ELSE IF a[n - 1] = Nothing \/ ~Fits(a[n - 1], records[n]) THEN Nothing
                               ELSE Reduced(a[n - 1], records[n])
    BY <2>1 DEF Folds
  <2> HIDE DEF b
  <2>8. \A n \in 0..k + 1 : b[n] = IF n = 0 THEN v
                                   ELSE IF b[n - 1] = Nothing \/ ~Fits(b[n - 1], records[n]) THEN Nothing
                                   ELSE Reduced(b[n - 1], records[n])
    <3> SUFFICES ASSUME NEW n \in 0..k + 1
                 PROVE  b[n] = IF n = 0 THEN v
                               ELSE IF b[n - 1] = Nothing \/ ~Fits(b[n - 1], records[n]) THEN Nothing
                               ELSE Reduced(b[n - 1], records[n])
      OBVIOUS
    <3>1. CASE n = k + 1
      BY <2>3, <3>1
    <3>2. CASE n \in 0..k
      BY <2>2, <2>5, <2>7, <3>2
    <3> QED
      BY <2>4, <3>1, <3>2
  <2>9. Folds(b, v, records, k + 1)
    BY <2>6, <2>8 DEF Folds
  <2> QED
    BY <2>9
<1> HIDE DEF good
<1>3. m \in good
  BY <1>1, <1>2, Induction
<1> QED
  BY <1>3 DEF good

\* A page reduces to a view of so much more of the log.
LEMMA ReducePage ==
  ASSUME log \in Seq(Fact), NEW v, Shows(v), Reduce(v, LogPage(v.seq)) # Nothing
  PROVE  LET w == Reduce(v, LogPage(v.seq))
         IN  Shows(w) /\ w.seq >= v.seq /\ (LastPage(LogPage(v.seq)) => w.seq = Len(log))
<1> DEFINE records == LogPage(v.seq)
           m       == Len(records)
           w       == Reduce(v, records)
           end     == IF Len(log) < v.seq + PageSize THEN Len(log) ELSE v.seq + PageSize
<1>1. v.seq \in Nat /\ v.seq <= Len(log) /\ IsView(v) /\ IsViewOf(v, v.seq) /\ PageSize \in Nat \ {0} /\ Len(log) \in Nat
  BY ViewBounds DEF Shows, IsView
<1>2. /\ end \in Nat /\ v.seq <= end /\ end <= Len(log) /\ m = end - v.seq /\ m \in Nat
      /\ \A k \in 1..m : records[k] = log[v.seq + k]
  <2>1. end \in Nat /\ v.seq <= end /\ end <= Len(log)
    BY <1>1
  <2>2. records = SubSeq(log, v.seq + 1, end)
    BY DEF LogPage
  <2> HIDE DEF end, records
  <2>4. end - (v.seq + 1) + 1 = end - v.seq /\ end - v.seq \in Nat /\ v.seq + 1 \in Int /\ end \in Int
        /\ \A i \in v.seq + 1..end : i \in 1..Len(log)
    BY <1>1, <2>1
  <2>3. /\ Len(records) = IF v.seq + 1 <= end THEN end - v.seq ELSE 0
        /\ \A i \in 1..end - v.seq : records[i] = log[v.seq + 1 + i - 1]
    BY <2>2, <2>4, SubSeqProperties
  <2>5. m = end - v.seq
    BY <1>1, <2>1, <2>3
  <2>6. \A k \in 1..end - v.seq : v.seq + 1 + k - 1 = v.seq + k
    BY <1>1, <2>1
  <2> HIDE DEF m
  <2> QED
    BY <2>1, <2>3, <2>4, <2>5, <2>6
<1>3. PICK after : Folds(after, v, records, m) /\ w = after[m]
  <2> DEFINE f == CHOOSE g : Folds(g, v, records, m)
  <2>1. w = f[m]
    BY DEF Reduce, Folds
  <2>2. Folds(f, v, records, m)
    <3> HIDE DEF records, m
    <3> QED
      BY <1>2, FoldExists
  <2> QED
    BY <2>1, <2>2
<1> HIDE DEF records, m, w, end
<1>4. \A n \in 0..m : after[n] = IF n = 0 THEN v
                                 ELSE IF after[n - 1] = Nothing \/ ~Fits(after[n - 1], records[n]) THEN Nothing
                                 ELSE Reduced(after[n - 1], records[n])
  BY <1>3 DEF Folds
<1> DEFINE right(k) == IsView(after[k]) /\ after[k].seq = v.seq + k /\ IsViewOf(after[k], v.seq + k)
           good == {k \in Nat : k <= m /\ after[k] # Nothing => right(k)}
<1>5. 0 \in good
  BY <1>1, <1>2, <1>4
<1>6. ASSUME NEW k \in Nat, k \in good PROVE k + 1 \in good
  <2> SUFFICES ASSUME k + 1 <= m, after[k + 1] # Nothing PROVE right(k + 1)
    OBVIOUS
  <2>1. k + 1 \in 0..m /\ k + 1 # 0 /\ k + 1 - 1 = k /\ k <= m /\ k + 1 \in 1..m
    BY <1>2
  <2>2. after[k + 1] = IF after[k] = Nothing \/ ~Fits(after[k], records[k + 1]) THEN Nothing
                       ELSE Reduced(after[k], records[k + 1])
    BY <1>4, <2>1
  <2>3. after[k] # Nothing /\ Fits(after[k], records[k + 1]) /\ after[k + 1] = Reduced(after[k], records[k + 1])
    BY <2>2
  <2>4. IsView(after[k]) /\ after[k].seq = v.seq + k /\ IsViewOf(after[k], after[k].seq)
    BY <1>6, <2>1, <2>3
  <2>5. records[k + 1] = log[after[k].seq + 1] /\ after[k].seq < Len(log)
    BY <1>1, <1>2, <2>1, <2>4
  <2> DEFINE u == Reduced(after[k], log[after[k].seq + 1])
  <2>6. IsView(u) /\ u.seq = after[k].seq + 1 /\ IsViewOf(u, after[k].seq + 1)
    BY <2>3, <2>4, <2>5, OneMore
  <2>7. v.seq + k + 1 = v.seq + (k + 1)
    BY <1>1
  <2> QED
    BY <2>3, <2>4, <2>5, <2>6, <2>7
<1>7. m \in good
  <2> HIDE DEF good
  <2> QED
    BY <1>2, <1>5, <1>6, Induction
<1>8. right(m)
  <2>1. after[m] # Nothing
    BY <1>3 DEF w, records
  <2> QED
    BY <1>2, <1>7, <2>1
<1>9. IsView(w) /\ w.seq = end /\ IsViewOf(w, w.seq)
  <2>1. v.seq + m = end
    BY <1>1, <1>2
  <2> QED
    BY <1>3, <1>8, <2>1
<1>10. Len(records) < PageSize => end = Len(log)
  <2>1. m < PageSize => end = Len(log)
    BY <1>1, <1>2 DEF end
  <2> QED
    BY <2>1 DEF m
<1> QED
  BY <1>1, <1>2, <1>9, <1>10 DEF Shows, LastPage, w, records
\* Appending leaves what a view shows of the facts before as it is.
LogGrows ==
  /\ log' \in Seq(Fact) /\ Len(log) \in Nat /\ Len(log') \in Nat /\ Len(log) <= Len(log')
  /\ \A i \in 1..Len(log) : log'[i] = log[i]

LEMMA ShowsStays ==
  ASSUME LogGrows, NEW v, Shows(v)
  PROVE  Shows(v)'
<1> DEFINE n == v.seq
<1>1. n \in Nat /\ n <= Len(log) /\ IsView(v) /\ IsViewOf(v, n) /\ n <= Len(log')
  BY DEF Shows, IsView, LogGrows
<1>2. \A i \in 1..n : log'[i] = log[i]
  BY <1>1 DEF LogGrows
<1> HIDE DEF n
<1>3. \A K : FactsOf(n, K)' = FactsOf(n, K) /\ FactsOf(n, K) \subseteq 1..n
  BY <1>2 DEF FactsOf
<1>4. \A names, of, entry : Says(entry, n, names, of) => Says(entry, n, names, of)'
  <2> SUFFICES ASSUME NEW names, NEW of, NEW entry, Says(entry, n, names, of) PROVE Says(entry, n, names, of)'
    OBVIOUS
  <2>1. \A i \in 1..n : \A j \in i + 1..n : j \in 1..n
    BY <1>1
  <2>2. LastAbout(n, DOMAIN names, of)' = LastAbout(n, DOMAIN names, of)
    BY <1>2, <2>1 DEF LastAbout
  <2>3. LastAbout(n, DOMAIN names, of) \subseteq 1..n
    BY DEF LastAbout
  <2> QED
    BY <1>2, <2>2, <2>3 DEF Says
<1>5. \A list, kind : InOrder(list, n, kind) => InOrder(list, n, kind)'
  <2> SUFFICES ASSUME NEW list, NEW kind, InOrder(list, n, kind) PROVE InOrder(list, n, kind)'
    OBVIOUS
  <2>1. FactsOf(n, {kind})' = FactsOf(n, {kind}) /\ FactsOf(n, {kind}) \subseteq 1..n
    BY <1>3
  <2> QED
    BY <1>2, <2>1 DEF InOrder
<1>6. IsViewOf(v, n)'
  <2>1. \A i \in FactsOf(n, DOMAIN RunStatus)' :
          (\A j \in FactsOf(n, DOMAIN RunStatus)' : j <= i) => v.status = SessionStatus(log'[i].kind)
    BY <1>1, <1>2, <1>3 DEF IsViewOf
  <2>2. \A i \in 1..n : (log'[i].kind = "todo.updated" /\ \A j \in i + 1..n : log'[j].kind # "todo.updated")
                           => v.todos = log'[i].of
    <3>1. \A i \in 1..n : \A j \in i + 1..n : j \in 1..n
      BY <1>1
    <3> QED
      BY <1>1, <1>2, <3>1 DEF IsViewOf
  <2>3. v.tokens = Total([i \in FactsOf(n, {"usage.updated"})' |-> log'[i].of]) /\ v.tokens <= MaxTokens
    <3>1. [i \in FactsOf(n, {"usage.updated"})' |-> log'[i].of] = [i \in FactsOf(n, {"usage.updated"}) |-> log[i].of]
      BY <1>2, <1>3
    <3> QED
      BY <1>1, <3>1 DEF IsViewOf
  <2>4. v.seq = n /\ (\A r \in Runs : Says(v.runs[r], n, RunStatus, r)')
        /\ (\A c \in Calls : Says(v.tools[c], n, ToolPhase, c)') /\ (\A kind \in Listed : InOrder(v.lists[kind], n, kind)')
    BY <1>1, <1>4, <1>5 DEF IsViewOf, n
  <2> QED
    BY <2>1, <2>2, <2>3, <2>4 DEF IsViewOf
<1> QED
  BY <1>1, <1>6 DEF Shows, n

\* What is there before anything is read shows nothing of the log.
LEMMA BaseShows ==
  ASSUME log \in Seq(Fact), NEW status
  PROVE  Shows(Base(status))
<1> DEFINE v == Base(status)
<1>1. IsView(v) /\ v.seq = 0 /\ v.tokens = 0
  BY DEF Base, IsView
<1>2. 1..0 = {} /\ \A K : FactsOf(0, K) = {}
  BY DEF FactsOf
<1>3. (\A r \in Runs : Says(v.runs[r], 0, RunStatus, r)) /\ (\A c \in Calls : Says(v.tools[c], 0, ToolPhase, c))
  BY <1>2 DEF Base, Says, LastAbout
<1>4. \A kind \in Listed : InOrder(v.lists[kind], 0, kind)
  BY <1>2, FS_EmptySet DEF Base, InOrder
<1>5. Total([i \in FactsOf(0, {"usage.updated"}) |-> log[i].of]) = 0
  <2> DEFINE f == [i \in FactsOf(0, {"usage.updated"}) |-> log[i].of]
  <2>1. DOMAIN f = {}
    BY <1>2
  <2> HIDE DEF f
  <2>2. Total(f) = 0
    BY <2>1, TotalEmpty
  <2> QED
    BY <2>2 DEF f
<1>6. 0 <= MaxTokens /\ 0 <= Len(log)
  BY ViewBounds
<1> HIDE DEF v
<1>7. IsViewOf(v, 0)
  BY <1>1, <1>2, <1>3, <1>4, <1>5, <1>6 DEF IsViewOf
<1> QED
  BY <1>1, <1>6, <1>7 DEF Shows, v

LEMMA ViewInitiallyHolds == ViewInit => ViewInv
BY DEF ViewInit, ViewInv, ViewShapes, ReadingShape, ReadersAreRight, ReadingIsRight, SnapshotIsRight, Rest, Nothing

\* A reader's step leaves the log alone.
LEMMA OneReads ==
  ASSUME ViewInv, NEW p \in Reader, NEW next, ReaderGoes(p, next), UNCHANGED <<log, row>>,
         ReadingShape(next), Present => ReadingIsRight(next),
         snapshot' # Nothing => DOMAIN snapshot' = {"kind", "valid", "view"} /\ Present /\ Shows(snapshot'.view)
  PROVE  ViewInv'
<1>1. \A q \in Reader : reader'[q] = IF q = p THEN next ELSE reader[q]
  BY DEF ReaderGoes, ViewInv, ViewShapes
<1>2. DOMAIN reader' = Reader
  BY DEF ReaderGoes, ViewInv, ViewShapes
<1>3. \A v : Shows(v)' <=> Shows(v)
  BY DEF Shows, IsViewOf, Says, LastAbout, InOrder, FactsOf
<1>4. Present' <=> Present
  BY DEF Present
<1>5. ViewShapes'
  BY <1>1, <1>2 DEF ViewInv, ViewShapes
<1>6. ReadersAreRight'
  <2> SUFFICES ASSUME Present, NEW q \in Reader PROVE \A r : r = reader'[q] => ReadingIsRight(r)'
    BY <1>4 DEF ReadersAreRight
  <2> TAKE r
  <2> HAVE r = reader'[q]
  <2>1. ReadingIsRight(r)
    BY <1>1 DEF ViewInv, ReadersAreRight
  <2> QED
    BY <1>3, <2>1 DEF ReadingIsRight
<1>7. SnapshotIsRight'
  <2>1. \A s : s = snapshot' /\ s # Nothing => Present' /\ Shows(s.view)'
    BY <1>3, <1>4
  <2> QED
    BY <2>1 DEF SnapshotIsRight
<1> QED
  BY <1>5, <1>6, <1>7 DEF ViewInv

LEMMA GivesKeeps ==
  ASSUME ViewInv, NEW p \in Reader, Gives(p), UNCHANGED <<log, row, snapshot>>
  PROVE  ViewInv'
<1>1. ReadingShape(Rest) /\ ReadingIsRight(Rest)
  BY DEF ReadingShape, ReadingIsRight, Rest
<1>2. snapshot' # Nothing => DOMAIN snapshot' = {"kind", "valid", "view"} /\ Present /\ Shows(snapshot'.view)
  BY DEF ViewInv, ViewShapes, SnapshotIsRight
<1> QED
  BY <1>1, <1>2, OneReads DEF Gives

\* The rest of the log's writers leave the readers alone.
LEMMA OneWrites ==
  ASSUME ViewInv, UNCHANGED reader, LogGrows, Present,
         snapshot' # Nothing => Present' /\ DOMAIN snapshot' = {"kind", "valid", "view"} /\ snapshot # Nothing
                                  /\ snapshot'.view = snapshot.view
  PROVE  ViewInv'
<1>1. \A v : Shows(v) => Shows(v)'
  BY ShowsStays
<1>2. ViewShapes'
  BY DEF ViewInv, ViewShapes, LogGrows
<1>3. \A r : ReadingShape(r) /\ ReadingIsRight(r) => ReadingIsRight(r)'
  <2> SUFFICES ASSUME NEW r, ReadingShape(r), ReadingIsRight(r) PROVE ReadingIsRight(r)'
    OBVIOUS
  <2>1. r.at # "rest" => r.asOf <= Len(log)'
    BY DEF ReadingIsRight, ReadingShape, LogGrows
  <2> QED
    BY <1>1, <2>1 DEF ReadingIsRight
<1>4. ReadersAreRight'
  <2> SUFFICES ASSUME NEW q \in Reader PROVE \A r : r = reader[q] => ReadingIsRight(r)'
    BY DEF ReadersAreRight
  <2>1. ReadingShape(reader[q]) /\ ReadingIsRight(reader[q])
    BY DEF ViewInv, ViewShapes, ReadersAreRight
  <2> QED
    BY <1>3, <2>1
<1>5. SnapshotIsRight'
  <2>1. snapshot' # Nothing => Shows(snapshot.view)
    BY DEF ViewInv, SnapshotIsRight
  <2>2. \A v : v = snapshot.view => (snapshot' # Nothing => Shows(v)')
    BY <1>1, <2>1
  <2>3. \A v : v = snapshot'.view => (snapshot' # Nothing => Shows(v)')
    BY <2>2
  <2> QED
    BY <2>3 DEF SnapshotIsRight
<1> QED
  BY <1>2, <1>4, <1>5 DEF ViewInv
LEMMA ReaderKeeps ==
  ASSUME ViewInv, NEW p \in Reader, ReaderStep(p)
  PROVE  ViewInv'
<1> USE DEF ReaderAt
<1>1. /\ ReadingShape(reader[p]) /\ (Present => ReadingIsRight(reader[p])) /\ log \in Seq(Fact)
      /\ (snapshot # Nothing => DOMAIN snapshot = {"kind", "valid", "view"} /\ Present /\ Shows(snapshot.view))
  BY DEF ViewInv, ViewShapes, ReadersAreRight, SnapshotIsRight
<1>2. ASSUME NEW reading, Begins(p, reading), UNCHANGED <<log, row, snapshot>>,
             reading.at \in {"base", "discard first"}, reading.asOf = Len(log),
             DOMAIN reading = {"at", "for", "asOf", "expected", "view"}
      PROVE  ViewInv'
  <2>1. Len(log) \in Nat /\ Len(log) <= Len(log)
    BY <1>1
  <2>2. ReadingShape(reading) /\ ReadingIsRight(reading)
    BY <1>2, <2>1 DEF ReadingShape, ReadingIsRight
  <2>3. ReaderGoes(p, reading)
    BY <1>2 DEF Begins
  <2> QED
    BY <1>1, <1>2, <2>2, <2>3, OneReads
<1>3. CASE BeginView(p)
  <2> DEFINE reading == Underway("base", "show", Len(log), 0, Nothing)
  <2>1. reading.at = "base" /\ reading.asOf = Len(log) /\ DOMAIN reading = {"at", "for", "asOf", "expected", "view"}
    BY DEF Underway
  <2>2. Begins(p, reading) /\ UNCHANGED <<log, row, snapshot>>
    BY <1>3 DEF BeginView
  <2> HIDE DEF reading
  <2> QED
    BY <1>2, <2>1, <2>2
<1>4. CASE BeginRefresh(p)
  <2> DEFINE reading == Underway(IF snapshot = Nothing \/ Readable THEN "base" ELSE "discard first", "save", Len(log),
                                 IF Readable THEN snapshot.view.seq ELSE 0, Nothing)
  <2>1. /\ reading.at \in {"base", "discard first"} /\ reading.asOf = Len(log)
        /\ DOMAIN reading = {"at", "for", "asOf", "expected", "view"}
    BY DEF Underway
  <2>2. Begins(p, reading) /\ UNCHANGED <<log, row, snapshot>>
    BY <1>4 DEF BeginRefresh
  <2> HIDE DEF reading
  <2> QED
    BY <1>2, <2>1, <2>2
<1>5. CASE LoadBase(p)
  <2> DEFINE next == [reader[p] EXCEPT !.at = "snapshot", !.view = Base(row)]
  <2>1. CASE Present
    <3>1. Shows(Base(row))
      BY <1>1, BaseShows
    <3>2. /\ next.at = "snapshot" /\ next.view = Base(row) /\ next.asOf = reader[p].asOf
          /\ DOMAIN next = {"at", "for", "asOf", "expected", "view"}
      BY <1>1, <1>5 DEF LoadBase, ReadingShape
    <3>3. ReaderGoes(p, next)
      BY <1>5, <2>1 DEF LoadBase
    <3> HIDE DEF next
    <3>4. ReadingShape(next) /\ ReadingIsRight(next)
      BY <1>1, <1>5, <2>1, <3>1, <3>2 DEF LoadBase, ReadingShape, ReadingIsRight
    <3> QED
      BY <1>1, <1>5, <3>3, <3>4, OneReads DEF LoadBase
  <2>2. CASE ~Present
    BY <1>5, <2>2, GivesKeeps DEF LoadBase
  <2> QED
    BY <2>1, <2>2
<1>6. CASE LoadSnapshot(p)
  <2> DEFINE next == IF Readable THEN [reader[p] EXCEPT !.at = "page", !.view = snapshot.view]
                     ELSE IF snapshot = Nothing THEN [reader[p] EXCEPT !.at = "page"]
                     ELSE [reader[p] EXCEPT !.at = "discard"]
  <2>1. /\ next.at \in {"page", "discard"} /\ next.asOf = reader[p].asOf
        /\ next.view = IF Readable THEN snapshot.view ELSE reader[p].view
        /\ DOMAIN next = {"at", "for", "asOf", "expected", "view"}
    BY <1>1, <1>6 DEF LoadSnapshot, ReadingShape
  <2>2. ReaderGoes(p, next) /\ UNCHANGED <<log, row, snapshot>> /\ reader[p].at = "snapshot"
    BY <1>6 DEF LoadSnapshot
  <2> HIDE DEF next
  <2>3. ReadingShape(next) /\ (Present => ReadingIsRight(next))
    BY <1>1, <2>1, <2>2 DEF ReadingShape, ReadingIsRight, Readable
  <2> QED
    BY <1>1, <2>2, <2>3, OneReads
<1>7. CASE DiscardSnapshot(p)
  <2>1. ASSUME NEW at, at \in {"page", "base"}, reader[p].at # "rest",
               at = "page" => reader[p].at = "discard",
               ReaderGoes(p, [reader[p] EXCEPT !.at = at]), UNCHANGED <<log, row>>, snapshot' = Nothing
        PROVE  ViewInv'
    <3> DEFINE next == [reader[p] EXCEPT !.at = at]
    <3>1. /\ next.at = at /\ next.asOf = reader[p].asOf /\ next.view = reader[p].view
          /\ DOMAIN next = {"at", "for", "asOf", "expected", "view"}
      BY <1>1, <2>1 DEF ReadingShape
    <3>2. ReaderGoes(p, next)
      BY <2>1
    <3> HIDE DEF next
    <3>3. ReadingShape(next) /\ (Present => ReadingIsRight(next))
      BY <1>1, <2>1, <3>1 DEF ReadingShape, ReadingIsRight
    <3> QED
      BY <2>1, <3>2, <3>3, OneReads
  <2> QED
    BY <1>7, <2>1 DEF DiscardSnapshot
<1>8. CASE LoadPage(p)
  <2> DEFINE records == LogPage(reader[p].view.seq)
             view    == Reduce(reader[p].view, records)
             to      == IF ~LastPage(records) THEN "page" ELSE IF reader[p].for = "save" THEN "save" ELSE "given"
             next    == [reader[p] EXCEPT !.at = to, !.view = view]
  <2>1. UNCHANGED <<log, row, snapshot>> /\ reader[p].at = "page"
    BY <1>8 DEF LoadPage
  <2>2. CASE view = Nothing
    <3>1. Gives(p)
      BY <1>8, <2>2 DEF LoadPage
    <3> QED
      BY <2>1, <3>1, GivesKeeps
  <2>3. CASE view # Nothing
    <3>1. ~LastPage(records) => next = [reader[p] EXCEPT !.view = view]
      <4>1. \A r, w : r.at = "page" /\ "at" \in DOMAIN r => [r EXCEPT !.at = "page", !.view = w] = [r EXCEPT !.view = w]
        OBVIOUS
      <4> QED
        BY <1>1, <2>1, <4>1 DEF ReadingShape
    <3>2. ReaderGoes(p, next)
      BY <1>8, <2>3, <3>1 DEF LoadPage
    <3>3. /\ next.at = to /\ next.asOf = reader[p].asOf /\ next.view = view
          /\ DOMAIN next = {"at", "for", "asOf", "expected", "view"}
      BY <1>1, <2>1 DEF ReadingShape
    <3>4. Present => Shows(view) /\ (LastPage(records) => view.seq = Len(log))
      BY <1>1, <2>1, <2>3, ReducePage DEF ReadingIsRight
    <3>5. to \in {"page", "save", "given"} /\ (to # "page" => LastPage(records))
      OBVIOUS
    <3> HIDE DEF records, view, to, next
    <3>6. ReadingShape(next) /\ (Present => ReadingIsRight(next))
      BY <1>1, <2>1, <3>3, <3>4, <3>5 DEF ReadingShape, ReadingIsRight
    <3> QED
      BY <1>1, <2>1, <3>2, <3>6, OneReads
  <2> QED
    BY <2>2, <2>3
<1>9. CASE SaveSnapshot(p)
  <2>1. CASE Saves(reader[p])
    <3>1. /\ snapshot' = [kind |-> "snapshot", valid |-> TRUE, view |-> reader[p].view]
          /\ reader[p].at = "save" /\ Gives(p) /\ UNCHANGED <<log, row>>
      BY <1>9, <2>1 DEF SaveSnapshot
    <3>2. Present /\ Shows(reader[p].view)
      BY <1>1, <2>1, <3>1 DEF Saves, ReadingIsRight
    <3>3. ReadingShape(Rest) /\ ReadingIsRight(Rest)
      BY DEF ReadingShape, ReadingIsRight, Rest
    <3>4. DOMAIN snapshot' = {"kind", "valid", "view"} /\ snapshot'.view = reader[p].view
      BY <3>1
    <3> QED
      BY <3>1, <3>2, <3>3, <3>4, OneReads DEF Gives
  <2>2. CASE ~Saves(reader[p])
    BY <1>9, <2>2, GivesKeeps DEF SaveSnapshot
  <2> QED
    BY <2>1, <2>2
<1>10. CASE Leave(p)
  BY <1>10, GivesKeeps DEF Leave
<1> QED
  BY <1>3, <1>4, <1>5, <1>6, <1>7, <1>8, <1>9, <1>10 DEF ReaderStep

\* Whatever is written, the log that was there is its beginning.
LEMMA LogKeeps ==
  ASSUME ViewInv, AppendToLog \/ RejectSession \/ SpoilSnapshot \/ DeleteSession
  PROVE  ViewInv'
<1>1. log \in Seq(Fact) /\ (snapshot # Nothing => DOMAIN snapshot = {"kind", "valid", "view"} /\ Present)
  BY DEF ViewInv, ViewShapes, SnapshotIsRight
<1>2. CASE AppendToLog
  <2>1. PICK fact \in Fact : log' = Append(log, fact) /\ row' = IF fact.kind \in DOMAIN RunStatus THEN SessionStatus(fact.kind) ELSE row
    BY <1>2 DEF AppendToLog
  <2>2. LogGrows
    BY <1>1, <2>1 DEF LogGrows
  <2>3. Present'
    BY <1>2, <2>1 DEF AppendToLog, Present, SessionStatus, RunStatus
  <2> QED
    BY <1>1, <1>2, <2>2, <2>3, OneWrites DEF AppendToLog
<1>3. CASE RejectSession
  <2>1. LogGrows /\ Present'
    BY <1>1, <1>3 DEF LogGrows, RejectSession, Present
  <2> QED
    BY <1>1, <1>3, <2>1, OneWrites DEF RejectSession
<1>4. CASE SpoilSnapshot
  <2>1. LogGrows /\ Present' /\ Present /\ snapshot # Nothing
    BY <1>1, <1>4 DEF LogGrows, SpoilSnapshot, Present, Readable
  <2>2. DOMAIN snapshot' = {"kind", "valid", "view"} /\ snapshot'.view = snapshot.view
    BY <1>1, <1>4, <2>1 DEF SpoilSnapshot
  <2> QED
    BY <1>4, <2>1, <2>2, OneWrites DEF SpoilSnapshot
<1>5. CASE DeleteSession
  <2>1. ~Present' /\ log' = <<>> /\ snapshot' = Nothing /\ UNCHANGED reader
    BY <1>5 DEF DeleteSession, Present
  <2> QED
    BY <2>1 DEF ViewInv, ViewShapes, ReadersAreRight, SnapshotIsRight
<1> QED
  BY <1>2, <1>3, <1>4, <1>5

\* What is read of a session is a beginning of its log.
THEOREM ViewInvariant == ViewSpec => []ViewInv
<1>1. ViewInv /\ [ViewNext]_viewVars => ViewInv'
  <2> SUFFICES ASSUME ViewInv, [ViewNext]_viewVars PROVE ViewInv'
    OBVIOUS
  <2>1. CASE UNCHANGED viewVars
    <3>1. \A v : Shows(v)' <=> Shows(v)
      BY <2>1 DEF viewVars, Shows, IsViewOf, Says, LastAbout, InOrder, FactsOf
    <3>2. \A r : ReadingIsRight(r)' <=> ReadingIsRight(r)
      BY <2>1, <3>1 DEF viewVars, ReadingIsRight
    <3>3. SnapshotIsRight'
      <4>1. \A v : v = snapshot.view => (Shows(v)' <=> Shows(v))
        BY <3>1
      <4> QED
        BY <2>1, <4>1 DEF viewVars, ViewInv, SnapshotIsRight, Present
    <3>4. ReadersAreRight'
      <4>1. \A q \in Reader : \A r : r = reader[q] => (ReadingIsRight(r)' <=> ReadingIsRight(r))
        BY <3>2
      <4> QED
        BY <2>1, <4>1 DEF viewVars, ViewInv, ReadersAreRight, Present
    <3> QED
      BY <2>1, <3>3, <3>4 DEF viewVars, ViewInv, ViewShapes
  <2> QED
    BY <2>1, ReaderKeeps, LogKeeps DEF ViewNext
<1> QED
  BY <1>1, ViewInitiallyHolds, PTL DEF ViewSpec

\* Whatever snapshot a view started from and whatever was written meanwhile,
\* the view that is given shows the log; so does every snapshot.
THEOREM ViewsShowTheLog == ViewSpec => []ViewIsTheLog
<1>1. ViewInv => ViewIsTheLog
  BY DEF ViewInv, ViewShapes, ReadingShape, ReadersAreRight, ReadingIsRight, SnapshotIsRight, ViewIsTheLog, ReaderAt, Shows, IsView
<1> QED
  BY <1>1, ViewInvariant, PTL

\* A snapshot is replaced only by the process that saw it, and by a view of
\* no less of the log.
THEOREM OlderSnapshotsLose == ViewSpec => SnapshotsAdvance
<1>1. ViewInv /\ [ViewNext]_viewVars => [(snapshot # Nothing /\ snapshot' # Nothing) => snapshot'.view.seq >= snapshot.view.seq]_viewVars
  <2> SUFFICES ASSUME ViewInv, ViewNext, snapshot # Nothing, snapshot' # Nothing
               PROVE  snapshot'.view.seq >= snapshot.view.seq
    BY DEF viewVars
  <2>1. snapshot.view.seq \in Nat /\ DOMAIN snapshot = {"kind", "valid", "view"}
    BY DEF ViewInv, ViewShapes, SnapshotIsRight, Shows, IsView
  <2>2. UNCHANGED snapshot => snapshot'.view.seq >= snapshot.view.seq
    BY <2>1
  <2>3. ASSUME NEW p \in Reader, SaveSnapshot(p), Saves(reader[p]) PROVE snapshot'.view.seq >= snapshot.view.seq
    <3>1. snapshot' = [kind |-> "snapshot", valid |-> TRUE, view |-> reader[p].view]
      BY <2>3 DEF SaveSnapshot
    <3>2. snapshot'.view.seq = reader[p].view.seq /\ snapshot.view.seq = reader[p].expected
      BY <2>3, <3>1 DEF Saves, Position
    <3> QED
      BY <2>3, <3>2 DEF Saves
  <2>4. ASSUME NEW p \in Reader, ReaderStep(p) PROVE snapshot'.view.seq >= snapshot.view.seq
    BY <2>2, <2>3, <2>4 DEF ReaderStep, BeginView, BeginRefresh, LoadBase, LoadSnapshot, DiscardSnapshot, LoadPage, SaveSnapshot, Leave
  <2>5. SpoilSnapshot => snapshot'.view = snapshot.view
    BY <2>1 DEF SpoilSnapshot
  <2> QED
    BY <2>1, <2>2, <2>4, <2>5 DEF ViewNext, AppendToLog, RejectSession, DeleteSession
<1> QED
  BY <1>1, ViewInvariant, PTL DEF ViewSpec, SnapshotsAdvance

-----------------------------------------------------------------------------
(***************************************************************************)
(* SessionContext: the messages have their files, the model is shown the    *)
(* whole conversation and reads a replaced source in order, for any         *)
(* processes, contents, cuts and page sizes.                                *)
(***************************************************************************)

Roles == {"user", "assistant", "tool"}
Names == {Inline} \cup (Nat \X Text)

\* Where a process has a file of its own.
FileSteps == {"staged", "cleanup"}

\* A staged file is there, young and without a row; what is old by now and has
\* a row was registered already when the rows were listed.
AgentFiles(k) ==
  /\ k.at \in FileSteps => "file" \in DOMAIN k /\ k.file \in Names
  /\ k.at \in FileSteps /\ exists => k.file \in files \ (old \cup Registered)
  /\ k.at = "listed" /\ exists => Registered \cap old \subseteq k.registered
  /\ k.at = "deleting" => ~exists

\* What a run holds: the messages after the summary it goes on from.
TurnIsWhole(turn) ==
  /\ DOMAIN turn = {"run", "last", "covers", "window"} /\ turn.last \in Nat
  /\ exists => turn.last <= Len(messages)
  /\ \E end \in Nat :
       /\ end >= 1 /\ (end = 1 \/ end <= turn.last)
       /\ turn.covers = 2..end /\ turn.window = Window(end, turn.last)
       /\ exists /\ end > 1 => end < Len(messages) /\ messages[end + 1].role # "tool"

\* A cut leaves a part of the window, which no tool's answer begins.
CutIsFair(turn, cut) ==
  /\ cut \in 2..Len(turn.window) - 1
  /\ exists => messages[turn.window[cut + 1]].role # "tool"

TurnSteps == {"planned", "running", "staged", "cleanup", "compacting", "recorded", "reading"}

AgentTurn(k) ==
  /\ k.at \in TurnSteps => "turn" \in DOMAIN k /\ TurnIsWhole(k.turn)
  /\ k.at \in FileSteps => k.turn.last < MaxMessages
  /\ k.at = "inspected" => k.last \in Nat /\ (exists => k.last <= Len(messages))
  /\ k.at \in {"compacting", "recorded"} => "cut" \in DOMAIN k /\ CutIsFair(k.turn, k.cut)

\* The bytes of the first messages of a source.
FirstBytes(n) == Total([i \in 1..n |-> Bytes[i]])

\* Where a reader is: so many messages and a part of the next.
ReadTo(offset, byte) ==
  /\ offset \in 0..MaxMessages /\ byte \in Nat
  /\ byte > 0 => offset < MaxMessages /\ byte < Bytes[offset + 1]

\* What was read of a source is its beginning, byte by byte.
AgentReads(k) ==
  k.at = "reading" =>
    /\ DOMAIN k = {"at", "turn", "offset", "byte", "got", "of"}
    /\ ReadTo(k.offset, k.byte) /\ k.got = FirstBytes(k.offset) + k.byte
    /\ k.of # NoSummary => k.offset < Count(k.of)

AgentWell(k) == "at" \in DOMAIN k /\ AgentFiles(k) /\ AgentTurn(k) /\ AgentReads(k)

StoredWell ==
  /\ messages \in Seq([role : Roles, file : Names]) /\ Len(messages) <= MaxMessages
  /\ old \subseteq files /\ Registered \subseteq files
  /\ summary.end \in Nat /\ summary.end >= 1 /\ summary.of = 2..summary.end
  /\ exists /\ summary # NoSummary =>
       summary.end > 1 /\ summary.end < Len(messages) /\ messages[summary.end + 1].role # "tool"
  /\ ~exists => messages = <<>>

ContextInv ==
  /\ StoredWell
  /\ DOMAIN agent = Agent /\ \A a \in Agent : AgentWell(agent[a])
  /\ \A a, b \in Agent : exists /\ a # b /\ agent[a].at \in FileSteps /\ agent[b].at \in FileSteps
                           => agent[a].file # agent[b].file

LEMMA ContextInitially == ContextInit => ContextInv
<1> SUFFICES ASSUME ContextInit PROVE ContextInv
  OBVIOUS
<1>1. messages = <<>> /\ files = {} /\ old = {} /\ exists /\ agent = [a \in Agent |-> Out] /\ summary = NoSummary
  BY DEF ContextInit
<1>2. Registered = {}
  BY <1>1 DEF Registered
<1>3. AgentWell(Out)
  BY DEF AgentWell, AgentFiles, AgentTurn, AgentReads, Out, FileSteps, TurnSteps
<1>4. StoredWell
  BY <1>1, <1>2, ContextBounds DEF StoredWell, NoSummary, SourceStart
<1>5. \A a \in Agent : agent[a].at \notin FileSteps
  BY <1>1 DEF Out, FileSteps
<1> QED
  BY <1>1, <1>3, <1>4, <1>5 DEF ContextInv

LEMMA RoleTyped ==
  ASSUME StoredWell
  PROVE  MayFollow[LastRole] \subseteq Roles
<1>1. LastRole \in {"none"} \cup Roles
  <2>1. CASE messages = <<>>
    BY <2>1 DEF LastRole
  <2>2. CASE messages # <<>>
    <3> DEFINE Entries == [role : Roles, file : Names]
    <3>1. messages \in Seq(Entries)
      BY DEF StoredWell
    <3>2. messages[Len(messages)] \in Entries
      <4> HIDE DEF Entries
      <4>1. Len(messages) \in DOMAIN messages
        BY <2>2, <3>1
      <4> QED
        BY <3>1, <4>1
    <3> QED
      BY <2>2, <3>2 DEF LastRole
  <2> QED
    BY <2>1, <2>2
<1>2. DOMAIN MayFollow = {"none", "user", "assistant", "tool"} /\ \A r \in DOMAIN MayFollow : MayFollow[r] \subseteq Roles
  BY DEF MayFollow, Roles
<1> QED
  BY <1>1, <1>2 DEF Roles

\* What a step does is of no harm to what the other processes hold.
OthersKeep(a) == \A k : AgentWell(k) => AgentWell(k)' \/ \A b \in Agent : b # a => agent[b] # k

NoneHas(a, file) == exists => \A b \in Agent : b # a /\ agent[b].at \in FileSteps => agent[b].file # file

LEMMA AgentMoves ==
  ASSUME ContextInv, NEW a \in Agent, NEW to, Becomes(a, to), AgentWell(to)',
         OthersKeep(a), to.at \in FileSteps => NoneHas(a, to.file), StoredWell', exists' => exists
  PROVE  ContextInv'
<1>1. \A b \in Agent : agent'[b] = IF b = a THEN to ELSE agent[b]
  BY DEF ContextInv, Becomes
<1>2. \A b \in Agent : AgentWell(agent[b])
  BY DEF ContextInv
<1>3. \A b \in Agent : \A k : k = agent'[b] => AgentWell(k)'
  BY <1>1, <1>2 DEF OthersKeep
<1>4. DOMAIN agent' = Agent
  BY DEF ContextInv, Becomes
<1>5. \A b, c \in Agent : exists' /\ b # c /\ agent'[b].at \in FileSteps /\ agent'[c].at \in FileSteps
                            => agent'[b].file # agent'[c].file
  BY <1>1 DEF ContextInv, NoneHas
<1> QED
  BY <1>3, <1>4, <1>5 DEF ContextInv

\* The window of a run: the first message and those after the summary.
LEMMA WindowIs ==
  ASSUME NEW end \in Nat, NEW last \in Nat, end >= 1, end = 1 \/ end <= last
  PROVE  /\ Window(end, last) \in Seq(Nat)
         /\ Len(Window(end, last)) = IF last = 0 THEN 0 ELSE last - end + 1
         /\ last > 0 => Window(end, last)[1] = 1
         /\ \A i \in 1..last - end : Window(end, last)[i + 1] = end + i
<1>1. CASE last = 0
  BY <1>1 DEF Window
<1>2. CASE last > 0
  <2> DEFINE rest == [i \in 1..(last - end) |-> end + i]
  <2>1. rest \in Seq(Nat) /\ Len(rest) = last - end /\ \A i \in 1..last - end : rest[i] = end + i
    <3>1. last - end \in Nat
      BY <1>2
    <3>2. \A i \in 1..last - end : end + i \in Nat
      BY <1>2
    <3> QED
      BY <3>1, <3>2
  <2>2. Window(end, last) = <<1>> \o rest
    BY <1>2 DEF Window
  <2> HIDE DEF rest
  <2> QED
    BY <1>2, <2>1, <2>2
<1> QED
  BY <1>1, <1>2

\* What the messages that are there keep saying of a run.
MessagesKept ==
  exists' => exists /\ Len(messages) \in Nat /\ Len(messages') \in Nat /\ Len(messages) <= Len(messages')
               /\ \A i \in 1..Len(messages) : messages'[i] = messages[i]

LEMMA TurnsStay ==
  ASSUME MessagesKept
  PROVE  \A k : AgentTurn(k) => AgentTurn(k)'
<1>1. \A turn : TurnIsWhole(turn) => TurnIsWhole(turn)'
  <2> SUFFICES ASSUME NEW turn, TurnIsWhole(turn) PROVE TurnIsWhole(turn)'
    OBVIOUS
  <2>1. PICK end \in Nat : /\ end >= 1 /\ (end = 1 \/ end <= turn.last)
                           /\ turn.covers = 2..end /\ turn.window = Window(end, turn.last)
                           /\ exists /\ end > 1 => end < Len(messages) /\ messages[end + 1].role # "tool"
    BY DEF TurnIsWhole
  <2>2. exists' /\ end > 1 => end < Len(messages') /\ messages'[end + 1].role # "tool"
    BY <2>1 DEF MessagesKept
  <2>3. exists' => turn.last <= Len(messages')
    BY DEF TurnIsWhole, MessagesKept
  <2> QED
    BY <2>1, <2>2, <2>3 DEF TurnIsWhole
<1>2. \A turn, cut : TurnIsWhole(turn) /\ CutIsFair(turn, cut) => CutIsFair(turn, cut)'
  <2> SUFFICES ASSUME NEW turn, NEW cut, TurnIsWhole(turn), CutIsFair(turn, cut), exists'
               PROVE  messages'[turn.window[cut + 1]].role # "tool"
    BY DEF CutIsFair
  <2>1. PICK end \in Nat, last \in Nat : last = turn.last /\ end >= 1 /\ (end = 1 \/ end <= last) /\ turn.window = Window(end, last)
    BY DEF TurnIsWhole
  <2>2. exists /\ last <= Len(messages) /\ cut \in 2..Len(turn.window) - 1
    BY <2>1 DEF TurnIsWhole, CutIsFair, MessagesKept
  <2>3. /\ Len(turn.window) = IF last = 0 THEN 0 ELSE last - end + 1
        /\ \A i \in 1..last - end : turn.window[i + 1] = end + i
    <3>1. end >= 1 /\ (end = 1 \/ end <= last)
      BY <2>1
    <3>2. /\ Len(Window(end, last)) = IF last = 0 THEN 0 ELSE last - end + 1
          /\ \A i \in 1..last - end : Window(end, last)[i + 1] = end + i
      BY <3>1, WindowIs
    <3> QED
      BY <2>1, <3>2
  <2>4. cut \in 1..last - end
    BY <2>1, <2>2, <2>3
  <2>5. turn.window[cut + 1] = end + cut /\ end + cut \in 1..Len(messages)
    BY <2>1, <2>2, <2>3, <2>4 DEF MessagesKept
  <2> QED
    BY <2>2, <2>5 DEF CutIsFair, MessagesKept
<1>3. \A k : k.at = "inspected" /\ k.last \in Nat /\ (exists => k.last <= Len(messages)) => (exists' => k.last <= Len(messages'))
  BY DEF MessagesKept
<1> QED
  BY <1>1, <1>2, <1>3 DEF AgentTurn, TurnSteps

\* A step that touches neither rows nor files.
LEMMA AgentMovesAlone ==
  ASSUME ContextInv, NEW a \in Agent, NEW to, Becomes(a, to), "at" \in DOMAIN to,
         to.at \notin FileSteps \cup {"listed", "deleting"}, AgentTurn(to), AgentReads(to),
         UNCHANGED <<messages, files, old, exists, summary>>
  PROVE  ContextInv'
<1>1. Registered' = Registered
  BY DEF Registered
<1>2. MessagesKept
  BY DEF MessagesKept, ContextInv, StoredWell
<1>3. AgentTurn(to)' /\ (\A k : AgentTurn(k) => AgentTurn(k)')
  BY <1>2, TurnsStay
<1>4. OthersKeep(a)
  BY <1>1, <1>3 DEF AgentFiles, AgentReads, AgentWell, OthersKeep
<1>5. AgentWell(to)'
  BY <1>3 DEF AgentFiles, AgentReads, AgentWell
<1>6. StoredWell'
  BY <1>1 DEF ContextInv, StoredWell
<1> QED
  BY <1>4, <1>5, <1>6, AgentMoves

LEMMA AgentLeaves ==
  ASSUME ContextInv, NEW a \in Agent, Becomes(a, Out), UNCHANGED <<messages, files, old, exists, summary>>
  PROVE  ContextInv'
<1>1. /\ "at" \in DOMAIN Out /\ Out.at \notin FileSteps \cup {"listed", "deleting"} /\ AgentTurn(Out) /\ AgentReads(Out)
  BY DEF AgentTurn, AgentReads, Out, FileSteps, TurnSteps
<1> QED
  BY <1>1, AgentMovesAlone
\* A cut takes the front of the window away, all but the first message.
CutMoves(end, last, window, cut) ==
  /\ end + cut - 1 \in Nat /\ end + cut - 1 > 1 /\ end + cut - 1 < last
  /\ window[cut + 1] = end + cut /\ last - (Len(window) - cut) = end + cut - 1
  /\ Replaced(window, cut) = end + 1..end + cut - 1
  /\ Retained(window, cut) = Window(end + cut - 1, last)

LEMMA CutWindow ==
  ASSUME NEW end \in Nat, NEW last \in Nat, NEW window, NEW cut,
         end >= 1, end = 1 \/ end <= last, window = Window(end, last), cut \in 2..Len(window) - 1
  PROVE  CutMoves(end, last, window, cut)
<1>1. /\ window \in Seq(Nat) /\ Len(window) = IF last = 0 THEN 0 ELSE last - end + 1
      /\ last > 0 => window[1] = 1
      /\ \A i \in 1..last - end : window[i + 1] = end + i
  <2>1. /\ Window(end, last) \in Seq(Nat)
        /\ Len(Window(end, last)) = IF last = 0 THEN 0 ELSE last - end + 1
        /\ last > 0 => Window(end, last)[1] = 1
        /\ \A i \in 1..last - end : Window(end, last)[i + 1] = end + i
    BY WindowIs
  <2> QED
    BY <2>1
<1>2. last > 0 /\ Len(window) = last - end + 1 /\ cut \in 2..last - end /\ window[1] = 1
  BY <1>1
<1>3. /\ end + cut - 1 \in Nat /\ end + cut - 1 > 1 /\ end + cut - 1 < last
      /\ window[cut + 1] = end + cut /\ last - (Len(window) - cut) = end + cut - 1
  BY <1>1, <1>2
<1>4. \A i \in 2..last - end + 1 : window[i] = end + i - 1
  <2> SUFFICES ASSUME NEW i \in 2..last - end + 1 PROVE window[i] = end + i - 1
    OBVIOUS
  <2>1. i - 1 \in 1..last - end /\ i = (i - 1) + 1
    OBVIOUS
  <2> QED
    BY <1>1, <2>1
<1>5. Replaced(window, cut) = end + 1..end + cut - 1
  <2>1. \A i \in 2..cut : window[i] = end + i - 1
    BY <1>2, <1>4
  <2>2. Replaced(window, cut) \subseteq end + 1..end + cut - 1
    BY <1>2, <2>1 DEF Replaced
  <2>3. ASSUME NEW m \in end + 1..end + cut - 1 PROVE m \in Replaced(window, cut)
    <3>1. m - end + 1 \in 2..cut /\ end + (m - end + 1) - 1 = m
      BY <1>2
    <3>2. window[m - end + 1] = m
      BY <2>1, <3>1
    <3> QED
      BY <3>1, <3>2 DEF Replaced
  <2> QED
    BY <2>2, <2>3
<1>6. Retained(window, cut) = Window(end + cut - 1, last)
  <2> DEFINE to == end + cut - 1
             tail == SubSeq(window, cut + 1, Len(window))
             rest == [i \in 1..(last - to) |-> to + i]
  <2>1. Window(to, last) = <<1>> \o rest
    BY <1>2 DEF Window
  <2>2. last - to \in Nat /\ last - to = Len(window) - (cut + 1) + 1 /\ cut + 1 \in Int /\ Len(window) \in Int
        /\ cut + 1 <= Len(window) /\ \A i \in cut + 1..Len(window) : window[i] \in Nat
    BY <1>1, <1>2
  <2>3. /\ tail \in Seq(Nat) /\ Len(tail) = last - to
        /\ \A i \in 1..last - to : tail[i] = window[cut + 1 + i - 1]
    <3>1. /\ SubSeq(window, cut + 1, Len(window)) \in Seq(Nat)
          /\ Len(SubSeq(window, cut + 1, Len(window))) =
               IF cut + 1 <= Len(window) THEN Len(window) - (cut + 1) + 1 ELSE 0
          /\ \A i \in 1..Len(window) - (cut + 1) + 1 :
               SubSeq(window, cut + 1, Len(window))[i] = window[cut + 1 + i - 1]
      <4> HIDE DEF to
      <4> QED
        BY <2>2, SubSeqProperties
    <3> HIDE DEF to
    <3> QED
      BY <2>2, <3>1
  <2>4. \A i \in 1..last - to : tail[i] = to + i
    <3> SUFFICES ASSUME NEW i \in 1..last - to PROVE tail[i] = to + i
      OBVIOUS
    <3>1. cut + 1 + i - 1 \in 2..last - end + 1 /\ end + (cut + 1 + i - 1) - 1 = to + i
      BY <1>2
    <3> QED
      BY <1>4, <2>3, <3>1
  <2>5. tail = rest
    <3>1. tail = [i \in 1..last - to |-> tail[i]]
      BY <2>2, <2>3
    <3> QED
      BY <2>4, <3>1
  <2> QED
    BY <1>2, <2>1, <2>5 DEF Retained
<1> QED
  BY <1>3, <1>5, <1>6 DEF CutMoves

\* A message more is the last of the window.
LEMMA WindowGrows ==
  ASSUME NEW end \in Nat, NEW last \in Nat, end >= 1, end = 1 \/ end <= last
  PROVE  Append(Window(end, last), last + 1) = Window(end, last + 1)
<1>1. PICK next \in Nat : next = last + 1
  OBVIOUS
<1>2. PICK u : u = Window(end, last)
  OBVIOUS
<1>3. PICK w : w = Window(end, next)
  OBVIOUS
<1>4. /\ u \in Seq(Nat) /\ Len(u) = IF last = 0 THEN 0 ELSE last - end + 1
      /\ last > 0 => u[1] = 1
      /\ \A i \in 1..last - end : u[i + 1] = end + i
  BY <1>2, WindowIs
<1>5. next # 0 /\ next > 0 /\ (end = 1 \/ end <= next)
  BY <1>1
<1>6. /\ w \in Seq(Nat) /\ Len(w) = IF next = 0 THEN 0 ELSE next - end + 1
      /\ next > 0 => w[1] = 1
      /\ \A i \in 1..next - end : w[i + 1] = end + i
  BY <1>3, <1>5, WindowIs
<1>7. Len(w) = Len(u) + 1 /\ Len(u) \in Nat
  BY <1>1, <1>4, <1>6
<1>8. \A i \in 1..Len(u) : w[i] = u[i]
  <2> SUFFICES ASSUME NEW i \in 1..Len(u) PROVE w[i] = u[i]
    OBVIOUS
  <2>1. last > 0 /\ Len(u) = last - end + 1
    BY <1>4
  <2>2. CASE i = 1
    BY <1>4, <1>5, <1>6, <2>1, <2>2
  <2>3. CASE i # 1
    <3>1. i - 1 \in 1..last - end /\ i - 1 \in 1..next - end /\ (i - 1) + 1 = i
      BY <1>1, <2>1, <2>3
    <3> QED
      BY <1>4, <1>6, <3>1
  <2> QED
    BY <2>2, <2>3
<1>9. w[Len(w)] = next
  <2>1. CASE last = 0
    BY <1>1, <1>4, <1>6, <2>1
  <2>2. CASE last # 0
    <3>1. next - end \in 1..next - end /\ Len(w) = (next - end) + 1 /\ end + (next - end) = next
      BY <1>1, <1>6, <2>2
    <3> QED
      BY <1>6, <3>1
  <2> QED
    BY <2>1, <2>2
<1>10. Append(u, next) = w
  <2>1. PICK v : v = Append(u, next)
    OBVIOUS
  <2>2. v \in Seq(Nat) /\ Len(v) = Len(w) /\ \A i \in 1..Len(w) : v[i] = w[i]
    BY <1>1, <1>4, <1>6, <1>7, <1>8, <1>9, <2>1
  <2>3. v = w
    BY <1>6, <2>2, SeqEqual
  <2> QED
    BY <2>1, <2>3
<1> QED
  BY <1>1, <1>2, <1>3, <1>10

\* RecordMessage: the next message is in the row and in the window.
LEMMA AppendedKeeps ==
  ASSUME ContextInv, NEW a \in Agent, agent[a].at \in {"running", "staged"}, NEW role \in Roles, NEW file,
         file = Inline \/ (agent[a].at = "staged" /\ file = agent[a].file),
         MayAppend(a, file), Turn(a).last < MaxMessages, Appended(a, role, file), UNCHANGED <<files, old, summary, exists>>
  PROVE  ContextInv'
<1> DEFINE Entries == [role : Roles, file : Names]
           entry == [role |-> role, file |-> file]
           n   == Len(messages)
<1>0. PICK to : to = [at |-> "running", turn |-> [Turn(a) EXCEPT !.last = @ + 1, !.window = Append(@, Turn(a).last + 1)]]
  OBVIOUS
<1>1. /\ exists /\ n = Turn(a).last /\ messages \in Seq(Entries) /\ AgentWell(agent[a]) /\ n < MaxMessages
      /\ Becomes(a, to) /\ messages' = Append(messages, entry)
  BY <1>0 DEF MayAppend, Appended, Running, ContextInv, StoredWell
<1>2. file \in Names /\ entry \in Entries
  BY <1>1 DEF AgentWell, AgentFiles, FileSteps, Names
<1> HIDE DEF entry
<1>3. /\ n \in Nat /\ messages' \in Seq(Entries) /\ Len(messages') = n + 1
      /\ \A i \in 1..n : messages'[i] = messages[i]
      /\ messages'[n + 1] = entry
  <2> HIDE DEF Entries, n
  <2> QED
    BY <1>1, <1>2 DEF n
<1>4. Registered' \subseteq Registered \cup ({file} \ {Inline}) /\ Registered \subseteq Registered'
  BY <1>1, <1>3 DEF Registered, entry
<1>5. file # Inline => file \in files \ (old \cup Registered)
  BY <1>1 DEF AgentWell, AgentFiles, FileSteps
<1>6. MessagesKept
  BY <1>3 DEF MessagesKept
<1> HIDE DEF Entries, n
<1>7. StoredWell'
  <2>1. summary.end < n => messages'[summary.end + 1] = messages[summary.end + 1]
    BY <1>3 DEF ContextInv, StoredWell
  <2>2. summary.end \in Nat /\ (summary.end < n => summary.end < n + 1)
    BY <1>3 DEF ContextInv, StoredWell
  <2>3. n + 1 <= MaxMessages /\ Registered' \subseteq files
    BY <1>1, <1>3, <1>4, <1>5, ContextBounds DEF ContextInv, StoredWell
  <2> QED
    BY <1>1, <1>3, <2>1, <2>2, <2>3 DEF ContextInv, StoredWell, Entries, n
<1>8. OthersKeep(a)
  <2> SUFFICES ASSUME NEW b \in Agent, b # a, NEW k, k = agent[b], AgentWell(k) PROVE AgentWell(k)'
    BY DEF OthersKeep
  <2>1. AgentTurn(k)' /\ AgentReads(k)'
    BY <1>6, TurnsStay DEF AgentWell, AgentReads
  <2>2. k.at \in FileSteps /\ exists => k.file # file \/ file = Inline
    BY DEF ContextInv, FileSteps
  <2>3. AgentFiles(k)'
    BY <1>1, <1>4, <1>5, <2>2 DEF AgentFiles, AgentWell
  <2> QED
    BY <2>1, <2>3 DEF AgentWell
<1>9. TurnIsWhole(to.turn)'
  <2>1. TurnIsWhole(Turn(a))
    BY <1>1 DEF AgentWell, AgentTurn, TurnSteps, Turn
  <2>2. PICK end \in Nat, last \in Nat :
          /\ last = Turn(a).last /\ end >= 1 /\ (end = 1 \/ end <= last)
          /\ Turn(a).covers = 2..end /\ Turn(a).window = Window(end, last)
          /\ exists /\ end > 1 => end < n /\ messages[end + 1].role # "tool"
    BY <2>1 DEF TurnIsWhole, n
  <2> DEFINE window == Append(Window(end, last), last + 1)
  <2>3. window = Window(end, last + 1)
    <3>1. end >= 1 /\ (end = 1 \/ end <= last)
      BY <2>2
    <3> QED
      BY <3>1, WindowGrows
  <2>4. /\ DOMAIN to.turn = {"run", "last", "covers", "window"} /\ to.turn.last = last + 1
        /\ to.turn.covers = Turn(a).covers /\ to.turn.window = window
    BY <1>0, <2>1, <2>2 DEF TurnIsWhole
  <2>5. end > 1 => end < n + 1 /\ messages'[end + 1].role # "tool"
    BY <1>1, <1>3, <2>2
  <2>6. last + 1 \in Nat /\ last + 1 <= n + 1 /\ (end = 1 \/ end <= last + 1)
    BY <1>1, <2>2
  <2> HIDE DEF window
  <2> QED
    BY <1>3, <2>2, <2>3, <2>4, <2>5, <2>6 DEF TurnIsWhole
<1>10. AgentWell(to)'
  <2>1. "at" \in DOMAIN to /\ to.at = "running" /\ "turn" \in DOMAIN to
    BY <1>0
  <2> QED
    BY <1>9, <2>1 DEF AgentWell, AgentFiles, AgentTurn, AgentReads, FileSteps, TurnSteps
<1>11. to.at \notin FileSteps /\ (exists' => exists)
  BY <1>0 DEF FileSteps
<1> QED
  BY <1>1, <1>7, <1>8, <1>10, <1>11, AgentMoves
OtherFilesKeep(a) == \A k : AgentFiles(k) => AgentFiles(k)' \/ \A b \in Agent : b # a => agent[b] # k

\* The rows stand, the files change: what a step with files does to the rest.
LEMMA FilesChange ==
  ASSUME ContextInv, NEW a \in Agent, NEW to, Becomes(a, to), AgentWell(to)',
         OtherFilesKeep(a), to.at \in FileSteps => NoneHas(a, to.file), UNCHANGED <<messages, exists, summary>>,
         old' \subseteq files', Registered \subseteq files'
  PROVE  ContextInv'
<1>1. Registered' = Registered
  BY DEF Registered
<1>2. MessagesKept
  BY DEF MessagesKept, ContextInv, StoredWell
<1>3. OthersKeep(a)
  BY <1>2, TurnsStay DEF AgentWell, AgentReads, OthersKeep, OtherFilesKeep
<1>4. StoredWell'
  BY <1>1 DEF ContextInv, StoredWell
<1> QED
  BY <1>3, <1>4, AgentMoves

LEMMA CollectingKeeps ==
  ASSUME ContextInv, NEW a \in Agent, ListArtifacts(a) \/ CollectOrphans(a)
  PROVE  ContextInv'
<1>1. /\ old \subseteq files /\ Registered \subseteq files /\ AgentWell(agent[a])
      /\ ~exists => Registered = {}
  BY DEF ContextInv, StoredWell, Registered
<1>2. UNCHANGED messages => Registered' = Registered
  BY DEF Registered
<1>3. CASE ListArtifacts(a)
  <2>1. PICK to : to = [at |-> "listed", registered |-> Registered]
    OBVIOUS
  <2>2. AgentWell(to)' /\ to.at \notin FileSteps
    BY <1>2, <1>3, <2>1 DEF ListArtifacts, AgentWell, AgentFiles, AgentTurn, AgentReads, FileSteps, TurnSteps
  <2>3. OtherFilesKeep(a)
    BY <1>2, <1>3 DEF ListArtifacts, AgentFiles, OtherFilesKeep
  <2> QED
    BY <1>1, <1>3, <2>1, <2>2, <2>3, FilesChange DEF ListArtifacts
<1>4. CASE CollectOrphans(a)
  <2>1. PICK to : to = [at |-> "open"]
    OBVIOUS
  <2>2. AgentWell(to)' /\ to.at \notin FileSteps
    BY <2>1 DEF AgentWell, AgentFiles, AgentTurn, AgentReads, FileSteps, TurnSteps
  <2>3. PICK orphans : orphans = Orphans(agent[a].registered)
    OBVIOUS
  <2>4. files' = files \ orphans /\ old' = old \ orphans /\ Becomes(a, to) /\ UNCHANGED <<messages, exists, summary>>
    BY <1>4, <2>1, <2>3 DEF CollectOrphans
  <2>5. orphans \subseteq old /\ orphans \cap Registered = {}
    BY <1>1, <1>4, <2>3 DEF Orphans, CollectOrphans, AgentAt, AgentWell, AgentFiles
  <2>6. OtherFilesKeep(a)
    BY <1>2, <2>4, <2>5 DEF AgentFiles, OtherFilesKeep
  <2> QED
    BY <1>1, <2>2, <2>4, <2>5, <2>6, FilesChange
<1> QED
  BY <1>3, <1>4

LEMMA StagingKeeps ==
  ASSUME ContextInv, NEW a \in Agent, StageFile(a) \/ CommitLarge(a) \/ RemoveStaged(a) \/ RecordInline(a)
  PROVE  ContextInv'
<1>1. /\ old \subseteq files /\ Registered \subseteq files /\ AgentWell(agent[a]) /\ StoredWell
      /\ ~exists => Registered = {}
  BY DEF ContextInv, StoredWell, Registered
<1>2. UNCHANGED messages => Registered' = Registered
  BY DEF Registered
<1>3. MayFollow[LastRole] \subseteq Roles
  BY <1>1, RoleTyped
<1>4. UNCHANGED messages /\ UNCHANGED exists => MessagesKept
  BY <1>1 DEF MessagesKept, StoredWell
<1>5. CASE RecordInline(a)
  <2>1. PICK role \in Roles :
          IF MayAppend(a, Inline) THEN Appended(a, role, Inline) ELSE Becomes(a, Out) /\ UNCHANGED messages
    BY <1>3, <1>5 DEF RecordInline
  <2>2. CASE MayAppend(a, Inline)
    BY <1>5, <2>1, <2>2, AppendedKeeps DEF RecordInline, AgentAt
  <2>3. CASE ~MayAppend(a, Inline)
    BY <1>5, <2>1, <2>3, AgentLeaves DEF RecordInline
  <2> QED
    BY <2>2, <2>3
<1>6. CASE StageFile(a)
  <2>1. PICK content \in Text :
          LET file == <<Turn(a).last + 1, content>>
          IN  IF file \in files THEN Becomes(a, Out) /\ UNCHANGED files
              ELSE files' = files \cup {file} /\ Becomes(a, [at |-> "staged", turn |-> Turn(a), file |-> file])
    BY <1>6 DEF StageFile
  <2>2. PICK file : file = <<Turn(a).last + 1, content>>
    OBVIOUS
  <2>3. CASE file \in files
    BY <1>6, <2>1, <2>2, <2>3, AgentLeaves DEF StageFile
  <2>4. CASE file \notin files
    <3>1. PICK to : to = [at |-> "staged", turn |-> Turn(a), file |-> file]
      OBVIOUS
    <3>2. files' = files \cup {file} /\ Becomes(a, to) /\ UNCHANGED <<messages, old, summary, exists>>
      BY <1>6, <2>1, <2>2, <2>4, <3>1 DEF StageFile
    <3>3. to.at = "staged" /\ to.turn = Turn(a) /\ to.file = file /\ DOMAIN to = {"at", "turn", "file"}
      BY <3>1
    <3>4. AgentTurn(to)
      BY <1>1, <1>6, <3>3 DEF AgentWell, AgentTurn, StageFile, AgentAt, TurnSteps, FileSteps, Turn
    <3>5. AgentTurn(to)'
      BY <1>4, <3>2, <3>4, TurnsStay
    <3>6. file \in Names
      BY <2>2, <3>3, <3>4 DEF AgentTurn, TurnIsWhole, TurnSteps, Names
    <3>7. AgentWell(to)'
      BY <1>1, <1>2, <2>4, <3>2, <3>3, <3>5, <3>6 DEF AgentWell, AgentFiles, AgentReads, FileSteps
    <3>8. OtherFilesKeep(a)
      BY <1>2, <3>2 DEF AgentFiles, OtherFilesKeep
    <3>9. NoneHas(a, to.file)
      BY <2>4, <3>3 DEF NoneHas, ContextInv, AgentWell, AgentFiles
    <3> QED
      BY <1>1, <3>2, <3>7, <3>8, <3>9, FilesChange
  <2> QED
    BY <2>3, <2>4
<1>7. CASE CommitLarge(a)
  <2>0. PICK file : file = agent[a].file
    OBVIOUS
  <2>1. PICK role \in Roles :
          IF MayAppend(a, file) THEN Appended(a, role, file)
          ELSE Becomes(a, [agent[a] EXCEPT !.at = "cleanup"]) /\ UNCHANGED messages
    BY <1>3, <1>7, <2>0 DEF CommitLarge
  <2>2. agent[a].at = "staged" /\ UNCHANGED <<files, old, summary, exists>>
    BY <1>7 DEF CommitLarge, AgentAt
  <2>3. CASE MayAppend(a, file)
    <3>1. Turn(a).last < MaxMessages
      BY <1>1, <2>2 DEF AgentWell, AgentTurn, FileSteps, Turn
    <3> QED
      BY <2>0, <2>1, <2>2, <2>3, <3>1, AppendedKeeps
  <2>4. CASE ~MayAppend(a, file)
    <3>1. PICK to : to = [agent[a] EXCEPT !.at = "cleanup"]
      OBVIOUS
    <3>2. /\ to.at = "cleanup" /\ to.file = agent[a].file /\ to.turn = agent[a].turn /\ DOMAIN to = DOMAIN agent[a]
          /\ {"at", "file", "turn"} \subseteq DOMAIN to
      BY <1>1, <2>2, <3>1 DEF AgentWell, AgentFiles, AgentTurn, FileSteps, TurnSteps
    <3>3. Becomes(a, to) /\ UNCHANGED messages
      BY <2>1, <2>4, <3>1
    <3>4. AgentWell(to)
      BY <1>1, <2>2, <3>2 DEF AgentWell, AgentFiles, AgentTurn, AgentReads, FileSteps, TurnSteps
    <3>5. AgentTurn(to)'
      BY <1>4, <2>2, <3>3, <3>4, TurnsStay DEF AgentWell
    <3>6. OtherFilesKeep(a) /\ AgentFiles(to)'
      BY <1>2, <2>2, <3>3, <3>4 DEF AgentWell, AgentFiles, OtherFilesKeep
    <3>7. AgentWell(to)'
      BY <3>4, <3>5, <3>6 DEF AgentWell, AgentReads
    <3>8. NoneHas(a, to.file)
      BY <2>2, <3>2 DEF NoneHas, ContextInv, FileSteps
    <3> QED
      BY <1>1, <2>2, <3>3, <3>6, <3>7, <3>8, FilesChange
  <2> QED
    BY <2>3, <2>4
<1>8. CASE RemoveStaged(a)
  <2>1. PICK to : to = Out
    OBVIOUS
  <2>2. AgentWell(to)' /\ to.at \notin FileSteps
    BY <2>1 DEF AgentWell, AgentFiles, AgentTurn, AgentReads, FileSteps, TurnSteps, Out
  <2>3. PICK file : file = agent[a].file
    OBVIOUS
  <2>4. /\ agent[a].at = "cleanup" /\ files' = files \ {file} /\ old' = old \ {file}
        /\ Becomes(a, to) /\ UNCHANGED <<messages, exists, summary>>
    BY <1>8, <2>1, <2>3 DEF RemoveStaged, AgentAt
  <2>5. file \notin Registered
    BY <1>1, <2>3, <2>4 DEF AgentWell, AgentFiles, FileSteps
  <2>6. ASSUME NEW b \in Agent, b # a, NEW k, k = agent[b], AgentFiles(k) PROVE AgentFiles(k)'
    <3>1. k.at \in FileSteps /\ exists => k.file # file
      BY <2>3, <2>4, <2>6 DEF ContextInv, FileSteps
    <3> QED
      BY <1>2, <2>4, <2>6, <3>1 DEF AgentFiles
  <2>7. OtherFilesKeep(a)
    BY <2>6 DEF OtherFilesKeep
  <2> QED
    BY <1>1, <2>2, <2>4, <2>5, <2>7, FilesChange
<1> QED
  BY <1>5, <1>6, <1>7, <1>8

\* PlanCompaction leaves at least one message of the window.
LEMMA CutsLeave ==
  ASSUME NEW window \in Seq(Nat)
  PROVE  Cuts(window) \subseteq {cut \in 2..Len(window) - 1 : messages[window[cut + 1]].role # "tool"}
<1> SUFFICES ASSUME Len(window) >= 3 PROVE Cuts(window) \subseteq {cut \in 2..Len(window) - 1 : messages[window[cut + 1]].role # "tool"}
  BY DEF Cuts
<1> DEFINE recent == RecentFrom(window)
           tasks  == Tasks(window)
           bounds == {recent} \cup (IF tasks = {} THEN {} ELSE {Max(tasks)})
<1>1. Len(window) \in Nat /\ MinRecent \in Nat /\ MinRecent > 0
  BY ContextBounds
<1>2. recent \in 0..Len(window) - 1
  BY <1>1 DEF RecentFrom
<1>3. tasks \subseteq 1..Len(window) - 1
  BY DEF Tasks
<1> HIDE DEF recent, tasks
<1>4. tasks # {} => Max(tasks) \in 1..Len(window) - 1
  <2>1. PICK high \in Int : high = Len(window) - 1
    BY <1>1
  <2>2. ASSUME tasks # {} PROVE Max(tasks) \in tasks
    <3>1. tasks \in SUBSET (1..high) /\ 1 \in Int
      BY <1>3, <2>1
    <3> QED
      BY <2>1, <2>2, <3>1, LargestOf
  <2> QED
    BY <1>3, <2>2
<1>5. bounds \subseteq 0..Len(window) - 1 /\ recent \in bounds
  BY <1>1, <1>2, <1>4
<1>6. MaxCut(window) = Min(bounds)
  BY DEF MaxCut, recent, tasks
<1> HIDE DEF bounds
<1>7. Min(bounds) <= recent /\ Min(bounds) \in 0..Len(window) - 1
  <2>1. 0 \in Int /\ Len(window) - 1 \in Int /\ bounds # {}
    BY <1>1, <1>5
  <2> QED
    BY <1>5, <2>1, SmallestOf
<1>8. Cuts(window) = {cut \in 2..MaxCut(window) : messages[window[cut + 1]].role # "tool"}
  BY <1>1 DEF Cuts, RoleAt
<1> QED
  BY <1>1, <1>6, <1>7, <1>8

LEMMA TurnTyped ==
  ASSUME ContextInv, NEW a \in Agent, agent[a].at \in TurnSteps
  PROVE  /\ TurnIsWhole(Turn(a)) /\ "turn" \in DOMAIN agent[a]
         /\ Turn(a).last \in Nat /\ DOMAIN Turn(a) = {"run", "last", "covers", "window"}
         /\ Turn(a).window \in Seq(Nat)
<1>1. TurnIsWhole(Turn(a)) /\ "turn" \in DOMAIN agent[a]
  BY DEF ContextInv, AgentWell, AgentTurn, Turn
<1>2. PICK end \in Nat, last \in Nat :
        last = Turn(a).last /\ end >= 1 /\ (end = 1 \/ end <= last) /\ Turn(a).window = Window(end, last)
  BY <1>1 DEF TurnIsWhole
<1>3. Window(end, last) \in Seq(Nat)
  <2>1. end >= 1 /\ (end = 1 \/ end <= last)
    BY <1>2
  <2> QED
    BY <2>1, WindowIs
<1> QED
  BY <1>1, <1>2, <1>3 DEF TurnIsWhole

LEMMA LookingKeeps ==
  ASSUME ContextInv, NEW a \in Agent, InspectContext(a) \/ InspectSummary(a) \/ BeginRun(a) \/ EndRun(a)
  PROVE  ContextInv'
<1>1. StoredWell /\ AgentWell(agent[a])
  BY DEF ContextInv
<1>2. CASE InspectContext(a)
  <2>1. PICK to : to = [at |-> "inspected", last |-> Len(messages)]
    OBVIOUS
  <2>2. Len(messages) \in Nat /\ Len(messages) <= Len(messages)
    BY <1>1 DEF StoredWell
  <2>3. /\ "at" \in DOMAIN to /\ to.at \notin FileSteps \cup {"listed", "deleting"} /\ AgentTurn(to) /\ AgentReads(to)
    BY <2>1, <2>2 DEF AgentTurn, AgentReads, FileSteps, TurnSteps
  <2> QED
    BY <1>2, <2>1, <2>3, AgentMovesAlone DEF InspectContext
<1>3. CASE InspectSummary(a)
  <2> DEFINE fits == exists /\ (summary # NoSummary => summary.end <= agent[a].last)
  <2>1. CASE fits
    <3>1. PICK last \in Nat, end \in Nat : last = agent[a].last /\ last <= Len(messages) /\ end = summary.end
      BY <1>1, <1>3, <2>1 DEF InspectSummary, AgentAt, AgentWell, AgentTurn, StoredWell
    <3>2. PICK turn : turn = Holding(0, last, summary.of, Window(end, last))
      OBVIOUS
    <3>3. PICK to : to = [at |-> "planned", turn |-> turn]
      OBVIOUS
    <3>4. /\ end >= 1 /\ (end = 1 \/ end <= last) /\ summary.of = 2..end
          /\ end > 1 => end < Len(messages) /\ messages[end + 1].role # "tool"
      BY <1>1, <2>1, <3>1 DEF StoredWell, NoSummary, SourceStart
    <3>5. /\ DOMAIN turn = {"run", "last", "covers", "window"} /\ turn.last = last /\ turn.covers = 2..end
          /\ turn.window = Window(end, last)
      BY <3>2, <3>4 DEF Holding
    <3>6. TurnIsWhole(turn)
      BY <3>1, <3>4, <3>5 DEF TurnIsWhole
    <3>7. "at" \in DOMAIN to /\ to.at \notin FileSteps \cup {"listed", "deleting"} /\ AgentTurn(to) /\ AgentReads(to)
      BY <3>3, <3>6 DEF AgentTurn, AgentReads, FileSteps, TurnSteps
    <3>8. Becomes(a, to)
      BY <1>3, <2>1, <3>1, <3>2, <3>3 DEF InspectSummary
    <3> QED
      BY <1>3, <3>7, <3>8, AgentMovesAlone DEF InspectSummary
  <2>2. CASE ~fits
    BY <1>3, <2>2, AgentLeaves DEF InspectSummary
  <2> QED
    BY <2>1, <2>2
<1>4. CASE BeginRun(a)
  <2>1. CASE exists /\ Turn(a).last = Len(messages)
    <3>1. agent[a].at \in TurnSteps
      BY <1>4 DEF BeginRun, AgentAt, TurnSteps
    <3>2. PICK turn : turn = [Turn(a) EXCEPT !.run = runs + 1]
      OBVIOUS
    <3>3. PICK to : to = [at |-> "running", turn |-> turn]
      OBVIOUS
    <3>4. TurnIsWhole(turn)
      BY <3>1, <3>2, TurnTyped DEF TurnIsWhole
    <3>5. "at" \in DOMAIN to /\ to.at \notin FileSteps \cup {"listed", "deleting"} /\ AgentTurn(to) /\ AgentReads(to)
      BY <3>3, <3>4 DEF AgentTurn, AgentReads, FileSteps, TurnSteps
    <3>6. Becomes(a, to)
      BY <1>4, <2>1, <3>2, <3>3 DEF BeginRun, Running
    <3> QED
      BY <1>4, <3>5, <3>6, AgentMovesAlone DEF BeginRun
  <2>2. CASE ~(exists /\ Turn(a).last = Len(messages))
    BY <1>4, <2>2, AgentLeaves DEF BeginRun
  <2> QED
    BY <2>1, <2>2
<1>5. CASE EndRun(a)
  BY <1>5, AgentLeaves DEF EndRun
<1> QED
  BY <1>2, <1>3, <1>4, <1>5
LEMMA CompactionKeeps ==
  ASSUME ContextInv, NEW a \in Agent, PlanCompaction(a) \/ RecordCompaction(a) \/ ApplyCompaction(a)
  PROVE  ContextInv'
<1>1. StoredWell /\ AgentWell(agent[a]) /\ agent[a].at \in TurnSteps
  BY DEF ContextInv, PlanCompaction, RecordCompaction, ApplyCompaction, AgentAt, TurnSteps
<1>2. PICK turn, window : turn = Turn(a) /\ window = turn.window
  OBVIOUS
<1>3. /\ TurnIsWhole(turn) /\ "turn" \in DOMAIN agent[a] /\ turn.last \in Nat
      /\ DOMAIN turn = {"run", "last", "covers", "window"} /\ window \in Seq(Nat)
  BY <1>1, <1>2, TurnTyped
<1>4. PICK end \in Nat, last \in Nat :
        /\ last = turn.last /\ end >= 1 /\ (end = 1 \/ end <= last)
        /\ turn.covers = 2..end /\ window = Window(end, last)
        /\ exists => last <= Len(messages)
  BY <1>2, <1>3 DEF TurnIsWhole
<1>5. CASE PlanCompaction(a)
  <2>1. PICK cut \in Cuts(window) : Becomes(a, [at |-> "compacting", turn |-> turn, cut |-> cut])
    BY <1>2, <1>5 DEF PlanCompaction
  <2>2. CutIsFair(turn, cut)
    BY <1>2, <1>3, <2>1, CutsLeave DEF CutIsFair
  <2>3. PICK to : to = [at |-> "compacting", turn |-> turn, cut |-> cut]
    OBVIOUS
  <2>4. "at" \in DOMAIN to /\ to.at \notin FileSteps \cup {"listed", "deleting"} /\ AgentTurn(to) /\ AgentReads(to)
    BY <1>3, <2>2, <2>3 DEF AgentTurn, AgentReads, FileSteps, TurnSteps
  <2> QED
    BY <1>5, <2>1, <2>3, <2>4, AgentMovesAlone DEF PlanCompaction
<1>6. ASSUME NEW cut, cut = agent[a].cut, agent[a].at \in {"compacting", "recorded"}
      PROVE  /\ "cut" \in DOMAIN agent[a] /\ CutIsFair(turn, cut)
             /\ end + cut - 1 \in Nat /\ end + cut - 1 > 1 /\ end + cut - 1 < last
             /\ window[cut + 1] = (end + cut - 1) + 1 /\ last - (Len(window) - cut) = end + cut - 1
             /\ 2..end \cup Replaced(window, cut) = 2..end + cut - 1
             /\ Retained(window, cut) = Window(end + cut - 1, last)
             /\ exists => messages[(end + cut - 1) + 1].role # "tool"
  <2>1. "cut" \in DOMAIN agent[a] /\ CutIsFair(turn, cut)
    BY <1>1, <1>2, <1>6 DEF AgentWell, AgentTurn, Turn
  <2>2. cut \in 2..Len(window) - 1 /\ (exists => messages[window[cut + 1]].role # "tool")
    BY <1>2, <2>1 DEF CutIsFair
  <2>3. /\ end + cut - 1 \in Nat /\ end + cut - 1 > 1 /\ end + cut - 1 < last
        /\ window[cut + 1] = end + cut /\ last - (Len(window) - cut) = end + cut - 1
        /\ Replaced(window, cut) = end + 1..end + cut - 1
        /\ Retained(window, cut) = Window(end + cut - 1, last)
    <3>1. end >= 1 /\ (end = 1 \/ end <= last) /\ window = Window(end, last)
      BY <1>4
    <3>2. CutMoves(end, last, window, cut)
      BY <2>2, <3>1, CutWindow
    <3> QED
      BY <3>2 DEF CutMoves
  <2>4. end + cut = (end + cut - 1) + 1 /\ 2..end \cup (end + 1..end + cut - 1) = 2..end + cut - 1
    BY <1>4, <2>2, <2>3
  <2> QED
    BY <2>1, <2>2, <2>3, <2>4
<1>7. CASE RecordCompaction(a)
  <2>1. PICK cut : cut = agent[a].cut
    OBVIOUS
  <2>2. agent[a].at = "compacting" /\ UNCHANGED <<messages, files, old, exists>>
    BY <1>7 DEF RecordCompaction, AgentAt
  <2>3. PICK to : to = end + cut - 1
    OBVIOUS
  <2>4. /\ to \in Nat /\ to > 1 /\ to < last /\ SourceEnd(turn, cut) = to
        /\ 2..end \cup Replaced(window, cut) = 2..to /\ (exists => messages[to + 1].role # "tool")
    BY <1>2, <1>4, <1>6, <2>1, <2>2, <2>3 DEF SourceEnd
  <2> DEFINE recorded == exists /\ owner = turn.run /\ Len(messages) = turn.last /\ to >= SourceStart /\ to > summary.end
  <2>5. IF recorded
        THEN /\ summary' = [end |-> to, of |-> 2..to]
             /\ Becomes(a, [agent[a] EXCEPT !.at = "recorded"])
        ELSE Becomes(a, Out) /\ UNCHANGED summary
    BY <1>2, <1>4, <1>7, <2>1, <2>4 DEF RecordCompaction
  <2>6. CASE recorded
    <3>1. PICK k : k = [agent[a] EXCEPT !.at = "recorded"]
      OBVIOUS
    <3>2. /\ k.at = "recorded" /\ k.turn = agent[a].turn /\ k.cut = agent[a].cut
          /\ {"at", "turn", "cut"} \subseteq DOMAIN k
      BY <1>1, <1>3, <1>6, <2>1, <2>2, <3>1 DEF AgentWell
    <3>3. AgentTurn(k) /\ AgentReads(k) /\ AgentFiles(k)'
      BY <1>1, <2>2, <3>2 DEF AgentWell, AgentTurn, AgentReads, AgentFiles, FileSteps, TurnSteps
    <3>4. MessagesKept
      BY <1>1, <2>2 DEF MessagesKept, StoredWell
    <3>5. AgentTurn(k)' /\ AgentReads(k)' /\ (\A l : AgentTurn(l) => AgentTurn(l)')
      BY <3>3, <3>4, TurnsStay DEF AgentReads
    <3>6. Registered' = Registered
      BY <2>2 DEF Registered
    <3>7. OthersKeep(a)
      BY <2>2, <3>5, <3>6 DEF OthersKeep, AgentWell, AgentFiles, AgentReads
    <3>8. summary'.end = to /\ summary'.of = 2..to
      BY <2>5, <2>6
    <3>9. StoredWell'
      BY <1>1, <1>4, <2>2, <2>4, <2>6, <3>6, <3>8 DEF StoredWell
    <3>10. AgentWell(k)'
      BY <3>2, <3>3, <3>5 DEF AgentWell
    <3>11. k.at \notin FileSteps /\ Becomes(a, k) /\ (exists' => exists)
      BY <2>2, <2>5, <2>6, <3>1, <3>2 DEF FileSteps
    <3> QED
      BY <3>7, <3>9, <3>10, <3>11, AgentMoves
  <2>7. CASE ~recorded
    BY <2>2, <2>5, <2>7, AgentLeaves
  <2> QED
    BY <2>6, <2>7
<1>8. CASE ApplyCompaction(a)
  <2>1. PICK cut : cut = agent[a].cut
    OBVIOUS
  <2>2. agent[a].at = "recorded" /\ UNCHANGED <<messages, files, old, exists, summary>>
    BY <1>8 DEF ApplyCompaction, AgentAt
  <2>3. PICK to : to = end + cut - 1
    OBVIOUS
  <2>4. /\ to \in Nat /\ to > 1 /\ to < last
        /\ 2..end \cup Replaced(window, cut) = 2..to /\ (exists => messages[to + 1].role # "tool")
        /\ Retained(window, cut) = Window(to, last)
    BY <1>2, <1>4, <1>6, <2>1, <2>2, <2>3
  <2>5. PICK next : next = [turn EXCEPT !.covers = @ \cup Replaced(window, cut), !.window = Retained(@, cut)]
    OBVIOUS
  <2>6. /\ DOMAIN next = {"run", "last", "covers", "window"} /\ next.last = last
        /\ next.covers = 2..to /\ next.window = Window(to, last)
    BY <1>2, <1>3, <1>4, <2>4, <2>5
  <2>7. exists => last <= Len(messages) /\ to < Len(messages)
    BY <1>1, <1>4, <2>4 DEF StoredWell
  <2>8. TurnIsWhole(next)
    BY <2>4, <2>6, <2>7 DEF TurnIsWhole
  <2>9. PICK k : k = [at |-> "running", turn |-> next]
    OBVIOUS
  <2>10. "at" \in DOMAIN k /\ k.at \notin FileSteps \cup {"listed", "deleting"} /\ AgentTurn(k) /\ AgentReads(k)
    BY <2>8, <2>9 DEF AgentTurn, AgentReads, FileSteps, TurnSteps
  <2>11. Becomes(a, k)
    BY <1>2, <1>8, <2>1, <2>5, <2>9 DEF ApplyCompaction, Running
  <2> QED
    BY <2>2, <2>10, <2>11, AgentMovesAlone
<1> QED
  BY <1>5, <1>7, <1>8
\* The bytes of the first messages, one message more, and of those from an offset on.
LEMMA BytesNext ==
  ASSUME NEW m \in Nat, NEW n \in Nat, m <= n, n + 1 <= MaxMessages
  PROVE  /\ Total([i \in m + 1..n + 1 |-> Bytes[i]]) = Total([i \in m + 1..n |-> Bytes[i]]) + Bytes[n + 1]
         /\ Bytes[n + 1] \in Nat
<1> DEFINE f == [i \in m + 1..n |-> Bytes[i]]
           g == [i \in m + 1..n + 1 |-> Bytes[i]]
           D == m + 1..n
<1>1. Bytes \in [1..MaxMessages -> Nat \ {0}]
  BY ContextBounds
<1>2. \A i \in m + 1..n + 1 : Bytes[i] \in Nat
  <2>1. MaxMessages \in Nat /\ \A i \in m + 1..n + 1 : i \in 1..MaxMessages
    BY ContextBounds
  <2> QED
    BY <1>1, <2>1
<1>3. IsFiniteSet(D) /\ n + 1 \notin D /\ m + 1..n + 1 = D \cup {n + 1} /\ D \subseteq m + 1..n + 1 /\ Bytes[n + 1] \in Nat
  <2>1. n + 1 \in m + 1..n + 1 /\ m + 1 \in Int /\ n \in Int
    OBVIOUS
  <2>2. m + 1..n + 1 = D \cup {n + 1}
    OBVIOUS
  <2>3. IsFiniteSet(D)
    BY <2>1, FS_Interval
  <2> QED
    BY <1>2, <2>1, <2>2, <2>3
<1>4. Numbers(f) /\ DOMAIN f = D
  BY <1>2, <1>3 DEF Numbers
<1>5. g = [y \in D \cup {n + 1} |-> IF y = n + 1 THEN Bytes[n + 1] ELSE f[y]]
  BY <1>3
<1>6. DOMAIN g = DOMAIN f \cup {n + 1} /\ n + 1 \notin DOMAIN f
  BY <1>3, <1>4
<1> HIDE DEF f, g, D
<1>7. Total(g) = Total(f) + Bytes[n + 1]
  BY <1>3, <1>4, <1>5, <1>6, TotalAdds
<1> QED
  BY <1>3, <1>7 DEF f, g

LEMMA FirstBytesNext ==
  ASSUME NEW n \in Nat, n + 1 <= MaxMessages
  PROVE  FirstBytes(n + 1) = FirstBytes(n) + Bytes[n + 1] /\ Bytes[n + 1] \in Nat
<1>1. PICK z \in Nat : z = 0
  OBVIOUS
<1>2. z <= n /\ z + 1 = 1
  BY <1>1
<1>3. Total([i \in z + 1..n + 1 |-> Bytes[i]]) = Total([i \in z + 1..n |-> Bytes[i]]) + Bytes[n + 1] /\ Bytes[n + 1] \in Nat
  BY <1>2, BytesNext
<1> QED
  BY <1>2, <1>3 DEF FirstBytes

LEMMA NoBytes ==
  ASSUME NEW m \in Nat
  PROVE  Total([i \in m + 1..m |-> Bytes[i]]) = 0
<1> DEFINE f == [i \in m + 1..m |-> Bytes[i]]
<1>1. DOMAIN f = {}
  OBVIOUS
<1> HIDE DEF f
<1>2. Total(f) = 0
  BY <1>1, TotalEmpty
<1> QED
  BY <1>2 DEF f

LEMMA NoFirstBytes == FirstBytes(0) = 0
<1>1. PICK z \in Nat : z = 0
  OBVIOUS
<1>2. Total([i \in z + 1..z |-> Bytes[i]]) = 0
  BY NoBytes
<1>3. z + 1 = 1
  BY <1>1
<1> QED
  BY <1>1, <1>2, <1>3 DEF FirstBytes

LEMMA BytesFrom ==
  ASSUME NEW m \in Nat, m <= MaxMessages
  PROVE  \A n \in Nat : m + n <= MaxMessages =>
           /\ FirstBytes(m + n) \in Nat
           /\ Total([i \in m + 1..m + n |-> Bytes[i]]) = FirstBytes(m + n) - FirstBytes(m)
<1>1. MaxMessages \in Nat
  BY ContextBounds
<1> DEFINE counted == {n \in Nat : n <= MaxMessages => FirstBytes(n) \in Nat}
<1>2. 0 \in counted
  BY NoFirstBytes
<1>3. \A n \in Nat : n \in counted => n + 1 \in counted
  <2> SUFFICES ASSUME NEW n \in Nat, n + 1 <= MaxMessages, FirstBytes(n) \in Nat PROVE FirstBytes(n + 1) \in Nat
    BY <1>1
  <2> QED
    BY FirstBytesNext
<1>4. Nat \subseteq counted
  <2> HIDE DEF counted
  <2> QED
    BY <1>2, <1>3, Induction
<1> DEFINE good == {n \in Nat : m + n <= MaxMessages =>
                       Total([i \in m + 1..m + n |-> Bytes[i]]) = FirstBytes(m + n) - FirstBytes(m)}
<1>5. \A n \in Nat : m + n <= MaxMessages => FirstBytes(m + n) \in Nat
  BY <1>1, <1>4
<1>6. 0 \in good
  <2>1. m + 0 = m
    OBVIOUS
  <2>2. FirstBytes(m) \in Nat
    BY <1>5, <2>1
  <2> QED
    BY <2>1, <2>2, NoBytes
<1>7. \A n \in Nat : n \in good => n + 1 \in good
  <2> SUFFICES ASSUME NEW n \in Nat, m + (n + 1) <= MaxMessages,
                      Total([i \in m + 1..m + n |-> Bytes[i]]) = FirstBytes(m + n) - FirstBytes(m)
               PROVE  Total([i \in m + 1..m + (n + 1) |-> Bytes[i]]) = FirstBytes(m + (n + 1)) - FirstBytes(m)
    BY <1>1
  <2>1. PICK k \in Nat : k = m + n /\ m + (n + 1) = k + 1 /\ m <= k
    OBVIOUS
  <2>2. Total([i \in m + 1..k + 1 |-> Bytes[i]]) = Total([i \in m + 1..k |-> Bytes[i]]) + Bytes[k + 1] /\ Bytes[k + 1] \in Nat
    BY <2>1, BytesNext
  <2>4. FirstBytes(k + 1) = FirstBytes(k) + Bytes[k + 1]
    BY <2>1, FirstBytesNext
  <2>5. FirstBytes(k) \in Nat /\ FirstBytes(m) \in Nat
    <3>1. m + 0 = m /\ m + 0 <= MaxMessages /\ m + n <= MaxMessages
      BY <1>1
    <3> QED
      BY <1>5, <2>1, <3>1
  <2>6. Total([i \in m + 1..k |-> Bytes[i]]) = FirstBytes(k) - FirstBytes(m)
    BY <2>1
  <2>7. PICK x : x = Total([i \in m + 1..k + 1 |-> Bytes[i]])
    OBVIOUS
  <2>8. x = FirstBytes(k + 1) - FirstBytes(m)
    BY <2>2, <2>4, <2>5, <2>6, <2>7
  <2> QED
    BY <2>1, <2>7, <2>8
<1>8. Nat \subseteq good
  <2> HIDE DEF good
  <2> QED
    BY <1>6, <1>7, Induction
<1> QED
  BY <1>5, <1>8

LEMMA SizeIs ==
  ASSUME NEW offset \in Nat, NEW byte \in Nat, NEW n \in Nat, offset + n <= MaxMessages
  PROVE  /\ Size(offset, byte, n) = IF n = 0 THEN 0 ELSE FirstBytes(offset + n) - FirstBytes(offset) - byte
         /\ FirstBytes(offset) \in Nat /\ FirstBytes(offset + n) \in Nat
<1>1. offset <= MaxMessages /\ offset + 0 = offset
  BY ContextBounds
<1>2. /\ FirstBytes(offset + n) \in Nat
      /\ Total([i \in offset + 1..offset + n |-> Bytes[i]]) = FirstBytes(offset + n) - FirstBytes(offset)
  BY <1>1, BytesFrom
<1>3. FirstBytes(offset) \in Nat
  BY <1>1, BytesFrom
<1> QED
  BY <1>2, <1>3 DEF Size

\* buildContextSourcePage: a page goes on where the last one ended.
LEMMA PageGoesOn ==
  ASSUME NEW offset, NEW byte, NEW limit \in Nat \ {0}, NEW count \in Nat, ReadTo(offset, byte),
         offset < count, count <= MaxMessages
  PROVE  LET page == SourcePage(offset, byte, limit, count)
         IN  /\ ReadTo(page.offset, page.byte)
             /\ FirstBytes(offset) + byte + page.read = FirstBytes(page.offset) + page.byte
<1> DEFINE S == {n \in 0..limit : offset + n <= count /\ Size(offset, byte, n) <= PageBytes}
<1>1. /\ MaxMessages \in Nat /\ PageBytes \in Nat /\ PageBytes > 0 /\ offset \in Nat /\ byte \in Nat
      /\ \A m \in 1..MaxMessages : Bytes[m] \in Nat
  BY ContextBounds DEF ReadTo
<1>2. S \in SUBSET (0..limit) /\ S # {} /\ 0 \in Int /\ limit \in Int
  <2>1. 0 \in S
    BY <1>1 DEF Size
  <2> QED
    BY <2>1
<1>3. PICK n : n = WholeMessages(offset, byte, limit, count)
  OBVIOUS
<1>4. n = Max(S)
  BY <1>3 DEF WholeMessages
<1>5. n \in S /\ \A m \in S : m <= n
  <2> HIDE DEF S
  <2> QED
    BY <1>2, <1>4, LargestOf
<1>6. /\ n \in Nat /\ n <= limit /\ offset + n <= count /\ offset + n <= MaxMessages
      /\ Size(offset, byte, n) <= PageBytes
  BY <1>1, <1>5
<1>7. /\ Size(offset, byte, n) = IF n = 0 THEN 0 ELSE FirstBytes(offset + n) - FirstBytes(offset) - byte
      /\ FirstBytes(offset) \in Nat /\ FirstBytes(offset + n) \in Nat
  BY <1>1, <1>6, SizeIs
<1>8. PICK room : room = IF n < limit /\ offset + n < count THEN PageBytes - Size(offset, byte, n) ELSE 0
  OBVIOUS
<1>9. PICK page : page = [offset |-> offset + n, byte |-> IF room = 0 THEN 0 ELSE room + (IF n = 0 THEN byte ELSE 0),
                          read |-> Size(offset, byte, n) + room]
  OBVIOUS
<1>10. page = SourcePage(offset, byte, limit, count)
  BY <1>3, <1>8, <1>9 DEF SourcePage
<1>11. /\ page.offset = offset + n /\ page.byte = (IF room = 0 THEN 0 ELSE room + (IF n = 0 THEN byte ELSE 0))
       /\ page.read = Size(offset, byte, n) + room
  BY <1>9
<1>12. room \in Nat /\ (n = 0 => room > 0)
  BY <1>1, <1>6, <1>7, <1>8
<1>13. FirstBytes(offset) + byte + page.read = FirstBytes(page.offset) + page.byte
  <2>1. CASE n = 0
    <3>1. offset + n = offset /\ page.read = room /\ page.byte = room + byte
      BY <1>1, <1>7, <1>11, <1>12, <2>1
    <3> QED
      BY <1>1, <1>7, <1>11, <1>12, <3>1
  <2>2. CASE n # 0
    <3>1. page.byte = room /\ page.read = FirstBytes(offset + n) - FirstBytes(offset) - byte + room
      BY <1>7, <1>11, <1>12, <2>2
    <3> QED
      BY <1>1, <1>7, <1>11, <1>12, <3>1
  <2> QED
    BY <2>1, <2>2
<1>14. page.byte \in Nat /\ page.offset \in 0..MaxMessages
  BY <1>1, <1>6, <1>11, <1>12
<1>15. ASSUME page.byte > 0 PROVE page.offset < MaxMessages /\ page.byte < Bytes[page.offset + 1]
  <2>1. room > 0 /\ n < limit /\ offset + n < count /\ room = PageBytes - Size(offset, byte, n)
    BY <1>8, <1>11, <1>12, <1>15
  <2>2. PICK more \in Nat : more = n + 1
    BY <1>6
  <2>3. /\ more \in 0..limit /\ offset + more <= count /\ offset + more <= MaxMessages /\ more \notin S
        /\ offset + more = (offset + n) + 1
    BY <1>1, <1>5, <1>6, <2>1, <2>2
  <2>4. ~(Size(offset, byte, more) <= PageBytes)
    BY <2>3
  <2>5. Size(offset, byte, more) = FirstBytes(offset + more) - FirstBytes(offset) - byte /\ FirstBytes(offset + more) \in Nat
    BY <1>1, <1>6, <2>2, <2>3, SizeIs
  <2>6. FirstBytes(offset + more) = FirstBytes(offset + n) + Bytes[(offset + n) + 1] /\ Bytes[(offset + n) + 1] \in Nat
    <3>1. offset + n \in Nat /\ (offset + n) + 1 <= MaxMessages
      BY <1>1, <1>6, <2>3
    <3> QED
      BY <2>3, <3>1, FirstBytesNext
  <2>7. FirstBytes(offset + n) + Bytes[(offset + n) + 1] - FirstBytes(offset) - byte > PageBytes
    BY <1>1, <1>7, <2>4, <2>5, <2>6
  <2>8. CASE n = 0
    <3>1. offset + n = offset /\ room = PageBytes /\ page.byte = PageBytes + byte
      BY <1>1, <1>7, <1>11, <1>12, <2>1, <2>8
    <3> QED
      BY <1>1, <1>6, <1>7, <1>11, <2>3, <2>6, <2>7, <3>1
  <2>9. CASE n # 0
    <3>1. page.byte = PageBytes - (FirstBytes(offset + n) - FirstBytes(offset) - byte)
      BY <1>7, <1>11, <1>12, <2>1, <2>9
    <3> QED
      BY <1>1, <1>6, <1>7, <1>11, <2>3, <2>6, <2>7, <3>1
  <2> QED
    BY <2>8, <2>9
<1>16. ReadTo(page.offset, page.byte)
  BY <1>14, <1>15 DEF ReadTo
<1> QED
  BY <1>10, <1>13, <1>16
LEMMA ReadingKeeps ==
  ASSUME ContextInv, NEW a \in Agent, DescribeSource(a) \/ ReadSource(a) \/ StopReading(a)
  PROVE  ContextInv'
<1>1. StoredWell /\ AgentWell(agent[a]) /\ agent[a].at \in TurnSteps /\ UNCHANGED <<messages, files, old, exists, summary>>
  BY DEF ContextInv, DescribeSource, ReadSource, StopReading, AgentAt, TurnSteps
<1>2. TurnIsWhole(Turn(a)) /\ "turn" \in DOMAIN agent[a] /\ Turn(a) = agent[a].turn
  BY <1>1, TurnTyped DEF Turn
<1>3. ASSUME NEW to, Becomes(a, to), to.at = "reading", to.turn = Turn(a), AgentReads(to) PROVE ContextInv'
  <2>1. "at" \in DOMAIN to /\ to.at \notin FileSteps \cup {"listed", "deleting"} /\ AgentTurn(to)
    BY <1>2, <1>3 DEF AgentTurn, AgentReads, FileSteps, TurnSteps
  <2> QED
    BY <1>1, <1>3, <2>1, AgentMovesAlone
<1>4. FirstBytes(0) = 0
  BY NoFirstBytes
<1>5. CASE DescribeSource(a)
  <2>1. PICK reading : reading = IF AgentAt(a, "reading") THEN agent[a] ELSE Reading(Turn(a), 0, 0, 0)
    OBVIOUS
  <2>2. AgentReads(reading) /\ reading.at = "reading" /\ reading.turn = Turn(a) /\ DOMAIN reading = {"at", "turn", "offset", "byte", "got", "of"}
    <3>1. CASE AgentAt(a, "reading")
      BY <1>1, <1>2, <2>1, <3>1 DEF AgentWell, AgentReads, AgentAt
    <3>2. CASE ~AgentAt(a, "reading")
      <4>1. /\ reading.at = "reading" /\ reading.turn = Turn(a) /\ reading.offset = 0 /\ reading.byte = 0 /\ reading.got = 0
            /\ reading.of = NoSummary /\ DOMAIN reading = {"at", "turn", "offset", "byte", "got", "of"}
        BY <2>1, <3>2 DEF Reading
      <4>2. ReadTo(0, 0)
        BY ContextBounds DEF ReadTo
      <4> QED
        BY <1>4, <4>1, <4>2 DEF AgentReads
    <3> QED
      BY <3>1, <3>2
  <2>3. PICK to : to = [reading EXCEPT !.of = summary]
    OBVIOUS
  <2>4. reading.offset < Count(summary) /\ Becomes(a, to)
    BY <1>5, <2>1, <2>3 DEF DescribeSource
  <2>5. /\ DOMAIN to = {"at", "turn", "offset", "byte", "got", "of"} /\ to.at = "reading" /\ to.turn = Turn(a)
        /\ to.offset = reading.offset /\ to.byte = reading.byte /\ to.got = reading.got /\ to.of = summary
    BY <2>2, <2>3
  <2>6. AgentReads(to)
    BY <2>2, <2>4, <2>5 DEF AgentReads
  <2> QED
    BY <1>3, <2>4, <2>5, <2>6
<1>6. CASE ReadSource(a)
  <2>1. /\ agent[a].at = "reading" /\ agent[a].of # NoSummary /\ AgentReads(agent[a])
        /\ DOMAIN agent[a] = {"at", "turn", "offset", "byte", "got", "of"}
    BY <1>1, <1>6 DEF ReadSource, AgentAt, AgentWell, AgentReads
  <2> DEFINE fresh == exists /\ summary = agent[a].of /\ Loads
  <2>2. CASE fresh
    <3>1. PICK limit \in (IF agent[a].byte > 0 THEN {1} ELSE 1..PageMessages) :
            LET page == SourcePage(agent[a].offset, agent[a].byte, limit, Count(summary))
            IN  Becomes(a, Reading(Turn(a), page.offset, page.byte, agent[a].got + page.read))
      BY <1>6, <2>2 DEF ReadSource
    <3>2. limit \in Nat \ {0}
      BY ContextBounds
    <3>3. PICK offset, byte, count : offset = agent[a].offset /\ byte = agent[a].byte /\ count = Count(summary)
      OBVIOUS
    <3>4. ReadTo(offset, byte) /\ agent[a].got = FirstBytes(offset) + byte /\ offset < count
      BY <2>1, <2>2, <3>3 DEF AgentReads
    <3>5. count \in Nat /\ count <= MaxMessages
      <4>1. /\ summary.end \in Nat /\ summary.end > 1 /\ summary.end < Len(messages) /\ Len(messages) <= MaxMessages
            /\ Len(messages) \in Nat /\ MaxMessages \in Nat
        BY <1>1, <2>1, <2>2, ContextBounds DEF StoredWell
      <4> QED
        BY <3>3, <4>1 DEF Count, SourceStart
    <3>6. PICK page : page = SourcePage(offset, byte, limit, count)
      OBVIOUS
    <3>7. ReadTo(page.offset, page.byte) /\ FirstBytes(offset) + byte + page.read = FirstBytes(page.offset) + page.byte
      BY <3>2, <3>4, <3>5, <3>6, PageGoesOn
    <3>8. PICK to : to = Reading(Turn(a), page.offset, page.byte, agent[a].got + page.read)
      OBVIOUS
    <3>9. /\ DOMAIN to = {"at", "turn", "offset", "byte", "got", "of"} /\ to.at = "reading" /\ to.turn = Turn(a)
          /\ to.offset = page.offset /\ to.byte = page.byte /\ to.got = FirstBytes(page.offset) + page.byte /\ to.of = NoSummary
      BY <3>4, <3>7, <3>8 DEF Reading
    <3>10. AgentReads(to)
      BY <3>7, <3>9 DEF AgentReads
    <3>11. Becomes(a, to)
      BY <3>1, <3>3, <3>6, <3>8
    <3> QED
      BY <1>3, <3>9, <3>10, <3>11
  <2>3. CASE ~fresh
    <3>1. PICK to : to = [agent[a] EXCEPT !.of = NoSummary]
      OBVIOUS
    <3>2. /\ DOMAIN to = {"at", "turn", "offset", "byte", "got", "of"} /\ to.at = "reading" /\ to.turn = Turn(a)
          /\ to.offset = agent[a].offset /\ to.byte = agent[a].byte /\ to.got = agent[a].got /\ to.of = NoSummary
      BY <1>2, <2>1, <3>1
    <3>3. AgentReads(to)
      BY <2>1, <3>2 DEF AgentReads
    <3>4. Becomes(a, to)
      BY <1>6, <2>3, <3>1 DEF ReadSource
    <3> QED
      BY <1>3, <3>2, <3>3, <3>4
  <2> QED
    BY <2>2, <2>3
<1>7. CASE StopReading(a)
  <2>1. PICK to : to = [at |-> "running", turn |-> Turn(a)]
    OBVIOUS
  <2>2. "at" \in DOMAIN to /\ to.at \notin FileSteps \cup {"listed", "deleting"} /\ AgentTurn(to) /\ AgentReads(to)
    BY <1>2, <2>1 DEF AgentTurn, AgentReads, FileSteps, TurnSteps
  <2>3. Becomes(a, to)
    BY <1>7, <2>1 DEF StopReading, Running
  <2> QED
    BY <1>1, <2>2, <2>3, AgentMovesAlone
<1> QED
  BY <1>5, <1>6, <1>7

\* A deleted session has no rows, whatever files are left.
LEMMA DeletingKeeps ==
  ASSUME ContextInv, NEW a \in Agent, DeleteRows(a) \/ DeleteFile(a)
  PROVE  ContextInv'
<1>1. StoredWell /\ AgentWell(agent[a])
  BY DEF ContextInv
<1>2. ASSUME NEW to, Becomes(a, to), "at" \in DOMAIN to, to.at \in {"out", "deleting"},
             ~exists', messages' = <<>>, summary'.end \in Nat, summary'.end >= 1, summary'.of = 2..summary'.end, old' \subseteq files'
      PROVE  ContextInv'
  <2>1. MessagesKept
    BY <1>2 DEF MessagesKept
  <2>2. OthersKeep(a)
    BY <1>2, <2>1, TurnsStay DEF OthersKeep, AgentWell, AgentReads, AgentFiles
  <2>3. AgentWell(to)' /\ to.at \notin FileSteps /\ (exists' => exists)
    BY <1>2 DEF AgentWell, AgentFiles, AgentTurn, AgentReads, FileSteps, TurnSteps
  <2>4. Registered' = {}
    BY <1>2 DEF Registered
  <2>5. StoredWell'
    BY <1>2, <2>4, ContextBounds DEF StoredWell
  <2> QED
    BY <1>2, <2>2, <2>3, <2>5, AgentMoves
<1>3. CASE DeleteRows(a)
  <2>1. PICK to : to = [at |-> "deleting", paths |-> Registered]
    OBVIOUS
  <2>2. summary' = NoSummary /\ NoSummary.end = 1 /\ NoSummary.of = 2..1
    BY <1>3 DEF DeleteRows, NoSummary, SourceStart
  <2>3. ~exists' /\ messages' = <<>> /\ old' \subseteq files' /\ Becomes(a, to)
    BY <1>1, <1>3, <2>1 DEF DeleteRows, StoredWell
  <2>4. "at" \in DOMAIN to /\ to.at \in {"out", "deleting"}
    BY <2>1
  <2>5. summary'.end \in Nat /\ summary'.end >= 1 /\ summary'.of = 2..summary'.end
    BY <2>2
  <2> QED
    BY <1>2, <2>3, <2>4, <2>5
<1>4. CASE DeleteFile(a)
  <2>1. PICK file \in agent[a].paths :
          /\ files' = files \ {file} /\ old' = old \ {file}
          /\ Becomes(a, IF agent[a].paths = {file} THEN Out ELSE [agent[a] EXCEPT !.paths = @ \ {file}])
    BY <1>4 DEF DeleteFile
  <2>2. PICK to : to = IF agent[a].paths = {file} THEN Out ELSE [agent[a] EXCEPT !.paths = @ \ {file}]
    OBVIOUS
  <2>3. agent[a].at = "deleting" /\ ~exists /\ UNCHANGED <<exists, messages, summary>>
    BY <1>1, <1>4 DEF DeleteFile, AgentAt, AgentWell, AgentFiles
  <2>4. "at" \in DOMAIN to /\ to.at \in {"out", "deleting"}
    BY <1>1, <2>2, <2>3 DEF AgentWell, Out
  <2>5. /\ messages' = <<>> /\ summary'.end \in Nat /\ summary'.end >= 1 /\ summary'.of = 2..summary'.end /\ old' \subseteq files'
        /\ Becomes(a, to) /\ ~exists'
    BY <1>1, <2>1, <2>2, <2>3 DEF StoredWell
  <2> QED
    BY <1>2, <2>4, <2>5
<1> QED
  BY <1>3, <1>4

\* No file gets old that is staged or that a collection does not know.
LEMMA AgeingKeeps ==
  ASSUME ContextInv, FilesAge
  PROVE  ContextInv'
<1>1. UNCHANGED <<messages, files, summary, exists, agent>> /\ old' = old \cup (files \ (InUse \cup Unknown))
  BY DEF FilesAge
<1>2. Registered' = Registered
  BY <1>1 DEF Registered
<1>3. MessagesKept
  BY <1>1 DEF MessagesKept, ContextInv, StoredWell
<1>4. StoredWell'
  BY <1>1, <1>2 DEF ContextInv, StoredWell
<1>5. ASSUME NEW a \in Agent, NEW k, k = agent[a] PROVE AgentWell(k)'
  <2>1. AgentWell(k)
    BY <1>5 DEF ContextInv
  <2>2. AgentTurn(k)' /\ AgentReads(k)'
    BY <1>3, <2>1, TurnsStay DEF AgentWell, AgentReads
  <2>3. k.at \in FileSteps => k.file \in InUse
    BY <1>5 DEF InUse, FileSteps, AgentAt
  <2>4. k.at = "listed" => files \ k.registered \subseteq Unknown
    BY <1>5 DEF Unknown, AgentAt
  <2>5. AgentFiles(k)'
    <3>1. Registered \subseteq files
      BY DEF ContextInv, StoredWell
    <3> QED
      BY <1>1, <1>2, <2>1, <2>3, <2>4, <3>1 DEF AgentWell, AgentFiles
  <2> QED
    BY <2>1, <2>2, <2>5 DEF AgentWell
<1> QED
  BY <1>1, <1>4, <1>5 DEF ContextInv

\* The rows of a session have their files; what a run holds is the session's
\* messages; what is read of a source is its beginning.
THEOREM ContextInvariant == ContextSpec => []ContextInv
<1>1. ContextInv /\ [ContextNext]_contextVars => ContextInv'
  <2> SUFFICES ASSUME ContextInv, [ContextNext]_contextVars PROVE ContextInv'
    OBVIOUS
  <2>1. ASSUME NEW a \in Agent, AgentStep(a) PROVE ContextInv'
    BY <2>1, CollectingKeeps, StagingKeeps, LookingKeeps, CompactionKeeps, ReadingKeeps, DeletingKeeps DEF AgentStep
  <2>2. CASE UNCHANGED contextVars
    <3>1. UNCHANGED <<messages, files, old, summary, exists, agent>> /\ Registered' = Registered
      BY <2>2 DEF contextVars, Registered
    <3>2. MessagesKept
      BY <3>1 DEF MessagesKept, ContextInv, StoredWell
    <3>3. \A a \in Agent : \A k : k = agent[a] => AgentWell(k)'
      BY <3>1, <3>2, TurnsStay DEF ContextInv, AgentWell, AgentFiles, AgentReads
    <3>4. StoredWell'
      BY <3>1 DEF ContextInv, StoredWell
    <3> QED
      BY <3>1, <3>3, <3>4 DEF ContextInv
  <2> QED
    BY <2>1, <2>2, AgeingKeeps DEF ContextNext
<1> QED
  BY <1>1, ContextInitially, PTL DEF ContextSpec

\* No collection, cleanup or deletion of any process removes a file whose row
\* is, or is about to be, committed.
THEOREM RowsHaveFiles == ContextSpec => []ArtifactRowsHaveFiles
<1>1. ContextInv => ArtifactRowsHaveFiles
  BY DEF ContextInv, StoredWell, ArtifactRowsHaveFiles
<1> QED
  BY <1>1, ContextInvariant, PTL

\* What the model is shown is the whole conversation, through any compactions,
\* crashes and resumes: every message is in the window or in what its summary
\* was made from, none in both.
THEOREM ConversationIsWhole == ContextSpec => []NothingForgotten
<1>1. ContextInv => NothingForgotten
  <2> SUFFICES ASSUME ContextInv PROVE NothingForgotten
    OBVIOUS
  <2>1. summary.of = SourceStart..summary.end
    BY DEF ContextInv, StoredWell, SourceStart
  <2>2. ASSUME NEW a \in InTurn
        PROVE  LET window == Turn(a).window
                   end    == IF Turn(a).covers = {} THEN NoSummary.end ELSE Max(Turn(a).covers)
               IN  /\ Turn(a).covers = SourceStart..end
                   /\ window = Window(end, Turn(a).last)
                   /\ exists /\ Turn(a).covers # {} /\ Len(window) > 1 => RoleAt(window, 1) # "tool"
    <3>1. a \in Agent /\ agent[a].at \in TurnSteps
      BY DEF InTurn, TurnSteps
    <3>2. TurnIsWhole(Turn(a))
      BY <3>1, TurnTyped
    <3>3. PICK end \in Nat, last \in Nat :
            /\ last = Turn(a).last /\ end >= 1 /\ (end = 1 \/ end <= last)
            /\ Turn(a).covers = 2..end /\ Turn(a).window = Window(end, last)
            /\ exists => last <= Len(messages)
            /\ exists /\ end > 1 => end < Len(messages) /\ messages[end + 1].role # "tool"
      BY <3>2 DEF TurnIsWhole
    <3>4. (Turn(a).covers = {} <=> end = 1) /\ (Turn(a).covers # {} => Max(Turn(a).covers) = end)
      <4>1. 2..end = {} <=> end = 1
        BY <3>3
      <4>2. ASSUME end # 1 PROVE Max(2..end) = end
        <5>1. PICK S : S = 2..end
          OBVIOUS
        <5>2. S \in SUBSET (2..end) /\ S # {} /\ 2 \in Int /\ end \in Int /\ end \in S
          BY <3>3, <4>2, <5>1
        <5>3. Max(S) \in S /\ end <= Max(S)
          BY <5>2, LargestOf
        <5> QED
          BY <5>1, <5>3
      <4> QED
        BY <3>3, <4>1, <4>2
    <3>5. NoSummary.end = 1 /\ SourceStart = 2
      BY DEF NoSummary, SourceStart
    <3>6. end > 1 /\ Len(Window(end, last)) > 1 => Window(end, last)[2] = end + 1
      <4>1. end >= 1 /\ (end = 1 \/ end <= last)
        BY <3>3
      <4>2. /\ Len(Window(end, last)) = IF last = 0 THEN 0 ELSE last - end + 1
            /\ \A i \in 1..last - end : Window(end, last)[i + 1] = end + i
        BY <4>1, WindowIs
      <4>3. Len(Window(end, last)) > 1 => 1 \in 1..last - end
        BY <4>2
      <4> QED
        BY <4>2, <4>3
    <3>7. PICK covers, window : covers = Turn(a).covers /\ window = Turn(a).window
      OBVIOUS
    <3>8. PICK to : to = IF covers = {} THEN NoSummary.end ELSE Max(covers)
      OBVIOUS
    <3>9. to = end
      BY <3>3, <3>4, <3>5, <3>7, <3>8
    <3>10. covers = SourceStart..to /\ window = Window(to, Turn(a).last)
      BY <3>3, <3>5, <3>7, <3>9
    <3>11. exists /\ covers # {} /\ Len(window) > 1 => messages[window[2]].role # "tool"
      BY <3>3, <3>4, <3>6, <3>7
    <3>12. RoleAt(window, 1) = messages[window[2]].role
      BY DEF RoleAt
    <3> QED
      BY <3>7, <3>8, <3>10, <3>11, <3>12
  <2> QED
    BY <2>1, <2>2 DEF NothingForgotten
<1> QED
  BY <1>1, ContextInvariant, PTL

\* Page after page, the reader has been given every byte of the source up to
\* where the next page starts, and none twice.
THEOREM SourceIsReadInOrder == ContextSpec => []SourceReadInOrder
<1>1. ContextInv => SourceReadInOrder
  <2> SUFFICES ASSUME ContextInv, NEW a \in Agent, agent[a].at = "reading"
               PROVE  /\ agent[a].got = Size(0, 0, agent[a].offset) + agent[a].byte
                      /\ agent[a].byte > 0 => agent[a].byte < Bytes[agent[a].offset + 1]
    BY DEF SourceReadInOrder, AgentAt
  <2>1. PICK offset, byte : offset = agent[a].offset /\ byte = agent[a].byte
    OBVIOUS
  <2>2. ReadTo(offset, byte) /\ agent[a].got = FirstBytes(offset) + byte
    BY <2>1 DEF ContextInv, AgentWell, AgentReads
  <2>3. offset \in Nat /\ MaxMessages \in Nat /\ byte \in Nat
    BY <2>2, ContextBounds DEF ReadTo
  <2>4. Size(0, 0, offset) = FirstBytes(offset)
    <3>1. PICK z \in Nat : z = 0
      OBVIOUS
    <3>2. z + offset = offset /\ z + offset <= MaxMessages
      BY <2>2, <2>3, <3>1 DEF ReadTo
    <3>3. Size(z, z, offset) = IF offset = 0 THEN 0 ELSE FirstBytes(z + offset) - FirstBytes(z) - z
      BY <2>3, <3>2, SizeIs
    <3>4. FirstBytes(offset) \in Nat
      BY <2>3, <3>2, SizeIs
    <3> QED
      BY <3>1, <3>2, <3>3, <3>4, NoFirstBytes
  <2> QED
    BY <2>1, <2>2, <2>4 DEF ReadTo
<1> QED
  BY <1>1, ContextInvariant, PTL
=============================================================================
