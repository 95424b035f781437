---------------------------- MODULE TrustedMemory ----------------------------
(***************************************************************************)
(* The trusted memories of one scope: memory/store.go, memory/retrieve.go  *)
(* and the memory commands of app/memory.go.                               *)
(*                                                                         *)
(* Every process of the program opens the same database.  Remembering and  *)
(* forgetting are one transaction each; approving and superseding read the *)
(* row first and write it with an UPDATE that names only its id; recalling *)
(* reads the active rows and then records the use of each.  Any other      *)
(* command may come between two statements.                                *)
(*                                                                         *)
(* A row's id is the hash of its claim, scope, authority and session.      *)
(* Claims are classes of CanonicalizeClaim here; Ref stands for the        *)
(* session and the spelling, which make other ids of the same claim.       *)
(* Evidence and upgrades have no caller in the program and are left out,   *)
(* and so is the rest of a row, which nothing decides by.                  *)
(***************************************************************************)
EXTENDS Naturals, FiniteSets

CONSTANTS
  Process,      \* running instances of the program
  Claim,        \* claims that are not the same after CanonicalizeClaim
  Ref,          \* sessions and spellings
  MaxMemoryCommands  \* bound: commands started

\* What the command line accepts; the other two are for automated tools.
Authority == {"explicit", "inferred"}

Id == [claim : Claim, authority : Authority, ref : Ref]
NoLink == [claim |-> "none"]

VARIABLES
  memoryStatus,    \* of every row; "absent" when there is none
  supersedes,      \* the column of that name: the row that replaces this one
  memoryUsage,     \* rows that memory_usage names
  memoryCommand,   \* what every process is in the middle of
  memoryCommands,  \* commands started
  remembered,      \* the status the last remember printed
  overtaken        \* rows an UPDATE hit that were no more what had been read

memoryVars ==
  <<memoryStatus, supersedes, memoryUsage, memoryCommand, memoryCommands, remembered, overtaken>>

Status == {"absent", "proposed", "active", "disputed", "superseded", "archived"}

AtRest == [op |-> "idle"]
Approving(id) == [op |-> "approve", id |-> id]
Superseding(prior, new, link) ==
  [op |-> "supersede", old |-> prior, new |-> new, link |-> link]
Recalling(hits) == [op |-> "recall", hits |-> hits]

MemoryInit ==
  /\ memoryStatus = [id \in Id |-> "absent"]
  /\ supersedes = [id \in Id |-> NoLink]
  /\ memoryUsage = {}
  /\ memoryCommand = [p \in Process |-> AtRest]
  /\ memoryCommands = 0
  /\ remembered = "none"
  /\ overtaken = {}

HasRow(id) == memoryStatus[id] # "absent"

StartsCommand(p) ==
  /\ memoryCommand[p] = AtRest
  /\ memoryCommands < MaxMemoryCommands
  /\ memoryCommands' = memoryCommands + 1

\* A command that goes on after its first statement, and its last step.
Enters(p, next) == StartsCommand(p) /\ memoryCommand' = [memoryCommand EXCEPT ![p] = next]
Completes(p) == memoryCommand' = [memoryCommand EXCEPT ![p] = AtRest]

-----------------------------------------------------------------------------
(***************************************************************************)
(* Remember.                                                               *)
(***************************************************************************)

\* loadSameScope
Existing == {id \in Id : memoryStatus[id] \notin {"absent", "archived"}}

\* The status guardSave's caller asks for.
Routed(authority) == IF authority = "inferred" THEN "proposed" ELSE "active"

\* A conflict within one authority only, as before the cross-authority rule.
PeersOfAuthority(new) ==
  {id \in Existing : id # new /\ id.claim # new.claim /\ id.authority = new.authority}

\* The rows a new memory contradicts.
Peers(new) == {id \in Existing : id # new /\ id.claim # new.claim}

\* The claim is known: save returns its row as it is.
RememberKnown(p, new) ==
  /\ \E id \in Existing :
       /\ id.claim = new.claim
       /\ remembered' = memoryStatus[id]
  /\ UNCHANGED <<memoryStatus, supersedes, memoryUsage, memoryCommand, overtaken>>

\* It is not: every peer is disputed, and the row is inserted unless its id
\* is taken, which INSERT ... ON CONFLICT DO NOTHING passes over.
RememberNew(p, new) ==
  /\ \A id \in Existing : id.claim # new.claim
  /\ LET peers == Peers(new)
         inserted == IF peers = {} THEN Routed(new.authority) ELSE "disputed"
         final == IF HasRow(new) THEN memoryStatus[new] ELSE inserted
     IN  /\ memoryStatus' = [id \in Id |-> IF id \in peers THEN "disputed"
                                     ELSE IF id = new THEN final ELSE memoryStatus[id]]
         /\ remembered' = final
  /\ UNCHANGED <<supersedes, memoryUsage, memoryCommand, overtaken>>

Remember(p) ==
  /\ StartsCommand(p)
  /\ \E new \in Id : RememberKnown(p, new) \/ RememberNew(p, new)

-----------------------------------------------------------------------------
(***************************************************************************)
(* Forget.                                                                 *)
(***************************************************************************)

Archive(p) ==
  /\ StartsCommand(p)
  /\ \E id \in Id : HasRow(id) /\ memoryStatus' = [memoryStatus EXCEPT ![id] = "archived"]
  /\ UNCHANGED <<supersedes, memoryUsage, memoryCommand, remembered, overtaken>>

\* --hard: the foreign key of memory_usage refuses a row that was recalled.
Deletable(id) == HasRow(id) /\ id \notin memoryUsage

Delete(p) ==
  /\ StartsCommand(p)
  /\ \E id \in Id :
       /\ Deletable(id)
       /\ memoryStatus' = [memoryStatus EXCEPT ![id] = "absent"]
       /\ supersedes' = [supersedes EXCEPT ![id] = NoLink]
  /\ UNCHANGED <<memoryUsage, memoryCommand, remembered, overtaken>>

-----------------------------------------------------------------------------
(***************************************************************************)
(* Approve.                                                                *)
(***************************************************************************)

ReadToApprove(p) ==
  /\ \E id \in Id : memoryStatus[id] = "proposed" /\ Enters(p, Approving(id))
  /\ UNCHANGED <<memoryStatus, supersedes, memoryUsage, remembered, overtaken>>

\* UPDATE ... WHERE id=?, whatever has become of the row; none, if it is gone.
ApproveMemory(p) ==
  /\ memoryCommand[p].op = "approve"
  /\ LET id == memoryCommand[p].id
     IN  /\ memoryStatus' = IF HasRow(id) THEN [memoryStatus EXCEPT ![id] = "active"] ELSE memoryStatus
         /\ overtaken' = IF HasRow(id) /\ memoryStatus[id] # "proposed" THEN overtaken \cup {id} ELSE overtaken
  /\ Completes(p)
  /\ UNCHANGED <<supersedes, memoryUsage, memoryCommands, remembered>>

-----------------------------------------------------------------------------
(***************************************************************************)
(* Supersede.                                                              *)
(***************************************************************************)

\* A row that has been superseded keeps its link: ErrSupersedeChainExists.
Supersedable(prior) == HasRow(prior) /\ supersedes[prior] = NoLink

ReadToSupersede(p) ==
  /\ \E prior, new \in Id :
       /\ Supersedable(prior) /\ HasRow(new)
       /\ Enters(p, Superseding(prior, new, supersedes[prior]))
  /\ UNCHANGED <<memoryStatus, supersedes, memoryUsage, remembered, overtaken>>

Supersede(p) ==
  /\ memoryCommand[p].op = "supersede"
  /\ LET prior == memoryCommand[p].old
     IN  /\ IF HasRow(prior)
            THEN /\ memoryStatus' = [memoryStatus EXCEPT ![prior] = "superseded"]
                 /\ supersedes' = [supersedes EXCEPT ![prior] = memoryCommand[p].new]
            ELSE UNCHANGED <<memoryStatus, supersedes>>
         /\ overtaken' = IF HasRow(prior) /\ supersedes[prior] # memoryCommand[p].link
                         THEN overtaken \cup {prior} ELSE overtaken
  /\ Completes(p)
  /\ UNCHANGED <<memoryUsage, memoryCommands, remembered>>

-----------------------------------------------------------------------------
(***************************************************************************)
(* Recall.                                                                 *)
(***************************************************************************)

\* Tier3AtomicRecall: only active rows.  Their words are not modelled, so
\* a query may match any of them.
Recall(p) ==
  /\ \E hits \in SUBSET {id \in Id : memoryStatus[id] = "active"} :
       hits # {} /\ Enters(p, Recalling(hits))
  /\ UNCHANGED <<memoryStatus, supersedes, memoryUsage, remembered, overtaken>>

\* RecordUsage of one hit; a row that is gone fails the whole recall.
RecordHit(p) ==
  /\ memoryCommand[p].op = "recall"
  /\ \E id \in memoryCommand[p].hits :
       LET rest == memoryCommand[p].hits \ {id}
       IN  IF HasRow(id)
           THEN /\ memoryUsage' = memoryUsage \cup {id}
                /\ memoryCommand' = [memoryCommand EXCEPT ![p] = IF rest = {} THEN AtRest ELSE Recalling(rest)]
           ELSE Completes(p) /\ UNCHANGED memoryUsage
  /\ UNCHANGED <<memoryStatus, supersedes, memoryCommands, remembered, overtaken>>

\* The process is killed between two statements.
Die(p) ==
  /\ memoryCommand[p] # AtRest
  /\ Completes(p)
  /\ UNCHANGED <<memoryStatus, supersedes, memoryUsage, memoryCommands, remembered, overtaken>>

-----------------------------------------------------------------------------
MemoryNext == \E p \in Process :
  \/ Remember(p)
  \/ Archive(p) \/ Delete(p)
  \/ ReadToApprove(p) \/ ApproveMemory(p)
  \/ ReadToSupersede(p) \/ Supersede(p)
  \/ Recall(p) \/ RecordHit(p)
  \/ Die(p)

MemorySpec == MemoryInit /\ [][MemoryNext]_memoryVars

-----------------------------------------------------------------------------
Commands ==
  {AtRest} \cup {Approving(id) : id \in Id} \cup {Recalling(hits) : hits \in SUBSET Id}
    \cup {Superseding(prior, new, NoLink) : prior \in Id, new \in Id}

\* Types, and the foreign key: what was used is a row, and stays one.
TypeOK ==
  /\ memoryStatus \in [Id -> Status]
  /\ supersedes \in [Id -> Id \cup {NoLink}]
  /\ memoryUsage \subseteq {id \in Id : HasRow(id)}
  /\ memoryCommand \in [Process -> Commands]
  /\ memoryCommands \in Nat
  /\ remembered \in Status \cup {"none"}
  /\ overtaken \subseteq Id

(***************************************************************************)
(* A memory is recalled, or may still be approved, only while nothing else *)
(* stands in its scope: whatever contradicts it takes the trust of both.   *)
(* The exception is a row an approval has hit after another command had    *)
(* changed it: Store.Approve reads the status and then writes without      *)
(* looking again, so what ErrNotProposed refuses may happen all the same.  *)
(***************************************************************************)
Trusted(id) == memoryStatus[id] \in {"proposed", "active"}
Stands(id) == memoryStatus[id] \in {"proposed", "active", "disputed"}

TrustedStandsAlone ==
  \A id \in Id \ overtaken :
    Trusted(id) => \A other \in Id \ overtaken : Stands(other) => id = other

(***************************************************************************)
(* What ErrSupersedeChainExists is there for: the link from a superseded    *)
(* memory to the one that replaced it, which `memory why' follows, is not   *)
(* redirected as long as the row exists.                                    *)
(***************************************************************************)
LinksKept ==
  [][\A id \in Id :
       (supersedes[id] # NoLink /\ supersedes'[id] # supersedes[id]) => memoryStatus'[id] = "absent"]_memoryVars

(***************************************************************************)
(* store.go says that SaveUserMemory writes a memory with status=active    *)
(* (or disputed, with a conflict): who is told that a memory was saved     *)
(* does not find it forgotten.                                             *)
(***************************************************************************)
RememberedIsKept == remembered # "archived"
=============================================================================
