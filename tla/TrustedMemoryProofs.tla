------------------------ MODULE TrustedMemoryProofs ------------------------
(***************************************************************************)
(* What holds of the memories of a scope for any number of processes,      *)
(* claims, sessions and commands.  TrustedStandsAlone is inductive with    *)
(* the types: the types say that a command in the middle names rows of     *)
(* this scope, and that a Supersede has read an empty link.                *)
(***************************************************************************)
EXTENDS TrustedMemory, TLAPS

\* What a process in the middle of a command names.
LEMMA CommandFields ==
  ASSUME NEW c \in Commands
  PROVE  /\ c.op = "approve" => c.id \in Id
         /\ c.op = "supersede" => c.old \in Id /\ c.new \in Id /\ c.link = NoLink
         /\ c.op = "recall" => c.hits \subseteq Id
<1>1. CASE c = AtRest
  BY <1>1 DEF AtRest
<1>2. ASSUME NEW id \in Id, c = Approving(id)
      PROVE  c.op = "approve" /\ c.id \in Id
  BY <1>2 DEF Approving
<1>3. ASSUME NEW hits \in SUBSET Id, c = Recalling(hits)
      PROVE  c.op = "recall" /\ c.hits \subseteq Id
  BY <1>3 DEF Recalling
<1>4. ASSUME NEW prior \in Id, NEW new \in Id, c = Superseding(prior, new, NoLink)
      PROVE  c.op = "supersede" /\ c.old \in Id /\ c.new \in Id /\ c.link = NoLink
  BY <1>4 DEF Superseding
<1> QED
  BY <1>1, <1>2, <1>3, <1>4 DEF Commands, AtRest

\* The steps of a command stay within the commands.
LEMMA CommandsAreClosed ==
  ASSUME NEW id \in Id, NEW prior \in Id, NEW new \in Id, NEW hits \in SUBSET Id
  PROVE  /\ AtRest \in Commands
         /\ Approving(id) \in Commands
         /\ Superseding(prior, new, NoLink) \in Commands
         /\ Recalling(hits) \in Commands
BY DEF Commands

\* Every statement moves one process, and from one command to another.
LEMMA StartsType ==
  ASSUME NEW p \in Process, memoryCommands \in Nat, StartsCommand(p)
  PROVE  memoryCommands' \in Nat
BY DEF StartsCommand

LEMMA BeginsType ==
  ASSUME NEW p \in Process, NEW next \in Commands, Enters(p, next),
         memoryCommand \in [Process -> Commands], memoryCommands \in Nat
  PROVE  memoryCommand' \in [Process -> Commands] /\ memoryCommands' \in Nat
<1>1. memoryCommands' \in Nat
  BY StartsType DEF Enters
<1>2. memoryCommand' \in [Process -> Commands]
  BY DEF Enters
<1> QED
  BY <1>1, <1>2

LEMMA EndsType ==
  ASSUME NEW p \in Process, Completes(p), memoryCommand \in [Process -> Commands]
  PROVE  memoryCommand' \in [Process -> Commands]
<1>1. AtRest \in Commands
  BY DEF Commands
<1> QED
  BY <1>1 DEF Completes

-----------------------------------------------------------------------------
(***************************************************************************)
(* Types.                                                                  *)
(***************************************************************************)

\* A row that was used is a row after every step that keeps the rows.
LEMMA UsageKept ==
  ASSUME TypeOK, memoryUsage' = memoryUsage, \A id \in memoryUsage : memoryStatus'[id] # "absent"
  PROVE  memoryUsage' \subseteq {id \in Id : HasRow(id)'}
BY DEF TypeOK, HasRow

LEMMA RememberType ==
  ASSUME TypeOK, NEW p \in Process, Remember(p)
  PROVE  TypeOK'
<1>1. PICK new \in Id : RememberKnown(p, new) \/ RememberNew(p, new)
  BY DEF Remember
<1>2. memoryCommands' \in Nat
  BY StartsType DEF TypeOK, Remember
<1>3. CASE RememberKnown(p, new)
  BY <1>2, <1>3 DEF RememberKnown, TypeOK, Existing, HasRow
<1>4. CASE RememberNew(p, new)
  <2> DEFINE peers == Peers(new)
  <2> DEFINE inserted == IF peers = {} THEN Routed(new.authority) ELSE "disputed"
  <2> DEFINE final == IF HasRow(new) THEN memoryStatus[new] ELSE inserted
  <2>1. final \in Status /\ final # "absent"
    BY DEF TypeOK, HasRow, Routed, Status
  <2>2. memoryStatus' = [id \in Id |-> IF id \in peers THEN "disputed"
                                 ELSE IF id = new THEN final ELSE memoryStatus[id]]
    BY <1>4 DEF RememberNew
  <2>3. remembered' = final
    BY <1>4 DEF RememberNew
  <2> HIDE DEF final
  <2>4. memoryStatus' \in [Id -> Status]
    BY <2>1, <2>2 DEF TypeOK, Status
  <2>5. \A id \in Id : memoryStatus[id] # "absent" => memoryStatus'[id] # "absent"
    BY <2>1, <2>2
  <2>6. memoryUsage' \subseteq {id \in Id : HasRow(id)'}
    BY <1>4, <2>5, UsageKept DEF RememberNew, TypeOK, HasRow
  <2> QED
    BY <1>2, <1>4, <2>1, <2>3, <2>4, <2>6 DEF RememberNew, TypeOK
<1> QED
  BY <1>1, <1>3, <1>4

LEMMA ArchiveType ==
  ASSUME TypeOK, NEW p \in Process, Archive(p)
  PROVE  TypeOK'
<1>1. PICK id \in Id : HasRow(id) /\ memoryStatus' = [memoryStatus EXCEPT ![id] = "archived"]
  BY DEF Archive
<1>2. memoryCommands' \in Nat
  BY StartsType DEF TypeOK, Archive
<1>3. memoryStatus' \in [Id -> Status]
  BY <1>1 DEF TypeOK, Status
<1>4. memoryUsage' \subseteq {x \in Id : HasRow(x)'}
  BY <1>1, UsageKept DEF Archive, TypeOK, HasRow
<1> QED
  BY <1>2, <1>3, <1>4 DEF TypeOK, Archive

LEMMA DeleteType ==
  ASSUME TypeOK, NEW p \in Process, Delete(p)
  PROVE  TypeOK'
<1>1. PICK id \in Id : /\ Deletable(id)
                       /\ memoryStatus' = [memoryStatus EXCEPT ![id] = "absent"]
                       /\ supersedes' = [supersedes EXCEPT ![id] = NoLink]
  BY DEF Delete
<1>2. memoryCommands' \in Nat
  BY StartsType DEF TypeOK, Delete
<1>3. memoryStatus' \in [Id -> Status] /\ supersedes' \in [Id -> Id \cup {NoLink}]
  BY <1>1 DEF TypeOK, Status
<1>4. memoryUsage' \subseteq {x \in Id : HasRow(x)'}
  BY <1>1, UsageKept DEF Delete, Deletable, TypeOK, HasRow
<1> QED
  BY <1>2, <1>3, <1>4 DEF TypeOK, Delete

LEMMA ReadType ==
  ASSUME TypeOK, NEW p \in Process, ReadToApprove(p) \/ ReadToSupersede(p) \/ Recall(p)
  PROVE  TypeOK'
<1>1. PICK next \in Commands : Enters(p, next)
  <2>1. CASE ReadToApprove(p)
    BY <2>1, CommandsAreClosed DEF ReadToApprove
  <2>2. CASE ReadToSupersede(p)
    BY <2>2, CommandsAreClosed DEF ReadToSupersede, Supersedable
  <2>3. CASE Recall(p)
    BY <2>3, CommandsAreClosed DEF Recall
  <2> QED
    BY <2>1, <2>2, <2>3
<1>2. memoryCommand' \in [Process -> Commands] /\ memoryCommands' \in Nat
  BY <1>1, BeginsType DEF TypeOK
<1>3. UNCHANGED <<memoryStatus, supersedes, memoryUsage, remembered, overtaken>>
  BY DEF ReadToApprove, ReadToSupersede, Recall
<1> QED
  BY <1>2, <1>3 DEF TypeOK, HasRow

LEMMA ApproveType ==
  ASSUME TypeOK, NEW p \in Process, ApproveMemory(p)
  PROVE  TypeOK'
<1> DEFINE id == memoryCommand[p].id
<1>1. id \in Id
  BY CommandFields DEF TypeOK, ApproveMemory
<1>2. memoryCommand' \in [Process -> Commands]
  BY EndsType DEF TypeOK, ApproveMemory
<1>3. /\ memoryStatus' = IF HasRow(id) THEN [memoryStatus EXCEPT ![id] = "active"] ELSE memoryStatus
      /\ overtaken' = IF HasRow(id) /\ memoryStatus[id] # "proposed" THEN overtaken \cup {id} ELSE overtaken
      /\ UNCHANGED <<supersedes, memoryUsage, memoryCommands, remembered>>
  BY DEF ApproveMemory
<1> HIDE DEF id
<1>4. memoryStatus' \in [Id -> Status] /\ overtaken' \subseteq Id
  BY <1>1, <1>3 DEF TypeOK, Status
<1>5. memoryUsage' \subseteq {x \in Id : HasRow(x)'}
  BY <1>1, <1>3, UsageKept DEF TypeOK, HasRow
<1> QED
  BY <1>2, <1>3, <1>4, <1>5 DEF TypeOK

LEMMA SupersedeType ==
  ASSUME TypeOK, NEW p \in Process, Supersede(p)
  PROVE  TypeOK'
<1> DEFINE prior == memoryCommand[p].old
<1> DEFINE new == memoryCommand[p].new
<1>1. prior \in Id /\ new \in Id
  BY CommandFields DEF TypeOK, Supersede
<1>2. memoryCommand' \in [Process -> Commands]
  BY EndsType DEF TypeOK, Supersede
<1>3. /\ memoryStatus' = IF HasRow(prior) THEN [memoryStatus EXCEPT ![prior] = "superseded"] ELSE memoryStatus
      /\ supersedes' = IF HasRow(prior) THEN [supersedes EXCEPT ![prior] = new] ELSE supersedes
      /\ overtaken' \subseteq overtaken \cup {prior}
      /\ UNCHANGED <<memoryUsage, memoryCommands, remembered>>
  BY DEF Supersede
<1> HIDE DEF prior, new
<1>4. /\ memoryStatus' \in [Id -> Status] /\ overtaken' \subseteq Id
      /\ supersedes' \in [Id -> Id \cup {NoLink}]
  BY <1>1, <1>3 DEF TypeOK, Status
<1>5. memoryUsage' \subseteq {x \in Id : HasRow(x)'}
  BY <1>1, <1>3, UsageKept DEF TypeOK, HasRow
<1> QED
  BY <1>2, <1>3, <1>4, <1>5 DEF TypeOK

LEMMA RecordUsageType ==
  ASSUME TypeOK, NEW p \in Process, RecordHit(p)
  PROVE  TypeOK'
<1>1. memoryCommand[p].hits \subseteq Id
  BY CommandFields DEF TypeOK, RecordHit
<1>2. PICK id \in memoryCommand[p].hits :
        \/ /\ HasRow(id)
           /\ memoryUsage' = memoryUsage \cup {id}
           /\ \/ Completes(p)
              \/ memoryCommand' = [memoryCommand EXCEPT ![p] = Recalling(memoryCommand[p].hits \ {id})]
        \/ Completes(p) /\ memoryUsage' = memoryUsage
  BY DEF RecordHit, Completes
<1>3. memoryCommand' \in [Process -> Commands]
  <2>1. Recalling(memoryCommand[p].hits \ {id}) \in Commands
    BY <1>1 DEF Commands
  <2> QED
    BY <1>2, <2>1, EndsType DEF TypeOK
<1>4. UNCHANGED <<memoryStatus, supersedes, memoryCommands, remembered, overtaken>>
  BY DEF RecordHit
<1>5. memoryUsage' \subseteq {x \in Id : HasRow(x)'}
  BY <1>1, <1>2, <1>4 DEF TypeOK, HasRow
<1> QED
  BY <1>3, <1>4, <1>5 DEF TypeOK

LEMMA DieType ==
  ASSUME TypeOK, NEW p \in Process, Die(p)
  PROVE  TypeOK'
<1>1. memoryCommand' \in [Process -> Commands]
  BY EndsType DEF TypeOK, Die
<1> QED
  BY <1>1 DEF Die, TypeOK, HasRow

LEMMA InitType == MemoryInit => TypeOK
<1> SUFFICES ASSUME MemoryInit PROVE TypeOK
  OBVIOUS
<1>1. memoryCommands \in Nat
  BY DEF MemoryInit
<1>2. memoryCommand \in [Process -> Commands]
  BY DEF MemoryInit, Commands
<1> QED
  BY <1>1, <1>2 DEF MemoryInit, TypeOK, Status

LEMMA StepType == TypeOK /\ [MemoryNext]_memoryVars => TypeOK'
<1> SUFFICES ASSUME TypeOK, [MemoryNext]_memoryVars PROVE TypeOK'
  OBVIOUS
<1>1. CASE UNCHANGED memoryVars
  BY <1>1 DEF memoryVars, TypeOK, HasRow
<1>2. ASSUME NEW p \in Process, Remember(p) PROVE TypeOK'
  BY <1>2, RememberType
<1>3. ASSUME NEW p \in Process, Archive(p) PROVE TypeOK'
  BY <1>3, ArchiveType
<1>4. ASSUME NEW p \in Process, Delete(p) PROVE TypeOK'
  BY <1>4, DeleteType
<1>5. ASSUME NEW p \in Process, ReadToApprove(p) \/ ReadToSupersede(p) \/ Recall(p) PROVE TypeOK'
  BY <1>5, ReadType
<1>6. ASSUME NEW p \in Process, ApproveMemory(p) PROVE TypeOK'
  BY <1>6, ApproveType
<1>7. ASSUME NEW p \in Process, Supersede(p) PROVE TypeOK'
  BY <1>7, SupersedeType
<1>8. ASSUME NEW p \in Process, RecordHit(p) PROVE TypeOK'
  BY <1>8, RecordUsageType
<1>9. ASSUME NEW p \in Process, Die(p) PROVE TypeOK'
  BY <1>9, DieType
<1> QED
  BY <1>1, <1>2, <1>3, <1>4, <1>5, <1>6, <1>7, <1>8, <1>9 DEF MemoryNext

\* The rows, links, uses and commands of a scope keep their types, and a row
\* that memory_usage names is never deleted (the foreign key of Forget).
THEOREM MemoryTypes == MemorySpec => []TypeOK
<1> QED
  BY InitType, StepType, PTL DEF MemorySpec

-----------------------------------------------------------------------------
(***************************************************************************)
(* Trust.                                                                  *)
(***************************************************************************)

\* A step that makes no row stand or be trusted that was not, and forgets
\* nothing that was overtaken, keeps the invariant.
LEMMA TrustOnlyShrinks ==
  ASSUME TrustedStandsAlone, overtaken \subseteq overtaken',
         \A id \in Id \ overtaken' : (Trusted(id)' => Trusted(id)) /\ (Stands(id)' => Stands(id))
  PROVE  TrustedStandsAlone'
BY DEF TrustedStandsAlone, Trusted, Stands

\* A new memory stands alone, or takes the trust of all there are: every row
\* that stands has another claim, so it is a peer.
LEMMA RememberTrust ==
  ASSUME TypeOK, TrustedStandsAlone, NEW p \in Process, Remember(p)
  PROVE  TrustedStandsAlone'
<1>1. PICK new \in Id : RememberKnown(p, new) \/ RememberNew(p, new)
  BY DEF Remember
<1>2. CASE RememberKnown(p, new)
  BY <1>2, TrustOnlyShrinks DEF RememberKnown, Trusted, Stands
<1>3. CASE RememberNew(p, new)
  <2> DEFINE peers == Peers(new)
  <2> DEFINE inserted == IF peers = {} THEN Routed(new.authority) ELSE "disputed"
  <2> DEFINE final == IF HasRow(new) THEN memoryStatus[new] ELSE inserted
  <2>1. memoryStatus' = [id \in Id |-> IF id \in peers THEN "disputed"
                                 ELSE IF id = new THEN final ELSE memoryStatus[id]]
    BY <1>3 DEF RememberNew
  <2>2. Existing = peers
    BY <1>3 DEF RememberNew, Peers, Existing
  <2>3. \A id \in Id : id \notin peers => memoryStatus[id] \in {"absent", "archived"}
    BY <2>2 DEF Existing
  <2>4. new \notin peers
    BY DEF Peers
  <2>5. Trusted(new)' => peers = {}
    <3>1. HasRow(new) => memoryStatus[new] = "archived"
      BY <2>3, <2>4 DEF HasRow
    <3>2. memoryStatus'[new] = final
      BY <2>1, <2>4
    <3>3. peers # {} => final \in {"archived", "disputed"}
      BY <3>1
    <3> QED
      BY <3>2, <3>3 DEF Trusted
  <2>6. \A id \in Id : Stands(id)' => id \in peers \/ id = new
    BY <2>1, <2>3 DEF Stands
  <2>7. \A id \in Id : Trusted(id)' => id = new
    BY <2>1, <2>3 DEF Trusted
  <2> QED
    BY <2>5, <2>6, <2>7 DEF TrustedStandsAlone
<1> QED
  BY <1>1, <1>2, <1>3

\* An approval makes a row active that was proposed, and so stood alone; if it
\* was something else by then, it has been overtaken.
LEMMA ApproveTrust ==
  ASSUME TypeOK, TrustedStandsAlone, NEW p \in Process, ApproveMemory(p)
  PROVE  TrustedStandsAlone'
<1> DEFINE id == memoryCommand[p].id
<1>1. id \in Id
  BY CommandFields DEF TypeOK, ApproveMemory
<1>2. /\ memoryStatus' = IF HasRow(id) THEN [memoryStatus EXCEPT ![id] = "active"] ELSE memoryStatus
      /\ overtaken' = IF HasRow(id) /\ memoryStatus[id] # "proposed" THEN overtaken \cup {id} ELSE overtaken
  BY DEF ApproveMemory
<1> HIDE DEF id
<1>3. \A x \in Id : x # id => memoryStatus'[x] = memoryStatus[x]
  BY <1>1, <1>2 DEF TypeOK
<1>4. CASE memoryStatus[id] = "proposed"
  BY <1>1, <1>2, <1>3, <1>4, TrustOnlyShrinks DEF Trusted, Stands
<1>5. CASE memoryStatus[id] # "proposed"
  <2>1. \A x \in Id \ overtaken' : memoryStatus'[x] = memoryStatus[x]
    BY <1>2, <1>3, <1>5
  <2>2. overtaken \subseteq overtaken'
    BY <1>2
  <2> QED
    BY <2>1, <2>2, TrustOnlyShrinks DEF Trusted, Stands
<1> QED
  BY <1>4, <1>5

LEMMA SupersedeTrust ==
  ASSUME TypeOK, TrustedStandsAlone, NEW p \in Process, Supersede(p)
  PROVE  TrustedStandsAlone'
<1> DEFINE prior == memoryCommand[p].old
<1>1. /\ memoryStatus' = IF HasRow(prior) THEN [memoryStatus EXCEPT ![prior] = "superseded"] ELSE memoryStatus
      /\ overtaken \subseteq overtaken'
  BY DEF Supersede
<1> HIDE DEF prior
<1> QED
  BY <1>1, TrustOnlyShrinks DEF TypeOK, Trusted, Stands

LEMMA ForgetTrust ==
  ASSUME TypeOK, TrustedStandsAlone, NEW p \in Process, Archive(p) \/ Delete(p)
  PROVE  TrustedStandsAlone'
<1>1. PICK id \in Id : \/ memoryStatus' = [memoryStatus EXCEPT ![id] = "archived"]
                       \/ memoryStatus' = [memoryStatus EXCEPT ![id] = "absent"]
  BY DEF Archive, Delete
<1>2. overtaken' = overtaken
  BY DEF Archive, Delete
<1> QED
  BY <1>1, <1>2, TrustOnlyShrinks DEF TypeOK, Trusted, Stands

LEMMA StepTrust == TypeOK /\ TrustedStandsAlone /\ [MemoryNext]_memoryVars => TrustedStandsAlone'
<1> SUFFICES ASSUME TypeOK, TrustedStandsAlone, [MemoryNext]_memoryVars PROVE TrustedStandsAlone'
  OBVIOUS
<1>1. ASSUME UNCHANGED <<memoryStatus, overtaken>> PROVE TrustedStandsAlone'
  BY <1>1, TrustOnlyShrinks DEF Trusted, Stands
<1>2. CASE UNCHANGED memoryVars
  BY <1>1, <1>2 DEF memoryVars
<1>3. ASSUME NEW p \in Process, Remember(p) PROVE TrustedStandsAlone'
  BY <1>3, RememberTrust
<1>4. ASSUME NEW p \in Process, Archive(p) \/ Delete(p) PROVE TrustedStandsAlone'
  BY <1>4, ForgetTrust
<1>5. ASSUME NEW p \in Process, ReadToApprove(p) \/ ReadToSupersede(p) \/ Recall(p) PROVE TrustedStandsAlone'
  BY <1>1, <1>5 DEF ReadToApprove, ReadToSupersede, Recall
<1>6. ASSUME NEW p \in Process, ApproveMemory(p) PROVE TrustedStandsAlone'
  BY <1>6, ApproveTrust
<1>7. ASSUME NEW p \in Process, Supersede(p) PROVE TrustedStandsAlone'
  BY <1>7, SupersedeTrust
<1>8. ASSUME NEW p \in Process, RecordHit(p) \/ Die(p) PROVE TrustedStandsAlone'
  BY <1>1, <1>8 DEF RecordHit, Die
<1> QED
  BY <1>2, <1>3, <1>4, <1>5, <1>6, <1>7, <1>8 DEF MemoryNext

\* A memory is recalled or can be approved only while nothing else stands in
\* its scope (Store.save disputes both sides), except where an Approve has
\* written a row that another command had changed since it was read.
THEOREM TrustIsExclusive == MemorySpec => []TrustedStandsAlone
<1>1. MemoryInit => TrustedStandsAlone
  BY DEF MemoryInit, TrustedStandsAlone, Trusted
<1> QED
  BY <1>1, StepTrust, MemoryTypes, PTL DEF MemorySpec

=============================================================================
