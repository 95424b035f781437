--------------------------- MODULE SessionContext ---------------------------
(***************************************************************************)
(* The private conversation of a session: the messages (session/context.go), *)
(* the files of those too large for a row (session/artifact.go), the         *)
(* rolling summary that replaces their middle when they no longer fit the    *)
(* model (context/builder.go, session/context_summary.go) and the tool that  *)
(* reads the replaced messages back (tools/read_context_source.go).          *)
(*                                                                           *)
(* A large message is a file first and a row afterwards; a deleted session   *)
(* loses its rows first and its files afterwards; opening the store removes  *)
(* files that are old and have no row.  Processes are killed between any     *)
(* two steps, and one may resume the session while another still runs.       *)
(*                                                                           *)
(* A message is its role and its file; the name of a file is the hash of     *)
(* the position and the content of its message.  What fits the model is      *)
(* left open: any cut that PlanCompaction may choose can be chosen.          *)
(***************************************************************************)
EXTENDS Integers, Sequences, FiniteSets, FiniteSetsExt, Sums

CONSTANTS
  Agent,         \* processes
  Text,          \* contents of large messages
  MinRecent,     \* minimumRecentMessages
  Quota,         \* artifacts a session may have
  Bytes,         \* Bytes[n]: encoded length of the n-th message of a source
  PageBytes,     \* contextSourcePayloadBytes
  PageMessages,  \* maxContextSourceMessages
  MaxMessages,   \* bound: messages of the session
  MaxSessions    \* bound: runs of the session

ASSUME ContextBounds ==
  /\ {Quota, MaxMessages, MaxSessions} \subseteq Nat
  /\ {MinRecent, PageBytes, PageMessages} \subseteq Nat \ {0}
  /\ Bytes \in [1..MaxMessages -> Nat \ {0}]

VARIABLES
  messages,   \* rows of context_messages, by ordinal
  files,      \* artifact files
  old,        \* those older than artifactOrphanGracePeriod
  summary,    \* the latest row of context_summaries
  exists,     \* the row of the session
  owner,      \* the run that has status running; 0 when there is none
  runs,       \* runs begun
  agent       \* where every process is

contextVars == <<messages, files, old, summary, exists, owner, runs, agent>>

Inline == <<>>                                   \* no file: the message is in the row
Out    == [at |-> "out"]

\* A summary says where its source ends; `of' is what its text was made from.
SourceStart == 2
NoSummary   == [end |-> SourceStart - 1, of |-> {}]

MayFollow == [none |-> {"user"}, user |-> {"assistant", "user"}, assistant |-> {"tool", "user"},
              tool |-> {"tool", "assistant", "user"}]

LastRole == IF messages = <<>> THEN "none" ELSE messages[Len(messages)].role

ContextInit ==
  /\ messages = <<>> /\ files = {} /\ old = {}
  /\ summary = NoSummary /\ exists = TRUE
  /\ owner = 0 /\ runs = 0
  /\ agent = [a \in Agent |-> Out]

AgentAt(a, step)    == agent[a].at = step
Becomes(a, to)      == agent' = [agent EXCEPT ![a] = to]

Registered == {messages[i].file : i \in DOMAIN messages} \ {Inline}

\* What a run holds: its number, the last message it knows of, the summary it
\* goes on from, and the history it shows the model.
Holding(run, last, covers, window) == [run |-> run, last |-> last, covers |-> covers, window |-> window]

Turn(a)            == agent[a].turn
Running(a, turn)   == Becomes(a, [at |-> "running", turn |-> turn])

-----------------------------------------------------------------------------
(***************************************************************************)
(* Opening the store: reconcileArtifacts.                                    *)
(***************************************************************************)

ListArtifacts(a) ==
  /\ AgentAt(a, "out")
  /\ Becomes(a, [at |-> "listed", registered |-> Registered])
  /\ UNCHANGED <<messages, files, old, summary, exists, owner, runs>>

OrphansOfAnyAge(registered) == files \ registered    \* mutant: no grace period

Orphans(registered) == (files \cap old) \ registered

CollectOrphans(a) ==
  /\ AgentAt(a, "listed")
  /\ files' = files \ Orphans(agent[a].registered)
  /\ old' = old \ Orphans(agent[a].registered)
  /\ Becomes(a, [at |-> "open"])
  /\ UNCHANGED <<messages, summary, exists, owner, runs>>

-----------------------------------------------------------------------------
(***************************************************************************)
(* A run of the session: InspectResume, BeginResume, NewContextRecorderAt.   *)
(***************************************************************************)

\* LoadContext: a message whose file is missing blocks the session.
Loads == Registered \subseteq files

\* The history a run goes on with: the first message and those after the summary.
Window(end, last) == IF last = 0 THEN <<>> ELSE <<1>> \o [i \in 1..(last - end) |-> end + i]

InspectContext(a) ==
  /\ AgentAt(a, "open") /\ exists /\ Loads
  /\ Becomes(a, [at |-> "inspected", last |-> Len(messages)])
  /\ UNCHANGED <<messages, files, old, summary, exists, owner, runs>>

\* LoadLatestContextSummary; one that covers more than was read is refused.
InspectSummary(a) ==
  /\ AgentAt(a, "inspected")
  /\ IF exists /\ (summary # NoSummary => summary.end <= agent[a].last)
     THEN Becomes(a, [at |-> "planned", turn |-> Holding(0, agent[a].last, summary.of, Window(summary.end, agent[a].last))])
     ELSE Becomes(a, Out)
  /\ UNCHANGED <<messages, files, old, summary, exists, owner, runs>>

\* The run takes the session over, unless a message came in since it looked.
BeginRun(a) ==
  /\ AgentAt(a, "planned") /\ runs < MaxSessions
  /\ IF exists /\ Turn(a).last = Len(messages)
     THEN /\ runs' = runs + 1 /\ owner' = runs + 1
          /\ Running(a, [Turn(a) EXCEPT !.run = runs + 1])
     ELSE Becomes(a, Out) /\ UNCHANGED <<runs, owner>>
  /\ UNCHANGED <<messages, files, old, summary, exists>>

\* The run ends, or its process is killed, or one of its writes has failed.
EndRun(a) ==
  /\ ~AgentAt(a, "out") /\ Becomes(a, Out)
  /\ UNCHANGED <<messages, files, old, summary, exists, owner, runs>>

-----------------------------------------------------------------------------
(***************************************************************************)
(* RecordMessage.                                                            *)
(***************************************************************************)

\* The transaction: the run still owns the session and nobody wrote meanwhile.
MayAppend(a, file) ==
  /\ exists /\ owner = Turn(a).run
  /\ Len(messages) = Turn(a).last
  /\ file # Inline => Cardinality(Registered) < Quota

Appended(a, role, file) ==
  /\ messages' = Append(messages, [role |-> role, file |-> file])
  /\ Running(a, [Turn(a) EXCEPT !.last = @ + 1, !.window = Append(@, Turn(a).last + 1)])

RecordInline(a) ==
  /\ AgentAt(a, "running") /\ Turn(a).last < MaxMessages
  /\ \E role \in MayFollow[LastRole] :
       IF MayAppend(a, Inline) THEN Appended(a, role, Inline) ELSE Becomes(a, Out) /\ UNCHANGED messages
  /\ UNCHANGED <<files, old, summary, exists, owner, runs>>

\* stageArtifactFile: a file of that name, left by a crash, makes the run fail.
StageFile(a) ==
  /\ AgentAt(a, "running") /\ Turn(a).last < MaxMessages
  /\ \E content \in Text :
       LET file == <<Turn(a).last + 1, content>>
       IN  IF file \in files THEN Becomes(a, Out) /\ UNCHANGED files
           ELSE files' = files \cup {file} /\ Becomes(a, [at |-> "staged", turn |-> Turn(a), file |-> file])
  /\ UNCHANGED <<messages, old, summary, exists, owner, runs>>

CommitLarge(a) ==
  /\ AgentAt(a, "staged")
  /\ \E role \in MayFollow[LastRole] :
       IF MayAppend(a, agent[a].file) THEN Appended(a, role, agent[a].file)
       ELSE Becomes(a, [agent[a] EXCEPT !.at = "cleanup"]) /\ UNCHANGED messages
  /\ UNCHANGED <<files, old, summary, exists, owner, runs>>

RemoveStaged(a) ==
  /\ AgentAt(a, "cleanup")
  /\ files' = files \ {agent[a].file} /\ old' = old \ {agent[a].file}
  /\ Becomes(a, Out)
  /\ UNCHANGED <<messages, summary, exists, owner, runs>>

-----------------------------------------------------------------------------
(***************************************************************************)
(* Compaction.  Positions in a window are counted from 0, as the code does.  *)
(***************************************************************************)

RoleAt(window, i) == messages[window[i + 1]].role

\* The latest user task, when it is not the first message.
Tasks(window) == {i \in 1..Len(window) - 1 : RoleAt(window, i) = "user"}

RecentFrom(window) ==
  IF Len(window) < MinRecent + 2 THEN Len(window) - 1 ELSE Len(window) - MinRecent

MaxCut(window) == Min({RecentFrom(window)} \cup (IF Tasks(window) = {} THEN {} ELSE {Max(Tasks(window))}))

\* mutant: a tool's answer may come first in the retained tail
AnyCuts(window) == IF Len(window) < 3 THEN {} ELSE 2..MaxCut(window)

\* Where PlanCompaction may cut; which of these is the first that fits is data.
Cuts(window) == IF Len(window) < 3 THEN {} ELSE {cut \in 2..MaxCut(window) : RoleAt(window, cut) # "tool"}

Retained(window, cut) == <<window[1]>> \o SubSeq(window, cut + 1, Len(window))
Replaced(window, cut) == {window[i] : i \in 2..cut}

\* compactContext: the plan is made, the model writes the summary.
PlanCompaction(a) ==
  /\ AgentAt(a, "running") /\ Turn(a).last = Len(messages)
  /\ \E cut \in Cuts(Turn(a).window) : Becomes(a, [at |-> "compacting", turn |-> Turn(a), cut |-> cut])
  /\ UNCHANGED <<messages, files, old, summary, exists, owner, runs>>

SourceEnd(turn, cut) == turn.last - (Len(turn.window) - cut)

\* RecordCompaction; the text was made from the summary the run goes on from
\* and from the messages the plan replaces.
RecordCompaction(a) ==
  /\ AgentAt(a, "compacting")
  /\ LET end == SourceEnd(Turn(a), agent[a].cut)
     IN  IF /\ exists /\ owner = Turn(a).run
            /\ Len(messages) = Turn(a).last
            /\ end >= SourceStart
            /\ end > summary.end
         THEN /\ summary' = [end |-> end, of |-> Turn(a).covers \cup Replaced(Turn(a).window, agent[a].cut)]
              /\ Becomes(a, [agent[a] EXCEPT !.at = "recorded"])
         ELSE Becomes(a, Out) /\ UNCHANGED summary
  /\ UNCHANGED <<messages, files, old, exists, owner, runs>>

\* applyCompaction, once context.compacted is durable.
ApplyCompaction(a) ==
  /\ AgentAt(a, "recorded")
  /\ Running(a, [Turn(a) EXCEPT !.covers = @ \cup Replaced(Turn(a).window, agent[a].cut),
                                !.window = Retained(@, agent[a].cut)])
  /\ UNCHANGED <<messages, files, old, summary, exists, owner, runs>>

-----------------------------------------------------------------------------
(***************************************************************************)
(* read_context_source: the model asks for page after page of the source     *)
(* of the latest summary, from where the last page ended.                    *)
(***************************************************************************)

Count(s) == s.end - SourceStart + 1

\* Bytes of n messages of a source from an offset on; the first without its head.
Size(offset, byte, n) == IF n = 0 THEN 0 ELSE Total([i \in offset + 1..offset + n |-> Bytes[i]]) - byte

\* Messages a page takes whole: no more than asked for, than there are, than fit.
WholeMessages(offset, byte, limit, count) ==
  Max({n \in 0..limit : offset + n <= count /\ Size(offset, byte, n) <= PageBytes})

\* mutant: the page goes on with the start of the message it has cut
PageFromStart(offset, byte, limit, count) ==
  LET n    == WholeMessages(offset, byte, limit, count)
      room == IF n < limit /\ offset + n < count THEN PageBytes - Size(offset, byte, n) ELSE 0
  IN  [offset |-> offset + n, byte |-> 0, read |-> Size(offset, byte, n) + room]

\* buildContextSourcePage: where the next page starts, and the bytes of this one.
SourcePage(offset, byte, limit, count) ==
  LET n    == WholeMessages(offset, byte, limit, count)
      room == IF n < limit /\ offset + n < count THEN PageBytes - Size(offset, byte, n) ELSE 0
  IN  [offset |-> offset + n, byte |-> IF room = 0 THEN 0 ELSE room + (IF n = 0 THEN byte ELSE 0),
       read |-> Size(offset, byte, n) + room]

Reading(turn, offset, byte, got) ==
  [at |-> "reading", turn |-> turn, offset |-> offset, byte |-> byte, got |-> got, of |-> NoSummary]

\* Prepare: the call names the summary of the moment.
DescribeSource(a) ==
  /\ \/ AgentAt(a, "running")
     \/ AgentAt(a, "reading") /\ agent[a].of = NoSummary
  /\ exists /\ summary # NoSummary
  /\ LET reading == IF AgentAt(a, "reading") THEN agent[a] ELSE Reading(Turn(a), 0, 0, 0)
     IN  reading.offset < Count(summary) /\ Becomes(a, [reading EXCEPT !.of = summary])
  /\ UNCHANGED <<messages, files, old, summary, exists, owner, runs>>

\* Execute: the page, or an error when the summary is another one by now; the
\* model may then ask again.  The rest of a cut message is asked for alone.
ReadSource(a) ==
  /\ AgentAt(a, "reading") /\ agent[a].of # NoSummary
  /\ IF exists /\ summary = agent[a].of /\ Loads
     THEN \E limit \in (IF agent[a].byte > 0 THEN {1} ELSE 1..PageMessages) :
            LET page == SourcePage(agent[a].offset, agent[a].byte, limit, Count(summary))
            IN  Becomes(a, Reading(Turn(a), page.offset, page.byte, agent[a].got + page.read))
     ELSE Becomes(a, [agent[a] EXCEPT !.of = NoSummary])
  /\ UNCHANGED <<messages, files, old, summary, exists, owner, runs>>

StopReading(a) ==
  /\ AgentAt(a, "reading") /\ agent[a].of = NoSummary
  /\ Running(a, Turn(a))
  /\ UNCHANGED <<messages, files, old, summary, exists, owner, runs>>

-----------------------------------------------------------------------------
(***************************************************************************)
(* Service.Delete, and time.                                                 *)
(***************************************************************************)

DeleteRows(a) ==
  /\ AgentAt(a, "open") /\ exists
  /\ exists' = FALSE /\ messages' = <<>> /\ summary' = NoSummary /\ owner' = 0
  /\ Becomes(a, [at |-> "deleting", paths |-> Registered])
  /\ UNCHANGED <<files, old, runs>>

DeleteFile(a) ==
  /\ AgentAt(a, "deleting")
  /\ \E file \in agent[a].paths :
       /\ files' = files \ {file} /\ old' = old \ {file}
       /\ Becomes(a, IF agent[a].paths = {file} THEN Out ELSE [agent[a] EXCEPT !.paths = @ \ {file}])
  /\ UNCHANGED <<messages, summary, exists, owner, runs>>

\* Files become old.  No process takes the whole grace period from a staged
\* file to its row, or from the list of rows to the end of its collection.
InUse   == {agent[a].file : a \in {b \in Agent : AgentAt(b, "staged") \/ AgentAt(b, "cleanup")}}
Unknown == UNION {files \ agent[a].registered : a \in {b \in Agent : AgentAt(b, "listed")}}

FilesAge ==
  /\ files \ (InUse \cup Unknown \cup old) # {}
  /\ old' = old \cup (files \ (InUse \cup Unknown))
  /\ UNCHANGED <<messages, files, summary, exists, owner, runs, agent>>

AgentStep(a) ==
  \/ ListArtifacts(a) \/ CollectOrphans(a) \/ InspectContext(a) \/ InspectSummary(a) \/ BeginRun(a) \/ EndRun(a)
  \/ RecordInline(a) \/ StageFile(a) \/ CommitLarge(a) \/ RemoveStaged(a)
  \/ PlanCompaction(a) \/ RecordCompaction(a) \/ ApplyCompaction(a)
  \/ DescribeSource(a) \/ ReadSource(a) \/ StopReading(a) \/ DeleteRows(a) \/ DeleteFile(a)

ContextNext == (\E a \in Agent : AgentStep(a)) \/ FilesAge

ContextSpec == ContextInit /\ [][ContextNext]_contextVars

-----------------------------------------------------------------------------
(***************************************************************************)
(* Properties.                                                               *)
(***************************************************************************)

\* A message in the table can be read: no collection, cleanup or deletion of
\* any process removes a file whose row is, or is about to be, committed.
ArtifactRowsHaveFiles == Registered \subseteq files


InTurn == {a \in Agent : agent[a].at \in {"running", "staged", "cleanup", "compacting", "recorded", "reading"}}

\* What the model is shown is the whole conversation: every message is in the
\* window, in its order, or in what the summary before it was made from, none
\* in both; the row of the summary names exactly the messages its text was made
\* from; and no window starts, after its first message, with the answer of a
\* tool whose call was replaced.
NothingForgotten ==
  /\ summary.of = SourceStart..summary.end
  /\ \A a \in InTurn :
       LET window == Turn(a).window
           end    == IF Turn(a).covers = {} THEN NoSummary.end ELSE Max(Turn(a).covers)
       IN  /\ Turn(a).covers = SourceStart..end
           /\ window = Window(end, Turn(a).last)
           /\ exists /\ Turn(a).covers # {} /\ Len(window) > 1 => RoleAt(window, 1) # "tool"

\* Page after page, the reader has been given every byte of the source up to
\* where the next page starts, and none twice, whatever summaries and failed
\* calls came in between.
SourceReadInOrder ==
  \A a \in Agent : AgentAt(a, "reading") =>
    /\ agent[a].got = Size(0, 0, agent[a].offset) + agent[a].byte
    /\ agent[a].byte > 0 => agent[a].byte < Bytes[agent[a].offset + 1]
=============================================================================
