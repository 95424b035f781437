---------------------------- MODULE SessionView ----------------------------
(***************************************************************************)
(* What `session list' and `session show' and a resumed run read: the view   *)
(* of a session, a fold of its log (session/view.go), and the snapshot       *)
(* that spares most of the fold (session/snapshot.go, session/service.go).   *)
(*                                                                           *)
(* A view takes several statements: the row of the session, the snapshot,    *)
(* the log page by page.  A run that has ended saves a new snapshot in the   *)
(* same way.  Other processes append to the log, save and discard            *)
(* snapshots and delete the session between any two of them.                 *)
(*                                                                           *)
(* A fact is its kind and the one thing its reduction depends on.            *)
(***************************************************************************)
EXTENDS Naturals, Sequences, FiniteSets, Sums

CONSTANTS
  Reader,        \* processes that show sessions or refresh snapshots
  Fact,          \* what may be appended: records [kind, of]
  PageSize,      \* maximumLoadLimit
  MaxTokens,     \* the largest total a counter holds (2^63 - 1)
  MaxLog,        \* bound: facts of the session
  MaxReadings,   \* bound: views and refreshes begun
  MaxSpoiled     \* bound: snapshots that become unreadable

ASSUME ViewBounds ==
  /\ PageSize \in Nat \ {0}
  /\ {MaxTokens, MaxLog, MaxReadings, MaxSpoiled} \subseteq Nat
  /\ \A fact \in Fact : fact.kind = "usage.updated" => fact.of \in Nat

VARIABLES
  log,           \* facts of the session, in the order of session_seq
  row,           \* sessions.status, or "deleted"
  snapshot,      \* the row of snapshots
  reader,        \* what every reader is in the middle of
  readings,      \* views and refreshes begun so far
  spoiled        \* snapshots spoiled so far

viewVars == <<log, row, snapshot, reader, readings, spoiled>>

Nothing == [kind |-> "nothing"]
Rest    == [at |-> "rest"]

-----------------------------------------------------------------------------
(***************************************************************************)
(* The fold.                                                                 *)
(***************************************************************************)

RunStatus ==
  [kind \in {"run.started", "run.completed", "run.failed", "run.cancelled"} |->
     CASE kind = "run.started" -> "running"
       [] kind = "run.completed" -> "completed"
       [] kind = "run.failed" -> "failed"
       [] kind = "run.cancelled" -> "cancelled"]

ToolPhase ==
  [kind \in {"tool.proposed", "tool.started", "tool.completed"} |->
     CASE kind = "tool.proposed" -> "proposed"
       [] kind = "tool.started" -> "running"
       [] kind = "tool.completed" -> "completed"]

Listed == {"message.completed", "recovery.resolved", "context.compacted", "warning"}

SessionStatus(kind) == IF kind = "run.started" THEN "active" ELSE RunStatus[kind]

Runs  == {fact.of : fact \in {f \in Fact : f.kind \in DOMAIN RunStatus}}
Calls == {fact.of : fact \in {f \in Fact : f.kind \in DOMAIN ToolPhase}}

\* The view a reduction starts from when there is no snapshot.
Base(status) ==
  [seq |-> 0, status |-> status, runs |-> [r \in Runs |-> "none"], tools |-> [c \in Calls |-> "none"],
   lists |-> [kind \in Listed |-> <<>>], todos |-> {}, tokens |-> 0]

\* reduceUsage refuses a total that no longer fits.
Fits(view, fact) == fact.kind = "usage.updated" => view.tokens + fact.of <= MaxTokens

\* reduceRecord; private and unknown facts only advance the position.
Reduced(view, fact) ==
  LET next == [view EXCEPT !.seq = @ + 1]
  IN  CASE fact.kind \in DOMAIN RunStatus ->
             [next EXCEPT !.runs[fact.of] = RunStatus[fact.kind], !.status = SessionStatus(fact.kind)]
        [] fact.kind \in DOMAIN ToolPhase -> [next EXCEPT !.tools[fact.of] = ToolPhase[fact.kind]]
        [] fact.kind \in Listed           -> [next EXCEPT !.lists[fact.kind] = Append(@, fact.of)]
        [] fact.kind = "todo.updated"     -> [next EXCEPT !.todos = fact.of]
        [] fact.kind = "usage.updated"    -> [next EXCEPT !.tokens = @ + fact.of]
        [] OTHER                          -> next

\* Reduce, over one page; Nothing stands for its error.
Reduce(view, records) ==
  LET after[n \in 0..Len(records)] ==
        IF n = 0 THEN view
        ELSE IF after[n - 1] = Nothing \/ ~Fits(after[n - 1], records[n]) THEN Nothing
        ELSE Reduced(after[n - 1], records[n])
  IN  after[Len(records)]

-----------------------------------------------------------------------------
(***************************************************************************)
(* Reading.                                                                  *)
(***************************************************************************)

ViewInit ==
  /\ log = <<>>
  /\ row = "active"
  /\ snapshot = Nothing
  /\ reader = [p \in Reader |-> Rest]
  /\ readings = 0 /\ spoiled = 0

Present == row # "deleted"

ReaderAt(p, step)   == reader[p].at = step
ReaderGoes(p, next) == reader' = [reader EXCEPT ![p] = next]
Gives(p)      == ReaderGoes(p, Rest)

\* The position of the log when the view was asked for, and what it is for.
Underway(at, for, asOf, expected, view) ==
  [at |-> at, for |-> for, asOf |-> asOf, expected |-> expected, view |-> view]

Begins(p, reading) ==
  /\ ReaderAt(p, "rest") /\ readings < MaxReadings
  /\ readings' = readings + 1
  /\ ReaderGoes(p, reading)

BeginView(p) ==
  /\ Begins(p, Underway("base", "show", Len(log), 0, Nothing))
  /\ UNCHANGED <<log, row, snapshot, spoiled>>

\* The row is readable, by this version and with the position the index names.
Readable == snapshot # Nothing /\ snapshot.valid

\* RefreshSnapshot: the position it expects to replace.
BeginRefresh(p) ==
  /\ log # <<>>
  /\ Begins(p, Underway(IF snapshot = Nothing \/ Readable THEN "base" ELSE "discard first", "save", Len(log),
                       IF Readable THEN snapshot.view.seq ELSE 0, Nothing))
  /\ UNCHANGED <<log, row, snapshot, spoiled>>

\* loadBase
LoadBase(p) ==
  /\ ReaderAt(p, "base")
  /\ IF Present THEN ReaderGoes(p, [reader[p] EXCEPT !.at = "snapshot", !.view = Base(row)]) ELSE Gives(p)
  /\ UNCHANGED <<log, row, snapshot, readings, spoiled>>

\* LoadSnapshot: the snapshot replaces the base, or the log is read from its start.
LoadSnapshot(p) ==
  /\ ReaderAt(p, "snapshot")
  /\ ReaderGoes(p, IF Readable THEN [reader[p] EXCEPT !.at = "page", !.view = snapshot.view]
             ELSE IF snapshot = Nothing THEN [reader[p] EXCEPT !.at = "page"]
             ELSE [reader[p] EXCEPT !.at = "discard"])
  /\ UNCHANGED <<log, row, snapshot, readings, spoiled>>

\* DeleteSnapshot: whatever row there is by now.
DiscardSnapshot(p) ==
  /\ \/ ReaderAt(p, "discard") /\ ReaderGoes(p, [reader[p] EXCEPT !.at = "page"])
     \/ ReaderAt(p, "discard first") /\ ReaderGoes(p, [reader[p] EXCEPT !.at = "base"])
  /\ snapshot' = Nothing
  /\ UNCHANGED <<log, row, readings, spoiled>>

LogPage(after) == SubSeq(log, after + 1, IF Len(log) < after + PageSize THEN Len(log) ELSE after + PageSize)

LastPageOfAny(records) == Len(records) <= PageSize   \* mutant: one page is all
LastPage(records)      == Len(records) < PageSize

\* reduceAll, one page: a failing reduction ends the view.
LoadPage(p) ==
  /\ ReaderAt(p, "page")
  /\ LET records == LogPage(reader[p].view.seq)
         view    == Reduce(reader[p].view, records)
     IN  /\ IF view = Nothing THEN Gives(p)
            ELSE IF ~LastPage(records) THEN ReaderGoes(p, [reader[p] EXCEPT !.view = view])
            ELSE IF reader[p].for = "save" THEN ReaderGoes(p, [reader[p] EXCEPT !.at = "save", !.view = view])
            ELSE ReaderGoes(p, [reader[p] EXCEPT !.at = "given", !.view = view])
  /\ UNCHANGED <<log, row, snapshot, readings, spoiled>>

Position == IF snapshot = Nothing THEN 0 ELSE snapshot.view.seq

SavesAlways(reading) == Present /\ reading.view.seq >= reading.expected    \* mutant: the position may have moved

\* SaveSnapshot writes only over the row it was told to expect.
Saves(reading) ==
  /\ Present
  /\ reading.view.seq >= reading.expected
  /\ Position = reading.expected

SaveSnapshot(p) ==
  /\ ReaderAt(p, "save")
  /\ snapshot' = IF Saves(reader[p]) THEN [kind |-> "snapshot", valid |-> TRUE, view |-> reader[p].view] ELSE snapshot
  /\ Gives(p)
  /\ UNCHANGED <<log, row, readings, spoiled>>

-----------------------------------------------------------------------------
(***************************************************************************)
(* What happens meanwhile.                                                   *)
(***************************************************************************)

\* EventSink.Emit of a run, and RejectCommand, which fails the session without a fact.
AppendToLog ==
  /\ Present /\ Len(log) < MaxLog
  /\ \E fact \in Fact :
       /\ log' = Append(log, fact)
       /\ row' = IF fact.kind \in DOMAIN RunStatus THEN SessionStatus(fact.kind) ELSE row
  /\ UNCHANGED <<snapshot, reader, readings, spoiled>>

RejectSession ==
  /\ Present /\ row' = "failed"
  /\ UNCHANGED <<log, snapshot, reader, readings, spoiled>>

\* Another release wrote the row, or the disk lost it.
SpoilSnapshot ==
  /\ Readable /\ spoiled < MaxSpoiled
  /\ spoiled' = spoiled + 1
  /\ snapshot' = [snapshot EXCEPT !.valid = FALSE]
  /\ UNCHANGED <<log, row, reader, readings>>

\* Service.Delete: the rows of the session go with it.
DeleteSession ==
  /\ Present /\ row' = "deleted"
  /\ log' = <<>> /\ snapshot' = Nothing
  /\ UNCHANGED <<reader, readings, spoiled>>

\* The view is printed, or the process is killed.
Leave(p) ==
  /\ ~ReaderAt(p, "rest") /\ Gives(p)
  /\ UNCHANGED <<log, row, snapshot, readings, spoiled>>

ReaderStep(p) ==
  \/ BeginView(p) \/ BeginRefresh(p) \/ LoadBase(p) \/ LoadSnapshot(p) \/ DiscardSnapshot(p)
  \/ LoadPage(p) \/ SaveSnapshot(p) \/ Leave(p)

ViewNext == (\E p \in Reader : ReaderStep(p)) \/ AppendToLog \/ RejectSession \/ SpoilSnapshot \/ DeleteSession

ViewSpec == ViewInit /\ [][ViewNext]_viewVars

-----------------------------------------------------------------------------
(***************************************************************************)
(* What a view of the first n facts must say, without folding: of every      *)
(* run and call the last fact about it, of every list all facts in their     *)
(* order, of the tokens their sum.                                           *)
(***************************************************************************)
LastAbout(n, kinds, of) == {i \in 1..n : log[i].kind \in kinds /\ log[i].of = of
                              /\ \A j \in i + 1..n : ~(log[j].kind \in kinds /\ log[j].of = of)}

Says(entry, n, names, of) ==
  IF LastAbout(n, DOMAIN names, of) = {} THEN entry = "none"
  ELSE \A i \in LastAbout(n, DOMAIN names, of) : entry = names[log[i].kind]

FactsOf(n, kinds) == {i \in 1..n : log[i].kind \in kinds}

\* All facts of a kind, in their order.
InOrder(list, n, kind) ==
  LET at == FactsOf(n, {kind})
  IN  /\ Len(list) = Cardinality(at)
      /\ \A i \in at : list[Cardinality({j \in at : j <= i})] = log[i].of

IsViewOf(view, n) ==
  /\ view.seq = n
  /\ \A r \in Runs : Says(view.runs[r], n, RunStatus, r)
  /\ \A c \in Calls : Says(view.tools[c], n, ToolPhase, c)
  /\ \A i \in FactsOf(n, DOMAIN RunStatus) :
       (\A j \in FactsOf(n, DOMAIN RunStatus) : j <= i) => view.status = SessionStatus(log[i].kind)
  /\ \A kind \in Listed : InOrder(view.lists[kind], n, kind)
  /\ \A i \in 1..n : (log[i].kind = "todo.updated" /\ \A j \in i + 1..n : log[j].kind # "todo.updated")
       => view.todos = log[i].of
  /\ view.tokens = Total([i \in FactsOf(n, {"usage.updated"}) |-> log[i].of])
  /\ view.tokens <= MaxTokens

(***************************************************************************)
(* A view that is given shows the log, whatever snapshot it started from     *)
(* and whatever was written meanwhile: at least the facts that were there    *)
(* when it was asked for, each with its whole effect.  A total that does     *)
(* not fit makes the view fail, it never wraps.  A session that is deleted   *)
(* between two pages is out of the promise: what is left of the log is       *)
(* shown.                                                                    *)
(***************************************************************************)
ViewIsTheLog ==
  /\ \A p \in Reader : Present /\ ReaderAt(p, "given") =>
       reader[p].view.seq >= reader[p].asOf /\ IsViewOf(reader[p].view, reader[p].view.seq)
  /\ snapshot # Nothing => IsViewOf(snapshot.view, snapshot.view.seq)

(***************************************************************************)
(* A process that is slow to save its snapshot does not replace a newer      *)
(* one; a snapshot that cannot be read may be discarded.                     *)
(***************************************************************************)
SnapshotsAdvance ==
  [][(snapshot # Nothing /\ snapshot' # Nothing) => snapshot'.view.seq >= snapshot.view.seq]_viewVars
=============================================================================
