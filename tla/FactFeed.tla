------------------------------ MODULE FactFeed ------------------------------
(***************************************************************************)
(* How a viewer follows the committed facts of one session:                *)
(* session/fact_bus.go and the Bubble Tea models of internal/tui.          *)
(*                                                                         *)
(* The agent commits a fact and then publishes it on a bus that never      *)
(* waits: a full subscription loses its oldest notification and the new    *)
(* one is marked as a gap.  The viewer repairs gaps from the store.        *)
(*                                                                         *)
(* A Bubble Tea model handles one message at a time and answers it with at *)
(* most one command; the command runs in a goroutine of its own and ends   *)
(* in one message.  The feed is therefore a set of chains, each of which   *)
(* is at a command (start, load, wait), at a message nobody has handled    *)
(* yet, or over; commands and messages of different chains interleave      *)
(* freely.  InteractiveModel runs two chains, SessionModel one.            *)
(***************************************************************************)
EXTENDS Naturals, Sequences

CONSTANTS
  Chain,      \* chains of commands and messages of the feed
  Capacity,   \* notifications one subscription buffers
  PageSize,   \* facts of one page of a replay
  MaxFacts,   \* bound: facts the session commits
  MaxFaults   \* bound: reads of the store that fail

ASSUME FeedConstants ==
  /\ Capacity \in Nat \ {0}
  /\ PageSize \in Nat \ {0}
  /\ MaxFacts \in Nat
  /\ MaxFaults \in Nat

VARIABLES
  committed,     \* events of the session in the store
  published,     \* the last of them that reached the bus
  subscription,  \* the bus's side: is it registered, its cursor, its channel
  chain,         \* where each chain is
  hearing,       \* SessionModel.subscription is set
  lastSeq,       \* SessionView.LastSeq
  view,          \* the facts the view was reduced from, in order
  feedError,     \* SessionModel.feedError is set
  faults         \* reads that failed

busVars  == <<committed, published, subscription>>
viewVars == <<hearing, lastSeq, view, feedError>>
feedVars == <<busVars, chain, viewVars, faults>>

Over == [at |-> "over"]
Waiting == [at |-> "wait"]
Starting(after) == [at |-> "start", after |-> after]
Loading(after, first) == [at |-> "load", after |-> after, first |-> first]

Least(m, n) == IF m < n THEN m ELSE n

\* Service.ReplayPublicFacts: every event of EventSink is public.
PageAfter(after, first) ==
  LET through == IF committed > after THEN Least(after + PageSize, committed) ELSE after
  IN  [at |-> "page", after |-> after, through |-> through, first |-> first,
       more |-> through = after + PageSize]

Steps ==
  {Over, Waiting, [at |-> "closed"], [at |-> "error"]}
    \cup [at : {"start"}, after : 0..MaxFacts]
    \cup [at : {"load"}, after : 0..MaxFacts, first : BOOLEAN]
    \cup [at : {"page"}, after : 0..MaxFacts, through : 0..MaxFacts, first : BOOLEAN, more : BOOLEAN]
    \cup [at : {"notice"}, seq : 1..MaxFacts, gap : BOOLEAN]

FeedInit ==
  /\ committed = 0
  /\ published = 0
  /\ subscription = [open |-> FALSE, cursor |-> 0, channel |-> <<>>]
  /\ chain = [x \in Chain |-> Over]
  /\ hearing = FALSE
  /\ lastSeq = 0
  /\ view = <<>>
  /\ feedError = FALSE
  /\ faults = 0

-----------------------------------------------------------------------------
(***************************************************************************)
(* The agent's side: EventSink.Emit commits under its mutex, then          *)
(* publishes; the next fact is not committed before that.                  *)
(***************************************************************************)

CommitFact ==
  /\ published = committed
  /\ committed < MaxFacts
  /\ committed' = committed + 1
  /\ UNCHANGED <<published, subscription, chain, viewVars, faults>>

\* What a channel holds after PublishCommitted offered it fact n.
Enqueue(channel, n) ==
  IF Len(channel) < Capacity
  THEN Append(channel, [seq |-> n, gap |-> FALSE])
  ELSE Append(Tail(channel), [seq |-> n, gap |-> TRUE])

PublishCommitted ==
  /\ published < committed
  /\ published' = committed
  /\ subscription' =
       IF subscription.open /\ committed > subscription.cursor
       THEN [subscription EXCEPT !.channel = Enqueue(@, committed), !.cursor = committed]
       ELSE subscription
  /\ UNCHANGED <<committed, chain, viewVars, faults>>

-----------------------------------------------------------------------------
(***************************************************************************)
(* Commands: each runs beside the model and ends in one message.           *)
(***************************************************************************)

Goes(x, step) == chain' = [chain EXCEPT ![x] = step]

\* startFactFeed: subscribe first, then read what the store already has.
SubscribeFirst(x) ==
  /\ chain[x].at = "start"
  /\ subscription' = [open |-> TRUE, cursor |-> chain[x].after, channel |-> <<>>]
  /\ Goes(x, Loading(chain[x].after, TRUE))
  /\ UNCHANGED <<committed, published, viewVars, faults>>

Load(x) ==
  /\ chain[x].at = "load"
  /\ Goes(x, PageAfter(chain[x].after, chain[x].first))
  /\ UNCHANGED <<busVars, viewVars, faults>>

\* The read fails; the first one closes the subscription it has opened.
LoadFails(x) ==
  /\ chain[x].at = "load"
  /\ faults < MaxFaults
  /\ faults' = faults + 1
  /\ subscription' = IF chain[x].first THEN [subscription EXCEPT !.open = FALSE] ELSE subscription
  /\ Goes(x, [at |-> "error"])
  /\ UNCHANGED <<committed, published, viewVars>>

NoticeOf(item) == [at |-> "notice", seq |-> item.seq, gap |-> item.gap]

\* waitForFact: a closed channel still delivers what it holds.
Receive(x) ==
  /\ chain[x].at = "wait"
  /\ IF subscription.channel # <<>>
     THEN /\ Goes(x, NoticeOf(Head(subscription.channel)))
          /\ subscription' = [subscription EXCEPT !.channel = Tail(@)]
     ELSE /\ ~subscription.open
          /\ Goes(x, [at |-> "closed"])
          /\ UNCHANGED subscription
  /\ UNCHANGED <<committed, published, viewVars, faults>>

Commands == \E x \in Chain : SubscribeFirst(x) \/ Load(x) \/ Receive(x)

-----------------------------------------------------------------------------
(***************************************************************************)
(* Update: the model handles one message.                                  *)
(***************************************************************************)

\* waitForFact(nil) is no command.
WaitOrEnd(heard) == IF heard THEN Waiting ELSE Over

\* closeSubscription
CloseSubscription ==
  /\ hearing' = FALSE
  /\ subscription' = IF hearing THEN [subscription EXCEPT !.open = FALSE] ELSE subscription

Greater(m, n) == IF m > n THEN m ELSE n

\* The facts of a page the view does not have yet.
NewIn(page, last) ==
  LET from == Greater(page.after, last)
  IN  [i \in 1..(page.through - from) |-> from + i]

\* applyReplay that listens after its first page.
AfterAnyPage(page, last, heard) == WaitOrEnd(heard)

\* What a chain does after a page: read on, or listen.
AfterPage(page, last, heard) ==
  IF page.more THEN Loading(last, FALSE) ELSE WaitOrEnd(heard)

\* applyReplay, reached by factFeedStartedMsg and factReplayMsg
ApplyReplay(x) ==
  /\ chain[x].at = "page"
  /\ LET page == chain[x]
         last == Greater(page.through, lastSeq)
         heard == page.first \/ hearing
     IN  /\ view' = view \o NewIn(page, lastSeq)
         /\ lastSeq' = last
         /\ hearing' = heard
         /\ Goes(x, AfterPage(page, last, heard))
  /\ feedError' = FALSE
  /\ UNCHANGED <<busVars, faults>>

\* A viewer that trusts every notification.
NeedsNoReplay(notice) == FALSE

\* A notification the view cannot take as it is.
NeedsReplay(notice) == notice.gap \/ notice.seq # lastSeq + 1

ApplyNotice(x) ==
  /\ chain[x].at = "notice"
  /\ LET notice == chain[x]
     IN  \/ /\ notice.seq <= lastSeq
            /\ Goes(x, WaitOrEnd(hearing))
            /\ UNCHANGED <<lastSeq, view, feedError>>
         \/ /\ notice.seq > lastSeq
            /\ NeedsReplay(notice)
            /\ Goes(x, Loading(lastSeq, FALSE))
            /\ UNCHANGED <<lastSeq, view, feedError>>
         \/ /\ notice.seq > lastSeq
            /\ ~NeedsReplay(notice)
            /\ view' = Append(view, notice.seq)
            /\ lastSeq' = notice.seq
            /\ feedError' = FALSE
            /\ Goes(x, WaitOrEnd(hearing))
  /\ UNCHANGED <<busVars, hearing, faults>>

FeedCloses(x) ==
  /\ chain[x].at = "closed"
  /\ hearing' = FALSE
  /\ Goes(x, Over)
  /\ UNCHANGED <<busVars, lastSeq, view, feedError, faults>>

FeedFails(x) ==
  /\ chain[x].at = "error"
  /\ feedError' = TRUE
  /\ CloseSubscription
  /\ Goes(x, Over)
  /\ UNCHANGED <<committed, published, lastSeq, view, faults>>

HandleFeed(x) == ApplyReplay(x) \/ ApplyNotice(x) \/ FeedCloses(x) \/ FeedFails(x)

-----------------------------------------------------------------------------
FeedTypeOK ==
  /\ committed \in 0..MaxFacts
  /\ published \in 0..MaxFacts
  /\ subscription.cursor \in 0..MaxFacts
  /\ Len(subscription.channel) <= Capacity
  /\ chain \in [Chain -> Steps]
  /\ lastSeq \in 0..MaxFacts
  /\ hearing \in BOOLEAN /\ feedError \in BOOLEAN
  /\ faults \in 0..MaxFaults

(***************************************************************************)
(* The view is reduced from exactly the facts up to its LastSeq, each once *)
(* and in order: no interleaving of pages and notifications, late or       *)
(* dropped, makes it skip a fact, take one twice, or (what Reduce refuses  *)
(* with an error) go back.                                                 *)
(***************************************************************************)
ViewIsPrefix ==
  /\ lastSeq <= committed
  /\ view = [i \in 1..lastSeq |-> i]
=============================================================================
