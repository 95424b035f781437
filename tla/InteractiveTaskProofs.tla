----------------------- MODULE InteractiveTaskProofs -----------------------
(***************************************************************************)
(* What holds of a task of the terminal UI for any capacity of the bus,    *)
(* any page size and any number of facts, failures and prompts.            *)
(*                                                                         *)
(* That the view is a prefix of the facts is not inductive: a chain that   *)
(* carries a page is only harmless because the page begins where the view  *)
(* was and reaches no further than the store.  FeedIsBehind says so of     *)
(* every step a chain can be at, and PhasesAgree that the one step that    *)
(* empties the view, when a task has been prepared, finds no chain.        *)
(***************************************************************************)
EXTENDS InteractiveTask, SequenceTheorems, TLAPS

Item == [seq : 1..MaxFacts, gap : BOOLEAN]

\* The types of the feed, with those TLC sees in the values.
FeedTypes ==
  /\ FeedTypeOK
  /\ subscription \in [open : BOOLEAN, cursor : 0..MaxFacts, channel : Seq(Item)]
  /\ published <= committed

\* No chain is ahead of the store, and no page begins behind what it skips.
StepIsBehind(step, last, stored) ==
  /\ step.at \in {"start", "load"} => step.after <= last
  /\ step.at = "page" => step.after <= last /\ step.after <= step.through /\ step.through <= stored
  /\ step.at = "notice" => step.seq <= stored

FeedIsBehind ==
  /\ \A x \in Chain : StepIsBehind(chain[x], lastSeq, committed)
  /\ \A i \in 1..Len(subscription.channel) : subscription.channel[i].seq <= committed

FeedInv == FeedTypes /\ ViewIsPrefix /\ FeedIsBehind

PhasesAgree ==
  /\ phase \in {"input", "starting"} => \A x \in Chain : chain[x] = Over
  /\ prepare # "none" => phase = "starting"
  /\ (exit = "open" /\ phase \in {"input", "starting"}) => run = "none"

\* Who is stopped at the end: the runner knows of every run that can begin.
RunnerKnowsRun ==
  /\ run \in {"ready", "running"} => active
  /\ (exit = "open" /\ prepare = "prepared") => active
  /\ exit \in {"stopping", "exited"} => run # "ready"
  /\ exit = "exited" => run # "running"

IndInv == TypeOK /\ FeedInv /\ PhasesAgree /\ RunnerKnowsRun

\* Who has the prompt of a Decide: nobody yet, the loop, the user, or Decide again.
Heard ==
  \/ decide # "asked" /\ asking = "waiting" /\ shown = 0 /\ (decide = "offered" => response = "none")
  \/ decide = "asked" /\ asking = "prompt" /\ shown = 0 /\ response = "none"
  \/ decide = "asked" /\ shown = prompts /\ response = "none"
  \/ decide = "asked" /\ asking = "waiting" /\ shown = 0 /\ response # "none"

\* A run that can still be answered is one whose prompts are listened for.
RunIsHeard ==
  /\ exit = "open" => broker
  /\ run = "none" => shown = 0
  /\ PromptActive => run = "running"
  /\ (exit = "open" /\ ~ctxDone /\ run \in {"ready", "running"}) => phase = "running" /\ Heard

-----------------------------------------------------------------------------
(***************************************************************************)
(* The steps a chain can be at.                                            *)
(***************************************************************************)

LEMMA StepFields ==
  ASSUME NEW step \in Steps
  PROVE  /\ step.at \in {"start", "load"} => step.after \in 0..MaxFacts
         /\ step.at = "load" => step.first \in BOOLEAN
         /\ step.at = "page" => /\ step.after \in 0..MaxFacts
                                /\ step.through \in 0..MaxFacts
                                /\ step.first \in BOOLEAN /\ step.more \in BOOLEAN
         /\ step.at = "notice" => step.seq \in 1..MaxFacts /\ step.gap \in BOOLEAN
BY DEF Steps, Over, Waiting

LEMMA PlainSteps ==
  /\ Over \in Steps /\ Waiting \in Steps
  /\ [at |-> "closed"] \in Steps /\ [at |-> "error"] \in Steps
BY DEF Steps, Over, Waiting

LEMMA WaitOrEndStep ==
  ASSUME NEW heard
  PROVE  WaitOrEnd(heard) \in Steps /\ WaitOrEnd(heard).at \in {"wait", "over"}
BY PlainSteps DEF WaitOrEnd, Over, Waiting

\* What is behind stays behind when the view and the store go on.
LEMMA StaysBehind ==
  ASSUME NEW step \in Steps, NEW last \in Nat, NEW stored \in Nat,
         NEW last2 \in Nat, NEW stored2 \in Nat, last <= last2, stored <= stored2,
         StepIsBehind(step, last, stored)
  PROVE  StepIsBehind(step, last2, stored2)
BY StepFields DEF StepIsBehind

\* One chain moves, and the view does not go back.
LEMMA OneChainMoves ==
  ASSUME FeedTypes, FeedIsBehind, NEW x \in Chain, NEW step \in Steps, Goes(x, step),
         lastSeq' \in Nat, lastSeq <= lastSeq', committed' = committed,
         StepIsBehind(step, lastSeq', committed)
  PROVE  /\ chain' \in [Chain -> Steps]
         /\ \A y \in Chain : StepIsBehind(chain'[y], lastSeq', committed')
<1>1. chain \in [Chain -> Steps] /\ lastSeq \in Nat /\ committed \in Nat
  BY FeedConstants DEF FeedTypes, FeedTypeOK
<1>2. chain' \in [Chain -> Steps]
  BY <1>1 DEF Goes
<1>3. ASSUME NEW y \in Chain PROVE StepIsBehind(chain'[y], lastSeq', committed')
  <2>1. CASE y = x
    BY <1>1, <2>1 DEF Goes
  <2>2. CASE y # x
    <3>1. chain'[y] = chain[y]
      BY <1>1, <2>2 DEF Goes
    <3>2. chain[y] \in Steps /\ StepIsBehind(chain[y], lastSeq, committed)
      BY <1>1 DEF FeedIsBehind
    <3> QED
      BY <1>1, <3>1, <3>2, StaysBehind
  <2> QED
    BY <2>1, <2>2
<1> QED
  BY <1>2, <1>3

-----------------------------------------------------------------------------
(***************************************************************************)
(* The bus.                                                                *)
(***************************************************************************)

\* The counters of the feed are natural numbers.
LEMMA FeedNumbers ==
  ASSUME FeedTypes
  PROVE  /\ MaxFacts \in Nat /\ Capacity \in Nat \ {0} /\ PageSize \in Nat \ {0} /\ MaxFaults \in Nat
         /\ committed \in Nat /\ committed <= MaxFacts
         /\ published \in Nat /\ published <= committed
         /\ lastSeq \in Nat /\ lastSeq <= MaxFacts
         /\ subscription.cursor \in Nat
         /\ subscription.channel \in Seq(Item)
BY FeedConstants DEF FeedTypes, FeedTypeOK

LEMMA CommitFactInv ==
  ASSUME FeedInv, CommitFact
  PROVE  FeedInv'
<1>1. FeedTypes /\ ViewIsPrefix /\ FeedIsBehind
  BY DEF FeedInv
<1>2. committed' \in 0..MaxFacts /\ published' <= committed'
  BY <1>1, FeedNumbers DEF CommitFact
<1>3. UNCHANGED <<published, subscription, chain, viewVars, faults>>
  BY DEF CommitFact
<1>4. FeedTypes'
  BY <1>1, <1>2, <1>3 DEF FeedTypes, FeedTypeOK, viewVars, Item
<1>5. committed <= committed' /\ committed' \in Nat
  BY <1>1, FeedNumbers DEF CommitFact
<1>6. ViewIsPrefix'
  BY <1>1, <1>3, <1>5, FeedNumbers DEF ViewIsPrefix, viewVars
<1>7. \A x \in Chain : StepIsBehind(chain'[x], lastSeq', committed')
  <2> SUFFICES ASSUME NEW x \in Chain PROVE StepIsBehind(chain[x], lastSeq, committed')
    BY <1>3 DEF viewVars
  <2>1. chain[x] \in Steps /\ StepIsBehind(chain[x], lastSeq, committed)
    BY <1>1 DEF FeedTypes, FeedTypeOK, FeedIsBehind
  <2> QED
    BY <2>1, <1>1, <1>5, FeedNumbers, StaysBehind
<1>8. \A k \in 1..Len(subscription'.channel) : subscription'.channel[k].seq <= committed'
  <2> SUFFICES ASSUME NEW k \in 1..Len(subscription.channel) PROVE subscription.channel[k].seq <= committed'
    BY <1>3
  <2>1. subscription.channel[k] \in Item
    BY <1>1, FeedNumbers
  <2> QED
    BY <1>1, <1>5, <2>1, FeedNumbers DEF FeedIsBehind, Item
<1> QED
  BY <1>4, <1>6, <1>7, <1>8 DEF FeedInv, FeedIsBehind

\* The channel keeps its capacity and holds facts of the store only.
LEMMA EnqueueFits ==
  ASSUME FeedTypes, NEW channel \in Seq(Item), Len(channel) <= Capacity, NEW n \in 1..MaxFacts
  PROVE  /\ Enqueue(channel, n) \in Seq(Item)
         /\ Len(Enqueue(channel, n)) <= Capacity
         /\ (\A k \in 1..Len(channel) : channel[k].seq <= n) =>
              \A k \in 1..Len(Enqueue(channel, n)) : Enqueue(channel, n)[k].seq <= n
<1>1. Capacity \in Nat \ {0} /\ Len(channel) \in Nat
  BY FeedNumbers
<1>2. /\ [seq |-> n, gap |-> TRUE] \in Item
      /\ [seq |-> n, gap |-> FALSE] \in Item
  BY DEF Item
<1>3. n <= n
  BY FeedNumbers
<1>4. CASE Len(channel) < Capacity
  <2>1. Enqueue(channel, n) = Append(channel, [seq |-> n, gap |-> FALSE])
    BY <1>4 DEF Enqueue
  <2> QED
    BY <1>1, <1>2, <1>3, <1>4, <2>1
<1>5. CASE ~(Len(channel) < Capacity)
  <2> DEFINE rest == Tail(channel)
  <2>1. Enqueue(channel, n) = Append(rest, [seq |-> n, gap |-> TRUE])
    BY <1>5 DEF Enqueue
  <2>2. channel # <<>>
    BY <1>1, <1>5
  <2>3. rest \in Seq(Item) /\ Len(rest) = Len(channel) - 1
    BY <2>2
  <2>4. \A k \in 1..Len(rest) : rest[k] = channel[k + 1]
    BY <2>2
  <2> HIDE DEF rest
  <2>5. (\A k \in 1..Len(channel) : channel[k].seq <= n) => \A k \in 1..Len(rest) : rest[k].seq <= n
    <3> SUFFICES ASSUME \A k \in 1..Len(channel) : channel[k].seq <= n, NEW k \in 1..Len(rest)
                 PROVE  rest[k].seq <= n
      OBVIOUS
    <3>1. k + 1 \in 1..Len(channel)
      BY <1>1, <2>3
    <3> QED
      BY <2>4, <3>1
  <2> QED
    BY <1>1, <1>2, <1>3, <1>5, <2>1, <2>3, <2>5
<1> QED
  BY <1>4, <1>5

LEMMA PublishInv ==
  ASSUME FeedInv, PublishCommitted
  PROVE  FeedInv'
<1>1. FeedTypes /\ ViewIsPrefix /\ FeedIsBehind
  BY DEF FeedInv
<1>2. published' = committed /\ UNCHANGED <<committed, chain, viewVars, faults>>
  BY DEF PublishCommitted
<1>3. committed \in 1..MaxFacts
  BY <1>1, FeedNumbers DEF PublishCommitted
<1> DEFINE channel == Enqueue(subscription.channel, committed)
<1>4. subscription' = [subscription EXCEPT !.channel = channel, !.cursor = committed]
        \/ subscription' = subscription
  BY DEF PublishCommitted
<1>5. /\ channel \in Seq(Item) /\ Len(channel) <= Capacity
      /\ \A k \in 1..Len(channel) : channel[k].seq <= committed
  BY <1>1, <1>3, FeedNumbers, EnqueueFits DEF FeedTypes, FeedTypeOK, FeedIsBehind
<1> HIDE DEF channel
<1>6. /\ subscription' \in [open : BOOLEAN, cursor : 0..MaxFacts, channel : Seq(Item)]
      /\ Len(subscription'.channel) <= Capacity
      /\ \A k \in 1..Len(subscription'.channel) : subscription'.channel[k].seq <= committed
  BY <1>1, <1>3, <1>4, <1>5, FeedNumbers DEF FeedTypes, FeedTypeOK, FeedIsBehind
<1>7. FeedTypes'
  <2>1. published' \in 0..MaxFacts /\ published' <= committed' /\ subscription'.cursor \in 0..MaxFacts
    BY <1>1, <1>2, <1>6, FeedNumbers
  <2> QED
    BY <1>1, <1>2, <1>6, <2>1 DEF FeedTypes, FeedTypeOK, viewVars, Item
<1>8. ViewIsPrefix'
  BY <1>1, <1>2 DEF ViewIsPrefix, viewVars
<1>9. FeedIsBehind'
  BY <1>1, <1>2, <1>6 DEF FeedIsBehind, viewVars
<1> QED
  BY <1>7, <1>8, <1>9 DEF FeedInv

-----------------------------------------------------------------------------
(***************************************************************************)
(* Commands and messages: one chain moves, the view may go on.             *)
(***************************************************************************)

\* What is known of a subscription that has not been offered more.
SubscriptionFits(bus, stored) ==
  /\ bus \in [open : BOOLEAN, cursor : 0..MaxFacts, channel : Seq(Item)]
  /\ Len(bus.channel) <= Capacity
  /\ \A k \in 1..Len(bus.channel) : bus.channel[k].seq <= stored

LEMMA ChainStepInv ==
  ASSUME FeedInv, NEW x \in Chain, NEW step \in Steps, Goes(x, step),
         committed' = committed, published' = published, faults' \in 0..MaxFaults,
         SubscriptionFits(subscription', committed),
         lastSeq' \in Nat, lastSeq <= lastSeq', ViewIsPrefix',
         hearing' \in BOOLEAN, feedError' \in BOOLEAN,
         StepIsBehind(step, lastSeq', committed)
  PROVE  FeedInv'
<1>1. FeedTypes /\ FeedIsBehind
  BY DEF FeedInv
<1>2. /\ chain' \in [Chain -> Steps]
      /\ \A y \in Chain : StepIsBehind(chain'[y], lastSeq', committed')
  BY <1>1, OneChainMoves
<1>3. FeedIsBehind'
  BY <1>2 DEF FeedIsBehind, SubscriptionFits
<1>4. FeedTypeOK'
  <2>1. lastSeq' \in 0..MaxFacts
    BY <1>1, FeedNumbers DEF ViewIsPrefix
  <2>2. committed' \in 0..MaxFacts /\ published' \in 0..MaxFacts
    BY <1>1 DEF FeedTypes, FeedTypeOK
  <2>3. subscription'.cursor \in 0..MaxFacts /\ Len(subscription'.channel) <= Capacity
    BY DEF SubscriptionFits
  <2> QED
    BY <1>2, <2>1, <2>2, <2>3 DEF FeedTypeOK
<1>5. FeedTypes'
  BY <1>1, <1>4 DEF FeedTypes, SubscriptionFits, Item
<1> QED
  BY <1>3, <1>5 DEF FeedInv

LEMMA SubscriptionKept ==
  ASSUME FeedInv
  PROVE  /\ SubscriptionFits(subscription, committed)
         /\ SubscriptionFits([subscription EXCEPT !.open = FALSE], committed)
BY DEF FeedInv, FeedTypes, FeedTypeOK, FeedIsBehind, SubscriptionFits

LEMMA ChainTypes ==
  ASSUME FeedInv, NEW x \in Chain
  PROVE  chain[x] \in Steps /\ StepIsBehind(chain[x], lastSeq, committed)
BY DEF FeedInv, FeedTypes, FeedTypeOK, FeedIsBehind

\* The state of the view before a step that leaves it alone.
LEMMA ViewTypes ==
  ASSUME FeedInv
  PROVE  /\ lastSeq \in Nat /\ lastSeq <= lastSeq /\ ViewIsPrefix
         /\ hearing \in BOOLEAN /\ feedError \in BOOLEAN /\ faults \in 0..MaxFaults
         /\ lastSeq \in 0..MaxFacts /\ committed \in Nat
BY FeedNumbers DEF FeedInv, FeedTypes, FeedTypeOK

LEMMA SubscribeFirstInv ==
  ASSUME FeedInv, NEW x \in Chain, SubscribeFirst(x)
  PROVE  FeedInv'
<1> DEFINE step == Loading(chain[x].after, TRUE)
<1>1. chain[x].after \in 0..MaxFacts /\ chain[x].after <= lastSeq
  BY ChainTypes, StepFields DEF SubscribeFirst, StepIsBehind
<1>2. step \in Steps /\ StepIsBehind(step, lastSeq, committed)
  BY <1>1 DEF Loading, Steps, StepIsBehind
<1>3. SubscriptionFits(subscription', committed)
  BY <1>1, FeedNumbers DEF FeedInv, SubscribeFirst, SubscriptionFits
<1>4. ViewIsPrefix'
  BY ViewTypes DEF SubscribeFirst, viewVars, ViewIsPrefix
<1>5. Goes(x, step) /\ UNCHANGED <<committed, published, lastSeq, hearing, feedError, faults>>
  BY DEF SubscribeFirst, viewVars
<1> HIDE DEF step
<1> QED
  BY <1>2, <1>3, <1>4, <1>5, ViewTypes, ChainStepInv

LEMMA LoadInv ==
  ASSUME FeedInv, NEW x \in Chain, Load(x)
  PROVE  FeedInv'
<1> DEFINE step == PageAfter(chain[x].after, chain[x].first)
<1>1. /\ chain[x].after \in 0..MaxFacts /\ chain[x].after <= lastSeq
      /\ chain[x].first \in BOOLEAN
  BY ChainTypes, StepFields DEF Load, StepIsBehind
<1> DEFINE through == IF committed > chain[x].after
                      THEN Least(chain[x].after + PageSize, committed) ELSE chain[x].after
<1>2. through \in 0..MaxFacts /\ chain[x].after <= through /\ through <= committed
  BY <1>1, ViewTypes, FeedNumbers DEF FeedInv, Least, ViewIsPrefix
<1>3. step = [at |-> "page", after |-> chain[x].after, through |-> through, first |-> chain[x].first,
              more |-> through = chain[x].after + PageSize]
  BY DEF PageAfter
<1> HIDE DEF through
<1>4. step \in Steps /\ StepIsBehind(step, lastSeq, committed)
  BY <1>1, <1>2, <1>3 DEF Steps, StepIsBehind
<1>5. Goes(x, step) /\ UNCHANGED <<committed, published, subscription, lastSeq, view, hearing, feedError, faults>>
  BY DEF Load, busVars, viewVars
<1>6. ViewIsPrefix'
  BY <1>5, ViewTypes DEF ViewIsPrefix
<1> HIDE DEF step
<1> QED
  BY <1>4, <1>5, <1>6, ViewTypes, SubscriptionKept, ChainStepInv

LEMMA LoadFailsInv ==
  ASSUME FeedInv, NEW x \in Chain, LoadFails(x)
  PROVE  FeedInv'
<1>1. SubscriptionFits(subscription', committed)
  BY SubscriptionKept DEF LoadFails
<1>2. faults' \in 0..MaxFaults
  BY ViewTypes, FeedNumbers DEF LoadFails, FeedInv
<1>3. Goes(x, [at |-> "error"]) /\ UNCHANGED <<committed, published, lastSeq, view, hearing, feedError>>
  BY DEF LoadFails, viewVars
<1>4. ViewIsPrefix'
  BY <1>3, ViewTypes DEF ViewIsPrefix
<1>5. [at |-> "error"] \in Steps /\ StepIsBehind([at |-> "error"], lastSeq, committed)
  BY PlainSteps DEF StepIsBehind
<1> QED
  BY <1>1, <1>2, <1>3, <1>4, <1>5, ViewTypes, ChainStepInv

LEMMA ReceiveInv ==
  ASSUME FeedInv, NEW x \in Chain, Receive(x)
  PROVE  FeedInv'
<1>1. UNCHANGED <<committed, published, lastSeq, view, hearing, feedError, faults>>
  BY DEF Receive, viewVars
<1>2. ViewIsPrefix'
  BY <1>1, ViewTypes DEF ViewIsPrefix
<1>3. CASE subscription.channel # <<>>
  <2> DEFINE step == NoticeOf(Head(subscription.channel))
  <2>1. subscription.channel \in Seq(Item) /\ Len(subscription.channel) \in Nat /\ Len(subscription.channel) >= 1
    BY <1>3, FeedNumbers DEF FeedInv
  <2>2. Head(subscription.channel) \in Item /\ Head(subscription.channel).seq <= committed
    BY <2>1, SubscriptionKept DEF SubscriptionFits
  <2>3. step \in Steps /\ StepIsBehind(step, lastSeq, committed)
    BY <2>2 DEF NoticeOf, Steps, StepIsBehind, Item
  <2>4. SubscriptionFits([subscription EXCEPT !.channel = Tail(@)], committed)
    <3> DEFINE rest == Tail(subscription.channel)
    <3>1. rest \in Seq(Item) /\ Len(rest) = Len(subscription.channel) - 1
      BY <1>3, <2>1
    <3>2. \A k \in 1..Len(rest) : rest[k] = subscription.channel[k + 1]
      BY <1>3, <2>1
    <3> HIDE DEF rest
    <3>3. \A k \in 1..Len(rest) : rest[k].seq <= committed
      <4> SUFFICES ASSUME NEW k \in 1..Len(rest) PROVE rest[k].seq <= committed
        OBVIOUS
      <4>1. k + 1 \in 1..Len(subscription.channel)
        BY <2>1, <3>1
      <4> QED
        BY <3>2, <4>1, SubscriptionKept DEF SubscriptionFits
    <3>4. Len(rest) <= Capacity
      BY <2>1, <3>1, FeedNumbers, SubscriptionKept DEF SubscriptionFits, FeedInv
    <3>5. [subscription EXCEPT !.channel = rest] \in [open : BOOLEAN, cursor : 0..MaxFacts, channel : Seq(Item)]
      BY <3>1, SubscriptionKept DEF SubscriptionFits
    <3>6. [subscription EXCEPT !.channel = rest].channel = rest
      BY SubscriptionKept DEF SubscriptionFits
    <3> QED
      BY <3>3, <3>4, <3>5, <3>6 DEF SubscriptionFits, rest
  <2>5. Goes(x, step) /\ subscription' = [subscription EXCEPT !.channel = Tail(@)]
    BY <1>3 DEF Receive
  <2> HIDE DEF step
  <2> QED
    BY <1>1, <1>2, <2>3, <2>4, <2>5, ViewTypes, ChainStepInv
<1>4. CASE subscription.channel = <<>>
  <2>1. Goes(x, [at |-> "closed"]) /\ subscription' = subscription
    BY <1>4 DEF Receive
  <2>2. [at |-> "closed"] \in Steps /\ StepIsBehind([at |-> "closed"], lastSeq, committed)
    BY PlainSteps DEF StepIsBehind
  <2> QED
    BY <1>1, <1>2, <2>1, <2>2, ViewTypes, SubscriptionKept, ChainStepInv
<1> QED
  BY <1>3, <1>4

\* The first n facts.
FirstFacts(n) == [i \in 1..n |-> i]

LEMMA FirstFactsGrow ==
  ASSUME NEW m \in Nat, NEW n \in Nat
  PROVE  /\ FirstFacts(m) \o [i \in 1..n |-> m + i] = FirstFacts(m + n)
         /\ Append(FirstFacts(m), m + 1) = FirstFacts(m + 1)
<1> DEFINE s == FirstFacts(m)
<1> DEFINE t == [i \in 1..n |-> m + i]
<1>1. s \in Seq(Nat) /\ Len(s) = m
  BY DEF FirstFacts
<1>2. t \in Seq(Nat) /\ Len(t) = n
  OBVIOUS
<1>3. FirstFacts(m + n) \in Seq(Nat) /\ Len(FirstFacts(m + n)) = m + n
  BY DEF FirstFacts
<1>4. FirstFacts(m + 1) \in Seq(Nat) /\ Len(FirstFacts(m + 1)) = m + 1
  BY DEF FirstFacts
<1>5. \A i \in 1..m : s[i] = i
  BY DEF FirstFacts
<1>6. \A i \in 1..n : t[i] = m + i
  OBVIOUS
<1>7. \A i \in 1..(m + n) : FirstFacts(m + n)[i] = i
  BY DEF FirstFacts
<1>8. \A i \in 1..(m + 1) : FirstFacts(m + 1)[i] = i
  BY DEF FirstFacts
<1> HIDE DEF s, t
<1>9. s \o t = FirstFacts(m + n)
  <2>1. s \o t \in Seq(Nat) /\ Len(s \o t) = m + n
    BY <1>1, <1>2
  <2>2. \A i \in 1..(m + n) : (s \o t)[i] = i
    <3> SUFFICES ASSUME NEW i \in 1..(m + n) PROVE (s \o t)[i] = i
      OBVIOUS
    <3>1. CASE i <= m
      BY <1>1, <1>2, <1>5, <3>1
    <3>2. CASE i > m
      BY <1>1, <1>2, <1>6, <3>2
    <3>3. i <= m \/ i > m
      OBVIOUS
    <3> QED
      BY <3>1, <3>2, <3>3
  <2> QED
    BY <1>3, <1>7, <2>1, <2>2, SeqEqual
<1>10. Append(s, m + 1) = FirstFacts(m + 1)
  <2>1. Append(s, m + 1) \in Seq(Nat) /\ Len(Append(s, m + 1)) = m + 1
    BY <1>1
  <2>2. \A i \in 1..(m + 1) : Append(s, m + 1)[i] = i
    BY <1>1, <1>5
  <2> QED
    BY <1>4, <1>8, <2>1, <2>2, SeqEqual
<1> QED
  BY <1>9, <1>10 DEF s, t

LEMMA ApplyReplayInv ==
  ASSUME FeedInv, NEW x \in Chain, ApplyReplay(x)
  PROVE  FeedInv'
<1> DEFINE page == chain[x]
<1> DEFINE last == Greater(page.through, lastSeq)
<1> DEFINE heard == page.first \/ hearing
<1> DEFINE step == AfterPage(page, last, heard)
<1>1. /\ page.after \in 0..MaxFacts /\ page.through \in 0..MaxFacts /\ page.first \in BOOLEAN
      /\ page.after <= lastSeq /\ page.through <= committed
  BY ChainTypes, StepFields DEF ApplyReplay, StepIsBehind
<1>2. /\ view' = view \o NewIn(page, lastSeq) /\ lastSeq' = last /\ hearing' = heard
      /\ feedError' = FALSE /\ Goes(x, step)
      /\ UNCHANGED <<committed, published, subscription, faults>>
  BY DEF ApplyReplay, busVars
<1>3. lastSeq \in Nat /\ lastSeq <= committed /\ committed \in Nat /\ committed <= MaxFacts
      /\ view = FirstFacts(lastSeq) /\ MaxFacts \in Nat
  BY ViewTypes, FeedNumbers DEF ViewIsPrefix, FirstFacts, FeedInv
<1>4. last \in 0..MaxFacts /\ lastSeq <= last /\ last <= committed
  BY <1>1, <1>3 DEF Greater
<1>5. Greater(page.after, lastSeq) = lastSeq
  BY <1>1, <1>3 DEF Greater
<1>6. NewIn(page, lastSeq) = [i \in 1..(last - lastSeq) |-> lastSeq + i]
  <2>1. CASE page.through > lastSeq
    BY <1>5, <2>1 DEF NewIn, Greater
  <2>2. CASE ~(page.through > lastSeq)
    <3>1. 1..(page.through - lastSeq) = {} /\ 1..(last - lastSeq) = {}
      BY <1>1, <1>3, <2>2 DEF Greater
    <3>2. NewIn(page, lastSeq) = [i \in 1..(page.through - lastSeq) |-> lastSeq + i]
      BY <1>5 DEF NewIn
    <3> QED
      BY <3>1, <3>2
  <2> QED
    BY <2>1, <2>2
<1>7. step \in Steps /\ StepIsBehind(step, last, committed)
  BY <1>4, WaitOrEndStep DEF AfterPage, Loading, Steps, StepIsBehind
<1>8. heard \in BOOLEAN
  OBVIOUS
<1> HIDE DEF last, step, heard, page
<1>9. view' = FirstFacts(last)
  <2>1. last - lastSeq \in Nat /\ lastSeq + (last - lastSeq) = last
    BY <1>3, <1>4
  <2> QED
    BY <1>2, <1>3, <1>6, <2>1, FirstFactsGrow
<1>10. ViewIsPrefix'
  BY <1>2, <1>4, <1>9 DEF ViewIsPrefix, FirstFacts
<1> QED
  <2>1. lastSeq' \in Nat /\ lastSeq <= lastSeq' /\ hearing' \in BOOLEAN /\ feedError' \in BOOLEAN
    <3>1. lastSeq' \in Nat /\ lastSeq <= lastSeq'
      BY <1>2, <1>3, <1>4
    <3>2. hearing' \in BOOLEAN
      BY <1>2, <1>8
    <3> QED
      BY <1>2, <3>1, <3>2
  <2>2. StepIsBehind(step, lastSeq', committed)
    BY <1>2, <1>7
  <2>3. SubscriptionFits(subscription', committed) /\ faults' \in 0..MaxFaults
    BY <1>2, ViewTypes, SubscriptionKept
  <2>4. step \in Steps /\ Goes(x, step) /\ UNCHANGED <<committed, published>>
    BY <1>2, <1>7
  <2> QED
    BY <1>10, <2>1, <2>2, <2>3, <2>4, ChainStepInv

LEMMA ApplyNoticeInv ==
  ASSUME FeedInv, NEW x \in Chain, ApplyNotice(x)
  PROVE  FeedInv'
<1> DEFINE notice == chain[x]
<1>1. notice.seq \in 1..MaxFacts /\ notice.seq <= committed /\ notice.gap \in BOOLEAN
  BY ChainTypes, StepFields DEF ApplyNotice, StepIsBehind
<1>2. UNCHANGED <<committed, published, subscription, hearing, faults>>
  BY DEF ApplyNotice, busVars
<1>3. PICK step \in {WaitOrEnd(hearing), Loading(lastSeq, FALSE)} :
        /\ Goes(x, step)
        /\ \/ UNCHANGED <<lastSeq, view, feedError>>
           \/ /\ notice.seq = lastSeq + 1
              /\ view' = Append(view, notice.seq)
              /\ lastSeq' = notice.seq
              /\ feedError' = FALSE
              /\ step = WaitOrEnd(hearing)
  BY DEF ApplyNotice, NeedsReplay
<1>4. step \in Steps /\ StepIsBehind(step, lastSeq, committed)
  <2>1. CASE step = WaitOrEnd(hearing)
    BY <2>1, WaitOrEndStep DEF StepIsBehind
  <2>2. CASE step = Loading(lastSeq, FALSE)
    BY <2>2, ViewTypes DEF Loading, Steps, StepIsBehind
  <2> QED
    BY <2>1, <2>2
<1>5. CASE UNCHANGED <<lastSeq, view, feedError>>
  <2>1. ViewIsPrefix'
    BY <1>2, <1>5, ViewTypes DEF ViewIsPrefix
  <2> QED
    BY <1>2, <1>3, <1>4, <1>5, <2>1, ViewTypes, SubscriptionKept, ChainStepInv
<1>6. CASE /\ notice.seq = lastSeq + 1
           /\ view' = Append(view, notice.seq)
           /\ lastSeq' = notice.seq
           /\ feedError' = FALSE
           /\ step = WaitOrEnd(hearing)
  <2> HIDE DEF notice
  <2>1. view = FirstFacts(lastSeq) /\ lastSeq \in Nat
    BY ViewTypes DEF ViewIsPrefix, FirstFacts
  <2>2. view' = FirstFacts(lastSeq')
    BY <1>6, <2>1, FirstFactsGrow
  <2>3. ViewIsPrefix' /\ lastSeq' \in Nat /\ lastSeq <= lastSeq'
    BY <1>1, <1>2, <1>6, <2>1, <2>2 DEF ViewIsPrefix, FirstFacts
  <2>4. StepIsBehind(step, lastSeq', committed)
    BY <1>6, WaitOrEndStep DEF StepIsBehind
  <2> QED
    BY <1>2, <1>3, <1>4, <1>6, <2>3, <2>4, ViewTypes, SubscriptionKept, ChainStepInv
<1> QED
  BY <1>3, <1>5, <1>6

LEMMA FeedEndsInv ==
  ASSUME FeedInv, NEW x \in Chain, FeedCloses(x) \/ FeedFails(x)
  PROVE  FeedInv'
<1>1. Goes(x, Over) /\ UNCHANGED <<committed, published, lastSeq, view, faults>>
  BY DEF FeedCloses, FeedFails, busVars
<1>2. hearing' \in BOOLEAN /\ feedError' \in BOOLEAN /\ SubscriptionFits(subscription', committed)
  BY ViewTypes, SubscriptionKept DEF FeedCloses, FeedFails, busVars, CloseSubscription
<1>3. ViewIsPrefix'
  BY <1>1, ViewTypes DEF ViewIsPrefix
<1>4. Over \in Steps /\ StepIsBehind(Over, lastSeq, committed)
  BY PlainSteps DEF Over, StepIsBehind
<1> QED
  BY <1>1, <1>2, <1>3, <1>4, ViewTypes, ChainStepInv

-----------------------------------------------------------------------------
(***************************************************************************)
(* The task: which of its steps move the feed, and what the phases say.    *)
(***************************************************************************)

LEMMA FeedUnchanged ==
  ASSUME FeedInv, UNCHANGED feedVars
  PROVE  FeedInv'
<1> UNCHANGED <<committed, published, subscription, chain, hearing, lastSeq, view, feedError, faults>>
  BY DEF feedVars, busVars, viewVars
<1> QED
  BY DEF FeedInv, FeedTypes, FeedTypeOK, ViewIsPrefix, FeedIsBehind, StepIsBehind, Item

\* A step of some chain, by the loop or by one of its goroutines.
LEMMA FeedStepInv ==
  ASSUME FeedInv, FeedCommand \/ FeedCommandFails \/ HandleFact
  PROVE  FeedInv' /\ \E x \in Chain : chain[x] # Over
<1>1. ASSUME NEW x \in Chain, SubscribeFirst(x) \/ Load(x) \/ Receive(x) \/ LoadFails(x)
      PROVE  FeedInv' /\ chain[x] # Over
  <2>1. FeedInv'
    BY <1>1, SubscribeFirstInv, LoadInv, ReceiveInv, LoadFailsInv
  <2>2. chain[x].at \in {"start", "load", "wait"}
    BY <1>1 DEF SubscribeFirst, Load, Receive, LoadFails
  <2> QED
    BY <2>1, <2>2 DEF Over
<1>2. ASSUME NEW x \in Chain, HandleFeed(x)
      PROVE  FeedInv' /\ chain[x] # Over
  <2>1. FeedInv'
    BY <1>2, ApplyReplayInv, ApplyNoticeInv, FeedEndsInv DEF HandleFeed
  <2>2. chain[x].at \in {"page", "notice", "closed", "error"}
    BY <1>2 DEF HandleFeed, ApplyReplay, ApplyNotice, FeedCloses, FeedFails
  <2> QED
    BY <2>1, <2>2 DEF Over
<1> QED
  BY <1>1, <1>2 DEF FeedCommand, FeedCommandFails, HandleFact, Commands

\* A prepared task empties the view: nothing is on its way to it.
LEMMA HandlePreparedFeed ==
  ASSUME FeedInv, PhasesAgree, HandlePrepared
  PROVE  FeedInv'
<1>1. \A x \in Chain : chain[x] = Over
  BY DEF PhasesAgree, HandlePrepared
<1>2. /\ lastSeq' = 0 /\ view' = <<>> /\ chain' = [chain EXCEPT ![Feed] = Starting(0)]
      /\ UNCHANGED <<committed, published, subscription, hearing, feedError, faults>>
  BY DEF HandlePrepared, busVars
<1>3. Starting(0) \in Steps /\ StepIsBehind(Starting(0), 0, committed)
  BY FeedNumbers DEF FeedInv, Starting, Steps, StepIsBehind
<1>4. chain' \in [Chain -> Steps] /\ \A x \in Chain : chain'[x] \in {Over, Starting(0)}
  BY <1>1, <1>2, <1>3, TaskConstants DEF FeedInv, FeedTypes, FeedTypeOK
<1>5. FeedIsBehind'
  <2>1. StepIsBehind(Over, 0, committed)
    BY DEF StepIsBehind, Over
  <2>2. \A x \in Chain : StepIsBehind(chain'[x], lastSeq', committed')
    BY <1>2, <1>3, <1>4, <2>1
  <2> QED
    BY <1>2, <2>2 DEF FeedInv, FeedIsBehind
<1>6. ViewIsPrefix'
  BY <1>2, FeedNumbers DEF FeedInv, ViewIsPrefix
<1>7. FeedTypes'
  BY <1>2, <1>4, FeedNumbers DEF FeedInv, FeedTypes, FeedTypeOK, Item
<1> QED
  BY <1>5, <1>6, <1>7 DEF FeedInv

\* The result of a task begins a replay from where the view is.
LEMMA HandleResultFeed ==
  ASSUME FeedInv, HandleResult
  PROVE  FeedInv'
<1>1. Goes(Final, Loading(lastSeq, FALSE)) /\ UNCHANGED <<committed, published, subscription, lastSeq, view, hearing, feedError, faults>>
  BY DEF HandleResult, busVars, viewVars, Goes
<1>2. Loading(lastSeq, FALSE) \in Steps /\ StepIsBehind(Loading(lastSeq, FALSE), lastSeq, committed)
  BY ViewTypes DEF Loading, Steps, StepIsBehind
<1>3. ViewIsPrefix'
  BY <1>1, ViewTypes DEF ViewIsPrefix
<1> QED
  BY <1>1, <1>2, <1>3, TaskConstants, ViewTypes, SubscriptionKept, ChainStepInv

LEMMA QuitKeyFeed ==
  ASSUME FeedInv, QuitKey
  PROVE  FeedInv'
<1>1. UNCHANGED <<committed, published, chain, lastSeq, view, feedError, faults>> /\ hearing' = FALSE
  BY DEF QuitKey, CloseSubscription
<1>2. SubscriptionFits(subscription', committed)
  BY SubscriptionKept DEF QuitKey, CloseSubscription
<1>3. FeedTypes'
  BY <1>1, <1>2 DEF FeedInv, FeedTypes, FeedTypeOK, SubscriptionFits, Item
<1>4. ViewIsPrefix' /\ FeedIsBehind'
  BY <1>1, <1>2 DEF FeedInv, ViewIsPrefix, FeedIsBehind, StepIsBehind, SubscriptionFits
<1> QED
  BY <1>3, <1>4 DEF FeedInv

\* Every step of the task keeps what is known of the feed.
LEMMA StepFeed ==
  ASSUME FeedInv, PhasesAgree, Next
  PROVE  FeedInv'
<1>1. CASE UNCHANGED feedVars
  BY <1>1, FeedUnchanged
<1>2. CASE RunCommits
  BY <1>2, CommitFactInv DEF RunCommits
<1>3. CASE RunPublishes
  BY <1>3, PublishInv DEF RunPublishes
<1>4. CASE FeedCommand \/ FeedCommandFails \/ HandleFact
  BY <1>4, FeedStepInv
<1>5. CASE HandlePrepared
  BY <1>5, HandlePreparedFeed
<1>6. CASE HandleResult
  BY <1>6, HandleResultFeed
<1>7. CASE QuitKey
  BY <1>7, QuitKeyFeed
<1>8. CASE RunBegins \/ Ask \/ HandOver \/ Answered \/ DecideGivesUp \/ RunReturns
  BY <1>1, <1>8 DEF RunBegins, Ask, HandOver, Answered, DecideGivesUp, RunReturns
<1>9. CASE Submit \/ CancelKey \/ PrepareTask \/ PrepareFails \/ HandleRefused \/ HandlePrompt
  BY <1>1, <1>9 DEF Submit, CancelKey, PrepareTask, PrepareFails, HandleRefused, HandlePrompt
<1>10. ASSUME NEW choice \in Choice, ResolveApproval(choice) PROVE FeedInv'
  BY <1>1, <1>10 DEF ResolveApproval
<1>11. CASE LoopEnds \/ StopRunner \/ Exit
  BY <1>1, <1>11 DEF LoopEnds, StopRunner, Exit
<1> QED
  BY <1>2, <1>3, <1>4, <1>5, <1>6, <1>7, <1>8, <1>9, <1>10, <1>11 DEF Next, Run, Handle

\* What the loop, the run and the runner hold of a task.
TaskInv == TypeOK /\ PhasesAgree /\ RunnerKnowsRun

LEMMA TaskUnchanged ==
  ASSUME TypeOK, PhasesAgree, RunnerKnowsRun, FeedTypeOK', UNCHANGED <<taskVars, promptVars, exitVars>>,
         chain' = chain \/ \E x \in Chain : chain[x] # Over
  PROVE  TaskInv'
BY DEF TaskInv, TypeOK, PhasesAgree, RunnerKnowsRun, taskVars, promptVars, exitVars

\* The run and its approvals.
LEMMA RunTask ==
  ASSUME TypeOK, PhasesAgree, RunnerKnowsRun, FeedTypeOK',
         RunBegins \/ Ask \/ HandOver \/ Answered \/ DecideGivesUp \/ RunReturns
  PROVE  TaskInv'
<1>1. chain' = chain
  BY DEF RunBegins, Ask, HandOver, Answered, DecideGivesUp, RunReturns, feedVars
<1>2. CASE RunBegins
  BY <1>1, <1>2 DEF RunBegins, TaskInv, TypeOK, PhasesAgree, RunnerKnowsRun, promptVars, exitVars
<1>3. CASE Ask
  BY <1>1, <1>3, TaskConstants DEF Ask, TaskInv, TypeOK, PhasesAgree, RunnerKnowsRun, taskVars, exitVars
<1>4. CASE HandOver \/ Answered \/ DecideGivesUp
  BY <1>1, <1>4 DEF HandOver, Answered, DecideGivesUp, TaskInv, TypeOK, PhasesAgree, RunnerKnowsRun, taskVars, exitVars
<1>5. CASE RunReturns
  BY <1>1, <1>5 DEF RunReturns, TaskInv, TypeOK, PhasesAgree, RunnerKnowsRun, promptVars, exitVars
<1> QED
  BY <1>2, <1>3, <1>4, <1>5

\* Keys.
LEMMA KeyTask ==
  ASSUME TypeOK, PhasesAgree, RunnerKnowsRun, FeedTypeOK',
         Submit \/ (\E choice \in Choice : ResolveApproval(choice)) \/ CancelKey \/ QuitKey
  PROVE  TaskInv'
<1>1. chain' = chain
  BY DEF Submit, ResolveApproval, CancelKey, QuitKey, feedVars
<1>2. CASE Submit
  BY <1>1, <1>2 DEF Submit, TaskInv, TypeOK, PhasesAgree, RunnerKnowsRun, promptVars, exitVars
<1>3. ASSUME NEW choice \in Choice, ResolveApproval(choice) PROVE TaskInv'
  BY <1>1, <1>3, TaskConstants
     DEF ResolveApproval, ListenAgain, TaskInv, TypeOK, PhasesAgree, RunnerKnowsRun, taskVars, exitVars
<1>4. CASE CancelKey
  BY <1>1, <1>4, TaskConstants DEF CancelKey, TaskInv, TypeOK, PhasesAgree, RunnerKnowsRun, exitVars
<1>5. CASE QuitKey
  BY <1>1, <1>5 DEF QuitKey, TaskInv, TypeOK, PhasesAgree, RunnerKnowsRun, taskVars, promptVars
<1> QED
  BY <1>2, <1>3, <1>4, <1>5

\* Messages of the task's commands.
LEMMA MessageTask ==
  ASSUME TypeOK, PhasesAgree, RunnerKnowsRun, FeedTypeOK',
         PrepareTask \/ PrepareFails \/ HandleRefused \/ HandlePrepared \/ HandleResult \/ HandlePrompt
  PROVE  TaskInv'
<1>1. CASE PrepareTask \/ PrepareFails
  BY <1>1 DEF PrepareTask, PrepareFails, TaskInv, TypeOK, PhasesAgree, RunnerKnowsRun, feedVars, promptVars, exitVars
<1>2. CASE HandleRefused
  BY <1>2 DEF HandleRefused, TaskInv, TypeOK, PhasesAgree, RunnerKnowsRun, feedVars, promptVars, exitVars
<1>3. CASE HandlePrepared
  BY <1>3 DEF HandlePrepared, TaskInv, TypeOK, PhasesAgree, RunnerKnowsRun, exitVars
<1>4. CASE HandleResult
  BY <1>4, TaskConstants DEF HandleResult, TaskInv, TypeOK, PhasesAgree, RunnerKnowsRun, exitVars
<1>5. CASE HandlePrompt
  BY <1>5 DEF HandlePrompt, TaskInv, TypeOK, PhasesAgree, RunnerKnowsRun, feedVars, taskVars, exitVars
<1> QED
  BY <1>1, <1>2, <1>3, <1>4, <1>5

\* The end of the loop.
LEMMA ExitTask ==
  ASSUME TypeOK, PhasesAgree, RunnerKnowsRun, FeedTypeOK', LoopEnds \/ StopRunner \/ Exit
  PROVE  TaskInv'
<1>1. CASE LoopEnds
  BY <1>1 DEF LoopEnds, TaskInv, TypeOK, PhasesAgree, RunnerKnowsRun, feedVars, taskVars, promptVars
<1>2. CASE StopRunner
  <2>1. exit' = "stopping" /\ UNCHANGED <<feedVars, phase, prepare, promptVars, broker>>
    BY <1>2 DEF StopRunner
  <2>2. run' \in {run, "over"} /\ run' # "ready" /\ active' \in BOOLEAN /\ ctxDone' \in BOOLEAN
    <3>1. CASE active
      BY <1>2, <3>1 DEF StopRunner, TypeOK
    <3>2. CASE ~active
      BY <1>2, <3>2 DEF StopRunner, TypeOK, RunnerKnowsRun
    <3> QED
      BY <3>1, <3>2
  <2>3. run' = "running" => active'
    <3>1. CASE active
      BY <1>2, <3>1 DEF StopRunner
    <3>2. CASE ~active
      BY <1>2, <3>2 DEF StopRunner, RunnerKnowsRun
    <3> QED
      BY <3>1, <3>2
  <2>4. TypeOK'
    BY <2>1, <2>2 DEF TypeOK, promptVars
  <2> QED
    BY <2>1, <2>2, <2>3, <2>4 DEF TaskInv, PhasesAgree, RunnerKnowsRun, feedVars
<1>3. CASE Exit
  BY <1>3 DEF Exit, RunnerStopped, TaskInv, TypeOK, PhasesAgree, RunnerKnowsRun, feedVars, taskVars, promptVars
<1> QED
  BY <1>1, <1>2, <1>3

LEMMA StepTask ==
  ASSUME IndInv, Next
  PROVE  IndInv'
<1>1. FeedInv' /\ FeedTypeOK'
  BY StepFeed DEF IndInv, FeedInv, FeedTypes
<1>2. TypeOK /\ PhasesAgree /\ RunnerKnowsRun
  BY DEF IndInv
<1>3. CASE RunCommits \/ RunPublishes
  <2>1. chain' = chain /\ UNCHANGED <<taskVars, promptVars, exitVars>>
    BY <1>3 DEF RunCommits, RunPublishes, CommitFact, PublishCommitted
  <2> QED
    BY <1>1, <1>2, <2>1, TaskUnchanged DEF IndInv, TaskInv
<1>4. CASE FeedCommand \/ FeedCommandFails \/ HandleFact
  <2>1. (\E x \in Chain : chain[x] # Over) /\ UNCHANGED <<taskVars, promptVars, exitVars>>
    BY <1>4, FeedStepInv DEF IndInv, FeedCommand, FeedCommandFails, HandleFact
  <2> QED
    BY <1>1, <1>2, <2>1, TaskUnchanged DEF IndInv, TaskInv
<1>5. CASE RunBegins \/ Ask \/ HandOver \/ Answered \/ DecideGivesUp \/ RunReturns
  BY <1>1, <1>2, <1>5, RunTask DEF IndInv, TaskInv
<1>6. CASE Submit \/ (\E choice \in Choice : ResolveApproval(choice)) \/ CancelKey \/ QuitKey
  BY <1>1, <1>2, <1>6, KeyTask DEF IndInv, TaskInv
<1>7. CASE PrepareTask \/ PrepareFails \/ HandleRefused \/ HandlePrepared \/ HandleResult \/ HandlePrompt
  BY <1>1, <1>2, <1>7, MessageTask DEF IndInv, TaskInv
<1>8. CASE LoopEnds \/ StopRunner \/ Exit
  BY <1>1, <1>2, <1>8, ExitTask DEF IndInv, TaskInv
<1> QED
  BY <1>3, <1>4, <1>5, <1>6, <1>7, <1>8 DEF Next, Run, Handle

LEMMA InitInv == Init => IndInv
<1> SUFFICES ASSUME Init PROVE IndInv
  OBVIOUS
<1>1. committed = 0 /\ published = 0 /\ lastSeq = 0 /\ faults = 0 /\ view = <<>>
      /\ subscription = [open |-> FALSE, cursor |-> 0, channel |-> <<>>]
      /\ chain = [x \in Chain |-> Over] /\ hearing = FALSE /\ feedError = FALSE
  BY DEF Init, FeedInit
<1>2. FeedTypeOK
  <2>1. 0 \in 0..MaxFacts /\ 0 \in 0..MaxFaults /\ Len(<<>>) <= Capacity
    BY FeedConstants
  <2>2. chain \in [Chain -> Steps]
    BY <1>1, PlainSteps
  <2>3. subscription.cursor = 0 /\ subscription.channel = <<>>
    BY <1>1
  <2>4. hearing \in BOOLEAN /\ feedError \in BOOLEAN
    BY <1>1
  <2> QED
    BY <1>1, <2>1, <2>2, <2>3, <2>4 DEF FeedTypeOK
<1>3. FeedTypes
  BY <1>1, <1>2, FeedConstants DEF FeedTypes
<1>4. ViewIsPrefix
  BY <1>1 DEF ViewIsPrefix
<1>5. FeedIsBehind
  BY <1>1 DEF FeedIsBehind, StepIsBehind, Over
<1>6. TypeOK
  <2>1. prompts \in 0..MaxPrompts /\ shown \in 0..MaxPrompts
    BY TaskConstants DEF Init
  <2>2. active \in BOOLEAN /\ ctxDone \in BOOLEAN /\ broker \in BOOLEAN
    BY DEF Init
  <2> QED
    BY <1>2, <2>1, <2>2 DEF Init, TypeOK
<1>7. PhasesAgree /\ RunnerKnowsRun
  BY <1>1 DEF Init, PhasesAgree, RunnerKnowsRun
<1> QED
  BY <1>3, <1>4, <1>5, <1>6, <1>7 DEF IndInv, FeedInv

LEMMA StutterInv ==
  ASSUME IndInv, UNCHANGED vars
  PROVE  IndInv'
<1>1. FeedInv' /\ FeedTypeOK'
  BY FeedUnchanged DEF IndInv, FeedInv, FeedTypes, vars
<1>2. TaskInv'
  <2>1. chain' = chain /\ UNCHANGED <<taskVars, promptVars, exitVars>>
    BY DEF vars, feedVars
  <2> QED
    BY <1>1, <2>1, TaskUnchanged DEF IndInv
<1> QED
  BY <1>1, <1>2 DEF IndInv, TaskInv

LEMMA Invariance == Spec => []IndInv
<1>1. IndInv /\ [Next]_vars => IndInv'
  BY StepTask, StutterInv
<1> QED
  BY <1>1, InitInv, PTL DEF Spec

-----------------------------------------------------------------------------
(***************************************************************************)
(* The prompts.                                                            *)
(***************************************************************************)

LEMMA PromptsUnchanged ==
  ASSUME RunIsHeard, UNCHANGED <<taskVars, promptVars, exitVars>>
  PROVE  RunIsHeard'
BY DEF RunIsHeard, Heard, PromptActive, taskVars, promptVars, exitVars

\* The run asks, and Decide hands its prompt over, has its answer or gives up.
LEMMA RunPrompts ==
  ASSUME TypeOK, RunIsHeard,
         RunBegins \/ Ask \/ HandOver \/ Answered \/ DecideGivesUp \/ RunReturns
  PROVE  RunIsHeard'
<1>1. CASE RunBegins
  BY <1>1 DEF RunBegins, RunIsHeard, Heard, PromptActive, promptVars, exitVars
<1>2. CASE Ask
  BY <1>2 DEF Ask, RunIsHeard, Heard, PromptActive, taskVars, exitVars
<1>3. CASE HandOver
  BY <1>3 DEF HandOver, RunIsHeard, Heard, PromptActive, taskVars, exitVars
<1>4. CASE Answered
  BY <1>4 DEF Answered, RunIsHeard, Heard, PromptActive, taskVars, exitVars
<1>5. CASE DecideGivesUp
  BY <1>5 DEF DecideGivesUp, DecideIsOver, RunIsHeard, Heard, PromptActive, taskVars, exitVars
<1>6. CASE RunReturns
  BY <1>6 DEF RunReturns, RunIsHeard, PromptActive, promptVars, exitVars
<1> QED
  BY <1>1, <1>2, <1>3, <1>4, <1>5, <1>6

\* An answer to the prompt that is asked reaches Decide, and the next is listened for.
LEMMA KeyPrompts ==
  ASSUME TypeOK, RunIsHeard, PhasesAgree,
         Submit \/ (\E choice \in Choice : ResolveApproval(choice)) \/ CancelKey \/ QuitKey
  PROVE  RunIsHeard'
<1>1. CASE Submit
  BY <1>1 DEF Submit, RunIsHeard, Heard, PromptActive, PhasesAgree, promptVars, exitVars
<1>2. ASSUME NEW choice \in Choice, ResolveApproval(choice) PROVE RunIsHeard'
  BY <1>2 DEF ResolveApproval, ListenAgain, Choice, RunIsHeard, Heard, PromptActive, taskVars, exitVars
<1>3. CASE CancelKey
  BY <1>3 DEF CancelKey, RunIsHeard, PromptActive, exitVars
<1>4. CASE QuitKey
  BY <1>4 DEF QuitKey, RunIsHeard, PromptActive, taskVars, promptVars
<1> QED
  BY <1>1, <1>2, <1>3, <1>4

LEMMA MessagePrompts ==
  ASSUME TypeOK, RunIsHeard, PhasesAgree,
         PrepareTask \/ PrepareFails \/ HandleRefused \/ HandlePrepared \/ HandleResult \/ HandlePrompt
  PROVE  RunIsHeard'
<1>1. CASE PrepareTask \/ PrepareFails
  BY <1>1 DEF PrepareTask, PrepareFails, RunIsHeard, Heard, PromptActive, promptVars, exitVars
<1>2. CASE HandleRefused
  BY <1>2 DEF HandleRefused, RunIsHeard, Heard, PromptActive, PhasesAgree, promptVars, exitVars
<1>3. CASE HandlePrepared
  BY <1>3 DEF HandlePrepared, RunIsHeard, Heard, PromptActive, PhasesAgree, exitVars, TypeOK
<1>4. CASE HandleResult
  BY <1>4 DEF HandleResult, RunIsHeard, PromptActive, exitVars
<1>5. CASE HandlePrompt
  BY <1>5 DEF HandlePrompt, RunIsHeard, Heard, PromptActive, taskVars, exitVars, TypeOK
<1> QED
  BY <1>1, <1>2, <1>3, <1>4, <1>5

LEMMA ExitPrompts ==
  ASSUME RunIsHeard, LoopEnds \/ StopRunner \/ Exit
  PROVE  RunIsHeard'
<1>1. exit' # "open" /\ UNCHANGED promptVars
  BY DEF LoopEnds, StopRunner, Exit
<1>2. run' = run \/ (run # "running" /\ run' = "over")
  BY DEF LoopEnds, StopRunner, Exit, taskVars
<1> QED
  BY <1>1, <1>2 DEF RunIsHeard, PromptActive, promptVars

LEMMA StepPrompts ==
  ASSUME IndInv, RunIsHeard, [Next]_vars
  PROVE  RunIsHeard'
<1>1. CASE UNCHANGED <<taskVars, promptVars, exitVars>>
  BY <1>1, PromptsUnchanged
<1>2. TypeOK /\ PhasesAgree
  BY DEF IndInv
<1>3. CASE RunBegins \/ Ask \/ HandOver \/ Answered \/ DecideGivesUp \/ RunReturns
  BY <1>2, <1>3, RunPrompts
<1>4. CASE Submit \/ (\E choice \in Choice : ResolveApproval(choice)) \/ CancelKey \/ QuitKey
  BY <1>2, <1>4, KeyPrompts
<1>5. CASE PrepareTask \/ PrepareFails \/ HandleRefused \/ HandlePrepared \/ HandleResult \/ HandlePrompt
  BY <1>2, <1>5, MessagePrompts
<1>6. CASE LoopEnds \/ StopRunner \/ Exit
  BY <1>6, ExitPrompts
<1>7. CASE UNCHANGED vars
  BY <1>1, <1>7 DEF vars
<1>8. CASE RunCommits \/ RunPublishes \/ FeedCommand \/ FeedCommandFails \/ HandleFact
  BY <1>1, <1>8 DEF RunCommits, RunPublishes, FeedCommand, FeedCommandFails, HandleFact
<1> QED
  BY <1>3, <1>4, <1>5, <1>6, <1>7, <1>8 DEF Next, Run, Handle

-----------------------------------------------------------------------------
(***************************************************************************)
(* The theorems.                                                           *)
(***************************************************************************)

\* The bus, the chains, the prompts and the phases keep their types: no channel
\* outgrows its capacity and no chain carries a message of a wrong shape.
THEOREM TaskTypes == Spec => []TypeOK
<1>1. IndInv => TypeOK
  BY DEF IndInv
<1> QED
  BY <1>1, Invariance, PTL

\* The view is reduced from the first facts of the session, each once and in
\* order, whatever pages and notifications Update is given and in what order.
THEOREM ViewFollowsFacts == Spec => []ViewIsPrefix
<1>1. IndInv => ViewIsPrefix
  BY DEF IndInv, FeedInv
<1> QED
  BY <1>1, Invariance, PTL

\* The process ends only when its run has: runner.Close waits for every run that
\* has begun, and one that had not begun by then never does.
THEOREM ExitIsLast == Spec => []ExitWaitsForRun
<1>1. IndInv => ExitWaitsForRun
  BY DEF IndInv, RunnerKnowsRun, ExitWaitsForRun
<1> QED
  BY <1>1, Invariance, PTL

\* A prompt the run blocks on is listened for, or is on its way to the user, or is
\* shown, or has its answer: Decide never waits for a key nobody was told to press.
THEOREM PromptsReachTheUser == Spec => []PromptReachesUser
<1>1. Init => RunIsHeard
  BY DEF Init, RunIsHeard, PromptActive
<1>2. IndInv /\ RunIsHeard /\ [Next]_vars => RunIsHeard'
  BY StepPrompts
<1>3. RunIsHeard => PromptReachesUser
  BY DEF RunIsHeard, Heard, PromptReachesUser, PromptActive
<1> QED
  BY <1>1, <1>2, <1>3, Invariance, PTL DEF Spec
=============================================================================
