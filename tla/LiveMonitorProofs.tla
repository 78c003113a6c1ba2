------------------------- MODULE LiveMonitorProofs -------------------------
(***************************************************************************)
(* Proofs about LiveMonitor, for any number of viewers and any bounds: the *)
(* messages, counts and ages stay of their kinds.                          *)
(*                                                                         *)
(* The argument: a new session starts a cast without asking how many       *)
(* starts are under way, so that their number stays within its bound needs *)
(* that none is before there is a page: a start needs an open one, and the *)
(* restart that takes the page away takes the starts along.                *)
(***************************************************************************)
EXTENDS LiveMonitor, SequenceTheorems, TLAPS

USE BoundsAssumption

\* The starts under way, and the switches of the worker.
StartsBounded == starts.attach + starts.shot <= MaxStarts
NoPageNoStart == page = "none" => starts = NoStarts
LiveInv == TypeOK /\ StartsBounded /\ NoPageNoStart

\* The types, one by one.
Switches == pending \in BOOLEAN /\ leaked \in BOOLEAN /\ listening \in BOOLEAN
Page == page \in {"none", "open", "closed"}
StartsInv == starts \in [attach : 0..MaxStarts, shot : 0..MaxStarts] /\ StartsBounded
SignalsInv == signals \in Seq(Signals) /\ Len(signals) <= MaxSignals
ViewersInv == last \in Messages \cup {"none"} /\ viewport \in [Viewers -> Viewport]

LiveParts ==
  /\ Page /\ Switches /\ StartsInv /\ cast \in Cast /\ SignalsInv /\ ViewersInv
  /\ faults \in 0..MaxFaults /\ NoPageNoStart

\* No cast is a cast.
LEMMA Nothing == NoCast \in Cast
BY DEF NoCast, Cast

\* The invariant is the conjunction of the parts, before a step and after it.
LEMMA Parts == (LiveInv <=> LiveParts) /\ (LiveInv' <=> LiveParts')
BY DEF LiveParts, LiveInv, TypeOK, Page, Switches, StartsInv, SignalsInv, ViewersInv

\* A frame or OFFLINE reaches the viewers or is lost.
LEMMA Publishing ==
  ASSUME ViewersInv, faults \in 0..MaxFaults, NEW message \in Messages
  PROVE  /\ Relay(message) => ViewersInv'
         /\ Publish(message) => ViewersInv' /\ faults' \in 0..MaxFaults
<1>1. ASSUME NEW v \in Viewers PROVE Shown(viewport[v], message) \in Viewport
  BY DEF ViewersInv, Viewport, Shown, Statuses, Ages, Messages
<1>2. ASSUME Relay(message) PROVE ViewersInv'
  BY <1>1, <1>2 DEF Relay, ViewersInv, Watching
<1>3. Fault => faults' \in 0..MaxFaults
  BY DEF Fault
<1>4. QED
  BY <1>2, <1>3 DEF Publish, ViewersInv

\* So does a signal, for which there is room.
LEMMA Signalling ==
  ASSUME SignalsInv, faults \in 0..MaxFaults, NEW type \in Signals,
         Len(signals) < MaxSignals, Signal(<<type>>)
  PROVE  SignalsInv' /\ faults' \in 0..MaxFaults
<1>1. signals \o <<type>> \in Seq(Signals) /\ Len(signals \o <<type>>) = Len(signals) + 1
  BY DEF SignalsInv
<1>2. CASE signals' = signals \o <<type>> /\ UNCHANGED faults
  BY <1>1, <1>2 DEF SignalsInv
<1>3. CASE signals' = signals /\ Fault
  BY <1>3 DEF SignalsInv, Fault
<1>4. QED
  BY <1>2, <1>3 DEF Signal

\* The worker starts and ends casts.
LEMMA CastsFit ==
  ASSUME LiveInv, Attach \/ Snapshot \/ Repaint
  PROVE  LiveInv'
<1>1. /\ Page /\ Switches /\ StartsInv /\ cast \in Cast /\ SignalsInv /\ ViewersInv
      /\ faults \in 0..MaxFaults /\ NoPageNoStart
  BY Parts DEF LiveParts
<1>2. CASE Attach
  <2>1. UNCHANGED <<page, pending, cast, leaked, listening, signals>> /\ page # "none"
    BY <1>1, <1>2 DEF Attach, NoPageNoStart, NoStarts
  <2>2. StartsInv'
    BY <1>1, <1>2 DEF Attach, StartsInv, StartsBounded
  <2>3. ViewersInv' /\ faults' \in 0..MaxFaults
    BY <1>1, <1>2, Publishing DEF Attach, Messages, Fault, ViewersInv
  <2>4. QED
    BY <1>1, <2>1, <2>2, <2>3, Parts DEF LiveParts, Page, Switches, SignalsInv, NoPageNoStart
<1>3. CASE Snapshot
  <2>1. UNCHANGED <<page, pending, signals>> /\ page # "none"
    BY <1>1, <1>3 DEF Snapshot, NoPageNoStart, NoStarts
  <2>2. StartsInv'
    BY <1>1, <1>3 DEF Snapshot, StartsInv, StartsBounded
  <2>3. ViewersInv' /\ faults' \in 0..MaxFaults
    BY <1>1, <1>3, Publishing DEF Snapshot, Messages, ViewersInv
  <2>4. cast' \in Cast
    BY <1>3 DEF Snapshot, Cast
  <2>5. Switches'
    BY <1>1, <1>3 DEF Snapshot, Switches
  <2>6. QED
    BY <1>1, <2>1, <2>2, <2>3, <2>4, <2>5, Parts DEF LiveParts, Page, SignalsInv, NoPageNoStart
<1>4. CASE Repaint
  <2>1. UNCHANGED <<page, pending, starts, leaked, listening, signals>>
    BY <1>4 DEF Repaint
  <2>2. ViewersInv' /\ faults' \in 0..MaxFaults
    BY <1>1, <1>4, Publishing DEF Repaint, Messages
  <2>3. cast' \in Cast
    BY <1>1, <1>4 DEF Repaint, Cast
  <2>4. QED
    BY <1>1, <2>1, <2>2, <2>3, Parts DEF LiveParts, Page, Switches, StartsInv, StartsBounded, SignalsInv,
      NoPageNoStart
<1>5. QED
  BY <1>2, <1>3, <1>4

\* The worker handles a signal: a view starts, goes on or stops.
LEMMA HandlingFits ==
  ASSUME LiveInv, HandleSignal
  PROVE  LiveInv'
<1>1. /\ Page /\ Switches /\ StartsInv /\ cast \in Cast /\ SignalsInv /\ ViewersInv
      /\ faults \in 0..MaxFaults /\ NoPageNoStart
  BY Parts DEF LiveParts
<1>2. /\ signals # <<>> /\ signals' = Tail(signals) /\ UNCHANGED <<page, leaked, listening>>
      /\ starts.attach + starts.shot < MaxStarts
      /\ StartViewing \/ Heartbeat \/ StopViewing
  <2>1. Head(signals) \in Signals
    BY <1>1 DEF HandleSignal, SignalsInv
  <2>2. QED
    BY <2>1 DEF HandleSignal, Signals
<1>3. SignalsInv'
  BY <1>1, <1>2 DEF SignalsInv
<1>4. \/ starts' = starts
      \/ page = "open" /\ starts' = [starts EXCEPT !.attach = @ + 1]
  BY <1>2 DEF StartViewing, Heartbeat, StopViewing, StartCast
<1>5. StartsInv' /\ NoPageNoStart'
  BY <1>1, <1>2, <1>4 DEF StartsInv, StartsBounded, NoPageNoStart
<1>6. pending' \in BOOLEAN
  BY <1>1, <1>2 DEF StartViewing, Heartbeat, StopViewing, StartCast, Switches
<1>7. cast' \in Cast
  <2>1. ASSUME StartViewing PROVE cast' \in Cast
    <3>1. Min({cast.count + 1, MaxCount}) \in 0..MaxCount
      <4>1. cast.count \in 0..MaxCount
        BY <1>1 DEF Cast
      <4>2. \E x \in {cast.count + 1, MaxCount} : \A y \in {cast.count + 1, MaxCount} : x <= y
        BY <4>1
      <4>3. Min({cast.count + 1, MaxCount}) \in {cast.count + 1, MaxCount}
            /\ Min({cast.count + 1, MaxCount}) <= MaxCount
        BY <4>2 DEF Min
      <4>4. QED
        BY <4>1, <4>3
    <3>2. QED
      BY <1>1, <2>1, <3>1 DEF StartViewing, Cast
  <2>2. ASSUME Heartbeat PROVE cast' \in Cast
    BY <1>1, <2>2 DEF Heartbeat, Cast
  <2>3. ASSUME StopViewing PROVE cast' \in Cast
    <3>1. NoCast \in Cast
      BY DEF NoCast, Cast
    <3>2. QED
      BY <1>1, <2>3, <3>1 DEF StopViewing, Cast
  <2>4. QED
    BY <1>2, <2>1, <2>2, <2>3
<1>8. ViewersInv' /\ faults' \in 0..MaxFaults
  BY <1>1, <1>2, Publishing DEF StartViewing, Heartbeat, StopViewing, ViewersInv, Messages
<1>9. QED
  BY <1>1, <1>2, <1>3, <1>5, <1>6, <1>7, <1>8, Parts DEF LiveParts, Page, Switches

\* The browser session begins or ends, with the worker or without.
LEMMA SessionFits ==
  ASSUME LiveInv, SessionCreated \/ PageCloses \/ WorkerRestarts
  PROVE  LiveInv'
<1>1. /\ Page /\ Switches /\ StartsInv /\ cast \in Cast /\ SignalsInv /\ ViewersInv
      /\ faults \in 0..MaxFaults /\ NoPageNoStart
  BY Parts DEF LiveParts
<1>2. CASE SessionCreated
  <2>1. /\ page' = "open" /\ UNCHANGED <<cast, leaked, listening, signals, last, viewport, faults>>
        /\ starts = NoStarts
        /\ starts' = NoStarts \/ starts' = [NoStarts EXCEPT !.attach = @ + 1]
        /\ pending' \in BOOLEAN
    BY <1>1, <1>2 DEF SessionCreated, NoPageNoStart
  <2>2. StartsInv'
    BY <1>1, <2>1 DEF StartsInv, StartsBounded, NoStarts
  <2>3. QED
    BY <1>1, <2>1, <2>2, Parts DEF LiveParts, Page, Switches, SignalsInv, ViewersInv, NoPageNoStart
<1>3. CASE PageCloses
  <2>1. /\ page' = "closed" /\ UNCHANGED <<pending, starts, listening, signals>>
        /\ leaked' \in BOOLEAN /\ cast' \in {cast, NoCast}
    BY <1>3 DEF PageCloses
  <2>2. cast' \in Cast
    BY <1>1, <2>1, Nothing
  <2>3. ViewersInv' /\ faults' \in 0..MaxFaults
    BY <1>1, <1>3, Publishing DEF PageCloses, Messages, ViewersInv
  <2>4. QED
    BY <1>1, <2>1, <2>2, <2>3, Parts DEF LiveParts, Page, Switches, SignalsInv, NoPageNoStart, StartsInv,
      StartsBounded
<1>4. CASE WorkerRestarts
  <2>1. /\ page' = "none" /\ starts' = NoStarts /\ cast' = NoCast /\ UNCHANGED signals
        /\ pending' = FALSE /\ leaked' = FALSE /\ listening' = FALSE
    BY <1>4 DEF WorkerRestarts
  <2>2. cast' \in Cast
    BY <2>1 DEF Cast, NoCast
  <2>3. StartsInv'
    BY <2>1 DEF StartsInv, StartsBounded, NoStarts
  <2>4. ViewersInv'
    BY <1>1, <1>4, Publishing DEF WorkerRestarts, Messages, ViewersInv
  <2>5. faults' \in 0..MaxFaults
    BY <1>1, <1>4 DEF WorkerRestarts, Fault
  <2>6. Page' /\ Switches' /\ NoPageNoStart'
    BY <2>1 DEF Page, Switches, NoPageNoStart
  <2>7. SignalsInv'
    BY <1>1, <2>1 DEF SignalsInv
  <2>8. QED
    BY <2>2, <2>3, <2>4, <2>5, <2>6, <2>7, Parts DEF LiveParts
<1>5. QED
  BY <1>2, <1>3, <1>4

\* The timers of the worker prune and age what it holds.
LEMMA TimersFit ==
  ASSUME LiveInv, Prune \/ KeepAlive \/ PrunePending \/ BeatAges \/ FrameAges
  PROVE  LiveInv'
<1>1. /\ Page /\ Switches /\ StartsInv /\ cast \in Cast /\ SignalsInv /\ ViewersInv
      /\ faults \in 0..MaxFaults /\ NoPageNoStart
  BY Parts DEF LiveParts
<1>2. UNCHANGED <<page, starts, leaked, listening, signals>>
  BY DEF Prune, KeepAlive, PrunePending, BeatAges, FrameAges
<1>3. pending' \in BOOLEAN
  BY <1>1 DEF Prune, KeepAlive, PrunePending, BeatAges, FrameAges, Switches
<1>4. cast' \in Cast
  <2>1. \/ cast' \in {cast, NoCast} \/ cast' = [cast EXCEPT !.beat = FALSE]
        \/ \E sent \in BOOLEAN : cast' = [cast EXCEPT !.sent = sent]
    BY DEF Prune, KeepAlive, PrunePending, BeatAges, FrameAges
  <2>2. QED
    BY <1>1, <2>1, Nothing DEF Cast
<1>5. ViewersInv' /\ faults' \in 0..MaxFaults
  BY <1>1, Publishing DEF Prune, KeepAlive, PrunePending, BeatAges, FrameAges, Messages, ViewersInv
<1>6. QED
  BY <1>1, <1>2, <1>3, <1>4, <1>5, Parts DEF LiveParts, Page, Switches, StartsInv, StartsBounded, SignalsInv,
    NoPageNoStart

\* A viewport connects, or its connection is cleaned up.
LEMMA Subscribing ==
  ASSUME LiveInv, NEW v \in Viewers, NEW port \in Viewport, Subscribe(v, port)
  PROVE  /\ ViewersInv' /\ SignalsInv' /\ faults' \in 0..MaxFaults
         /\ UNCHANGED <<page, pending, starts, cast, leaked, listening>>
<1>1. SignalsInv /\ ViewersInv /\ faults \in 0..MaxFaults
  BY Parts DEF LiveParts
<1> DEFINE connected == [port EXCEPT !.conn = "on",
                                     !.status = IF @ = "LIVE" THEN @ ELSE "CONNECTING"]
<1>2. connected \in Viewport
  BY DEF Viewport, Statuses
<1>3. last \in Messages => Shown(connected, last) \in Viewport
  <2>1. ASSUME NEW p \in Viewport, last \in Messages PROVE Shown(p, last) \in Viewport
    BY <2>1 DEF Shown, Viewport, Statuses, Ages, Messages
  <2> HIDE DEF connected
  <2>2. QED
    BY <1>2, <2>1
<1>4. viewport' = [viewport EXCEPT ![v] =
                     IF last = "none" THEN connected ELSE Shown(connected, last)]
  BY DEF Subscribe
<1> HIDE DEF connected
<1>5. ViewersInv'
  BY <1>1, <1>2, <1>3, <1>4 DEF ViewersInv, Subscribe
<1>6. SignalsInv' /\ faults' \in 0..MaxFaults
  BY <1>1, Signalling DEF Subscribe, Signals
<1>7. QED
  BY <1>5, <1>6 DEF Subscribe

\* A connection is cleaned up; the last one signals that nobody watches.
LEMMA Cleaning ==
  ASSUME LiveInv, NEW v \in Viewers, Cleanup(v)
  PROVE  SignalsInv' /\ faults' \in 0..MaxFaults /\ last' \in Messages \cup {"none"}
<1>1. SignalsInv /\ ViewersInv /\ faults \in 0..MaxFaults
  BY Parts DEF LiveParts
<1>2. CASE Watching # {v}
  BY <1>1, <1>2 DEF Cleanup, SignalsInv, ViewersInv
<1>3. CASE Watching = {v}
  BY <1>1, <1>3, Signalling DEF Cleanup, Signals
<1>4. QED
  BY <1>2, <1>3

\* A viewport mounts, connects again, loses its connection or ages.
LEMMA ViewportFits ==
  ASSUME LiveInv, NEW v \in Viewers, Ui(v)
  PROVE  LiveInv'
<1>1. /\ Page /\ Switches /\ StartsInv /\ cast \in Cast /\ SignalsInv /\ ViewersInv
      /\ faults \in 0..MaxFaults /\ NoPageNoStart /\ viewport[v] \in Viewport
  BY Parts DEF LiveParts, ViewersInv
<1>2. Unmounted \in Viewport
  BY DEF Unmounted, Viewport, Statuses, Ages
<1>3. ASSUME ViewersInv', SignalsInv', faults' \in 0..MaxFaults,
             UNCHANGED <<page, pending, starts, cast, leaked, listening>>
      PROVE  LiveInv'
  BY <1>1, <1>3, Parts DEF LiveParts, Page, Switches, StartsInv, StartsBounded, NoPageNoStart
<1>4. CASE Mount(v)
  BY <1>2, <1>3, <1>4, Subscribing DEF Mount
<1>5. CASE Reconnect(v)
  <2>1. [viewport[v] EXCEPT !.status = "CONNECTING"] \in Viewport
    BY <1>1 DEF Viewport, Statuses
  <2>2. QED
    BY <1>1, <1>3, <1>5, <2>1, Subscribing DEF Reconnect
<1>6. CASE Disconnect(v) \/ Unmount(v)
  <2>1. Lost(viewport[v]) \in Viewport
    BY <1>1 DEF Lost, Viewport, Statuses
  <2>2. /\ Cleanup(v) /\ UNCHANGED <<page, pending, starts, cast, leaked, listening>>
        /\ \/ viewport' = [viewport EXCEPT ![v] = Lost(viewport[v])]
           \/ viewport' = [viewport EXCEPT ![v] = Unmounted]
    BY <1>6 DEF Disconnect, Unmount
  <2>3. viewport' \in [Viewers -> Viewport]
    BY <1>1, <1>2, <2>1, <2>2 DEF ViewersInv
  <2>4. QED
    BY <1>3, <2>2, <2>3, Cleaning DEF ViewersInv
<1>7. CASE StaleTimer(v)
  <2>1. PICK older \in {FALSE, TRUE} :
          LET age == IF older THEN Older[viewport[v].age] ELSE viewport[v].age
              status == CASE age # "none" -> ByAge[age]
                          [] age = "none" /\ viewport[v].status = "CONNECTING" -> "OFFLINE"
                          [] OTHER -> viewport[v].status
          IN  viewport' = [viewport EXCEPT ![v].age = age, ![v].status = status]
    BY <1>7 DEF StaleTimer
  <2> DEFINE age == IF older THEN Older[viewport[v].age] ELSE viewport[v].age
             status == CASE age # "none" -> ByAge[age]
                         [] age = "none" /\ viewport[v].status = "CONNECTING" -> "OFFLINE"
                         [] OTHER -> viewport[v].status
  <2>2. age \in Ages
    BY <1>1 DEF Viewport, Older, Ages
  <2>3. status \in Statuses
    BY <1>1, <2>2 DEF Viewport, ByAge, Ages, Statuses
  <2>4. viewport' = [viewport EXCEPT ![v].age = age, ![v].status = status]
    BY <2>1
  <2> HIDE DEF age, status
  <2>5. viewport' \in [Viewers -> Viewport]
    BY <1>1, <2>2, <2>3, <2>4 DEF ViewersInv, Viewport
  <2>6. UNCHANGED <<page, pending, starts, cast, leaked, listening, signals, last, faults>>
    BY <1>7 DEF StaleTimer
  <2>7. QED
    BY <1>1, <1>3, <2>5, <2>6 DEF ViewersInv, SignalsInv
<1>8. QED
  BY <1>4, <1>5, <1>6, <1>7 DEF Ui

\* The API beats for its viewers, or restarts.
LEMMA ApiFits ==
  ASSUME LiveInv, HeartbeatTimer \/ ApiRestarts
  PROVE  LiveInv'
<1>1. /\ Page /\ Switches /\ StartsInv /\ cast \in Cast /\ SignalsInv /\ ViewersInv
      /\ faults \in 0..MaxFaults /\ NoPageNoStart
  BY Parts DEF LiveParts
<1>2. UNCHANGED <<page, pending, starts, cast, leaked, listening>>
  BY DEF HeartbeatTimer, ApiRestarts
<1>3. CASE HeartbeatTimer
  <2>1. SignalsInv' /\ faults' \in 0..MaxFaults /\ UNCHANGED <<last, viewport>>
    BY <1>1, <1>3, Signalling DEF HeartbeatTimer, Signals
  <2>2. QED
    BY <1>1, <1>2, <2>1, Parts DEF LiveParts, Page, Switches, StartsInv, StartsBounded, NoPageNoStart, ViewersInv
<1>4. CASE ApiRestarts
  <2>1. faults' \in 0..MaxFaults /\ last' = "none"
    BY <1>1, <1>4 DEF ApiRestarts, Fault
  <2>2. SignalsInv'
    BY <1>1, <1>4 DEF ApiRestarts, SignalsInv, Signals
  <2>3. ViewersInv'
    <3>1. ASSUME NEW v \in Viewers PROVE Lost(viewport[v]) \in Viewport
      BY <1>1 DEF ViewersInv, Lost, Viewport, Statuses
    <3>2. QED
      BY <1>1, <1>4, <2>1, <3>1 DEF ApiRestarts, ViewersInv
  <2>4. QED
    BY <1>1, <1>2, <2>1, <2>2, <2>3, Parts DEF LiveParts, Page, Switches, StartsInv, StartsBounded, NoPageNoStart
<1>5. QED
  BY <1>3, <1>4

\* Nothing has been started yet.
LEMMA LiveStarts == Init => LiveInv
<1> SUFFICES ASSUME Init PROVE LiveInv
  OBVIOUS
<1>2. Unmounted \in Viewport /\ NoCast \in Cast
  BY DEF Unmounted, Viewport, Statuses, Ages, NoCast, Cast
<1>3. Page /\ NoPageNoStart
  BY DEF Init, Page, NoPageNoStart
<1>4. Switches
  BY Zenon DEF Init, Switches
<1>5. StartsInv
  BY DEF Init, StartsInv, StartsBounded, NoStarts
<1>6. SignalsInv
  BY DEF Init, SignalsInv
<1>7. ViewersInv /\ cast \in Cast /\ faults \in 0..MaxFaults
  BY <1>2 DEF Init, ViewersInv
<1>8. QED
  BY <1>3, <1>4, <1>5, <1>6, <1>7, Parts DEF LiveParts

\* Every variable of the live picture keeps its kind: the count of a cast and the
\* starts under way stay within their bounds, whichever starts cross
\* (LiveVisualMonitorService, LiveMonitorService, LiveBrowserViewport).
THEOREM LiveTypeInvariant == Spec => []TypeOK
<1>1. LiveInv /\ [Next]_vars => LiveInv'
  <2>1. ASSUME LiveInv, Next PROVE LiveInv'
    BY <2>1, CastsFit, HandlingFits, SessionFits, TimersFit, ViewportFits, ApiFits
    DEF Next, Worker, Browser
  <2>2. ASSUME LiveInv, UNCHANGED vars PROVE LiveInv'
    BY <2>2 DEF LiveInv, TypeOK, StartsBounded, NoPageNoStart, vars
  <2>3. QED
    BY <2>1, <2>2
<1>2. LiveInv => TypeOK
  BY DEF LiveInv
<1>3. QED
  BY <1>1, <1>2, LiveStarts, PTL DEF Spec
=============================================================================
