------------------------------ MODULE LiveMonitor ------------------------------
(***************************************************************************)
(* The live picture of one case's browser: the LiveVisualMonitorService of *)
(* the worker, which casts the page of the case's session, the             *)
(* LiveMonitorService of the API, which relays the frames to its viewers   *)
(* and signals the worker that it has some, and the viewports in the web   *)
(* client with their timers.                                               *)
(*                                                                         *)
(* Signals go to the worker and frames come back over Redis pub/sub, which *)
(* keeps the order of what it delivers and loses what is sent while a      *)
(* client is not connected.  A frame takes no time on its way.  Ages are   *)
(* classes of a clock: whatever has an age grows older at any moment.      *)
(***************************************************************************)
EXTENDS Naturals, Sequences, FiniteSetsExt

CONSTANTS Viewers,
          MaxSignals,   \* bound on the signals on their way
          MaxStarts,    \* bound on the starts of a cast under way
          MaxCount,     \* where the count of a cast's START signals stops counting
          MaxFaults     \* bound on messages lost, failed starts and restarts

ASSUME BoundsAssumption ==
  /\ MaxSignals \in Nat \ {0} /\ MaxStarts \in Nat \ {0}
  /\ MaxCount \in Nat \ {0}   /\ MaxFaults \in Nat

VARIABLES
  page,       \* the page of the case's session
  pending,    \* pendingViewers has the case
  starts,     \* startScreencastForSession calls by the await they are at
  cast,       \* the entry of activeScreencasts
  leaked,     \* a cast runs on that another one replaced in the map
  listening,  \* a listener for the close of the page is registered
  signals,    \* the signals on their way to the worker
  last,       \* lastFrameMessage of the case in the API
  viewport,   \* the viewports of the web client
  faults

vars == <<page, pending, starts, cast, leaked, listening, signals, last, viewport, faults>>

-----------------------------------------------------------------------------
Signals  == {"START_VIEWING", "STOP_VIEWING", "HEARTBEAT"}
Messages == {"frame", "OFFLINE"}
Statuses == {"CONNECTING", "LIVE", "STALE", "OFFLINE"}

\* count: viewerCount; beat: the last heartbeat is within 25 seconds; picture:
\* there is a lastFrame; sent: it was sent within 2.5 seconds
Cast   == [count : 0..MaxCount, beat : BOOLEAN, picture : BOOLEAN, sent : BOOLEAN]
NoCast == [count |-> 0, beat |-> FALSE, picture |-> FALSE, sent |-> FALSE]
Casting == cast # NoCast
NoStarts == [attach |-> 0, shot |-> 0]

\* age: how long ago the last frame came, by the thresholds of the stale timer
Ages == {"none", "live", "stale", "gone"}
Viewport == [conn : {"off", "on", "lost"}, status : Statuses, age : Ages]
Unmounted == [conn |-> "off", status |-> "CONNECTING", age |-> "none"]

Watching == {v \in Viewers : viewport[v].conn = "on"}

Init ==
  /\ page = "none"
  /\ pending = FALSE
  /\ starts = NoStarts
  /\ cast = NoCast
  /\ leaked = FALSE
  /\ listening = FALSE
  /\ signals = <<>>
  /\ last = "none"
  /\ viewport = [v \in Viewers |-> Unmounted]
  /\ faults = 0

-----------------------------------------------------------------------------
(* Messages                                                                *)

Fault == faults < MaxFaults /\ faults' = faults + 1

\* publish on live-signals: on its way, or lost
Signal(types) ==
  \/ signals' = signals \o types /\ UNCHANGED faults
  \/ signals' = signals /\ types # <<>> /\ Fault

\* handleFramePayload of a viewport
Shown(port, message) ==
  IF message = "frame" THEN [port EXCEPT !.status = "LIVE", !.age = "live"]
                       ELSE [port EXCEPT !.status = "OFFLINE"]

\* The API's pmessage handler: the message is kept for later viewers and passed
\* on to those there are
Relay(message) ==
  /\ last' = message
  /\ viewport' = [v \in Viewers |-> IF v \in Watching THEN Shown(viewport[v], message)
                                                      ELSE viewport[v]]

\* publish on live-frames: it arrives or is lost
Publish(message) ==
  \/ Relay(message) /\ UNCHANGED faults
  \/ Fault /\ UNCHANGED <<last, viewport>>

-----------------------------------------------------------------------------
(* The worker: startScreencastForSession                                   *)

\* The page is open and nothing is cast yet: the call goes to its first await
StartCast ==
  /\ starts' = IF page = "open" /\ ~Casting THEN [starts EXCEPT !.attach = @ + 1] ELSE starts
  /\ pending' = FALSE

\* newCDPSession, Page.enable, Page.startScreencast
Attach ==
  /\ starts.attach > 0
  /\ \/ /\ page = "open"
        /\ starts' = [attach |-> starts.attach - 1, shot |-> starts.shot + 1]
        /\ UNCHANGED <<last, viewport, faults>>
     \/ /\ page # "open"
        /\ starts' = [starts EXCEPT !.attach = @ - 1]
        /\ Publish("OFFLINE")
     \/ /\ page = "open"
        /\ Fault
        /\ starts' = [starts EXCEPT !.attach = @ - 1]
        /\ Relay("OFFLINE")
  /\ UNCHANGED <<page, pending, cast, leaked, listening, signals>>

\* Page.captureScreenshot, whose failure is not looked at, and the entry into
\* the map, which replaces one that a crossing start has made
Snapshot ==
  /\ starts.shot > 0
  /\ starts' = [starts EXCEPT !.shot = @ - 1]
  /\ cast' = [count |-> 1, beat |-> TRUE, picture |-> page = "open", sent |-> TRUE]
  /\ leaked' = (leaked \/ (Casting /\ page = "open"))
  /\ listening' = (listening \/ page = "open")
  /\ IF page = "open" THEN Publish("frame") ELSE UNCHANGED <<last, viewport, faults>>
  /\ UNCHANGED <<page, pending, signals>>

\* Page.screencastFrame, of the cast in the map or of a leaked one
Repaint ==
  /\ page = "open"
  /\ Casting \/ leaked
  /\ cast' = IF Casting THEN [cast EXCEPT !.picture = TRUE, !.sent = TRUE] ELSE cast
  /\ Publish("frame")
  /\ UNCHANGED <<page, pending, starts, leaked, listening, signals>>

-----------------------------------------------------------------------------
(* The worker: signals, and the session manager's callback                 *)

StartViewing ==
  IF Casting
    THEN /\ cast' = [cast EXCEPT !.count = Min({@ + 1, MaxCount}), !.beat = TRUE]
         /\ IF cast.picture THEN Publish("frame") ELSE UNCHANGED <<last, viewport, faults>>
         /\ UNCHANGED <<pending, starts>>
    ELSE /\ IF page = "open" THEN StartCast
                             ELSE pending' = TRUE /\ UNCHANGED starts
         /\ UNCHANGED <<cast, last, viewport, faults>>

\* Mutant: a heartbeat only keeps a cast alive.
BeatOnly ==
  /\ cast' = IF Casting THEN [cast EXCEPT !.beat = TRUE] ELSE cast
  /\ UNCHANGED <<starts, pending, last, viewport, faults>>

Heartbeat ==
  /\ IF Casting
       THEN cast' = [cast EXCEPT !.beat = TRUE] /\ UNCHANGED <<starts, pending>>
       ELSE /\ IF page = "open" THEN StartCast ELSE UNCHANGED <<starts, pending>>
            /\ UNCHANGED cast
  /\ UNCHANGED <<last, viewport, faults>>

\* Mutant: the count goes below one and the cast stays.
CountDown ==
  /\ cast' = IF Casting THEN [cast EXCEPT !.count = @ - 1] ELSE cast
  /\ UNCHANGED <<starts, pending, last, viewport, faults>>

StopViewing ==
  /\ cast' = IF cast.count > 1 THEN [cast EXCEPT !.count = @ - 1] ELSE NoCast
  /\ UNCHANGED <<starts, pending, last, viewport, faults>>

\* handleSignal
HandleSignal ==
  /\ signals # <<>>
  /\ starts.attach + starts.shot < MaxStarts
  /\ signals' = Tail(signals)
  /\ CASE Head(signals) = "START_VIEWING" -> StartViewing
       [] Head(signals) = "HEARTBEAT"     -> Heartbeat
       [] Head(signals) = "STOP_VIEWING"  -> StopViewing
  /\ UNCHANGED <<page, leaked, listening>>

\* onSessionCreated
SessionCreated ==
  /\ page = "none"
  /\ page' = "open"
  /\ starts' = IF pending /\ ~Casting THEN [starts EXCEPT !.attach = @ + 1] ELSE starts
  /\ pending' = FALSE
  /\ UNCHANGED <<cast, leaked, listening, signals, last, viewport, faults>>

\* Mutant: the close of the page only publishes that it is offline.
OfflineOnly ==
  /\ page = "open"
  /\ page' = "closed"
  /\ IF listening THEN Publish("OFFLINE") ELSE UNCHANGED <<last, viewport, faults>>
  /\ UNCHANGED <<pending, starts, cast, leaked, listening, signals>>

\* The page is closed: the listeners stop what is in the map
PageCloses ==
  /\ page = "open"
  /\ page' = "closed"
  /\ leaked' = FALSE
  /\ cast' = IF listening THEN NoCast ELSE cast
  /\ IF listening THEN Publish("OFFLINE") ELSE UNCHANGED <<last, viewport, faults>>
  /\ UNCHANGED <<pending, starts, listening, signals>>

-----------------------------------------------------------------------------
(* The worker: pruneStaleScreencasts, every 2.5 seconds                    *)

\* Mutant: a cast with viewers by its count is kept.
PruneCounted ==
  /\ Casting
  /\ ~cast.beat /\ cast.count = 0
  /\ cast' = NoCast
  /\ UNCHANGED <<page, pending, starts, leaked, listening, signals, last, viewport, faults>>

Prune ==
  /\ Casting
  /\ ~cast.beat
  /\ cast' = NoCast
  /\ UNCHANGED <<page, pending, starts, leaked, listening, signals, last, viewport, faults>>

\* The picture of a page that does not change is sent again
KeepAlive ==
  /\ Casting
  /\ cast.beat /\ cast.count > 0 /\ cast.picture /\ ~cast.sent
  /\ cast' = [cast EXCEPT !.sent = TRUE]
  /\ Publish("frame")
  /\ UNCHANGED <<page, pending, starts, leaked, listening, signals>>

\* After 30 seconds without a signal
PrunePending ==
  /\ pending
  /\ pending' = FALSE
  /\ UNCHANGED <<page, starts, cast, leaked, listening, signals, last, viewport, faults>>

\* 25 seconds pass without a heartbeat, 2.5 seconds without a frame
BeatAges ==
  /\ Casting /\ cast.beat
  /\ cast' = [cast EXCEPT !.beat = FALSE]
  /\ UNCHANGED <<page, pending, starts, leaked, listening, signals, last, viewport, faults>>
FrameAges ==
  /\ Casting /\ cast.sent
  /\ cast' = [cast EXCEPT !.sent = FALSE]
  /\ UNCHANGED <<page, pending, starts, leaked, listening, signals, last, viewport, faults>>

\* The worker stops, and says so when it closes its sessions, or dies: its maps
\* are gone, and a new session is to be made
WorkerRestarts ==
  /\ Fault
  /\ \/ page # "none" /\ Relay("OFFLINE")
     \/ UNCHANGED <<last, viewport>>
  /\ page' = "none"
  /\ pending' = FALSE
  /\ starts' = NoStarts
  /\ cast' = NoCast
  /\ leaked' = FALSE
  /\ listening' = FALSE
  /\ UNCHANGED signals

-----------------------------------------------------------------------------
(* The API                                                                 *)

\* The 2.5 seconds timer of a case with viewers
HeartbeatTimer ==
  /\ Watching # {}
  /\ Len(signals) < MaxSignals
  /\ Signal(<<IF last = "none" THEN "START_VIEWING" ELSE "HEARTBEAT">>)
  /\ UNCHANGED <<page, pending, starts, cast, leaked, listening, last, viewport>>

\* getLiveStream: the status, the frame that is kept, and the signal
Subscribe(v, port) ==
  LET connected == [port EXCEPT !.conn = "on",
                                !.status = IF @ = "LIVE" THEN @ ELSE "CONNECTING"]
  IN  /\ viewport' = [viewport EXCEPT ![v] =
                        IF last = "none" THEN connected ELSE Shown(connected, last)]
      /\ Len(signals) < MaxSignals
      /\ Signal(<<"START_VIEWING">>)
      /\ UNCHANGED <<page, pending, starts, cast, leaked, listening, last>>

\* The cleanup of a subscriber: the last one takes the state of the case with it
Cleanup(v) ==
  IF Watching # {v} THEN UNCHANGED <<signals, last, faults>>
  ELSE /\ last' = "none"
       /\ Len(signals) < MaxSignals
       /\ Signal(<<"STOP_VIEWING">>)

\* The error handler of the EventSource
Lost(port) == [port EXCEPT !.conn = "lost",
                           !.status = IF @ = "LIVE" THEN "STALE" ELSE "OFFLINE"]

\* onModuleDestroy, or a crash without its signal
ApiRestarts ==
  /\ Fault
  /\ last' = "none"
  /\ \/ Len(signals) < MaxSignals /\ signals' = Append(signals, "STOP_VIEWING")
     \/ UNCHANGED signals
  /\ viewport' = [v \in Viewers |-> IF v \in Watching THEN Lost(viewport[v])
                                                      ELSE viewport[v]]
  /\ UNCHANGED <<page, pending, starts, cast, leaked, listening>>

-----------------------------------------------------------------------------
(* The viewport                                                            *)

Mount(v) ==
  /\ viewport[v].conn = "off"
  /\ Subscribe(v, Unmounted)

Disconnect(v) ==
  /\ viewport[v].conn = "on"
  /\ Cleanup(v)
  /\ viewport' = [viewport EXCEPT ![v] = Lost(@)]
  /\ UNCHANGED <<page, pending, starts, cast, leaked, listening>>

\* The EventSource connects again on its own; of a viewport that shows it is
\* offline the user makes another connection, before the API sees the end of the
\* first
Reconnect(v) ==
  \/ viewport[v].conn = "lost" /\ Subscribe(v, viewport[v])
  \/ /\ viewport[v].conn # "off" /\ viewport[v].status = "OFFLINE"
     /\ Subscribe(v, [viewport[v] EXCEPT !.status = "CONNECTING"])

\* The user closes the viewport
Unmount(v) ==
  /\ viewport[v].conn # "off"
  /\ Cleanup(v)
  /\ viewport' = [viewport EXCEPT ![v] = Unmounted]
  /\ UNCHANGED <<page, pending, starts, cast, leaked, listening>>

Older == [none |-> "none", live |-> "stale", stale |-> "gone", gone |-> "gone"]
ByAge == [live |-> "LIVE", stale |-> "STALE", gone |-> "OFFLINE"]

\* The stale timer: the status follows the age of the last frame, whatever came
\* meanwhile; without a frame, the wait for one ends
StaleTimer(v) ==
  /\ viewport[v].conn # "off"
  /\ \E older \in {FALSE, TRUE} :
       LET age == IF older THEN Older[viewport[v].age] ELSE viewport[v].age
           status == CASE age # "none" -> ByAge[age]
                       [] age = "none" /\ viewport[v].status = "CONNECTING" -> "OFFLINE"
                       [] OTHER -> viewport[v].status
       IN  viewport' = [viewport EXCEPT ![v].age = age, ![v].status = status]
  /\ UNCHANGED <<page, pending, starts, cast, leaked, listening, signals, last, faults>>

-----------------------------------------------------------------------------
Worker == \/ Attach \/ Snapshot \/ HandleSignal \/ Prune \/ KeepAlive \/ PrunePending
          \/ BeatAges \/ FrameAges
Browser == Repaint \/ SessionCreated \/ PageCloses
Ui(v) == Mount(v) \/ Disconnect(v) \/ Reconnect(v) \/ Unmount(v) \/ StaleTimer(v)

Next == \/ Worker
        \/ Browser
        \/ WorkerRestarts
        \/ HeartbeatTimer
        \/ ApiRestarts
        \/ \E v \in Viewers : Ui(v)

\* Timers fire and calls over the network come back.  25 seconds pass when no
\* heartbeat is sent; 2.5 seconds pass or the page repaints; a picture ages
Fairness ==
  /\ WF_vars(Attach) /\ WF_vars(Snapshot) /\ WF_vars(HandleSignal)
  /\ WF_vars(Prune) /\ WF_vars(KeepAlive) /\ WF_vars(HeartbeatTimer)
  /\ WF_vars(BeatAges /\ Watching = {} /\ signals = <<>>)
  /\ WF_vars(FrameAges \/ Repaint)
  /\ \A v \in Viewers : WF_vars(StaleTimer(v) /\ viewport'[v].age # viewport[v].age)

Spec == Init /\ [][Next]_vars /\ Fairness

-----------------------------------------------------------------------------
(* Properties                                                              *)

\* The messages, counts and ages are of their kinds
TypeOK ==
  /\ page \in {"none", "open", "closed"}
  /\ {pending, leaked, listening} \subseteq BOOLEAN
  /\ starts \in [attach : 0..MaxStarts, shot : 0..MaxStarts]
  /\ cast \in Cast
  /\ signals \in Seq(Signals) /\ Len(signals) <= MaxSignals
  /\ last \in Messages \cup {"none"}
  /\ viewport \in [Viewers -> Viewport]
  /\ faults \in 0..MaxFaults

\* Who watches an open page gets its picture again and again, whatever signals
\* and frames were lost, whichever starts crossed or failed, whether the viewer
\* or the session came first, and also after a STOP meant for somebody else
ViewerGetsPicture ==
  \A v \in Viewers : <>[](v \in Watching /\ page = "open") => []<>(viewport[v].status = "LIVE")

\* A cast of the map ends when nobody watches any more, though STOP signals get
\* lost and the count of viewers is one of START signals.  (A cast that another
\* one replaced runs on until its page closes.)
CastEndsUnwatched == <>[](Watching = {}) => <>[](~Casting)

\* Whoever stays connected stops calling the picture of a closed page live, with
\* the OFFLINE message or without it.  (When that message was lost, the API has a
\* picture to show as live at each new connection.)
ClosedIsSeen ==
  \A v \in Viewers :
    <>[](v \in Watching /\ page = "closed") /\ <>[][~Reconnect(v)]_vars
      => <>[](viewport[v].status # "LIVE")

===============================================================================
