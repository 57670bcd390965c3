------------------------------- MODULE Player -------------------------------
(***************************************************************************)
(* The browser player (templates/player): PlayerController with its state  *)
(* machine, invariant gate and connection policy, and the                  *)
(* ReconnectCoordinator.  JavaScript runs one handler at a time, so an     *)
(* action is one callback run to its end: an event of the Janus adapter, a *)
(* frame, a button, a timer, or the rest of an async function after an     *)
(* await.  What interleaves are the callbacks: a timer that was not        *)
(* cancelled, and async functions that outlive the state that started      *)
(* them.  handleEvent is the composition of a transition with the actions  *)
(* the transition asks for, so the operators below map a player to the     *)
(* player after the handler.                                               *)
(*                                                                         *)
(* Severities and reasons only choose how an attempt is carried out; the   *)
(* choice is left open here, as is what the policy makes of frame ages and *)
(* packet counts.  cfg.autonomousEnabled and the two checks it switches on *)
(* (visibility, health check) are set, as they are by default.             *)
(***************************************************************************)
EXTENDS Integers, FiniteSets

CONSTANTS
    Alarms,      \* the grace timers: "ice", and one per track
    MaxAttempts, \* cfg.maxReconnectAttempts
    MaxGen,      \* bound: generations (_sessionToken)
    Slots,       \* bound: reconnect runs that exist at once
    MaxLost      \* bound: backoff timers of a generation without a handle

ASSUME PlayerAssumption ==
    /\ MaxAttempts \in Nat \ {0} /\ MaxGen \in Nat /\ MaxLost \in Nat
    /\ IsFiniteSet(Slots)

VARIABLES
    player,   \* the fields of controller and coordinator, see NewPlayer
    flows,    \* the generations whose _runConnectFlow is under way
    runs,     \* per slot: a _runScheduled that waits for a promise
    attached, \* the adapter has attached its plugin handle, callbacks can come
    crossed   \* ghost: since the player was last stopped, a run or a backoff
              \*  timer came back whose connection had been given up

playerVars == <<player, flows, runs, attached, crossed>>

Gens == 1..MaxGen
Rest == {"IDLE", "ERROR"}
Active == {"CONNECTING", "PLAYING", "RECONNECTING"}

\* A timer is the generation it was armed in, 0 when its handle is null; lost
\* counts the backoff timers whose handle was overwritten; hidden: the tab or
\* the element is not visible.
NewPlayer ==
    [state |-> "IDLE", token |-> 0, desired |-> FALSE,
     up |-> FALSE, frame |-> FALSE,
     notified |-> FALSE, latch |-> FALSE,
     dog |-> FALSE, alarms |-> {}, retry |-> FALSE,
     attempt |-> 0, pending |-> FALSE, inFlight |-> FALSE, expected |-> 0,
     sched |-> 0, start |-> 0, settle |-> 0,
     lost |-> [g \in Gens |-> 0],
     subscribed |-> TRUE, hidden |-> FALSE]

NoRun == [token |-> 0, pc |-> "free", raced |-> FALSE]

PlayerInit ==
    /\ player = NewPlayer
    /\ flows = {}
    /\ runs = [s \in Slots |-> NoRun]
    /\ attached = FALSE /\ crossed = FALSE

-----------------------------------------------------------------------------
(* Leaving and failing                                                     *)

ClearTimers(q) == [q EXCEPT !.sched = 0, !.start = 0, !.settle = 0]

ResetReconnect(q) ==
    [ClearTimers(q) EXCEPT !.attempt = 0, !.pending = FALSE, !.inFlight = FALSE]

\* _stopAll without releasing the latch of the connect flow.
StopAllLatched(q) ==
    [ResetReconnect(q) EXCEPT !.dog = FALSE, !.alarms = {}, !.retry = FALSE]

StopAll(q) ==
    [ResetReconnect(q) EXCEPT !.dog = FALSE, !.alarms = {}, !.retry = FALSE,
                              !.latch = FALSE]

\* streaming.stop() drops the adapter's subscription to the session.
StopStreaming(q) == [q EXCEPT !.subscribed = FALSE]

\* Entering ERROR schedules the automatic retry, and CANCEL_ALL_TIMERS, which
\* follows, clears it.
ToError(q, t) ==
    StopStreaming(StopAll([q EXCEPT !.state = "ERROR", !.token = t,
                                    !.up = FALSE, !.frame = FALSE,
                                    !.desired = FALSE, !.retry = TRUE]))

\* An event the state does not expect.
FailClosed(q) == ToError(q, q.token)

\* _fail: FORCE_ERROR, which also opens a new generation.
Fail(q) == ToError(q, q.token + 1)

\* InvariantGate.check of what a transition made of q.
Gate(q, next) ==
    IF next.state = "PLAYING" /\ ~(next.up /\ next.frame) THEN FailClosed(q)
    ELSE next

\* The watchdog runs after every event that ends in CONNECTING or PLAYING.
Watched(q) == IF q.state \in {"CONNECTING", "PLAYING"} THEN [q EXCEPT !.dog = TRUE] ELSE q

-----------------------------------------------------------------------------
(* ReconnectCoordinator                                                    *)

ShouldContinue(q) == ~q.hidden /\ q.desired /\ q.state # "ERROR"

\* A timer whose handle is overwritten still fires.
ScheduleNext(q) ==
    CASE ~q.pending \/ ~ShouldContinue(q) -> q
      [] q.pending /\ ShouldContinue(q) /\ q.attempt >= MaxAttempts -> Fail(q)
      [] OTHER -> [q EXCEPT !.sched = q.token,
                            !.lost = IF q.sched = 0 THEN @
                                     ELSE [@ EXCEPT ![q.sched] = @ + 1]]

Request(q) ==
    LET r == [q EXCEPT !.pending = TRUE]
    IN IF r.inFlight \/ r.sched # 0 THEN r ELSE ScheduleNext(r)

ResumeIfPending(q) == IF q.inFlight \/ q.sched # 0 THEN q ELSE ScheduleNext(q)

NotifyAttemptFailed(q) ==
    ScheduleNext([ClearTimers(q) EXCEPT !.pending = TRUE, !.inFlight = FALSE])

StartSettleWindow(q) ==
    IF ~q.inFlight \/ q.settle # 0 THEN q
    ELSE [q EXCEPT !.start = 0, !.settle = q.token]

-----------------------------------------------------------------------------
(* Transitions of the state machine, with their actions                    *)

IsConnected(q) == q.up /\ q.frame

\* PLAY_REQUEST in IDLE, RESET in ERROR.
ToConnecting(q) ==
    Watched([q EXCEPT !.state = "CONNECTING", !.token = @ + 1, !.desired = TRUE,
                      !.up = FALSE, !.frame = FALSE,
                      !.latch = TRUE])

ToIdle(q) ==
    StopStreaming(StopAll([q EXCEPT !.state = "IDLE", !.desired = FALSE, !.up = FALSE,
                                    !.frame = FALSE]))

\* RECONNECT_SCHEDULED and ICE_FAILED in CONNECTING or PLAYING.
ToReconnecting(q) ==
    Request([q EXCEPT !.state = "RECONNECTING", !.up = @ /\ q.state = "CONNECTING",
                      !.notified = FALSE])

\* STREAM_RECOVERED and RECONNECT_SUCCESS.
Recovered(q) ==
    CASE q.state = "RECONNECTING" ->
           Watched(ResetReconnect([q EXCEPT !.state = "PLAYING", !.up = TRUE, !.frame = TRUE]))
      [] q.state = "CONNECTING" ->
           Watched(Gate(q, StopAll([q EXCEPT !.state = "PLAYING", !.up = TRUE])))
      [] q.state = "PLAYING" -> Watched(q)
      [] OTHER -> FailClosed(q)

\* RECONNECT_SUCCESS alone is not expected in CONNECTING.
ReconnectSuccess(q) == IF q.state = "CONNECTING" THEN FailClosed(q) ELSE Recovered(q)

\* WEBRTC_REPORT.
Report(q, up) == Watched(Gate(q, [q EXCEPT !.up = up]))

RequestRecovery(q) ==
    IF q.desired /\ q.state \in {"CONNECTING", "PLAYING"} THEN ToReconnecting(q) ELSE q

\* _applyPolicyDecision for REQUEST_RECOVERY.
Recover(q) ==
    IF q.state = "RECONNECTING" /\ q.inFlight THEN NotifyAttemptFailed(q)
    ELSE RequestRecovery(q)

NotifyRecovered(q) ==
    IF q.inFlight /\ q.settle # 0 THEN ReconnectSuccess(ResetReconnect(q)) ELSE q

TryNotifyRecovered(q) ==
    IF q.state = "RECONNECTING" /\ IsConnected(q) THEN NotifyRecovered(q) ELSE q

-----------------------------------------------------------------------------
(* One callback                                                            *)

Stale(t) == t # player.token \/ ~player.desired

\* The player after a callback; late when what started it has been given up.
Step(q, late) ==
    /\ q.token <= MaxGen /\ \A g \in Gens : q.lost[g] <= MaxLost
    /\ player' = q
    /\ crossed' = IF player.state \in Active /\ q.state \in Rest THEN FALSE
                  ELSE crossed \/ late

Handler(q) ==
    /\ Step(q, FALSE)
    /\ UNCHANGED <<flows, runs, attached>>

\* _onStreamEvent drops what comes in IDLE and ERROR.
StreamEvent(q) == attached /\ player.state \in Active /\ Handler(q)

-----------------------------------------------------------------------------
(* The user and the page                                                   *)

\* START_JANUS runs the connect flow unless the latch says that one runs.
Begin(q) ==
    LET r == ToConnecting(q)
    IN /\ Step(r, FALSE)
       /\ flows' = IF q.latch THEN flows ELSE flows \cup {r.token}
       /\ UNCHANGED <<runs, attached>>

Play == player.state = "IDLE" /\ Begin(player)

\* RESET, which is expected in ERROR only.
Retry(q) == IF q.state = "ERROR" THEN Begin(StopAll(q)) ELSE Handler(FailClosed(q))

PressRetry == player.state = "ERROR" /\ Retry(player)

Stop == player.desired /\ Handler(ToIdle(player))

Hide == Handler([player EXCEPT !.hidden = TRUE])

\* The tab comes back (the element may still be out of sight): in ERROR the
\* player starts again; in RECONNECTING it goes on, or starts again when nothing
\* is left to go on with; otherwise the session is taken for dead after a long
\* absence.
ShowTab(visible) ==
    LET q == [player EXCEPT !.hidden = ~visible]
        r == ResumeIfPending(q)
    IN /\ player.hidden
       /\ \/ q.state = "ERROR" /\ Retry(q)
          \/ /\ q.state = "RECONNECTING"
             /\ IF r.pending \/ r.inFlight THEN Handler(r) ELSE Retry(r)
          \/ q.state \in {"CONNECTING", "PLAYING"} /\ Handler(RequestRecovery(q))
          \/ q.state \in {"IDLE", "CONNECTING", "PLAYING"} /\ Handler(q)

\* The element comes back into view and the coordinator is not told.
ShowElementSilently(visible) == player.hidden /\ Handler([player EXCEPT !.hidden = ~visible])

\* The element comes back into view (the tab may still be hidden).
ShowElement(visible) ==
    LET q == [player EXCEPT !.hidden = ~visible]
    IN /\ player.hidden
       /\ Handler(IF q.state = "RECONNECTING" THEN ResumeIfPending(q) ELSE q)

\* navigator.onLine becomes true.
NetworkOnline ==
    \/ player.state = "ERROR" /\ Handler([player EXCEPT !.retry = TRUE])
    \/ player.state = "RECONNECTING" /\ Handler(Request(ResetReconnect(player)))
    \/ player.state = "PLAYING" /\ Handler(RequestRecovery(player))

ErrorRetryTimer ==
    LET q == [player EXCEPT !.retry = FALSE]
    IN /\ player.retry
       /\ IF q.state = "ERROR" THEN Retry(q) ELSE Handler(q)

-----------------------------------------------------------------------------
(* The stream                                                              *)

\* The first frame, and the frame that ends CONNECTING or RECONNECTING.
FrameReceived ==
    LET canTransition(q) == q.state = "CONNECTING" \/ (q.state = "RECONNECTING" /\ q.up)
        q == IF player.up /\ canTransition(player)
             THEN Watched([player EXCEPT !.frame = TRUE]) ELSE player
    IN /\ attached
       /\ Handler(IF q.desired /\ IsConnected(q) /\ canTransition(q) /\ ~q.notified
                  THEN Recovered(TryNotifyRecovered([q EXCEPT !.notified = TRUE]))
                  ELSE q)

WebrtcUp == StreamEvent(TryNotifyRecovered(Report(player, TRUE)))

\* The policy asks for recovery, or marks the stream degraded when frames flow.
WebrtcDown ==
    LET q == IF player.state = "PLAYING" THEN player ELSE Report(player, FALSE)
    IN \/ StreamEvent(Recover(q))
       \/ q.frame /\ StreamEvent(q)

\* HANGUP, TRACK_ENDED, an error of Janus, 460 "Already watching".
StreamFailure == StreamEvent(Recover(player))

IceFailed ==
    StreamEvent(IF player.state = "RECONNECTING" THEN FailClosed(player)
                ELSE ToReconnecting(player))

\* ICE is disconnected or back, a track is muted or not: the timer of the one or
\* the other is armed or cleared.
SetAlarm(a) == StreamEvent(Watched([player EXCEPT !.alarms = @ \cup {a}]))
ClearAlarm(a) == StreamEvent(Watched([player EXCEPT !.alarms = @ \ {a}]))

Offer ==
    StreamEvent(Watched(IF player.state = "RECONNECTING" THEN StartSettleWindow(player)
                        ELSE player))

\* The session is gone.  The resets that an attempt's own recreate() causes are
\* expected.
SessionReset ==
    /\ player.subscribed
    /\ StreamEvent(IF /\ player.state = "RECONNECTING" /\ player.inFlight
                      /\ player.expected > 0
                   THEN [player EXCEPT !.expected = @ - 1]
                   ELSE Recover(Report(player, FALSE)))

\* The ICE grace period or the mute period is over.  ICE may be back by then, or
\* frames may flow.
AlarmFires ==
    \E a \in player.alarms :
        LET q == [player EXCEPT !.alarms = @ \ {a}]
        IN Handler(Recover(q)) \/ (a = "ice" /\ Handler(q))

\* No frames or too few of them, while packets have stopped too.  Before the
\* adapter has reported anything ICE counts as negotiating, and nothing happens.
WatchdogFires ==
    /\ attached /\ player.dog /\ player.desired /\ ~player.hidden
    /\ player.state \in {"CONNECTING", "PLAYING"}
    /\ Handler(Recover(player))

-----------------------------------------------------------------------------
(* The connect flow of generation g                                        *)

FlowAttaches(g) ==
    /\ g \in flows /\ attached' = TRUE
    /\ UNCHANGED <<player, flows, runs, crossed>>

\* It ends well, finds itself stale, or fails (no stream, autoplay blocked).
FlowEnds(g) ==
    LET done == [player EXCEPT !.latch = FALSE]
    IN /\ g \in flows
       /\ flows' = flows \ {g}
       /\ \/ Stale(g) /\ Step(done, FALSE)
          \/ ~Stale(g) /\ Step([done EXCEPT !.dog = TRUE], FALSE)
          \/ ~Stale(g) /\ Step(Fail(player), FALSE)
       /\ UNCHANGED <<runs, attached>>

-----------------------------------------------------------------------------
(* Reconnect timers and runs                                               *)

\* _runScheduled of generation t up to the health check.
RunScheduled(q, t) ==
    LET go == ShouldContinue(q) /\ t = q.token /\ ~q.inFlight
    IN /\ \/ ~go /\ Step(q, Stale(t)) /\ UNCHANGED runs
          \/ /\ go /\ IsConnected(q) /\ UNCHANGED runs
             /\ Step(ReconnectSuccess([ClearTimers(q) EXCEPT !.attempt = 0,
                                                             !.pending = FALSE]), FALSE)
          \/ /\ go /\ ~IsConnected(q) /\ Step(q, FALSE)
             /\ \E s \in Slots :
                  /\ runs[s] = NoRun
                  /\ runs' = [runs EXCEPT ![s] = [NoRun EXCEPT !.token = t, !.pc = "health"]]
       /\ UNCHANGED <<flows, attached>>

ScheduleTimer ==
    player.sched # 0 /\ RunScheduled([player EXCEPT !.sched = 0], player.sched)

\* A timer without a handle takes the handle of the other one down with it.
LostTimer ==
    \E g \in Gens :
        /\ player.lost[g] > 0
        /\ RunScheduled([player EXCEPT !.lost[g] = @ - 1, !.sched = 0], g)

\* The attempt's promise is fulfilled: wait for the offer.
Returned(q, t) ==
    IF q.settle # 0 THEN [q EXCEPT !.start = 0] ELSE [q EXCEPT !.start = t]

\* It is rejected, or its time is up.
AttemptFailed(q) == ScheduleNext([q EXCEPT !.start = 0, !.inFlight = FALSE])

RunStep(s, pc, q) ==
    /\ runs[s].pc = pc /\ Step(q, Stale(runs[s].token))
    /\ UNCHANGED <<flows, attached>>

Ends(s) == runs' = [runs EXCEPT ![s] = NoRun]

HealthFails(s) == RunStep(s, "health", ScheduleNext(player)) /\ Ends(s)

\* The attempt begins; nothing is looked at again after the health check but,
\* in _executeRecoveryAttempt, the token.  It restarts ICE, or stops or detaches
\* the stream, or recreates the session.
HealthPasses(s) ==
    LET t == runs[s].token
        q == [player EXCEPT !.inFlight = TRUE, !.attempt = @ + 1]
        r == IF q.state = "RECONNECTING" THEN [q EXCEPT !.up = FALSE, !.frame = FALSE]
             ELSE FailClosed(q)
        begun == [r EXCEPT !.alarms = {}]
    IN \/ Stale(t) /\ RunStep(s, "health", Returned(q, t)) /\ Ends(s)
       \/ /\ ~Stale(t)
          /\ \/ RunStep(s, "health", begun)
             \/ RunStep(s, "health", StopStreaming(begun))
             \/ RunStep(s, "health", [begun EXCEPT !.expected = 2])
          /\ runs' = [runs EXCEPT ![s].pc = "work"]

\* The attempt's last step without _dropIfStale.
WorkEndsUnasked(s) ==
    LET t == runs[s].token
        q == [player EXCEPT !.dog = TRUE]
    IN /\ Ends(s)
       /\ \/ RunStep(s, "work", IF runs[s].raced THEN q ELSE Returned(q, t))
          \/ RunStep(s, "work", IF runs[s].raced THEN player ELSE AttemptFailed(player))

\* What follows its last await.  After the timeout nobody listens any more, but
\* the work goes on to its end.
WorkEnds(s) ==
    LET t == runs[s].token
        q == IF Stale(t) THEN player ELSE [player EXCEPT !.dog = TRUE]
    IN /\ Ends(s)
       /\ \/ RunStep(s, "work", IF runs[s].raced THEN q ELSE Returned(q, t))
          \/ RunStep(s, "work", IF runs[s].raced THEN player ELSE AttemptFailed(player))

WorkTimesOut(s) ==
    /\ ~runs[s].raced /\ RunStep(s, "work", AttemptFailed(player))
    /\ runs' = [runs EXCEPT ![s].raced = TRUE]

\* No offer within settleStartTimeoutMs.
SettleStartTimer ==
    LET q == [player EXCEPT !.start = 0]
    IN /\ player.start # 0
       /\ Handler(IF q.settle # 0 \/ player.start # q.token THEN q
                  ELSE ScheduleNext([q EXCEPT !.inFlight = FALSE]))

\* No recovery within connectSettleMs.
SettleTimer ==
    LET q == [player EXCEPT !.settle = 0, !.inFlight = FALSE]
    IN /\ player.settle # 0
       /\ Handler(IF player.settle # q.token THEN q ELSE ScheduleNext(q))

-----------------------------------------------------------------------------

BrowserStep ==
    \/ Play \/ PressRetry \/ Stop \/ Hide \/ (\E v \in BOOLEAN : ShowTab(v) \/ ShowElement(v))
    \/ NetworkOnline \/ ErrorRetryTimer

StreamStep ==
    \/ FrameReceived \/ WebrtcUp \/ WebrtcDown \/ StreamFailure \/ IceFailed
    \/ (\E a \in Alarms : SetAlarm(a) \/ ClearAlarm(a))
    \/ Offer \/ SessionReset \/ AlarmFires \/ WatchdogFires

FlowStep == \E g \in Gens : FlowAttaches(g) \/ FlowEnds(g)

\* The coordinator's timers fire, its promises settle.
ReconnectStep ==
    \/ ScheduleTimer \/ LostTimer \/ SettleStartTimer \/ SettleTimer
    \/ \E s \in Slots : HealthFails(s) \/ HealthPasses(s) \/ WorkEnds(s) \/ WorkTimesOut(s)

PlayerNext == BrowserStep \/ StreamStep \/ FlowStep \/ ReconnectStep

PlayerSpec == PlayerInit /\ [][PlayerNext]_playerVars

-----------------------------------------------------------------------------
(* Properties                                                              *)

\* The flags that every late callback reads agree with the state, whatever path
\* (user, policy, gate, exhausted attempts, failed flow) led there.  desiredPlaying
\* is true exactly in the active states.  PLAYING means that WebRTC is up and a
\* frame has come (SAFETY_LAWS L4 as far as the player can see it), also when a
\* session is reset under a playing stream and after a recovery that coordinator
\* and frame both report.  The watchdog, the only one to notice that frames have
\* stopped, runs in CONNECTING and PLAYING although recovering cancels all timers,
\* and no flow or attempt that ends late starts it in a player that was stopped.
FlagsFollowState ==
    /\ player.desired <=> player.state \in Active
    /\ player.state = "PLAYING" => IsConnected(player)
    /\ player.state \in {"CONNECTING", "PLAYING"} => player.dog
    /\ player.state \in Rest => ~player.dog

\* A run of the present generation somebody still waits for.
Live(s) == runs[s].pc # "free" /\ ~runs[s].raced /\ runs[s].token = player.token

\* A visible player never sits in RECONNECTING with nothing left that could end
\* it: a backoff or settle timer of this generation is armed or a run is under
\* way, in any interleaving of failures, recoveries, hiding and coming back
\* online, as long as no run or timer of a connection given up came back (those
\* take the latch or disarm the timer of the present one).
ReconnectAlive ==
    player.state = "RECONNECTING" /\ ~player.hidden /\ ~crossed =>
        \/ player.token \in {player.sched, player.start, player.settle}
        \/ player.lost[player.token] > 0
        \/ \E s \in Slots : Live(s)

\* No timer and no late promise brings a stopped or failed player back (E3 of
\* _stopAll): it becomes active only with a new generation, for which a connect
\* flow runs, so that a play is never swallowed by the latch of an old flow.
FreshStart ==
    [][player.state \in Rest /\ player'.state \in Active =>
          /\ player'.token > player.token
          /\ player'.token \in flows']_playerVars

-----------------------------------------------------------------------------
(* What the code or its documents say and the model refutes                *)

\* SAFETY_LAWS L11: at most one reconnect is active at any time.
OneReconnect == Cardinality({s \in Slots : runs[s].pc = "work" /\ Live(s)}) <= 1

\* The definition of connected: a connecting player with WebRTC up and a frame
\* shown becomes PLAYING on that frame.
ConnectedIsPlaying == player.state = "CONNECTING" => ~IsConnected(player)

\* A run that finds the connection recovered in the meantime treats that as
\* success: no step of a run takes a playing player to ERROR.
PlayingNotTornDown ==
    [][player.state = "PLAYING" /\ runs' # runs => player'.state # "ERROR"]_playerVars
=============================================================================
