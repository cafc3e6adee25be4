---------------------------- MODULE WorkspaceLink ----------------------------
(***************************************************************************)
(* The shared UI's connection store with its automatic reconnect loop: the *)
(* picker's dial, the loop's and the banner's re-dial, the resume probe,   *)
(* the host-key question, disconnect, and the events the platform sends    *)
(* about a transport.  A platform either leaves recovery to this store or  *)
(* owns it (then the connection id is stable and the store mirrors it).    *)
(*                                                                         *)
(* Source: packages/ui/src/app/stores/connection.ts, reconnectLoop.ts,     *)
(* components/LinkLostBanner.vue, views/HostPickerView.vue and             *)
(* src/shared/reconnectBackoff.ts.                                         *)
(***************************************************************************)
EXTENDS Naturals, Sequences, FiniteSets

CONSTANTS
    Hosts, NoHost,
    Ids, NoId,              \* connection ids, each minted once
    Calls, NoCall,          \* dials that can be under way
    MaxAttempts,            \* MAX_ATTEMPTS of the backoff curve
    MaxGestures,            \* bound: what the user does
    MaxFaults               \* bound: dropped links, failed probes

ASSUME BoundsAssumption == /\ MaxAttempts \in Nat \ {0}
                           /\ {MaxGestures, MaxFaults} \subseteq Nat
                           /\ NoHost \notin Hosts /\ NoId \notin Ids /\ NoCall \notin Calls

VARIABLES
    owns,           \* transportOwnsRecovery
    connectionId, state, activeHost, replacing,
    question,       \* the dial whose host-key question is on screen
    transportRetry, \* the transport's own ladder is shown
    redial,         \* the banner's memory of the re-dial it started
    loop,           \* the backoff curve, its generation and its timer
    calls,          \* calls[c]: a dial under way
    leaving,        \* the ids a disconnect() is closing
    probe,          \* the id the resume probe under way was asked of
    asking,         \* the id api.ssh.reconnect was asked to recover
    link,           \* link[i]: the platform's transport i
    events,         \* what the platform has sent and the store not yet seen
    left,           \* how the user left: "quiet" with nothing under way, "orphan" with only
                    \* recovery dials on the wire, "no" otherwise or having dialled since
    crossed,        \* the user dialled, or a link dropped, across a recovery, a dial or a leave
    early,          \* a link was lost before its dial was committed
    gestures, faults

store == <<connectionId, state, activeHost, replacing, question, transportRetry, redial>>
work == <<loop, calls, leaving, probe, asking>>
ghosts == <<left, crossed, early>>
vars == <<owns, store, work, link, events, ghosts, gestures, faults>>

Idle == [kind |-> "none", phase |-> "idle", host |-> NoHost, gen |-> 0, prev |-> NoId,
         id |-> NoId, cancelled |-> FALSE]
NoLoop == [running |-> FALSE, attempt |-> 0, gen |-> 0, timer |-> 0]

Init == /\ owns \in BOOLEAN
        /\ connectionId = NoId
        /\ state = "idle"
        /\ activeHost = NoHost
        /\ replacing = NoId
        /\ question = NoCall
        /\ transportRetry = FALSE
        /\ loop = NoLoop
        /\ calls = [c \in Calls |-> Idle]
        /\ redial = "none"
        /\ leaving = {}
        /\ probe = NoId
        /\ asking = NoId
        /\ link = [i \in Ids |-> "new"]
        /\ events = <<>>
        /\ left = "quiet"
        /\ crossed = FALSE
        /\ early = FALSE
        /\ gestures = 0
        /\ faults = 0

Active == {c \in Calls : calls[c].phase # "idle"}
IdleCalls == Calls \ Active
NextCall == CHOOSE c \in IdleCalls : TRUE
Gesture == gestures < MaxGestures /\ gestures' = gestures + 1
Overlap == Active # {} \/ leaving # {}
Fault == faults < MaxFaults /\ faults' = faults + 1
Unheard == {events[i] : i \in 1 .. Len(events)}

-----------------------------------------------------------------------------
(* The loop.  A timer is kept with the generation it was armed under; the  *)
(* banner's countdown (autoRetry) is up exactly while one is armed.        *)

\* scheduleNext: the next step of the curve, or giveUp when it is spent.
\* Mutant: an attempt is not counted.
Schedule_Endless(l) == IF l.running THEN [l EXCEPT !.timer = l.gen] ELSE [l EXCEPT !.attempt = 0]
Schedule(l) ==
    IF l.running /\ l.attempt < MaxAttempts
      THEN [l EXCEPT !.attempt = @ + 1, !.timer = l.gen]
      ELSE [l EXCEPT !.running = FALSE, !.attempt = 0]

BeginLoop(l, target) ==
    IF l.running \/ target = NoHost THEN l
    ELSE Schedule([l EXCEPT !.running = TRUE, !.attempt = 0, !.gen = @ + 1])

\* Mutant: the curve is left running.
Succeeded_OnlyResets(l) == [l EXCEPT !.attempt = 0]
Succeeded(l) == [l EXCEPT !.running = FALSE, !.attempt = 0]

\* Mutant: the armed timer is forgotten.
Cancelled_KeepsTimer(l) == [l EXCEPT !.running = FALSE, !.attempt = 0, !.gen = @ + 1]
Cancelled(l) == [l EXCEPT !.running = FALSE, !.attempt = 0, !.timer = 0, !.gen = @ + 1]

-----------------------------------------------------------------------------
(* Dials                                                                   *)

\* connect(): the attempt is claimed in one step, before the dial.
Claim(c, call) ==
    /\ calls' = [calls EXCEPT ![c] = [call EXCEPT !.phase = "dialing"]]
    /\ state' = "connecting"
    /\ activeHost' = call.host

\* reconnect() up to its first await: the pending step is cleared and the old
\* transport is closed first.
\* Mutant: the pending step is not cleared.
StartReconnect_KeepsStep(kind, l, gen) ==
    /\ IdleCalls # {}
    /\ loop' = l
    /\ calls' = [calls EXCEPT ![NextCall] = [Idle EXCEPT !.kind = kind, !.phase = "closing", !.host = activeHost,
                                                        !.gen = gen, !.prev = connectionId]]
    /\ replacing' = connectionId
    /\ connectionId # NoId
    /\ UNCHANGED <<state, activeHost>>
StartReconnect(kind, l, gen) ==
    LET call == [Idle EXCEPT !.kind = kind, !.host = activeHost, !.gen = gen,
                             !.prev = connectionId]
    IN /\ IdleCalls # {}
       /\ loop' = [l EXCEPT !.timer = 0]
       /\ IF connectionId = NoId
            THEN /\ Claim(NextCall, call)
                 /\ UNCHANGED replacing
            ELSE /\ calls' = [calls EXCEPT ![NextCall] = [call EXCEPT !.phase = "closing"]]
                 /\ replacing' = connectionId
                 /\ UNCHANGED <<state, activeHost>>

\* The platform closes a transport and says so.
CloseLink(i) ==
    /\ link' = [link EXCEPT ![i] = "closed"]
    /\ events' = IF link[i] \in {"up", "retrying"} THEN Append(events, [id |-> i, state |-> "idle"])
                 ELSE events

Closed(c) ==
    /\ calls[c].phase = "closing"
    /\ CloseLink(calls[c].prev)
    /\ Claim(c, calls[c])
    /\ UNCHANGED <<owns, connectionId, replacing, question, transportRetry, redial, loop, leaving, probe,
                   asking, ghosts, gestures, faults>>

\* A newer question refuses an unanswered older one.
Asks(c) ==
    /\ calls[c].phase = "dialing"
    /\ question' = c
    /\ calls' = [d \in Calls |-> IF d = c THEN [calls[d] EXCEPT !.phase = "asking"]
                                 ELSE IF d = question THEN [calls[d] EXCEPT !.phase = "refused"]
                                 ELSE calls[d]]
    /\ UNCHANGED <<owns, connectionId, state, activeHost, replacing, transportRetry, redial, loop, leaving,
                   probe, asking, link, events, ghosts, gestures, faults>>

AnswerTrust(ok) ==
    /\ question # NoCall
    /\ question' = NoCall
    /\ calls' = [calls EXCEPT ![question].phase = IF ok THEN "trusted" ELSE "refused"]
    /\ UNCHANGED <<owns, connectionId, state, activeHost, replacing, transportRetry, redial, loop, leaving,
                   probe, asking, link, events, ghosts, gestures, faults>>

\* The dial fails: connect() lands on idle; the loop's own continuation puts
\* the state back to lost and waits again, or gives up.
DialFails(c) ==
    /\ calls[c].phase \in {"dialing", "trusted", "refused"}
    /\ calls' = [calls EXCEPT ![c] = Idle]
    /\ IF calls[c].kind = "loop" /\ calls[c].gen = loop.gen
         THEN state' = "lost" /\ loop' = Schedule(loop)
         ELSE state' = "idle" /\ UNCHANGED loop
    /\ redial' = IF calls[c].kind = "button" THEN "failed" ELSE redial
    /\ UNCHANGED <<owns, connectionId, activeHost, replacing, question, transportRetry, leaving,
                   probe, asking, link, events, ghosts, gestures, faults>>

\* The transport is up; forwarding is restored before its id is exposed.
DialWorks(c) ==
    /\ calls[c].phase \in {"dialing", "trusted"}
    /\ \E i \in Ids : link[i] = "new"
    /\ LET i == CHOOSE j \in Ids : link[j] = "new"
       IN /\ link' = [link EXCEPT ![i] = "up"]
          /\ calls' = [calls EXCEPT ![c].phase = "restoring", ![c].id = i]
    /\ UNCHANGED <<owns, store, loop, leaving, probe, asking, events, ghosts, gestures, faults>>

\* disconnect() up to its await: the loop is cancelled and an open question
\* refused, and the transport in hand is the one that is closed.
StartLeaving(id, cs) ==
    /\ loop' = Cancelled(loop)
    /\ question' = NoCall
    /\ leaving' = leaving \cup ({id} \ {NoId})
    /\ calls' = [d \in Calls |-> IF d = question THEN [cs[d] EXCEPT !.phase = "refused"] ELSE cs[d]]

\* connect() exposes the new id; reconnect() ends the recovery; the picker
\* hangs up a dial the user had cancelled.
Commit(c) ==
    /\ calls[c].phase = "restoring"
    /\ connectionId' = calls[c].id
    /\ state' = "connected"
    /\ LET again == calls[c].kind # "pick"
           abandoned == calls[c].cancelled /\ activeHost = calls[c].host
           done == [calls EXCEPT ![c] = Idle]
       IN /\ replacing' = IF again THEN NoId ELSE replacing
          /\ redial' = IF calls[c].kind = "button" THEN "none" ELSE redial
          /\ IF abandoned
               THEN StartLeaving(calls[c].id, done)
               ELSE /\ loop' = IF again THEN Succeeded(loop) ELSE loop
                    /\ calls' = done
                    /\ UNCHANGED <<leaving, question>>
    /\ early' = (early \/ (link[calls[c].id] # "up" /\ [id |-> calls[c].id, state |-> "lost"] \notin Unheard))
    /\ UNCHANGED <<owns, activeHost, transportRetry, probe, asking, link, events, left, crossed,
                   gestures, faults>>

-----------------------------------------------------------------------------
(* The user                                                                *)

UserDials == /\ left' = "no"
             /\ crossed' = (crossed \/ Overlap \/ loop.running \/ loop.timer # 0)

\* The picker's or the palette's connect(host).
Pick(h) ==
    /\ Gesture
    /\ IdleCalls # {}
    /\ ~ (state = "connected" /\ activeHost = h)
    /\ Claim(NextCall, [Idle EXCEPT !.kind = "pick", !.host = h])
    /\ UserDials
    /\ UNCHANGED <<owns, connectionId, replacing, question, transportRetry, redial, loop, leaving, probe,
                   asking, link, events, early, faults>>

\* The picker's Cancel: the dial is left to finish.
CancelDial(c) ==
    /\ Gesture
    /\ calls[c].kind = "pick"
    /\ ~ calls[c].cancelled
    /\ calls' = [calls EXCEPT ![c].cancelled = TRUE]
    /\ UNCHANGED <<owns, store, loop, leaving, probe, asking, link, events, ghosts, faults>>

\* The banner's button, off while a dial is on the wire.  During a countdown
\* it skips the wait (skipWait), otherwise it re-dials (reconnect).
BannerUp == state = "lost" \/ redial # "none" \/ loop.running \/ transportRetry
Counting == loop.running /\ loop.timer # 0
Button == BannerUp /\ state # "connecting" /\ ~ transportRetry /\ activeHost # NoHost

RetryNow ==
    /\ Gesture
    /\ Button
    /\ Counting
    /\ StartReconnect("loop", loop, loop.gen)
    /\ left' = "no"
    /\ UNCHANGED <<owns, connectionId, question, transportRetry, redial, leaving, probe, asking, link,
                   events, crossed, early, faults>>

Reconnect ==
    /\ Gesture
    /\ Button
    /\ ~ owns
    /\ ~ Counting
    /\ StartReconnect("button", loop, 0)
    /\ redial' = "inflight"
    /\ UserDials
    /\ UNCHANGED <<owns, connectionId, question, transportRetry, leaving, probe, asking, link,
                   events, early, faults>>

\* What disconnect() resets once the close is answered (or at once, when there
\* is nothing to close).  The workspace and its banner go with it.
Reset ==
    /\ connectionId' = NoId
    /\ replacing' = NoId
    /\ transportRetry' = FALSE
    /\ redial' = "none"
    /\ state' = "idle"
    /\ activeHost' = NoHost

Leaves(others) ==
    left' = IF others # {} \/ crossed THEN "no"
            ELSE IF Active = {} THEN "quiet"
            ELSE IF \A c \in Active : calls[c].kind = "loop" THEN "orphan" ELSE "no"

Disconnect ==
    /\ Gesture
    /\ connectionId \notin leaving
    /\ StartLeaving(connectionId, calls)
    /\ IF connectionId = NoId
         THEN Reset /\ Leaves(leaving)
         ELSE UNCHANGED <<connectionId, replacing, transportRetry, redial, state, activeHost, left>>
    /\ UNCHANGED <<owns, probe, asking, link, events, crossed, early, faults>>

\* The close is answered.
Disconnected(i) ==
    /\ i \in leaving
    /\ leaving' = leaving \ {i}
    /\ CloseLink(i)
    /\ Reset
    /\ UNCHANGED <<owns, question, loop, calls, probe, asking, crossed, early, gestures, faults>>
    /\ Leaves(leaving \ {i})

\* The close of a transport that is already gone is rejected: disconnect()
\* ends there, with the store as it was.
CloseRejected(i) ==
    /\ i \in leaving
    /\ link[i] \in {"down", "closed"}
    /\ leaving' = leaving \ {i}
    /\ UNCHANGED <<owns, store, loop, calls, probe, asking, link, events, ghosts, gestures, faults>>

-----------------------------------------------------------------------------
(* The platform                                                            *)

\* A transport drops.  A platform that owns recovery re-dials it by itself.
Drop(i) ==
    /\ Fault
    /\ link[i] = "up"
    /\ link' = [link EXCEPT ![i] = IF owns THEN "retrying" ELSE "down"]
    /\ events' = Append(events, [id |-> i, state |-> IF owns THEN "reconnecting" ELSE "lost"])
    /\ UNCHANGED <<owns, store, work, ghosts, gestures>>

\* Its ladder ends; a reconnect() that joined it is answered with the event.
LadderEnds(i, ok) ==
    /\ owns
    /\ link[i] = "retrying"
    /\ link' = [link EXCEPT ![i] = IF ok THEN "up" ELSE "down"]
    /\ events' = Append(events, [id |-> i, state |-> IF ok THEN "connected" ELSE "lost"])
                   \o (IF asking = i THEN <<[id |-> i, state |-> IF ok THEN "answer" ELSE "refusal"]>>
                       ELSE <<>>)
    /\ UNCHANGED <<owns, store, work, ghosts, gestures, faults>>

\* The store hears: events of another id, or of the one being replaced, are
\* not its own.  A platform that owns recovery is mirrored; otherwise a lost
\* link starts the loop.
\* Mutant: while an id is being replaced every event is ignored.
Hear_NotWhileReplacing ==
    LET e == Head(events)
        mine == e.id = connectionId /\ replacing = NoId
    IN /\ events # <<>>
       /\ e.state \notin {"answer", "refusal"}
       /\ events' = Tail(events)
       /\ state' = IF mine THEN e.state ELSE state
       /\ loop' = IF mine /\ ~ owns /\ e.state = "lost" THEN BeginLoop(loop, activeHost) ELSE loop
       /\ crossed' = (crossed \/ (mine /\ Overlap))
       /\ early' = (early \/ \E c \in Active : calls[c].id = e.id)
       /\ UNCHANGED <<owns, connectionId, activeHost, replacing, question, transportRetry, redial, calls,
                      leaving, probe, asking, link, left, gestures, faults>>
Hear ==
    LET e == Head(events)
        mine == e.id = connectionId /\ e.id # replacing
    IN /\ events # <<>>
       /\ e.state \notin {"answer", "refusal"}
       /\ events' = Tail(events)
       /\ state' = IF mine THEN e.state ELSE state
       /\ transportRetry' = IF mine /\ owns THEN e.state = "reconnecting" ELSE transportRetry
       /\ loop' = IF mine /\ ~ owns /\ e.state = "lost" THEN BeginLoop(loop, activeHost) ELSE loop
       /\ crossed' = (crossed \/ (mine /\ Overlap))
       /\ early' = (early \/ \E c \in Active : calls[c].id = e.id)
       /\ UNCHANGED <<owns, connectionId, activeHost, replacing, question, redial, calls, leaving,
                      probe, asking, link, left, gestures, faults>>

\* api.ssh.reconnect is answered; a disconnect meanwhile leaves it no effect.
Answered ==
    LET e == Head(events)
        mine == e.id = connectionId
    IN /\ events # <<>>
       /\ e.state \in {"answer", "refusal"}
       /\ events' = Tail(events)
       /\ asking' = NoId
       /\ redial' = IF mine /\ e.state = "answer" THEN "none" ELSE "failed"
       /\ state' = IF ~ mine THEN state
                   ELSE IF e.state = "answer" THEN "connected"
                   ELSE IF state = "reconnecting" THEN state ELSE "lost"
       /\ transportRetry' = (transportRetry /\ ~ (mine /\ e.state = "answer"))
       /\ UNCHANGED <<owns, connectionId, activeHost, replacing, question, loop, calls, leaving,
                      probe, link, ghosts, gestures, faults>>

\* Retry on a platform that owns recovery: it joins or starts a ladder.
AskTransport ==
    /\ Gesture
    /\ owns
    /\ Button
    /\ asking = NoId
    /\ connectionId # NoId
    /\ asking' = connectionId
    /\ redial' = "inflight"
    /\ IF link[connectionId] \in {"up", "retrying"} THEN UNCHANGED <<link, events>>
       ELSE /\ link' = [link EXCEPT ![connectionId] =
                           IF link[connectionId] = "closed" THEN "closed" ELSE "retrying"]
            /\ events' = Append(events, [id |-> connectionId,
                            state |-> IF link[connectionId] = "closed" THEN "refusal" ELSE "reconnecting"])
    /\ UNCHANGED <<owns, connectionId, state, activeHost, replacing, question, transportRetry, loop,
                   calls, leaving, probe, ghosts, faults>>

\* The loop's timer fires: dialStep under the timer's generation.
TimerFires ==
    /\ loop.timer # 0
    /\ IF loop.timer = loop.gen /\ activeHost # NoHost
         THEN StartReconnect("loop", loop, loop.timer)
         ELSE /\ loop' = [loop EXCEPT !.timer = 0]
              /\ UNCHANGED <<calls, state, activeHost, replacing>>
    /\ UNCHANGED <<owns, connectionId, question, transportRetry, redial, leaving, probe, asking, link,
                   events, ghosts, gestures, faults>>

\* The machine wakes: a probe asks whether the link still works.
Resume ==
    /\ Gesture
    /\ ~ owns
    /\ probe = NoId
    /\ state = "connected"
    /\ connectionId # NoId
    /\ probe' = connectionId
    /\ UNCHANGED <<owns, store, loop, calls, leaving, asking, link, events, ghosts, faults>>

ProbeWorks ==
    /\ probe # NoId
    /\ probe' = NoId
    /\ UNCHANGED <<owns, store, loop, calls, leaving, asking, link, events, ghosts, gestures, faults>>

\* A failed probe is the drop, unless the event came first; the recovery it
\* begins dials at once.  The id it was asked of is not compared.
ProbeFails ==
    /\ probe # NoId
    /\ Fault
    /\ probe' = NoId
    /\ IF state # "connected"
         THEN UNCHANGED <<state, calls, replacing, loop, crossed>>
         ELSE /\ state' = "lost"
              /\ crossed' = (crossed \/ Overlap)
              /\ IF activeHost = NoHost THEN UNCHANGED <<calls, replacing, loop>>
                 ELSE LET l == BeginLoop(loop, activeHost)
                      IN /\ IdleCalls # {}
                         /\ calls' = [calls EXCEPT ![NextCall] =
                                        [Idle EXCEPT !.kind = "loop", !.phase = "closing",
                                                     !.host = activeHost, !.gen = l.gen,
                                                     !.prev = connectionId]]
                         /\ replacing' = connectionId
                         /\ loop' = [l EXCEPT !.timer = 0]
    /\ UNCHANGED <<owns, connectionId, activeHost, question, transportRetry, redial, leaving, asking,
                   link, events, left, early, gestures>>

-----------------------------------------------------------------------------
DialSteps(c) == Closed(c) \/ DialFails(c) \/ DialWorks(c) \/ Commit(c)

Next ==
    \/ \E c \in Calls : DialSteps(c) \/ Asks(c) \/ CancelDial(c)
    \/ \E ok \in BOOLEAN : AnswerTrust(ok)
    \/ \E h \in Hosts : Pick(h)
    \/ RetryNow \/ Reconnect \/ Disconnect
    \/ \E i \in Ids : Disconnected(i) \/ CloseRejected(i)
    \/ \E i \in Ids : Drop(i)
    \/ \E i \in Ids, ok \in BOOLEAN : LadderEnds(i, ok)
    \/ Hear \/ Answered \/ AskTransport \/ TimerFires
    \/ Resume \/ ProbeWorks \/ ProbeFails

Spec == Init /\ [][Next]_vars

\* Every dial is answered or times out in the platform, timers fire and
\* events arrive.  Nothing is assumed of the user.
FairSpec == /\ Spec
            /\ \A c \in Calls : WF_vars(DialSteps(c))
            /\ WF_vars(TimerFires)
            /\ WF_vars(Hear \/ Answered)

-----------------------------------------------------------------------------
(* Properties                                                              *)

\* One schedule: while a recovery runs exactly one step of it is pending or
\* on the wire, and none when it does not.  The banner never promises a retry
\* nothing will make, and a lost link is never dialled by two steps at once.
\* It says nothing once the user's dials or a drop have crossed a recovery, a
\* dial or a leave: reconnect() does not join a dial already on the wire.
OneSchedule ==
    ~ crossed =>
        Cardinality({c \in Active : calls[c].kind = "loop" /\ calls[c].gen = loop.gen})
            + (IF loop.timer # 0 THEN 1 ELSE 0) = (IF loop.running THEN 1 ELSE 0)

\* A link the store calls connected is up, or the news of its loss is on its
\* way, or it is being re-dialled.  The exception, `early`: a link lost before
\* its dial was committed, whose news onState drops because the id is not the
\* store's yet (forwarding is still being restored).
LearnsOfLoss ==
    state = "connected" /\ leaving = {} =>
        \/ early
        \/ replacing = connectionId
        \/ link[connectionId] = "up"
        \/ \E e \in Unheard : e.id = connectionId /\ e.state # "connected"

\* A user who disconnected, with no dial on the wire and none that crossed a
\* recovery before, stays disconnected.
LeftStaysLeft ==
    left = "quiet" => /\ state = "idle" /\ connectionId = NoId
                      /\ Active = {} /\ loop.timer = 0 /\ ~ loop.running

\* The recovery dial on the wire when the user disconnects is orphaned: its
\* success does not undo the disconnect (disconnect()'s comment).
DisconnectStays == left = "orphan" => state # "connected"

\* A step that begins a dial of the automatic recovery by closing a transport.
ClosesFor(c) == /\ calls[c].kind # "loop"
                /\ calls'[c].kind = "loop" /\ calls'[c].phase = "closing"

\* A transport that works is not closed by the recovery's timer nor by a skipped
\* wait: what dialStep closes to re-dial is not up, on the platform's side, and
\* only a failed resume probe is taken for a drop without the platform's word.
\* It says nothing once something has crossed a recovery, a dial or a leave.
HealthyLinkKept ==
    [][\A c \in Calls : ClosesFor(c) =>
          \/ link[calls'[c].prev] # "up"
          \/ probe # NoId /\ probe' = NoId
          \/ crossed']_vars

\* What the comment of onOsResume says of the two notices of one drop: whichever
\* lands first wins, so that a failed probe has no link re-dialled but the one
\* it was asked of.
FirstNoticeWins ==
    [][\A c \in Calls : ClosesFor(c) /\ probe # NoId /\ probe' = NoId =>
          calls'[c].prev = probe \/ crossed']_vars

\* A recovery ends, in a connection or in giving up, unless it comes to wait
\* for the user's answer to a host key, or a dial of the user's or a drop
\* crosses it.
RecoveryEnds == loop.running ~> ~ loop.running \/ crossed \/ question # NoCall
=============================================================================
