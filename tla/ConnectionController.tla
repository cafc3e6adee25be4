------------------------ MODULE ConnectionController ------------------------
(***************************************************************************)
(* The transport lifecycle of src/connectionController.ts: connect, dial,  *)
(* host-key trust, the recovery ladder, background grace and close, over   *)
(* an SshCapability that answers late, fails and loses links.              *)
(*                                                                         *)
(* The controller is single threaded: an action is the code between two    *)
(* awaits, and proc[p] is a call that waits for an answer.  connectIntent  *)
(* is only ever compared with the value a call took when it bumped it, so  *)
(* `intent` names the call that bumped it last.  A generation stands for   *)
(* its native connection; ids are unique, so one is used again only when   *)
(* nothing refers to it.  The terminals are abstracted to `pool`; module   *)
(* Terminals has them in detail.                                           *)
(***************************************************************************)
EXTENDS Naturals, FiniteSets

CONSTANTS
    Calls,      \* slots for the public calls in flight
    Ladder,     \* the recovery ladder (reconnectTask)
    NoProc,     \* no call owns the intent
    Hosts, NoHost,
    Gateway,    \* the hosts marked for the gateway
    Refused,    \* the gateway hosts this platform cannot admit
    Keys, NoKey,
    Gens, NoGen,
    Retries,    \* retryDelaysMs.length
    MaxCalls,   \* bound: public calls made
    MaxFaults,  \* bound: links lost, channels failing
    CalmUser    \* whether the user connects and trusts one at a time (Settled)

Procs == Calls \cup {Ladder}

ASSUME ControllerAssumption ==
    /\ Ladder \notin Calls /\ NoProc \notin Procs
    /\ NoHost \notin Hosts /\ NoKey \notin Keys /\ NoGen \notin Gens
    /\ Gateway \subseteq Hosts /\ Refused \subseteq Gateway
    /\ Retries \in Nat \ {0}
    /\ MaxCalls \in Nat /\ MaxFaults \in Nat
    /\ CalmUser \in BOOLEAN

VARIABLES
    proc,       \* the calls in flight
    intent,     \* connectIntent: who bumped it last
    disposed,
    host,       \* this.host
    conn,       \* this.connection (its generation)
    phase,      \* snapshot.phase
    decision,   \* snapshot.trustDecision
    grace,      \* graceDeadlineEpochMs is set
    pins,       \* the trust store
    once,       \* onceTrusted
    pool,       \* the terminals: "empty", "open" (no PTY) or "live"
    native,     \* the platform's connections
    accepted,   \* history: the keys the user, or an earlier pin, vouched for
    calls, faults

vars == <<proc, intent, disposed, host, conn, phase, decision, grace,
          pins, once, pool, native, accepted, calls, faults>>

trustVars == <<pins, once, accepted>>

-----------------------------------------------------------------------------

Phases == {"idle", "connecting", "awaiting-trust", "connected", "listing", "attaching",
           "live", "background", "reconnecting", "lost", "error"}

USABLE_PHASES == {"connected", "listing", "attaching", "live"}

Proc == [pc : {"none", "probe", "ptys", "closing", "pins", "dialing", "rejecting", "wait",
               "listing", "reattach", "reclosing", "schedule", "cancel", "release",
               "record", "list", "attach", "mutate", "command", "aborting"},
         op : {"none", "connect", "ladder", "close", "call"},
         host : Hosts \cup {NoHost}, gen : Gens \cup {NoGen}, key : Keys \cup {NoKey},
         attempt : 0..Retries, why : {"none", "key", "receipt"}, again : BOOLEAN]

Idle == [pc |-> "none", op |-> "none", host |-> NoHost, gen |-> NoGen, key |-> NoKey,
         attempt |-> 0, why |-> "none", again |-> FALSE]

NoDecision == [host |-> NoHost, key |-> NoKey, reason |-> "none"]

\* A native connection: `event` is a state event not yet delivered, `timer` a
\* scheduled close.
Closed == [state |-> "closed", host |-> NoHost, key |-> NoKey, receipt |-> FALSE,
           event |-> FALSE, timer |-> FALSE]

Native == [state : {"closed", "open", "lost", "expired"}, host : Hosts \cup {NoHost},
           key : Keys \cup {NoKey}, receipt : BOOLEAN, event : BOOLEAN, timer : BOOLEAN]

Free(c) == c \in Calls /\ proc[c] = Idle

\* Mutants: the intent is not compared; the ladder does not ask.
Current_AnyIntent(p) == p \in Procs /\ ~disposed
Current_NotLadder(p) == p = Ladder \/ (~disposed /\ intent = p)

\* isCurrentConnect
Current(p) == ~disposed /\ intent = p

Waits(p, pc) == proc[p].pc = pc

Ends(p) == proc' = [proc EXCEPT ![p] = Idle]

\* Calls that wait for a channel of their connection.
ChannelPcs == {"ptys", "list", "attach", "mutate", "command", "listing", "reattach"}

\* closeConnection answers p: the native handle is gone, and "closing a live
\* generation is the cancellation boundary for its in-flight channel
\* operations" (README), so those have answered before.
Release(p, g) ==
    /\ \A q \in Procs \ {p} : g # NoGen /\ proc[q].gen = g => proc[q].pc \notin ChannelPcs
    /\ native' = IF g = NoGen THEN native ELSE [native EXCEPT ![g] = Closed]

\* closeAllTerminals and closeCurrentTransport, up to the first native await;
\* r is what the call keeps.
Teardown(p, r) ==
    IF pool = "live"
    THEN /\ proc' = [proc EXCEPT ![p] = [r EXCEPT !.pc = "ptys", !.gen = conn]]
         /\ UNCHANGED conn
    ELSE /\ proc' = [proc EXCEPT ![p] =
                [r EXCEPT !.pc = IF p = Ladder THEN "reclosing" ELSE "closing", !.gen = conn]]
         /\ conn' = NoGen

\* detachTerminalsFromTransport
Detached(pl) == IF pl = "live" THEN "open" ELSE pl

LivePhase(pl, other) == IF pl = "live" THEN "live" ELSE other

idlePhase(pl, procs) ==
    LivePhase(pl, IF \E c \in Calls : procs[c].pc = "attach" THEN "attaching" ELSE "connected")

Unused(g) ==
    /\ native[g].state # "open" /\ ~native[g].event
    /\ conn # g
    /\ \A p \in Procs : proc[p].gen # g

\* No connect, recovery or trust decision is in flight.
Settled == \A p \in Procs : proc[p].op \notin {"connect", "ladder"} /\ proc[p].pc # "record"

UserCall == ~disposed /\ calls < MaxCalls /\ calls' = calls + 1

-----------------------------------------------------------------------------
\* The recovery ladder's start.

\* runReconnect up to its first await; procs is the caller's own update.
runReconnect(procs) ==
    /\ proc' = [procs EXCEPT ![Ladder] =
                   [Idle EXCEPT !.pc = "closing", !.op = "ladder", !.host = host, !.gen = conn]]
    /\ intent' = Ladder
    /\ conn' = NoGen
    /\ phase' = "reconnecting"
    /\ pool' = Detached(pool)

LadderRuns == ~Waits(Ladder, "none")

\* reconnectAndAttach: a running ladder is joined, never doubled.
reconnectAndAttach(procs) ==
    IF LadderRuns \/ host = NoHost
    THEN proc' = procs /\ UNCHANGED <<intent, conn, phase, pool>>
    ELSE runReconnect(procs)

\* startReconnect, after the caller has set the phase to ph and the pool to pl.
startReconnect(procs, ph, pl) ==
    IF ph = "background" \/ disposed \/ LadderRuns \/ host = NoHost
    THEN proc' = procs /\ phase' = ph /\ pool' = pl /\ UNCHANGED <<intent, conn>>
    ELSE runReconnect(procs)

-----------------------------------------------------------------------------
\* connect()

\* A fresh dial is a new host context: no terminal survives it.
ConnectTeardown(c, h) ==
    /\ Teardown(c, [Idle EXCEPT !.op = "connect", !.host = h])
    /\ pool' = "empty"

\* The call up to its first native await.
ConnectBegins(c, h) ==
    /\ intent' = c
    /\ \/ /\ conn # NoGen /\ host = h
          /\ proc' = [proc EXCEPT ![c] =
                [Idle EXCEPT !.pc = "probe", !.op = "connect", !.host = h, !.gen = conn]]
          /\ UNCHANGED <<conn, pool>>
       \/ /\ ~(conn # NoGen /\ host = h)
          /\ ConnectTeardown(c, h)

\* A refused gateway request disturbs nothing while a session is held.
connect(c, h) ==
    /\ UserCall /\ Free(c)
    /\ ~(h \in Refused /\ host # NoHost)
    /\ CalmUser => Settled
    /\ ConnectBegins(c, h)
    /\ UNCHANGED <<disposed, host, phase, decision, grace, trustVars, native, faults>>

\* getConnectionState answers: a live link is kept, a spent or unknown one not.
connectProbed(c) ==
    /\ Waits(c, "probe")
    /\ \/ /\ ~Current(c) \/ native[proc[c].gen].state = "open"
          /\ Ends(c) /\ UNCHANGED <<conn, pool>>
       \/ /\ Current(c)
          /\ ConnectTeardown(c, proc[c].host)
    /\ UNCHANGED <<intent, disposed, host, phase, decision, grace, trustVars, native,
                   calls, faults>>

\* closeCurrentTransport: whatever connection is current now is let go.
PtysClosed(p) ==
    /\ Waits(p, "ptys")
    /\ proc' = [proc EXCEPT ![p].pc = IF p = Ladder THEN "reclosing" ELSE "closing",
                            ![p].gen = conn]
    /\ conn' = NoGen
    /\ UNCHANGED <<intent, disposed, host, phase, decision, grace, trustVars, pool,
                   native, calls, faults>>

-----------------------------------------------------------------------------
\* dial()

\* Up to its first await: the trust store for an ordinary host, the platform
\* for the gateway, and nothing at all for a refused gateway host.
DialBegins(p, h, attempt) ==
    \/ /\ h \notin Refused
       /\ \E g \in {g \in Gens : Unused(g)} :
             proc' = [proc EXCEPT ![p] =
                [@ EXCEPT !.pc = IF h \in Gateway THEN "dialing" ELSE "pins",
                          !.host = h, !.gen = g, !.attempt = attempt]]
       /\ phase' = "connecting"
    \/ /\ h \in Refused
       /\ Ends(p)
       /\ phase' = IF p = Ladder THEN "lost" ELSE "error"

\* A failed dial: connect() reports it; the ladder waits and dials again while
\* the failure may pass and attempts are left, else it gives up.
Again(p, may) == p = Ladder /\ may /\ proc[p].attempt < Retries

LadderWaits == [proc[Ladder] EXCEPT !.pc = "wait", !.gen = NoGen, !.key = NoKey, !.why = "none"]

\* Mutant: the give-up is not reported.
FailedDial_Silent(p, may) ==
    /\ phase' = IF p = Ladder THEN phase ELSE "error"
    /\ proc' = [proc EXCEPT ![p] = IF Again(p, may) THEN LadderWaits ELSE Idle]
    /\ decision' = NoDecision

FailedDial(p, may) ==
    /\ phase' = IF p = Ladder /\ ~Again(p, may) THEN "lost" ELSE "error"
    /\ proc' = [proc EXCEPT ![p] = IF Again(p, may) THEN LadderWaits ELSE Idle]
    /\ decision' = NoDecision

\* presentHostKeyDecision; a ladder ends there too.
presentHostKeyDecision(p, k) ==
    /\ phase' = "awaiting-trust"
    /\ decision' = [host |-> proc[p].host, key |-> k,
                    reason |-> IF proc[p].key = NoKey THEN "unknown" ELSE "mismatch"]
    /\ Ends(p)

\* The expected key: the stored pin, else the one trusted once for this host.
ExpectedKey(h) ==
    IF pins[h] # NoKey THEN pins[h] ELSE IF once.host = h THEN once.key ELSE NoKey

connectClosed(c) ==
    /\ Waits(c, "closing") /\ proc[c].op = "connect"
    /\ Release(c, proc[c].gen)
    /\ \/ ~Current(c) /\ Ends(c) /\ UNCHANGED <<host, phase, decision>>
       \/ /\ Current(c)
          /\ host' = proc[c].host
          /\ decision' = NoDecision
          /\ DialBegins(c, proc[c].host, 0)
    /\ UNCHANGED <<intent, disposed, conn, grace, trustVars, pool, calls, faults>>

\* trustStore.get answers.
pinsRead(p) ==
    /\ Waits(p, "pins")
    /\ proc' = [proc EXCEPT ![p] =
          IF Current(p) THEN [@ EXCEPT !.pc = "dialing", !.key = ExpectedKey(proc[p].host)]
          ELSE Idle]
    /\ UNCHANGED <<intent, disposed, host, conn, phase, decision, grace, trustVars, pool,
                   native, calls, faults>>

\* trustStore.get rejects.
pinsFail(p) ==
    /\ Waits(p, "pins")
    /\ \/ ~Current(p) /\ Ends(p) /\ UNCHANGED <<phase, decision>>
       \/ Current(p) /\ FailedDial(p, TRUE)
    /\ UNCHANGED <<intent, disposed, host, conn, grace, trustVars, pool, native, calls, faults>>

\* Mutant: a key nobody vouched for is taken on first contact.
Verdict_FirstUse(p, k, receipt) ==
    IF proc[p].host \in Gateway
    THEN IF receipt THEN "none" ELSE "receipt"
    ELSE IF proc[p].key \in {k, NoKey} THEN "none" ELSE "key"

\* The verdict on a connection the platform opened with key k.
Verdict(p, k, receipt) ==
    IF proc[p].host \in Gateway
    THEN IF receipt THEN "none" ELSE "receipt"
    ELSE IF proc[p].key = k THEN "none" ELSE "key"

\* The platform connected, the host presenting key k.
dialOk(p, k, receipt) ==
    LET g == proc[p].gen
        why == Verdict(p, k, receipt)
    IN /\ Waits(p, "dialing")
       /\ native' = [native EXCEPT ![g] = [Closed EXCEPT !.state = "open", !.host = proc[p].host,
                                             !.key = k, !.receipt = receipt]]
       /\ \/ /\ Current(p) /\ why = "none"
             /\ conn' = g
             /\ decision' = NoDecision
             /\ IF p = Ladder   \* refreshSessions
                THEN /\ phase' = "listing"
                     /\ proc' = [proc EXCEPT ![p].pc = "listing", ![p].key = NoKey]
                ELSE phase' = "connected" /\ Ends(p)
          \/ /\ ~Current(p) \/ why # "none"
             /\ proc' = [proc EXCEPT ![p] =
                    [proc[p] EXCEPT !.pc = "rejecting", !.why = why,
                                    !.key = IF why = "key" THEN proc[p].key ELSE NoKey]]
             /\ UNCHANGED <<conn, phase, decision>>
       /\ UNCHANGED <<intent, disposed, host, grace, trustVars, pool, calls, faults>>

\* closeReturnedConnection answers.
rejected(p) ==
    LET g == proc[p].gen
    IN /\ Waits(p, "rejecting")
       /\ Release(p, g)
       /\ \/ ~Current(p) /\ Ends(p) /\ UNCHANGED <<phase, decision>>
          \/ /\ Current(p) /\ proc[p].why = "key"
             /\ presentHostKeyDecision(p, native[g].key)
          \/ /\ Current(p) /\ proc[p].why = "receipt"
             /\ FailedDial(p, FALSE)
       /\ UNCHANGED <<intent, disposed, host, conn, grace, trustVars, pool, calls, faults>>

\* HOST_KEY_REJECTED with the presented key: a question for the user, except
\* on the gateway and for a key that is the expected one.
dialKeyRejected(p, k) ==
    /\ Waits(p, "dialing")
    /\ \/ ~Current(p) /\ Ends(p) /\ UNCHANGED <<phase, decision>>
       \/ Current(p) /\ Verdict(p, k, FALSE) = "key" /\ presentHostKeyDecision(p, k)
       \/ Current(p) /\ Verdict(p, k, FALSE) # "key" /\ FailedDial(p, FALSE)
    /\ UNCHANGED <<intent, disposed, host, conn, grace, trustVars, pool, native, calls, faults>>

\* Any other failure; isRetryableDialError or the gateway matrix says whether
\* dialling again may help.
dialFails(p, may) ==
    /\ Waits(p, "dialing")
    /\ \/ ~Current(p) /\ Ends(p) /\ UNCHANGED <<phase, decision>>
       \/ Current(p) /\ FailedDial(p, may)
    /\ UNCHANGED <<intent, disposed, host, conn, grace, trustVars, pool, native, calls, faults>>

\* The user trusts the presented key: for good, or, on first contact only, for
\* this controller's lifetime.
acceptPresentedHostKey(c, persist) ==
    /\ UserCall /\ Free(c)
    /\ CalmUser => Settled
    /\ decision # NoDecision /\ host # NoHost
    /\ persist \/ decision.reason = "unknown"
    /\ accepted' = accepted \cup {<<host, decision.key>>}
    /\ \/ /\ persist
          /\ proc' = [proc EXCEPT ![c] = [Idle EXCEPT !.pc = "record", !.op = "call",
                                             !.host = host, !.key = decision.key]]
          /\ UNCHANGED <<intent, conn, phase, decision, once, pool>>
       \/ /\ ~persist
          /\ once' = [host |-> host, key |-> decision.key]
          /\ phase' = "connecting" /\ decision' = NoDecision
          /\ ConnectBegins(c, host)
    /\ UNCHANGED <<disposed, host, grace, pins, native, faults>>

\* trustStore.record answers; connect() throws on a closed controller.
keyRecorded(c) ==
    /\ Waits(c, "record")
    /\ pins' = [pins EXCEPT ![proc[c].host] = proc[c].key]
    /\ phase' = "connecting" /\ decision' = NoDecision
    /\ \/ disposed /\ Ends(c) /\ UNCHANGED <<intent, conn, pool>>
       \/ ~disposed /\ ConnectBegins(c, proc[c].host)
    /\ UNCHANGED <<disposed, host, grace, once, accepted, native, calls, faults>>

\* trustStore.record rejects: the question stays.
keyNotRecorded(c) ==
    /\ Waits(c, "record")
    /\ Ends(c)
    /\ UNCHANGED <<intent, disposed, host, conn, phase, decision, grace, trustVars, pool,
                   native, calls, faults>>

-----------------------------------------------------------------------------
\* The recovery ladder (runReconnect, reattachTerminals).

\* The old transport is closed, or a delay is over: the next attempt.
ladderDials ==
    /\ Waits(Ladder, "closing") \/ Waits(Ladder, "wait")
    /\ Release(Ladder, proc[Ladder].gen)
    /\ \/ ~Current(Ladder) /\ Ends(Ladder) /\ UNCHANGED phase
       \/ Current(Ladder) /\ DialBegins(Ladder, proc[Ladder].host, proc[Ladder].attempt + 1)
    /\ UNCHANGED <<intent, disposed, host, conn, decision, grace, trustVars, pool, calls, faults>>

\* 'retry': the next attempt, or the give-up after the last.
LadderRetries ==
    /\ proc' = [proc EXCEPT ![Ladder] = IF Again(Ladder, TRUE) THEN LadderWaits ELSE Idle]
    /\ phase' = IF Again(Ladder, TRUE) \/ ~Current(Ladder) THEN phase ELSE "lost"

\* Mutant: the ladder is done once it has listed.
ladderListed_Stops ==
    /\ Waits(Ladder, "listing") /\ native[proc[Ladder].gen].state = "open"
    /\ Ends(Ladder)
    /\ phase' = IF Current(Ladder) THEN "connected" ELSE phase
    /\ UNCHANGED <<intent, disposed, host, conn, decision, grace, trustVars, pool, native,
                   calls, faults>>

\* The sessions are listed: drop the terminals whose session is gone, and
\* re-attach the rest.
ladderListed ==
    /\ Waits(Ladder, "listing") /\ native[proc[Ladder].gen].state = "open"
    /\ \/ ~Current(Ladder) /\ Ends(Ladder) /\ UNCHANGED <<phase, pool>>
       \/ /\ Current(Ladder) /\ conn = NoGen
          /\ LadderRetries /\ UNCHANGED pool
       \/ /\ Current(Ladder) /\ conn # NoGen /\ pool = "empty"
          /\ Ends(Ladder) /\ phase' = "connected" /\ UNCHANGED pool
       \/ /\ Current(Ladder) /\ conn # NoGen /\ pool # "empty"
          /\ \/ Ends(Ladder) /\ phase' = "lost" /\ pool' = "empty"
             \/ /\ proc' = [proc EXCEPT ![Ladder].pc = "reattach"]
                /\ phase' = "attaching" /\ UNCHANGED pool
    /\ UNCHANGED <<intent, disposed, host, conn, decision, grace, trustVars, native, calls, faults>>

\* refreshSessions fails inside the ladder: its startReconnect joins the
\* running ladder, and the ladder ends unless the phase says reconnecting.
ladderListFails ==
    /\ Waits(Ladder, "listing")
    /\ phase' = IF conn # proc[Ladder].gen \/ phase = "reconnecting" THEN phase
                ELSE LivePhase(pool, "error")
    /\ IF Current(Ladder) /\ phase' = "reconnecting"
       THEN proc' = [proc EXCEPT ![Ladder] = IF Again(Ladder, TRUE) THEN LadderWaits ELSE Idle]
       ELSE Ends(Ladder)
    /\ UNCHANGED <<intent, disposed, host, conn, decision, grace, trustVars, pool, native,
                   calls, faults>>

\* Every open terminal has been tried: opened, failed, or superseded.
ladderReattached ==
    /\ Waits(Ladder, "reattach")
    /\ Ends(Ladder)
    /\ conn = proc[Ladder].gen /\ Current(Ladder) => native[conn].state = "open"
    /\ pool' \in IF pool = "open" /\ conn = proc[Ladder].gen THEN {"open", "live"} ELSE {pool}
    /\ phase' = IF ~Current(Ladder) THEN phase
                ELSE CASE pool' = "live" -> "live"
                       [] pool' = "open" -> "error"
                       [] pool' = "empty" -> "connected"
    /\ UNCHANGED <<intent, disposed, host, conn, decision, grace, trustVars, native, calls, faults>>

\* The new transport died under an attach: release it and dial again.
ladderReattachFails ==
    /\ Waits(Ladder, "reattach") /\ Current(Ladder)
    /\ conn = proc[Ladder].gen
    /\ pool' = Detached(pool)
    /\ Teardown(Ladder, proc[Ladder])
    /\ UNCHANGED <<intent, disposed, host, phase, decision, grace, trustVars, native,
                   calls, faults>>

ladderReclosed ==
    /\ Waits(Ladder, "reclosing")
    /\ Release(Ladder, proc[Ladder].gen)
    /\ LadderRetries
    /\ UNCHANGED <<intent, disposed, host, conn, decision, grace, trustVars, pool, calls, faults>>

\* The user's Retry.
reconnect ==
    /\ UserCall /\ host # NoHost
    /\ ~LadderRuns /\ phase # "background"
    /\ ~(conn # NoGen /\ phase \in USABLE_PHASES)
    /\ reconnectAndAttach(proc)
    /\ UNCHANGED <<disposed, host, decision, grace, trustVars, native, faults>>

-----------------------------------------------------------------------------
\* Background grace.

\* enterBackground up to scheduleClose.
enterBackground(c) ==
    /\ UserCall /\ Free(c) /\ conn # NoGen
    /\ grace' = TRUE
    /\ proc' = [proc EXCEPT ![c] = [Idle EXCEPT !.pc = "schedule", !.op = "call", !.gen = conn]]
    /\ UNCHANGED <<intent, disposed, host, conn, phase, decision, trustVars, pool, native, faults>>

\* scheduleClose answers, or rejects.
closeScheduled(c) ==
    LET g == proc[c].gen
    IN /\ Waits(c, "schedule")
       /\ Ends(c)
       /\ \/ /\ native[g].state = "open"
             /\ native' = [native EXCEPT ![g].timer = TRUE]
             /\ phase' = "background"
          \/ UNCHANGED <<native, phase>>
       /\ UNCHANGED <<intent, disposed, host, conn, decision, grace, trustVars, pool, calls, faults>>

\* Mutant: the reference is dropped before it is captured.
releaseSpentConnection_Late(c) ==
    /\ proc' = [proc EXCEPT ![c] = [Idle EXCEPT !.pc = "release", !.op = "call"]]
    /\ intent' = NoProc
    /\ conn' = NoGen
    /\ pool' = Detached(pool)
    /\ UNCHANGED phase

\* releaseSpentConnection up to its first await.
releaseSpentConnection(c) ==
    /\ proc' = [proc EXCEPT ![c] = [Idle EXCEPT !.pc = "release", !.op = "call", !.gen = conn]]
    /\ intent' = NoProc
    /\ conn' = NoGen
    /\ pool' = Detached(pool)
    /\ UNCHANGED phase

released(c) ==
    /\ Waits(c, "release")
    /\ Release(c, proc[c].gen)
    /\ Ends(c)
    /\ phase' = "lost"
    /\ UNCHANGED <<intent, disposed, host, conn, decision, grace, trustVars, pool, calls, faults>>

\* A spent connection is replaced by the ladder, or released for the user.
Spent(c, again) ==
    IF again THEN reconnectAndAttach([proc EXCEPT ![c] = Idle]) ELSE releaseSpentConnection(c)

\* returnToForeground: the deadline has passed, or the native close is
\* cancelled in time.
returnToForeground(c, again) ==
    /\ UserCall /\ Free(c)
    /\ grace /\ host # NoHost
    /\ grace' = FALSE
    /\ \/ Spent(c, again)
       \/ /\ conn # NoGen
          /\ proc' = [proc EXCEPT ![c] = [Idle EXCEPT !.pc = "cancel", !.op = "call",
                                             !.gen = conn, !.again = again]]
          /\ UNCHANGED <<intent, conn, phase, pool>>
    /\ UNCHANGED <<disposed, host, decision, trustVars, native, faults>>

\* cancelScheduledClose and getConnectionState have answered, or one rejected.
closeCancelled(c) ==
    LET g == proc[c].gen
    IN /\ Waits(c, "cancel")
       /\ native' \in {native, [native EXCEPT ![g].timer = FALSE]}
       /\ \/ /\ native[g].state = "open" /\ native[g].timer /\ ~native'[g].timer
             /\ Ends(c)
             /\ pool' = IF pool = "open" /\ ~\E d \in Calls : Waits(d, "attach")
                        THEN "empty" ELSE pool
             /\ phase' = idlePhase(pool', proc)
             /\ UNCHANGED <<intent, conn>>
          \/ Spent(c, proc[c].again)
       /\ UNCHANGED <<disposed, host, decision, grace, trustVars, calls, faults>>

-----------------------------------------------------------------------------
\* close()

\* p's request may be pendingConnectRequestId.
MayBePending(p) == proc[p].op = "connect" \/ proc[p].pc \in {"pins", "dialing", "rejecting"}

\* The pending dial is cancelled first; then the transport goes as in connect().
close(c) ==
    /\ UserCall /\ Free(c)
    /\ disposed' = TRUE
    /\ intent' = NoProc
    /\ \/ /\ \E p \in Procs : MayBePending(p)
          /\ proc' = [proc EXCEPT ![c] = [Idle EXCEPT !.pc = "aborting", !.op = "close"]]
          /\ UNCHANGED <<conn, pool>>
       \/ /\ ~\E p \in Procs : intent = p /\ MayBePending(p)
          /\ Teardown(c, [Idle EXCEPT !.op = "close"])
          /\ pool' = "empty"
    /\ UNCHANGED <<host, phase, decision, grace, trustVars, native, faults>>

dialAborted(c) ==
    /\ Waits(c, "aborting")
    /\ Teardown(c, proc[c])
    /\ pool' = "empty"
    /\ UNCHANGED <<intent, disposed, host, phase, decision, grace, trustVars, native,
                   calls, faults>>

closed(c) ==
    /\ Waits(c, "closing") /\ proc[c].op = "close"
    /\ Release(c, proc[c].gen)
    /\ Ends(c)
    /\ host' = NoHost /\ phase' = "idle" /\ decision' = NoDecision /\ grace' = FALSE
    /\ UNCHANGED <<intent, disposed, conn, trustVars, pool, calls, faults>>

-----------------------------------------------------------------------------
\* Operations on the current transport.

\* refreshSessions, attachSession, createSession/killSession, runHostCommand:
\* each captures the connection and waits for the host.
Operates(c, pc) ==
    /\ UserCall /\ Free(c) /\ conn # NoGen
    /\ proc' = [proc EXCEPT ![c] = [Idle EXCEPT !.pc = pc, !.op = "call", !.gen = conn]]
    /\ UNCHANGED <<intent, disposed, host, conn, decision, grace, trustVars, native, faults>>

refreshSessions(c) ==
    /\ Operates(c, "list")
    /\ phase' = IF phase = "live" THEN "live" ELSE "listing"
    /\ UNCHANGED pool

attachSession(c) ==
    /\ Operates(c, "attach") /\ host # NoHost
    /\ phase' = LivePhase(pool, "attaching")
    /\ pool' = IF pool = "empty" THEN "open" ELSE pool

createSession(c) == Operates(c, "mutate") /\ UNCHANGED <<phase, pool>>
runHostCommand(c) == Operates(c, "command") /\ UNCHANGED <<phase, pool>>

\* The host answered.  An attach opens its PTY unless it was superseded.
operationDone(c) ==
    /\ proc[c].pc \in {"list", "attach", "mutate", "command"}
    /\ native[proc[c].gen].state = "open"
    /\ Ends(c)
    /\ IF Waits(c, "attach") /\ conn = proc[c].gen /\ pool # "empty"
       THEN pool' = "live" /\ phase' = "live"
       ELSE UNCHANGED <<pool, phase>>
    /\ UNCHANGED <<intent, disposed, host, conn, decision, grace, trustVars, native, calls, faults>>

\* An operation fails, with a transport error or (on a live link) another one.
OperationFails(c, pc, transport) ==
    /\ Waits(c, pc)
    /\ transport \/ native[proc[c].gen].state = "open"
    /\ UNCHANGED <<disposed, host, decision, grace, trustVars, native, calls, faults>>

NoRecovery(c, ph) ==
    proc' = [proc EXCEPT ![c] = Idle] /\ phase' = ph /\ UNCHANGED <<intent, conn, pool>>

\* Stale when the controller has replaced the transport; else a transport error
\* starts recovery, and in background only the phase is lost.
listFails(c, transport) ==
    LET ph == IF phase = "reconnecting" THEN phase ELSE LivePhase(pool, "error")
    IN /\ OperationFails(c, "list", transport)
       /\ IF conn # proc[c].gen THEN NoRecovery(c, phase)
          ELSE IF transport /\ phase # "background"
          THEN startReconnect([proc EXCEPT ![c] = Idle], ph, pool)
          ELSE NoRecovery(c, ph)

attachFails(c, transport) ==
    /\ OperationFails(c, "attach", transport)
    /\ IF conn # proc[c].gen THEN NoRecovery(c, phase)
       ELSE IF transport
       THEN startReconnect([proc EXCEPT ![c] = Idle], LivePhase(pool, "error"), pool)
       ELSE NoRecovery(c, LivePhase(pool, "error"))

commandFails(c, transport) ==
    /\ OperationFails(c, "command", transport)
    /\ IF transport /\ conn = proc[c].gen
       THEN startReconnect([proc EXCEPT ![c] = Idle], phase, pool)
       ELSE NoRecovery(c, phase)

\* A create or kill does not ask whether its transport is still the current one.
mutationFails(c, transport) ==
    /\ OperationFails(c, "mutate", transport)
    /\ IF transport THEN startReconnect([proc EXCEPT ![c] = Idle], phase, pool)
       ELSE NoRecovery(c, phase)

\* The result of a create or kill timed out: the sessions are listed again.
mutationUncertain(c) ==
    /\ Waits(c, "mutate") /\ conn # NoGen
    /\ proc' = [proc EXCEPT ![c].pc = "list", ![c].gen = conn]
    /\ phase' = IF phase = "live" THEN "live" ELSE "listing"
    /\ UNCHANGED <<intent, disposed, host, conn, decision, grace, trustVars, pool, native,
                   calls, faults>>

-----------------------------------------------------------------------------
\* Terminals, as far as the transport's phase depends on them.

Fewer(pl) == IF pl = "live" THEN {"live", "open", "empty"} ELSE {"open", "empty"}

\* The user closes a terminal; an attach of it in flight is superseded.
detachSession ==
    /\ UserCall /\ pool # "empty"
    /\ pool' \in Fewer(pool)
    /\ \/ UNCHANGED proc
       \/ \E c \in Calls : Waits(c, "attach") /\ Ends(c)
    /\ phase' = IF \/ conn = NoGen \/ phase \in {"reconnecting", "background"}
                   \/ phase = "error" /\ pool' # "live"
                THEN phase ELSE idlePhase(pool', proc')
    /\ UNCHANGED <<intent, disposed, host, conn, decision, grace, trustVars, native, faults>>

\* A PTY closes because its session ended.
ptyEnds ==
    /\ pool = "live" /\ conn # NoGen /\ ~disposed /\ faults < MaxFaults
    /\ faults' = faults + 1
    /\ IF phase = "background"
       THEN pool' \in {"live", "open"} /\ UNCHANGED phase
       ELSE pool' \in Fewer(pool) /\ phase' = idlePhase(pool', proc)
    /\ UNCHANGED <<proc, intent, disposed, host, conn, decision, grace, trustVars, native, calls>>

\* A read, write or resize of a PTY fails, with a transport error or without.
ptyFails ==
    /\ pool = "live" /\ conn # NoGen /\ ~disposed /\ faults < MaxFaults
    /\ faults' = faults + 1
    /\ \/ \E pl \in {"live", "open"} :
             startReconnect(proc, IF phase = "background" THEN phase ELSE LivePhase(pl, "error"), pl)
       \/ /\ phase # "background"
          /\ pool' \in Fewer(pool) /\ phase' = LivePhase(pool', "error")
          /\ UNCHANGED <<proc, intent, conn>>
    /\ UNCHANGED <<disposed, host, decision, grace, trustVars, native, calls>>

-----------------------------------------------------------------------------
\* The platform.

lose(g) ==
    /\ native[g].state = "open" /\ faults < MaxFaults
    /\ faults' = faults + 1
    /\ native' = [native EXCEPT ![g].state = "lost", ![g].event = TRUE, ![g].timer = FALSE]
    /\ UNCHANGED <<proc, intent, disposed, host, conn, phase, decision, grace, trustVars, pool, calls>>

\* The scheduled close fires.
graceExpires(g) ==
    /\ native[g].state = "open" /\ native[g].timer
    /\ native' = [native EXCEPT ![g].state = "expired", ![g].event = TRUE, ![g].timer = FALSE]
    /\ UNCHANGED <<proc, intent, disposed, host, conn, phase, decision, grace, trustVars, pool,
                   calls, faults>>

onConnectionState(g) ==
    /\ native[g].event
    /\ native' = [native EXCEPT ![g].event = FALSE]
    /\ \/ /\ conn = g /\ native[g].state = "expired" /\ phase = "background"
          /\ pool' = Detached(pool) /\ conn' = NoGen
          /\ UNCHANGED <<proc, intent, phase>>
       \/ /\ conn = g /\ native[g].state = "lost"
          /\ startReconnect(proc, phase, pool)
       \/ /\ \/ conn # g
             \/ native[g].state = "expired" /\ phase # "background"
          /\ UNCHANGED <<proc, intent, conn, phase, pool>>
    /\ UNCHANGED <<disposed, host, decision, grace, trustVars, calls, faults>>

-----------------------------------------------------------------------------

Init ==
    /\ proc = [p \in Procs |-> Idle]
    /\ intent = NoProc
    /\ disposed = FALSE
    /\ host = NoHost
    /\ conn = NoGen
    /\ phase = "idle"
    /\ decision = NoDecision
    /\ grace = FALSE
    /\ pins \in {ps \in [Hosts -> Keys \cup {NoKey}] : \A h \in Gateway : ps[h] = NoKey}
    /\ once = [host |-> NoHost, key |-> NoKey]
    /\ pool = "empty"
    /\ native = [g \in Gens |-> Closed]
    /\ accepted = {hk \in Hosts \X Keys : pins[hk[1]] = hk[2]}
    /\ calls = 0
    /\ faults = 0

\* A waiting call's answer arrives.
Answer(p) ==
    \/ PtysClosed(p) \/ pinsRead(p) \/ pinsFail(p) \/ rejected(p)
    \/ \E k \in Keys : dialKeyRejected(p, k) \/ \E receipt \in BOOLEAN : dialOk(p, k, receipt)
    \/ \E may \in BOOLEAN : dialFails(p, may)
    \/ /\ p \in Calls
       /\ \/ connectProbed(p) \/ connectClosed(p) \/ keyRecorded(p) \/ keyNotRecorded(p)
          \/ closeScheduled(p) \/ closeCancelled(p) \/ released(p)
          \/ dialAborted(p) \/ closed(p)
          \/ operationDone(p) \/ mutationUncertain(p)
          \/ \E transport \in BOOLEAN :
                \/ listFails(p, transport) \/ attachFails(p, transport)
                \/ commandFails(p, transport) \/ mutationFails(p, transport)
    \/ /\ p = Ladder
       /\ \/ ladderDials \/ ladderListed \/ ladderListFails
          \/ ladderReattached \/ ladderReattachFails \/ ladderReclosed

UserStep(c) ==
    \/ \E h \in Hosts : connect(c, h)
    \/ \E b \in BOOLEAN : acceptPresentedHostKey(c, b) \/ returnToForeground(c, b)
    \/ enterBackground(c) \/ close(c)
    \/ refreshSessions(c) \/ attachSession(c) \/ createSession(c) \/ runHostCommand(c)

Next ==
    \/ \E p \in Procs : Answer(p)
    \/ \E c \in Calls : UserStep(c)
    \/ reconnect \/ detachSession \/ ptyEnds \/ ptyFails
    \/ \E g \in Gens : lose(g) \/ graceExpires(g) \/ onConnectionState(g)

Spec == Init /\ [][Next]_vars

\* The platform answers every call and delivers every event; users and faults
\* are not fair.
FairSpec ==
    /\ Spec
    /\ \A p \in Procs : WF_vars(Answer(p))
    /\ \A g \in Gens : WF_vars(onConnectionState(g))
-----------------------------------------------------------------------------
\* Properties.

TypeOK ==
    /\ proc \in [Procs -> Proc]
    /\ intent \in Procs \cup {NoProc}
    /\ disposed \in BOOLEAN /\ grace \in BOOLEAN
    /\ host \in Hosts \cup {NoHost}
    /\ conn \in Gens \cup {NoGen}
    /\ phase \in Phases
    /\ decision \in [host : Hosts \cup {NoHost}, key : Keys \cup {NoKey},
                     reason : {"none", "unknown", "mismatch"}]
    /\ pins \in [Hosts -> Keys \cup {NoKey}]
    /\ once \in [host : Hosts \cup {NoHost}, key : Keys \cup {NoKey}]
    /\ pool \in {"empty", "open", "live"}
    /\ native \in [Gens -> Native]
    /\ accepted \subseteq Hosts \X Keys
    /\ calls \in Nat /\ faults \in Nat

DialPcs == {"closing", "pins", "dialing", "rejecting", "wait", "reclosing"}

\* A dial that may still succeed never finds a connection to overwrite,
\* however connect(), the ladder, foreground and close interleave (dial()
\* assigns this.connection without looking at it).
DialerAlone == \A p \in Procs : Current(p) /\ proc[p].pc \in DialPcs => conn = NoGen

\* No native connection is leaked: each open one is the current connection or
\* is being closed by the call that holds it (closeReturnedConnection,
\* closeCurrentTransport, runReconnect, releaseSpentConnection).
NoOrphan ==
    \A g \in Gens : native[g].state = "open" =>
        \/ conn = g
        \/ \E p \in Procs : proc[p].gen = g
                            /\ proc[p].pc \in {"closing", "rejecting", "reclosing", "release"}

\* The current connection is the named host's, and its key is one the user
\* vouched for, or, on the gateway, one the platform proved (dial(): trust is
\* read before the platform is asked and applied after it answers).
TrustedConnection ==
    conn # NoGen =>
        /\ native[conn].host = host
        /\ IF host \in Gateway THEN native[conn].receipt
           ELSE <<host, native[conn].key>> \in accepted

\* The pending trust question is about the host it would be recorded for
\* (acceptPresentedHostKey pairs snapshot.trustDecision with this.host).
DecisionIsForHost == decision # NoDecision => decision.host = host

\* In a well-typed state, what is trusted and what is asked are about the host
\* in hand, however calls and answers interleave.
TrustIsForHost == TypeOK /\ TrustedConnection /\ DecisionIsForHost

\* After close() every native connection is released for good.
CloseReleases == disposed ~> [](\A g \in Gens : native[g].state # "open")

\* A connect or a recovery comes to an end: the user is never left looking at
\* a dial that nobody makes (connect(), runReconnect()).
DialConcludes ==
    ~disposed /\ phase \in {"connecting", "reconnecting"} ~>
        disposed \/ phase \notin {"connecting", "reconnecting"}

\* The ladder re-attaches the open terminals, or says that it could not
\* (runReconnect: "re-attach EVERY open terminal exactly once on the new
\* generation").
TerminalsRecovered ==
    ~disposed /\ LadderRuns /\ pool = "open" ~>
        disposed \/ pool # "open" \/ phase \in {"lost", "error", "awaiting-trust", "background"}

=============================================================================
