------------------------------ MODULE Terminals ------------------------------
(***************************************************************************)
(* The terminal pool of src/connectionController.ts: attach, focus, detach *)
(* and evict, the output pump, the queue of writes and resizes, and the    *)
(* re-attach of the recovery ladder, over channels that open late, end,    *)
(* fail and are closed in the background.                                  *)
(*                                                                         *)
(* A TerminalRecord is an object: detaching and attaching a session again  *)
(* makes another one.  attachToken and pumpToken are only compared with    *)
(* the value an attach or a pump took, so a record names the attach        *)
(* (opener) and the channel (pump) that hold them.  focusedAt is kept as   *)
(* the order it makes (older); the order in which the ladder re-attaches   *)
(* the terminals is left open.  A dial of the ladder succeeds or is given  *)
(* up in one step here; module ConnectionController has it in detail.      *)
(***************************************************************************)
EXTENDS Naturals, FiniteSets

CONSTANTS
    Sessions,
    Recs,           \* identities for TerminalRecords
    Chans, NoChan,  \* PTY channels
    Calls,          \* slots for attaches in flight
    Ladder, NoProc, \* the ladder's own attach; nobody
    MaxOpen,        \* maxOpenPtys
    MaxSteps,       \* bound: user calls
    MaxInput,       \* bound: writes to one channel
    MaxOutput,      \* bound: chunks from one channel
    MaxFaults       \* bound: sessions ended, channels failed, links lost

Procs == Calls \cup {Ladder}

ASSUME TerminalsAssumption ==
    /\ Sessions # {} /\ Ladder \notin Calls /\ NoProc \notin Procs /\ NoChan \notin Chans
    /\ MaxOpen \in Nat \ {0} /\ MaxSteps \in Nat /\ MaxInput \in Nat
    /\ MaxOutput \in Nat /\ MaxFaults \in Nat

VARIABLES
    rec,        \* the TerminalRecords
    terminals,  \* this.terminals: the open ones
    older,      \* older[r]: the open terminals focused before r was
    attach,     \* openTerminal calls in flight
    todo,       \* the terminals the ladder has still to re-attach
    chan,       \* the platform's channels, with their pump and write queue
    ladder,     \* reconnectTask
    gen,        \* the generation of this.connection
    up,         \* this.connection is set
    link,       \* its native state: up, close scheduled, ended, ended and told
    grace,      \* graceDeadlineEpochMs is set
    phase,
    steps, faults

vars == <<rec, terminals, older, attach, todo, chan, ladder, gen, up, link, grace, phase,
          steps, faults>>

linkVars == <<gen, link, grace>>

-----------------------------------------------------------------------------

Phases == {"connected", "listing", "attaching", "live", "error", "background",
           "reconnecting", "lost"}

Attach == [pc : {"none", "previous", "opening", "stale"}, rec : SUBSET Recs, gen : Nat,
           chan : Chans \cup {NoChan}]

NoAttach == [pc |-> "none", rec |-> {}, gen |-> 0, chan |-> NoChan]

\* session; pty; the tokens' holders; the consumer's attach; readSequence.
Blank == [session |-> {}, pty |-> NoChan, opener |-> NoProc, pump |-> NoChan,
          attaching |-> NoProc, readSequence |-> 0]

\* A channel: its native state, whether closePty was called, its record, its
\* pump, its write in flight, and histories of chunks, of writes and of whether
\* the ladder dropped its terminal.
Channel == [state : {"closed", "open", "ended"}, closing : BOOLEAN, dropped : BOOLEAN,
            rec : SUBSET Recs, pump : {"off", "read", "listeners", "probe"},
            delivered : 0..MaxOutput, queue : 0..MaxInput, running : BOOLEAN,
            sent : 0..MaxInput, failed : BOOLEAN]

Shut == [state |-> "closed", closing |-> FALSE, dropped |-> FALSE, rec |-> {},
         pump |-> "off", delivered |-> 0, queue |-> 0, running |-> FALSE, sent |-> 0,
         failed |-> FALSE]

findTerminal(s) == {r \in terminals : rec[r].session = {s}}

hasLiveTerminal(rs, ts) == \E r \in ts : rs[r].pty # NoChan

LiveOr(rs, ts, other) == IF hasLiveTerminal(rs, ts) THEN "live" ELSE other

idlePhase(rs, ts) ==
    LiveOr(rs, ts, IF \E r \in ts : rs[r].attaching # NoProc THEN "attaching"
                   ELSE "connected")

\* r becomes the most recently focused; the terminals of S leave the order.
Focused(r) == [q \in Recs |-> IF q = r THEN terminals \ {r} ELSE older[q] \ {r}]
Unfocused(S) == [q \in Recs |-> IF q \in S THEN {} ELSE older[q] \ S]

\* closePty is called on a set of channels: the platform will close them.
Closing(cs, chs) == [c \in Chans |-> IF c \in cs THEN [chs[c] EXCEPT !.closing = TRUE] ELSE chs[c]]

\* Records stop their attach and pump and give up their PTY.
Stopped(rs, S) ==
    [r \in Recs |-> IF r \in S THEN [rs[r] EXCEPT !.opener = NoProc, !.pump = NoChan, !.pty = NoChan]
                    ELSE rs[r]]

PtysOf(S) == {rec[r].pty : r \in S} \ {NoChan}

\* No record object or channel id is used again while anything refers to it.
FreshChan(c) ==
    /\ chan[c].state = "closed" /\ ~chan[c].closing
    /\ chan[c].pump = "off" /\ chan[c].queue = 0 /\ ~chan[c].running
    /\ \A r \in Recs : rec[r].pty # c /\ rec[r].pump # c
    /\ \A p \in Procs : attach[p].chan # c

FreshRec(r) ==
    /\ r \notin terminals \cup todo
    /\ \A p \in Procs : r \notin attach[p].rec
    /\ \A c \in Chans : r \in chan[c].rec => FreshChan(c)

\* The native connection works, with a close scheduled or not.
Alive == link \in {"up", "timed"}

UserCall == steps < MaxSteps /\ steps' = steps + 1
Fault == faults < MaxFaults /\ faults' = faults + 1

-----------------------------------------------------------------------------
\* Recovery.

\* reconnectAndAttach with the updates made so far: a running ladder is joined;
\* a new one takes the PTYs from the terminals and replaces the transport.
reconnectAndAttach(rs, chs, ph) ==
    IF ladder # "off"
    THEN rec' = rs /\ chan' = chs /\ phase' = ph /\ UNCHANGED <<up, ladder>>
    ELSE /\ rec' = Stopped(rs, terminals)
         /\ chan' = Closing({rs[r].pty : r \in terminals} \ {NoChan}, chs)
         /\ up' = FALSE /\ ladder' = "dialing" /\ phase' = "reconnecting"

\* startReconnect: in background, foreground decides.
startReconnect(rs, chs, ph) ==
    IF ph = "background"
    THEN rec' = rs /\ chan' = chs /\ phase' = ph /\ UNCHANGED <<up, ladder>>
    ELSE reconnectAndAttach(rs, chs, ph)

\* The ladder closed the old connection (its channels with it) and dialled: the
\* new generation is in use while refreshSessions waits for the listing.
ladderDialled ==
    /\ ladder = "dialing"
    /\ up' = TRUE /\ link' = "up" /\ gen' = gen + 1
    /\ chan' = [c \in Chans |->
          IF chan[c].state = "closed" THEN chan[c]
          ELSE [chan[c] EXCEPT !.state = "closed", !.closing = FALSE]]
    /\ ladder' = "listing" /\ phase' = "listing"
    /\ UNCHANGED <<rec, terminals, older, attach, todo, grace, steps, faults>>

\* The retry budget is spent.
ladderGivesUp ==
    /\ ladder = "dialing"
    /\ ladder' = "off" /\ phase' = "lost"
    /\ UNCHANGED <<rec, terminals, older, attach, todo, chan, up, linkVars, steps, faults>>

\* refreshSessions fails: the ladder ends, unless the phase is still its own.
ladderListFails ==
    /\ ladder = "listing"
    /\ IF up /\ Alive THEN Fault ELSE UNCHANGED faults
    /\ phase' = IF ~up \/ phase = "reconnecting" THEN phase ELSE LiveOr(rec, terminals, "error")
    /\ ladder' = IF phase' = "reconnecting" THEN "dialing" ELSE "off"
    /\ UNCHANGED <<rec, terminals, older, attach, todo, chan, up, linkVars, steps>>

\* The listing has every terminal but those of `gone`: they are dropped, with the
\* PTY that an attach gave them meanwhile, which nobody closes; the rest are queued.
\* Without a connection the ladder dials again.
ladderListed(gone) ==
    LET left == terminals \ gone
    IN /\ ladder = "listing" /\ gone \subseteq terminals
       /\ IF ~up
          THEN ladder' = "dialing" /\ UNCHANGED <<rec, terminals, older, todo, chan, phase>>
          ELSE /\ terminals' = left /\ older' = Unfocused(gone)
               /\ rec' = Stopped(rec, gone)
               /\ chan' = [c \in Chans |-> [chan[c] EXCEPT !.dropped = @ \/ c \in PtysOf(gone)]]
               /\ todo' = left
               /\ ladder' = IF left = {} THEN "off" ELSE "attaching"
               /\ phase' = IF left # {} THEN "attaching"
                           ELSE IF gone = {} THEN "connected" ELSE "lost"
       /\ UNCHANGED <<attach, up, linkVars, steps, faults>>

\* The last terminal of the ladder has been tried.
LadderEnds(rs) ==
    /\ ladder' = "off"
    /\ phase' = LiveOr(rs, terminals, IF terminals = {} THEN "connected" ELSE "error")

-----------------------------------------------------------------------------
\* attachSession, openTerminal

\* Mutant: the attach token is not compared.
superseded_NoToken(p) ==
    \E r \in attach[p].rec : r \notin terminals \/ ~(up /\ gen = attach[p].gen)

superseded(p) ==
    \E r \in attach[p].rec :
        \/ rec[r].opener # p \/ r \notin terminals
        \/ ~(up /\ gen = attach[p].gen)

\* openTerminal up to its first await.
openTerminal(p, r) ==
    LET previous == rec[r].pty
    IN /\ attach' = [attach EXCEPT ![p] =
             [pc |-> IF previous = NoChan THEN "opening" ELSE "previous",
              rec |-> {r}, gen |-> gen, chan |-> previous]]
       /\ rec' = [rec EXCEPT ![r].opener = p, ![r].pump = NoChan, ![r].pty = NoChan,
                             ![r].attaching = IF p = Ladder THEN @ ELSE p]
       /\ chan' = Closing({previous} \ {NoChan}, chan)

\* The terminals to evict for a new one: leastRecentlyFocused, while too many.
Surplus == IF Cardinality(terminals) < MaxOpen THEN 0 ELSE Cardinality(terminals) + 1 - MaxOpen
LeastRecentlyFocused(S) == Cardinality(S) = Surplus /\ \A r \in S : older[r] \subseteq S

AttachNew(c, s, r, evicted) ==
    /\ LeastRecentlyFocused(evicted)
    /\ terminals' = (terminals \ evicted) \cup {r}
    /\ older' = [Unfocused(evicted) EXCEPT ![r] = terminals \ evicted]
    /\ attach' = [attach EXCEPT ![c] = [NoAttach EXCEPT !.pc = "opening", !.rec = {r}, !.gen = gen]]
    /\ rec' = [Stopped(rec, evicted) EXCEPT ![r] =
                  [Blank EXCEPT !.session = {s}, !.opener = c, !.attaching = c]]
    /\ chan' = Closing(PtysOf(evicted), chan)
    /\ phase' = LiveOr(rec', terminals', "attaching")

\* Joined when an attach of it is in flight, selected when it is live.
attachSession(c, s) ==
    /\ UserCall /\ up /\ attach[c].pc = "none"
    /\ \/ \E r \in findTerminal(s) :
             /\ older' = Focused(r)
             /\ IF rec[r].attaching # NoProc \/ rec[r].pty # NoChan
                THEN UNCHANGED <<attach, rec, chan, phase>>
                ELSE openTerminal(c, r) /\ phase' = LiveOr(rec', terminals, "attaching")
             /\ UNCHANGED terminals
       \/ /\ findTerminal(s) = {}
          /\ \E r \in Recs, evicted \in SUBSET terminals : FreshRec(r) /\ AttachNew(c, s, r, evicted)
    /\ UNCHANGED <<todo, ladder, up, linkVars, faults>>

\* The ladder opens a terminal that is still open, or is done.
ladderNext ==
    LET left == todo \cap terminals
    IN /\ ladder = "attaching" /\ attach[Ladder].pc = "none"
       /\ IF left = {}
          THEN todo' = {} /\ LadderEnds(rec) /\ UNCHANGED <<attach, rec, chan>>
          ELSE /\ \E r \in left : todo' = left \ {r} /\ openTerminal(Ladder, r)
               /\ UNCHANGED <<ladder, phase>>
       /\ UNCHANGED <<terminals, older, up, linkVars, steps, faults>>

\* The `finally` of attachSession.
Settled(p, rs) ==
    [r \in Recs |-> IF rs[r].attaching = p THEN [rs[r] EXCEPT !.attaching = NoProc] ELSE rs[r]]

\* An attach ends; the ladder's last one ends the ladder.
AttachEnds(p, rs, ph) ==
    /\ attach' = [attach EXCEPT ![p] = NoAttach]
    /\ rec' = Settled(p, rs)
    /\ IF p = Ladder /\ todo = {} THEN LadderEnds(rs) ELSE phase' = ph /\ UNCHANGED ladder

previousClosed(p) ==
    /\ attach[p].pc = "previous"
    /\ IF superseded(p) THEN AttachEnds(p, rec, phase)
       ELSE /\ attach' = [attach EXCEPT ![p].pc = "opening", ![p].chan = NoChan]
            /\ UNCHANGED <<rec, phase, ladder>>
    /\ UNCHANGED <<terminals, older, todo, chan, up, linkVars, steps, faults>>

\* openPty answers with channel c: the terminal gets it and its pump starts,
\* or, superseded, it is closed again.
ptyOpened(p, c) ==
    /\ attach[p].pc = "opening" /\ attach[p].gen = gen /\ Alive /\ FreshChan(c)
    /\ IF superseded(p)
       THEN /\ attach' = [attach EXCEPT ![p].pc = "stale", ![p].chan = c]
            /\ chan' = [chan EXCEPT ![c] = [Shut EXCEPT !.state = "open", !.closing = TRUE]]
            /\ UNCHANGED <<rec, phase, ladder>>
       ELSE \E r \in attach[p].rec :
            /\ AttachEnds(p, [rec EXCEPT ![r].pty = c, ![r].pump = c, ![r].readSequence = 0],
                          IF p = Ladder THEN phase ELSE "live")
            /\ chan' = [chan EXCEPT ![c] =
                  [Shut EXCEPT !.state = "open", !.rec = {r}, !.pump = "read"]]
    /\ UNCHANGED <<terminals, older, todo, up, linkVars, steps, faults>>

staleClosed(p) ==
    /\ attach[p].pc = "stale"
    /\ AttachEnds(p, rec, phase)
    /\ UNCHANGED <<terminals, older, todo, chan, up, linkVars, steps, faults>>

\* openPty rejects: stale, or this terminal's failure, or the transport's; the
\* ladder then releases the generation and dials again.
openFails(p, transport) ==
    /\ attach[p].pc = "opening"
    /\ IF Alive /\ attach[p].gen = gen THEN Fault ELSE transport /\ UNCHANGED faults
    /\ \/ /\ superseded(p) \/ (p = Ladder /\ ~transport)
          /\ AttachEnds(p, rec, phase) /\ UNCHANGED <<chan, todo, up>>
       \/ /\ ~superseded(p) /\ p = Ladder /\ transport
          /\ attach' = [attach EXCEPT ![p] = NoAttach]
          /\ rec' = Stopped(rec, terminals) /\ chan' = Closing(PtysOf(terminals), chan)
          /\ todo' = {} /\ up' = FALSE /\ ladder' = "dialing" /\ UNCHANGED phase
       \/ /\ ~superseded(p) /\ p # Ladder
          /\ attach' = [attach EXCEPT ![p] = NoAttach]
          /\ LET ph == LiveOr(rec, terminals, "error")
             IN IF transport THEN startReconnect(Settled(p, rec), chan, ph)
                ELSE rec' = Settled(p, rec) /\ phase' = ph /\ UNCHANGED <<chan, up, ladder>>
          /\ UNCHANGED todo
    /\ UNCHANGED <<terminals, older, linkVars, steps>>

-----------------------------------------------------------------------------
\* detachSession, focusSession

\* removeTerminal
removeTerminal(r, rs) ==
    /\ terminals' = terminals \ {r} /\ older' = Unfocused({r})
    /\ rec' = Stopped(rs, {r})

detachSession(s) ==
    \E r \in findTerminal(s) :
        /\ UserCall
        /\ removeTerminal(r, rec)
        /\ chan' = Closing(PtysOf({r}), chan)
        /\ phase' = IF \/ ~up \/ phase \in {"reconnecting", "background"}
                       \/ phase = "error" /\ ~hasLiveTerminal(rec', terminals')
                    THEN phase ELSE idlePhase(rec', terminals')
        /\ UNCHANGED <<attach, todo, ladder, up, linkVars, faults>>

focusSession(s) ==
    \E r \in findTerminal(s) :
        /\ UserCall
        /\ older' = Focused(r)
        /\ UNCHANGED <<rec, terminals, attach, todo, chan, ladder, up, linkVars, phase, faults>>

-----------------------------------------------------------------------------
\* Input: writeTerminalBytes, resizeTerminal

\* Queued for the PTY the terminal has now; without one it will be refused.
writeTerminalBytes(s) ==
    \E r \in findTerminal(s) :
        LET c == rec[r].pty
        IN /\ UserCall /\ c # NoChan /\ chan[c].queue + chan[c].sent < MaxInput
           /\ chan' = [chan EXCEPT ![c].queue = @ + 1]
           /\ older' = Focused(r)
           /\ UNCHANGED <<rec, terminals, attach, todo, ladder, up, linkVars, phase, faults>>

Writable_AnyPty(c, r) == c \in Chans /\ r \in terminals /\ phase = "live"  \* mutant
Writable(c, r) == rec[r].pty = c /\ r \in terminals /\ phase = "live"

\* The next operation queued for channel c is sent, or refused.
operationRuns(c) ==
    /\ chan[c].queue > 0 /\ ~chan[c].running
    /\ \E r \in chan[c].rec :
          chan' = [chan EXCEPT ![c].queue = @ - 1,
                               ![c].running = Writable(c, r),
                               ![c].sent = IF Writable(c, r) THEN @ + 1 ELSE @]
    /\ UNCHANGED <<rec, terminals, older, attach, todo, ladder, up, linkVars, phase, steps, faults>>

operationDone(c) ==
    /\ chan[c].running /\ chan[c].state # "closed" /\ Alive
    /\ chan' = [chan EXCEPT ![c].running = FALSE]
    /\ UNCHANGED <<rec, terminals, older, attach, todo, ladder, up, linkVars, phase, steps, faults>>

\* abandonPty, the phase and any reconnect come before the native close.
operationFails(c, transport) ==
    /\ chan[c].running
    /\ IF chan[c].state # "open" \/ ~Alive THEN UNCHANGED faults ELSE Fault
    /\ LET chs == [chan EXCEPT ![c].running = FALSE, ![c].failed = TRUE]
       IN \E r \in chan[c].rec :
             IF rec[r].pty # c
             THEN chan' = chs /\ UNCHANGED <<rec, phase, up, ladder>>
             ELSE LET rs == [rec EXCEPT ![r].pty = NoChan, ![r].pump = NoChan]
                      ph == LiveOr(rs, terminals, "error")
                  IN IF transport THEN startReconnect(rs, Closing({c}, chs), ph)
                     ELSE /\ rec' = rs /\ chan' = Closing({c}, chs) /\ phase' = ph
                          /\ UNCHANGED <<up, ladder>>
    /\ UNCHANGED <<terminals, older, attach, todo, linkVars, steps>>

-----------------------------------------------------------------------------
\* Output: startPtyPump

PumpCurrent(c, r) == rec[r].pump = c

PumpStops(c) == chan' = [chan EXCEPT ![c].pump = "off"]

\* What a stale pump's answer does: nothing.
PumpStale(c, pc) ==
    /\ chan[c].pump = pc
    /\ \A r \in chan[c].rec : ~PumpCurrent(c, r)
    /\ PumpStops(c)
    /\ UNCHANGED <<rec, terminals, older, attach, todo, ladder, up, linkVars, phase, steps, faults>>

\* A read answers with the chunk after readSequence; the listeners run.
readAnswers(c) ==
    /\ chan[c].pump = "read" /\ chan[c].state # "closed"
    /\ \E r \in chan[c].rec :
          /\ PumpCurrent(c, r) /\ rec[r].readSequence < MaxOutput
          /\ chan' = [chan EXCEPT ![c].pump = "listeners", ![c].delivered = rec[r].readSequence + 1]
    /\ UNCHANGED <<rec, terminals, older, attach, todo, ladder, up, linkVars, phase, steps, faults>>

\* Mutant: the token is not looked at again after the listeners.
listenersDone_Unchecked(c) ==
    /\ chan[c].pump = "listeners"
    /\ \E r \in chan[c].rec : rec' = [rec EXCEPT ![r].readSequence = chan[c].delivered]
    /\ chan' = [chan EXCEPT ![c].pump = "read"]
    /\ UNCHANGED <<terminals, older, attach, todo, ladder, up, linkVars, phase, steps, faults>>

\* The listeners are done with it.
listenersDone(c) ==
    /\ chan[c].pump = "listeners"
    /\ \E r \in chan[c].rec :
          /\ PumpCurrent(c, r)
          /\ rec' = [rec EXCEPT ![r].readSequence = chan[c].delivered]
    /\ chan' = [chan EXCEPT ![c].pump = "read"]
    /\ UNCHANGED <<terminals, older, attach, todo, ladder, up, linkVars, phase, steps, faults>>

\* Mutant: the PTY is kept while the transport is asked.
readEof_KeepsPty(c) ==
    /\ chan[c].pump = "read" /\ chan[c].state # "open"
    /\ \E r \in chan[c].rec : PumpCurrent(c, r)
    /\ chan' = [chan EXCEPT ![c].pump = "probe"]
    /\ UNCHANGED <<rec, terminals, older, attach, todo, ladder, up, linkVars, phase, steps, faults>>

\* EOF: in background only the PTY goes; else the transport is asked first.
readEof(c) ==
    /\ chan[c].pump = "read" /\ chan[c].state # "open"
    /\ \E r \in chan[c].rec :
          /\ PumpCurrent(c, r)
          /\ IF phase = "background"
             THEN /\ rec' = [rec EXCEPT ![r].pty = NoChan, ![r].pump = NoChan]
                  /\ chan' = [Closing({c}, chan) EXCEPT ![c].pump = "off"]
             ELSE /\ rec' = [rec EXCEPT ![r].pty = NoChan]
                  /\ chan' = [chan EXCEPT ![c].pump = "probe"]
    /\ UNCHANGED <<terminals, older, attach, todo, ladder, up, linkVars, phase, steps, faults>>

\* transportLost answers; a probe that gets no answer reads as "not lost".
probeLost(c) ==
    /\ chan[c].pump = "probe" /\ (~up \/ ~Alive)
    /\ \E r \in chan[c].rec :
          /\ PumpCurrent(c, r)
          /\ startReconnect([rec EXCEPT ![r].pump = NoChan], [chan EXCEPT ![c].pump = "off"], phase)
    /\ UNCHANGED <<terminals, older, attach, todo, linkVars, steps, faults>>

probeHealthy(c) ==
    /\ chan[c].pump = "probe" /\ up
    /\ \E r \in chan[c].rec :
          /\ PumpCurrent(c, r)
          /\ removeTerminal(r, rec)
    /\ phase' = idlePhase(rec', terminals')
    /\ chan' = [Closing({c}, chan) EXCEPT ![c].pump = "off"]
    /\ UNCHANGED <<attach, todo, ladder, up, linkVars, steps, faults>>

\* A read rejects: the transport's failure, a background closure, or this
\* PTY's own.
readFails(c, transport) ==
    /\ chan[c].pump = "read"
    /\ IF chan[c].state # "open" \/ ~Alive THEN UNCHANGED faults ELSE Fault
    /\ LET chs == [Closing({c}, chan) EXCEPT ![c].pump = "off"]
       IN \E r \in chan[c].rec :
             /\ PumpCurrent(c, r)
             /\ IF phase = "background" \/ transport
                THEN LET rs == [rec EXCEPT ![r].pty = NoChan, ![r].pump = NoChan]
                         ph == IF phase = "background" THEN phase ELSE LiveOr(rs, terminals, "error")
                     IN /\ IF transport THEN startReconnect(rs, chs, ph)
                           ELSE rec' = rs /\ chan' = chs /\ phase' = ph /\ UNCHANGED <<up, ladder>>
                        /\ UNCHANGED <<terminals, older>>
                ELSE /\ removeTerminal(r, rec) /\ chan' = chs
                     /\ phase' = LiveOr(rec', terminals', "error")
                     /\ UNCHANGED <<up, ladder>>
    /\ UNCHANGED <<attach, todo, linkVars, steps>>

-----------------------------------------------------------------------------
\* Background grace.

enterBackground ==
    /\ UserCall /\ up /\ Alive
    /\ grace' = TRUE /\ link' = "timed" /\ phase' = "background"
    /\ UNCHANGED <<rec, terminals, older, attach, todo, chan, ladder, gen, up, faults>>

\* In time, the terminals that lost their PTY meanwhile have ended; too late,
\* the ladder runs.
returnToForeground ==
    /\ UserCall /\ grace
    /\ grace' = FALSE
    /\ IF up /\ Alive
       THEN LET gone == {r \in terminals : rec[r].pty = NoChan /\ rec[r].attaching = NoProc}
            IN /\ terminals' = terminals \ gone /\ older' = Unfocused(gone)
               /\ rec' = Stopped(rec, gone)
               /\ phase' = idlePhase(rec', terminals')
               /\ link' = "up"
               /\ UNCHANGED <<chan, up, ladder>>
       ELSE reconnectAndAttach(rec, chan, phase) /\ UNCHANGED <<terminals, older, link>>
    /\ UNCHANGED <<attach, todo, gen, faults>>

\* The user's Retry.
reconnect ==
    /\ UserCall /\ ladder = "off" /\ phase # "background"
    /\ ~(up /\ phase \in {"connected", "listing", "attaching", "live"})
    /\ reconnectAndAttach(rec, chan, phase)
    /\ UNCHANGED <<terminals, older, attach, todo, linkVars, faults>>

-----------------------------------------------------------------------------
\* The platform.

PlatformStep == UNCHANGED <<rec, terminals, older, attach, todo, ladder, gen, up, grace, phase, steps>>

\* The session behind a channel ends.
sessionEnds(c) ==
    /\ Fault /\ chan[c].state = "open"
    /\ chan' = [chan EXCEPT ![c].state = "ended"]
    /\ PlatformStep /\ UNCHANGED link

\* A closePty takes effect.
ptyClosed(c) ==
    /\ chan[c].closing
    /\ chan' = [chan EXCEPT ![c].state = "closed", ![c].closing = FALSE]
    /\ PlatformStep /\ UNCHANGED <<link, faults>>

\* The link dies, or the scheduled close fires, and its channels with it.
linkEnds(how) ==
    /\ Alive
    /\ IF how = "expired" THEN link = "timed" /\ UNCHANGED faults ELSE Fault
    /\ link' = how
    /\ chan' = [c \in Chans |-> IF chan[c].state = "open" THEN [chan[c] EXCEPT !.state = "ended"]
                                ELSE chan[c]]
    /\ PlatformStep

onConnectionState ==
    /\ link \in {"lost", "expired"}
    /\ link' = "dead"
    /\ IF up /\ link = "lost" THEN startReconnect(rec, chan, phase)
       ELSE IF up /\ phase = "background"
       THEN rec' = Stopped(rec, terminals) /\ up' = FALSE /\ UNCHANGED <<chan, phase, ladder>>
       ELSE UNCHANGED <<rec, chan, up, ladder, phase>>
    /\ UNCHANGED <<terminals, older, attach, todo, gen, grace, steps, faults>>

-----------------------------------------------------------------------------

Init ==
    /\ rec = [r \in Recs |-> Blank]
    /\ terminals = {} /\ older = [r \in Recs |-> {}] /\ todo = {}
    /\ attach = [p \in Procs |-> NoAttach]
    /\ chan = [c \in Chans |-> Shut]
    /\ ladder = "off"
    /\ gen = 1 /\ up = TRUE /\ link = "up" /\ grace = FALSE
    /\ phase = "connected"
    /\ steps = 0 /\ faults = 0

AttachStep(p) ==
    \/ previousClosed(p) \/ staleClosed(p)
    \/ \E c \in Chans : ptyOpened(p, c)
    \/ \E transport \in BOOLEAN : openFails(p, transport)

PumpStep(c) ==
    \/ \E pc \in {"read", "listeners", "probe"} : PumpStale(c, pc)
    \/ readAnswers(c) \/ listenersDone(c) \/ readEof(c) \/ probeLost(c) \/ probeHealthy(c)
    \/ \E transport \in BOOLEAN : readFails(c, transport)

WriteStep(c) ==
    \/ operationRuns(c) \/ operationDone(c)
    \/ \E transport \in BOOLEAN : operationFails(c, transport)

LadderStep ==
    \/ ladderDialled \/ ladderGivesUp \/ ladderListFails \/ ladderNext
    \/ \E gone \in SUBSET terminals : ladderListed(gone)

UserStep ==
    \/ \E s \in Sessions :
          \/ \E c \in Calls : attachSession(c, s)
          \/ detachSession(s) \/ focusSession(s) \/ writeTerminalBytes(s)
    \/ enterBackground \/ returnToForeground \/ reconnect

Next ==
    \/ UserStep \/ LadderStep
    \/ \E p \in Procs : AttachStep(p)
    \/ \E c \in Chans : PumpStep(c) \/ WriteStep(c) \/ sessionEnds(c) \/ ptyClosed(c)
    \/ \E how \in {"lost", "expired"} : linkEnds(how)
    \/ onConnectionState

Spec == Init /\ [][Next]_vars

-----------------------------------------------------------------------------
\* Properties.

TypeOK ==
    /\ rec \in [Recs -> [session : SUBSET Sessions, pty : Chans \cup {NoChan},
                         opener : Procs \cup {NoProc}, pump : Chans \cup {NoChan},
                         attaching : Calls \cup {NoProc}, readSequence : 0..MaxOutput]]
    /\ terminals \subseteq Recs /\ older \in [Recs -> SUBSET terminals] /\ todo \subseteq Recs
    /\ attach \in [Procs -> Attach]
    /\ chan \in [Chans -> Channel]
    /\ ladder \in {"off", "dialing", "listing", "attaching"}
    /\ gen \in Nat /\ up \in BOOLEAN /\ link \in {"up", "timed", "lost", "expired", "dead"}
    /\ grace \in BOOLEAN /\ phase \in Phases
    /\ steps \in Nat /\ faults \in Nat

\* The pool never holds more than maxOpenPtys terminals, one per session, and
\* the order of their focus ranks them one behind the other, so that there is
\* always one to evict (attachSession, leastRecentlyFocused, removeTerminal).
PoolBound ==
    /\ Cardinality(terminals) <= MaxOpen
    /\ \A q, r \in terminals : q # r =>
          /\ rec[q].session # rec[r].session
          /\ q \in older[r] <=> r \notin older[q]
    /\ \A r \in Recs : r \notin older[r] /\ \A q \in older[r] : older[q] \subseteq older[r]

\* A terminal that has a PTY has one pump, at work on that PTY: no terminal
\* freezes and none is fed by an older channel (startPtyPump, pumpToken).
PumpServesPty ==
    \A r \in Recs : LET c == rec[r].pty IN
        c # NoChan => /\ r \in terminals
                      /\ rec[r].pump = c
                      /\ chan[c].pump \in {"read", "listeners"} /\ chan[c].rec = {r}

\* readSequence counts the chunks of the PTY the terminal has now, however
\* late an older pump's listeners finish (startPtyPump, openTerminal).
ReadInStep ==
    \A r \in Recs : LET c == rec[r].pty IN
        c # NoChan => chan[c].delivered = rec[r].readSequence
                                          + (IF chan[c].pump = "listeners" THEN 1 ELSE 0)

\* What the comment of removeTerminal says: a dropped terminal's PTY is the
\* caller's to close, so that a channel open on a usable connection is a
\* terminal's or is being closed.
NoOrphanPty ==
    up /\ Alive =>
        \A c \in Chans : chan[c].state = "open" =>
            chan[c].closing \/ \E r \in terminals : rec[r].pty = c

\* That holds of every channel but those whose terminal the ladder dropped for
\* want of a row in its listing (reattachTerminals): superseded attaches,
\* detaches, evictions, ends and failed writes leak none.
OnlyDroppedOrphans ==
    up /\ Alive =>
        \A c \in Chans : chan[c].state = "open" =>
            chan[c].closing \/ chan[c].dropped \/ \E r \in terminals : rec[r].pty = c

\* The pool accounts for its terminals and for the platform's channels.
PoolAccounts == TypeOK /\ PoolBound /\ OnlyDroppedOrphans

\* After a write of unknown result nothing more reaches that PTY: later input
\* is refused, never sent past a hole (writeTerminalBytes).
NothingAfterFailure ==
    [][\A c \in Chans : chan[c].failed => chan'[c].sent <= chan[c].sent]_vars

=============================================================================
