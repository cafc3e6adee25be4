--------------------------- MODULE LinkCapability ---------------------------
(***************************************************************************)
(* The link transport: exec and PTY channels multiplexed over one outbound *)
(* WebSocket to a relay.  The client's calls, its timers and the frames of *)
(* the host reach it in any order; frames of one socket arrive in order.   *)
(*                                                                         *)
(* A frame is heard in a task of the socket's; a call it answers goes on   *)
(* only when the task is over.  A browser's WebSocket delivers one frame a *)
(* task (OneFramePerTask); the `ws` of the desktop may deliver several.    *)
(*                                                                         *)
(* Bytes are units counted from 1 on each channel.  Frames the client does *)
(* not act on (hello, pong) and frames whose receipt changes nothing here  *)
(* (write, resize, stdin) are left out.                                    *)
(*                                                                         *)
(* Source: src/linkCapability.ts.  The relay and the host's daemon are     *)
(* external.                                                               *)
(***************************************************************************)
EXTENDS Naturals, Sequences

CONSTANTS
    Conns, NoConn,      \* connection ids, each minted by one connect()
    OneFramePerTask,    \* the socket delivers each frame in a task of its own
    MaxChannel,         \* bound: channels of a connection
    MaxUnits,           \* bound: units a process writes
    MaxQueue,           \* bound: frames on their way to the client
    MaxOps,             \* bound: operations of the callers
    MaxFaults           \* bound: drops, refusals, timeouts

ASSUME LinkAssumption == /\ NoConn \notin Conns
                         /\ OneFramePerTask \in BOOLEAN
                         /\ {MaxChannel, MaxUnits, MaxQueue, MaxOps, MaxFaults} \subseteq Nat

Channels == 1 .. MaxChannel

VARIABLES
    dial,       \* the connection whose dial is not settled
    conn,       \* conn[k]: the entry of connections
    call,       \* call[k][ch]: the exec or PTY on a channel
    down, up,   \* frames on their way to the client and to the host
    host,       \* host[k][ch]: the process behind a channel
    ops, faults

vars == <<dial, conn, call, down, up, host, ops, faults>>

\* known: in the connections map.  awaited: connect() reached its await.
\* schedule: scheduledCloseTimer is armed.
NoEntry == [known |-> FALSE, state |-> "none", socket |-> "none", next |-> 1,
            awaited |-> FALSE, schedule |-> FALSE]

\* opening: in opens.  opened: openPty is told and has not gone on.  live: in
\* execs or in ptys.  errCh: the err channel is registered.  end: how the call
\* ended, "eof" once a read was told so.  late: ghost, its open timed out.
NoCall == [kind |-> "none", timed |-> FALSE, opening |-> FALSE, opened |-> FALSE, live |-> FALSE,
           errCh |-> FALSE, out |-> 0, err |-> 0, buf |-> <<>>, got |-> <<>>, eof |-> FALSE,
           waiters |-> 0, end |-> "no", late |-> FALSE]

NoProcess == [state |-> "none", out |-> 0, err |-> 0]

Init == /\ dial = NoConn
        /\ conn = [k \in Conns |-> NoEntry]
        /\ call = [k \in Conns |-> [ch \in Channels |-> NoCall]]
        /\ down = [k \in Conns |-> <<>>]
        /\ up = [k \in Conns |-> <<>>]
        /\ host = [k \in Conns |-> [ch \in Channels |-> NoProcess]]
        /\ ops = 0
        /\ faults = 0

\* A task begins when the last one is over: no opener has yet to go on.
TaskOver == \A k \in Conns, ch \in Channels : ~ call[k][ch].opened

Op == ops < MaxOps /\ ops' = ops + 1
Fault == faults < MaxFaults /\ faults' = faults + 1

-----------------------------------------------------------------------------
(* PTY buffers and the end of calls                                        *)

\* flushPty: each waiting read takes what one read may carry, in order; one
\* that leaves an ended buffer empty is told so.
Flush(c) ==
    LET n == IF c.waiters < Len(c.buf) THEN c.waiters ELSE Len(c.buf)
    IN [c EXCEPT !.got = @ \o SubSeq(c.buf, 1, n),
                 !.buf = SubSeq(@, n + 1, Len(@)),
                 !.waiters = 0,
                 !.end = IF c.waiters > 0 /\ c.eof /\ n = Len(c.buf) THEN "eof" ELSE @]

Eof(c) == IF c.kind = "pty" /\ c.live THEN Flush([c EXCEPT !.eof = TRUE]) ELSE c

SettleExec(c, how) == IF c.kind = "exec" /\ c.live THEN [c EXCEPT !.live = FALSE, !.end = how] ELSE c

\* An open that is refused ends its call.
RejectOpen(c) ==
    LET o == [c EXCEPT !.opening = FALSE]
    IN IF c.kind = "exec" THEN SettleExec(o, "error") ELSE [o EXCEPT !.end = "error"]

\* What losing or closing the connection does to a call.
\* Mutant: waiting reads are left to their own timers.
Abandon_KeepsReads(c) ==
    LET o == IF c.opening THEN RejectOpen(c) ELSE c IN SettleExec([o EXCEPT !.eof = (c.kind = "pty")], "error")
Abandon(c) == LET o == IF c.opening THEN RejectOpen(c) ELSE c IN Eof(SettleExec(o, "error"))

\* The client closes the socket and abandons the calls.  What is already on
\* its way is still heard; then the socket says it is closed.
CloseEntry(k, state) ==
    /\ conn' = [conn EXCEPT ![k].socket = IF @ = "open" THEN "closing" ELSE @,
                            ![k].schedule = FALSE,
                            ![k].state = state]
    /\ call' = [call EXCEPT ![k] = [ch \in Channels |-> Abandon(call[k][ch])]]

SocketEnds(k, frames) ==
    IF conn[k].socket = "open" THEN Append(frames, [t |-> "closed", ch |-> 0]) ELSE frames

\* loseConnection: only a connected entry is lost.
LoseConnection(k, frames) ==
    IF conn[k].state = "connected"
      THEN CloseEntry(k, "lost") /\ down' = [down EXCEPT ![k] = SocketEnds(k, frames)]
      ELSE UNCHANGED <<conn, call>> /\ down' = [down EXCEPT ![k] = frames]

-----------------------------------------------------------------------------
(* Dialling                                                                *)

\* The controller dials again once it has given the earlier connection up.
GivenUp == \A k \in Conns : conn[k].state = "connected" => ~ conn[k].awaited

Connect(k) ==
    /\ TaskOver
    /\ Op
    /\ GivenUp
    /\ dial = NoConn
    /\ conn[k] = NoEntry
    /\ dial' = k
    /\ conn' = [conn EXCEPT ![k] = [NoEntry EXCEPT !.known = TRUE, !.state = "connected",
                                                   !.socket = "open", !.awaited = TRUE]]
    /\ UNCHANGED <<call, down, up, host, faults>>

\* The socket factory throws: connect() ends there, before its own cleanup.
ConnectThrows(k) ==
    /\ TaskOver
    /\ Fault
    /\ GivenUp
    /\ dial = NoConn
    /\ conn[k] = NoEntry
    /\ dial' = k
    /\ conn' = [conn EXCEPT ![k] = [NoEntry EXCEPT !.known = TRUE, !.state = "connected"]]
    /\ UNCHANGED <<call, down, up, host, ops>>

\* settleDial with an error, and the catch of the connect() that awaits it.
FailDial(k) ==
    /\ dial' = NoConn
    /\ conn' = IF conn[k].awaited THEN [conn EXCEPT ![k].known = FALSE, ![k].state = "closed"]
               ELSE conn

\* The dial times out or is cancelled.
DialTimesOut ==
    /\ TaskOver
    /\ dial # NoConn
    /\ FailDial(dial)
    /\ UNCHANGED <<call, down, up, host, ops, faults>>

-----------------------------------------------------------------------------
(* Frames                                                                  *)

\* A frame of the relay itself, or of the socket.
HearRelay(k, t, rest) ==
    IF t = "ready"
      THEN /\ dial' = IF dial = k THEN NoConn ELSE dial
           /\ down' = [down EXCEPT ![k] = rest]
           /\ UNCHANGED <<conn, call>>
    ELSE IF dial = k
      THEN FailDial(k) /\ down' = [down EXCEPT ![k] = rest] /\ UNCHANGED call
    ELSE IF t = "sockerror"
      THEN down' = [down EXCEPT ![k] = rest] /\ UNCHANGED <<dial, conn, call>>
    ELSE LoseConnection(k, rest) /\ UNCHANGED dial

\* handleControl and handleData for the call on the frame's channel.
\* Mutant: the err channel of the open is not registered.
HearChannel_OneStream(c, f) ==
    CASE f.t = "opened" /\ c.opening -> [c EXCEPT !.opening = FALSE, !.opened = (c.kind = "pty")]
      [] f.t = "exit" -> Eof(SettleExec(c, "exit"))
      [] f.t = "out" /\ c.kind = "exec" /\ c.live -> [c EXCEPT !.out = @ + 1]
      [] OTHER -> c
HearChannel(c, f) ==
    CASE f.t = "opened" /\ c.opening ->
             IF ~ f.ok THEN RejectOpen(c)
             ELSE [c EXCEPT !.opening = FALSE,
                            !.opened = (c.kind = "pty"),
                            !.errCh = (c.kind = "exec" /\ c.live)]
      [] f.t = "exit" -> Eof(SettleExec(c, "exit"))
      [] f.t = "eof" -> Eof(c)
      [] f.t = "ch_error" -> Eof(SettleExec(c, "error"))
      [] f.t = "out" /\ c.kind = "exec" /\ c.live -> [c EXCEPT !.out = @ + 1]
      [] f.t = "err" /\ c.live /\ c.errCh -> [c EXCEPT !.err = @ + 1]
      [] f.t = "out" /\ c.kind = "pty" /\ c.live /\ ~ c.eof -> Flush([c EXCEPT !.buf = Append(@, f.unit)])
      [] OTHER -> c

\* In a task of the frame's own, or in the task of the socket's last frame.
Hear(k) ==
    LET f == Head(down[k])
    IN /\ down[k] # <<>>
       /\ \/ TaskOver
          \/ ~ OneFramePerTask /\ \A j \in Conns \ {k}, ch \in Channels : ~ call[j][ch].opened
       /\ IF f.ch = 0 THEN HearRelay(k, f.t, Tail(down[k]))
          ELSE /\ call' = [call EXCEPT ![k][f.ch] = HearChannel(@, f)]
               /\ down' = [down EXCEPT ![k] = Tail(@)]
               /\ UNCHANGED <<dial, conn>>
       /\ UNCHANGED <<up, host, ops, faults>>

-----------------------------------------------------------------------------
(* Calls                                                                   *)

\* sendTo: a frame sent on a socket that is gone is swallowed.
Send(k, t, ch) ==
    up' = [up EXCEPT ![k] = IF conn[k].socket = "open" THEN Append(@, [t |-> t, ch |-> ch]) ELSE @]

Dialled(k) == conn[k].known /\ dial # k /\ conn[k].awaited

OpenChannel(k, c) ==
    /\ TaskOver
    /\ Op
    /\ Dialled(k)
    /\ conn[k].state = "connected"
    /\ conn[k].next \in Channels
    /\ LET ch == conn[k].next
       IN /\ conn' = [conn EXCEPT ![k].next = ch + 1]
          /\ call' = [call EXCEPT ![k][ch] = [c EXCEPT !.opening = TRUE]]
          /\ Send(k, "open", ch)
    /\ UNCHANGED <<dial, down, host, faults>>

Exec(k, timed) == OpenChannel(k, [NoCall EXCEPT !.kind = "exec", !.live = TRUE, !.timed = timed])

OpenPty(k) == OpenChannel(k, [NoCall EXCEPT !.kind = "pty"])

\* openPty goes on once the task that heard the answer is over, whatever else
\* that task heard.
PtyOpened(k, ch) ==
    /\ call[k][ch].opened
    /\ call' = [call EXCEPT ![k][ch].opened = FALSE, ![k][ch].live = TRUE]
    /\ UNCHANGED <<dial, conn, down, up, host, ops, faults>>

\* The exec's own timer: the host is told to close and the caller is answered.
\* Mutant: the host is not told.
ExecTimesOut_Silent(k, ch) ==
    /\ TaskOver
    /\ call[k][ch].kind = "exec" /\ call[k][ch].live /\ call[k][ch].timed
    /\ call' = [call EXCEPT ![k][ch] = SettleExec(@, "timeout")]
    /\ UNCHANGED <<dial, conn, down, up, host, ops, faults>>
ExecTimesOut(k, ch) ==
    /\ TaskOver
    /\ call[k][ch].kind = "exec" /\ call[k][ch].live /\ call[k][ch].timed
    /\ call' = [call EXCEPT ![k][ch] = SettleExec(@, "timeout")]
    /\ Send(k, "close", ch)
    /\ UNCHANGED <<dial, conn, down, host, ops, faults>>

OpenTimesOut(k, ch) ==
    /\ TaskOver
    /\ call[k][ch].opening
    /\ call' = [call EXCEPT ![k][ch] = [RejectOpen(call[k][ch]) EXCEPT !.late = TRUE]]
    /\ UNCHANGED <<dial, conn, down, up, host, ops, faults>>

\* readPty: buffered bytes, the end, or a wait.
ReadPty(k, ch) ==
    LET c == call[k][ch]
    IN /\ TaskOver
       /\ c.kind = "pty" /\ c.live
       /\ \/ /\ c.buf # <<>>
             /\ call' = [call EXCEPT ![k][ch] = [c EXCEPT !.got = Append(c.got, Head(c.buf)), !.buf = Tail(c.buf)]]
             /\ UNCHANGED ops
          \/ /\ c.buf = <<>> /\ c.eof
             /\ call' = [call EXCEPT ![k][ch].end = "eof"]
             /\ UNCHANGED ops
          \/ /\ c.buf = <<>> /\ ~ c.eof
             /\ Op
             /\ call' = [call EXCEPT ![k][ch].waiters = @ + 1]
       /\ UNCHANGED <<dial, conn, down, up, host, faults>>

ReadTimesOut(k, ch) ==
    /\ TaskOver
    /\ call[k][ch].waiters > 0
    /\ call' = [call EXCEPT ![k][ch].waiters = @ - 1]
    /\ UNCHANGED <<dial, conn, down, up, host, ops, faults>>

ClosePty(k, ch) ==
    /\ TaskOver
    /\ Op
    /\ call[k][ch].kind = "pty" /\ call[k][ch].live
    /\ call' = [call EXCEPT ![k][ch] = [Eof(call[k][ch]) EXCEPT !.live = FALSE]]
    /\ Send(k, "close", ch)
    /\ UNCHANGED <<dial, conn, down, host, faults>>

\* closeConnection: of an entry in any state; also when the schedule is due.
Close(k) ==
    /\ TaskOver
    /\ Dialled(k)
    /\ CloseEntry(k, "closed")
    /\ down' = [down EXCEPT ![k] = SocketEnds(k, @)]
    /\ UNCHANGED <<dial, up, host, faults>>

CloseConnection(k) == Op /\ Close(k)

ScheduleClose(k) ==
    /\ TaskOver
    /\ Op
    /\ Dialled(k)
    /\ conn' = [conn EXCEPT ![k].schedule = TRUE]
    /\ UNCHANGED <<dial, call, down, up, host, faults>>

CancelScheduledClose(k) ==
    /\ TaskOver
    /\ conn[k].schedule
    /\ conn' = [conn EXCEPT ![k].schedule = FALSE]
    /\ UNCHANGED <<dial, call, down, up, host, ops, faults>>

ScheduledClose(k) == conn[k].schedule /\ Close(k) /\ UNCHANGED ops

\* cancelOperation of an exec or a PTY gives the whole connection up.
CancelOperation(k) ==
    /\ TaskOver
    /\ Op
    /\ Dialled(k)
    /\ conn[k].state = "connected"
    /\ LoseConnection(k, down[k])
    /\ UNCHANGED <<dial, up, host, faults>>

-----------------------------------------------------------------------------
(* The relay and the host                                                  *)

Push(k, f) ==
    /\ conn[k].socket = "open"
    /\ Len(down[k]) < MaxQueue
    /\ down' = [down EXCEPT ![k] = Append(@, f)]

RelayReady(k) ==
    /\ dial = k /\ down[k] = <<>>
    /\ Push(k, [t |-> "ready", ch |-> 0])
    /\ UNCHANGED <<dial, conn, call, up, host, ops, faults>>

\* The relay refuses, at the dial or later, or the socket breaks.
RelayEnds(k) ==
    /\ Fault
    /\ \/ Push(k, [t |-> "error", ch |-> 0]) /\ UNCHANGED conn
       \/ /\ conn[k].socket = "open"
          /\ down' = [down EXCEPT ![k] = @ \o <<[t |-> "sockerror", ch |-> 0], [t |-> "closed", ch |-> 0]>>]
          /\ conn' = [conn EXCEPT ![k].socket = "dropped"]
    /\ UNCHANGED <<dial, call, up, host, ops>>

\* The daemon spawns or refuses; a close ends the process.
HostHears(k, ok) ==
    LET f == Head(up[k])
    IN /\ up[k] # <<>>
       /\ up' = [up EXCEPT ![k] = Tail(@)]
       /\ IF f.t = "open"
            THEN /\ Push(k, [t |-> "opened", ch |-> f.ch, ok |-> ok])
                 /\ host' = [host EXCEPT ![k][f.ch].state = IF ok THEN "running" ELSE "none"]
            ELSE /\ ok
                 /\ host' = [host EXCEPT ![k][f.ch].state = IF @ = "running" THEN "gone" ELSE @]
                 /\ UNCHANGED down
       /\ UNCHANGED <<dial, conn, call, ops, faults>>

HostWrites(k, ch, stream) ==
    /\ host[k][ch].state = "running"
    /\ stream = "err" => call[k][ch].kind = "exec"
    /\ host[k][ch].out + host[k][ch].err < MaxUnits
    /\ Push(k, [t |-> stream, ch |-> ch, unit |-> host[k][ch][stream] + 1])
    /\ host' = [host EXCEPT ![k][ch][stream] = @ + 1]
    /\ UNCHANGED <<dial, conn, call, up, ops, faults>>

HostEnds(k, ch, how) ==
    /\ host[k][ch].state = "running"
    /\ how = "eof" => call[k][ch].kind = "pty"
    /\ Push(k, [t |-> how, ch |-> ch])
    /\ host' = [host EXCEPT ![k][ch].state = how]
    /\ UNCHANGED <<dial, conn, call, up, ops, faults>>

-----------------------------------------------------------------------------
Timers(k, ch) == ExecTimesOut(k, ch) \/ OpenTimesOut(k, ch) \/ ReadTimesOut(k, ch)

Next ==
    \/ DialTimesOut
    \/ \E k \in Conns :
         \/ Connect(k) \/ ConnectThrows(k) \/ Hear(k) \/ OpenPty(k)
         \/ CloseConnection(k) \/ ScheduleClose(k) \/ CancelScheduledClose(k) \/ ScheduledClose(k)
         \/ CancelOperation(k) \/ RelayReady(k) \/ RelayEnds(k)
         \/ \E b \in BOOLEAN : Exec(k, b) \/ HostHears(k, b)
         \/ \E ch \in Channels :
              \/ PtyOpened(k, ch) \/ Timers(k, ch) \/ ReadPty(k, ch) \/ ClosePty(k, ch)
              \/ \E s \in {"out", "err"} : HostWrites(k, ch, s)
              \/ \E how \in {"exit", "eof", "ch_error"} : HostEnds(k, ch, how)

Spec == Init /\ [][Next]_vars

-----------------------------------------------------------------------------
(* Properties                                                              *)

\* Nobody waits on a link that is gone: once it is lost or closed every exec,
\* open and read is answered, the next read of a PTY is told the end, and no
\* late frame brings one back.
NobodyWaits ==
    \A k \in Conns : conn[k].state \in {"lost", "closed"} =>
        \A ch \in Channels :
            LET c == call[k][ch]
            IN ~ c.opening /\ c.waiters = 0 /\ (c.live => c.kind = "pty" /\ c.eof)

\* The readers of a PTY together get what the host wrote, in order and nothing
\* twice, and are told of its end only after all of it.
OutputWhole ==
    \A k \in Conns, ch \in Channels :
        LET c == call[k][ch]
        IN c.kind = "pty" =>
             /\ c.got \o c.buf = [i \in 1 .. (Len(c.got) + Len(c.buf)) |-> i]
             /\ c.end = "eof" /\ conn[k].state = "connected" /\ c.live =>
                    c.buf = <<>> /\ Len(c.got) = host[k][ch].out

\* An exec answered with an exit carries all the process wrote, to stdout and
\* to stderr, although the two arrive on different channels.
ExecWhole ==
    \A k \in Conns, ch \in Channels :
        call[k][ch].kind = "exec" /\ call[k][ch].end = "exit" =>
            call[k][ch].out = host[k][ch].out /\ call[k][ch].err = host[k][ch].err

\* What a call returns is what the host sent, on both kinds of channel.
NothingTorn == OutputWhole /\ ExecWhole

\* No process is left running that no call of the client knows of, except
\* behind an open that timed out.
NoStrayProcess ==
    \A k \in Conns, ch \in Channels :
        /\ host[k][ch].state = "running" /\ conn[k].socket = "open"
        => \/ call[k][ch].opening \/ call[k][ch].opened \/ call[k][ch].live \/ call[k][ch].late
           \/ \E i \in 1 .. Len(up[k]) : up[k][i] = [t |-> "close", ch |-> ch]
=============================================================================
