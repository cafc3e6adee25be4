------------------------ MODULE LinkCapabilityProofs ------------------------
(***************************************************************************)
(* Proofs about the link transport: nobody waits on a link that is gone    *)
(* (NobodyWaits), what a call returns is what the host sent (NothingTorn), *)
(* and no process runs behind the client's back (NoStrayProcess), for any  *)
(* number of connections, channels, units and queued frames.               *)
(*                                                                         *)
(* The inductive invariant is a condition on one connection and one of its *)
(* channels: the call, the process and the two queues between them.  A     *)
(* step changes one connection, so each action is checked on the values of *)
(* one channel.  What is under way is described by Carries: the units of a *)
(* stream in the queue run from the last one received to the last one      *)
(* written, and the end of the process comes after all of them.            *)
(*                                                                         *)
(* What is proved of Spec assumes OneFramePerTask: nothing is heard        *)
(* between the answer to an open and its PTY.  With several frames a task  *)
(* two of the three are false (LinkBurstReads.cfg, LinkBurstOutput.cfg).   *)
(* In that gap IInv takes the PTY as registered (Shown); AtRest is what    *)
(* holds when the task is over.                                            *)
(***************************************************************************)
EXTENDS LinkCapability, TLAPS

Kinds == {"none", "exec", "pty"}
HostEnd == {"exit", "eof", "ch_error"}

Entry == [known : BOOLEAN, state : {"none", "connected", "lost", "closed"},
          socket : {"none", "open", "closing", "dropped"}, next : Nat,
          awaited : BOOLEAN, schedule : BOOLEAN]

Call == [kind : Kinds, timed : BOOLEAN, opening : BOOLEAN, opened : BOOLEAN, live : BOOLEAN,
         errCh : BOOLEAN, out : Nat, err : Nat, buf : Seq(Nat), got : Seq(Nat), eof : BOOLEAN,
         waiters : Nat, end : {"no", "exit", "eof", "error", "timeout"}, late : BOOLEAN]

Process == [state : {"none", "running", "gone"} \cup HostEnd, out : Nat, err : Nat]

RelayFrame == [t : {"ready", "error", "sockerror", "closed"}, ch : {0}]
OpenedFrame == [t : {"opened"}, ch : Channels, ok : BOOLEAN]
UnitFrame == [t : {"out", "err"}, ch : Channels, unit : Nat]
EndFrame == [t : HostEnd, ch : Channels]
Frame == RelayFrame \cup OpenedFrame \cup UnitFrame \cup EndFrame
Request == [t : {"open", "close"}, ch : Channels]

TypeOK ==
    /\ dial \in Conns \cup {NoConn}
    /\ conn \in [Conns -> Entry]
    /\ call \in [Conns -> [Channels -> Call]]
    /\ down \in [Conns -> Seq(Frame)]
    /\ up \in [Conns -> Seq(Request)]
    /\ host \in [Conns -> [Channels -> Process]]
    /\ ops \in Nat
    /\ faults \in Nat

-----------------------------------------------------------------------------
(* The inductive invariant, on the values of one channel: e the entry of   *)
(* the connection, c the call, d and u the two queues, h the process.      *)

Gone(e) == e.state \in {"lost", "closed"}

\* A frame of kind t on the channel is in a queue.
Has(q, t, ch) == \E i \in 1 .. Len(q) : q[i].t = t /\ q[i].ch = ch
Silent(q, ch) == \A i \in 1 .. Len(q) : q[i].ch # ch

\* The frames t of the channel in the queue carry the units after `from` up
\* to `to`, in order, and the end of the process comes after them.
Carries(q, ch, t, from, to) ==
    \E f \in [0 .. Len(q) -> Nat] :
        /\ f[0] = from
        /\ f[Len(q)] = to
        /\ \A i \in 1 .. Len(q) :
             /\ q[i].t = t /\ q[i].ch = ch => f[i] = f[i - 1] + 1 /\ q[i].unit = f[i]
             /\ ~ (q[i].t = t /\ q[i].ch = ch) => f[i] = f[i - 1]
             /\ q[i].t \in HostEnd /\ q[i].ch = ch => f[i] = to

\* A call of a link that is gone is answered, and a wait is for more bytes.
Answered(e, c) ==
    /\ Gone(e) => /\ ~ c.opening
                  /\ c.waiters = 0
                  /\ c.kind = "exec" => ~ c.live
                  /\ c.kind = "pty" /\ c.live => c.eof
    /\ c.waiters > 0 => c.kind = "pty" /\ c.live /\ ~ c.eof

\* s holds the units after n, in order: the reads of a PTY together have the
\* units from 1 on, and its buffer those that follow.
Units(s, n) == \A i \in 1 .. Len(s) : s[i] = n + i
InRow(c) == Units(c.got, 0) /\ Units(c.buf, Len(c.got))

\* An open call has had nothing yet; an exec hears both streams once open.
CallShape(c) ==
    /\ ~ c.opened
    /\ c.kind = "none" => c = NoCall
    /\ c.opening => /\ ~ c.eof
                    /\ c.kind = "pty" => ~ c.live /\ c.buf = <<>> /\ c.got = <<>>
    /\ c.kind = "exec" /\ c.live /\ ~ c.opening => c.errCh
    /\ c.errCh => c.kind = "exec"
    /\ c.kind = "pty" => InRow(c)
    /\ c.end = "eof" => c.eof /\ c.buf = <<>>
    /\ c.kind = "exec" /\ c.end = "exit" => ~ c.live

\* A channel not yet given out.
Unused(c, d, u, h, ch) == c = NoCall /\ h = NoProcess /\ Silent(d, ch) /\ Silent(u, ch)

\* One open is asked for, before any close, and the process it starts is
\* heard of only afterwards: the answer first, the end once.
Ordered(c, d, u, h, ch) ==
    /\ \A i, j \in 1 .. Len(u) :
         u[i].t = "open" /\ u[i].ch = ch /\ u[j].ch = ch => i <= j
    /\ Has(u, "open", ch) => h.state = "none" /\ Silent(d, ch)
    /\ h.state = "none" => h.out = 0 /\ h.err = 0
    /\ \A i \in 1 .. Len(d) :
         /\ d[i].t = "opened" /\ d[i].ch = ch => (d[i].ok <=> h.state # "none")
         /\ d[i].t \in HostEnd /\ d[i].ch = ch => h.state \in HostEnd
         /\ c.opening /\ d[i].ch = ch /\ d[i].t # "opened" =>
              \E j \in 1 .. (i - 1) : d[j].t = "opened" /\ d[j].ch = ch
    /\ c.opening /\ h.state # "none" => Has(d, "opened", ch)

\* A process that runs, or is about to, is known of or about to be closed.
Accounted(e, c, u, h, ch) ==
    e.socket = "open" /\ (h.state = "running" \/ Has(u, "open", ch)) =>
        \/ c.live \/ c.late \/ (c.kind = "pty" /\ c.opening)
        \/ Has(u, "close", ch)

\* What the call has received, what is under way and what the host wrote.
Delivered(e, c, d, h, ch) ==
    /\ c.kind = "pty" /\ (c.opening \/ c.live) /\ ~ c.eof =>
         Carries(d, ch, "out", Len(c.got) + Len(c.buf), h.out)
    /\ c.kind = "exec" /\ c.live =>
         Carries(d, ch, "out", c.out, h.out) /\ Carries(d, ch, "err", c.err, h.err)
    /\ c.kind = "pty" /\ c.live /\ c.eof /\ e.state = "connected" =>
         h.state \in HostEnd /\ Len(c.got) + Len(c.buf) = h.out
    /\ c.kind = "exec" /\ c.end = "exit" =>
         h.state \in HostEnd /\ c.out = h.out /\ c.err = h.err

ChanInv(e, c, d, u, h, ch) ==
    /\ Answered(e, c)
    /\ CallShape(c)
    /\ ch >= e.next => Unused(c, d, u, h, ch)
    /\ Ordered(c, d, u, h, ch)
    /\ Accounted(e, c, u, h, ch)
    /\ Delivered(e, c, d, h, ch)

\* A connection that is still dialled has no calls.
DialShape ==
    \A k \in Conns : dial = k \/ ~ conn[k].awaited \/ ~ conn[k].known =>
        conn[k].next = 1

ChannelsOK ==
    \A k \in Conns, ch \in Channels :
        ChanInv(conn[k], call[k][ch], down[k], up[k], host[k][ch], ch)

\* With one frame a task nothing the client does comes between the answer to
\* openPty and its PTY: the invariant takes the PTY for there already.
Shown(c) == IF c.opened THEN [c EXCEPT !.opened = FALSE, !.live = TRUE] ELSE c

SeenOK ==
    \A k \in Conns, ch \in Channels :
        ChanInv(conn[k], Shown(call[k][ch]), down[k], up[k], host[k][ch], ch)

\* The invariant, and what it says when a task is over.
IInv == TypeOK /\ DialShape /\ SeenOK
AtRest == TypeOK /\ DialShape /\ ChannelsOK

-----------------------------------------------------------------------------
(* Types, and the queues                                                   *)

LEMMA FrameFacts ==
    ASSUME NEW x \in Frame
    PROVE  /\ x.ch \in Nat
           /\ x.t \in {"out", "err"} => x.unit \in Nat
           /\ x.ch # 0 => x.ch \in Channels
           /\ x.ch # 0 => x.t \in {"opened", "out", "err"} \cup HostEnd
           /\ x.ch # 0 /\ x.t = "opened" => x.ok \in BOOLEAN
BY LinkAssumption, SMT DEF Frame, RelayFrame, OpenedFrame, UnitFrame, EndFrame, HostEnd, Channels

LEMMA ShownFacts ==
    ASSUME NEW c \in Call
    PROVE  LET r == Shown(c)
           IN  /\ r \in Call
               /\ ~ c.opened => r = c
               /\ r.kind = c.kind /\ r.opening = c.opening /\ r.errCh = c.errCh /\ r.out = c.out
               /\ r.err = c.err /\ r.buf = c.buf /\ r.got = c.got /\ r.eof = c.eof
               /\ r.waiters = c.waiters /\ r.late = c.late /\ r.end = c.end
               /\ r.opened = FALSE /\ (r.live <=> c.live \/ c.opened)
<1> DEFINE o == [c EXCEPT !.opened = FALSE, !.live = TRUE]
<1>1. /\ o \in Call /\ o.opened = FALSE /\ o.live = TRUE
      /\ o.kind = c.kind /\ o.opening = c.opening /\ o.errCh = c.errCh /\ o.out = c.out
      /\ o.err = c.err /\ o.buf = c.buf /\ o.got = c.got /\ o.eof = c.eof
      /\ o.waiters = c.waiters /\ o.late = c.late /\ o.end = c.end
  BY DEF Call
<1>2. Shown(c) = IF c.opened THEN o ELSE c
  BY DEF Shown
<1>3. c.opened \in BOOLEAN
  BY DEF Call
<1> HIDE DEF o
<1>4. CASE c.opened
  BY <1>1, <1>2, <1>4
<1>5. CASE ~ c.opened
  BY <1>2, <1>3, <1>5
<1> QED BY <1>4, <1>5

\* What comes after a queue's head, and what a longer queue holds.
LEMMA TailFacts ==
    ASSUME NEW S, NEW q \in Seq(S), q # <<>>
    PROVE  /\ Tail(q) \in Seq(S)
           /\ Len(q) \in Nat /\ Len(q) > 0
           /\ Len(Tail(q)) = Len(q) - 1
           /\ \A i \in 1 .. Len(Tail(q)) : Tail(q)[i] = q[i + 1]
           /\ Head(q) = q[1]
           /\ Head(q) \in S
OBVIOUS

LEMMA AppendFacts ==
    ASSUME NEW S, NEW q \in Seq(S), NEW x \in S
    PROVE  /\ Append(q, x) \in Seq(S)
           /\ Len(q) \in Nat
           /\ Len(Append(q, x)) = Len(q) + 1
           /\ \A i \in 1 .. Len(q) : Append(q, x)[i] = q[i]
           /\ Append(q, x)[Len(q) + 1] = x
OBVIOUS

LEMMA SumFacts ==
    ASSUME NEW a \in Nat, NEW b \in Nat
    PROVE  /\ a + b \in Nat /\ a + b + 1 \in Nat
           /\ a + (b + 1) = a + b + 1
           /\ (a + 1) + b = a + (b + 1)
           /\ (a + 1) + (b - 1) = a + b
OBVIOUS

LEMMA EmptySum ==
    ASSUME NEW a, NEW b, a = 0, b = 0
    PROVE  a + b = 0
OBVIOUS

\* A queue with nothing of the channel carries nothing.
LEMMA CarriesNone ==
    ASSUME NEW q \in Seq(Frame), NEW ch \in Channels, NEW t, NEW n \in Nat,
           t \in {"out", "err"}, Silent(q, ch)
    PROVE  Carries(q, ch, t, n, n)
<1> DEFINE f == [i \in 0 .. Len(q) |-> n]
<1>1. Len(q) \in Nat
  OBVIOUS
<1>2. f \in [0 .. Len(q) -> Nat]
  OBVIOUS
<1>3. f[0] = n /\ f[Len(q)] = n
  BY <1>1
<1>4. \A i \in 1 .. Len(q) : f[i] = n /\ f[i - 1] = n
  BY <1>1
<1> HIDE DEF f
<1> QED BY <1>2, <1>3, <1>4 DEF Carries, Silent

\* The head of a queue is the next unit, or none; after the end of the
\* process there is none to come.
LEMMA CarriesTail ==
    ASSUME NEW q \in Seq(Frame), NEW ch \in Channels, NEW t, NEW from \in Nat, NEW to \in Nat,
           t \in {"out", "err"}, q # <<>>, Carries(q, ch, t, from, to)
    PROVE  /\ Head(q).t = t /\ Head(q).ch = ch =>
                Head(q).unit = from + 1 /\ Carries(Tail(q), ch, t, from + 1, to)
           /\ ~ (Head(q).t = t /\ Head(q).ch = ch) => Carries(Tail(q), ch, t, from, to)
           /\ Head(q).t \in HostEnd /\ Head(q).ch = ch => from = to
<1>1. PICK f \in [0 .. Len(q) -> Nat] :
        /\ f[0] = from
        /\ f[Len(q)] = to
        /\ \A i \in 1 .. Len(q) :
             /\ q[i].t = t /\ q[i].ch = ch => f[i] = f[i - 1] + 1 /\ q[i].unit = f[i]
             /\ ~ (q[i].t = t /\ q[i].ch = ch) => f[i] = f[i - 1]
             /\ q[i].t \in HostEnd /\ q[i].ch = ch => f[i] = to
  BY DEF Carries
<1> DEFINE g == [i \in 0 .. Len(Tail(q)) |-> f[i + 1]]
<1>2. /\ Tail(q) \in Seq(Frame)
      /\ Len(q) \in Nat /\ Len(q) > 0
      /\ Len(Tail(q)) = Len(q) - 1
      /\ \A i \in 1 .. Len(Tail(q)) : Tail(q)[i] = q[i + 1]
      /\ Head(q) = q[1]
  BY TailFacts
<1>3. g \in [0 .. Len(Tail(q)) -> Nat]
  BY <1>2
<1>4. g[0] = f[1] /\ g[Len(Tail(q))] = to
  BY <1>1, <1>2
<1>5. \A i \in 1 .. Len(Tail(q)) : i + 1 \in 1 .. Len(q) /\ g[i] = f[i + 1] /\ g[i - 1] = f[i]
  BY <1>2
<1>6. 1 \in 1 .. Len(q) /\ 1 - 1 = 0
  BY <1>2
<1>7. \A i \in 1 .. Len(Tail(q)) :
        /\ Tail(q)[i].t = t /\ Tail(q)[i].ch = ch => g[i] = g[i - 1] + 1 /\ Tail(q)[i].unit = g[i]
        /\ ~ (Tail(q)[i].t = t /\ Tail(q)[i].ch = ch) => g[i] = g[i - 1]
        /\ Tail(q)[i].t \in HostEnd /\ Tail(q)[i].ch = ch => g[i] = to
  <2> TAKE i \in 1 .. Len(Tail(q))
  <2>1. i + 1 \in 1 .. Len(q) /\ g[i] = f[i + 1] /\ g[i - 1] = f[i] /\ Tail(q)[i] = q[i + 1]
    BY <1>2, <1>5
  <2>2. (i + 1) - 1 = i
    BY <1>2
  <2> HIDE DEF g
  <2> QED BY <2>1, <2>2, <1>1
<1> HIDE DEF g
<1>8. Carries(Tail(q), ch, t, f[1], to)
  BY <1>3, <1>4, <1>7 DEF Carries
<1>9. /\ q[1].t = t /\ q[1].ch = ch => f[1] = from + 1 /\ q[1].unit = f[1]
      /\ ~ (q[1].t = t /\ q[1].ch = ch) => f[1] = from
      /\ q[1].t \in HostEnd /\ q[1].ch = ch => f[1] = to
  BY <1>1, <1>6
<1>10. q[1].t \in HostEnd => q[1].t # t
  BY DEF HostEnd
<1> QED BY <1>2, <1>8, <1>9, <1>10, Zenon

\* A frame of something else changes nothing of what a queue carries.
LEMMA CarriesMore ==
    ASSUME NEW q \in Seq(Frame), NEW ch \in Channels, NEW t, NEW from \in Nat, NEW to \in Nat,
           t \in {"out", "err"}, Carries(q, ch, t, from, to),
           NEW x \in Frame, ~ (x.t = t /\ x.ch = ch)
    PROVE  Carries(Append(q, x), ch, t, from, to)
<1>1. PICK f \in [0 .. Len(q) -> Nat] :
        /\ f[0] = from
        /\ f[Len(q)] = to
        /\ \A i \in 1 .. Len(q) :
             /\ q[i].t = t /\ q[i].ch = ch => f[i] = f[i - 1] + 1 /\ q[i].unit = f[i]
             /\ ~ (q[i].t = t /\ q[i].ch = ch) => f[i] = f[i - 1]
             /\ q[i].t \in HostEnd /\ q[i].ch = ch => f[i] = to
  BY DEF Carries
<1> DEFINE p == Append(q, x)
           g == [i \in 0 .. Len(p) |-> IF i <= Len(q) THEN f[i] ELSE to]
<1>2. /\ p \in Seq(Frame)
      /\ Len(q) \in Nat /\ Len(p) = Len(q) + 1
      /\ \A i \in 1 .. Len(q) : p[i] = q[i]
      /\ p[Len(q) + 1] = x
  BY AppendFacts
<1> HIDE DEF p
<1>3. g \in [0 .. Len(p) -> Nat] /\ g[0] = from /\ g[Len(p)] = to /\ g[Len(q)] = to
  BY <1>1, <1>2
<1>4. \A i \in 1 .. Len(q) : g[i] = f[i] /\ g[i - 1] = f[i - 1]
  BY <1>2
<1> HIDE DEF g
<1>5. \A i \in 1 .. Len(p) :
        /\ p[i].t = t /\ p[i].ch = ch => g[i] = g[i - 1] + 1 /\ p[i].unit = g[i]
        /\ ~ (p[i].t = t /\ p[i].ch = ch) => g[i] = g[i - 1]
        /\ p[i].t \in HostEnd /\ p[i].ch = ch => g[i] = to
  <2> TAKE i \in 1 .. Len(p)
  <2>1. CASE i \in 1 .. Len(q)
    BY <2>1, <1>1, <1>2, <1>4
  <2>2. CASE i = Len(q) + 1
    <3>1. g[i] = to /\ g[i - 1] = to /\ p[i] = x
      BY <2>2, <1>2, <1>3
    <3> QED BY <3>1
  <2> QED BY <2>1, <2>2, <1>2
<1>6. Carries(p, ch, t, from, to)
  BY <1>3, <1>5 DEF Carries
<1> QED BY <1>6 DEF p

\* The next unit written follows the last one under way.
LEMMA CarriesWrite ==
    ASSUME NEW q \in Seq(Frame), NEW ch \in Channels, NEW t, NEW from \in Nat, NEW to \in Nat,
           t \in {"out", "err"}, Carries(q, ch, t, from, to),
           \A i \in 1 .. Len(q) : ~ (q[i].t \in HostEnd /\ q[i].ch = ch),
           NEW x \in Frame, x.t = t, x.ch = ch, x.unit = to + 1
    PROVE  Carries(Append(q, x), ch, t, from, to + 1)
<1>1. PICK f \in [0 .. Len(q) -> Nat] :
        /\ f[0] = from
        /\ f[Len(q)] = to
        /\ \A i \in 1 .. Len(q) :
             /\ q[i].t = t /\ q[i].ch = ch => f[i] = f[i - 1] + 1 /\ q[i].unit = f[i]
             /\ ~ (q[i].t = t /\ q[i].ch = ch) => f[i] = f[i - 1]
  BY DEF Carries
<1> DEFINE p == Append(q, x)
           g == [i \in 0 .. Len(p) |-> IF i <= Len(q) THEN f[i] ELSE to + 1]
<1>2. /\ p \in Seq(Frame)
      /\ Len(q) \in Nat /\ Len(p) = Len(q) + 1
      /\ \A i \in 1 .. Len(q) : p[i] = q[i]
      /\ p[Len(q) + 1] = x
  BY AppendFacts
<1> HIDE DEF p
<1>3. g \in [0 .. Len(p) -> Nat] /\ g[0] = from /\ g[Len(p)] = to + 1 /\ g[Len(q)] = to
  BY <1>1, <1>2
<1>4. \A i \in 1 .. Len(q) : g[i] = f[i] /\ g[i - 1] = f[i - 1]
  BY <1>2
<1> HIDE DEF g
<1>5. \A i \in 1 .. Len(p) :
        /\ p[i].t = t /\ p[i].ch = ch => g[i] = g[i - 1] + 1 /\ p[i].unit = g[i]
        /\ ~ (p[i].t = t /\ p[i].ch = ch) => g[i] = g[i - 1]
        /\ ~ (p[i].t \in HostEnd /\ p[i].ch = ch)
  <2> TAKE i \in 1 .. Len(p)
  <2>1. CASE i \in 1 .. Len(q)
    BY <2>1, <1>1, <1>2, <1>4
  <2>2. CASE i = Len(q) + 1
    <3>1. g[i] = to + 1 /\ g[i - 1] = to /\ p[i] = x
      BY <2>2, <1>2, <1>3
    <3> QED BY <3>1 DEF HostEnd
  <2> QED BY <2>1, <2>2, <1>2
<1>6. Carries(p, ch, t, from, to + 1)
  BY <1>3, <1>5 DEF Carries
<1> QED BY <1>6 DEF p

-----------------------------------------------------------------------------
(* What the client does to a call                                          *)

\* The first n units of the buffer b go to the reads, which had g.
Moved(g, b, n, g2, b2) == g2 = g \o SubSeq(b, 1, n) /\ b2 = SubSeq(b, n + 1, Len(b))

\* Units move from the buffer to the reads.
LEMMA MoveUnits ==
    ASSUME NEW g \in Seq(Nat), NEW b \in Seq(Nat), NEW n \in 0 .. Len(b),
           Units(g, 0), Units(b, Len(g)),
           NEW g2, NEW b2, Moved(g, b, n, g2, b2)
    PROVE  /\ g2 \in Seq(Nat) /\ b2 \in Seq(Nat)
           /\ Len(g2) = Len(g) + n /\ Len(b2) = Len(b) - n
           /\ Units(g2, 0) /\ Units(b2, Len(g2))
<1> DEFINE pre == SubSeq(b, 1, n)
<1>0. g2 = g \o pre
  BY DEF Moved
<1>a. \A i \in 1 .. Len(g) : g[i] = i
  BY DEF Units
<1>b. \A i \in 1 .. Len(b) : b[i] = Len(g) + i
  BY DEF Units
<1>1. Len(g) \in Nat /\ Len(b) \in Nat /\ n \in Nat /\ n <= Len(b)
  OBVIOUS
<1>2. pre \in Seq(Nat) /\ Len(pre) = n /\ \A i \in 1 .. n : pre[i] = b[i]
  BY <1>1
<1>3. b2 \in Seq(Nat) /\ Len(b2) = Len(b) - n /\ \A i \in 1 .. Len(b2) : b2[i] = b[n + i]
  <2>1. b2 = SubSeq(b, n + 1, Len(b))
    BY DEF Moved
  <2> QED BY <1>1, <2>1
<1> HIDE DEF pre
<1>4. /\ g2 \in Seq(Nat) /\ Len(g2) = Len(g) + n
      /\ \A i \in 1 .. Len(g) : g2[i] = g[i]
      /\ \A i \in 1 .. n : g2[Len(g) + i] = pre[i]
  <2>1. pre \in Seq(Nat)
    BY <1>2
  <2>2. /\ g \o pre \in Seq(Nat)
        /\ Len(g \o pre) = Len(g) + Len(pre)
        /\ \A i \in 1 .. Len(g) : (g \o pre)[i] = g[i]
        /\ \A i \in 1 .. Len(pre) : (g \o pre)[Len(g) + i] = pre[i]
    BY <2>1
  <2> QED BY <2>2, <1>0, <1>2
<1>5. \A i \in 1 .. Len(g2) : g2[i] = i
  <2> TAKE i \in 1 .. Len(g2)
  <2>1. CASE i <= Len(g)
    BY <2>1, <1>a, <1>1, <1>4
  <2>2. CASE i > Len(g)
    <3>1. i - Len(g) \in 1 .. n /\ i - Len(g) \in 1 .. Len(b) /\ i = Len(g) + (i - Len(g))
      BY <2>2, <1>1, <1>4
    <3>2. g2[i] = pre[i - Len(g)] /\ pre[i - Len(g)] = b[i - Len(g)] /\ b[i - Len(g)] = Len(g) + (i - Len(g))
      BY <3>1, <1>b, <1>2, <1>4
    <3> QED BY <3>1, <3>2
  <2> QED BY <2>1, <2>2, <1>1, <1>4
<1>6. \A i \in 1 .. Len(b2) : b2[i] = Len(g2) + i
  <2> TAKE i \in 1 .. Len(b2)
  <2>1. n + i \in 1 .. Len(b) /\ b2[i] = b[n + i]
    BY <1>1, <1>3
  <2>2. b[n + i] = Len(g) + (n + i)
    BY <2>1, <1>b
  <2>3. i \in Nat
    BY <1>1, <1>3
  <2>4. Len(g2) = Len(g) + n
    BY <1>4
  <2>5. Len(g2) + i = Len(g) + (n + i)
    BY ONLY <1>1, <2>3, <2>4
  <2> QED BY ONLY <2>1, <2>2, <2>5
<1>7. Units(g2, 0) /\ Units(b2, Len(g2))
  BY <1>5, <1>6 DEF Units
<1> QED BY <1>3, <1>4, <1>7

\* Flush hands units over and loses none; it tells the end only when all the
\* units are handed over.
LEMMA FlushFacts ==
    ASSUME NEW c \in Call, InRow(c)
    PROVE  LET r == Flush(c)
           IN  /\ r \in Call
               /\ r.kind = c.kind /\ r.opened = c.opened /\ r.opening = c.opening
               /\ r.live = c.live /\ r.errCh = c.errCh
               /\ r.out = c.out /\ r.err = c.err /\ r.eof = c.eof /\ r.late = c.late
               /\ r.waiters = 0
               /\ InRow(r)
               /\ Len(r.got) + Len(r.buf) = Len(c.got) + Len(c.buf)
               /\ c.buf = <<>> => r.buf = <<>> /\ r.got = c.got
               /\ r.end = "eof" => (c.eof /\ r.buf = <<>>) \/ c.end = "eof"
               /\ c.end # "exit" => r.end # "exit"
<1> DEFINE m == IF c.waiters < Len(c.buf) THEN c.waiters ELSE Len(c.buf)
           gs == c.got \o SubSeq(c.buf, 1, m)
           bs == SubSeq(c.buf, m + 1, Len(c.buf))
           e2 == IF c.waiters > 0 /\ c.eof /\ m = Len(c.buf) THEN "eof" ELSE c.end
           r == [c EXCEPT !.got = gs, !.buf = bs, !.waiters = 0, !.end = e2]
<1>1. c.got \in Seq(Nat) /\ c.buf \in Seq(Nat) /\ c.waiters \in Nat
  BY DEF Call
<1>2. Len(c.got) \in Nat /\ Len(c.buf) \in Nat
  BY <1>1
<1>3. m \in 0 .. Len(c.buf)
  BY <1>1, <1>2
<1>4. r = Flush(c)
  BY DEF Flush
<1> HIDE DEF m
<1>5. /\ gs \in Seq(Nat) /\ bs \in Seq(Nat)
      /\ Len(gs) = Len(c.got) + m /\ Len(bs) = Len(c.buf) - m
      /\ Units(gs, 0) /\ Units(bs, Len(gs))
  <2>1. Units(c.got, 0) /\ Units(c.buf, Len(c.got))
    BY DEF InRow
  <2>2. Moved(c.got, c.buf, m, gs, bs)
    BY DEF Moved
  <2> HIDE DEF gs, bs
  <2> QED BY <1>1, <1>3, <2>1, <2>2, MoveUnits
<1>6. m = Len(c.buf) => bs = <<>>
  BY <1>5, <1>2
<1>7. c.buf = <<>> => bs = <<>> /\ gs = c.got
  <2> SUFFICES ASSUME c.buf = <<>>
               PROVE  bs = <<>> /\ gs = c.got
    OBVIOUS
  <2>1. m = 0
    BY <1>3
  <2>2. SubSeq(c.buf, 1, m) = <<>>
    BY <2>1
  <2>3. c.got \o <<>> = c.got
    BY <1>1
  <2> QED BY <1>6, <2>1, <2>2, <2>3
<1> HIDE DEF gs, bs
<1>8. e2 \in {"no", "exit", "eof", "error", "timeout"}
  BY DEF Call
<1>9. e2 = "eof" => (c.eof /\ bs = <<>>) \/ c.end = "eof"
  BY <1>6
<1>10. c.end # "exit" => e2 # "exit"
  OBVIOUS
<1> HIDE DEF e2
<1>11. r \in Call
  BY <1>5, <1>8 DEF Call
<1>12. /\ r.kind = c.kind /\ r.opened = c.opened /\ r.opening = c.opening /\ r.live = c.live
       /\ r.errCh = c.errCh
       /\ r.out = c.out /\ r.err = c.err /\ r.eof = c.eof /\ r.late = c.late
       /\ r.waiters = 0 /\ r.got = gs /\ r.buf = bs /\ r.end = e2
  BY DEF Call
<1> HIDE DEF r
<1>13. InRow(r)
  BY <1>5, <1>12 DEF InRow
<1>14. Len(r.got) + Len(r.buf) = Len(c.got) + Len(c.buf)
  <2>1. m \in Nat
    BY <1>3
  <2>2. Len(gs) + Len(bs) = Len(c.got) + Len(c.buf)
    <3> DEFINE x == Len(c.got)
               y == Len(c.buf)
    <3>1. Len(gs) = x + m /\ Len(bs) = y - m
      BY <1>5
    <3>2. x \in Nat /\ y \in Nat
      BY <1>2
    <3> HIDE DEF x, y
    <3>3. (x + m) + (y - m) = x + y
      BY <2>1, <3>2
    <3> QED BY <3>1, <3>3 DEF x, y
  <2> QED BY <1>12, <2>2
<1> QED BY <1>4, <1>7, <1>9, <1>10, <1>11, <1>12, <1>13, <1>14

LEMMA SettleFacts ==
    ASSUME NEW c \in Call, NEW how \in {"exit", "error", "timeout"}
    PROVE  LET r == SettleExec(c, how)
           IN  /\ r \in Call
               /\ c.kind = "exec" /\ c.live =>
                    /\ r.live = FALSE /\ r.end = how
                    /\ r.kind = c.kind /\ r.opened = c.opened /\ r.opening = c.opening
                    /\ r.errCh = c.errCh
                    /\ r.out = c.out /\ r.err = c.err /\ r.buf = c.buf /\ r.got = c.got
                    /\ r.eof = c.eof /\ r.waiters = c.waiters /\ r.late = c.late
               /\ ~ (c.kind = "exec" /\ c.live) => r = c
<1> DEFINE r == [c EXCEPT !.live = FALSE, !.end = how]
<1>1. r \in Call
  BY DEF Call
<1>2. /\ r.live = FALSE /\ r.end = how
      /\ r.kind = c.kind /\ r.opened = c.opened /\ r.opening = c.opening /\ r.errCh = c.errCh
      /\ r.out = c.out /\ r.err = c.err /\ r.buf = c.buf /\ r.got = c.got
      /\ r.eof = c.eof /\ r.waiters = c.waiters /\ r.late = c.late
  BY DEF Call
<1>3. c.kind = "exec" /\ c.live => SettleExec(c, how) = r
  BY DEF SettleExec
<1>4. ~ (c.kind = "exec" /\ c.live) => SettleExec(c, how) = c
  BY DEF SettleExec
<1> HIDE DEF r
<1> QED BY <1>1, <1>2, <1>3, <1>4

LEMMA RejectFacts ==
    ASSUME NEW c \in Call
    PROVE  LET r == RejectOpen(c)
           IN  /\ r \in Call
               /\ r.opening = FALSE
               /\ r.kind = c.kind /\ r.opened = c.opened /\ r.errCh = c.errCh
               /\ r.out = c.out /\ r.err = c.err /\ r.buf = c.buf /\ r.got = c.got
               /\ r.eof = c.eof /\ r.waiters = c.waiters /\ r.late = c.late
               /\ c.kind = "exec" => ~ r.live /\ (r.end = "error" \/ (~ c.live /\ r.end = c.end))
               /\ c.kind # "exec" => r.live = c.live /\ r.end = "error"
<1> DEFINE o == [c EXCEPT !.opening = FALSE]
           p == [o EXCEPT !.end = "error"]
<1>1. o \in Call
  BY DEF Call
<1>2. /\ o.opening = FALSE /\ o.live = c.live /\ o.end = c.end
      /\ o.kind = c.kind /\ o.opened = c.opened /\ o.errCh = c.errCh
      /\ o.out = c.out /\ o.err = c.err /\ o.buf = c.buf /\ o.got = c.got
      /\ o.eof = c.eof /\ o.waiters = c.waiters /\ o.late = c.late
  BY DEF Call
<1>3. RejectOpen(c) = IF c.kind = "exec" THEN SettleExec(o, "error") ELSE p
  BY DEF RejectOpen
<1> HIDE DEF o
<1>4. p \in Call
  BY <1>1 DEF Call
<1>5. /\ p.opening = o.opening /\ p.live = o.live /\ p.end = "error"
      /\ p.kind = o.kind /\ p.opened = o.opened /\ p.errCh = o.errCh
      /\ p.out = o.out /\ p.err = o.err /\ p.buf = o.buf /\ p.got = o.got
      /\ p.eof = o.eof /\ p.waiters = o.waiters /\ p.late = o.late
  BY <1>1 DEF Call
<1> HIDE DEF p
<1>6. CASE c.kind = "exec"
  <2> DEFINE r == SettleExec(o, "error")
  <2>1. /\ r \in Call
        /\ o.kind = "exec" /\ o.live =>
             /\ r.live = FALSE /\ r.end = "error"
             /\ r.kind = o.kind /\ r.opened = o.opened /\ r.opening = o.opening /\ r.errCh = o.errCh
             /\ r.out = o.out /\ r.err = o.err /\ r.buf = o.buf /\ r.got = o.got
             /\ r.eof = o.eof /\ r.waiters = o.waiters /\ r.late = o.late
        /\ ~ (o.kind = "exec" /\ o.live) => r = o
    BY <1>1, SettleFacts
  <2>2. r = RejectOpen(c)
    BY <1>3, <1>6
  <2> HIDE DEF r
  <2>3. CASE o.live
    BY <2>1, <2>2, <2>3, <1>2, <1>6
  <2>4. CASE ~ o.live
    BY <2>1, <2>2, <2>4, <1>2, <1>6
  <2> QED BY <2>3, <2>4
<1>7. CASE c.kind # "exec"
  BY <1>2, <1>3, <1>4, <1>5, <1>7
<1> QED BY <1>6, <1>7

LEMMA EofFacts ==
    ASSUME NEW c \in Call, c.kind = "pty" => InRow(c)
    PROVE  LET r == Eof(c)
           IN  /\ r \in Call
               /\ c.kind = "pty" /\ c.live =>
                    /\ r.eof = TRUE /\ r.waiters = 0
                    /\ r.kind = c.kind /\ r.opened = c.opened /\ r.opening = c.opening
                    /\ r.live = c.live
                    /\ r.errCh = c.errCh /\ r.out = c.out /\ r.err = c.err /\ r.late = c.late
                    /\ InRow(r)
                    /\ Len(r.got) + Len(r.buf) = Len(c.got) + Len(c.buf)
                    /\ c.buf = <<>> => r.buf = <<>> /\ r.got = c.got
                    /\ r.end = "eof" => r.buf = <<>> \/ c.end = "eof"
               /\ ~ (c.kind = "pty" /\ c.live) => r = c
<1>1. CASE ~ (c.kind = "pty" /\ c.live)
  BY <1>1 DEF Eof
<1>2. CASE c.kind = "pty" /\ c.live
  <2> DEFINE o == [c EXCEPT !.eof = TRUE]
             r == Flush(o)
  <2>1. o \in Call
    BY DEF Call
  <2>2. /\ o.eof = TRUE
        /\ o.kind = c.kind /\ o.opened = c.opened /\ o.opening = c.opening /\ o.live = c.live
        /\ o.errCh = c.errCh
        /\ o.out = c.out /\ o.err = c.err /\ o.buf = c.buf /\ o.got = c.got
        /\ o.waiters = c.waiters /\ o.late = c.late /\ o.end = c.end
    BY DEF Call
  <2>3. Eof(c) = r
    BY <1>2 DEF Eof
  <2> HIDE DEF o
  <2>4. InRow(o)
    BY <1>2, <2>2 DEF InRow
  <2>5. /\ r \in Call
        /\ r.kind = o.kind /\ r.opened = o.opened /\ r.opening = o.opening /\ r.live = o.live
        /\ r.errCh = o.errCh
        /\ r.out = o.out /\ r.err = o.err /\ r.eof = o.eof /\ r.late = o.late
        /\ r.waiters = 0
        /\ InRow(r)
        /\ Len(r.got) + Len(r.buf) = Len(o.got) + Len(o.buf)
        /\ o.buf = <<>> => r.buf = <<>> /\ r.got = o.got
        /\ r.end = "eof" => (o.eof /\ r.buf = <<>>) \/ o.end = "eof"
    BY <2>1, <2>4, FlushFacts
  <2> HIDE DEF r
  <2> QED BY <1>2, <2>2, <2>3, <2>5
<1> QED BY <1>1, <1>2

\* Nothing of an abandoned call is left waiting.
LEMMA AbandonFacts ==
    ASSUME NEW c \in Call, CallShape(c), c.waiters > 0 => c.kind = "pty" /\ c.live /\ ~ c.eof
    PROVE  LET r == Abandon(c)
           IN  /\ r \in Call
               /\ r.opening = FALSE /\ r.waiters = 0 /\ r.kind = c.kind /\ r.opened = c.opened
               /\ c.kind = "exec" => ~ r.live
               /\ c.kind = "pty" /\ r.live => r.eof
               /\ c.kind = "none" => r = c
               /\ r.late = c.late /\ r.out = c.out /\ r.err = c.err
               /\ r.end = "exit" => c.kind = "pty" \/ c.end = "exit"
               /\ CallShape(r)
<1> DEFINE o == IF c.opening THEN RejectOpen(c) ELSE c
           p == SettleExec(o, "error")
           r == Eof(p)
<1>0. Abandon(c) = r
  BY DEF Abandon
<1>1. /\ o \in Call
      /\ o.opening = FALSE
      /\ o.kind = c.kind /\ o.opened = c.opened /\ o.errCh = c.errCh
      /\ o.out = c.out /\ o.err = c.err /\ o.buf = c.buf /\ o.got = c.got
      /\ o.eof = c.eof /\ o.waiters = c.waiters /\ o.late = c.late
      /\ o.live => c.live
      /\ c.kind = "none" => o = c
      /\ o.end = "exit" => c.end = "exit"
      /\ o.end = "eof" => c.end = "eof"
      /\ c.kind = "pty" => o.live = c.live
  <2>1. CASE c.opening
    <3>1. c.kind # "none"
      BY <2>1 DEF CallShape, NoCall
    <3>2. o = RejectOpen(c)
      BY <2>1
    <3> HIDE DEF o
    <3>3. /\ o \in Call
          /\ o.opening = FALSE
          /\ o.kind = c.kind /\ o.opened = c.opened /\ o.errCh = c.errCh
          /\ o.out = c.out /\ o.err = c.err /\ o.buf = c.buf /\ o.got = c.got
          /\ o.eof = c.eof /\ o.waiters = c.waiters /\ o.late = c.late
          /\ c.kind = "exec" => ~ o.live /\ (o.end = "error" \/ (~ c.live /\ o.end = c.end))
          /\ c.kind # "exec" => o.live = c.live /\ o.end = "error"
      BY <3>2, RejectFacts
    <3> QED BY <3>1, <3>3
  <2>2. CASE ~ c.opening
    <3>1. o = c
      BY <2>2
    <3>2. c.opening = FALSE
      BY <2>2 DEF Call
    <3> QED BY <3>1, <3>2
  <2> QED BY <2>1, <2>2
<1> HIDE DEF o
<1>2. /\ p \in Call
      /\ p.opening = FALSE
      /\ p.kind = c.kind /\ p.opened = c.opened /\ p.errCh = c.errCh
      /\ p.out = c.out /\ p.err = c.err /\ p.buf = c.buf /\ p.got = c.got
      /\ p.eof = c.eof /\ p.waiters = c.waiters /\ p.late = c.late
      /\ c.kind = "exec" => ~ p.live
      /\ c.kind = "none" => p = c
      /\ p.end = "exit" => c.end = "exit"
      /\ p.end = "eof" => c.end = "eof"
      /\ c.kind = "pty" => p.live = c.live
  <2>1. /\ p \in Call
        /\ o.kind = "exec" /\ o.live =>
             /\ p.live = FALSE /\ p.end = "error"
             /\ p.kind = o.kind /\ p.opened = o.opened /\ p.opening = o.opening /\ p.errCh = o.errCh
             /\ p.out = o.out /\ p.err = o.err /\ p.buf = o.buf /\ p.got = o.got
             /\ p.eof = o.eof /\ p.waiters = o.waiters /\ p.late = o.late
        /\ ~ (o.kind = "exec" /\ o.live) => p = o
    BY <1>1, SettleFacts
  <2> HIDE DEF p
  <2>2. CASE o.kind = "exec" /\ o.live
    BY <1>1, <2>1, <2>2
  <2>3. CASE ~ (o.kind = "exec" /\ o.live)
    BY <1>1, <2>1, <2>3
  <2> QED BY <2>2, <2>3
<1> HIDE DEF p
<1>3. c.kind = "pty" => InRow(p)
  BY <1>2 DEF CallShape, InRow
<1>4. /\ r \in Call
      /\ p.kind = "pty" /\ p.live =>
           /\ r.eof = TRUE /\ r.waiters = 0
           /\ r.kind = p.kind /\ r.opened = p.opened /\ r.opening = p.opening /\ r.live = p.live
           /\ r.errCh = p.errCh /\ r.out = p.out /\ r.err = p.err /\ r.late = p.late
           /\ InRow(r)
           /\ p.buf = <<>> => r.buf = <<>> /\ r.got = p.got
           /\ r.end = "eof" => r.buf = <<>> \/ p.end = "eof"
      /\ ~ (p.kind = "pty" /\ p.live) => r = p
  BY <1>2, <1>3, EofFacts
<1> HIDE DEF r
<1>5. CASE p.kind = "pty" /\ p.live
  <2>1. c.kind = "pty"
    BY <1>2, <1>5
  <2>2. CallShape(r)
    <3>1. r.end = "eof" => r.buf = <<>>
      BY <1>2, <1>4, <1>5 DEF CallShape
    <3> QED BY <1>2, <1>4, <1>5, <3>1 DEF CallShape
  <2> QED BY <1>0, <1>2, <1>4, <1>5, <2>1, <2>2
<1>6. CASE ~ (p.kind = "pty" /\ p.live)
  <2>1. r = p
    BY <1>4, <1>6
  <2>2. c.waiters = 0 /\ p.waiters = 0
    <3>1. ~ (c.waiters > 0)
      BY <1>2, <1>6
    <3> QED BY <3>1, <1>2 DEF Call
  <2>3. CallShape(r)
    BY <1>2, <1>3, <2>1 DEF CallShape
  <2> QED BY <1>0, <1>2, <1>6, <2>1, <2>2, <2>3
<1> QED BY <1>5, <1>6

-----------------------------------------------------------------------------
(* What is heard on a channel                                              *)

\* The head of the queue to the client, of the channel itself.
LEMMA OrderedHead ==
    ASSUME NEW c \in Call, NEW d \in Seq(Frame), NEW u \in Seq(Request), NEW h \in Process,
           NEW ch \in Channels, Ordered(c, d, u, h, ch), d # <<>>, Head(d).ch = ch
    PROVE  /\ Head(d).t = "opened" => (Head(d).ok <=> h.state # "none")
           /\ Head(d).t \in HostEnd => h.state \in HostEnd
           /\ c.opening => Head(d).t = "opened"
           /\ ~ Has(u, "open", ch)
<1>1. Len(d) \in Nat /\ Len(d) > 0 /\ Head(d) = d[1] /\ 1 \in 1 .. Len(d) /\ 1 .. (1 - 1) = {}
  BY TailFacts
<1> QED BY <1>1 DEF Ordered, Silent

\* What stays in order when the head is heard.
LEMMA OrderedTail ==
    ASSUME NEW c \in Call, NEW d \in Seq(Frame), NEW u \in Seq(Request), NEW h \in Process,
           NEW ch \in Channels, Ordered(c, d, u, h, ch), d # <<>>, NEW r \in Call,
           r.opening => c.opening /\ ~ (Head(d).t = "opened" /\ Head(d).ch = ch)
    PROVE  Ordered(r, Tail(d), u, h, ch)
<1> DEFINE q == Tail(d)
<1>1. /\ q \in Seq(Frame)
      /\ Len(d) \in Nat /\ Len(d) > 0
      /\ Len(q) = Len(d) - 1
      /\ \A i \in 1 .. Len(q) : q[i] = d[i + 1]
      /\ Head(d) = d[1]
  BY TailFacts
<1> HIDE DEF q
<1>2. \A i \in 1 .. Len(q) : i + 1 \in 1 .. Len(d)
  BY <1>1
<1>3. Silent(d, ch) => Silent(q, ch)
  BY <1>1, <1>2 DEF Silent
<1>4. ASSUME NEW i \in 1 .. Len(q)
      PROVE  /\ q[i].t = "opened" /\ q[i].ch = ch => (q[i].ok <=> h.state # "none")
             /\ q[i].t \in HostEnd /\ q[i].ch = ch => h.state \in HostEnd
  BY <1>1, <1>2 DEF Ordered
<1>5. ASSUME NEW i \in 1 .. Len(q), r.opening, q[i].ch = ch, q[i].t # "opened"
      PROVE  \E j \in 1 .. (i - 1) : q[j].t = "opened" /\ q[j].ch = ch
  <2>1. d[i + 1].ch = ch /\ d[i + 1].t # "opened" /\ c.opening
    BY <1>1, <1>5
  <2>2. PICK j \in 1 .. ((i + 1) - 1) : d[j].t = "opened" /\ d[j].ch = ch
    BY <1>2, <2>1 DEF Ordered
  <2>3. j # 1
    BY <1>1, <1>5, <2>2
  <2>4. j - 1 \in 1 .. (i - 1) /\ j - 1 \in 1 .. Len(q) /\ (j - 1) + 1 = j
    BY <1>1, <2>3
  <2>5. q[j - 1] = d[j]
    BY <1>1, <2>4
  <2> QED BY <2>2, <2>4, <2>5
<1>6. ASSUME r.opening, h.state # "none"
      PROVE  Has(q, "opened", ch)
  <2>1. PICK j \in 1 .. Len(d) : d[j].t = "opened" /\ d[j].ch = ch
    BY <1>6 DEF Ordered, Has
  <2>2. j # 1
    BY <1>1, <1>6, <2>1
  <2>3. j - 1 \in 1 .. Len(q) /\ (j - 1) + 1 = j
    BY <1>1, <2>2
  <2>4. q[j - 1] = d[j]
    BY <1>1, <2>3
  <2> QED BY <2>1, <2>3, <2>4 DEF Has
<1>7. Ordered(r, q, u, h, ch)
  <2>1. \A i \in 1 .. Len(q) :
          /\ q[i].t = "opened" /\ q[i].ch = ch => (q[i].ok <=> h.state # "none")
          /\ q[i].t \in HostEnd /\ q[i].ch = ch => h.state \in HostEnd
          /\ r.opening /\ q[i].ch = ch /\ q[i].t # "opened" =>
               \E j \in 1 .. (i - 1) : q[j].t = "opened" /\ q[j].ch = ch
    BY <1>4, <1>5
  <2>2. /\ \A i, j \in 1 .. Len(u) :
             u[i].t = "open" /\ u[i].ch = ch /\ u[j].ch = ch => i <= j
        /\ Has(u, "open", ch) => h.state = "none" /\ Silent(d, ch)
        /\ h.state = "none" => h.out = 0 /\ h.err = 0
    BY DEF Ordered
  <2> QED BY <2>1, <2>2, <1>3, <1>6 DEF Ordered
<1> QED BY <1>7 DEF q

LEMMA SilentTail ==
    ASSUME NEW d \in Seq(Frame), d # <<>>, NEW ch, Silent(d, ch)
    PROVE  Silent(Tail(d), ch) /\ Head(d).ch # ch
<1>1. /\ Len(d) \in Nat /\ Len(d) > 0
      /\ Len(Tail(d)) = Len(d) - 1
      /\ \A i \in 1 .. Len(Tail(d)) : Tail(d)[i] = d[i + 1]
      /\ Head(d) = d[1]
  BY TailFacts
<1>2. \A i \in 1 .. Len(Tail(d)) : i + 1 \in 1 .. Len(d)
  BY <1>1
<1> QED BY <1>1, <1>2 DEF Silent

\* What is left to check of a call that has heard the head of the queue.
LEMMA TailKeeps ==
    ASSUME NEW e \in Entry, NEW c \in Call, NEW d \in Seq(Frame), NEW u \in Seq(Request),
           NEW h \in Process, NEW ch \in Channels, ChanInv(e, c, d, u, h, ch), d # <<>>,
           NEW r \in Call,
           r.opening => c.opening /\ ~ (Head(d).t = "opened" /\ Head(d).ch = ch),
           r = c \/ Head(d).ch = ch,
           Answered(e, r), CallShape(r), Accounted(e, r, u, h, ch), Delivered(e, r, Tail(d), h, ch)
    PROVE  ChanInv(e, r, Tail(d), u, h, ch)
<1>1. Ordered(r, Tail(d), u, h, ch)
  BY OrderedTail DEF ChanInv
<1>2. ch >= e.next => Unused(r, Tail(d), u, h, ch)
  BY SilentTail DEF ChanInv, Unused
<1> QED BY <1>1, <1>2 DEF ChanInv

\* A frame the call does not act on is skipped.
LEMMA SkipKeeps ==
    ASSUME NEW e \in Entry, NEW c \in Call, NEW d \in Seq(Frame), NEW u \in Seq(Request),
           NEW h \in Process, NEW ch \in Channels, ChanInv(e, c, d, u, h, ch), d # <<>>,
           Head(d).ch = ch =>
               /\ Head(d).t = "opened" => ~ c.opening
               /\ Head(d).t = "out" => ~ c.live \/ (c.kind = "pty" /\ c.eof)
               /\ Head(d).t = "err" => ~ (c.kind = "exec" /\ c.live)
    PROVE  ChanInv(e, c, Tail(d), u, h, ch)
<1>1. c.opening => ~ (Head(d).t = "opened" /\ Head(d).ch = ch)
  OBVIOUS
<1>2. Delivered(e, c, d, h, ch) /\ Ordered(c, d, u, h, ch)
  BY DEF ChanInv
<1>3. c.opening /\ Head(d).ch = ch => FALSE
  BY <1>1, <1>2, OrderedHead
<1>4. h.out \in Nat /\ h.err \in Nat /\ c.out \in Nat /\ c.err \in Nat /\ Len(c.got) + Len(c.buf) \in Nat
  BY DEF Process, Call
<1>5. ASSUME c.kind = "pty", c.opening \/ c.live, ~ c.eof
      PROVE  Carries(Tail(d), ch, "out", Len(c.got) + Len(c.buf), h.out)
  <2>1. Carries(d, ch, "out", Len(c.got) + Len(c.buf), h.out)
    BY <1>2, <1>5 DEF Delivered
  <2>2. ~ (Head(d).t = "out" /\ Head(d).ch = ch)
    BY <1>3, <1>5
  <2> QED BY <2>1, <2>2, <1>4, CarriesTail
<1>6. ASSUME c.kind = "exec", c.live
      PROVE  Carries(Tail(d), ch, "out", c.out, h.out) /\ Carries(Tail(d), ch, "err", c.err, h.err)
  <2>1. Carries(d, ch, "out", c.out, h.out) /\ Carries(d, ch, "err", c.err, h.err)
    BY <1>2, <1>6 DEF Delivered
  <2>2. ~ (Head(d).t = "out" /\ Head(d).ch = ch) /\ ~ (Head(d).t = "err" /\ Head(d).ch = ch)
    BY <1>6
  <2> QED BY <2>1, <2>2, <1>4, CarriesTail
<1>7. Delivered(e, c, Tail(d), h, ch)
  BY <1>2, <1>5, <1>6 DEF Delivered
<1>8. Answered(e, c) /\ CallShape(c) /\ Accounted(e, c, u, h, ch)
  BY DEF ChanInv
<1> QED BY <1>1, <1>7, <1>8, TailKeeps

\* The host's answer to an open.
LEMMA OpenedKeeps ==
    ASSUME NEW e \in Entry, NEW c \in Call, NEW d \in Seq(Frame), NEW u \in Seq(Request),
           NEW h \in Process, NEW ch \in Channels, ChanInv(e, c, d, u, h, ch), d # <<>>,
           Head(d).ch = ch, Head(d).t = "opened", c.opening, Head(d).ok
    PROVE  LET o == [c EXCEPT !.opening = FALSE,
                              !.opened = (c.kind = "pty"),
                              !.errCh = (c.kind = "exec" /\ c.live)]
           IN  o \in Call /\ ChanInv(e, Shown(o), Tail(d), u, h, ch)
<1> DEFINE ec == (c.kind = "exec" /\ c.live)
           op == (c.kind = "pty")
           lv == (c.live \/ c.kind = "pty")
           o == [c EXCEPT !.opening = FALSE, !.opened = op, !.errCh = ec]
           r == Shown(o)
<1>0. ec \in BOOLEAN /\ lv \in BOOLEAN /\ op \in BOOLEAN
  OBVIOUS
<1>a. o \in Call
  BY <1>0 DEF Call
<1>b. /\ o.opening = FALSE /\ o.errCh = ec /\ o.opened = op /\ o.live = c.live
      /\ o.kind = c.kind /\ o.out = c.out /\ o.err = c.err /\ o.buf = c.buf /\ o.got = c.got
      /\ o.eof = c.eof /\ o.waiters = c.waiters /\ o.late = c.late /\ o.end = c.end
  BY DEF Call
<1> HIDE DEF o
<1>1. r \in Call
  BY <1>a, ShownFacts
<1>2. /\ r.opening = FALSE /\ r.errCh = ec /\ (r.live <=> lv)
      /\ r.kind = c.kind /\ ~ r.opened /\ r.out = c.out /\ r.err = c.err /\ r.buf = c.buf
      /\ r.got = c.got /\ r.eof = c.eof /\ r.waiters = c.waiters /\ r.late = c.late /\ r.end = c.end
  <2>1. /\ r.kind = o.kind /\ r.opening = o.opening /\ r.errCh = o.errCh /\ r.out = o.out
        /\ r.err = o.err /\ r.buf = o.buf /\ r.got = o.got /\ r.eof = o.eof
        /\ r.waiters = o.waiters /\ r.late = o.late /\ r.end = o.end
        /\ r.opened = FALSE /\ (r.live <=> o.live \/ o.opened)
    BY <1>a, ShownFacts
  <2> QED BY <1>b, <2>1
<1> HIDE DEF r
<1>3. /\ Delivered(e, c, d, h, ch) /\ Ordered(c, d, u, h, ch) /\ Answered(e, c)
      /\ CallShape(c) /\ Accounted(e, c, u, h, ch)
  BY DEF ChanInv
<1>4. c.kind # "none" /\ ~ Gone(e) /\ c.waiters = 0 /\ ~ c.eof
  <2>1. c.kind # "none" /\ ~ c.eof
    BY <1>3 DEF CallShape, NoCall
  <2>2. ~ Gone(e)
    BY <1>3 DEF Answered
  <2>3. ~ (c.waiters > 0)
    BY <1>3 DEF Answered, CallShape
  <2> QED BY <2>1, <2>2, <2>3 DEF Call
<1>5. Answered(e, r)
  BY <1>2, <1>4 DEF Answered
<1>6. CallShape(r)
  <2>1. c.kind \in {"exec", "pty"}
    BY <1>4 DEF Call, Kinds
  <2>2. c.kind = "pty" => InRow(r)
    BY <1>2, <1>3 DEF CallShape, InRow
  <2>3. c.kind = "exec" /\ lv => ec
    OBVIOUS
  <2>4. c.end = "eof" => c.eof /\ c.buf = <<>>
    BY <1>3 DEF CallShape
  <2>5. c.kind = "exec" /\ c.end = "exit" => ~ lv
    BY <1>3 DEF CallShape
  <2>6. ec => c.kind = "exec"
    OBVIOUS
  <2> HIDE DEF ec, lv, op
  <2> QED BY <1>2, <2>1, <2>2, <2>3, <2>4, <2>5, <2>6 DEF CallShape
<1>7. Accounted(e, r, u, h, ch)
  BY <1>2, <1>3 DEF Accounted
<1>8. h.out \in Nat /\ h.err \in Nat /\ c.out \in Nat /\ c.err \in Nat /\ Len(c.got) + Len(c.buf) \in Nat
  BY DEF Process, Call
<1>9. Delivered(e, r, Tail(d), h, ch)
  <2>1. c.kind = "pty" => Carries(Tail(d), ch, "out", Len(c.got) + Len(c.buf), h.out)
    <3>1. c.kind = "pty" => Carries(d, ch, "out", Len(c.got) + Len(c.buf), h.out)
      BY <1>3, <1>4 DEF Delivered
    <3> QED BY <3>1, <1>8, CarriesTail
  <2>2. c.kind = "exec" /\ c.live =>
          Carries(Tail(d), ch, "out", c.out, h.out) /\ Carries(Tail(d), ch, "err", c.err, h.err)
    <3>1. c.kind = "exec" /\ c.live =>
            Carries(d, ch, "out", c.out, h.out) /\ Carries(d, ch, "err", c.err, h.err)
      BY <1>3 DEF Delivered
    <3> QED BY <3>1, <1>8, CarriesTail
  <2>3. c.kind = "exec" /\ lv => c.live
    OBVIOUS
  <2>4. c.kind = "exec" /\ c.end = "exit" => h.state \in HostEnd /\ c.out = h.out /\ c.err = h.err
    BY <1>3 DEF Delivered
  <2> HIDE DEF lv, ec, op
  <2> QED BY <1>2, <1>4, <2>1, <2>2, <2>3, <2>4 DEF Delivered
<1>10. ChanInv(e, r, Tail(d), u, h, ch)
  BY <1>1, <1>2, <1>5, <1>6, <1>7, <1>9, TailKeeps
<1> QED BY <1>a, <1>10 DEF r, o

\* A refused open.
LEMMA RefusedKeeps ==
    ASSUME NEW e \in Entry, NEW c \in Call, NEW d \in Seq(Frame), NEW u \in Seq(Request),
           NEW h \in Process, NEW ch \in Channels, ChanInv(e, c, d, u, h, ch), d # <<>>,
           Head(d).ch = ch, Head(d).t = "opened", c.opening, ~ Head(d).ok
    PROVE  RejectOpen(c) \in Call /\ ChanInv(e, RejectOpen(c), Tail(d), u, h, ch)
<1> DEFINE r == RejectOpen(c)
<1>1. /\ r \in Call
      /\ r.opening = FALSE
      /\ r.kind = c.kind /\ r.opened = c.opened /\ r.errCh = c.errCh
      /\ r.out = c.out /\ r.err = c.err /\ r.buf = c.buf /\ r.got = c.got
      /\ r.eof = c.eof /\ r.waiters = c.waiters /\ r.late = c.late
      /\ c.kind = "exec" => ~ r.live /\ (r.end = "error" \/ (~ c.live /\ r.end = c.end))
      /\ c.kind # "exec" => r.live = c.live /\ r.end = "error"
  BY RejectFacts
<1> HIDE DEF r
<1>2. /\ Delivered(e, c, d, h, ch) /\ Ordered(c, d, u, h, ch) /\ Answered(e, c)
      /\ CallShape(c) /\ Accounted(e, c, u, h, ch)
  BY DEF ChanInv
<1>3. c.kind # "none" /\ ~ Gone(e) /\ c.waiters = 0 /\ ~ c.eof /\ (c.kind = "pty" => ~ c.live)
  <2>1. c.kind # "none" /\ ~ c.eof /\ (c.kind = "pty" => ~ c.live)
    BY <1>2 DEF CallShape, NoCall
  <2>2. ~ Gone(e)
    BY <1>2 DEF Answered
  <2>3. ~ (c.waiters > 0)
    BY <1>2, <2>1 DEF Answered
  <2> QED BY <2>1, <2>2, <2>3 DEF Call
<1>4. c.kind = "exec" \/ c.kind = "pty"
  BY <1>3 DEF Call, Kinds
<1>5. ~ r.live
  BY <1>1, <1>3, <1>4
<1>6. Answered(e, r)
  BY <1>1, <1>3 DEF Answered
<1>7. CallShape(r)
  BY <1>1, <1>2, <1>3, <1>4, <1>5 DEF CallShape, InRow
<1>8. h.state = "none" /\ ~ Has(u, "open", ch)
  BY <1>2, OrderedHead
<1>9. Accounted(e, r, u, h, ch)
  BY <1>8 DEF Accounted
<1>10. Delivered(e, r, Tail(d), h, ch)
  BY <1>1, <1>2, <1>4, <1>5 DEF Delivered
<1>11. ChanInv(e, r, Tail(d), u, h, ch)
  BY <1>1, <1>6, <1>7, <1>9, <1>10, TailKeeps
<1> QED BY <1>1, <1>11 DEF r

\* The end of a PTY: all its units are in the buffer by then.
LEMMA EofKeeps ==
    ASSUME NEW e \in Entry, NEW c \in Call, NEW d \in Seq(Frame), NEW u \in Seq(Request),
           NEW h \in Process, NEW ch \in Channels, ChanInv(e, c, d, u, h, ch), d # <<>>,
           Head(d).ch = ch, Head(d).t \in HostEnd, c.kind = "pty", c.live
    PROVE  Eof(c) \in Call /\ ChanInv(e, Eof(c), Tail(d), u, h, ch)
<1> DEFINE r == Eof(c)
<1>1. /\ Delivered(e, c, d, h, ch) /\ Ordered(c, d, u, h, ch) /\ Answered(e, c)
      /\ CallShape(c) /\ Accounted(e, c, u, h, ch)
  BY DEF ChanInv
<1>2. InRow(c) /\ ~ c.opening /\ ~ c.opened
  BY <1>1 DEF CallShape
<1>3. /\ r \in Call
      /\ r.eof = TRUE /\ r.waiters = 0
      /\ r.kind = c.kind /\ r.opened = c.opened /\ r.opening = c.opening /\ r.live = c.live
      /\ r.errCh = c.errCh /\ r.out = c.out /\ r.err = c.err /\ r.late = c.late
      /\ InRow(r)
      /\ Len(r.got) + Len(r.buf) = Len(c.got) + Len(c.buf)
      /\ c.buf = <<>> => r.buf = <<>> /\ r.got = c.got
      /\ r.end = "eof" => r.buf = <<>> \/ c.end = "eof"
  BY <1>2, EofFacts
<1> HIDE DEF r
<1>4. Answered(e, r)
  BY <1>1, <1>2, <1>3 DEF Answered
<1>5. CallShape(r)
  <2>1. c.end = "eof" => c.buf = <<>>
    BY <1>1 DEF CallShape
  <2>2. r.end = "eof" => r.buf = <<>>
    BY <2>1, <1>3
  <2>3. ~ c.errCh
    BY <1>1 DEF CallShape
  <2> QED BY <1>2, <1>3, <2>2, <2>3 DEF CallShape
<1>6. Accounted(e, r, u, h, ch)
  BY <1>1, <1>2, <1>3 DEF Accounted
<1>7. h.state \in HostEnd
  BY <1>1, OrderedHead
<1>8. e.state = "connected" => Len(c.got) + Len(c.buf) = h.out
  <2>1. CASE c.eof
    BY <1>1, <2>1 DEF Delivered
  <2>2. CASE ~ c.eof
    <3>1. Carries(d, ch, "out", Len(c.got) + Len(c.buf), h.out)
      BY <1>1, <2>2 DEF Delivered
    <3>2. Len(c.got) + Len(c.buf) \in Nat /\ h.out \in Nat
      BY DEF Call, Process
    <3> DEFINE n == Len(c.got) + Len(c.buf)
    <3>3. Carries(d, ch, "out", n, h.out) /\ n \in Nat
      BY <3>1, <3>2
    <3> HIDE DEF n
    <3>4. n = h.out
      BY <3>2, <3>3, CarriesTail
    <3> QED BY <3>4 DEF n
  <2> QED BY <2>1, <2>2
<1>9. Delivered(e, r, Tail(d), h, ch)
  <2>1. e.state = "connected" => Len(r.got) + Len(r.buf) = h.out
    BY <1>3, <1>8
  <2> QED BY <1>2, <1>3, <1>7, <2>1 DEF Delivered
<1>10. ChanInv(e, r, Tail(d), u, h, ch)
  BY <1>2, <1>3, <1>4, <1>5, <1>6, <1>9, TailKeeps
<1> QED BY <1>3, <1>10 DEF r

\* The exit of an exec: both its streams are with the client by then.
LEMMA ExitKeeps ==
    ASSUME NEW e \in Entry, NEW c \in Call, NEW d \in Seq(Frame), NEW u \in Seq(Request),
           NEW h \in Process, NEW ch \in Channels, ChanInv(e, c, d, u, h, ch), d # <<>>,
           Head(d).ch = ch, Head(d).t \in HostEnd, c.kind = "exec", c.live,
           NEW how \in {"exit", "error"}
    PROVE  SettleExec(c, how) \in Call /\ ChanInv(e, SettleExec(c, how), Tail(d), u, h, ch)
<1> DEFINE r == SettleExec(c, how)
<1>1. /\ Delivered(e, c, d, h, ch) /\ Ordered(c, d, u, h, ch) /\ Answered(e, c)
      /\ CallShape(c) /\ Accounted(e, c, u, h, ch)
  BY DEF ChanInv
<1>2. /\ r \in Call
      /\ r.live = FALSE /\ r.end = how
      /\ r.kind = c.kind /\ r.opened = c.opened /\ r.opening = c.opening /\ r.errCh = c.errCh
      /\ r.out = c.out /\ r.err = c.err /\ r.buf = c.buf /\ r.got = c.got
      /\ r.eof = c.eof /\ r.waiters = c.waiters /\ r.late = c.late
  <2>1. how \in {"exit", "error", "timeout"}
    OBVIOUS
  <2> QED BY <2>1, SettleFacts, ZenonT(30)
<1> HIDE DEF r
<1>3. Answered(e, r)
  BY <1>1, <1>2 DEF Answered
<1>4. CallShape(r)
  BY <1>1, <1>2 DEF CallShape
<1>5. h.state \in HostEnd /\ ~ Has(u, "open", ch) /\ ~ c.opening
  <2>1. Head(d).t # "opened"
    BY DEF HostEnd
  <2> QED BY <1>1, <2>1, OrderedHead
<1>6. Accounted(e, r, u, h, ch)
  BY <1>5 DEF Accounted, HostEnd
<1>7. c.out = h.out /\ c.err = h.err
  <2>1. Carries(d, ch, "out", c.out, h.out) /\ Carries(d, ch, "err", c.err, h.err)
    BY <1>1 DEF Delivered
  <2>2. c.out \in Nat /\ c.err \in Nat /\ h.out \in Nat /\ h.err \in Nat
    BY DEF Call, Process
  <2>3. c.out = h.out
    BY <2>1, <2>2, CarriesTail
  <2>4. c.err = h.err
    BY <2>1, <2>2, CarriesTail
  <2> QED BY <2>3, <2>4
<1>8. Delivered(e, r, Tail(d), h, ch)
  BY <1>2, <1>5, <1>7 DEF Delivered
<1>9. ChanInv(e, r, Tail(d), u, h, ch)
  BY <1>2, <1>3, <1>4, <1>5, <1>6, <1>8, TailKeeps
<1> QED BY <1>2, <1>9 DEF r

\* Output of an exec, on either stream.
LEMMA ExecOutputKeeps ==
    ASSUME NEW e \in Entry, NEW c \in Call, NEW d \in Seq(Frame), NEW u \in Seq(Request),
           NEW h \in Process, NEW ch \in Channels, ChanInv(e, c, d, u, h, ch), d # <<>>,
           Head(d).ch = ch, c.kind = "exec", c.live
    PROVE  /\ Head(d).t = "out" => LET r == [c EXCEPT !.out = @ + 1]
                                   IN  r \in Call /\ ChanInv(e, r, Tail(d), u, h, ch)
           /\ Head(d).t = "err" => LET r == [c EXCEPT !.err = @ + 1]
                                   IN  r \in Call /\ ChanInv(e, r, Tail(d), u, h, ch)
<1>1. /\ Delivered(e, c, d, h, ch) /\ Ordered(c, d, u, h, ch) /\ Answered(e, c)
      /\ CallShape(c) /\ Accounted(e, c, u, h, ch)
  BY DEF ChanInv
<1>2. c.out \in Nat /\ c.err \in Nat /\ h.out \in Nat /\ h.err \in Nat
  BY DEF Call, Process
<1>3. Carries(d, ch, "out", c.out, h.out) /\ Carries(d, ch, "err", c.err, h.err)
  BY <1>1 DEF Delivered
<1>4. c.opening => Head(d).t = "opened"
  BY <1>1, OrderedHead
<1>5. c.end # "exit"
  BY <1>1 DEF CallShape
<1>6. ASSUME Head(d).t = "out"
      PROVE  LET r == [c EXCEPT !.out = @ + 1] IN r \in Call /\ ChanInv(e, r, Tail(d), u, h, ch)
  <2> DEFINE r == [c EXCEPT !.out = @ + 1]
  <2>a. c.out + 1 \in Nat /\ c.err + 1 \in Nat
    BY <1>2
  <2>1. r \in Call
    BY <2>a DEF Call
  <2>2. /\ r.out = c.out + 1 /\ r.err = c.err
        /\ r.live = c.live /\ r.end = c.end
        /\ r.kind = c.kind /\ r.opened = c.opened /\ r.opening = c.opening /\ r.errCh = c.errCh
        /\ r.buf = c.buf /\ r.got = c.got
        /\ r.eof = c.eof /\ r.waiters = c.waiters /\ r.late = c.late
    BY DEF Call
  <2> HIDE DEF r
  <2>3. Answered(e, r)
    BY <1>1, <2>2 DEF Answered
  <2>4. CallShape(r)
    BY <1>1, <2>2 DEF CallShape
  <2>5. Accounted(e, r, u, h, ch)
    BY <1>1, <2>2 DEF Accounted
  <2>6. Carries(Tail(d), ch, "out", c.out + 1, h.out)
    BY <1>2, <1>3, <1>6, CarriesTail
  <2>7. Carries(Tail(d), ch, "err", c.err, h.err)
    BY <1>2, <1>3, <1>6, CarriesTail
  <2>8. Delivered(e, r, Tail(d), h, ch)
    BY <1>5, <2>2, <2>6, <2>7 DEF Delivered
  <2>9. ChanInv(e, r, Tail(d), u, h, ch)
    BY <1>4, <1>6, <2>1, <2>2, <2>3, <2>4, <2>5, <2>8, TailKeeps
  <2> QED BY <2>1, <2>9 DEF r
<1>7. ASSUME Head(d).t = "err"
      PROVE  LET r == [c EXCEPT !.err = @ + 1] IN r \in Call /\ ChanInv(e, r, Tail(d), u, h, ch)
  <2> DEFINE r == [c EXCEPT !.err = @ + 1]
  <2>a. c.out + 1 \in Nat /\ c.err + 1 \in Nat
    BY <1>2
  <2>1. r \in Call
    BY <2>a DEF Call
  <2>2. /\ r.out = c.out /\ r.err = c.err + 1
        /\ r.live = c.live /\ r.end = c.end
        /\ r.kind = c.kind /\ r.opened = c.opened /\ r.opening = c.opening /\ r.errCh = c.errCh
        /\ r.buf = c.buf /\ r.got = c.got
        /\ r.eof = c.eof /\ r.waiters = c.waiters /\ r.late = c.late
    BY DEF Call
  <2> HIDE DEF r
  <2>3. Answered(e, r)
    BY <1>1, <2>2 DEF Answered
  <2>4. CallShape(r)
    BY <1>1, <2>2 DEF CallShape
  <2>5. Accounted(e, r, u, h, ch)
    BY <1>1, <2>2 DEF Accounted
  <2>6. Carries(Tail(d), ch, "out", c.out, h.out)
    BY <1>2, <1>3, <1>7, CarriesTail
  <2>7. Carries(Tail(d), ch, "err", c.err + 1, h.err)
    BY <1>2, <1>3, <1>7, CarriesTail
  <2>8. Delivered(e, r, Tail(d), h, ch)
    BY <1>5, <2>2, <2>6, <2>7 DEF Delivered
  <2>9. ChanInv(e, r, Tail(d), u, h, ch)
    BY <1>4, <1>7, <2>1, <2>2, <2>3, <2>4, <2>5, <2>8, TailKeeps
  <2> QED BY <2>1, <2>9 DEF r
<1> QED BY <1>6, <1>7

\* Output of a PTY joins the buffer, and the waiting reads take it.
LEMMA PtyOutputKeeps ==
    ASSUME NEW e \in Entry, NEW c \in Call, NEW d \in Seq(Frame), NEW u \in Seq(Request),
           NEW h \in Process, NEW ch \in Channels, ChanInv(e, c, d, u, h, ch), d # <<>>,
           Head(d).ch = ch, Head(d).t = "out", c.kind = "pty", c.live, ~ c.eof
    PROVE  LET r == Flush([c EXCEPT !.buf = Append(@, Head(d).unit)])
           IN  r \in Call /\ ChanInv(e, r, Tail(d), u, h, ch)
<1> DEFINE x == Head(d).unit
           b == Append(c.buf, x)
           o == [c EXCEPT !.buf = b]
           r == Flush(o)
<1>1. /\ Delivered(e, c, d, h, ch) /\ Ordered(c, d, u, h, ch) /\ Answered(e, c)
      /\ CallShape(c) /\ Accounted(e, c, u, h, ch)
  BY DEF ChanInv
<1>2. Len(c.got) \in Nat /\ Len(c.buf) \in Nat /\ h.out \in Nat /\ c.buf \in Seq(Nat) /\ c.got \in Seq(Nat)
  BY DEF Call, Process
<1>3. Carries(d, ch, "out", Len(c.got) + Len(c.buf), h.out)
  BY <1>1 DEF Delivered
<1>4. /\ x = Len(c.got) + Len(c.buf) + 1
      /\ Carries(Tail(d), ch, "out", Len(c.got) + Len(c.buf) + 1, h.out)
  <2> DEFINE n == Len(c.got) + Len(c.buf)
  <2>1. n \in Nat
    BY <1>2, SumFacts, Zenon
  <2>2. Carries(d, ch, "out", n, h.out)
    BY <1>3
  <2> HIDE DEF n
  <2>3. x = n + 1 /\ Carries(Tail(d), ch, "out", n + 1, h.out)
    BY <1>2, <2>1, <2>2, CarriesTail
  <2> QED BY <2>3 DEF n
<1> HIDE DEF x
<1>5. x \in Nat
  <2>1. Len(c.got) + Len(c.buf) + 1 \in Nat
    BY <1>2, SumFacts, Zenon
  <2> QED BY <1>4, <2>1
<1>6. /\ b \in Seq(Nat) /\ Len(b) = Len(c.buf) + 1
      /\ \A i \in 1 .. Len(c.buf) : b[i] = c.buf[i]
      /\ b[Len(c.buf) + 1] = x
  BY <1>2, <1>5, AppendFacts
<1> HIDE DEF b
<1>7. o \in Call
  BY <1>6 DEF Call
<1>8. /\ o.buf = b /\ o.got = c.got
      /\ o.kind = c.kind /\ o.opened = c.opened /\ o.opening = c.opening /\ o.live = c.live
      /\ o.errCh = c.errCh
      /\ o.out = c.out /\ o.err = c.err /\ o.end = c.end
      /\ o.eof = c.eof /\ o.waiters = c.waiters /\ o.late = c.late
  BY DEF Call
<1> HIDE DEF o
<1>9. InRow(o)
  <2>1. Units(c.got, 0) /\ Units(c.buf, Len(c.got))
    BY <1>1 DEF CallShape, InRow
  <2>2. ASSUME NEW i \in 1 .. Len(b) PROVE b[i] = Len(c.got) + i
    <3>1. CASE i \in 1 .. Len(c.buf)
      BY <1>6, <2>1, <3>1 DEF Units
    <3>2. CASE i = Len(c.buf) + 1
      <4>1. Len(c.got) + Len(c.buf) + 1 = Len(c.got) + (Len(c.buf) + 1)
        BY <1>2, SumFacts, Zenon
      <4> QED BY <1>4, <1>6, <3>2, <4>1
    <3> QED BY <1>2, <1>6, <3>1, <3>2
  <2>3. Units(b, Len(c.got))
    BY <2>2 DEF Units
  <2> QED BY <2>1, <2>3, <1>8 DEF InRow
<1>10. /\ r \in Call
       /\ r.kind = o.kind /\ r.opened = o.opened /\ r.opening = o.opening /\ r.live = o.live
       /\ r.errCh = o.errCh
       /\ r.out = o.out /\ r.err = o.err /\ r.eof = o.eof /\ r.late = o.late
       /\ r.waiters = 0
       /\ InRow(r)
       /\ Len(r.got) + Len(r.buf) = Len(o.got) + Len(o.buf)
       /\ r.end = "eof" => (o.eof /\ r.buf = <<>>) \/ o.end = "eof"
  BY <1>7, <1>9, FlushFacts
<1> HIDE DEF r
<1>11. ~ c.opening /\ ~ c.opened /\ c.end # "eof" /\ ~ c.errCh
  BY <1>1 DEF CallShape
<1>12. Answered(e, r)
  BY <1>1, <1>8, <1>10, <1>11 DEF Answered
<1>13. CallShape(r)
  BY <1>8, <1>10, <1>11 DEF CallShape
<1>14. Accounted(e, r, u, h, ch)
  BY <1>1, <1>8, <1>10, <1>11 DEF Accounted
<1>15. Len(r.got) + Len(r.buf) = Len(c.got) + Len(c.buf) + 1
  <2>1. Len(c.got) + (Len(c.buf) + 1) = Len(c.got) + Len(c.buf) + 1
    BY <1>2, SumFacts, Zenon
  <2> QED BY <2>1, <1>6, <1>8, <1>10
<1>16. Delivered(e, r, Tail(d), h, ch)
  BY <1>4, <1>8, <1>10, <1>15 DEF Delivered
<1>17. ChanInv(e, r, Tail(d), u, h, ch)
  BY <1>8, <1>10, <1>11, <1>12, <1>13, <1>14, <1>16, TailKeeps
<1> QED BY <1>10, <1>17 DEF r, o, b, x

\* Whatever the call hears on its channel.
\* A call that has not to go on is shown as it is.
LEMMA PlainKeeps ==
    ASSUME NEW e, NEW c \in Call, NEW d, NEW u, NEW h, NEW ch, ChanInv(e, c, d, u, h, ch)
    PROVE  ChanInv(e, Shown(c), d, u, h, ch)
<1>1. ~ c.opened
  BY DEF ChanInv, CallShape
<1> QED BY <1>1, ShownFacts

LEMMA HearKeeps ==
    ASSUME NEW e \in Entry, NEW c \in Call, NEW d \in Seq(Frame), NEW u \in Seq(Request),
           NEW h \in Process, NEW ch \in Channels, ChanInv(e, c, d, u, h, ch), d # <<>>,
           Head(d).ch = ch
    PROVE  /\ HearChannel(c, Head(d)) \in Call
           /\ ChanInv(e, Shown(HearChannel(c, Head(d))), Tail(d), u, h, ch)
<1> DEFINE x == Head(d)
           r == HearChannel(c, x)
<1>1. x \in Frame /\ x.ch = ch
  BY TailFacts
<1>2. x.t \in {"opened", "out", "err", "exit", "eof", "ch_error"}
  <2>1. x.ch # 0
    BY <1>1 DEF Channels
  <2> QED BY <1>1, <2>1, FrameFacts DEF HostEnd
<1> HIDE DEF x
<1>3. /\ ChanInv(e, c, d, u, h, ch) /\ CallShape(c) /\ Ordered(c, d, u, h, ch)
  BY DEF ChanInv
<1>4. c.kind \in {"none", "exec", "pty"}
  BY DEF Call, Kinds
<1>5. c.kind = "none" => ~ c.live
  BY <1>3 DEF CallShape, NoCall
<1>6. ASSUME x.t = "opened" /\ c.opening
      PROVE  r \in Call /\ ChanInv(e, Shown(r), Tail(d), u, h, ch)
  <2>1. CASE ~ x.ok
    <3>1. r = RejectOpen(c)
      BY <1>6, <2>1 DEF HearChannel
    <3>2. r \in Call /\ ChanInv(e, r, Tail(d), u, h, ch)
      BY <1>1, <1>6, <2>1, <3>1, RefusedKeeps DEF x
    <3> HIDE DEF r
    <3> QED BY <3>2, PlainKeeps
  <2>2. CASE x.ok
    <3>1. r = [c EXCEPT !.opening = FALSE,
                        !.opened = (c.kind = "pty"),
                        !.errCh = (c.kind = "exec" /\ c.live)]
      BY <1>6, <2>2 DEF HearChannel
    <3>2. LET q == [c EXCEPT !.opening = FALSE,
                             !.opened = (c.kind = "pty"),
                             !.errCh = (c.kind = "exec" /\ c.live)]
          IN  q \in Call /\ ChanInv(e, Shown(q), Tail(d), u, h, ch)
      BY <1>1, <1>6, <2>2, OpenedKeeps, Zenon DEF x
    <3> QED BY <3>1, <3>2
  <2> QED BY <2>1, <2>2
<1>7. ASSUME x.t = "opened" /\ ~ c.opening
      PROVE  r \in Call /\ ChanInv(e, r, Tail(d), u, h, ch)
  <2>1. r = c
    BY <1>7 DEF HearChannel
  <2>2. ChanInv(e, c, Tail(d), u, h, ch)
    BY <1>7, SkipKeeps DEF x
  <2> QED BY <2>1, <2>2 DEF x
<1>8. ASSUME x.t \in {"exit", "ch_error"}
      PROVE  r \in Call /\ ChanInv(e, r, Tail(d), u, h, ch)
  <2>0. x.t \in HostEnd /\ x.t \notin {"opened", "out", "err"}
    BY <1>8 DEF HostEnd
  <2> DEFINE how == IF x.t = "exit" THEN "exit" ELSE "error"
             p == SettleExec(c, how)
  <2>1. how \in {"exit", "error"}
    OBVIOUS
  <2>2. r = Eof(p)
    BY <1>8 DEF HearChannel
  <2>3. CASE c.kind = "exec" /\ c.live
    <3> HIDE DEF how
    <3>1. how \in {"exit", "error", "timeout"}
      BY <2>1
    <3>2. p.kind = "exec"
      BY <2>3, <3>1, SettleFacts
    <3>3. r = p
      BY <2>2, <3>2 DEF Eof
    <3>4. p \in Call /\ ChanInv(e, p, Tail(d), u, h, ch)
      BY <1>1, <2>0, <2>1, <2>3, ExitKeeps DEF x
    <3> QED BY <3>3, <3>4 DEF x
  <2>4. CASE ~ (c.kind = "exec" /\ c.live)
    <3>1. r = Eof(c)
      BY <2>2, <2>4 DEF SettleExec
    <3>2. CASE c.kind = "pty" /\ c.live
      BY <1>1, <2>0, <3>1, <3>2, EofKeeps DEF x
    <3>3. CASE ~ (c.kind = "pty" /\ c.live)
      <4>1. r = c
        BY <3>1, <3>3 DEF Eof
      <4>2. ChanInv(e, c, Tail(d), u, h, ch)
        BY <2>0, SkipKeeps DEF x
      <4> QED BY <4>1, <4>2 DEF x
    <3> QED BY <3>2, <3>3
  <2> QED BY <2>3, <2>4
<1>9. ASSUME x.t = "eof"
      PROVE  r \in Call /\ ChanInv(e, r, Tail(d), u, h, ch)
  <2>0. x.t \in HostEnd /\ x.t \notin {"opened", "out", "err"}
    BY <1>9 DEF HostEnd
  <2>1. r = Eof(c)
    BY <1>9 DEF HearChannel
  <2>2. CASE c.kind = "pty" /\ c.live
    BY <1>1, <2>0, <2>1, <2>2, EofKeeps DEF x
  <2>3. CASE ~ (c.kind = "pty" /\ c.live)
    <3>1. r = c
      BY <2>1, <2>3 DEF Eof
    <3>2. ChanInv(e, c, Tail(d), u, h, ch)
      BY <2>0, SkipKeeps DEF x
    <3> QED BY <3>1, <3>2 DEF x
  <2> QED BY <2>2, <2>3
<1>10. ASSUME x.t = "out"
      PROVE  r \in Call /\ ChanInv(e, r, Tail(d), u, h, ch)
  <2>1. CASE c.kind = "exec" /\ c.live
    <3>1. r = [c EXCEPT !.out = @ + 1]
      BY <1>10, <2>1 DEF HearChannel
    <3>2. LET q == [c EXCEPT !.out = @ + 1] IN q \in Call /\ ChanInv(e, q, Tail(d), u, h, ch)
      BY <1>1, <1>10, <2>1, ExecOutputKeeps, Zenon DEF x
    <3> QED BY <3>1, <3>2 DEF x
  <2>2. CASE c.kind = "pty" /\ c.live /\ ~ c.eof
    <3>1. r = Flush([c EXCEPT !.buf = Append(@, x.unit)])
      BY <1>10, <2>2 DEF HearChannel
    <3> QED BY <1>1, <1>10, <2>2, <3>1, PtyOutputKeeps DEF x
  <2>3. CASE ~ (c.kind = "exec" /\ c.live) /\ ~ (c.kind = "pty" /\ c.live /\ ~ c.eof)
    <3>1. r = c
      BY <1>10, <2>3 DEF HearChannel
    <3>2. ~ c.live \/ (c.kind = "pty" /\ c.eof)
      BY <1>4, <1>5, <2>3
    <3>3. ChanInv(e, c, Tail(d), u, h, ch)
      BY <1>10, <3>2, SkipKeeps DEF x
    <3> QED BY <3>1, <3>3 DEF x
  <2> QED BY <2>1, <2>2, <2>3
<1>11. ASSUME x.t = "err"
      PROVE  r \in Call /\ ChanInv(e, r, Tail(d), u, h, ch)
  <2>1. ~ c.opening
    BY <1>1, <1>3, <1>11, OrderedHead DEF x
  <2>2. CASE c.kind = "exec" /\ c.live
    <3>1. c.errCh
      BY <1>3, <2>1, <2>2 DEF CallShape
    <3>2. r = [c EXCEPT !.err = @ + 1]
      BY <1>11, <2>2, <3>1 DEF HearChannel
    <3>3. LET q == [c EXCEPT !.err = @ + 1] IN q \in Call /\ ChanInv(e, q, Tail(d), u, h, ch)
      BY <1>1, <1>11, <2>2, ExecOutputKeeps, Zenon DEF x
    <3> QED BY <3>2, <3>3 DEF x
  <2>3. CASE ~ (c.kind = "exec" /\ c.live)
    <3>1. ChanInv(e, c, Tail(d), u, h, ch)
      BY <1>11, <2>3, SkipKeeps DEF x
    <3>2. ~ (c.live /\ c.errCh)
      BY <1>3, <2>3 DEF CallShape
    <3>3. r = c
      BY <1>11, <3>2 DEF HearChannel
    <3> QED BY <3>1, <3>3 DEF x
  <2> QED BY <2>2, <2>3
<1> HIDE DEF r
<1>12. ASSUME ~ (x.t = "opened" /\ c.opening)
       PROVE  r \in Call /\ ChanInv(e, r, Tail(d), u, h, ch)
  BY <1>2, <1>12, <1>7, <1>8, <1>9, <1>10, <1>11
<1>13. ASSUME ~ (x.t = "opened" /\ c.opening)
       PROVE  r \in Call /\ ChanInv(e, Shown(r), Tail(d), u, h, ch)
  BY <1>12, <1>13, PlainKeeps
<1>14. r \in Call /\ ChanInv(e, Shown(r), Tail(d), u, h, ch)
  BY <1>6, <1>13
<1> QED BY <1>14 DEF r, x

-----------------------------------------------------------------------------
(* What the other steps do to a channel                                    *)

\* The order of the queues asks of the call only whether it is opening.
LEMMA OrderedCall ==
    ASSUME NEW c \in Call, NEW r \in Call, NEW d, NEW u, NEW h, NEW ch,
           Ordered(c, d, u, h, ch), r.opening => c.opening
    PROVE  Ordered(r, d, u, h, ch)
BY DEF Ordered

\* A channel not given out asks nothing of its connection.
LEMMA UnusedKeeps ==
    ASSUME NEW e \in Entry, NEW c, NEW d \in Seq(Frame), NEW u \in Seq(Request), NEW h,
           NEW ch \in Channels, Unused(c, d, u, h, ch)
    PROVE  ChanInv(e, c, d, u, h, ch)
<1>1. c = NoCall /\ h = NoProcess /\ Silent(d, ch) /\ Silent(u, ch)
  BY DEF Unused
<1>2. Answered(e, c)
  BY <1>1 DEF Answered, NoCall
<1>3. CallShape(c)
  BY <1>1 DEF CallShape, NoCall, InRow
<1>4. Ordered(c, d, u, h, ch)
  BY <1>1 DEF Ordered, NoCall, NoProcess, Silent, Has
<1>5. Accounted(e, c, u, h, ch)
  BY <1>1 DEF Accounted, NoProcess, Silent, Has
<1>6. Delivered(e, c, d, h, ch)
  BY <1>1 DEF Delivered, NoCall
<1> QED BY <1>2, <1>3, <1>4, <1>5, <1>6 DEF ChanInv

\* The schedule of a close, or the drop of a socket, changes no call.
LEMMA EntryKeeps ==
    ASSUME NEW e \in Entry, NEW e2 \in Entry, NEW c, NEW d, NEW u, NEW h, NEW ch,
           ChanInv(e, c, d, u, h, ch),
           e2.state = e.state, e2.next = e.next, e2.socket = "open" => e.socket = "open"
    PROVE  ChanInv(e2, c, d, u, h, ch)
<1>1. Answered(e2, c)
  BY DEF ChanInv, Answered, Gone
<1>2. Accounted(e2, c, u, h, ch)
  BY DEF ChanInv, Accounted
<1>3. Delivered(e2, c, d, h, ch)
  BY DEF ChanInv, Delivered
<1>4. /\ CallShape(c) /\ Ordered(c, d, u, h, ch)
      /\ ch >= e2.next => Unused(c, d, u, h, ch)
  BY DEF ChanInv
<1> QED BY <1>1, <1>2, <1>3, <1>4 DEF ChanInv

\* The connection is given up.
LEMMA AbandonKeeps ==
    ASSUME NEW e \in Entry, NEW e2 \in Entry, NEW c \in Call, NEW d, NEW u, NEW h, NEW ch,
           ChanInv(e, c, d, u, h, ch), Gone(e2), e2.next = e.next, e2.socket # "open"
    PROVE  Abandon(c) \in Call /\ ChanInv(e2, Abandon(c), d, u, h, ch)
<1> DEFINE r == Abandon(c)
<1>1. /\ Delivered(e, c, d, h, ch) /\ Ordered(c, d, u, h, ch) /\ Answered(e, c) /\ CallShape(c)
      /\ ch >= e2.next => Unused(c, d, u, h, ch)
  BY DEF ChanInv
<1>2. c.waiters > 0 => c.kind = "pty" /\ c.live /\ ~ c.eof
  BY <1>1 DEF Answered
<1>3. /\ r \in Call
      /\ r.opening = FALSE /\ r.waiters = 0 /\ r.kind = c.kind /\ r.opened = c.opened
      /\ c.kind = "exec" => ~ r.live
      /\ c.kind = "pty" /\ r.live => r.eof
      /\ c.kind = "none" => r = c
      /\ r.late = c.late /\ r.out = c.out /\ r.err = c.err
      /\ r.end = "exit" => c.kind = "pty" \/ c.end = "exit"
      /\ CallShape(r)
  BY <1>1, <1>2, AbandonFacts
<1> HIDE DEF r
<1>4. Answered(e2, r)
  BY <1>3 DEF Answered
<1>5. Ordered(r, d, u, h, ch)
  BY <1>1, <1>3, OrderedCall
<1>6. Accounted(e2, r, u, h, ch)
  BY DEF Accounted
<1>7. Delivered(e2, r, d, h, ch)
  <2>1. e2.state # "connected"
    BY DEF Gone
  <2>2. c.kind = "exec" /\ r.end = "exit" => h.state \in HostEnd /\ r.out = h.out /\ r.err = h.err
    BY <1>1, <1>3 DEF Delivered
  <2> QED BY <1>3, <2>1, <2>2 DEF Delivered
<1>8. ch >= e2.next => Unused(r, d, u, h, ch)
  <2>1. ch >= e2.next => c.kind = "none"
    BY <1>1 DEF Unused, NoCall
  <2> QED BY <1>1, <1>3, <2>1
<1>9. ChanInv(e2, r, d, u, h, ch)
  BY <1>3, <1>4, <1>5, <1>6, <1>7, <1>8 DEF ChanInv
<1> QED BY <1>3, <1>9 DEF r

LEMMA SilentAppend ==
    ASSUME NEW S, NEW q \in Seq(S), NEW x \in S, NEW ch, x.ch # ch
    PROVE  /\ Silent(q, ch) => Silent(Append(q, x), ch)
           /\ \A t : Has(Append(q, x), t, ch) <=> Has(q, t, ch)
<1>1. /\ Len(q) \in Nat /\ Len(Append(q, x)) = Len(q) + 1
      /\ \A i \in 1 .. Len(q) : Append(q, x)[i] = q[i]
      /\ Append(q, x)[Len(q) + 1] = x
  BY AppendFacts
<1>2. \A i \in 1 .. Len(Append(q, x)) : i \in 1 .. Len(q) \/ i = Len(q) + 1
  BY <1>1
<1>3. \A i \in 1 .. Len(q) : i \in 1 .. Len(Append(q, x))
  BY <1>1
<1>4. Silent(q, ch) => Silent(Append(q, x), ch)
  BY <1>1, <1>2 DEF Silent
<1>5. ASSUME NEW t PROVE Has(Append(q, x), t, ch) <=> Has(q, t, ch)
  <2>1. ASSUME Has(q, t, ch) PROVE Has(Append(q, x), t, ch)
    BY <1>1, <1>3, <2>1 DEF Has
  <2>2. ASSUME Has(Append(q, x), t, ch) PROVE Has(q, t, ch)
    BY <1>1, <1>2, <2>2 DEF Has
  <2> QED BY <2>1, <2>2
<1> QED BY <1>4, <1>5

\* A frame of the relay, or of another channel, joins the queue.
LEMMA FrameKeeps ==
    ASSUME NEW e \in Entry, NEW c \in Call, NEW d \in Seq(Frame), NEW u \in Seq(Request),
           NEW h \in Process, NEW ch \in Channels, ChanInv(e, c, d, u, h, ch),
           NEW x \in Frame, x.ch # ch
    PROVE  ChanInv(e, c, Append(d, x), u, h, ch)
<1> DEFINE q == Append(d, x)
<1>1. /\ Delivered(e, c, d, h, ch) /\ Ordered(c, d, u, h, ch) /\ Answered(e, c)
      /\ CallShape(c) /\ Accounted(e, c, u, h, ch)
      /\ ch >= e.next => Unused(c, d, u, h, ch)
  BY DEF ChanInv
<1>2. /\ q \in Seq(Frame) /\ Len(d) \in Nat /\ Len(q) = Len(d) + 1
      /\ \A i \in 1 .. Len(d) : q[i] = d[i]
      /\ q[Len(d) + 1] = x
  BY AppendFacts
<1>3. \A i \in 1 .. Len(q) : i \in 1 .. Len(d) \/ i = Len(d) + 1
  BY <1>2
<1>4. (Silent(d, ch) => Silent(q, ch)) /\ (Has(d, "opened", ch) => Has(q, "opened", ch))
  BY SilentAppend
<1>5. \A t \in {"out", "err"}, from, to \in Nat :
        Carries(d, ch, t, from, to) => Carries(q, ch, t, from, to)
  BY CarriesMore
<1> HIDE DEF q
<1>6. Ordered(c, q, u, h, ch)
  <2>1. ASSUME NEW i \in 1 .. Len(q), q[i].ch = ch
        PROVE  i \in 1 .. Len(d) /\ q[i] = d[i]
    BY <1>2, <1>3, <2>1
  <2>2. \A i \in 1 .. Len(q) :
          /\ q[i].t = "opened" /\ q[i].ch = ch => (q[i].ok <=> h.state # "none")
          /\ q[i].t \in HostEnd /\ q[i].ch = ch => h.state \in HostEnd
    BY <1>1, <2>1 DEF Ordered
  <2>3. ASSUME NEW i \in 1 .. Len(q), c.opening, q[i].ch = ch, q[i].t # "opened"
        PROVE  \E j \in 1 .. (i - 1) : q[j].t = "opened" /\ q[j].ch = ch
    <3>1. i \in 1 .. Len(d) /\ q[i] = d[i]
      BY <2>1, <2>3
    <3>2. PICK j \in 1 .. (i - 1) : d[j].t = "opened" /\ d[j].ch = ch
      BY <1>1, <2>3, <3>1 DEF Ordered
    <3>3. j \in 1 .. Len(d)
      BY <1>2, <3>1
    <3>4. q[j] = d[j]
      BY <1>2, <3>3, Zenon
    <3> QED BY <3>2, <3>4
  <2>4. /\ \A i, j \in 1 .. Len(u) :
             u[i].t = "open" /\ u[i].ch = ch /\ u[j].ch = ch => i <= j
        /\ Has(u, "open", ch) => h.state = "none" /\ Silent(d, ch)
        /\ h.state = "none" => h.out = 0 /\ h.err = 0
        /\ c.opening /\ h.state # "none" => Has(d, "opened", ch)
    BY <1>1 DEF Ordered
  <2> QED BY <1>4, <2>2, <2>3, <2>4 DEF Ordered
<1>7. Delivered(e, c, q, h, ch)
  <2>1. /\ c.out \in Nat /\ c.err \in Nat /\ h.out \in Nat /\ h.err \in Nat
        /\ Len(c.got) \in Nat /\ Len(c.buf) \in Nat
    BY DEF Call, Process
  <2>2. Len(c.got) + Len(c.buf) \in Nat
    BY <2>1, SumFacts, Zenon
  <2> QED BY <1>1, <1>5, <2>1, <2>2, Zenon DEF Delivered
<1>8. ch >= e.next => Unused(c, q, u, h, ch)
  BY <1>1, <1>4 DEF Unused
<1>9. ChanInv(e, c, q, u, h, ch)
  BY <1>1, <1>6, <1>7, <1>8 DEF ChanInv
<1> QED BY <1>9 DEF q

\* A frame joins the queue to the host: of another channel, or the close of a
\* channel given out.
LEMMA RequestKeeps ==
    ASSUME NEW e \in Entry, NEW c, NEW d, NEW u \in Seq(Request), NEW h, NEW ch \in Channels,
           ChanInv(e, c, d, u, h, ch), NEW y \in Request,
           y.ch # ch \/ (y.t = "close" /\ ~ (ch >= e.next))
    PROVE  ChanInv(e, c, d, Append(u, y), h, ch)
<1> DEFINE q == Append(u, y)
<1>1. /\ Delivered(e, c, d, h, ch) /\ Ordered(c, d, u, h, ch) /\ Answered(e, c)
      /\ CallShape(c) /\ Accounted(e, c, u, h, ch)
      /\ ch >= e.next => Unused(c, d, u, h, ch)
  BY DEF ChanInv
<1>2. /\ Len(u) \in Nat /\ Len(q) = Len(u) + 1
      /\ \A i \in 1 .. Len(u) : q[i] = u[i]
      /\ q[Len(u) + 1] = y
  BY AppendFacts
<1>3. \A i \in 1 .. Len(q) : i \in 1 .. Len(u) \/ i = Len(u) + 1
  BY <1>2
<1>4. \A i \in 1 .. Len(u) : i \in 1 .. Len(q)
  BY <1>2
<1>5. ch >= e.next => Unused(c, d, q, h, ch)
  BY <1>1, SilentAppend DEF Unused
<1> HIDE DEF q
<1>6. Has(q, "open", ch) => Has(u, "open", ch)
  BY <1>2, <1>3 DEF Has
<1>7. Has(u, "close", ch) => Has(q, "close", ch)
  BY <1>2, <1>4 DEF Has
<1>8. Accounted(e, c, q, h, ch)
  BY <1>1, <1>6, <1>7 DEF Accounted
<1>9. Ordered(c, d, q, h, ch)
  <2>1. ASSUME NEW i \in 1 .. Len(q), NEW j \in 1 .. Len(q),
               q[i].t = "open", q[i].ch = ch, q[j].ch = ch
        PROVE  i <= j
    <3>1. i \in 1 .. Len(u) /\ u[i].t = "open" /\ u[i].ch = ch
      BY <1>2, <1>3, <2>1
    <3>2. CASE j \in 1 .. Len(u)
      BY <1>1, <1>2, <2>1, <3>1, <3>2 DEF Ordered
    <3>3. CASE j = Len(u) + 1
      BY <1>2, <3>1, <3>3
    <3> QED BY <1>3, <3>2, <3>3
  <2> QED BY <1>1, <1>6, <2>1 DEF Ordered
<1>10. ChanInv(e, c, d, q, h, ch)
  BY <1>1, <1>5, <1>8, <1>9 DEF ChanInv
<1> QED BY <1>10 DEF q

\* The host hears a frame of another channel.
LEMMA RequestTailKeeps ==
    ASSUME NEW e \in Entry, NEW c, NEW d, NEW u \in Seq(Request), NEW h, NEW ch \in Channels,
           ChanInv(e, c, d, u, h, ch), u # <<>>, Head(u).ch # ch
    PROVE  ChanInv(e, c, d, Tail(u), h, ch)
<1> DEFINE q == Tail(u)
<1>1. /\ Delivered(e, c, d, h, ch) /\ Ordered(c, d, u, h, ch) /\ Answered(e, c)
      /\ CallShape(c) /\ Accounted(e, c, u, h, ch)
      /\ ch >= e.next => Unused(c, d, u, h, ch)
  BY DEF ChanInv
<1>2. /\ Len(u) \in Nat /\ Len(u) > 0 /\ Len(q) = Len(u) - 1
      /\ \A i \in 1 .. Len(q) : q[i] = u[i + 1]
      /\ Head(u) = u[1]
  BY TailFacts
<1> HIDE DEF q
<1>3. \A i \in 1 .. Len(q) : i + 1 \in 1 .. Len(u)
  BY <1>2
<1>4. Silent(u, ch) => Silent(q, ch)
  BY <1>2, <1>3 DEF Silent
<1>5. Has(q, "open", ch) => Has(u, "open", ch)
  BY <1>2, <1>3 DEF Has
<1>6. ASSUME Has(u, "close", ch) PROVE Has(q, "close", ch)
  <2>1. PICK i \in 1 .. Len(u) : u[i].t = "close" /\ u[i].ch = ch
    BY <1>6 DEF Has
  <2>2. i # 1
    BY <1>2, <2>1
  <2>3. i - 1 \in 1 .. Len(q) /\ (i - 1) + 1 = i
    BY <1>2, <2>2
  <2>4. q[i - 1] = u[i]
    BY <1>2, <2>3
  <2> QED BY <2>1, <2>3, <2>4 DEF Has
<1>7. Accounted(e, c, q, h, ch)
  BY <1>1, <1>5, <1>6 DEF Accounted
<1>8. Ordered(c, d, q, h, ch)
  <2>1. ASSUME NEW i \in 1 .. Len(q), NEW j \in 1 .. Len(q),
               q[i].t = "open", q[i].ch = ch, q[j].ch = ch
        PROVE  i <= j
    <3>1. i + 1 \in 1 .. Len(u) /\ j + 1 \in 1 .. Len(u) /\ q[i] = u[i + 1] /\ q[j] = u[j + 1]
      BY <1>2, <1>3
    <3>2. i + 1 <= j + 1
      BY <1>1, <2>1, <3>1 DEF Ordered
    <3> QED BY <1>2, <3>2
  <2> QED BY <1>1, <1>5, <2>1 DEF Ordered
<1>9. ChanInv(e, c, d, q, h, ch)
  BY <1>1, <1>4, <1>7, <1>8 DEF ChanInv, Unused
<1> QED BY <1>9 DEF q

\* A channel is given out: the open is sent, unless the socket is gone.
LEMMA OpenKeeps ==
    ASSUME NEW e \in Entry, NEW e2 \in Entry, NEW d \in Seq(Frame), NEW u \in Seq(Request),
           NEW ch \in Channels, NEW c, NEW h, Unused(c, d, u, h, ch), e.state = "connected",
           e2.state = e.state, e2.socket = e.socket, e2.next = ch + 1,
           NEW r \in Call, r.opening, r.kind \in {"exec", "pty"}, r.live = (r.kind = "exec"),
           r.eof = FALSE, r.end = "no", r.buf = <<>>, r.got = <<>>, r.waiters = 0,
           r.opened = FALSE, r.errCh = FALSE, r.out = 0, r.err = 0,
           NEW v, v = u \/ v = Append(u, [t |-> "open", ch |-> ch])
    PROVE  ChanInv(e2, r, d, v, h, ch)
<1>1. c = NoCall /\ h = NoProcess /\ Silent(d, ch) /\ Silent(u, ch)
  BY DEF Unused
<1>2. /\ r.opening /\ r.kind \in {"exec", "pty"} /\ r.live = (r.kind = "exec")
      /\ r.opened = FALSE
      /\ r.eof = FALSE /\ r.end = "no"
      /\ r.buf = <<>> /\ r.got = <<>> /\ r.waiters = 0 /\ r.errCh = FALSE
      /\ r.out = 0 /\ r.err = 0
  OBVIOUS
<1>3. Answered(e2, r)
  BY <1>2 DEF Answered, Gone
<1>4. CallShape(r)
  <2>1. Len(r.got) = 0 /\ Len(r.buf) = 0
    BY <1>2
  <2>2. InRow(r)
    BY <2>1 DEF InRow, Units
  <2> QED BY <1>2, <2>2 DEF CallShape
<1>5. Ordered(r, d, v, h, ch)
  <2>1. h.state = "none" /\ h.out = 0 /\ h.err = 0
    BY <1>1 DEF NoProcess
  <2>2. ASSUME NEW i \in 1 .. Len(v), NEW j \in 1 .. Len(v),
               v[i].t = "open", v[i].ch = ch, v[j].ch = ch
        PROVE  i <= j
    <3>1. CASE v = u
      BY <1>1, <2>2, <3>1 DEF Silent
    <3>2. CASE v = Append(u, [t |-> "open", ch |-> ch])
      <4>1. [t |-> "open", ch |-> ch] \in Request
        BY DEF Request
      <4>2. /\ Len(u) \in Nat /\ Len(v) = Len(u) + 1
            /\ \A n \in 1 .. Len(u) : v[n] = u[n]
        BY <3>2, <4>1, AppendFacts
      <4>3. i \notin 1 .. Len(u) /\ j \notin 1 .. Len(u)
        BY <1>1, <2>2, <4>2 DEF Silent
      <4> QED BY <4>2, <4>3
    <3> QED BY <3>1, <3>2
  <2> QED BY <1>1, <2>1, <2>2 DEF Ordered, Silent
<1>6. Accounted(e2, r, v, h, ch)
  BY <1>2 DEF Accounted
<1>7. Delivered(e2, r, d, h, ch)
  <2>1. Carries(d, ch, "out", 0, 0) /\ Carries(d, ch, "err", 0, 0)
    BY <1>1, CarriesNone
  <2>2. h.out = 0 /\ h.err = 0
    BY <1>1 DEF NoProcess
  <2>3. Len(r.got) = 0 /\ Len(r.buf) = 0
    BY <1>2
  <2>4. Len(r.got) + Len(r.buf) = 0
    BY <2>3, EmptySum, Zenon
  <2> QED BY <1>2, <2>1, <2>2, <2>4 DEF Delivered
<1>8. ~ (ch >= e2.next)
  BY LinkAssumption DEF Channels
<1> QED BY <1>3, <1>4, <1>5, <1>6, <1>7, <1>8 DEF ChanInv

\* The client acts on its own call.
LEMMA CallKeeps ==
    ASSUME NEW e \in Entry, NEW c \in Call, NEW d, NEW u, NEW h, NEW ch \in Channels,
           ChanInv(e, c, d, u, h, ch), c.kind # "none", NEW r \in Call,
           r.opening => c.opening,
           Answered(e, r), CallShape(r), Accounted(e, r, u, h, ch), Delivered(e, r, d, h, ch)
    PROVE  ChanInv(e, r, d, u, h, ch)
<1>1. Ordered(r, d, u, h, ch)
  BY OrderedCall DEF ChanInv
<1>2. ~ (ch >= e.next)
  BY DEF ChanInv, Unused, NoCall
<1> QED BY <1>1, <1>2 DEF ChanInv

LEMMA HasAppend ==
    ASSUME NEW S, NEW q \in Seq(S), NEW x \in S
    PROVE  Has(Append(q, x), x.t, x.ch)
<1>1. /\ Len(q) \in Nat /\ Len(Append(q, x)) = Len(q) + 1
      /\ Append(q, x)[Len(q) + 1] = x
  BY AppendFacts
<1>2. Len(q) + 1 \in 1 .. Len(Append(q, x))
  BY <1>1
<1> QED BY <1>1, <1>2 DEF Has

\* The daemon hears an open: it spawns or refuses, and answers.
LEMMA HostOpens ==
    ASSUME NEW e \in Entry, NEW c \in Call, NEW d \in Seq(Frame), NEW u \in Seq(Request),
           NEW h \in Process, NEW ch \in Channels, ChanInv(e, c, d, u, h, ch),
           u # <<>>, Head(u).t = "open", Head(u).ch = ch, NEW ok \in BOOLEAN,
           NEW h2 \in Process, h2.out = h.out, h2.err = h.err,
           h2.state = IF ok THEN "running" ELSE "none",
           NEW x \in Frame, x.t = "opened", x.ch = ch, x.ok = ok
    PROVE  ChanInv(e, c, Append(d, x), Tail(u), h2, ch)
<1> DEFINE q == Append(d, x)
           v == Tail(u)
<1>1. /\ Delivered(e, c, d, h, ch) /\ Ordered(c, d, u, h, ch) /\ Answered(e, c)
      /\ CallShape(c) /\ Accounted(e, c, u, h, ch)
      /\ ch >= e.next => Unused(c, d, u, h, ch)
  BY DEF ChanInv
<1>2. /\ Len(u) \in Nat /\ Len(u) > 0 /\ Len(v) = Len(u) - 1
      /\ \A i \in 1 .. Len(v) : v[i] = u[i + 1]
      /\ Head(u) = u[1]
  BY TailFacts
<1>3. /\ Len(d) \in Nat /\ Len(q) = Len(d) + 1
      /\ \A i \in 1 .. Len(d) : q[i] = d[i]
      /\ q[Len(d) + 1] = x
  BY AppendFacts
<1>4. Has(q, "opened", ch)
  BY HasAppend
<1>5. \A i \in 1 .. Len(v) : i + 1 \in 1 .. Len(u)
  BY <1>2
<1>6. 1 \in 1 .. Len(u)
  BY <1>2
<1>7. Has(u, "open", ch)
  BY <1>2, <1>6 DEF Has
<1>8. h.state = "none" /\ Silent(d, ch) /\ h.out = 0 /\ h.err = 0
  BY <1>1, <1>7 DEF Ordered
<1>9. ~ (ch >= e.next)
  BY <1>1, <1>2, <1>6 DEF Unused, Silent
<1>10. \A t \in {"out", "err"}, from, to \in Nat :
         Carries(d, ch, t, from, to) => Carries(q, ch, t, from, to)
  BY CarriesMore
<1> HIDE DEF q, v
<1>11. ~ Has(v, "open", ch)
  <2> SUFFICES ASSUME NEW i \in 1 .. Len(v), v[i].t = "open", v[i].ch = ch
               PROVE  FALSE
    BY DEF Has
  <2>1. i + 1 \in 1 .. Len(u) /\ u[i + 1].t = "open" /\ u[i + 1].ch = ch
    BY <1>2, <1>5
  <2>2. i + 1 <= 1
    BY <1>1, <1>2, <1>6, <2>1 DEF Ordered
  <2> QED BY <1>2, <2>2
<1>12. ASSUME Has(u, "close", ch) PROVE Has(v, "close", ch)
  <2>1. PICK i \in 1 .. Len(u) : u[i].t = "close" /\ u[i].ch = ch
    BY <1>12 DEF Has
  <2>2. i # 1
    BY <1>2, <2>1
  <2>3. i - 1 \in 1 .. Len(v) /\ (i - 1) + 1 = i
    BY <1>2, <2>2
  <2>4. v[i - 1] = u[i]
    BY <1>2, <2>3
  <2> QED BY <2>1, <2>3, <2>4 DEF Has
<1>13. Accounted(e, c, v, h2, ch)
  BY <1>1, <1>7, <1>12 DEF Accounted
<1>14. Ordered(c, q, v, h2, ch)
  <2>1. \A i, j \in 1 .. Len(v) : v[i].t = "open" /\ v[i].ch = ch /\ v[j].ch = ch => i <= j
    BY <1>11 DEF Has
  <2>2. \A i \in 1 .. Len(q) : q[i].ch = ch => q[i] = x
    BY <1>3, <1>8 DEF Silent
  <2>3. ok <=> h2.state # "none"
    OBVIOUS
  <2>4. \A i \in 1 .. Len(q) :
          /\ q[i].t = "opened" /\ q[i].ch = ch => (q[i].ok <=> h2.state # "none")
          /\ q[i].t \in HostEnd /\ q[i].ch = ch => h2.state \in HostEnd
          /\ q[i].ch = ch => q[i].t = "opened"
    BY <2>2, <2>3 DEF HostEnd
  <2> QED BY <1>4, <1>8, <1>11, <2>1, <2>4 DEF Ordered
<1>15. Delivered(e, c, q, h2, ch)
  <2>1. /\ c.out \in Nat /\ c.err \in Nat /\ h.out \in Nat /\ h.err \in Nat
        /\ Len(c.got) \in Nat /\ Len(c.buf) \in Nat
    BY DEF Call, Process
  <2>2. Len(c.got) + Len(c.buf) \in Nat
    BY <2>1, SumFacts, Zenon
  <2>3. h.state \notin HostEnd
    BY <1>8 DEF HostEnd
  <2> QED BY <1>1, <1>10, <2>1, <2>2, <2>3, Zenon DEF Delivered
<1>16. ChanInv(e, c, q, v, h2, ch)
  BY <1>1, <1>9, <1>13, <1>14, <1>15 DEF ChanInv
<1> QED BY <1>16 DEF q, v

\* The daemon hears a close: a process that runs is ended.
LEMMA HostCloses ==
    ASSUME NEW e \in Entry, NEW c \in Call, NEW d \in Seq(Frame), NEW u \in Seq(Request),
           NEW h \in Process, NEW ch \in Channels, ChanInv(e, c, d, u, h, ch),
           u # <<>>, Head(u).t = "close", Head(u).ch = ch,
           NEW h2 \in Process, h2.out = h.out, h2.err = h.err,
           h2.state = IF h.state = "running" THEN "gone" ELSE h.state
    PROVE  ChanInv(e, c, d, Tail(u), h2, ch)
<1> DEFINE v == Tail(u)
<1>1. /\ Delivered(e, c, d, h, ch) /\ Ordered(c, d, u, h, ch) /\ Answered(e, c)
      /\ CallShape(c) /\ Accounted(e, c, u, h, ch)
      /\ ch >= e.next => Unused(c, d, u, h, ch)
  BY DEF ChanInv
<1>2. /\ Len(u) \in Nat /\ Len(u) > 0 /\ Len(v) = Len(u) - 1
      /\ \A i \in 1 .. Len(v) : v[i] = u[i + 1]
      /\ Head(u) = u[1]
  BY TailFacts
<1> HIDE DEF v
<1>3. \A i \in 1 .. Len(v) : i + 1 \in 1 .. Len(u)
  BY <1>2
<1>4. 1 \in 1 .. Len(u)
  BY <1>2
<1>5. ~ (ch >= e.next)
  BY <1>1, <1>2, <1>4 DEF Unused, Silent
<1>6. ~ Has(u, "open", ch)
  <2> SUFFICES ASSUME NEW i \in 1 .. Len(u), u[i].t = "open", u[i].ch = ch
               PROVE  FALSE
    BY DEF Has
  <2>1. i <= 1
    BY <1>1, <1>2, <1>4 DEF Ordered
  <2>2. i = 1
    BY <1>2, <2>1
  <2> QED BY <1>2, <2>2
<1>7. ~ Has(v, "open", ch)
  BY <1>2, <1>3, <1>6 DEF Has
<1>8. h2.state # "running"
  OBVIOUS
<1>9. Accounted(e, c, v, h2, ch)
  BY <1>7, <1>8 DEF Accounted
<1>10. /\ h2.state = "none" <=> h.state = "none"
       /\ h2.state \in HostEnd <=> h.state \in HostEnd
  BY DEF HostEnd
<1>11. Ordered(c, d, v, h2, ch)
  <2>1. \A i, j \in 1 .. Len(v) : v[i].t = "open" /\ v[i].ch = ch /\ v[j].ch = ch => i <= j
    BY <1>7 DEF Has
  <2> QED BY <1>1, <1>7, <1>10, <2>1 DEF Ordered
<1>12. Delivered(e, c, d, h2, ch)
  BY <1>1, <1>10 DEF Delivered
<1>13. ChanInv(e, c, d, v, h2, ch)
  BY <1>1, <1>5, <1>9, <1>11, <1>12 DEF ChanInv
<1> QED BY <1>13 DEF v

\* A frame of the process itself joins the queue: what it asks of the order.
LEMMA OwnFrameOrdered ==
    ASSUME NEW e \in Entry, NEW c \in Call, NEW d \in Seq(Frame), NEW u \in Seq(Request),
           NEW h \in Process, NEW ch \in Channels, ChanInv(e, c, d, u, h, ch),
           h.state = "running", NEW x \in Frame, x.ch = ch, x.t # "opened",
           NEW h2 \in Process, h2.state # "none", x.t \in HostEnd => h2.state \in HostEnd
    PROVE  /\ Ordered(c, Append(d, x), u, h2, ch)
           /\ \A i \in 1 .. Len(d) : ~ (d[i].t \in HostEnd /\ d[i].ch = ch)
           /\ ~ (ch >= e.next)
<1> DEFINE q == Append(d, x)
<1>1. Ordered(c, d, u, h, ch) /\ (ch >= e.next => Unused(c, d, u, h, ch))
  BY DEF ChanInv
<1>2. /\ Len(d) \in Nat /\ Len(q) = Len(d) + 1
      /\ \A i \in 1 .. Len(d) : q[i] = d[i]
      /\ q[Len(d) + 1] = x
  BY AppendFacts
<1> HIDE DEF q
<1>3. \A i \in 1 .. Len(q) : i \in 1 .. Len(d) \/ i = Len(d) + 1
  BY <1>2
<1>4. h.state \notin HostEnd
  BY DEF HostEnd
<1>5. \A i \in 1 .. Len(d) : ~ (d[i].t \in HostEnd /\ d[i].ch = ch)
  BY <1>1, <1>4 DEF Ordered
<1>6. ~ Has(u, "open", ch)
  BY <1>1 DEF Ordered
<1>7. c.opening => Has(d, "opened", ch)
  BY <1>1 DEF Ordered
<1>8. c.opening => Has(q, "opened", ch)
  <2> SUFFICES ASSUME c.opening PROVE Has(q, "opened", ch)
    OBVIOUS
  <2>1. PICK j \in 1 .. Len(d) : d[j].t = "opened" /\ d[j].ch = ch
    BY <1>7 DEF Has
  <2>2. j \in 1 .. Len(q) /\ q[j] = d[j]
    BY <1>2
  <2> QED BY <2>1, <2>2 DEF Has
<1>9. ASSUME NEW i \in 1 .. Len(q)
      PROVE  /\ q[i].t = "opened" /\ q[i].ch = ch => (q[i].ok <=> h2.state # "none")
             /\ q[i].t \in HostEnd /\ q[i].ch = ch => h2.state \in HostEnd
             /\ c.opening /\ q[i].ch = ch /\ q[i].t # "opened" =>
                  \E j \in 1 .. (i - 1) : q[j].t = "opened" /\ q[j].ch = ch
  <2>1. CASE i \in 1 .. Len(d)
    <3>1. q[i] = d[i]
      BY <1>2, <2>1
    <3>2. d[i].t = "opened" /\ d[i].ch = ch => (d[i].ok <=> h.state # "none")
      BY <1>1, <2>1 DEF Ordered
    <3>3. ~ (d[i].t \in HostEnd /\ d[i].ch = ch)
      BY <1>5, <2>1
    <3>4. ASSUME c.opening, d[i].ch = ch, d[i].t # "opened"
          PROVE  \E j \in 1 .. (i - 1) : q[j].t = "opened" /\ q[j].ch = ch
      <4>1. PICK j \in 1 .. (i - 1) : d[j].t = "opened" /\ d[j].ch = ch
        BY <1>1, <2>1, <3>4 DEF Ordered
      <4>2. q[j] = d[j]
        BY <1>2, <2>1
      <4> QED BY <4>1, <4>2
    <3> QED BY <3>1, <3>2, <3>3, <3>4
  <2>2. CASE i = Len(d) + 1
    <3>1. q[i] = x
      BY <1>2, <2>2
    <3>2. ASSUME c.opening
          PROVE  \E j \in 1 .. (i - 1) : q[j].t = "opened" /\ q[j].ch = ch
      <4>1. PICK j \in 1 .. Len(d) : d[j].t = "opened" /\ d[j].ch = ch
        BY <1>7, <3>2 DEF Has
      <4>2. j \in 1 .. (i - 1) /\ q[j] = d[j]
        BY <1>2, <2>2
      <4> QED BY <4>1, <4>2
    <3> QED BY <3>1, <3>2
  <2> QED BY <1>3, <2>1, <2>2
<1>10. Ordered(c, q, u, h2, ch)
  <2>1. \A i, j \in 1 .. Len(u) : u[i].t = "open" /\ u[i].ch = ch /\ u[j].ch = ch => i <= j
    BY <1>1 DEF Ordered
  <2> QED BY <1>6, <1>8, <1>9, <2>1 DEF Ordered
<1>11. ~ (ch >= e.next)
  BY <1>1 DEF Unused, NoProcess
<1> QED BY <1>5, <1>10, <1>11 DEF q

\* The process writes a unit to one of its streams.
LEMMA WriteKeeps ==
    ASSUME NEW e \in Entry, NEW c \in Call, NEW d \in Seq(Frame), NEW u \in Seq(Request),
           NEW h \in Process, NEW ch \in Channels, ChanInv(e, c, d, u, h, ch),
           h.state = "running", NEW x \in Frame, x.ch = ch,
           NEW h2 \in Process, h2.state = h.state,
           \/ x.t = "out" /\ x.unit = h.out + 1 /\ h2.out = h.out + 1 /\ h2.err = h.err
           \/ x.t = "err" /\ x.unit = h.err + 1 /\ h2.err = h.err + 1 /\ h2.out = h.out
    PROVE  ChanInv(e, c, Append(d, x), u, h2, ch)
<1> DEFINE q == Append(d, x)
<1>1. /\ Delivered(e, c, d, h, ch) /\ Answered(e, c) /\ CallShape(c) /\ Accounted(e, c, u, h, ch)
  BY DEF ChanInv
<1>2. x.t # "opened" /\ h2.state # "none" /\ (x.t \in HostEnd => h2.state \in HostEnd)
  BY DEF HostEnd
<1>3. /\ Ordered(c, q, u, h2, ch)
      /\ \A i \in 1 .. Len(d) : ~ (d[i].t \in HostEnd /\ d[i].ch = ch)
      /\ ~ (ch >= e.next)
  BY <1>2, OwnFrameOrdered
<1>4. Accounted(e, c, u, h2, ch)
  BY <1>1 DEF Accounted
<1>5. h.state \notin HostEnd
  BY DEF HostEnd
<1>6. h.out \in Nat /\ h.err \in Nat
  BY DEF Process
<1>7. ASSUME NEW from \in Nat, Carries(d, ch, "out", from, h.out)
      PROVE  Carries(q, ch, "out", from, h2.out)
  <2>1. CASE x.t = "out"
    BY <1>3, <1>6, <1>7, <2>1, CarriesWrite
  <2>2. CASE x.t = "err"
    BY <1>6, <1>7, <2>2, CarriesMore
  <2> QED BY <2>1, <2>2
<1>8. ASSUME NEW from \in Nat, Carries(d, ch, "err", from, h.err)
      PROVE  Carries(q, ch, "err", from, h2.err)
  <2>1. CASE x.t = "err"
    BY <1>3, <1>6, <1>8, <2>1, CarriesWrite
  <2>2. CASE x.t = "out"
    BY <1>6, <1>8, <2>2, CarriesMore
  <2> QED BY <2>1, <2>2
<1> HIDE DEF q
<1>9. Delivered(e, c, q, h2, ch)
  <2>1. c.out \in Nat /\ c.err \in Nat /\ Len(c.got) \in Nat /\ Len(c.buf) \in Nat
    BY DEF Call
  <2>2. Len(c.got) + Len(c.buf) \in Nat
    BY <2>1, SumFacts, Zenon
  <2> QED BY <1>1, <1>5, <1>7, <1>8, <2>1, <2>2, Zenon DEF Delivered
<1>10. ChanInv(e, c, q, u, h2, ch)
  BY <1>1, <1>3, <1>4, <1>9 DEF ChanInv
<1> QED BY <1>10 DEF q

\* The process ends: that is the last of its frames.
LEMMA EndKeeps ==
    ASSUME NEW e \in Entry, NEW c \in Call, NEW d \in Seq(Frame), NEW u \in Seq(Request),
           NEW h \in Process, NEW ch \in Channels, ChanInv(e, c, d, u, h, ch),
           h.state = "running", NEW x \in Frame, x.ch = ch, x.t \in HostEnd,
           NEW h2 \in Process, h2.state = x.t, h2.out = h.out, h2.err = h.err
    PROVE  ChanInv(e, c, Append(d, x), u, h2, ch)
<1> DEFINE q == Append(d, x)
<1>1. /\ Delivered(e, c, d, h, ch) /\ Answered(e, c) /\ CallShape(c) /\ Accounted(e, c, u, h, ch)
  BY DEF ChanInv
<1>2. x.t # "opened" /\ h2.state # "none" /\ h2.state # "running" /\ x.t \notin {"out", "err"}
  BY DEF HostEnd
<1>3. Ordered(c, q, u, h2, ch) /\ ~ (ch >= e.next)
  BY <1>2, OwnFrameOrdered
<1>4. ~ Has(u, "open", ch)
  BY <1>2, <1>3 DEF Ordered
<1>5. Accounted(e, c, u, h2, ch)
  BY <1>2, <1>4 DEF Accounted
<1>6. \A t \in {"out", "err"}, from, to \in Nat :
        Carries(d, ch, t, from, to) => Carries(q, ch, t, from, to)
  BY <1>2, CarriesMore
<1> HIDE DEF q
<1>7. Delivered(e, c, q, h2, ch)
  <2>1. /\ c.out \in Nat /\ c.err \in Nat /\ h.out \in Nat /\ h.err \in Nat
        /\ Len(c.got) \in Nat /\ Len(c.buf) \in Nat
    BY DEF Call, Process
  <2>2. Len(c.got) + Len(c.buf) \in Nat
    BY <2>1, SumFacts, Zenon
  <2>3. h2.state \in HostEnd
    OBVIOUS
  <2> QED BY <1>1, <1>6, <2>1, <2>2, <2>3, Zenon DEF Delivered
<1>8. ChanInv(e, c, q, u, h2, ch)
  BY <1>1, <1>3, <1>5, <1>7 DEF ChanInv
<1> QED BY <1>8 DEF q

-----------------------------------------------------------------------------
(* The callers and their timers                                            *)

LEMMA ExecTimeoutKeeps ==
    ASSUME NEW e \in Entry, NEW c \in Call, NEW d \in Seq(Frame), NEW u \in Seq(Request),
           NEW h \in Process, NEW ch \in Channels, ChanInv(e, c, d, u, h, ch),
           c.kind = "exec", c.live, e.socket = "open" => Has(u, "close", ch)
    PROVE  SettleExec(c, "timeout") \in Call /\ ChanInv(e, SettleExec(c, "timeout"), d, u, h, ch)
<1> DEFINE r == SettleExec(c, "timeout")
<1>1. /\ Delivered(e, c, d, h, ch) /\ Answered(e, c) /\ CallShape(c)
  BY DEF ChanInv
<1>2. /\ r \in Call
      /\ r.live = FALSE /\ r.end = "timeout"
      /\ r.kind = c.kind /\ r.opened = c.opened /\ r.opening = c.opening /\ r.errCh = c.errCh
      /\ r.out = c.out /\ r.err = c.err /\ r.buf = c.buf /\ r.got = c.got
      /\ r.eof = c.eof /\ r.waiters = c.waiters /\ r.late = c.late
  BY SettleFacts
<1> HIDE DEF r
<1>3. Answered(e, r)
  BY <1>1, <1>2 DEF Answered
<1>4. CallShape(r)
  BY <1>1, <1>2 DEF CallShape
<1>5. Accounted(e, r, u, h, ch)
  BY DEF Accounted
<1>6. Delivered(e, r, d, h, ch)
  BY <1>1, <1>2 DEF Delivered
<1>7. c.kind # "none"
  OBVIOUS
<1>8. ChanInv(e, r, d, u, h, ch)
  BY <1>2, <1>3, <1>4, <1>5, <1>6, <1>7, CallKeeps
<1> QED BY <1>2, <1>8 DEF r

LEMMA OpenTimeoutKeeps ==
    ASSUME NEW e \in Entry, NEW c \in Call, NEW d \in Seq(Frame), NEW u \in Seq(Request),
           NEW h \in Process, NEW ch \in Channels, ChanInv(e, c, d, u, h, ch), c.opening
    PROVE  LET r == [RejectOpen(c) EXCEPT !.late = TRUE]
           IN  r \in Call /\ ChanInv(e, r, d, u, h, ch)
<1> DEFINE p == RejectOpen(c)
           r == [p EXCEPT !.late = TRUE]
<1>1. /\ Delivered(e, c, d, h, ch) /\ Answered(e, c) /\ CallShape(c)
  BY DEF ChanInv
<1>2. c.kind # "none" /\ ~ Gone(e) /\ c.waiters = 0 /\ ~ c.eof /\ (c.kind = "pty" => ~ c.live)
  <2>1. c.kind # "none" /\ ~ c.eof /\ (c.kind = "pty" => ~ c.live)
    BY <1>1 DEF CallShape, NoCall
  <2>2. ~ Gone(e)
    BY <1>1 DEF Answered
  <2>3. ~ (c.waiters > 0)
    BY <1>1, <2>1 DEF Answered
  <2> QED BY <2>1, <2>2, <2>3 DEF Call
<1>3. c.kind = "exec" \/ c.kind = "pty"
  BY <1>2 DEF Call, Kinds
<1>4. /\ p \in Call
      /\ p.opening = FALSE
      /\ p.kind = c.kind /\ p.opened = c.opened /\ p.errCh = c.errCh
      /\ p.out = c.out /\ p.err = c.err /\ p.buf = c.buf /\ p.got = c.got
      /\ p.eof = c.eof /\ p.waiters = c.waiters
      /\ c.kind = "exec" => ~ p.live /\ (p.end = "error" \/ (~ c.live /\ p.end = c.end))
      /\ c.kind # "exec" => p.live = c.live /\ p.end = "error"
  BY RejectFacts
<1> HIDE DEF p
<1>5. r \in Call
  BY <1>4 DEF Call
<1>6. /\ r.late = TRUE /\ r.live = p.live /\ r.end = p.end /\ r.opening = p.opening
      /\ r.kind = p.kind /\ r.opened = p.opened /\ r.errCh = p.errCh
      /\ r.out = p.out /\ r.err = p.err /\ r.buf = p.buf /\ r.got = p.got
      /\ r.eof = p.eof /\ r.waiters = p.waiters
  BY <1>4 DEF Call
<1> HIDE DEF r
<1>7. ~ r.live
  BY <1>2, <1>3, <1>4, <1>6
<1>8. Answered(e, r)
  BY <1>2, <1>4, <1>6 DEF Answered
<1>9. CallShape(r)
  BY <1>1, <1>2, <1>3, <1>4, <1>6, <1>7 DEF CallShape, InRow
<1>10. Accounted(e, r, u, h, ch)
  BY <1>6 DEF Accounted
<1>11. Delivered(e, r, d, h, ch)
  BY <1>1, <1>3, <1>4, <1>6, <1>7 DEF Delivered
<1>12. ChanInv(e, r, d, u, h, ch)
  BY <1>2, <1>4, <1>5, <1>6, <1>8, <1>9, <1>10, <1>11, CallKeeps
<1> QED BY <1>5, <1>12 DEF r, p

\* A read takes the first unit of the buffer.
LEMMA TakeKeeps ==
    ASSUME NEW e \in Entry, NEW c \in Call, NEW d \in Seq(Frame), NEW u \in Seq(Request),
           NEW h \in Process, NEW ch \in Channels, ChanInv(e, c, d, u, h, ch),
           c.kind = "pty", c.live, c.buf # <<>>
    PROVE  LET r == [c EXCEPT !.got = Append(c.got, Head(c.buf)), !.buf = Tail(c.buf)]
           IN  r \in Call /\ ChanInv(e, r, d, u, h, ch)
<1> DEFINE gs == Append(c.got, Head(c.buf))
           bs == Tail(c.buf)
           r == [c EXCEPT !.got = gs, !.buf = bs]
<1>1. /\ Delivered(e, c, d, h, ch) /\ Answered(e, c) /\ CallShape(c) /\ Accounted(e, c, u, h, ch)
  BY DEF ChanInv
<1>2. c.got \in Seq(Nat) /\ c.buf \in Seq(Nat)
  BY DEF Call
<1>3. /\ bs \in Seq(Nat)
      /\ Len(c.buf) \in Nat /\ Len(c.buf) > 0 /\ Len(bs) = Len(c.buf) - 1
      /\ \A i \in 1 .. Len(bs) : bs[i] = c.buf[i + 1]
      /\ Head(c.buf) = c.buf[1] /\ Head(c.buf) \in Nat
  BY <1>2, TailFacts
<1>4. /\ gs \in Seq(Nat)
      /\ Len(c.got) \in Nat /\ Len(gs) = Len(c.got) + 1
      /\ \A i \in 1 .. Len(c.got) : gs[i] = c.got[i]
      /\ gs[Len(c.got) + 1] = Head(c.buf)
  BY <1>2, <1>3, AppendFacts
<1> HIDE DEF gs, bs
<1>5. Units(c.got, 0) /\ Units(c.buf, Len(c.got))
  BY <1>1 DEF CallShape, InRow
<1>6. Units(gs, 0)
  <2> SUFFICES ASSUME NEW i \in 1 .. Len(gs) PROVE gs[i] = 0 + i
    BY DEF Units
  <2>1. CASE i \in 1 .. Len(c.got)
    BY <1>4, <1>5, <2>1 DEF Units
  <2>2. CASE i = Len(c.got) + 1
    <3>1. 1 \in 1 .. Len(c.buf)
      BY <1>3
    <3>2. c.buf[1] = Len(c.got) + 1
      BY <1>5, <3>1 DEF Units
    <3> QED BY <1>3, <1>4, <2>2, <3>2
  <2> QED BY <1>4, <2>1, <2>2
<1>7. Units(bs, Len(gs))
  <2> SUFFICES ASSUME NEW i \in 1 .. Len(bs) PROVE bs[i] = Len(gs) + i
    BY DEF Units
  <2>1. i + 1 \in 1 .. Len(c.buf)
    BY <1>3
  <2>2. c.buf[i + 1] = Len(c.got) + (i + 1)
    BY <1>5, <2>1 DEF Units
  <2>3. i \in Nat
    BY <1>3
  <2>4. (Len(c.got) + 1) + i = Len(c.got) + (i + 1)
    BY <1>4, <2>3, SumFacts, Zenon
  <2> QED BY <1>3, <1>4, <2>2, <2>4, Zenon
<1>8. r \in Call
  BY <1>3, <1>4 DEF Call
<1>9. /\ r.got = gs /\ r.buf = bs
      /\ r.kind = c.kind /\ r.opened = c.opened /\ r.opening = c.opening /\ r.live = c.live
      /\ r.errCh = c.errCh
      /\ r.out = c.out /\ r.err = c.err /\ r.end = c.end
      /\ r.eof = c.eof /\ r.waiters = c.waiters /\ r.late = c.late
  BY DEF Call
<1> HIDE DEF r
<1>10. InRow(r)
  BY <1>6, <1>7, <1>9 DEF InRow
<1>11. ~ c.opening /\ ~ c.opened /\ c.end # "eof" /\ ~ c.errCh
  BY <1>1 DEF CallShape
<1>12. Answered(e, r)
  BY <1>1, <1>9 DEF Answered
<1>13. CallShape(r)
  BY <1>9, <1>10, <1>11 DEF CallShape
<1>14. Accounted(e, r, u, h, ch)
  BY <1>1, <1>9 DEF Accounted
<1>15. Len(r.got) + Len(r.buf) = Len(c.got) + Len(c.buf)
  <2>1. (Len(c.got) + 1) + (Len(c.buf) - 1) = Len(c.got) + Len(c.buf)
    BY <1>3, <1>4, SumFacts, Zenon
  <2> QED BY <2>1, <1>3, <1>4, <1>9, Zenon
<1>16. Delivered(e, r, d, h, ch)
  BY <1>1, <1>9, <1>15 DEF Delivered
<1>17. ChanInv(e, r, d, u, h, ch)
  BY <1>8, <1>9, <1>12, <1>13, <1>14, <1>16, CallKeeps
<1> QED BY <1>8, <1>17 DEF r, gs, bs

\* A read finds the end, waits, or gives up its wait.
LEMMA ReadKeeps ==
    ASSUME NEW e \in Entry, NEW c \in Call, NEW d \in Seq(Frame), NEW u \in Seq(Request),
           NEW h \in Process, NEW ch \in Channels, ChanInv(e, c, d, u, h, ch),
           NEW w \in Nat, NEW how,
           \/ /\ c.kind = "pty" /\ c.live /\ c.buf = <<>> /\ c.eof /\ how = "eof" /\ w = c.waiters
           \/ /\ c.kind = "pty" /\ c.live /\ ~ c.eof /\ how = c.end
           \/ /\ c.waiters > 0 /\ how = c.end,
           NEW r \in Call, r.waiters = w, r.end = how,
           r.kind = c.kind /\ r.opened = c.opened, r.opening = c.opening, r.live = c.live, r.errCh = c.errCh,
           r.out = c.out, r.err = c.err, r.buf = c.buf, r.got = c.got, r.eof = c.eof, r.late = c.late
    PROVE  ChanInv(e, r, d, u, h, ch)
<1>1. /\ Delivered(e, c, d, h, ch) /\ Answered(e, c) /\ CallShape(c) /\ Accounted(e, c, u, h, ch)
  BY DEF ChanInv
<1>3. /\ r.waiters = w /\ r.end = how
      /\ r.kind = c.kind /\ r.opened = c.opened /\ r.opening = c.opening /\ r.live = c.live
      /\ r.errCh = c.errCh
      /\ r.out = c.out /\ r.err = c.err /\ r.buf = c.buf /\ r.got = c.got
      /\ r.eof = c.eof /\ r.late = c.late
  OBVIOUS
<1>4. c.kind = "pty" /\ c.live
  BY <1>1 DEF Answered
<1>5. ~ c.opening /\ ~ c.opened /\ ~ c.errCh /\ InRow(c)
  BY <1>1, <1>4 DEF CallShape
<1>6. Answered(e, r)
  <2>1. CASE c.eof
    <3>1. ~ (c.waiters > 0)
      BY <1>1, <2>1 DEF Answered
    <3>2. w = c.waiters /\ c.waiters = 0
      BY <2>1, <3>1 DEF Call
    <3> QED BY <1>3, <1>4, <1>5, <2>1, <3>2 DEF Answered
  <2>2. CASE ~ c.eof
    <3>1. ~ Gone(e)
      BY <1>1, <1>4, <2>2 DEF Answered
    <3> QED BY <1>3, <1>4, <2>2, <3>1 DEF Answered
  <2> QED BY <2>1, <2>2
<1>7. how = "eof" => c.eof /\ c.buf = <<>>
  BY <1>1 DEF CallShape
<1>8. InRow(r)
  BY <1>3, <1>5 DEF InRow
<1>9. CallShape(r)
  BY <1>3, <1>4, <1>5, <1>7, <1>8 DEF CallShape
<1>10. Accounted(e, r, u, h, ch)
  BY <1>1, <1>3 DEF Accounted
<1>11. Delivered(e, r, d, h, ch)
  BY <1>1, <1>3, <1>4 DEF Delivered
<1>12. ChanInv(e, r, d, u, h, ch)
  BY <1>3, <1>4, <1>6, <1>9, <1>10, <1>11, CallKeeps
<1> QED BY <1>12

LEMMA ClosePtyKeeps ==
    ASSUME NEW e \in Entry, NEW c \in Call, NEW d \in Seq(Frame), NEW u \in Seq(Request),
           NEW h \in Process, NEW ch \in Channels, ChanInv(e, c, d, u, h, ch),
           c.kind = "pty", c.live, e.socket = "open" => Has(u, "close", ch)
    PROVE  LET r == [Eof(c) EXCEPT !.live = FALSE]
           IN  r \in Call /\ ChanInv(e, r, d, u, h, ch)
<1> DEFINE p == Eof(c)
           r == [p EXCEPT !.live = FALSE]
<1>1. Answered(e, c) /\ CallShape(c)
  BY DEF ChanInv
<1>2. InRow(c) /\ ~ c.opening /\ ~ c.opened /\ ~ c.errCh /\ (c.end = "eof" => c.buf = <<>>)
  BY <1>1 DEF CallShape
<1>3. /\ p \in Call
      /\ p.eof = TRUE /\ p.waiters = 0
      /\ p.kind = c.kind /\ p.opened = c.opened /\ p.opening = c.opening
      /\ p.errCh = c.errCh /\ p.out = c.out /\ p.err = c.err /\ p.late = c.late
      /\ InRow(p)
      /\ c.buf = <<>> => p.buf = <<>> /\ p.got = c.got
      /\ p.end = "eof" => p.buf = <<>> \/ c.end = "eof"
  BY <1>2, EofFacts
<1> HIDE DEF p
<1>4. r \in Call
  BY <1>3 DEF Call
<1>5. /\ r.live = FALSE /\ r.eof = p.eof /\ r.waiters = p.waiters /\ r.kind = p.kind
      /\ r.opened = p.opened
      /\ r.opening = p.opening /\ r.errCh = p.errCh /\ r.end = p.end
      /\ r.buf = p.buf /\ r.got = p.got
  BY <1>3 DEF Call
<1> HIDE DEF r
<1>6. Answered(e, r)
  BY <1>2, <1>3, <1>5 DEF Answered
<1>7. InRow(r)
  BY <1>3, <1>5 DEF InRow
<1>8. CallShape(r)
  BY <1>2, <1>3, <1>5, <1>7 DEF CallShape
<1>9. Accounted(e, r, u, h, ch)
  BY DEF Accounted
<1>10. Delivered(e, r, d, h, ch)
  BY <1>2, <1>3, <1>5 DEF Delivered
<1>11. ChanInv(e, r, d, u, h, ch)
  BY <1>2, <1>3, <1>4, <1>5, <1>6, <1>8, <1>9, <1>10, CallKeeps
<1> QED BY <1>4, <1>11 DEF r, p

-----------------------------------------------------------------------------
(* The steps                                                               *)

\* One cell of a table of tables is set.
LEMMA CellSet ==
    ASSUME NEW K, NEW C, NEW V, NEW f \in [K -> [C -> V]], NEW k \in K, NEW ch \in C, NEW v \in V,
           NEW g, g = [f EXCEPT ![k][ch] = v]
    PROVE  /\ g \in [K -> [C -> V]]
           /\ g[k][ch] = v
           /\ \A b \in C : b # ch => g[k][b] = f[k][b]
           /\ \A j \in K : j # k => g[j] = f[j]
OBVIOUS

LEMMA RowSet ==
    ASSUME NEW K, NEW V, NEW f \in [K -> V], NEW k \in K, NEW v \in V,
           NEW g, g = [f EXCEPT ![k] = v]
    PROVE  /\ g \in [K -> V]
           /\ g[k] = v
           /\ \A j \in K : j # k => g[j] = f[j]
OBVIOUS

\* A step of one connection keeps the invariant if it keeps it there.
LEMMA StepKeeps ==
    ASSUME ChannelsOK, NEW k \in Conns,
           \A j \in Conns : j # k => /\ conn'[j] = conn[j] /\ call'[j] = call[j]
                                     /\ down'[j] = down[j] /\ up'[j] = up[j] /\ host'[j] = host[j],
           \A ch \in Channels :
              ChanInv(conn'[k], call'[k][ch], down'[k], up'[k], host'[k][ch], ch)
    PROVE  ChannelsOK'
<1> SUFFICES ASSUME NEW j \in Conns, NEW ch \in Channels
             PROVE  ChanInv(conn'[j], call'[j][ch], down'[j], up'[j], host'[j][ch], ch)
  BY DEF ChannelsOK
<1>1. CASE j = k
  BY <1>1
<1>2. CASE j # k
  BY <1>2 DEF ChannelsOK
<1> QED BY <1>1, <1>2

LEMMA Cells ==
    ASSUME TypeOK, ChannelsOK, NEW k \in Conns
    PROVE  /\ conn[k] \in Entry /\ down[k] \in Seq(Frame) /\ up[k] \in Seq(Request)
           /\ \A ch \in Channels : /\ call[k][ch] \in Call
                                   /\ host[k][ch] \in Process
                                   /\ ChanInv(conn[k], call[k][ch], down[k], up[k], host[k][ch], ch)
BY DEF TypeOK, ChannelsOK

\* When a task is over every call is shown as it is.
LEMMA RestSeen ==
    ASSUME AtRest
    PROVE  IInv /\ \A k \in Conns, ch \in Channels :
                      ~ call[k][ch].opened /\ Shown(call[k][ch]) = call[k][ch]
<1>1. ASSUME NEW k \in Conns, NEW ch \in Channels
      PROVE  ~ call[k][ch].opened /\ Shown(call[k][ch]) = call[k][ch]
  <2>1. call[k][ch] \in Call
    BY DEF AtRest, TypeOK
  <2>2. ~ call[k][ch].opened
    BY DEF AtRest, ChannelsOK, ChanInv, CallShape
  <2> QED BY <2>1, <2>2, ShownFacts
<1>2. SeenOK
  BY <1>1 DEF AtRest, ChannelsOK, SeenOK
<1> QED BY <1>1, <1>2 DEF AtRest, IInv

LEMMA RestSeenNext ==
    ASSUME AtRest'
    PROVE  IInv'
<1>1. ASSUME NEW k \in Conns, NEW ch \in Channels
      PROVE  Shown(call'[k][ch]) = call'[k][ch]
  <2>1. call'[k][ch] \in Call
    BY DEF AtRest, TypeOK
  <2>2. ~ call'[k][ch].opened
    BY DEF AtRest, ChannelsOK, ChanInv, CallShape
  <2> QED BY <2>1, <2>2, ShownFacts
<1>2. SeenOK'
  BY <1>1 DEF AtRest, ChannelsOK, SeenOK, Shown
<1> QED BY <1>2 DEF AtRest, IInv

LEMMA OverAtRest ==
    ASSUME IInv, TaskOver
    PROVE  AtRest
<1>1. ASSUME NEW k \in Conns, NEW ch \in Channels
      PROVE  Shown(call[k][ch]) = call[k][ch]
  <2>1. call[k][ch] \in Call /\ ~ call[k][ch].opened
    BY DEF IInv, TypeOK, TaskOver
  <2> QED BY <2>1, ShownFacts
<1>2. ChannelsOK
  BY <1>1 DEF IInv, ChannelsOK, SeenOK
<1> QED BY <1>2 DEF AtRest, IInv

LEMMA SeenKeeps ==
    ASSUME SeenOK, NEW k \in Conns,
           \A j \in Conns : j # k => /\ conn'[j] = conn[j] /\ call'[j] = call[j]
                                     /\ down'[j] = down[j] /\ up'[j] = up[j] /\ host'[j] = host[j],
           \A ch \in Channels :
              ChanInv(conn'[k], Shown(call'[k][ch]), down'[k], up'[k], host'[k][ch], ch)
    PROVE  SeenOK'
<1> SUFFICES ASSUME NEW j \in Conns, NEW ch \in Channels
             PROVE  ChanInv(conn'[j], Shown(call'[j][ch]), down'[j], up'[j], host'[j][ch], ch)
  BY DEF SeenOK, Shown
<1>1. CASE j = k
  BY <1>1
<1>2. CASE j # k
  BY <1>2 DEF SeenOK
<1> QED BY <1>1, <1>2

LEMMA SeenCells ==
    ASSUME TypeOK, SeenOK, NEW k \in Conns
    PROVE  /\ conn[k] \in Entry /\ down[k] \in Seq(Frame) /\ up[k] \in Seq(Request)
           /\ \A ch \in Channels :
                /\ Shown(call[k][ch]) \in Call
                /\ host[k][ch] \in Process
                /\ ChanInv(conn[k], Shown(call[k][ch]), down[k], up[k], host[k][ch], ch)
<1>1. /\ conn[k] \in Entry /\ down[k] \in Seq(Frame) /\ up[k] \in Seq(Request)
      /\ \A ch \in Channels : call[k][ch] \in Call /\ host[k][ch] \in Process
  BY DEF TypeOK
<1>2. \A ch \in Channels : Shown(call[k][ch]) \in Call
  BY <1>1, ShownFacts
<1> QED BY <1>1, <1>2 DEF SeenOK

LEMMA InitInv == Init => AtRest
<1> SUFFICES ASSUME Init PROVE AtRest
  OBVIOUS
<1>1. NoEntry \in Entry
  BY DEF NoEntry, Entry
<1>2. NoCall \in Call
  <2>1. <<>> \in Seq(Nat)
    OBVIOUS
  <2> QED BY <2>1 DEF NoCall, Call, Kinds
<1>3. NoProcess \in Process
  BY DEF NoProcess, Process
<1>4. TypeOK
  <2>1. <<>> \in Seq(Frame) /\ <<>> \in Seq(Request)
    OBVIOUS
  <2> QED BY <1>1, <1>2, <1>3, <2>1 DEF Init, TypeOK
<1>5. DialShape
  BY DEF Init, DialShape, NoEntry
<1>6. ChannelsOK
  <2> SUFFICES ASSUME NEW k \in Conns, NEW ch \in Channels
               PROVE  ChanInv(conn[k], call[k][ch], down[k], up[k], host[k][ch], ch)
    BY DEF ChannelsOK
  <2>1. call[k][ch] = NoCall /\ host[k][ch] = NoProcess /\ down[k] = <<>> /\ up[k] = <<>>
    BY DEF Init
  <2>2. Unused(call[k][ch], down[k], up[k], host[k][ch], ch)
    BY <2>1 DEF Unused, Silent
  <2> QED BY <1>4, <2>2, UnusedKeeps DEF TypeOK
<1> QED BY <1>4, <1>5, <1>6 DEF AtRest

\* A connection being dialled has given no channel out.
LEMMA DialledNothing ==
    ASSUME AtRest, NEW k \in Conns, dial = k \/ ~ conn[k].awaited \/ ~ conn[k].known
    PROVE  /\ conn[k].next = 1
           /\ \A ch \in Channels : Unused(call[k][ch], down[k], up[k], host[k][ch], ch)
<1>1. conn[k].next = 1
  BY DEF AtRest, DialShape
<1>2. \A ch \in Channels : ch >= 1
  BY LinkAssumption DEF Channels
<1> QED BY <1>1, <1>2 DEF AtRest, ChannelsOK, ChanInv

LEMMA ConnectStep ==
    ASSUME AtRest, NEW k \in Conns, Connect(k) \/ ConnectThrows(k)
    PROVE  AtRest'
<1>1. conn[k] = NoEntry /\ dial' = k
  BY DEF Connect, ConnectThrows
<1>2. PICK e \in Entry : conn' = [conn EXCEPT ![k] = e] /\ e.next = 1
  <2> DEFINE e1 == [NoEntry EXCEPT !.known = TRUE, !.state = "connected",
                                   !.socket = "open", !.awaited = TRUE]
             e2 == [NoEntry EXCEPT !.known = TRUE, !.state = "connected"]
  <2>1. e1 \in Entry /\ e1.next = 1 /\ e2 \in Entry /\ e2.next = 1
    BY DEF NoEntry, Entry
  <2>2. conn' = [conn EXCEPT ![k] = e1] \/ conn' = [conn EXCEPT ![k] = e2]
    BY DEF Connect, ConnectThrows
  <2> HIDE DEF e1, e2
  <2> QED BY <2>1, <2>2
<1>3. UNCHANGED <<call, down, up, host>>
  BY DEF Connect, ConnectThrows
<1>4. TypeOK /\ DialShape /\ ChannelsOK
  BY DEF AtRest
<1>5. conn \in [Conns -> Entry]
  BY <1>4 DEF TypeOK
<1>6. /\ conn' \in [Conns -> Entry]
      /\ conn'[k] = e
      /\ \A j \in Conns : j # k => conn'[j] = conn[j]
  BY <1>2, <1>5, RowSet
<1>7. ops' \in Nat /\ faults' \in Nat
  BY <1>4 DEF TypeOK, Connect, ConnectThrows, Op, Fault
<1>8. TypeOK'
  BY <1>1, <1>3, <1>4, <1>6, <1>7 DEF TypeOK
<1>9. DialShape'
  <2> SUFFICES ASSUME NEW j \in Conns, dial' = j \/ ~ conn'[j].awaited \/ ~ conn'[j].known
               PROVE  conn'[j].next = 1
    BY DEF DialShape
  <2>1. CASE j = k
    BY <1>2, <1>6, <2>1
  <2>2. CASE j # k
    BY <1>1, <1>4, <1>6, <2>2 DEF DialShape
  <2> QED BY <2>1, <2>2
<1>10. \A ch \in Channels : Unused(call[k][ch], down[k], up[k], host[k][ch], ch)
  BY <1>1, DialledNothing DEF NoEntry
<1>11. \A ch \in Channels :
         ChanInv(conn'[k], call'[k][ch], down'[k], up'[k], host'[k][ch], ch)
  <2> TAKE ch \in Channels
  <2>1. ChanInv(e, call[k][ch], down[k], up[k], host[k][ch], ch)
    BY <1>4, <1>10, UnusedKeeps, Cells
  <2> QED BY <2>1, <1>3, <1>6
<1>12. ChannelsOK'
  BY <1>3, <1>4, <1>6, <1>11, StepKeeps
<1> QED BY <1>8, <1>9, <1>12 DEF AtRest

\* The dial of k fails: with its own frame taken off the queue, or without.
LEMMA FailDialKeeps ==
    ASSUME AtRest, NEW k \in Conns, dial = k, FailDial(k), UNCHANGED <<call, up, host, ops, faults>>,
           down' = down \/ (down[k] # <<>> /\ down' = [down EXCEPT ![k] = Tail(down[k])])
    PROVE  AtRest'
<1>1. TypeOK /\ DialShape /\ ChannelsOK
  BY DEF AtRest
<1>2. conn[k] \in Entry /\ conn \in [Conns -> Entry]
  BY <1>1 DEF TypeOK
<1>3. conn[k].next = 1 /\ \A ch \in Channels : Unused(call[k][ch], down[k], up[k], host[k][ch], ch)
  BY DialledNothing
<1>4. /\ conn' \in [Conns -> Entry]
      /\ conn'[k].next = 1
      /\ \A j \in Conns : j # k => conn'[j] = conn[j]
  <2>1. CASE conn[k].awaited
    <3> DEFINE e == [conn[k] EXCEPT !.known = FALSE, !.state = "closed"]
    <3>1. e \in Entry /\ e.next = 1
      BY <1>2, <1>3 DEF Entry
    <3>2. conn' = [conn EXCEPT ![k] = e]
      BY <1>2, <2>1 DEF FailDial
    <3> HIDE DEF e
    <3> QED BY <1>2, <3>1, <3>2, RowSet
  <2>2. CASE ~ conn[k].awaited
    BY <1>2, <1>3, <2>2 DEF FailDial
  <2> QED BY <2>1, <2>2
<1>5. dial' = NoConn /\ NoConn \notin Conns
  BY LinkAssumption DEF FailDial
<1>6. /\ down' \in [Conns -> Seq(Frame)]
      /\ down'[k] = down[k] \/ (down[k] # <<>> /\ down'[k] = Tail(down[k]))
      /\ \A j \in Conns : j # k => down'[j] = down[j]
  <2>1. down \in [Conns -> Seq(Frame)]
    BY <1>1 DEF TypeOK
  <2>2. CASE down' = down
    BY <2>1, <2>2
  <2>3. CASE down[k] # <<>> /\ down' = [down EXCEPT ![k] = Tail(down[k])]
    <3>1. Tail(down[k]) \in Seq(Frame)
      BY <2>1, <2>3, TailFacts
    <3> QED BY <2>1, <2>3, <3>1, RowSet
  <2> QED BY <2>2, <2>3
<1>7. TypeOK'
  BY <1>1, <1>4, <1>5, <1>6 DEF TypeOK
<1>8. DialShape'
  BY <1>1, <1>4, <1>5 DEF DialShape
<1>9. \A ch \in Channels :
        ChanInv(conn'[k], call'[k][ch], down'[k], up'[k], host'[k][ch], ch)
  <2> TAKE ch \in Channels
  <2>1. Unused(call[k][ch], down'[k], up[k], host[k][ch], ch)
    <3>1. down[k] \in Seq(Frame)
      BY <1>1 DEF TypeOK
    <3>2. /\ call[k][ch] = NoCall /\ host[k][ch] = NoProcess
          /\ Silent(down[k], ch) /\ Silent(up[k], ch)
      BY <1>3 DEF Unused
    <3>3. down[k] # <<>> => Silent(Tail(down[k]), ch)
      BY <3>1, <3>2, SilentTail
    <3>4. Silent(down'[k], ch)
      BY <1>6, <3>2, <3>3
    <3> QED BY <3>2, <3>4 DEF Unused
  <2>2. conn'[k] \in Entry /\ down'[k] \in Seq(Frame) /\ up[k] \in Seq(Request)
    BY <1>1, <1>4, <1>6 DEF TypeOK
  <2> QED BY <2>1, <2>2, UnusedKeeps
<1>10. ChannelsOK'
  BY <1>1, <1>4, <1>6, <1>9, StepKeeps
<1> QED BY <1>7, <1>8, <1>10 DEF AtRest

LEMMA DialTimesOutStep ==
    ASSUME AtRest, DialTimesOut
    PROVE  AtRest'
<1>1. dial \in Conns
  BY DEF AtRest, TypeOK, DialTimesOut
<1> QED BY <1>1, FailDialKeeps DEF DialTimesOut

\* The entry of k is closed: what that does to the entry and to the calls.
LEMMA CloseEntryFacts ==
    ASSUME TypeOK, NEW k \in Conns, NEW state \in {"lost", "closed"}, CloseEntry(k, state)
    PROVE  /\ conn' \in [Conns -> Entry]
           /\ conn'[k].state = state /\ conn'[k].socket # "open"
           /\ conn'[k].next = conn[k].next
           /\ conn'[k].awaited = conn[k].awaited /\ conn'[k].known = conn[k].known
           /\ \A j \in Conns : j # k => conn'[j] = conn[j]
           /\ \A ch \in Channels : call'[k][ch] = Abandon(call[k][ch])
           /\ \A j \in Conns : j # k => call'[j] = call[j]
           /\ call' = [call EXCEPT ![k] = [ch \in Channels |-> Abandon(call[k][ch])]]
<1> DEFINE s == IF conn[k].socket = "open" THEN "closing" ELSE conn[k].socket
           e == [conn[k] EXCEPT !.socket = s, !.schedule = FALSE, !.state = state]
<1>1. conn \in [Conns -> Entry] /\ conn[k] \in Entry
  BY DEF TypeOK
<1>2. s \in {"none", "open", "closing", "dropped"} /\ s # "open"
  BY <1>1 DEF Entry
<1> HIDE DEF s
<1>3. /\ e \in Entry /\ e.state = state /\ e.socket = s /\ e.next = conn[k].next
      /\ e.awaited = conn[k].awaited /\ e.known = conn[k].known
  BY <1>1, <1>2 DEF Entry
<1>4. conn' = [conn EXCEPT ![k] = e]
  BY <1>1 DEF CloseEntry, s
<1> HIDE DEF e
<1>5. call' = [call EXCEPT ![k] = [ch \in Channels |-> Abandon(call[k][ch])]]
  BY DEF CloseEntry
<1>6. call \in [Conns -> [Channels -> Call]]
  BY DEF TypeOK
<1>7. /\ \A ch \in Channels : call'[k][ch] = Abandon(call[k][ch])
      /\ \A j \in Conns : j # k => call'[j] = call[j]
  BY <1>5, <1>6
<1>8. /\ conn' \in [Conns -> Entry] /\ conn'[k] = e
      /\ \A j \in Conns : j # k => conn'[j] = conn[j]
  BY <1>1, <1>3, <1>4, RowSet
<1> QED BY <1>2, <1>3, <1>5, <1>7, <1>8

\* Closing the entry keeps the invariant, whatever the socket still says.
LEMMA CloseEntryKeeps ==
    ASSUME AtRest, NEW k \in Conns, NEW state \in {"lost", "closed"}, CloseEntry(k, state),
           NEW q \in Seq(Frame), q = down[k] \/ (down[k] # <<>> /\ q = Tail(down[k])),
           down[k] # <<>> /\ q = Tail(down[k]) => Head(down[k]).ch = 0,
           down' = [down EXCEPT ![k] = SocketEnds(k, q)],
           UNCHANGED <<dial, up, host, faults>>, ops' \in Nat
    PROVE  AtRest'
<1>1. TypeOK /\ DialShape /\ ChannelsOK
  BY DEF AtRest
<1>2. /\ conn' \in [Conns -> Entry]
      /\ conn'[k].state = state /\ conn'[k].socket # "open"
      /\ conn'[k].next = conn[k].next
      /\ conn'[k].awaited = conn[k].awaited /\ conn'[k].known = conn[k].known
      /\ \A j \in Conns : j # k => conn'[j] = conn[j]
      /\ \A ch \in Channels : call'[k][ch] = Abandon(call[k][ch])
      /\ \A j \in Conns : j # k => call'[j] = call[j]
      /\ call' = [call EXCEPT ![k] = [ch \in Channels |-> Abandon(call[k][ch])]]
  BY <1>1, CloseEntryFacts
<1> DEFINE x == [t |-> "closed", ch |-> 0]
           z == SocketEnds(k, q)
<1>3. x \in Frame /\ x.ch = 0
  BY DEF Frame, RelayFrame
<1>4. z = q \/ z = Append(q, x)
  BY DEF SocketEnds
<1>5. z \in Seq(Frame)
  BY <1>3, <1>4, AppendFacts
<1>6. down \in [Conns -> Seq(Frame)]
  BY <1>1 DEF TypeOK
<1>7. down' = [down EXCEPT ![k] = z]
  OBVIOUS
<1> HIDE DEF x, z
<1>8. /\ down' \in [Conns -> Seq(Frame)] /\ down'[k] = z
      /\ \A j \in Conns : j # k => down'[j] = down[j]
  BY <1>5, <1>6, <1>7, RowSet
<1>9. ASSUME NEW ch \in Channels
      PROVE  /\ Abandon(call[k][ch]) \in Call
             /\ ChanInv(conn'[k], call'[k][ch], down'[k], up'[k], host'[k][ch], ch)
  <2> DEFINE e == conn[k]
             c == call[k][ch]
             e2 == conn'[k]
             r == Abandon(c)
             u == up[k]
             h == host[k][ch]
             d == down[k]
  <2>1. /\ e \in Entry /\ d \in Seq(Frame) /\ u \in Seq(Request) /\ c \in Call /\ h \in Process
        /\ ChanInv(e, c, d, u, h, ch)
    BY <1>1, Cells
  <2>2. e2 \in Entry /\ Gone(e2) /\ e2.next = e.next /\ e2.socket # "open"
    BY <1>2 DEF Gone
  <2>3. ch # 0
    BY LinkAssumption DEF Channels
  <2>4. q = d \/ (d # <<>> /\ q = Tail(d) /\ Head(d).ch # ch)
    BY <2>3
  <2>5. call'[k][ch] = r /\ up'[k] = u /\ host'[k][ch] = h
    BY <1>2
  <2> HIDE DEF e, c, e2, u, h, d
  <2>6. r \in Call /\ ChanInv(e2, r, d, u, h, ch)
    BY <2>1, <2>2, AbandonKeeps
  <2> HIDE DEF r
  <2>7. ChanInv(e2, r, q, u, h, ch)
    BY <2>1, <2>2, <2>4, <2>6, SkipKeeps
  <2>8. ChanInv(e2, r, z, u, h, ch)
    <3>1. ChanInv(e2, r, Append(q, x), u, h, ch)
      BY <1>3, <2>1, <2>2, <2>3, <2>6, <2>7, FrameKeeps
    <3> QED BY <1>4, <2>7, <3>1
  <2>9. r \in Call /\ ChanInv(e2, call'[k][ch], down'[k], up'[k], host'[k][ch], ch)
    BY <1>8, <2>5, <2>6, <2>8
  <2> QED BY <2>9 DEF e2, r, c
<1>10. call' \in [Conns -> [Channels -> Call]]
  <2>1. [ch \in Channels |-> Abandon(call[k][ch])] \in [Channels -> Call]
    BY <1>9
  <2> QED BY <1>1, <1>2, <2>1, RowSet DEF TypeOK
<1>11. TypeOK'
  BY <1>1, <1>2, <1>8, <1>10 DEF TypeOK
<1>12. DialShape'
  BY <1>1, <1>2 DEF DialShape
<1>13. ChannelsOK'
  BY <1>1, <1>2, <1>8, <1>9, StepKeeps
<1> QED BY <1>11, <1>12, <1>13 DEF AtRest

\* Only frames leave or join the queue to the client.
LEMMA QueueStep ==
    ASSUME IInv, NEW k \in Conns, NEW q \in Seq(Frame),
           down' = [down EXCEPT ![k] = q],
           UNCHANGED <<dial, conn, call, up, host>>, ops' \in Nat, faults' \in Nat,
           \A ch \in Channels : ChanInv(conn[k], Shown(call[k][ch]), q, up[k], host[k][ch], ch)
    PROVE  IInv'
<1>1. TypeOK /\ DialShape /\ SeenOK
  BY DEF IInv
<1>2. down \in [Conns -> Seq(Frame)]
  BY <1>1 DEF TypeOK
<1>3. /\ down' \in [Conns -> Seq(Frame)] /\ down'[k] = q
      /\ \A j \in Conns : j # k => down'[j] = down[j]
  BY <1>2, RowSet
<1>4. TypeOK'
  BY <1>1, <1>3 DEF TypeOK
<1>5. DialShape'
  BY <1>1 DEF DialShape
<1>6. SeenOK'
  BY <1>1, <1>3, SeenKeeps
<1> QED BY <1>4, <1>5, <1>6 DEF IInv

LEMMA LoseKeeps ==
    ASSUME AtRest, NEW k \in Conns, NEW q \in Seq(Frame),
           q = down[k] \/ (down[k] # <<>> /\ q = Tail(down[k])),
           down[k] # <<>> /\ q = Tail(down[k]) => Head(down[k]).ch = 0,
           LoseConnection(k, q), UNCHANGED <<dial, up, host, faults>>, ops' \in Nat
    PROVE  IInv'
<1>1. CASE conn[k].state = "connected"
  BY <1>1, CloseEntryKeeps, RestSeenNext DEF LoseConnection
<1>2. CASE conn[k].state # "connected"
  <2>1. UNCHANGED <<conn, call>> /\ down' = [down EXCEPT ![k] = q]
    BY <1>2 DEF LoseConnection
  <2>2. TypeOK /\ ChannelsOK
    BY DEF AtRest
  <2>3. ASSUME NEW ch \in Channels
        PROVE  ChanInv(conn[k], call[k][ch], q, up[k], host[k][ch], ch)
    <3>1. /\ conn[k] \in Entry /\ down[k] \in Seq(Frame) /\ up[k] \in Seq(Request)
          /\ call[k][ch] \in Call /\ host[k][ch] \in Process
          /\ ChanInv(conn[k], call[k][ch], down[k], up[k], host[k][ch], ch)
      BY <2>2, Cells
    <3>2. ch # 0
      BY LinkAssumption DEF Channels
    <3>3. CASE q = down[k]
      BY <3>1, <3>3
    <3>4. CASE down[k] # <<>> /\ q = Tail(down[k])
      BY <3>1, <3>2, <3>4, SkipKeeps
    <3> QED BY <3>3, <3>4
  <2>4. faults' \in Nat
    BY <2>2 DEF TypeOK
  <2>5. \A ch \in Channels : ChanInv(conn[k], Shown(call[k][ch]), q, up[k], host[k][ch], ch)
    BY <2>3, RestSeen
  <2> QED BY <2>1, <2>4, <2>5, RestSeen, QueueStep
<1> QED BY <1>1, <1>2

LEMMA CloseStep ==
    ASSUME AtRest, NEW k \in Conns, CloseConnection(k) \/ ScheduledClose(k)
    PROVE  AtRest'
<1>1. Close(k) /\ ops' \in Nat
  BY DEF CloseConnection, ScheduledClose, Op, AtRest, TypeOK
<1>2. /\ CloseEntry(k, "closed") /\ down' = [down EXCEPT ![k] = SocketEnds(k, down[k])]
      /\ UNCHANGED <<dial, up, host, faults>>
  BY <1>1 DEF Close
<1>3. down[k] \in Seq(Frame)
  BY DEF AtRest, TypeOK
<1>4. ~ (down[k] # <<>> /\ down[k] = Tail(down[k]))
  <2> SUFFICES ASSUME down[k] # <<>>, down[k] = Tail(down[k]) PROVE FALSE
    OBVIOUS
  <2>1. Len(down[k]) \in Nat /\ Len(down[k]) = Len(down[k]) - 1
    BY <1>3, TailFacts
  <2> QED BY <2>1
<1> QED BY <1>1, <1>2, <1>3, <1>4, CloseEntryKeeps

LEMMA CancelOperationStep ==
    ASSUME AtRest, NEW k \in Conns, CancelOperation(k)
    PROVE  IInv'
<1>1. LoseConnection(k, down[k]) /\ UNCHANGED <<dial, up, host, faults>> /\ ops' \in Nat
  BY DEF CancelOperation, Op, AtRest, TypeOK
<1>2. down[k] \in Seq(Frame)
  BY DEF AtRest, TypeOK
<1>3. ~ (down[k] # <<>> /\ down[k] = Tail(down[k]))
  <2> SUFFICES ASSUME down[k] # <<>>, down[k] = Tail(down[k]) PROVE FALSE
    OBVIOUS
  <2>1. Len(down[k]) \in Nat /\ Len(down[k]) = Len(down[k]) - 1
    BY <1>2, TailFacts
  <2> QED BY <2>1
<1> QED BY <1>1, <1>2, <1>3, LoseKeeps

\* A frame of the relay is heard.
LEMMA HearRelayStep ==
    ASSUME AtRest, NEW k \in Conns, down[k] # <<>>, Head(down[k]).ch = 0,
           NEW t, HearRelay(k, t, Tail(down[k])), UNCHANGED <<up, host, ops, faults>>
    PROVE  IInv'
<1>1. TypeOK /\ DialShape /\ ChannelsOK
  BY DEF AtRest
<1>2. Tail(down[k]) \in Seq(Frame) /\ ops' \in Nat /\ faults' \in Nat
  BY <1>1, TailFacts DEF TypeOK
<1>3. ASSUME NEW ch \in Channels
      PROVE  ChanInv(conn[k], call[k][ch], Tail(down[k]), up[k], host[k][ch], ch)
  <2>1. /\ conn[k] \in Entry /\ down[k] \in Seq(Frame) /\ up[k] \in Seq(Request)
        /\ call[k][ch] \in Call /\ host[k][ch] \in Process
        /\ ChanInv(conn[k], call[k][ch], down[k], up[k], host[k][ch], ch)
    BY <1>1, Cells
  <2>2. Head(down[k]).ch # ch
    BY LinkAssumption DEF Channels
  <2> QED BY <2>1, <2>2, SkipKeeps
<1>3a. IInv /\ \A ch \in Channels : Shown(call[k][ch]) = call[k][ch]
  BY RestSeen
<1>3b. \A ch \in Channels :
         ChanInv(conn[k], Shown(call[k][ch]), Tail(down[k]), up[k], host[k][ch], ch)
  BY <1>3, <1>3a
<1>4. CASE t = "ready" /\ dial # k
  <2>1. UNCHANGED <<dial, conn, call>> /\ down' = [down EXCEPT ![k] = Tail(down[k])]
    BY <1>4 DEF HearRelay
  <2> QED BY <1>2, <1>3a, <1>3b, <2>1, QueueStep
<1>5. CASE t = "ready" /\ dial = k
  <2>1. dial' = NoConn /\ UNCHANGED <<conn, call>> /\ down' = [down EXCEPT ![k] = Tail(down[k])]
    BY <1>5 DEF HearRelay
  <2>2. NoConn \notin Conns
    BY LinkAssumption
  <2>3. down \in [Conns -> Seq(Frame)]
    BY <1>1 DEF TypeOK
  <2>4. /\ down' \in [Conns -> Seq(Frame)] /\ down'[k] = Tail(down[k])
        /\ \A j \in Conns : j # k => down'[j] = down[j]
    BY <1>2, <2>1, <2>3, RowSet
  <2>5. TypeOK'
    BY <1>1, <2>1, <2>4 DEF TypeOK
  <2>6. DialShape'
    BY <1>1, <2>1, <2>2 DEF DialShape
  <2>7. ChannelsOK'
    BY <1>1, <1>3, <2>1, <2>4, StepKeeps
  <2> QED BY <2>5, <2>6, <2>7, RestSeenNext DEF AtRest
<1>6. CASE t # "ready" /\ dial = k
  <2>1. FailDial(k) /\ down' = [down EXCEPT ![k] = Tail(down[k])] /\ UNCHANGED call
    BY <1>6 DEF HearRelay
  <2> QED BY <1>6, <2>1, FailDialKeeps, RestSeenNext
<1>7. CASE t = "sockerror" /\ dial # k
  <2>1. UNCHANGED <<dial, conn, call>> /\ down' = [down EXCEPT ![k] = Tail(down[k])]
    BY <1>7 DEF HearRelay
  <2> QED BY <1>2, <1>3a, <1>3b, <2>1, QueueStep
<1>8. CASE t # "ready" /\ t # "sockerror" /\ dial # k
  <2>1. LoseConnection(k, Tail(down[k])) /\ UNCHANGED dial
    BY <1>8 DEF HearRelay
  <2> QED BY <1>2, <2>1, LoseKeeps
<1> QED BY <1>4, <1>5, <1>6, <1>7, <1>8

LEMMA HearStep ==
    ASSUME AtRest, NEW k \in Conns, Hear(k)
    PROVE  IInv'
<1> DEFINE f == Head(down[k])
<1>1. TypeOK /\ DialShape /\ ChannelsOK
  BY DEF AtRest
<1>2. down[k] # <<>> /\ UNCHANGED <<up, host, ops, faults>>
  BY DEF Hear
<1>3. down[k] \in Seq(Frame) /\ down \in [Conns -> Seq(Frame)]
  BY <1>1 DEF TypeOK
<1>4. Tail(down[k]) \in Seq(Frame) /\ f \in Frame
  BY <1>2, <1>3, TailFacts
<1>5. CASE f.ch = 0
  <2>1. HearRelay(k, f.t, Tail(down[k]))
    BY <1>5 DEF Hear
  <2> QED BY <1>2, <1>5, <2>1, HearRelayStep
<1>6. CASE f.ch # 0
  <2>1. f.ch \in Channels
    BY <1>4, <1>6, FrameFacts
  <2> DEFINE ch == f.ch
             r == HearChannel(call[k][ch], f)
  <2>2. /\ call' = [call EXCEPT ![k][ch] = r]
        /\ down' = [down EXCEPT ![k] = Tail(down[k])]
        /\ UNCHANGED <<dial, conn>>
    BY <1>1, <1>3, <1>6, <2>1 DEF Hear, TypeOK
  <2>3. \A b \in Channels : /\ call[k][b] \in Call /\ host[k][b] \in Process
                            /\ ChanInv(conn[k], call[k][b], down[k], up[k], host[k][b], b)
    BY <1>1, Cells
  <2>4. conn[k] \in Entry /\ up[k] \in Seq(Request)
    BY <1>1, Cells
  <2>5. r \in Call /\ ChanInv(conn[k], Shown(r), Tail(down[k]), up[k], host[k][ch], ch)
    BY <1>2, <1>3, <2>1, <2>3, <2>4, HearKeeps
  <2> HIDE DEF r
  <2>6. /\ call' \in [Conns -> [Channels -> Call]]
        /\ call'[k][ch] = r
        /\ \A b \in Channels : b # ch => call'[k][b] = call[k][b]
        /\ \A j \in Conns : j # k => call'[j] = call[j]
    <3>1. call \in [Conns -> [Channels -> Call]]
      BY <1>1 DEF TypeOK
    <3> HIDE DEF ch
    <3>2. ch \in Channels
      BY <2>1 DEF ch
    <3> QED BY <2>2, <2>5, <3>1, <3>2, CellSet
  <2>7. /\ down' \in [Conns -> Seq(Frame)] /\ down'[k] = Tail(down[k])
        /\ \A j \in Conns : j # k => down'[j] = down[j]
    BY <1>3, <1>4, <2>2, RowSet
  <2>8. ASSUME NEW b \in Channels
        PROVE  ChanInv(conn'[k], Shown(call'[k][b]), down'[k], up'[k], host'[k][b], b)
    <3>1. CASE b = ch
      BY <1>2, <2>2, <2>5, <2>6, <2>7, <3>1
    <3>2. CASE b # ch
      <4>1. ChanInv(conn[k], call[k][b], Tail(down[k]), up[k], host[k][b], b)
        BY <1>2, <1>3, <2>3, <2>4, <3>2, SkipKeeps
      <4>2. ChanInv(conn[k], Shown(call[k][b]), Tail(down[k]), up[k], host[k][b], b)
        BY <4>1, RestSeen
      <4> QED BY <1>2, <2>2, <2>6, <2>7, <3>2, <4>2
    <3> QED BY <3>1, <3>2
  <2>9. TypeOK'
    BY <1>1, <1>2, <2>2, <2>6, <2>7 DEF TypeOK
  <2>10. DialShape'
    BY <1>1, <2>2 DEF DialShape
  <2>11. SeenOK
    BY RestSeen DEF IInv
  <2>12. SeenOK'
    BY <1>1, <1>2, <2>2, <2>6, <2>7, <2>8, <2>11, SeenKeeps
  <2> QED BY <2>9, <2>10, <2>12 DEF IInv
<1> QED BY <1>5, <1>6

\* A frame sent to the host joins its queue, or is swallowed.
LEMMA SendFacts ==
    ASSUME TypeOK, NEW k \in Conns, NEW t \in {"open", "close"}, NEW ch \in Channels, Send(k, t, ch)
    PROVE  /\ up' \in [Conns -> Seq(Request)]
           /\ \A j \in Conns : j # k => up'[j] = up[j]
           /\ [t |-> t, ch |-> ch] \in Request
           /\ up'[k] = IF conn[k].socket = "open" THEN Append(up[k], [t |-> t, ch |-> ch]) ELSE up[k]
<1> DEFINE y == [t |-> t, ch |-> ch]
           v == IF conn[k].socket = "open" THEN Append(up[k], y) ELSE up[k]
<1>1. y \in Request
  BY DEF Request
<1>2. up \in [Conns -> Seq(Request)]
  BY DEF TypeOK
<1>3. v \in Seq(Request)
  BY <1>1, <1>2, AppendFacts
<1>4. up' = [up EXCEPT ![k] = v]
  BY <1>2 DEF Send
<1> HIDE DEF v
<1>5. up' \in [Conns -> Seq(Request)] /\ up'[k] = v /\ \A j \in Conns : j # k => up'[j] = up[j]
  BY <1>2, <1>3, <1>4, RowSet
<1> QED BY <1>1, <1>5 DEF v

LEMMA OpenStep ==
    ASSUME AtRest, NEW k \in Conns, NEW c \in Call, OpenChannel(k, c),
           c.kind \in {"exec", "pty"}, c.live = (c.kind = "exec"),
           c.eof = FALSE, c.end = "no", c.buf = <<>>, c.got = <<>>, c.waiters = 0,
           c.opened = FALSE, c.errCh = FALSE, c.out = 0, c.err = 0
    PROVE  AtRest'
<1> DEFINE ch == conn[k].next
           r == [c EXCEPT !.opening = TRUE]
           e == [conn[k] EXCEPT !.next = ch + 1]
<1>1. TypeOK /\ DialShape /\ ChannelsOK
  BY DEF AtRest
<1>2. /\ ch \in Channels /\ Dialled(k) /\ conn[k].state = "connected"
      /\ Send(k, "open", ch)
      /\ UNCHANGED <<dial, down, host, faults>>
      /\ ops' \in Nat
  BY <1>1 DEF OpenChannel, Op, TypeOK
<1>3. conn[k] \in Entry /\ conn \in [Conns -> Entry] /\ call \in [Conns -> [Channels -> Call]]
  BY <1>1 DEF TypeOK
<1>4. ch \in Nat /\ ch >= ch
  BY <1>3 DEF Entry
<1>5. call' = [call EXCEPT ![k][ch] = r]
  BY DEF OpenChannel
<1>6. conn' = [conn EXCEPT ![k] = e]
  BY <1>3 DEF OpenChannel
<1>7. /\ e \in Entry /\ e.state = conn[k].state /\ e.socket = conn[k].socket /\ e.next = ch + 1
      /\ e.known = conn[k].known /\ e.awaited = conn[k].awaited
  <2> DEFINE n == ch + 1
             o == conn[k]
  <2>1. n \in Nat /\ o \in Entry
    BY <1>3, <1>4
  <2>2. e = [o EXCEPT !.next = n]
    OBVIOUS
  <2> HIDE DEF n, o, e, ch
  <2>3. /\ e \in Entry /\ e.state = o.state /\ e.socket = o.socket /\ e.next = n
        /\ e.known = o.known /\ e.awaited = o.awaited
    BY <2>1, <2>2 DEF Entry
  <2> QED BY <2>3 DEF n, o
<1>8. /\ r \in Call /\ r.opening /\ r.kind = c.kind /\ r.opened = c.opened /\ r.live = c.live
      /\ r.eof = c.eof
      /\ r.end = c.end /\ r.buf = c.buf /\ r.got = c.got /\ r.waiters = c.waiters
      /\ r.errCh = c.errCh /\ r.out = c.out /\ r.err = c.err
  BY DEF Call
<1>9. \A b \in Channels : b # ch /\ b >= ch + 1 => b >= ch
  BY <1>4 DEF Channels
<1>10. \A b \in Channels : b # ch /\ b >= ch => b >= ch + 1
  BY <1>4, LinkAssumption DEF Channels
<1>11. Unused(call[k][ch], down[k], up[k], host[k][ch], ch)
  BY <1>1, <1>2, <1>4, Cells DEF ChanInv
<1> DEFINE y == [t |-> "open", ch |-> ch]
<1>12. /\ up' \in [Conns -> Seq(Request)]
       /\ \A j \in Conns : j # k => up'[j] = up[j]
       /\ y \in Request
       /\ up'[k] = up[k] \/ up'[k] = Append(up[k], y)
  BY <1>1, <1>2, SendFacts
<1>13. /\ conn' \in [Conns -> Entry] /\ conn'[k] = e
       /\ \A j \in Conns : j # k => conn'[j] = conn[j]
  <2> HIDE DEF e
  <2> QED BY <1>3, <1>6, <1>7, RowSet
<1>14. /\ call' \in [Conns -> [Channels -> Call]]
       /\ call'[k][ch] = r
       /\ \A b \in Channels : b # ch => call'[k][b] = call[k][b]
       /\ \A j \in Conns : j # k => call'[j] = call[j]
  <2> HIDE DEF r, ch
  <2> QED BY <1>2, <1>3, <1>5, <1>8, CellSet
<1>15. y.ch = ch
  OBVIOUS
<1> HIDE DEF e, r
<1>16. ChanInv(e, r, down[k], up'[k], host[k][ch], ch)
  <2>1. down[k] \in Seq(Frame) /\ up[k] \in Seq(Request)
    BY <1>1, Cells
  <2> DEFINE o == conn[k]
             v == up'[k]
  <2>2. o \in Entry /\ o.state = "connected" /\ e.state = o.state /\ e.socket = o.socket
    BY <1>2, <1>3, <1>7
  <2>3. e \in Entry /\ e.next = ch + 1 /\ ch \in Channels
    BY <1>2, <1>7
  <2>4. /\ r \in Call /\ r.opening /\ r.kind \in {"exec", "pty"} /\ r.live = (r.kind = "exec")
        /\ r.eof = FALSE /\ r.end = "no" /\ r.buf = <<>> /\ r.got = <<>> /\ r.waiters = 0
        /\ r.opened = FALSE /\ r.errCh = FALSE /\ r.out = 0 /\ r.err = 0
    BY <1>8
  <2>5. v = up[k] \/ v = Append(up[k], [t |-> "open", ch |-> ch])
    BY <1>12
  <2> HIDE DEF o, v, ch
  <2> QED BY <1>11, <2>1, <2>2, <2>3, <2>4, <2>5, OpenKeeps DEF v
<1>17. ASSUME NEW b \in Channels, b # ch
       PROVE  ChanInv(e, call[k][b], down[k], up'[k], host[k][b], b)
  <2>1. /\ up[k] \in Seq(Request) /\ down[k] \in Seq(Frame)
        /\ ChanInv(conn[k], call[k][b], down[k], up[k], host[k][b], b)
    BY <1>1, Cells
  <2>2. ChanInv(conn[k], call[k][b], down[k], up'[k], host[k][b], b)
    <3> HIDE DEF y
    <3>1. ChanInv(conn[k], call[k][b], down[k], Append(up[k], y), host[k][b], b)
      BY <1>3, <1>12, <1>15, <1>17, <2>1, RequestKeeps
    <3> QED BY <1>12, <2>1, <3>1
  <2>3. CASE b >= e.next
    <3>1. b >= ch
      BY <1>7, <1>9, <1>17, <2>3
    <3>2. Unused(call[k][b], down[k], up'[k], host[k][b], b)
      BY <2>2, <3>1 DEF ChanInv
    <3>3. up'[k] \in Seq(Request)
      BY <1>12
    <3> QED BY <1>7, <2>1, <3>2, <3>3, UnusedKeeps
  <2>4. CASE ~ (b >= e.next)
    <3>1. ~ (b >= ch)
      BY <1>7, <1>10, <1>17, <2>4
    <3>2. /\ Answered(e, call[k][b]) /\ Accounted(e, call[k][b], up'[k], host[k][b], b)
          /\ Delivered(e, call[k][b], down[k], host[k][b], b)
      BY <1>7, <2>2 DEF ChanInv, Answered, Gone, Accounted, Delivered
    <3> QED BY <2>2, <2>4, <3>2 DEF ChanInv
  <2> QED BY <2>3, <2>4
<1>18. \A b \in Channels : ChanInv(conn'[k], call'[k][b], down'[k], up'[k], host'[k][b], b)
  <2> TAKE b \in Channels
  <2>1. CASE b = ch
    BY <1>2, <1>13, <1>14, <1>16, <2>1
  <2>2. CASE b # ch
    BY <1>2, <1>13, <1>14, <1>17, <2>2
  <2> QED BY <2>1, <2>2
<1>19. TypeOK'
  BY <1>1, <1>2, <1>12, <1>13, <1>14 DEF TypeOK
<1>20. DialShape'
  BY <1>1, <1>2, <1>7, <1>13 DEF DialShape, Dialled
<1>21. ChannelsOK'
  BY <1>1, <1>2, <1>12, <1>13, <1>14, <1>18, StepKeeps
<1> QED BY <1>19, <1>20, <1>21 DEF AtRest

\* A close is sent for a channel given out.
LEMMA SentClose ==
    ASSUME AtRest, NEW k \in Conns, NEW ch \in Channels, call[k][ch].kind # "none",
           Send(k, "close", ch)
    PROVE  /\ up' \in [Conns -> Seq(Request)]
           /\ \A j \in Conns : j # k => up'[j] = up[j]
           /\ conn[k].socket = "open" => Has(up'[k], "close", ch)
           /\ \A b \in Channels : ChanInv(conn[k], call[k][b], down[k], up'[k], host[k][b], b)
<1> DEFINE y == [t |-> "close", ch |-> ch]
<1>1. TypeOK /\ ChannelsOK
  BY DEF AtRest
<1>2. /\ up' \in [Conns -> Seq(Request)]
      /\ \A j \in Conns : j # k => up'[j] = up[j]
      /\ y \in Request
      /\ up'[k] = IF conn[k].socket = "open" THEN Append(up[k], y) ELSE up[k]
  BY <1>1, SendFacts
<1>3. y.t = "close" /\ y.ch = ch
  OBVIOUS
<1> HIDE DEF y
<1>4. /\ conn[k] \in Entry /\ up[k] \in Seq(Request)
      /\ \A b \in Channels : ChanInv(conn[k], call[k][b], down[k], up[k], host[k][b], b)
  BY <1>1, Cells
<1>5. ~ (ch >= conn[k].next)
  BY <1>4 DEF ChanInv, Unused, NoCall
<1>6. ASSUME NEW b \in Channels
      PROVE  ChanInv(conn[k], call[k][b], down[k], up'[k], host[k][b], b)
  <2>1. y.ch # b \/ (y.t = "close" /\ ~ (b >= conn[k].next))
    BY <1>3, <1>5
  <2>2. ChanInv(conn[k], call[k][b], down[k], Append(up[k], y), host[k][b], b)
    BY <1>2, <1>4, <2>1, RequestKeeps
  <2> QED BY <1>2, <1>4, <2>2
<1>7. conn[k].socket = "open" => Has(up'[k], "close", ch)
  <2>1. Has(Append(up[k], y), y.t, y.ch)
    BY <1>2, <1>4, HasAppend
  <2> QED BY <1>2, <1>3, <2>1
<1> QED BY <1>2, <1>6, <1>7

\* The client acts on one of its calls, and may send a close for it.
LEMMA OwnCallStep ==
    ASSUME AtRest, NEW k \in Conns, NEW ch \in Channels, NEW r \in Call,
           call' = [call EXCEPT ![k][ch] = r],
           UNCHANGED <<dial, conn, down, host, faults>>, ops' \in Nat,
           up' \in [Conns -> Seq(Request)], \A j \in Conns : j # k => up'[j] = up[j],
           \A b \in Channels : ChanInv(conn[k], call[k][b], down[k], up'[k], host[k][b], b),
           ChanInv(conn[k], r, down[k], up'[k], host[k][ch], ch)
    PROVE  AtRest'
<1>1. TypeOK /\ DialShape /\ ChannelsOK
  BY DEF AtRest
<1>2. call \in [Conns -> [Channels -> Call]]
  BY <1>1 DEF TypeOK
<1>3. /\ call' \in [Conns -> [Channels -> Call]]
      /\ call'[k][ch] = r
      /\ \A b \in Channels : b # ch => call'[k][b] = call[k][b]
      /\ \A j \in Conns : j # k => call'[j] = call[j]
  BY <1>2, CellSet
<1>4. \A b \in Channels : ChanInv(conn'[k], call'[k][b], down'[k], up'[k], host'[k][b], b)
  <2> TAKE b \in Channels
  <2>1. CASE b = ch
    BY <1>3, <2>1
  <2>2. CASE b # ch
    BY <1>3, <2>2
  <2> QED BY <2>1, <2>2
<1>5. TypeOK'
  BY <1>1, <1>3 DEF TypeOK
<1>6. DialShape'
  BY <1>1 DEF DialShape
<1>7. ChannelsOK'
  BY <1>1, <1>3, <1>4, StepKeeps
<1> QED BY <1>5, <1>6, <1>7 DEF AtRest

LEMMA ExecTimesOutStep ==
    ASSUME AtRest, NEW k \in Conns, NEW ch \in Channels, ExecTimesOut(k, ch)
    PROVE  AtRest'
<1> DEFINE c == call[k][ch]
           r == SettleExec(c, "timeout")
<1>1. /\ c.kind = "exec" /\ c.live /\ Send(k, "close", ch)
      /\ UNCHANGED <<dial, conn, down, host, ops, faults>>
  BY DEF ExecTimesOut
<1>2. call' = [call EXCEPT ![k][ch] = r]
  BY DEF ExecTimesOut, AtRest, TypeOK
<1>3. TypeOK /\ ChannelsOK
  BY DEF AtRest
<1>4. /\ up' \in [Conns -> Seq(Request)]
      /\ \A j \in Conns : j # k => up'[j] = up[j]
      /\ conn[k].socket = "open" => Has(up'[k], "close", ch)
      /\ \A b \in Channels : ChanInv(conn[k], call[k][b], down[k], up'[k], host[k][b], b)
  BY <1>1, SentClose
<1>5. /\ conn[k] \in Entry /\ c \in Call /\ down[k] \in Seq(Frame) /\ up'[k] \in Seq(Request)
      /\ host[k][ch] \in Process
      /\ ChanInv(conn[k], c, down[k], up'[k], host[k][ch], ch)
  BY <1>3, <1>4, Cells
<1> HIDE DEF c
<1>6. r \in Call /\ ChanInv(conn[k], r, down[k], up'[k], host[k][ch], ch)
  BY <1>1, <1>4, <1>5, ExecTimeoutKeeps
<1>7. ops' \in Nat
  BY <1>1, <1>3 DEF TypeOK
<1> HIDE DEF r
<1> QED BY <1>1, <1>2, <1>4, <1>6, <1>7, OwnCallStep

LEMMA OpenTimesOutStep ==
    ASSUME AtRest, NEW k \in Conns, NEW ch \in Channels, OpenTimesOut(k, ch)
    PROVE  AtRest'
<1> DEFINE c == call[k][ch]
           r == [RejectOpen(c) EXCEPT !.late = TRUE]
<1>1. c.opening /\ UNCHANGED <<dial, conn, down, up, host, ops, faults>>
  BY DEF OpenTimesOut
<1>2. call' = [call EXCEPT ![k][ch] = r]
  BY DEF OpenTimesOut
<1>3. TypeOK /\ ChannelsOK
  BY DEF AtRest
<1>4. /\ conn[k] \in Entry /\ c \in Call /\ down[k] \in Seq(Frame) /\ up[k] \in Seq(Request)
      /\ host[k][ch] \in Process
      /\ ChanInv(conn[k], c, down[k], up[k], host[k][ch], ch)
  BY <1>3, Cells
<1>5. \A b \in Channels : ChanInv(conn[k], call[k][b], down[k], up[k], host[k][b], b)
  BY <1>3, Cells
<1> HIDE DEF c
<1>6. r \in Call /\ ChanInv(conn[k], r, down[k], up[k], host[k][ch], ch)
  BY <1>1, <1>4, OpenTimeoutKeeps
<1>7. ops' \in Nat /\ up' \in [Conns -> Seq(Request)]
  BY <1>1, <1>3 DEF TypeOK
<1> HIDE DEF r
<1> QED BY <1>1, <1>2, <1>5, <1>6, <1>7, OwnCallStep

LEMMA ClosePtyStep ==
    ASSUME AtRest, NEW k \in Conns, NEW ch \in Channels, ClosePty(k, ch)
    PROVE  AtRest'
<1> DEFINE c == call[k][ch]
           r == [Eof(c) EXCEPT !.live = FALSE]
<1>1. /\ c.kind = "pty" /\ c.live /\ Send(k, "close", ch)
      /\ UNCHANGED <<dial, conn, down, host, faults>>
  BY DEF ClosePty
<1>2. call' = [call EXCEPT ![k][ch] = r]
  BY DEF ClosePty
<1>3. TypeOK /\ ChannelsOK
  BY DEF AtRest
<1>4. /\ up' \in [Conns -> Seq(Request)]
      /\ \A j \in Conns : j # k => up'[j] = up[j]
      /\ conn[k].socket = "open" => Has(up'[k], "close", ch)
      /\ \A b \in Channels : ChanInv(conn[k], call[k][b], down[k], up'[k], host[k][b], b)
  BY <1>1, SentClose
<1>5. /\ conn[k] \in Entry /\ c \in Call /\ down[k] \in Seq(Frame) /\ up'[k] \in Seq(Request)
      /\ host[k][ch] \in Process
      /\ ChanInv(conn[k], c, down[k], up'[k], host[k][ch], ch)
  BY <1>3, <1>4, Cells
<1> HIDE DEF c
<1>6. r \in Call /\ ChanInv(conn[k], r, down[k], up'[k], host[k][ch], ch)
  BY <1>1, <1>4, <1>5, ClosePtyKeeps
<1>7. ops' \in Nat
  BY <1>3 DEF TypeOK, ClosePty, Op
<1> HIDE DEF r
<1> QED BY <1>1, <1>2, <1>4, <1>6, <1>7, OwnCallStep

LEMMA ReadStep ==
    ASSUME AtRest, NEW k \in Conns, NEW ch \in Channels, ReadPty(k, ch) \/ ReadTimesOut(k, ch)
    PROVE  AtRest'
<1> DEFINE c == call[k][ch]
           taken == [c EXCEPT !.got = Append(c.got, Head(c.buf)), !.buf = Tail(c.buf)]
           told == [c EXCEPT !.end = "eof"]
           more == [c EXCEPT !.waiters = c.waiters + 1]
           less == [c EXCEPT !.waiters = c.waiters - 1]
<1>1. TypeOK /\ ChannelsOK
  BY DEF AtRest
<1>2. UNCHANGED <<dial, conn, down, up, host, faults>> /\ ops' \in Nat
  BY <1>1 DEF ReadPty, ReadTimesOut, Op, TypeOK
<1>3. call \in [Conns -> [Channels -> Call]]
  BY <1>1 DEF TypeOK
<1>4. \/ /\ c.kind = "pty" /\ c.live /\ c.buf # <<>>
         /\ call' = [call EXCEPT ![k][ch] = taken]
      \/ /\ c.kind = "pty" /\ c.live /\ c.buf = <<>> /\ c.eof
         /\ call' = [call EXCEPT ![k][ch] = told]
      \/ /\ c.kind = "pty" /\ c.live /\ ~ c.eof
         /\ call' = [call EXCEPT ![k][ch] = more]
      \/ /\ c.waiters > 0
         /\ call' = [call EXCEPT ![k][ch] = less]
  BY <1>3 DEF ReadPty, ReadTimesOut
<1>5. /\ conn[k] \in Entry /\ c \in Call /\ down[k] \in Seq(Frame) /\ up[k] \in Seq(Request)
      /\ host[k][ch] \in Process
      /\ ChanInv(conn[k], c, down[k], up[k], host[k][ch], ch)
  BY <1>1, Cells
<1>6. \A b \in Channels : ChanInv(conn[k], call[k][b], down[k], up[k], host[k][b], b)
  BY <1>1, Cells
<1>7. up' \in [Conns -> Seq(Request)]
  BY <1>1, <1>2 DEF TypeOK
<1> HIDE DEF c
<1>8. c.waiters \in Nat
  BY <1>5 DEF Call
<1>9. ASSUME NEW r \in Call, call' = [call EXCEPT ![k][ch] = r],
             ChanInv(conn[k], r, down[k], up[k], host[k][ch], ch)
      PROVE  AtRest'
  BY <1>2, <1>6, <1>7, <1>9, OwnCallStep
<1>10. /\ told \in Call /\ told.waiters = c.waiters /\ told.end = "eof"
       /\ told.kind = c.kind /\ told.opened = c.opened /\ told.opening = c.opening
       /\ told.live = c.live
       /\ told.errCh = c.errCh /\ told.out = c.out /\ told.err = c.err /\ told.buf = c.buf
       /\ told.got = c.got /\ told.eof = c.eof /\ told.late = c.late
  BY <1>5 DEF Call
<1>11. CASE c.kind = "pty" /\ c.live /\ c.buf # <<>> /\ call' = [call EXCEPT ![k][ch] = taken]
  <2>1. taken \in Call /\ ChanInv(conn[k], taken, down[k], up[k], host[k][ch], ch)
    BY <1>5, <1>11, TakeKeeps
  <2> HIDE DEF taken
  <2> QED BY <1>9, <1>11, <2>1
<1>12. CASE c.kind = "pty" /\ c.live /\ c.buf = <<>> /\ c.eof /\ call' = [call EXCEPT ![k][ch] = told]
  <2> HIDE DEF told
  <2>1. ChanInv(conn[k], told, down[k], up[k], host[k][ch], ch)
    BY <1>5, <1>8, <1>10, <1>12, ReadKeeps
  <2> QED BY <1>9, <1>10, <1>12, <2>1
<1>13. ASSUME NEW w \in Nat, NEW r, r = [c EXCEPT !.waiters = w]
       PROVE  /\ r \in Call /\ r.waiters = w /\ r.end = c.end
              /\ r.kind = c.kind /\ r.opened = c.opened /\ r.opening = c.opening /\ r.live = c.live
              /\ r.errCh = c.errCh /\ r.out = c.out /\ r.err = c.err /\ r.buf = c.buf
              /\ r.got = c.got /\ r.eof = c.eof /\ r.late = c.late
  BY <1>5, <1>13 DEF Call
<1>14. CASE c.kind = "pty" /\ c.live /\ ~ c.eof /\ call' = [call EXCEPT ![k][ch] = more]
  <2> DEFINE w == c.waiters + 1
  <2>1. w \in Nat
    BY <1>8
  <2>2. more = [c EXCEPT !.waiters = w]
    OBVIOUS
  <2> HIDE DEF more, w
  <2>3. /\ more \in Call /\ more.waiters = w /\ more.end = c.end
        /\ more.kind = c.kind /\ more.opened = c.opened /\ more.opening = c.opening
        /\ more.live = c.live
        /\ more.errCh = c.errCh /\ more.out = c.out /\ more.err = c.err /\ more.buf = c.buf
        /\ more.got = c.got /\ more.eof = c.eof /\ more.late = c.late
    BY <1>13, <2>1, <2>2
  <2>4. ChanInv(conn[k], more, down[k], up[k], host[k][ch], ch)
    BY <1>5, <1>14, <2>1, <2>3, ReadKeeps
  <2> QED BY <1>9, <1>14, <2>3, <2>4
<1>15. CASE c.waiters > 0 /\ call' = [call EXCEPT ![k][ch] = less]
  <2> DEFINE w == c.waiters - 1
  <2>1. w \in Nat
    BY <1>8, <1>15
  <2>2. less = [c EXCEPT !.waiters = w]
    OBVIOUS
  <2> HIDE DEF less, w
  <2>3. /\ less \in Call /\ less.waiters = w /\ less.end = c.end
        /\ less.kind = c.kind /\ less.opened = c.opened /\ less.opening = c.opening
        /\ less.live = c.live
        /\ less.errCh = c.errCh /\ less.out = c.out /\ less.err = c.err /\ less.buf = c.buf
        /\ less.got = c.got /\ less.eof = c.eof /\ less.late = c.late
    BY <1>13, <2>1, <2>2
  <2>4. ChanInv(conn[k], less, down[k], up[k], host[k][ch], ch)
    BY <1>5, <1>15, <2>1, <2>3, ReadKeeps
  <2> QED BY <1>9, <1>15, <2>3, <2>4
<1> HIDE DEF taken, told, more, less
<1> QED BY <1>4, <1>11, <1>12, <1>14, <1>15 DEF c

LEMMA NoCallFacts ==
    /\ NoCall \in Call
    /\ ~ NoCall.opening /\ ~ NoCall.live /\ ~ NoCall.eof /\ ~ NoCall.errCh
    /\ NoCall.opened = FALSE /\ NoCall.live = FALSE /\ NoCall.eof = FALSE /\ NoCall.errCh = FALSE /\ NoCall.end = "no"
    /\ NoCall.buf = <<>> /\ NoCall.got = <<>> /\ NoCall.waiters = 0
    /\ NoCall.out = 0 /\ NoCall.err = 0
<1>1. <<>> \in Seq(Nat)
  OBVIOUS
<1> DEFINE nothing == <<>>
<1> HIDE DEF nothing
<1>2. nothing \in Seq(Nat)
  BY <1>1 DEF nothing
<1>3. NoCall = [kind |-> "none", timed |-> FALSE, opening |-> FALSE, opened |-> FALSE,
               live |-> FALSE, errCh |-> FALSE, out |-> 0, err |-> 0, buf |-> nothing, got |-> nothing,
               eof |-> FALSE, waiters |-> 0, end |-> "no", late |-> FALSE]
  BY DEF NoCall, nothing
<1>4. NoCall \in Call
  BY <1>2, <1>3 DEF Call, Kinds
<1>5. NoCall.buf = <<>> /\ NoCall.got = <<>>
  BY <1>3 DEF nothing
<1> QED BY <1>3, <1>4, <1>5

\* A call of either kind starts with nothing.
LEMMA CallsStep ==
    ASSUME AtRest, NEW k \in Conns, OpenPty(k) \/ \E timed \in BOOLEAN : Exec(k, timed)
    PROVE  AtRest'
<1>1. CASE OpenPty(k)
  <2> DEFINE c == [NoCall EXCEPT !.kind = "pty"]
  <2>1. OpenChannel(k, c)
    BY <1>1 DEF OpenPty
  <2>2. /\ c \in Call /\ c.kind \in {"exec", "pty"} /\ c.live = (c.kind = "exec")
        /\ c.eof = FALSE /\ c.end = "no" /\ c.buf = <<>> /\ c.got = <<>> /\ c.waiters = 0
        /\ c.opened = FALSE /\ c.errCh = FALSE /\ c.out = 0 /\ c.err = 0
    BY NoCallFacts DEF Call, Kinds
  <2> HIDE DEF c
  <2> QED BY <2>1, <2>2, OpenStep
<1>2. ASSUME NEW timed \in BOOLEAN, Exec(k, timed)
      PROVE  AtRest'
  <2> DEFINE c == [NoCall EXCEPT !.kind = "exec", !.live = TRUE, !.timed = timed]
  <2>1. OpenChannel(k, c)
    BY <1>2 DEF Exec
  <2>2. /\ c \in Call /\ c.kind \in {"exec", "pty"} /\ c.live = (c.kind = "exec")
        /\ c.eof = FALSE /\ c.end = "no" /\ c.buf = <<>> /\ c.got = <<>> /\ c.waiters = 0
        /\ c.opened = FALSE /\ c.errCh = FALSE /\ c.out = 0 /\ c.err = 0
    BY NoCallFacts DEF Call, Kinds
  <2> HIDE DEF c
  <2> QED BY <2>1, <2>2, OpenStep
<1> QED BY <1>1, <1>2

\* Only the entry of one connection changes, and not what its calls see of it.
LEMMA EntryStep ==
    ASSUME IInv, NEW k \in Conns, NEW e \in Entry,
           conn' = [conn EXCEPT ![k] = e],
           UNCHANGED <<dial, call, up, host>>, ops' \in Nat, faults' \in Nat,
           e.state = conn[k].state, e.next = conn[k].next, e.known = conn[k].known,
           e.awaited = conn[k].awaited, e.socket = "open" => conn[k].socket = "open",
           NEW q \in Seq(Frame), down' = [down EXCEPT ![k] = q],
           \A ch \in Channels : ChanInv(conn[k], Shown(call[k][ch]), q, up[k], host[k][ch], ch)
    PROVE  IInv'
<1>1. TypeOK /\ DialShape /\ SeenOK
  BY DEF IInv
<1>2. conn \in [Conns -> Entry] /\ down \in [Conns -> Seq(Frame)]
  BY <1>1 DEF TypeOK
<1>3. /\ conn' \in [Conns -> Entry] /\ conn'[k] = e
      /\ \A j \in Conns : j # k => conn'[j] = conn[j]
  BY <1>2, RowSet
<1>4. /\ down' \in [Conns -> Seq(Frame)] /\ down'[k] = q
      /\ \A j \in Conns : j # k => down'[j] = down[j]
  BY <1>2, RowSet
<1>5. TypeOK'
  BY <1>1, <1>3, <1>4 DEF TypeOK
<1>6. DialShape'
  BY <1>1, <1>3 DEF DialShape
<1>7. conn[k] \in Entry
  BY <1>2
<1>8. ASSUME NEW ch \in Channels
      PROVE  ChanInv(conn'[k], Shown(call'[k][ch]), down'[k], up'[k], host'[k][ch], ch)
  <2>1. ChanInv(e, Shown(call[k][ch]), q, up[k], host[k][ch], ch)
    BY <1>7, EntryKeeps
  <2> QED BY <1>3, <1>4, <2>1
<1>9. SeenOK'
  BY <1>1, <1>3, <1>4, <1>8, SeenKeeps
<1> QED BY <1>5, <1>6, <1>9 DEF IInv

LEMMA ScheduleStep ==
    ASSUME AtRest, NEW k \in Conns, ScheduleClose(k) \/ CancelScheduledClose(k)
    PROVE  IInv'
<1>1. TypeOK /\ ChannelsOK
  BY DEF AtRest
<1>2. /\ conn[k] \in Entry /\ down[k] \in Seq(Frame)
      /\ \A ch \in Channels :
           ChanInv(conn[k], Shown(call[k][ch]), down[k], up[k], host[k][ch], ch)
  BY <1>1, Cells, RestSeen
<1>3. down' = [down EXCEPT ![k] = down[k]]
  BY <1>1 DEF ScheduleClose, CancelScheduledClose, TypeOK
<1>4. UNCHANGED <<dial, call, up, host>> /\ ops' \in Nat /\ faults' \in Nat
  BY <1>1 DEF ScheduleClose, CancelScheduledClose, Op, TypeOK
<1>5. ASSUME NEW b \in BOOLEAN, conn' = [conn EXCEPT ![k].schedule = b]
      PROVE  IInv'
  <2> DEFINE o == conn[k]
             e == [o EXCEPT !.schedule = b]
  <2>1. conn' = [conn EXCEPT ![k] = e]
    BY <1>5
  <2>2. o \in Entry
    BY <1>2
  <2> HIDE DEF o
  <2>3. /\ e \in Entry /\ e.state = o.state /\ e.next = o.next /\ e.known = o.known
        /\ e.awaited = o.awaited /\ e.socket = o.socket
    BY <2>2 DEF Entry
  <2> HIDE DEF e
  <2> QED BY <1>2, <1>3, <1>4, <2>1, <2>3, RestSeen, EntryStep DEF o
<1> QED BY <1>5 DEF ScheduleClose, CancelScheduledClose

-----------------------------------------------------------------------------
(* The relay and the host                                                  *)

\* A frame of the relay itself is on no channel.
LEMMA RelayFrameKeeps ==
    ASSUME IInv, NEW k \in Conns, NEW x \in Frame, x.ch = 0
    PROVE  \A ch \in Channels :
             ChanInv(conn[k], Shown(call[k][ch]), Append(down[k], x), up[k], host[k][ch], ch)
<1> TAKE ch \in Channels
<1>1. TypeOK /\ SeenOK
  BY DEF IInv
<1>2. x.ch # ch
  BY LinkAssumption DEF Channels
<1>3. /\ conn[k] \in Entry /\ down[k] \in Seq(Frame) /\ up[k] \in Seq(Request)
      /\ Shown(call[k][ch]) \in Call /\ host[k][ch] \in Process
      /\ ChanInv(conn[k], Shown(call[k][ch]), down[k], up[k], host[k][ch], ch)
  BY <1>1, SeenCells
<1> QED BY <1>2, <1>3, FrameKeeps

LEMMA RelayPushStep ==
    ASSUME IInv, NEW k \in Conns, NEW x \in Frame, x.ch = 0, Push(k, x),
           UNCHANGED <<dial, conn, call, up, host>>, ops' \in Nat, faults' \in Nat
    PROVE  IInv'
<1> DEFINE q == Append(down[k], x)
<1>1. TypeOK
  BY DEF IInv
<1>2. down[k] \in Seq(Frame)
  BY <1>1 DEF TypeOK
<1>3. q \in Seq(Frame)
  BY <1>2
<1>4. down' = [down EXCEPT ![k] = q]
  BY DEF Push
<1>5. \A ch \in Channels : ChanInv(conn[k], Shown(call[k][ch]), q, up[k], host[k][ch], ch)
  BY RelayFrameKeeps
<1> HIDE DEF q
<1> QED BY <1>3, <1>4, <1>5, QueueStep

LEMMA RelayReadyStep ==
    ASSUME IInv, NEW k \in Conns, RelayReady(k)
    PROVE  IInv'
<1> DEFINE x == [t |-> "ready", ch |-> 0]
<1>1. /\ Push(k, x)
      /\ UNCHANGED <<dial, conn, call, up, host>> /\ ops' \in Nat /\ faults' \in Nat
  BY DEF RelayReady, IInv, TypeOK
<1>2. x \in Frame /\ x.ch = 0
  BY DEF Frame, RelayFrame
<1> HIDE DEF x
<1> QED BY <1>1, <1>2, RelayPushStep

\* The two frames of a socket that breaks, one after the other.
LEMMA TwoFrames ==
    ASSUME NEW q \in Seq(Frame), NEW x \in Frame, NEW y \in Frame
    PROVE  /\ Append(q, x) \in Seq(Frame)
           /\ Append(Append(q, x), y) \in Seq(Frame)
           /\ q \o <<x, y>> = Append(Append(q, x), y)
OBVIOUS

LEMMA RelayEndsStep ==
    ASSUME IInv, NEW k \in Conns, RelayEnds(k)
    PROVE  IInv'
<1>1. TypeOK /\ SeenOK
  BY DEF IInv
<1>2. UNCHANGED <<dial, call, up, host>> /\ ops' \in Nat /\ faults' \in Nat
  BY <1>1 DEF RelayEnds, Fault, TypeOK
<1>3. CASE Push(k, [t |-> "error", ch |-> 0]) /\ UNCHANGED conn
  <2> DEFINE x == [t |-> "error", ch |-> 0]
  <2>1. x \in Frame /\ x.ch = 0
    BY DEF Frame, RelayFrame
  <2>2. Push(k, x) /\ UNCHANGED conn
    BY <1>3
  <2> HIDE DEF x
  <2> QED BY <1>2, <2>1, <2>2, RelayPushStep
<1>4. CASE /\ conn[k].socket = "open"
           /\ down' = [down EXCEPT ![k] = @ \o <<[t |-> "sockerror", ch |-> 0], [t |-> "closed", ch |-> 0]>>]
           /\ conn' = [conn EXCEPT ![k].socket = "dropped"]
  <2> DEFINE x == [t |-> "sockerror", ch |-> 0]
             y == [t |-> "closed", ch |-> 0]
             d == down[k]
             q == Append(Append(d, x), y)
             o == conn[k]
             e == [o EXCEPT !.socket = "dropped"]
  <2>1. x \in Frame /\ x.ch = 0 /\ y \in Frame /\ y.ch = 0
    BY DEF Frame, RelayFrame
  <2>2. conn' = [conn EXCEPT ![k] = e]
    BY <1>4
  <2>3. down' = [down EXCEPT ![k] = d \o <<x, y>>]
    BY <1>4
  <2>4. o \in Entry /\ d \in Seq(Frame) /\ up[k] \in Seq(Request)
    BY <1>1, SeenCells
  <2> HIDE DEF x, y, o, d
  <2>5. /\ e \in Entry /\ e.state = o.state /\ e.next = o.next /\ e.known = o.known
        /\ e.awaited = o.awaited /\ e.socket # "open"
    BY <2>4 DEF Entry
  <2>6. Append(d, x) \in Seq(Frame) /\ q \in Seq(Frame) /\ d \o <<x, y>> = q
    BY <2>1, <2>4, TwoFrames
  <2>7. ASSUME NEW ch \in Channels
        PROVE  ChanInv(o, Shown(call[k][ch]), q, up[k], host[k][ch], ch)
    <3>1. Shown(call[k][ch]) \in Call /\ host[k][ch] \in Process
      BY <1>1, SeenCells
    <3>2. y.ch # ch
      BY <2>1, LinkAssumption DEF Channels
    <3>3. ChanInv(o, Shown(call[k][ch]), Append(d, x), up[k], host[k][ch], ch)
      BY <2>1, RelayFrameKeeps DEF o, d
    <3> QED BY <2>1, <2>4, <2>6, <3>1, <3>2, <3>3, FrameKeeps
  <2> HIDE DEF e, q
  <2>8. down' = [down EXCEPT ![k] = q]
    BY <2>3, <2>6
  <2> QED BY <1>2, <2>2, <2>5, <2>6, <2>7, <2>8, EntryStep DEF o
<1> QED BY <1>3, <1>4 DEF RelayEnds

\* The host takes a request of its queue and writes its process down anew; it
\* may answer.
LEMMA OwnHostStep ==
    ASSUME IInv, NEW k \in Conns, NEW ch \in Channels, NEW h \in Process,
           host' = [host EXCEPT ![k][ch] = h],
           NEW q \in Seq(Frame), down' = [down EXCEPT ![k] = q],
           NEW u \in Seq(Request), up' = [up EXCEPT ![k] = u],
           UNCHANGED <<dial, conn, call, ops, faults>>,
           \A b \in Channels : b # ch => ChanInv(conn[k], Shown(call[k][b]), q, u, host[k][b], b),
           ChanInv(conn[k], Shown(call[k][ch]), q, u, h, ch)
    PROVE  IInv'
<1>1. TypeOK /\ DialShape /\ SeenOK
  BY DEF IInv
<1>2. /\ host \in [Conns -> [Channels -> Process]] /\ down \in [Conns -> Seq(Frame)]
      /\ up \in [Conns -> Seq(Request)]
  BY <1>1 DEF TypeOK
<1>3. /\ host' \in [Conns -> [Channels -> Process]]
      /\ host'[k][ch] = h
      /\ \A b \in Channels : b # ch => host'[k][b] = host[k][b]
      /\ \A j \in Conns : j # k => host'[j] = host[j]
  BY <1>2, CellSet
<1>4. /\ down' \in [Conns -> Seq(Frame)] /\ down'[k] = q
      /\ \A j \in Conns : j # k => down'[j] = down[j]
  BY <1>2, RowSet
<1>5. /\ up' \in [Conns -> Seq(Request)] /\ up'[k] = u
      /\ \A j \in Conns : j # k => up'[j] = up[j]
  BY <1>2, RowSet
<1>6. TypeOK'
  BY <1>1, <1>3, <1>4, <1>5 DEF TypeOK
<1>7. DialShape'
  BY <1>1 DEF DialShape
<1>8. \A b \in Channels : ChanInv(conn'[k], Shown(call'[k][b]), down'[k], up'[k], host'[k][b], b)
  <2> TAKE b \in Channels
  <2>1. CASE b = ch
    BY <1>3, <1>4, <1>5, <2>1
  <2>2. CASE b # ch
    BY <1>3, <1>4, <1>5, <2>2
  <2> QED BY <2>1, <2>2
<1>9. SeenOK'
  BY <1>1, <1>3, <1>4, <1>5, <1>8, SeenKeeps
<1> QED BY <1>6, <1>7, <1>9 DEF IInv

LEMMA HostHearsStep ==
    ASSUME IInv, NEW k \in Conns, NEW ok \in BOOLEAN, HostHears(k, ok)
    PROVE  IInv'
<1> DEFINE f == Head(up[k])
           ch == f.ch
           u == Tail(up[k])
           d == down[k]
           h == host[k][ch]
<1>1. TypeOK /\ SeenOK
  BY DEF IInv
<1>2. /\ up[k] # <<>>
      /\ up' = [up EXCEPT ![k] = u]
      /\ UNCHANGED <<dial, conn, call, ops, faults>>
  BY DEF HostHears
<1>3. up[k] \in Seq(Request) /\ d \in Seq(Frame) /\ conn[k] \in Entry
  BY <1>1, SeenCells
<1>4. u \in Seq(Request) /\ f \in Request
  BY <1>2, <1>3, TailFacts
<1>5. f.t \in {"open", "close"} /\ ch \in Channels
  BY <1>4 DEF Request
<1>6. h \in Process /\ Shown(call[k][ch]) \in Call
  BY <1>1, <1>5, SeenCells
<1>7. ChanInv(conn[k], Shown(call[k][ch]), d, up[k], h, ch)
  BY <1>1, <1>5, SeenCells
<1>8. ASSUME NEW b \in Channels, b # ch
      PROVE  /\ Shown(call[k][b]) \in Call /\ host[k][b] \in Process
             /\ ChanInv(conn[k], Shown(call[k][b]), d, u, host[k][b], b)
  <2>1. /\ Shown(call[k][b]) \in Call /\ host[k][b] \in Process
        /\ ChanInv(conn[k], Shown(call[k][b]), d, up[k], host[k][b], b)
    BY <1>1, SeenCells
  <2>2. ChanInv(conn[k], Shown(call[k][b]), d, u, host[k][b], b)
    BY <1>2, <1>3, <1>8, <2>1, RequestTailKeeps
  <2> QED BY <2>1, <2>2
<1>9. CASE f.t = "open"
  <2> DEFINE x == [t |-> "opened", ch |-> ch, ok |-> ok]
             state == IF ok THEN "running" ELSE "none"
             h2 == [h EXCEPT !.state = state]
             q == Append(d, x)
  <2>1. down' = [down EXCEPT ![k] = q]
    BY <1>9 DEF HostHears, Push
  <2>2. host' = [host EXCEPT ![k][ch] = h2]
    BY <1>9 DEF HostHears
  <2>3. x \in Frame /\ x.t = "opened" /\ x.ch = ch /\ x.ok = ok
    BY <1>5 DEF Frame, OpenedFrame
  <2>4. state \in {"none", "running"} /\ state = IF ok THEN "running" ELSE "none"
    OBVIOUS
  <2> HIDE DEF x, state, h, d, u, ch
  <2>5. h2 \in Process /\ h2.out = h.out /\ h2.err = h.err /\ h2.state = state
    BY <1>6, <2>4 DEF Process
  <2>6. q \in Seq(Frame)
    BY <1>3, <2>3
  <2> HIDE DEF h2
  <2>7. ChanInv(conn[k], Shown(call[k][ch]), q, u, h2, ch)
    BY <1>2, <1>3, <1>5, <1>6, <1>7, <1>9, <2>3, <2>4, <2>5, HostOpens DEF u, ch
  <2>8. \A b \in Channels : b # ch => ChanInv(conn[k], Shown(call[k][b]), q, u, host[k][b], b)
    BY <1>3, <1>4, <1>8, <2>3, FrameKeeps
  <2> HIDE DEF q
  <2> QED BY <1>2, <1>4, <1>5, <2>1, <2>2, <2>5, <2>6, <2>7, <2>8, OwnHostStep
<1>10. CASE f.t # "open"
  <2> DEFINE state == IF h.state = "running" THEN "gone" ELSE h.state
             h2 == [h EXCEPT !.state = state]
  <2>1. down' = [down EXCEPT ![k] = d]
    BY <1>1, <1>10 DEF HostHears, TypeOK
  <2>2. host' = [host EXCEPT ![k][ch] = h2]
    BY <1>10 DEF HostHears
  <2>3. state \in {"none", "running", "gone"} \cup HostEnd
    BY <1>6 DEF Process
  <2>4. f.t = "close"
    BY <1>5, <1>10
  <2>5. state = IF h.state = "running" THEN "gone" ELSE h.state
    OBVIOUS
  <2> HIDE DEF state, h, d, u, ch
  <2>6. h2 \in Process /\ h2.out = h.out /\ h2.err = h.err /\ h2.state = state
    BY <1>6, <2>3 DEF Process
  <2> HIDE DEF h2
  <2>7. ChanInv(conn[k], Shown(call[k][ch]), d, u, h2, ch)
    BY <1>2, <1>3, <1>5, <1>6, <1>7, <2>4, <2>5, <2>6, HostCloses DEF u, ch
  <2> QED BY <1>2, <1>3, <1>4, <1>5, <1>8, <2>1, <2>2, <2>6, <2>7, OwnHostStep
<1> QED BY <1>9, <1>10

\* The host writes its process down anew and sends a frame of it.
LEMMA HostSendsStep ==
    ASSUME IInv, NEW k \in Conns, NEW ch \in Channels, NEW h \in Process,
           host' = [host EXCEPT ![k][ch] = h],
           NEW x \in Frame, x.ch = ch, Push(k, x),
           UNCHANGED <<dial, conn, call, up, ops, faults>>,
           ChanInv(conn[k], Shown(call[k][ch]), Append(down[k], x), up[k], h, ch)
    PROVE  IInv'
<1> DEFINE q == Append(down[k], x)
           u == up[k]
<1>1. TypeOK /\ SeenOK
  BY DEF IInv
<1>2. /\ conn[k] \in Entry /\ down[k] \in Seq(Frame) /\ u \in Seq(Request)
      /\ \A b \in Channels : /\ Shown(call[k][b]) \in Call
                             /\ host[k][b] \in Process
                             /\ ChanInv(conn[k], Shown(call[k][b]), down[k], u, host[k][b], b)
  BY <1>1, SeenCells
<1>3. q \in Seq(Frame)
  BY <1>2
<1>4. down' = [down EXCEPT ![k] = q]
  BY DEF Push
<1>5. up' = [up EXCEPT ![k] = u]
  BY <1>1 DEF TypeOK
<1>6. \A b \in Channels : b # ch => ChanInv(conn[k], Shown(call[k][b]), q, u, host[k][b], b)
  BY <1>2, FrameKeeps
<1>7. ChanInv(conn[k], Shown(call[k][ch]), q, u, h, ch)
  OBVIOUS
<1> HIDE DEF q, u
<1> QED BY <1>2, <1>3, <1>4, <1>5, <1>6, <1>7, OwnHostStep

LEMMA HostWritesStep ==
    ASSUME IInv, NEW k \in Conns, NEW ch \in Channels, NEW s \in {"out", "err"},
           HostWrites(k, ch, s)
    PROVE  IInv'
<1> DEFINE h == host[k][ch]
           n == h[s] + 1
           x == [t |-> s, ch |-> ch, unit |-> n]
           h2 == [h EXCEPT ![s] = n]
<1>1. TypeOK /\ SeenOK
  BY DEF IInv
<1>2. /\ h.state = "running" /\ Push(k, x)
      /\ UNCHANGED <<dial, conn, call, up, ops, faults>>
  BY DEF HostWrites
<1>3. host' = [host EXCEPT ![k][ch] = h2]
  BY DEF HostWrites
<1>4. /\ conn[k] \in Entry /\ down[k] \in Seq(Frame) /\ up[k] \in Seq(Request)
      /\ Shown(call[k][ch]) \in Call /\ h \in Process
      /\ ChanInv(conn[k], Shown(call[k][ch]), down[k], up[k], h, ch)
  BY <1>1, SeenCells
<1> HIDE DEF h
<1>5. h.out \in Nat /\ h.err \in Nat
  BY <1>4 DEF Process
<1>6. n \in Nat /\ (s = "out" => n = h.out + 1) /\ (s = "err" => n = h.err + 1)
  BY <1>5
<1> HIDE DEF n
<1>7. x \in Frame /\ x.t = s /\ x.ch = ch /\ x.unit = n
  BY <1>6 DEF Frame, UnitFrame
<1>8. /\ h2 \in Process /\ h2.state = h.state
      /\ s = "out" => h2.out = n /\ h2.err = h.err
      /\ s = "err" => h2.err = n /\ h2.out = h.out
  <2>1. CASE s = "out"
    BY <1>4, <1>6, <2>1 DEF Process
  <2>2. CASE s = "err"
    BY <1>4, <1>6, <2>2 DEF Process
  <2> QED BY <2>1, <2>2
<1> HIDE DEF x, h2
<1>9. ChanInv(conn[k], Shown(call[k][ch]), Append(down[k], x), up[k], h2, ch)
  BY <1>2, <1>4, <1>6, <1>7, <1>8, WriteKeeps
<1> QED BY <1>2, <1>3, <1>7, <1>8, <1>9, HostSendsStep

LEMMA HostEndsStep ==
    ASSUME IInv, NEW k \in Conns, NEW ch \in Channels, NEW how \in {"exit", "eof", "ch_error"},
           HostEnds(k, ch, how)
    PROVE  IInv'
<1> DEFINE h == host[k][ch]
           x == [t |-> how, ch |-> ch]
           h2 == [h EXCEPT !.state = how]
<1>1. TypeOK /\ SeenOK
  BY DEF IInv
<1>2. /\ h.state = "running" /\ Push(k, x)
      /\ UNCHANGED <<dial, conn, call, up, ops, faults>>
  BY DEF HostEnds
<1>3. host' = [host EXCEPT ![k][ch] = h2]
  BY DEF HostEnds
<1>4. /\ conn[k] \in Entry /\ down[k] \in Seq(Frame) /\ up[k] \in Seq(Request)
      /\ Shown(call[k][ch]) \in Call /\ h \in Process
      /\ ChanInv(conn[k], Shown(call[k][ch]), down[k], up[k], h, ch)
  BY <1>1, SeenCells
<1> HIDE DEF h
<1>5. x \in Frame /\ x.t = how /\ x.t \in HostEnd /\ x.ch = ch
  BY DEF Frame, EndFrame, HostEnd
<1>6. /\ h2 \in Process /\ h2.state = how /\ h2.out = h.out /\ h2.err = h.err
  BY <1>4 DEF Process, HostEnd
<1> HIDE DEF x, h2
<1>7. ChanInv(conn[k], Shown(call[k][ch]), Append(down[k], x), up[k], h2, ch)
  BY <1>2, <1>4, <1>5, <1>6, EndKeeps
<1> QED BY <1>2, <1>3, <1>5, <1>6, <1>7, HostSendsStep

-----------------------------------------------------------------------------
(* Every step                                                              *)

LEMMA StutterStep ==
    ASSUME IInv, UNCHANGED vars
    PROVE  IInv'
<1>1. UNCHANGED <<dial, conn, call, down, up, host, ops, faults>>
  BY DEF vars
<1> QED BY <1>1 DEF IInv, TypeOK, DialShape, SeenOK, Shown

\* openPty goes on: the call becomes what it was shown as.
LEMMA PtyOpenedStep ==
    ASSUME IInv, NEW k \in Conns, NEW ch \in Channels, PtyOpened(k, ch)
    PROVE  IInv'
<1> DEFINE c == call[k][ch]
           r == [c EXCEPT !.opened = FALSE, !.live = TRUE]
<1>1. TypeOK /\ DialShape /\ SeenOK
  BY DEF IInv
<1>2. call \in [Conns -> [Channels -> Call]]
  BY <1>1 DEF TypeOK
<1>3. c \in Call /\ c.opened /\ UNCHANGED <<dial, conn, down, up, host, ops, faults>>
  BY <1>2 DEF PtyOpened
<1>4. call' = [call EXCEPT ![k][ch] = r]
  BY <1>2 DEF PtyOpened
<1>5. r = Shown(c)
  BY <1>3 DEF Shown
<1> HIDE DEF c, r
<1>6. r \in Call /\ ~ r.opened
  BY <1>3, <1>5, ShownFacts
<1>7. /\ call' \in [Conns -> [Channels -> Call]]
      /\ call'[k][ch] = r
      /\ \A b \in Channels : b # ch => call'[k][b] = call[k][b]
      /\ \A j \in Conns : j # k => call'[j] = call[j]
  BY <1>2, <1>4, <1>6, CellSet
<1>8. Shown(r) = r
  BY <1>6, ShownFacts
<1>9. \A b \in Channels :
        ChanInv(conn'[k], Shown(call'[k][b]), down'[k], up'[k], host'[k][b], b)
  <2> TAKE b \in Channels
  <2>1. ChanInv(conn[k], Shown(call[k][b]), down[k], up[k], host[k][b], b)
    BY <1>1 DEF SeenOK
  <2>2. Shown(call'[k][b]) = Shown(call[k][b])
    <3>1. CASE b = ch
      BY <1>5, <1>7, <1>8, <3>1 DEF c
    <3>2. CASE b # ch
      BY <1>7, <3>2
    <3> QED BY <3>1, <3>2
  <2> QED BY <1>3, <2>1, <2>2
<1>10. TypeOK' /\ DialShape'
  BY <1>1, <1>3, <1>7 DEF TypeOK, DialShape
<1>11. SeenOK'
  BY <1>1, <1>3, <1>7, <1>9, SeenKeeps
<1> QED BY <1>10, <1>11 DEF IInv

\* What the client does, it does when the last task is over: with one frame a
\* task, that is so of a frame too.
LEMMA ClientStep ==
    ASSUME IInv, TaskOver,
           \/ DialTimesOut
           \/ \E k \in Conns :
                \/ Connect(k) \/ ConnectThrows(k) \/ Hear(k) \/ OpenPty(k)
                \/ CloseConnection(k) \/ ScheduleClose(k) \/ CancelScheduledClose(k)
                \/ ScheduledClose(k) \/ CancelOperation(k)
                \/ \E b \in BOOLEAN : Exec(k, b)
                \/ \E ch \in Channels : Timers(k, ch) \/ ReadPty(k, ch) \/ ClosePty(k, ch)
    PROVE  IInv'
<1>1. AtRest
  BY OverAtRest
<1>2. CASE DialTimesOut
  BY <1>1, <1>2, DialTimesOutStep, RestSeenNext
<1>3. ASSUME NEW k \in Conns,
             Hear(k) \/ ScheduleClose(k) \/ CancelScheduledClose(k) \/ CancelOperation(k)
      PROVE  IInv'
  BY <1>1, <1>3, HearStep, ScheduleStep, CancelOperationStep
<1>4. ASSUME NEW k \in Conns,
             \/ Connect(k) \/ ConnectThrows(k) \/ OpenPty(k) \/ \E b \in BOOLEAN : Exec(k, b)
             \/ CloseConnection(k) \/ ScheduledClose(k)
      PROVE  IInv'
  <2>1. AtRest'
    BY <1>1, <1>4, ConnectStep, CallsStep, CloseStep
  <2> QED BY <2>1, RestSeenNext
<1>5. ASSUME NEW k \in Conns, NEW ch \in Channels, Timers(k, ch) \/ ReadPty(k, ch) \/ ClosePty(k, ch)
      PROVE  IInv'
  <2>1. AtRest'
    BY <1>1, <1>5, ExecTimesOutStep, OpenTimesOutStep, ReadStep, ClosePtyStep DEF Timers
  <2> QED BY <2>1, RestSeenNext
<1> QED BY <1>2, <1>3, <1>4, <1>5

LEMMA NextStep ==
    ASSUME OneFramePerTask, IInv, [Next]_vars
    PROVE  IInv'
<1>1. ASSUME NEW k \in Conns,
             \/ Connect(k) \/ ConnectThrows(k) \/ Hear(k) \/ OpenPty(k)
             \/ CloseConnection(k) \/ ScheduleClose(k) \/ CancelScheduledClose(k) \/ ScheduledClose(k)
             \/ CancelOperation(k)
      PROVE  IInv'
  <2>1. TaskOver
    BY <1>1 DEF Connect, ConnectThrows, Hear, OpenPty, OpenChannel, CloseConnection, Close,
       ScheduleClose, CancelScheduledClose, ScheduledClose, CancelOperation
  <2> QED BY <1>1, <2>1, ClientStep
<1>2. ASSUME NEW k \in Conns, NEW b \in BOOLEAN, Exec(k, b)
      PROVE  IInv'
  <2>1. TaskOver
    BY <1>2 DEF Exec, OpenChannel
  <2> QED BY <1>2, <2>1, ClientStep
<1>3. ASSUME NEW k \in Conns, NEW ch \in Channels, Timers(k, ch) \/ ReadPty(k, ch) \/ ClosePty(k, ch)
      PROVE  IInv'
  <2>1. TaskOver
    BY <1>3 DEF Timers, ExecTimesOut, OpenTimesOut, ReadTimesOut, ReadPty, ClosePty
  <2> QED BY <1>3, <2>1, ClientStep
<1>4. CASE DialTimesOut
  <2>1. TaskOver
    BY <1>4 DEF DialTimesOut
  <2> QED BY <1>4, <2>1, ClientStep
<1>5. ASSUME NEW k \in Conns,
             RelayReady(k) \/ RelayEnds(k) \/ \E b \in BOOLEAN : HostHears(k, b)
      PROVE  IInv'
  BY <1>5, RelayReadyStep, RelayEndsStep, HostHearsStep
<1>6. ASSUME NEW k \in Conns, NEW ch \in Channels,
             \/ PtyOpened(k, ch)
             \/ \E s \in {"out", "err"} : HostWrites(k, ch, s)
             \/ \E how \in {"exit", "eof", "ch_error"} : HostEnds(k, ch, how)
      PROVE  IInv'
  BY <1>6, PtyOpenedStep, HostWritesStep, HostEndsStep
<1>7. CASE UNCHANGED vars
  BY <1>7, StutterStep
<1> QED BY <1>1, <1>2, <1>3, <1>4, <1>5, <1>6, <1>7 DEF Next

\* When a socket delivers one frame a task, every channel keeps its call, its
\* process and its two queues in step, through every operation, frame, timer
\* and loss (openChannel, handleControl, handleData, loseConnection).
THEOREM LinkInvariant ==
    ASSUME OneFramePerTask
    PROVE  Spec => []IInv
<1>1. Init => IInv
  BY InitInv, RestSeen
<1>2. IInv /\ [Next]_vars => IInv'
  BY NextStep
<1> QED BY <1>1, <1>2, PTL DEF Spec

-----------------------------------------------------------------------------
(* What follows                                                            *)

\* When a socket delivers one frame a task, nobody waits on a link that is
\* gone: a lost or closed connection has no open, no exec and no read that is
\* not answered (closeConnection, loseConnection, and the frames that arrive
\* after them).
THEOREM NobodyIsLeftWaiting ==
    ASSUME OneFramePerTask
    PROVE  Spec => []NobodyWaits
<1>1. ASSUME IInv
      PROVE  NobodyWaits
  <2> SUFFICES ASSUME NEW k \in Conns, conn[k].state \in {"lost", "closed"}, NEW ch \in Channels
               PROVE  LET c == call[k][ch]
                      IN ~ c.opening /\ c.waiters = 0 /\ (c.live => c.kind = "pty" /\ c.eof)
    BY DEF NobodyWaits
  <2> DEFINE c == call[k][ch]
             r == Shown(c)
  <2>1. /\ c \in Call /\ r \in Call
        /\ Answered(conn[k], r) /\ CallShape(r)
    BY <1>1, SeenCells DEF IInv, TypeOK, ChanInv
  <2> HIDE DEF c
  <2>2. /\ r.kind = c.kind /\ r.opening = c.opening /\ r.eof = c.eof /\ r.waiters = c.waiters
        /\ (r.live <=> c.live \/ c.opened)
    BY <2>1, ShownFacts
  <2> HIDE DEF r
  <2>3. ~ r.opening /\ r.waiters = 0 /\ (r.kind = "exec" => ~ r.live)
        /\ (r.kind = "pty" /\ r.live => r.eof)
    BY <2>1 DEF Answered, Gone
  <2>4. r.kind = "none" => ~ r.live
    BY <2>1 DEF CallShape, NoCall
  <2>5. r.kind \in {"none", "exec", "pty"}
    BY <2>1 DEF Call, Kinds
  <2> QED BY <2>2, <2>3, <2>4, <2>5 DEF c
<1> QED BY <1>1, LinkInvariant, PTL

LEMMA ReadInOrder ==
    ASSUME NEW c \in Call, InRow(c)
    PROVE  c.got \o c.buf = [i \in 1 .. (Len(c.got) + Len(c.buf)) |-> i]
<1> DEFINE g == c.got
           b == c.buf
           n == Len(g) + Len(b)
<1>1. g \in Seq(Nat) /\ b \in Seq(Nat)
  BY DEF Call
<1>2. /\ \A i \in 1 .. Len(g) : g[i] = i
      /\ \A i \in 1 .. Len(b) : b[i] = Len(g) + i
  BY <1>1 DEF InRow, Units
<1> HIDE DEF g, b
<1>3. /\ g \o b \in Seq(Nat) /\ Len(g \o b) = n
      /\ \A i \in 1 .. n : (g \o b)[i] = i
  BY <1>1, <1>2
<1>4. ASSUME NEW s \in Seq(Nat), Len(s) = n, \A i \in 1 .. n : s[i] = i
      PROVE  s = [i \in 1 .. n |-> i]
  <2>1. s = [i \in 1 .. Len(s) |-> s[i]]
    OBVIOUS
  <2>2. s = [i \in 1 .. n |-> s[i]]
    BY <2>1, <1>4
  <2> HIDE DEF n
  <2> QED BY <2>2, <1>4, Zenon
<1>5. g \o b = [i \in 1 .. n |-> i]
  BY <1>3, <1>4
<1> QED BY <1>5 DEF g, b

\* When a socket delivers one frame a task, what a call returns is what the
\* host sent: the reads of a PTY in order and whole before it is told the end,
\* an exec's two streams whole at its exit (handleData, flushPty, readPty, and
\* the settling of execs).
THEOREM NothingIsTorn ==
    ASSUME OneFramePerTask
    PROVE  Spec => []NothingTorn
<1>1. ASSUME IInv
      PROVE  OutputWhole
  <2> SUFFICES ASSUME NEW k \in Conns, NEW ch \in Channels, call[k][ch].kind = "pty"
               PROVE  LET c == call[k][ch]
                      IN /\ c.got \o c.buf = [i \in 1 .. (Len(c.got) + Len(c.buf)) |-> i]
                         /\ c.end = "eof" /\ conn[k].state = "connected" /\ c.live =>
                                c.buf = <<>> /\ Len(c.got) = host[k][ch].out
    BY DEF OutputWhole
  <2> DEFINE o == call[k][ch]
             c == Shown(o)
  <2>0. o \in Call
    BY <1>1 DEF IInv, TypeOK
  <2>1. c \in Call /\ ChanInv(conn[k], c, down[k], up[k], host[k][ch], ch)
    BY <1>1, SeenCells DEF IInv
  <2>a. o.kind = "pty"
    OBVIOUS
  <2> HIDE DEF o
  <2>b. /\ c.kind = o.kind /\ c.got = o.got /\ c.buf = o.buf /\ c.end = o.end /\ c.eof = o.eof
        /\ (c.live <=> o.live \/ o.opened)
    BY <2>0, ShownFacts
  <2> HIDE DEF c
  <2>2. c.kind = "pty"
    BY <2>a, <2>b
  <2>3. c.got \o c.buf = [i \in 1 .. (Len(c.got) + Len(c.buf)) |-> i]
    BY <2>1, <2>2, ReadInOrder DEF ChanInv, CallShape
  <2>4. ASSUME c.end = "eof", conn[k].state = "connected", c.live
        PROVE  c.buf = <<>> /\ Len(c.got) = host[k][ch].out
    <3>1. c.eof /\ c.buf = <<>>
      BY <2>1, <2>4 DEF ChanInv, CallShape
    <3>2. Len(c.got) + Len(c.buf) = host[k][ch].out
      BY <2>1, <2>2, <2>4, <3>1 DEF ChanInv, Delivered
    <3>3. Len(c.got) \in Nat /\ Len(c.buf) = 0
      BY <2>1, <3>1 DEF Call
    <3> QED BY <3>1, <3>2, <3>3
  <2> QED BY <2>b, <2>3, <2>4 DEF o
<1>2. ASSUME IInv
      PROVE  ExecWhole
  <2> SUFFICES ASSUME NEW k \in Conns, NEW ch \in Channels,
                      call[k][ch].kind = "exec", call[k][ch].end = "exit"
               PROVE  call[k][ch].out = host[k][ch].out /\ call[k][ch].err = host[k][ch].err
    BY DEF ExecWhole
  <2> DEFINE c == Shown(call[k][ch])
  <2>1. ChanInv(conn[k], c, down[k], up[k], host[k][ch], ch) /\ call[k][ch] \in Call
    BY <1>2 DEF IInv, SeenOK, TypeOK
  <2>2. /\ c.kind = "exec" /\ c.end = "exit"
        /\ c.out = call[k][ch].out /\ c.err = call[k][ch].err
    BY <2>1, ShownFacts
  <2> HIDE DEF c
  <2> QED BY <2>1, <2>2 DEF ChanInv, Delivered
<1>3. IInv => NothingTorn
  BY <1>1, <1>2 DEF NothingTorn
<1> QED BY <1>3, LinkInvariant, PTL

\* When a socket delivers one frame a task, no process is left running that no
\* call of the client knows of, except behind an open that timed out (the
\* exec's timer, closePty, and the opens the relay answers late).
THEOREM NoProcessStrays ==
    ASSUME OneFramePerTask
    PROVE  Spec => []NoStrayProcess
<1>1. ASSUME IInv
      PROVE  NoStrayProcess
  <2> SUFFICES ASSUME NEW k \in Conns, NEW ch \in Channels,
                      host[k][ch].state = "running", conn[k].socket = "open"
               PROVE  \/ call[k][ch].opening \/ call[k][ch].opened
                      \/ call[k][ch].live \/ call[k][ch].late
                      \/ \E i \in 1 .. Len(up[k]) : up[k][i] = [t |-> "close", ch |-> ch]
    BY DEF NoStrayProcess
  <2> DEFINE c == call[k][ch]
             r == Shown(c)
  <2>0. c \in Call /\ ChanInv(conn[k], r, down[k], up[k], host[k][ch], ch)
    BY <1>1 DEF IInv, SeenOK, TypeOK
  <2> HIDE DEF c
  <2>1. r.late = c.late /\ r.opening = c.opening /\ (r.live <=> c.live \/ c.opened)
    BY <2>0, ShownFacts
  <2>c. r.live \/ r.late \/ r.opening \/ Has(up[k], "close", ch)
    BY <2>0 DEF ChanInv, Accounted
  <2>2. c.opened \/ c.live \/ c.late \/ c.opening \/ Has(up[k], "close", ch)
    BY <2>1, <2>c
  <2>3. ASSUME Has(up[k], "close", ch)
        PROVE  \E i \in 1 .. Len(up[k]) : up[k][i] = [t |-> "close", ch |-> ch]
    <3>1. PICK i \in 1 .. Len(up[k]) : up[k][i].t = "close" /\ up[k][i].ch = ch
      BY <2>3 DEF Has
    <3>2. up[k] \in Seq(Request)
      BY <1>1 DEF IInv, TypeOK
    <3>3. up[k][i] \in Request
      BY <3>1, <3>2
    <3>4. up[k][i] = [t |-> "close", ch |-> ch]
      BY <3>1, <3>3 DEF Request
    <3> QED BY <3>4
  <2> QED BY <2>2, <2>3 DEF c
<1> QED BY <1>1, LinkInvariant, PTL
=============================================================================
