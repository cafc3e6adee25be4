--------------------------- MODULE TerminalsProofs ---------------------------
(***************************************************************************)
(* Proofs about the terminal pool.                                         *)
(*                                                                         *)
(* The invariants the run checks are not inductive: that a terminal which  *)
(* has a PTY has its pump on it rests on the attach that will give it one  *)
(* finding it bare (OpensBare), and that nothing is sent into a failed     *)
(* channel on the failure having taken the channel from its terminal       *)
(* (Served).                                                               *)
(*                                                                         *)
(* Almost every step only takes PTYs from terminals and closes channels    *)
(* (PtysGo, QuietStep): those are shown to keep the invariant once.  Three *)
(* do more: a terminal is given an attach (OpeningStep), an attach gets    *)
(* its channel (PtyOpenStep, StaleOpenStep), a pump moves on (PumpServes). *)
(***************************************************************************)
EXTENDS Terminals, FiniteSetTheorems, TLAPS

Record == [session : SUBSET Sessions, pty : Chans \cup {NoChan}, opener : Procs \cup {NoProc},
           pump : Chans \cup {NoChan}, attaching : Calls \cup {NoProc}, readSequence : 0..MaxOutput]

\* Record x, of terminal r, is served by the pump of its channel ch.
Served(x, ch, r) ==
    /\ x.pump = x.pty
    /\ ch.pump \in {"read", "listeners"} /\ ch.rec = {r} /\ ~ ch.failed
    /\ ch.delivered = x.readSequence + (IF ch.pump = "listeners" THEN 1 ELSE 0)

\* Who has a PTY is in the pool, and served from it.
PtysServed ==
    \A r \in Recs : rec[r].pty # NoChan => r \in terminals /\ Served(rec[r], chan[rec[r].pty], r)

\* A terminal that an attach will give its PTY has none yet.
OpensBare ==
    \A p \in Procs : \A r \in attach[p].rec :
        attach[p].pc \in {"previous", "opening"} /\ rec[r].opener = p => rec[r].pty = NoChan

\* The bound on writes is kept.
InputBound == \A c \in Chans : chan[c].queue + chan[c].sent <= MaxInput

\* The pool is finite, and only its terminals have a place in the order.
PoolFinite == IsFiniteSet(terminals) /\ \A r \in Recs \ terminals : older[r] = {}

\* The inductive invariant.
IInv == TypeOK /\ PoolBound /\ PoolFinite /\ PtysServed /\ OpensBare /\ OnlyDroppedOrphans /\ InputBound

-----------------------------------------------------------------------------
(* What a step may do to the records and the channels                      *)

\* Record b is record a, or a after it gave up its PTY.
RecKeeps(a, b) ==
    /\ b.session = a.session
    /\ b.opener \in {a.opener, NoProc}
    /\ b.pty \in {a.pty, NoChan}
    /\ b.pty # NoChan => b.pump = a.pump /\ b.readSequence = a.readSequence

\* Channel b is channel a or less: it is not opened, nor kept from closing, its
\* input stays bounded, and a failed one is sent nothing.
ChanKeeps(a, b) ==
    /\ b.state = "open" => a.state = "open" /\ (a.closing => b.closing) /\ (a.dropped => b.dropped)
    /\ b.rec = a.rec
    /\ b.queue + b.sent <= MaxInput
    /\ a.failed => b.sent = a.sent

RecsKeep(f, g) == g \in [Recs -> Record] /\ \A r \in Recs : RecKeeps(f[r], g[r])
ChansKeep(f, g) == g \in [Chans -> Channel] /\ \A c \in Chans : ChanKeeps(f[c], g[c])

\* The channels that serve a terminal after the step are as they were.
StillServed(g, chs) ==
    \A r \in Recs : g[r].pty # NoChan =>
        /\ chs[g[r].pty].pump = chan[g[r].pty].pump
        /\ chs[g[r].pty].delivered = chan[g[r].pty].delivered
        /\ chs[g[r].pty].failed = chan[g[r].pty].failed

\* A channel taken from its terminal is closed, or was not open any more.
Released(f, g, chs) ==
    \A r \in Recs : f[r].pty # NoChan /\ g[r].pty = NoChan =>
        chs[f[r].pty].closing \/ chs[f[r].pty].dropped \/ chs[f[r].pty].state # "open"

LEMMA RecordFacts ==
    ASSUME NEW x \in Record
    PROVE  /\ x.session \subseteq Sessions /\ x.pty \in Chans \cup {NoChan}
           /\ x.opener \in Procs \cup {NoProc} /\ x.pump \in Chans \cup {NoChan}
           /\ x.attaching \in Calls \cup {NoProc} /\ x.readSequence \in 0..MaxOutput
BY DEF Record

LEMMA StoppedFacts ==
    ASSUME NEW rs \in [Recs -> Record], NEW S
    PROVE  /\ Stopped(rs, S) \in [Recs -> Record]
           /\ \A r \in Recs : r \notin S => Stopped(rs, S)[r] = rs[r]
           /\ \A r \in S \cap Recs : /\ Stopped(rs, S)[r].pty = NoChan
                                     /\ Stopped(rs, S)[r].opener = NoProc
                                     /\ Stopped(rs, S)[r].session = rs[r].session
<1> DEFINE stop(x) == [x EXCEPT !.opener = NoProc, !.pump = NoChan, !.pty = NoChan]
<1>1. \A r \in Recs : /\ stop(rs[r]) \in Record
                      /\ stop(rs[r]).pty = NoChan /\ stop(rs[r]).opener = NoProc
                      /\ stop(rs[r]).session = rs[r].session
  BY DEF Record
<1>2. Stopped(rs, S) = [r \in Recs |-> IF r \in S THEN stop(rs[r]) ELSE rs[r]]
  BY DEF Stopped
<1> HIDE DEF stop
<1> QED BY <1>1, <1>2

LEMMA ClosingFacts ==
    ASSUME NEW chs \in [Chans -> Channel], NEW cs
    PROVE  /\ Closing(cs, chs) \in [Chans -> Channel]
           /\ \A c \in Chans : c \notin cs => Closing(cs, chs)[c] = chs[c]
           /\ \A c \in cs \cap Chans : Closing(cs, chs)[c].closing
           /\ \A c \in Chans : LET d == Closing(cs, chs)[c] IN
                 /\ d.state = chs[c].state /\ d.rec = chs[c].rec /\ d.pump = chs[c].pump
                 /\ d.dropped = chs[c].dropped
                 /\ d.delivered = chs[c].delivered /\ d.queue = chs[c].queue
                 /\ d.running = chs[c].running /\ d.sent = chs[c].sent /\ d.failed = chs[c].failed
                 /\ chs[c].closing => d.closing
<1> DEFINE close(x) == [x EXCEPT !.closing = TRUE]
<1>1. \A c \in Chans : /\ close(chs[c]) \in Channel /\ close(chs[c]).closing
                       /\ close(chs[c]).state = chs[c].state /\ close(chs[c]).rec = chs[c].rec
                       /\ close(chs[c]).dropped = chs[c].dropped
                       /\ close(chs[c]).pump = chs[c].pump
                       /\ close(chs[c]).delivered = chs[c].delivered
                       /\ close(chs[c]).queue = chs[c].queue
                       /\ close(chs[c]).running = chs[c].running /\ close(chs[c]).sent = chs[c].sent
                       /\ close(chs[c]).failed = chs[c].failed
  BY DEF Channel
<1>2. Closing(cs, chs) = [c \in Chans |-> IF c \in cs THEN close(chs[c]) ELSE chs[c]]
  BY DEF Closing
<1> HIDE DEF close
<1> QED BY <1>1, <1>2

LEMMA KeepsItself ==
    ASSUME TypeOK, InputBound
    PROVE  /\ RecsKeep(rec, rec) /\ ChansKeep(chan, chan)
           /\ StillServed(rec, chan) /\ Released(rec, rec, chan)
<1>1. rec \in [Recs -> Record] /\ chan \in [Chans -> Channel]
  BY DEF TypeOK, Record
<1> QED BY <1>1 DEF RecsKeep, ChansKeep, RecKeeps, ChanKeeps, StillServed, Released, InputBound

LEMMA KeepsStopped ==
    ASSUME NEW f, NEW g, RecsKeep(f, g), NEW S
    PROVE  RecsKeep(f, Stopped(g, S))
<1>1. g \in [Recs -> Record] /\ \A r \in Recs : RecKeeps(f[r], g[r])
  BY DEF RecsKeep
<1>2. /\ Stopped(g, S) \in [Recs -> Record]
      /\ \A r \in Recs : r \notin S => Stopped(g, S)[r] = g[r]
      /\ \A r \in S \cap Recs : /\ Stopped(g, S)[r].pty = NoChan
                                /\ Stopped(g, S)[r].opener = NoProc
                                /\ Stopped(g, S)[r].session = g[r].session
  BY <1>1, StoppedFacts
<1>3. ASSUME NEW r \in Recs
      PROVE  RecKeeps(f[r], Stopped(g, S)[r])
  <2>1. CASE r \in S
    BY <1>1, <1>2, <2>1 DEF RecKeeps
  <2>2. CASE r \notin S
    BY <1>1, <1>2, <2>2 DEF RecKeeps
  <2> QED BY <2>1, <2>2
<1> QED BY <1>2, <1>3 DEF RecsKeep

LEMMA KeepsClosing ==
    ASSUME NEW f, NEW g, ChansKeep(f, g), NEW cs
    PROVE  ChansKeep(f, Closing(cs, g))
<1>1. g \in [Chans -> Channel] /\ \A c \in Chans : ChanKeeps(f[c], g[c])
  BY DEF ChansKeep
<1>2. /\ Closing(cs, g) \in [Chans -> Channel]
      /\ \A c \in Chans : LET d == Closing(cs, g)[c] IN
           /\ d.state = g[c].state /\ d.rec = g[c].rec
           /\ d.dropped = g[c].dropped
           /\ d.queue = g[c].queue /\ d.sent = g[c].sent
           /\ g[c].closing => d.closing
  BY <1>1, ClosingFacts
<1>3. ASSUME NEW c \in Chans
      PROVE  ChanKeeps(f[c], Closing(cs, g)[c])
  BY <1>1, <1>2 DEF ChanKeeps
<1> QED BY <1>2, <1>3 DEF ChansKeep

\* Terminals that stop while their channels are closed.
LEMMA StopAndClose ==
    ASSUME NEW f \in [Recs -> Record], NEW g \in [Recs -> Record], NEW chs \in [Chans -> Channel],
           NEW S, NEW cs, \A r \in S \cap Recs : g[r].pty = NoChan \/ g[r].pty \in cs,
           \A r \in Recs : g[r].pty \in {f[r].pty, NoChan},
           StillServed(g, chs), Released(f, g, chs)
    PROVE  /\ StillServed(Stopped(g, S), Closing(cs, chs))
           /\ Released(f, Stopped(g, S), Closing(cs, chs))
<1>1. /\ \A r \in Recs : r \notin S => Stopped(g, S)[r] = g[r]
      /\ \A r \in S \cap Recs : Stopped(g, S)[r].pty = NoChan
  BY StoppedFacts
<1>2. /\ \A c \in cs \cap Chans : Closing(cs, chs)[c].closing
      /\ \A c \in Chans : LET d == Closing(cs, chs)[c] IN
           /\ d.state = chs[c].state /\ d.dropped = chs[c].dropped /\ d.pump = chs[c].pump
           /\ d.delivered = chs[c].delivered /\ d.failed = chs[c].failed
           /\ chs[c].closing => d.closing
  BY ClosingFacts
<1>3. \A r \in Recs : g[r].pty \in Chans \cup {NoChan} /\ f[r].pty \in Chans \cup {NoChan}
  BY RecordFacts
<1>4. StillServed(Stopped(g, S), Closing(cs, chs))
  <2> SUFFICES ASSUME NEW r \in Recs, Stopped(g, S)[r].pty # NoChan
               PROVE  LET c == Stopped(g, S)[r].pty IN
                        /\ Closing(cs, chs)[c].pump = chan[c].pump
                        /\ Closing(cs, chs)[c].delivered = chan[c].delivered
                        /\ Closing(cs, chs)[c].failed = chan[c].failed
    BY DEF StillServed
  <2>1. Stopped(g, S)[r] = g[r]
    BY <1>1
  <2> QED BY <1>2, <1>3, <2>1 DEF StillServed
<1>5. Released(f, Stopped(g, S), Closing(cs, chs))
  <2> SUFFICES ASSUME NEW r \in Recs, f[r].pty # NoChan, Stopped(g, S)[r].pty = NoChan
               PROVE  \/ Closing(cs, chs)[f[r].pty].closing
                      \/ Closing(cs, chs)[f[r].pty].dropped
                      \/ Closing(cs, chs)[f[r].pty].state # "open"
    BY DEF Released
  <2>1. f[r].pty \in Chans
    BY <1>3
  <2>2. CASE g[r].pty = NoChan
    BY <1>2, <2>1, <2>2 DEF Released
  <2>3. CASE g[r].pty # NoChan
    <3>1. r \in S /\ g[r].pty = f[r].pty
      BY <1>1, <2>3
    <3> QED BY <1>2, <2>1, <2>3, <3>1
  <2> QED BY <2>2, <2>3
<1> QED BY <1>4, <1>5

-----------------------------------------------------------------------------
(* The pool and its eviction order                                         *)

Pooled == /\ terminals \subseteq Recs /\ older \in [Recs -> SUBSET terminals]
          /\ PoolBound /\ PoolFinite

SessionsKept == \A r \in Recs : rec'[r].session = rec[r].session

LEMMA PoolSame ==
    ASSUME Pooled, SessionsKept, UNCHANGED <<terminals, older>>
    PROVE  Pooled'
<1>1. \A q, r \in terminals : rec'[q].session # rec'[r].session <=> rec[q].session # rec[r].session
  BY DEF Pooled, SessionsKept
<1> QED BY <1>1 DEF Pooled, PoolBound, PoolFinite

LEMMA PoolShrinks ==
    ASSUME Pooled, SessionsKept, NEW S, terminals' = terminals \ S, older' = Unfocused(S)
    PROVE  Pooled'
<1>1. IsFiniteSet(terminals) /\ Cardinality(terminals) <= MaxOpen /\ MaxOpen \in Nat
  BY TerminalsAssumption DEF Pooled, PoolBound, PoolFinite
<1>2. IsFiniteSet(terminals') /\ Cardinality(terminals') <= MaxOpen
  <2>1. terminals' \subseteq terminals
    OBVIOUS
  <2>2. IsFiniteSet(terminals') /\ Cardinality(terminals') <= Cardinality(terminals)
    BY <1>1, <2>1, FS_Subset
  <2>3. Cardinality(terminals') \in Nat /\ Cardinality(terminals) \in Nat
    BY <1>1, <2>2, FS_CardinalityType
  <2> QED BY <1>1, <2>2, <2>3
<1>3. /\ terminals \subseteq Recs /\ older \in [Recs -> SUBSET terminals]
      /\ \A q, r \in terminals : q # r => /\ rec[q].session # rec[r].session
                                          /\ q \in older[r] <=> r \notin older[q]
      /\ \A r \in Recs : r \notin older[r] /\ \A q \in older[r] : older[q] \subseteq older[r]
      /\ \A r \in Recs \ terminals : older[r] = {}
  BY DEF Pooled, PoolBound, PoolFinite
<1>4. \A q \in Recs : older'[q] = IF q \in S THEN {} ELSE older[q] \ S
  BY DEF Unfocused
<1>5. older' \in [Recs -> SUBSET terminals']
  BY <1>3 DEF Unfocused
<1>6. ASSUME NEW q \in terminals', NEW r \in terminals', q # r
      PROVE  rec'[q].session # rec'[r].session /\ (q \in older'[r] <=> r \notin older'[q])
  <2>1. /\ q \in terminals /\ r \in terminals /\ q \notin S /\ r \notin S
        /\ q \in Recs /\ r \in Recs
    BY <1>3, <1>6
  <2>2. older'[q] = older[q] \ S /\ older'[r] = older[r] \ S
    BY <1>4, <2>1
  <2> QED BY <1>3, <1>6, <2>1, <2>2 DEF SessionsKept
<1>7. ASSUME NEW r \in Recs
      PROVE  r \notin older'[r] /\ \A q \in older'[r] : older'[q] \subseteq older'[r]
  <2>1. older'[r] \subseteq older[r] \ S
    BY <1>4
  <2>2. ASSUME NEW q \in older'[r] PROVE older'[q] \subseteq older'[r]
    <3>0. older'[r] = IF r \in S THEN {} ELSE older[r] \ S
      BY <1>4
    <3>1. q \in Recs /\ q \in older[r] /\ q \notin S /\ r \notin S
      BY <1>3, <2>2, <3>0
    <3>2. older'[q] = older[q] \ S /\ older'[r] = older[r] \ S
      BY <1>4, <3>1
    <3> QED BY <1>3, <3>1, <3>2
  <2> QED BY <1>3, <2>1, <2>2
<1>8. \A r \in Recs \ terminals' : older'[r] = {}
  BY <1>3, <1>4
<1> QED BY <1>2, <1>3, <1>5, <1>6, <1>7, <1>8 DEF Pooled, PoolBound, PoolFinite

LEMMA PoolFocused ==
    ASSUME Pooled, SessionsKept, NEW x \in terminals, UNCHANGED terminals, older' = Focused(x)
    PROVE  Pooled'
<1>1. /\ terminals \subseteq Recs /\ older \in [Recs -> SUBSET terminals]
      /\ \A q, r \in terminals : q # r => /\ rec[q].session # rec[r].session
                                          /\ q \in older[r] <=> r \notin older[q]
      /\ \A r \in Recs : r \notin older[r] /\ \A q \in older[r] : older[q] \subseteq older[r]
      /\ \A r \in Recs \ terminals : older[r] = {}
      /\ IsFiniteSet(terminals) /\ Cardinality(terminals) <= MaxOpen
  BY DEF Pooled, PoolBound, PoolFinite
<1>2. \A q \in Recs : older'[q] = IF q = x THEN terminals \ {x} ELSE older[q] \ {x}
  BY DEF Focused
<1>3. older' \in [Recs -> SUBSET terminals']
  BY <1>1 DEF Focused
<1>4. ASSUME NEW q \in terminals, NEW r \in terminals, q # r
      PROVE  rec'[q].session # rec'[r].session /\ (q \in older'[r] <=> r \notin older'[q])
  <2>1. q \in Recs /\ r \in Recs
    BY <1>1
  <2>2. rec'[q].session # rec'[r].session /\ (q \in older[r] <=> r \notin older[q])
    BY <1>1, <1>4, <2>1 DEF SessionsKept
  <2>3. CASE q = x
    BY <1>2, <1>4, <2>1, <2>2, <2>3
  <2>4. CASE r = x
    BY <1>2, <1>4, <2>1, <2>2, <2>4
  <2>5. CASE q # x /\ r # x
    BY <1>2, <2>1, <2>2, <2>5
  <2> QED BY <2>3, <2>4, <2>5
<1>5. ASSUME NEW r \in Recs
      PROVE  r \notin older'[r] /\ \A q \in older'[r] : older'[q] \subseteq older'[r]
  <2>1. CASE r = x
    <3>1. older'[r] = terminals \ {x}
      BY <1>2, <2>1
    <3>2. \A q \in terminals \ {x} : older'[q] = older[q] \ {x} /\ older[q] \subseteq terminals
      BY <1>1, <1>2
    <3> QED BY <2>1, <3>1, <3>2
  <2>2. CASE r # x
    <3>1. older'[r] = older[r] \ {x} /\ r \notin older[r] /\ older[r] \subseteq Recs
      BY <1>1, <1>2, <2>2
    <3>2. ASSUME NEW q \in older'[r] PROVE older'[q] \subseteq older'[r]
      <4>1. q \in older[r] /\ q # x /\ q \in Recs
        BY <3>1
      <4>2. older'[q] = older[q] \ {x} /\ older[q] \subseteq older[r]
        BY <1>1, <1>2, <4>1
      <4> QED BY <3>1, <4>2
    <3> QED BY <3>1, <3>2
  <2> QED BY <2>1, <2>2
<1>6. \A r \in Recs \ terminals : older'[r] = {}
  BY <1>1, <1>2
<1> QED BY <1>1, <1>3, <1>4, <1>5, <1>6 DEF Pooled, PoolBound, PoolFinite

\* Evicting the surplus makes room for one more.
LEMMA EvictedMakesRoom ==
    ASSUME IsFiniteSet(terminals), Cardinality(terminals) <= MaxOpen,
           NEW S \in SUBSET terminals, Cardinality(S) = Surplus
    PROVE  IsFiniteSet(terminals \ S) /\ Cardinality(terminals \ S) + 1 <= MaxOpen
<1>1. MaxOpen \in Nat \ {0} /\ Cardinality(terminals) \in Nat
  BY TerminalsAssumption, FS_CardinalityType
<1>2. IsFiniteSet(terminals \ S) /\ Cardinality(terminals \ S) = Cardinality(terminals) - Cardinality(terminals \cap S)
  BY FS_Difference
<1>3. terminals \cap S = S
  OBVIOUS
<1>4. Cardinality(terminals \ S) = Cardinality(terminals) - Surplus
  BY <1>2, <1>3
<1> QED BY <1>1, <1>2, <1>4 DEF Surplus

\* A terminal is made.
LEMMA PoolGrows ==
    ASSUME Pooled, NEW S \in SUBSET terminals, Cardinality(S) = Surplus,
           \A r \in S : older[r] \subseteq S,
           NEW x \in Recs, x \notin terminals, terminals' = (terminals \ S) \cup {x},
           older' = [Unfocused(S) EXCEPT ![x] = terminals \ S],
           \A r \in Recs : r # x => rec'[r].session = rec[r].session,
           \A r \in terminals : rec[r].session # rec'[x].session
    PROVE  Pooled'
<1>1. /\ terminals \subseteq Recs /\ older \in [Recs -> SUBSET terminals]
      /\ \A q, r \in terminals : q # r => /\ rec[q].session # rec[r].session
                                          /\ q \in older[r] <=> r \notin older[q]
      /\ \A r \in Recs : r \notin older[r] /\ \A q \in older[r] : older[q] \subseteq older[r]
      /\ \A r \in Recs \ terminals : older[r] = {}
      /\ IsFiniteSet(terminals) /\ Cardinality(terminals) <= MaxOpen
  BY DEF Pooled, PoolBound, PoolFinite
<1>2. IsFiniteSet(terminals') /\ Cardinality(terminals') <= MaxOpen
  <2>1. IsFiniteSet(terminals \ S) /\ Cardinality(terminals \ S) + 1 <= MaxOpen
    BY <1>1, EvictedMakesRoom
  <2>2. /\ IsFiniteSet((terminals \ S) \cup {x})
        /\ Cardinality((terminals \ S) \cup {x}) = Cardinality(terminals \ S) + 1
    BY <2>1, FS_AddElement
  <2> QED BY <2>1, <2>2
<1>3. /\ older'[x] = terminals \ S
      /\ \A q \in Recs : q # x => older'[q] = IF q \in S THEN {} ELSE older[q] \ S
      /\ older' \in [Recs -> SUBSET terminals']
  <2>1. Unfocused(S) \in [Recs -> SUBSET (terminals \ S)]
    BY <1>1 DEF Unfocused
  <2> QED BY <1>1, <2>1 DEF Unfocused
<1>4. \A q, r \in terminals' : q # r => rec'[q].session # rec'[r].session
  BY <1>1
<1>5. \A q, r \in terminals' : q # r => (q \in older'[r] <=> r \notin older'[q])
  BY <1>1, <1>3
<1>6. \A r \in Recs : r \notin older'[r] /\ \A q \in older'[r] : older'[q] \subseteq older'[r]
  BY <1>1, <1>3
<1>7. \A r \in Recs \ terminals' : older'[r] = {}
  BY <1>1, <1>3
<1>8. terminals' \subseteq Recs
  BY <1>1
<1> QED BY <1>2, <1>3, <1>4, <1>5, <1>6, <1>7, <1>8 DEF Pooled, PoolBound, PoolFinite

-----------------------------------------------------------------------------
(* The steps that give no terminal a PTY                                   *)

Scalars ==
    /\ todo \subseteq Recs
    /\ ladder \in {"off", "dialing", "listing", "attaching"}
    /\ gen \in Nat /\ up \in BOOLEAN /\ link \in {"up", "timed", "lost", "expired", "dead"}
    /\ grace \in BOOLEAN /\ phase \in Phases
    /\ steps \in Nat /\ faults \in Nat

LEMMA TypeParts ==
    /\ TypeOK <=> /\ Scalars /\ rec \in [Recs -> Record]
                  /\ terminals \subseteq Recs /\ older \in [Recs -> SUBSET terminals]
                  /\ attach \in [Procs -> Attach] /\ chan \in [Chans -> Channel]
    /\ IInv <=> /\ Scalars /\ rec \in [Recs -> Record] /\ attach \in [Procs -> Attach]
                /\ chan \in [Chans -> Channel] /\ Pooled
                /\ PtysServed /\ OpensBare /\ OnlyDroppedOrphans /\ InputBound
BY DEF TypeOK, Scalars, Record, IInv, Pooled

LEMMA PartsNext ==
    ASSUME Scalars', rec' \in [Recs -> Record], attach' \in [Procs -> Attach],
           chan' \in [Chans -> Channel], Pooled', PtysServed', OpensBare', OnlyDroppedOrphans', InputBound'
    PROVE  IInv'
BY DEF TypeOK, Scalars, Record, IInv, Pooled

\* No attach comes to open a PTY.
AttachQuiet ==
    /\ attach' \in [Procs -> Attach]
    /\ \A p \in Procs :
          \/ attach'[p].rec = {}
          \/ /\ attach'[p].rec = attach[p].rec
             /\ attach'[p].pc \in {"previous", "opening"} => attach[p].pc \in {"previous", "opening"}

PtysQuiet ==
    /\ RecsKeep(rec, rec') /\ ChansKeep(chan, chan') /\ StillServed(rec', chan')
    /\ \A r \in Recs : rec'[r].pty # NoChan => r \in terminals'
    /\ up' /\ Alive' => \/ up /\ Alive /\ Released(rec, rec', chan')
                        \/ \A c \in Chans : chan'[c].state # "open"

\* What such a step leaves of the invariant, whatever becomes of the attaches.
LEMMA QuietParts ==
    ASSUME IInv, rec' \in [Recs -> Record], ChansKeep(chan, chan'), StillServed(rec', chan'),
           \A r \in Recs : rec'[r].pty # NoChan =>
               /\ rec'[r].pty = rec[r].pty /\ rec'[r].pump = rec[r].pump
               /\ rec'[r].readSequence = rec[r].readSequence /\ r \in terminals',
           up' /\ Alive' => \/ up /\ Alive /\ Released(rec, rec', chan')
                            \/ \A c \in Chans : chan'[c].state # "open"
    PROVE  PtysServed' /\ OnlyDroppedOrphans' /\ InputBound' /\ chan' \in [Chans -> Channel]
<1>1. rec \in [Recs -> Record] /\ PtysServed /\ OnlyDroppedOrphans /\ Pooled
  BY TypeParts
<1>2. chan' \in [Chans -> Channel] /\ \A c \in Chans : ChanKeeps(chan[c], chan'[c])
  BY DEF ChansKeep
<1>3. \A r \in Recs : rec[r].pty \in Chans \cup {NoChan} /\ rec'[r].pty \in Chans \cup {NoChan}
  BY <1>1, RecordFacts
<1>4. PtysServed'
  <2> SUFFICES ASSUME NEW r \in Recs, rec'[r].pty # NoChan
               PROVE  r \in terminals' /\ Served(rec'[r], chan'[rec'[r].pty], r)
    BY DEF PtysServed
  <2>1. /\ rec'[r].pty = rec[r].pty /\ rec'[r].pump = rec[r].pump
        /\ rec'[r].readSequence = rec[r].readSequence /\ r \in terminals'
    OBVIOUS
  <2>2. PICK c \in Chans : c = rec[r].pty
    BY <1>3, <2>1
  <2>3. Served(rec[r], chan[c], r)
    BY <1>1, <2>1, <2>2 DEF PtysServed
  <2>4. /\ chan'[c].pump = chan[c].pump /\ chan'[c].delivered = chan[c].delivered
        /\ chan'[c].failed = chan[c].failed /\ chan'[c].rec = chan[c].rec
    BY <1>2, <2>1, <2>2 DEF StillServed, ChanKeeps
  <2>5. Served(rec'[r], chan'[c], r)
    BY <2>1, <2>3, <2>4 DEF Served
  <2> QED BY <2>1, <2>2, <2>5
<1>5. OnlyDroppedOrphans'
  <2> SUFFICES ASSUME up', Alive', NEW c \in Chans, chan'[c].state = "open", ~ chan'[c].closing, ~ chan'[c].dropped
               PROVE  \E r \in terminals' : rec'[r].pty = c
    BY DEF OnlyDroppedOrphans
  <2>1. up /\ Alive /\ Released(rec, rec', chan')
    OBVIOUS
  <2>2. chan[c].state = "open" /\ ~ chan[c].closing /\ ~ chan[c].dropped
    BY <1>2 DEF ChanKeeps
  <2>3. PICK r \in terminals : rec[r].pty = c
    BY <1>1, <2>1, <2>2 DEF OnlyDroppedOrphans
  <2>4. r \in Recs /\ c # NoChan
    BY <1>1, TerminalsAssumption DEF Pooled
  <2>5. rec'[r].pty # NoChan
    BY <2>1, <2>3, <2>4 DEF Released
  <2>6. rec'[r].pty = c /\ r \in terminals'
    BY <2>3, <2>4, <2>5
  <2> QED BY <2>6
<1>6. InputBound'
  BY <1>2 DEF InputBound, ChanKeeps
<1> QED BY <1>2, <1>4, <1>5, <1>6

\* What every step keeps: the invariant, and no write into a failed channel.
Kept ==
    /\ IInv'
    /\ \A c \in Chans : chan[c].failed => chan'[c].sent \in {chan[c].sent, 0}

LEMMA QuietStep ==
    ASSUME IInv, Scalars', Pooled', AttachQuiet, PtysQuiet
    PROVE  Kept
<1>1. OpensBare
  BY TypeParts
<1>2. rec' \in [Recs -> Record] /\ \A r \in Recs : RecKeeps(rec[r], rec'[r])
  BY DEF PtysQuiet, RecsKeep
<1>3. /\ ChansKeep(chan, chan') /\ StillServed(rec', chan')
      /\ \A r \in Recs : rec'[r].pty # NoChan =>
             /\ rec'[r].pty = rec[r].pty /\ rec'[r].pump = rec[r].pump
             /\ rec'[r].readSequence = rec[r].readSequence /\ r \in terminals'
  BY <1>2 DEF PtysQuiet, RecKeeps
<1>4. PtysServed' /\ OnlyDroppedOrphans' /\ InputBound' /\ chan' \in [Chans -> Channel]
  <2>1. up' /\ Alive' => \/ up /\ Alive /\ Released(rec, rec', chan')
                         \/ \A c \in Chans : chan'[c].state # "open"
    BY DEF PtysQuiet
  <2> QED BY <1>2, <1>3, <2>1, QuietParts
<1>5. OpensBare'
  <2> SUFFICES ASSUME NEW p \in Procs, NEW r \in attach'[p].rec,
                      attach'[p].pc \in {"previous", "opening"}, rec'[r].opener = p
               PROVE  rec'[r].pty = NoChan
    BY DEF OpensBare
  <2>1. r \in attach[p].rec /\ attach[p].pc \in {"previous", "opening"}
    BY DEF AttachQuiet
  <2>2. r \in Recs
    BY DEF AttachQuiet, Attach
  <2>3. p # NoProc
    BY TerminalsAssumption
  <2>4. rec[r].opener = p /\ rec'[r].pty \in {rec[r].pty, NoChan}
    BY <1>2, <2>2, <2>3 DEF RecKeeps
  <2> QED BY <1>1, <2>1, <2>4 DEF OpensBare
<1>6. attach' \in [Procs -> Attach]
  BY DEF AttachQuiet
<1>7. \A c \in Chans : chan[c].failed => chan'[c].sent \in {chan[c].sent, 0}
  BY <1>3 DEF ChansKeep, ChanKeeps
<1> QED BY <1>2, <1>4, <1>5, <1>6, <1>7, PartsNext DEF Kept

-----------------------------------------------------------------------------
(* Recovery starts                                                         *)

\* The records and channels after a step that leaves every open channel to a
\* terminal or closes it.
PtysGo(rs, chs) ==
    RecsKeep(rec, rs) /\ ChansKeep(chan, chs) /\ StillServed(rs, chs) /\ Released(rec, rs, chs)

\* Terminals are stopped, and their PTYs closed.
LEMMA StopsAndCloses ==
    ASSUME IInv, NEW rs, NEW chs, PtysGo(rs, chs), NEW S, NEW cs,
           \A r \in S \cap Recs : rs[r].pty = NoChan \/ rs[r].pty \in cs
    PROVE  PtysGo(Stopped(rs, S), Closing(cs, chs))
<1>1. /\ RecsKeep(rec, rs) /\ ChansKeep(chan, chs) /\ StillServed(rs, chs) /\ Released(rec, rs, chs)
  BY DEF PtysGo
<1>2. RecsKeep(rec, Stopped(rs, S)) /\ ChansKeep(chan, Closing(cs, chs))
  BY <1>1, KeepsStopped, KeepsClosing
<1>3. /\ rec \in [Recs -> Record] /\ rs \in [Recs -> Record] /\ chs \in [Chans -> Channel]
      /\ \A r \in Recs : rs[r].pty \in {rec[r].pty, NoChan}
  BY <1>1, TypeParts DEF RecsKeep, ChansKeep, RecKeeps
<1>4. StillServed(Stopped(rs, S), Closing(cs, chs)) /\ Released(rec, Stopped(rs, S), Closing(cs, chs))
  BY <1>1, <1>3, StopAndClose
<1> QED BY <1>2, <1>4 DEF PtysGo

LEMMA Reconnecting ==
    ASSUME IInv, NEW rs, NEW chs, NEW ph \in Phases, PtysGo(rs, chs), reconnectAndAttach(rs, chs, ph)
    PROVE  /\ PtysGo(rec', chan') /\ up' \in BOOLEAN /\ (up' => up) /\ phase' \in Phases
           /\ ladder' \in {"off", "dialing", "listing", "attaching"}
<1>1. CASE ladder # "off"
  BY <1>1, TypeParts DEF reconnectAndAttach, Scalars
<1>2. CASE ladder = "off"
  <2> DEFINE cs == {rs[r].pty : r \in terminals} \ {NoChan}
  <2>1. /\ rec' = Stopped(rs, terminals) /\ chan' = Closing(cs, chs)
        /\ up' = FALSE /\ ladder' = "dialing" /\ phase' = "reconnecting"
    BY <1>2 DEF reconnectAndAttach
  <2>2. \A r \in terminals \cap Recs : rs[r].pty = NoChan \/ rs[r].pty \in cs
    OBVIOUS
  <2> HIDE DEF cs
  <2>3. PtysGo(rec', chan')
    BY <2>1, <2>2, StopsAndCloses
  <2> QED BY <2>1, <2>3 DEF Phases
<1> QED BY <1>1, <1>2

LEMMA StartingReconnect ==
    ASSUME IInv, NEW rs, NEW chs, NEW ph \in Phases, PtysGo(rs, chs), startReconnect(rs, chs, ph)
    PROVE  /\ PtysGo(rec', chan') /\ up' \in BOOLEAN /\ (up' => up) /\ phase' \in Phases
           /\ ladder' \in {"off", "dialing", "listing", "attaching"}
<1>1. CASE ph = "background"
  BY <1>1, TypeParts DEF startReconnect, Scalars
<1>2. CASE ph # "background"
  <2>1. reconnectAndAttach(rs, chs, ph)
    BY <1>2 DEF startReconnect
  <2> QED BY <2>1, Reconnecting
<1> QED BY <1>1, <1>2

LEMMA PtysGoNowhere ==
    ASSUME IInv
    PROVE  PtysGo(rec, chan)
BY KeepsItself DEF PtysGo, IInv

\* What PtysGo gives for the step.
LEMMA PtysGone ==
    ASSUME IInv, PtysGo(rec', chan'), terminals' = terminals \/ \E S : /\ terminals' = terminals \ S
                                        /\ \A r \in S \cap Recs : rec'[r].pty = NoChan,
           up' /\ Alive' => \/ up /\ Alive
                            \/ \A c \in Chans : chan'[c].state # "open"
    PROVE  PtysQuiet /\ SessionsKept
<1>1. RecsKeep(rec, rec') /\ PtysServed
  BY TypeParts DEF PtysGo
<1>2. \A r \in Recs : rec'[r].pty # NoChan => r \in terminals'
  BY <1>1 DEF RecsKeep, RecKeeps, PtysServed
<1>3. SessionsKept
  BY <1>1 DEF RecsKeep, RecKeeps, SessionsKept
<1> QED BY <1>2, <1>3 DEF PtysQuiet, PtysGo

LEMMA AttachSame ==
    ASSUME IInv, UNCHANGED attach
    PROVE  AttachQuiet
BY TypeParts DEF AttachQuiet

\* The common case: the pool is as it was.
LEMMA PoolQuietStep ==
    ASSUME IInv, Scalars', AttachQuiet, PtysGo(rec', chan'), UNCHANGED <<terminals, older>>,
           up' /\ Alive' => up /\ Alive
    PROVE  Kept
<1>1. PtysQuiet /\ SessionsKept
  BY PtysGone
<1>2. Pooled'
  BY <1>1, TypeParts, PoolSame
<1> QED BY <1>1, <1>2, QuietStep

\* Terminals leave the pool.
LEMMA PoolShrinksStep ==
    ASSUME IInv, Scalars', AttachQuiet, PtysGo(rec', chan'), NEW S, terminals' = terminals \ S,
           older' = Unfocused(S), \A r \in S \cap Recs : rec'[r].pty = NoChan,
           up' /\ Alive' => \/ up /\ Alive
                            \/ \A c \in Chans : chan'[c].state # "open"
    PROVE  Kept
<1>1. PtysQuiet /\ SessionsKept
  BY PtysGone
<1>2. Pooled'
  BY <1>1, TypeParts, PoolShrinks
<1> QED BY <1>1, <1>2, QuietStep

\* A terminal is focused.
LEMMA PoolFocusedStep ==
    ASSUME IInv, Scalars', AttachQuiet, PtysGo(rec', chan'), NEW x \in terminals,
           UNCHANGED terminals, older' = Focused(x), up' /\ Alive' => up /\ Alive
    PROVE  Kept
<1>1. PtysQuiet /\ SessionsKept
  BY PtysGone
<1>2. Pooled'
  BY <1>1, TypeParts, PoolFocused
<1> QED BY <1>1, <1>2, QuietStep

LEMMA PhaseFacts ==
    ASSUME NEW rs, NEW ts, NEW ph \in Phases
    PROVE  LiveOr(rs, ts, ph) \in Phases /\ idlePhase(rs, ts) \in Phases
BY DEF LiveOr, idlePhase, Phases

-----------------------------------------------------------------------------
(* An attach ends                                                          *)

LEMMA SettledFacts ==
    ASSUME NEW rs \in [Recs -> Record], NEW p
    PROVE  /\ Settled(p, rs) \in [Recs -> Record]
           /\ \A r \in Recs : LET x == Settled(p, rs)[r] IN
                 /\ x.session = rs[r].session /\ x.opener = rs[r].opener /\ x.pty = rs[r].pty
                 /\ x.pump = rs[r].pump /\ x.readSequence = rs[r].readSequence
<1> DEFINE settle(x) == [x EXCEPT !.attaching = NoProc]
<1>1. \A r \in Recs : /\ settle(rs[r]) \in Record
                      /\ settle(rs[r]).session = rs[r].session /\ settle(rs[r]).opener = rs[r].opener
                      /\ settle(rs[r]).pty = rs[r].pty /\ settle(rs[r]).pump = rs[r].pump
                      /\ settle(rs[r]).readSequence = rs[r].readSequence
  BY DEF Record
<1>2. Settled(p, rs) = [r \in Recs |-> IF rs[r].attaching = p THEN settle(rs[r]) ELSE rs[r]]
  BY DEF Settled
<1> HIDE DEF settle
<1> QED BY <1>1, <1>2

LEMMA SettledGoes ==
    ASSUME NEW rs, NEW chs, PtysGo(rs, chs), NEW p \in Procs
    PROVE  PtysGo(Settled(p, rs), chs)
<1>1. /\ rs \in [Recs -> Record] /\ \A r \in Recs : RecKeeps(rec[r], rs[r])
      /\ ChansKeep(chan, chs) /\ StillServed(rs, chs) /\ Released(rec, rs, chs)
  BY DEF PtysGo, RecsKeep
<1>2. /\ Settled(p, rs) \in [Recs -> Record]
      /\ \A r \in Recs : LET x == Settled(p, rs)[r] IN
            /\ x.session = rs[r].session /\ x.opener = rs[r].opener /\ x.pty = rs[r].pty
            /\ x.pump = rs[r].pump /\ x.readSequence = rs[r].readSequence
  BY <1>1, SettledFacts
<1>3. RecsKeep(rec, Settled(p, rs))
  BY <1>1, <1>2 DEF RecsKeep, RecKeeps
<1>4. StillServed(Settled(p, rs), chs) /\ Released(rec, Settled(p, rs), chs)
  BY <1>1, <1>2 DEF StillServed, Released
<1> QED BY <1>1, <1>3, <1>4 DEF PtysGo

LEMMA NoAttachFacts ==
    NoAttach \in Attach /\ NoAttach.pc = "none" /\ NoAttach.rec = {}
BY DEF NoAttach, Attach, TypeOK

LEMMA AttachDropped ==
    ASSUME IInv, NEW p \in Procs, attach' = [attach EXCEPT ![p] = NoAttach]
    PROVE  AttachQuiet
<1>1. attach \in [Procs -> Attach] /\ NoAttach \in Attach /\ NoAttach.rec = {}
  BY TypeParts, NoAttachFacts
<1>2. /\ attach' \in [Procs -> Attach] /\ attach'[p] = NoAttach
      /\ \A q \in Procs : q # p => attach'[q] = attach[q]
  BY <1>1
<1>3. ASSUME NEW q \in Procs
      PROVE  \/ attach'[q].rec = {}
             \/ /\ attach'[q].rec = attach[q].rec
                /\ attach'[q].pc \in {"previous", "opening"} => attach[q].pc \in {"previous", "opening"}
  BY <1>1, <1>2
<1> QED BY <1>2, <1>3 DEF AttachQuiet

LEMMA LadderEndsFacts ==
    ASSUME NEW rs, LadderEnds(rs)
    PROVE  phase' \in Phases /\ ladder' = "off"
<1>1. "connected" \in Phases /\ "error" \in Phases
  BY DEF Phases
<1>2. (IF terminals = {} THEN "connected" ELSE "error") \in Phases
  BY <1>1
<1> QED BY <1>2, PhaseFacts DEF LadderEnds

LEMMA AttachEndsFacts ==
    ASSUME IInv, NEW p \in Procs, NEW rs, NEW chs, PtysGo(rs, chs), NEW ph \in Phases,
           AttachEnds(p, rs, ph)
    PROVE  /\ AttachQuiet /\ PtysGo(rec', chs) /\ phase' \in Phases
           /\ ladder' \in {"off", "dialing", "listing", "attaching"}
<1>1. /\ attach' = [attach EXCEPT ![p] = NoAttach]
      /\ rec' = Settled(p, rs)
      /\ \/ LadderEnds(rs)
         \/ phase' = ph /\ UNCHANGED ladder
  BY DEF AttachEnds
<1>2. AttachQuiet /\ PtysGo(rec', chs)
  BY <1>1, AttachDropped, SettledGoes
<1>3. LadderEnds(rs) => phase' \in Phases /\ ladder' = "off"
  BY LadderEndsFacts
<1>4. ladder \in {"off", "dialing", "listing", "attaching"}
  BY TypeParts DEF Scalars
<1> QED BY <1>1, <1>2, <1>3, <1>4

LEMMA PreviousClosedStep ==
    ASSUME IInv, NEW p \in Procs, previousClosed(p)
    PROVE  Kept
<1>1. /\ Scalars /\ PtysGo(rec, chan) /\ attach \in [Procs -> Attach]
  BY TypeParts, PtysGoNowhere
<1>2. UNCHANGED <<terminals, older, todo, chan, up, gen, link, grace, steps, faults>>
  BY DEF previousClosed, linkVars
<1>3. up' /\ Alive' => up /\ Alive
  BY <1>2 DEF Alive
<1>4. CASE superseded(p)
  <2>1. AttachEnds(p, rec, phase) /\ phase \in Phases
    BY <1>1, <1>4 DEF previousClosed, Scalars
  <2>2. /\ AttachQuiet /\ PtysGo(rec', chan) /\ phase' \in Phases
        /\ ladder' \in {"off", "dialing", "listing", "attaching"}
    BY <1>1, <2>1, AttachEndsFacts
  <2>3. Scalars' /\ PtysGo(rec', chan')
    BY <1>1, <1>2, <2>2 DEF Scalars
  <2> QED BY <1>2, <1>3, <2>2, <2>3, PoolQuietStep
<1>5. CASE ~ superseded(p)
  <2>1. /\ attach[p].pc = "previous"
        /\ attach' = [attach EXCEPT ![p].pc = "opening", ![p].chan = NoChan]
        /\ UNCHANGED <<rec, phase, ladder>>
    BY <1>5 DEF previousClosed
  <2> DEFINE a == attach[p]
             b == [a EXCEPT !.pc = "opening", !.chan = NoChan]
  <2>2. b \in Attach /\ b.rec = a.rec
    BY <1>1 DEF Attach
  <2>3. attach' = [attach EXCEPT ![p] = b]
    BY <1>1, <2>1
  <2>4. attach' \in [Procs -> Attach] /\ attach'[p].rec = attach[p].rec
        /\ \A q \in Procs : q # p => attach'[q] = attach[q]
    BY <1>1, <2>2, <2>3
  <2>5. ASSUME NEW q \in Procs
        PROVE  /\ attach'[q].rec = attach[q].rec
               /\ attach'[q].pc \in {"previous", "opening"} => attach[q].pc \in {"previous", "opening"}
    BY <2>1, <2>4
  <2>6. AttachQuiet
    BY <2>4, <2>5 DEF AttachQuiet
  <2>7. Scalars' /\ PtysGo(rec', chan')
    BY <1>1, <1>2, <2>1 DEF Scalars
  <2> QED BY <1>2, <1>3, <2>6, <2>7, PoolQuietStep
<1> QED BY <1>4, <1>5

LEMMA StaleClosedStep ==
    ASSUME IInv, NEW p \in Procs, staleClosed(p)
    PROVE  Kept
<1>1. Scalars /\ PtysGo(rec, chan)
  BY TypeParts, PtysGoNowhere
<1>2. /\ UNCHANGED <<terminals, older, todo, chan, up, gen, link, grace, steps, faults>>
      /\ AttachEnds(p, rec, phase) /\ phase \in Phases
  BY <1>1 DEF staleClosed, linkVars, Scalars
<1>3. /\ AttachQuiet /\ PtysGo(rec', chan) /\ phase' \in Phases
      /\ ladder' \in {"off", "dialing", "listing", "attaching"}
  BY <1>1, <1>2, AttachEndsFacts
<1>4. Scalars' /\ PtysGo(rec', chan') /\ (up' /\ Alive' => up /\ Alive)
  BY <1>1, <1>2, <1>3 DEF Scalars, Alive
<1> QED BY <1>2, <1>3, <1>4, PoolQuietStep

-----------------------------------------------------------------------------
(* One record and one channel change                                       *)

LEMMA OneGoes ==
    ASSUME IInv, NEW r \in Recs, NEW y \in Record, NEW c \in Chans, NEW x \in Channel,
           NEW rs, rs = [rec EXCEPT ![r] = y], NEW chs, chs = [chan EXCEPT ![c] = x],
           RecKeeps(rec[r], y), ChanKeeps(chan[c], x),
           \/ x.pump = chan[c].pump /\ x.delivered = chan[c].delivered /\ x.failed = chan[c].failed
           \/ \A q \in Recs : rs[q].pty # c,
           \/ y.pty = rec[r].pty
           \/ rec[r].pty = c /\ (x.closing \/ x.state # "open")
    PROVE  PtysGo(rs, chs)
<1>1. /\ rec \in [Recs -> Record] /\ chan \in [Chans -> Channel] /\ InputBound
      /\ PtysGo(rec, chan)
  BY TypeParts, PtysGoNowhere
<1>2. /\ rs \in [Recs -> Record] /\ rs[r] = y /\ \A q \in Recs : q # r => rs[q] = rec[q]
  BY <1>1
<1>3. /\ chs \in [Chans -> Channel] /\ chs[c] = x /\ \A d \in Chans : d # c => chs[d] = chan[d]
  BY <1>1
<1>4. RecsKeep(rec, rs)
  BY <1>1, <1>2 DEF PtysGo, RecsKeep
<1>5. ChansKeep(chan, chs)
  BY <1>1, <1>3 DEF PtysGo, ChansKeep
<1>6. \A q \in Recs : rec[q].pty \in Chans \cup {NoChan} /\ rs[q].pty \in Chans \cup {NoChan}
  BY <1>1, <1>2, RecordFacts
<1>7. StillServed(rs, chs)
  <2> SUFFICES ASSUME NEW q \in Recs, NEW d \in Chans, rs[q].pty = d
               PROVE  /\ chs[d].pump = chan[d].pump /\ chs[d].delivered = chan[d].delivered
                      /\ chs[d].failed = chan[d].failed
    BY <1>6 DEF StillServed
  <2> QED BY <1>3
<1>8. Released(rec, rs, chs)
  <2> SUFFICES ASSUME NEW q \in Recs, NEW d \in Chans, rec[q].pty = d, rs[q].pty = NoChan
               PROVE  chs[d].closing \/ chs[d].dropped \/ chs[d].state # "open"
    BY <1>6 DEF Released
  <2>1. d # NoChan
    BY TerminalsAssumption
  <2> QED BY <1>2, <1>3, <2>1
<1> QED BY <1>4, <1>5, <1>7, <1>8 DEF PtysGo

\* Only a channel changes.
LEMMA ChanGoes ==
    ASSUME IInv, NEW c \in Chans, NEW x \in Channel, NEW chs, chs = [chan EXCEPT ![c] = x],
           ChanKeeps(chan[c], x),
           \/ x.pump = chan[c].pump /\ x.delivered = chan[c].delivered /\ x.failed = chan[c].failed
           \/ \A q \in Recs : rec[q].pty # c
    PROVE  PtysGo(rec, chs)
<1>1. /\ rec \in [Recs -> Record] /\ chan \in [Chans -> Channel] /\ InputBound
      /\ PtysGo(rec, chan)
  BY TypeParts, PtysGoNowhere
<1>2. /\ chs \in [Chans -> Channel] /\ chs[c] = x /\ \A d \in Chans : d # c => chs[d] = chan[d]
  BY <1>1
<1>3. ChansKeep(chan, chs) /\ RecsKeep(rec, rec)
  BY <1>1, <1>2 DEF PtysGo, ChansKeep
<1>4. \A q \in Recs : rec[q].pty \in Chans \cup {NoChan}
  BY <1>1, RecordFacts
<1>5. StillServed(rec, chs)
  <2> SUFFICES ASSUME NEW q \in Recs, NEW d \in Chans, rec[q].pty = d
               PROVE  /\ chs[d].pump = chan[d].pump /\ chs[d].delivered = chan[d].delivered
                      /\ chs[d].failed = chan[d].failed
    BY <1>4 DEF StillServed
  <2> QED BY <1>2
<1>6. Released(rec, rec, chs)
  BY DEF Released
<1> QED BY <1>3, <1>5, <1>6 DEF PtysGo

LEMMA ChannelFacts ==
    ASSUME NEW x \in Channel
    PROVE  /\ x.queue \in 0..MaxInput /\ x.sent \in 0..MaxInput /\ x.delivered \in 0..MaxOutput
           /\ x.rec \subseteq Recs /\ x.closing \in BOOLEAN /\ x.running \in BOOLEAN
           /\ x.failed \in BOOLEAN /\ x.state \in {"closed", "open", "ended"}
           /\ x.pump \in {"off", "read", "listeners", "probe"}
BY DEF Channel

LEMMA ClosingOne ==
    ASSUME NEW f \in [Chans -> Channel], NEW c \in Chans
    PROVE  Closing({c}, f) = [f EXCEPT ![c] = [f[c] EXCEPT !.closing = TRUE]]
BY DEF Closing

\* A terminal that serves itself from a channel, and a pump at work for one.
LEMMA OwnPty ==
    ASSUME IInv, NEW c \in Chans
    PROVE  /\ \A r \in Recs : rec[r].pty = c =>
                 chan[c].rec = {r} /\ rec[r].pump = c /\ ~ chan[c].failed /\ r \in terminals
           /\ chan[c].pump \notin {"read", "listeners"} => \A r \in Recs : rec[r].pty # c
           /\ \A r \in Recs : rec[r].pump = c => rec[r].pty \in {c, NoChan}
<1>1. PtysServed /\ c # NoChan
  BY TypeParts, TerminalsAssumption
<1>2. ASSUME NEW r \in Recs, rec[r].pty # NoChan
      PROVE  r \in terminals /\ Served(rec[r], chan[rec[r].pty], r)
  BY <1>1, <1>2 DEF PtysServed
<1>3. ASSUME NEW r \in Recs, rec[r].pty = c
      PROVE  /\ chan[c].rec = {r} /\ rec[r].pump = c /\ ~ chan[c].failed /\ r \in terminals
             /\ chan[c].pump \in {"read", "listeners"}
  BY <1>1, <1>2, <1>3 DEF Served
<1>4. ASSUME NEW r \in Recs, rec[r].pump = c
      PROVE  rec[r].pty \in {c, NoChan}
  BY <1>2, <1>4 DEF Served
<1> QED BY <1>3, <1>4

\* abandonPty
LEMMA AbandonFacts ==
    ASSUME IInv, NEW r \in Recs
    PROVE  \E y \in Record :
             /\ y.pty = NoChan /\ y.pump = NoChan /\ RecKeeps(rec[r], y)
             /\ [rec EXCEPT ![r].pty = NoChan, ![r].pump = NoChan] = [rec EXCEPT ![r] = y]
<1> DEFINE a == rec[r]
           y == [a EXCEPT !.pty = NoChan, !.pump = NoChan]
<1>1. rec \in [Recs -> Record] /\ a \in Record
  BY TypeParts
<1>2. y \in Record /\ y.pty = NoChan /\ y.pump = NoChan /\ RecKeeps(a, y)
  BY <1>1 DEF Record, RecKeeps
<1>3. [rec EXCEPT ![r].pty = NoChan, ![r].pump = NoChan] = [rec EXCEPT ![r] = y]
  BY <1>1
<1> QED BY <1>2, <1>3

\* A terminal gives up the PTY that its channel c is, and c is closed.
LEMMA AbandonGoes ==
    ASSUME IInv, NEW r \in Recs, NEW y \in Record, y.pty = NoChan, RecKeeps(rec[r], y),
           NEW c \in Chans, NEW x \in Channel, ChanKeeps(chan[c], x),
           \A q \in Recs : rec[q].pty = c => q = r,
           rec[r].pty = NoChan \/ (rec[r].pty = c /\ (x.closing \/ x.state # "open")),
           NEW rs, rs = [rec EXCEPT ![r] = y], NEW chs, chs = [chan EXCEPT ![c] = x]
    PROVE  PtysGo(rs, chs)
<1>1. rec \in [Recs -> Record] /\ c # NoChan
  BY TypeParts, TerminalsAssumption
<1>2. rs[r] = y /\ \A q \in Recs : q # r => rs[q] = rec[q]
  BY <1>1
<1>3. \A q \in Recs : rs[q].pty # c
  BY <1>1, <1>2
<1>4. y.pty = rec[r].pty \/ (rec[r].pty = c /\ (x.closing \/ x.state # "open"))
  OBVIOUS
<1> QED BY <1>3, <1>4, OneGoes

-----------------------------------------------------------------------------
(* The user                                                                *)

LEMMA FocusSessionStep ==
    ASSUME IInv, NEW s \in Sessions, focusSession(s)
    PROVE  Kept
<1>1. PICK x \in terminals :
        /\ steps' = steps + 1 /\ older' = Focused(x)
        /\ UNCHANGED <<rec, terminals, attach, todo, chan, ladder, up, gen, link, grace, phase, faults>>
  BY DEF focusSession, findTerminal, UserCall, linkVars
<1>2. Scalars /\ PtysGo(rec, chan)
  BY TypeParts, PtysGoNowhere
<1>3. Scalars' /\ PtysGo(rec', chan') /\ AttachQuiet /\ (up' /\ Alive' => up /\ Alive)
  BY <1>1, <1>2, AttachSame DEF Scalars, Alive
<1> QED BY <1>1, <1>3, PoolFocusedStep

LEMMA DetachSessionStep ==
    ASSUME IInv, NEW s \in Sessions, detachSession(s)
    PROVE  Kept
<1>1. PICK r \in terminals :
        /\ steps' = steps + 1 /\ removeTerminal(r, rec) /\ chan' = Closing(PtysOf({r}), chan)
        /\ phase' = phase \/ phase' = idlePhase(rec', terminals')
        /\ UNCHANGED <<attach, todo, ladder, up, gen, link, grace, faults>>
  BY DEF detachSession, findTerminal, UserCall, linkVars
<1>2. /\ terminals' = terminals \ {r} /\ older' = Unfocused({r}) /\ rec' = Stopped(rec, {r})
  BY <1>1 DEF removeTerminal
<1>3. Scalars /\ rec \in [Recs -> Record] /\ PtysGo(rec, chan) /\ r \in Recs
  BY TypeParts, PtysGoNowhere DEF Pooled
<1>4. \A q \in {r} \cap Recs : rec[q].pty = NoChan \/ rec[q].pty \in PtysOf({r})
  BY DEF PtysOf
<1>5. PtysGo(rec', chan')
  BY <1>1, <1>2, <1>3, <1>4, StopsAndCloses
<1>6. \A q \in {r} \cap Recs : rec'[q].pty = NoChan
  BY <1>2, <1>3, StoppedFacts
<1>7. "connected" \in Phases
  BY DEF Phases
<1>8. phase' \in Phases
  BY <1>1, <1>3, <1>7, PhaseFacts DEF Scalars
<1>9. Scalars' /\ AttachQuiet /\ (up' /\ Alive' => up /\ Alive)
  BY <1>1, <1>3, <1>8, AttachSame DEF Scalars, Alive
<1> QED BY <1>2, <1>5, <1>6, <1>9, PoolShrinksStep

LEMMA WriteTerminalBytesStep ==
    ASSUME IInv, NEW s \in Sessions, writeTerminalBytes(s)
    PROVE  Kept
<1>1. PICK r \in terminals : LET c == rec[r].pty IN
        /\ steps' = steps + 1 /\ c # NoChan /\ chan[c].queue + chan[c].sent < MaxInput
        /\ chan' = [chan EXCEPT ![c].queue = @ + 1] /\ older' = Focused(r)
        /\ UNCHANGED <<rec, terminals, attach, todo, ladder, up, gen, link, grace, phase, faults>>
  BY DEF writeTerminalBytes, findTerminal, UserCall, linkVars
<1>2. /\ Scalars /\ rec \in [Recs -> Record] /\ chan \in [Chans -> Channel] /\ r \in Recs
      /\ MaxInput \in Nat
  BY TypeParts, TerminalsAssumption DEF Pooled
<1>3. PICK c \in Chans : c = rec[r].pty
  BY <1>1, <1>2, RecordFacts
<1> DEFINE n == chan[c].queue + 1
           x == [chan[c] EXCEPT !.queue = n]
<1>4. chan[c].queue \in 0..MaxInput /\ chan[c].sent \in 0..MaxInput
  BY <1>2, ChannelFacts
<1>5. n \in 0..MaxInput /\ n + chan[c].sent <= MaxInput
  BY <1>1, <1>2, <1>3, <1>4
<1>6. chan' = [chan EXCEPT ![c] = x]
  BY <1>1, <1>2, <1>3
<1> HIDE DEF n
<1>7. /\ x \in Channel /\ x.state = chan[c].state /\ x.closing = chan[c].closing
      /\ x.rec = chan[c].rec /\ x.pump = chan[c].pump /\ x.delivered = chan[c].delivered
      /\ x.dropped = chan[c].dropped
      /\ x.failed = chan[c].failed /\ x.queue = n /\ x.sent = chan[c].sent
  BY <1>2, <1>5 DEF Channel
<1>8. ChanKeeps(chan[c], x)
  BY <1>5, <1>7 DEF ChanKeeps
<1> HIDE DEF x
<1>9. PtysGo(rec, chan')
  BY <1>6, <1>7, <1>8, ChanGoes
<1>10. Scalars' /\ AttachQuiet /\ (up' /\ Alive' => up /\ Alive)
  BY <1>1, <1>2, AttachSame DEF Scalars, Alive
<1> QED BY <1>1, <1>9, <1>10, PoolFocusedStep

LEMMA EnterBackgroundStep ==
    ASSUME IInv, enterBackground
    PROVE  Kept
<1>1. /\ steps' = steps + 1 /\ up /\ Alive /\ grace' = TRUE /\ link' = "timed" /\ phase' = "background"
      /\ UNCHANGED <<rec, terminals, older, attach, todo, chan, ladder, gen, up, faults>>
  BY DEF enterBackground, UserCall
<1>2. Scalars /\ PtysGo(rec, chan)
  BY TypeParts, PtysGoNowhere
<1>3. Scalars' /\ PtysGo(rec', chan') /\ AttachQuiet /\ (up' /\ Alive' => up /\ Alive)
  BY <1>1, <1>2, AttachSame DEF Scalars, Phases
<1> QED BY <1>1, <1>3, PoolQuietStep

LEMMA ReturnToForegroundStep ==
    ASSUME IInv, returnToForeground
    PROVE  Kept
<1>1. /\ steps' = steps + 1 /\ grace' = FALSE /\ UNCHANGED <<attach, todo, gen, faults>>
  BY DEF returnToForeground, UserCall
<1>2. Scalars /\ rec \in [Recs -> Record] /\ PtysGo(rec, chan) /\ terminals \subseteq Recs
  BY TypeParts, PtysGoNowhere DEF Pooled
<1>3. CASE up /\ Alive
  <2> DEFINE gone == {r \in terminals : rec[r].pty = NoChan /\ rec[r].attaching = NoProc}
  <2>1. /\ terminals' = terminals \ gone /\ older' = Unfocused(gone) /\ rec' = Stopped(rec, gone)
        /\ phase' = idlePhase(rec', terminals') /\ link' = "up"
        /\ UNCHANGED <<chan, up, ladder>>
    BY <1>3 DEF returnToForeground
  <2> HIDE DEF gone
  <2>2. RecsKeep(rec, rec') /\ \A r \in gone \cap Recs : rec'[r].pty = NoChan
    BY <1>2, <2>1, KeepsStopped, StoppedFacts DEF PtysGo
  <2>3. \A r \in Recs : rec'[r].pty = rec[r].pty
    <3>1. \A r \in Recs : r \notin gone => rec'[r] = rec[r]
      BY <1>2, <2>1, StoppedFacts
    <3>2. \A r \in gone \cap Recs : rec[r].pty = NoChan
      BY DEF gone
    <3> QED BY <2>2, <3>1, <3>2
  <2>4. PtysGo(rec', chan')
    BY <1>2, <2>1, <2>2, <2>3 DEF PtysGo, StillServed, Released
  <2>5. "connected" \in Phases
    BY DEF Phases
  <2>6. phase' \in Phases
    BY <2>1, <2>5, PhaseFacts
  <2>7. Scalars'
    <3>1. up' \in BOOLEAN /\ grace' \in BOOLEAN
      BY <1>1, <1>2, <2>1 DEF Scalars
    <3>2. steps' \in Nat /\ gen' \in Nat /\ faults' \in Nat
      BY <1>1, <1>2 DEF Scalars
    <3>3. todo' \subseteq Recs /\ ladder' \in {"off", "dialing", "listing", "attaching"} /\ phase' \in Phases
          /\ link' \in {"up", "timed", "lost", "expired", "dead"}
      BY <1>1, <1>2, <2>1, <2>6 DEF Scalars
    <3> QED BY <3>1, <3>2, <3>3 DEF Scalars
  <2>8. AttachQuiet
    BY <1>1, AttachSame
  <2> QED BY <1>3, <2>1, <2>2, <2>4, <2>7, <2>8, PoolShrinksStep
<1>4. CASE ~ (up /\ Alive)
  <2>1. reconnectAndAttach(rec, chan, phase) /\ UNCHANGED <<terminals, older, link>> /\ phase \in Phases
    BY <1>2, <1>4 DEF returnToForeground, Scalars
  <2>2. /\ PtysGo(rec', chan') /\ up' \in BOOLEAN /\ (up' => up) /\ phase' \in Phases
        /\ ladder' \in {"off", "dialing", "listing", "attaching"}
    BY <1>2, <2>1, Reconnecting
  <2>3. Scalars'
    <3>1. steps' \in Nat /\ gen' \in Nat /\ faults' \in Nat
      BY <1>1, <1>2 DEF Scalars
    <3>2. grace' \in BOOLEAN
      BY <1>1
    <3> QED BY <1>1, <1>2, <2>1, <2>2, <3>1, <3>2 DEF Scalars
  <2>4. AttachQuiet /\ (up' /\ Alive' => up /\ Alive)
    BY <1>1, <2>1, <2>2, AttachSame DEF Alive
  <2> QED BY <2>1, <2>2, <2>3, <2>4, PoolQuietStep
<1> QED BY <1>3, <1>4

LEMMA ReconnectStep ==
    ASSUME IInv, reconnect
    PROVE  Kept
<1>1. /\ steps' = steps + 1 /\ reconnectAndAttach(rec, chan, phase)
      /\ UNCHANGED <<terminals, older, attach, todo, gen, link, grace, faults>>
  BY DEF reconnect, UserCall, linkVars
<1>2. Scalars /\ PtysGo(rec, chan) /\ phase \in Phases
  BY TypeParts, PtysGoNowhere DEF Scalars
<1>3. /\ PtysGo(rec', chan') /\ up' \in BOOLEAN /\ (up' => up) /\ phase' \in Phases
      /\ ladder' \in {"off", "dialing", "listing", "attaching"}
  BY <1>1, <1>2, Reconnecting
<1>4. Scalars'
  BY <1>1, <1>2, <1>3 DEF Scalars
<1>5. AttachQuiet /\ (up' /\ Alive' => up /\ Alive)
  BY <1>1, <1>3, AttachSame DEF Alive
<1> QED BY <1>1, <1>3, <1>4, <1>5, PoolQuietStep

-----------------------------------------------------------------------------
(* Input                                                                   *)

LEMMA OperationRunsStep ==
    ASSUME IInv, NEW c \in Chans, operationRuns(c)
    PROVE  Kept
<1>1. PICK r \in chan[c].rec :
        chan' = [chan EXCEPT ![c].queue = @ - 1, ![c].running = Writable(c, r),
                             ![c].sent = IF Writable(c, r) THEN @ + 1 ELSE @]
  BY DEF operationRuns
<1>2. /\ chan[c].queue > 0
      /\ UNCHANGED <<rec, terminals, older, attach, todo, ladder, up, gen, link, grace, phase, steps, faults>>
  BY DEF operationRuns, linkVars
<1>3. Scalars /\ chan \in [Chans -> Channel] /\ InputBound /\ MaxInput \in Nat
  BY TypeParts, TerminalsAssumption
<1>4. PICK w \in BOOLEAN : w <=> Writable(c, r)
  OBVIOUS
<1> DEFINE a == chan[c]
           n == a.queue - 1
           m == IF Writable(c, r) THEN a.sent + 1 ELSE a.sent
           x == [a EXCEPT !.queue = n, !.running = Writable(c, r), !.sent = m]
<1>5. a \in Channel /\ a.queue \in 0..MaxInput /\ a.sent \in 0..MaxInput /\ a.queue + a.sent <= MaxInput
  BY <1>3, ChannelFacts DEF InputBound
<1>6. n \in 0..MaxInput /\ m \in 0..MaxInput /\ n + m <= MaxInput
  BY <1>2, <1>3, <1>5
<1>7. chan' = [chan EXCEPT ![c] = x]
  BY <1>1, <1>3
<1>8. Writable(c, r) \in BOOLEAN
  BY DEF Writable
<1> HIDE DEF n, m
<1>9. /\ x \in Channel /\ x.state = a.state /\ x.closing = a.closing
      /\ x.rec = a.rec /\ x.pump = a.pump /\ x.delivered = a.delivered
      /\ x.dropped = a.dropped
      /\ x.failed = a.failed /\ x.queue = n /\ x.sent = m
  BY <1>5, <1>6, <1>8 DEF Channel
<1>10. a.failed => m = a.sent
  <2>1. r \in Recs
    BY <1>5, ChannelFacts
  <2>2. a.failed => ~ Writable(c, r)
    BY <2>1, OwnPty DEF Writable
  <2> QED BY <2>2 DEF m
<1>11. ChanKeeps(a, x)
  BY <1>6, <1>9, <1>10 DEF ChanKeeps
<1> HIDE DEF x
<1>12. PtysGo(rec, chan')
  BY <1>7, <1>9, <1>11, ChanGoes
<1>13. Scalars'
  BY <1>2, <1>3 DEF Scalars
<1>14. PtysGo(rec', chan') /\ AttachQuiet /\ (up' /\ Alive' => up /\ Alive)
  BY <1>2, <1>12, AttachSame DEF Alive
<1> QED BY <1>2, <1>13, <1>14, PoolQuietStep

LEMMA OperationDoneStep ==
    ASSUME IInv, NEW c \in Chans, operationDone(c)
    PROVE  Kept
<1>1. /\ chan' = [chan EXCEPT ![c].running = FALSE]
      /\ UNCHANGED <<rec, terminals, older, attach, todo, ladder, up, gen, link, grace, phase, steps, faults>>
  BY DEF operationDone, linkVars
<1>2. Scalars /\ chan \in [Chans -> Channel] /\ InputBound
  BY TypeParts
<1> DEFINE a == chan[c]
           x == [a EXCEPT !.running = FALSE]
<1>3. a \in Channel /\ a.queue + a.sent <= MaxInput
  BY <1>2 DEF InputBound
<1>4. chan' = [chan EXCEPT ![c] = x]
  BY <1>1, <1>2
<1>5. /\ x \in Channel /\ x.state = a.state /\ x.closing = a.closing
      /\ x.rec = a.rec /\ x.pump = a.pump /\ x.delivered = a.delivered
      /\ x.dropped = a.dropped
      /\ x.failed = a.failed /\ x.queue = a.queue /\ x.sent = a.sent
  BY <1>3 DEF Channel
<1>6. ChanKeeps(a, x)
  BY <1>3, <1>5 DEF ChanKeeps
<1> HIDE DEF x
<1>7. PtysGo(rec, chan')
  BY <1>4, <1>5, <1>6, ChanGoes
<1>8. Scalars'
  BY <1>1, <1>2 DEF Scalars
<1>9. PtysGo(rec', chan') /\ AttachQuiet /\ (up' /\ Alive' => up /\ Alive)
  BY <1>1, <1>7, AttachSame DEF Alive
<1> QED BY <1>1, <1>8, <1>9, PoolQuietStep

\* A step in which the transport may have been given up.
LEMMA RecoveringStep ==
    ASSUME IInv, AttachQuiet, PtysGo(rec', chan'), UNCHANGED <<terminals, older, gen, link, grace, steps>>,
           todo' \subseteq Recs, faults' \in Nat, phase' \in Phases, up' \in BOOLEAN, up' => up,
           ladder' \in {"off", "dialing", "listing", "attaching"}
    PROVE  Kept
<1>1. Scalars
  BY TypeParts
<1>2. Scalars'
  BY <1>1 DEF Scalars
<1>3. up' /\ Alive' => up /\ Alive
  BY DEF Alive
<1> QED BY <1>2, <1>3, PoolQuietStep

LEMMA FaultFacts ==
    ASSUME IInv, Fault \/ UNCHANGED faults
    PROVE  faults' \in Nat
BY TypeParts DEF Fault, Scalars

LEMMA OperationFailsStep ==
    ASSUME IInv, NEW c \in Chans, NEW transport \in BOOLEAN, operationFails(c, transport)
    PROVE  Kept
<1> DEFINE a == chan[c]
           x == [a EXCEPT !.running = FALSE, !.failed = TRUE]
           z == [x EXCEPT !.closing = TRUE]
           chs == [chan EXCEPT ![c].running = FALSE, ![c].failed = TRUE]
<1>1. PICK r \in chan[c].rec :
        IF rec[r].pty # c
        THEN chan' = chs /\ UNCHANGED <<rec, phase, up, ladder>>
        ELSE LET rs == [rec EXCEPT ![r].pty = NoChan, ![r].pump = NoChan]
                 ph == LiveOr(rs, terminals, "error")
             IN IF transport THEN startReconnect(rs, Closing({c}, chs), ph)
                ELSE /\ rec' = rs /\ chan' = Closing({c}, chs) /\ phase' = ph
                     /\ UNCHANGED <<up, ladder>>
  BY DEF operationFails
<1>2. UNCHANGED <<terminals, older, attach, todo, gen, link, grace, steps>> /\ (Fault \/ UNCHANGED faults)
  BY DEF operationFails, linkVars
<1>3. Scalars /\ chan \in [Chans -> Channel] /\ InputBound /\ rec \in [Recs -> Record]
  BY TypeParts
<1>4. a \in Channel /\ a.queue + a.sent <= MaxInput /\ r \in Recs
  BY <1>3, ChannelFacts DEF InputBound
<1>5. chs = [chan EXCEPT ![c] = x]
  BY <1>3
<1>6. /\ x \in Channel /\ x.state = a.state /\ x.closing = a.closing /\ x.rec = a.rec
      /\ x.dropped = a.dropped
      /\ x.pump = a.pump /\ x.delivered = a.delivered /\ x.queue = a.queue /\ x.sent = a.sent
  BY <1>4 DEF Channel
<1> HIDE DEF x
<1>7. /\ z \in Channel /\ z.state = a.state /\ z.closing /\ z.rec = a.rec
      /\ z.dropped = a.dropped
      /\ z.pump = a.pump /\ z.queue = a.queue /\ z.sent = a.sent
  BY <1>6 DEF Channel
<1>8. Closing({c}, chs) = [chan EXCEPT ![c] = z]
  <2>1. chs \in [Chans -> Channel] /\ chs[c] = x
    BY <1>3, <1>5, <1>6
  <2> HIDE DEF chs
  <2>2. Closing({c}, chs) = [chs EXCEPT ![c] = z]
    BY <2>1, ClosingOne
  <2> HIDE DEF z
  <2> QED BY <1>3, <1>5, <2>1, <2>2
<1> HIDE DEF chs, z
<1>9. ChanKeeps(a, x) /\ ChanKeeps(a, z)
  BY <1>4, <1>6, <1>7 DEF ChanKeeps
<1>10. \A q \in Recs : rec[q].pty = c => q = r
  <2>1. \A q \in Recs : rec[q].pty = c => chan[c].rec = {q}
    BY OwnPty
  <2> QED BY <2>1
<1>11. faults' \in Nat /\ todo' \subseteq Recs /\ AttachQuiet
  BY <1>2, <1>3, FaultFacts, AttachSame DEF Scalars
<1>12. CASE rec[r].pty # c
  <2>1. chan' = [chan EXCEPT ![c] = x] /\ UNCHANGED <<rec, phase, up, ladder>>
    BY <1>1, <1>5, <1>12
  <2>2. \A q \in Recs : rec[q].pty # c
    BY <1>10, <1>12
  <2>3. PtysGo(rec', chan')
    BY <1>6, <1>9, <2>1, <2>2, ChanGoes
  <2>4. /\ phase' \in Phases /\ up' \in BOOLEAN /\ (up' => up)
        /\ ladder' \in {"off", "dialing", "listing", "attaching"}
    BY <1>3, <2>1 DEF Scalars
  <2> QED BY <1>2, <1>11, <2>3, <2>4, RecoveringStep
<1>13. CASE rec[r].pty = c
  <2> DEFINE rs == [rec EXCEPT ![r].pty = NoChan, ![r].pump = NoChan]
             ph == LiveOr(rs, terminals, "error")
  <2>1. PICK y \in Record : /\ y.pty = NoChan /\ y.pump = NoChan /\ RecKeeps(rec[r], y)
                            /\ rs = [rec EXCEPT ![r] = y]
    BY <1>4, AbandonFacts
  <2>3. IF transport THEN startReconnect(rs, Closing({c}, chs), ph)
        ELSE rec' = rs /\ chan' = Closing({c}, chs) /\ phase' = ph /\ UNCHANGED <<up, ladder>>
    BY <1>1, <1>13
  <2>4. "error" \in Phases
    BY DEF Phases
  <2> HIDE DEF rs
  <2>5. PtysGo(rs, Closing({c}, chs))
    <3>1. PICK d \in Channel : d.closing /\ ChanKeeps(chan[c], d) /\ Closing({c}, chs) = [chan EXCEPT ![c] = d]
      BY <1>7, <1>8, <1>9
    <3>2. PICK n : n = Closing({c}, chs)
      OBVIOUS
    <3>3. PICK f : f = rs
      OBVIOUS
    <3>4. n = [chan EXCEPT ![c] = d] /\ f = [rec EXCEPT ![r] = y]
      BY <2>1, <3>1, <3>2, <3>3
    <3>5. PtysGo(f, n)
      BY <1>4, <1>10, <1>13, <2>1, <3>1, <3>4, AbandonGoes
    <3> QED BY <3>2, <3>3, <3>5
  <2>6. ph \in Phases
    BY <2>4, PhaseFacts
  <2> HIDE DEF ph
  <2>7. CASE transport
    <3>1. /\ PtysGo(rec', chan') /\ up' \in BOOLEAN /\ (up' => up) /\ phase' \in Phases
          /\ ladder' \in {"off", "dialing", "listing", "attaching"}
      BY <2>3, <2>5, <2>6, <2>7, StartingReconnect
    <3> QED BY <1>2, <1>11, <3>1, RecoveringStep
  <2>8. CASE ~ transport
    <3>1. rec' = rs /\ chan' = Closing({c}, chs) /\ phase' = ph /\ UNCHANGED <<up, ladder>>
      BY <2>3, <2>8
    <3>2. up' \in BOOLEAN /\ (up' => up) /\ ladder' \in {"off", "dialing", "listing", "attaching"}
      BY <1>3, <3>1 DEF Scalars
    <3> QED BY <1>2, <1>11, <2>5, <2>6, <3>1, <3>2, RecoveringStep
  <2> QED BY <2>7, <2>8
<1> QED BY <1>12, <1>13

-----------------------------------------------------------------------------
(* Output                                                                  *)

\* Whose PTY the channel of a pump can be.
LEMMA PumpOwner ==
    ASSUME IInv, NEW c \in Chans, NEW r \in chan[c].rec
    PROVE  /\ r \in Recs /\ \A q \in Recs : rec[q].pty = c => q = r
           /\ PumpCurrent(c, r) => rec[r].pty = c \/ rec[r].pty = NoChan
           /\ chan[c].pump \notin {"read", "listeners"} => \A q \in Recs : rec[q].pty # c
<1>1. chan[c] \in Channel
  BY TypeParts
<1>2. r \in Recs
  BY <1>1, ChannelFacts
<1>3. \A q \in Recs : rec[q].pty = c => q = r
  <2>1. \A q \in Recs : rec[q].pty = c => chan[c].rec = {q}
    BY OwnPty
  <2> QED BY <2>1
<1>4. \A q \in Recs : rec[q].pump = c => rec[q].pty \in {c, NoChan}
  BY OwnPty
<1>5. chan[c].pump \notin {"read", "listeners"} => \A q \in Recs : rec[q].pty # c
  BY OwnPty
<1> QED BY <1>2, <1>3, <1>4, <1>5 DEF PumpCurrent

LEMMA PumpFacts ==
    ASSUME IInv, NEW c \in Chans, NEW pc \in {"off", "read", "listeners", "probe"}
    PROVE  \E x \in Channel :
             /\ x.pump = pc /\ x.state = chan[c].state /\ ChanKeeps(chan[c], x)
             /\ [chan EXCEPT ![c].pump = pc] = [chan EXCEPT ![c] = x]
<1> DEFINE a == chan[c]
           x == [a EXCEPT !.pump = pc]
<1>1. chan \in [Chans -> Channel] /\ a \in Channel /\ a.queue + a.sent <= MaxInput
  BY TypeParts DEF InputBound
<1>2. /\ x \in Channel /\ x.pump = pc /\ x.state = a.state /\ x.closing = a.closing
      /\ x.rec = a.rec /\ x.queue = a.queue /\ x.sent = a.sent
      /\ x.dropped = a.dropped
  BY <1>1 DEF Channel
<1>3. [chan EXCEPT ![c].pump = pc] = [chan EXCEPT ![c] = x]
  BY <1>1
<1> HIDE DEF x
<1>4. ChanKeeps(a, x)
  BY <1>1, <1>2 DEF ChanKeeps
<1> QED BY <1>2, <1>3, <1>4

LEMMA CloseOffFacts ==
    ASSUME IInv, NEW c \in Chans
    PROVE  \E x \in Channel :
             /\ x.pump = "off" /\ x.closing /\ ChanKeeps(chan[c], x)
             /\ [Closing({c}, chan) EXCEPT ![c].pump = "off"] = [chan EXCEPT ![c] = x]
<1> DEFINE a == chan[c]
           b == [a EXCEPT !.closing = TRUE]
           x == [b EXCEPT !.pump = "off"]
<1>1. chan \in [Chans -> Channel] /\ a \in Channel /\ a.queue + a.sent <= MaxInput
  BY TypeParts DEF InputBound
<1>2. /\ b \in Channel /\ b.closing /\ b.state = a.state
      /\ b.rec = a.rec /\ b.queue = a.queue /\ b.sent = a.sent
      /\ b.dropped = a.dropped
  BY <1>1 DEF Channel
<1>3. Closing({c}, chan) = [chan EXCEPT ![c] = b]
  BY <1>1, ClosingOne
<1> HIDE DEF b
<1>4. /\ x \in Channel /\ x.pump = "off" /\ x.state = a.state /\ x.closing
      /\ x.rec = a.rec /\ x.queue = a.queue /\ x.sent = a.sent
      /\ x.dropped = a.dropped
  BY <1>2 DEF Channel
<1>5. [Closing({c}, chan) EXCEPT ![c].pump = "off"] = [chan EXCEPT ![c] = x]
  BY <1>1, <1>3
<1> HIDE DEF x
<1>6. ChanKeeps(a, x)
  BY <1>1, <1>4 DEF ChanKeeps
<1> QED BY <1>4, <1>5, <1>6

\* removeTerminal, of the record
LEMMA RemovedFacts ==
    ASSUME IInv, NEW r \in Recs
    PROVE  \E y \in Record : /\ y.pty = NoChan /\ RecKeeps(rec[r], y)
                             /\ Stopped(rec, {r}) = [rec EXCEPT ![r] = y]
<1> DEFINE a == rec[r]
           y == [a EXCEPT !.opener = NoProc, !.pump = NoChan, !.pty = NoChan]
<1>1. rec \in [Recs -> Record] /\ a \in Record
  BY TypeParts
<1>2. y \in Record /\ y.pty = NoChan /\ RecKeeps(a, y)
  BY <1>1 DEF Record, RecKeeps
<1>3. Stopped(rec, {r}) = [rec EXCEPT ![r] = y]
  BY <1>1 DEF Stopped
<1> QED BY <1>2, <1>3

LEMMA PumpStaleStep ==
    ASSUME IInv, NEW c \in Chans, NEW pc, PumpStale(c, pc)
    PROVE  Kept
<1>1. /\ \A r \in chan[c].rec : ~ PumpCurrent(c, r)
      /\ chan' = [chan EXCEPT ![c].pump = "off"]
      /\ UNCHANGED <<rec, terminals, older, attach, todo, ladder, up, gen, link, grace, phase, steps, faults>>
  BY DEF PumpStale, PumpStops, linkVars
<1>2. Scalars
  BY TypeParts
<1>3. \A q \in Recs : rec[q].pty # c
  <2>1. \A q \in Recs : rec[q].pty = c => chan[c].rec = {q} /\ rec[q].pump = c
    BY OwnPty
  <2> QED BY <1>1, <2>1 DEF PumpCurrent
<1>4. PICK x \in Channel : ChanKeeps(chan[c], x) /\ chan' = [chan EXCEPT ![c] = x]
  BY <1>1, PumpFacts
<1>5. PtysGo(rec, chan')
  BY <1>3, <1>4, ChanGoes
<1>6. Scalars'
  BY <1>1, <1>2 DEF Scalars
<1>7. PtysGo(rec', chan') /\ AttachQuiet /\ (up' /\ Alive' => up /\ Alive)
  BY <1>1, <1>5, AttachSame DEF Alive
<1> QED BY <1>1, <1>6, <1>7, PoolQuietStep

LEMMA ReadEofStep ==
    ASSUME IInv, NEW c \in Chans, readEof(c)
    PROVE  Kept
<1>1. PICK r \in chan[c].rec :
        /\ PumpCurrent(c, r)
        /\ IF phase = "background"
           THEN /\ rec' = [rec EXCEPT ![r].pty = NoChan, ![r].pump = NoChan]
                /\ chan' = [Closing({c}, chan) EXCEPT ![c].pump = "off"]
           ELSE /\ rec' = [rec EXCEPT ![r].pty = NoChan]
                /\ chan' = [chan EXCEPT ![c].pump = "probe"]
  BY DEF readEof
<1>2. /\ chan[c].state # "open"
      /\ UNCHANGED <<terminals, older, attach, todo, ladder, up, gen, link, grace, phase, steps, faults>>
  BY DEF readEof, linkVars
<1>3. Scalars /\ rec \in [Recs -> Record]
  BY TypeParts
<1>4. /\ r \in Recs /\ \A q \in Recs : rec[q].pty = c => q = r
      /\ rec[r].pty = c \/ rec[r].pty = NoChan
  BY <1>1, PumpOwner
<1>5. PtysGo(rec', chan')
  <2>1. CASE phase = "background"
    <3>1. PICK y \in Record : y.pty = NoChan /\ RecKeeps(rec[r], y) /\ rec' = [rec EXCEPT ![r] = y]
      BY <1>1, <1>4, <2>1, AbandonFacts
    <3>2. PICK x \in Channel :
            /\ x.closing /\ ChanKeeps(chan[c], x)
            /\ [Closing({c}, chan) EXCEPT ![c].pump = "off"] = [chan EXCEPT ![c] = x]
      BY CloseOffFacts
    <3>3. chan' = [chan EXCEPT ![c] = x]
      BY <1>1, <2>1, <3>2
    <3> QED BY <1>4, <3>1, <3>2, <3>3, AbandonGoes
  <2>2. CASE phase # "background"
    <3> DEFINE a == rec[r]
               b == [a EXCEPT !.pty = NoChan]
    <3>1. a \in Record
      BY <1>3, <1>4
    <3>2. b \in Record /\ b.pty = NoChan /\ RecKeeps(a, b)
      BY <3>1 DEF Record, RecKeeps
    <3>3. rec' = [rec EXCEPT ![r] = b]
      BY <1>1, <1>3, <1>4, <2>2
    <3>4. PICK y \in Record : y.pty = NoChan /\ RecKeeps(rec[r], y) /\ rec' = [rec EXCEPT ![r] = y]
      BY <3>2, <3>3
    <3>5. PICK x \in Channel :
            /\ x.pump = "probe" /\ x.state = chan[c].state /\ ChanKeeps(chan[c], x)
            /\ [chan EXCEPT ![c].pump = "probe"] = [chan EXCEPT ![c] = x]
      BY PumpFacts
    <3>6. chan' = [chan EXCEPT ![c] = x]
      BY <1>1, <2>2, <3>5
    <3> QED BY <1>2, <1>4, <3>4, <3>5, <3>6, AbandonGoes
  <2> QED BY <2>1, <2>2
<1>6. Scalars'
  BY <1>2, <1>3 DEF Scalars
<1>7. AttachQuiet /\ (up' /\ Alive' => up /\ Alive)
  BY <1>2, AttachSame DEF Alive
<1> QED BY <1>2, <1>5, <1>6, <1>7, PoolQuietStep

LEMMA ProbeLostStep ==
    ASSUME IInv, NEW c \in Chans, probeLost(c)
    PROVE  Kept
<1>1. PICK r \in chan[c].rec :
        /\ PumpCurrent(c, r)
        /\ startReconnect([rec EXCEPT ![r].pump = NoChan], [chan EXCEPT ![c].pump = "off"], phase)
  BY DEF probeLost
<1>2. /\ chan[c].pump = "probe"
      /\ UNCHANGED <<terminals, older, attach, todo, gen, link, grace, steps, faults>>
  BY DEF probeLost, linkVars
<1>3. Scalars /\ rec \in [Recs -> Record]
  BY TypeParts
<1>4. /\ r \in Recs /\ \A q \in Recs : rec[q].pty = c => q = r
      /\ rec[r].pty = NoChan
  <2>1. r \in Recs /\ (rec[r].pty = c \/ rec[r].pty = NoChan) /\ \A q \in Recs : rec[q].pty # c
    BY <1>1, <1>2, PumpOwner
  <2> QED BY <2>1
<1> DEFINE a == rec[r]
           b == [a EXCEPT !.pump = NoChan]
<1>5. a \in Record
  BY <1>3, <1>4
<1>6. b \in Record /\ b.pty = NoChan /\ RecKeeps(a, b)
  BY <1>4, <1>5 DEF Record, RecKeeps
<1>7. PICK f : f = [rec EXCEPT ![r].pump = NoChan]
  OBVIOUS
<1>8. f = [rec EXCEPT ![r] = b]
  BY <1>3, <1>4, <1>7
<1> HIDE DEF b
<1>9. PICK y \in Record : y.pty = NoChan /\ RecKeeps(rec[r], y) /\ f = [rec EXCEPT ![r] = y]
  BY <1>6, <1>8
<1>10. PICK x \in Channel : /\ x.pump = "off" /\ ChanKeeps(chan[c], x)
                            /\ [chan EXCEPT ![c].pump = "off"] = [chan EXCEPT ![c] = x]
  BY PumpFacts
<1>11. PICK n : n = [chan EXCEPT ![c].pump = "off"]
  OBVIOUS
<1>12. n = [chan EXCEPT ![c] = x]
  BY <1>10, <1>11
<1>13. PtysGo(f, n)
  <2>1. ChanKeeps(chan[c], x)
    BY <1>10
  <2>2. \A q \in Recs : f[q].pty # c
    BY <1>2, <1>3, <1>4, <1>9, TerminalsAssumption
  <2>3. y.pty = rec[r].pty
    BY <1>4, <1>9
  <2> QED BY <1>4, <1>9, <1>12, <2>1, <2>2, <2>3, OneGoes
<1>14. startReconnect(f, n, phase) /\ phase \in Phases
  BY <1>1, <1>3, <1>7, <1>11 DEF Scalars
<1>15. /\ PtysGo(rec', chan') /\ up' \in BOOLEAN /\ (up' => up) /\ phase' \in Phases
       /\ ladder' \in {"off", "dialing", "listing", "attaching"}
  BY <1>13, <1>14, StartingReconnect
<1>16. faults' \in Nat /\ todo' \subseteq Recs /\ AttachQuiet
  BY <1>2, <1>3, FaultFacts, AttachSame DEF Scalars
<1> QED BY <1>2, <1>15, <1>16, RecoveringStep

LEMMA ProbeHealthyStep ==
    ASSUME IInv, NEW c \in Chans, probeHealthy(c)
    PROVE  Kept
<1>1. PICK r \in chan[c].rec : PumpCurrent(c, r) /\ removeTerminal(r, rec)
  BY DEF probeHealthy
<1>2. /\ chan[c].pump = "probe" /\ phase' = idlePhase(rec', terminals')
      /\ chan' = [Closing({c}, chan) EXCEPT ![c].pump = "off"]
      /\ UNCHANGED <<attach, todo, ladder, up, gen, link, grace, steps, faults>>
  BY DEF probeHealthy, linkVars
<1>3. Scalars
  BY TypeParts
<1>4. /\ r \in Recs /\ \A q \in Recs : rec[q].pty = c => q = r
      /\ rec[r].pty = NoChan
  <2>1. r \in Recs /\ (rec[r].pty = c \/ rec[r].pty = NoChan) /\ \A q \in Recs : rec[q].pty # c
    BY <1>1, <1>2, PumpOwner
  <2> QED BY <2>1
<1>5. terminals' = terminals \ {r} /\ older' = Unfocused({r}) /\ rec' = Stopped(rec, {r})
  BY <1>1 DEF removeTerminal
<1>6. PICK y \in Record : /\ y.pty = NoChan /\ RecKeeps(rec[r], y)
                          /\ Stopped(rec, {r}) = [rec EXCEPT ![r] = y]
  BY <1>4, RemovedFacts
<1>7. PICK x \in Channel : /\ x.closing /\ ChanKeeps(chan[c], x)
                           /\ [Closing({c}, chan) EXCEPT ![c].pump = "off"] = [chan EXCEPT ![c] = x]
  BY CloseOffFacts
<1>8. rec' = [rec EXCEPT ![r] = y] /\ chan' = [chan EXCEPT ![c] = x]
  BY <1>2, <1>5, <1>6, <1>7
<1>9. PtysGo(rec', chan')
  BY <1>4, <1>6, <1>7, <1>8, AbandonGoes
<1>10. \A q \in {r} \cap Recs : rec'[q].pty = NoChan
  BY <1>3, <1>4, <1>6, <1>8, TypeParts
<1>11. idlePhase(rec', terminals') \in Phases
  BY <1>3, PhaseFacts DEF Scalars
<1>12. Scalars'
  BY <1>2, <1>3, <1>11 DEF Scalars
<1>13. AttachQuiet /\ (up' /\ Alive' => up /\ Alive)
  BY <1>2, AttachSame DEF Alive
<1> QED BY <1>5, <1>9, <1>10, <1>12, <1>13, PoolShrinksStep

LEMMA ReadFailsStep ==
    ASSUME IInv, NEW c \in Chans, NEW transport \in BOOLEAN, readFails(c, transport)
    PROVE  Kept
<1>1. PICK n : n = [Closing({c}, chan) EXCEPT ![c].pump = "off"]
  OBVIOUS
<1>2. PICK r \in chan[c].rec :
        /\ PumpCurrent(c, r)
        /\ IF phase = "background" \/ transport
           THEN LET rs == [rec EXCEPT ![r].pty = NoChan, ![r].pump = NoChan]
                    ph == IF phase = "background" THEN phase ELSE LiveOr(rs, terminals, "error")
                IN /\ IF transport THEN startReconnect(rs, n, ph)
                      ELSE rec' = rs /\ chan' = n /\ phase' = ph /\ UNCHANGED <<up, ladder>>
                   /\ UNCHANGED <<terminals, older>>
           ELSE /\ removeTerminal(r, rec) /\ chan' = n
                /\ phase' = LiveOr(rec', terminals', "error")
                /\ UNCHANGED <<up, ladder>>
  BY <1>1 DEF readFails
<1>3. UNCHANGED <<attach, todo, gen, link, grace, steps>> /\ (Fault \/ UNCHANGED faults)
  BY DEF readFails, linkVars
<1>4. Scalars /\ rec \in [Recs -> Record] /\ "error" \in Phases
  BY TypeParts DEF Phases
<1>5. /\ r \in Recs /\ \A q \in Recs : rec[q].pty = c => q = r
      /\ rec[r].pty = c \/ rec[r].pty = NoChan
  BY <1>2, PumpOwner
<1>6. PICK x \in Channel : /\ x.closing /\ ChanKeeps(chan[c], x)
                           /\ [Closing({c}, chan) EXCEPT ![c].pump = "off"] = [chan EXCEPT ![c] = x]
  BY CloseOffFacts
<1>7. n = [chan EXCEPT ![c] = x] /\ x.closing /\ ChanKeeps(chan[c], x)
  BY <1>1, <1>6
<1>8. faults' \in Nat /\ todo' \subseteq Recs /\ AttachQuiet
  BY <1>3, <1>4, FaultFacts, AttachSame DEF Scalars
<1>9. CASE phase = "background" \/ transport
  <2>1. PICK f : f = [rec EXCEPT ![r].pty = NoChan, ![r].pump = NoChan]
    OBVIOUS
  <2>2. PICK ph : ph = IF phase = "background" THEN phase ELSE LiveOr(f, terminals, "error")
    OBVIOUS
  <2>3. /\ IF transport THEN startReconnect(f, n, ph)
           ELSE rec' = f /\ chan' = n /\ phase' = ph /\ UNCHANGED <<up, ladder>>
        /\ UNCHANGED <<terminals, older>>
    BY <1>2, <1>9, <2>1, <2>2
  <2>4. PICK y \in Record : /\ y.pty = NoChan /\ RecKeeps(rec[r], y)
                            /\ [rec EXCEPT ![r].pty = NoChan, ![r].pump = NoChan] = [rec EXCEPT ![r] = y]
    BY <1>5, AbandonFacts
  <2>5. f = [rec EXCEPT ![r] = y] /\ y.pty = NoChan /\ RecKeeps(rec[r], y)
    BY <2>1, <2>4
  <2>6. PtysGo(f, n)
    BY <1>5, <1>7, <2>5, AbandonGoes
  <2>7. ph \in Phases
    <3>1. LiveOr(f, terminals, "error") \in Phases /\ phase \in Phases
      BY <1>4, PhaseFacts DEF Scalars
    <3> QED BY <2>2, <3>1
  <2>8. CASE transport
    <3>1. /\ PtysGo(rec', chan') /\ up' \in BOOLEAN /\ (up' => up) /\ phase' \in Phases
          /\ ladder' \in {"off", "dialing", "listing", "attaching"}
      BY <2>3, <2>6, <2>7, <2>8, StartingReconnect
    <3> QED BY <1>3, <1>8, <2>3, <3>1, RecoveringStep
  <2>9. CASE ~ transport
    <3>1. rec' = f /\ chan' = n /\ phase' = ph /\ UNCHANGED <<up, ladder>>
      BY <2>3, <2>9
    <3>2. up' \in BOOLEAN /\ (up' => up) /\ ladder' \in {"off", "dialing", "listing", "attaching"}
      BY <1>4, <3>1 DEF Scalars
    <3> QED BY <1>3, <1>8, <2>3, <2>6, <2>7, <3>1, <3>2, RecoveringStep
  <2> QED BY <2>8, <2>9
<1>10. CASE ~ (phase = "background" \/ transport)
  <2>1. /\ terminals' = terminals \ {r} /\ older' = Unfocused({r}) /\ rec' = Stopped(rec, {r})
        /\ chan' = n /\ phase' = LiveOr(rec', terminals', "error")
        /\ UNCHANGED <<up, ladder>>
    BY <1>2, <1>10 DEF removeTerminal
  <2>2. PICK y \in Record : /\ y.pty = NoChan /\ RecKeeps(rec[r], y)
                            /\ Stopped(rec, {r}) = [rec EXCEPT ![r] = y]
    BY <1>5, RemovedFacts
  <2>3. rec' = [rec EXCEPT ![r] = y] /\ chan' = [chan EXCEPT ![c] = x]
    BY <1>7, <2>1, <2>2
  <2>4. PtysGo(rec', chan')
    BY <1>5, <1>7, <2>2, <2>3, AbandonGoes
  <2>5. \A q \in {r} \cap Recs : rec'[q].pty = NoChan
    BY <1>4, <1>5, <2>2, <2>3
  <2>6. LiveOr(rec', terminals', "error") \in Phases
    BY <1>4, PhaseFacts
  <2>7. Scalars'
    BY <1>3, <1>4, <1>8, <2>1, <2>6 DEF Scalars
  <2>8. up' /\ Alive' => up /\ Alive
    BY <1>3, <2>1 DEF Alive
  <2> QED BY <1>8, <2>1, <2>4, <2>5, <2>7, <2>8, PoolShrinksStep
<1> QED BY <1>9, <1>10

\* A pump's step with its own channel and terminal.
LEMMA PumpServes ==
    ASSUME IInv, NEW c \in Chans, NEW r \in Recs, \A q \in Recs : rec[q].pty = c => q = r,
           rec[r].pty \in {c, NoChan}, NEW y \in Record,
           y.session = rec[r].session, y.opener = rec[r].opener, y.pty = rec[r].pty,
           rec' = [rec EXCEPT ![r] = y], NEW x \in Channel,
           x.state = chan[c].state, x.closing = chan[c].closing, x.dropped = chan[c].dropped,
           x.queue = chan[c].queue, x.sent = chan[c].sent, chan' = [chan EXCEPT ![c] = x],
           rec[r].pty = c => Served(y, x, r),
           UNCHANGED <<terminals, older, attach, todo, ladder, up, gen, link, grace, phase, steps, faults>>
    PROVE  Kept
<1>1. /\ Scalars /\ rec \in [Recs -> Record] /\ chan \in [Chans -> Channel] /\ Pooled
      /\ attach \in [Procs -> Attach]
      /\ PtysServed /\ OpensBare /\ OnlyDroppedOrphans /\ InputBound /\ c # NoChan
  BY TypeParts, TerminalsAssumption
<1>2. rec' \in [Recs -> Record] /\ rec'[r] = y /\ \A q \in Recs : q # r => rec'[q] = rec[q]
  BY <1>1
<1>3. chan' \in [Chans -> Channel] /\ chan'[c] = x /\ \A d \in Chans : d # c => chan'[d] = chan[d]
  BY <1>1
<1>4. \A q \in Recs : /\ rec'[q].pty = rec[q].pty /\ rec'[q].opener = rec[q].opener
                      /\ rec'[q].session = rec[q].session
  BY <1>2
<1>5. \A d \in Chans : /\ chan'[d].state = chan[d].state /\ chan'[d].closing = chan[d].closing 
                       /\ chan'[d].dropped = chan[d].dropped
                       /\ chan'[d].queue = chan[d].queue /\ chan'[d].sent = chan[d].sent
  BY <1>3
<1>6. Pooled'
  BY <1>1, <1>4, PoolSame DEF SessionsKept
<1>7. PtysServed'
  <2> SUFFICES ASSUME NEW q \in Recs, NEW d \in Chans, rec[q].pty = d
               PROVE  q \in terminals /\ Served(rec'[q], chan'[d], q)
    <3>1. \A q \in Recs : rec[q].pty \in Chans \cup {NoChan}
      BY <1>1, RecordFacts
    <3> QED BY <1>4, <3>1 DEF PtysServed
  <2>1. q \in terminals /\ Served(rec[q], chan[d], q)
    BY <1>1, TerminalsAssumption DEF PtysServed
  <2>2. CASE q = r
    <3>1. d = c
      BY <2>2, TerminalsAssumption
    <3> QED BY <1>2, <1>3, <2>1, <2>2, <3>1
  <2>3. CASE q # r
    BY <1>2, <1>3, <2>1, <2>3
  <2> QED BY <2>2, <2>3
<1>8. OpensBare'
  <2>1. \A p \in Procs : attach[p].rec \subseteq Recs
    BY <1>1 DEF Attach
  <2> QED BY <1>1, <1>4, <2>1 DEF OpensBare
<1>9. OnlyDroppedOrphans'
  <2> SUFFICES ASSUME up', Alive', NEW d \in Chans, chan'[d].state = "open", ~ chan'[d].closing, ~ chan'[d].dropped
               PROVE  \E q \in terminals' : rec'[q].pty = d
    BY DEF OnlyDroppedOrphans
  <2>1. up /\ Alive /\ chan[d].state = "open" /\ ~ chan[d].closing /\ ~ chan[d].dropped
    BY <1>5 DEF Alive
  <2>2. PICK q \in terminals : rec[q].pty = d
    BY <1>1, <2>1 DEF OnlyDroppedOrphans
  <2> QED BY <1>1, <1>4, <2>2 DEF Pooled
<1>10. InputBound'
  BY <1>1, <1>5 DEF InputBound
<1>11. Scalars'
  BY <1>1 DEF Scalars
<1>12. attach' \in [Procs -> Attach]
  BY <1>1
<1> QED BY <1>2, <1>3, <1>5, <1>6, <1>7, <1>8, <1>9, <1>10, <1>11, <1>12, PartsNext DEF Kept

LEMMA ReadAnswersStep ==
    ASSUME IInv, NEW c \in Chans, readAnswers(c)
    PROVE  Kept
<1>1. PICK r \in chan[c].rec :
        /\ PumpCurrent(c, r) /\ rec[r].readSequence < MaxOutput
        /\ chan' = [chan EXCEPT ![c].pump = "listeners", ![c].delivered = rec[r].readSequence + 1]
  BY DEF readAnswers
<1>2. UNCHANGED <<rec, terminals, older, attach, todo, ladder, up, gen, link, grace, phase, steps, faults>>
  BY DEF readAnswers, linkVars
<1>3. rec \in [Recs -> Record] /\ chan \in [Chans -> Channel] /\ MaxOutput \in Nat
  BY TypeParts, TerminalsAssumption
<1>4. /\ r \in Recs /\ \A q \in Recs : rec[q].pty = c => q = r
      /\ rec[r].pty \in {c, NoChan} /\ rec[r].pump = c
  BY <1>1, PumpOwner DEF PumpCurrent
<1>5. PICK y \in Record : y = rec[r]
  BY <1>3, <1>4
<1>6. rec' = [rec EXCEPT ![r] = y]
  BY <1>2, <1>3, <1>4, <1>5
<1>7. PICK k : k = rec[r].readSequence + 1
  OBVIOUS
<1>8. k \in 0..MaxOutput
  BY <1>1, <1>3, <1>5, <1>7, RecordFacts
<1> DEFINE a == chan[c]
           x == [a EXCEPT !.pump = "listeners", !.delivered = k]
<1>9. a \in Channel
  BY <1>3
<1>10. /\ x \in Channel /\ x.pump = "listeners" /\ x.delivered = k /\ x.state = a.state
       /\ x.closing = a.closing /\ x.queue = a.queue /\ x.sent = a.sent
       /\ x.rec = a.rec /\ x.failed = a.failed
       /\ x.dropped = a.dropped
  BY <1>8, <1>9 DEF Channel
<1>11. chan' = [chan EXCEPT ![c] = x]
  BY <1>1, <1>3, <1>7
<1> HIDE DEF x
<1>12. ASSUME rec[r].pty = c
       PROVE  Served(y, x, r)
  <2>1. a.rec = {r} /\ ~ a.failed
    BY <1>4, <1>12, OwnPty
  <2> QED BY <1>4, <1>5, <1>7, <1>10, <1>12, <2>1 DEF Served
<1> HIDE DEF a
<1> QED BY <1>2, <1>4, <1>5, <1>6, <1>10, <1>11, <1>12, PumpServes DEF a

LEMMA ListenersDoneStep ==
    ASSUME IInv, NEW c \in Chans, listenersDone(c)
    PROVE  Kept
<1>1. PICK r \in chan[c].rec :
        /\ PumpCurrent(c, r) /\ rec' = [rec EXCEPT ![r].readSequence = chan[c].delivered]
  BY DEF listenersDone
<1>2. /\ chan' = [chan EXCEPT ![c].pump = "read"]
      /\ UNCHANGED <<terminals, older, attach, todo, ladder, up, gen, link, grace, phase, steps, faults>>
  BY DEF listenersDone, linkVars
<1>3. rec \in [Recs -> Record] /\ chan \in [Chans -> Channel]
  BY TypeParts
<1>4. /\ r \in Recs /\ \A q \in Recs : rec[q].pty = c => q = r
      /\ rec[r].pty \in {c, NoChan} /\ rec[r].pump = c
  BY <1>1, PumpOwner DEF PumpCurrent
<1> DEFINE a == chan[c]
           x == [a EXCEPT !.pump = "read"]
           b == rec[r]
           y == [b EXCEPT !.readSequence = a.delivered]
<1>5. a \in Channel /\ b \in Record /\ a.delivered \in 0..MaxOutput
  BY <1>3, <1>4, ChannelFacts
<1>6. /\ x \in Channel /\ x.pump = "read" /\ x.delivered = a.delivered /\ x.state = a.state
      /\ x.closing = a.closing /\ x.queue = a.queue /\ x.sent = a.sent
      /\ x.rec = a.rec /\ x.failed = a.failed
      /\ x.dropped = a.dropped
  BY <1>5 DEF Channel
<1>7. /\ y \in Record /\ y.session = b.session /\ y.opener = b.opener /\ y.pty = b.pty
      /\ y.pump = b.pump /\ y.readSequence = a.delivered
  BY <1>5 DEF Record
<1>8. chan' = [chan EXCEPT ![c] = x]
  BY <1>2, <1>3
<1>9. rec' = [rec EXCEPT ![r] = y]
  BY <1>1, <1>3, <1>4
<1> HIDE DEF x, y
<1>10. ASSUME rec[r].pty = c
       PROVE  Served(y, x, r)
  <2>1. a.rec = {r} /\ ~ a.failed
    BY <1>4, <1>10, OwnPty
  <2>2. a.delivered \in Nat
    BY <1>5
  <2> QED BY <1>4, <1>6, <1>7, <1>10, <2>1, <2>2 DEF Served
<1> HIDE DEF a, b
<1> QED BY <1>2, <1>4, <1>6, <1>7, <1>8, <1>9, <1>10, PumpServes, ZenonT(60) DEF a, b

-----------------------------------------------------------------------------
(* A channel opens                                                         *)

LEMMA ShutFacts ==
    /\ Shut \in Channel /\ Shut.pump = "off" /\ Shut.delivered = 0 /\ Shut.queue = 0
    /\ Shut.sent = 0 /\ ~ Shut.failed /\ Shut.rec = {} /\ Shut.state = "closed"
<1>1. 0 \in 0..MaxOutput /\ 0 \in 0..MaxInput
  BY TerminalsAssumption
<1> QED BY <1>1 DEF Shut, Channel

\* A channel as it opens, for an attach that was superseded and for terminal r.
LEMMA OpenedStale ==
    \E x \in Channel : /\ x = [Shut EXCEPT !.state = "open", !.closing = TRUE]
                       /\ x.closing /\ x.queue = 0 /\ x.sent = 0
<1>1. PICK s \in Channel : s = Shut /\ s.queue = 0 /\ s.sent = 0
  BY ShutFacts
<1> DEFINE x == [s EXCEPT !.state = "open", !.closing = TRUE]
<1>2. x \in Channel /\ x.closing /\ x.queue = 0 /\ x.sent = 0
  BY <1>1 DEF Channel
<1> QED BY <1>1, <1>2

LEMMA OpenedFor ==
    ASSUME NEW r \in Recs
    PROVE  \E x \in Channel :
             /\ x = [Shut EXCEPT !.state = "open", !.rec = {r}, !.pump = "read"]
             /\ x.rec = {r} /\ x.pump = "read" /\ x.delivered = 0 /\ x.queue = 0 /\ x.sent = 0
             /\ ~ x.failed
<1>1. PICK s \in Channel : s = Shut /\ s.delivered = 0 /\ s.queue = 0 /\ s.sent = 0 /\ ~ s.failed
  BY ShutFacts
<1> DEFINE x == [s EXCEPT !.state = "open", !.rec = {r}, !.pump = "read"]
<1>2. /\ x \in Channel /\ x.rec = {r} /\ x.pump = "read" /\ x.delivered = 0 /\ x.queue = 0
      /\ x.sent = 0 /\ ~ x.failed
  BY <1>1 DEF Channel
<1> QED BY <1>1, <1>2

\* A superseded attach gets a channel nothing referred to, x, and closes it.
LEMMA StaleOpenStep ==
    ASSUME IInv, NEW c \in Chans, FreshChan(c), NEW x \in Channel, x.closing,
           x.queue = 0, x.sent = 0, chan' = [chan EXCEPT ![c] = x], AttachQuiet,
           UNCHANGED <<rec, terminals, older, todo, ladder, up, gen, link, grace, phase, steps, faults>>
    PROVE  Kept
<1>1. /\ Scalars /\ rec \in [Recs -> Record] /\ chan \in [Chans -> Channel] /\ Pooled
      /\ PtysServed /\ OpensBare /\ OnlyDroppedOrphans /\ InputBound /\ MaxInput \in Nat
  BY TypeParts, TerminalsAssumption
<1>2. chan' \in [Chans -> Channel] /\ chan'[c] = x /\ \A d \in Chans : d # c => chan'[d] = chan[d]
  BY <1>1
<1>3. \A q \in Recs : rec[q].pty # c
  BY DEF FreshChan
<1>4. PtysServed'
  <2>1. \A q \in Recs : rec[q].pty \in Chans \cup {NoChan}
    BY <1>1, RecordFacts
  <2> QED BY <1>1, <1>2, <1>3, <2>1 DEF PtysServed
<1>5. OpensBare'
  <2> SUFFICES ASSUME NEW p \in Procs, NEW r \in attach'[p].rec,
                      attach'[p].pc \in {"previous", "opening"}, rec[r].opener = p
               PROVE  rec[r].pty = NoChan
    BY DEF OpensBare
  <2>1. r \in attach[p].rec /\ attach[p].pc \in {"previous", "opening"}
    BY DEF AttachQuiet
  <2> QED BY <1>1, <2>1 DEF OpensBare
<1>6. OnlyDroppedOrphans'
  BY <1>1, <1>2 DEF OnlyDroppedOrphans, Alive
<1>7. InputBound'
  BY <1>1, <1>2 DEF InputBound
<1>8. Pooled'
  BY <1>1, PoolSame DEF SessionsKept
<1>9. Scalars' /\ attach' \in [Procs -> Attach] /\ rec' \in [Recs -> Record]
  BY <1>1 DEF Scalars, AttachQuiet
<1>10. \A d \in Chans : chan[d].failed => chan'[d].sent \in {chan[d].sent, 0}
  BY <1>2
<1> QED BY <1>2, <1>4, <1>5, <1>6, <1>7, <1>8, <1>9, <1>10, PartsNext DEF Kept

\* Terminal r, which has no PTY, gets the channel as its own.
LEMMA PtyOpenStep ==
    ASSUME IInv, NEW c \in Chans, FreshChan(c), NEW r \in terminals, rec[r].pty = NoChan,
           NEW p \in Procs, rec[r].opener = p, attach' = [attach EXCEPT ![p] = NoAttach],
           NEW x \in Channel, x.queue = 0, x.sent = 0, chan' = [chan EXCEPT ![c] = x],
           rec' \in [Recs -> Record], Served(rec'[r], x, r), rec'[r].pty = c,
           \A q \in Recs : rec'[q].session = rec[q].session /\ rec'[q].opener = rec[q].opener,
           \A q \in Recs : q # r => /\ rec'[q].pty = rec[q].pty /\ rec'[q].pump = rec[q].pump
                                    /\ rec'[q].readSequence = rec[q].readSequence,
           Scalars', UNCHANGED <<terminals, older, up, link>>
    PROVE  Kept
<1>1. /\ rec \in [Recs -> Record] /\ chan \in [Chans -> Channel] /\ Pooled
      /\ attach \in [Procs -> Attach] /\ PtysServed /\ OpensBare /\ OnlyDroppedOrphans /\ InputBound
      /\ MaxInput \in Nat /\ c # NoChan
  BY TypeParts, TerminalsAssumption
<1>2. chan' \in [Chans -> Channel] /\ chan'[c] = x /\ \A d \in Chans : d # c => chan'[d] = chan[d]
  BY <1>1
<1>3. (\A q \in Recs : rec[q].pty # c) /\ r \in Recs
  BY <1>1 DEF FreshChan, Pooled
<1>4. /\ attach' \in [Procs -> Attach] /\ attach'[p].rec = {}
      /\ \A q \in Procs : q # p => attach'[q] = attach[q]
  BY <1>1, NoAttachFacts
<1>5. PtysServed'
  <2> SUFFICES ASSUME NEW q \in Recs, NEW d \in Chans, rec'[q].pty = d
               PROVE  q \in terminals /\ Served(rec'[q], chan'[d], q)
    <3>1. \A q \in Recs : rec'[q].pty \in Chans \cup {NoChan}
      BY RecordFacts
    <3> QED BY <3>1 DEF PtysServed
  <2>1. CASE q = r
    BY <1>2, <2>1
  <2>2. CASE q # r
    <3>1. rec[q].pty = d /\ d # c /\ chan'[d] = chan[d] /\ d # NoChan
      BY <1>2, <1>3, <2>2, TerminalsAssumption
    <3>2. q \in terminals /\ Served(rec[q], chan[d], q)
      BY <1>1, <3>1 DEF PtysServed
    <3> QED BY <2>2, <3>1, <3>2 DEF Served
  <2> QED BY <2>1, <2>2
<1>6. OpensBare'
  <2> SUFFICES ASSUME NEW q \in Procs, NEW t \in attach'[q].rec,
                      attach'[q].pc \in {"previous", "opening"}, rec'[t].opener = q
               PROVE  rec'[t].pty = NoChan
    BY DEF OpensBare
  <2>1. q # p /\ attach'[q] = attach[q]
    BY <1>4
  <2>2. t \in Recs
    BY <1>4 DEF Attach
  <2>3. rec[t].opener = q /\ t # r
    BY <2>1, <2>2
  <2>4. rec[t].pty = NoChan
    BY <1>1, <2>1, <2>3 DEF OpensBare
  <2> QED BY <2>2, <2>3, <2>4
<1>7. OnlyDroppedOrphans'
  <2> SUFFICES ASSUME up', Alive', NEW d \in Chans, chan'[d].state = "open", ~ chan'[d].closing, ~ chan'[d].dropped
               PROVE  \E q \in terminals' : rec'[q].pty = d
    BY DEF OnlyDroppedOrphans
  <2>1. CASE d = c
    BY <2>1
  <2>2. CASE d # c
    <3>1. up /\ Alive /\ chan[d].state = "open" /\ ~ chan[d].closing /\ ~ chan[d].dropped
      BY <1>2, <2>2 DEF Alive
    <3>2. PICK q \in terminals : rec[q].pty = d
      BY <1>1, <3>1 DEF OnlyDroppedOrphans
    <3>3. q \in Recs /\ q # r
      BY <1>1, <3>2, TerminalsAssumption DEF Pooled
    <3> QED BY <3>2, <3>3
  <2> QED BY <2>1, <2>2
<1>8. InputBound'
  BY <1>1, <1>2 DEF InputBound
<1>9. Pooled'
  BY <1>1, PoolSame DEF SessionsKept
<1>10. \A d \in Chans : chan[d].failed => chan'[d].sent \in {chan[d].sent, 0}
  BY <1>2
<1> QED BY <1>2, <1>4, <1>5, <1>6, <1>7, <1>8, <1>9, <1>10, PartsNext DEF Kept

LEMMA PtyOpenedStep ==
    ASSUME IInv, NEW p \in Procs, NEW c \in Chans, ptyOpened(p, c)
    PROVE  Kept
<1>1. /\ attach[p].pc = "opening" /\ FreshChan(c)
      /\ UNCHANGED <<terminals, older, todo, up, gen, link, grace, steps, faults>>
  BY DEF ptyOpened, linkVars
<1>2. Scalars /\ rec \in [Recs -> Record] /\ attach \in [Procs -> Attach] /\ chan \in [Chans -> Channel]
      /\ Pooled /\ OpensBare
  BY TypeParts
<1>3. CASE superseded(p)
  <2>1. /\ attach' = [attach EXCEPT ![p].pc = "stale", ![p].chan = c]
        /\ chan' = [chan EXCEPT ![c] = [Shut EXCEPT !.state = "open", !.closing = TRUE]]
        /\ UNCHANGED <<rec, phase, ladder>>
    BY <1>3 DEF ptyOpened
  <2>2. PICK x \in Channel : /\ x = [Shut EXCEPT !.state = "open", !.closing = TRUE]
                             /\ x.closing /\ x.queue = 0 /\ x.sent = 0
    BY OpenedStale
  <2>3. chan' = [chan EXCEPT ![c] = x] /\ x.closing /\ x.queue = 0 /\ x.sent = 0
    BY <2>1, <2>2
  <2> DEFINE a == attach[p]
             b == [a EXCEPT !.pc = "stale", !.chan = c]
  <2>4. b \in Attach /\ b.rec = a.rec /\ b.pc = "stale"
    BY <1>2 DEF Attach
  <2>5. attach' = [attach EXCEPT ![p] = b]
    BY <1>2, <2>1
  <2> HIDE DEF b
  <2>6. /\ attach' \in [Procs -> Attach] /\ attach'[p] = b
        /\ \A q \in Procs : q # p => attach'[q] = attach[q]
    BY <1>2, <2>4, <2>5
  <2>7. ASSUME NEW q \in Procs
        PROVE  /\ attach'[q].rec = attach[q].rec
               /\ attach'[q].pc \in {"previous", "opening"} => attach[q].pc \in {"previous", "opening"}
    BY <2>4, <2>6
  <2>8. AttachQuiet
    BY <2>6, <2>7 DEF AttachQuiet
  <2> HIDE DEF a
  <2> QED BY <1>1, <2>1, <2>3, <2>8, StaleOpenStep
<1>4. CASE ~ superseded(p)
  <2>1. PICK r \in attach[p].rec :
          /\ AttachEnds(p, [rec EXCEPT ![r].pty = c, ![r].pump = c, ![r].readSequence = 0],
                        IF p = Ladder THEN phase ELSE "live")
          /\ chan' = [chan EXCEPT ![c] = [Shut EXCEPT !.state = "open", !.rec = {r}, !.pump = "read"]]
    BY <1>4 DEF ptyOpened
  <2>2. r \in Recs /\ r \in terminals /\ rec[r].opener = p /\ rec[r].pty = NoChan
    <3>1. r \in Recs
      BY <1>2 DEF Attach
    <3>2. r \in terminals /\ rec[r].opener = p
      BY <1>4 DEF superseded
    <3> QED BY <1>1, <1>2, <3>1, <3>2 DEF OpensBare
  <2>3. PICK x \in Channel :
          /\ x = [Shut EXCEPT !.state = "open", !.rec = {r}, !.pump = "read"]
          /\ x.rec = {r} /\ x.pump = "read" /\ x.delivered = 0 /\ x.queue = 0 /\ x.sent = 0
          /\ ~ x.failed
    BY <2>2, OpenedFor
  <2>4. /\ chan' = [chan EXCEPT ![c] = x] /\ x.rec = {r} /\ x.pump = "read" /\ x.delivered = 0
        /\ x.queue = 0 /\ x.sent = 0 /\ ~ x.failed
    BY <2>1, <2>3
  <2> DEFINE a == rec[r]
             b == [a EXCEPT !.pty = c, !.pump = c, !.readSequence = 0]
             rs == [rec EXCEPT ![r].pty = c, ![r].pump = c, ![r].readSequence = 0]
  <2>5. 0 \in 0..MaxOutput /\ a \in Record
    BY <1>2, <2>2, TerminalsAssumption
  <2>6. /\ b \in Record /\ b.session = a.session /\ b.opener = a.opener
        /\ b.pty = c /\ b.pump = c /\ b.readSequence = 0
    BY <2>5 DEF Record
  <2>7. rs = [rec EXCEPT ![r] = b]
    BY <1>2, <2>2
  <2> HIDE DEF b
  <2>8. rs \in [Recs -> Record] /\ rs[r] = b /\ \A q \in Recs : q # r => rs[q] = rec[q]
    BY <1>2, <2>2, <2>6, <2>7
  <2>9. PICK f : f = rs
    OBVIOUS
  <2>10. /\ attach' = [attach EXCEPT ![p] = NoAttach] /\ rec' = Settled(p, f)
         /\ \/ LadderEnds(f)
            \/ phase' = (IF p = Ladder THEN phase ELSE "live") /\ UNCHANGED ladder
    BY <2>1, <2>9 DEF AttachEnds
  <2>11. /\ f \in [Recs -> Record] /\ f[r] = b /\ \A q \in Recs : q # r => f[q] = rec[q]
    BY <2>8, <2>9
  <2> HIDE DEF rs, a
  <2>12. /\ Settled(p, f) \in [Recs -> Record]
         /\ \A q \in Recs : LET y == Settled(p, f)[q] IN
               /\ y.session = f[q].session /\ y.opener = f[q].opener /\ y.pty = f[q].pty
               /\ y.pump = f[q].pump /\ y.readSequence = f[q].readSequence
    BY <2>11, SettledFacts
  <2>13. /\ rec' \in [Recs -> Record] /\ rec'[r].pty = c /\ Served(rec'[r], x, r)
         /\ \A q \in Recs : rec'[q].session = rec[q].session /\ rec'[q].opener = rec[q].opener
         /\ \A q \in Recs : q # r => /\ rec'[q].pty = rec[q].pty /\ rec'[q].pump = rec[q].pump
                                     /\ rec'[q].readSequence = rec[q].readSequence
    <3>1. \A q \in Recs : /\ rec'[q].session = f[q].session /\ rec'[q].opener = f[q].opener
                           /\ rec'[q].pty = f[q].pty /\ rec'[q].pump = f[q].pump
                           /\ rec'[q].readSequence = f[q].readSequence
      BY <2>10, <2>12
    <3>2. Served(rec'[r], x, r) /\ rec'[r].pty = c
      BY <2>2, <2>4, <2>6, <2>11, <3>1 DEF Served
    <3>3. \A q \in Recs : rec'[q].session = rec[q].session /\ rec'[q].opener = rec[q].opener
      BY <2>2, <2>6, <2>11, <3>1 DEF a
    <3> QED BY <2>10, <2>11, <2>12, <3>1, <3>2, <3>3
  <2>14. phase' \in Phases /\ ladder' \in {"off", "dialing", "listing", "attaching"}
    <3>1. CASE LadderEnds(f)
      BY <3>1, LadderEndsFacts
    <3>2. CASE phase' = (IF p = Ladder THEN phase ELSE "live") /\ UNCHANGED ladder
      BY <1>2, <3>2 DEF Scalars, Phases
    <3> QED BY <2>10, <3>1, <3>2
  <2>15. Scalars'
    BY <1>1, <1>2, <2>14 DEF Scalars
  <2> QED BY <1>1, <2>2, <2>4, <2>10, <2>13, <2>15, PtyOpenStep
<1> QED BY <1>3, <1>4

-----------------------------------------------------------------------------
(* An attach begins                                                        *)

\* Attach p is to give terminal r its PTY; the terminals and channels are
\* otherwise as g and chan' have them.
LEMMA OpeningStep ==
    ASSUME IInv, NEW p \in Procs, NEW r \in Recs, NEW g, PtysGo(g, chan'), g[r].pty = NoChan,
           NEW y \in Record, y.pty = NoChan, y.opener = p, rec' = [g EXCEPT ![r] = y],
           NEW a \in Attach, a.rec = {r}, attach' = [attach EXCEPT ![p] = a],
           Scalars', Pooled', terminals \subseteq terminals' \cup {q \in Recs : g[q].pty = NoChan},
           UNCHANGED <<up, link>>
    PROVE  Kept
<1>1. /\ rec \in [Recs -> Record] /\ attach \in [Procs -> Attach] /\ PtysServed /\ OpensBare
  BY TypeParts
<1>2. /\ g \in [Recs -> Record] /\ \A q \in Recs : RecKeeps(rec[q], g[q])
      /\ ChansKeep(chan, chan') /\ StillServed(g, chan') /\ Released(rec, g, chan')
  BY DEF PtysGo, RecsKeep
<1>3. rec' \in [Recs -> Record] /\ rec'[r] = y /\ \A q \in Recs : q # r => rec'[q] = g[q]
  BY <1>2
<1>4. attach' \in [Procs -> Attach] /\ attach'[p] = a /\ \A q \in Procs : q # p => attach'[q] = attach[q]
  BY <1>1
<1>5. StillServed(rec', chan') /\ Released(rec, rec', chan')
  BY <1>2, <1>3 DEF StillServed, Released
<1>6. ASSUME NEW q \in Recs, rec'[q].pty # NoChan
      PROVE  /\ rec'[q].pty = rec[q].pty /\ rec'[q].pump = rec[q].pump
             /\ rec'[q].readSequence = rec[q].readSequence /\ q \in terminals'
  <2>1. q # r /\ rec'[q] = g[q]
    BY <1>3, <1>6
  <2>2. RecKeeps(rec[q], g[q])
    BY <1>2
  <2>3. q \in terminals
    BY <1>1, <1>6, <2>1, <2>2 DEF PtysServed, RecKeeps
  <2> QED BY <1>6, <2>1, <2>2, <2>3 DEF RecKeeps
<1>7. PtysServed' /\ OnlyDroppedOrphans' /\ InputBound' /\ chan' \in [Chans -> Channel]
  <2>1. up' /\ Alive' => up /\ Alive
    BY DEF Alive
  <2> QED BY <1>2, <1>3, <1>5, <1>6, <2>1, QuietParts
<1>8. OpensBare'
  <2> SUFFICES ASSUME NEW q \in Procs, NEW t \in attach'[q].rec,
                      attach'[q].pc \in {"previous", "opening"}, rec'[t].opener = q
               PROVE  rec'[t].pty = NoChan
    BY DEF OpensBare
  <2>1. t \in Recs
    BY <1>4 DEF Attach
  <2>2. CASE t = r
    BY <1>3, <2>2
  <2>3. CASE t # r
    <3>1. q # p /\ t \in attach[q].rec /\ attach[q].pc \in {"previous", "opening"}
      BY <1>4, <2>3
    <3>2. rec'[t] = g[t] /\ RecKeeps(rec[t], g[t])
      BY <1>2, <1>3, <2>1, <2>3
    <3>3. q # NoProc
      BY TerminalsAssumption
    <3>4. rec[t].opener = q
      BY <3>2, <3>3 DEF RecKeeps
    <3>5. rec[t].pty = NoChan
      BY <1>1, <3>1, <3>4 DEF OpensBare
    <3> QED BY <3>2, <3>5 DEF RecKeeps
  <2> QED BY <2>2, <2>3
<1>9. \A c \in Chans : chan[c].failed => chan'[c].sent \in {chan[c].sent, 0}
  BY <1>2 DEF ChansKeep, ChanKeeps
<1> QED BY <1>3, <1>4, <1>7, <1>8, <1>9, PartsNext DEF Kept

LEMMA BlankFacts ==
    Blank \in Record /\ Blank.pty = NoChan
<1>1. 0 \in 0..MaxOutput
  BY TerminalsAssumption
<1>2. Blank \in Record
  BY <1>1 DEF Blank, Record
<1> QED BY <1>2 DEF Blank

LEMMA OpenTerminalStep ==
    ASSUME IInv, NEW p \in Procs, NEW r \in terminals, openTerminal(p, r), Scalars',
           UNCHANGED <<terminals, up, link>>, older' = older \/ older' = Focused(r)
    PROVE  Kept
<1>1. /\ rec \in [Recs -> Record] /\ attach \in [Procs -> Attach] /\ Pooled /\ Scalars /\ r \in Recs
      /\ PtysGo(rec, chan)
  BY TypeParts, PtysGoNowhere DEF Pooled
<1>2. PICK c \in Chans \cup {NoChan} : c = rec[r].pty
  BY <1>1, RecordFacts
<1>3. PICK g : g = Stopped(rec, {r})
  OBVIOUS
<1>4. PtysGo(g, chan')
  <2>1. PICK cs : cs = {c} \ {NoChan}
    OBVIOUS
  <2>2. chan' = Closing(cs, chan)
    BY <1>2, <2>1 DEF openTerminal
  <2>3. \A q \in {r} \cap Recs : rec[q].pty = NoChan \/ rec[q].pty \in cs
    BY <1>2, <2>1
  <2>4. PtysGo(Stopped(rec, {r}), Closing(cs, chan))
    BY <1>1, <2>3, StopsAndCloses
  <2> QED BY <1>3, <2>2, <2>4
<1>5. /\ g \in [Recs -> Record] /\ g[r].pty = NoChan /\ \A q \in Recs : q # r => g[q] = rec[q]
  <2>1. /\ Stopped(rec, {r}) \in [Recs -> Record]
        /\ \A q \in Recs : q \notin {r} => Stopped(rec, {r})[q] = rec[q]
        /\ \A q \in {r} \cap Recs : Stopped(rec, {r})[q].pty = NoChan
    BY <1>1, StoppedFacts
  <2> QED BY <1>1, <1>3, <2>1
<1> DEFINE b == rec[r]
           y == [b EXCEPT !.opener = p, !.pump = NoChan, !.pty = NoChan,
                          !.attaching = IF p = Ladder THEN @ ELSE p]
<1>6. b \in Record
  BY <1>1
<1>7. (IF p = Ladder THEN b.attaching ELSE p) \in Calls \cup {NoProc}
  <2>1. b.attaching \in Calls \cup {NoProc}
    BY <1>6, RecordFacts
  <2> QED BY <2>1 DEF Procs
<1>8. y \in Record /\ y.pty = NoChan /\ y.opener = p /\ y.session = b.session
  BY <1>6, <1>7 DEF Record
<1>9. rec' = [rec EXCEPT ![r] = y]
  BY <1>1 DEF openTerminal
<1> HIDE DEF y
<1>10. rec' = [g EXCEPT ![r] = y]
  BY <1>1, <1>5, <1>9
<1> DEFINE a == [pc |-> IF c = NoChan THEN "opening" ELSE "previous",
                 rec |-> {r}, gen |-> gen, chan |-> c]
<1>11. a \in Attach /\ a.rec = {r}
  BY <1>1 DEF Attach, Scalars
<1>12. attach' = [attach EXCEPT ![p] = a]
  BY <1>2 DEF openTerminal
<1>13. SessionsKept
  BY <1>1, <1>8, <1>9 DEF SessionsKept
<1>14. Pooled'
  BY <1>1, <1>13, PoolSame, PoolFocused
<1> HIDE DEF a, b
<1> QED BY <1>1, <1>4, <1>5, <1>8, <1>10, <1>11, <1>12, <1>14, OpeningStep

LEMMA AttachNewStep ==
    ASSUME IInv, NEW c \in Calls, NEW s \in Sessions, findTerminal(s) = {}, NEW r \in Recs,
           NEW S \in SUBSET terminals, FreshRec(r), AttachNew(c, s, r, S),
           Scalars', UNCHANGED <<up, link>>
    PROVE  Kept
<1>1. /\ rec \in [Recs -> Record] /\ attach \in [Procs -> Attach] /\ Pooled /\ Scalars
      /\ PtysServed /\ PtysGo(rec, chan) /\ c \in Procs
  BY TypeParts, PtysGoNowhere DEF Procs
<1>2. r \notin terminals
  BY DEF FreshRec
<1>3. /\ LeastRecentlyFocused(S)
      /\ terminals' = (terminals \ S) \cup {r}
      /\ older' = [Unfocused(S) EXCEPT ![r] = terminals \ S]
      /\ attach' = [attach EXCEPT ![c] = [NoAttach EXCEPT !.pc = "opening", !.rec = {r}, !.gen = gen]]
      /\ rec' = [Stopped(rec, S) EXCEPT ![r] = [Blank EXCEPT !.session = {s}, !.opener = c, !.attaching = c]]
      /\ chan' = Closing(PtysOf(S), chan)
  BY DEF AttachNew
<1>4. PICK g : g = Stopped(rec, S)
  OBVIOUS
<1>5. PtysGo(g, chan')
  <2>1. \A q \in S \cap Recs : rec[q].pty = NoChan \/ rec[q].pty \in PtysOf(S)
    BY DEF PtysOf
  <2> QED BY <1>1, <1>3, <1>4, <2>1, StopsAndCloses
<1>6. /\ g \in [Recs -> Record] /\ \A q \in Recs : q \notin S => g[q] = rec[q]
      /\ \A q \in S \cap Recs : g[q].pty = NoChan
      /\ \A q \in Recs : g[q].session = rec[q].session
  BY <1>1, <1>4, StoppedFacts
<1>7. g[r].pty = NoChan
  BY <1>1, <1>2, <1>6 DEF PtysServed
<1>8. PICK y \in Record : /\ y = [Blank EXCEPT !.session = {s}, !.opener = c, !.attaching = c]
                          /\ y.pty = NoChan /\ y.opener = c /\ y.session = {s}
  <2>1. PICK b \in Record : b = Blank /\ b.pty = NoChan
    BY BlankFacts
  <2> DEFINE z == [b EXCEPT !.session = {s}, !.opener = c, !.attaching = c]
  <2>2. z \in Record /\ z.pty = NoChan /\ z.opener = c /\ z.session = {s}
    BY <1>1, <2>1 DEF Record
  <2> QED BY <2>1, <2>2
<1>9. PICK a \in Attach : a = [NoAttach EXCEPT !.pc = "opening", !.rec = {r}, !.gen = gen] /\ a.rec = {r}
  <2>1. PICK b \in Attach : b = NoAttach
    BY NoAttachFacts
  <2> DEFINE z == [b EXCEPT !.pc = "opening", !.rec = {r}, !.gen = gen]
  <2>2. z \in Attach /\ z.rec = {r}
    BY <1>1, <2>1 DEF Attach, Scalars
  <2> QED BY <2>1, <2>2
<1>10. /\ rec' = [g EXCEPT ![r] = y] /\ y.pty = NoChan /\ y.opener = c /\ y.session = {s}
       /\ attach' = [attach EXCEPT ![c] = a] /\ a.rec = {r}
  BY <1>3, <1>4, <1>8, <1>9
<1>11. /\ \A q \in Recs : q # r => rec'[q].session = rec[q].session
       /\ rec'[r].session = {s}
  BY <1>6, <1>10
<1>12. \A q \in terminals : rec[q].session # rec'[r].session
  BY <1>11 DEF findTerminal
<1>13. Pooled'
  BY <1>1, <1>2, <1>3, <1>11, <1>12, PoolGrows DEF LeastRecentlyFocused
<1>14. terminals \subseteq terminals' \cup {q \in Recs : g[q].pty = NoChan}
  BY <1>1, <1>3, <1>6 DEF Pooled
<1>15. c \in Procs /\ attach' = [attach EXCEPT ![c] = a] /\ rec' = [g EXCEPT ![r] = y]
  BY <1>1, <1>10
<1>16. y.pty = NoChan /\ y.opener = c /\ a.rec = {r}
  BY <1>10
<1> QED BY <1>5, <1>7, <1>13, <1>14, <1>15, <1>16, OpeningStep

LEMMA AttachSessionStep ==
    ASSUME IInv, NEW c \in Calls, NEW s \in Sessions, attachSession(c, s)
    PROVE  Kept
<1>1. steps' = steps + 1 /\ UNCHANGED <<todo, ladder, up, gen, link, grace, faults>>
  BY DEF attachSession, UserCall, linkVars
<1>2. Scalars /\ PtysGo(rec, chan) /\ c \in Procs /\ "attaching" \in Phases
  BY TypeParts, PtysGoNowhere DEF Procs, Phases
<1>3. steps' \in Nat
  BY <1>1, <1>2 DEF Scalars
<1>4. ASSUME phase' \in Phases
      PROVE  Scalars'
  BY <1>1, <1>2, <1>3, <1>4 DEF Scalars
<1>5. ASSUME NEW r \in findTerminal(s), older' = Focused(r), UNCHANGED terminals,
             IF rec[r].attaching # NoProc \/ rec[r].pty # NoChan
             THEN UNCHANGED <<attach, rec, chan, phase>>
             ELSE openTerminal(c, r) /\ phase' = LiveOr(rec', terminals, "attaching")
      PROVE  Kept
  <2>1. r \in terminals
    BY DEF findTerminal
  <2>2. CASE rec[r].attaching # NoProc \/ rec[r].pty # NoChan
    <3>1. UNCHANGED <<attach, rec, chan, phase>>
      BY <1>5, <2>2
    <3>2. Scalars' /\ PtysGo(rec', chan') /\ AttachQuiet
      BY <1>2, <1>4, <3>1, AttachSame DEF Scalars
    <3>3. up' /\ Alive' => up /\ Alive
      BY <1>1 DEF Alive
    <3> QED BY <1>5, <2>1, <3>2, <3>3, PoolFocusedStep
  <2>3. CASE ~ (rec[r].attaching # NoProc \/ rec[r].pty # NoChan)
    <3>1. openTerminal(c, r) /\ phase' = LiveOr(rec', terminals, "attaching")
      BY <1>5, <2>3
    <3>2. Scalars'
      BY <1>2, <1>4, <3>1, PhaseFacts
    <3> QED BY <1>1, <1>2, <1>5, <2>1, <3>1, <3>2, OpenTerminalStep
  <2> QED BY <2>2, <2>3
<1>6. ASSUME findTerminal(s) = {}, NEW r \in Recs, NEW S \in SUBSET terminals, FreshRec(r),
             AttachNew(c, s, r, S)
      PROVE  Kept
  <2>1. phase' \in Phases
    BY <1>2, <1>6, PhaseFacts DEF AttachNew
  <2> QED BY <1>1, <1>4, <1>6, <2>1, AttachNewStep
<1>7. \/ \E r \in findTerminal(s) :
            /\ older' = Focused(r)
            /\ IF rec[r].attaching # NoProc \/ rec[r].pty # NoChan
               THEN UNCHANGED <<attach, rec, chan, phase>>
               ELSE openTerminal(c, r) /\ phase' = LiveOr(rec', terminals, "attaching")
            /\ UNCHANGED terminals
      \/ /\ findTerminal(s) = {}
         /\ \E r \in Recs, S \in SUBSET terminals : FreshRec(r) /\ AttachNew(c, s, r, S)
  BY DEF attachSession
<1> QED BY <1>5, <1>6, <1>7

LEMMA OpenFailsStep ==
    ASSUME IInv, NEW p \in Procs, NEW transport \in BOOLEAN, openFails(p, transport)
    PROVE  Kept
<1>1. UNCHANGED <<terminals, older, gen, link, grace, steps>> /\ (Fault \/ UNCHANGED faults)
  BY DEF openFails, linkVars
<1>2. Scalars /\ PtysGo(rec, chan) /\ "error" \in Phases /\ phase \in Phases
  BY TypeParts, PtysGoNowhere DEF Phases, Scalars
<1>3. faults' \in Nat
  BY <1>1, FaultFacts
<1>4. ASSUME AttachEnds(p, rec, phase), UNCHANGED <<chan, todo, up>>
      PROVE  Kept
  <2>1. /\ AttachQuiet /\ PtysGo(rec', chan) /\ phase' \in Phases
        /\ ladder' \in {"off", "dialing", "listing", "attaching"}
    BY <1>2, <1>4, AttachEndsFacts
  <2>2. todo' \subseteq Recs /\ up' \in BOOLEAN /\ (up' => up) /\ PtysGo(rec', chan')
    BY <1>2, <1>4, <2>1 DEF Scalars
  <2> QED BY <1>1, <1>3, <2>1, <2>2, RecoveringStep
<1>5. ASSUME attach' = [attach EXCEPT ![p] = NoAttach], rec' = Stopped(rec, terminals),
             chan' = Closing(PtysOf(terminals), chan), todo' = {}, up' = FALSE,
             ladder' = "dialing", UNCHANGED phase
      PROVE  Kept
  <2>1. \A q \in terminals \cap Recs : rec[q].pty = NoChan \/ rec[q].pty \in PtysOf(terminals)
    BY DEF PtysOf
  <2>2. PtysGo(rec', chan')
    BY <1>2, <1>5, <2>1, StopsAndCloses
  <2>3. AttachQuiet
    BY <1>5, AttachDropped
  <2> QED BY <1>1, <1>2, <1>3, <1>5, <2>2, <2>3, RecoveringStep
<1>6. ASSUME NEW ph \in Phases, attach' = [attach EXCEPT ![p] = NoAttach], UNCHANGED todo,
             IF transport THEN startReconnect(Settled(p, rec), chan, ph)
             ELSE rec' = Settled(p, rec) /\ phase' = ph /\ UNCHANGED <<chan, up, ladder>>
      PROVE  Kept
  <2>1. AttachQuiet /\ todo' \subseteq Recs
    BY <1>2, <1>6, AttachDropped DEF Scalars
  <2>2. PICK f : f = Settled(p, rec)
    OBVIOUS
  <2>3. PtysGo(f, chan)
    BY <1>2, <2>2, SettledGoes
  <2>4. CASE transport
    <3>1. startReconnect(f, chan, ph)
      BY <1>6, <2>2, <2>4
    <3>2. /\ PtysGo(rec', chan') /\ up' \in BOOLEAN /\ (up' => up) /\ phase' \in Phases
          /\ ladder' \in {"off", "dialing", "listing", "attaching"}
      BY <2>3, <3>1, StartingReconnect
    <3> QED BY <1>1, <1>3, <2>1, <3>2, RecoveringStep
  <2>5. CASE ~ transport
    <3>1. rec' = f /\ phase' = ph /\ UNCHANGED <<chan, up, ladder>>
      BY <1>6, <2>2, <2>5
    <3>2. up' \in BOOLEAN /\ (up' => up) /\ ladder' \in {"off", "dialing", "listing", "attaching"}
      BY <1>2, <3>1 DEF Scalars
    <3>3. PtysGo(rec', chan')
      BY <2>3, <3>1
    <3> QED BY <1>1, <1>3, <2>1, <3>1, <3>2, <3>3, RecoveringStep
  <2> QED BY <2>4, <2>5
<1>7. LiveOr(rec, terminals, "error") \in Phases
  BY <1>2, PhaseFacts
<1>8. \/ AttachEnds(p, rec, phase) /\ UNCHANGED <<chan, todo, up>>
      \/ /\ attach' = [attach EXCEPT ![p] = NoAttach]
         /\ rec' = Stopped(rec, terminals) /\ chan' = Closing(PtysOf(terminals), chan)
         /\ todo' = {} /\ up' = FALSE /\ ladder' = "dialing" /\ UNCHANGED phase
      \/ /\ attach' = [attach EXCEPT ![p] = NoAttach]
         /\ LET ph == LiveOr(rec, terminals, "error")
            IN IF transport THEN startReconnect(Settled(p, rec), chan, ph)
               ELSE rec' = Settled(p, rec) /\ phase' = ph /\ UNCHANGED <<chan, up, ladder>>
         /\ UNCHANGED todo
  BY DEF openFails
<1> QED BY <1>4, <1>5, <1>6, <1>7, <1>8

-----------------------------------------------------------------------------
(* The ladder                                                              *)

LEMMA LadderNextStep ==
    ASSUME IInv, ladderNext
    PROVE  Kept
<1>1. UNCHANGED <<terminals, older, up, gen, link, grace, steps, faults>>
  BY DEF ladderNext, linkVars
<1>2. Scalars /\ PtysGo(rec, chan) /\ Ladder \in Procs
  BY TypeParts, PtysGoNowhere DEF Procs
<1>3. CASE todo \cap terminals = {}
  <2>1. todo' = {} /\ LadderEnds(rec) /\ UNCHANGED <<attach, rec, chan>>
    BY <1>3 DEF ladderNext
  <2>2. phase' \in Phases /\ ladder' = "off"
    BY <2>1, LadderEndsFacts
  <2>3. Scalars' /\ AttachQuiet /\ PtysGo(rec', chan')
    BY <1>1, <1>2, <2>1, <2>2, AttachSame DEF Scalars
  <2>4. up' /\ Alive' => up /\ Alive
    BY <1>1 DEF Alive
  <2> QED BY <1>1, <2>3, <2>4, PoolQuietStep
<1>4. CASE todo \cap terminals # {}
  <2>1. PICK r \in todo \cap terminals :
          todo' = (todo \cap terminals) \ {r} /\ openTerminal(Ladder, r) /\ UNCHANGED <<ladder, phase>>
    BY <1>4 DEF ladderNext
  <2>2. Scalars'
    BY <1>1, <1>2, <2>1 DEF Scalars
  <2> QED BY <1>1, <1>2, <2>1, <2>2, OpenTerminalStep
<1> QED BY <1>3, <1>4

LEMMA LadderDialledStep ==
    ASSUME IInv, ladderDialled
    PROVE  Kept
<1> DEFINE shut(x) == IF x.state = "closed" THEN x ELSE [x EXCEPT !.state = "closed", !.closing = FALSE]
<1>1. /\ up' = TRUE /\ link' = "up" /\ gen' = gen + 1
      /\ chan' = [c \in Chans |-> shut(chan[c])]
      /\ ladder' = "listing" /\ phase' = "listing"
      /\ UNCHANGED <<rec, terminals, older, attach, todo, grace, steps, faults>>
  BY DEF ladderDialled
<1>2. /\ Scalars /\ rec \in [Recs -> Record] /\ chan \in [Chans -> Channel] /\ InputBound
      /\ PtysGo(rec, chan) /\ Pooled
  BY TypeParts, PtysGoNowhere
<1>3. ASSUME NEW x \in Channel
      PROVE  /\ shut(x) \in Channel /\ shut(x).state = "closed" /\ shut(x).rec = x.rec
             /\ shut(x).pump = x.pump /\ shut(x).delivered = x.delivered
             /\ shut(x).queue = x.queue /\ shut(x).sent = x.sent /\ shut(x).failed = x.failed
  <2>1. CASE x.state = "closed"
    BY <1>3, <2>1
  <2>2. CASE x.state # "closed"
    BY <1>3, <2>2 DEF Channel
  <2> QED BY <2>1, <2>2
<1> HIDE DEF shut
<1>4. /\ chan' \in [Chans -> Channel]
      /\ \A c \in Chans : /\ chan'[c].state = "closed" /\ chan'[c].rec = chan[c].rec
                          /\ chan'[c].pump = chan[c].pump /\ chan'[c].delivered = chan[c].delivered
                          /\ chan'[c].queue = chan[c].queue /\ chan'[c].sent = chan[c].sent
                          /\ chan'[c].failed = chan[c].failed
  BY <1>1, <1>2, <1>3
<1>5. ChansKeep(chan, chan')
  BY <1>2, <1>4 DEF ChansKeep, ChanKeeps, InputBound
<1>6. \A r \in Recs : rec[r].pty \in Chans \cup {NoChan}
  BY <1>2, RecordFacts
<1>7. PtysGo(rec', chan')
  BY <1>1, <1>2, <1>4, <1>5, <1>6 DEF PtysGo, StillServed, Released
<1>8. Scalars'
  BY <1>1, <1>2 DEF Scalars, Phases
<1>9. AttachQuiet /\ \A c \in Chans : chan'[c].state # "open"
  BY <1>1, <1>4, AttachSame
<1>10. PtysQuiet /\ SessionsKept
  BY <1>1, <1>7, <1>9, PtysGone
<1>11. Pooled'
  BY <1>1, <1>2, <1>10, PoolSame
<1> QED BY <1>8, <1>9, <1>10, <1>11, QuietStep

LEMMA LadderGivesUpStep ==
    ASSUME IInv, ladderGivesUp
    PROVE  Kept
<1>1. /\ ladder' = "off" /\ phase' = "lost"
      /\ UNCHANGED <<rec, terminals, older, attach, todo, chan, up, gen, link, grace, steps, faults>>
  BY DEF ladderGivesUp, linkVars
<1>2. Scalars' /\ PtysGo(rec', chan') /\ AttachQuiet /\ (up' /\ Alive' => up /\ Alive)
  BY <1>1, TypeParts, PtysGoNowhere, AttachSame DEF Scalars, Phases, Alive
<1> QED BY <1>1, <1>2, PoolQuietStep

LEMMA LadderListFailsStep ==
    ASSUME IInv, ladderListFails
    PROVE  Kept
<1>1. /\ Fault \/ UNCHANGED faults
      /\ phase' = phase \/ phase' = LiveOr(rec, terminals, "error")
      /\ ladder' \in {"dialing", "off"}
      /\ UNCHANGED <<rec, terminals, older, attach, todo, chan, up, gen, link, grace, steps>>
  BY DEF ladderListFails, linkVars
<1>2. Scalars /\ faults' \in Nat
  BY <1>1, TypeParts, FaultFacts
<1>3. phase' \in Phases
  <2>1. "error" \in Phases
    BY DEF Phases
  <2> QED BY <1>1, <1>2, <2>1, PhaseFacts DEF Scalars
<1>4. Scalars' /\ PtysGo(rec', chan') /\ AttachQuiet /\ (up' /\ Alive' => up /\ Alive)
  BY <1>1, <1>2, <1>3, PtysGoNowhere, AttachSame DEF Scalars, Alive
<1> QED BY <1>1, <1>4, PoolQuietStep

\* The terminals the listing lacks go, and their PTYs with them, unclosed.
LEMMA LadderListedStep ==
    ASSUME IInv, NEW gone \in SUBSET terminals, ladderListed(gone)
    PROVE  Kept
<1>1. /\ Scalars /\ rec \in [Recs -> Record] /\ chan \in [Chans -> Channel] /\ InputBound
      /\ PtysGo(rec, chan) /\ Pooled
  BY TypeParts, PtysGoNowhere
<1>2. UNCHANGED <<attach, up, gen, link, grace, steps, faults>>
  BY DEF ladderListed, linkVars
<1>3. AttachQuiet /\ (up' /\ Alive' => up /\ Alive)
  BY <1>2, AttachSame DEF Alive
<1>4. CASE ~ up
  <2>1. ladder' = "dialing" /\ UNCHANGED <<rec, terminals, older, todo, chan, phase>>
    BY <1>4 DEF ladderListed
  <2>2. Scalars' /\ PtysGo(rec', chan')
    BY <1>1, <1>2, <2>1 DEF Scalars
  <2> QED BY <1>2, <1>3, <2>1, <2>2, PoolQuietStep
<1>5. CASE up
  <2> DEFINE lose(x, d) == [x EXCEPT !.dropped = d]
  <2>1. /\ terminals' = terminals \ gone /\ older' = Unfocused(gone)
        /\ rec' = Stopped(rec, gone) /\ todo' = terminals \ gone
        /\ ladder' = (IF terminals \ gone = {} THEN "off" ELSE "attaching")
        /\ phase' = (IF terminals \ gone # {} THEN "attaching"
                     ELSE IF gone = {} THEN "connected" ELSE "lost")
    BY <1>5 DEF ladderListed
  <2>2. chan' = [c \in Chans |-> lose(chan[c], chan[c].dropped \/ c \in PtysOf(gone))]
    BY <1>5 DEF ladderListed
  <2>3. ASSUME NEW x \in Channel, NEW d \in BOOLEAN
        PROVE  /\ lose(x, d) \in Channel /\ lose(x, d).state = x.state /\ lose(x, d).closing = x.closing
               /\ lose(x, d).dropped = d /\ lose(x, d).rec = x.rec
               /\ lose(x, d).pump = x.pump /\ lose(x, d).delivered = x.delivered
               /\ lose(x, d).queue = x.queue /\ lose(x, d).sent = x.sent /\ lose(x, d).failed = x.failed
    BY <2>3 DEF Channel
  <2> HIDE DEF lose
  <2>4. ASSUME NEW c \in Chans
        PROVE  /\ chan'[c] \in Channel /\ chan'[c].state = chan[c].state
               /\ chan'[c].closing = chan[c].closing /\ chan'[c].rec = chan[c].rec
               /\ chan'[c].pump = chan[c].pump /\ chan'[c].delivered = chan[c].delivered
               /\ chan'[c].queue = chan[c].queue /\ chan'[c].sent = chan[c].sent
               /\ chan'[c].failed = chan[c].failed
               /\ chan'[c].dropped <=> chan[c].dropped \/ c \in PtysOf(gone)
    <3> DEFINE d == chan[c].dropped \/ c \in PtysOf(gone)
    <3>1. d \in BOOLEAN
      OBVIOUS
    <3>2. chan'[c] = lose(chan[c], d) /\ chan[c] \in Channel
      BY <1>1, <2>2
    <3> HIDE DEF d
    <3>3. /\ lose(chan[c], d) \in Channel /\ lose(chan[c], d).state = chan[c].state
          /\ lose(chan[c], d).closing = chan[c].closing /\ lose(chan[c], d).dropped = d
          /\ lose(chan[c], d).rec = chan[c].rec /\ lose(chan[c], d).pump = chan[c].pump
          /\ lose(chan[c], d).delivered = chan[c].delivered
          /\ lose(chan[c], d).queue = chan[c].queue /\ lose(chan[c], d).sent = chan[c].sent
          /\ lose(chan[c], d).failed = chan[c].failed
      BY <2>3, <3>1, <3>2
    <3>4. chan'[c].dropped = d
      BY <3>2, <3>3
    <3>5. chan'[c].dropped <=> chan[c].dropped \/ c \in PtysOf(gone)
      BY <3>4 DEF d
    <3> QED BY <3>2, <3>3, <3>5
  <2>5. chan' \in [Chans -> Channel]
    BY <2>2, <2>4
  <2>6. ChansKeep(chan, chan')
    BY <1>1, <2>4, <2>5 DEF ChansKeep, ChanKeeps, InputBound
  <2>7. /\ RecsKeep(rec, rec')
        /\ \A r \in Recs : r \notin gone => rec'[r] = rec[r]
        /\ \A r \in gone \cap Recs : rec'[r].pty = NoChan
    BY <1>1, <2>1, KeepsStopped, StoppedFacts DEF PtysGo
  <2>8. \A r \in Recs : rec[r].pty \in Chans \cup {NoChan} /\ rec'[r].pty \in Chans \cup {NoChan}
    <3>1. rec' \in [Recs -> Record]
      BY <2>7 DEF RecsKeep
    <3> QED BY <1>1, <3>1, RecordFacts
  <2>9. StillServed(rec', chan')
    BY <2>4, <2>8 DEF StillServed
  <2>10. Released(rec, rec', chan')
    <3> SUFFICES ASSUME NEW r \in Recs, rec[r].pty # NoChan, rec'[r].pty = NoChan
                 PROVE  chan'[rec[r].pty].dropped
      BY DEF Released
    <3>1. r \in gone
      BY <2>7
    <3>2. rec[r].pty \in PtysOf(gone) /\ rec[r].pty \in Chans
      BY <2>8, <3>1 DEF PtysOf
    <3> QED BY <2>4, <3>2
  <2>11. PtysGo(rec', chan')
    BY <2>6, <2>7, <2>9, <2>10 DEF PtysGo
  <2>12. todo' \subseteq Recs /\ phase' \in Phases /\ ladder' \in {"off", "attaching"}
    BY <1>1, <2>1 DEF Pooled, Phases
  <2>13. Scalars'
    BY <1>1, <1>2, <2>12 DEF Scalars
  <2> QED BY <1>3, <2>1, <2>7, <2>11, <2>13, PoolShrinksStep
<1> QED BY <1>4, <1>5

-----------------------------------------------------------------------------
(* The platform                                                            *)

LEMMA SessionEndsStep ==
    ASSUME IInv, NEW c \in Chans, sessionEnds(c)
    PROVE  Kept
<1>1. /\ chan' = [chan EXCEPT ![c].state = "ended"]
      /\ UNCHANGED <<rec, terminals, older, attach, todo, ladder, gen, up, link, grace, phase, steps>>
      /\ Fault \/ UNCHANGED faults
  BY DEF sessionEnds, PlatformStep
<1>2. Scalars /\ chan \in [Chans -> Channel] /\ InputBound
  BY TypeParts
<1> DEFINE a == chan[c]
           x == [a EXCEPT !.state = "ended"]
<1>3. a \in Channel /\ a.queue + a.sent <= MaxInput
  BY <1>2 DEF InputBound
<1>4. /\ x \in Channel /\ x.state = "ended" /\ x.rec = a.rec /\ x.pump = a.pump
      /\ x.delivered = a.delivered /\ x.failed = a.failed /\ x.queue = a.queue /\ x.sent = a.sent
  BY <1>3 DEF Channel
<1>5. chan' = [chan EXCEPT ![c] = x]
  BY <1>1, <1>2
<1> HIDE DEF x
<1>6. ChanKeeps(a, x)
  BY <1>3, <1>4 DEF ChanKeeps
<1>7. PtysGo(rec, chan')
  BY <1>4, <1>5, <1>6, ChanGoes
<1>8. PtysGo(rec', chan') /\ AttachQuiet /\ faults' \in Nat
  BY <1>1, <1>7, AttachSame, FaultFacts
<1>9. Scalars' /\ (up' /\ Alive' => up /\ Alive)
  BY <1>1, <1>2, <1>8 DEF Scalars, Alive
<1> QED BY <1>1, <1>8, <1>9, PoolQuietStep

LEMMA PtyClosedStep ==
    ASSUME IInv, NEW c \in Chans, ptyClosed(c)
    PROVE  Kept
<1>1. /\ chan' = [chan EXCEPT ![c].state = "closed", ![c].closing = FALSE]
      /\ UNCHANGED <<rec, terminals, older, attach, todo, ladder, gen, up, link, grace, phase, steps, faults>>
  BY DEF ptyClosed, PlatformStep
<1>2. Scalars /\ chan \in [Chans -> Channel] /\ InputBound
  BY TypeParts
<1> DEFINE a == chan[c]
           x == [a EXCEPT !.state = "closed", !.closing = FALSE]
<1>3. a \in Channel /\ a.queue + a.sent <= MaxInput
  BY <1>2 DEF InputBound
<1>4. /\ x \in Channel /\ x.state = "closed" /\ x.rec = a.rec /\ x.pump = a.pump
      /\ x.delivered = a.delivered /\ x.failed = a.failed /\ x.queue = a.queue /\ x.sent = a.sent
  BY <1>3 DEF Channel
<1>5. chan' = [chan EXCEPT ![c] = x]
  BY <1>1, <1>2
<1> HIDE DEF x
<1>6. ChanKeeps(a, x)
  BY <1>3, <1>4 DEF ChanKeeps
<1>7. PtysGo(rec, chan')
  BY <1>4, <1>5, <1>6, ChanGoes
<1>8. PtysGo(rec', chan') /\ AttachQuiet
  BY <1>1, <1>7, AttachSame
<1>9. Scalars' /\ (up' /\ Alive' => up /\ Alive)
  BY <1>1, <1>2 DEF Scalars, Alive
<1> QED BY <1>1, <1>8, <1>9, PoolQuietStep

LEMMA LinkEndsStep ==
    ASSUME IInv, NEW how \in {"lost", "expired"}, linkEnds(how)
    PROVE  Kept
<1> DEFINE end(x) == IF x.state = "open" THEN [x EXCEPT !.state = "ended"] ELSE x
<1>1. /\ link' = how /\ chan' = [c \in Chans |-> end(chan[c])]
      /\ UNCHANGED <<rec, terminals, older, attach, todo, ladder, gen, up, grace, phase, steps>>
      /\ Fault \/ UNCHANGED faults
  BY DEF linkEnds, PlatformStep
<1>2. /\ Scalars /\ rec \in [Recs -> Record] /\ chan \in [Chans -> Channel] /\ InputBound
      /\ PtysGo(rec, chan)
  BY TypeParts, PtysGoNowhere
<1>3. ASSUME NEW x \in Channel
      PROVE  /\ end(x) \in Channel /\ end(x).state # "open" /\ end(x).rec = x.rec
             /\ end(x).pump = x.pump /\ end(x).delivered = x.delivered
             /\ end(x).queue = x.queue /\ end(x).sent = x.sent /\ end(x).failed = x.failed
  <2>1. CASE x.state = "open"
    BY <1>3, <2>1 DEF Channel
  <2>2. CASE x.state # "open"
    BY <1>3, <2>2
  <2> QED BY <2>1, <2>2
<1> HIDE DEF end
<1>4. /\ chan' \in [Chans -> Channel]
      /\ \A c \in Chans : /\ chan'[c].state # "open" /\ chan'[c].rec = chan[c].rec
                          /\ chan'[c].pump = chan[c].pump /\ chan'[c].delivered = chan[c].delivered
                          /\ chan'[c].queue = chan[c].queue /\ chan'[c].sent = chan[c].sent
                          /\ chan'[c].failed = chan[c].failed
  BY <1>1, <1>2, <1>3
<1>5. ChansKeep(chan, chan')
  BY <1>2, <1>4 DEF ChansKeep, ChanKeeps, InputBound
<1>6. \A r \in Recs : rec[r].pty \in Chans \cup {NoChan}
  BY <1>2, RecordFacts
<1>7. PtysGo(rec, chan')
  BY <1>2, <1>4, <1>5, <1>6 DEF PtysGo, StillServed, Released
<1>8. PtysGo(rec', chan') /\ AttachQuiet /\ faults' \in Nat
  BY <1>1, <1>7, AttachSame, FaultFacts
<1>9. Scalars' /\ (up' /\ Alive' => up /\ Alive)
  BY <1>1, <1>2, <1>8 DEF Scalars, Alive
<1> QED BY <1>1, <1>8, <1>9, PoolQuietStep

LEMMA OnConnectionStateStep ==
    ASSUME IInv, onConnectionState
    PROVE  Kept
<1>1. link' = "dead" /\ UNCHANGED <<terminals, older, attach, todo, gen, grace, steps, faults>>
  BY DEF onConnectionState
<1>2. Scalars /\ PtysGo(rec, chan) /\ phase \in Phases
  BY TypeParts, PtysGoNowhere DEF Scalars
<1>3. \/ startReconnect(rec, chan, phase)
      \/ rec' = Stopped(rec, terminals) /\ up' = FALSE /\ UNCHANGED <<chan, phase, ladder>>
      \/ UNCHANGED <<rec, chan, up, ladder, phase>>
  BY DEF onConnectionState
<1>4. ASSUME PtysQuiet, phase' \in Phases, up' \in BOOLEAN, ladder' \in {"off", "dialing", "listing", "attaching"}
      PROVE  Kept
  <2>1. Scalars' /\ AttachQuiet
    BY <1>1, <1>2, <1>4, AttachSame DEF Scalars
  <2>2. SessionsKept
    BY <1>4 DEF PtysQuiet, RecsKeep, RecKeeps, SessionsKept
  <2>3. Pooled'
    BY <1>1, <2>2, TypeParts, PoolSame
  <2> QED BY <1>4, <2>1, <2>3, QuietStep
<1>5. ~ Alive'
  BY <1>1 DEF Alive
<1>6. CASE startReconnect(rec, chan, phase)
  <2>1. /\ PtysGo(rec', chan') /\ up' \in BOOLEAN /\ (up' => up) /\ phase' \in Phases
        /\ ladder' \in {"off", "dialing", "listing", "attaching"}
    BY <1>2, <1>6, StartingReconnect
  <2>2. PtysQuiet
    BY <1>1, <1>5, <2>1, PtysGone
  <2> QED BY <1>4, <2>1, <2>2
<1>7. CASE rec' = Stopped(rec, terminals) /\ up' = FALSE /\ UNCHANGED <<chan, phase, ladder>>
  <2>1. RecsKeep(rec, rec') /\ ChansKeep(chan, chan')
    <3>1. RecsKeep(rec, Stopped(rec, terminals))
      BY <1>2, KeepsStopped DEF PtysGo
    <3>2. ChansKeep(chan, chan)
      BY <1>2 DEF PtysGo
    <3> QED BY <1>7, <3>1, <3>2
  <2>2. \A r \in Recs : rec'[r].pty = NoChan
    <3>1. /\ \A r \in Recs : r \notin terminals => rec'[r] = rec[r]
          /\ \A r \in terminals \cap Recs : rec'[r].pty = NoChan
      BY <1>7, TypeParts, StoppedFacts
    <3>2. \A r \in Recs : rec[r].pty # NoChan => r \in terminals
      BY TypeParts DEF PtysServed
    <3> QED BY <3>1, <3>2
  <2>3. PtysQuiet
    BY <1>5, <2>1, <2>2 DEF PtysQuiet, StillServed
  <2> QED BY <1>2, <1>4, <1>7, <2>3 DEF Scalars
<1>8. CASE UNCHANGED <<rec, chan, up, ladder, phase>>
  <2>1. PtysGo(rec', chan')
    BY <1>2, <1>8
  <2>2. PtysQuiet
    BY <1>1, <1>5, <2>1, PtysGone
  <2> QED BY <1>2, <1>4, <1>8, <2>2 DEF Scalars
<1> QED BY <1>3, <1>6, <1>7, <1>8

-----------------------------------------------------------------------------

LEMMA StutterStep ==
    ASSUME IInv, UNCHANGED vars
    PROVE  Kept
<1>1. UNCHANGED <<rec, terminals, older, attach, todo, chan, ladder, gen, up, link, grace, phase,
                  steps, faults>>
  BY DEF vars
<1>2. Scalars' /\ PtysGo(rec', chan') /\ AttachQuiet /\ (up' /\ Alive' => up /\ Alive)
  BY <1>1, TypeParts, PtysGoNowhere, AttachSame DEF Scalars, Alive
<1> QED BY <1>1, <1>2, PoolQuietStep

LEMMA InitInv ==
    Init => IInv
<1> SUFFICES ASSUME Init PROVE IInv
  OBVIOUS
<1>1. /\ rec = [r \in Recs |-> Blank] /\ terminals = {} /\ older = [r \in Recs |-> {}] /\ todo = {}
      /\ attach = [p \in Procs |-> NoAttach] /\ chan = [c \in Chans |-> Shut]
      /\ ladder = "off" /\ gen = 1 /\ up = TRUE /\ link = "up" /\ grace = FALSE
      /\ phase = "connected" /\ steps = 0 /\ faults = 0
  BY DEF Init
<1>2. Scalars
  BY <1>1 DEF Scalars, Phases
<1>3. /\ rec \in [Recs -> Record] /\ chan \in [Chans -> Channel] /\ attach \in [Procs -> Attach]
  BY <1>1, BlankFacts, ShutFacts, NoAttachFacts
<1>4. Pooled
  <2>1. Cardinality(terminals) <= MaxOpen /\ IsFiniteSet(terminals)
    BY <1>1, FS_EmptySet, TerminalsAssumption
  <2> QED BY <1>1, <2>1 DEF Pooled, PoolBound, PoolFinite
<1>5. PtysServed /\ OpensBare
  BY <1>1, BlankFacts, NoAttachFacts DEF PtysServed, OpensBare
<1>6. OnlyDroppedOrphans /\ InputBound
  BY <1>1, ShutFacts, TerminalsAssumption DEF OnlyDroppedOrphans, InputBound
<1> QED BY <1>2, <1>3, <1>4, <1>5, <1>6, TypeParts

LEMMA NextStep ==
    ASSUME IInv, Next
    PROVE  Kept
<1>1. CASE UserStep
  BY <1>1, AttachSessionStep, DetachSessionStep, FocusSessionStep, WriteTerminalBytesStep,
     EnterBackgroundStep, ReturnToForegroundStep, ReconnectStep DEF UserStep
<1>2. CASE LadderStep
  BY <1>2, LadderDialledStep, LadderGivesUpStep, LadderListFailsStep, LadderNextStep,
     LadderListedStep DEF LadderStep
<1>3. ASSUME NEW p \in Procs, AttachStep(p)
      PROVE  Kept
  BY <1>3, PreviousClosedStep, StaleClosedStep, PtyOpenedStep, OpenFailsStep DEF AttachStep
<1>4. ASSUME NEW c \in Chans, PumpStep(c)
      PROVE  Kept
  BY <1>4, PumpStaleStep, ReadAnswersStep, ListenersDoneStep, ReadEofStep, ProbeLostStep,
     ProbeHealthyStep, ReadFailsStep DEF PumpStep
<1>5. ASSUME NEW c \in Chans, WriteStep(c)
      PROVE  Kept
  BY <1>5, OperationRunsStep, OperationDoneStep, OperationFailsStep DEF WriteStep
<1> QED BY <1>1, <1>2, <1>3, <1>4, <1>5, SessionEndsStep, PtyClosedStep, LinkEndsStep,
           OnConnectionStateStep DEF Next

\* The pool, its channels and its attaches always fit together: the inductive
\* invariant, for any pool size, records, channels and bounds.
THEOREM PoolInvariant == Spec => []IInv
<1>1. IInv /\ [Next]_vars => IInv'
  BY NextStep, StutterStep DEF Kept
<1> QED BY <1>1, InitInv, PTL DEF Spec

\* The pool keeps its bound, its types and order, and leaks no open channel but
\* those of the terminals the ladder drops after its listing: the run's
\* PoolAccounts, for any pool size, channels and input (attachSession,
\* openTerminal, removeTerminal).
THEOREM PoolKeepsItsAccounts == Spec => []PoolAccounts
<1>1. IInv => PoolAccounts
  BY DEF IInv, PoolAccounts
<1> QED BY <1>1, PoolInvariant, PTL

\* A terminal that has a PTY is in the pool and its pump works on that PTY
\* (startPtyPump, abandonPty).
THEOREM EveryPtyHasItsPump == Spec => []PumpServesPty
<1>1. IInv => PumpServesPty
  BY DEF IInv, PtysServed, Served, PumpServesPty
<1> QED BY <1>1, PoolInvariant, PTL

\* However late an older pump's listeners end, readSequence counts the chunks of
\* the PTY the terminal has now (startPtyPump).
THEOREM ReadsStayInStep == Spec => []ReadInStep
<1>1. IInv => ReadInStep
  BY DEF IInv, PtysServed, Served, ReadInStep
<1> QED BY <1>1, PoolInvariant, PTL

\* A channel that failed while it served a terminal is no terminal's any more, so
\* the writes still queued for it are refused (writeTerminalBytes).
THEOREM FailedChannelsGetNothing == Spec => NothingAfterFailure
<1>1. ASSUME IInv, Next, NEW c \in Chans, chan[c].failed
      PROVE  chan'[c].sent <= chan[c].sent
  <2>1. chan'[c].sent \in {chan[c].sent, 0}
    BY <1>1, NextStep DEF Kept
  <2>2. chan[c].sent \in Nat
    BY <1>1, TypeParts, ChannelFacts
  <2> QED BY <2>1, <2>2
<1>2. ASSUME IInv, UNCHANGED vars, NEW c \in Chans, chan[c].failed
      PROVE  chan'[c].sent <= chan[c].sent
  <2>1. chan'[c].sent = chan[c].sent
    BY <1>2 DEF vars
  <2>2. chan[c].sent \in Nat
    BY <1>2, TypeParts, ChannelFacts
  <2> QED BY <2>1, <2>2
<1>3. IInv /\ [Next]_vars => [\A c \in Chans : chan[c].failed => chan'[c].sent <= chan[c].sent]_vars
  BY <1>1, <1>2
<1> QED BY <1>3, PoolInvariant, PTL DEF Spec, NothingAfterFailure
=============================================================================
