---------------------- MODULE ConnectionControllerProofs ----------------------
(***************************************************************************)
(* The safety of ConnectionController for any number of calls in flight,   *)
(* hosts, keys and generations: one dialler, no leaked connection, trust   *)
(* for the host in hand.                                                   *)
(*                                                                         *)
(* The argument is about who refers to a generation.  One that is being    *)
(* dialled or rejected is known to its own call only; one that is being    *)
(* closed is no longer the current connection; so no answer that arrives   *)
(* late can touch the connection in use.                                   *)
(***************************************************************************)
EXTENDS ConnectionController, TLAPS

\* Where a call owns the generation it dials, and where it closes one.
Dialling == {"pins", "dialing", "rejecting"}
Closers == {"closing", "rejecting", "reclosing", "release"}

\* The key expected of a host is one somebody vouched for.
KeyVouched(r) == r.key # NoKey => <<r.host, r.key>> \in accepted

\* A generation being dialled is its dialler's alone.
OwnGen(p) ==
    LET r == proc[p]
    IN /\ r.pc \in Dialling =>
            /\ r.gen \in Gens /\ conn # r.gen
            /\ \A q \in Procs \ {p} : proc[q].gen # r.gen
       /\ r.pc \in {"pins", "dialing"} => native[r.gen].state # "open"
       /\ r.pc = "rejecting" => native[r.gen].key \in Keys
       /\ r.pc \in Closers \cup {"wait"} => r.gen = NoGen \/ conn # r.gen

\* A dial that may still take effect is for the host in hand, and finds no
\* connection in its way.
OwnHost(p) ==
    Current(p) =>
        /\ proc[p].pc \in Dialling => proc[p].host = host
        /\ p = Ladder /\ proc[p].pc # "none" => proc[p].host = host
        /\ proc[p].pc \in DialPcs => conn = NoGen

\* The ladder: attempts are left when one begins, and nobody reports a
\* recovery while it lists.
LadderShape ==
    /\ proc[Ladder].pc \in {"closing", "wait"} => proc[Ladder].attempt < Retries
    /\ proc[Ladder].pc = "listing" => phase # "reconnecting"

\* A call of close() lets the last connection go for good.
CloseShape(p) ==
    proc[p].op = "close" => disposed /\ (proc[p].pc = "closing" => conn = NoGen)

\* A call that dials, or may come to, names a host.
Named(p) ==
    /\ \/ proc[p].op \in {"connect", "ladder"}
       \/ proc[p].pc \in {"probe", "record", "pins", "dialing", "rejecting"}
       => proc[p].host \in Hosts
    /\ p = Ladder /\ proc[p].pc # "none" => proc[p].op = "ladder"

ProcInv(p) ==
    KeyVouched(proc[p]) /\ OwnGen(p) /\ OwnHost(p) /\ CloseShape(p) /\ Named(p)

\* Pins, the key trusted once and the question asked.
TrustShape ==
    /\ \A h \in Hosts : pins[h] # NoKey => <<h, pins[h]>> \in accepted
    /\ once.key # NoKey => <<once.host, once.key>> \in accepted
    /\ decision # NoDecision => decision.host = host /\ decision.key \in Keys

IInv == /\ TypeOK /\ TrustedConnection /\ TrustShape /\ NoOrphan /\ LadderShape
        /\ \A p \in Procs : ProcInv(p)

-----------------------------------------------------------------------------
\* What a step may do to the calls it is not about.

\* A step of the calls P: it touches no other call, takes no generation another
\* call dials, and speaks for nobody else.
Apart(P) ==
    /\ P \subseteq Procs
    /\ \A q \in Procs \ P : proc'[q] = proc[q] /\ (Current(q)' => Current(q) /\ host' = host)
    /\ \A r \in P : \/ proc'[r].gen \in {NoGen, conn, proc[r].gen}
                    \/ proc'[r].gen \in Gens /\ Unused(proc'[r].gen)
    /\ \/ conn' \in {conn, NoGen}
       \/ \E r \in P : Current(r) /\ proc[r].pc = "dialing" /\ conn' = proc[r].gen
    /\ \A g \in Gens :
          \/ /\ native'[g].key = native[g].key
             /\ native'[g].state = "open" => native[g].state = "open"
          \/ \E r \in P : proc[r].gen = g
    /\ accepted \subseteq accepted'
    /\ disposed => disposed'

\* The calls a step is not about keep what is known of them.
LEMMA OthersKept ==
    ASSUME IInv, NEW P, Apart(P), TypeOK'
    PROVE  \A q \in Procs \ P : ProcInv(q)'
<1> USE DEF Apart
<1> TAKE q \in Procs \ P
<1>1. /\ proc'[q] = proc[q] /\ ProcInv(q) /\ q \in Procs
      /\ Current(q)' => Current(q) /\ host' = host
      /\ conn \in Gens \cup {NoGen} /\ proc[q] \in Proc
  BY DEF IInv, TypeOK
<1>2. \A r \in P : r \in Procs /\ ProcInv(r) /\ proc[r] \in Proc
  BY DEF IInv, TypeOK
<1>3. KeyVouched(proc[q])'
  BY <1>1 DEF ProcInv, KeyVouched
<1>4. conn' = conn \/ conn' = NoGen
      \/ \E r \in P : Current(r) /\ proc[r].pc = "dialing" /\ conn' = proc[r].gen /\ r # q /\ r \in Procs
                      /\ proc[q].gen # proc[r].gen /\ conn' \in Gens
  BY <1>1, <1>2 DEF ProcInv, OwnGen, Dialling
<1>5. OwnGen(q)'
  <2>1. proc[q].pc \in Dialling =>
           /\ proc[q].gen \in Gens /\ conn # proc[q].gen
           /\ \A r \in Procs \ {q} : proc[r].gen # proc[q].gen
    BY <1>1 DEF ProcInv, OwnGen
  <2>2. proc[q].pc \in Dialling => \A r \in Procs \ {q} : proc'[r].gen # proc[q].gen
    <3> SUFFICES ASSUME proc[q].pc \in Dialling, NEW r \in Procs \ {q}
                 PROVE  proc'[r].gen # proc[q].gen
      OBVIOUS
    <3>1. CASE r \notin P
      BY <3>1, <2>1
    <3>2. CASE r \in P
      BY <3>2, <2>1, ControllerAssumption DEF Unused
    <3> QED BY <3>1, <3>2
  <2>3. proc[q].pc \in Dialling => conn' # proc[q].gen
    BY <1>4, <2>1, ControllerAssumption
  <2>4. proc[q].pc \in Dialling =>
           /\ native'[proc[q].gen].key = native[proc[q].gen].key
           /\ native'[proc[q].gen].state = "open" => native[proc[q].gen].state = "open"
    BY <2>1, <1>1
  <2>5. proc[q].pc \in Closers \cup {"wait"} => proc[q].gen = NoGen \/ conn' # proc[q].gen
    BY <1>1, <1>4 DEF ProcInv, OwnGen
  <2>6. /\ proc[q].pc \in {"pins", "dialing"} => native[proc[q].gen].state # "open"
        /\ proc[q].pc = "rejecting" => native[proc[q].gen].key \in Keys
    BY <1>1 DEF ProcInv, OwnGen
  <2> QED BY <1>1, <2>1, <2>2, <2>3, <2>4, <2>5, <2>6 DEF OwnGen, Dialling
<1>6. OwnHost(q)'
  <2> SUFFICES ASSUME Current(q)' PROVE OwnHost(q)'
    BY DEF OwnHost
  <2>1. Current(q) /\ host' = host /\ OwnHost(q)
    BY <1>1 DEF ProcInv
  <2>2. conn' = conn \/ conn' = NoGen
    BY <2>1, <1>4 DEF Current
  <2> QED BY <1>1, <2>1, <2>2 DEF OwnHost
<1>7. CloseShape(q)'
  BY <1>1, <1>4 DEF ProcInv, CloseShape, Current
<1>8. Named(q)'
  BY <1>1 DEF ProcInv, Named
<1> QED BY <1>3, <1>5, <1>6, <1>7, <1>8 DEF ProcInv

-----------------------------------------------------------------------------
\* Steps that open no connection and touch no native one: a call ends, moves
\* on, or takes the current connection to close it.

\* The calls that move hold no connection, and one that takes the current
\* connection leaves nothing current behind.
Moved(r) ==
    /\ proc[r].gen = NoGen \/ proc[r].pc \notin Closers
    /\ proc'[r].pc \notin Dialling
    /\ proc'[r].key = NoKey \/ <<proc'[r].host, proc'[r].key>> \in accepted'
    /\ proc'[r].gen \in {NoGen, conn, proc[r].gen}
    /\ proc'[r].pc \in Closers => proc'[r].gen \in {NoGen, conn} /\ conn' = NoGen
    /\ proc'[r].pc = "wait" => proc'[r].gen = NoGen /\ (Current(r)' => conn' = NoGen)
    /\ r = Ladder /\ Current(r)' /\ proc'[r].pc # "none" => proc'[r].host = host
    /\ proc'[r].op = "close" => disposed'
    /\ Named(r)'

\* The native connections are the same, or fewer.
NativeKept ==
    \A g \in Gens : /\ native'[g].state = "open" => native[g].state = "open"
                    /\ native'[g].host = native[g].host /\ native'[g].key = native[g].key
                    /\ native'[g].receipt = native[g].receipt

MoveStep(P) ==
    /\ P \subseteq Procs /\ TypeOK'
    /\ \A q \in Procs \ P : proc'[q] = proc[q] /\ (Current(q)' => Current(q))
    /\ \A r \in P : Moved(r)
    /\ host' = host /\ NativeKept
    /\ accepted \subseteq accepted' /\ (disposed => disposed')
    /\ TrustShape' /\ LadderShape'
    /\ \/ conn' = conn
       \/ conn' = NoGen /\ (conn = NoGen \/ native[conn].state # "open")
       \/ conn' = NoGen /\ \E r \in P : proc'[r].gen = conn /\ proc'[r].pc \in Closers

\* Such a step keeps the invariant.
LEMMA MoveKeeps ==
    ASSUME IInv, NEW P, MoveStep(P)
    PROVE  IInv'
<1> USE DEF MoveStep
<1>1. /\ P \subseteq Procs /\ TypeOK' /\ TypeOK /\ host' = host /\ NativeKept
      /\ accepted \subseteq accepted' /\ (conn' = conn \/ conn' = NoGen)
      /\ conn \in Gens \cup {NoGen}
  BY DEF IInv, TypeOK
<1>2. Apart(P)
  BY <1>1 DEF Apart, Moved, NativeKept
<1>3. \A q \in Procs \ P : ProcInv(q)'
  BY <1>1, <1>2, OthersKept
<1>4. \A r \in P : ProcInv(r)'
  <2> TAKE r \in P
  <2>1. Moved(r) /\ r \in Procs
    OBVIOUS
  <2>2. KeyVouched(proc[r])'
    BY <2>1 DEF Moved, KeyVouched
  <2>3. OwnGen(r)'
    BY <2>1, <1>1, ControllerAssumption DEF Moved, OwnGen, Dialling, Closers
  <2>4. OwnHost(r)'
    BY <2>1 DEF Moved, OwnHost, Dialling, Closers, DialPcs
  <2>5. CloseShape(r)'
    BY <2>1 DEF Moved, CloseShape, Closers
  <2> QED BY <2>1, <2>2, <2>3, <2>4, <2>5 DEF ProcInv, Moved
<1>5. TrustedConnection'
  <2> SUFFICES ASSUME conn' # NoGen PROVE TrustedConnection'
    BY DEF TrustedConnection
  <2>1. conn' = conn /\ conn \in Gens
    BY <1>1
  <2> QED BY <2>1, <1>1 DEF IInv, TrustedConnection, NativeKept
<1>6. NoOrphan'
  <2> SUFFICES ASSUME NEW g \in Gens, native'[g].state = "open", conn' # g
               PROVE  \E p \in Procs : proc'[p].gen = g /\ proc'[p].pc \in Closers
    BY DEF NoOrphan, Closers
  <2>1. native[g].state = "open"
    BY <1>1 DEF NativeKept
  <2>2. CASE conn = g
    BY <2>1, <2>2, <1>1, ControllerAssumption
  <2>3. CASE conn # g
    <3>1. PICK p \in Procs : proc[p].gen = g /\ proc[p].pc \in Closers
      BY <2>1, <2>3 DEF IInv, NoOrphan, Closers
    <3>2. p \notin P
      BY <3>1, ControllerAssumption DEF Moved
    <3> QED BY <3>1, <3>2
  <2> QED BY <2>2, <2>3
<1> QED BY <1>1, <1>3, <1>4, <1>5, <1>6 DEF IInv

-----------------------------------------------------------------------------
\* The answer to a close: the native connection the call held is gone.

\* The call ends, waits, or dials a generation nobody knows.
Redials(p) ==
    LET r == proc'[p]
    IN \/ r = Idle
       \/ /\ p = Ladder /\ r.pc = "wait" /\ r.gen = NoGen /\ r.key = NoKey
          /\ proc[p].pc \in DialPcs /\ r.host = proc[p].host /\ r.op = proc[p].op
       \/ /\ r.pc \in {"pins", "dialing"} /\ r.gen \in Gens /\ Unused(r.gen)
          /\ proc[p].pc \in DialPcs /\ Current(p) /\ host' = r.host
          /\ KeyVouched(proc[p])' /\ r.op # "close"
          /\ r.host \in Hosts /\ r.op = proc[p].op

ReleaseStep(p) ==
    /\ p \in Procs /\ TypeOK'
    /\ proc[p].pc \in Closers \cup {"wait"}
    /\ native' = IF proc[p].gen = NoGen THEN native
                 ELSE [native EXCEPT ![proc[p].gen] = Closed]
    /\ \A q \in Procs \ {p} : proc'[q] = proc[q]
    /\ Redials(p)
    /\ host' = host \/ (conn = NoGen /\ (disposed \/ Current(p)))
    /\ p = Ladder => host' = host
    /\ UNCHANGED <<intent, disposed, conn, accepted>>
    /\ TrustShape' /\ LadderShape'

\* Such a step keeps the invariant.
LEMMA ReleaseKeeps ==
    ASSUME IInv, NEW p, ReleaseStep(p)
    PROVE  IInv'
<1> USE DEF ReleaseStep
<1>1. /\ p \in Procs /\ TypeOK' /\ TypeOK /\ conn' = conn
      /\ conn \in Gens \cup {NoGen} /\ proc[p] \in Proc /\ ProcInv(p)
      /\ native \in [Gens -> Native] /\ NoOrphan
  BY DEF IInv, TypeOK
<1>2. proc[p].gen = NoGen \/ (proc[p].gen # conn /\ proc[p].gen \in Gens)
  BY <1>1 DEF ProcInv, OwnGen, Proc
<1>3. \A g \in Gens : /\ g # proc[p].gen => native'[g] = native[g]
                      /\ native'[g].state = "open" => native[g].state = "open" /\ g # proc[p].gen
  BY <1>1, <1>2, ControllerAssumption DEF Closed
<1>4. Apart({p})
  <2>1. \A q \in Procs \ {p} : proc'[q] = proc[q] /\ (Current(q)' => Current(q) /\ host' = host)
    BY <1>1 DEF Current
  <2>2. \/ proc'[p].gen \in {NoGen, conn, proc[p].gen}
        \/ proc'[p].gen \in Gens /\ Unused(proc'[p].gen)
    BY DEF Redials, Idle
  <2> QED BY <1>1, <1>3, <2>1, <2>2 DEF Apart
<1>5. \A q \in Procs \ {p} : ProcInv(q)'
  BY <1>1, <1>4, OthersKept
<1>6. ProcInv(p)'
  <2>1. CASE proc'[p] = Idle
    BY <2>1 DEF Idle, ProcInv, KeyVouched, OwnGen, OwnHost, CloseShape, Named, Dialling, Closers, DialPcs
  <2>2. CASE /\ p = Ladder /\ proc'[p].pc = "wait" /\ proc'[p].gen = NoGen /\ proc'[p].key = NoKey
             /\ proc[p].pc \in DialPcs /\ proc'[p].host = proc[p].host /\ proc'[p].op = proc[p].op
    <3>1. OwnHost(p)'
      BY <2>2, <1>1 DEF ProcInv, OwnHost, Current, DialPcs, Dialling
    <3>2. Named(p)'
      BY <2>2, <1>1 DEF ProcInv, Named, DialPcs
    <3> QED BY <2>2, <3>1, <3>2, <1>1 DEF ProcInv, KeyVouched, OwnGen, CloseShape, Dialling, Closers
  <2>3. CASE /\ proc'[p].pc \in {"pins", "dialing"} /\ proc'[p].gen \in Gens /\ Unused(proc'[p].gen)
             /\ proc[p].pc \in DialPcs /\ Current(p) /\ host' = proc'[p].host
             /\ KeyVouched(proc[p])' /\ proc'[p].op # "close"
             /\ proc'[p].host \in Hosts /\ proc'[p].op = proc[p].op
    <3>1. \A q \in Procs \ {p} : proc'[q].gen # proc'[p].gen
      BY <2>3 DEF Unused
    <3>2. native'[proc'[p].gen].state # "open"
      BY <2>3, <1>3 DEF Unused
    <3>3. OwnGen(p)'
      BY <2>3, <3>1, <3>2, <1>1 DEF OwnGen, Unused, Dialling, Closers
    <3>4. conn = NoGen
      BY <2>3, <1>1 DEF ProcInv, OwnHost
    <3>5. Named(p)'
      BY <2>3, <1>1 DEF ProcInv, Named, DialPcs
    <3> QED BY <2>3, <3>3, <3>4, <3>5, <1>1 DEF ProcInv, OwnHost, CloseShape
  <2> QED BY <2>1, <2>2, <2>3 DEF Redials
<1>7. TrustedConnection'
  <2> SUFFICES ASSUME conn' # NoGen PROVE TrustedConnection'
    BY DEF TrustedConnection
  <2>1. conn \in Gens /\ host' = host /\ native'[conn] = native[conn]
    BY <1>1, <1>2, <1>3
  <2> QED BY <2>1, <1>1 DEF IInv, TrustedConnection
<1>8. NoOrphan'
  BY <1>1, <1>3 DEF NoOrphan
<1> QED BY <1>1, <1>5, <1>6, <1>7, <1>8 DEF IInv

-----------------------------------------------------------------------------
\* The shapes the actions come in.

\* What is vouched for only grows, and pins follow it.
TrustGrows ==
    /\ accepted \subseteq accepted' /\ accepted' \subseteq Hosts \X Keys
    /\ pins' \in [Hosts -> Keys \cup {NoKey}]
    /\ once' \in [host : Hosts \cup {NoHost}, key : Keys \cup {NoKey}]
    /\ \A h \in Hosts : pins'[h] # NoKey => <<h, pins'[h]>> \in accepted'
    /\ once'.key # NoKey => <<once'.host, once'.key>> \in accepted'

\* What a step does beside the calls: no host, no new question, no new link.
Bookkeeping ==
    /\ phase' \in Phases /\ pool' \in {"empty", "open", "live"} /\ grace' \in BOOLEAN
    /\ calls' \in Nat /\ faults' \in Nat
    /\ disposed' \in BOOLEAN /\ (disposed => disposed')
    /\ host' = host /\ decision' \in {decision, NoDecision} /\ TrustGrows
    /\ native' \in [Gens -> Native] /\ NativeKept

LEMMA TrustSame ==
    ASSUME IInv, UNCHANGED trustVars
    PROVE  TrustGrows
BY DEF IInv, TypeOK, TrustShape, TrustGrows, trustVars

LEMMA NativeSame ==
    ASSUME IInv, UNCHANGED native
    PROVE  native' \in [Gens -> Native] /\ NativeKept
BY DEF IInv, TypeOK, NativeKept

LEMMA IdleIsProc == Idle \in Proc
BY ControllerAssumption DEF Idle, Proc

\* Writing one call's record.
LEMMA OneRecord ==
    ASSUME IInv, NEW p \in Procs, NEW r \in Proc, proc' = [proc EXCEPT ![p] = r]
    PROVE  /\ proc' \in [Procs -> Proc] /\ proc'[p] = r
           /\ \A q \in Procs \ {p} : proc'[q] = proc[q]
BY DEF IInv, TypeOK

\* The facts about types and trust that bookkeeping leaves to conn, intent and
\* the calls.
LEMMA BookKeeps ==
    ASSUME IInv, Bookkeeping, proc' \in [Procs -> Proc], intent' \in Procs \cup {NoProc},
           conn' \in Gens \cup {NoGen}
    PROVE  TypeOK' /\ TrustShape' /\ host' = host /\ NativeKept
           /\ accepted \subseteq accepted' /\ (disposed => disposed')
<1>1. NoDecision \in [host : Hosts \cup {NoHost}, key : Keys \cup {NoKey},
                      reason : {"none", "unknown", "mismatch"}]
  BY DEF NoDecision
<1>2. TypeOK'
  BY <1>1 DEF IInv, TypeOK, Bookkeeping, TrustGrows
<1>3. TrustShape'
  BY DEF IInv, TrustShape, Bookkeeping, TrustGrows
<1> QED BY <1>2, <1>3 DEF Bookkeeping, TrustGrows

\* One call moves on.  It may take the current connection to close it.
LEMMA OneMoves ==
    ASSUME IInv, NEW p \in Procs, NEW r \in Proc, proc' = [proc EXCEPT ![p] = r], Bookkeeping,
           proc[p].gen = NoGen \/ proc[p].pc \notin Closers,
           r.pc \notin Dialling,
           r.key = NoKey \/ <<r.host, r.key>> \in accepted',
           r.gen \in {NoGen, conn, proc[p].gen},
           r.op = "close" => disposed',
           r.pc = "wait" => r.gen = NoGen /\ (Current(p)' => conn' = NoGen),
           \/ conn' = conn /\ r.pc \notin Closers
           \/ conn' = NoGen /\ r.pc \in Closers /\ r.gen = conn,
           intent' \in {intent, p, NoProc},
           r.op \in {"connect", "ladder"} \/ r.pc \in {"probe", "record"} => r.host \in Hosts,
           p = Ladder => /\ r.pc # "none" => r.op = "ladder"
                         /\ Current(p)' /\ r.pc # "none" => r.host = host
                         /\ r.pc \in {"closing", "wait"} => r.attempt < Retries
                         /\ r.pc = "listing" => phase' # "reconnecting",
           p # Ladder => (phase' = "reconnecting" => phase = "reconnecting")
    PROVE  IInv'
<1>1. /\ proc' \in [Procs -> Proc] /\ proc'[p] = r
      /\ \A q \in Procs \ {p} : proc'[q] = proc[q]
  BY OneRecord
<1>2. intent' \in Procs \cup {NoProc} /\ conn' \in Gens \cup {NoGen}
  BY DEF IInv, TypeOK
<1>3. /\ TypeOK' /\ TrustShape' /\ host' = host /\ NativeKept
      /\ accepted \subseteq accepted' /\ (disposed => disposed')
  BY <1>1, <1>2, BookKeeps
<1>4. \A q \in Procs \ {p} : Current(q)' => Current(q)
  BY <1>3, ControllerAssumption DEF Current
<1>5. Moved(p)
  <2>1. Named(p)'
    BY <1>1 DEF Named, Dialling
  <2> QED BY <1>1, <2>1 DEF Moved
<1>6. LadderShape'
  BY <1>1, Ladder \in Procs DEF LadderShape, IInv, Procs
<1>7. MoveStep({p})
  BY <1>1, <1>3, <1>4, <1>5, <1>6 DEF MoveStep
<1> QED BY <1>7, MoveKeeps

\* A call that holds no connection ends.
LEMMA OneEnds ==
    ASSUME IInv, NEW p \in Procs, Ends(p), Bookkeeping,
           proc[p].gen = NoGen \/ proc[p].pc \notin Closers,
           conn' = conn, intent' \in {intent, p, NoProc},
           p # Ladder => (phase' = "reconnecting" => phase = "reconnecting")
    PROVE  IInv'
<1>1. /\ proc' = [proc EXCEPT ![p] = Idle] /\ Idle \in Proc
      /\ Idle.pc = "none" /\ Idle.key = NoKey /\ Idle.gen = NoGen /\ Idle.op = "none"
  BY IdleIsProc DEF Ends, Idle
<1>2. "none" \notin Dialling \cup Closers
  BY DEF Dialling, Closers
<1> HIDE DEF Idle
<1> QED BY <1>1, <1>2, OneMoves

\* No call moves; a connection that is gone may be forgotten.
LEMMA NoneMoves ==
    ASSUME IInv, UNCHANGED <<proc, intent>>, Bookkeeping,
           conn' = conn \/ (conn' = NoGen /\ (conn = NoGen \/ native[conn].state # "open")),
           phase' = "reconnecting" => phase = "reconnecting"
    PROVE  IInv'
<1>1. /\ proc' \in [Procs -> Proc]
      /\ intent' \in Procs \cup {NoProc} /\ conn' \in Gens \cup {NoGen}
  BY DEF IInv, TypeOK
<1>2. /\ TypeOK' /\ TrustShape' /\ host' = host /\ NativeKept
      /\ accepted \subseteq accepted' /\ (disposed => disposed')
  BY <1>1, BookKeeps
<1>3. LadderShape'
  BY DEF LadderShape, IInv
<1>4. MoveStep({})
  BY <1>2, <1>3 DEF MoveStep, Current
<1> QED BY <1>4, MoveKeeps

\* The ladder starts, with whatever call started it at an end.
LEMMA LadderStarts ==
    ASSUME IInv, NEW procs, runReconnect(procs), ~LadderRuns, host # NoHost, Bookkeeping,
           \/ procs = proc
           \/ \E c \in Calls : procs = [proc EXCEPT ![c] = Idle] /\ proc[c].pc \notin Closers
    PROVE  IInv'
<1> DEFINE r == [Idle EXCEPT !.pc = "closing", !.op = "ladder", !.host = host, !.gen = conn]
<1>1. /\ r.pc = "closing" /\ r.op = "ladder" /\ r.host = host /\ r.gen = conn /\ r.key = NoKey
      /\ r.attempt = 0 /\ r \in Proc
  <2>1. /\ r.pc = "closing" /\ r.op = "ladder" /\ r.host = host /\ r.gen = conn /\ r.key = NoKey
        /\ r.attempt = 0
    BY DEF Idle
  <2>2. host \in Hosts \cup {NoHost} /\ conn \in Gens \cup {NoGen}
    BY DEF IInv, TypeOK
  <2>3. r \in Proc
    BY <2>2, IdleIsProc DEF Proc
  <2> QED BY <2>1, <2>3
<1>2. proc' = [procs EXCEPT ![Ladder] = r] /\ intent' = Ladder /\ conn' = NoGen
  BY DEF runReconnect
<1> HIDE DEF r
<1>3. PICK P \in SUBSET Procs :
         /\ Ladder \in P /\ procs \in [Procs -> Proc]
         /\ \A q \in Procs \ P : procs[q] = proc[q]
         /\ \A q \in P : q = Ladder \/ (procs[q] = Idle /\ proc[q].pc \notin Closers)
  <2>1. CASE procs = proc
    <3>1. {Ladder} \in SUBSET Procs
      BY DEF Procs
    <3> WITNESS {Ladder} \in SUBSET Procs
    <3> QED BY <2>1 DEF IInv, TypeOK, Procs
  <2>2. CASE procs # proc
    <3>1. PICK c \in Calls : procs = [proc EXCEPT ![c] = Idle] /\ proc[c].pc \notin Closers
      BY <2>2
    <3>2. {c, Ladder} \in SUBSET Procs
      BY DEF Procs
    <3> WITNESS {c, Ladder} \in SUBSET Procs
    <3> QED BY <3>1, IdleIsProc DEF IInv, TypeOK, Procs
  <2> QED BY <2>1, <2>2
<1>4. /\ proc' \in [Procs -> Proc] /\ proc'[Ladder] = r
      /\ \A q \in Procs \ P : proc'[q] = proc[q]
      /\ \A q \in P \ {Ladder} : proc'[q] = Idle /\ proc[q].pc \notin Closers
  BY <1>1, <1>2, <1>3
<1>5. /\ TypeOK' /\ TrustShape' /\ host' = host /\ NativeKept
      /\ accepted \subseteq accepted' /\ (disposed => disposed')
  BY <1>2, <1>4, BookKeeps DEF Procs
<1>6. \A q \in Procs \ P : Current(q)' => Current(q)
  BY <1>2, <1>3 DEF Current
<1>7. \A q \in P : Moved(q)
  <2> TAKE q \in P
  <2>1. CASE q = Ladder
    <3>1. host \in Hosts
      BY DEF IInv, TypeOK
    <3>2. Named(q)'
      BY <2>1, <3>1, <1>1, <1>4 DEF Named
    <3> QED BY <2>1, <3>2, <1>1, <1>2, <1>4 DEF Moved, LadderRuns, Waits, Closers, Dialling
  <2>2. CASE q # Ladder
    BY <2>2, <1>4 DEF Moved, Named, Idle, Closers, Dialling
  <2> QED BY <2>1, <2>2
<1>8. LadderShape'
  BY <1>1, <1>4, ControllerAssumption DEF LadderShape
<1>9. MoveStep(P)
  BY <1>1, <1>2, <1>3, <1>4, <1>5, <1>6, <1>7, <1>8 DEF MoveStep, Closers
<1> QED BY <1>9, MoveKeeps

\* startReconnect and reconnectAndAttach, for a call c that ends with it.
LEMMA Restarts ==
    ASSUME IInv, NEW procs, NEW ph, NEW pl, startReconnect(procs, ph, pl), Bookkeeping,
           ph = "reconnecting" => phase = "reconnecting",
           \/ procs = proc
           \/ \E c \in Calls : procs = [proc EXCEPT ![c] = Idle] /\ proc[c].pc \notin Closers
    PROVE  IInv'
<1>1. CASE runReconnect(procs) /\ ~LadderRuns /\ host # NoHost
  BY <1>1, LadderStarts
<1>2. CASE proc' = procs /\ phase' = ph /\ UNCHANGED <<intent, conn>>
  <2>1. CASE procs = proc
    BY <1>2, <2>1, NoneMoves
  <2>2. CASE procs # proc
    <3>1. PICK c \in Calls : procs = [proc EXCEPT ![c] = Idle] /\ proc[c].pc \notin Closers
      BY <2>2
    <3> QED BY <1>2, <3>1, OneEnds DEF Ends, Procs
  <2> QED BY <2>1, <2>2
<1> QED BY <1>1, <1>2 DEF startReconnect

LEMMA Rejoins ==
    ASSUME IInv, NEW procs, reconnectAndAttach(procs), Bookkeeping,
           \/ procs = proc
           \/ \E c \in Calls : procs = [proc EXCEPT ![c] = Idle] /\ proc[c].pc \notin Closers
    PROVE  IInv'
<1>1. CASE runReconnect(procs) /\ ~LadderRuns /\ host # NoHost
  BY <1>1, LadderStarts
<1>2. CASE proc' = procs /\ UNCHANGED <<intent, conn, phase>>
  <2>1. CASE procs = proc
    BY <1>2, <2>1, NoneMoves
  <2>2. CASE procs # proc
    <3>1. PICK c \in Calls : procs = [proc EXCEPT ![c] = Idle] /\ proc[c].pc \notin Closers
      BY <2>2
    <3> QED BY <1>2, <3>1, OneEnds DEF Ends, Procs
  <2> QED BY <2>1, <2>2
<1> QED BY <1>1, <1>2 DEF reconnectAndAttach

\* closeAllTerminals and closeCurrentTransport.
LEMMA TeardownKeeps ==
    ASSUME IInv, NEW p \in Procs, NEW r \in Proc, Teardown(p, r), Bookkeeping,
           proc[p].pc \notin Closers,
           r.key = NoKey \/ <<r.host, r.key>> \in accepted',
           r.op = "close" => disposed',
           r.op \in {"connect", "ladder"} => r.host \in Hosts,
           intent' \in {intent, p, NoProc},
           p = Ladder => r.op = "ladder" /\ (Current(p)' => r.host = host),
           p # Ladder => (phase' = "reconnecting" => phase = "reconnecting")
    PROVE  IInv'
<1> DEFINE a == [r EXCEPT !.pc = "ptys", !.gen = conn]
           b == [r EXCEPT !.pc = IF p = Ladder THEN "reclosing" ELSE "closing", !.gen = conn]
<1>1. conn \in Gens \cup {NoGen}
  BY DEF IInv, TypeOK
<1>2. /\ a \in Proc /\ a.pc = "ptys" /\ a.gen = conn /\ a.key = r.key /\ a.host = r.host
      /\ a.op = r.op
  BY <1>1 DEF Proc
<1>3. /\ b \in Proc /\ b.pc = (IF p = Ladder THEN "reclosing" ELSE "closing") /\ b.gen = conn
      /\ b.key = r.key /\ b.host = r.host /\ b.op = r.op
  <2>1. ASSUME NEW w \in {"closing", "reclosing"}, NEW x, x = [r EXCEPT !.pc = w, !.gen = conn]
        PROVE  /\ x \in Proc /\ x.pc = w /\ x.gen = conn
               /\ x.key = r.key /\ x.host = r.host /\ x.op = r.op
    BY <1>1, <2>1 DEF Proc
  <2>2. CASE p = Ladder
    <3>1. b = [r EXCEPT !.pc = "reclosing", !.gen = conn]
      BY <2>2
    <3> HIDE DEF b
    <3> QED BY <2>1, <2>2, <3>1
  <2>3. CASE p # Ladder
    <3>1. b = [r EXCEPT !.pc = "closing", !.gen = conn]
      BY <2>3
    <3> HIDE DEF b
    <3> QED BY <2>1, <2>3, <3>1
  <2> QED BY <2>2, <2>3
<1>4. \/ proc' = [proc EXCEPT ![p] = a] /\ conn' = conn
      \/ proc' = [proc EXCEPT ![p] = b] /\ conn' = NoGen
  BY DEF Teardown
<1> HIDE DEF a, b
<1>5. "ptys" \notin Dialling \cup Closers /\ {"closing", "reclosing"} \subseteq Closers \ Dialling
  BY DEF Dialling, Closers
<1>6. CASE proc' = [proc EXCEPT ![p] = a] /\ conn' = conn
  BY <1>6, <1>2, <1>5, OneMoves
<1>7. CASE proc' = [proc EXCEPT ![p] = b] /\ conn' = NoGen
  <2>1. b.pc \in Closers /\ b.pc \notin Dialling /\ b.pc \notin {"wait", "listing", "none"}
        /\ (p = Ladder => b.pc # "closing")
    BY <1>3, <1>5
  <2> QED BY <1>7, <1>3, <2>1, OneMoves
<1> QED BY <1>4, <1>6, <1>7

\* connect() from the call or the trust question that leads to it.
LEMMA ConnectKeeps ==
    ASSUME IInv, NEW c \in Calls, NEW h \in Hosts, ConnectBegins(c, h), Bookkeeping,
           proc[c].pc \notin Closers, phase' = "reconnecting" => phase = "reconnecting"
    PROVE  IInv'
<1> DEFINE a == [Idle EXCEPT !.pc = "probe", !.op = "connect", !.host = h, !.gen = conn]
           b == [Idle EXCEPT !.op = "connect", !.host = h]
<1>1. conn \in Gens \cup {NoGen}
  BY DEF IInv, TypeOK
<1>2. /\ a \in Proc /\ a.pc = "probe" /\ a.gen = conn /\ a.key = NoKey /\ a.op = "connect"
      /\ b \in Proc /\ b.key = NoKey /\ b.op = "connect"
      /\ a.host = h /\ b.host = h
  <2>1. /\ a.pc = "probe" /\ a.gen = conn /\ a.key = NoKey /\ a.op = "connect"
        /\ b.key = NoKey /\ b.op = "connect" /\ a.host = h /\ b.host = h
    BY DEF Idle
  <2> QED BY <1>1, <2>1, IdleIsProc DEF Proc
<1>3. /\ intent' = c
      /\ \/ proc' = [proc EXCEPT ![c] = a] /\ conn' = conn
         \/ Teardown(c, b)
  BY DEF ConnectBegins, ConnectTeardown
<1>4. c \in Procs /\ c # Ladder
  BY ControllerAssumption DEF Procs
<1> HIDE DEF a, b
<1>5. "probe" \notin Dialling \cup Closers
  BY DEF Dialling, Closers
<1>6. CASE proc' = [proc EXCEPT ![c] = a] /\ conn' = conn
  BY <1>2, <1>3, <1>4, <1>5, <1>6, OneMoves
<1>7. CASE Teardown(c, b)
  BY <1>2, <1>3, <1>4, <1>7, TeardownKeeps
<1> QED BY <1>3, <1>6, <1>7

-----------------------------------------------------------------------------
\* The user's calls.

\* A free slot is nobody's, and a call is not the ladder.
LEMMA FreeSlot ==
    ASSUME NEW c \in Calls
    PROVE  /\ c \in Procs /\ c # Ladder
           /\ Free(c) => proc[c].pc = "none" /\ proc[c].gen = NoGen /\ proc[c].pc \notin Closers
BY ControllerAssumption DEF Procs, Free, Idle, Closers

\* The phases and pools the code computes are phases and pools.
LEMMA Computed ==
    ASSUME IInv
    PROVE  /\ phase \in Phases /\ pool \in {"empty", "open", "live"} /\ calls \in Nat /\ faults \in Nat
           /\ disposed \in BOOLEAN /\ grace \in BOOLEAN
           /\ Detached(pool) \in {"empty", "open", "live"}
BY DEF IInv, TypeOK, Detached

\* A call that waits for the host, the platform or a timer on the current
\* connection.
LEMMA CallWaits ==
    ASSUME IInv, NEW c \in Calls, Free(c), Bookkeeping, UNCHANGED <<intent, conn>>,
           phase' = "reconnecting" => phase = "reconnecting",
           NEW pc \in {"schedule", "cancel", "list", "attach", "mutate", "command"},
           NEW again \in BOOLEAN, NEW r, proc' = [proc EXCEPT ![c] = r],
           \/ r = [Idle EXCEPT !.pc = pc, !.op = "call", !.gen = conn]
           \/ r = [Idle EXCEPT !.pc = pc, !.op = "call", !.gen = conn, !.again = again]
    PROVE  IInv'
<1>1. conn \in Gens \cup {NoGen}
  BY DEF IInv, TypeOK
<1>2. r.pc = pc /\ r.gen = conn /\ r.key = NoKey /\ r.op = "call"
  BY DEF Idle
<1>3. r \in Proc
  <2>1. CASE r = [Idle EXCEPT !.pc = pc, !.op = "call", !.gen = conn]
    BY <2>1, <1>1, IdleIsProc DEF Proc
  <2>2. CASE r = [Idle EXCEPT !.pc = pc, !.op = "call", !.gen = conn, !.again = again]
    BY <2>2, <1>1, IdleIsProc DEF Proc
  <2> QED BY <2>1, <2>2
<1>4. pc \notin Dialling \cup Closers /\ pc # "wait"
  BY DEF Dialling, Closers
<1> QED BY <1>2, <1>3, <1>4, FreeSlot, OneMoves

\* The ways out of a spent connection.
LEMMA SpentKeeps ==
    ASSUME IInv, NEW c \in Calls, NEW again, Spent(c, again), Bookkeeping,
           proc[c].pc \notin Closers
    PROVE  IInv'
<1>1. CASE reconnectAndAttach([proc EXCEPT ![c] = Idle])
  BY <1>1, Rejoins
<1>2. CASE releaseSpentConnection(c)
  <2> DEFINE r == [Idle EXCEPT !.pc = "release", !.op = "call", !.gen = conn]
  <2>1. conn \in Gens \cup {NoGen}
    BY DEF IInv, TypeOK
  <2>2. r.pc = "release" /\ r.gen = conn /\ r.key = NoKey /\ r.op = "call"
    BY DEF Idle
  <2>3. r \in Proc
    BY <2>1, IdleIsProc DEF Proc
  <2>4. proc' = [proc EXCEPT ![c] = r] /\ intent' = NoProc /\ conn' = NoGen /\ phase' = phase
    BY <1>2 DEF releaseSpentConnection
  <2>5. "release" \in Closers \ Dialling
    BY DEF Dialling, Closers
  <2> HIDE DEF r
  <2> QED BY <2>2, <2>3, <2>4, <2>5, FreeSlot, OneMoves
<1> QED BY <1>1, <1>2 DEF Spent

\* What a user's call does beside the calls, when it leaves trust and the
\* platform alone.
LEMMA UserBook ==
    ASSUME IInv, UserCall, UNCHANGED <<host, trustVars, native, faults>>,
           decision' \in {decision, NoDecision},
           phase' \in Phases, pool' \in {"empty", "open", "live"}, grace' \in BOOLEAN,
           disposed' = disposed \/ disposed' = TRUE
    PROVE  Bookkeeping
<1>1. TrustGrows /\ native' \in [Gens -> Native] /\ NativeKept
  BY TrustSame, NativeSame
<1>2. calls' \in Nat /\ faults' \in Nat
  BY Computed DEF UserCall
<1>3. disposed' \in BOOLEAN /\ (disposed => disposed')
  <2>1. disposed \in BOOLEAN
    BY Computed
  <2>2. CASE disposed' = disposed
    BY <2>1, <2>2
  <2>3. CASE disposed' = TRUE
    BY <2>3, Zenon
  <2> QED BY <2>2, <2>3
<1> QED BY <1>1, <1>2, <1>3 DEF Bookkeeping

LEMMA UserKeeps ==
    ASSUME IInv, NEW c \in Calls, UserStep(c)
    PROVE  IInv'
<1>1. ASSUME NEW h \in Hosts, connect(c, h) PROVE IInv'
  <2>1. pool' \in {"empty", "open", "live"}
    BY <1>1, Computed DEF connect, ConnectBegins, ConnectTeardown
  <2>2. Bookkeeping
    BY <1>1, <2>1, UserBook, Computed DEF connect
  <2> QED BY <1>1, <2>2, FreeSlot, ConnectKeeps DEF connect
<1>2. ASSUME NEW b \in BOOLEAN, acceptPresentedHostKey(c, b) PROVE IInv'
  <2> USE <1>2 DEF acceptPresentedHostKey
  <2>1. /\ decision.key \in Keys /\ host \in Hosts /\ decision.host = host
    BY DEF IInv, TypeOK, TrustShape
  <2>2. /\ accepted \subseteq accepted' /\ <<host, decision.key>> \in accepted'
        /\ accepted' \subseteq Hosts \X Keys
    BY <2>1 DEF IInv, TypeOK
  <2>3. CASE b
    <3> DEFINE r == [Idle EXCEPT !.pc = "record", !.op = "call", !.host = host, !.key = decision.key]
    <3>1. /\ r.pc = "record" /\ r.op = "call" /\ r.host = host /\ r.key = decision.key
          /\ r.gen = NoGen
      BY DEF Idle
    <3>2. r \in Proc
      BY <2>1, IdleIsProc DEF Proc
    <3>3. /\ proc' = [proc EXCEPT ![c] = r]
          /\ UNCHANGED <<intent, conn, phase, decision, once, pool, pins>>
      BY <2>3
    <3>4. TrustGrows
      BY <2>2, <3>3 DEF TrustGrows, IInv, TypeOK, TrustShape
    <3>5. Bookkeeping
      BY <3>3, <3>4, Computed, NativeSame DEF Bookkeeping, UserCall
    <3>6. "record" \notin Dialling \cup Closers
      BY DEF Dialling, Closers
    <3>7. /\ c \in Procs /\ c # Ladder /\ proc[c].gen = NoGen
          /\ r.key = NoKey \/ <<r.host, r.key>> \in accepted'
          /\ r.pc \notin Dialling /\ r.pc \notin Closers /\ r.host \in Hosts
      BY <2>1, <2>2, <3>1, <3>6, FreeSlot
    <3> HIDE DEF r, acceptPresentedHostKey
    <3> QED BY <3>1, <3>2, <3>3, <3>5, <3>7, OneMoves
  <2>4. CASE ~b
    <3>1. /\ once' = [host |-> host, key |-> decision.key] /\ pins' = pins
          /\ phase' = "connecting" /\ decision' = NoDecision /\ ConnectBegins(c, host)
      BY <2>4
    <3>2. once'.host = host /\ once'.key = decision.key
          /\ once' \in [host : Hosts \cup {NoHost}, key : Keys \cup {NoKey}]
      BY <3>1, <2>1
    <3>3. TrustGrows
      BY <2>2, <3>1, <3>2 DEF TrustGrows, IInv, TypeOK, TrustShape
    <3>4. pool' \in {"empty", "open", "live"}
      BY <3>1, Computed DEF ConnectBegins, ConnectTeardown
    <3>5. Bookkeeping
      BY <3>1, <3>3, <3>4, Computed, NativeSame DEF Bookkeeping, UserCall, Phases
    <3> QED BY <2>1, <3>1, <3>5, FreeSlot, ConnectKeeps
  <2> QED BY <2>3, <2>4
<1>3. ASSUME NEW b \in BOOLEAN, returnToForeground(c, b) PROVE IInv'
  <2> USE <1>3 DEF returnToForeground
  <2>1. CASE Spent(c, b)
    <3>1. phase' \in Phases /\ pool' \in {"empty", "open", "live"}
      BY <2>1, Computed DEF Spent, reconnectAndAttach, runReconnect, releaseSpentConnection, Phases
    <3>2. Bookkeeping
      BY <3>1, UserBook
    <3> QED BY <2>1, <3>2, FreeSlot, SpentKeeps
  <2>2. CASE /\ proc' = [proc EXCEPT ![c] = [Idle EXCEPT !.pc = "cancel", !.op = "call",
                                                 !.gen = conn, !.again = b]]
             /\ UNCHANGED <<intent, conn, phase, pool>>
    <3>1. Bookkeeping
      BY <2>2, UserBook, Computed
    <3> QED BY <2>2, <3>1, CallWaits
  <2> QED BY <2>1, <2>2
<1>4. CASE enterBackground(c)
  <2>1. Bookkeeping
    BY <1>4, UserBook, Computed DEF enterBackground
  <2>2. /\ proc' = [proc EXCEPT ![c] = [Idle EXCEPT !.pc = "schedule", !.op = "call", !.gen = conn]]
        /\ UNCHANGED <<intent, conn, phase>> /\ Free(c)
    BY <1>4 DEF enterBackground
  <2> QED BY <2>1, <2>2, CallWaits
<1>5. CASE close(c)
  <2> USE <1>5 DEF close
  <2>1. pool' \in {"empty", "open", "live"}
    BY Computed
  <2>2. Bookkeeping
    BY <2>1, UserBook, Computed
  <2>3. CASE /\ proc' = [proc EXCEPT ![c] = [Idle EXCEPT !.pc = "aborting", !.op = "close"]]
             /\ conn' = conn
    <3> DEFINE r == [Idle EXCEPT !.pc = "aborting", !.op = "close"]
    <3>1. r.pc = "aborting" /\ r.op = "close" /\ r.key = NoKey /\ r.gen = NoGen
      BY DEF Idle
    <3>2. r \in Proc /\ proc' = [proc EXCEPT ![c] = r]
      BY <2>3, IdleIsProc DEF Proc
    <3>3. "aborting" \notin Dialling \cup Closers
      BY DEF Dialling, Closers
    <3>4. /\ c \in Procs /\ c # Ladder /\ proc[c].gen = NoGen
          /\ r.pc \notin Dialling /\ r.pc \notin Closers
          /\ intent' = NoProc /\ disposed' /\ phase' = phase
      BY <3>1, <3>3, FreeSlot
    <3> HIDE DEF r, close
    <3> QED BY <2>2, <2>3, <3>1, <3>2, <3>4, OneMoves
  <2>4. CASE Teardown(c, [Idle EXCEPT !.op = "close"])
    <3> DEFINE r == [Idle EXCEPT !.op = "close"]
    <3>1. r.op = "close" /\ r.key = NoKey
      BY DEF Idle
    <3>2. r \in Proc /\ Teardown(c, r)
      BY <2>4, IdleIsProc DEF Proc
    <3> HIDE DEF r
    <3> QED BY <2>2, <3>1, <3>2, FreeSlot, TeardownKeeps
  <2> QED BY <2>3, <2>4
<1>6. ASSUME NEW pc \in {"list", "attach", "mutate", "command"}, Operates(c, pc),
             phase' \in Phases, pool' \in {"empty", "open", "live"},
             phase' = "reconnecting" => phase = "reconnecting"
      PROVE  IInv'
  <2>1. Bookkeeping
    BY <1>6, UserBook, Computed DEF Operates
  <2>2. /\ proc' = [proc EXCEPT ![c] = [Idle EXCEPT !.pc = pc, !.op = "call", !.gen = conn]]
        /\ UNCHANGED <<intent, conn>> /\ Free(c)
    BY <1>6 DEF Operates
  <2> QED BY <1>6, <2>1, <2>2, CallWaits
<1>7. CASE refreshSessions(c)
  BY <1>6, <1>7, Computed DEF refreshSessions, Phases
<1>8. CASE attachSession(c)
  BY <1>6, <1>8, Computed DEF attachSession, LivePhase, Phases
<1>9. CASE createSession(c) \/ runHostCommand(c)
  BY <1>6, <1>9, Computed DEF createSession, runHostCommand
<1> QED BY <1>1, <1>2, <1>3, <1>4, <1>5, <1>7, <1>8, <1>9 DEF UserStep

-----------------------------------------------------------------------------
\* Answers to a call's waits.

LEMMA AnswerBook ==
    ASSUME IInv, UNCHANGED <<disposed, host, trustVars, native, calls, faults>>,
           grace' = grace, decision' \in {decision, NoDecision},
           phase' \in Phases, pool' \in {"empty", "open", "live"}
    PROVE  Bookkeeping
<1>1. TrustGrows /\ native' \in [Gens -> Native] /\ NativeKept
  BY TrustSame, NativeSame
<1>2. /\ calls' \in Nat /\ faults' \in Nat /\ disposed' \in BOOLEAN /\ grace' \in BOOLEAN
      /\ disposed' = disposed
  BY Computed
<1> QED BY <1>1, <1>2 DEF Bookkeeping

\* What the invariant says of one call.
LEMMA OfCall ==
    ASSUME IInv, NEW p \in Procs
    PROVE  /\ proc[p] \in Proc /\ KeyVouched(proc[p]) /\ OwnGen(p) /\ OwnHost(p) /\ CloseShape(p)
           /\ Named(p) /\ conn \in Gens \cup {NoGen} /\ native \in [Gens -> Native]
BY DEF IInv, TypeOK, ProcInv

LEMMA ProbeKeeps ==
    ASSUME IInv, NEW c \in Calls, connectProbed(c)
    PROVE  IInv'
<1> USE DEF connectProbed
<1>1. c \in Procs /\ c # Ladder /\ proc[c].pc \notin Closers
  BY FreeSlot DEF Waits, Closers
<1>2. pool' \in {"empty", "open", "live"}
  BY Computed DEF ConnectTeardown
<1>3. Bookkeeping
  BY <1>2, Computed, AnswerBook
<1>4. CASE Ends(c) /\ conn' = conn
  BY <1>1, <1>3, <1>4, OneEnds
<1>5. CASE ConnectTeardown(c, proc[c].host)
  <2> DEFINE r == [Idle EXCEPT !.op = "connect", !.host = proc[c].host]
  <2>1. r.op = "connect" /\ r.key = NoKey /\ r.host = proc[c].host
    BY DEF Idle
  <2>2. proc[c].host \in Hosts
    BY <1>1, OfCall DEF Named, Waits
  <2>3. r \in Proc
    BY <2>2, IdleIsProc DEF Proc
  <2>4. Teardown(c, r)
    BY <1>5 DEF ConnectTeardown
  <2> HIDE DEF r
  <2> QED BY <1>1, <1>3, <2>1, <2>2, <2>3, <2>4, TeardownKeeps
<1> QED BY <1>4, <1>5

LEMMA PtysKeep ==
    ASSUME IInv, NEW p \in Procs, PtysClosed(p)
    PROVE  IInv'
<1> USE DEF PtysClosed
<1> DEFINE r == [proc[p] EXCEPT !.pc = IF p = Ladder THEN "reclosing" ELSE "closing", !.gen = conn]
<1>1. proc[p].pc = "ptys" /\ proc[p].pc \notin Closers
  BY DEF Waits, Closers
<1>2. Bookkeeping
  BY Computed, AnswerBook
<1>3. /\ r.pc = (IF p = Ladder THEN "reclosing" ELSE "closing") /\ r.gen = conn
      /\ r.key = proc[p].key /\ r.host = proc[p].host /\ r.op = proc[p].op /\ r \in Proc
  <2> HIDE DEF PtysClosed
  <2>1. PICK s \in Proc : s = proc[p]
    BY OfCall
  <2>2. conn \in Gens \cup {NoGen}
    BY OfCall
  <2> DEFINE u == [s EXCEPT !.pc = IF p = Ladder THEN "reclosing" ELSE "closing", !.gen = conn]
  <2>3. /\ u \in Proc /\ u.pc = (IF p = Ladder THEN "reclosing" ELSE "closing")
        /\ u.gen = conn /\ u.key = s.key /\ u.host = s.host /\ u.op = s.op
    BY <2>2 DEF Proc
  <2>4. r = u
    BY <2>1
  <2> HIDE DEF r, u
  <2> QED BY <2>1, <2>3, <2>4
<1>4. proc' = [proc EXCEPT ![p] = r]
  BY DEF IInv, TypeOK
<1>5. r.key = NoKey \/ <<r.host, r.key>> \in accepted'
  BY <1>3, OfCall DEF KeyVouched, trustVars
<1>6. r.op = "close" => disposed'
  BY <1>3, OfCall DEF CloseShape
<1>7. p = Ladder /\ Current(p)' => r.host = host
  BY <1>1, <1>3, OfCall DEF OwnHost, Current
<1>8. r.pc \in Closers /\ r.pc \notin Dialling /\ r.pc \notin {"wait", "listing", "none"}
      /\ (p = Ladder => r.pc # "closing")
  BY <1>3 DEF Closers, Dialling
<1>9. conn' = NoGen /\ intent' = intent /\ phase' = phase
  OBVIOUS
<1>10. /\ r.op \in {"connect", "ladder"} => r.host \in Hosts
       /\ p = Ladder => r.op = "ladder"
  BY <1>1, <1>3, OfCall DEF Named
<1> HIDE DEF r, PtysClosed
<1> QED BY <1>1, <1>2, <1>3, <1>4, <1>5, <1>6, <1>7, <1>8, <1>9, <1>10, OneMoves

LEMMA RecordKeeps ==
    ASSUME IInv, NEW c \in Calls, keyRecorded(c)
    PROVE  IInv'
<1> USE DEF keyRecorded
<1>1. c \in Procs /\ c # Ladder /\ proc[c].pc = "record" /\ proc[c].pc \notin Closers
  BY FreeSlot DEF Waits, Closers
<1>2. proc[c].host \in Hosts /\ proc[c].key \in Keys \cup {NoKey}
  BY <1>1, OfCall DEF Proc, Named
<1>3. TrustGrows
  <2>1. proc[c].key # NoKey => <<proc[c].host, proc[c].key>> \in accepted
    BY <1>1, OfCall DEF KeyVouched
  <2> QED BY <1>2, <2>1 DEF TrustGrows, IInv, TypeOK, TrustShape
<1>4. pool' \in {"empty", "open", "live"}
  BY Computed DEF ConnectBegins, ConnectTeardown
<1>5. phase' = "connecting" /\ "connecting" \in Phases /\ decision' \in {decision, NoDecision}
  BY DEF Phases
<1>6. Bookkeeping
  BY <1>3, <1>4, <1>5, Computed, NativeSame DEF Bookkeeping
<1>7. CASE Ends(c) /\ UNCHANGED <<intent, conn>>
  BY <1>1, <1>5, <1>6, <1>7, OneEnds
<1>8. CASE ConnectBegins(c, proc[c].host)
  BY <1>1, <1>2, <1>5, <1>6, <1>8, ConnectKeeps
<1> QED BY <1>7, <1>8

\* scheduleClose and cancelScheduledClose set and clear a native timer.
LEMMA TimerKeeps ==
    ASSUME IInv, NEW g \in Gens, NEW b \in BOOLEAN,
           native' = [native EXCEPT ![g].timer = b]
    PROVE  native' \in [Gens -> Native] /\ NativeKept
<1>1. native \in [Gens -> Native]
  BY DEF IInv, TypeOK
<1>2. /\ [native[g] EXCEPT !.timer = b] \in Native
      /\ [native[g] EXCEPT !.timer = b].state = native[g].state
      /\ [native[g] EXCEPT !.timer = b].host = native[g].host
      /\ [native[g] EXCEPT !.timer = b].key = native[g].key
      /\ [native[g] EXCEPT !.timer = b].receipt = native[g].receipt
  BY <1>1 DEF Native
<1>3. native' = [native EXCEPT ![g] = [native[g] EXCEPT !.timer = b]]
  BY <1>1
<1> QED BY <1>1, <1>2, <1>3 DEF NativeKept

LEMMA ScheduleKeeps ==
    ASSUME IInv, NEW c \in Calls, closeScheduled(c)
    PROVE  IInv'
<1> USE DEF closeScheduled
<1>1. c \in Procs /\ c # Ladder /\ proc[c].pc \notin Closers /\ Ends(c)
  BY FreeSlot DEF Waits, Closers
<1>2. proc[c].gen \in Gens \cup {NoGen}
  BY <1>1, OfCall DEF Proc
<1>3. native' \in [Gens -> Native] /\ NativeKept
  <2>1. CASE UNCHANGED native
    BY <2>1, NativeSame
  <2>2. CASE native' = [native EXCEPT ![proc[c].gen].timer = TRUE] /\ proc[c].gen \in Gens
    BY <2>2, TimerKeeps
  <2>3. CASE native' = [native EXCEPT ![proc[c].gen].timer = TRUE] /\ proc[c].gen = NoGen
    <3>1. native' = native
      BY <2>3, ControllerAssumption DEF IInv, TypeOK
    <3> QED BY <3>1, NativeSame
  <2> QED BY <1>2, <2>1, <2>2, <2>3
<1>4. phase' \in Phases /\ (phase' = "reconnecting" => phase = "reconnecting")
  BY Computed DEF Phases
<1>5. Bookkeeping
  BY <1>3, <1>4, Computed, TrustSame DEF Bookkeeping
<1> QED BY <1>1, <1>4, <1>5, OneEnds

LEMMA CancelKeeps ==
    ASSUME IInv, NEW c \in Calls, closeCancelled(c)
    PROVE  IInv'
<1> USE DEF closeCancelled
<1>1. c \in Procs /\ c # Ladder /\ proc[c].pc \notin Closers
  BY FreeSlot DEF Waits, Closers
<1>2. proc[c].gen \in Gens \cup {NoGen}
  BY <1>1, OfCall DEF Proc
<1>3. native' \in [Gens -> Native] /\ NativeKept
  <2>1. CASE UNCHANGED native
    BY <2>1, NativeSame
  <2>2. CASE native' = [native EXCEPT ![proc[c].gen].timer = FALSE] /\ proc[c].gen \in Gens
    BY <2>2, TimerKeeps
  <2>3. CASE native' = [native EXCEPT ![proc[c].gen].timer = FALSE] /\ proc[c].gen = NoGen
    <3>1. native' = native
      BY <2>3, ControllerAssumption DEF IInv, TypeOK
    <3> QED BY <3>1, NativeSame
  <2> QED BY <1>2, <2>1, <2>2, <2>3
<1>4. ASSUME phase' \in Phases, pool' \in {"empty", "open", "live"} PROVE Bookkeeping
  BY <1>3, <1>4, Computed, TrustSame DEF Bookkeeping
<1>5. CASE /\ Ends(c) /\ phase' = idlePhase(pool', proc) /\ pool' \in {"empty", pool}
           /\ UNCHANGED <<intent, conn>>
  <2>1. phase' \in {"live", "attaching", "connected"} /\ pool' \in {"empty", "open", "live"}
    BY <1>5, Computed DEF idlePhase, LivePhase
  <2>2. phase' \in Phases /\ phase' # "reconnecting"
    BY <2>1 DEF Phases
  <2> QED BY <1>1, <1>4, <1>5, <2>1, <2>2, OneEnds
<1>6. CASE Spent(c, proc[c].again)
  <2>1. phase' \in Phases /\ pool' \in {"empty", "open", "live"}
    BY <1>6, Computed DEF Spent, reconnectAndAttach, runReconnect, releaseSpentConnection, Phases
  <2> QED BY <1>1, <1>4, <1>6, <2>1, SpentKeeps
<1> QED BY <1>5, <1>6

LEMMA AbortKeeps ==
    ASSUME IInv, NEW c \in Calls, dialAborted(c)
    PROVE  IInv'
<1> USE DEF dialAborted
<1>1. c \in Procs /\ c # Ladder /\ proc[c].pc \notin Closers
  BY FreeSlot DEF Waits, Closers
<1>2. Bookkeeping
  BY Computed, AnswerBook
<1>3. /\ proc[c] \in Proc /\ (proc[c].op = "close" => disposed')
      /\ proc[c].key = NoKey \/ <<proc[c].host, proc[c].key>> \in accepted'
  BY <1>1, OfCall DEF CloseShape, KeyVouched, trustVars
<1>4. proc[c].op \in {"connect", "ladder"} => proc[c].host \in Hosts
  BY <1>1, OfCall DEF Named
<1> QED BY <1>1, <1>2, <1>3, <1>4, TeardownKeeps

\* refreshSessions, attachSession and their like: the host answers or the
\* operation fails.
LEMMA OperationsKeep ==
    ASSUME IInv, NEW c \in Calls,
           \/ operationDone(c) \/ mutationUncertain(c) \/ keyNotRecorded(c)
           \/ \E transport \in BOOLEAN :
                 \/ listFails(c, transport) \/ attachFails(c, transport)
                 \/ commandFails(c, transport) \/ mutationFails(c, transport)
    PROVE  IInv'
<1>1. c \in Procs /\ c # Ladder
  BY FreeSlot
<1>2. CASE operationDone(c)
  <2>1. Ends(c) /\ proc[c].pc \notin Closers /\ UNCHANGED <<intent, conn>>
    BY <1>2 DEF operationDone, Closers
  <2>2. phase' \in {phase, "live"} /\ pool' \in {pool, "live"}
    BY <1>2 DEF operationDone
  <2>3. phase' \in Phases /\ pool' \in {"empty", "open", "live"}
        /\ (phase' = "reconnecting" => phase = "reconnecting")
    BY <2>2, Computed DEF Phases
  <2>4. Bookkeeping
    BY <1>2, <2>3, AnswerBook DEF operationDone
  <2> QED BY <1>1, <2>1, <2>3, <2>4, OneEnds
<1>3. CASE mutationUncertain(c)
  <2> USE <1>3 DEF mutationUncertain
  <2> DEFINE r == [proc[c] EXCEPT !.pc = "list", !.gen = conn]
  <2>1. phase' \in {"live", "listing"} /\ pool' = pool
    OBVIOUS
  <2>2. phase' \in Phases /\ phase' # "reconnecting"
    BY <2>1 DEF Phases
  <2>3. Bookkeeping
    BY <2>1, <2>2, Computed, AnswerBook
  <2>4. /\ r.pc = "list" /\ r.gen = conn /\ r.key = proc[c].key /\ r.host = proc[c].host
        /\ r.op = proc[c].op /\ r \in Proc
    BY <1>1, OfCall DEF Proc
  <2>5. proc' = [proc EXCEPT ![c] = r]
    BY <1>1 DEF IInv, TypeOK
  <2>6. /\ r.key = NoKey \/ <<r.host, r.key>> \in accepted'
        /\ r.op = "close" => disposed'
        /\ r.op \in {"connect", "ladder"} => r.host \in Hosts
    BY <1>1, <2>4, OfCall DEF KeyVouched, CloseShape, Named, trustVars
  <2>7. r.pc \notin Dialling /\ r.pc \notin Closers /\ proc[c].pc \notin Closers
    BY <2>4 DEF Dialling, Closers, Waits
  <2>8. UNCHANGED <<intent, conn>>
    OBVIOUS
  <2> HIDE DEF r, mutationUncertain
  <2> QED BY <1>1, <2>2, <2>3, <2>4, <2>5, <2>6, <2>7, <2>8, OneMoves
<1>4. CASE keyNotRecorded(c)
  <2>1. Ends(c) /\ proc[c].pc \notin Closers /\ UNCHANGED <<intent, conn, phase>>
    BY <1>4 DEF keyNotRecorded, Closers, Waits
  <2>2. Bookkeeping
    BY <1>4, Computed, AnswerBook DEF keyNotRecorded
  <2> QED BY <1>1, <2>1, <2>2, OneEnds
<1>5. ASSUME NEW pc \in {"list", "attach", "command", "mutate"}, NEW transport,
             OperationFails(c, pc, transport), NEW ph \in Phases,
             ph = "reconnecting" => phase = "reconnecting",
             \/ NoRecovery(c, ph)
             \/ startReconnect([proc EXCEPT ![c] = Idle], ph, pool)
      PROVE  IInv'
  <2>1. proc[c].pc \notin Closers
    BY <1>5 DEF OperationFails, Waits, Closers
  <2>2. phase' \in {ph, "reconnecting"} /\ pool' \in {pool, Detached(pool)}
    BY <1>5 DEF NoRecovery, startReconnect, runReconnect
  <2>3. phase' \in Phases /\ pool' \in {"empty", "open", "live"}
    BY <1>5, <2>2, Computed DEF Phases
  <2>4. Bookkeeping
    BY <1>5, <2>3, AnswerBook DEF OperationFails
  <2>5. CASE NoRecovery(c, ph)
    BY <1>1, <1>5, <2>1, <2>4, <2>5, OneEnds DEF NoRecovery, Ends
  <2>6. CASE startReconnect([proc EXCEPT ![c] = Idle], ph, pool)
    BY <1>5, <2>1, <2>4, <2>6, Restarts
  <2> QED BY <1>5, <2>5, <2>6
<1>6. /\ phase \in Phases /\ LivePhase(pool, "error") \in Phases
      /\ LivePhase(pool, "error") # "reconnecting"
  BY Computed DEF Phases, LivePhase
<1>7. ASSUME NEW transport, listFails(c, transport) PROVE IInv'
  <2> DEFINE ph == IF phase = "reconnecting" THEN phase ELSE LivePhase(pool, "error")
  <2>1. OperationFails(c, "list", transport)
        /\ \/ NoRecovery(c, phase) \/ NoRecovery(c, ph)
           \/ startReconnect([proc EXCEPT ![c] = Idle], ph, pool)
    BY <1>7 DEF listFails
  <2>2. ph \in Phases /\ (ph = "reconnecting" => phase = "reconnecting")
    BY <1>6
  <2> HIDE DEF ph
  <2> QED BY <1>5, <1>6, <2>1, <2>2
<1>8. ASSUME NEW transport, attachFails(c, transport) PROVE IInv'
  <2>1. OperationFails(c, "attach", transport)
        /\ \/ NoRecovery(c, phase) \/ NoRecovery(c, LivePhase(pool, "error"))
           \/ startReconnect([proc EXCEPT ![c] = Idle], LivePhase(pool, "error"), pool)
    BY <1>8 DEF attachFails
  <2> QED BY <1>5, <1>6, <2>1
<1>9. ASSUME NEW transport, commandFails(c, transport) \/ mutationFails(c, transport) PROVE IInv'
  <2>1. PICK pc \in {"command", "mutate"} :
           /\ OperationFails(c, pc, transport)
           /\ \/ NoRecovery(c, phase)
              \/ startReconnect([proc EXCEPT ![c] = Idle], phase, pool)
    BY <1>9 DEF commandFails, mutationFails
  <2> QED BY <1>5, <1>6, <2>1
<1> QED BY <1>2, <1>3, <1>4, <1>7, <1>8, <1>9

-----------------------------------------------------------------------------
\* The ladder's answers that open and close nothing.

\* Another attempt, or the end.
LEMMA LadderWaiting ==
    ASSUME IInv, Again(Ladder, TRUE)
    PROVE  /\ LadderWaits \in Proc /\ LadderWaits.pc = "wait" /\ LadderWaits.gen = NoGen
           /\ LadderWaits.key = NoKey /\ LadderWaits.host = proc[Ladder].host
           /\ LadderWaits.op = proc[Ladder].op /\ LadderWaits.attempt = proc[Ladder].attempt
           /\ LadderWaits.attempt < Retries
BY OfCall, Ladder \in Procs DEF LadderWaits, Again, Proc, Procs

LEMMA RetriesKeep ==
    ASSUME IInv, LadderRetries, Bookkeeping, UNCHANGED <<intent, conn>>,
           proc[Ladder].pc \notin Closers, proc[Ladder].pc # "none",
           Current(Ladder) => conn = NoGen
    PROVE  IInv'
<1>1. Ladder \in Procs
  BY DEF Procs
<1>2. CASE Again(Ladder, TRUE)
  <2>1. proc' = [proc EXCEPT ![Ladder] = LadderWaits]
    BY <1>2 DEF LadderRetries
  <2>2. Current(Ladder)' => Current(Ladder)
    BY DEF Current, Bookkeeping
  <2>3. /\ LadderWaits.op = "ladder" /\ LadderWaits.host \in Hosts
        /\ Current(Ladder)' => LadderWaits.host = host
    BY <1>1, <1>2, <2>2, LadderWaiting, OfCall DEF Named, OwnHost, Bookkeeping
  <2>4. "wait" \notin Dialling /\ "wait" \notin Closers
    BY DEF Dialling, Closers
  <2> QED BY <1>1, <1>2, <2>1, <2>2, <2>3, <2>4, LadderWaiting, OneMoves
<1>3. CASE ~Again(Ladder, TRUE)
  <2>1. Ends(Ladder)
    BY <1>3 DEF LadderRetries, Ends
  <2> QED BY <1>1, <2>1, OneEnds
<1> QED BY <1>2, <1>3

LEMMA LadderKeeps ==
    ASSUME IInv, ladderListed \/ ladderListFails \/ ladderReattached \/ ladderReattachFails
    PROVE  IInv'
<1>1. Ladder \in Procs
  BY DEF Procs
<1>2. CASE ladderListed
  <2> USE <1>2 DEF ladderListed
  <2>1. proc[Ladder].pc = "listing" /\ proc[Ladder].pc \notin Closers
    BY DEF Waits, Closers
  <2>2. phase' \in Phases /\ pool' \in {"empty", "open", "live"}
    BY Computed DEF LadderRetries, Phases
  <2>3. Bookkeeping
    BY <2>2, AnswerBook
  <2>4. CASE Ends(Ladder)
    BY <1>1, <2>1, <2>3, <2>4, OneEnds
  <2>5. CASE conn = NoGen /\ LadderRetries
    BY <2>1, <2>3, <2>5, RetriesKeep
  <2>6. CASE proc' = [proc EXCEPT ![Ladder].pc = "reattach"]
    <3> PICK s \in Proc : s = proc[Ladder]
      BY <1>1, OfCall
    <3> DEFINE r == [s EXCEPT !.pc = "reattach"]
    <3>1. /\ r \in Proc /\ r.pc = "reattach" /\ r.gen = s.gen /\ r.key = s.key /\ r.host = s.host
          /\ r.op = s.op
      BY DEF Proc
    <3>2. proc' = [proc EXCEPT ![Ladder] = r]
      BY <1>1, <2>6 DEF IInv, TypeOK
    <3>3. /\ r.key = NoKey \/ <<r.host, r.key>> \in accepted'
          /\ r.op = "ladder" /\ r.host \in Hosts
      BY <1>1, <2>1, <3>1, OfCall DEF KeyVouched, Named, trustVars
    <3>4. Current(Ladder)' => r.host = host
      BY <1>1, <2>1, <3>1, OfCall DEF OwnHost, Current
    <3>5. r.pc \notin Dialling /\ r.pc \notin Closers
      BY <3>1 DEF Dialling, Closers
    <3>6. UNCHANGED <<intent, conn>>
      OBVIOUS
    <3> HIDE DEF r, ladderListed
    <3> QED BY <1>1, <2>1, <2>3, <3>1, <3>2, <3>3, <3>4, <3>5, <3>6, OneMoves
  <2> QED BY <2>4, <2>5, <2>6
<1>3. CASE ladderListFails
  <2> USE <1>3 DEF ladderListFails
  <2>1. proc[Ladder].pc = "listing" /\ proc[Ladder].pc \notin Closers
    BY DEF Waits, Closers
  <2>2. phase # "reconnecting"
    BY <2>1 DEF IInv, LadderShape
  <2>3. phase' \in {phase, "live", "error"}
    BY DEF LivePhase
  <2>4. phase' \in Phases
    BY <2>3, Computed DEF Phases
  <2>5. Bookkeeping
    BY <2>4, Computed, AnswerBook
  <2>6. Ends(Ladder)
    BY <2>2, <2>3
  <2> QED BY <1>1, <2>1, <2>5, <2>6, OneEnds
<1>4. CASE ladderReattached
  <2> USE <1>4 DEF ladderReattached
  <2>1. proc[Ladder].pc \notin Closers
    BY DEF Waits, Closers
  <2>2. pool' \in {"empty", "open", "live"}
    BY Computed
  <2>3. phase' \in {phase, "live", "error", "connected"}
    BY <2>2
  <2>4. phase' \in Phases
    BY <2>3, Computed DEF Phases
  <2>5. Bookkeeping
    BY <2>2, <2>4, AnswerBook
  <2> QED BY <1>1, <2>1, <2>5, OneEnds
<1>5. CASE ladderReattachFails
  <2> USE <1>5 DEF ladderReattachFails
  <2>1. proc[Ladder].pc = "reattach" /\ proc[Ladder].pc \notin Closers
    BY DEF Waits, Closers
  <2>2. Bookkeeping
    BY Computed, AnswerBook
  <2>3. /\ proc[Ladder] \in Proc /\ proc[Ladder].op = "ladder" /\ proc[Ladder].host \in Hosts
        /\ proc[Ladder].key = NoKey \/ <<proc[Ladder].host, proc[Ladder].key>> \in accepted'
    BY <1>1, <2>1, OfCall DEF Named, KeyVouched, trustVars
  <2>4. proc[Ladder].host = host
    BY <1>1, <2>1, OfCall DEF OwnHost
  <2> QED BY <1>1, <2>1, <2>2, <2>3, <2>4, TeardownKeeps
<1> QED BY <1>2, <1>3, <1>4, <1>5

-----------------------------------------------------------------------------
\* A dial that fails before a connection is open.

\* What a failed dial leaves: no question, no recovery reported, and the ladder
\* waiting or the call at an end.
LEMMA FailedFacts ==
    ASSUME IInv, NEW p \in Procs, NEW may \in BOOLEAN, FailedDial(p, may)
    PROVE  /\ phase' \in {"lost", "error"} /\ phase' \in Phases /\ decision' = NoDecision
           /\ \/ Ends(p)
              \/ p = Ladder /\ Again(Ladder, TRUE) /\ proc' = [proc EXCEPT ![Ladder] = LadderWaits]
<1>1. phase' \in {"lost", "error"} /\ decision' = NoDecision
  BY DEF FailedDial
<1>2. CASE Again(p, may)
  BY <1>1, <1>2 DEF FailedDial, Again, Phases
<1>3. CASE ~Again(p, may)
  BY <1>1, <1>3 DEF FailedDial, Ends, Phases
<1> QED BY <1>2, <1>3

\* A question for the user is about the host in hand.
LEMMA Presents ==
    ASSUME IInv, NEW p \in Procs, NEW k \in Keys, presentHostKeyDecision(p, k),
           Current(p), proc[p].pc \in {"dialing", "rejecting"},
           UNCHANGED <<intent, disposed, host, conn, grace, trustVars, pool, calls, faults>>,
           native' \in [Gens -> Native]
    PROVE  TypeOK' /\ TrustShape' /\ LadderShape'
<1>1. proc[p].host = host /\ proc[p].host \in Hosts \cup {NoHost}
  BY OfCall DEF OwnHost, Dialling, Proc
<1>2. /\ decision'.host = host /\ decision'.key = k
      /\ decision' \in [host : Hosts \cup {NoHost}, key : Keys \cup {NoKey},
                        reason : {"none", "unknown", "mismatch"}]
  BY <1>1 DEF presentHostKeyDecision
<1>3. proc' \in [Procs -> Proc] /\ phase' = "awaiting-trust" /\ phase' \in Phases
      /\ proc' = [proc EXCEPT ![p] = Idle]
  BY IdleIsProc DEF presentHostKeyDecision, Ends, Phases, IInv, TypeOK
<1>4. TypeOK'
  BY <1>2, <1>3 DEF IInv, TypeOK, trustVars
<1>5. TrustShape'
  BY <1>2 DEF IInv, TrustShape, trustVars
<1>6. LadderShape'
  BY <1>3, Ladder \in Procs DEF IInv, TypeOK, LadderShape, Idle, Procs
<1> QED BY <1>4, <1>5, <1>6

LEMMA DialFailKeeps ==
    ASSUME IInv, NEW p \in Procs,
           \/ pinsFail(p) \/ \E may \in BOOLEAN : dialFails(p, may)
           \/ \E k \in Keys : dialKeyRejected(p, k)
    PROVE  IInv'
<1>1. /\ UNCHANGED <<intent, disposed, host, conn, grace, trustVars, pool, native, calls, faults>>
      /\ proc[p].pc \in {"pins", "dialing"} /\ proc[p].pc \notin Closers
      /\ \/ Ends(p) /\ UNCHANGED <<phase, decision>>
         \/ Current(p) /\ \E may \in BOOLEAN : FailedDial(p, may)
         \/ Current(p) /\ proc[p].pc = "dialing" /\ \E k \in Keys : presentHostKeyDecision(p, k)
  BY DEF pinsFail, dialFails, dialKeyRejected, Waits, Closers
<1>2. CASE Ends(p) /\ UNCHANGED <<phase, decision>>
  <2>1. Bookkeeping
    BY <1>1, <1>2, Computed, AnswerBook
  <2> QED BY <1>1, <1>2, <2>1, OneEnds
<1>3. ASSUME NEW may \in BOOLEAN, Current(p), FailedDial(p, may) PROVE IInv'
  <2>1. /\ phase' \in {"lost", "error"} /\ phase' \in Phases /\ decision' = NoDecision
        /\ \/ Ends(p)
           \/ p = Ladder /\ Again(Ladder, TRUE) /\ proc' = [proc EXCEPT ![Ladder] = LadderWaits]
    BY <1>3, FailedFacts
  <2>2. Bookkeeping
    BY <1>1, <2>1, Computed, AnswerBook
  <2>3. CASE Ends(p)
    BY <1>1, <2>1, <2>2, <2>3, OneEnds
  <2>4. CASE p = Ladder /\ Again(Ladder, TRUE) /\ proc' = [proc EXCEPT ![Ladder] = LadderWaits]
    <3>1. conn = NoGen /\ proc[Ladder].host = host
      BY <1>1, <1>3, <2>4, OfCall DEF OwnHost, DialPcs
    <3>2. LadderWaits.op = "ladder" /\ LadderWaits.host \in Hosts
      BY <1>1, <2>4, LadderWaiting, OfCall DEF Named
    <3>3. "wait" \notin Dialling /\ "wait" \notin Closers
      BY DEF Dialling, Closers
    <3> QED BY <1>1, <2>2, <2>4, <3>1, <3>2, <3>3, LadderWaiting, OneMoves
  <2> QED BY <2>1, <2>3, <2>4
<1>4. ASSUME NEW k \in Keys, Current(p), proc[p].pc = "dialing", presentHostKeyDecision(p, k)
      PROVE  IInv'
  <2>1. TypeOK' /\ TrustShape' /\ LadderShape'
    BY <1>1, <1>4, Presents DEF IInv, TypeOK
  <2>2. proc' = [proc EXCEPT ![p] = Idle]
    BY <1>4 DEF presentHostKeyDecision, Ends
  <2>3. proc'[p] = Idle /\ \A q \in Procs \ {p} : proc'[q] = proc[q]
    BY <2>2, IdleIsProc, OneRecord
  <2>4. Moved(p)
    BY <1>1, <2>3 DEF Moved, Named, Idle, Dialling, Closers
  <2>5. MoveStep({p})
    BY <1>1, <2>1, <2>3, <2>4, NativeSame DEF MoveStep, Current, trustVars
  <2> QED BY <2>5, MoveKeeps
<1> QED BY <1>1, <1>2, <1>3, <1>4

-----------------------------------------------------------------------------
\* Answers to a close: connectClosed, closed, released, rejected and the
\* ladder's own.

\* The native table after a close.
LEMMA ReleasedNative ==
    ASSUME IInv, NEW p \in Procs, Release(p, proc[p].gen)
    PROVE  /\ native' = IF proc[p].gen = NoGen THEN native
                        ELSE [native EXCEPT ![proc[p].gen] = Closed]
           /\ native' \in [Gens -> Native]
<1>1. Closed \in Native
  BY DEF Closed, Native
<1>2. native \in [Gens -> Native]
  BY DEF IInv, TypeOK
<1> QED BY <1>1, <1>2 DEF Release

\* The record of a call that dials.
LEMMA DialRecord ==
    ASSUME NEW s \in Proc, NEW pc \in {"pins", "dialing"}, NEW g \in Gens, NEW n \in 0..Retries,
           NEW r, r = [s EXCEPT !.pc = pc, !.host = s.host, !.gen = g, !.attempt = n]
    PROVE  r \in Proc
<1>1. s.host \in Hosts \cup {NoHost}
  BY DEF Proc
<1> QED BY <1>1 DEF Proc

\* dial() up to its first await.
LEMMA Redialled ==
    ASSUME IInv, NEW p \in Procs, NEW n \in 0..Retries, DialBegins(p, proc[p].host, n),
           Current(p), proc[p].pc \in DialPcs, host' = proc[p].host, accepted' = accepted,
           proc[p].host \in Hosts
    PROVE  /\ proc' \in [Procs -> Proc] /\ (\A q \in Procs \ {p} : proc'[q] = proc[q])
           /\ Redials(p) /\ phase' \in Phases /\ LadderShape'
<1> PICK s \in Proc : s = proc[p]
  BY OfCall
<1>1. KeyVouched(s) /\ s.op # "close" /\ s.host \in Hosts \cup {NoHost}
  BY OfCall DEF CloseShape, Current, Proc
<1>2. CASE Ends(p) /\ phase' \in {"lost", "error"}
  <2>1. proc' \in [Procs -> Proc] /\ proc'[p] = Idle /\ \A q \in Procs \ {p} : proc'[q] = proc[q]
    BY <1>2, IdleIsProc, OneRecord DEF Ends
  <2>2. LadderShape'
    BY <1>2, <2>1, Ladder \in Procs DEF LadderShape, IInv, Idle, Procs
  <2> QED BY <1>2, <2>1, <2>2 DEF Redials, Phases
<1>3. ASSUME NEW g \in Gens, Unused(g), NEW pc \in {"pins", "dialing"}, phase' = "connecting",
             proc' = [proc EXCEPT ![p] = [s EXCEPT !.pc = pc, !.host = s.host, !.gen = g,
                                                   !.attempt = n]]
      PROVE  /\ proc' \in [Procs -> Proc] /\ (\A q \in Procs \ {p} : proc'[q] = proc[q])
             /\ Redials(p) /\ phase' \in Phases /\ LadderShape'
  <2> DEFINE r == [s EXCEPT !.pc = pc, !.host = s.host, !.gen = g, !.attempt = n]
  <2>1. /\ r \in Proc /\ r.pc = pc /\ r.gen = g /\ r.host = s.host /\ r.key = s.key /\ r.op = s.op
    <3>1. r = [s EXCEPT !.pc = pc, !.host = s.host, !.gen = g, !.attempt = n]
      OBVIOUS
    <3>2. r.pc = pc /\ r.gen = g /\ r.host = s.host /\ r.key = s.key /\ r.op = s.op
      BY DEF Proc
    <3> HIDE DEF r
    <3>3. r \in Proc
      BY <3>1, DialRecord
    <3> QED BY <3>2, <3>3
  <2>2. proc' = [proc EXCEPT ![p] = r]
    BY <1>3
  <2> HIDE DEF r
  <2>3. proc' \in [Procs -> Proc] /\ proc'[p] = r /\ \A q \in Procs \ {p} : proc'[q] = proc[q]
    BY <2>1, <2>2, OneRecord
  <2>4. KeyVouched(proc[p])'
    BY <1>1, <2>1, <2>3 DEF KeyVouched
  <2>5. Redials(p)
    BY <1>1, <1>3, <2>1, <2>3, <2>4 DEF Redials
  <2>6. LadderShape'
    BY <1>3, <2>1, <2>3, Ladder \in Procs DEF LadderShape, IInv, Procs
  <2> QED BY <1>3, <2>3, <2>5, <2>6 DEF Phases
<1>4. CASE Ends(p) /\ phase' = IF p = Ladder THEN "lost" ELSE "error"
  BY <1>2, <1>4
<1>5. ASSUME NEW g \in Gens, Unused(g), phase' = "connecting",
             proc' = [proc EXCEPT ![p] =
                [proc[p] EXCEPT !.pc = IF proc[p].host \in Gateway THEN "dialing" ELSE "pins",
                                !.host = proc[p].host, !.gen = g, !.attempt = n]]
      PROVE  /\ proc' \in [Procs -> Proc] /\ (\A q \in Procs \ {p} : proc'[q] = proc[q])
             /\ Redials(p) /\ phase' \in Phases /\ LadderShape'
  <2> PICK pc \in {"pins", "dialing"} : pc = IF proc[p].host \in Gateway THEN "dialing" ELSE "pins"
    OBVIOUS
  <2> QED BY <1>3, <1>5
<1> QED BY <1>4, <1>5 DEF DialBegins

LEMMA CloseAnswers ==
    ASSUME IInv, NEW c \in Calls, connectClosed(c) \/ closed(c) \/ released(c)
    PROVE  IInv'
<1>1. c \in Procs /\ c # Ladder
  BY FreeSlot
<1>2. /\ Release(c, proc[c].gen) /\ proc[c].pc \in Closers
      /\ UNCHANGED <<intent, disposed, conn, trustVars, pool, calls, faults>>
  BY DEF connectClosed, closed, released, Waits, Closers
<1>3. native' \in [Gens -> Native]
      /\ native' = IF proc[c].gen = NoGen THEN native ELSE [native EXCEPT ![proc[c].gen] = Closed]
  BY <1>1, <1>2, ReleasedNative
<1>4. NoDecision \in [host : Hosts \cup {NoHost}, key : Keys \cup {NoKey},
                      reason : {"none", "unknown", "mismatch"}]
  BY DEF NoDecision
<1>5. ASSUME proc' \in [Procs -> Proc], \A q \in Procs \ {c} : proc'[q] = proc[q], Redials(c),
             phase' \in Phases, phase' = "reconnecting" => phase = "reconnecting",
             grace' \in BOOLEAN, host' \in Hosts \cup {NoHost},
             decision' = NoDecision \/ (decision' = decision /\ host' = host),
             host' = host \/ (conn = NoGen /\ (disposed \/ Current(c)))
      PROVE  IInv'
  <2>1. TypeOK'
    BY <1>2, <1>3, <1>4, <1>5 DEF IInv, TypeOK, trustVars
  <2>2. TrustShape'
    BY <1>2, <1>5 DEF IInv, TrustShape, trustVars
  <2>3. LadderShape'
    BY <1>1, <1>5 DEF IInv, LadderShape, Procs
  <2>4. ReleaseStep(c)
    BY <1>1, <1>2, <1>3, <1>5, <2>1, <2>2, <2>3 DEF ReleaseStep, trustVars
  <2> QED BY <2>4, ReleaseKeeps
<1>6. ASSUME Ends(c), phase' \in Phases, phase' = "reconnecting" => phase = "reconnecting",
             grace' \in BOOLEAN, host' \in Hosts \cup {NoHost},
             decision' = NoDecision \/ (decision' = decision /\ host' = host),
             host' = host \/ (conn = NoGen /\ (disposed \/ Current(c)))
      PROVE  IInv'
  <2>1. proc' \in [Procs -> Proc] /\ proc'[c] = Idle /\ \A q \in Procs \ {c} : proc'[q] = proc[q]
    BY <1>1, <1>6, IdleIsProc, OneRecord DEF Ends
  <2> QED BY <1>5, <1>6, <2>1 DEF Redials
<1>7. CASE connectClosed(c)
  <2>1. proc[c].pc = "closing" /\ grace' = grace
    BY <1>7 DEF connectClosed, Waits
  <2>2. CASE ~Current(c)
    <3>1. Ends(c) /\ UNCHANGED <<host, phase, decision>>
      BY <1>7, <2>2 DEF connectClosed
    <3>2. phase' \in Phases /\ grace' \in BOOLEAN /\ host' \in Hosts \cup {NoHost}
      BY <2>1, <3>1 DEF IInv, TypeOK
    <3>3. /\ phase' = "reconnecting" => phase = "reconnecting"
          /\ decision' = NoDecision \/ (decision' = decision /\ host' = host)
          /\ host' = host \/ (conn = NoGen /\ (disposed \/ Current(c)))
      BY <3>1
    <3> QED BY <1>6, <3>1, <3>2, <3>3, Zenon
  <2>3. CASE Current(c)
    <3>1. host' = proc[c].host /\ decision' = NoDecision /\ DialBegins(c, proc[c].host, 0)
      BY <1>7, <2>3 DEF connectClosed
    <3>2. conn = NoGen /\ proc[c].pc \in DialPcs
      BY <1>1, <2>1, <2>3, OfCall DEF OwnHost, DialPcs
    <3>3. 0 \in 0..Retries
      BY ControllerAssumption
    <3>4. /\ proc' \in [Procs -> Proc] /\ (\A q \in Procs \ {c} : proc'[q] = proc[q])
          /\ Redials(c) /\ phase' \in Phases
      <4>1. proc[c].host \in Hosts
        BY <1>1, <1>7, OfCall DEF connectClosed, Named
      <4> QED BY <1>1, <1>2, <2>3, <3>1, <3>2, <3>3, <4>1, Redialled DEF trustVars
    <3>5. phase' # "reconnecting"
      BY <1>1, <3>1 DEF DialBegins
    <3>6. host' \in Hosts \cup {NoHost}
      BY <1>1, <3>1, OfCall DEF Proc
    <3> QED BY <1>5, <2>1, <2>3, <3>1, <3>2, <3>4, <3>5, <3>6, Computed
  <2> QED BY <2>2, <2>3
<1>8. CASE closed(c)
  <2>1. conn = NoGen /\ disposed
    BY <1>1, <1>8, OfCall DEF closed, Waits, CloseShape
  <2>2. Ends(c) /\ host' = NoHost /\ phase' = "idle" /\ decision' = NoDecision /\ grace' = FALSE
    BY <1>8 DEF closed
  <2> QED BY <1>6, <2>1, <2>2 DEF Phases
<1>9. CASE released(c)
  <2>1. Ends(c) /\ phase' = "lost" /\ UNCHANGED <<host, decision, grace>>
    BY <1>9 DEF released
  <2>2. phase' \in Phases /\ grace' \in BOOLEAN /\ host' \in Hosts \cup {NoHost}
    BY <2>1 DEF Phases, IInv, TypeOK
  <2>3. /\ phase' = "reconnecting" => phase = "reconnecting"
        /\ decision' = NoDecision \/ (decision' = decision /\ host' = host)
        /\ host' = host \/ (conn = NoGen /\ (disposed \/ Current(c)))
    BY <2>1
  <2> QED BY <1>6, <2>1, <2>2, <2>3, Zenon
<1> QED BY <1>7, <1>8, <1>9

\* An answer to a close that leaves the host and the questions as they are.
LEMMA AnswerReleases ==
    ASSUME IInv, NEW p \in Procs, Release(p, proc[p].gen), proc[p].pc \in Closers \cup {"wait"},
           UNCHANGED <<intent, disposed, host, conn, grace, trustVars, pool, calls, faults>>,
           proc' \in [Procs -> Proc], \A q \in Procs \ {p} : proc'[q] = proc[q], Redials(p),
           phase' \in Phases, LadderShape', decision' \in {decision, NoDecision}
    PROVE  IInv'
<1>1. native' \in [Gens -> Native]
      /\ native' = IF proc[p].gen = NoGen THEN native ELSE [native EXCEPT ![proc[p].gen] = Closed]
  BY ReleasedNative
<1>2. decision' \in [host : Hosts \cup {NoHost}, key : Keys \cup {NoKey},
                     reason : {"none", "unknown", "mismatch"}]
  BY DEF NoDecision, IInv, TypeOK
<1>3. TypeOK'
  BY <1>1, <1>2 DEF IInv, TypeOK, trustVars
<1>4. TrustShape'
  BY DEF IInv, TrustShape, trustVars
<1>5. ReleaseStep(p)
  BY <1>1, <1>3, <1>4 DEF ReleaseStep, trustVars
<1> QED BY <1>5, ReleaseKeeps

\* The call ends, or the ladder waits for its next attempt.
LEMMA ReleasedEnds ==
    ASSUME IInv, NEW p \in Procs,
           \/ Ends(p)
           \/ /\ p = Ladder /\ Again(Ladder, TRUE) /\ proc[p].pc \in DialPcs
              /\ proc' = [proc EXCEPT ![Ladder] = LadderWaits],
           p # Ladder => (phase' = "reconnecting" => phase = "reconnecting")
    PROVE  /\ proc' \in [Procs -> Proc] /\ (\A q \in Procs \ {p} : proc'[q] = proc[q])
           /\ Redials(p) /\ LadderShape'
<1>1. CASE Ends(p)
  <2>1. proc' \in [Procs -> Proc] /\ proc'[p] = Idle /\ \A q \in Procs \ {p} : proc'[q] = proc[q]
    BY <1>1, IdleIsProc, OneRecord DEF Ends
  <2>2. LadderShape'
    BY <2>1, Ladder \in Procs DEF LadderShape, IInv, Idle, Procs
  <2> QED BY <2>1, <2>2 DEF Redials
<1>2. CASE /\ p = Ladder /\ Again(Ladder, TRUE) /\ proc[p].pc \in DialPcs
           /\ proc' = [proc EXCEPT ![Ladder] = LadderWaits]
  <2>1. /\ LadderWaits \in Proc /\ LadderWaits.pc = "wait" /\ LadderWaits.gen = NoGen
        /\ LadderWaits.key = NoKey /\ LadderWaits.host = proc[Ladder].host
        /\ LadderWaits.op = proc[Ladder].op /\ LadderWaits.attempt < Retries
    BY <1>2, LadderWaiting
  <2>2. /\ proc' \in [Procs -> Proc] /\ proc'[p] = LadderWaits
        /\ \A q \in Procs \ {p} : proc'[q] = proc[q]
    BY <1>2, <2>1, OneRecord
  <2>3. LadderShape'
    BY <1>2, <2>1, <2>2 DEF LadderShape
  <2> QED BY <1>2, <2>1, <2>2, <2>3 DEF Redials
<1> QED BY <1>1, <1>2

LEMMA RejectedKeeps ==
    ASSUME IInv, NEW p \in Procs, rejected(p)
    PROVE  IInv'
<1>1. /\ Release(p, proc[p].gen) /\ proc[p].pc = "rejecting"
      /\ proc[p].pc \in Closers \cup {"wait"} /\ proc[p].pc \in DialPcs
      /\ UNCHANGED <<intent, disposed, host, conn, grace, trustVars, pool, calls, faults>>
      /\ \/ Ends(p) /\ UNCHANGED <<phase, decision>>
         \/ Current(p) /\ FailedDial(p, FALSE)
         \/ Current(p) /\ presentHostKeyDecision(p, native[proc[p].gen].key)
  BY DEF rejected, Waits, Closers, DialPcs
<1>2. CASE Ends(p) /\ UNCHANGED <<phase, decision>>
  <2>1. /\ proc' \in [Procs -> Proc] /\ (\A q \in Procs \ {p} : proc'[q] = proc[q])
        /\ Redials(p) /\ LadderShape'
    BY <1>2, ReleasedEnds
  <2> QED BY <1>1, <1>2, <2>1, Computed, AnswerReleases
<1>3. CASE Current(p) /\ FailedDial(p, FALSE)
  <2>1. /\ phase' \in {"lost", "error"} /\ phase' \in Phases /\ decision' = NoDecision
        /\ \/ Ends(p)
           \/ p = Ladder /\ Again(Ladder, TRUE) /\ proc' = [proc EXCEPT ![Ladder] = LadderWaits]
    BY <1>3, FailedFacts
  <2>2. /\ proc' \in [Procs -> Proc] /\ (\A q \in Procs \ {p} : proc'[q] = proc[q])
        /\ Redials(p) /\ LadderShape'
    BY <1>1, <2>1, ReleasedEnds
  <2> QED BY <1>1, <2>1, <2>2, AnswerReleases
<1>4. CASE Current(p) /\ presentHostKeyDecision(p, native[proc[p].gen].key)
  <2>1. PICK k \in Keys : k = native[proc[p].gen].key
    BY <1>1, OfCall DEF OwnGen
  <2>2. native' \in [Gens -> Native]
        /\ native' = IF proc[p].gen = NoGen THEN native ELSE [native EXCEPT ![proc[p].gen] = Closed]
    BY <1>1, ReleasedNative
  <2>3. TypeOK' /\ TrustShape' /\ LadderShape'
    BY <1>1, <1>4, <2>1, <2>2, Presents
  <2>4. proc' = [proc EXCEPT ![p] = Idle]
    BY <1>4 DEF presentHostKeyDecision, Ends
  <2>5. proc'[p] = Idle /\ \A q \in Procs \ {p} : proc'[q] = proc[q]
    BY <2>4, IdleIsProc, OneRecord
  <2>6. ReleaseStep(p)
    BY <1>1, <2>2, <2>3, <2>5 DEF ReleaseStep, Redials, trustVars
  <2> QED BY <2>6, ReleaseKeeps
<1> QED BY <1>1, <1>2, <1>3, <1>4

LEMMA LadderClosed ==
    ASSUME IInv, ladderDials \/ ladderReclosed
    PROVE  IInv'
<1>1. Ladder \in Procs
  BY DEF Procs
<1>2. /\ Release(Ladder, proc[Ladder].gen) /\ decision' = decision
      /\ proc[Ladder].pc \in {"closing", "wait", "reclosing"}
      /\ proc[Ladder].pc \in Closers \cup {"wait"} /\ proc[Ladder].pc \in DialPcs
      /\ UNCHANGED <<intent, disposed, host, conn, grace, trustVars, pool, calls, faults>>
  BY DEF ladderDials, ladderReclosed, Waits, Closers, DialPcs
<1>3. CASE Ends(Ladder) /\ phase' \in {phase, "lost"}
  <2>1. phase' \in Phases
    BY <1>3, Computed DEF Phases
  <2>2. /\ proc' \in [Procs -> Proc] /\ (\A q \in Procs \ {Ladder} : proc'[q] = proc[q])
        /\ Redials(Ladder) /\ LadderShape'
    BY <1>1, <1>3, ReleasedEnds
  <2> QED BY <1>1, <1>2, <2>1, <2>2, AnswerReleases
<1>4. CASE /\ Current(Ladder) /\ ladderDials
           /\ DialBegins(Ladder, proc[Ladder].host, proc[Ladder].attempt + 1)
  <2>1. proc[Ladder].pc \in {"closing", "wait"}
    BY <1>4 DEF ladderDials, Waits
  <2>2. PICK n \in 0..Retries : n = proc[Ladder].attempt + 1
    <3>1. proc[Ladder].attempt \in 0..Retries /\ proc[Ladder].attempt < Retries
      BY <1>1, <2>1, OfCall DEF IInv, LadderShape, Proc
    <3> QED BY <3>1, ControllerAssumption
  <2>3. host' = proc[Ladder].host /\ accepted' = accepted
    BY <1>1, <1>2, <1>4, <2>1, OfCall DEF OwnHost, trustVars
  <2>5. proc[Ladder].host \in Hosts
    BY <1>1, <2>1, OfCall DEF Named
  <2>4. /\ proc' \in [Procs -> Proc] /\ (\A q \in Procs \ {Ladder} : proc'[q] = proc[q])
        /\ Redials(Ladder) /\ phase' \in Phases /\ LadderShape'
    BY <1>1, <1>2, <1>4, <2>2, <2>3, <2>5, Redialled
  <2> QED BY <1>1, <1>2, <2>4, AnswerReleases
<1>5. CASE ladderReclosed /\ Again(Ladder, TRUE)
  <2>1. proc' = [proc EXCEPT ![Ladder] = LadderWaits] /\ phase' = phase
    BY <1>5 DEF ladderReclosed, LadderRetries
  <2>2. /\ proc' \in [Procs -> Proc] /\ (\A q \in Procs \ {Ladder} : proc'[q] = proc[q])
        /\ Redials(Ladder) /\ LadderShape'
    BY <1>1, <1>2, <1>5, <2>1, ReleasedEnds
  <2> QED BY <1>1, <1>2, <2>1, <2>2, Computed, AnswerReleases
<1>6. CASE ladderReclosed /\ ~Again(Ladder, TRUE)
  BY <1>3, <1>6 DEF ladderReclosed, LadderRetries, Ends
<1> QED BY <1>3, <1>4, <1>5, <1>6 DEF ladderDials

-----------------------------------------------------------------------------
\* The two answers that bring a connection nearer: the trust store's and the
\* platform's.

\* The key expected of a host is a vouched one.
LEMMA ExpectedIsVouched ==
    ASSUME IInv, NEW h \in Hosts
    PROVE  /\ ExpectedKey(h) \in Keys \cup {NoKey}
           /\ ExpectedKey(h) # NoKey => <<h, ExpectedKey(h)>> \in accepted
BY DEF IInv, TypeOK, TrustShape, ExpectedKey

LEMMA PinsKeep ==
    ASSUME IInv, NEW p \in Procs, pinsRead(p)
    PROVE  IInv'
<1>1. /\ proc[p].pc = "pins"
      /\ UNCHANGED <<intent, disposed, host, conn, phase, decision, grace, pins, once, accepted,
                     pool, native, calls, faults>>
      /\ proc' = [proc EXCEPT ![p] =
            IF Current(p) THEN [proc[p] EXCEPT !.pc = "dialing", !.key = ExpectedKey(proc[p].host)]
            ELSE Idle]
  BY DEF pinsRead, Waits, trustVars
<1>2. CASE ~Current(p)
  <2>1. Bookkeeping
    BY <1>1, Computed, AnswerBook DEF trustVars
  <2>2. Ends(p) /\ proc[p].pc \notin Closers
    BY <1>1, <1>2 DEF Ends, Closers
  <2> QED BY <1>1, <2>1, <2>2, OneEnds
<1>3. CASE Current(p)
  <2> PICK s \in Proc, k \in Keys \cup {NoKey} :
         s = proc[p] /\ k = ExpectedKey(proc[p].host) /\ (k # NoKey => <<s.host, k>> \in accepted)
    BY <1>1, OfCall, ExpectedIsVouched DEF Named
  <2> DEFINE r == [s EXCEPT !.pc = "dialing", !.key = k]
  <2>1. /\ r \in Proc /\ r.pc = "dialing" /\ r.key = k /\ r.gen = s.gen /\ r.host = s.host
        /\ r.op = s.op
    <3>1. r = [s EXCEPT !.pc = "dialing", !.key = k]
      OBVIOUS
    <3>2. r \in Proc
      BY ONLY <3>1, s \in Proc, k \in Keys \cup {NoKey} DEF Proc
    <3>3. r.pc = "dialing" /\ r.key = k /\ r.gen = s.gen /\ r.host = s.host /\ r.op = s.op
      BY ONLY <3>1, s \in Proc DEF Proc
    <3> QED BY <3>2, <3>3
  <2>2. proc' = [proc EXCEPT ![p] = r]
    BY <1>1, <1>3
  <2> HIDE DEF r
  <2>3. proc' \in [Procs -> Proc] /\ proc'[p] = r /\ \A q \in Procs \ {p} : proc'[q] = proc[q]
    BY <2>1, <2>2, OneRecord
  <2>4. TypeOK'
    BY <1>1, <2>3 DEF IInv, TypeOK
  <2>5. TrustShape' /\ TrustedConnection'
    BY <1>1 DEF IInv, TrustShape, TrustedConnection
  <2>6. NoOrphan'
    BY <1>1, <2>3 DEF IInv, NoOrphan
  <2>7. LadderShape'
    BY <1>1, <2>1, <2>3, Ladder \in Procs DEF IInv, LadderShape, Procs
  <2>8. Apart({p})
    BY <1>1, <2>1, <2>3 DEF Apart, Current
  <2>9. ProcInv(p)'
    <3>1. KeyVouched(proc[p])'
      BY <1>1, <2>1, <2>3 DEF KeyVouched
    <3>2. OwnGen(p)'
      BY <1>1, <2>1, <2>3, OfCall DEF OwnGen, Dialling, Closers
    <3>3. OwnHost(p)'
      BY <1>1, <1>3, <2>1, <2>3, OfCall DEF OwnHost, Dialling, DialPcs, Current
    <3>4. CloseShape(p)' /\ Named(p)'
      BY <1>1, <2>1, <2>3, OfCall DEF CloseShape, Named
    <3> QED BY <3>1, <3>2, <3>3, <3>4 DEF ProcInv
  <2> QED BY <2>4, <2>5, <2>6, <2>7, <2>8, <2>9, OthersKept DEF IInv
<1> QED BY <1>2, <1>3

\* A connection the verdict accepts is trusted.
LEMMA VerdictIsTrust ==
    ASSUME IInv, NEW p \in Procs, NEW k \in Keys, NEW receipt \in BOOLEAN,
           Verdict(p, k, receipt) = "none"
    PROVE  IF proc[p].host \in Gateway THEN receipt ELSE <<proc[p].host, k>> \in accepted
<1>1. CASE proc[p].host \in Gateway
  BY <1>1 DEF Verdict
<1>2. CASE proc[p].host \notin Gateway
  <2>1. proc[p].key = k
    BY <1>2 DEF Verdict
  <2> QED BY <1>2, <2>1, OfCall, ControllerAssumption DEF KeyVouched
<1> QED BY <1>1, <1>2

LEMMA DialOkKeeps ==
    ASSUME IInv, NEW p \in Procs, NEW k \in Keys, NEW receipt \in BOOLEAN, dialOk(p, k, receipt)
    PROVE  IInv'
<1> DEFINE n == [Closed EXCEPT !.state = "open", !.host = proc[p].host, !.key = k,
                               !.receipt = receipt]
<1> PICK s \in Proc, g \in Gens : s = proc[p] /\ g = proc[p].gen
  BY OfCall DEF dialOk, Waits, OwnGen, Dialling
<1>1. /\ s.pc = "dialing" /\ native' = [native EXCEPT ![g] = n]
      /\ UNCHANGED <<intent, disposed, host, grace, pins, once, accepted, pool, calls, faults>>
  BY DEF dialOk, Waits, trustVars
<1>2. /\ conn # g /\ native[g].state # "open" /\ s.host \in Hosts
      /\ \A q \in Procs \ {p} : proc[q].gen # g
  BY <1>1, OfCall DEF OwnGen, Named, Dialling
<1>3. n.state = "open" /\ n.host = s.host /\ n.key = k /\ n.receipt = receipt
  BY DEF Closed
<1>4. n \in Native
  BY <1>2 DEF Native, Closed
<1> HIDE DEF n
<1>5. /\ native' \in [Gens -> Native] /\ native'[g] = n
      /\ \A f \in Gens \ {g} : native'[f] = native[f]
  BY <1>1, <1>4, OfCall
<1>6. Current(p)' => Current(p)
  BY <1>1 DEF Current
<1>7. CASE /\ Current(p) /\ Verdict(p, k, receipt) = "none" /\ conn' = g /\ decision' = NoDecision
           /\ \/ p = Ladder /\ phase' = "listing"
                 /\ proc' = [proc EXCEPT ![p].pc = "listing", ![p].key = NoKey]
              \/ p # Ladder /\ phase' = "connected" /\ Ends(p)
  <2>1. PICK r \in Proc :
           /\ proc' = [proc EXCEPT ![p] = r]
           /\ r.key = NoKey /\ r.gen \in {NoGen, g}
           /\ \/ p = Ladder /\ r.pc = "listing" /\ r.host = s.host /\ r.op = s.op
              \/ p # Ladder /\ r.pc = "none" /\ r.op = "none"
    <3>1. CASE p = Ladder
      <4> DEFINE r == [s EXCEPT !.pc = "listing", !.key = NoKey]
      <4>1. /\ r \in Proc /\ r.pc = "listing" /\ r.key = NoKey /\ r.gen = s.gen
            /\ r.host = s.host /\ r.op = s.op
        BY DEF Proc
      <4>2. proc' = [proc EXCEPT ![p] = r]
        BY <1>7, <3>1 DEF IInv, TypeOK
      <4> HIDE DEF r
      <4> QED BY <3>1, <4>1, <4>2
    <3>2. CASE p # Ladder
      <4>1. Idle.key = NoKey /\ Idle.gen = NoGen /\ Idle.pc = "none" /\ Idle.op = "none"
        BY DEF Idle
      <4>2. proc' = [proc EXCEPT ![p] = Idle]
        BY <1>7, <3>2 DEF Ends
      <4> QED BY <3>2, <4>1, <4>2, IdleIsProc
    <3> QED BY <3>1, <3>2
  <2>2. proc' \in [Procs -> Proc] /\ proc'[p] = r /\ \A q \in Procs \ {p} : proc'[q] = proc[q]
    BY <2>1, OneRecord
  <2>3. proc[p].host = host /\ conn = NoGen
    BY <1>1, <1>7, OfCall DEF OwnHost, Dialling, DialPcs
  <2>4. phase' \in Phases /\ phase' # "reconnecting"
    BY <1>7 DEF Phases
  <2>5. NoDecision \in [host : Hosts \cup {NoHost}, key : Keys \cup {NoKey},
                        reason : {"none", "unknown", "mismatch"}]
    BY DEF NoDecision
  <2>6. TypeOK'
    BY <1>1, <1>5, <1>7, <2>2, <2>4, <2>5 DEF IInv, TypeOK
  <2>7. TrustShape'
    BY <1>1, <1>7 DEF IInv, TrustShape
  <2>8. TrustedConnection'
    BY <1>1, <1>3, <1>5, <1>7, <2>3, VerdictIsTrust DEF TrustedConnection
  <2>9. NoOrphan'
    <3> SUFFICES ASSUME NEW f \in Gens, native'[f].state = "open", conn' # f
                 PROVE  \E q \in Procs : proc'[q].gen = f /\ proc'[q].pc \in Closers
      BY DEF NoOrphan, Closers
    <3>1. native[f].state = "open" /\ conn # f
      BY <1>5, <1>7, <2>3, ControllerAssumption
    <3>2. PICK q \in Procs : proc[q].gen = f /\ proc[q].pc \in Closers
      BY <3>1 DEF IInv, NoOrphan, Closers
    <3>3. q # p
      BY <1>1, <3>2 DEF Closers
    <3> QED BY <2>2, <3>2, <3>3
  <2>10. LadderShape'
    BY <1>1, <2>1, <2>2, <2>4, Ladder \in Procs DEF IInv, LadderShape, Procs
  <2>11. Apart({p})
    <3>1. \A f \in Gens : \/ /\ native'[f].key = native[f].key
                             /\ native'[f].state = "open" => native[f].state = "open"
                          \/ proc[p].gen = f
      BY <1>5
    <3> QED BY <1>1, <1>7, <2>1, <2>2, <3>1 DEF Apart, Current
  <2>12. ProcInv(p)'
    <3>1. KeyVouched(proc[p])'
      BY <2>1, <2>2 DEF KeyVouched
    <3>2. OwnGen(p)' /\ CloseShape(p)' /\ Named(p)'
      BY <1>1, <2>1, <2>2, OfCall DEF OwnGen, CloseShape, Named, Dialling, Closers
    <3>3. OwnHost(p)'
      BY <1>1, <2>1, <2>2, <2>3 DEF OwnHost, Dialling, DialPcs
    <3> QED BY <3>1, <3>2, <3>3 DEF ProcInv
  <2> QED BY <2>6, <2>7, <2>8, <2>9, <2>10, <2>11, <2>12, OthersKept DEF IInv
<1>8. CASE /\ UNCHANGED <<conn, phase, decision>>
           /\ proc' = [proc EXCEPT ![p] =
                  [proc[p] EXCEPT !.pc = "rejecting", !.why = Verdict(p, k, receipt),
                                  !.key = IF Verdict(p, k, receipt) = "key" THEN proc[p].key
                                          ELSE NoKey]]
  <2>1. PICK w \in {"none", "key", "receipt"}, e \in {s.key, NoKey} :
           w = Verdict(p, k, receipt) /\ e = IF w = "key" THEN proc[p].key ELSE NoKey
    BY DEF Verdict
  <2>2. e \in Keys \cup {NoKey}
    BY DEF Proc
  <2> DEFINE r == [s EXCEPT !.pc = "rejecting", !.why = w, !.key = e]
  <2>3. /\ r.pc = "rejecting" /\ r.key = e /\ r.gen = s.gen /\ r.host = s.host /\ r.op = s.op
        /\ r \in Proc
    <3>1. r = [s EXCEPT !.pc = "rejecting", !.why = w, !.key = e]
      OBVIOUS
    <3>2. r \in Proc
      BY ONLY <2>2, <3>1, s \in Proc, w \in {"none", "key", "receipt"} DEF Proc
    <3>3. r.pc = "rejecting" /\ r.key = e /\ r.gen = s.gen /\ r.host = s.host /\ r.op = s.op
      BY ONLY <3>1, s \in Proc DEF Proc
    <3> QED BY <3>2, <3>3
  <2>4. proc' = [proc EXCEPT ![p] = r]
    BY <1>8, <2>1
  <2> HIDE DEF r
  <2>5. proc' \in [Procs -> Proc] /\ proc'[p] = r /\ \A q \in Procs \ {p} : proc'[q] = proc[q]
    BY <2>3, <2>4, OneRecord
  <2>6. TypeOK'
    BY <1>1, <1>5, <1>8, <2>5 DEF IInv, TypeOK
  <2>7. TrustShape'
    BY <1>1, <1>8 DEF IInv, TrustShape
  <2>8. TrustedConnection'
    <3> SUFFICES ASSUME conn' # NoGen PROVE TrustedConnection'
      BY DEF TrustedConnection
    <3>1. conn' = conn /\ conn \in Gens /\ native'[conn] = native[conn]
      BY <1>2, <1>5, <1>8, OfCall
    <3> QED BY <1>1, <3>1 DEF IInv, TrustedConnection
  <2>9. NoOrphan'
    <3> SUFFICES ASSUME NEW f \in Gens, native'[f].state = "open", conn' # f
                 PROVE  \E q \in Procs : proc'[q].gen = f /\ proc'[q].pc \in Closers
      BY DEF NoOrphan, Closers
    <3>1. CASE f = g
      BY <2>3, <2>5, <3>1 DEF Closers
    <3>2. CASE f # g
      <4>1. PICK q \in Procs : proc[q].gen = f /\ proc[q].pc \in Closers
        BY <1>5, <1>8, <3>2 DEF IInv, NoOrphan, Closers
      <4>2. q # p
        BY <3>2, <4>1
      <4> QED BY <2>5, <4>1, <4>2
    <3> QED BY <3>1, <3>2
  <2>10. LadderShape'
    BY <1>1, <1>8, <2>3, <2>5, Ladder \in Procs DEF IInv, LadderShape, Procs
  <2>11. Apart({p})
    <3>1. \A f \in Gens : \/ /\ native'[f].key = native[f].key
                             /\ native'[f].state = "open" => native[f].state = "open"
                          \/ proc[p].gen = f
      BY <1>5
    <3> QED BY <1>1, <1>8, <2>3, <2>5, <3>1 DEF Apart, Current
  <2>12. ProcInv(p)'
    <3>1. KeyVouched(proc[p])'
      BY <1>1, <2>1, <2>3, <2>5, OfCall DEF KeyVouched
    <3>2. OwnGen(p)'
      BY <1>2, <1>3, <1>5, <1>8, <2>3, <2>5 DEF OwnGen, Dialling, Closers
    <3>3. CloseShape(p)' /\ Named(p)'
      BY <1>1, <1>2, <2>3, <2>5, OfCall DEF CloseShape, Named
    <3>4. OwnHost(p)'
      BY <1>1, <1>6, <1>8, <2>3, <2>5, OfCall DEF OwnHost, Dialling, DialPcs
    <3> QED BY <3>1, <3>2, <3>3, <3>4 DEF ProcInv
  <2> QED BY <2>6, <2>7, <2>8, <2>9, <2>10, <2>11, <2>12, OthersKept DEF IInv
<1> QED BY <1>7, <1>8 DEF dialOk

-----------------------------------------------------------------------------
\* Terminals, the user's Retry and the platform's events.

LEMMA IdlePhases ==
    ASSUME NEW pl, NEW procs
    PROVE  /\ idlePhase(pl, procs) \in Phases /\ idlePhase(pl, procs) # "reconnecting"
           /\ LivePhase(pl, "error") \in Phases /\ LivePhase(pl, "error") # "reconnecting"
BY DEF idlePhase, LivePhase, Phases

LEMMA TerminalsKeep ==
    ASSUME IInv, detachSession \/ ptyEnds \/ ptyFails
    PROVE  IInv'
<1>1. CASE detachSession
  <2> USE <1>1 DEF detachSession
  <2>1. /\ phase' \in Phases /\ (phase' = "reconnecting" => phase = "reconnecting")
        /\ pool' \in {"empty", "open", "live"}
    BY Computed, IdlePhases DEF Fewer
  <2>2. Bookkeeping
    BY <2>1, Computed, UserBook
  <2>3. CASE UNCHANGED proc
    BY <2>1, <2>2, <2>3, NoneMoves
  <2>4. ASSUME NEW c \in Calls, Waits(c, "attach"), Ends(c) PROVE IInv'
    <3>1. proc[c].pc \notin Closers
      BY <2>4 DEF Waits, Closers
    <3> QED BY <2>1, <2>2, <2>4, <3>1, FreeSlot, OneEnds
  <2> QED BY <2>3, <2>4
<1>2. ASSUME phase' \in Phases, pool' \in {"empty", "open", "live"}, ptyEnds \/ ptyFails
      PROVE  Bookkeeping
  <2>1. UNCHANGED <<disposed, host, decision, grace, trustVars, native, calls>>
    BY <1>2 DEF ptyEnds, ptyFails
  <2>2. faults' \in Nat
    BY <1>2, Computed DEF ptyEnds, ptyFails
  <2> QED BY <1>2, <2>1, <2>2, TrustSame, NativeSame, Computed DEF Bookkeeping
<1>3. CASE ptyEnds
  <2>1. /\ phase' \in Phases /\ (phase' = "reconnecting" => phase = "reconnecting")
        /\ pool' \in {"empty", "open", "live"}
    BY <1>3, Computed, IdlePhases DEF ptyEnds, Fewer
  <2> QED BY <1>2, <1>3, <2>1, NoneMoves DEF ptyEnds
<1>4. CASE ptyFails
  <2>1. ASSUME NEW pl \in {"live", "open"}, NEW ph, startReconnect(proc, ph, pl),
               ph = IF phase = "background" THEN phase ELSE LivePhase(pl, "error")
        PROVE  IInv'
    <3>1. ph \in Phases /\ ph # "reconnecting"
      BY <2>1, Computed, IdlePhases
    <3>2. phase' \in Phases /\ pool' \in {"empty", "open", "live"}
      BY <2>1, <3>1, Computed DEF startReconnect, runReconnect, Phases
    <3> QED BY <1>2, <1>4, <2>1, <3>1, <3>2, Restarts
  <2>2. CASE /\ pool' \in Fewer(pool) /\ phase' = LivePhase(pool', "error")
             /\ UNCHANGED <<proc, intent, conn>>
    <3>1. phase' \in Phases /\ phase' # "reconnecting" /\ pool' \in {"empty", "open", "live"}
      BY <2>2, IdlePhases DEF Fewer
    <3> QED BY <1>2, <1>4, <2>2, <3>1, NoneMoves
  <2> QED BY <1>4, <2>1, <2>2 DEF ptyFails
<1> QED BY <1>1, <1>3, <1>4

LEMMA RetryKeeps ==
    ASSUME IInv, reconnect
    PROVE  IInv'
<1>1. phase' \in Phases /\ pool' \in {"empty", "open", "live"}
  BY Computed DEF reconnect, reconnectAndAttach, runReconnect, Phases
<1>2. Bookkeeping
  BY <1>1, Computed, UserBook DEF reconnect
<1> QED BY <1>2, Rejoins DEF reconnect

LEMMA PlatformKeeps ==
    ASSUME IInv, NEW g \in Gens, lose(g) \/ graceExpires(g) \/ onConnectionState(g)
    PROVE  IInv'
<1>1. native \in [Gens -> Native]
  BY DEF IInv, TypeOK
<1> PICK o \in Native : o = native[g]
  BY <1>1
<1>2. ASSUME NEW n \in Native, native' = [native EXCEPT ![g] = n],
             n.host = o.host, n.key = o.key, n.receipt = o.receipt,
             n.state = "open" => o.state = "open"
      PROVE  native' \in [Gens -> Native] /\ NativeKept
  BY <1>1, <1>2 DEF NativeKept
<1>3. CASE lose(g) \/ graceExpires(g)
  <2>1. PICK st \in {"lost", "expired"} :
           native' = [native EXCEPT ![g].state = st, ![g].event = TRUE, ![g].timer = FALSE]
    BY <1>3 DEF lose, graceExpires
  <2> DEFINE n == [o EXCEPT !.state = st, !.event = TRUE, !.timer = FALSE]
  <2>2. /\ n \in Native /\ n.host = o.host /\ n.key = o.key /\ n.receipt = o.receipt
        /\ n.state = st
    BY DEF Native
  <2>3. native' = [native EXCEPT ![g] = n]
    BY <1>1, <2>1
  <2> HIDE DEF n
  <2>4. native' \in [Gens -> Native] /\ NativeKept
    BY <1>2, <2>2, <2>3
  <2>5. faults' \in Nat
    BY <1>3, Computed DEF lose, graceExpires
  <2>6. UNCHANGED <<proc, intent, disposed, host, conn, phase, decision, grace, trustVars, pool, calls>>
    BY <1>3 DEF lose, graceExpires
  <2>7. Bookkeeping
    BY <2>4, <2>5, <2>6, TrustSame, Computed DEF Bookkeeping
  <2> QED BY <2>6, <2>7, NoneMoves
<1>4. CASE onConnectionState(g)
  <2> USE <1>4 DEF onConnectionState
  <2> DEFINE n == [o EXCEPT !.event = FALSE]
  <2>1. n \in Native /\ n.host = o.host /\ n.key = o.key /\ n.receipt = o.receipt
        /\ n.state = o.state
    BY DEF Native
  <2>2. native' = [native EXCEPT ![g] = n]
    BY <1>1
  <2> HIDE DEF n
  <2>3. native' \in [Gens -> Native] /\ NativeKept
    BY <1>2, <2>1, <2>2
  <2>4. ASSUME phase' \in Phases, pool' \in {"empty", "open", "live"} PROVE Bookkeeping
    BY <2>3, <2>4, TrustSame, Computed DEF Bookkeeping
  <2>5. CASE /\ conn = g /\ native[g].state = "expired"
             /\ pool' = Detached(pool) /\ conn' = NoGen /\ UNCHANGED <<proc, intent, phase>>
    BY <2>4, <2>5, Computed, NoneMoves
  <2>6. CASE startReconnect(proc, phase, pool)
    <3>1. phase' \in Phases /\ pool' \in {"empty", "open", "live"}
      BY <2>6, Computed DEF startReconnect, runReconnect, Phases
    <3> QED BY <2>4, <2>6, <3>1, Restarts
  <2>7. CASE UNCHANGED <<proc, intent, conn, phase, pool>>
    BY <2>4, <2>7, Computed, NoneMoves
  <2> QED BY <2>5, <2>6, <2>7
<1> QED BY <1>3, <1>4

-----------------------------------------------------------------------------
\* The theorems.

LEMMA InitInv == Init => IInv
<1> SUFFICES ASSUME Init PROVE IInv
  OBVIOUS
<1>1. \A p \in Procs : proc[p] = Idle
  BY DEF Init
<1>2. TypeOK
  <2>1. proc \in [Procs -> Proc]
    BY IdleIsProc DEF Init
  <2>2. Closed \in Native /\ native \in [Gens -> Native]
    BY DEF Init, Closed, Native
  <2>3. /\ pins \in [Hosts -> Keys \cup {NoKey}] /\ accepted \subseteq Hosts \X Keys
        /\ decision \in [host : Hosts \cup {NoHost}, key : Keys \cup {NoKey},
                         reason : {"none", "unknown", "mismatch"}]
        /\ once \in [host : Hosts \cup {NoHost}, key : Keys \cup {NoKey}]
    BY DEF Init, NoDecision
  <2> QED BY <2>1, <2>2, <2>3 DEF Init, TypeOK, Phases
<1>3. TrustedConnection
  BY DEF Init, TrustedConnection
<1>4. TrustShape
  <2>1. \A h \in Hosts : pins[h] # NoKey => <<h, pins[h]>> \in accepted
    <3> SUFFICES ASSUME NEW h \in Hosts, pins[h] # NoKey PROVE <<h, pins[h]>> \in accepted
      OBVIOUS
    <3>1. pins[h] \in Keys
      BY DEF Init
    <3>2. <<h, pins[h]>>[1] = h /\ <<h, pins[h]>>[2] = pins[h]
      OBVIOUS
    <3> QED BY <3>1, <3>2 DEF Init
  <2> QED BY <2>1 DEF Init, TrustShape
<1>5. NoOrphan
  BY DEF Init, NoOrphan, Closed
<1>6. LadderShape
  BY <1>1, Ladder \in Procs DEF LadderShape, Idle, Procs
<1>7. \A p \in Procs : ProcInv(p)
  BY <1>1 DEF ProcInv, KeyVouched, OwnGen, OwnHost, CloseShape, Named, Idle, Dialling, Closers, DialPcs
<1> QED BY <1>2, <1>3, <1>4, <1>5, <1>6, <1>7 DEF IInv

LEMMA AnswerKeeps ==
    ASSUME IInv, NEW p \in Procs, Answer(p)
    PROVE  IInv'
<1>1. CASE PtysClosed(p)
  BY <1>1, PtysKeep
<1>2. CASE pinsRead(p)
  BY <1>2, PinsKeep
<1>3. CASE rejected(p)
  BY <1>3, RejectedKeeps
<1>4. CASE \/ pinsFail(p) \/ \E may \in BOOLEAN : dialFails(p, may)
           \/ \E k \in Keys : dialKeyRejected(p, k)
  BY <1>4, DialFailKeeps
<1>5. CASE \E k \in Keys : \E receipt \in BOOLEAN : dialOk(p, k, receipt)
  BY <1>5, DialOkKeeps
<1>6. CASE p \in Calls /\ (connectProbed(p) \/ keyRecorded(p) \/ closeScheduled(p)
                           \/ closeCancelled(p) \/ dialAborted(p))
  BY <1>6, ProbeKeeps, RecordKeeps, ScheduleKeeps, CancelKeeps, AbortKeeps
<1>7. CASE p \in Calls /\ (connectClosed(p) \/ closed(p) \/ released(p))
  BY <1>7, CloseAnswers
<1>8. CASE /\ p \in Calls
           /\ \/ operationDone(p) \/ mutationUncertain(p) \/ keyNotRecorded(p)
              \/ \E transport \in BOOLEAN :
                    \/ listFails(p, transport) \/ attachFails(p, transport)
                    \/ commandFails(p, transport) \/ mutationFails(p, transport)
  BY <1>8, OperationsKeep
<1>9. CASE ladderDials \/ ladderReclosed
  BY <1>9, LadderClosed
<1>10. CASE ladderListed \/ ladderListFails \/ ladderReattached \/ ladderReattachFails
  BY <1>10, LadderKeeps
<1> QED BY <1>1, <1>2, <1>3, <1>4, <1>5, <1>6, <1>7, <1>8, <1>9, <1>10 DEF Answer

LEMMA StepInv == IInv /\ [Next]_vars => IInv'
<1> SUFFICES ASSUME IInv, [Next]_vars PROVE IInv'
  OBVIOUS
<1>1. ASSUME NEW p \in Procs, Answer(p) PROVE IInv'
  BY <1>1, AnswerKeeps
<1>2. ASSUME NEW c \in Calls, UserStep(c) PROVE IInv'
  BY <1>2, UserKeeps
<1>3. CASE reconnect
  BY <1>3, RetryKeeps
<1>4. CASE detachSession \/ ptyEnds \/ ptyFails
  BY <1>4, TerminalsKeep
<1>5. ASSUME NEW g \in Gens, lose(g) \/ graceExpires(g) \/ onConnectionState(g) PROVE IInv'
  BY <1>5, PlatformKeeps
<1>6. CASE UNCHANGED vars
  <2>1. Bookkeeping /\ UNCHANGED <<proc, intent, conn, phase>>
    BY <1>6, AnswerBook, Computed DEF vars, trustVars
  <2> QED BY <2>1, NoneMoves
<1> QED BY <1>1, <1>2, <1>3, <1>4, <1>5, <1>6 DEF Next

LEMMA Invariance == Spec => []IInv
BY InitInv, StepInv, PTL DEF Spec

\* However connect(), the ladder, background grace and the user's trust
\* interleave, the connection in use was reached under a trusted key, for the
\* host in hand, and so was the question asked (dial, presentHostKeyDecision).
THEOREM TrustStaysForHost == Spec => []TrustIsForHost
<1>1. IInv => TrustIsForHost
  BY DEF IInv, TrustIsForHost, TrustShape, DecisionIsForHost
<1> QED BY <1>1, Invariance, PTL

\* A dial that may still succeed never overwrites a connection: dial() assigns
\* this.connection without looking, and need not look.
THEOREM OneDialler == Spec => []DialerAlone
<1>1. IInv => DialerAlone
  BY DEF IInv, ProcInv, OwnHost, DialerAlone
<1> QED BY <1>1, Invariance, PTL

\* Whatever links are lost, answers late and calls superseded, no native
\* connection is left open without somebody to close it.
THEOREM NothingLeaks == Spec => []NoOrphan
<1>1. IInv => NoOrphan
  BY DEF IInv
<1> QED BY <1>1, Invariance, PTL
=============================================================================
