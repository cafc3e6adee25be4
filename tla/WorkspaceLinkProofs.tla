------------------------ MODULE WorkspaceLinkProofs ------------------------
(***************************************************************************)
(* Proofs about the shared UI's connection store.                          *)
(*                                                                         *)
(* Two arguments meet in the inductive invariant IInv.  Of the schedule    *)
(* (ScheduleOK): a running recovery has one step, pending on the timer or  *)
(* on the wire, and nothing else is under way beside it; a dial that is    *)
(* not such a step, and a disconnect, find no recovery.  Of the news       *)
(* (EventsOK, ConnectedOK): what a late event says in favour of a link is  *)
(* true of the link or taken back by a later event, so a connected store   *)
(* has a link that is up or bad news of it still to come.                  *)
(* On top of it Health says what a recovery finds: the link it is about to *)
(* replace is not up.                                                      *)
(***************************************************************************)
EXTENDS WorkspaceLink, FiniteSetTheorems, TLAPS

Kinds == {"none", "loop", "button", "pick"}
Phases == {"idle", "closing", "dialing", "asking", "trusted", "refused", "restoring"}
States == {"idle", "connecting", "connected", "reconnecting", "lost"}
News == {"idle", "reconnecting", "lost", "connected"}

Loop == [running : BOOLEAN, attempt : Nat, gen : Nat, timer : Nat]
Call == [kind : Kinds, phase : Phases, host : Hosts \cup {NoHost}, gen : Nat,
         prev : Ids \cup {NoId}, id : Ids \cup {NoId}, cancelled : BOOLEAN]
Event == [id : Ids, state : News \cup {"answer", "refusal"}]

TypeOK ==
    /\ owns \in BOOLEAN
    /\ connectionId \in Ids \cup {NoId}
    /\ state \in States
    /\ activeHost \in Hosts \cup {NoHost}
    /\ replacing \in Ids \cup {NoId}
    /\ question \in Calls \cup {NoCall}
    /\ loop \in Loop
    /\ calls \in [Calls -> Call]
    /\ leaving \subseteq Ids
    /\ asking \in Ids \cup {NoId}
    /\ link \in [Ids -> {"new", "up", "retrying", "down", "closed"}]
    /\ events \in Seq(Event)
    /\ crossed \in BOOLEAN
    /\ early \in BOOLEAN

\* What a dial under way carries, given who owns recovery and the loop's generation.
CallOK(c, o, g) ==
    /\ c.phase = "idle" => c.kind = "none"
    /\ c.phase # "idle" => c.kind # "none" /\ c.host # NoHost
    /\ c.phase = "closing" => c.prev # NoId
    /\ c.phase = "restoring" => c.id # NoId
    /\ c.kind = "loop" => ~ o /\ c.gen <= g
CallsOK == \A c \in Calls : CallOK(calls[c], owns, loop.gen)

QuestionOK == question # NoCall => calls[question].phase = "asking"

\* A link that a late event calls connected is up, or a later event takes it
\* back; only a platform that owns recovery sends such events.
Hopeful(e) == e.state \in {"connected", "answer"}
Backed(q, l, o) ==
    \A n \in 1 .. Len(q) : Hopeful(q[n]) =>
        /\ o
        /\ \/ l[q[n].id] = "up"
           \/ \E m \in n + 1 .. Len(q) : q[m].id = q[n].id /\ ~ Hopeful(q[m])
EventsOK == Backed(events, link, owns)

\* The queue holds bad news of link i.
Told(q, i) == \E n \in 1 .. Len(q) : q[n].id = i /\ ~ Hopeful(q[n])

ConnectedOK ==
    state = "connected" =>
        /\ connectionId # NoId
        /\ \/ early
           \/ replacing = connectionId
           \/ link[connectionId] = "up"
           \/ Told(events, connectionId)

IsStep(c) == calls[c].kind = "loop" /\ calls[c].gen = loop.gen
NoStep == \A c \in Calls : ~ IsStep(c)
OneStep == \E c \in Calls : \A d \in Calls : IsStep(d) <=> d = c
LoopOK ==
    /\ loop.timer \in {0, loop.gen}
    /\ owns => ~ loop.running /\ loop.timer = 0
    /\ probe # NoId => ~ owns
    /\ loop.running => loop.gen > 0
ScheduleOK ==
    ~ crossed =>
        /\ loop.running => \/ loop.timer # 0 /\ NoStep
                           \/ loop.timer = 0 /\ OneStep
        /\ ~ loop.running => loop.timer = 0 /\ NoStep
        /\ loop.running => leaving = {} /\ activeHost # NoHost
        /\ \A c \in Active : ~ IsStep(c) => ~ loop.running
        /\ loop.timer # 0 => state # "connected"

IInv == TypeOK /\ CallsOK /\ QuestionOK /\ EventsOK /\ ConnectedOK /\ LoopOK /\ ScheduleOK /\ LeftStaysLeft
-----------------------------------------------------------------------------
(* The events under way                                                    *)

LEMMA AppendEvent ==
    ASSUME NEW q \in Seq(Event), NEW e \in Event
    PROVE  /\ Append(q, e) \in Seq(Event)
           /\ Len(q) \in Nat /\ Len(Append(q, e)) = Len(q) + 1
           /\ \A n \in 1 .. Len(q) : Append(q, e)[n] = q[n]
           /\ Append(q, e)[Len(q) + 1] = e
OBVIOUS

LEMMA EventIds ==
    ASSUME NEW q \in Seq(Event)
    PROVE  \A n \in 1 .. Len(q) : q[n].id \in Ids
<1>1. \A n \in 1 .. Len(q) : q[n] \in Event
  OBVIOUS
<1> QED BY <1>1 DEF Event

LEMMA TailEvent ==
    ASSUME NEW q \in Seq(Event), q # <<>>
    PROVE  /\ Tail(q) \in Seq(Event) /\ Head(q) \in Event /\ Head(q) = q[1]
           /\ Len(q) \in Nat /\ Len(q) > 0 /\ Len(Tail(q)) = Len(q) - 1
           /\ \A n \in 1 .. Len(Tail(q)) : Tail(q)[n] = q[n + 1]
OBVIOUS

\* Bad news of a link backs whatever was said of it before.
LEMMA BadNews ==
    ASSUME NEW q \in Seq(Event), NEW l, NEW l2, NEW o, NEW e \in Event, Backed(q, l, o),
           ~ Hopeful(e), \A i \in Ids : i # e.id => l2[i] = l[i]
    PROVE  Backed(Append(q, e), l2, o)
<1> DEFINE r == Append(q, e)
<1>1. /\ r \in Seq(Event) /\ Len(q) \in Nat /\ Len(r) = Len(q) + 1
      /\ \A n \in 1 .. Len(q) : r[n] = q[n]
      /\ r[Len(q) + 1] = e
  BY AppendEvent
<1> HIDE DEF r
<1>2. SUFFICES ASSUME NEW n \in 1 .. Len(r), Hopeful(r[n])
               PROVE  /\ o
                      /\ \/ l2[r[n].id] = "up"
                         \/ \E m \in n + 1 .. Len(r) : r[m].id = r[n].id /\ ~ Hopeful(r[m])
  BY DEF Backed, r
<1>3. n \in 1 .. Len(q) /\ r[n] = q[n]
  BY <1>1, <1>2
<1>4. /\ o
      /\ \/ l[q[n].id] = "up"
         \/ \E m \in n + 1 .. Len(q) : q[m].id = q[n].id /\ ~ Hopeful(q[m])
  BY <1>2, <1>3 DEF Backed
<1>5. q[n].id \in Ids
  BY <1>3, EventIds
<1>6. CASE q[n].id = e.id
  <2>1. Len(q) + 1 \in n + 1 .. Len(r)
    BY <1>1, <1>3
  <2> QED BY <1>1, <1>3, <1>4, <1>6, <2>1
<1>7. CASE q[n].id # e.id /\ l[q[n].id] = "up"
  BY <1>3, <1>4, <1>5, <1>7
<1>8. ASSUME NEW m \in n + 1 .. Len(q), q[m].id = q[n].id, ~ Hopeful(q[m])
      PROVE  m \in n + 1 .. Len(r) /\ r[m].id = r[n].id /\ ~ Hopeful(r[m])
  BY <1>1, <1>3, <1>8
<1> QED BY <1>4, <1>6, <1>7, <1>8

\* Good news is said of a link that is up.
LEMMA GoodNews ==
    ASSUME NEW q \in Seq(Event), NEW l, NEW l2, NEW e \in Event, Backed(q, l, TRUE),
           l2[e.id] = "up", \A i \in Ids : i # e.id => l2[i] = l[i]
    PROVE  Backed(Append(q, e), l2, TRUE)
<1> DEFINE r == Append(q, e)
<1>1. /\ r \in Seq(Event) /\ Len(q) \in Nat /\ Len(r) = Len(q) + 1
      /\ \A n \in 1 .. Len(q) : r[n] = q[n]
      /\ r[Len(q) + 1] = e
  BY AppendEvent
<1> HIDE DEF r
<1>2. SUFFICES ASSUME NEW n \in 1 .. Len(r), Hopeful(r[n])
               PROVE  \/ l2[r[n].id] = "up"
                      \/ \E m \in n + 1 .. Len(r) : r[m].id = r[n].id /\ ~ Hopeful(r[m])
  BY DEF Backed, r
<1>3. CASE r[n].id = e.id
  BY <1>3
<1>4. CASE r[n].id # e.id
  <2>1. n \in 1 .. Len(q) /\ r[n] = q[n]
    BY <1>1, <1>4
  <2>2. \/ l[q[n].id] = "up"
        \/ \E m \in n + 1 .. Len(q) : q[m].id = q[n].id /\ ~ Hopeful(q[m])
    BY <1>2, <2>1 DEF Backed
  <2>3. q[n].id \in Ids
    BY <2>1, EventIds
  <2>4. ASSUME NEW m \in n + 1 .. Len(q), q[m].id = q[n].id, ~ Hopeful(q[m])
        PROVE  m \in n + 1 .. Len(r) /\ r[m].id = r[n].id /\ ~ Hopeful(r[m])
    BY <1>1, <2>1, <2>4
  <2> QED BY <1>4, <2>1, <2>2, <2>3, <2>4
<1> QED BY <1>3, <1>4

\* What is said of links that are up does not depend on the others.
LEMMA NoNews ==
    ASSUME NEW q \in Seq(Event), NEW l, NEW l2, NEW o, Backed(q, l, o),
           \A i \in Ids : l2[i] = l[i] \/ l[i] # "up"
    PROVE  Backed(q, l2, o)
<1>1. \A n \in 1 .. Len(q) : q[n].id \in Ids
  BY EventIds
<1> QED BY <1>1 DEF Backed

\* What is heard was backed by the link or by what comes after it.
LEMMA HeardNews ==
    ASSUME NEW q \in Seq(Event), NEW l, NEW o, Backed(q, l, o), q # <<>>
    PROVE  /\ Backed(Tail(q), l, o)
           /\ Hopeful(Head(q)) => o /\ (l[Head(q).id] = "up" \/ Told(Tail(q), Head(q).id))
<1> DEFINE r == Tail(q)
<1>1. /\ r \in Seq(Event) /\ Head(q) = q[1]
      /\ Len(q) \in Nat /\ Len(q) > 0 /\ Len(r) = Len(q) - 1
      /\ \A n \in 1 .. Len(r) : r[n] = q[n + 1]
  BY TailEvent
<1> HIDE DEF r
<1>2. ASSUME NEW n \in 1 .. Len(r), Hopeful(r[n])
      PROVE  /\ o
             /\ \/ l[r[n].id] = "up"
                \/ \E m \in n + 1 .. Len(r) : r[m].id = r[n].id /\ ~ Hopeful(r[m])
  <2>1. n + 1 \in 1 .. Len(q) /\ r[n] = q[n + 1]
    BY <1>1
  <2>2. /\ o
        /\ \/ l[r[n].id] = "up"
           \/ \E m \in (n + 1) + 1 .. Len(q) : q[m].id = r[n].id /\ ~ Hopeful(q[m])
    BY <1>2, <2>1 DEF Backed
  <2>3. ASSUME NEW m \in (n + 1) + 1 .. Len(q), q[m].id = r[n].id, ~ Hopeful(q[m])
        PROVE  m - 1 \in n + 1 .. Len(r) /\ r[m - 1].id = r[n].id /\ ~ Hopeful(r[m - 1])
    <3>1. m - 1 \in n + 1 .. Len(r) /\ m - 1 \in 1 .. Len(r) /\ (m - 1) + 1 = m
      BY <1>1
    <3> QED BY <1>1, <2>3, <3>1
  <2> QED BY <2>2, <2>3
<1>3. ASSUME Hopeful(q[1])
      PROVE  o /\ (l[q[1].id] = "up" \/ Told(r, q[1].id))
  <2>1. /\ o
        /\ \/ l[q[1].id] = "up"
           \/ \E m \in 1 + 1 .. Len(q) : q[m].id = q[1].id /\ ~ Hopeful(q[m])
    BY <1>1, <1>3 DEF Backed
  <2>2. ASSUME NEW m \in 1 + 1 .. Len(q), q[m].id = q[1].id, ~ Hopeful(q[m])
        PROVE  Told(r, q[1].id)
    <3>1. m - 1 \in 1 .. Len(r) /\ (m - 1) + 1 = m
      BY <1>1
    <3>2. r[m - 1] = q[m]
      BY <1>1, <3>1
    <3> QED BY <2>2, <3>1, <3>2 DEF Told
  <2> QED BY <2>1, <2>2
<1> QED BY <1>1, <1>2, <1>3 DEF Backed, r

LEMMA ToldMore ==
    ASSUME NEW q \in Seq(Event), NEW i, NEW e \in Event, Told(q, i) \/ (e.id = i /\ ~ Hopeful(e))
    PROVE  Told(Append(q, e), i)
<1> DEFINE r == Append(q, e)
<1>1. /\ Len(q) \in Nat /\ Len(r) = Len(q) + 1
      /\ \A n \in 1 .. Len(q) : r[n] = q[n]
      /\ r[Len(q) + 1] = e
  BY AppendEvent
<1> HIDE DEF r
<1>2. CASE e.id = i /\ ~ Hopeful(e)
  <2>1. Len(q) + 1 \in 1 .. Len(r)
    BY <1>1
  <2> QED BY <1>1, <1>2, <2>1 DEF Told, r
<1>3. ASSUME NEW n \in 1 .. Len(q), q[n].id = i, ~ Hopeful(q[n])
      PROVE  n \in 1 .. Len(r) /\ r[n].id = i /\ ~ Hopeful(r[n])
  BY <1>1, <1>3
<1> QED BY <1>2, <1>3 DEF Told, r

LEMMA ToldStill ==
    ASSUME NEW q \in Seq(Event), NEW i, q # <<>>, Told(q, i), Head(q).id # i \/ Hopeful(Head(q))
    PROVE  Told(Tail(q), i)
<1> DEFINE r == Tail(q)
<1>1. /\ Head(q) = q[1] /\ Len(q) \in Nat /\ Len(q) > 0 /\ Len(r) = Len(q) - 1
      /\ \A n \in 1 .. Len(r) : r[n] = q[n + 1]
  BY TailEvent
<1> HIDE DEF r
<1>2. PICK n \in 1 .. Len(q) : q[n].id = i /\ ~ Hopeful(q[n])
  BY DEF Told
<1>3. n # 1
  BY <1>1, <1>2
<1>4. n - 1 \in 1 .. Len(r) /\ (n - 1) + 1 = n
  BY <1>1, <1>3
<1>5. r[n - 1] = q[n]
  BY <1>1, <1>4
<1> QED BY <1>2, <1>4, <1>5 DEF Told, r

-----------------------------------------------------------------------------
(* The calls                                                               *)

LEMMA CallSet ==
    ASSUME NEW f \in [Calls -> Call], NEW c \in Calls, NEW r \in Call,
           NEW g, g = [f EXCEPT ![c] = r]
    PROVE  /\ g \in [Calls -> Call]
           /\ g[c] = r
           /\ \A d \in Calls : d # c => g[d] = f[d]
OBVIOUS

LEMMA IdleFacts ==
    /\ Idle \in Call
    /\ Idle.kind = "none" /\ Idle.phase = "idle" /\ ~ Idle.cancelled
BY DEF Idle, Call, Kinds, Phases

\* The call in another phase.
LEMMA PhaseFacts ==
    ASSUME NEW c \in Call, NEW p \in Phases, NEW r, r = [c EXCEPT !.phase = p]
    PROVE  /\ r \in Call /\ r.phase = p
           /\ r.kind = c.kind /\ r.host = c.host /\ r.gen = c.gen
           /\ r.prev = c.prev /\ r.id = c.id /\ r.cancelled = c.cancelled
BY DEF Call

\* What the schedule sees of a call.
Alike(a, b) == b.kind = a.kind /\ b.gen = a.gen /\ (b.phase = "idle" <=> a.phase = "idle")

LEMMA ScheduleSame ==
    ASSUME ScheduleOK, \A c \in Calls : Alike(calls[c], calls'[c]), loop' = loop,
           crossed => crossed',
           leaving' \subseteq leaving,
           activeHost' = activeHost \/ activeHost' # NoHost \/ leaving # {},
           state' = state \/ state' # "connected" \/ loop.timer = 0
    PROVE  ScheduleOK'
<1>1. \A c \in Calls : IsStep(c)' <=> IsStep(c)
  BY DEF Alike, IsStep
<1>2. Active' = Active
  BY DEF Alike, Active
<1>3. (NoStep' <=> NoStep) /\ (OneStep' <=> OneStep)
  BY <1>1 DEF NoStep, OneStep
<1>4. CASE crossed'
  BY <1>4 DEF ScheduleOK
<1>5. CASE ~ crossed'
  BY <1>1, <1>2, <1>3, <1>5 DEF ScheduleOK, Active
<1> QED BY <1>4, <1>5

\* A user who left is left alone while something is under way.
LEMMA BusyIsNotQuiet ==
    ASSUME LeftStaysLeft, NEW c \in Calls, calls[c].phase # "idle"
    PROVE  left # "quiet"
BY DEF LeftStaysLeft, Active

LEMMA CloseLinkFacts ==
    ASSUME TypeOK, EventsOK, UNCHANGED owns, NEW i \in Ids, CloseLink(i)
    PROVE  /\ link' \in [Ids -> {"new", "up", "retrying", "down", "closed"}]
           /\ events' \in Seq(Event)
           /\ EventsOK'
<1> DEFINE e == [id |-> i, state |-> "idle"]
<1>1. /\ link \in [Ids -> {"new", "up", "retrying", "down", "closed"}]
      /\ link' = [link EXCEPT ![i] = "closed"]
      /\ events \in Seq(Event) /\ Backed(events, link, owns)
  BY DEF CloseLink, TypeOK, EventsOK
<1>2. link' \in [Ids -> {"new", "up", "retrying", "down", "closed"}] /\ \A j \in Ids : j # i => link'[j] = link[j]
  BY <1>1
<1>3. e \in Event /\ ~ Hopeful(e) /\ e.id = i
  BY DEF Event, Hopeful, News
<1>4. CASE link[i] \in {"up", "retrying"}
  <2>1. events' = Append(events, e)
    BY <1>4 DEF CloseLink
  <2> HIDE DEF e
  <2>2. events' \in Seq(Event)
    BY <1>1, <1>3, <2>1, AppendEvent
  <2>3. Backed(events', link', owns)
    BY <1>1, <1>2, <1>3, <2>1, BadNews
  <2> QED BY <1>2, <2>2, <2>3 DEF EventsOK
<1>5. CASE link[i] \notin {"up", "retrying"}
  <2>1. events' = events
    BY <1>5 DEF CloseLink
  <2>2. \A j \in Ids : link'[j] = link[j] \/ link[j] # "up"
    BY <1>2, <1>5
  <2>3. Backed(events, link', owns)
    BY <1>1, <2>2, NoNews
  <2> QED BY <1>1, <1>2, <2>1, <2>3 DEF EventsOK
<1> QED BY <1>4, <1>5

-----------------------------------------------------------------------------
(* The steps                                                               *)

LEMMA ClosedStep ==
    ASSUME IInv, NEW c \in Calls, Closed(c)
    PROVE  IInv'
<1> DEFINE r == [calls[c] EXCEPT !.phase = "dialing"]
<1>1. /\ TypeOK /\ CallsOK /\ QuestionOK /\ EventsOK /\ LoopOK /\ ScheduleOK /\ LeftStaysLeft
  BY DEF IInv
<1>2. /\ calls[c].phase = "closing" /\ CloseLink(calls[c].prev)
      /\ calls' = [calls EXCEPT ![c] = r] /\ state' = "connecting" /\ activeHost' = calls[c].host
      /\ UNCHANGED <<owns, connectionId, replacing, question, loop, leaving, probe, asking, left,
                     crossed, early>>
  BY DEF Closed, Claim, ghosts
<1>3. calls \in [Calls -> Call] /\ calls[c] \in Call
  BY <1>1 DEF TypeOK
<1>4. CallOK(calls[c], owns, loop.gen)
  BY <1>1 DEF CallsOK
<1>5. calls[c].prev \in Ids /\ calls[c].host \in Hosts
  BY <1>2, <1>3, <1>4 DEF Call, CallOK
<1>6. /\ r \in Call /\ r.phase = "dialing"
      /\ r.kind = calls[c].kind /\ r.host = calls[c].host /\ r.gen = calls[c].gen
  BY <1>3, PhaseFacts DEF Phases
<1> HIDE DEF r
<1>7. /\ calls' \in [Calls -> Call] /\ calls'[c] = r
      /\ \A d \in Calls : d # c => calls'[d] = calls[d]
  BY <1>2, <1>3, <1>6, CallSet
<1>8. /\ link' \in [Ids -> {"new", "up", "retrying", "down", "closed"}]
      /\ events' \in Seq(Event) /\ EventsOK'
  BY <1>1, <1>2, <1>5, CloseLinkFacts
<1>9. TypeOK'
  BY <1>1, <1>2, <1>5, <1>7, <1>8 DEF TypeOK, States
<1>10. CallsOK'
  BY <1>1, <1>2, <1>4, <1>6, <1>7 DEF CallsOK, CallOK
<1>11. QuestionOK'
  BY <1>1, <1>2, <1>7 DEF QuestionOK, TypeOK
<1>12. ConnectedOK'
  BY <1>2 DEF ConnectedOK
<1>13. LoopOK'
  BY <1>1, <1>2 DEF LoopOK
<1>14. ScheduleOK'
  <2>1. \A d \in Calls : Alike(calls[d], calls'[d])
    BY <1>2, <1>6, <1>7 DEF Alike
  <2>2. activeHost' # NoHost
    BY <1>2, <1>5, BoundsAssumption
  <2> QED BY <1>1, <1>2, <2>1, <2>2, ScheduleSame
<1>15. LeftStaysLeft'
  BY <1>1, <1>2, BusyIsNotQuiet DEF LeftStaysLeft
<1> QED BY <1>8, <1>9, <1>10, <1>11, <1>12, <1>13, <1>14, <1>15 DEF IInv

\* The calls go on in other phases and nothing else changes but links that
\* were not up.
LEMMA PhasesStep ==
    ASSUME IInv, calls' \in [Calls -> Call],
           \A c \in Calls : Alike(calls[c], calls'[c]) /\ CallOK(calls'[c], owns, loop.gen),
           question' \in Calls \cup {NoCall}, question' # NoCall => calls'[question'].phase = "asking",
           link' \in [Ids -> {"new", "up", "retrying", "down", "closed"}],
           \A i \in Ids : link'[i] = link[i] \/ link[i] # "up",
           UNCHANGED <<owns, connectionId, state, activeHost, replacing, loop, leaving, probe, asking,
                       events, left, crossed, early>>
    PROVE  IInv'
<1>1. /\ TypeOK /\ CallsOK /\ QuestionOK /\ EventsOK /\ ConnectedOK /\ LoopOK /\ ScheduleOK /\ LeftStaysLeft
  BY DEF IInv
<1>2. TypeOK'
  BY <1>1 DEF TypeOK
<1>3. CallsOK'
  BY DEF CallsOK
<1>4. QuestionOK'
  BY DEF QuestionOK
<1>5. events \in Seq(Event) /\ connectionId \in Ids \cup {NoId}
  BY <1>1 DEF TypeOK
<1>6. EventsOK'
  BY <1>1, <1>5, NoNews DEF EventsOK
<1>7. ConnectedOK'
  BY <1>1, <1>5 DEF ConnectedOK
<1>8. LoopOK'
  BY <1>1 DEF LoopOK
<1>9. ScheduleOK'
  BY <1>1, ScheduleSame
<1>10. Active' = Active
  BY DEF Active, Alike
<1>11. LeftStaysLeft'
  BY <1>1, <1>10 DEF LeftStaysLeft
<1> QED BY <1>2, <1>3, <1>4, <1>6, <1>7, <1>8, <1>9, <1>11 DEF IInv

LEMMA AsksStep ==
    ASSUME IInv, NEW c \in Calls, Asks(c)
    PROVE  IInv'
<1>1. TypeOK /\ CallsOK /\ QuestionOK
  BY DEF IInv
<1>2. calls \in [Calls -> Call] /\ link \in [Ids -> {"new", "up", "retrying", "down", "closed"}]
  BY <1>1 DEF TypeOK
<1> DEFINE ask(d) == [calls[d] EXCEPT !.phase = "asking"]
           refuse(d) == [calls[d] EXCEPT !.phase = "refused"]
<1>3. \A d \in Calls : /\ ask(d) \in Call /\ ask(d).phase = "asking"
                       /\ ask(d).kind = calls[d].kind /\ ask(d).host = calls[d].host
                       /\ ask(d).gen = calls[d].gen
                       /\ refuse(d) \in Call /\ refuse(d).phase = "refused"
                       /\ refuse(d).kind = calls[d].kind /\ refuse(d).host = calls[d].host
                       /\ refuse(d).gen = calls[d].gen
  <2> TAKE d \in Calls
  <2>1. calls[d] \in Call
    BY <1>2
  <2>2. {"asking", "refused"} \subseteq Phases
    BY DEF Phases
  <2> QED BY <2>1, <2>2, PhaseFacts
<1>4. /\ calls[c].phase = "dialing" /\ question' = c
      /\ calls' = [d \in Calls |-> IF d = c THEN ask(d)
                                   ELSE IF d = question THEN refuse(d) ELSE calls[d]]
      /\ UNCHANGED <<owns, connectionId, state, activeHost, replacing, loop, leaving, probe, asking,
                     link, events, left, crossed, early>>
  BY DEF Asks, ghosts
<1> HIDE DEF ask, refuse
<1>5. /\ calls' \in [Calls -> Call]
      /\ calls'[c] = ask(c)
      /\ \A d \in Calls : d # c => calls'[d] = IF d = question THEN refuse(d) ELSE calls[d]
  BY <1>2, <1>3, <1>4
<1>6. \A d \in Calls : d = question => calls[d].phase = "asking"
  BY <1>1, BoundsAssumption DEF QuestionOK
<1>7. ASSUME NEW d \in Calls
      PROVE  Alike(calls[d], calls'[d]) /\ CallOK(calls'[d], owns, loop.gen)
  <2>1. CallOK(calls[d], owns, loop.gen)
    BY <1>1 DEF CallsOK
  <2>2. CASE d = c
    BY <1>3, <1>4, <1>5, <2>1, <2>2 DEF Alike, CallOK
  <2>3. CASE d # c /\ d = question
    BY <1>3, <1>5, <1>6, <2>1, <2>3 DEF Alike, CallOK
  <2>4. CASE d # c /\ d # question
    BY <1>5, <2>1, <2>4 DEF Alike
  <2> QED BY <2>2, <2>3, <2>4
<1>8. question' \in Calls \cup {NoCall} /\ calls'[question'].phase = "asking"
  BY <1>3, <1>4, <1>5
<1> QED BY <1>2, <1>4, <1>5, <1>7, <1>8, PhasesStep

LEMMA AnswerTrustStep ==
    ASSUME IInv, NEW ok \in BOOLEAN, AnswerTrust(ok)
    PROVE  IInv'
<1> DEFINE c == question
           p == IF ok THEN "trusted" ELSE "refused"
           r == [calls[c] EXCEPT !.phase = p]
<1>1. TypeOK /\ CallsOK /\ QuestionOK
  BY DEF IInv
<1>2. calls \in [Calls -> Call] /\ link \in [Ids -> {"new", "up", "retrying", "down", "closed"}]
  BY <1>1 DEF TypeOK
<1>3. c \in Calls /\ calls[c].phase = "asking" /\ calls[c] \in Call
  BY <1>1, <1>2 DEF AnswerTrust, TypeOK, QuestionOK
<1>4. /\ question' = NoCall
      /\ calls' = [calls EXCEPT ![c] = r]
      /\ UNCHANGED <<owns, connectionId, state, activeHost, replacing, loop, leaving, probe, asking,
                     link, events, left, crossed, early>>
  BY DEF AnswerTrust, ghosts
<1>5. p \in {"trusted", "refused"} /\ p \in Phases
  BY DEF Phases
<1> HIDE DEF c, p
<1>6. /\ r \in Call /\ r.phase = p
      /\ r.kind = calls[c].kind /\ r.host = calls[c].host /\ r.gen = calls[c].gen
  BY <1>3, <1>5, PhaseFacts
<1> HIDE DEF r
<1>7. /\ calls' \in [Calls -> Call] /\ calls'[c] = r
      /\ \A d \in Calls : d # c => calls'[d] = calls[d]
  BY <1>2, <1>3, <1>4, <1>6, CallSet
<1>8. ASSUME NEW d \in Calls
      PROVE  Alike(calls[d], calls'[d]) /\ CallOK(calls'[d], owns, loop.gen)
  <2>1. CallOK(calls[d], owns, loop.gen)
    BY <1>1 DEF CallsOK
  <2> QED BY <1>3, <1>5, <1>6, <1>7, <2>1 DEF Alike, CallOK
<1> QED BY <1>2, <1>4, <1>7, <1>8, PhasesStep

LEMMA DialWorksStep ==
    ASSUME IInv, NEW c \in Calls, DialWorks(c)
    PROVE  IInv'
<1> DEFINE i == CHOOSE j \in Ids : link[j] = "new"
           r == [calls[c] EXCEPT !.phase = "restoring", !.id = i]
<1>1. TypeOK /\ CallsOK /\ QuestionOK
  BY DEF IInv
<1>2. calls \in [Calls -> Call] /\ link \in [Ids -> {"new", "up", "retrying", "down", "closed"}]
      /\ question \in Calls \cup {NoCall}
  BY <1>1 DEF TypeOK
<1>3. i \in Ids /\ link[i] = "new"
  BY DEF DialWorks
<1>4. /\ calls[c].phase \in {"dialing", "trusted"}
      /\ link' = [link EXCEPT ![i] = "up"]
      /\ calls' = [calls EXCEPT ![c] = r]
      /\ UNCHANGED <<owns, connectionId, state, activeHost, replacing, loop, leaving, probe, asking,
                     question, events, left, crossed, early>>
  BY <1>2 DEF DialWorks, ghosts, store
<1>5. calls[c] \in Call
  BY <1>2
<1> HIDE DEF i
<1>6. /\ r \in Call /\ r.phase = "restoring" /\ r.id = i
      /\ r.kind = calls[c].kind /\ r.host = calls[c].host /\ r.gen = calls[c].gen
  BY <1>3, <1>5 DEF Call, Phases
<1> HIDE DEF r
<1>7. /\ calls' \in [Calls -> Call] /\ calls'[c] = r
      /\ \A d \in Calls : d # c => calls'[d] = calls[d]
  BY <1>2, <1>4, <1>6, CallSet
<1>8. ASSUME NEW d \in Calls
      PROVE  Alike(calls[d], calls'[d]) /\ CallOK(calls'[d], owns, loop.gen)
  <2>1. CallOK(calls[d], owns, loop.gen)
    BY <1>1 DEF CallsOK
  <2>2. i # NoId
    BY <1>3, BoundsAssumption
  <2> QED BY <1>4, <1>6, <1>7, <2>1, <2>2 DEF Alike, CallOK
<1>9. link' \in [Ids -> {"new", "up", "retrying", "down", "closed"}]
      /\ \A j \in Ids : link'[j] = link[j] \/ link[j] # "up"
  BY <1>2, <1>3, <1>4
<1>10. question' # NoCall => calls'[question'].phase = "asking"
  BY <1>1, <1>2, <1>4, <1>7 DEF QuestionOK
<1> QED BY <1>2, <1>4, <1>7, <1>8, <1>9, <1>10, PhasesStep

LEMMA CancelDialStep ==
    ASSUME IInv, NEW c \in Calls, CancelDial(c)
    PROVE  IInv'
<1> DEFINE r == [calls[c] EXCEPT !.cancelled = TRUE]
<1>1. TypeOK /\ CallsOK /\ QuestionOK
  BY DEF IInv
<1>2. calls \in [Calls -> Call] /\ link \in [Ids -> {"new", "up", "retrying", "down", "closed"}]
      /\ question \in Calls \cup {NoCall}
  BY <1>1 DEF TypeOK
<1>3. /\ calls' = [calls EXCEPT ![c] = r]
      /\ UNCHANGED <<owns, connectionId, state, activeHost, replacing, loop, leaving, probe, asking,
                     question, link, events, left, crossed, early>>
  BY <1>2 DEF CancelDial, ghosts, store
<1>4. calls[c] \in Call
  BY <1>2
<1>5. /\ r \in Call /\ r.phase = calls[c].phase /\ r.id = calls[c].id /\ r.prev = calls[c].prev
      /\ r.kind = calls[c].kind /\ r.host = calls[c].host /\ r.gen = calls[c].gen
  BY <1>4 DEF Call
<1> HIDE DEF r
<1>6. /\ calls' \in [Calls -> Call] /\ calls'[c] = r
      /\ \A d \in Calls : d # c => calls'[d] = calls[d]
  BY <1>2, <1>3, <1>5, CallSet
<1>7. ASSUME NEW d \in Calls
      PROVE  Alike(calls[d], calls'[d]) /\ CallOK(calls'[d], owns, loop.gen)
  <2>1. CallOK(calls[d], owns, loop.gen)
    BY <1>1 DEF CallsOK
  <2> QED BY <1>5, <1>6, <2>1 DEF Alike, CallOK
<1>8. question' # NoCall => calls'[question'].phase = "asking"
  BY <1>1, <1>2, <1>3, <1>5, <1>6 DEF QuestionOK
<1> QED BY <1>2, <1>3, <1>6, <1>7, <1>8, PhasesStep

\* The calls and the loop are left alone.
LEMMA OthersStep ==
    ASSUME IInv, UNCHANGED <<owns, calls, question, loop, early>>, probe' # NoId => ~ owns,
           crossed' \in BOOLEAN, crossed => crossed',
           connectionId' \in Ids \cup {NoId}, state' \in States,
           activeHost' \in Hosts \cup {NoHost}, replacing' \in Ids \cup {NoId},
           leaving' \subseteq leaving, asking' \in Ids \cup {NoId},
           link' \in [Ids -> {"new", "up", "retrying", "down", "closed"}], events' \in Seq(Event),
           activeHost' = activeHost \/ leaving # {},
           state' = state \/ state' # "connected" \/ loop.timer = 0,
           EventsOK', ConnectedOK', LeftStaysLeft'
    PROVE  IInv'
<1>1. /\ TypeOK /\ CallsOK /\ QuestionOK /\ LoopOK /\ ScheduleOK
  BY DEF IInv
<1>2. TypeOK'
  BY <1>1 DEF TypeOK
<1>3. CallsOK'
  BY <1>1 DEF CallsOK
<1>4. QuestionOK'
  BY <1>1 DEF QuestionOK
<1>5. LoopOK'
  BY <1>1 DEF LoopOK
<1>6. \A c \in Calls : Alike(calls[c], calls'[c])
  BY DEF Alike
<1>7. ScheduleOK'
  BY <1>1, <1>6, ScheduleSame
<1> QED BY <1>2, <1>3, <1>4, <1>5, <1>7 DEF IInv

LEMMA DisconnectedStep ==
    ASSUME IInv, NEW i \in Ids, Disconnected(i)
    PROVE  IInv'
<1>1. /\ TypeOK /\ EventsOK /\ LoopOK /\ ScheduleOK /\ LeftStaysLeft
  BY DEF IInv
<1>2. /\ i \in leaving /\ leaving' = leaving \ {i} /\ CloseLink(i) /\ Leaves(leaving')
      /\ connectionId' = NoId /\ replacing' = NoId /\ state' = "idle" /\ activeHost' = NoHost
      /\ UNCHANGED <<owns, question, loop, calls, probe, asking, crossed, early>>
  BY DEF Disconnected, Reset
<1>3. /\ link' \in [Ids -> {"new", "up", "retrying", "down", "closed"}]
      /\ events' \in Seq(Event) /\ EventsOK'
  BY <1>1, <1>2, CloseLinkFacts
<1>4. ConnectedOK'
  BY <1>2 DEF ConnectedOK
<1>5. LeftStaysLeft'
  <2>1. left' = "quiet" => ~ crossed /\ Active = {}
    BY <1>2 DEF Leaves
  <2>2. Active' = Active
    BY <1>2 DEF Active
  <2>3. ~ crossed => ~ loop.running /\ loop.timer = 0
    BY <1>1, <1>2 DEF ScheduleOK
  <2> QED BY <1>2, <2>1, <2>2, <2>3 DEF LeftStaysLeft
<1>6. asking \in Ids \cup {NoId} /\ "idle" \in States /\ (probe # NoId => ~ owns) /\ crossed \in BOOLEAN
  BY <1>1 DEF TypeOK, States, LoopOK
<1> QED BY <1>2, <1>3, <1>4, <1>5, <1>6, OthersStep

LEMMA CloseRejectedStep ==
    ASSUME IInv, NEW i \in Ids, CloseRejected(i)
    PROVE  IInv'
<1>1. /\ TypeOK /\ EventsOK /\ ConnectedOK /\ LoopOK /\ LeftStaysLeft
  BY DEF IInv
<1>2. /\ leaving' = leaving \ {i}
      /\ UNCHANGED <<owns, connectionId, state, activeHost, replacing, question, loop, calls, probe,
                     asking, link, events, left, crossed, early>>
  BY DEF CloseRejected, ghosts, store
<1>3. EventsOK' /\ ConnectedOK' /\ LeftStaysLeft'
  BY <1>1, <1>2 DEF EventsOK, ConnectedOK, LeftStaysLeft, Active
<1> QED BY <1>1, <1>2, <1>3, OthersStep DEF TypeOK, LoopOK

\* Bad news of a link that is not up now.
LEMMA BadNewsKeeps ==
    ASSUME TypeOK, EventsOK, ConnectedOK, NEW e \in Event, ~ Hopeful(e),
           UNCHANGED <<owns, connectionId, state, replacing, early>>, events' = Append(events, e),
           \A i \in Ids : i # e.id => link'[i] = link[i]
    PROVE  events' \in Seq(Event) /\ EventsOK' /\ ConnectedOK'
<1>1. events \in Seq(Event)
  BY DEF TypeOK
<1>2. events' \in Seq(Event)
  BY <1>1, AppendEvent
<1>3. Backed(events', link', owns)
  BY <1>1, BadNews DEF EventsOK
<1>4. ASSUME state = "connected"
      PROVE  \/ early \/ replacing = connectionId \/ link'[connectionId] = "up"
             \/ Told(events', connectionId)
  <2>1. CASE connectionId = e.id
    BY <1>1, <2>1, ToldMore
  <2>2. CASE connectionId # e.id
    <3>1. connectionId \in Ids
      BY <1>4 DEF ConnectedOK, TypeOK
    <3>2. Told(events, connectionId) => Told(events', connectionId)
      BY <1>1, ToldMore
    <3> QED BY <1>4, <2>2, <3>1, <3>2 DEF ConnectedOK
  <2> QED BY <2>1, <2>2
<1> QED BY <1>2, <1>3, <1>4 DEF EventsOK, ConnectedOK

LEMMA DropStep ==
    ASSUME IInv, NEW i \in Ids, Drop(i)
    PROVE  IInv'
<1> DEFINE e == [id |-> i, state |-> IF owns THEN "reconnecting" ELSE "lost"]
<1>1. /\ TypeOK /\ EventsOK /\ ConnectedOK /\ LoopOK /\ LeftStaysLeft
  BY DEF IInv
<1>2. /\ link' = [link EXCEPT ![i] = IF owns THEN "retrying" ELSE "down"]
      /\ events' = Append(events, e)
      /\ UNCHANGED <<owns, connectionId, state, activeHost, replacing, question, loop, calls, leaving,
                     probe, asking, left, crossed, early>>
  BY DEF Drop, ghosts, store, work
<1>3. /\ link' \in [Ids -> {"new", "up", "retrying", "down", "closed"}]
      /\ \A j \in Ids : j # i => link'[j] = link[j]
  BY <1>1, <1>2 DEF TypeOK
<1>4. e \in Event /\ ~ Hopeful(e) /\ e.id = i
  BY DEF Event, Hopeful, News
<1> HIDE DEF e
<1>5. events' \in Seq(Event) /\ EventsOK' /\ ConnectedOK'
  BY <1>1, <1>2, <1>3, <1>4, BadNewsKeeps
<1>6. LeftStaysLeft'
  BY <1>1, <1>2 DEF LeftStaysLeft, Active
<1> QED BY <1>1, <1>2, <1>3, <1>5, <1>6, OthersStep DEF TypeOK, LoopOK

LEMMA AskTransportStep ==
    ASSUME IInv, AskTransport
    PROVE  IInv'
<1> DEFINE i == connectionId
           e == [id |-> i, state |-> IF link[i] = "closed" THEN "refusal" ELSE "reconnecting"]
<1>1. /\ TypeOK /\ EventsOK /\ ConnectedOK /\ LoopOK /\ LeftStaysLeft
  BY DEF IInv
<1>2. /\ i # NoId /\ asking' = i
      /\ UNCHANGED <<owns, connectionId, state, activeHost, replacing, question, loop, calls, leaving,
                     probe, left, crossed, early>>
  BY DEF AskTransport, ghosts
<1>3. i \in Ids
  BY <1>1, <1>2 DEF TypeOK
<1>4. LeftStaysLeft'
  BY <1>1, <1>2 DEF LeftStaysLeft, Active
<1>5. CASE link[i] \in {"up", "retrying"}
  <2>1. UNCHANGED <<link, events>>
    BY <1>5 DEF AskTransport
  <2>2. EventsOK' /\ ConnectedOK'
    BY <1>1, <1>2, <2>1 DEF EventsOK, ConnectedOK
  <2> QED BY <1>1, <1>2, <1>3, <1>4, <2>1, <2>2, OthersStep DEF TypeOK, LoopOK
<1>6. CASE link[i] \notin {"up", "retrying"}
  <2>1. /\ link' = [link EXCEPT ![i] = IF link[i] = "closed" THEN "closed" ELSE "retrying"]
        /\ events' = Append(events, e)
    BY <1>6 DEF AskTransport
  <2>2. /\ link' \in [Ids -> {"new", "up", "retrying", "down", "closed"}]
        /\ \A j \in Ids : j # i => link'[j] = link[j]
    BY <1>1, <1>3, <2>1 DEF TypeOK
  <2>3. e \in Event /\ ~ Hopeful(e) /\ e.id = i
    BY <1>3 DEF Event, Hopeful, News
  <2> HIDE DEF e
  <2>4. events' \in Seq(Event) /\ EventsOK' /\ ConnectedOK'
    BY <1>1, <1>2, <2>1, <2>2, <2>3, BadNewsKeeps
  <2> QED BY <1>1, <1>2, <1>3, <1>4, <2>2, <2>4, OthersStep DEF TypeOK, LoopOK
<1> QED BY <1>5, <1>6

LEMMA LadderEndsStep ==
    ASSUME IInv, NEW i \in Ids, NEW ok \in BOOLEAN, LadderEnds(i, ok)
    PROVE  IInv'
<1> DEFINE e == [id |-> i, state |-> IF ok THEN "connected" ELSE "lost"]
           a == [id |-> i, state |-> IF ok THEN "answer" ELSE "refusal"]
           q == Append(events, e)
<1>1. /\ TypeOK /\ EventsOK /\ ConnectedOK /\ LoopOK /\ LeftStaysLeft
  BY DEF IInv
<1>2. /\ owns /\ link[i] = "retrying"
      /\ link' = [link EXCEPT ![i] = IF ok THEN "up" ELSE "down"]
      /\ events' = q \o (IF asking = i THEN <<a>> ELSE <<>>)
      /\ UNCHANGED <<owns, connectionId, state, activeHost, replacing, question, loop, calls, leaving,
                     probe, asking, left, crossed, early>>
  BY DEF LadderEnds, ghosts, store, work
<1>3. /\ link' \in [Ids -> {"new", "up", "retrying", "down", "closed"}]
      /\ link'[i] = IF ok THEN "up" ELSE "down"
      /\ \A j \in Ids : j # i => link'[j] = link[j]
  BY <1>1, <1>2 DEF TypeOK
<1>4. /\ e \in Event /\ a \in Event /\ e.id = i /\ a.id = i
      /\ (Hopeful(e) <=> ok) /\ (Hopeful(a) <=> ok)
  BY DEF Event, Hopeful, News
<1> HIDE DEF e, a
<1>5. events \in Seq(Event) /\ q \in Seq(Event) /\ Backed(events, link, owns) /\ owns = TRUE
  BY <1>1, <1>2, <1>4 DEF TypeOK, EventsOK
<1>6. Backed(q, link', owns)
  <2>1. CASE ok
    BY <1>3, <1>4, <1>5, <2>1, GoodNews
  <2>2. CASE ~ ok
    BY <1>3, <1>4, <1>5, <2>2, BadNews
  <2> QED BY <2>1, <2>2
<1>7. Backed(Append(q, a), link', owns)
  <2> HIDE DEF q
  <2>1. CASE ok
    BY <1>3, <1>4, <1>5, <1>6, <2>1, GoodNews
  <2>2. CASE ~ ok
    BY <1>3, <1>4, <1>5, <1>6, <2>2, BadNews
  <2> QED BY <2>1, <2>2
<1>8. \/ events' = q
      \/ events' = Append(q, a)
  <2> HIDE DEF q
  <2>1. q \o <<>> = q /\ q \o <<a>> = Append(q, a)
    BY <1>4, <1>5
  <2> QED BY <1>2, <2>1
<1>9. \A j : Told(events, j) => Told(q, j) /\ Told(Append(q, a), j)
  BY <1>4, <1>5, ToldMore
<1>10. ~ ok => Told(q, i) /\ Told(Append(q, a), i)
  BY <1>4, <1>5, ToldMore
<1> HIDE DEF q
<1>11. events' \in Seq(Event) /\ EventsOK'
  BY <1>2, <1>4, <1>5, <1>6, <1>7, <1>8, AppendEvent DEF EventsOK
<1>12. ConnectedOK'
  <2> SUFFICES ASSUME state = "connected"
               PROVE  /\ connectionId # NoId
                      /\ \/ early \/ replacing = connectionId
                         \/ link'[connectionId] = "up" \/ Told(events', connectionId)
    BY <1>2 DEF ConnectedOK
  <2>1. connectionId # NoId /\ connectionId \in Ids
    BY <1>1 DEF ConnectedOK, TypeOK
  <2> QED BY <1>1, <1>3, <1>8, <1>9, <1>10, <2>1 DEF ConnectedOK
<1>13. LeftStaysLeft'
  BY <1>1, <1>2 DEF LeftStaysLeft, Active
<1> QED BY <1>1, <1>2, <1>3, <1>11, <1>12, <1>13, OthersStep DEF TypeOK, LoopOK

LEMMA ProbeStep ==
    ASSUME IInv, Resume \/ ProbeWorks
    PROVE  IInv'
<1>1. /\ TypeOK /\ EventsOK /\ ConnectedOK /\ LoopOK /\ LeftStaysLeft
  BY DEF IInv
<1>2. /\ UNCHANGED <<owns, connectionId, state, activeHost, replacing, question, loop, calls, leaving,
                     asking, link, events, left, crossed, early>>
      /\ probe' # NoId => ~ owns
  BY DEF Resume, ProbeWorks, ghosts, store
<1>3. EventsOK' /\ ConnectedOK' /\ LeftStaysLeft'
  BY <1>1, <1>2 DEF EventsOK, ConnectedOK, LeftStaysLeft, Active
<1> QED BY <1>1, <1>2, <1>3, OthersStep DEF TypeOK

\* What is heard may say that the link is up again, but not that it was lost
\* when only what comes later tells so.
LEMMA HeardKeeps ==
    ASSUME TypeOK, EventsOK, ConnectedOK, events # <<>>, events' = Tail(events),
           UNCHANGED <<owns, connectionId, replacing, link>>, early => early',
           \/ state' # "connected"
           \/ /\ state' = state
              /\ Head(events).id # connectionId \/ Head(events).id = replacing
           \/ Head(events).id = connectionId /\ Hopeful(Head(events))
    PROVE  events' \in Seq(Event) /\ EventsOK' /\ ConnectedOK'
<1>1. events \in Seq(Event) /\ Backed(events, link, owns)
  BY DEF TypeOK, EventsOK
<1>2. /\ events' \in Seq(Event) /\ Head(events) \in Event
      /\ Backed(events', link, owns)
      /\ Hopeful(Head(events)) =>
            link[Head(events).id] = "up" \/ Told(events', Head(events).id)
  BY <1>1, TailEvent, HeardNews
<1>3. EventsOK'
  BY <1>2 DEF EventsOK
<1>4. ASSUME state' = "connected"
      PROVE  /\ connectionId # NoId
             /\ \/ early' \/ replacing = connectionId
                \/ link[connectionId] = "up" \/ Told(events', connectionId)
  <2>1. CASE Head(events).id = connectionId /\ Hopeful(Head(events))
    <3>1. Head(events).id \in Ids
      BY <1>2 DEF Event
    <3> QED BY <1>2, <2>1, <3>1, BoundsAssumption
  <2>2. CASE state' = state /\ (Head(events).id # connectionId \/ Head(events).id = replacing)
    <3>1. Head(events).id # connectionId /\ Told(events, connectionId) => Told(events', connectionId)
      BY <1>1, ToldStill
    <3> QED BY <1>4, <2>2, <3>1 DEF ConnectedOK
  <2> QED BY <1>4, <2>1, <2>2
<1> QED BY <1>2, <1>3, <1>4 DEF ConnectedOK

LEMMA AnsweredStep ==
    ASSUME IInv, Answered
    PROVE  IInv'
<1> DEFINE e == Head(events)
           mine == e.id = connectionId
<1>1. /\ TypeOK /\ EventsOK /\ ConnectedOK /\ LoopOK /\ LeftStaysLeft
  BY DEF IInv
<1>2. /\ events # <<>> /\ e.state \in {"answer", "refusal"}
      /\ events' = Tail(events) /\ asking' = NoId
      /\ state' = IF ~ mine THEN state
                  ELSE IF e.state = "answer" THEN "connected"
                  ELSE IF state = "reconnecting" THEN state ELSE "lost"
      /\ UNCHANGED <<owns, connectionId, activeHost, replacing, question, loop, calls, leaving,
                     probe, link, left, crossed, early>>
  BY DEF Answered, ghosts
<1>3. events \in Seq(Event) /\ Backed(events, link, owns)
  BY <1>1 DEF TypeOK, EventsOK
<1>4. /\ e \in Event
      /\ Hopeful(e) => owns
  BY <1>2, <1>3, TailEvent, HeardNews
<1>5. state' # "connected" \/ (state' = state /\ ~ mine) \/ (mine /\ Hopeful(e))
  BY <1>2 DEF Hopeful
<1>6. events' \in Seq(Event) /\ EventsOK' /\ ConnectedOK'
  BY <1>1, <1>2, <1>5, HeardKeeps
<1>7. e.id \in Ids
  BY <1>4 DEF Event
<1> HIDE DEF e
<1>8. LeftStaysLeft'
  BY <1>1, <1>2, <1>7, BoundsAssumption DEF LeftStaysLeft, Active
<1>9. state' = state \/ state' # "connected" \/ loop.timer = 0
  BY <1>1, <1>4, <1>5 DEF LoopOK
<1>10. state' \in States
  BY <1>1, <1>2 DEF TypeOK, States
<1> QED BY <1>1, <1>2, <1>6, <1>8, <1>9, <1>10, OthersStep DEF TypeOK, LoopOK

-----------------------------------------------------------------------------
(* The loop                                                                *)

LEMMA LoopFields ==
    ASSUME NEW l \in Loop
    PROVE  l.running \in BOOLEAN /\ l.attempt \in Nat /\ l.gen \in Nat /\ l.timer \in Nat
BY DEF Loop

LEMMA SucceedFacts ==
    ASSUME NEW l \in Loop, NEW r, r = Succeeded(l)
    PROVE  r \in Loop /\ ~ r.running /\ r.timer = l.timer /\ r.gen = l.gen
BY DEF Succeeded, Loop

LEMMA ScheduleFacts ==
    ASSUME NEW l \in Loop, NEW r, r = Schedule(l)
    PROVE  /\ r \in Loop /\ r.gen = l.gen
           /\ r.running => l.running /\ r.timer = l.gen
           /\ ~ r.running => r.timer = l.timer
           /\ l.running /\ l.attempt < MaxAttempts => r.running
<1>1. CASE l.running /\ l.attempt < MaxAttempts
  <2> DEFINE n == l.attempt + 1
  <2>1. n \in Nat /\ l.gen \in Nat
    BY LoopFields
  <2>2. r = [l EXCEPT !.attempt = n, !.timer = l.gen]
    BY <1>1 DEF Schedule
  <2> HIDE DEF n
  <2>3. /\ r \in Loop /\ r.gen = l.gen /\ r.timer = l.gen /\ r.running = l.running
    BY <2>1, <2>2 DEF Loop
  <2> QED BY <1>1, <2>3
<1>2. CASE ~ (l.running /\ l.attempt < MaxAttempts)
  <2>1. r = [l EXCEPT !.running = FALSE, !.attempt = 0]
    BY <1>2 DEF Schedule
  <2>2. r \in Loop /\ ~ r.running /\ r.timer = l.timer /\ r.gen = l.gen
    BY <2>1, SucceedFacts DEF Succeeded
  <2> QED BY <1>2, <2>2
<1> QED BY <1>1, <1>2

LEMMA BeginFacts ==
    ASSUME NEW l \in Loop, NEW target, NEW r, r = BeginLoop(l, target)
    PROVE  /\ l.running \/ target = NoHost => r = l
           /\ ~ l.running /\ target # NoHost =>
                 r \in Loop /\ r.running /\ r.gen = l.gen + 1 /\ r.timer = r.gen
<1>1. CASE l.running \/ target = NoHost
  BY <1>1 DEF BeginLoop
<1>2. CASE ~ l.running /\ target # NoHost
  <2> DEFINE n == l.gen + 1
             b == [l EXCEPT !.running = TRUE, !.attempt = 0, !.gen = n]
  <2>1. n \in Nat
    BY LoopFields
  <2>2. r = Schedule(b)
    BY <1>2 DEF BeginLoop
  <2> HIDE DEF n
  <2>3. b \in Loop /\ b.running /\ b.attempt = 0 /\ b.gen = n
    BY <2>1 DEF Loop
  <2>4. 0 < MaxAttempts
    BY BoundsAssumption
  <2> HIDE DEF b
  <2>5. r \in Loop /\ r.running /\ r.gen = n /\ r.timer = n
    BY <2>2, <2>3, <2>4, ScheduleFacts
  <2> QED BY <1>2, <2>5 DEF n
<1> QED BY <1>1, <1>2

LEMMA DisarmFacts ==
    ASSUME NEW l \in Loop, NEW r, r = [l EXCEPT !.timer = 0]
    PROVE  r \in Loop /\ r.running = l.running /\ r.timer = 0 /\ r.gen = l.gen
BY DEF Loop

LEMMA CancelFacts ==
    ASSUME NEW l \in Loop, NEW r, r = Cancelled(l)
    PROVE  r \in Loop /\ ~ r.running /\ r.timer = 0 /\ r.gen = l.gen + 1
<1> DEFINE n == l.gen + 1
           s == Succeeded(l)
           t == [s EXCEPT !.timer = 0]
<1>1. n \in Nat
  BY LoopFields
<1>2. s \in Loop /\ ~ s.running
  BY SucceedFacts
<1>3. r = [t EXCEPT !.gen = n]
  BY DEF Cancelled, Succeeded, Loop
<1> HIDE DEF n, s
<1>4. t \in Loop /\ t.running = s.running /\ t.timer = 0
  BY <1>2, DisarmFacts
<1> HIDE DEF t
<1>5. r \in Loop /\ r.running = t.running /\ r.timer = t.timer /\ r.gen = n
  BY <1>1, <1>3, <1>4 DEF Loop
<1> QED BY <1>2, <1>4, <1>5 DEF n

\* A recovery begins with nothing under way, unless something crossed it.
LEMMA NothingUnderWay ==
    ASSUME CallsOK, Active = {}
    PROVE  \A c \in Calls : calls[c].kind = "none"
BY DEF CallsOK, CallOK, Active

LEMMA LaterGeneration ==
    ASSUME TypeOK, CallsOK, NEW g \in Nat, loop.gen <= g
    PROVE  \A c \in Calls : CallOK(calls[c], owns, g)
<1> TAKE c \in Calls
<1>1. CallOK(calls[c], owns, loop.gen)
  BY DEF CallsOK
<1>2. calls[c].gen \in Nat /\ loop.gen \in Nat
  BY DEF TypeOK, Call, Loop
<1>3. calls[c].gen <= loop.gen => calls[c].gen <= g
  BY <1>2
<1> QED BY <1>1, <1>3 DEF CallOK

LEMMA HearStep ==
    ASSUME IInv, Hear
    PROVE  IInv'
<1> DEFINE e == Head(events)
           mine == e.id = connectionId /\ e.id # replacing
<1>1. /\ TypeOK /\ CallsOK /\ QuestionOK /\ EventsOK /\ ConnectedOK /\ LoopOK /\ ScheduleOK
      /\ LeftStaysLeft
  BY DEF IInv
<1>2. /\ events # <<>> /\ e.state \notin {"answer", "refusal"} /\ events' = Tail(events)
      /\ state' = IF mine THEN e.state ELSE state
      /\ loop' = IF mine /\ ~ owns /\ e.state = "lost" THEN BeginLoop(loop, activeHost) ELSE loop
      /\ crossed' = (crossed \/ (mine /\ Overlap))
      /\ early' = (early \/ \E c \in Active : calls[c].id = e.id)
      /\ UNCHANGED <<owns, connectionId, activeHost, replacing, question, calls, leaving, probe,
                     asking, link, left>>
  BY DEF Hear
<1>3. events \in Seq(Event) /\ Backed(events, link, owns) /\ loop \in Loop
  BY <1>1 DEF TypeOK, EventsOK
<1>4. /\ e \in Event
      /\ Hopeful(e) => owns
  BY <1>2, <1>3, TailEvent, HeardNews
<1>5. e.id \in Ids /\ e.state \in News
  BY <1>2, <1>4 DEF Event
<1>6. \/ state' # "connected"
      \/ state' = state /\ ~ mine
      \/ mine /\ Hopeful(e)
  BY <1>2 DEF Hopeful
<1>7. events' \in Seq(Event) /\ EventsOK' /\ ConnectedOK'
  BY <1>1, <1>2, <1>6, HeardKeeps
<1> HIDE DEF e
<1>8. state' \in States /\ early' \in BOOLEAN /\ crossed' \in BOOLEAN
  BY <1>1, <1>2, <1>5 DEF TypeOK, States, News
<1>9. /\ left = "quiet" => ~ mine
      /\ left = "quiet" => loop' = loop /\ state' = state
  BY <1>1, <1>2, <1>5, BoundsAssumption DEF LeftStaysLeft
<1>10. LeftStaysLeft'
  BY <1>1, <1>2, <1>9 DEF LeftStaysLeft, Active
<1>11. QuestionOK'
  BY <1>1, <1>2 DEF QuestionOK
<1>12. CASE loop' = loop
  <2>1. TypeOK'
    BY <1>1, <1>2, <1>7, <1>8, <1>12 DEF TypeOK
  <2>2. CallsOK' /\ LoopOK'
    BY <1>1, <1>2, <1>12 DEF CallsOK, LoopOK
  <2>3. state' = state \/ state' # "connected" \/ loop.timer = 0
    BY <1>1, <1>4, <1>6 DEF LoopOK
  <2>4. \A c \in Calls : Alike(calls[c], calls'[c])
    BY <1>2 DEF Alike
  <2>5. ScheduleOK'
    BY <1>1, <1>2, <1>12, <2>3, <2>4, ScheduleSame
  <2> QED BY <1>7, <1>10, <1>11, <2>1, <2>2, <2>5 DEF IInv
<1>13. CASE loop' # loop
  <2>1. mine /\ ~ owns /\ state' = "lost" /\ loop' = BeginLoop(loop, activeHost)
    BY <1>2, <1>13
  <2>2. /\ ~ loop.running /\ activeHost # NoHost
        /\ loop' \in Loop /\ loop'.running /\ loop'.gen = loop.gen + 1 /\ loop'.timer = loop'.gen
    BY <1>3, <1>13, <2>1, BeginFacts
  <2>3. loop.gen \in Nat /\ loop'.gen > 0 /\ loop.gen <= loop'.gen /\ loop'.gen \in Nat
    BY <1>3, <2>2, LoopFields
  <2>4. TypeOK'
    BY <1>1, <1>2, <1>7, <1>8, <2>2 DEF TypeOK
  <2>5. CallsOK'
    <3>1. \A c \in Calls : CallOK(calls[c], owns, loop'.gen)
      BY <1>1, <2>3, LaterGeneration
    <3> QED BY <1>2, <3>1 DEF CallsOK
  <2>6. LoopOK'
    BY <1>1, <1>2, <2>1, <2>2, <2>3 DEF LoopOK
  <2>7. ScheduleOK'
    <3> SUFFICES ASSUME ~ crossed'
                 PROVE  /\ loop'.running => \/ loop'.timer # 0 /\ NoStep'
                                            \/ loop'.timer = 0 /\ OneStep'
                        /\ ~ loop'.running => loop'.timer = 0 /\ NoStep'
                        /\ loop'.running => leaving' = {} /\ activeHost' # NoHost
                        /\ \A c \in Active' : ~ IsStep(c)' => ~ loop'.running
                        /\ loop'.timer # 0 => state' # "connected"
      BY DEF ScheduleOK
    <3>1. Active = {} /\ leaving = {}
      BY <1>2, <2>1 DEF Overlap
    <3>2. Active' = {}
      BY <1>2, <3>1 DEF Active
    <3>3. NoStep'
      BY <1>1, <1>2, <3>1, NothingUnderWay DEF NoStep, IsStep
    <3> QED BY <1>2, <2>1, <2>2, <2>3, <3>1, <3>2, <3>3
  <2> QED BY <1>7, <1>10, <1>11, <2>4, <2>5, <2>6, <2>7 DEF IInv
<1> QED BY <1>12, <1>13

-----------------------------------------------------------------------------
(* A dial starts                                                           *)

LEMMA NextCallIsIdle ==
    ASSUME IdleCalls # {}
    PROVE  NextCall \in Calls /\ calls[NextCall].phase = "idle"
<1>1. NextCall \in IdleCalls
  BY DEF NextCall
<1> QED BY <1>1 DEF IdleCalls, Active

LEMMA AddedCall ==
    ASSUME IInv, NEW n \in Calls, calls[n].phase = "idle", NEW r \in Call,
           r.phase \in {"dialing", "closing"}, r.kind # "none", r.host # NoHost,
           r.phase = "closing" => r.prev # NoId,
           loop' \in Loop, loop.gen <= loop'.gen,
           r.kind = "loop" => ~ owns /\ r.gen <= loop'.gen,
           calls' = [calls EXCEPT ![n] = r],
           UNCHANGED <<owns, connectionId, question, leaving, asking, link, events, early>>,
           state' \in States, state' = state \/ state' # "connected",
           activeHost' \in Hosts \cup {NoHost}, replacing' \in {replacing, connectionId},
           crossed' \in BOOLEAN, LoopOK', ScheduleOK', LeftStaysLeft'
    PROVE  IInv'
<1>1. /\ TypeOK /\ CallsOK /\ QuestionOK /\ EventsOK /\ ConnectedOK
  BY DEF IInv
<1>2. calls \in [Calls -> Call]
  BY <1>1 DEF TypeOK
<1>3. /\ calls' \in [Calls -> Call] /\ calls'[n] = r
      /\ \A d \in Calls : d # n => calls'[d] = calls[d]
  BY <1>2, CallSet
<1>4. TypeOK'
  BY <1>1, <1>3 DEF TypeOK
<1>5. \A c \in Calls : CallOK(calls[c], owns, loop'.gen)
  BY <1>1, LoopFields, LaterGeneration
<1>6. CallOK(r, owns, loop'.gen)
  BY DEF CallOK
<1>7. CallsOK'
  BY <1>3, <1>5, <1>6 DEF CallsOK
<1>8. QuestionOK'
  BY <1>1, <1>3 DEF QuestionOK, TypeOK
<1>9. EventsOK' /\ ConnectedOK'
  BY <1>1 DEF EventsOK, ConnectedOK
<1> QED BY <1>4, <1>7, <1>8, <1>9 DEF IInv

\* The call that starts is the only change the schedule sees.
LEMMA AddedStep ==
    ASSUME TypeOK, NEW n \in Calls, NEW r \in Call, calls' = [calls EXCEPT ![n] = r],
           r.phase # "idle"
    PROVE  /\ IsStep(n)' <=> r.kind = "loop" /\ r.gen = loop'.gen
           /\ \A c \in Calls : c # n => calls'[c] = calls[c]
           /\ Active' = Active \cup {n}
<1>1. calls \in [Calls -> Call]
  BY DEF TypeOK
<1>2. /\ calls' \in [Calls -> Call] /\ calls'[n] = r
      /\ \A d \in Calls : d # n => calls'[d] = calls[d]
  BY <1>1, CallSet
<1> QED BY <1>2 DEF IsStep, Active

\* reconnect() up to its first await.
LEMMA StartFacts ==
    ASSUME TypeOK, NEW kind \in Kinds, NEW l \in Loop, NEW gen \in Nat, StartReconnect(kind, l, gen)
    PROVE  \E r \in Call :
             /\ r.kind = kind /\ r.gen = gen /\ r.host = activeHost
             /\ r.phase \in {"dialing", "closing"} /\ (r.phase = "closing" => r.prev # NoId)
             /\ r.prev = connectionId
             /\ calls' = [calls EXCEPT ![NextCall] = r]
             /\ loop' = [l EXCEPT !.timer = 0]
             /\ state' \in {state, "connecting"} /\ activeHost' = activeHost
             /\ replacing' \in {replacing, connectionId}
             /\ connectionId # NoId => replacing' = connectionId
             /\ IdleCalls # {}
<1> DEFINE call == [Idle EXCEPT !.kind = kind, !.host = activeHost, !.gen = gen,
                                !.prev = connectionId]
           d == [call EXCEPT !.phase = "dialing"]
           x == [call EXCEPT !.phase = "closing"]
<1>1. /\ IdleCalls # {}
      /\ loop' = [l EXCEPT !.timer = 0]
      /\ IF connectionId = NoId
           THEN /\ Claim(NextCall, call)
                /\ UNCHANGED replacing
           ELSE /\ calls' = [calls EXCEPT ![NextCall] = x]
                /\ replacing' = connectionId
                /\ UNCHANGED <<state, activeHost>>
  BY DEF StartReconnect
<1>2. call \in Call /\ call.kind = kind /\ call.host = activeHost /\ call.gen = gen
      /\ call.prev = connectionId
  BY IdleFacts DEF TypeOK, Call
<1> HIDE DEF call
<1>3. /\ d \in Call /\ d.kind = kind /\ d.host = activeHost /\ d.gen = gen /\ d.phase = "dialing"
      /\ d.prev = connectionId
      /\ x \in Call /\ x.kind = kind /\ x.host = activeHost /\ x.gen = gen /\ x.phase = "closing"
      /\ x.prev = connectionId
  BY <1>2, PhaseFacts DEF Phases
<1>4. CASE connectionId = NoId
  <2>1. calls' = [calls EXCEPT ![NextCall] = d] /\ state' = "connecting" /\ activeHost' = activeHost
    BY <1>1, <1>2, <1>4 DEF Claim
  <2> QED BY <1>1, <1>3, <1>4, <2>1
<1>5. CASE connectionId # NoId
  BY <1>1, <1>3, <1>5
<1> QED BY <1>4, <1>5

\* The pending step of a recovery becomes the dial on the wire.
LEMMA StepBegins ==
    ASSUME IInv, loop.timer # 0, activeHost # NoHost, StartReconnect("loop", loop, loop.gen),
           left' \in {left, "no"},
           UNCHANGED <<owns, connectionId, question, leaving, probe, asking, link, events, crossed, early>>
    PROVE  IInv'
<1>1. TypeOK /\ LoopOK /\ ScheduleOK /\ LeftStaysLeft
  BY DEF IInv
<1>2. loop \in Loop /\ loop.gen \in Nat /\ "loop" \in Kinds
  BY <1>1, LoopFields DEF TypeOK, Kinds
<1>3. PICK r \in Call :
        /\ r.kind = "loop" /\ r.gen = loop.gen /\ r.host = activeHost
        /\ r.phase \in {"dialing", "closing"} /\ (r.phase = "closing" => r.prev # NoId)
        /\ calls' = [calls EXCEPT ![NextCall] = r]
        /\ loop' = [loop EXCEPT !.timer = 0]
        /\ state' \in {state, "connecting"} /\ activeHost' = activeHost
        /\ replacing' \in {replacing, connectionId}
        /\ connectionId # NoId => replacing' = connectionId
        /\ IdleCalls # {}
  BY <1>1, <1>2, StartFacts
<1>4. PICK n \in Calls : n = NextCall /\ calls[n].phase = "idle"
  BY <1>3, NextCallIsIdle
<1>5. /\ IsStep(n)'
      /\ \A c \in Calls : c # n => calls'[c] = calls[c]
      /\ Active' = Active \cup {n}
  <2>1. loop'.gen = loop.gen
    BY <1>2, <1>3, DisarmFacts
  <2> QED BY <1>1, <1>3, <1>4, <2>1, AddedStep
<1>6. loop' \in Loop /\ loop'.running = loop.running /\ loop'.timer = 0 /\ loop'.gen = loop.gen
  BY <1>2, <1>3, DisarmFacts
<1>7. LoopOK'
  BY <1>1, <1>6 DEF LoopOK
<1>8. left' # "quiet"
  BY <1>1 DEF LeftStaysLeft
<1>9. ScheduleOK'
  <2> SUFFICES ASSUME ~ crossed
               PROVE  /\ loop'.running => \/ loop'.timer # 0 /\ NoStep'
                                          \/ loop'.timer = 0 /\ OneStep'
                      /\ ~ loop'.running => loop'.timer = 0 /\ NoStep'
                      /\ loop'.running => leaving' = {} /\ activeHost' # NoHost
                      /\ \A c \in Active' : ~ IsStep(c)' => ~ loop'.running
                      /\ loop'.timer # 0 => state' # "connected"
    BY DEF ScheduleOK
  <2>1. loop.running /\ NoStep /\ leaving = {} /\ \A c \in Active : IsStep(c)
    BY <1>1 DEF ScheduleOK
  <2>2. \A c \in Calls : IsStep(c)' <=> c = n
    BY <1>5, <1>6, <2>1 DEF NoStep, IsStep
  <2>3. OneStep'
    BY <1>4, <2>2 DEF OneStep
  <2>4. \A c \in Active' : IsStep(c)'
    BY <1>5, <2>1, <2>2 DEF NoStep, Active
  <2> QED BY <1>3, <1>6, <2>1, <2>3, <2>4
<1>10. ~ owns /\ loop.gen <= loop'.gen /\ r.gen <= loop'.gen
  BY <1>1, <1>2, <1>3, <1>6 DEF LoopOK
<1>11. /\ LeftStaysLeft' /\ state' \in States /\ (state' = state \/ state' # "connected")
       /\ activeHost' \in Hosts \cup {NoHost} /\ crossed' \in BOOLEAN
  BY <1>1, <1>3, <1>8 DEF LeftStaysLeft, TypeOK, States
<1>12. r.host # NoHost /\ r.kind # "none"
  BY <1>3
<1> QED BY <1>3, <1>4, <1>6, <1>7, <1>9, <1>10, <1>11, <1>12, AddedCall

LEMMA RetryNowStep ==
    ASSUME IInv, RetryNow
    PROVE  IInv'
<1>1. /\ loop.timer # 0 /\ activeHost # NoHost /\ StartReconnect("loop", loop, loop.gen)
      /\ left' = "no"
      /\ UNCHANGED <<owns, connectionId, question, leaving, probe, asking, link, events, crossed, early>>
  BY DEF RetryNow, Counting, Button
<1> QED BY <1>1, StepBegins

LEMMA TimerFiresStep ==
    ASSUME IInv, TimerFires
    PROVE  IInv'
<1>1. /\ TypeOK /\ CallsOK /\ QuestionOK /\ EventsOK /\ ConnectedOK /\ LoopOK /\ ScheduleOK
      /\ LeftStaysLeft
  BY DEF IInv
<1>2. /\ loop.timer # 0
      /\ UNCHANGED <<owns, connectionId, question, leaving, probe, asking, link, events, left,
                     crossed, early>>
  BY DEF TimerFires, ghosts
<1>3. CASE loop.timer = loop.gen /\ activeHost # NoHost
  <2>1. StartReconnect("loop", loop, loop.gen)
    BY <1>3 DEF TimerFires
  <2> QED BY <1>2, <1>3, <2>1, StepBegins
<1>4. CASE ~ (loop.timer = loop.gen /\ activeHost # NoHost)
  <2>1. loop' = [loop EXCEPT !.timer = 0] /\ UNCHANGED <<calls, state, activeHost, replacing>>
    BY <1>4 DEF TimerFires
  <2>2. loop' \in Loop /\ loop'.running = loop.running /\ loop'.timer = 0 /\ loop'.gen = loop.gen
    BY <1>1, <2>1, DisarmFacts DEF TypeOK
  <2>3. crossed
    BY <1>1, <1>2, <1>4 DEF LoopOK, ScheduleOK
  <2>4. TypeOK' /\ CallsOK' /\ QuestionOK'
    BY <1>1, <1>2, <2>1, <2>2 DEF TypeOK, CallsOK, QuestionOK
  <2>5. EventsOK' /\ ConnectedOK' /\ LoopOK'
    BY <1>1, <1>2, <2>1, <2>2 DEF EventsOK, ConnectedOK, LoopOK
  <2>6. ScheduleOK'
    BY <1>2, <2>3 DEF ScheduleOK
  <2>7. LeftStaysLeft'
    BY <1>1, <1>2 DEF LeftStaysLeft
  <2> QED BY <2>4, <2>5, <2>6, <2>7 DEF IInv
<1> QED BY <1>3, <1>4

\* The user dials: a running recovery, or another dial, is crossed.
LEMMA UserDialKeeps ==
    ASSUME IInv, UserDials, NEW n \in Calls, NEW r \in Call, calls[n].phase = "idle",
           calls' = [calls EXCEPT ![n] = r],
           r.phase \in {"dialing", "closing"}, r.kind \in {"button", "pick"}, r.host # NoHost,
           r.phase = "closing" => r.prev # NoId,
           loop' = loop \/ loop' = [loop EXCEPT !.timer = 0],
           UNCHANGED <<owns, connectionId, question, leaving, probe, asking, link, events, early>>,
           state' \in {state, "connecting"}, activeHost' \in Hosts \cup {NoHost},
           replacing' \in {replacing, connectionId}
    PROVE  IInv'
<1>1. TypeOK /\ LoopOK /\ ScheduleOK
  BY DEF IInv
<1>2. loop \in Loop /\ loop.gen \in Nat
  BY <1>1, LoopFields DEF TypeOK
<1>3. /\ loop' \in Loop /\ loop'.running = loop.running /\ loop'.gen = loop.gen
      /\ loop'.timer \in {0, loop.timer}
  BY <1>2, DisarmFacts
<1>4. /\ IsStep(n)' <=> r.kind = "loop" /\ r.gen = loop'.gen
      /\ \A c \in Calls : c # n => calls'[c] = calls[c]
  BY <1>1, AddedStep
<1>5. LoopOK'
  BY <1>1, <1>3 DEF LoopOK
<1>6. ScheduleOK'
  <2> SUFFICES ASSUME ~ crossed'
               PROVE  /\ ~ loop'.running /\ loop'.timer = 0 /\ NoStep'
    BY DEF ScheduleOK
  <2>1. ~ crossed /\ ~ loop.running /\ loop.timer = 0
    BY DEF UserDials
  <2>2. NoStep
    BY <1>1, <2>1 DEF ScheduleOK
  <2>3. NoStep'
    BY <1>3, <1>4, <2>2 DEF NoStep, IsStep
  <2> QED BY <1>3, <2>1, <2>3
<1>7. left' = "no" /\ crossed' \in BOOLEAN
  BY DEF UserDials
<1>8. LeftStaysLeft'
  BY <1>7 DEF LeftStaysLeft
<1>9. state' \in States /\ (state' = state \/ state' # "connected")
  BY <1>1 DEF TypeOK, States
<1>10. loop.gen <= loop'.gen /\ r.kind # "none" /\ r.kind # "loop"
  BY <1>2, <1>3
<1> QED BY <1>3, <1>5, <1>6, <1>7, <1>8, <1>9, <1>10, AddedCall

LEMMA PickStep ==
    ASSUME IInv, NEW h \in Hosts, Pick(h)
    PROVE  IInv'
<1> DEFINE p == [Idle EXCEPT !.kind = "pick", !.host = h]
           r == [p EXCEPT !.phase = "dialing"]
<1>1. p \in Call /\ p.kind = "pick" /\ p.host = h
  BY IdleFacts DEF Call, Kinds
<1>2. /\ IdleCalls # {} /\ UserDials
      /\ calls' = [calls EXCEPT ![NextCall] = r] /\ state' = "connecting" /\ activeHost' = h
      /\ UNCHANGED <<owns, connectionId, replacing, question, loop, leaving, probe, asking, link,
                     events, early>>
  <2>1. Claim(NextCall, p) /\ IdleCalls # {} /\ UserDials
    BY DEF Pick
  <2>2. UNCHANGED <<owns, connectionId, replacing, question, loop, leaving, probe, asking, link,
                    events, early>>
    BY DEF Pick
  <2> QED BY <1>1, <2>1, <2>2 DEF Claim
<1> HIDE DEF p
<1>3. r \in Call /\ r.phase = "dialing" /\ r.kind = "pick" /\ r.host = h
  BY <1>1, PhaseFacts DEF Phases
<1>4. PICK n \in Calls : n = NextCall /\ calls[n].phase = "idle"
  BY <1>2, NextCallIsIdle
<1>5. h # NoHost
  BY BoundsAssumption
<1> HIDE DEF r
<1> QED BY <1>2, <1>3, <1>4, <1>5, UserDialKeeps

LEMMA ReconnectStep ==
    ASSUME IInv, Reconnect
    PROVE  IInv'
<1>1. TypeOK
  BY DEF IInv
<1>2. /\ activeHost # NoHost /\ StartReconnect("button", loop, 0) /\ UserDials
      /\ UNCHANGED <<owns, connectionId, question, leaving, probe, asking, link, events, early>>
  BY DEF Reconnect, Button
<1>3. loop \in Loop /\ "button" \in Kinds
  BY <1>1 DEF TypeOK, Kinds
<1>4. PICK r \in Call :
        /\ r.kind = "button" /\ r.gen = 0 /\ r.host = activeHost
        /\ r.phase \in {"dialing", "closing"} /\ (r.phase = "closing" => r.prev # NoId)
        /\ calls' = [calls EXCEPT ![NextCall] = r]
        /\ loop' = [loop EXCEPT !.timer = 0]
        /\ state' \in {state, "connecting"} /\ activeHost' = activeHost
        /\ replacing' \in {replacing, connectionId}
        /\ connectionId # NoId => replacing' = connectionId
        /\ IdleCalls # {}
  BY <1>1, <1>2, <1>3, StartFacts
<1>5. PICK n \in Calls : n = NextCall /\ calls[n].phase = "idle"
  BY <1>4, NextCallIsIdle
<1>6. activeHost' \in Hosts \cup {NoHost}
  BY <1>1, <1>4 DEF TypeOK
<1> QED BY <1>2, <1>4, <1>5, <1>6, UserDialKeeps

LEMMA ProbeFailsStep ==
    ASSUME IInv, ProbeFails
    PROVE  IInv'
<1>1. /\ TypeOK /\ CallsOK /\ QuestionOK /\ EventsOK /\ ConnectedOK /\ LoopOK /\ ScheduleOK
      /\ LeftStaysLeft
  BY DEF IInv
<1>2. /\ probe # NoId /\ probe' = NoId
      /\ UNCHANGED <<owns, connectionId, activeHost, question, leaving, asking, link, events, left, early>>
  BY DEF ProbeFails
<1>3. ~ owns
  BY <1>1, <1>2 DEF LoopOK
<1>4. EventsOK'
  BY <1>1, <1>2 DEF EventsOK
<1>5. CASE state # "connected"
  <2>1. UNCHANGED <<state, calls, replacing, loop, crossed>>
    BY <1>5 DEF ProbeFails
  <2>2. ConnectedOK' /\ LeftStaysLeft'
    BY <1>1, <1>2, <2>1 DEF ConnectedOK, LeftStaysLeft, Active
  <2> QED BY <1>1, <1>2, <1>3, <1>4, <2>1, <2>2, OthersStep DEF TypeOK
<1>6. CASE state = "connected" /\ activeHost = NoHost
  <2>1. state' = "lost" /\ crossed' = (crossed \/ Overlap) /\ UNCHANGED <<calls, replacing, loop>>
    BY <1>6 DEF ProbeFails
  <2>2. ConnectedOK'
    BY <2>1 DEF ConnectedOK
  <2>3. LeftStaysLeft'
    BY <1>1, <1>2, <1>6 DEF LeftStaysLeft
  <2>4. crossed' \in BOOLEAN /\ (crossed => crossed') /\ state' \in States
    BY <1>1, <2>1 DEF TypeOK, States
  <2> QED BY <1>1, <1>2, <1>3, <1>4, <2>1, <2>2, <2>3, <2>4, OthersStep DEF TypeOK
<1>7. CASE state = "connected" /\ activeHost # NoHost
  <2> DEFINE l == BeginLoop(loop, activeHost)
             b == [Idle EXCEPT !.kind = "loop", !.phase = "closing", !.host = activeHost,
                               !.gen = l.gen, !.prev = connectionId]
  <2>1. /\ state' = "lost" /\ crossed' = (crossed \/ Overlap)
        /\ IdleCalls # {}
        /\ calls' = [calls EXCEPT ![NextCall] = b]
        /\ replacing' = connectionId
        /\ loop' = [l EXCEPT !.timer = 0]
    BY <1>7 DEF ProbeFails
  <2>2. loop \in Loop
    BY <1>1 DEF TypeOK
  <2>3. /\ loop.running => l = loop
        /\ ~ loop.running => l \in Loop /\ l.running /\ l.gen = loop.gen + 1 /\ l.timer = l.gen
    BY <1>7, <2>2, BeginFacts
  <2> HIDE DEF l
  <2>4. l \in Loop /\ l.running
    BY <2>2, <2>3
  <2>5. /\ loop.gen \in Nat /\ l.gen \in Nat /\ loop.gen <= l.gen /\ l.gen > 0
    <3>1. loop.gen \in Nat /\ l.gen \in Nat
      BY <2>2, <2>4, LoopFields
    <3> QED BY <1>1, <2>3, <3>1 DEF LoopOK
  <2>6. loop' \in Loop /\ loop'.running /\ loop'.timer = 0 /\ loop'.gen = l.gen
    BY <2>1, <2>4, DisarmFacts
  <2>7. connectionId # NoId
    BY <1>1, <1>7 DEF ConnectedOK
  <2>8. /\ b \in Call /\ b.kind = "loop" /\ b.phase = "closing" /\ b.host = activeHost
        /\ b.gen = l.gen /\ b.prev = connectionId
    BY <1>1, <2>5, IdleFacts DEF TypeOK, Call, Kinds, Phases
  <2> HIDE DEF b
  <2>9. PICK r \in Call : r = b
    BY <2>8
  <2>10. PICK n \in Calls : n = NextCall /\ calls[n].phase = "idle"
    BY <2>1, NextCallIsIdle
  <2>11. /\ IsStep(n)'
         /\ \A c \in Calls : c # n => calls'[c] = calls[c]
         /\ Active' = Active \cup {n}
    <3>1. calls' = [calls EXCEPT ![n] = r] /\ r.phase # "idle" /\ r.kind = "loop" /\ r.gen = loop'.gen
      BY <2>1, <2>6, <2>8, <2>10, <2>9
    <3> QED BY <1>1, <3>1, AddedStep
  <2>12. LoopOK'
    BY <1>1, <1>2, <1>3, <2>5, <2>6 DEF LoopOK
  <2>13. ScheduleOK'
    <3> SUFFICES ASSUME ~ crossed'
                 PROVE  /\ OneStep' /\ leaving' = {} /\ activeHost' # NoHost
                        /\ \A c \in Active' : IsStep(c)'
      BY <2>6 DEF ScheduleOK
    <3>1. Active = {} /\ leaving = {}
      BY <2>1 DEF Overlap
    <3>2. \A c \in Calls : calls[c].kind = "none"
      BY <1>1, <3>1, NothingUnderWay
    <3>3. \A c \in Calls : IsStep(c)' <=> c = n
      BY <2>11, <3>2 DEF IsStep
    <3>4. OneStep'
      BY <2>10, <3>3 DEF OneStep
    <3> QED BY <1>2, <1>7, <2>11, <3>1, <3>3, <3>4
  <2>14. LeftStaysLeft'
    BY <1>1, <1>2, <1>7 DEF LeftStaysLeft
  <2>15. state' \in States /\ state' # "connected" /\ crossed' \in BOOLEAN
    BY <1>1, <2>1 DEF TypeOK, States
  <2>16. b.kind # "none" /\ b.gen <= loop'.gen /\ loop.gen <= loop'.gen
    BY <2>5, <2>6, <2>8
  <2>17. activeHost' \in Hosts \cup {NoHost}
    BY <1>1, <1>2 DEF TypeOK
  <2> QED BY <1>2, <1>3, <1>7, <2>1, <2>6, <2>7, <2>8, <2>10, <2>12, <2>13, <2>14, <2>15, <2>16, <2>17,
             AddedCall
<1> QED BY <1>5, <1>6, <1>7

-----------------------------------------------------------------------------
(* A dial ends                                                             *)

LEMMA RemovedStep ==
    ASSUME TypeOK, NEW c \in Calls, NEW f, f = [calls EXCEPT ![c] = Idle]
    PROVE  /\ f \in [Calls -> Call] /\ f[c] = Idle
           /\ \A d \in Calls : d # c => f[d] = calls[d]
           /\ f[c].kind = "none" /\ f[c].phase = "idle"
BY CallSet, IdleFacts DEF TypeOK

\* A step of the current recovery is the only thing under way.
LEMMA TheOneStep ==
    ASSUME ScheduleOK, ~ crossed, NEW c \in Calls, IsStep(c)
    PROVE  /\ loop.running /\ loop.timer = 0 /\ leaving = {} /\ activeHost # NoHost
           /\ \A d \in Calls : IsStep(d) => d = c
           /\ \A d \in Active : d = c
<1>1. ~ NoStep
  BY DEF NoStep
<1>2. loop.running /\ loop.timer = 0 /\ OneStep /\ leaving = {} /\ activeHost # NoHost
  BY <1>1 DEF ScheduleOK
<1>3. \A d \in Calls : IsStep(d) => d = c
  BY <1>2 DEF OneStep
<1>4. \A d \in Active : IsStep(d)
  BY <1>2 DEF ScheduleOK
<1> QED BY <1>2, <1>3, <1>4 DEF Active

\* A dial that is not such a step finds no recovery.
LEMMA NoRecovery ==
    ASSUME ScheduleOK, ~ crossed, NEW c \in Calls, calls[c].phase # "idle", ~ IsStep(c)
    PROVE  ~ loop.running /\ loop.timer = 0 /\ NoStep
<1>1. c \in Active
  BY DEF Active
<1> QED BY <1>1 DEF ScheduleOK

LEMMA DialFailsStep ==
    ASSUME IInv, NEW c \in Calls, DialFails(c)
    PROVE  IInv'
<1>1. /\ TypeOK /\ CallsOK /\ QuestionOK /\ EventsOK /\ ConnectedOK /\ LoopOK /\ ScheduleOK
      /\ LeftStaysLeft
  BY DEF IInv
<1>2. /\ calls[c].phase \in {"dialing", "trusted", "refused"}
      /\ calls' = [calls EXCEPT ![c] = Idle]
      /\ IF IsStep(c) THEN state' = "lost" /\ loop' = Schedule(loop)
         ELSE state' = "idle" /\ UNCHANGED loop
      /\ UNCHANGED <<owns, connectionId, activeHost, replacing, question, leaving, probe, asking, link,
                     events, left, crossed, early>>
  BY DEF DialFails, ghosts, IsStep
<1>3. loop \in Loop
  BY <1>1 DEF TypeOK
<1>4. /\ calls' \in [Calls -> Call] /\ calls'[c].kind = "none" /\ calls'[c].phase = "idle"
      /\ \A d \in Calls : d # c => calls'[d] = calls[d]
  BY <1>1, <1>2, RemovedStep
<1>5. /\ loop' \in Loop /\ loop'.gen = loop.gen
      /\ loop'.running => loop.running
      /\ ~ loop'.running => loop'.timer = loop.timer
      /\ loop'.timer \in {loop.timer, loop.gen}
      /\ ~ IsStep(c) => loop' = loop
  BY <1>2, <1>3, ScheduleFacts
<1>6. state' \in {"lost", "idle"}
  BY <1>2
<1>7. TypeOK'
  BY <1>1, <1>2, <1>4, <1>5, <1>6 DEF TypeOK, States
<1>8. CallsOK'
  <2>1. CallOK(calls'[c], owns, loop.gen)
    BY <1>4 DEF CallOK
  <2> QED BY <1>1, <1>2, <1>4, <1>5, <2>1 DEF CallsOK
<1>9. QuestionOK'
  BY <1>1, <1>2, <1>4 DEF QuestionOK, TypeOK
<1>10. EventsOK' /\ ConnectedOK'
  BY <1>1, <1>2, <1>6 DEF EventsOK, ConnectedOK
<1>11. LeftStaysLeft'
  BY <1>1, <1>2, BusyIsNotQuiet DEF LeftStaysLeft
<1>12. IsStep(c) => ~ owns
  BY <1>1 DEF CallsOK, CallOK, IsStep
<1>13. LoopOK'
  BY <1>1, <1>2, <1>5, <1>12 DEF LoopOK
<1>14. ~ IsStep(c)' /\ \A d \in Calls : d # c => (IsStep(d)' <=> IsStep(d))
  BY <1>4, <1>5 DEF IsStep
<1>15. Active' = Active \ {c}
  BY <1>4 DEF Active
<1>16. ScheduleOK'
  <2>1. CASE crossed
    BY <1>2, <2>1 DEF ScheduleOK
  <2>2. CASE ~ crossed /\ ~ IsStep(c)
    <3>1. ~ loop.running /\ loop.timer = 0 /\ NoStep
      BY <1>1, <1>2, <2>2, NoRecovery
    <3>2. NoStep'
      BY <1>14, <3>1 DEF NoStep
    <3>3. loop' = loop
      BY <1>5, <2>2
    <3> QED BY <3>1, <3>2, <3>3 DEF ScheduleOK
  <2>3. CASE ~ crossed /\ IsStep(c)
    <3>1. /\ loop.running /\ loop.timer = 0 /\ leaving = {} /\ activeHost # NoHost
          /\ \A d \in Calls : IsStep(d) => d = c
          /\ \A d \in Active : d = c
      BY <1>1, <2>3, TheOneStep
    <3>2. NoStep' /\ Active' = {}
      BY <1>14, <1>15, <3>1 DEF NoStep
    <3>3. loop'.running => loop'.timer = loop.gen /\ loop.gen > 0
      BY <1>1, <1>2, <1>3, <2>3, <3>1, ScheduleFacts DEF LoopOK
    <3>4. loop'.running => loop'.timer # 0
      BY <1>3, <3>3, LoopFields
    <3> QED BY <1>2, <1>5, <1>6, <3>1, <3>2, <3>4 DEF ScheduleOK
  <2> QED BY <2>1, <2>2, <2>3
<1> QED BY <1>7, <1>8, <1>9, <1>10, <1>11, <1>13, <1>16 DEF IInv

\* disconnect() up to its await.
LEMMA LeavingFacts ==
    ASSUME TypeOK, NEW id \in Ids \cup {NoId}, NEW cs \in [Calls -> Call],
           \A d \in Calls : CallOK(cs[d], owns, loop.gen),
           question \in Calls => cs[question].phase # "idle", StartLeaving(id, cs)
    PROVE  /\ loop' \in Loop /\ ~ loop'.running /\ loop'.timer = 0
           /\ question' = NoCall /\ leaving' \subseteq Ids
           /\ calls' \in [Calls -> Call]
           /\ \A d \in Calls : Alike(cs[d], calls'[d]) /\ CallOK(calls'[d], owns, loop'.gen)
           /\ NoStep'
<1> DEFINE refuse(d) == [cs[d] EXCEPT !.phase = "refused"]
<1>1. /\ loop' = Cancelled(loop) /\ question' = NoCall /\ leaving' = leaving \cup ({id} \ {NoId})
      /\ calls' = [d \in Calls |-> IF d = question THEN refuse(d) ELSE cs[d]]
  BY DEF StartLeaving
<1>2. loop \in Loop /\ loop.gen \in Nat
  BY LoopFields DEF TypeOK
<1>3. loop' \in Loop /\ ~ loop'.running /\ loop'.timer = 0 /\ loop'.gen = loop.gen + 1
  BY <1>1, <1>2, CancelFacts
<1>4. \A d \in Calls : /\ refuse(d) \in Call /\ refuse(d).phase = "refused"
                       /\ refuse(d).kind = cs[d].kind /\ refuse(d).host = cs[d].host
                       /\ refuse(d).gen = cs[d].gen
  <2> TAKE d \in Calls
  <2>1. cs[d] \in Call /\ "refused" \in Phases
    BY DEF Phases
  <2> QED BY <2>1, PhaseFacts
<1> HIDE DEF refuse
<1>5. calls' \in [Calls -> Call] /\ \A d \in Calls : calls'[d] = IF d = question THEN refuse(d) ELSE cs[d]
  BY <1>1, <1>4
<1>6. ASSUME NEW d \in Calls
      PROVE  /\ Alike(cs[d], calls'[d]) /\ CallOK(calls'[d], owns, loop.gen)
             /\ calls'[d].kind = "loop" => calls'[d].gen <= loop.gen
  <2>1. CASE d = question
    BY <1>4, <1>5, <2>1 DEF Alike, CallOK
  <2>2. CASE d # question
    BY <1>5, <2>2 DEF Alike, CallOK
  <2> QED BY <2>1, <2>2
<1>7. \A d \in Calls : CallOK(calls'[d], owns, loop'.gen)
  <2> TAKE d \in Calls
  <2>1. calls'[d].gen \in Nat
    BY <1>5 DEF Call
  <2>2. calls'[d].gen <= loop.gen => calls'[d].gen <= loop'.gen
    BY <1>2, <1>3, <2>1
  <2> QED BY <1>6, <2>2 DEF CallOK
<1>8. NoStep'
  <2> SUFFICES ASSUME NEW d \in Calls, calls'[d].kind = "loop", calls'[d].gen = loop'.gen
               PROVE  FALSE
    BY DEF NoStep, IsStep
  <2> QED BY <1>2, <1>3, <1>6
<1>9. leaving' \subseteq Ids
  BY <1>1 DEF TypeOK
<1> QED BY <1>1, <1>3, <1>5, <1>6, <1>7, <1>8, <1>9

LEMMA DisconnectStep ==
    ASSUME IInv, Disconnect
    PROVE  IInv'
<1>1. /\ TypeOK /\ CallsOK /\ QuestionOK /\ EventsOK /\ ConnectedOK /\ LoopOK /\ ScheduleOK
      /\ LeftStaysLeft
  BY DEF IInv
<1>2. /\ StartLeaving(connectionId, calls)
      /\ UNCHANGED <<owns, probe, asking, link, events, crossed, early>>
      /\ IF connectionId = NoId
           THEN Reset /\ Leaves(leaving)
           ELSE UNCHANGED <<connectionId, replacing, transportRetry, redial, state, activeHost, left>>
  BY DEF Disconnect
<1>3. question \in Calls => calls[question].phase # "idle"
  BY <1>1, BoundsAssumption DEF QuestionOK
<1>4. /\ loop' \in Loop /\ ~ loop'.running /\ loop'.timer = 0
      /\ question' = NoCall /\ leaving' \subseteq Ids
      /\ calls' \in [Calls -> Call]
      /\ \A d \in Calls : Alike(calls[d], calls'[d]) /\ CallOK(calls'[d], owns, loop'.gen)
      /\ NoStep'
  <2>1. connectionId \in Ids \cup {NoId} /\ calls \in [Calls -> Call]
    BY <1>1 DEF TypeOK
  <2>2. \A d \in Calls : CallOK(calls[d], owns, loop.gen)
    BY <1>1 DEF CallsOK
  <2> QED BY <1>1, <1>2, <1>3, <2>1, <2>2, LeavingFacts
<1>5. \/ connectionId' = connectionId /\ replacing' = replacing /\ state' = state
         /\ activeHost' = activeHost
      \/ connectionId' = NoId /\ replacing' = NoId /\ state' = "idle" /\ activeHost' = NoHost
  BY <1>2 DEF Reset
<1>6. TypeOK'
  BY <1>1, <1>2, <1>4, <1>5 DEF TypeOK, States
<1>7. CallsOK'
  BY <1>2, <1>4 DEF CallsOK
<1>8. QuestionOK'
  BY <1>4 DEF QuestionOK
<1>9. EventsOK' /\ ConnectedOK'
  BY <1>1, <1>2, <1>5 DEF EventsOK, ConnectedOK
<1>10. LoopOK'
  BY <1>1, <1>2, <1>4 DEF LoopOK
<1>11. ScheduleOK'
  BY <1>4 DEF ScheduleOK
<1>12. LeftStaysLeft'
  <2>1. CASE connectionId = NoId
    <3>1. left' = "quiet" => Active = {}
      BY <1>2, <2>1 DEF Leaves
    <3>2. Active' = Active
      BY <1>4 DEF Active, Alike
    <3> QED BY <1>2, <1>4, <2>1, <3>1, <3>2 DEF LeftStaysLeft, Reset
  <2>2. CASE connectionId # NoId
    BY <1>1, <1>2, <2>2 DEF LeftStaysLeft
  <2> QED BY <2>1, <2>2
<1> QED BY <1>6, <1>7, <1>8, <1>9, <1>10, <1>11, <1>12 DEF IInv

LEMMA CommitStep ==
    ASSUME IInv, NEW c \in Calls, Commit(c)
    PROVE  IInv'
<1> DEFINE id == calls[c].id
           done == [calls EXCEPT ![c] = Idle]
           again == calls[c].kind # "pick"
<1>1. /\ TypeOK /\ CallsOK /\ QuestionOK /\ EventsOK /\ ConnectedOK /\ LoopOK /\ ScheduleOK
      /\ LeftStaysLeft
  BY DEF IInv
<1>2. /\ calls[c].phase = "restoring" /\ connectionId' = id /\ state' = "connected"
      /\ replacing' = IF again THEN NoId ELSE replacing
      /\ early' = (early \/ (link[id] # "up" /\ [id |-> id, state |-> "lost"] \notin Unheard))
      /\ UNCHANGED <<owns, activeHost, probe, asking, link, events, left, crossed>>
      /\ \/ StartLeaving(id, done)
         \/ /\ loop' = IF again THEN Succeeded(loop) ELSE loop
            /\ calls' = done
            /\ UNCHANGED <<leaving, question>>
  BY DEF Commit
<1>3. id \in Ids
  BY <1>1, <1>2 DEF TypeOK, Call, CallsOK, CallOK
<1>4. PICK f : f = done
  OBVIOUS
<1>5. /\ f \in [Calls -> Call] /\ f[c].kind = "none" /\ f[c].phase = "idle"
      /\ \A d \in Calls : d # c => f[d] = calls[d]
  BY <1>1, <1>4, RemovedStep
<1>6. \A d \in Calls : CallOK(f[d], owns, loop.gen)
  <2>1. CallOK(f[c], owns, loop.gen)
    BY <1>5 DEF CallOK
  <2> QED BY <1>1, <1>5, <2>1 DEF CallsOK
<1>7. question \in Calls => question # c /\ f[question].phase = "asking"
  BY <1>1, <1>2, <1>5, BoundsAssumption DEF QuestionOK
<1>8. \A d \in Calls : f[d].kind = "loop" /\ f[d].gen = loop.gen <=> d # c /\ IsStep(d)
  BY <1>5 DEF IsStep
<1>9. ~ crossed => loop.timer = 0 /\ \A d \in Calls : ~ (d # c /\ IsStep(d))
  <2>1. CASE IsStep(c)
    BY <1>1, <2>1, TheOneStep
  <2>2. CASE ~ IsStep(c)
    BY <1>1, <1>2, <2>2, NoRecovery DEF NoStep
  <2> QED BY <2>1, <2>2
<1>10. ~ crossed /\ ~ again => ~ loop.running
  <2>1. ~ again => ~ IsStep(c)
    BY DEF IsStep
  <2> QED BY <1>1, <1>2, <2>1, NoRecovery
<1>11. /\ loop' \in Loop /\ leaving' \subseteq Ids /\ question' \in Calls \cup {NoCall}
       /\ calls' \in [Calls -> Call]
       /\ question' # NoCall => calls'[question'].phase = "asking"
       /\ \A d \in Calls : CallOK(calls'[d], owns, loop'.gen)
       /\ loop'.timer \in {0, loop.timer} /\ (loop'.timer # 0 => loop'.gen = loop.gen)
       /\ loop'.running => loop.running /\ loop'.gen = loop.gen
       /\ ~ crossed => ~ loop'.running /\ loop'.timer = 0 /\ NoStep'
  <2>1. CASE StartLeaving(id, done)
    <3>1. StartLeaving(id, f) /\ id \in Ids \cup {NoId}
      BY <1>3, <1>4, <2>1
    <3>2. question \in Calls => f[question].phase # "idle"
      BY <1>7
    <3>3. /\ loop' \in Loop /\ ~ loop'.running /\ loop'.timer = 0
          /\ question' = NoCall /\ leaving' \subseteq Ids
          /\ calls' \in [Calls -> Call]
          /\ \A d \in Calls : Alike(f[d], calls'[d]) /\ CallOK(calls'[d], owns, loop'.gen)
          /\ NoStep'
      <4> HIDE DEF id
      <4> QED BY <1>1, <1>5, <1>6, <3>1, <3>2, LeavingFacts
    <3> QED BY <3>3
  <2>2. CASE /\ loop' = IF again THEN Succeeded(loop) ELSE loop
             /\ calls' = done
             /\ UNCHANGED <<leaving, question>>
    <3>1. calls' = f
      BY <1>4, <2>2
    <3>2. /\ loop' \in Loop /\ loop'.gen = loop.gen /\ loop'.timer = loop.timer
          /\ loop'.running => loop.running /\ ~ again
      <4>1. loop \in Loop
        BY <1>1 DEF TypeOK
      <4>2. CASE again
        BY <2>2, <4>1, <4>2, SucceedFacts
      <4>3. CASE ~ again
        BY <2>2, <4>1, <4>3
      <4> QED BY <4>2, <4>3
    <3>3. leaving' \subseteq Ids /\ question' \in Calls \cup {NoCall} /\ question' = question
      BY <1>1, <2>2 DEF TypeOK
    <3>4. question' # NoCall => calls'[question'].phase = "asking"
      BY <1>7, <3>1, <3>3
    <3>5. ~ crossed => NoStep'
      BY <1>8, <1>9, <3>1, <3>2 DEF NoStep, IsStep
    <3>6. ~ crossed => ~ loop'.running /\ loop'.timer = 0
      BY <1>9, <1>10, <3>2
    <3> QED BY <1>5, <1>6, <3>1, <3>2, <3>3, <3>4, <3>5, <3>6
  <2> QED BY <1>2, <2>1, <2>2
<1> HIDE DEF id, done, again
<1>12. replacing' \in {replacing, NoId} /\ early' \in BOOLEAN
  BY <1>1, <1>2 DEF TypeOK
<1>13. TypeOK'
  BY <1>1, <1>2, <1>3, <1>11, <1>12 DEF TypeOK, States
<1>14. CallsOK' /\ QuestionOK'
  BY <1>2, <1>11 DEF CallsOK, QuestionOK
<1>15. EventsOK'
  BY <1>1, <1>2 DEF EventsOK
<1>16. ConnectedOK'
  <2>1. [id |-> id, state |-> "lost"] \in Unheard => Told(events, id)
    <3> SUFFICES ASSUME NEW n \in 1 .. Len(events), events[n] = [id |-> id, state |-> "lost"]
                 PROVE  Told(events, id)
      BY DEF Unheard
    <3>1. events[n].id = id /\ ~ Hopeful(events[n])
      BY DEF Hopeful
    <3> QED BY <3>1 DEF Told
  <2>2. early' \/ link[id] = "up" \/ Told(events, id)
    BY <1>2, <2>1
  <2> QED BY <1>2, <1>3, <2>2, BoundsAssumption DEF ConnectedOK
<1>17. LoopOK'
  BY <1>1, <1>2, <1>11 DEF LoopOK
<1>18. ScheduleOK'
  BY <1>2, <1>11 DEF ScheduleOK
<1>19. LeftStaysLeft'
  BY <1>1, <1>2, BusyIsNotQuiet DEF LeftStaysLeft
<1> QED BY <1>13, <1>14, <1>15, <1>16, <1>17, <1>18, <1>19 DEF IInv

-----------------------------------------------------------------------------
(* Every step                                                              *)

LEMMA InitInv == Init => IInv
<1> SUFFICES ASSUME Init PROVE IInv
  OBVIOUS
<1>1. NoLoop \in Loop /\ ~ NoLoop.running /\ NoLoop.timer = 0 /\ NoLoop.gen = 0
  BY DEF NoLoop, Loop
<1>2. \A c \in Calls : calls[c] = Idle
  BY DEF Init
<1>3. calls \in [Calls -> Call]
  BY IdleFacts DEF Init
<1>4. TypeOK
  <2>1. events \in Seq(Event)
    BY DEF Init
  <2>2. link \in [Ids -> {"new", "up", "retrying", "down", "closed"}]
    BY DEF Init
  <2> QED BY <1>1, <1>3, <2>1, <2>2 DEF Init, TypeOK, States
<1>5. CallsOK
  BY <1>2, IdleFacts DEF CallsOK, CallOK
<1>6. QuestionOK /\ ConnectedOK
  BY DEF QuestionOK, ConnectedOK, Init
<1>7. EventsOK
  <2>1. Len(events) = 0
    BY DEF Init
  <2> QED BY <2>1 DEF EventsOK, Backed
<1>8. LoopOK
  BY <1>1 DEF LoopOK, Init
<1>9. NoStep /\ Active = {}
  BY <1>2, IdleFacts DEF NoStep, IsStep, Active
<1>10. ScheduleOK /\ LeftStaysLeft
  BY <1>1, <1>9 DEF ScheduleOK, LeftStaysLeft, Init
<1> QED BY <1>4, <1>5, <1>6, <1>7, <1>8, <1>10 DEF IInv

LEMMA StutterStep ==
    ASSUME IInv, UNCHANGED vars
    PROVE  IInv'
<1>1. UNCHANGED <<owns, connectionId, state, activeHost, replacing, question, loop, calls, leaving,
                  probe, asking, link, events, left, crossed, early>>
  BY DEF vars, store, work, ghosts
<1>2. UNCHANGED Active
  BY <1>1 DEF Active
<1>3. (NoStep' <=> NoStep) /\ (OneStep' <=> OneStep)
  BY <1>1 DEF NoStep, OneStep, IsStep
<1>4. TypeOK' /\ CallsOK' /\ QuestionOK' /\ EventsOK' /\ ConnectedOK' /\ LoopOK'
  BY <1>1 DEF IInv, TypeOK, CallsOK, QuestionOK, EventsOK, ConnectedOK, LoopOK
<1>5. ScheduleOK' /\ LeftStaysLeft'
  BY <1>1, <1>2, <1>3 DEF IInv, ScheduleOK, LeftStaysLeft, IsStep
<1> QED BY <1>4, <1>5 DEF IInv

LEMMA NextStep ==
    ASSUME IInv, [Next]_vars
    PROVE  IInv'
<1>1. ASSUME NEW c \in Calls, DialSteps(c) \/ Asks(c) \/ CancelDial(c)
      PROVE  IInv'
  BY <1>1, ClosedStep, DialFailsStep, DialWorksStep, CommitStep, AsksStep, CancelDialStep DEF DialSteps
<1>2. ASSUME NEW ok \in BOOLEAN, AnswerTrust(ok)
      PROVE  IInv'
  BY <1>2, AnswerTrustStep
<1>3. ASSUME NEW h \in Hosts, Pick(h)
      PROVE  IInv'
  BY <1>3, PickStep
<1>4. ASSUME NEW i \in Ids, \/ Disconnected(i) \/ CloseRejected(i) \/ Drop(i)
                            \/ \E ok \in BOOLEAN : LadderEnds(i, ok)
      PROVE  IInv'
  BY <1>4, DisconnectedStep, CloseRejectedStep, DropStep, LadderEndsStep
<1>5. ASSUME \/ RetryNow \/ Reconnect \/ Disconnect \/ Hear \/ Answered \/ AskTransport
             \/ TimerFires \/ Resume \/ ProbeWorks \/ ProbeFails
      PROVE  IInv'
  BY <1>5, RetryNowStep, ReconnectStep, DisconnectStep, HearStep, AnsweredStep, AskTransportStep,
     TimerFiresStep, ProbeStep, ProbeFailsStep
<1>6. CASE UNCHANGED vars
  BY <1>6, StutterStep
<1> QED BY <1>1, <1>2, <1>3, <1>4, <1>5, <1>6 DEF Next

THEOREM StoreInvariant == Spec => []IInv
BY InitInv, NextStep, PTL DEF Spec

-----------------------------------------------------------------------------
(* The properties                                                          *)

LEMMA StepsCounted ==
    ASSUME IInv, ~ crossed
    PROVE  Cardinality({c \in Active : calls[c].kind = "loop" /\ calls[c].gen = loop.gen})
               + (IF loop.timer # 0 THEN 1 ELSE 0) = (IF loop.running THEN 1 ELSE 0)
<1> DEFINE S == {c \in Active : calls[c].kind = "loop" /\ calls[c].gen = loop.gen}
<1>1. \A c \in Calls : c \in S <=> IsStep(c)
  BY DEF IInv, CallsOK, CallOK, IsStep, Active
<1>2. S \subseteq Calls
  BY DEF Active
<1>3. NoStep => S = {}
  BY <1>1, <1>2 DEF NoStep
<1>4. OneStep => \E c \in Calls : S = {c}
  BY <1>1, <1>2 DEF OneStep
<1> HIDE DEF S
<1>5. NoStep => Cardinality(S) = 0
  BY <1>3, FS_EmptySet
<1>6. OneStep => Cardinality(S) = 1
  BY <1>4, FS_Singleton
<1>7. \/ loop.running /\ loop.timer # 0 /\ NoStep
      \/ loop.running /\ loop.timer = 0 /\ OneStep
      \/ ~ loop.running /\ loop.timer = 0 /\ NoStep
  BY DEF IInv, ScheduleOK
<1>8. Cardinality(S) + (IF loop.timer # 0 THEN 1 ELSE 0) = (IF loop.running THEN 1 ELSE 0)
  BY <1>5, <1>6, <1>7
<1> QED BY <1>8 DEF S

\* OneSchedule, for any number of hosts, connection ids, dials, user gestures
\* and lost links: scheduleNext, dialStep, skipWait and cancel keep a running
\* recovery's next step pending or on the wire, once.
THEOREM RecoveryHasOneSchedule == Spec => []OneSchedule
<1>1. IInv => OneSchedule
  BY StepsCounted DEF OneSchedule
<1> QED BY <1>1, StoreInvariant, PTL

\* LearnsOfLoss: the filter of the store's event handler (an event of another
\* id, or of the id being replaced, is dropped) never loses the news that the
\* link the store shows as connected has gone, but for the news the filter drops
\* because the dial of that link is not committed yet (`early`).
THEOREM LossIsLearnt == Spec => []LearnsOfLoss
<1>1. IInv => LearnsOfLoss
  <2> SUFFICES ASSUME IInv, state = "connected", ~ early, replacing # connectionId,
                      link[connectionId] # "up"
               PROVE  \E e \in Unheard : e.id = connectionId /\ e.state # "connected"
    BY DEF LearnsOfLoss
  <2>1. PICK n \in 1 .. Len(events) : events[n].id = connectionId /\ ~ Hopeful(events[n])
    BY DEF IInv, ConnectedOK, Told
  <2> QED BY <2>1 DEF Unheard, Hopeful
<1> QED BY <1>1, StoreInvariant, PTL

\* LeftStaysLeft: after a disconnect() with no dial on the wire neither a
\* timer, an event, an answer nor a probe makes the store connect again.
THEOREM WhoLeftStaysLeft == Spec => []LeftStaysLeft
<1>1. IInv => LeftStaysLeft
  BY DEF IInv
<1> QED BY <1>1, StoreInvariant, PTL

-----------------------------------------------------------------------------
(* Which steps start a recovery dial                                       *)

NoLoopStarts == \A d \in Calls : calls'[d].kind = "loop" => calls[d].kind = "loop"

LEMMA DialStepStarts ==
    ASSUME IInv, NEW c \in Calls, DialSteps(c) \/ Asks(c) \/ CancelDial(c)
    PROVE  NoLoopStarts
<1>1. TypeOK /\ calls \in [Calls -> Call] /\ calls[c] \in Call
  BY DEF IInv, TypeOK
<1>2. CASE Closed(c)
  <2> DEFINE b == [calls[c] EXCEPT !.phase = "dialing"]
  <2>0. b \in Call /\ b.kind = calls[c].kind
    BY <1>1, PhaseFacts DEF Phases
  <2>1. PICK r \in Call : r = b /\ r.kind = calls[c].kind
    BY <2>0
  <2>2. calls' = [calls EXCEPT ![c] = r]
    BY <1>2, <2>1 DEF Closed, Claim
  <2> QED BY <1>1, <2>1, <2>2, CallSet DEF NoLoopStarts
<1>3. CASE DialFails(c)
  <2>1. calls' = [calls EXCEPT ![c] = Idle]
    BY <1>3 DEF DialFails
  <2> QED BY <1>1, <2>1, RemovedStep DEF NoLoopStarts
<1>4. CASE DialWorks(c)
  BY <1>1, <1>4 DEF DialWorks, NoLoopStarts, Call
<1>5. CASE Commit(c)
  <2> DEFINE done == [calls EXCEPT ![c] = Idle]
  <2>1. /\ done[c].kind = "none"
        /\ \A d \in Calls : d # c => done[d] = calls[d]
        /\ done \in [Calls -> Call]
    BY <1>1, RemovedStep
  <2>2. \/ calls' = done
        \/ calls' = [d \in Calls |-> IF d = question THEN [done[d] EXCEPT !.phase = "refused"] ELSE done[d]]
    BY <1>5 DEF Commit, StartLeaving
  <2> HIDE DEF done
  <2>3. \A d \in Calls : [done[d] EXCEPT !.phase = "refused"].kind = done[d].kind
    BY <2>1 DEF Call
  <2>4. \A d \in Calls : calls'[d].kind = done[d].kind
    BY <2>2, <2>3
  <2> QED BY <2>1, <2>4 DEF NoLoopStarts
<1>6. CASE Asks(c)
  <2>1. \A d \in Calls : calls'[d] \in {[calls[d] EXCEPT !.phase = "asking"],
                                        [calls[d] EXCEPT !.phase = "refused"], calls[d]}
    BY <1>6 DEF Asks
  <2>2. \A d \in Calls : /\ [calls[d] EXCEPT !.phase = "asking"].kind = calls[d].kind
                         /\ [calls[d] EXCEPT !.phase = "refused"].kind = calls[d].kind
    BY <1>1 DEF Call
  <2> QED BY <2>1, <2>2 DEF NoLoopStarts
<1>7. CASE CancelDial(c)
  BY <1>1, <1>7 DEF CancelDial, NoLoopStarts, Call
<1> QED BY <1>2, <1>3, <1>4, <1>5, <1>6, <1>7 DEF DialSteps

\* A dial of another kind is not a recovery dial.
LEMMA AddedStarts ==
    ASSUME TypeOK, NEW n \in Calls, NEW r \in Call, r.kind # "loop",
           calls' = [calls EXCEPT ![n] = r]
    PROVE  NoLoopStarts
<1>1. calls \in [Calls -> Call]
  BY DEF TypeOK
<1> QED BY <1>1, CallSet DEF NoLoopStarts

LEMMA UserStarts ==
    ASSUME IInv, \/ \E h \in Hosts : Pick(h)
                 \/ \E ok \in BOOLEAN : AnswerTrust(ok)
                 \/ Reconnect \/ Disconnect
    PROVE  NoLoopStarts
<1>1. /\ TypeOK /\ calls \in [Calls -> Call] /\ activeHost \in Hosts \cup {NoHost}
      /\ connectionId \in Ids \cup {NoId} /\ loop \in Loop
  BY DEF IInv, TypeOK
<1>2. CASE \E h \in Hosts : Pick(h)
  <2>1. PICK h \in Hosts : Pick(h)
    BY <1>2
  <2> DEFINE a == [Idle EXCEPT !.kind = "pick", !.host = h]
             b == [a EXCEPT !.phase = "dialing"]
  <2>2. a \in Call /\ a.kind = "pick"
    BY IdleFacts DEF Call, Kinds
  <2>3. IdleCalls # {} /\ calls' = [calls EXCEPT ![NextCall] = b]
    BY <2>1 DEF Pick, Claim
  <2> HIDE DEF a
  <2>4. b \in Call /\ b.kind = "pick"
    BY <2>2, PhaseFacts DEF Phases
  <2> HIDE DEF b
  <2>5. PICK n \in Calls : n = NextCall
    BY <2>3, NextCallIsIdle
  <2> QED BY <1>1, <2>3, <2>4, <2>5, AddedStarts
<1>3. CASE \E ok \in BOOLEAN : AnswerTrust(ok)
  <2>1. PICK p \in {"trusted", "refused"} : calls' = [calls EXCEPT ![question].phase = p]
    BY <1>3 DEF AnswerTrust
  <2> QED BY <1>1, <2>1 DEF NoLoopStarts, Call
<1>4. CASE Reconnect
  <2>1. StartReconnect("button", loop, 0) /\ "button" \in Kinds
    BY <1>4 DEF Reconnect, Kinds
  <2>2. PICK r \in Call : /\ r.kind = "button" /\ calls' = [calls EXCEPT ![NextCall] = r]
                          /\ IdleCalls # {}
    BY <1>1, <2>1, StartFacts
  <2>3. PICK n \in Calls : n = NextCall
    BY <2>2, NextCallIsIdle
  <2> QED BY <1>1, <2>2, <2>3, AddedStarts
<1>5. CASE Disconnect
  <2>1. calls' = [d \in Calls |-> IF d = question THEN [calls[d] EXCEPT !.phase = "refused"] ELSE calls[d]]
    BY <1>5 DEF Disconnect, StartLeaving
  <2>2. \A d \in Calls : [calls[d] EXCEPT !.phase = "refused"].kind = calls[d].kind
    BY <1>1 DEF Call
  <2> QED BY <2>1, <2>2 DEF NoLoopStarts
<1> QED BY <1>2, <1>3, <1>4, <1>5

LEMMA OthersStart ==
    ASSUME UNCHANGED calls
    PROVE  NoLoopStarts
BY DEF NoLoopStarts

-----------------------------------------------------------------------------
(* What a recovery finds.  While it runs, the transport the store holds is *)
(* not up on the platform's side, or the step on the wire is about to      *)
(* close it: the platform's own news started it, or a failed probe whose   *)
(* dial is that step.                                                      *)

\* The transport in hand, and the one a dial has just brought up, were opened.
OpenedOK ==
    /\ connectionId # NoId => link[connectionId] # "new"
    /\ \A c \in Calls : calls[c].phase = "restoring" => link[calls[c].id] # "new"

\* A platform that leaves recovery to the store only has bad news.
NewsOK == ~ owns => \A n \in 1 .. Len(events) : link[events[n].id] \in {"down", "closed"}

Closes(c) == IsStep(c) /\ calls[c].phase = "closing" /\ calls[c].prev = connectionId
RecoveringOK ==
    ~ crossed /\ loop.running =>
        \/ connectionId = NoId
        \/ link[connectionId] # "up"
        \/ \E c \in Calls : Closes(c)

Health == OpenedOK /\ NewsOK /\ RecoveringOK

\* No transport is opened twice, and only a platform that owns recovery has one
\* come up again.
LinksOnly ==
    \A i \in Ids : /\ link[i] # "new" => link'[i] # "new"
                   /\ link'[i] = "up" => link[i] \in {"up", "new"} \/ owns
                   /\ link[i] \in {"down", "closed"} /\ ~ owns => link'[i] \in {"down", "closed"}

LEMMA LinkSteps ==
    ASSUME IInv, [Next]_vars
    PROVE  LinksOnly
<1>1. link \in [Ids -> {"new", "up", "retrying", "down", "closed"}]
  BY DEF IInv, TypeOK
<1>2. ASSUME NEW i, link' = [link EXCEPT ![i] = "closed"]
      PROVE  LinksOnly
  BY <1>1, <1>2 DEF LinksOnly
<1>3. ASSUME link' = link
      PROVE  LinksOnly
  BY <1>3 DEF LinksOnly
<1>4. ASSUME NEW c \in Calls, DialSteps(c) \/ Asks(c) \/ CancelDial(c)
      PROVE  LinksOnly
  <2>1. CASE Closed(c)
    BY <1>2, <2>1 DEF Closed, CloseLink
  <2>2. CASE DialWorks(c)
    <3>1. PICK i \in Ids : link[i] = "new" /\ link' = [link EXCEPT ![i] = "up"]
      BY <2>2 DEF DialWorks
    <3> QED BY <1>1, <3>1 DEF LinksOnly
  <2>3. CASE DialFails(c) \/ Commit(c) \/ Asks(c) \/ CancelDial(c)
    BY <1>3, <2>3 DEF DialFails, Commit, Asks, CancelDial
  <2> QED BY <1>4, <2>1, <2>2, <2>3 DEF DialSteps
<1>5. CASE \/ \E ok \in BOOLEAN : AnswerTrust(ok)
           \/ \E h \in Hosts : Pick(h)
           \/ RetryNow \/ Reconnect \/ Disconnect \/ Hear \/ Answered \/ TimerFires
           \/ Resume \/ ProbeWorks \/ ProbeFails \/ UNCHANGED vars
  BY <1>3, <1>5 DEF AnswerTrust, Pick, RetryNow, Reconnect, Disconnect, Hear, Answered, TimerFires,
                    Resume, ProbeWorks, ProbeFails, vars
<1>6. ASSUME NEW i \in Ids, Disconnected(i) \/ CloseRejected(i)
      PROVE  LinksOnly
  BY <1>2, <1>3, <1>6 DEF Disconnected, CloseRejected, CloseLink
<1>7. ASSUME NEW i \in Ids, Drop(i)
      PROVE  LinksOnly
  BY <1>1, <1>7 DEF Drop, LinksOnly
<1>8. ASSUME NEW i \in Ids, NEW ok \in BOOLEAN, LadderEnds(i, ok)
      PROVE  LinksOnly
  BY <1>1, <1>8 DEF LadderEnds, LinksOnly
<1>9. CASE AskTransport
  BY <1>1, <1>9 DEF AskTransport, LinksOnly
<1> QED BY <1>4, <1>5, <1>6, <1>7, <1>8, <1>9 DEF Next

-----------------------------------------------------------------------------
(* Opened transports                                                       *)

\* No dial enters its last phase but by its transport coming up.
RestoringKept ==
    \A d \in Calls : calls'[d].phase = "restoring" =>
        calls[d].phase = "restoring" /\ calls'[d].id = calls[d].id

LEMMA OpenedKept ==
    ASSUME IInv, OpenedOK, LinksOnly, RestoringKept, connectionId' \in {connectionId, NoId}
    PROVE  OpenedOK'
<1>1. /\ connectionId \in Ids \cup {NoId}
      /\ \A d \in Calls : calls[d].phase = "restoring" => calls[d].id \in Ids
  BY DEF IInv, TypeOK, CallsOK, CallOK, Call
<1> QED BY <1>1 DEF OpenedOK, LinksOnly, RestoringKept

LEMMA AddedKept ==
    ASSUME IInv, NEW n \in Calls, NEW r \in Call, r.phase # "restoring",
           calls' = [calls EXCEPT ![n] = r]
    PROVE  RestoringKept
<1>1. calls \in [Calls -> Call]
  BY DEF IInv, TypeOK
<1> QED BY <1>1, CallSet DEF RestoringKept

LEMMA SameKept ==
    ASSUME UNCHANGED calls
    PROVE  RestoringKept
BY DEF RestoringKept

\* The calls of a dial that starts.
LEMMA StartKept ==
    ASSUME IInv, NEW kind \in Kinds, NEW gen \in Nat, StartReconnect(kind, loop, gen)
    PROVE  RestoringKept
<1>1. TypeOK /\ loop \in Loop
  BY DEF IInv, TypeOK
<1>2. PICK r \in Call : /\ r.phase \in {"dialing", "closing"}
                        /\ calls' = [calls EXCEPT ![NextCall] = r] /\ IdleCalls # {}
  BY <1>1, StartFacts
<1>3. PICK n \in Calls : n = NextCall
  BY <1>2, NextCallIsIdle
<1> QED BY <1>2, <1>3, AddedKept

LEMMA OpenedStep ==
    ASSUME IInv, OpenedOK, [Next]_vars
    PROVE  OpenedOK'
<1>1. LinksOnly
  BY LinkSteps
<1>2. /\ TypeOK /\ calls \in [Calls -> Call] /\ connectionId \in Ids \cup {NoId}
      /\ loop \in Loop /\ loop.gen \in Nat /\ loop.timer \in Nat
      /\ link \in [Ids -> {"new", "up", "retrying", "down", "closed"}]
  BY LoopFields DEF IInv, TypeOK
<1>3. ASSUME NEW c \in Calls, Closed(c)
      PROVE  OpenedOK'
  <2>1. calls' = [calls EXCEPT ![c] = [calls[c] EXCEPT !.phase = "dialing"]] /\ connectionId' = connectionId
    BY <1>3 DEF Closed, Claim
  <2> DEFINE b == [calls[c] EXCEPT !.phase = "dialing"]
  <2>2. b \in Call /\ b.phase = "dialing" /\ calls' = [calls EXCEPT ![c] = b]
    BY <1>2, <2>1, PhaseFacts DEF Phases
  <2> HIDE DEF b
  <2> QED BY <1>1, <2>1, <2>2, AddedKept, OpenedKept
<1>4. ASSUME NEW c \in Calls, DialFails(c)
      PROVE  OpenedOK'
  <2>1. calls' = [calls EXCEPT ![c] = Idle] /\ connectionId' = connectionId
    BY <1>4 DEF DialFails
  <2> QED BY <1>1, <2>1, IdleFacts, AddedKept, OpenedKept
<1>5. ASSUME NEW c \in Calls, DialWorks(c)
      PROVE  OpenedOK'
  <2>1. PICK i \in Ids : /\ link' = [link EXCEPT ![i] = "up"]
                         /\ calls' = [calls EXCEPT ![c] = [calls[c] EXCEPT !.phase = "restoring", !.id = i]]
    BY <1>2, <1>5 DEF DialWorks
  <2> DEFINE r == [calls[c] EXCEPT !.phase = "restoring", !.id = i]
  <2>2. r \in Call /\ r.id = i
    BY <1>2 DEF Call, Phases
  <2>7. calls' = [calls EXCEPT ![c] = r]
    BY <2>1
  <2> HIDE DEF r
  <2>3. /\ calls'[c] = r /\ \A d \in Calls : d # c => calls'[d] = calls[d]
    BY <1>2, <2>7, <2>2, CallSet
  <2>4. link'[i] = "up" /\ connectionId' = connectionId
    BY <1>2, <1>5, <2>1 DEF DialWorks, store
  <2>5. \A d \in Calls : calls[d].phase = "restoring" => calls[d].id \in Ids
    BY DEF IInv, TypeOK, CallsOK, CallOK, Call
  <2>6. \A d \in Calls : calls'[d].phase = "restoring" => link'[calls'[d].id] # "new"
    BY <1>1, <2>2, <2>3, <2>4, <2>5 DEF OpenedOK, LinksOnly
  <2> QED BY <1>1, <1>2, <2>4, <2>6 DEF OpenedOK, LinksOnly
<1>6. ASSUME NEW c \in Calls, Commit(c)
      PROVE  OpenedOK'
  <2> DEFINE done == [calls EXCEPT ![c] = Idle]
  <2>1. /\ calls[c].phase = "restoring" /\ connectionId' = calls[c].id /\ link' = link
    BY <1>6 DEF Commit
  <2>2. /\ done[c] = Idle
        /\ \A d \in Calls : d # c => done[d] = calls[d]
        /\ done \in [Calls -> Call]
    BY <1>2, IdleFacts, CallSet
  <2>3. \/ calls' = done
        \/ calls' = [d \in Calls |-> IF d = question THEN [done[d] EXCEPT !.phase = "refused"] ELSE done[d]]
    BY <1>6 DEF Commit, StartLeaving
  <2> HIDE DEF done
  <2>4. \A d \in Calls : [done[d] EXCEPT !.phase = "refused"].phase = "refused"
    BY <2>2 DEF Call
  <2>5. \A d \in Calls : calls'[d] = done[d] \/ calls'[d].phase = "refused"
    BY <2>3, <2>4
  <2>6. \A d \in Calls : calls'[d].phase = "restoring" => calls'[d] = calls[d] /\ calls[d].phase = "restoring"
    BY <2>2, <2>5, IdleFacts
  <2> QED BY <2>1, <2>6 DEF OpenedOK
<1>7. ASSUME NEW c \in Calls, Asks(c)
      PROVE  OpenedOK'
  <2>1. \A d \in Calls : calls'[d] \in {[calls[d] EXCEPT !.phase = "asking"],
                                        [calls[d] EXCEPT !.phase = "refused"], calls[d]}
    BY <1>7 DEF Asks
  <2>2. \A d \in Calls : /\ [calls[d] EXCEPT !.phase = "asking"].phase = "asking"
                         /\ [calls[d] EXCEPT !.phase = "refused"].phase = "refused"
    BY <1>2 DEF Call
  <2>3. RestoringKept
    BY <2>1, <2>2 DEF RestoringKept
  <2>4. connectionId' = connectionId
    BY <1>7 DEF Asks
  <2> QED BY <1>1, <2>3, <2>4, OpenedKept
<1>8. ASSUME NEW c \in Calls, CancelDial(c)
      PROVE  OpenedOK'
  <2>1. RestoringKept
    BY <1>2, <1>8 DEF CancelDial, RestoringKept, Call
  <2>2. connectionId' = connectionId
    BY <1>8 DEF CancelDial, store
  <2> QED BY <1>1, <2>1, <2>2, OpenedKept
<1>9. ASSUME NEW ok \in BOOLEAN, AnswerTrust(ok)
      PROVE  OpenedOK'
  <2>1. PICK p \in {"trusted", "refused"} : calls' = [calls EXCEPT ![question].phase = p]
    BY <1>9 DEF AnswerTrust
  <2>2. RestoringKept
    BY <1>2, <2>1 DEF RestoringKept, Call
  <2>3. connectionId' = connectionId
    BY <1>9 DEF AnswerTrust
  <2> QED BY <1>1, <2>2, <2>3, OpenedKept
<1>10. ASSUME NEW h \in Hosts, Pick(h)
      PROVE  OpenedOK'
  <2> DEFINE a == [Idle EXCEPT !.kind = "pick", !.host = h]
             b == [a EXCEPT !.phase = "dialing"]
  <2>1. a \in Call
    BY IdleFacts DEF Call, Kinds
  <2>2. IdleCalls # {} /\ calls' = [calls EXCEPT ![NextCall] = b] /\ connectionId' = connectionId
    BY <1>10 DEF Pick, Claim
  <2> HIDE DEF a
  <2>3. b \in Call /\ b.phase = "dialing"
    BY <2>1, PhaseFacts DEF Phases
  <2> HIDE DEF b
  <2>4. PICK n \in Calls : n = NextCall
    BY <2>2, NextCallIsIdle
  <2>5. RestoringKept
    BY <2>2, <2>3, <2>4, AddedKept
  <2> QED BY <1>1, <2>2, <2>5, OpenedKept
<1>11. CASE RetryNow \/ Reconnect \/ TimerFires
  <2>1. \/ UNCHANGED calls
        \/ StartReconnect("loop", loop, loop.gen)
        \/ StartReconnect("button", loop, 0)
        \/ StartReconnect("loop", loop, loop.timer)
    BY <1>11 DEF RetryNow, Reconnect, TimerFires
  <2>2. RestoringKept
    BY <1>2, <2>1, StartKept, SameKept DEF Kinds
  <2>3. connectionId' = connectionId
    BY <1>11 DEF RetryNow, Reconnect, TimerFires
  <2> QED BY <1>1, <2>2, <2>3, OpenedKept
<1>12. CASE Disconnect
  <2>1. calls' = [d \in Calls |-> IF d = question THEN [calls[d] EXCEPT !.phase = "refused"] ELSE calls[d]]
    BY <1>12 DEF Disconnect, StartLeaving
  <2>2. \A d \in Calls : [calls[d] EXCEPT !.phase = "refused"].phase = "refused"
    BY <1>2 DEF Call
  <2>3. RestoringKept
    BY <2>1, <2>2 DEF RestoringKept
  <2>4. connectionId' \in {connectionId, NoId}
    BY <1>12 DEF Disconnect, Reset
  <2> QED BY <1>1, <2>3, <2>4, OpenedKept
<1>13. ASSUME NEW i \in Ids, \/ Disconnected(i) \/ CloseRejected(i) \/ Drop(i)
                             \/ \E ok \in BOOLEAN : LadderEnds(i, ok)
      PROVE  OpenedOK'
  <2>1. UNCHANGED calls
    BY <1>13 DEF Disconnected, CloseRejected, Drop, LadderEnds, work
  <2>2. connectionId' \in {connectionId, NoId}
    BY <1>13 DEF Disconnected, Reset, CloseRejected, Drop, LadderEnds, store
  <2> QED BY <1>1, <2>1, <2>2, SameKept, OpenedKept
<1>14. CASE Hear \/ Answered \/ AskTransport \/ Resume \/ ProbeWorks \/ UNCHANGED vars
  <2>1. UNCHANGED <<calls, connectionId>>
    BY <1>14 DEF Hear, Answered, AskTransport, Resume, ProbeWorks, vars, work, store
  <2> QED BY <1>1, <2>1, SameKept, OpenedKept
<1>15. CASE ProbeFails
  <2>1. connectionId' = connectionId
    BY <1>15 DEF ProbeFails
  <2>2. CASE UNCHANGED calls
    BY <1>1, <2>1, <2>2, SameKept, OpenedKept
  <2>3. CASE ~ UNCHANGED calls
    <3>1. PICK g : /\ IdleCalls # {}
                   /\ calls' = [calls EXCEPT ![NextCall] =
                                  [Idle EXCEPT !.kind = "loop", !.phase = "closing", !.host = activeHost,
                                               !.gen = g, !.prev = connectionId]]
      BY <1>15, <2>3 DEF ProbeFails
    <3>2. PICK n \in Calls : n = NextCall
      BY <3>1, NextCallIsIdle
    <3>3. RestoringKept
      BY <1>2, <3>1, <3>2 DEF RestoringKept, Idle
    <3> QED BY <1>1, <2>1, <3>3, OpenedKept
  <2> QED BY <2>2, <2>3
<1> QED BY <1>3, <1>4, <1>5, <1>6, <1>7, <1>8, <1>9, <1>10, <1>11, <1>12, <1>13, <1>14, <1>15
        DEF Next, DialSteps

-----------------------------------------------------------------------------
(* The news                                                                *)

\* A late event names a link that is gone, and says so of the link it adds.
LEMMA NewsKept ==
    ASSUME IInv, NewsOK, LinksOnly, UNCHANGED owns,
           owns \/ events' = events \/ (events # <<>> /\ events' = Tail(events))
                \/ \E e \in Event : events' = Append(events, e) /\ link'[e.id] \in {"down", "closed"}
    PROVE  NewsOK'
<1> SUFFICES ASSUME ~ owns, NEW n \in 1 .. Len(events')
             PROVE  link'[events'[n].id] \in {"down", "closed"}
  BY DEF NewsOK
<1>1. events \in Seq(Event)
  BY DEF IInv, TypeOK
<1>2. \A m \in 1 .. Len(events) : link'[events[m].id] \in {"down", "closed"}
  BY <1>1, EventIds DEF NewsOK, LinksOnly
<1>3. CASE events' = events
  BY <1>2, <1>3
<1>4. CASE events # <<>> /\ events' = Tail(events)
  <2>1. n + 1 \in 1 .. Len(events) /\ events'[n] = events[n + 1]
    BY <1>1, <1>4, TailEvent
  <2> QED BY <1>2, <2>1
<1>5. ASSUME NEW e \in Event, events' = Append(events, e), link'[e.id] \in {"down", "closed"}
      PROVE  link'[events'[n].id] \in {"down", "closed"}
  <2>1. /\ Len(events) \in Nat /\ Len(events') = Len(events) + 1
        /\ \A m \in 1 .. Len(events) : events'[m] = events[m]
        /\ events'[Len(events) + 1] = e
    BY <1>1, <1>5, AppendEvent
  <2>2. CASE n = Len(events) + 1
    BY <1>5, <2>1, <2>2
  <2>3. CASE n # Len(events) + 1
    <3>1. n \in 1 .. Len(events)
      BY <2>1, <2>3
    <3> QED BY <1>2, <2>1, <3>1
  <2> QED BY <2>2, <2>3
<1> QED BY <1>3, <1>4, <1>5

LEMMA ClosingNews ==
    ASSUME IInv, NewsOK, LinksOnly, UNCHANGED owns, NEW i \in Ids, CloseLink(i)
    PROVE  NewsOK'
<1> DEFINE e == [id |-> i, state |-> "idle"]
<1>1. link \in [Ids -> {"new", "up", "retrying", "down", "closed"}]
  BY DEF IInv, TypeOK
<1>2. e \in Event /\ e.id = i
  BY DEF Event, News
<1>3. link'[i] = "closed" /\ events' \in {events, Append(events, e)}
  BY <1>1 DEF CloseLink
<1> HIDE DEF e
<1> QED BY <1>2, <1>3, NewsKept

LEMMA NewsStep ==
    ASSUME IInv, NewsOK, [Next]_vars
    PROVE  NewsOK'
<1>1. LinksOnly
  BY LinkSteps
<1>2. /\ link \in [Ids -> {"new", "up", "retrying", "down", "closed"}]
      /\ \A c \in Calls : calls[c].phase = "closing" => calls[c].prev \in Ids
  BY DEF IInv, TypeOK, CallsOK, CallOK, Call
<1>3. ASSUME NEW c \in Calls, Closed(c)
      PROVE  NewsOK'
  <2>1. calls[c].prev \in Ids /\ CloseLink(calls[c].prev) /\ UNCHANGED owns
    BY <1>2, <1>3 DEF Closed
  <2> QED BY <1>1, <2>1, ClosingNews
<1>4. ASSUME NEW c \in Calls, DialFails(c) \/ DialWorks(c) \/ Commit(c) \/ Asks(c) \/ CancelDial(c)
      PROVE  NewsOK'
  <2>1. UNCHANGED <<owns, events>>
    BY <1>4 DEF DialFails, DialWorks, Commit, Asks, CancelDial
  <2> QED BY <1>1, <2>1, NewsKept
<1>5. CASE \/ \E ok \in BOOLEAN : AnswerTrust(ok)
           \/ \E h \in Hosts : Pick(h)
           \/ RetryNow \/ Reconnect \/ Disconnect \/ TimerFires
           \/ Resume \/ ProbeWorks \/ ProbeFails \/ UNCHANGED vars
  <2>1. UNCHANGED <<owns, events>>
    BY <1>5 DEF AnswerTrust, Pick, RetryNow, Reconnect, Disconnect, TimerFires, Resume, ProbeWorks,
                ProbeFails, vars
  <2> QED BY <1>1, <2>1, NewsKept
<1>6. CASE Hear \/ Answered
  <2>1. UNCHANGED owns /\ events # <<>> /\ events' = Tail(events)
    BY <1>6 DEF Hear, Answered
  <2> QED BY <1>1, <2>1, NewsKept
<1>7. ASSUME NEW i \in Ids, Disconnected(i)
      PROVE  NewsOK'
  <2>1. CloseLink(i) /\ UNCHANGED owns
    BY <1>7 DEF Disconnected
  <2> QED BY <1>1, <2>1, ClosingNews
<1>8. ASSUME NEW i \in Ids, CloseRejected(i)
      PROVE  NewsOK'
  <2>1. UNCHANGED <<owns, events>>
    BY <1>8 DEF CloseRejected
  <2> QED BY <1>1, <2>1, NewsKept
<1>9. ASSUME NEW i \in Ids, Drop(i), ~ owns
      PROVE  NewsOK'
  <2> DEFINE e == [id |-> i, state |-> "lost"]
  <2>1. e \in Event /\ e.id = i
    BY DEF Event, News
  <2>2. link'[i] = "down" /\ events' = Append(events, e) /\ UNCHANGED owns
    BY <1>2, <1>9 DEF Drop
  <2> HIDE DEF e
  <2> QED BY <1>1, <2>1, <2>2, NewsKept
<1>10. ASSUME owns, \/ \E i \in Ids : Drop(i) \/ \E ok \in BOOLEAN : LadderEnds(i, ok)
                    \/ AskTransport
       PROVE  NewsOK'
  BY <1>1, <1>10, NewsKept DEF Drop, LadderEnds, AskTransport
<1>11. ASSUME ~ owns, \/ \E i \in Ids, ok \in BOOLEAN : LadderEnds(i, ok)
                      \/ AskTransport
       PROVE  FALSE
  BY <1>11 DEF LadderEnds, AskTransport
<1> QED BY <1>3, <1>4, <1>5, <1>6, <1>7, <1>8, <1>9, <1>10, <1>11 DEF Next, DialSteps

-----------------------------------------------------------------------------
(* The transport a recovery replaces                                       *)

\* The steps that go on to close a transport are left as they are.
ClosingKept ==
    \A d \in Calls : calls[d].kind = "loop" /\ calls[d].phase = "closing" => calls'[d] = calls[d]

LEMMA RecoveringKept ==
    ASSUME IInv, OpenedOK, RecoveringOK, LinksOnly, ClosingKept, LoopOK',
           UNCHANGED <<owns, connectionId>>, loop'.gen = loop.gen, loop'.running => loop.running,
           crossed => crossed'
    PROVE  RecoveringOK'
<1> SUFFICES ASSUME ~ crossed', loop'.running
             PROVE  \/ connectionId = NoId \/ link'[connectionId] # "up"
                    \/ \E c \in Calls : Closes(c)'
  BY DEF RecoveringOK
<1>1. ~ owns /\ connectionId \in Ids \cup {NoId}
  BY DEF LoopOK, IInv, TypeOK
<1>2. CASE connectionId = NoId \/ link[connectionId] # "up"
  BY <1>1, <1>2 DEF OpenedOK, LinksOnly
<1>3. ASSUME NEW c \in Calls, Closes(c)
      PROVE  Closes(c)'
  BY <1>3 DEF Closes, IsStep, ClosingKept
<1> QED BY <1>2, <1>3 DEF RecoveringOK

LEMMA StoppedRecovering ==
    ASSUME ~ loop'.running \/ crossed' \/ connectionId' = NoId
    PROVE  RecoveringOK'
BY DEF RecoveringOK

\* The pending step of a recovery finds no other, so the link it closes is not up.
LEMMA PendingStepFinds ==
    ASSUME IInv, RecoveringOK, loop.timer # 0, ~ crossed
    PROVE  connectionId = NoId \/ link[connectionId] # "up"
<1>1. loop.running /\ NoStep
  BY DEF IInv, ScheduleOK
<1> QED BY <1>1 DEF RecoveringOK, NoStep, Closes

LEMMA StepRecovers ==
    ASSUME IInv, RecoveringOK, loop.timer # 0, UNCHANGED <<connectionId, link>>, crossed => crossed'
    PROVE  RecoveringOK'
BY PendingStepFinds DEF RecoveringOK

LEMMA RecoveringStep ==
    ASSUME IInv, IInv', OpenedOK, NewsOK, RecoveringOK, [Next]_vars
    PROVE  RecoveringOK'
<1>1. LinksOnly /\ LoopOK'
  BY LinkSteps DEF IInv
<1>2. /\ TypeOK /\ calls \in [Calls -> Call] /\ connectionId \in Ids \cup {NoId}
      /\ loop \in Loop /\ loop.gen \in Nat /\ loop.timer \in Nat
      /\ link \in [Ids -> {"new", "up", "retrying", "down", "closed"}]
  BY LoopFields DEF IInv, TypeOK
<1>3. ASSUME NEW c \in Calls, Closed(c)
      PROVE  RecoveringOK'
  <2> DEFINE r == [calls[c] EXCEPT !.phase = "dialing"]
  <2>1. /\ calls[c].phase = "closing" /\ link' = [link EXCEPT ![calls[c].prev] = "closed"]
        /\ UNCHANGED <<owns, connectionId, loop, crossed>>
    BY <1>3 DEF Closed, CloseLink, ghosts
  <2>2. r \in Call /\ calls' = [calls EXCEPT ![c] = r]
    BY <1>2, <1>3, PhaseFacts DEF Closed, Claim, Phases
  <2> HIDE DEF r
  <2>3. \A d \in Calls : d # c => calls'[d] = calls[d]
    BY <1>2, <2>2, CallSet
  <2> SUFFICES ASSUME ~ crossed, loop.running
               PROVE  \/ connectionId = NoId \/ link'[connectionId] # "up"
                      \/ \E d \in Calls : Closes(d)'
    BY <2>1 DEF RecoveringOK
  <2>4. CASE connectionId = NoId \/ link[connectionId] # "up"
    BY <1>2, <2>1, <2>4
  <2>5. CASE Closes(c)
    <3>1. calls[c].prev = connectionId
      BY <2>5 DEF Closes
    <3> QED BY <1>2, <2>1, <3>1
  <2>6. ASSUME NEW d \in Calls, d # c, Closes(d)
        PROVE  Closes(d)'
    BY <2>1, <2>3, <2>6 DEF Closes, IsStep
  <2> QED BY <2>4, <2>5, <2>6 DEF RecoveringOK
<1>4. ASSUME NEW c \in Calls, DialFails(c)
      PROVE  RecoveringOK'
  <2>1. /\ calls' = [calls EXCEPT ![c] = Idle] /\ calls[c].phase # "closing"
        /\ UNCHANGED <<owns, connectionId, crossed>> /\ loop' \in {loop, Schedule(loop)}
    BY <1>4 DEF DialFails, ghosts
  <2>2. ClosingKept
    BY <1>2, <2>1, IdleFacts, CallSet DEF ClosingKept
  <2>3. loop'.gen = loop.gen /\ (loop'.running => loop.running)
    BY <1>2, <2>1, ScheduleFacts
  <2> QED BY <1>1, <2>1, <2>2, <2>3, RecoveringKept
<1>5. ASSUME NEW c \in Calls, DialWorks(c)
      PROVE  RecoveringOK'
  <2>1. ClosingKept
    BY <1>2, <1>5 DEF ClosingKept, DialWorks
  <2>2. UNCHANGED <<owns, connectionId, loop, crossed>>
    BY <1>5 DEF DialWorks, store, ghosts
  <2> QED BY <1>1, <2>1, <2>2, RecoveringKept
<1>6. ASSUME NEW c \in Calls, Commit(c)
      PROVE  RecoveringOK'
  <2>1. CASE ~ loop'.running \/ crossed'
    BY <2>1, StoppedRecovering
  <2>2. CASE loop'.running /\ ~ crossed'
    <3>1. /\ calls[c].phase = "restoring" /\ crossed' = crossed
          /\ \/ loop' = Cancelled(loop)
             \/ loop' = Succeeded(loop)
             \/ loop' = loop /\ calls[c].kind = "pick"
      BY <1>6 DEF Commit, StartLeaving, ghosts
    <3>2. loop' # Cancelled(loop) /\ loop' # Succeeded(loop)
      BY <1>2, <2>2, CancelFacts, SucceedFacts
    <3>3. c \in Active /\ ~ IsStep(c) /\ loop.running
      BY <2>2, <3>1, <3>2 DEF Active, IsStep
    <3> QED BY <2>2, <3>1, <3>3 DEF IInv, ScheduleOK
  <2> QED BY <2>1, <2>2
<1>7. ASSUME NEW c \in Calls, Asks(c)
      PROVE  RecoveringOK'
  <2>1. question \in Calls => calls[question].phase = "asking"
    BY BoundsAssumption DEF IInv, QuestionOK
  <2>2. calls[c].phase = "dialing" /\ \A d \in Calls : d # c /\ d # question => calls'[d] = calls[d]
    BY <1>2, <1>7 DEF Asks
  <2>3. ClosingKept
    BY <2>1, <2>2 DEF ClosingKept
  <2>4. UNCHANGED <<owns, connectionId, loop, crossed>>
    BY <1>7 DEF Asks, ghosts
  <2> QED BY <1>1, <2>3, <2>4, RecoveringKept
<1>8. ASSUME NEW c \in Calls, CancelDial(c)
      PROVE  RecoveringOK'
  <2>1. ClosingKept
    BY <1>2, <1>8 DEF ClosingKept, CancelDial
  <2>2. UNCHANGED <<owns, connectionId, loop, crossed>>
    BY <1>8 DEF CancelDial, store, ghosts
  <2> QED BY <1>1, <2>1, <2>2, RecoveringKept
<1>9. ASSUME NEW ok \in BOOLEAN, AnswerTrust(ok)
      PROVE  RecoveringOK'
  <2>1. question # NoCall => calls[question].phase = "asking"
    BY DEF IInv, QuestionOK
  <2>2. ClosingKept
    BY <1>2, <1>9, <2>1 DEF ClosingKept, AnswerTrust
  <2>3. UNCHANGED <<owns, connectionId, loop, crossed>>
    BY <1>9 DEF AnswerTrust, ghosts
  <2> QED BY <1>1, <2>2, <2>3, RecoveringKept
<1>10. CASE (\E h \in Hosts : Pick(h)) \/ Reconnect
  <2>1. /\ crossed' = (crossed \/ Overlap \/ loop.running \/ loop.timer # 0)
        /\ loop' = loop \/ loop' = [loop EXCEPT !.timer = 0]
    <3>1. CASE \E h \in Hosts : Pick(h)
      BY <3>1 DEF Pick, UserDials
    <3>2. CASE Reconnect
      BY <3>2 DEF Reconnect, UserDials, StartReconnect
    <3> QED BY <1>10, <3>1, <3>2
  <2>2. loop'.running = loop.running
    BY <1>2, <2>1, DisarmFacts
  <2> QED BY <2>1, <2>2, StoppedRecovering
<1>11. CASE RetryNow
  BY <1>11, StepRecovers DEF RetryNow, Counting
<1>12. CASE TimerFires
  BY <1>12, StepRecovers DEF TimerFires, ghosts
<1>13. CASE Disconnect
  <2>1. loop' = Cancelled(loop)
    BY <1>13 DEF Disconnect, StartLeaving
  <2> QED BY <1>2, <2>1, CancelFacts, StoppedRecovering
<1>14. ASSUME NEW i \in Ids, Disconnected(i)
       PROVE  RecoveringOK'
  BY <1>14, StoppedRecovering DEF Disconnected, Reset
<1>15. CASE \/ \E i \in Ids : \/ CloseRejected(i) \/ Drop(i)
                              \/ \E ok \in BOOLEAN : LadderEnds(i, ok)
            \/ Answered \/ AskTransport \/ Resume \/ ProbeWorks \/ UNCHANGED vars
  <2>1. UNCHANGED <<owns, connectionId, loop, crossed, calls>>
    BY <1>15 DEF CloseRejected, Drop, LadderEnds, Answered, AskTransport, Resume, ProbeWorks, vars,
                 store, work, ghosts
  <2>2. ClosingKept
    BY <2>1 DEF ClosingKept
  <2> QED BY <1>1, <2>1, <2>2, RecoveringKept
<1>16. CASE Hear
  <2> DEFINE e == Head(events)
  <2>1. /\ UNCHANGED <<owns, connectionId, calls, link>> /\ (crossed => crossed')
        /\ events # <<>>
        /\ loop' = loop \/ (e.id = connectionId /\ ~ owns)
    BY <1>16 DEF Hear
  <2>2. CASE loop' = loop
    <3>1. ClosingKept
      BY <2>1 DEF ClosingKept
    <3> QED BY <1>1, <2>1, <2>2, <3>1, RecoveringKept
  <2>3. CASE e.id = connectionId /\ ~ owns
    <3>1. events \in Seq(Event)
      BY DEF IInv, TypeOK
    <3>2. e = events[1] /\ 1 \in 1 .. Len(events)
      BY <2>1, <3>1, TailEvent
    <3>3. link[connectionId] \in {"down", "closed"}
      BY <2>3, <3>2 DEF NewsOK
    <3> QED BY <2>1, <3>3 DEF RecoveringOK
  <2> QED BY <2>1, <2>2, <2>3
<1>17. CASE ProbeFails
  <2>1. /\ UNCHANGED <<owns, connectionId, link>> /\ (crossed => crossed')
    BY <1>17 DEF ProbeFails
  <2>2. CASE UNCHANGED <<calls, loop>>
    <3>1. ClosingKept
      BY <2>2 DEF ClosingKept
    <3> QED BY <1>1, <2>1, <2>2, <3>1, RecoveringKept
  <2>3. CASE ~ UNCHANGED <<calls, loop>>
    <3> DEFINE l == BeginLoop(loop, activeHost)
               b == [Idle EXCEPT !.kind = "loop", !.phase = "closing", !.host = activeHost,
                                 !.gen = l.gen, !.prev = connectionId]
    <3>1. /\ IdleCalls # {} /\ activeHost # NoHost
          /\ calls' = [calls EXCEPT ![NextCall] = b]
          /\ loop' = [l EXCEPT !.timer = 0]
      BY <1>17, <2>3 DEF ProbeFails
    <3>2. b.kind = "loop" /\ b.phase = "closing" /\ b.gen = l.gen /\ b.prev = connectionId
      BY DEF Idle
    <3> HIDE DEF b
    <3>3. l \in Loop
      BY <1>2, <3>1, BeginFacts
    <3> HIDE DEF l
    <3>4. loop'.gen = l.gen
      BY <3>1, <3>3, DisarmFacts
    <3>5. PICK n \in Calls : n = NextCall
      BY <3>1, NextCallIsIdle
    <3>6. Closes(n)'
      BY <1>2, <2>1, <3>1, <3>2, <3>4, <3>5 DEF Closes, IsStep
    <3> QED BY <3>6 DEF RecoveringOK
  <2> QED BY <2>2, <2>3
<1> QED BY <1>3, <1>4, <1>5, <1>6, <1>7, <1>8, <1>9, <1>10, <1>11, <1>12, <1>13, <1>14, <1>15,
           <1>16, <1>17 DEF Next, DialSteps

LEMMA InitHealth == Init => Health
<1> SUFFICES ASSUME Init PROVE Health
  OBVIOUS
<1>1. /\ connectionId = NoId
      /\ \A c \in Calls : calls[c].phase # "restoring"
  BY IdleFacts DEF Init
<1>2. Len(events) = 0
  BY DEF Init
<1>3. ~ loop.running
  BY DEF Init, NoLoop
<1> QED BY <1>1, <1>2, <1>3 DEF Health, OpenedOK, NewsOK, RecoveringOK

\* What a recovery finds, on top of the invariant of the store.
LEMMA LinksInvariant == Spec => []Health
<1>1. IInv /\ IInv' /\ Health /\ [Next]_vars => Health'
  BY OpenedStep, NewsStep, RecoveringStep DEF Health
<1> QED BY <1>1, InitHealth, StoreInvariant, PTL DEF Spec

-----------------------------------------------------------------------------
(* What a recovery closes                                                  *)

\* The pending step of a recovery closes a link that is not up.
LEMMA StepCloses ==
    ASSUME IInv, RecoveringOK, loop.timer # 0, StartReconnect("loop", loop, loop.gen),
           NEW c \in Calls, ClosesFor(c)
    PROVE  link[calls'[c].prev] # "up" \/ crossed
<1>1. TypeOK /\ loop \in Loop /\ loop.gen \in Nat /\ "loop" \in Kinds /\ calls \in [Calls -> Call]
  BY LoopFields DEF IInv, TypeOK, Kinds
<1>2. PICK r \in Call : /\ r.phase = "closing" => r.prev # NoId
                        /\ r.prev = connectionId
                        /\ calls' = [calls EXCEPT ![NextCall] = r] /\ IdleCalls # {}
  BY <1>1, StartFacts
<1>3. c = NextCall /\ calls'[c] = r
  BY <1>1, <1>2 DEF ClosesFor
<1>4. calls'[c].prev = connectionId /\ connectionId # NoId
  BY <1>2, <1>3 DEF ClosesFor
<1> QED BY <1>4, PendingStepFinds

LEMMA NewRecoveryDial ==
    ASSUME IInv, RecoveringOK, [Next]_vars, NEW c \in Calls, ClosesFor(c)
    PROVE  \/ link[calls'[c].prev] # "up"
           \/ probe # NoId /\ probe' = NoId
           \/ crossed'
<1>1. ~ NoLoopStarts
  BY DEF ClosesFor, NoLoopStarts
<1>2. ASSUME NEW d \in Calls, DialSteps(d) \/ Asks(d) \/ CancelDial(d)
      PROVE  FALSE
  BY <1>1, <1>2, DialStepStarts
<1>3. CASE \/ \E h \in Hosts : Pick(h)
           \/ \E ok \in BOOLEAN : AnswerTrust(ok)
           \/ Reconnect \/ Disconnect
  BY <1>1, <1>3, UserStarts
<1>4. ASSUME NEW i \in Ids, \/ Disconnected(i) \/ CloseRejected(i) \/ Drop(i)
                            \/ \E ok \in BOOLEAN : LadderEnds(i, ok)
      PROVE  FALSE
  <2>1. UNCHANGED calls
    BY <1>4 DEF Disconnected, CloseRejected, Drop, LadderEnds, work
  <2> QED BY <1>1, <2>1, OthersStart
<1>5. CASE Hear \/ Answered \/ AskTransport \/ Resume \/ ProbeWorks \/ UNCHANGED vars
  <2>1. UNCHANGED calls
    BY <1>5 DEF Hear, Answered, AskTransport, Resume, ProbeWorks, vars, work
  <2> QED BY <1>1, <2>1, OthersStart
<1>6. CASE RetryNow
  <2>1. loop.timer # 0 /\ StartReconnect("loop", loop, loop.gen) /\ crossed' = crossed
    BY <1>6 DEF RetryNow, Counting
  <2> QED BY <2>1, StepCloses
<1>7. CASE TimerFires
  <2>1. /\ loop.timer # 0 /\ crossed' = crossed
        /\ StartReconnect("loop", loop, loop.gen) \/ UNCHANGED calls
    BY <1>7 DEF TimerFires, ghosts
  <2> QED BY <1>1, <2>1, StepCloses, OthersStart
<1>8. CASE ProbeFails
  BY <1>8 DEF ProbeFails
<1> QED BY <1>2, <1>3, <1>4, <1>5, <1>6, <1>7, <1>8 DEF Next

\* HealthyLinkKept: dialStep, fired by the timer or by a skipped wait, closes
\* the old transport before it re-dials; that transport is not up on the
\* platform's side, unless something crossed the recovery.
THEOREM NoRecoveryOfHealthyLink == Spec => HealthyLinkKept
<1>1. IInv /\ Health /\ [Next]_vars =>
        [\A c \in Calls : ClosesFor(c) =>
            \/ link[calls'[c].prev] # "up"
            \/ probe # NoId /\ probe' = NoId
            \/ crossed']_vars
  BY NewRecoveryDial DEF Health
<1> QED BY <1>1, StoreInvariant, LinksInvariant, PTL DEF Spec, HealthyLinkKept
=============================================================================
