------------------------- MODULE PortForwardsProofs -------------------------
(***************************************************************************)
(* The guarantees of PortForwards for any ports, limits and connections.   *)
(* The invariant adds to TypeOK what an operation relies on between two    *)
(* awaits: every handle is of the connection in force, an open in flight   *)
(* has a place, and the absence counters are backed by scans.              *)
(***************************************************************************)
EXTENDS PortForwards, FiniteSetTheorems, NaturalsInduction, WellFoundedInduction,
        SequenceTheorems, TLAPS

Jobs == [pc : {"idle", "scan", "close", "open", "closeAll"}, close : SUBSET Ports,
         open : SUBSET Ports, first : SUBSET Ports, port : Ports \cup {0},
         next : [Ports -> 0..(MissLimit - 1)]]
Tables == [Ports -> [origin : Origins \cup {"none"}, gen : 0..MaxGens]]
Operations == [op : {"scan", "closeAll", "set"}, gen : 0..MaxGens]

\* Handles are of the connection in force (setConnection clears the others).
OneConnection == \A p \in Ports : forwards[p] # None => forwards[p].gen = connection

\* A pass that closes has a close left; an open in flight has a place.
JobShape ==
    /\ job.pc = "scan" => job.close = {}
    /\ job.pc = "close" => job.close # {}
    /\ job.pc = "open" =>
          job.close = {} /\ job.port \in Ports /\ Cardinality(Active) < MaxActive

QueuedGens == \A i \in 1..Len(queue) : queue[i].op = "set" => queue[i].gen \in Gens

\* The counters in force, or the ones that replace them after the closes,
\* count no more than the scans in a row that missed the port.
CountsBacked ==
    \A p \in Ports : (IF job.pc = "close" THEN job.next[p] ELSE missing[p]) <= gone[p]

IInv == /\ TypeOK /\ Capacity /\ NoLeak
        /\ OneConnection /\ JobShape /\ QueuedGens /\ CountsBacked

-----------------------------------------------------------------------------
\* A non-empty set of ports has a lowest one (the code sorts its plans).
LEMMA LowestPort ==
    ASSUME NEW S \in SUBSET Ports, S # {}
    PROVE  Lowest(S) \in S
<1>1. S \subseteq Nat
  BY PortsAssumption
<1>. DEFINE Less == {ss \in Nat \X Nat : ss[1] < ss[2]}
<1>2. PICK x \in S : \A y \in S : <<y, x>> \notin Less
  <2>1. OpToRel(<, Nat) = Less
    BY DEF OpToRel
  <2>2. IsWellFoundedOn(Less, Nat)
    BY <2>1, NatLessThanWellFounded
  <2>. HIDE DEF Less
  <2>. QED
    BY <1>1, <2>2, WFMin
<1>3. ASSUME NEW y \in S PROVE x <= y
  <2>1. x \in Nat /\ y \in Nat
    BY <1>1
  <2>2. ~(y < x)
    BY <1>2, <2>1
  <2>. QED
    BY <2>1, <2>2
<1>. QED
  BY <1>3 DEF Lowest

\* The table's size is a number, and one entry changes it by at most one.
LEMMA TableSize ==
    ASSUME NEW f \in Tables
    PROVE  /\ IsFiniteSet({p \in Ports : f[p] # None})
           /\ Cardinality({p \in Ports : f[p] # None}) \in Nat
<1>1. {p \in Ports : f[p] # None} \in SUBSET Ports
  OBVIOUS
<1>. QED
  BY <1>1, FS_Subset, FS_CardinalityType, PortsAssumption

LEMMA EntryAdded ==
    ASSUME NEW f \in Tables, NEW q \in Ports, NEW v,
           Cardinality({p \in Ports : f[p] # None}) < MaxActive
    PROVE  Cardinality({p \in Ports : [f EXCEPT ![q] = v][p] # None}) <= MaxActive
<1>. DEFINE A == {p \in Ports : f[p] # None}
            B == {p \in Ports : [f EXCEPT ![q] = v][p] # None}
<1>1. B \in SUBSET (A \cup {q})
  BY DEF Tables
<1>2. IsFiniteSet(A) /\ Cardinality(A) \in Nat
  BY TableSize
<1>3. IsFiniteSet(A \cup {q}) /\ Cardinality(A \cup {q}) <= Cardinality(A) + 1
  <2>1. IsFiniteSet(A \cup {q}) /\ Cardinality(A \cup {q}) = IF q \in A THEN Cardinality(A) ELSE Cardinality(A) + 1
    BY <1>2, FS_AddElement
  <2>. QED
    BY <1>2, <2>1
<1>4. Cardinality(B) <= Cardinality(A \cup {q}) /\ IsFiniteSet(B)
  BY <1>1, <1>3, FS_Subset
<1>5. Cardinality(B) \in Nat /\ Cardinality(A \cup {q}) \in Nat
  BY <1>3, <1>4, FS_CardinalityType
<1>. HIDE DEF A, B
<1>6. Cardinality(B) <= MaxActive
  <2>1. Cardinality(A) < MaxActive
    BY DEF A
  <2>. QED
  BY <1>2, <1>3, <1>4, <1>5, <2>1, PortsAssumption
<1>. QED
  BY <1>6 DEF B

LEMMA EntriesRemoved ==
    ASSUME NEW f \in Tables, NEW D,
           Cardinality({p \in Ports : f[p] # None}) <= MaxActive
    PROVE  Cardinality({p \in Ports : [q \in Ports |-> IF q \in D THEN None ELSE f[q]][p] # None})
               <= MaxActive
<1>. DEFINE A == {p \in Ports : f[p] # None}
            B == {p \in Ports : [q \in Ports |-> IF q \in D THEN None ELSE f[q]][p] # None}
<1>1. B \in SUBSET A
  OBVIOUS
<1>2. IsFiniteSet(A) /\ Cardinality(A) \in Nat
  BY TableSize
<1>3. Cardinality(B) <= Cardinality(A) /\ Cardinality(B) \in Nat
  BY <1>1, <1>2, FS_Subset, FS_CardinalityType
<1>. HIDE DEF B
<1>4. Cardinality(B) <= MaxActive
  BY <1>2, <1>3, PortsAssumption
<1>. QED
  BY <1>4 DEF B

-----------------------------------------------------------------------------
\* What is left of a pass is a job again: it has a close left, or an open for
\* which there is a place, or it is over.
LEMMA RestOfPass ==
    ASSUME NEW j \in Jobs, NEW fs \in Tables
    PROVE  /\ Rest(j, fs) \in Jobs
           /\ Rest(j, fs).pc \in {"idle", "close", "open"} /\ Rest(j, fs).close = j.close
           /\ Rest(j, fs).pc = "close" <=> j.close # {}
           /\ Rest(j, fs).pc = "close" => Rest(j, fs).next = j.next
           /\ Rest(j, fs).pc = "open" =>
                 /\ Rest(j, fs).port \in Ports
                 /\ Cardinality({p \in Ports : fs[p] # None}) < MaxActive
<1>. DEFINE size == Cardinality({p \in Ports : fs[p] # None})
<1>1. CASE j.close # {}
  <2>1. Rest(j, fs) = [j EXCEPT !.pc = "close"]
    BY <1>1 DEF Rest
  <2>. QED
    BY <1>1, <2>1 DEF Jobs
<1>2. CASE j.close = {} /\ j.open # {} /\ size < MaxActive
  <2>1. NextOpen(j) \in j.open
    <3>1. j.open \in SUBSET Ports /\ j.open \cap j.first \in SUBSET Ports
      BY DEF Jobs
    <3>. QED
      BY <1>2, <3>1, LowestPort DEF NextOpen
  <2>2. Rest(j, fs) = [j EXCEPT !.pc = "open", !.port = NextOpen(j), !.open = @ \ {NextOpen(j)}]
    BY <1>2 DEF Rest
  <2>. QED
    BY <1>2, <2>1, <2>2 DEF Jobs
<1>3. CASE j.close = {} /\ ~(j.open # {} /\ size < MaxActive)
  <2>1. Rest(j, fs) = Idle
    BY <1>3 DEF Rest
  <2>. QED
    BY <1>3, <2>1, PortsAssumption DEF Idle, Jobs
<1>. QED
  BY <1>1, <1>2, <1>3
-----------------------------------------------------------------------------
\* The steps that leave the table, the forwards and the running job alone.
QuietStep ==
    /\ UNCHANGED <<forwards, missing, connection, job, gone>>
    /\ native' \subseteq native

LEMMA QuietKeeps ==
    ASSUME IInv, TypeOK', QueuedGens', QuietStep
    PROVE  IInv'
  BY DEF IInv, QuietStep, Capacity, Active, NoLeak, OneConnection, JobShape, CountsBacked, TypeOK

LEMMA InitHolds == Init => IInv
<1>. SUFFICES ASSUME Init PROVE IInv
  OBVIOUS
<1>1. TypeOK
  BY PortsAssumption DEF Init, TypeOK, Idle, None, Origins, Gens
<1>2. Capacity
  <2>1. Active = {}
    BY DEF Init, Active
  <2>. QED
    BY <2>1, FS_EmptySet, PortsAssumption DEF Capacity
<1>3. CountsBacked
  BY DEF Init, CountsBacked, Idle
<1>. QED
  BY <1>1, <1>2, <1>3 DEF Init, IInv, NoLeak, OneConnection, JobShape, QueuedGens, Idle

\* Intents, the hold-down and the world.
LEMMA IntentsHold ==
    ASSUME IInv, UserStep \/ \E p \in Ports : heldDown(p)
    PROVE  IInv'
<1>1. QuietStep /\ UNCHANGED queue
  BY DEF UserStep, followAutomaticPolicy, setManualDesiredPort, setAutoEnabled, heldDown,
         QuietStep, worldVars
<1>2. TypeOK'
  <2>1. manual' \subseteq Ports /\ off' \subseteq Ports /\ autoEnabled' \in BOOLEAN
        /\ failed' \subseteq Ports /\ intents' \in Nat
    BY DEF IInv, TypeOK, UserStep, followAutomaticPolicy, setManualDesiredPort, setAutoEnabled,
           heldDown, Intends, intentVars
  <2>2. UNCHANGED <<queue, native, live, listening, faults>>
    BY DEF UserStep, followAutomaticPolicy, setManualDesiredPort, setAutoEnabled, heldDown, worldVars
  <2>. QED
    BY <1>1, <2>1, <2>2 DEF IInv, TypeOK, QuietStep
<1>3. QueuedGens'
  BY <1>1 DEF IInv, QueuedGens
<1>. QED
  BY <1>1, <1>2, <1>3, QuietKeeps

LEMMA Enqueued ==
    ASSUME IInv, NEW op \in Operations, op.op = "set" => op.gen \in Gens,
           queue' = Append(queue, op)
    PROVE  queue' \in Seq(Operations) /\ QueuedGens'
<1>1. queue \in Seq(Operations)
  BY DEF IInv, TypeOK, Operations
<1>2. /\ queue' \in Seq(Operations)
      /\ Len(queue') = Len(queue) + 1
      /\ \A i \in 1..Len(queue) : queue'[i] = queue[i]
      /\ queue'[Len(queue) + 1] = op
  BY <1>1, AppendProperties
<1>. QED
  BY <1>1, <1>2 DEF IInv, QueuedGens

LEMMA OutsideHolds ==
    ASSUME IInv,
           scanAndReconcile \/ closeAll \/ linkReplaced \/ \E S \in SUBSET Ports : hostChanges(S)
    PROVE  IInv'
<1>1. CASE scanAndReconcile
  <2>. DEFINE op == [op |-> "scan", gen |-> 0]
  <2>1. queue' \in Seq(Operations) /\ QueuedGens'
    <3>1. op \in Operations /\ op.op # "set"
      BY PortsAssumption DEF Operations
    <3>2. queue' = Append(queue, op)
      BY <1>1 DEF scanAndReconcile, enqueue
    <3>. HIDE DEF op
    <3>. QED
      BY <3>1, <3>2, Enqueued
  <2>2. TypeOK'
    BY <1>1, <2>1 DEF IInv, TypeOK, scanAndReconcile, intentVars, worldVars, Operations
  <2>. QED
    BY <1>1, <2>1, <2>2, QuietKeeps DEF scanAndReconcile, QuietStep
<1>2. CASE closeAll
  <2>. DEFINE op == [op |-> "closeAll", gen |-> 0]
  <2>1. queue' \in Seq(Operations) /\ QueuedGens'
    <3>1. op \in Operations /\ op.op # "set"
      BY PortsAssumption DEF Operations
    <3>2. queue' = Append(queue, op)
      BY <1>2 DEF closeAll, enqueue
    <3>. HIDE DEF op
    <3>. QED
      BY <3>1, <3>2, Enqueued
  <2>2. TypeOK'
    BY <1>2, <2>1 DEF IInv, TypeOK, closeAll, Intends, worldVars, Operations
  <2>. QED
    BY <1>2, <2>1, <2>2, QuietKeeps DEF closeAll, QuietStep
<1>3. CASE linkReplaced
  <2>1. live + 1 \in Gens
    BY <1>3, PortsAssumption DEF IInv, TypeOK, linkReplaced, Gens
  <2>. DEFINE op == [op |-> "set", gen |-> live + 1]
  <2>2. queue' \in Seq(Operations) /\ QueuedGens'
    <3>1. op \in Operations /\ op.gen \in Gens
      BY <2>1, PortsAssumption DEF Operations, Gens
    <3>2. queue' = Append(queue, op)
      BY <1>3 DEF linkReplaced
    <3>. HIDE DEF op
    <3>. QED
      BY <3>1, <3>2, Enqueued
  <2>3. TypeOK'
    BY <1>3, <2>1, <2>2 DEF IInv, TypeOK, linkReplaced, intentVars, Operations
  <2>. QED
    BY <1>3, <2>2, <2>3, QuietKeeps DEF linkReplaced, QuietStep
<1>4. CASE \E S \in SUBSET Ports : hostChanges(S)
  <2>1. QuietStep /\ UNCHANGED queue
    BY <1>4 DEF hostChanges, QuietStep
  <2>2. TypeOK'
    BY <1>4 DEF IInv, TypeOK, hostChanges, intentVars
  <2>3. QueuedGens'
    BY <2>1 DEF IInv, QueuedGens
  <2>. QED
    BY <2>1, <2>2, <2>3, QuietKeeps
<1>. QED
  BY <1>1, <1>2, <1>3, <1>4

-----------------------------------------------------------------------------
\* The operations of the queue.

LEMMA DequeueHolds ==
    ASSUME IInv, dequeue
    PROVE  IInv'
<1>. USE DEF dequeue
<1>1. queue \in Seq(Operations) /\ queue # <<>>
  BY DEF IInv, TypeOK, Operations
<1>2. /\ Head(queue) \in Operations /\ Head(queue) = queue[1] /\ 1 \in 1..Len(queue)
      /\ Tail(queue) \in Seq(Operations) /\ Len(Tail(queue)) = Len(queue) - 1
      /\ \A i \in 1..Len(Tail(queue)) : Tail(queue)[i] = queue[i + 1]
  BY <1>1, HeadTailProperties, LenProperties, EmptySeq
<1>3. QueuedGens'
  BY <1>1, <1>2, LenProperties DEF IInv, QueuedGens
<1>4. /\ Idle \in Jobs
      /\ [Idle EXCEPT !.pc = "scan"] \in Jobs
      /\ [Idle EXCEPT !.pc = IF Active = {} THEN "idle" ELSE "closeAll", !.close = Active] \in Jobs
  <2>1. Idle \in Jobs
    BY PortsAssumption DEF Idle, Jobs
  <2>2. Active \in SUBSET Ports
    BY DEF Active
  <2>. QED
    BY <2>1, <2>2 DEF Jobs
<1>5. Idle.pc = "idle" /\ Idle.close = {}
  BY DEF Idle
<1>6. CASE Head(queue).op = "scan" \/ Head(queue).op = "closeAll"
  <2>1. /\ job' \in Jobs /\ job'.pc \in {"idle", "scan", "closeAll"}
        /\ job'.pc = "scan" => job'.close = {}
        /\ UNCHANGED <<forwards, missing, native, connection, gone>>
    BY <1>4, <1>6 DEF Idle
  <2>2. TypeOK'
    BY <1>2, <2>1 DEF IInv, TypeOK, intentVars, worldVars, Jobs, Operations
  <2>3. CountsBacked'
    BY <1>5, <2>1 DEF IInv, CountsBacked
  <2>. QED
    BY <1>3, <2>1, <2>2, <2>3
    DEF IInv, Capacity, Active, NoLeak, OneConnection, JobShape
<1>7. CASE Head(queue).op = "set"
  <2>. DEFINE g == Head(queue).gen
  <2>1. g \in Gens /\ SetConnection(g)
    BY <1>2, <1>7 DEF IInv, QueuedGens
  <2>2. job' = Idle /\ connection' = g
    BY <2>1 DEF SetConnection
  <2>3. CASE g = connection /\ UNCHANGED <<forwards, missing, native, gone>>
    <3>1. TypeOK'
      BY <1>2, <1>4, <2>1, <2>2, <2>3 DEF IInv, TypeOK, intentVars, worldVars, Jobs, Operations
    <3>2. CountsBacked'
      BY <1>5, <2>2, <2>3 DEF IInv, CountsBacked
    <3>. QED
      BY <1>3, <1>5, <2>2, <2>3, <3>1, <3>2
      DEF IInv, Capacity, Active, NoLeak, OneConnection, JobShape
  <2>4. CASE /\ g # connection
             /\ forwards' = [p \in Ports |-> None]
             /\ missing' = [p \in Ports |-> 0]
             /\ native' = {f \in native : f.gen # connection}
             /\ gone' = [p \in Ports |-> 0]
    <3>1. native' = {}
      BY <2>4 DEF IInv, NoLeak, OneConnection, TypeOK
    <3>2. TypeOK'
      <4>1. forwards' \in Tables
        BY <2>4, PortsAssumption DEF Tables, None, Origins
      <4>2. missing' \in [Ports -> 0..(MissLimit - 1)] /\ gone' \in [Ports -> 0..MissLimit]
        BY <2>4, PortsAssumption
      <4>3. job' \in Jobs /\ connection' \in Gens /\ queue' \in Seq(Operations)
        BY <1>2, <1>4, <2>1, <2>2
      <4>. QED
        BY <3>1, <4>1, <4>2, <4>3
        DEF IInv, TypeOK, intentVars, worldVars, Jobs, Operations, Tables
    <3>3. CountsBacked'
      BY <1>5, <2>2, <2>4 DEF CountsBacked
    <3>4. Capacity'
      <4>1. Active' = {}
        BY <2>4 DEF Active
      <4>. QED
        BY <4>1, FS_EmptySet, PortsAssumption DEF Capacity
    <3>. QED
      BY <1>3, <1>5, <2>2, <2>4, <3>1, <3>2, <3>3, <3>4
      DEF IInv, NoLeak, OneConnection, JobShape
  <2>. QED
    BY <2>1, <2>3, <2>4 DEF SetConnection
<1>. QED
  BY <1>6, <1>7

\* A close that answers for done removes exactly the entries it closed.
LEMMA ClosesKeep ==
    ASSUME IInv, NEW S \in SUBSET Ports, NEW done \in SUBSET S, Closes(S, done)
    PROVE  /\ forwards' \in Tables /\ native' \subseteq native /\ faults' \in Nat
           /\ \A p \in Ports : forwards'[p] # None => forwards'[p] = forwards[p] /\ p \notin done
           /\ Cardinality({p \in Ports : forwards'[p] # None}) <= MaxActive
           /\ \A f \in native' : forwards'[f.port] # None /\ forwards'[f.port].gen = f.gen
<1>1. forwards \in Tables
  BY DEF IInv, TypeOK, Tables
<1>2. forwards' = [p \in Ports |-> IF p \in done THEN None ELSE forwards[p]]
  BY DEF Closes
<1>3. forwards' \in Tables
  BY <1>1, <1>2, PortsAssumption DEF Tables, None, Origins
<1>4. Cardinality({p \in Ports : forwards'[p] # None}) <= MaxActive
  BY <1>1, <1>2, EntriesRemoved DEF IInv, Capacity, Active
<1>5. native' \subseteq native /\ faults' \in Nat
  BY DEF Closes, IInv, TypeOK
<1>6. \A f \in native' : forwards'[f.port] # None /\ forwards'[f.port].gen = f.gen
  <2>. TAKE f \in native'
  <2>1. f \in native /\ f.port \in Ports /\ f.port \notin done
    BY DEF Closes, IInv, NoLeak, TypeOK
  <2>. QED
    BY <1>2, <2>1 DEF IInv, NoLeak
<1>. QED
  BY <1>2, <1>3, <1>4, <1>5, <1>6

LEMMA CloseAllHolds ==
    ASSUME IInv, NEW done \in SUBSET Ports, closeAllSettled(done)
    PROVE  IInv'
<1>1. job.close \in SUBSET Ports /\ done \in SUBSET job.close
  BY DEF closeAllSettled, IInv, TypeOK
<1>2. Closes(job.close, done)
  BY DEF closeAllSettled
<1>3. /\ forwards' \in Tables /\ native' \subseteq native /\ faults' \in Nat
      /\ \A p \in Ports : forwards'[p] # None => forwards'[p] = forwards[p]
      /\ Cardinality({p \in Ports : forwards'[p] # None}) <= MaxActive
      /\ \A f \in native' : forwards'[f.port] # None /\ forwards'[f.port].gen = f.gen
  BY <1>1, <1>2, ClosesKeep
<1>4. job' = Idle /\ job' \in Jobs /\ job'.pc = "idle" /\ job.pc = "closeAll"
  BY PortsAssumption DEF closeAllSettled, Idle, Jobs
<1>5. TypeOK'
  BY <1>3, <1>4 DEF closeAllSettled, IInv, TypeOK, Jobs, Tables, intentVars, worldVars
<1>6. CountsBacked'
  BY <1>4 DEF closeAllSettled, IInv, CountsBacked
<1>7. QueuedGens'
  BY DEF closeAllSettled, IInv, QueuedGens
<1>. QED
  BY <1>3, <1>4, <1>5, <1>6, <1>7
  DEF closeAllSettled, IInv, Capacity, Active, NoLeak, OneConnection, JobShape

-----------------------------------------------------------------------------
\* A pass.

\* The absence counters a plan leaves stay below the limit, and count no more
\* than the history of scans does after this scan.
LEMMA PlannedJob ==
    ASSUME IInv, NEW scan \in Scans, scanned(scan)
    PROVE  /\ Planned(scan) \in Jobs /\ Planned(scan).close = closePorts(scan)
           /\ gone' \in [Ports -> 0..MissLimit]
           /\ \A p \in Ports : Planned(scan).next[p] <= gone'[p]
<1>1. missing \in [Ports -> 0..(MissLimit - 1)] /\ gone \in [Ports -> 0..MissLimit]
  BY DEF IInv, TypeOK
<1>2. closePorts(scan) \in SUBSET Ports /\ openPorts(scan) \in SUBSET Ports
      /\ manual \ off \in SUBSET Ports
  BY PortsAssumption DEF IInv, TypeOK, closePorts, openPorts, Candidates, manualTargets, autoTargets,
         Active, Unwanted, Absent
<1>3. missingScans(scan) \in [Ports -> 0..(MissLimit - 1)]
  <2>. SUFFICES ASSUME NEW p \in Ports
                PROVE  (IF p \in Absent(scan) \ closePorts(scan) THEN missing[p] + 1 ELSE 0)
                          \in 0..(MissLimit - 1)
    BY DEF missingScans
  <2>1. p \in Absent(scan) \ closePorts(scan) => ~(missing[p] + 1 >= MissLimit)
    BY DEF closePorts
  <2>. QED
    BY <1>1, <2>1, PortsAssumption
<1>4. gone' \in [Ports -> 0..MissLimit]
  BY <1>1, PortsAssumption DEF scanned
<1>5. ASSUME NEW p \in Ports
      PROVE  missingScans(scan)[p] <= gone'[p]
  <2>1. CASE p \in Absent(scan) \ closePorts(scan)
    <3>1. scan.ok /\ scan.ports # {} /\ p \notin scan.ports
      BY <2>1 DEF Absent, scanCanProveAbsence
    <3>2. gone'[p] = IF gone[p] < MissLimit THEN gone[p] + 1 ELSE gone[p]
      BY <3>1 DEF scanned
    <3>3. missingScans(scan)[p] = missing[p] + 1
      BY <2>1 DEF missingScans
    <3>4. missing[p] <= gone[p]
      BY DEF IInv, CountsBacked, scanned
    <3>. QED
      BY <1>1, <3>2, <3>3, <3>4, PortsAssumption
  <2>2. CASE p \notin Absent(scan) \ closePorts(scan)
    BY <1>4, <2>2 DEF missingScans
  <2>. QED
    BY <2>1, <2>2
<1>. QED
  BY <1>2, <1>3, <1>4, <1>5 DEF Planned, Jobs

LEMMA ScannedHolds ==
    ASSUME IInv, NEW scan \in Scans, scanned(scan)
    PROVE  IInv'
<1>. DEFINE j == Planned(scan)
<1>1. /\ j \in Jobs /\ gone' \in [Ports -> 0..MissLimit]
      /\ \A p \in Ports : j.next[p] <= gone'[p]
  BY PlannedJob
<1>2. forwards \in Tables
  BY DEF IInv, TypeOK, Tables
<1>3. job' = Rest(j, forwards) /\ missing' = Counts(j)
  BY DEF scanned
<1>. HIDE DEF j
<1>4. /\ job' \in Jobs
      /\ job'.pc = "close" <=> j.close # {}
      /\ job'.pc # "scan" /\ job'.close = j.close
      /\ job'.pc = "close" => job'.next = j.next
      /\ job'.pc = "open" =>
            job'.close = {} /\ job'.port \in Ports /\ Cardinality(Active) < MaxActive
  BY <1>1, <1>2, <1>3, RestOfPass DEF Active
<1>5. TypeOK'
  <2>1. missing' \in [Ports -> 0..(MissLimit - 1)]
    BY <1>1, <1>3 DEF Counts, IInv, TypeOK, Jobs
  <2>2. faults' \in Nat
    BY DEF scanned, IInv, TypeOK
  <2>. QED
    BY <1>1, <1>4, <2>1, <2>2 DEF scanned, IInv, TypeOK, Jobs, intentVars, worldVars
<1>6. CountsBacked'
  BY <1>1, <1>3, <1>4 DEF CountsBacked, Counts
<1>7. QueuedGens'
  BY DEF scanned, IInv, QueuedGens
<1>. QED
  BY <1>4, <1>5, <1>6, <1>7
  DEF scanned, IInv, Capacity, Active, NoLeak, OneConnection, JobShape

LEMMA CloseAnswersHolds ==
    ASSUME IInv, NEW ok \in BOOLEAN, closeAnswers(ok)
    PROVE  IInv'
<1>. DEFINE p == Lowest(job.close)
            left == [job EXCEPT !.close = @ \ {p}]
<1>1. /\ job.pc = "close" /\ Closes({p}, IF ok THEN {p} ELSE {})
      /\ failed' = (IF ok THEN failed \ {p} ELSE failed)
      /\ job' = Rest(left, forwards') /\ missing' = Counts(left)
      /\ UNCHANGED <<intentVars, connection, queue, worldVars, gone>>
  BY DEF closeAnswers
<1>2. job \in Jobs /\ job.close # {} /\ \A q \in Ports : job.next[q] <= gone[q]
  BY <1>1 DEF IInv, TypeOK, Jobs, JobShape, CountsBacked
<1>3. p \in Ports
  BY <1>2, LowestPort DEF Jobs
<1>4. left \in Jobs /\ left.next = job.next
  BY <1>2 DEF Jobs
<1>5. /\ forwards' \in Tables /\ native' \subseteq native /\ faults' \in Nat
      /\ \A q \in Ports : forwards'[q] # None => forwards'[q] = forwards[q]
      /\ Cardinality({q \in Ports : forwards'[q] # None}) <= MaxActive
      /\ \A f \in native' : forwards'[f.port] # None /\ forwards'[f.port].gen = f.gen
  <2>1. {p} \in SUBSET Ports /\ (IF ok THEN {p} ELSE {}) \in SUBSET {p}
    BY <1>3
  <2>. QED
    BY <1>1, <2>1, ClosesKeep
<1>. HIDE DEF left
<1>6. /\ job' \in Jobs
      /\ job'.pc = "close" <=> left.close # {}
      /\ job'.pc # "scan" /\ job'.close = left.close
      /\ job'.pc = "close" => job'.next = left.next
      /\ job'.pc = "open" =>
            /\ job'.close = {} /\ job'.port \in Ports
            /\ Cardinality({q \in Ports : forwards'[q] # None}) < MaxActive
  BY <1>1, <1>4, <1>5, RestOfPass
<1>7. TypeOK'
  <2>1. missing' \in [Ports -> 0..(MissLimit - 1)]
    BY <1>1, <1>4 DEF Counts, IInv, TypeOK, Jobs
  <2>2. failed' \subseteq Ports
    BY <1>1 DEF IInv, TypeOK
  <2>. QED
    BY <1>1, <1>5, <1>6, <2>1, <2>2 DEF IInv, TypeOK, Jobs, Tables, intentVars, worldVars
<1>8. CountsBacked'
  BY <1>1, <1>2, <1>4, <1>6 DEF CountsBacked, Counts
<1>9. QueuedGens'
  BY <1>1 DEF IInv, QueuedGens
<1>. QED
  BY <1>1, <1>5, <1>6, <1>7, <1>8, <1>9
  DEF IInv, Capacity, Active, NoLeak, OneConnection, JobShape

LEMMA OpenAnswersHolds ==
    ASSUME IInv, openAnswers
    PROVE  IInv'
<1>. DEFINE p == job.port
            v == [origin |-> IF p \in manual THEN "manual" ELSE "auto", gen |-> connection]
<1>1. /\ job.pc = "open" /\ native' = native \cup {[port |-> p, gen |-> connection]}
      /\ forwards' = [forwards EXCEPT ![p] = v] /\ failed' = failed \ {p}
      /\ job' = Rest(job, forwards')
      /\ UNCHANGED <<intentVars, missing, connection, queue, worldVars, gone, faults>>
  BY DEF openAnswers
<1>2. p \in Ports /\ Cardinality(Active) < MaxActive /\ connection \in Gens
  BY <1>1 DEF IInv, JobShape, TypeOK
<1>3. forwards \in Tables /\ job \in Jobs
  BY DEF IInv, TypeOK, Tables, Jobs
<1>4. forwards' \in Tables /\ v # None /\ v.gen = connection
  BY <1>1, <1>2, <1>3, PortsAssumption DEF Tables, Origins, None, Gens
<1>5. Cardinality({q \in Ports : forwards'[q] # None}) <= MaxActive
  <2>. HIDE DEF v
  <2>. QED
    BY <1>1, <1>2, <1>3, EntryAdded DEF Active
<1>6. \A q \in Ports : forwards'[q] = IF q = p THEN v ELSE forwards[q]
  BY <1>1, <1>2, <1>3 DEF Tables
<1>7. NoLeak'
  <2>. SUFFICES ASSUME NEW f \in native'
                PROVE  forwards'[f.port] # None /\ forwards'[f.port].gen = f.gen
    BY DEF NoLeak
  <2>1. CASE f = [port |-> p, gen |-> connection]
    BY <1>2, <1>4, <1>6, <2>1
  <2>2. CASE f \in native
    <3>1. f.port \in Ports /\ forwards[f.port] # None /\ forwards[f.port].gen = f.gen
      BY <2>2 DEF IInv, NoLeak, TypeOK
    <3>2. f.gen = connection
      BY <3>1 DEF IInv, OneConnection
    <3>. QED
      BY <1>4, <1>6, <3>1, <3>2
  <2>. QED
    BY <1>1, <2>1, <2>2
<1>8. /\ job' \in Jobs
      /\ job'.pc = "close" <=> job.close # {}
      /\ job'.pc # "scan" /\ job'.close = job.close
      /\ job'.pc = "close" => job'.next = job.next
      /\ job'.pc = "open" =>
            /\ job'.close = {} /\ job'.port \in Ports
            /\ Cardinality({q \in Ports : forwards'[q] # None}) < MaxActive
  BY <1>1, <1>3, <1>4, RestOfPass
<1>9. job.close = {} /\ job'.pc # "close" /\ \A q \in Ports : missing[q] <= gone[q]
  BY <1>1, <1>8 DEF IInv, JobShape, CountsBacked
<1>10. TypeOK'
  <2>1. native' \subseteq [port : Ports, gen : Gens] /\ failed' \subseteq Ports
    BY <1>1, <1>2 DEF IInv, TypeOK
  <2>. QED
    BY <1>1, <1>4, <1>8, <2>1 DEF IInv, TypeOK, Jobs, Tables, intentVars, worldVars
<1>11. OneConnection'
  BY <1>1, <1>4, <1>6 DEF IInv, OneConnection
<1>12. CountsBacked' /\ QueuedGens'
  BY <1>1, <1>9 DEF IInv, CountsBacked, QueuedGens
<1>. QED
  BY <1>5, <1>7, <1>8, <1>9, <1>10, <1>11, <1>12 DEF IInv, Capacity, Active, JobShape

LEMMA OpenFailsHolds ==
    ASSUME IInv, openFails
    PROVE  IInv'
<1>1. /\ job.pc = "open" /\ failed' = failed \cup {job.port} /\ job' = Rest(job, forwards)
      /\ UNCHANGED <<intentVars, forwards, missing, connection, queue, native, worldVars, gone>>
      /\ faults' \in Nat
  BY DEF openFails, IInv, TypeOK
<1>2. forwards \in Tables /\ job \in Jobs
  BY DEF IInv, TypeOK, Tables, Jobs
<1>3. /\ job' \in Jobs
      /\ job'.pc = "close" <=> job.close # {}
      /\ job'.pc # "scan"
      /\ job'.pc = "open" => /\ job'.close = {} /\ job'.port \in Ports
                             /\ Cardinality({q \in Ports : forwards[q] # None}) < MaxActive
  BY <1>1, <1>2, RestOfPass
<1>4. job.close = {} /\ job.port \in Ports /\ \A q \in Ports : missing[q] <= gone[q]
  BY <1>1 DEF IInv, JobShape, CountsBacked
<1>5. TypeOK'
  BY <1>1, <1>3, <1>4 DEF IInv, TypeOK, Jobs, intentVars, worldVars
<1>6. CountsBacked' /\ QueuedGens'
  BY <1>1, <1>3, <1>4 DEF IInv, CountsBacked, QueuedGens
<1>. QED
  BY <1>1, <1>3, <1>4, <1>5, <1>6
  DEF IInv, Capacity, Active, NoLeak, OneConnection, JobShape

LEMMA StepHolds == IInv /\ [Next]_vars => IInv'
<1>. SUFFICES ASSUME IInv, [Next]_vars PROVE IInv'
  OBVIOUS
<1>1. CASE Work
  BY <1>1, DequeueHolds, OpenAnswersHolds, OpenFailsHolds, CloseAnswersHolds, CloseAllHolds,
     ScannedHolds DEF Work
<1>2. CASE UserStep \/ \E p \in Ports : heldDown(p)
  BY <1>2, IntentsHold
<1>3. CASE scanAndReconcile \/ closeAll \/ linkReplaced \/ \E S \in SUBSET Ports : hostChanges(S)
  BY <1>3, OutsideHolds
<1>4. CASE UNCHANGED vars
  BY <1>4 DEF vars, IInv, TypeOK, Capacity, Active, NoLeak, OneConnection, JobShape, QueuedGens,
              CountsBacked
<1>. QED
  BY <1>1, <1>2, <1>3, <1>4 DEF Next

-----------------------------------------------------------------------------
\* Theorems.

LEMMA InvariantHolds == Spec => []IInv
  BY InitHolds, StepHolds, PTL DEF Spec

\* For any ports and limits, the controller's table never outgrows the ceiling,
\* failed closes included, and every forward of the platform is one the
\* controller can still close.
THEOREM TableStaysInStep == Spec => []TableInStep
<1>1. IInv => TableInStep
  BY DEF IInv, TableInStep
<1>. QED
  BY <1>1, InvariantHolds, PTL

\* For any limit, no pass plans to drop a tunnel before that many proving
\* scans in a row missed its port, unless it was silenced or automatic
\* forwarding was off.
THEOREM DropsStayEarned == Spec => DropsAreEarned
<1>. DEFINE Earned == \A p \in Ports :
                 /\ job.pc = "scan" /\ p \in job'.close
                 => p \in off \/ ~autoEnabled \/ gone'[p] >= MissLimit
<1>1. IInv /\ [Next]_vars => [Earned]_vars
  <2>. SUFFICES ASSUME IInv, Next, NEW p \in Ports, job.pc = "scan", p \in job'.close,
                       p \notin off, autoEnabled
                PROVE  gone'[p] >= MissLimit
    BY DEF Earned
  <2>1. CASE UNCHANGED job
    BY <2>1 DEF IInv, JobShape
  <2>2. ASSUME NEW scan \in Scans, scanned(scan)
        PROVE  gone'[p] >= MissLimit
    <3>1. Planned(scan) \in Jobs /\ Planned(scan).close = closePorts(scan)
      BY <2>2, PlannedJob
    <3>2. forwards \in Tables
      BY DEF IInv, TypeOK, Tables
    <3>3. p \in closePorts(scan)
      BY <2>2, <3>1, <3>2, RestOfPass DEF scanned
    <3>4. p \in Absent(scan) /\ missing[p] + 1 >= MissLimit
      BY <3>3 DEF closePorts
    <3>5. scan.ok /\ scan.ports # {} /\ p \notin scan.ports
      BY <3>4 DEF Absent, scanCanProveAbsence
    <3>6. gone'[p] = IF gone[p] < MissLimit THEN gone[p] + 1 ELSE gone[p]
      BY <2>2, <3>5 DEF scanned
    <3>7. missing[p] <= gone[p] /\ missing[p] \in Nat /\ gone[p] \in Nat
      BY DEF IInv, CountsBacked, TypeOK
    <3>. QED
      BY <3>4, <3>6, <3>7, PortsAssumption
  <2>3. Work => \E scan \in Scans : scanned(scan)
    <3>1. Idle.pc # "scan"
      BY DEF Idle
    <3>. QED
      BY <3>1 DEF Work, dequeue, openAnswers, openFails, closeAnswers, closeAllSettled
  <2>4. ~Work => UNCHANGED job
    BY DEF Next, UserStep, followAutomaticPolicy, setManualDesiredPort, setAutoEnabled,
           scanAndReconcile, closeAll, heldDown, hostChanges, linkReplaced
  <2>. QED
    BY <2>1, <2>2, <2>3, <2>4
<1>. QED
  BY <1>1, InvariantHolds, PTL DEF Spec, DropsAreEarned
=============================================================================
