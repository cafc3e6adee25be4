---------------------------- MODULE PortForwards ----------------------------
(***************************************************************************)
(* src/portForwardController.ts with the policy of portForwardPolicy.ts:   *)
(* one serialized queue of operations (scan and reconcile, a new           *)
(* connection, close all) that opens and closes the platform's forwards    *)
(* one await at a time, while the user changes intents between the awaits  *)
(* and the connection dies under it.                                       *)
(*                                                                         *)
(* The clock is abstracted to whether a failed open is still held down.    *)
(* An operation's queue entry is a scan, a closeAll or a generation.       *)
(***************************************************************************)
EXTENDS Naturals, FiniteSets, Sequences

CONSTANTS
    Ports,          \* remote ports, as numbers
    Interesting,    \* the ports of the automatic range
    SshConfig,      \* LocalForward ports of the SSH configuration
    MissLimit,      \* missingScansBeforeStop
    MaxActive,      \* maxActiveForwards, at most 8
    MaxGens,        \* bound: connection generations
    MaxQueue,       \* bound: operations waiting
    MaxIntents,     \* bound: changes of intent
    MaxFaults       \* bound: failed scans, opens and closes

ASSUME PortsAssumption ==
    /\ Ports \subseteq Nat /\ IsFiniteSet(Ports)
    /\ Interesting \subseteq Ports /\ SshConfig \subseteq Ports
    /\ MissLimit \in Nat \ {0} /\ MaxActive \in 1..8
    /\ MaxGens \in Nat \ {0} /\ MaxQueue \in Nat /\ MaxIntents \in Nat /\ MaxFaults \in Nat

VARIABLES
    manual,     \* desiredManualPorts
    off,        \* the ports whose intent is force-off
    autoEnabled,
    forwards,   \* the forwards the controller owns: port -> origin, generation
    missing,    \* priorMissingScans
    failed,     \* failedAt, while within failedPortTtlMs
    connection, \* this.connection (its generation)
    queue,      \* operations waiting
    job,        \* the operation running
    native,     \* the platform's forwards
    live,       \* the generation that is up
    listening,  \* the ports the host listens on
    gone,       \* history: consecutive proving scans that missed a port
    intents, faults

vars == <<manual, off, autoEnabled, forwards, missing, failed, connection, queue,
          job, native, live, listening, gone, intents, faults>>

intentVars == <<manual, off, autoEnabled, intents>>
worldVars == <<live, listening>>

Gens == 1..MaxGens
Origins == {"auto", "manual"}
None == [origin |-> "none", gen |-> 0]

-----------------------------------------------------------------------------
\* planPortForwards

scanCanProveAbsence_Blank(scan) == scan.ok  \* mutant
\* A blank or failed scan never permits a teardown.
scanCanProveAbsence(scan) == scan.ok /\ scan.ports # {}

\* Every intent the controller stores beside the opt-ins is force-off.
manualTargets == (manual \ off) \ SshConfig

autoTargets(scan) ==
    IF autoEnabled /\ scan.ok THEN ((scan.ports \cap Interesting) \ off) \ SshConfig ELSE {}

Active == {p \in Ports : forwards[p] # None}

\* The live forwards that nobody wants now.
Unwanted(scan) ==
    {p \in Active : /\ p \notin manual \ off
                    /\ p \notin manualTargets \cup autoTargets(scan)}

\* Those whose absence this scan counts.
Absent(scan) ==
    {p \in Unwanted(scan) : /\ p \notin off /\ autoEnabled
                            /\ scanCanProveAbsence(scan) /\ p \notin scan.ports}

closePorts(scan) ==
    {p \in Active : p \in off}
        \cup {p \in Unwanted(scan) : ~autoEnabled}
        \cup {p \in Absent(scan) : missing[p] + 1 >= MissLimit}

missingScans(scan) ==
    [p \in Ports |-> IF p \in Absent(scan) \ closePorts(scan) THEN missing[p] + 1 ELSE 0]

\* Mutant: only what the scan sees is opened.
Candidates_Seen(scan) == autoTargets(scan) \ (Active \cup failed)

Candidates(scan) == (manualTargets \cup autoTargets(scan)) \ (Active \cup failed)

\* Manual ports first, then by number.
Before(p, q) ==
    \/ p \in manual \ off /\ q \notin manual \ off
    \/ (p \in manual \ off <=> q \in manual \ off) /\ p < q

FreeSlots(scan) ==
    LET kept == Cardinality(Active \ closePorts(scan))
    IN IF kept >= MaxActive THEN 0 ELSE MaxActive - kept

\* The first candidates in that order, as many as there are places.
openPorts(scan) ==
    {p \in Candidates(scan) :
        Cardinality({q \in Candidates(scan) : Before(q, p)}) < FreeSlots(scan)}

-----------------------------------------------------------------------------
\* Intents: they change at once, whatever runs.

Intends == intents < MaxIntents /\ intents' = intents + 1

setManualDesiredPort(p, enabled) ==
    /\ Intends
    /\ IF enabled
       THEN manual' = manual \cup {p} /\ off' = off \ {p} /\ failed' = failed \ {p}
       ELSE manual' = manual \ {p} /\ off' = off \cup {p} /\ UNCHANGED failed
    /\ UNCHANGED <<autoEnabled, forwards, missing, connection, queue, job, native,
                   worldVars, gone, faults>>

followAutomaticPolicy(p) ==
    /\ Intends
    /\ manual' = manual \ {p} /\ off' = off \ {p} /\ failed' = failed \ {p}
    /\ UNCHANGED <<autoEnabled, forwards, missing, connection, queue, job, native,
                   worldVars, gone, faults>>

setAutoEnabled(enabled) ==
    /\ Intends
    /\ autoEnabled' = enabled
    /\ UNCHANGED <<manual, off, forwards, missing, failed, connection, queue, job,
                   native, worldVars, gone, faults>>

-----------------------------------------------------------------------------
\* The queue of operations.

\* What a running operation keeps between awaits: the closes and opens left,
\* those of them that go first, the open in flight, and the next absence
\* counters.
Idle == [pc |-> "idle", close |-> {}, open |-> {}, first |-> {}, port |-> 0,
         next |-> [p \in Ports |-> 0]]

enqueue(op) ==
    /\ Len(queue) < MaxQueue
    /\ queue' = Append(queue, op)

scanAndReconcile ==
    /\ enqueue([op |-> "scan", gen |-> 0])
    /\ UNCHANGED <<intentVars, forwards, missing, failed, connection, job, native,
                   worldVars, gone, faults>>

closeAll ==
    /\ Intends /\ enqueue([op |-> "closeAll", gen |-> 0])
    /\ UNCHANGED <<manual, off, autoEnabled, forwards, missing, failed, connection, job, native,
                   worldVars, gone, faults>>

\* setConnection: the new generation takes over, old handles are closed and
\* forgotten, whether or not that succeeds.
SetConnection(g) ==
    /\ job' = Idle
    /\ connection' = g
    /\ \/ g = connection /\ UNCHANGED <<forwards, missing, native, gone>>
       \/ /\ g # connection
          /\ forwards' = [p \in Ports |-> None]
          /\ missing' = [p \in Ports |-> 0]
          /\ native' = {f \in native : f.gen # connection}
          /\ gone' = [p \in Ports |-> 0]

\* The next operation starts.
dequeue ==
    /\ job = Idle /\ queue # <<>>
    /\ queue' = Tail(queue)
    /\ \/ /\ Head(queue).op = "scan"
          /\ job' = [Idle EXCEPT !.pc = "scan"]
          /\ UNCHANGED <<forwards, missing, native, connection, gone>>
       \/ /\ Head(queue).op = "closeAll"
          /\ job' = [Idle EXCEPT !.pc = IF Active = {} THEN "idle" ELSE "closeAll", !.close = Active]
          /\ UNCHANGED <<forwards, missing, native, connection, gone>>
       \/ Head(queue).op = "set" /\ SetConnection(Head(queue).gen)
    /\ UNCHANGED <<intentVars, failed, worldVars, faults>>

\* closePortForward of the ports in S answers for those in done and rejects
\* for the rest.
Closes(S, done) ==
    /\ S = done \/ faults < MaxFaults
    /\ faults' = IF S = done THEN faults ELSE faults + 1
    /\ native' = {f \in native : ~(f.port \in done /\ f.gen = forwards[f.port].gen)}
    /\ forwards' = [p \in Ports |-> IF p \in done THEN None ELSE forwards[p]]

\* Mutant: every handle is forgotten.
closeAllSettled_ForgetsAll(done) ==
    /\ job.pc = "closeAll" /\ done \subseteq job.close
    /\ job.close = done \/ faults < MaxFaults
    /\ faults' = IF job.close = done THEN faults ELSE faults + 1
    /\ native' = {f \in native : f.port \notin done}
    /\ forwards' = [p \in Ports |-> IF p \in job.close THEN None ELSE forwards[p]]
    /\ job' = Idle
    /\ UNCHANGED <<intentVars, missing, failed, connection, queue, worldVars, gone>>

\* closeAll: the handles that closed are forgotten, the others kept.
closeAllSettled(done) ==
    /\ job.pc = "closeAll" /\ done \subseteq job.close
    /\ Closes(job.close, done)
    /\ job' = Idle
    /\ UNCHANGED <<intentVars, missing, failed, connection, queue, worldVars, gone>>

-----------------------------------------------------------------------------
\* applyScan

Lowest(S) == CHOOSE p \in S : \A q \in S : p <= q

\* The order of the opens was fixed when they were planned.
NextOpen(j) == Lowest(IF j.open \cap j.first # {} THEN j.open \cap j.first ELSE j.open)

\* What is left of a pass after one of its awaits: the next close, else the
\* next open below the bound, else nothing.
Rest(j, fs) ==
    LET size == Cardinality({p \in Ports : fs[p] # None})
    IN IF j.close # {} THEN [j EXCEPT !.pc = "close"]
       ELSE IF j.open # {} /\ size < MaxActive
       THEN [j EXCEPT !.pc = "open", !.port = NextOpen(j), !.open = @ \ {NextOpen(j)}]
       ELSE Idle

\* The absence counters are replaced when the last close has been tried.
Counts(j) == IF j.close = {} THEN j.next ELSE missing

Planned(scan) ==
    [pc |-> "close", close |-> closePorts(scan), open |-> openPorts(scan),
     first |-> manual \ off, port |-> 0, next |-> missingScans(scan)]

\* The scan answers: the plan is made from the state of this moment.
scanned(scan) ==
    /\ job.pc = "scan"
    /\ scan.ok \/ faults < MaxFaults
    /\ faults' = IF scan.ok THEN faults ELSE faults + 1
    /\ job' = Rest(Planned(scan), forwards)
    /\ missing' = Counts(Planned(scan))
    /\ gone' = [p \in Ports |-> IF ~scan.ok \/ scan.ports = {} THEN gone[p]
                                ELSE IF p \in scan.ports THEN 0
                                ELSE IF gone[p] < MissLimit THEN gone[p] + 1 ELSE gone[p]]
    /\ UNCHANGED <<intentVars, forwards, failed, connection, queue, native, worldVars>>

\* A planned close answers, lowest port first.
closeAnswers(ok) ==
    LET p == Lowest(job.close)
        left == [job EXCEPT !.close = @ \ {p}]
    IN /\ job.pc = "close"
       /\ Closes({p}, IF ok THEN {p} ELSE {})
       /\ failed' = IF ok THEN failed \ {p} ELSE failed
       /\ job' = Rest(left, forwards')
       /\ missing' = Counts(left)
       /\ UNCHANGED <<intentVars, connection, queue, worldVars, gone>>

\* A planned open answers; its origin is judged now.
openAnswers ==
    LET p == job.port
    IN /\ job.pc = "open" /\ live = connection
       /\ native' = native \cup {[port |-> p, gen |-> connection]}
       /\ forwards' = [forwards EXCEPT ![p] =
             [origin |-> IF p \in manual THEN "manual" ELSE "auto", gen |-> connection]]
       /\ failed' = failed \ {p}
       /\ job' = Rest(job, forwards')
       /\ UNCHANGED <<intentVars, missing, connection, queue, worldVars, gone, faults>>

openFails ==
    LET p == job.port
    IN /\ job.pc = "open"
       /\ IF live = connection THEN faults < MaxFaults /\ faults' = faults + 1 ELSE UNCHANGED faults
       /\ failed' = failed \cup {p}
       /\ job' = Rest(job, forwards)
       /\ UNCHANGED <<intentVars, forwards, missing, connection, queue, native, worldVars, gone>>

-----------------------------------------------------------------------------
\* The world: the hold-down of a failed open runs out, the host's listeners
\* change, the link is replaced and its forwards die with it.

heldDown(p) ==
    /\ p \in failed
    /\ failed' = failed \ {p}
    /\ UNCHANGED <<intentVars, forwards, missing, connection, queue, job, native,
                   worldVars, gone, faults>>

hostChanges(S) ==
    /\ faults < MaxFaults /\ faults' = faults + 1
    /\ listening' = S
    /\ UNCHANGED <<intentVars, forwards, missing, failed, connection, queue, job,
                   native, live, gone>>

linkReplaced ==
    /\ live < MaxGens
    /\ live' = live + 1
    /\ native' = {}
    /\ queue' = Append(queue, [op |-> "set", gen |-> live + 1])
    /\ UNCHANGED <<intentVars, forwards, missing, failed, connection, job, listening,
                   gone, faults>>

Scans == {[ok |-> FALSE, ports |-> {}], [ok |-> TRUE, ports |-> {}], [ok |-> TRUE, ports |-> listening]}

Init ==
    /\ manual \in SUBSET Ports /\ off = {} /\ autoEnabled = TRUE
    /\ forwards = [p \in Ports |-> None]
    /\ missing = [p \in Ports |-> 0]
    /\ failed = {}
    /\ connection = 1 /\ live = 1
    /\ queue = <<>> /\ job = Idle
    /\ native = {}
    /\ listening \in SUBSET Ports
    /\ gone = [p \in Ports |-> 0]
    /\ intents = 0 /\ faults = 0

Work ==
    \/ dequeue \/ openAnswers \/ openFails
    \/ \E ok \in BOOLEAN : closeAnswers(ok)
    \/ \E done \in SUBSET Ports : closeAllSettled(done)
    \/ \E scan \in Scans : scanned(scan)

UserStep ==
    \/ \E p \in Ports : followAutomaticPolicy(p) \/ \E b \in BOOLEAN : setManualDesiredPort(p, b)
    \/ \E b \in BOOLEAN : setAutoEnabled(b)

Next ==
    \/ Work \/ UserStep
    \/ scanAndReconcile \/ closeAll
    \/ \E p \in Ports : heldDown(p)
    \/ \E S \in SUBSET Ports : hostChanges(S)
    \/ linkReplaced

Spec == Init /\ [][Next]_vars

\* Operations answer, hold-downs run out, and the client keeps scanning.
FairSpec ==
    /\ Spec
    /\ WF_vars(Work) /\ WF_vars(scanAndReconcile)
    /\ \A p \in Ports : WF_vars(heldDown(p))

-----------------------------------------------------------------------------
\* Properties.

TypeOK ==
    /\ manual \subseteq Ports /\ off \subseteq Ports /\ autoEnabled \in BOOLEAN
    /\ forwards \in [Ports -> [origin : Origins \cup {"none"}, gen : 0..MaxGens]]
    /\ missing \in [Ports -> 0..(MissLimit - 1)]
    /\ failed \subseteq Ports
    /\ connection \in Gens /\ live \in Gens
    /\ queue \in Seq([op : {"scan", "closeAll", "set"}, gen : 0..MaxGens])
    /\ job \in [pc : {"idle", "scan", "close", "open", "closeAll"}, close : SUBSET Ports,
                open : SUBSET Ports, first : SUBSET Ports, port : Ports \cup {0}, next : [Ports -> 0..(MissLimit - 1)]]
    /\ native \subseteq [port : Ports, gen : Gens]
    /\ listening \subseteq Ports /\ gone \in [Ports -> 0..MissLimit]
    /\ intents \in Nat /\ faults \in Nat

\* The platform's ceiling is kept, closes that fail included (applyScan plans
\* the opens as if every close succeeded).
Capacity == Cardinality(Active) <= MaxActive

\* Every forward the platform holds is one the controller can still close.
NoLeak == \A f \in native : forwards[f.port] # None /\ forwards[f.port].gen = f.gen

\* The controller's table and the platform's forwards stay in step.
TableInStep == TypeOK /\ Capacity /\ NoLeak

\* A reconcile drops a tunnel only if the user silenced it, automatic
\* forwarding was off, or enough proving scans in a row missed its port; what
\* blank and failed scans, failed closes and intents changed meanwhile do
\* cannot shorten that (planPortForwards, missingScans).
DropsAreEarned ==
    [][\A p \in Ports :
          /\ job.pc = "scan" /\ p \in job'.close
          => p \in off \/ ~autoEnabled \/ gone'[p] >= MissLimit]_vars

\* A silenced port is closed in the end, whatever failed before.
SilencedCloses == \A p \in Ports : p \in off /\ forwards[p] # None ~> p \notin off \/ forwards[p] = None

\* A requested port is opened in the end, across failures and reconnects, as
\* long as the ceiling leaves it a place.
RequestedOpens == \A p \in Ports : p \in manualTargets ~>
    p \notin manualTargets \/ forwards[p] # None \/ Cardinality(Active) = MaxActive

\* What the user asked for is what holds in the end, whatever pass was under
\* way when it was asked (setManualDesiredPort, applyScan).
IntentsSettle == SilencedCloses /\ RequestedOpens
=============================================================================
