-------------------------- MODULE ComposerDelivery --------------------------
(***************************************************************************)
(* ComposerDeliveryController of src/composerSend.ts: the prompts a user   *)
(* sends to one session's PTY, serialized in call order, each of them a    *)
(* few paced writes that a change of transport invalidates at any await.   *)
(*                                                                         *)
(* A payload is empty, one line or several.  A write reaches the PTY when  *)
(* the bridge settles it: whole when it resolves, in part or not at all    *)
(* when it rejects.                                                        *)
(***************************************************************************)
EXTENDS Naturals, Sequences

CONSTANTS
    Calls,          \* calls of deliver
    OperationIds,   \* the identifiers they carry
    EmptyId,        \* the empty identifier, one of them
    PastePaced,     \* pasteGapMs > 0
    SubmitPaced,    \* submitDelayMs > 0
    MaxGeneration   \* bound: changes of the transport's state

ASSUME DeliveryAssumption ==
    /\ EmptyId \in OperationIds
    /\ PastePaced \in BOOLEAN /\ SubmitPaced \in BOOLEAN
    /\ MaxGeneration \in Nat

VARIABLES
    transportState,
    generation,
    operationIds,   \* the ids already used
    queue,          \* the calls of the promise chain, the running one first
    request,        \* what each call asked for
    captured,       \* the generation each call was made on
    phase,          \* where each call's deliverOne stands
    writeCount,     \* the writes it has issued
    issued,         \* the generation its last write was issued on
    stage,          \* write or pacing, for the report
    result,         \* what each call's promise resolved to
    pty             \* what reached the PTY, in order

deliveryVars == <<transportState, generation, operationIds, queue, request, captured, phase,
          writeCount, issued, stage, result, pty>>

transportVars == <<transportState, generation>>
callVars == <<operationIds, request, captured>>

TransportStates == {"connected", "lost", "closed"}
Requests == [id : OperationIds, payload : {"empty", "line", "lines"}, intent : {"insert", "submit"}]

\* queued, then awaiting the writes and the pauses; "rejected": an effect threw
Phases == {"new", "queued", "write", "writing", "wrote", "pause", "sleeping", "slept",
           "rejected", "finished", "settled"}

Statuses == {"pending", "delivered", "not-sent", "uncertain"}
Reasons == {"none", "invalid-operation-id", "empty-payload", "disconnected",
            "transport-changed", "operation-id-reused", "transport-lost", "effect-failed"}
Results == [status : Statuses, reason : Reasons, stage : {"write", "pacing"}]
Pending == [status |-> "pending", reason |-> "none", stage |-> "write"]
Draft(r) == IF r.status = "delivered" THEN "clear" ELSE "retain"

-----------------------------------------------------------------------------
\* The writes of a request

composerPayloadSegments(payload) ==
    IF payload = "lines" THEN <<"START", "body", "END">> ELSE <<"body">>

Writes(r) ==
    composerPayloadSegments(r.payload) \o (IF r.intent = "submit" THEN <<"ENTER">> ELSE <<>>)

\* Is there a pause after write k?
Paced(r, k) ==
    IF k < Len(composerPayloadSegments(r.payload)) THEN PastePaced ELSE SubmitPaced

isCurrent(c) == transportState = "connected" /\ generation = captured[c]
Running(c) == queue # <<>> /\ c = queue[1]

-----------------------------------------------------------------------------

DeliveryInit ==
    /\ transportState = "closed" /\ generation = 0
    /\ operationIds = {} /\ queue = <<>>
    /\ request = [c \in Calls |-> [id |-> EmptyId, payload |-> "empty", intent |-> "insert"]]
    /\ captured = [c \in Calls |-> 0]
    /\ phase = [c \in Calls |-> "new"]
    /\ writeCount = [c \in Calls |-> 0]
    /\ issued = [c \in Calls |-> 0]
    /\ stage = [c \in Calls |-> "write"]
    /\ result = [c \in Calls |-> Pending]
    /\ pty = <<>>

setTransportState(state) ==
    /\ state # transportState
    /\ generation < MaxGeneration
    /\ transportState' = state
    /\ generation' = generation + 1
    /\ UNCHANGED <<operationIds, queue, request, captured, phase, writeCount, issued, stage, result, pty>>

\* The two refusals that never enter the queue.
refused(r) ==
    IF r.id = EmptyId THEN "invalid-operation-id"
    ELSE IF r.id \in operationIds THEN "operation-id-reused" ELSE "none"

NotSent(reason) == [status |-> "not-sent", reason |-> reason, stage |-> "write"]

deliver(c, r) ==
    /\ phase[c] = "new"
    /\ request' = [request EXCEPT ![c] = r]
    /\ captured' = [captured EXCEPT ![c] = generation]
    /\ IF refused(r) # "none"
       THEN /\ phase' = [phase EXCEPT ![c] = "settled"]
            /\ result' = [result EXCEPT ![c] = NotSent(refused(r))]
            /\ UNCHANGED <<operationIds, queue>>
       ELSE /\ phase' = [phase EXCEPT ![c] = "queued"]
            /\ operationIds' = operationIds \union {r.id}
            /\ queue' = Append(queue, c)
            /\ UNCHANGED result
    /\ UNCHANGED <<transportVars, writeCount, issued, stage, pty>>

\* Mutant: a send that failed half-way leaves the chain rejected.
settles_ChainStuck(c, r) ==
    /\ result' = [result EXCEPT ![c] = r]
    /\ phase' = [phase EXCEPT ![c] = "settled"]
    /\ queue' = IF r.status = "uncertain" THEN queue ELSE Tail(queue)
    /\ UNCHANGED <<transportVars, callVars, writeCount, issued, stage, pty>>

\* The call's promise resolves and the chain moves on.
settles(c, r) ==
    /\ result' = [result EXCEPT ![c] = r]
    /\ phase' = [phase EXCEPT ![c] = "settled"]
    /\ queue' = Tail(queue)
    /\ UNCHANGED <<transportVars, callVars, writeCount, issued, stage, pty>>

\* effects.write is called: everything before the next await.
issues(c) ==
    /\ writeCount' = [writeCount EXCEPT ![c] = @ + 1]
    /\ issued' = [issued EXCEPT ![c] = generation]
    /\ stage' = [stage EXCEPT ![c] = "write"]
    /\ phase' = [phase EXCEPT ![c] = "writing"]
    /\ UNCHANGED <<transportVars, callVars, queue, result, pty>>

\* Mutant: any connected transport will do.
Unsendable_AnyGeneration(c) ==
    IF request[c].payload = "empty" THEN "empty-payload"
    ELSE IF transportState # "connected" THEN "disconnected" ELSE "none"

\* deliverOne's early returns, in the order of the code.
Unsendable(c) ==
    IF request[c].payload = "empty" THEN "empty-payload"
    ELSE IF transportState # "connected" THEN "disconnected"
    ELSE IF generation # captured[c] THEN "transport-changed" ELSE "none"

\* Mutant: a failed first write counts as nothing sent.
caught_FirstWrite(c) ==
    IF writeCount[c] <= 1
    THEN NotSent(IF transportState = "connected" THEN "transport-changed" ELSE "disconnected")
    ELSE [status |-> "uncertain",
          reason |-> IF isCurrent(c) THEN "effect-failed" ELSE "transport-lost",
          stage |-> stage[c]]

\* The catch of deliverOne.
caught(c) ==
    IF writeCount[c] = 0
    THEN NotSent(IF transportState = "connected" THEN "transport-changed" ELSE "disconnected")
    ELSE [status |-> "uncertain",
          reason |-> IF isCurrent(c) THEN "effect-failed" ELSE "transport-lost",
          stage |-> stage[c]]

Delivered(c) == [status |-> "delivered", reason |-> "none", stage |-> stage[c]]

\* The head of the chain starts: checks, then the first write in the same turn.
deliverOne(c) ==
    /\ Running(c) /\ phase[c] = "queued"
    /\ IF Unsendable(c) # "none" THEN settles(c, NotSent(Unsendable(c))) ELSE issues(c)

\* write(): failIfStale before the effect.
write(c) ==
    /\ Running(c) /\ phase[c] = "write"
    /\ IF isCurrent(c) THEN issues(c) ELSE settles(c, caught(c))

enters(c, p) ==
    /\ phase' = [phase EXCEPT ![c] = p]
    /\ UNCHANGED <<transportVars, callVars, queue, writeCount, issued, stage, result, pty>>

\* Mutant: the last write is not waited for.
AfterWrite_OffByOne(c) ==
    IF writeCount[c] + 1 >= Len(Writes(request[c])) THEN "finished"
    ELSE IF Paced(request[c], writeCount[c]) THEN "pause" ELSE "write"

\* write(): failIfStale after the effect, then what the loop does next.
AfterWrite(c) ==
    IF writeCount[c] = Len(Writes(request[c])) THEN "finished"
    ELSE IF Paced(request[c], writeCount[c]) THEN "pause" ELSE "write"

wrote(c) ==
    /\ Running(c) /\ phase[c] = "wrote"
    /\ IF isCurrent(c) THEN enters(c, AfterWrite(c)) ELSE settles(c, caught(c))

\* pause(): failIfStale before the sleep ...
pause(c) ==
    /\ Running(c) /\ phase[c] = "pause"
    /\ IF isCurrent(c)
       THEN /\ phase' = [phase EXCEPT ![c] = "sleeping"]
            /\ stage' = [stage EXCEPT ![c] = "pacing"]
            /\ UNCHANGED <<transportVars, callVars, queue, writeCount, issued, result, pty>>
       ELSE settles(c, caught(c))

\* ... and after it.
slept(c) ==
    /\ Running(c) /\ phase[c] = "slept"
    /\ IF isCurrent(c) THEN enters(c, "write") ELSE settles(c, caught(c))

\* Mutant: a failed write is swallowed.
rejected_Swallowed(c) ==
    /\ Running(c) /\ phase[c] = "rejected"
    /\ IF isCurrent(c) THEN enters(c, AfterWrite(c)) ELSE settles(c, caught(c))

rejected(c) ==
    /\ Running(c) /\ phase[c] = "rejected"
    /\ settles(c, caught(c))

finished(c) ==
    /\ Running(c) /\ phase[c] = "finished"
    /\ settles(c, Delivered(c))

-----------------------------------------------------------------------------
\* The platform's effects

Entry(c, k, gen, whole) ==
    [call |-> c, part |-> Writes(request[c])[k], index |-> k, gen |-> gen, whole |-> whole]
Landed(c, whole) == Entry(c, writeCount[c], issued[c], whole)

\* A resolving write acknowledges the bytes.
acknowledges(c) ==
    /\ phase[c] = "writing"
    /\ phase' = [phase EXCEPT ![c] = "wrote"]
    /\ pty' = Append(pty, Landed(c, TRUE))
    /\ UNCHANGED <<transportVars, callVars, queue, writeCount, issued, stage, result>>

\* A rejection is ambiguous: nothing, some of the bytes, or all of them.
rejects(c) ==
    /\ phase[c] = "writing"
    /\ phase' = [phase EXCEPT ![c] = "rejected"]
    /\ pty' \in {pty} \union {Append(pty, Landed(c, whole)) : whole \in BOOLEAN}
    /\ UNCHANGED <<transportVars, callVars, queue, writeCount, issued, stage, result>>

sleeps(c) ==
    /\ phase[c] = "sleeping"
    /\ \E p \in {"slept", "rejected"} : phase' = [phase EXCEPT ![c] = p]
    /\ UNCHANGED <<transportVars, callVars, queue, writeCount, issued, stage, result, pty>>

-----------------------------------------------------------------------------

Effects(c) == acknowledges(c) \/ rejects(c) \/ sleeps(c)
Controller(c) ==
    \/ deliverOne(c) \/ write(c) \/ wrote(c) \/ pause(c) \/ slept(c)
    \/ rejected(c) \/ finished(c)

DeliveryNext ==
    \/ \E state \in TransportStates : setTransportState(state)
    \/ \E c \in Calls : (\E r \in Requests : deliver(c, r)) \/ Controller(c) \/ Effects(c)

DeliverySpec == DeliveryInit /\ [][DeliveryNext]_deliveryVars

\* The runtime runs its microtasks, and the bridge settles what it was given.
Fairness == \A c \in Calls : WF_deliveryVars(Controller(c)) /\ WF_deliveryVars(Effects(c))
DeliveryFairSpec == DeliverySpec /\ Fairness

-----------------------------------------------------------------------------

Entries == [call : Calls, part : {"START", "body", "END", "ENTER"}, index : Nat, gen : Nat, whole : BOOLEAN]

\* The chain holds exactly the calls not yet answered, each once.
ChainAgrees ==
    /\ \A i, j \in 1..Len(queue) : queue[i] = queue[j] => i = j
    /\ \A c \in Calls :
        /\ (\E i \in 1..Len(queue) : queue[i] = c) <=> phase[c] \notin {"new", "settled"}
        /\ phase[c] = "settled" <=> result[c].status # "pending"
        /\ writeCount[c] <= Len(Writes(request[c]))

\* The controller's fields, each call's local state and the PTY's record have
\* their types, and the chain agrees with them.
DeliveryTypeOK ==
    /\ transportState \in TransportStates /\ generation \in Nat
    /\ operationIds \subseteq OperationIds
    /\ queue \in Seq(Calls)
    /\ request \in [Calls -> Requests] /\ captured \in [Calls -> Nat]
    /\ phase \in [Calls -> Phases]
    /\ writeCount \in [Calls -> Nat] /\ issued \in [Calls -> Nat]
    /\ stage \in [Calls -> {"write", "pacing"}]
    /\ result \in [Calls -> Results]
    /\ pty \in Seq(Entries)
    /\ ChainAgrees

\* "clear after a fully acknowledged operation": a draft is cleared only when
\* every write of its prompt landed whole, and on the one transport generation
\* the user pressed Send on.
ClearIsEarned ==
    \A c \in Calls : Draft(result[c]) = "clear" =>
        \A k \in 1..Len(Writes(request[c])) :
            \E i \in 1..Len(pty) : pty[i] = Entry(c, k, captured[c], TRUE)

\* A prompt that waited in the queue, or between two of its writes, never
\* slips onto a newly connected PTY.
OneGeneration ==
    \A i \in 1..Len(pty) : pty[i].gen = captured[pty[i].call]

\* A call that answered not-sent put no byte on the PTY, so sending it again
\* by hand cannot send it twice.
NotSentIsNothing ==
    \A c \in Calls : result[c].status = "not-sent" =>
        \A i \in 1..Len(pty) : pty[i].call # c

\* An operation id's bytes come from one call of deliver, however often a
\* client repeats it.
SentOnce ==
    \A i, j \in 1..Len(pty) :
        request[pty[i].call].id = request[pty[j].call].id => pty[i].call = pty[j].call

\* On the PTY one prompt's writes are never split by another's, and arrive in
\* their order: Enter comes after the body it submits, each write once.
Serialized ==
    \A i, j \in 1..Len(pty) : i < j =>
        /\ pty[i].call = pty[j].call => pty[i].index < pty[j].index
        /\ pty[i].call # pty[j].call => \A k \in j + 1..Len(pty) : pty[k].call # pty[i].call

\* Enter reaches the PTY only behind a body that was acknowledged whole.
EnterAfterBody ==
    \A i \in 1..Len(pty) : pty[i].part = "ENTER" =>
        \A k \in 1..pty[i].index - 1 :
            \E j \in 1..i - 1 : pty[j].call = pty[i].call /\ pty[j].index = k /\ pty[j].whole

\* The PTY carries each prompt once, in one piece and in its order.
PtyInOrder == DeliveryTypeOK /\ SentOnce /\ Serialized /\ EnterAfterBody

\* Every send is answered, whatever the transport and the bridge do.
SendsAnswered == \A c \in Calls : phase[c] # "new" ~> result[c].status # "pending"

=============================================================================
