---------------------------- MODULE AccountSync ----------------------------
(***************************************************************************)
(* Settings sync: several devices share one account slot under optimistic  *)
(* concurrency.  A device runs the round of src/syncRound.ts (pull, tick   *)
(* the account's aliases, assemble, push, re-base on a conflict) from the  *)
(* shared sync store (packages/ui/src/app/stores/sync.ts).                 *)
(*                                                                         *)
(* A host is an alias; its entry says which device's value each optional   *)
(* field carries.  The order of the two alias lists is abstracted to sets. *)
(* The slot, the network and ~/.ssh/config are outside the repository.     *)
(***************************************************************************)
EXTENDS Naturals

CONSTANTS
    Devices,          \* the clients of one account
    Aliases,          \* host aliases (HostEntry.name)
    Fields,           \* optional host fields
    Owned,            \* Owned[d]: the fields device d's host model represents
    NoValue,          \* an absent field
    NoEntry,          \* an absent host
    ConflictRetries,  \* SYNC_ROUND_CONFLICT_RETRIES
    MaxWrites,        \* bound: sync rounds started plus outside writes
    LossyPush         \* whether an applied push may lose its answer

ASSUME SyncAssumption ==
    /\ Owned \in [Devices -> SUBSET Fields]
    /\ NoValue \notin Devices
    /\ NoEntry \notin [Fields -> Devices \cup {NoValue}]
    /\ ConflictRetries \in Nat
    /\ MaxWrites \in Nat
    /\ LossyPush \in BOOLEAN

VARIABLES
    slot,      \* the account slot: what the server holds
    local,     \* local[d]: the device's own host list
    checked,   \* syncSelectedHosts, persisted
    unticked,  \* syncUntickedHosts, persisted
    loggedIn,
    copy,      \* accountHosts: {} while null, else {names} of the last copy read
    round,     \* the sync round in flight on each device
    writes,    \* bound counter
    carried    \* history: unticks an applied push has carried out

vars == <<slot, local, checked, unticked, loggedIn, copy, round, writes, carried>>

-----------------------------------------------------------------------------

Entry == [Fields -> Devices \cup {NoValue}]
HostList == [Aliases -> Entry \cup {NoEntry}]
NoHosts == [a \in Aliases |-> NoEntry]
Names(hosts) == {a \in Aliases : hosts[a] # NoEntry}

\* "foreign" stands for data the strict parser refuses although a hosts array
\* is there (schemaVersion, an unknown key, a malformed item); "unreadable"
\* for everything decodeSyncPayload refuses.
SlotKinds == {"absent", "ok", "foreign", "unreadable"}

Round == [pc : {"idle", "pull", "push"}, attempts : Nat,
          selected : SUBSET Aliases, unticked : SUBSET Aliases,
          base : Nat, remote : HostList]

Idle == [pc |-> "idle", attempts |-> 0, selected |-> {}, unticked |-> {},
         base |-> 0, remote |-> NoHosts]

-----------------------------------------------------------------------------
\* The pure policy (src/syncMerge.ts).

\* Mutant: the local entry replaces the account's.
mergeLocalOverRemote_Replaces(mine, theirs) == mine

\* Explicit local values win; absent ones keep the account's.
mergeLocalOverRemote(mine, theirs) ==
    IF theirs = NoEntry THEN mine
    ELSE [f \in Fields |-> IF mine[f] # NoValue THEN mine[f] ELSE theirs[f]]

assembleSyncSet(mine, remote, ticked) ==
    [a \in Aliases |->
        IF a \notin ticked THEN NoEntry
        ELSE IF mine[a] # NoEntry THEN mergeLocalOverRemote(mine[a], remote[a])
        ELSE remote[a]]

\* Mutant: only a fresh device ticks the account's aliases.
aliasesToAutoCheck_FreshOnly(remote, ticked, off) ==
    {a \in remote : ticked = {} /\ a \notin off}

aliasesToAutoCheck(remote, ticked, off) == {a \in remote : a \notin ticked \cup off}

\* applyAccountToSelection, as its two results.
CheckedAfter(remote, ticked, off) == ticked \cup aliasesToAutoCheck(remote, ticked, off)
UntickedAfter(remote, ticked, off) ==
    {a \in off : a \in remote /\ a \notin CheckedAfter(remote, ticked, off)}

\* Mutant: an acknowledged push spends no untick.
UntickedAfterPush_Kept(off, hosts) == off

\* The unticks left once a push that uploaded `hosts` is acknowledged.
UntickedAfterPush(off, hosts) == off \cap Names(hosts)

\* parseSyncPayload, the degraded reader: what it makes of the slot.
DegradedNames(s) == IF s.kind \in {"ok", "foreign"} THEN Names(s.hosts) ELSE {}

\* The conflict base a pull of s gives the push; a fresh account's is 0.
baseVersion(s) == IF s.kind = "absent" THEN 0 ELSE s.version

-----------------------------------------------------------------------------
\* The store (packages/ui/src/app/stores/sync.ts).

Busy(d) == round[d].pc # "idle"

\* persistSelection: newly ticked aliases join, the unticks are replaced.
PersistSelection(d, ticked, off) ==
    /\ checked' = [checked EXCEPT ![d] = @ \cup ticked]
    /\ unticked' = [unticked EXCEPT ![d] = off]

absorbAccount(d, names) ==
    /\ copy' = [copy EXCEPT ![d] = {names}]
    /\ PersistSelection(d, CheckedAfter(names, checked[d], unticked[d]),
                           UntickedAfter(names, checked[d], unticked[d]))

login(d) ==
    /\ ~loggedIn[d] /\ ~Busy(d)
    /\ loggedIn' = [loggedIn EXCEPT ![d] = TRUE]
    /\ UNCHANGED <<slot, local, checked, unticked, copy, round, writes, carried>>

\* Signing out forgets the unticks and the account copy.
logout(d) ==
    /\ loggedIn[d] /\ ~Busy(d)
    /\ loggedIn' = [loggedIn EXCEPT ![d] = FALSE]
    /\ unticked' = [unticked EXCEPT ![d] = {}]
    /\ copy' = [copy EXCEPT ![d] = {}]
    /\ UNCHANGED <<slot, local, checked, round, writes, carried>>

\* Check account: one pull, read with the degraded parser.  An absent account
\* is shown as empty and leaves the selection alone.
loadAccount(d) ==
    /\ loggedIn[d] /\ ~Busy(d)
    /\ \/ /\ slot.kind = "absent"
          /\ copy' = [copy EXCEPT ![d] = {{}}]
          /\ UNCHANGED <<checked, unticked>>
       \/ /\ slot.kind # "absent"
          /\ absorbAccount(d, DegradedNames(slot))
    /\ UNCHANGED <<slot, local, loggedIn, round, writes, carried>>

\* The Account view's checkbox: a row exists for each local or account host.
Rows(d) == Names(local[d]) \cup UNION copy[d]

setSelected(d, a, on) ==
    /\ loggedIn[d] /\ ~Busy(d) /\ a \in Rows(d)
    /\ checked' = [checked EXCEPT ![d] = IF on THEN @ \cup {a} ELSE @ \ {a}]
    /\ unticked' = [unticked EXCEPT ![d] = IF on THEN @ \ {a} ELSE @ \cup {a}]
    /\ carried' = carried \ {<<d, a>>}
    /\ UNCHANGED <<slot, local, loggedIn, copy, round, writes>>

\* The window is closed and opened again, whatever round was running; the
\* platform's session cache seeds the account copy (refreshStatus).
refreshStatus(d) ==
    /\ loggedIn[d]
    /\ round' = [round EXCEPT ![d] = Idle]
    /\ \/ copy[d] = {} /\ UNCHANGED <<checked, unticked, copy>>
       \/ \E names \in copy[d] : absorbAccount(d, names)
    /\ UNCHANGED <<slot, local, loggedIn, writes, carried>>

syncNow(d) ==
    /\ loggedIn[d] /\ ~Busy(d) /\ checked[d] # {}
    /\ writes < MaxWrites
    /\ writes' = writes + 1
    /\ round' = [round EXCEPT ![d] = [Idle EXCEPT !.pc = "pull", !.attempts = 1,
                                        !.selected = checked[d], !.unticked = unticked[d]]]
    /\ UNCHANGED <<slot, local, checked, unticked, loggedIn, copy, carried>>

-----------------------------------------------------------------------------
\* The round (src/syncRound.ts).

EndRound(d) == round' = [round EXCEPT ![d] = Idle]

\* A clean pull ticks the account's aliases, is shown and persisted
\* (onPulled), and either has something to upload or ends as empty-selection.
PullClean(d) ==
    LET r == round[d]
        remote == IF slot.kind = "ok" THEN slot.hosts ELSE NoHosts
        selected == CheckedAfter(Names(remote), r.selected, r.unticked)
        off == UntickedAfter(Names(remote), r.selected, r.unticked)
    IN /\ r.pc = "pull"
       /\ slot.kind = "ok" \/ (slot.kind = "absent" /\ r.attempts = 1)
       /\ copy' = [copy EXCEPT ![d] = {Names(remote)}]
       /\ PersistSelection(d, selected, off)
       /\ round' = [round EXCEPT ![d] =
              IF Names(assembleSyncSet(local[d], remote, selected)) = {} THEN Idle
              ELSE [r EXCEPT !.pc = "push", !.selected = selected, !.unticked = off,
                             !.base = baseVersion(slot),
                             !.remote = remote]]
       /\ UNCHANGED <<slot, local, loggedIn, writes, carried>>

\* Mutant: the error path forgets the finally that clears busy.
PullStops_StaysBusy(d) ==
    /\ round[d].pc = "pull"
    /\ round' = [round EXCEPT ![d].pc = "failed"]
    /\ UNCHANGED <<slot, local, checked, unticked, loggedIn, copy, writes, carried>>

\* The pull rejects, the payload is invalid, or a re-pull finds the account
\* gone: the round stops before any upload.
PullStops(d) ==
    /\ round[d].pc = "pull"
    /\ EndRound(d)
    /\ UNCHANGED <<slot, local, checked, unticked, loggedIn, copy, writes, carried>>

Upload(d) == assembleSyncSet(local[d], round[d].remote, round[d].selected)

\* The server's compare-and-swap.
BaseIsCurrent(d) == round[d].base = IF slot.kind = "absent" THEN 0 ELSE slot.version

ApplyPush(d) ==
    /\ round[d].pc = "push" /\ BaseIsCurrent(d)
    /\ slot' = [kind |-> "ok", version |-> slot.version + 1, hosts |-> Upload(d)]
    /\ carried' = carried \cup
          {<<d, a>> : a \in (Names(slot.hosts) \ Names(Upload(d))) \cap unticked[d]}
    /\ EndRound(d)

\* applyHosts: the platform appends the hosts ~/.ssh/config is missing, with
\* the fields it can represent.  It may also refuse the whole set.
Restored(d) ==
    [a \in Aliases |->
        IF local[d][a] = NoEntry /\ Upload(d)[a] # NoEntry
        THEN [f \in Fields |-> IF f \in Owned[d] THEN Upload(d)[a][f] ELSE NoValue]
        ELSE local[d][a]]

PushOk(d) ==
    /\ ApplyPush(d)
    /\ PersistSelection(d, round[d].selected, UntickedAfterPush(round[d].unticked, Upload(d)))
    /\ copy' = [copy EXCEPT ![d] = {Names(Upload(d))}]
    /\ \/ local' = [local EXCEPT ![d] = Restored(d)]
       \/ local' = local
    /\ UNCHANGED <<loggedIn, writes>>

\* Mutant: a conflict is retried on the newer version without pulling again.
PushConflict_NoRepull(d) ==
    /\ round[d].pc = "push" /\ ~BaseIsCurrent(d)
    /\ round' = [round EXCEPT ![d].base = slot.version, ![d].attempts = @ + 1]
    /\ UNCHANGED <<slot, local, checked, unticked, loggedIn, copy, writes, carried>>

\* Another writer came first: re-base by pulling again, a bounded number of
\* times.
PushConflict(d) ==
    /\ round[d].pc = "push" /\ ~BaseIsCurrent(d)
    /\ IF round[d].attempts > ConflictRetries
       THEN EndRound(d)
       ELSE round' = [round EXCEPT ![d].pc = "pull", ![d].attempts = @ + 1]
    /\ UNCHANGED <<slot, local, checked, unticked, loggedIn, copy, writes, carried>>

\* The push never reached the server, or the server refused it.
PushFails(d) ==
    /\ round[d].pc = "push"
    /\ EndRound(d)
    /\ UNCHANGED <<slot, local, checked, unticked, loggedIn, copy, writes, carried>>

\* The server applied the push and its answer was lost: an error result.
PushAnswerLost(d) ==
    /\ LossyPush
    /\ ApplyPush(d)
    /\ UNCHANGED <<local, checked, unticked, loggedIn, copy, writes>>

-----------------------------------------------------------------------------
\* Outside the repository.

\* The user edits ~/.ssh/config (or the saved-host list) between rounds.
EditHosts(d, a) ==
    /\ ~Busy(d)
    /\ local' = [local EXCEPT ![d][a] =
          IF @ = NoEntry THEN [f \in Fields |-> IF f \in Owned[d] THEN d ELSE NoValue]
          ELSE NoEntry]
    /\ UNCHANGED <<slot, checked, unticked, loggedIn, copy, round, writes, carried>>

\* A client of another version, or a fault, writes data this one refuses.
WriteUnreadable ==
    /\ writes < MaxWrites /\ slot.kind # "absent"
    /\ writes' = writes + 1
    /\ \E kind \in {"foreign", "unreadable"} :
          slot' = [slot EXCEPT !.kind = kind, !.version = @ + 1]
    /\ UNCHANGED <<local, checked, unticked, loggedIn, copy, round, carried>>

\* The account is deleted by a separate user action.  Versions are not reused.
ClearAccount ==
    /\ writes < MaxWrites /\ slot.kind # "absent"
    /\ writes' = writes + 1
    /\ slot' = [kind |-> "absent", version |-> slot.version + 1, hosts |-> NoHosts]
    /\ UNCHANGED <<local, checked, unticked, loggedIn, copy, round, carried>>

-----------------------------------------------------------------------------

Init ==
    /\ slot = [kind |-> "absent", version |-> 0, hosts |-> NoHosts]
    /\ local = [d \in Devices |-> NoHosts]
    /\ checked = [d \in Devices |-> {}]
    /\ unticked = [d \in Devices |-> {}]
    /\ loggedIn = [d \in Devices |-> FALSE]
    /\ copy = [d \in Devices |-> {}]
    /\ round = [d \in Devices |-> Idle]
    /\ writes = 0
    /\ carried = {}

RoundStep(d) ==
    \/ PullClean(d) \/ PullStops(d)
    \/ PushOk(d) \/ PushConflict(d) \/ PushFails(d) \/ PushAnswerLost(d)

DeviceStep(d) ==
    \/ login(d) \/ logout(d) \/ loadAccount(d) \/ refreshStatus(d) \/ syncNow(d)
    \/ \E a \in Aliases : EditHosts(d, a) \/ \E on \in BOOLEAN : setSelected(d, a, on)
    \/ RoundStep(d)

Next ==
    \/ \E d \in Devices : DeviceStep(d)
    \/ WriteUnreadable
    \/ ClearAccount

Spec == Init /\ [][Next]_vars

\* An answer, an error or a timeout of the platform call always arrives.
FairSpec == Spec /\ \A d \in Devices : WF_vars(RoundStep(d))

-----------------------------------------------------------------------------
\* Properties.

TypeOK ==
    /\ slot \in [kind : SlotKinds, version : Nat, hosts : HostList]
    /\ local \in [Devices -> HostList]
    /\ checked \in [Devices -> SUBSET Aliases]
    /\ unticked \in [Devices -> SUBSET Aliases]
    /\ loggedIn \in [Devices -> BOOLEAN]
    /\ copy \in [Devices -> SUBSET (SUBSET Aliases)]
    /\ round \in [Devices -> Round]
    /\ writes \in Nat
    /\ carried \subseteq Devices \X Aliases

\* A push that can still be applied was assembled from exactly what the slot
\* holds now, and from nothing unreadable (syncRound.ts: the base version
\* stands for the account copy the round merged with).
PushBasis ==
    \A d \in Devices : round[d].pc = "push" =>
        /\ round[d].base <= slot.version
        /\ BaseIsCurrent(d) => slot.kind \in {"absent", "ok"} /\ round[d].remote = slot.hosts

\* A round never ticks an alias it still holds as unticked, and every account
\* alias is one or the other when it is about to push (the one tick rule of
\* syncMerge.ts, through any number of re-bases).
RoundPartition ==
    \A d \in Devices : round[d].pc = "push" =>
        /\ round[d].unticked \cap round[d].selected = {}
        /\ Names(round[d].remote) \subseteq round[d].selected \cup round[d].unticked
        /\ round[d].unticked = unticked[d]

\* A round about to push knows what it is about to overwrite.
RoundIsSound == TypeOK /\ PushBasis /\ RoundPartition

\* The account itself changes hands: what a step of some device did to it.
PushedBy(d) == round[d].pc = "push" /\ round'[d].pc = "idle" /\ slot' # slot

\* Only an explicit untick, pending on the device that pushes, takes a host
\* out of the account (docs/SYNC.md: "an untouched Sync now never removes a
\* host from the account; only an untick does").
OnlyUntickRemoves ==
    [][\A a \in Names(slot.hosts) \ Names(slot'.hosts) :
          \/ slot'.kind = "absent"
          \/ \E d \in Devices : PushedBy(d) /\ a \in unticked[d]]_vars

\* A push never strips a field of a host that stays in the account, whichever
\* client's model the field belongs to (mergeLocalOverRemote).
FieldsCarried ==
    [][\A a \in Names(slot.hosts) \cap Names(slot'.hosts), f \in Fields :
          slot.hosts[a][f] # NoValue => slot'.hosts[a][f] # NoValue]_vars

\* Data the strict parser refuses is never overwritten by a round, and a
\* round never leaves the account empty (syncRound.ts: "The round fails
\* closed").
FailsClosed ==
    [][\A d \in Devices : PushedBy(d) =>
          /\ slot.kind \in {"absent", "ok"}
          /\ Names(slot'.hosts) # {}]_vars

\* An untick is one-shot: once a push of the device carried it out, no later
\* push of that device removes the alias again unless the user unticks it
\* again (docs/SYNC.md: "An untick is one-shot, not a standing per-device
\* ban: it is spent by the push that removes the host").
UntickIsOneShot ==
    [][\A d \in Devices : PushedBy(d) =>
          \A a \in Names(slot.hosts) \ Names(slot'.hosts) : <<d, a>> \notin carried]_vars

\* Every round ends and leaves the store free, whatever its effects answer and
\* however often it is re-based (syncRound.ts, sync.ts).  MaxWrites bounds the
\* conflicts, so this says nothing about a rival that writes for ever.
RoundEnds == \A d \in Devices : Busy(d) ~> ~Busy(d)

=============================================================================
