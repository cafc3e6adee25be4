------------------------------ MODULE KeyVault ------------------------------
(***************************************************************************)
(* KeyVaultStore (src/keyVault/store.ts): several clients share one        *)
(* account, whose `vault` slot holds the sealed header and whose `vk-*`    *)
(* slots hold one sealed credential each.  Every operation that writes     *)
(* runs alone in its client (`exclusive`), so a client has one operation,  *)
(* which interleaves at its awaits with lock() and with other clients.     *)
(*                                                                         *)
(* A vault id stands for the vault's data key, and `check` for one         *)
(* wrapping of it under a passphrase, with the AUTH value derived there.   *)
(* What a reader cannot open with its data key is a value of another       *)
(* vault.  Names, timestamps, sizes and the client-side backoff are left   *)
(* out.                                                                    *)
(***************************************************************************)
EXTENDS Naturals, FiniteSets

CONSTANTS
    Clients,
    Vaults, Phrases, Keys, Hosts, NoVault, NoPhrase, NoKey,
    NoCheck,            \* no wrapping, no AUTH, no verifier
    ConflictRetries,    \* CONFLICT_RETRIES
    Gated,              \* the server hides the slots until a verify
    ServerReset,        \* the server offers POST /vault/reset
    VersionsRestart,    \* a slot created again counts from 1
    MaxCalls,           \* bound: operations called
    MaxFaults           \* bound: failed or unanswered requests, crashes

ASSUME VaultAssumption ==
    /\ NoVault \notin Vaults /\ NoPhrase \notin Phrases /\ NoKey \notin Keys
    /\ NoCheck \notin Vaults \X Nat
    /\ ConflictRetries \in Nat /\ MaxCalls \in Nat /\ MaxFaults \in Nat
    /\ {Gated, ServerReset, VersionsRestart} \subseteq BOOLEAN

VARIABLES
    header,     \* the `vault` slot
    last,       \* the latest version the service gave the `vault` slot
    blob,       \* the `vk-*` slots: the vault each is sealed for, or NoVault
    verifier,   \* the server's verifier: the wrapping whose AUTH it accepts
    epoch,      \* the server's epoch
    open,       \* open[c]: this.unlocked is set
    held,       \* held[c]: what this.unlocked refers to, or last referred to
    pending,    \* pending[c]: pendingVerifier
    remember,   \* remember[c]: the platform's remember record
    op,         \* op[c]: the operation in this.queue
    calls, faults,
    used,       \* history: ids of all vaults
    excused     \* history: keys whose slot was last written in an Overlap or a reset

store == <<header, last, used, verifier, epoch>>
bounds == <<calls, faults>>
vars == <<header, last, blob, verifier, epoch, open, held, pending,
          remember, op, calls, faults, used, excused>>

Account == INSTANCE AccountVault
    WITH vault <- header.vault, phrase <- header.phrase,
         index <- header.index, used <- used

Check == Vaults \X Nat

NoHeader == [version |-> 0, vault |-> NoVault, epoch |-> 0,
             phrase |-> NoPhrase, check |-> NoCheck,
             index |-> Account!EmptyIndex]

Header ==
    [version : Nat, vault : Vaults \union {NoVault}, epoch : Nat,
     phrase : Phrases \union {NoPhrase}, check : Check \union {NoCheck},
     index : Account!Index]

NoHeld == [head |-> NoHeader, auth |-> NoCheck]
NoPending == [auth |-> NoCheck, current |-> NoCheck]
NoRecord == [vault |-> NoVault, epoch |-> 0, auth |-> NoCheck]

IndexKinds == {"addKey", "removeKey", "rotateKey", "bindHost", "unbindHost",
               "setSyncPassphrase"}
Kinds == IndexKinds \union
    {"createVault", "unlock", "unlockRemembered", "changePassphrase",
     "retryVerifier", "resetVault", "trust"}

\* Operations that read this.generation when they are called; the others
\* read it, or this.unlocked, when their turn comes.
CallTime == {"createVault", "unlock", "unlockRemembered", "changePassphrase",
             "resetVault"}

NoOp == [kind |-> "none", key |-> NoKey, key2 |-> NoKey, host |-> NoKey,
         phrase |-> NoPhrase, next |-> NoPhrase, sync |-> FALSE,
         pc |-> "idle", stale |-> FALSE, tries |-> 0, existed |-> FALSE, doubt |-> FALSE,
         seen |-> NoHeader, index |-> Account!EmptyIndex, wipe |-> {}]

NewHeader(v, p) == [NoHeader EXCEPT !.version = 1, !.vault = v, !.epoch = 1,
                                    !.phrase = p, !.check = <<v, 1>>]

\* An account without a vault, or with one just created that every client
\* has unlocked.
Init ==
    /\ \/ /\ header = NoHeader /\ used = {}
          /\ open = [c \in Clients |-> FALSE]
          /\ held = [c \in Clients |-> NoHeld]
       \/ \E v \in Vaults, p \in Phrases :
          /\ header = NewHeader(v, p) /\ used = {v}
          /\ open = [c \in Clients |-> TRUE]
          /\ held = [c \in Clients |-> [head |-> header, auth |-> header.check]]
    /\ last = header.version
    /\ blob = [k \in Keys |-> NoVault]
    /\ verifier = header.check /\ epoch = 1
    /\ pending = [c \in Clients |-> NoPending]
    /\ remember = [c \in Clients |-> NoRecord]
    /\ op = [c \in Clients |-> NoOp]
    /\ calls = 0 /\ faults = 0 /\ excused = {}

-----------------------------------------------------------------------------
(* Steps shared by the operations.                                         *)

At(c, pc) == op[c].pc = pc
Go(c, pc) == op' = [op EXCEPT ![c].pc = pc]
Finish(c) == op' = [op EXCEPT ![c] = NoOp]

Fault == faults < MaxFaults /\ faults' = faults + 1 /\ UNCHANGED calls

\* The service accepts a push whose base is the slot's version; an absent
\* slot has version 0.
Accepts(base) == base = header.version

NextVersion == IF VersionsRestart THEN header.version + 1 ELSE last + 1

\* A header write the service accepts.
Put(h) ==
    /\ header' = [h EXCEPT !.version = NextVersion]
    /\ last' = NextVersion

\* Defect: a re-base keeps the index it had.
Sees_KeepsIndex(c, h) ==
    [held[c] EXCEPT !.head = [h EXCEPT !.index = held[c].head.index]]

Sees(c, h) == [held[c] EXCEPT !.head = h]

\* lock(): forget the unlocked state and the verifier proof; whatever runs
\* finds another generation.
LockNow(c) ==
    /\ open' = [open EXCEPT ![c] = FALSE]
    /\ pending' = [pending EXCEPT ![c] = NoPending]

\* Another client may have changed what this one relies on: its view of the
\* header is behind or was when it wrote, or both work on the same key.
Overlap(c, k) ==
    \/ header.version # held[c].head.version
    \/ header.vault # held[c].head.vault
    \/ op[c].doubt
    \/ \E d \in Clients \ {c} : op[d].kind # "none" /\ k \in {op[d].key, op[d].key2}

-----------------------------------------------------------------------------
(* Calls, lock and crash.                                                  *)

\* A method is called; its task waits for its turn.
Call(c, o) ==
    /\ At(c, "idle") /\ calls < MaxCalls
    /\ op' = [op EXCEPT ![c] = [o EXCEPT !.pc = "called"]]
    /\ calls' = calls + 1
    /\ UNCHANGED <<store, blob, open, held, pending, remember, faults, excused>>

CallingOpen(c) ==
    LET keys == held[c].head.index.keys IN
    \/ \E p, n \in Phrases : p # n /\
         Call(c, [NoOp EXCEPT !.kind = "changePassphrase", !.phrase = p, !.next = n])
    \/ \E k \in Keys : Call(c, [NoOp EXCEPT !.kind = "addKey", !.key = k])
    \/ \E k \in keys :
         \/ Call(c, [NoOp EXCEPT !.kind = "removeKey", !.key = k])
         \/ \E n \in keys \ {k} :
              Call(c, [NoOp EXCEPT !.kind = "rotateKey", !.key = k, !.key2 = n])
         \/ \E h \in Hosts :
              Call(c, [NoOp EXCEPT !.kind = "bindHost", !.host = h, !.key = k])
    \/ \E h \in Hosts :
         /\ held[c].head.index.hosts[h] # NoKey
         /\ Call(c, [NoOp EXCEPT !.kind = "unbindHost", !.host = h])
    \/ \E s \in BOOLEAN :
         Call(c, [NoOp EXCEPT !.kind = "setSyncPassphrase", !.sync = s])
    \/ Call(c, [NoOp EXCEPT !.kind = "trust"])

\* Bound: Vaults has an id for every vault that is being made.
VaultsLeft ==
    Cardinality(used) + Cardinality({c \in Clients :
        op[c].kind \in {"createVault", "resetVault"}}) < Cardinality(Vaults)

\* What a client's interface offers: key ids come from the index it shows.
Calling(c) ==
    \/ \E p \in Phrases :
         \/ /\ VaultsLeft
            /\ Call(c, [NoOp EXCEPT !.kind = "resetVault", !.phrase = p])
         \/ /\ VaultsLeft /\ ~open[c]
            /\ Call(c, [NoOp EXCEPT !.kind = "createVault", !.phrase = p])
         \/ /\ ~open[c]
            /\ Call(c, [NoOp EXCEPT !.kind = "unlock", !.phrase = p])
    \/ ~open[c] /\ remember[c] # NoRecord
       /\ Call(c, [NoOp EXCEPT !.kind = "unlockRemembered"])
    \/ pending[c] # NoPending /\ Call(c, [NoOp EXCEPT !.kind = "retryVerifier"])
    \/ open[c] /\ CallingOpen(c)

Lock(c) ==
    /\ open[c] \/ (~At(c, "idle") /\ ~op[c].stale)
    /\ LockNow(c)
    /\ op' = [op EXCEPT ![c].stale = ~At(c, "idle")]
    /\ held' = [held EXCEPT ![c] = IF At(c, "idle") THEN NoHeld ELSE @]
    /\ UNCHANGED <<store, blob, remember, bounds, excused>>

\* exportRememberRecord, kept by the platform across restarts.
Remember(c) ==
    /\ open[c] /\ At(c, "idle") /\ calls < MaxCalls
    /\ calls' = calls + 1
    /\ remember' = [remember EXCEPT ![c] =
         [vault |-> held[c].head.vault, epoch |-> held[c].head.epoch,
          auth |-> held[c].auth]]
    /\ UNCHANGED <<store, blob, open, held, pending, op, faults, excused>>

\* The application stops between two awaits.
Crash(c) ==
    /\ Fault
    /\ ~At(c, "idle")
    /\ Finish(c)
    /\ LockNow(c)
    /\ held' = [held EXCEPT ![c] = NoHeld]
    /\ UNCHANGED <<store, blob, remember, excused>>

\* A request fails, or the server answers gated and the silent re-verify
\* does not help: the operation ends without an effect.  addKey's failed
\* index write is left to IndexFails.
Fails(c) ==
    /\ Fault
    /\ op[c].pc \in {"look", "blob", "rebase", "drop", "undo", "fresh", "list",
                     "wipe", "again", "pull", "repush", "refresh"}
    /\ ~(At(c, "rebase") /\ op[c].kind = "addKey")
    /\ Finish(c)
    /\ UNCHANGED <<store, blob, open, held, pending, remember, excused>>


-----------------------------------------------------------------------------
(* Index writes: writeIndex, rebase and the operations made of them.       *)

\* `mutate` of each operation, on the index it is given.
Mutated(o, i) ==
    CASE o.kind = "addKey" -> Account!WithKey(i, o.key)
      [] o.kind = "removeKey" -> Account!WithoutKey(i, o.key)
      [] o.kind = "rotateKey" -> Account!Rotated(i, o.key, o.key2)
      [] o.kind = "bindHost" -> Account!Bound(i, o.host, o.key)
      [] o.kind = "unbindHost" -> Account!Bound(i, o.host, NoKey)
      [] o.kind = "setSyncPassphrase" -> Account!WithSync(i, o.sync)

\* It answers an error ...
Refuses(o, i) ==
    \/ o.kind = "rotateKey" /\ (o.key2 \notin i.keys \/ o.key = o.key2)
    \/ o.kind = "bindHost" /\ o.key \notin i.keys

\* ... or false, when there is nothing to write.
Skips(o, i) == o.kind # "rotateKey" /\ Mutated(o, i) = i

\* What follows a writeIndex that answered ok, and one that did not: a
\* removed key loses its slot, a key that was not recorded loses the slot
\* just written for it.
IndexWritten(c) ==
    IF op[c].kind \in {"removeKey", "rotateKey"} THEN Go(c, "drop") ELSE Finish(c)

\* Defect: removeKey deletes the slot whatever writeIndex answered.
IndexFailed_Drops(c, doubt) ==
    IF op[c].kind = "removeKey" THEN Go(c, "drop") ELSE Finish(c)

IndexFailed(c, doubt) ==
    IF op[c].kind = "addKey" /\ ~op[c].existed
    THEN op' = [op EXCEPT ![c].pc = "undo", ![c].doubt = @ \/ doubt]
    ELSE Finish(c)

\* Up to the await of sealIndex: the verdict of mutate on the index held and
\* the last look at the generation.
SealIndex(c) ==
    /\ \/ At(c, "index")
       \/ At(c, "called") /\ op[c].kind \in IndexKinds \ {"addKey"}
    /\ LET i == held[c].head.index IN
       IF ~open[c] \/ Refuses(op[c], i) THEN IndexFailed(c, FALSE)
       ELSE IF Skips(op[c], i) THEN IndexWritten(c)
       ELSE op' = [op EXCEPT ![c].pc = "push", ![c].index = Mutated(op[c], i)]
    /\ UNCHANGED <<store, blob, open, held, pending, remember, bounds, excused>>

\* The header as this client holds it, with the new index.
Resealed(c) == [held[c].head EXCEPT !.index = op[c].index]

\* Defect: an accepted write adopts the version and not the index.
PushIndex_KeepsIndex(c) ==
    /\ At(c, "push") /\ Accepts(held[c].head.version)
    /\ Put(Resealed(c))
    /\ held' = [held EXCEPT ![c].head.version = header'.version]
    /\ IndexWritten(c)
    /\ UNCHANGED <<used, verifier, epoch, blob, open, pending, remember,
                   bounds, excused>>

PushIndex(c) ==
    /\ At(c, "push") /\ Accepts(held[c].head.version)
    /\ Put(Resealed(c))
    /\ held' = [held EXCEPT ![c] = Sees(c, header')]
    /\ IndexWritten(c)
    /\ UNCHANGED <<used, verifier, epoch, blob, open, pending, remember,
                   bounds, excused>>

\* The write takes effect and its answer is lost.
PushIndexLost(c) ==
    /\ At(c, "push") /\ Accepts(held[c].head.version)
    /\ Fault
    /\ Put(Resealed(c))
    /\ IndexFailed(c, TRUE)
    /\ UNCHANGED <<used, verifier, epoch, blob, open, held, pending, remember,
                   excused>>

PushIndexFails(c) ==
    /\ At(c, "push") \/ (At(c, "rebase") /\ op[c].kind = "addKey")
    /\ Fault
    /\ IndexFailed(c, FALSE)
    /\ UNCHANGED <<store, blob, open, held, pending, remember, excused>>

PushIndexConflict(c) ==
    /\ At(c, "push") /\ ~Accepts(held[c].head.version)
    /\ IF op[c].stale THEN IndexFailed(c, TRUE)
       ELSE op' = [op EXCEPT ![c].pc = "rebase", ![c].doubt = TRUE]
    /\ UNCHANGED <<store, blob, open, held, pending, remember, bounds, excused>>

\* The pulled header is not the vault this client opened.
Changed(c) == \/ header.vault # held[c].head.vault
              \/ header.epoch # held[c].head.epoch

RebaseFailed(c) ==
    IF op[c].kind = "changePassphrase" THEN Finish(c) ELSE IndexFailed(c, FALSE)

\* rebase: the vault was replaced, so the store locks itself.
RebaseChanged(c) ==
    /\ At(c, "rebase") /\ Changed(c)
    /\ LockNow(c)
    /\ RebaseFailed(c)
    /\ UNCHANGED <<store, blob, held, remember, bounds, excused>>

\* rebase: the index of the newer header replaces the one held, and the loop
\* goes on, unless it was the last attempt or the store was locked.
Rebase(c) ==
    /\ At(c, "rebase") /\ ~Changed(c)
    /\ held' = [held EXCEPT ![c] = Sees(c, header)]
    /\ IF op[c].stale \/ op[c].tries >= ConflictRetries THEN RebaseFailed(c)
       ELSE op' = [op EXCEPT ![c].tries = @ + 1,
              ![c].pc = IF op[c].kind = "changePassphrase" THEN "rewrap" ELSE "index"]
    /\ UNCHANGED <<store, blob, open, pending, remember, bounds, excused>>

-----------------------------------------------------------------------------
(* Key slots.                                                              *)

\* addKey: a key the index has already is looked for first.  addPassword is
\* the same with an id that nobody uses yet.
AddStart(c) ==
    /\ At(c, "called") /\ op[c].kind = "addKey"
    /\ IF ~open[c] THEN Finish(c)
       ELSE LET existed == op[c].key \in held[c].head.index.keys IN
            op' = [op EXCEPT ![c].existed = existed,
                             ![c].pc = IF existed THEN "look" ELSE "blob"]
    /\ UNCHANGED <<store, blob, open, held, pending, remember, bounds, excused>>

LookForBlob(c) ==
    /\ At(c, "look")
    /\ IF blob[op[c].key] # NoVault THEN Finish(c) ELSE Go(c, "blob")
    /\ UNCHANGED <<store, blob, open, held, pending, remember, bounds, excused>>

\* writeBlob: the last of its pushes overwrites whatever is there.
SetBlob(c, k, v) ==
    /\ blob' = [blob EXCEPT ![k] = v]
    /\ excused' = IF Overlap(c, k) THEN excused \union {k} ELSE excused \ {k}

WriteBlob(c) ==
    /\ At(c, "blob")
    /\ SetBlob(c, op[c].key, held[c].head.vault)
    /\ \/ Go(c, "index") /\ UNCHANGED bounds
       \/ Finish(c) /\ Fault
    /\ UNCHANGED <<store, open, held, pending, remember>>

\* The slot of a key that was not recorded, or is no longer, is deleted.
DeleteBlob(c) ==
    /\ At(c, "undo") \/ At(c, "drop")
    /\ SetBlob(c, op[c].key, NoVault)
    /\ Finish(c)
    /\ UNCHANGED <<store, open, held, pending, remember, bounds>>

-----------------------------------------------------------------------------
(* Creating and resetting the vault.                                       *)

CreateStart(c) ==
    /\ At(c, "called") /\ op[c].kind = "createVault"
    /\ IF header.vault # NoVault THEN Finish(c)
       ELSE op' = [op EXCEPT ![c].pc = "fresh", ![c].seen.epoch = 1]
    /\ UNCHANGED <<store, blob, open, held, pending, remember, bounds, excused>>

\* resetVault carries the bindings and the sync passphrase of an unlocked
\* vault into the new one.
ResetStart(c) ==
    /\ At(c, "called") /\ op[c].kind = "resetVault"
    /\ op' = [op EXCEPT ![c].pc = "status", ![c].seen.epoch = 1,
         ![c].index = IF open[c] THEN [held[c].head.index EXCEPT !.keys = {}]
                      ELSE Account!EmptyIndex]
    /\ UNCHANGED <<store, blob, open, held, pending, remember, bounds, excused>>

\* POST /vault/reset deletes header, key slots and verifier at once.
ServerWipes(c) ==
    /\ At(c, "status") /\ ServerReset
    /\ header' = NoHeader
    /\ blob' = [k \in Keys |-> NoVault]
    /\ verifier' = NoCheck
    /\ epoch' = epoch + 1
    /\ op' = [op EXCEPT ![c].pc = "list", ![c].seen.epoch = epoch + 1]
    /\ UNCHANGED <<last, used, open, held, pending, remember, bounds, excused>>

\* The server has no reset or is unavailable, or it wants a fresh sign-in.
ServerDeclines(c) ==
    /\ At(c, "status")
    /\ Go(c, "list") \/ (ServerReset /\ Finish(c))
    /\ UNCHANGED <<store, blob, open, held, pending, remember, bounds, excused>>

ListSlots(c) ==
    /\ At(c, "list")
    /\ op' = [op EXCEPT ![c].pc = "wipe",
                        ![c].wipe = {k \in Keys : blob[k] # NoVault}]
    /\ UNCHANGED <<store, blob, open, held, pending, remember, bounds, excused>>

\* The client deletes the listed key slots one by one.
WipeOne(c) ==
    /\ At(c, "wipe")
    /\ \E k \in op[c].wipe :
         /\ blob' = [blob EXCEPT ![k] = NoVault]
         /\ excused' = excused \union {k}
         /\ op' = [op EXCEPT ![c].wipe = @ \ {k}]
    /\ UNCHANGED <<store, open, held, pending, remember, bounds>>

\* The base and the epoch for the fresh header come from the one in the slot.
FreshBase(s) ==
    IF header.vault = NoVault THEN s
    ELSE [s EXCEPT !.version = header.version,
                   !.epoch = IF @ > header.epoch THEN @ ELSE header.epoch + 1]

PullForReset(c) ==
    /\ At(c, "again") \/ (At(c, "wipe") /\ op[c].wipe = {})
    /\ op' = [op EXCEPT ![c].pc = "fresh", ![c].seen = FreshBase(op[c].seen)]
    /\ UNCHANGED <<store, blob, open, held, pending, remember, bounds, excused>>

FreshHeader(c, v) ==
    [NoHeader EXCEPT !.vault = v, !.epoch = op[c].seen.epoch,
        !.phrase = op[c].phrase, !.check = <<v, NextVersion>>,
        !.index = op[c].index]

\* writeFreshVault: the header is pushed ...
WriteFresh(c) ==
    /\ At(c, "fresh") /\ Accepts(op[c].seen.version)
    /\ \E v \in Vaults \ used :
         /\ Put(FreshHeader(c, v))
         /\ used' = used \union {v}
    /\ \/ /\ op' = [op EXCEPT ![c].pc = "publish", ![c].seen = header']
          /\ UNCHANGED bounds
       \/ Finish(c) /\ Fault
    /\ UNCHANGED <<verifier, epoch, blob, open, held, pending, remember, excused>>

WriteFreshConflict(c) ==
    /\ At(c, "fresh") /\ ~Accepts(op[c].seen.version)
    /\ IF op[c].kind = "createVault" \/ op[c].tries >= ConflictRetries THEN Finish(c)
       ELSE op' = [op EXCEPT ![c].pc = "again", ![c].tries = @ + 1]
    /\ UNCHANGED <<store, blob, open, held, pending, remember, bounds, excused>>

\* setVerifier: the server replaces a verifier only for who proves the old
\* one; the request may fail.
Publish(auth, current) ==
    \/ /\ verifier \in {NoCheck, current}
       /\ verifier' = auth
       /\ UNCHANGED bounds
    \/ /\ verifier \notin {NoCheck, current} \/ faults < MaxFaults
       /\ UNCHANGED verifier
       /\ faults' = IF verifier \in {NoCheck, current} THEN faults + 1 ELSE faults
       /\ UNCHANGED calls

\* install: the opened vault is kept unless lock() came in between.
Install(c, h, auth) ==
    IF op[c].stale THEN UNCHANGED <<open, held>>
    ELSE /\ open' = [open EXCEPT ![c] = TRUE]
         /\ held' = [held EXCEPT ![c] = [head |-> h, auth |-> auth]]

\* ... the verifier is published, and the vault is left unlocked.
FreshDone(c) ==
    /\ At(c, "publish")
    /\ Publish(op[c].seen.check, NoCheck)
    /\ Install(c, op[c].seen, op[c].seen.check)
    /\ Finish(c)
    /\ UNCHANGED <<header, last, used, epoch, blob, pending, remember, excused>>

-----------------------------------------------------------------------------
(* Unlocking.                                                              *)

\* Gated mode: the server must accept the AUTH before it shows the header; a
\* record it rejects is stale and is deleted by the platform.
Verify(c) ==
    /\ At(c, "called") /\ op[c].kind \in {"unlock", "unlockRemembered"}
    /\ LET accepted == IF op[c].kind = "unlockRemembered"
                       THEN remember[c].auth = verifier
                       ELSE header.check = verifier /\ op[c].phrase = header.phrase
       IN IF Gated /\ ~accepted
          THEN /\ Finish(c)
               /\ remember' = IF op[c].kind = "unlock" THEN remember
                              ELSE [remember EXCEPT ![c] = NoRecord]
          ELSE Go(c, "pull") /\ UNCHANGED remember
    /\ UNCHANGED <<store, blob, open, held, pending, bounds, excused>>

\* A remember record of another vault or epoch.
StaleRecord(c, h) == \/ h.vault # remember[c].vault
                     \/ h.epoch # remember[c].epoch

PullHeader(c) ==
    /\ At(c, "pull")
    /\ IF header.vault = NoVault THEN Finish(c)
       ELSE op' = [op EXCEPT ![c].pc = "check", ![c].seen = header]
    /\ UNCHANGED <<store, blob, open, held, pending, remember, bounds, excused>>

\* The header's check value decides, whatever the server's verdict; a server
\* without a verifier gets one, one left behind by a passphrase change of
\* this client is repaired.
UnlockCheck(c) ==
    LET seen == op[c].seen
        repair == /\ verifier \notin {NoCheck, seen.check}
                  /\ pending[c].auth = seen.check
    IN
    /\ At(c, "check") /\ op[c].kind = "unlock"
    /\ IF op[c].phrase # seen.phrase
       THEN UNCHANGED <<open, held, verifier, pending, bounds>>
       ELSE /\ Install(c, seen, seen.check)
            /\ IF repair
               THEN /\ Publish(seen.check, pending[c].current)
                    /\ pending' = IF verifier' = seen.check
                         THEN [pending EXCEPT ![c] = NoPending] ELSE pending
               ELSE /\ UNCHANGED pending
                    /\ IF verifier = NoCheck THEN Publish(seen.check, NoCheck)
                       ELSE UNCHANGED <<verifier, bounds>>
    /\ Finish(c)
    /\ UNCHANGED <<header, last, used, epoch, blob, remember, excused>>

UnlockRemembered(c) ==
    /\ At(c, "check") /\ op[c].kind = "unlockRemembered"
    /\ IF StaleRecord(c, op[c].seen)
       THEN /\ remember' = [remember EXCEPT ![c] = NoRecord]
            /\ UNCHANGED <<open, held>>
       ELSE /\ Install(c, op[c].seen, remember[c].auth)
            /\ UNCHANGED remember
    /\ Finish(c)
    /\ UNCHANGED <<store, blob, pending, bounds, excused>>

-----------------------------------------------------------------------------
(* Passphrase changes, verifier repair and the trust refresh.              *)

\* The current passphrase is proved against the header held.
ChangeStart(c) ==
    /\ At(c, "called") /\ op[c].kind = "changePassphrase"
    /\ IF ~open[c] \/ op[c].stale \/ op[c].phrase # held[c].head.phrase
       THEN Finish(c)
       ELSE op' = [op EXCEPT ![c].pc = "rewrap", ![c].seen = held[c].head]
    /\ UNCHANGED <<store, blob, open, held, pending, remember, bounds, excused>>

\* Defect: the loop does not compare the wrapping after a re-base.
Rewrap_Unchecked(c) ==
    /\ At(c, "rewrap")
    /\ IF op[c].stale THEN Finish(c) ELSE Go(c, "repush")
    /\ UNCHANGED <<store, blob, open, held, pending, remember, bounds, excused>>

\* The head of the loop: not locked, and still the wrapping that was proved.
Rewrap(c) ==
    /\ At(c, "rewrap")
    /\ IF op[c].stale \/ held[c].head.check # op[c].seen.check
       THEN Finish(c) ELSE Go(c, "repush")
    /\ UNCHANGED <<store, blob, open, held, pending, remember, bounds, excused>>

Rewrapped(c) ==
    [held[c].head EXCEPT !.phrase = op[c].next,
                         !.check = <<held[c].head.vault, NextVersion>>]

PushRewrapped(c) ==
    /\ At(c, "repush") /\ Accepts(held[c].head.version)
    /\ Put(Rewrapped(c))
    /\ \/ /\ Go(c, "republish")
          /\ held' = [held EXCEPT ![c] = Sees(c, header')]
          /\ UNCHANGED bounds
       \/ Finish(c) /\ Fault /\ UNCHANGED held
    /\ UNCHANGED <<used, verifier, epoch, blob, open, pending, remember, excused>>

PushRewrappedConflict(c) ==
    /\ At(c, "repush") /\ ~Accepts(held[c].head.version)
    /\ Go(c, "rebase")
    /\ UNCHANGED <<store, blob, open, held, pending, remember, bounds, excused>>

\* The new verifier, with the old AUTH as proof; what the server did not
\* take is kept for a retry.
ChangeDone(c) ==
    LET auth == held[c].head.check IN
    /\ At(c, "republish")
    /\ Publish(auth, op[c].seen.check)
    /\ pending' = [pending EXCEPT ![c] =
         IF verifier' = auth THEN NoPending
         ELSE [auth |-> auth, current |-> op[c].seen.check]]
    /\ held' = IF op[c].stale THEN held ELSE [held EXCEPT ![c].auth = auth]
    /\ Finish(c)
    /\ UNCHANGED <<header, last, used, epoch, blob, open, remember, excused>>

RetryVerifier(c) ==
    /\ At(c, "called") /\ op[c].kind = "retryVerifier"
    /\ IF pending[c] = NoPending THEN UNCHANGED <<verifier, pending, bounds>>
       ELSE /\ Publish(pending[c].auth, pending[c].current)
            /\ pending' = IF verifier' = pending[c].auth
                 THEN [pending EXCEPT ![c] = NoPending] ELSE pending
    /\ Finish(c)
    /\ UNCHANGED <<header, last, used, epoch, blob, open, held, remember, excused>>

\* refreshTrustedHostIndex, before any trust decision: the header is read
\* again and must be the same vault, no older than the one held.
TrustStart(c) ==
    /\ At(c, "called") /\ op[c].kind = "trust"
    /\ IF open[c] THEN Go(c, "refresh") ELSE Finish(c)
    /\ UNCHANGED <<store, blob, open, held, pending, remember, bounds, excused>>

RefreshIndex(c) ==
    /\ At(c, "refresh")
    /\ IF ~open[c] THEN UNCHANGED <<open, held, pending>>
       ELSE IF Changed(c) \/ header.version < held[c].head.version
       THEN LockNow(c) /\ UNCHANGED held
       ELSE /\ held' = [held EXCEPT ![c] = Sees(c, header)]
            /\ UNCHANGED <<open, pending>>
    /\ Finish(c)
    /\ UNCHANGED <<store, blob, remember, bounds, excused>>

-----------------------------------------------------------------------------
IndexStep(c) == \/ SealIndex(c) \/ PushIndex(c) \/ PushIndexLost(c)
                \/ PushIndexFails(c) \/ PushIndexConflict(c)
                \/ RebaseChanged(c) \/ Rebase(c)
BlobStep(c) == AddStart(c) \/ LookForBlob(c) \/ WriteBlob(c) \/ DeleteBlob(c)
FreshStep(c) == \/ CreateStart(c) \/ ResetStart(c) \/ ServerWipes(c)
                \/ ServerDeclines(c) \/ ListSlots(c) \/ WipeOne(c)
                \/ PullForReset(c) \/ WriteFresh(c) \/ WriteFreshConflict(c)
                \/ FreshDone(c)
UnlockStep(c) == \/ Verify(c) \/ PullHeader(c) \/ UnlockCheck(c)
                 \/ UnlockRemembered(c)
ChangeStep(c) == \/ ChangeStart(c) \/ Rewrap(c) \/ PushRewrapped(c)
                 \/ PushRewrappedConflict(c) \/ ChangeDone(c)
                 \/ RetryVerifier(c) \/ TrustStart(c) \/ RefreshIndex(c)

Next == \E c \in Clients :
    \/ Calling(c) \/ Lock(c) \/ Remember(c) \/ Crash(c) \/ Fails(c)
    \/ IndexStep(c) \/ BlobStep(c) \/ FreshStep(c) \/ UnlockStep(c)
    \/ ChangeStep(c)

Spec == Init /\ [][Next]_vars

-----------------------------------------------------------------------------
(* Properties.                                                             *)

Pcs == {"idle", "called", "index", "push", "rebase", "look", "blob", "undo",
        "drop", "status", "list", "wipe", "again", "fresh", "publish", "pull",
        "check", "rewrap", "repush", "republish", "refresh"}

Op == [kind : Kinds \union {"none"}, key : Keys \union {NoKey},
       key2 : Keys \union {NoKey}, host : Hosts \union {NoKey},
       phrase : Phrases \union {NoPhrase}, next : Phrases \union {NoPhrase},
       sync : BOOLEAN, pc : Pcs, stale : BOOLEAN, tries : 0..ConflictRetries,
       existed : BOOLEAN, doubt : BOOLEAN, seen : Header,
       index : Account!Index, wipe : SUBSET Keys]

\* Every variable has its type.
TypeOK ==
    /\ header \in Header /\ last \in Nat
    /\ blob \in [Keys -> Vaults \union {NoVault}]
    /\ verifier \in Check \union {NoCheck} /\ epoch \in Nat
    /\ open \in [Clients -> BOOLEAN]
    /\ held \in [Clients -> [head : Header, auth : Check \union {NoCheck}]]
    /\ pending \in [Clients -> [auth : Check \union {NoCheck},
                                current : Check \union {NoCheck}]]
    /\ remember \in [Clients -> [vault : Vaults \union {NoVault},
                                 epoch : Nat, auth : Check \union {NoCheck}]]
    /\ op \in [Clients -> Op]
    /\ calls \in 0..MaxCalls /\ faults \in 0..MaxFaults
    /\ used \subseteq Vaults /\ excused \subseteq Keys

\* The clients together act on the account as one vault would on which every
\* operation is atomic: an index write applies its operation to the index in
\* the slot, whoever wrote that, a passphrase change keeps the index, and a
\* replaced vault never comes back (writeIndex, rebase, changePassphrase,
\* resetVault).
ActsAsOneVault == Account!Spec

\* A client that holds the version in the slot holds what is in the slot: no
\* write is made from a header other than the one its base version names.
HoldsWhatItNames ==
    /\ TypeOK
    /\ \A c \in Clients :
          held[c].head.version = header.version /\ header.vault # NoVault
            => held[c].head = header

\* A passphrase is replaced only by who has proved the one in force, also
\* when the change was re-based on another client's writes.
ChangeIsProved ==
    [][ header'.vault = header.vault /\ header'.check # header.check
        => \E c \in Clients : /\ op[c].pc = "repush"
                              /\ op[c].phrase = header.phrase
                              /\ op[c].seen.check = header.check ]_vars

\* A key the index names has its slot, sealed for the vault in force, unless
\* the slot was last written by a client whose header was not the one in force
\* (another client wrote meanwhile, or its own push was applied and not
\* answered), while another client's operation was on the same key, or by a
\* reset: crashes, failed requests, conflicts and locks between the slot
\* writes of one client never lose a key.
OnlyOverlapLosesKeys ==
    \A k \in header.index.keys : blob[k] = header.vault \/ k \in excused

=============================================================================
