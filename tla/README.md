# Verification of @pocketshell/core

TLA+ models, TLC runs and TLAPS proofs for the shared contract layer of
PocketShell (`src/`) and the stores of its shared interface
(`packages/ui/src/app/`).  Paths below are relative to the repository root; in
`PROJECT.json` they carry the prefix `src/`.

## 1. Inventory

PocketShell's clients (desktop, web, Android) share one TypeScript core.  It
has no threads: every class is single threaded and interleaves at `await`. All
its concurrency is therefore between calls that wait for the platform (SSH
capability, sync service, PTY bridge), the user, and the platform's events, and
the recurring question is what a call finds when its answer arrives.

| Component | State | Operations | Hard part | What makes it correct |
| --- | --- | --- | --- | --- |
| Settings sync (`src/syncRound.ts`, `src/syncMerge.ts`, `packages/ui/src/app/stores/sync.ts`) | selection, explicit unticks, account copy, busy flag; the account slot and its version | pull, tick, assemble, push, re-base; check account, login, logout, edit selection, reopen | other devices write between pull and push; lost answers; unreadable data | no lost update; only an untick removes; fields of other clients survive; fails closed; rounds end |
| Connection controller (`src/connectionController.ts`) | phase, host, connection and generation, connect intent, ladder, grace deadline, trust question | connect, trust a key, reconnect, background, foreground, close, list, attach, create/kill, exec, state events | any two calls overlap at awaits; late answers; lost links; deadline races | one dial takes effect; no connection leaks; keys are the right host's; recovery concludes |
| Terminal pool (same file) | terminal records, their tokens, focus order, pumps, write queues | attach, focus, detach, evict, write, resize, read, EOF probe, re-attach | a record is re-attached while its old channel still answers | pool bound; no leaked channel; one pump per PTY; nothing sent past a failed write |
| Port forwards (`src/portForwardController.ts`, `src/portForwardPolicy.ts`) | intents, live forwards, absence counts, failures, operation queue | scan and reconcile, close all, new connection, intents | intents change between awaits of a planned pass; failing closes | capacity; nothing unclosable; tunnels dropped only with cause; intents are served |
| Composer delivery (`src/composerSend.ts`) | transport state and generation, used ids, promise chain | setTransportState, deliver | partial writes, a reconnect between two writes | the draft verdict tells the truth; prompts do not interleave; every call is answered |
| Key vault store (`src/keyVault/store.ts`) | held header and index, pending verifier, exclusive queue, generation; the account's header slot, key slots and verifier | create, unlock, remember, lock, add, remove, rotate, bind, unbind, change passphrase, publish the verifier again, reset, trust refresh | a change is several slot writes; other clients write in between; answers get lost; the client stops half way | several clients act as one atomic vault; no key lost by a crash or a conflict; a passphrase is replaced only by who proved the one in force |
| Composer store (`packages/ui/src/app/stores/composer.ts`) | a record per session (draft, tiles, history, recall, flags), upload batches, layout, the saved copy | type, seed, discard, recall, stage, send, park, rename, kill, reconnect, save, restart | an upload or a delivery ends after its session was renamed, killed or reconnected | text stays in its session and is not lost; a prompt carries its files; no flag is left behind |
| Link transport (`src/linkCapability.ts`) | dial, connection entries, channels with buffers, waiters and timers | connect, exec, PTY open/read/close, close, scheduled close, cancel, relay frames | frames, timers and loss in any order | nobody waits on a dead link; output is whole; no stray process |
| Connection store and reconnect loop (`packages/ui/src/app/stores/connection.ts`, `reconnectLoop.ts`, the banner and the picker) | id, state, host, id being replaced, question, loop generation, attempt and timer | connect, reconnect, retry now, disconnect, resume probe, trust answer, state events | a user's dial, the loop's dial, a close and an event cross | one schedule; a loss is learned of; who left stays left; a working link is not re-dialled; recovery ends |
| Saved hosts, gateway frames, dictation, workspace roots, sessions store, files store, tabs, launch | see `components` in `PROJECT.json` | | late answers of earlier turns, queues, identities | not modelled yet |
| Cryptography, formats, parsers, geometry, shortcuts, text | none or byte strings | | | not modelled: no protocol state, covered by unit tests |

Interactions: the UI stores call the controllers and the sync round; the
connection controller drives the terminal pool and hands each new connection to
the port-forward controller (`setConnection`) and the composer
(`setTransportState`).  On the desktop the connection store drives the
platform's transport, re-keys the composer store when a reconnect mints a new
id, and the link transport is one of the platforms under it.  The account's
slots (settings and vault) are the only state shared between devices.

The hazards this gives rise to are listed, each at its line, in `PROJECT.json`
under `hazards`.

## 2. Modules

| Module | Models | Notes |
| --- | --- | --- |
| `AccountSync` | sync merge policy, round and store | an action is the code between two awaits of one device; `slot` is the service |
| `ConnectionController` | transport lifecycle | `proc[p]` is a call waiting for an answer; the terminals are abstracted to `pool` |
| `Terminals` | terminal pool | the ladder dials, lists and re-attaches in steps of their own (a dial is one step); records and channels have identities |
| `PortForwards` | policy operators and controller | `job` is the running operation, `queue` the promise chain |
| `ComposerDelivery` | `ComposerDeliveryController` | `queue` is the promise chain, `pty` what reached the terminal; its `Init`, `Next` and `Spec` carry the prefix `Delivery` |
| `KeyVault` | the vault store of several clients over shared slots | an action is the code between two awaits; `op[c]` is the operation at the head of a client's exclusive queue |
| `AccountVault` | what the vault promises: every operation atomic on one index | abstract; `KeyVault` implements it (`ActsAsOneVault == Account!Spec`) |
| `ComposerStore` | the composer store with its send and visibility helpers | words and files are pieces with an author; tiles, parked paths and a batch's files are sets; what the user wrote and is owed, and the situations in which the store gives a promise up, are history |
| `LinkCapability` | the link transport against a relay and a host | `down` and `up` are the two directions of a socket, in order; bytes are numbered units; `OneFramePerTask` chooses the socket |
| `WorkspaceLink` | connection store, loop, banner, picker | `calls[c]` is a dial under way; `owns` chooses the platform that recovers by itself |
| `MC*` | small instances of the above | symmetry sets and constant functions |
| `AccountSyncProofs`, `ConnectionControllerProofs`, `TerminalsProofs`, `PortForwardsProofs`, `KeyVaultProofs`, `LinkCapabilityProofs`, `WorkspaceLinkProofs` | theorems about the module each is named after | see section 5 |
| `ComposerProofs` | theorems about `ComposerStore` and `ComposerDelivery` | see section 5 |

`map` in `PROJECT.json` gives the lines behind each definition.  Conventions:

* Definitions keep the source's names.  Operators whose name has a suffix after
  an underscore (`Current_AnyIntent`) are deliberate defects, used to show that
  a property notices them.  They are not part of any specification.
* JavaScript counters that are only compared for equality with a value taken
  earlier (`connectIntent`, `attachToken`, `pumpToken`) are replaced by the
  name of the call that holds the latest value.  Ids from `createId` are drawn
  from a set and used again only when nothing refers to them.
* Messages, labels, list order of aliases, byte counts, local ports and sizes
  are left out.  Payloads are "empty", "line" and "lines" because the framing
  depends on nothing else.
* A native `closeConnection` answers after the in-flight channel operations of
  that generation, as the repository's `README.md` demands of platforms.
* The order of `focusedAt` is kept as the relation it is (`older[r]`, the open
  terminals focused before `r`); the ladder re-attaches in any order.
* History variables (`carried`, `accepted`, `gone`) are written by actions and
  read by properties only.

The two views of the connection controller are separate modules because their
product is out of reach: `ConnectionController` has every dial, trust and
recovery step and a three-valued pool; `Terminals` has every record and channel
and a ladder whose dial is one step.

## 3. Runs

Deadlock checking is off throughout: the bounds stop every behaviour, and a
program nobody calls rests.

| Run | Shows |
| --- | --- |
| `sync_rounds` | two devices, one alias, a field of each client, lost answers, unreadable data, account deletion: `RoundIsSound` (`PushBasis`, `RoundPartition`), `FieldsCarried`, `FailsClosed`, `RoundEnds` |
| `sync_unticks` | two devices, two aliases, every push answered: `OnlyUntickRemoves`, `UntickIsOneShot` (two aliases, since a round never empties the account) |
| `conn_races` | ordinary, gateway and refused host, two keys, two user calls at once plus the ladder, two faults, any user: `DialerAlone`, `NoOrphan`, `TrustIsForHost` (`TrustedConnection` and `DecisionIsForHost`) |
| `conn_ends` | one host, a user who connects and trusts one at a time: `CloseReleases`, `DialConcludes`, `TerminalsRecovered` |
| `term_pool` | two sessions, room for one, two attaches, reads, writes, ladder, background, a fault: `PoolAccounts` (`PoolBound`, `OnlyDroppedOrphans`), `PumpServesPty`, `ReadInStep`, `NothingAfterFailure` |
| `fwd_passes` | two ports, one place, intents between awaits, a fault, a new connection, a client that keeps scanning: `TableInStep` (`Capacity`, `NoLeak`), `DropsAreEarned`, `IntentsSettle` |
| `composer_writes` | two sends, every payload, three changes of transport: `PtyInOrder` (`SentOnce`, `Serialized`, `EnterAfterBody`), `ClearIsEarned`, `OneGeneration`, `NotSentIsNothing`, `SendsAnswered` |
| `composer_store` | two sessions and names, two connections, two uploads, two sends, five gestures, a fault: `OwnText`, `WorkKept`, `SendCarriesUploads`, `FlagsBacked` |
| `vault_shared` | two clients, two keys, three operations, resets, one failed or unanswered request or crash: the refinement `ActsAsOneVault`, `HoldsWhatItNames`, `ChangeIsProved`, `OnlyOverlapLosesKeys` |
| `link_frames` | two connections, a channel on each, two units of output, four operations, a fault, one frame a task: `NobodyWaits`, `NothingTorn` (`OutputWhole`, `ExecWhole`), `NoStrayProcess` |
| `link_store` | two hosts, three connection ids, two dials at once, a curve of two attempts, three gestures, two faults: `OneSchedule`, `LearnsOfLoss`, `LeftStaysLeft`, `HealthyLinkKept`, `RecoveryEnds` |
| `link_disconnect` | finding: `DisconnectStays` fails |

An invariant in the table that is followed by names in brackets is their
conjunction, with the module's `TypeOK` where it has one; `HoldsWhatItNames`
and `FlagsBacked` include `TypeOK` as well.

Bounds.  Two devices give every conflict, because a round sees only the slot;
four writes allow a push, a conflict, a re-base and one more writer.  Three
generations let a late answer of one dial meet a second connection while a
third is dialled.  Two calls in flight plus the ladder give every pair of
public calls and the recovery.  `Retries = 2` reaches both the first attempt,
which does not wait, and a later one.  `MissLimit = 2` separates the first and
the last miss.  Two records and channels let an old one and its successor
coexist in a pool of one; four user calls, writes included, give attach,
detach, attach and write on each.  `MaxGeneration = 3` allows connected, lost,
connected again and a further loss under one send.  Two vault clients give
every conflict, since a client sees only the slots; three operations allow a
base, a rival and a follow-up.  Five composer gestures are a draft, a file, a
send and two moves of the session; parked and history limits of one make both
overflow.  Two output units suffice to lose, repeat or reorder one.  Two
attempts reach the first step of the curve, a later one and giving up; three
ids let a re-dial of a re-dialled link happen.

Fairness.  The steps that answer a started call (`RoundStep`, `Answer`, `Work`
and the like) are weakly fair: every platform call has a timeout or an error
answer, so a started call settles; the outcome stays free.  State events are
delivered.  User actions, network losses and host sessions are never fair.
`PortForwards` assumes besides that the client keeps calling
`scanAndReconcile`, as the panel's poll does, and that a failed port's
hold-down time passes.  `conn_ends` assumes the calm user, without which
`TerminalsRecovered` is false (section 4). `WorkspaceLink`: every dial is
answered by the platform (success, failure or its own timeout), timers fire and
events arrive; the user's answer to a host key is not assumed, so
`RecoveryEnds` excepts a recovery that waits for it. `LinkCapability`,
`KeyVault` and `ComposerStore` are checked for safety only.

Sockets.  A browser's WebSocket delivers each frame in a task of its own; the
`ws` that `linkCapability.ts:15` names for the desktop may deliver the frames
of one read in one task.  `OneFramePerTask` chooses between the two, and with
it whether a frame can be heard between the answer to an open and the
registration of its PTY (`linkCapability.ts:870-882`).  What `link_frames`
checks holds with `TRUE` only.

Reservations.  Some properties except situations in which the code itself gives
the property up.  Each is named by a history variable, is reached by the runs,
and is stated at the property; for those that go against what the repository
says, section 4 names the configuration in which TLC shows it.  The mutants
violate the properties outside the exceptions.

| Exception | Situation | Properties | Shown by |
| --- | --- | --- | --- |
| `crossed` (`WorkspaceLink`) | the user dials, or a link drops, across a recovery, a dial or a disconnect in progress | all but `LearnsOfLoss` and `DisconnectStays` | section 4 |
| a failed probe (`WorkspaceLink`) | only a failed resume probe is taken for a drop without the platform's word | `HealthyLinkKept` | `LinkProbe.cfg` |
| `early` (`WorkspaceLink`) | a link lost while its forwarding is being restored: `onState` drops the news, since the id is not the store's yet | `LearnsOfLoss` | section 4 |
| `dropped` (`Terminals`) | the PTY of a terminal the ladder dropped for want of a row in its listing | `PoolAccounts` | `TermOrphan.cfg` |
| `strayed` (`ComposerStore`) | a send went on or ended under a key that names another record by then | the four of `composer_store` | `ComposerHome.cfg` |
| `outdated` (`ComposerStore`) | the application stopped before a kill, rename or reconnect was saved, and started from the older save | `OwnText`, `WorkKept` | `ComposerForget.cfg` |
| `risked` (`ComposerStore`) | words written during a delivery of their session or by a panel in a browse, or set aside by a browse that text or a send ended | `WorkKept` | `ComposerLosses.cfg` |
| `Thrown` (`ComposerStore`) | the files of an upload the platform rejected | `SendCarriesUploads` | `ComposerUnsent.cfg` |
| `unhooked` (`ComposerStore`) | a batch a rename left under the old key was cancelled by another session, or missed by a send | `SendCarriesUploads`, `FlagsBacked` | `ComposerRename.cfg` |
| `excused` (`KeyVault`) | the slot was last written by a client whose header was not the one in force (another client wrote, or its own push was applied and not answered), while another client was at work on the key, or by a reset | `OnlyOverlapLosesKeys` | section 4 |
| `late` (`LinkCapability`) | the process behind an open that timed out | `NoStrayProcess` | section 4 |
| `OneFramePerTask` (`LinkCapability`) | see Sockets | the three of `link_frames` | `LinkBurst*.cfg` |

Some hazards are covered in part only; their `note` in `PROJECT.json` says what
is left.  `RoundEnds` in particular is about the answers of a round: the bound
on writes bounds the conflicts as well.

## 4. Where the code departs from its comments

Recorded as a finding, with a run:

* `link_disconnect`: `disconnect()` cancels the reconnect loop so that a
  recovery dial on the wire cannot undo it (`stores/connection.ts:478`), but
  the dial's `connect()` compares nothing and sets the new id and `connected`.

Configurations kept as counterexamples.  Each of these gives one property, one
that a comment of the repository states, and TLC finds it violated in the
MC module of the component.  They are not among the runs; the properties of the
runs except the situations they show (section 3).

* `TermOrphan.cfg` (`NoOrphanPty`): the ladder dials, awaits a listing and
  drops the terminals the listing lacks (`connectionController.ts:1397`,
  `1438-1446`).  While it waits the new connection is in use, so
  `attachSession` can give such a terminal a PTY; `removeTerminal` returns it
  "for the caller to close" (line 1508), and this caller does not.
* `ComposerHome.cfg` (`DraftStaysHome`): `send()` writes its result under the
  key it was called with, through `ensure()`, which makes a record where a
  kill, a rename or a reconnect removed one (`stores/composer.ts:868-877`); the
  next session of the name shows a killed session's prompt.
* `ComposerForget.cfg` (`ForgottenIsGone`): a kill is saved 250 ms later.  A
  stop in between leaves the killed session's draft to the next session of its
  name (line 1004).
* `ComposerLosses.cfg` (`OnlyDiscardLoses`): the end of a delivery replaces the
  draft whole, with what was typed meanwhile, although discard is "The ONLY
  user control that throws work away" (line 429); a browse that text or a send
  ends loses what it set aside.
* `ComposerUnsent.cfg` (`NoPromptWithoutItsFiles`): an upload that rejects
  leaves `error` null, and the prompt that waits for it goes out without its
  file (line 847, against 843-845).
* `ComposerRename.cfg` (`UploadIsAwaited`): a rename leaves a running upload
  under the old key, and the next send does not wait for it (line 943).
* `LinkBurstReads.cfg` (`NobodyWaits`) and `LinkBurstOutput.cfg`
  (`NothingTorn`): a PTY is registered after an await
  (`linkCapability.ts:870-882`); on a socket that hands over several frames in
  one task, the loss of the link or the first output is heard before that.  A
  read then waits on a lost link, or misses output.
* `LinkProbe.cfg` (`FirstNoticeWins`): the resume probe compares the state and
  not the id after its await (`stores/connection.ts:234-242`); when the drop it
  missed was heard and recovered before it fails, it has the new, working link
  closed and dialled again, against "whichever notice lands first wins" (line
  227).

Seen while modelling, reproduced by TLC with a property that is not kept:

* Connection, stale mutations: `createSession` and `killSession` start a
  reconnect for a failure observed on a superseded transport
  (`connectionController.ts:541`); the other operations ask
  `isCurrentGeneration` first, and the comment at line 1580 says that what is
  observed on a superseded generation "must not touch the phase or start
  another reconnect".
* Terminals, ended PTY: a terminal detached or attached again while its EOF is
  being judged leaves the ended channel open on the platform
  (`connectionController.ts:1305`).
* Vault, lock: `writeIndex` looks at the generation before it seals the index
  and pushes after it (`keyVault/store.ts:965-975`), so a lock in between does
  not stop the write; the comment at line 330 says "a lock always wins over
  in-flight work".
* Vault, overlap: the undo of a failed `addKey` and the drop of `removeKey` can
  delete a slot another client's index names meanwhile.
* Vault, verifier: the proof of a passphrase change whose publication failed
  lives in memory only (documented at `keyVault/store.ts:335`), and is set even
  when the vault was locked meanwhile.
* Composer store: a rejected stage leaves `uploadingCount` above zero; a prompt
  waiting for its upload across a reconnect is dropped without a word.
* Composer store, timeout: the 12 s timeout (`stores/composer.ts:861`) says Not
  sent while the delivery goes on.
* Connection store: a link that drops while forwarding is being restored is
  never learned of, since its id is not exposed yet; a loss heard while
  `disconnect()` awaits the close starts a loop that `cancel()` no longer
  stops; picking another host during a countdown leaves the loop running, and
  it re-dials the healthy link; a rejected close leaves the store as it was.
* Link transport: `DialAttempt.socket` is never assigned, so a failed dial does
  not close its socket (`linkCapability.ts:368`); an open that times out leaves
  the host's process running (hence `late` in `NoStrayProcess`); a second
  `closeConnection` reports closed again.
* Sync, lost answers: a push the service applied but whose answer was lost
  leaves its untick pending, so a host another device adds back is removed
  again; `docs/SYNC.md:159` calls an untick one-shot.  `UntickIsOneShot` fails
  with `LossyPush = TRUE` and holds with `FALSE`.
* Sync, degraded reads: `loadAccount` (`stores/sync.ts:105`) reads unreadable
  data as an empty account, which spends every pending untick (a write of the
  persisted selection); `docs/SYNC.md:27` says the degraded result "must not
  drive a write", and line 154 ties the tick rule to a clean pull.
* Connection, loss during recovery: a link lost again while the ladder still
  lists or re-attaches only joins the running ladder (`reconnectAndAttach`),
  which may end on the dead connection (`connectionController.ts:1399-1401`);
  the comment at line 1597 relies on the lost event to start recovery.  The
  `continue` at line 1400 is reached only if the phase is `reconnecting` while
  its own listing fails.
* Connection, supersession: a connect to the same host that reuses the fresh
  connection bumps the intent, and the ladder leaves the terminals without PTYs
  (`connectionController.ts:1398`, against line 1361, "re-attach EVERY open
  terminal").
* Connection, double acceptance: `acceptPresentedHostKey` called twice for one
  question can leave the phase at `connecting` after the second connect reused
  the connection of the first.
* Terminals, background: an attach, listing or write that fails after
  `enterBackground` overwrites the phase, and the next failure dials in the
  background (`connectionController.ts:1241`, against line 1356).
* Forwards: `setConnection` keeps `failedAt`, so a port that failed on the old
  connection is held down on the new one (`portForwardController.ts:106`); the
  comment at line 98 says "The next scan/reconcile recreates the wanted
  tunnels".
* Composer: a paste whose body write fails is left open
  (`composerSend.ts:429`), and the next prompt's Enter can fall inside it.

## 5. Proofs

TLAPS proves what follows for every value of the constants: any number of
devices, clients, hosts, sessions, channels, ports, sends, keys and ids, and
any bound.  Each module has one inductive invariant (`IInv`, or a name of its
own), shown to hold at `Init` and to be kept by every action; the properties of
the runs follow from it.  It was checked by TLC as an invariant of the module's
run before it was proved.

`AccountSyncProofs` - `TypeOK`, `PushBasis`, `RoundPartition` (together
`RoundIsSound`), `OnlyUntickRemoves`, `FieldsCarried`, `FailsClosed`, and
`UntickIsOneShot` under `~LossyPush`.  The inductive invariant is `TypeOK /\
SlotShape /\ PushBasis /\ RoundPartition`.  `SlotShape` is the strengthening:
`PushBasis` is not inductive over the deletion of an account, because base 0
stands both for "absent" and for "no version"; it needs that a present account
has a positive version and that a round with base 0 merged with nothing.  A
quiet step (`QuietStep`) and a step that replaces the slot (`SlotStep`) are
shown to preserve it once, and every action is one or the other, or
`PullClean`. `FailsClosed` needs in addition that a pending push uploads
something (`UploadsSomething`), `UntickIsOneShot` that a running round's
unticks are the persisted ones (`RoundUnticks`) and a spent untick is not
pending (`UnticksSpent`).

`ConnectionControllerProofs` - `TrustIsForHost`, `DialerAlone`, `NoOrphan`.
None is inductive: whether a late answer does harm depends on who else refers
to the generation it brings.  `OwnGen` says it: a generation that is being
dialled or rejected is its own call's alone, and one that is being closed is
not the current connection.  `OwnHost` ties a dial that may still take effect
to the host in hand and to the absence of a connection, which is `DialerAlone`;
`KeyVouched` and `TrustShape` say that every key in hand, pinned, trusted once
or asked about, was accepted for its host.  `LadderShape`, `CloseShape` and
`Named` are what the ladder, `close()` and a dial rely on between two awaits.
Every action is a step of at most two calls, and what it may do to the others
is stated once (`Apart`, `OthersKept`).

`TerminalsProofs` - `PoolAccounts`, `PumpServesPty`, `ReadInStep`,
`NothingAfterFailure`.  The invariant is `TypeOK`, `PoolBound`,
`OnlyDroppedOrphans` (no open channel is left behind but those of terminals the
ladder dropped after its listing) and four strengthenings: who has a PTY is in
the pool and served from it (`PtysServed`: pump, channel and read count agree,
and the channel has not failed); a terminal that an attach in flight will serve
has no PTY yet (`OpensBare`, without which a second attach would orphan the
first one's channel); only the terminals of the pool are ranked, and the pool
is finite (`PoolFinite`, which makes room after an eviction a fact about
cardinalities); and the bound on writes (`InputBound`).  Most actions only take
PTYs away and close channels (`PtysGo`), which is shown to be harmless once
(`QuietStep`); an attach that begins, an answer of `openPty` and a pump at work
have lemmas of their own.  `NothingAfterFailure` is carried along by every step
(`Kept`): the only action that sends asks whether the terminal still has the
channel, and by `PtysServed` a failed one is nobody's.

`PortForwardsProofs` - `TableInStep` (`Capacity`, `NoLeak`) and
`DropsAreEarned`.  The invariant adds what an operation relies on between two
awaits: every handle is of the connection in force (`OneConnection`), an open
in flight has a place under the ceiling (`JobShape`), and the absence counters,
those in force or those that replace them after the closes, count no more than
the scans in a row that missed the port (`CountsBacked`).

`ComposerProofs`, the store - `OwnText`, `WorkKept`, `SendCarriesUploads`,
`FlagsBacked` and `TypeOK`.  None of them is inductive: what a step may do to a
session's text depends on what the uploads and sends under way hold on to, a
key or a record object.  `StoreInv` has three parts that hold always: types
(`Types`); records in shape, with only pieces somebody wrote (`Shapes`); and
where uploads and sends are registered (`Links`).  The fourth, `Good`, holds
until a send strays, and its parts until the exception they concern: a record
has at most one send, which it knows of (`OneSend`).  Until a restart is
outdated, every record under a key is that of a live session (`Keyed`), and it,
the uploads on their way into it and the payloads being sent from it hold the
session's own pieces (`Owned`); a word owed and not at risk is in the draft, or
in what a browse set aside (`WordsHeld`), in the payload of its session's
delivery (`Sent`), so that the end of the delivery puts it back or shows it
delivered, and, if it was owed at the last save, in what a restart would load
(`WordsSaved`).  Until a batch is unhooked, the batch under a key is that of
the key's record (`Registered`), a send that waits finds its files in the
batch, in the record or behind the banner, and a prompt being delivered has
them (`Waits`, `Carries`), but for the files of rejected uploads; and a flag
that is up has its upload or send (`Flags`).  The gestures that edit one record
are writes that bring in only their own session's pieces and keep the words
owed, which is harmless once and for all (`WriteKeepsRecords`); rename, kill,
reconnect, upload, send, answer, save and restart have lemmas of their own.

`ComposerProofs`, the controller - `DeliveryTypeOK`, `ClearIsEarned`,
`OneGeneration`, `NotSentIsNothing`, `SentOnce`, `Serialized`, `EnterAfterBody`
(with `DeliveryTypeOK` and the two before it `PtyInOrder`). The inductive
invariant `DeliveryInv` says that only the head of the chain runs, that each
call's write count agrees with its phase and with the entries it left on the
PTY, that a call another one overtook is settled, and that every entry lies
behind the acknowledged prefix of its call.

`KeyVaultProofs` - `KeyVault` implements `AccountVault` (`ActsAsOneVault`),
`HoldsWhatItNames`, `OnlyOverlapLosesKeys`, `ChangeIsProved`, all under
`~VersionsRestart`: a slot that is created again goes on counting, so that a
version names one content.  This is what the compare-and-set of the service has
to mean; nothing in the repository proves it of the service, and the transport
of the unit tests (`tests/keyVault/memoryTransport.ts:29`) counts from 1 again.
The hypothesis is needed: with `VersionsRestart = TRUE` TLC finds
`HoldsWhatItNames`, `ActsAsOneVault` and `OnlyOverlapLosesKeys` violated in
`VaultShared` (a client that holds version 1 of a vault that was reset writes
over version 1 of the new one); `ChangeIsProved` still holds there. The
refinement maps the abstract vault to the header slot, and shows that `Init`
maps to `Init` and that every step maps to one operation of `AccountVault` or
to a stutter.  The step that matters is an accepted write: `Known(h)` says that
a header a client holds was in the slot once, is the one there now if their
versions agree, and has the passphrase of the slot if their wrappings agree;
hence an accepted push starts from the very header in the slot, and with
`PushIsMutation` it is the operation applied to the account's index.
`SlotsTracked` follows the key slots through the steps of one operation, up to
the situations `excused` names.

`LinkCapabilityProofs` - `NobodyWaits`, `NothingTorn`, `NoStrayProcess`, all
under `OneFramePerTask`, without which the first two are false
(`LinkBurstReads.cfg`, `LinkBurstOutput.cfg`).  The invariant is a condition on
one channel of one connection (`ChanInv`): its call, the host's process and the
two queues between them.  `Carries` is the heart of it: the units of a stream
in the queue run, in order, from the last one received to the last one written,
and the end of the process comes after all of them; so every frame taken or
lost at either end keeps the output whole.  `Ordered` gives the order of open,
answer, output and end on one channel, `Accounted` that a running process is
somebody's or is being closed, `Answered` that a link that is gone has answered
everybody.  Between the answer to an open and its PTY, where the client does
nothing else, the condition is stated of the call as it will be (`Shown`); when
the task is over it is a condition on the call itself (`AtRest`).

`WorkspaceLinkProofs` - `OneSchedule`, `LearnsOfLoss`, `LeftStaysLeft`,
`HealthyLinkKept`.  Two arguments meet.  `ScheduleOK`: a running recovery has
exactly one step, pending on the timer or on the wire, and every other dial or
a disconnect finds no recovery.  `EventsOK` and `ConnectedOK`: what a late
event says in favour of a link is true of the link or taken back by a later
event, so a store that shows `connected` has a link that is up or bad news of
it still to come; that is why dropping an event of another id loses nothing.
`HealthyLinkKept` is an action property.  It needs to know what a recovery
finds when it closes a link: `Health`, a second invariant on top of the first,
says that while a recovery runs the link in hand is not up or the step on the
wire is the one that closes it (`RecoveringOK`); it rests on bad news being of
links that are down (`NewsOK`) and on ids never being used twice (`OpenedOK`).

The assumptions are those named in the modules (`SyncAssumption`,
`ControllerAssumption`, `TerminalsAssumption`, `PortsAssumption`,
`DeliveryAssumption`, `StoreAssumption`, `VaultAssumption`, `LinkAssumption`,
`BoundsAssumption`): that the null values are none of the others, that bounds
are numbers and that limits are positive; TLC evaluates them in the runs.
`~LossyPush`, `~VersionsRestart` and `OneFramePerTask` are hypotheses of the
theorems that need them, stated there.

Only model-checked: the liveness properties (`RoundEnds`, `CloseReleases`,
`DialConcludes`, `TerminalsRecovered`, `IntentsSettle`, `SendsAnswered`,
`RecoveryEnds`), since fairness is outside the prover's reach.  Every invariant
and every safety action property of the passing runs is a theorem, some of them
under the hypotheses just named.

## 6. Plan

1. `SessionListing`: the sessions store, its optimistic rows and its poll.
2. `Dictation`, `HostWorkspaceRoots`, `SavedHosts`, `FilesStore`.
3. Pure algorithms against reference definitions: workspace tabs, session
   grouping, backoff.

## 7. Not modelled

See `components`.  The repository has some 77 000 lines of implementation; the
modules cover the parts that carry protocol state.  Most of the rest is
presentation (Vue components, terminal rendering, geometry, shortcuts), text
(parsers, matchers, formatting), cryptography, and a generated bundle
(`embed/pocketshell-core.js`), in which there is no interleaving to explore.
The stores and controllers still open are in the plan.  Out of scope for good:
cryptography and byte formats, text parsing and formatting, geometry,
rendering, settings with independent keys.  The sync service, the SSH library,
the PTY, `~/.ssh/config` and the user are external and modelled from how the
code uses them.
