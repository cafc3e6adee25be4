--------------------------- MODULE ComposerStore ---------------------------
(***************************************************************************)
(* The shared composer store: one record per session (draft, tiles, parked *)
(* tiles, banner, sent history), kept under the key connection/name and    *)
(* moved when a session is renamed or its connection is replaced.          *)
(* Uploads and sends run across awaits and capture the record object, the  *)
(* key, or both.  Text is a set of pieces: the words the user typed and    *)
(* the paths a failed send folded in.                                      *)
(*                                                                         *)
(* Source: packages/ui/src/app/stores/composer.ts and the hooks that call  *)
(* it (useComposerSend, useComposerVisibility, useSessionRename,           *)
(* useSessionStop).                                                        *)
(***************************************************************************)
EXTENDS Naturals, Sequences, SequencesExt, FiniteSets

CONSTANTS
    Sessions, NoSession,    \* sessions of the host, each alive at most once
    Names, Unborn, Gone,    \* session names
    MaxConns,               \* connection ids a host is given in turn
    Words, Files,           \* pieces the user types, files the user stages
    Recs, NoRec,            \* identities of record objects
    Batches, NoBatch,       \* identities of upload batches
    Sends,                  \* calls of send that can be under way
    NoText,                 \* recallSaved = null
    HistoryLimit, ParkedLimit,
    MaxCalls,               \* bound: user gestures
    MaxFaults               \* bound: uploads that throw, restarts

ASSUME StoreAssumption ==
    /\ {HistoryLimit, ParkedLimit, MaxConns} \subseteq Nat \ {0}
    /\ {MaxCalls, MaxFaults} \subseteq Nat
    /\ Sessions # {} /\ NoSession \notin Sessions
    /\ Names # {} /\ Unborn # Gone /\ {Unborn, Gone} \cap Names = {}
    /\ Words \cap Files = {} /\ IsFiniteSet(Files)
    /\ NoRec \notin Recs /\ NoBatch \notin Batches
    /\ \A T \in SUBSET (Words \cup Files) : T # NoText

VARIABLES
    name,       \* name[x]: the name session x has now
    conn,       \* the connection id in use
    states,     \* states[k]: the record object under key k
    rec,        \* rec[r]: its fields
    batches,    \* batches[k]: the batch registered under key k
    batch,      \* batch[b]: an upload; loose once its record's key is not its key
    sends,      \* sends[i]: a call of send
    layout,     \* mode, lastOpenMode, terminalOwnsTyping
    stored,     \* localStorage
    dirty,      \* persistTimer is running
    author,     \* author[p]: the session piece p was written or staged in
    owed,       \* words the user wrote and neither threw away nor saw delivered
    kept,       \* owed when the store was last persisted
    risked,     \* words written while a prompt of their session was being delivered or by
                \* a panel in a browse, or set aside by a browse that text or a send ended
    strayed,    \* a send went on or ended under a key that names another record by then
    unhooked,   \* a loose batch was cancelled by another session, or missed by a send
    outdated,   \* the application stopped before a kill, rename or reconnect was saved
    calls, faults

core == <<name, conn, states, rec, batches, batch, sends, layout, stored, dirty>>
ghosts == <<author, owed, kept, risked, strayed, unhooked, outdated>>
vars == <<core, ghosts, calls, faults>>

Keys == (1 .. MaxConns) \X Names
Pieces == Words \cup Files

\* One of a set of interchangeable identities.
First(S) == CHOOSE e \in S : TRUE

Blank == [draft |-> {}, attachments |-> {}, parked |-> {}, error |-> FALSE,
          sendInFlight |-> FALSE, uploading |-> FALSE, history |-> <<>>,
          recallSaved |-> NoText, recallIndex |-> 0]
IdleBatch == [phase |-> "idle", rec |-> NoRec, files |-> {}, cancel |-> FALSE, loose |-> FALSE]
IdleSend == [phase |-> "idle", key |-> <<>>, rec |-> NoRec, batch |-> NoBatch,
             payload |-> {}, wanted |-> {}]
FirstLayout == [mode |-> "docked", lastOpenMode |-> "docked", terminalOwnsTyping |-> FALSE]

\* A host with one session and no composer record yet.
Init == /\ name = [x \in Sessions |-> IF x = First(Sessions) THEN First(Names) ELSE Unborn]
        /\ conn = 1
        /\ states = [k \in Keys |-> NoRec]
        /\ rec = [r \in Recs |-> Blank]
        /\ batches = [k \in Keys |-> NoBatch]
        /\ batch = [b \in Batches |-> IdleBatch]
        /\ sends = [i \in Sends |-> IdleSend]
        /\ layout = FirstLayout
        /\ stored = [states |-> states, rec |-> rec, mode |-> "docked", lastOpenMode |-> "docked"]
        /\ dirty = FALSE
        /\ author = [p \in Pieces |-> NoSession]
        /\ owed = {}
        /\ kept = {}
        /\ risked = {}
        /\ strayed = FALSE
        /\ unhooked = FALSE
        /\ outdated = FALSE
        /\ calls = 0
        /\ faults = 0

-----------------------------------------------------------------------------
(* Records                                                                 *)

Live(x) == name[x] \in Names
KeyOf(x) == <<conn, name[x]>>

IdleSends == {i \in Sends : sends[i].phase = "idle"}
Referenced == {states[k] : k \in Keys} \cup {sends[i].rec : i \in Sends}
                \cup {batch[b].rec : b \in Batches}
FreshRec == First(Recs \ Referenced)

\* ensure(key): the record under the key, a blank one when there is none.
RecAt(k) == IF states[k] = NoRec THEN FreshRec ELSE states[k]
Record(k) == IF states[k] = NoRec THEN Blank ELSE rec[states[k]]
Put(k, s) == /\ states[k] # NoRec \/ ~ (Recs \subseteq Referenced)    \* bound: Recs
             /\ states' = [states EXCEPT ![k] = RecAt(k)]
             /\ rec' = [rec EXCEPT ![RecAt(k)] = s]

EndRecall(s) == [s EXCEPT !.recallSaved = NoText, !.recallIndex = 0]
Stash(s) == IF s.recallSaved = NoText THEN {} ELSE s.recallSaved

Held(s) == s.draft \cup Stash(s)

LastOnes(seq, n) == IF Len(seq) <= n THEN seq ELSE SubSeq(seq, Len(seq) - n + 1, Len(seq))
MergePaths(s, paths) == [s EXCEPT !.attachments = @ \cup paths]
Payload(s) == s.draft \cup s.attachments

\* The records that paths added to the parked list may leave: over the limit
\* the tiles that were there fall off before any of the new ones.
ParkPaths(s, paths) ==
    LET all == s.parked \cup paths
        added == paths \ s.parked
    IN IF Cardinality(all) <= ParkedLimit THEN {[s EXCEPT !.parked = all]}
       ELSE {[s EXCEPT !.parked = Q] :
               Q \in {T \in SUBSET all : /\ Cardinality(T) = ParkedLimit
                                         /\ added \subseteq T \/ T \subseteq added}}

SetMode(l, next) ==
    IF next = "hidden" THEN [l EXCEPT !.mode = next]
    ELSE [mode |-> next, lastOpenMode |-> next, terminalOwnsTyping |-> FALSE]

-----------------------------------------------------------------------------
(* Gestures.  A send whose upload has settled goes on before the next one: *)
(* its continuation is a microtask.                                        *)

Resumable(i) == sends[i].phase = "waiting" /\ batch[sends[i].batch].phase # "uploading"
Gesture == /\ calls < MaxCalls
           /\ calls' = calls + 1
           /\ ~ \E i \in Sends : Resumable(i)

Fresh(S) == {p \in S : author[p] = NoSession}
NewWord == First(Fresh(Words))

\* A record of session x is rewritten and the 250 ms timer armed.
Edit(x, s) == /\ Put(KeyOf(x), s)
              /\ dirty' = TRUE

Frame == UNCHANGED <<name, conn, batches, batch, sends, layout, stored, kept, strayed, unhooked,
                     outdated, faults>>

\* A prompt of the record under the key is being delivered.
Delivering(k) == \E i \in Sends : sends[i].phase = "delivering" /\ sends[i].rec = states[k]

Type(x) ==
    /\ Gesture
    /\ Live(x)
    /\ Fresh(Words) # {}
    /\ LET s == Record(KeyOf(x))
       IN /\ Edit(x, EndRecall([s EXCEPT !.draft = @ \cup {NewWord}, !.error = FALSE]))
          /\ risked' = risked \cup Stash(s) \cup (IF Delivering(KeyOf(x)) THEN {NewWord} ELSE {})
    /\ owed' = owed \cup {NewWord}
    /\ author' = [author EXCEPT ![NewWord] = x]
    /\ Frame

Erase(x) ==
    /\ Gesture
    /\ Live(x)
    /\ LET s == Record(KeyOf(x))
       IN /\ s.draft # {}
          /\ Edit(x, EndRecall([s EXCEPT !.draft = {}, !.error = FALSE]))
          /\ owed' = owed \ s.draft
          /\ risked' = risked \cup Stash(s)
    /\ UNCHANGED author
    /\ Frame

\* seedPrompt and prefillCommand: text added by a panel; a browse goes on.
Seed(x) ==
    /\ Gesture
    /\ Live(x)
    /\ Fresh(Words) # {}
    /\ LET s == Record(KeyOf(x))
       IN /\ Edit(x, [s EXCEPT !.draft = @ \cup {NewWord}, !.error = FALSE])
          /\ risked' = risked \cup (IF s.recallIndex # 0 \/ Delivering(KeyOf(x)) THEN {NewWord}
                                  ELSE {})
    /\ owed' = owed \cup {NewWord}
    /\ author' = [author EXCEPT ![NewWord] = x]
    /\ Frame

\* What becomes of the batch registered under a key, and of the files a
\* waiting send was to carry, when the key's work is thrown away.
CancelBatch(k) ==
    LET b == batches[k]
    IN /\ batch' = IF b = NoBatch THEN batch ELSE [batch EXCEPT ![b].cancel = TRUE]
       /\ unhooked' = (unhooked \/ (b # NoBatch /\ batch[b].loose))
       /\ sends' = [i \in Sends |-> IF sends[i].key = k THEN [sends[i] EXCEPT !.wanted = {}]
                                    ELSE sends[i]]

\* Mutant: the upload count is not reset.
Discard_KeepsCount(x) ==
    /\ Gesture
    /\ Live(x)
    /\ LET s == Record(KeyOf(x))
       IN /\ Edit(x, EndRecall([s EXCEPT !.draft = {}, !.attachments = {}, !.parked = {},
                                         !.error = FALSE]))
          /\ owed' = owed \ Held(s)
    /\ CancelBatch(KeyOf(x))
    /\ UNCHANGED <<name, conn, batches, layout, stored, author, kept, risked, strayed, outdated, faults>>

Discard(x) ==
    /\ Gesture
    /\ Live(x)
    /\ LET s == Record(KeyOf(x))
       IN /\ Edit(x, EndRecall([s EXCEPT !.draft = {}, !.attachments = {}, !.parked = {},
                                         !.error = FALSE, !.uploading = FALSE]))
          /\ owed' = owed \ Held(s)
    /\ CancelBatch(KeyOf(x))
    /\ UNCHANGED <<name, conn, batches, layout, stored, author, kept, risked, strayed, outdated, faults>>

DismissError(x) ==
    /\ Gesture
    /\ Live(x)
    /\ Record(KeyOf(x)).error
    /\ Put(KeyOf(x), [Record(KeyOf(x)) EXCEPT !.error = FALSE])
    /\ UNCHANGED <<dirty, author, owed, risked>>
    /\ Frame

RecallOlder(x) ==
    /\ Gesture
    /\ Live(x)
    /\ LET s == Record(KeyOf(x))
           at == IF s.recallIndex = 0 THEN Len(s.history) ELSE s.recallIndex - 1
       IN /\ at > 0
          /\ Edit(x, [s EXCEPT !.draft = s.history[at], !.recallIndex = at,
                               !.recallSaved = IF s.recallIndex = 0 THEN s.draft ELSE @])
    /\ UNCHANGED <<author, owed, risked>>
    /\ Frame

RecallNewer(x) ==
    /\ Gesture
    /\ Live(x)
    /\ LET s == Record(KeyOf(x))
           next == s.recallIndex + 1
       IN /\ s.recallIndex # 0
          /\ Edit(x, IF next <= Len(s.history)
                       THEN [s EXCEPT !.draft = s.history[next], !.recallIndex = next]
                       ELSE EndRecall([s EXCEPT !.draft = Stash(s)]))
    /\ UNCHANGED <<author, owed, risked>>
    /\ Frame

-----------------------------------------------------------------------------
(* Tiles and uploads                                                       *)

SeedAttachment(x) ==
    /\ Gesture
    /\ Live(x)
    /\ \E f \in Fresh(Files) :
          /\ Edit(x, MergePaths(Record(KeyOf(x)), {f}))
          /\ author' = [author EXCEPT ![f] = x]
    /\ UNCHANGED <<owed, risked>>
    /\ Frame

\* The tile's button is disabled while a send is in flight.
RemoveAttachment(x) ==
    /\ Gesture
    /\ Live(x)
    /\ LET s == Record(KeyOf(x))
       IN /\ ~ s.sendInFlight
          /\ \E f \in s.attachments :
                Edit(x, [s EXCEPT !.attachments = @ \ {f}])
    /\ UNCHANGED <<author, owed, risked>>
    /\ Frame

\* includeParked, discardParked: the next visit's offer is answered.
Unpark(x, include) ==
    /\ Gesture
    /\ Live(x)
    /\ LET s == Record(KeyOf(x))
       IN \E f \in s.parked :
            LET rest == [s EXCEPT !.parked = @ \ {f}]
            IN Edit(x, IF include THEN MergePaths(rest, {f}) ELSE rest)
    /\ UNCHANGED <<author, owed, risked>>
    /\ Frame

\* Batch c when its entry under key k is lost.
Loosened(c, k) == [batch[c] EXCEPT !.loose = @ \/ batches[k] = c]

IdleBatches == {b \in Batches : batch[b].phase = "idle"}

Stage(x) ==
    /\ Gesture
    /\ Live(x)
    /\ ~ Record(KeyOf(x)).uploading
    /\ IdleBatches # {}
    /\ \E F \in SUBSET Fresh(Files) : LET b == First(IdleBatches) IN
          /\ F # {}
          /\ batch' = [c \in Batches |->
                         IF c = b THEN [phase |-> "uploading", rec |-> RecAt(KeyOf(x)),
                                        files |-> F, cancel |-> FALSE, loose |-> FALSE]
                         ELSE Loosened(c, KeyOf(x))]
          /\ batches' = [batches EXCEPT ![KeyOf(x)] = b]
          /\ author' = [p \in Pieces |-> IF p \in F THEN x ELSE author[p]]
    /\ Put(KeyOf(x), [Record(KeyOf(x)) EXCEPT !.uploading = TRUE, !.error = FALSE])
    /\ UNCHANGED <<name, conn, sends, layout, stored, dirty, owed, kept, risked, strayed, unhooked,
                   outdated, faults>>

\* The stager answers: some of the files are on the host, an error when not
\* all.  A cancelled batch lands silently; one that lands behind a closed
\* card with nothing typed is parked.
UploadLands(b) ==
    /\ batch[b].phase = "uploading"
    /\ batches' = [k \in Keys |-> IF batches[k] = b THEN NoBatch ELSE batches[k]]
    /\ batch' = [batch EXCEPT ![b] = IdleBatch]
    /\ LET r == batch[b].rec
           parks == layout.mode = "hidden" /\ rec[r].draft = {}
       IN \E P \in SUBSET batch[b].files :
            LET s == [rec[r] EXCEPT !.uploading = FALSE,
                                    !.error = @ \/ P # batch[b].files]
            IN IF batch[b].cancel
                 THEN UNCHANGED <<rec, dirty, sends>>
                 ELSE /\ \E t \in IF parks THEN ParkPaths(s, P) ELSE {MergePaths(s, P)} :
                            rec' = [rec EXCEPT ![r] = t]
                      /\ dirty' = TRUE
                      /\ sends' = IF ~ parks THEN sends
                                  ELSE [i \in Sends |-> [sends[i] EXCEPT !.wanted = @ \ P]]
    /\ UNCHANGED <<name, conn, states, layout, stored, ghosts, calls, faults>>

\* The stager rejects: done is settled, and that is all.  No banner goes up.
UploadThrows(b) ==
    /\ faults < MaxFaults
    /\ faults' = faults + 1
    /\ batch[b].phase = "uploading"
    /\ batch' = [batch EXCEPT ![b].phase = "thrown"]
    /\ UNCHANGED <<name, conn, states, rec, batches, sends, layout, stored, dirty, ghosts, calls>>

-----------------------------------------------------------------------------
(* Send                                                                    *)

\* The uploads on their way into a record.
OnTheWay(r) == {b \in Batches : /\ batch[b].phase = "uploading"
                                /\ batch[b].rec = r
                                /\ ~ batch[b].cancel}
FilesOf(bs) == UNION {batch[b].files : b \in bs}

Begin(i, k, r, payload, wanted) ==
    sends' = [sends EXCEPT ![i] = [phase |-> "delivering", key |-> k, rec |-> r,
                                   batch |-> NoBatch, payload |-> payload, wanted |-> wanted]]

Send(x) ==
    /\ Gesture
    /\ Live(x)
    /\ IdleSends # {}
    /\ ~ Record(KeyOf(x)).sendInFlight
    /\ LET k == KeyOf(x)
           r == RecAt(k)
           s == Record(k)
           b == batches[k]
           i == First(IdleSends)
       IN /\ IF b # NoBatch
               THEN sends' = [sends EXCEPT ![i] = [phase |-> "waiting", key |-> k, rec |-> r,
                                  batch |-> b, payload |-> {}, wanted |-> FilesOf(OnTheWay(r))]]
               ELSE /\ Payload(s) # {}
                    /\ Begin(i, k, r, Payload(s), FilesOf(OnTheWay(r)))
          /\ Put(k, [s EXCEPT !.sendInFlight = TRUE, !.error = @ /\ b # NoBatch])
          /\ risked' = risked \cup (IF b = NoBatch THEN Stash(s) ELSE {})
          /\ unhooked' = (unhooked \/ \E c \in OnTheWay(r) : batch[c].loose)
    /\ UNCHANGED <<name, conn, batches, batch, layout, stored, dirty, author, owed, kept, strayed,
                   outdated, faults>>

\* The batch is done: a banner stops the send, and the payload is composed
\* now from whatever record the key names.
SendResumes(i) ==
    /\ Resumable(i)
    /\ LET k == sends[i].key
           r == sends[i].rec
           goes == ~ rec[r].error /\ Payload(Record(k)) # {}
       IN /\ IF goes THEN Begin(i, k, r, Payload(Record(k)), sends[i].wanted)
             ELSE sends' = [sends EXCEPT ![i] = IdleSend]
          /\ rec' = [rec EXCEPT ![r].sendInFlight = goes]
          /\ risked' = risked \cup (IF goes THEN Stash(Record(k)) ELSE {})
          /\ strayed' = (strayed \/ states[k] # r)
    /\ UNCHANGED <<name, conn, states, batches, batch, layout, stored, dirty, author, owed, kept,
                   unhooked, outdated, calls, faults>>

\* recordSent: a payload has one place in the history, the newest.
Without(seq, e) == IF e \in ToSet(seq) THEN RemoveAt(seq, CHOOSE i \in DOMAIN seq : seq[i] = e)
                   ELSE seq
RecordSent(s, payload) ==
    [s EXCEPT !.history = LastOnes(Append(Without(@, payload), payload), HistoryLimit)]
MarkDelivered(s) ==
    EndRecall([s EXCEPT !.draft = {}, !.attachments = {}, !.error = FALSE, !.uploading = FALSE])
RestoreFailedSend(s, payload) ==
    EndRecall([s EXCEPT !.draft = payload, !.attachments = {}, !.error = TRUE,
                        !.sendInFlight = FALSE])

\* deliver answers, or its 12 s pass (a failure, whatever still arrives).
\* The draft is replaced whole, whatever was typed since.
Answered(i, ok, closeOnDelivery) ==
    /\ sends[i].phase = "delivering"
    /\ LET k == sends[i].key
           r == sends[i].rec
           payload == sends[i].payload
           cleared == [rec EXCEPT ![r].sendInFlight = FALSE]
           s == IF states[k] = NoRec THEN Blank ELSE cleared[states[k]]
           opened == IF layout.mode = "hidden" THEN SetMode(layout, layout.lastOpenMode) ELSE layout
       IN /\ states[k] # NoRec \/ ~ (Recs \subseteq Referenced)
          /\ states' = [states EXCEPT ![k] = RecAt(k)]
          /\ rec' = [cleared EXCEPT ![RecAt(k)] = IF ok THEN MarkDelivered(RecordSent(s, payload))
                                                  ELSE RestoreFailedSend(s, payload)]
          /\ layout' = IF ~ ok THEN layout
                       ELSE IF closeOnDelivery THEN SetMode(opened, "hidden") ELSE opened
          /\ owed' = IF ok THEN owed \ payload ELSE owed
          /\ strayed' = (strayed \/ states[k] # r)
    /\ sends' = [sends EXCEPT ![i] = IdleSend]
    /\ dirty' = TRUE
    /\ UNCHANGED <<name, conn, batches, batch, stored, author, kept, risked, unhooked, outdated, calls,
                   faults>>

-----------------------------------------------------------------------------
(* Closing and opening the card                                            *)

CanFlush(s) == /\ \E w \in Words : s.draft = {w}
               /\ s.attachments = {}
               /\ ~ s.error /\ ~ s.sendInFlight /\ ~ s.uploading

\* hideComposer: a short draft goes to the pane (when there is one), tiles
\* with nothing typed are parked, and the card closes.
Hide(x, flush) ==
    /\ Gesture
    /\ Live(x)
    /\ layout.mode # "hidden"
    /\ LET s == Record(KeyOf(x))
           moved == flush /\ CanFlush(s)
       IN /\ flush => CanFlush(s)
          /\ \E t \in ParkPaths(s, s.attachments) :
                Put(KeyOf(x), IF moved THEN EndRecall([s EXCEPT !.draft = {}])
                              ELSE IF s.draft = {} THEN [t EXCEPT !.attachments = {}]
                              ELSE s)
          /\ layout' = SetMode([layout EXCEPT !.terminalOwnsTyping = @ \/ moved], "hidden")
          /\ owed' = IF moved THEN owed \ s.draft ELSE owed
          /\ risked' = risked \cup (IF moved THEN Stash(s) ELSE {})
    /\ dirty' = TRUE
    /\ UNCHANGED <<name, conn, batches, batch, sends, stored, author, kept, strayed, unhooked, outdated,
                   faults>>

\* toggleHidden, grow, shrink and the outside click.
ChangeMode(next) ==
    /\ Gesture
    /\ next # layout.mode
    /\ layout.mode = "hidden" => next \in {"docked", layout.lastOpenMode}
    /\ layout' = SetMode(layout, next)
    /\ dirty' = TRUE
    /\ UNCHANGED <<name, conn, states, rec, batches, batch, sends, stored, ghosts, faults>>

-----------------------------------------------------------------------------
(* Sessions and connections                                                *)

FreeName(n) == \A x \in Sessions : name[x] # n

Create(x, n) ==
    /\ Gesture
    /\ name[x] = Unborn
    /\ FreeName(n)
    /\ name' = [name EXCEPT ![x] = n]
    /\ UNCHANGED <<conn, states, rec, batches, batch, sends, layout, stored, dirty, ghosts, faults>>

\* Mutant: the old key keeps the record too.
Rename_Copies(x, n) ==
    /\ Gesture
    /\ Live(x)
    /\ FreeName(n)
    /\ name' = [name EXCEPT ![x] = n]
    /\ states' = [states EXCEPT ![<<conn, n>>] = states[KeyOf(x)]]
    /\ dirty' = TRUE
    /\ UNCHANGED <<conn, rec, batches, batch, sends, layout, stored, ghosts, faults>>

\* adoptRenamedSession, rekey: the record moves, a batch stays.
Rename(x, n) ==
    /\ Gesture
    /\ Live(x)
    /\ FreeName(n)
    /\ name' = [name EXCEPT ![x] = n]
    /\ batch' = [c \in Batches |-> Loosened(c, KeyOf(x))]
    /\ LET from == KeyOf(x)
       IN IF states[from] = NoRec THEN UNCHANGED <<states, dirty>>
          ELSE /\ states' = [states EXCEPT ![<<conn, n>>] = states[from], ![from] = NoRec]
               /\ dirty' = TRUE
    /\ UNCHANGED <<conn, rec, batches, sends, layout, stored, ghosts, faults>>

\* A kill: forget.
Kill(x) ==
    /\ Gesture
    /\ Live(x)
    /\ name' = [name EXCEPT ![x] = Gone]
    /\ states' = [states EXCEPT ![KeyOf(x)] = NoRec]
    /\ dirty' = (dirty \/ states[KeyOf(x)] # NoRec)
    /\ owed' = {w \in owed : author[w] # x}
    /\ CancelBatch(KeyOf(x))
    /\ UNCHANGED <<conn, rec, batches, layout, stored, author, kept, risked, strayed, outdated, faults>>

\* Mutant: batches stay under the old connection id.
Reconnect_LeavesBatches ==
    /\ Gesture
    /\ conn < MaxConns
    /\ conn' = conn + 1
    /\ states' = [k \in Keys |-> IF k[1] = conn THEN NoRec
                                 ELSE IF k[1] = conn + 1 THEN states[<<conn, k[2]>>] ELSE states[k]]
    /\ dirty' = TRUE
    /\ UNCHANGED <<name, rec, batches, batch, sends, layout, stored, ghosts, faults>>

\* The host is dialled again: rekeyConnection carries records and batches to
\* the new connection id.
Reconnect ==
    /\ Gesture
    /\ conn < MaxConns
    /\ conn' = conn + 1
    /\ LET Carried(f, none) == [k \in Keys |-> IF k[1] = conn THEN none
                                               ELSE IF k[1] = conn + 1 /\ f[<<conn, k[2]>>] # none
                                               THEN f[<<conn, k[2]>>] ELSE f[k]]
       IN /\ states' = Carried(states, NoRec)
          /\ batches' = Carried(batches, NoBatch)
    /\ dirty' = TRUE
    /\ UNCHANGED <<name, rec, batch, sends, layout, stored, ghosts, faults>>

-----------------------------------------------------------------------------
(* Persistence                                                             *)

Saved(s) == s.draft # {} \/ s.attachments # {} \/ s.parked # {} \/ s.history # <<>>

PersistNow ==
    /\ dirty
    /\ dirty' = FALSE
    /\ LET saved == {k \in Keys : states[k] # NoRec /\ Saved(rec[states[k]])}
       IN stored' = [states |-> [k \in Keys |-> IF k \in saved THEN states[k] ELSE NoRec],
                     rec |-> [r \in Recs |-> IF \E k \in saved : states[k] = r
                                             THEN [rec[r] EXCEPT !.error = FALSE, !.recallIndex = 0,
                                                     !.sendInFlight = FALSE, !.uploading = FALSE]
                                             ELSE Blank],
                     mode |-> layout.mode, lastOpenMode |-> layout.lastOpenMode]
    /\ kept' = owed
    /\ UNCHANGED <<name, conn, states, rec, batches, batch, sends, layout, author, owed, risked,
                   strayed, unhooked, outdated, calls, faults>>

\* Mutant: the recalled prompt is restored as the draft.
Loaded_Recalled(s) == EndRecall(s)

\* loadPersisted: a draft set aside by a browse is the draft again.
Loaded(s) == EndRecall([s EXCEPT !.draft = IF s.recallSaved = NoText THEN @ ELSE s.recallSaved])

\* Everything a record holds.
Contents(s) == Held(s) \cup s.attachments \cup s.parked \cup UNION ToSet(s.history)
HeldFor(st, rc, k) == IF st[k] = NoRec THEN {} ELSE Contents(rc[st[k]])

\* The application stops and starts again, from a save that may be 250 ms old:
\* a kill, rename or reconnect since then is not in it.
Restart ==
    /\ faults < MaxFaults
    /\ faults' = faults + 1
    /\ states' = stored.states
    /\ rec' = [r \in Recs |-> Loaded(stored.rec[r])]
    /\ batches' = [k \in Keys |-> NoBatch]
    /\ batch' = [b \in Batches |-> IdleBatch]
    /\ sends' = [i \in Sends |-> IdleSend]
    /\ layout' = [mode |-> stored.mode, lastOpenMode |-> stored.lastOpenMode,
                  terminalOwnsTyping |-> FALSE]
    /\ dirty' = FALSE
    /\ owed' = owed \cap kept
    /\ outdated' = (outdated \/ \E k \in Keys : \E p \in HeldFor(stored.states, stored.rec, k) :
                                   ~ (Live(author[p]) /\ KeyOf(author[p]) = k))
    /\ UNCHANGED <<name, conn, stored, author, kept, risked, strayed, unhooked, calls>>

-----------------------------------------------------------------------------
Next ==
    \/ \E b \in Batches : UploadLands(b) \/ UploadThrows(b)
    \/ \E i \in Sends : SendResumes(i)
    \/ \E i \in Sends, ok, close \in BOOLEAN : Answered(i, ok, close)
    \/ \E x \in Sessions : Type(x) \/ Erase(x) \/ Seed(x) \/ Discard(x) \/ DismissError(x)
    \/ \E x \in Sessions : RecallOlder(x) \/ RecallNewer(x)
    \/ \E x \in Sessions : SeedAttachment(x) \/ RemoveAttachment(x) \/ Stage(x)
    \/ \E x \in Sessions, b \in BOOLEAN : Unpark(x, b) \/ Hide(x, b)
    \/ \E x \in Sessions : Send(x) \/ Kill(x)
    \/ \E x \in Sessions, n \in Names : Create(x, n) \/ Rename(x, n)
    \/ \E m \in {"hidden", "docked", "expanded"} : ChangeMode(m)
    \/ Reconnect
    \/ PersistNow
    \/ Restart

Spec == Init /\ [][Next]_vars

-----------------------------------------------------------------------------
(* Properties                                                              *)

TypeOK ==
    /\ name \in [Sessions -> Names \cup {Unborn, Gone}]
    /\ conn \in 1 .. MaxConns
    /\ states \in [Keys -> Recs \cup {NoRec}]
    /\ \A r \in Recs : /\ rec[r].draft \subseteq Pieces
                       /\ rec[r].attachments \cup rec[r].parked \subseteq Files
                       /\ Cardinality(rec[r].parked) <= ParkedLimit
                       /\ Len(rec[r].history) <= HistoryLimit
                       /\ IsInjective(rec[r].history)
                       /\ rec[r].recallIndex <= Len(rec[r].history)
    /\ batches \in [Keys -> Batches \cup {NoBatch}]
    /\ layout.mode \in {"hidden", "docked", "expanded"}
    /\ layout.lastOpenMode \in {"docked", "expanded"}
    /\ owed \subseteq Words

\* No text, tile or sent prompt shows up in a session it was not written in,
\* through renames, kills and reused names, reconnects, restarts and uploads
\* that land late.  It says nothing once a send has gone on or ended under a
\* key that names another record by then (strayed), nor once the application
\* started from a save older than a kill, rename or reconnect (outdated).
OwnText ==
    strayed \/ outdated \/ \A x \in Sessions : Live(x) =>
        \A p \in HeldFor(states, rec, KeyOf(x)) : author[p] = x

\* Work is never lost: every word the user wrote, has not discarded, deleted or
\* handed to the pane, whose session he has not stopped and which he has not
\* seen delivered, is in its session's draft, or set aside by a browse of the
\* history; also after a restart, as of the last save.  Not so for the words
\* `risked`: a send that ends replaces the draft whole, what was typed since
\* included, and what a browse set aside is dropped when text or a send ends
\* it.  Nor once a send strayed or a restart was outdated (see OwnText).
WorkKept ==
    strayed \/ outdated \/ \A w \in owed \ risked :
        Live(author[w]) /\ w \in Held(Record(KeyOf(author[w])))

\* A prompt sent while its files are being uploaded carries them, unless the
\* user discarded them or closed the card over them meanwhile: but for the
\* files of an upload the platform rejected, and unless a send missed the
\* batch, or another session cancelled it, because a rename left it under the
\* old key (unhooked), or a send strayed (see OwnText).
Thrown == UNION {batch[b].files : b \in {c \in Batches : batch[c].phase = "thrown"}}
SendCarriesUploads ==
    strayed \/ unhooked \/ \A i \in Sends : sends[i].phase = "delivering" =>
                                             sends[i].wanted \ Thrown \subseteq sends[i].payload

\* A composer that refuses to stage or to send because one is under way has
\* one under way: no flag is left behind by a cancel, a failure, a rename, a
\* reconnect or a restart.  (A batch that threw keeps its flag.)  Not so once a
\* send strayed or a batch was unhooked: one that another session cancelled
\* leaves its own session's flag up.
FlagsBacked ==
    /\ TypeOK
    /\ \/ strayed \/ unhooked
       \/ \A k \in Keys : states[k] # NoRec =>
            /\ rec[states[k]].uploading =>
                  \E b \in Batches : /\ batch[b].rec = states[k]
                                     /\ batch[b].phase \in {"uploading", "thrown"}
                                     /\ ~ batch[b].cancel
            /\ rec[states[k]].sendInFlight =>
                  \E i \in Sends : sends[i].rec = states[k]

-----------------------------------------------------------------------------
(* What the comments of the store say without these exceptions.            *)

\* rekey's comment: a draft never appears in a session it was not authored in.
DraftStaysHome ==
    \A x \in Sessions : Live(x) => \A p \in Record(KeyOf(x)).draft : author[p] = x

\* forget's comment: what a killed session's record held is not handed to the
\* next session that takes its name.
ForgottenIsGone ==
    strayed \/ \A x \in Sessions : Live(x) =>
                  \A p \in HeldFor(states, rec, KeyOf(x)) : Live(author[p])

\* discard's comment: it is the only control of the user's that throws work
\* away, so no send and no browse does.
OnlyDiscardLoses ==
    strayed \/ outdated \/ \A w \in owed :
        Live(author[w]) /\ w \in Held(Record(KeyOf(author[w])))

\* send's comment: a prompt is not sent without the upload it was written about.
NoPromptWithoutItsFiles ==
    strayed \/ unhooked \/ \A i \in Sends : sends[i].phase = "delivering" =>
                                             sends[i].wanted \subseteq sends[i].payload

\* send's comment: it waits for the upload under way, then sends.
UploadIsAwaited ==
    strayed \/ \A i \in Sends : sends[i].phase = "delivering" =>
                                 sends[i].wanted \ Thrown \subseteq sends[i].payload
=============================================================================
