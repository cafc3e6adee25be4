--------------------------- MODULE KeyVaultProofs ---------------------------
(***************************************************************************)
(* The guarantees of KeyVault for any number of clients, vaults, keys and  *)
(* hosts, on a service whose versions do not restart: the refinement of    *)
(* AccountVault, and the three properties beside it.                       *)
(*                                                                         *)
(* The argument is about names.  A version names one content of the slot,  *)
(* a wrapping (check) names one passphrase.  Known(h) says that a header   *)
(* a client has in hand respects both; every write that is accepted then   *)
(* starts from the very header in the slot.                                *)
(***************************************************************************)
EXTENDS KeyVault, TLAPS

\* A header that was in the slot once.
Written(h) ==
    /\ h.vault \in used /\ h.version \in 1..last
    /\ h.check \in Check /\ h.check[2] <= last

\* It is the one in the slot if its version says so, and has its passphrase
\* if its wrapping says so.
Agrees(h) ==
    /\ h.version = header.version => h = header
    /\ h.check = header.check => h.phrase = header.phrase

Known(h) == Written(h) /\ Agrees(h)

\* Where an operation relies on the header held, and on the header seen.
Holding == {"index", "push", "rebase", "look", "blob", "undo", "drop", "rewrap",
            "repush", "republish", "refresh"}
Seeing(o) == \/ o.pc \in {"check", "publish", "rewrap", "repush"}
             \/ o.pc = "rebase" /\ o.kind = "changePassphrase"

\* What follows is about an operation o of a client that holds header h.

HeldIsKnown(o, h, unlocked) ==
    /\ h = NoHeader \/ Known(h)
    /\ unlocked \/ o.pc \in Holding => h # NoHeader
    /\ Seeing(o) => Known(o.seen)

\* The arguments of a call, and the kinds each point of control belongs to.
Arguments(o) ==
    /\ o.kind \in {"addKey", "removeKey", "rotateKey", "bindHost"} => o.key \in Keys
    /\ o.kind = "rotateKey" => o.key2 \in Keys
    /\ o.kind \in {"bindHost", "unbindHost"} => o.host \in Hosts
    /\ o.kind \in {"createVault", "resetVault"} => o.phrase \in Phrases
    /\ o.kind = "changePassphrase" => o.next \in Phrases
    /\ o.kind = "createVault" => o.index.keys = {}

Points(o) ==
    /\ o.pc \in {"index", "push"} => o.kind \in IndexKinds
    /\ o.pc = "rebase" => o.kind \in IndexKinds \union {"changePassphrase"}
    /\ o.pc = "rebase" /\ o.kind = "addKey" => o.doubt
    /\ o.pc \in {"look", "blob", "undo"} => o.kind = "addKey"
    /\ o.pc = "undo" => ~o.existed
    /\ o.pc = "look" => o.existed
    /\ o.pc = "drop" => o.kind \in {"removeKey", "rotateKey"}
    /\ o.pc \in {"rewrap", "repush", "republish"} => o.kind = "changePassphrase"
    /\ o.pc \in {"status", "list", "wipe", "again"} => o.kind = "resetVault"
    /\ o.pc \in {"fresh", "publish"} => o.kind \in {"createVault", "resetVault"}
    /\ o.pc \in {"status", "list", "wipe", "again", "fresh"} => o.index.keys = {}
    /\ o.pc \in {"pull", "check"} => o.kind \in {"unlock", "unlockRemembered"}
    /\ o.pc = "idle" => o.kind = "none"

OpShape(o) == Arguments(o) /\ Points(o)

\* What is about to be pushed is the operation applied to the index held.
PushIsMutation(o, h) ==
    o.pc = "push" =>
        o.index = Mutated(o, h.index) /\ ~Refuses(o, h.index) /\ ~Skips(o, h.index)

\* A passphrase change proved the wrapping it replaces.
ChangeProved(o, h) ==
    /\ Seeing(o) /\ o.kind = "changePassphrase" => o.phrase = o.seen.phrase
    /\ o.pc = "repush" => h.check = o.seen.check

\* A slot about to be deleted is not named by the index held, unless in
\* doubt; a slot just written is there when its key is recorded.
SlotsTracked(o, h) ==
    /\ o.pc = "drop" => o.key \notin h.index.keys
    /\ /\ o.kind = "addKey" /\ o.pc \in {"blob", "index", "push", "rebase", "undo"}
       /\ ~o.existed /\ ~o.doubt
       => o.key \notin h.index.keys
    /\ /\ o.kind = "addKey" /\ o.pc \in {"index", "push", "rebase"}
       /\ header.vault = h.vault
       => blob[o.key] = header.vault \/ o.key \in excused

ClientOK(o, h, unlocked) ==
    /\ HeldIsKnown(o, h, unlocked) /\ OpShape(o) /\ PushIsMutation(o, h)
    /\ ChangeProved(o, h) /\ SlotsTracked(o, h)

ClientInv(c) == ClientOK(op[c], held[c].head, open[c])

SlotInv == header = NoHeader \/ Written(header)

IInv == /\ TypeOK /\ SlotInv /\ OnlyOverlapLosesKeys
        /\ \A c \in Clients : ClientInv(c)

-----------------------------------------------------------------------------
\* Operators.

LEMMA EmptyIndexType == Account!EmptyIndex \in Account!Index /\ Account!EmptyIndex.keys = {}
  BY DEF Account!EmptyIndex, Account!Index

LEMMA NoHeaderType == NoHeader \in Header
  BY EmptyIndexType DEF NoHeader, Header

LEMMA NoOpType == NoOp \in Op /\ OpShape(NoOp)
  BY EmptyIndexType, NoHeaderType, VaultAssumption
  DEF NoOp, Op, OpShape, Arguments, Points, Kinds, IndexKinds, Pcs

\* An operation turns an index into an index.
LEMMA MutatedType ==
    ASSUME NEW o \in Op, OpShape(o), o.kind \in IndexKinds, NEW i \in Account!Index
    PROVE  Mutated(o, i) \in Account!Index
<1>1. CASE o.kind = "addKey"
  BY <1>1 DEF Mutated, OpShape, Arguments, Account!WithKey, Account!Index
<1>2. CASE o.kind = "removeKey"
  BY <1>2 DEF Mutated, OpShape, Arguments, Account!WithoutKey, Account!Index
<1>3. CASE o.kind = "rotateKey"
  BY <1>3 DEF Mutated, OpShape, Arguments, Account!Rotated, Account!Index
<1>4. CASE o.kind = "bindHost"
  BY <1>4 DEF Mutated, OpShape, Arguments, Account!Bound, Account!Index
<1>5. CASE o.kind = "unbindHost"
  BY <1>5 DEF Mutated, OpShape, Arguments, Account!Bound, Account!Index
<1>6. CASE o.kind = "setSyncPassphrase"
  BY <1>6 DEF Mutated, Op, Account!WithSync, Account!Index
<1>. QED
  BY <1>1, <1>2, <1>3, <1>4, <1>5, <1>6 DEF IndexKinds

\* Unless refused or skipped, it is an Edit of the abstract vault; only
\* addKey adds a key, and the key a removal or rotation names is gone.
LEMMA MutatedKeys ==
    ASSUME NEW o \in Op, OpShape(o), o.kind \in IndexKinds, NEW i \in Account!Index
    PROVE  /\ o.kind = "addKey" => Mutated(o, i).keys = i.keys \union {o.key}
           /\ o.kind # "addKey" => Mutated(o, i).keys \subseteq i.keys
           /\ o.kind \in {"removeKey", "rotateKey"} => o.key \notin Mutated(o, i).keys
<1>1. CASE o.kind = "addKey"
  BY <1>1 DEF Mutated, OpShape, Arguments, Account!WithKey, Account!Index
<1>2. CASE o.kind = "removeKey"
  BY <1>2 DEF Mutated, OpShape, Arguments, Account!WithoutKey, Account!Index
<1>3. CASE o.kind = "rotateKey"
  BY <1>3 DEF Mutated, OpShape, Arguments, Account!Rotated, Account!Index
<1>4. CASE o.kind = "bindHost"
  BY <1>4 DEF Mutated, OpShape, Arguments, Account!Bound, Account!Index
<1>5. CASE o.kind = "unbindHost"
  BY <1>5 DEF Mutated, OpShape, Arguments, Account!Bound, Account!Index
<1>6. CASE o.kind = "setSyncPassphrase"
  BY <1>6 DEF Mutated, Op, Account!WithSync, Account!Index
<1>. QED
  BY <1>1, <1>2, <1>3, <1>4, <1>5, <1>6 DEF IndexKinds

-----------------------------------------------------------------------------
\* Steps.

\* The types of what a client has.
LEMMA ClientTypes ==
    ASSUME IInv, NEW c \in Clients
    PROVE  /\ op[c] \in Op /\ held[c].head \in Header /\ open[c] \in BOOLEAN
           /\ held[c] \in [head : Header, auth : Check \union {NoCheck}]
           /\ held[c].head.index \in Account!Index /\ op[c].index \in Account!Index
           /\ header \in Header /\ header.index \in Account!Index
           /\ ClientOK(op[c], held[c].head, open[c]) /\ OpShape(op[c])
  BY DEF IInv, TypeOK, Op, Header, ClientInv, ClientOK

\* The types of the variables the invariant says nothing else about.
OtherTypes ==
    /\ verifier \in Check \union {NoCheck} /\ epoch \in Nat
    /\ pending \in [Clients -> [auth : Check \union {NoCheck}, current : Check \union {NoCheck}]]
    /\ remember \in [Clients -> [vault : Vaults \union {NoVault}, epoch : Nat,
                                  auth : Check \union {NoCheck}]]
    /\ calls \in 0..MaxCalls /\ faults \in 0..MaxFaults

HeldType == [head : Header, auth : Check \union {NoCheck}]

\* The ways the header slot changes: not at all, by a write that counts the
\* version on and keeps the wrapping or makes a new one, by a deletion.
HeaderStep ==
    \/ UNCHANGED <<header, last, used>>
    \/ /\ last' = last + 1 /\ used \subseteq used' /\ used' \subseteq Vaults
       /\ header' \in Header /\ header'.version = last'
       /\ header'.vault \in used' /\ header'.check \in Check /\ header'.check[2] <= last'
       /\ \/ header'.check = header.check /\ header'.phrase = header.phrase
          \/ header'.check[2] = last'
       /\ header'.vault = header.vault \/ header'.vault \notin used
    \/ header' = NoHeader /\ UNCHANGED <<last, used>>

\* The slot of a key another client adds is left alone, or excused.
SlotsLeft(c) ==
    \A d \in Clients \ {c} : op[d].kind = "addKey" =>
        LET k == op[d].key
        IN k \in excused' \/ (blob'[k] = blob[k] /\ k \notin excused) \/ header' = NoHeader

\* A header once known stays known, whoever writes.
LEMMA KnownKept ==
    ASSUME IInv, HeaderStep, NEW h \in Header, Known(h)
    PROVE  Known(h)'
<1>1. h.version \in Nat /\ h.version <= last /\ h.version >= 1 /\ h.vault \in used
      /\ h.check \in Check /\ h.check[2] <= last /\ h.check[2] \in Nat /\ last \in Nat
  BY DEF Known, Written, IInv, TypeOK, Header, Check
<1>2. CASE UNCHANGED <<header, last, used>>
  BY <1>2 DEF Known, Written, Agrees
<1>3. CASE header' = NoHeader /\ UNCHANGED <<last, used>>
  <2>1. NoHeader.version = 0 /\ NoHeader.check = NoCheck /\ NoCheck \notin Check
    BY VaultAssumption DEF NoHeader, Check
  <2>. QED
    BY <1>1, <1>3, <2>1 DEF Known, Written, Agrees
<1>4. CASE last' = last + 1 /\ header' \in Header
  <2>1. header'.version = last' /\ used \subseteq used'
        /\ \/ header'.check = header.check /\ header'.phrase = header.phrase
           \/ header'.check[2] = last'
    <3>1. last' # last
      BY <1>1, <1>4
    <3>. QED
      BY <3>1 DEF HeaderStep
  <2>2. Written(h)'
    BY <1>1, <1>4, <2>1 DEF Written
  <2>3. h.version # header'.version
    BY <1>1, <1>4, <2>1
  <2>4. h.check = header'.check => h.phrase = header'.phrase
    BY <1>1, <1>4, <2>1 DEF Known, Agrees
  <2>. QED
    BY <2>2, <2>3, <2>4 DEF Known, Agrees
<1>. QED
  BY <1>2, <1>3, <1>4 DEF HeaderStep

LEMMA OthersKept ==
    ASSUME IInv, HeaderStep, NEW c \in Clients, SlotsLeft(c), NEW d \in Clients \ {c},
           op'[d] = op[d], held'[d] = held[d], open'[d] = open[d]
    PROVE  ClientInv(d)'
<1>. DEFINE o == op[d]
            h == held[d].head
<1>1. o \in Op /\ h \in Header /\ o.seen \in Header /\ ClientOK(o, h, open[d])
  BY ClientTypes DEF Op
<1>2. HeldIsKnown(o, h, open[d])'
  BY <1>1, KnownKept DEF ClientOK, HeldIsKnown
<1>3. SlotsTracked(o, h)'
  <2>1. ASSUME o.kind = "addKey", o.pc \in {"index", "push", "rebase"}, header'.vault = h.vault
        PROVE  blob'[o.key] = header'.vault \/ o.key \in excused'
    <3>1. Known(h) /\ h.vault \in used /\ h.vault # NoVault
      <4>1. Known(h)
        BY <1>1, <2>1 DEF ClientOK, HeldIsKnown, Holding
      <4>. QED
        BY <4>1, VaultAssumption DEF Known, Written, IInv, TypeOK
    <3>2. header' # NoHeader /\ header'.vault = header.vault
      <4>1. NoHeader.vault = NoVault
        BY DEF NoHeader
      <4>. QED
        BY <2>1, <3>1, <4>1 DEF HeaderStep
    <3>3. blob[o.key] = header.vault \/ o.key \in excused
      BY <1>1, <2>1, <3>2 DEF ClientOK, SlotsTracked
    <3>. QED
      BY <2>1, <3>2, <3>3 DEF SlotsLeft
  <2>. QED
    BY <1>1, <2>1 DEF ClientOK, SlotsTracked
<1>4. PushIsMutation(o, h)' /\ ChangeProved(o, h)' /\ OpShape(o)'
  BY <1>1 DEF ClientOK, PushIsMutation, ChangeProved
<1>. QED
  BY <1>2, <1>3, <1>4 DEF ClientInv, ClientOK

\* A step of client c: what has to be shown of it.
LEMMA AnyStep ==
    ASSUME IInv, NEW c \in Clients, NEW o \in Op, NEW x \in HeldType, NEW b \in BOOLEAN,
           op' = [op EXCEPT ![c] = o], held' = [held EXCEPT ![c] = x],
           open' = [open EXCEPT ![c] = b],
           ClientOK(o, x.head, b)', OtherTypes', HeaderStep, SlotsLeft(c),
           blob' \in [Keys -> Vaults \union {NoVault}], excused' \subseteq Keys,
           OnlyOverlapLosesKeys'
    PROVE  IInv'
<1>1. /\ op' \in [Clients -> Op] /\ held' \in [Clients -> HeldType] /\ open' \in [Clients -> BOOLEAN]
      /\ op'[c] = o /\ held'[c] = x /\ open'[c] = b
      /\ \A d \in Clients \ {c} : op'[d] = op[d] /\ held'[d] = held[d] /\ open'[d] = open[d]
  BY DEF IInv, TypeOK, HeldType
<1>2. header' \in Header /\ last' \in Nat /\ used' \subseteq Vaults /\ SlotInv'
  BY NoHeaderType DEF HeaderStep, IInv, TypeOK, SlotInv, Written, Header
<1>3. TypeOK'
  BY <1>1, <1>2 DEF TypeOK, OtherTypes, HeldType
<1>4. ClientInv(c)'
  BY <1>1 DEF ClientInv
<1>5. \A d \in Clients \ {c} : ClientInv(d)'
  BY <1>1, OthersKept
<1>. QED
  BY <1>2, <1>3, <1>4, <1>5 DEF IInv

\* A step that touches no slot of the account.
LEMMA ClientStep ==
    ASSUME IInv, NEW c \in Clients, NEW o \in Op, NEW x \in HeldType, NEW b \in BOOLEAN,
           op' = [op EXCEPT ![c] = o], held' = [held EXCEPT ![c] = x],
           open' = [open EXCEPT ![c] = b],
           ClientOK(o, x.head, b), OtherTypes',
           UNCHANGED <<header, last, used, blob, excused>>
    PROVE  IInv'
<1>1. ClientOK(o, x.head, b)'
  BY DEF ClientOK, HeldIsKnown, PushIsMutation, ChangeProved, SlotsTracked, Known, Written, Agrees
<1>2. HeaderStep /\ SlotsLeft(c) /\ OnlyOverlapLosesKeys'
  BY DEF HeaderStep, SlotsLeft, IInv, OnlyOverlapLosesKeys
<1>. QED
  BY <1>1, <1>2, AnyStep DEF IInv, TypeOK

\* One that changes its own operation only.
LEMMA OpStep ==
    ASSUME IInv, NEW c \in Clients, NEW o \in Op, op' = [op EXCEPT ![c] = o],
           ClientOK(o, held[c].head, open[c]), OtherTypes',
           UNCHANGED <<header, last, used, blob, excused, open, held>>
    PROVE  IInv'
<1>1. held' = [held EXCEPT ![c] = held[c]] /\ open' = [open EXCEPT ![c] = open[c]]
      /\ held[c] \in HeldType /\ open[c] \in BOOLEAN
  BY DEF IInv, TypeOK, HeldType
<1>. QED
  BY <1>1, ClientStep

\* An operation that is over asks nothing of the header held.
LEMMA FinishedOK ==
    ASSUME NEW h, NEW b \in BOOLEAN, NEW o, HeldIsKnown(o, h, b)
    PROVE  ClientOK(NoOp, h, b) /\ ClientOK(NoOp, h, FALSE)
<1>1. NoOp.pc = "idle" /\ NoOp.kind = "none"
  BY DEF NoOp
<1>. QED
  BY <1>1, NoOpType
  DEF ClientOK, HeldIsKnown, PushIsMutation, ChangeProved, SlotsTracked, Holding, Seeing

LEMMA FinishStep ==
    ASSUME IInv, NEW c \in Clients, Finish(c), OtherTypes',
           UNCHANGED <<header, last, used, blob, excused, open, held>>
    PROVE  IInv'
<1>1. ClientOK(NoOp, held[c].head, open[c])
  BY ClientTypes, FinishedOK DEF ClientOK
<1>. QED
  BY <1>1, NoOpType, OpStep DEF Finish

LEMMA TypesKept ==
    ASSUME IInv, UNCHANGED <<verifier, epoch, pending, remember>>, UNCHANGED bounds \/ Fault
    PROVE  OtherTypes'
  BY VaultAssumption DEF IInv, TypeOK, OtherTypes, bounds, Fault

\* Most steps change nothing but their operation, perhaps after a fault.
Inward(c, o) ==
    /\ op' = [op EXCEPT ![c] = o]
    /\ UNCHANGED <<store, blob, open, held, pending, remember, excused>>
    /\ UNCHANGED bounds \/ Fault

LEMMA InwardStep ==
    ASSUME IInv, NEW c \in Clients, NEW o \in Op, Inward(c, o),
           ClientOK(o, held[c].head, open[c])
    PROVE  IInv'
<1>1. UNCHANGED <<header, last, used, verifier, epoch, blob, open, held, pending, remember, excused>>
  BY DEF Inward, store
<1>2. OtherTypes'
  BY <1>1, TypesKept DEF Inward
<1>. QED
  BY <1>1, <1>2, OpStep DEF Inward

LEMMA InwardFinish ==
    ASSUME IInv, NEW c \in Clients, Inward(c, NoOp)
    PROVE  IInv'
<1>1. ClientOK(NoOp, held[c].head, open[c])
  BY ClientTypes, FinishedOK DEF ClientOK
<1>. QED
  BY <1>1, NoOpType, InwardStep

-----------------------------------------------------------------------------
\* Calls and index writes.

LEMMA CalledOK ==
    ASSUME IInv, NEW c \in Clients, NEW o \in Op, Arguments(o), Call(c, o)
    PROVE  IInv'
<1>. DEFINE n == [o EXCEPT !.pc = "called"]
<1>1. n \in Op /\ n.pc = "called"
  BY DEF Op, Pcs
<1>2. OpShape(n)
  BY DEF OpShape, Arguments, Points, Op
<1>3. ClientOK(n, held[c].head, open[c])
  BY <1>1, <1>2, ClientTypes
  DEF ClientOK, HeldIsKnown, PushIsMutation, ChangeProved, SlotsTracked, Holding, Seeing
<1>4. /\ op' = [op EXCEPT ![c] = n]
      /\ UNCHANGED <<header, last, used, verifier, epoch, blob, open, held, pending, remember, excused>>
  BY DEF Call, store
<1>5. OtherTypes'
  BY <1>4, VaultAssumption DEF Call, IInv, TypeOK, OtherTypes
<1>. HIDE DEF n
<1>. QED
  BY <1>1, <1>3, <1>4, <1>5, OpStep

LEMMA CallingHolds ==
    ASSUME IInv, NEW c \in Clients, Calling(c)
    PROVE  IInv'
<1>. DEFINE Good(o) == o \in Op /\ Arguments(o)
<1>0. NoOp \in Op /\ NoOp.index.keys = {}
  BY NoOpType, EmptyIndexType DEF NoOp
<1>1. held[c].head.index.keys \subseteq Keys
  BY ClientTypes DEF Account!Index
<1>2. ASSUME NEW o, Call(c, o), Good(o)
      PROVE  IInv'
  BY <1>2, CalledOK
<1>3. \A p \in Phrases : /\ Good([NoOp EXCEPT !.kind = "resetVault", !.phrase = p])
                         /\ Good([NoOp EXCEPT !.kind = "createVault", !.phrase = p])
                         /\ Good([NoOp EXCEPT !.kind = "unlock", !.phrase = p])
  BY <1>0 DEF Op, Arguments, Kinds, IndexKinds
<1>4. /\ Good([NoOp EXCEPT !.kind = "unlockRemembered"])
      /\ Good([NoOp EXCEPT !.kind = "retryVerifier"])
      /\ Good([NoOp EXCEPT !.kind = "trust"])
  BY <1>0 DEF Op, Arguments, Kinds, IndexKinds
<1>5. \A p, n \in Phrases : Good([NoOp EXCEPT !.kind = "changePassphrase", !.phrase = p, !.next = n])
  BY <1>0 DEF Op, Arguments, Kinds, IndexKinds
<1>6. \A k \in Keys : /\ Good([NoOp EXCEPT !.kind = "addKey", !.key = k])
                      /\ Good([NoOp EXCEPT !.kind = "removeKey", !.key = k])
  BY <1>0 DEF Op, Arguments, Kinds, IndexKinds
<1>7. \A k, n \in Keys : Good([NoOp EXCEPT !.kind = "rotateKey", !.key = k, !.key2 = n])
  BY <1>0 DEF Op, Arguments, Kinds, IndexKinds
<1>8. \A h \in Hosts, k \in Keys : Good([NoOp EXCEPT !.kind = "bindHost", !.host = h, !.key = k])
  BY <1>0 DEF Op, Arguments, Kinds, IndexKinds
<1>9. \A h \in Hosts : Good([NoOp EXCEPT !.kind = "unbindHost", !.host = h])
  BY <1>0 DEF Op, Arguments, Kinds, IndexKinds
<1>10. \A t \in BOOLEAN : Good([NoOp EXCEPT !.kind = "setSyncPassphrase", !.sync = t])
  BY <1>0 DEF Op, Arguments, Kinds, IndexKinds
<1>. HIDE DEF Good
<1>11. CallingOpen(c) => IInv'
  BY <1>1, <1>2, <1>4, <1>5, <1>6, <1>7, <1>8, <1>9, <1>10 DEF CallingOpen
<1>. QED
  BY <1>2, <1>3, <1>4, <1>11 DEF Calling

\* writeIndex answered: what follows.
LEMMA IndexWrittenOK ==
    ASSUME IInv, NEW c \in Clients, IndexWritten(c), op[c].kind \in IndexKinds
    PROVE  \E o \in Op : /\ op' = [op EXCEPT ![c] = o] /\ OpShape(o)
                         /\ \/ o = NoOp
                            \/ /\ o.pc = "drop" /\ o.kind = op[c].kind /\ o.key = op[c].key
                               /\ o.kind \in {"removeKey", "rotateKey"}
<1>1. CASE op[c].kind \in {"removeKey", "rotateKey"}
  <2>. DEFINE o == [op[c] EXCEPT !.pc = "drop"]
  <2>1. op[c] \in Op /\ OpShape(op[c])
    BY ClientTypes
  <2>2. o \in Op /\ OpShape(o) /\ o.pc = "drop" /\ o.kind = op[c].kind /\ o.key = op[c].key
    BY <1>1, <2>1 DEF Op, OpShape, Arguments, Points, Pcs
  <2>3. op' = [op EXCEPT ![c] = o]
    BY <1>1 DEF IndexWritten, Go, IInv, TypeOK
  <2>. QED
    BY <1>1, <2>2, <2>3
<1>2. CASE op[c].kind \notin {"removeKey", "rotateKey"}
  BY <1>2, NoOpType DEF IndexWritten, Finish
<1>. QED
  BY <1>1, <1>2

LEMMA IndexFailedOK ==
    ASSUME IInv, NEW c \in Clients, NEW doubt \in BOOLEAN, IndexFailed(c, doubt),
           op[c].kind \in IndexKinds
    PROVE  \E o \in Op : /\ op' = [op EXCEPT ![c] = o] /\ OpShape(o)
                         /\ \/ o = NoOp
                            \/ /\ o.pc = "undo" /\ o.kind = "addKey" /\ op[c].kind = "addKey"
                               /\ o.key = op[c].key
                               /\ ~op[c].existed /\ o.doubt = (op[c].doubt \/ doubt)
<1>1. CASE op[c].kind = "addKey" /\ ~op[c].existed
  <2>. DEFINE v == op[c].doubt \/ doubt
              o == [op[c] EXCEPT !.pc = "undo", !.doubt = v]
  <2>1. op[c] \in Op /\ OpShape(op[c]) /\ v \in BOOLEAN
    BY ClientTypes
  <2>2. /\ o \in Op /\ o.pc = "undo" /\ o.kind = "addKey" /\ o.key = op[c].key
        /\ o.doubt = v /\ o.existed = op[c].existed
    <3>. HIDE DEF v
    <3>. QED
      BY <1>1, <2>1 DEF Op, Pcs
  <2>4. OpShape(o)
    BY <1>1, <2>1, <2>2 DEF OpShape, Arguments, Points
  <2>3. op' = [op EXCEPT ![c] = o]
    BY <1>1 DEF IndexFailed, IInv, TypeOK
  <2>. QED
    BY <1>1, <2>2, <2>3, <2>4
<1>2. CASE ~(op[c].kind = "addKey" /\ ~op[c].existed)
  BY <1>2, NoOpType DEF IndexFailed, Finish
<1>. QED
  BY <1>1, <1>2

LEMMA SealIndexHolds ==
    ASSUME IInv, NEW c \in Clients, SealIndex(c)
    PROVE  IInv'
<1>. DEFINE i == held[c].head.index
            h == held[c].head
<1>1. /\ op[c] \in Op /\ OpShape(op[c]) /\ i \in Account!Index /\ open[c] \in BOOLEAN
      /\ ClientOK(op[c], h, open[c])
  BY ClientTypes
<1>2. op[c].kind \in IndexKinds /\ op[c].pc \in {"index", "called"}
      /\ (op[c].pc = "called" => op[c].kind # "addKey")
  BY <1>1 DEF SealIndex, At, OpShape, Points
<1>3. UNCHANGED <<store, blob, open, held, pending, remember, excused>> /\ UNCHANGED bounds
  BY DEF SealIndex
<1>4. CASE ~open[c] \/ Refuses(op[c], i)
  <2>1. PICK o \in Op : /\ op' = [op EXCEPT ![c] = o] /\ OpShape(o)
                         /\ \/ o = NoOp
                            \/ /\ o.pc = "undo" /\ o.kind = "addKey" /\ op[c].kind = "addKey"
                               /\ o.key = op[c].key
                               /\ ~op[c].existed /\ o.doubt = (op[c].doubt \/ FALSE)
    <3>1. IndexFailed(c, FALSE)
      BY <1>4 DEF SealIndex
    <3>. QED
      BY <1>2, <3>1, IndexFailedOK
  <2>2. o # NoOp => ClientOK(o, h, open[c])
    BY <1>1, <1>2, <2>1
    DEF ClientOK, HeldIsKnown, PushIsMutation, ChangeProved, SlotsTracked, Holding, Seeing
  <2>. QED
    BY <1>3, <2>1, <2>2, InwardStep, InwardFinish DEF Inward
<1>5. CASE open[c] /\ ~Refuses(op[c], i) /\ Skips(op[c], i)
  <2>1. PICK o \in Op : /\ op' = [op EXCEPT ![c] = o] /\ OpShape(o)
                         /\ \/ o = NoOp
                            \/ /\ o.pc = "drop" /\ o.kind = op[c].kind /\ o.key = op[c].key
                               /\ o.kind \in {"removeKey", "rotateKey"}
    <3>1. IndexWritten(c)
      BY <1>5 DEF SealIndex
    <3>. QED
      BY <1>2, <3>1, IndexWrittenOK
  <2>2. o # NoOp => o.key \notin i.keys
    BY <1>1, <1>2, <1>5, <2>1, MutatedKeys DEF Skips
  <2>3. o # NoOp => ClientOK(o, h, open[c])
    BY <1>1, <1>5, <2>1, <2>2
    DEF ClientOK, HeldIsKnown, PushIsMutation, ChangeProved, SlotsTracked, Holding, Seeing
  <2>. QED
    BY <1>3, <2>1, <2>3, InwardStep, InwardFinish DEF Inward
<1>6. CASE open[c] /\ ~Refuses(op[c], i) /\ ~Skips(op[c], i)
  <2>. DEFINE o == [op[c] EXCEPT !.pc = "push", !.index = Mutated(op[c], i)]
  <2>1. op' = [op EXCEPT ![c] = o]
    BY <1>6 DEF SealIndex, IInv, TypeOK
  <2>2. Mutated(op[c], i) \in Account!Index
    BY <1>1, <1>2, MutatedType
  <2>3. /\ o \in Op /\ o.pc = "push" /\ o.index = Mutated(op[c], i)
        /\ o.kind = op[c].kind /\ o.key = op[c].key /\ o.key2 = op[c].key2 /\ o.host = op[c].host
        /\ o.sync = op[c].sync /\ o.phrase = op[c].phrase /\ o.next = op[c].next
        /\ o.existed = op[c].existed /\ o.doubt = op[c].doubt /\ o.seen = op[c].seen
    BY <1>1, <2>2 DEF Op, Pcs
  <2>4. OpShape(o)
    BY <1>1, <1>2, <2>3 DEF OpShape, Arguments, Points, IndexKinds
  <2>5. Mutated(o, i) = Mutated(op[c], i) /\ ~Refuses(o, i) /\ ~Skips(o, i)
    BY <1>6, <2>3 DEF Mutated, Refuses, Skips
  <2>. HIDE DEF o
  <2>6. ClientOK(o, h, open[c])
    BY <1>1, <1>2, <1>6, <2>3, <2>4, <2>5
    DEF ClientOK, HeldIsKnown, PushIsMutation, ChangeProved, SlotsTracked, Holding, Seeing
  <2>. QED
    BY <1>3, <2>1, <2>3, <2>6, InwardStep DEF Inward
<1>. QED
  BY <1>4, <1>5, <1>6

\* The fields of an operation that moves on to another point.
SameCall(o, n) ==
    /\ n.kind = o.kind /\ n.key = o.key /\ n.key2 = o.key2 /\ n.host = o.host
    /\ n.phrase = o.phrase /\ n.next = o.next /\ n.sync = o.sync

LEMMA Moved ==
    ASSUME NEW o \in Op, NEW pc \in Pcs
    PROVE  LET n == [o EXCEPT !.pc = pc]
           IN /\ n \in Op /\ n.pc = pc /\ SameCall(o, n) /\ n.seen = o.seen /\ n.index = o.index
              /\ n.existed = o.existed /\ n.doubt = o.doubt
  BY DEF Op, SameCall

LEMMA GoIsMove ==
    ASSUME IInv, NEW c \in Clients, NEW pc, Go(c, pc)
    PROVE  op' = [op EXCEPT ![c] = [op[c] EXCEPT !.pc = pc]]
  BY DEF Go, IInv, TypeOK

\* At these points an operation relies on no more than its shape.
Plain == {"status", "list", "wipe", "again", "fresh", "pull", "refresh", "look", "republish"}

LEMMA PlainStep ==
    ASSUME IInv, NEW c \in Clients, NEW n \in Op, Inward(c, n), OpShape(n), n.pc \in Plain,
           n.pc \in {"refresh", "look", "republish"} => open[c] \/ op[c].pc \in Holding
    PROVE  IInv'
<1>1. ClientOK(op[c], held[c].head, open[c])
  BY ClientTypes
<1>2. ClientOK(n, held[c].head, open[c])
  BY <1>1 DEF Plain, ClientOK, HeldIsKnown, PushIsMutation, ChangeProved, SlotsTracked, Holding, Seeing
<1>. QED
  BY <1>2, InwardStep

LEMMA PlainGo ==
    ASSUME IInv, NEW c \in Clients, NEW pc \in Plain, Go(c, pc), Points([op[c] EXCEPT !.pc = pc]),
           pc \in {"refresh", "look", "republish"} => open[c] \/ op[c].pc \in Holding,
           UNCHANGED <<store, blob, open, held, pending, remember, excused>>,
           UNCHANGED bounds \/ Fault
    PROVE  IInv'
<1>. DEFINE n == [op[c] EXCEPT !.pc = pc]
<1>1. /\ op[c] \in Op /\ OpShape(op[c]) /\ pc \in Pcs
  BY ClientTypes DEF Plain, Pcs
<1>2. n \in Op /\ n.pc = pc /\ SameCall(op[c], n) /\ n.index = op[c].index
  BY <1>1, Moved
<1>3. OpShape(n)
  BY <1>1, <1>2 DEF OpShape, Arguments, SameCall
<1>4. op' = [op EXCEPT ![c] = n]
  BY GoIsMove
<1>. HIDE DEF n
<1>. QED
  BY <1>2, <1>3, <1>4, PlainStep DEF Inward

LEMMA FreshBaseType ==
    ASSUME header \in Header, NEW s \in Header
    PROVE  FreshBase(s) \in Header
<1>. DEFINE e == IF s.epoch > header.epoch THEN s.epoch ELSE header.epoch + 1
<1>1. e \in Nat /\ header.version \in Nat
  BY DEF Header
<1>2. FreshBase(s) = IF header.vault = NoVault THEN s
                     ELSE [s EXCEPT !.version = header.version, !.epoch = e]
  BY DEF FreshBase, Header
<1>. HIDE DEF e
<1>. QED
  BY <1>1, <1>2 DEF Header

LEMMA ResetStepsHold ==
    ASSUME IInv, NEW c \in Clients,
           CreateStart(c) \/ ResetStart(c) \/ ServerDeclines(c) \/ ListSlots(c)
             \/ PullForReset(c) \/ WriteFreshConflict(c)
    PROVE  IInv'
<1>0. /\ op[c] \in Op /\ OpShape(op[c]) /\ op[c].seen \in Header /\ op[c].index \in Account!Index
      /\ header \in Header /\ held[c].head.index \in Account!Index /\ op \in [Clients -> Op]
  BY ClientTypes DEF Op, IInv, TypeOK
<1>1. CASE CreateStart(c)
  <2>1. CASE header.vault # NoVault
    BY <1>1, <2>1, InwardFinish DEF CreateStart, Finish, Inward
  <2>2. CASE header.vault = NoVault
    <3>. DEFINE t == [op[c].seen EXCEPT !.epoch = 1]
                n == [op[c] EXCEPT !.pc = "fresh", !.seen = t]
    <3>1. Inward(c, n)
      <4>1. op' = [op EXCEPT ![c].pc = "fresh", ![c].seen.epoch = 1]
        BY <1>1, <2>2 DEF CreateStart
      <4>2. op' = [op EXCEPT ![c] = n]
        BY <1>0, <4>1 DEF Op, Header
      <4>. QED
        BY <1>1, <4>2 DEF CreateStart, Inward
    <3>4. t \in Header
      BY <1>0 DEF Header
    <3>. HIDE DEF t
    <3>2. n \in Op /\ n.pc = "fresh" /\ SameCall(op[c], n) /\ n.index = op[c].index
      BY <1>0, <3>4 DEF Op, SameCall, Pcs
    <3>3. OpShape(n)
      BY <1>0, <1>1, <3>2 DEF CreateStart, OpShape, Arguments, Points, SameCall
    <3>. HIDE DEF n
    <3>. QED
      BY <3>1, <3>2, <3>3, PlainStep DEF Plain
  <2>. QED
    BY <2>1, <2>2
<1>2. CASE ResetStart(c)
  <2>. DEFINE i == IF open[c] THEN [held[c].head.index EXCEPT !.keys = {}] ELSE Account!EmptyIndex
              t == [op[c].seen EXCEPT !.epoch = 1]
              n == [op[c] EXCEPT !.pc = "status", !.seen = t, !.index = i]
  <2>1. Inward(c, n)
    BY <1>0, <1>2 DEF ResetStart, Inward
  <2>2. i \in Account!Index /\ i.keys = {}
    BY <1>0, EmptyIndexType DEF Account!Index
  <2>5. t \in Header
    BY <1>0 DEF Header
  <2>. HIDE DEF i, t
  <2>3. n \in Op /\ n.pc = "status" /\ SameCall(op[c], n) /\ n.index = i
    BY <1>0, <2>2, <2>5 DEF Op, SameCall, Pcs
  <2>4. OpShape(n)
    BY <1>0, <1>2, <2>2, <2>3 DEF ResetStart, OpShape, Arguments, Points, SameCall
  <2>. HIDE DEF n
  <2>. QED
    BY <2>1, <2>3, <2>4, PlainStep DEF Plain
<1>3. CASE ServerDeclines(c)
  <2>1. CASE Go(c, "list")
    <3>1. Points([op[c] EXCEPT !.pc = "list"])
      BY <1>0, <1>3 DEF ServerDeclines, At, Op, OpShape, Points
    <3>. QED
      BY <1>3, <2>1, <3>1, PlainGo DEF ServerDeclines, Plain
  <2>2. CASE Finish(c)
    BY <1>3, <2>2, InwardFinish DEF ServerDeclines, Finish, Inward
  <2>. QED
    BY <1>3, <2>1, <2>2 DEF ServerDeclines
<1>4. CASE ListSlots(c)
  <2>. DEFINE w == {k \in Keys : blob[k] # NoVault}
              n == [op[c] EXCEPT !.pc = "wipe", !.wipe = w]
  <2>1. Inward(c, n)
    BY <1>0, <1>4 DEF ListSlots, Inward
  <2>2. w \subseteq Keys
    OBVIOUS
  <2>. HIDE DEF w
  <2>3. n \in Op /\ n.pc = "wipe" /\ SameCall(op[c], n) /\ n.index = op[c].index
    BY <1>0, <2>2 DEF Op, SameCall, Pcs
  <2>4. OpShape(n)
    BY <1>0, <1>4, <2>3 DEF ListSlots, At, OpShape, Arguments, Points, SameCall
  <2>. HIDE DEF n
  <2>. QED
    BY <2>1, <2>3, <2>4, PlainStep DEF Plain
<1>5. CASE PullForReset(c)
  <2>. DEFINE t == FreshBase(op[c].seen)
              n == [op[c] EXCEPT !.pc = "fresh", !.seen = t]
  <2>1. Inward(c, n)
    BY <1>0, <1>5 DEF PullForReset, Inward
  <2>2. t \in Header
    BY <1>0, FreshBaseType
  <2>. HIDE DEF t
  <2>3. n \in Op /\ n.pc = "fresh" /\ SameCall(op[c], n) /\ n.index = op[c].index
    BY <1>0, <2>2 DEF Op, SameCall, Pcs
  <2>4. OpShape(n)
    BY <1>0, <1>5, <2>3 DEF PullForReset, At, OpShape, Arguments, Points, SameCall
  <2>. HIDE DEF n
  <2>. QED
    BY <2>1, <2>3, <2>4, PlainStep DEF Plain
<1>6. CASE WriteFreshConflict(c)
  <2>1. CASE op[c].kind = "createVault" \/ op[c].tries >= ConflictRetries
    BY <1>6, <2>1, InwardFinish DEF WriteFreshConflict, Finish, Inward
  <2>2. CASE ~(op[c].kind = "createVault" \/ op[c].tries >= ConflictRetries)
    <3>. DEFINE n == [op[c] EXCEPT !.pc = "again", !.tries = @ + 1]
    <3>1. Inward(c, n)
      BY <1>0, <1>6, <2>2 DEF WriteFreshConflict, Inward
    <3>2. op[c].tries + 1 \in 0..ConflictRetries
      BY <1>0, <2>2, VaultAssumption DEF Op
    <3>3. n \in Op /\ n.pc = "again" /\ SameCall(op[c], n) /\ n.index = op[c].index
      BY <1>0, <3>2 DEF Op, SameCall, Pcs
    <3>4. OpShape(n)
      BY <1>0, <1>6, <2>2, <3>3
      DEF WriteFreshConflict, At, OpShape, Arguments, Points, SameCall
    <3>. HIDE DEF n
    <3>. QED
      BY <3>1, <3>3, <3>4, PlainStep DEF Plain
  <2>. QED
    BY <2>1, <2>2
<1>. QED
  BY <1>1, <1>2, <1>3, <1>4, <1>5, <1>6

\* The header in the slot, once pulled, is known.
LEMMA HeaderKnown ==
    ASSUME IInv, header.vault # NoVault
    PROVE  Known(header) /\ header # NoHeader
  BY DEF IInv, SlotInv, Known, Agrees, NoHeader

\* A client that is open, or in an operation on its vault, holds a header
\* that was in the slot.
LEMMA HeldKnown ==
    ASSUME IInv, NEW c \in Clients, open[c] \/ op[c].pc \in Holding
    PROVE  Known(held[c].head) /\ held[c].head # NoHeader /\ held[c].head.vault # NoVault
<1>1. Known(held[c].head) /\ held[c].head # NoHeader
  BY ClientTypes DEF ClientOK, HeldIsKnown
<1>. QED
  BY <1>1, VaultAssumption DEF Known, Written, IInv, TypeOK

\* A write of the index that did not happen, or was not seen to happen.
LEMMA FailedOK ==
    ASSUME IInv, NEW c \in Clients, NEW doubt \in BOOLEAN, IndexFailed(c, doubt),
           op[c].kind \in IndexKinds, op[c].pc \in {"push", "rebase"}
    PROVE  \E o \in Op : /\ op' = [op EXCEPT ![c] = o]
                         /\ ClientOK(o, held[c].head, open[c])
                         /\ ClientOK(o, held[c].head, FALSE)
                         /\ o = NoOp \/ (/\ o.pc = "undo" /\ o.kind = "addKey" /\ OpShape(o)
                                         /\ o.doubt = (op[c].doubt \/ doubt))
<1>. DEFINE h == held[c].head
<1>1. /\ op[c] \in Op /\ OpShape(op[c]) /\ open[c] \in BOOLEAN /\ ClientOK(op[c], h, open[c])
      /\ op[c].doubt \in BOOLEAN
  BY ClientTypes DEF Op
<1>2. PICK o \in Op : /\ op' = [op EXCEPT ![c] = o] /\ OpShape(o)
                      /\ \/ o = NoOp
                         \/ /\ o.pc = "undo" /\ o.kind = "addKey" /\ op[c].kind = "addKey"
                            /\ o.key = op[c].key
                            /\ ~op[c].existed /\ o.doubt = (op[c].doubt \/ doubt)
  BY IndexFailedOK
<1>3. CASE o = NoOp
  BY <1>1, <1>2, <1>3, FinishedOK DEF ClientOK
<1>4. CASE o # NoOp
  <2>1. ClientOK(o, h, open[c]) /\ ClientOK(o, h, FALSE)
    BY <1>1, <1>2, <1>4
    DEF ClientOK, HeldIsKnown, PushIsMutation, ChangeProved, SlotsTracked, Holding, Seeing
  <2>. QED
    BY <1>2, <1>4, <2>1
<1>. QED
  BY <1>3, <1>4

LEMMA PushFailuresHold ==
    ASSUME IInv, NEW c \in Clients, PushIndexFails(c) \/ PushIndexConflict(c)
    PROVE  IInv'
<1>0. op[c] \in Op /\ OpShape(op[c]) /\ ClientOK(op[c], held[c].head, open[c]) /\ op \in [Clients -> Op]
  BY ClientTypes DEF IInv, TypeOK
<1>1. op[c].kind \in IndexKinds /\ op[c].pc \in {"push", "rebase"}
  BY <1>0 DEF PushIndexFails, PushIndexConflict, At, OpShape, Points, IndexKinds
<1>2. UNCHANGED <<store, blob, open, held, pending, remember, excused>> /\ (UNCHANGED bounds \/ Fault)
  BY DEF PushIndexFails, PushIndexConflict
<1>3. ASSUME NEW d \in BOOLEAN, IndexFailed(c, d)
      PROVE  IInv'
  BY <1>1, <1>2, <1>3, FailedOK, InwardStep DEF Inward
<1>4. CASE PushIndexFails(c)
  BY <1>3, <1>4 DEF PushIndexFails
<1>5. CASE PushIndexConflict(c) /\ op[c].stale
  BY <1>3, <1>5 DEF PushIndexConflict
<1>6. CASE PushIndexConflict(c) /\ ~op[c].stale
  <2>. DEFINE n == [op[c] EXCEPT !.pc = "rebase", !.doubt = TRUE]
  <2>1. Inward(c, n)
    BY <1>0, <1>2, <1>6 DEF PushIndexConflict, Inward
  <2>2. n \in Op /\ n.pc = "rebase" /\ n.doubt /\ SameCall(op[c], n) /\ n.index = op[c].index
    BY <1>0 DEF Op, Pcs, SameCall
  <2>3. OpShape(n)
    BY <1>0, <1>1, <2>2 DEF OpShape, Arguments, Points, SameCall
  <2>. HIDE DEF n
  <2>4. op[c].pc = "push" /\ op[c].kind # "changePassphrase"
    BY <1>1, <1>6 DEF PushIndexConflict, At, IndexKinds
  <2>5. ClientOK(n, held[c].head, open[c])
    BY <1>0, <2>2, <2>3, <2>4
    DEF ClientOK, HeldIsKnown, PushIsMutation, ChangeProved, SlotsTracked, Holding, Seeing, SameCall
  <2>. QED
    BY <2>1, <2>2, <2>5, InwardStep
<1>. QED
  BY <1>4, <1>5, <1>6

\* LockNow keeps the types.
LEMMA LockTypes ==
    ASSUME IInv, NEW c \in Clients, LockNow(c), UNCHANGED <<verifier, epoch, remember>>,
           UNCHANGED bounds \/ Fault
    PROVE  OtherTypes'
<1>1. pending' \in [Clients -> [auth : Check \union {NoCheck}, current : Check \union {NoCheck}]]
  BY DEF LockNow, NoPending, IInv, TypeOK
<1>. QED
  BY <1>1, VaultAssumption DEF IInv, TypeOK, OtherTypes, bounds, Fault

LEMMA RebaseChangedHolds ==
    ASSUME IInv, NEW c \in Clients, RebaseChanged(c)
    PROVE  IInv'
<1>. DEFINE h == held[c].head
<1>0. /\ op[c] \in Op /\ OpShape(op[c]) /\ ClientOK(op[c], h, open[c]) /\ open[c] \in BOOLEAN
      /\ held[c] \in HeldType /\ op[c].pc = "rebase"
      /\ op[c].kind \in IndexKinds \union {"changePassphrase"}
      /\ held' = [held EXCEPT ![c] = held[c]] /\ open' = [open EXCEPT ![c] = FALSE]
      /\ UNCHANGED <<header, last, used, blob, excused>>
  BY ClientTypes DEF RebaseChanged, At, OpShape, Points, HeldType, LockNow, IInv, TypeOK, store
<1>1. OtherTypes'
  BY LockTypes DEF RebaseChanged, store
<1>2. CASE op[c].kind = "changePassphrase"
  <2>1. Finish(c)
    BY <1>2 DEF RebaseChanged, RebaseFailed
  <2>2. ClientOK(NoOp, h, FALSE)
    BY <1>0, FinishedOK DEF ClientOK
  <2>. QED
    BY <1>0, <1>1, <2>1, <2>2, NoOpType, ClientStep DEF Finish
<1>3. CASE op[c].kind # "changePassphrase"
  <2>1. IndexFailed(c, FALSE) /\ op[c].kind \in IndexKinds
    BY <1>0, <1>3 DEF RebaseChanged, RebaseFailed
  <2>2. PICK o \in Op : op' = [op EXCEPT ![c] = o] /\ ClientOK(o, h, FALSE)
    BY <1>0, <2>1, FailedOK
  <2>. QED
    BY <1>0, <1>1, <2>2, ClientStep
<1>. QED
  BY <1>2, <1>3

LEMMA RebaseHolds ==
    ASSUME IInv, NEW c \in Clients, Rebase(c)
    PROVE  IInv'
<1>. DEFINE x == [held[c] EXCEPT !.head = header]
<1>0. /\ op[c] \in Op /\ OpShape(op[c]) /\ ClientOK(op[c], held[c].head, open[c])
      /\ open[c] \in BOOLEAN /\ held[c] \in HeldType /\ op[c].pc = "rebase"
      /\ op[c].kind \in IndexKinds \union {"changePassphrase"} /\ op \in [Clients -> Op]
      /\ header \in Header
      /\ held' = [held EXCEPT ![c] = x] /\ open' = [open EXCEPT ![c] = open[c]]
      /\ UNCHANGED <<header, last, used, blob, excused>>
  BY ClientTypes DEF Rebase, Sees, At, OpShape, Points, HeldType, IInv, TypeOK, store
<1>1. OtherTypes'
  BY TypesKept DEF Rebase, store
<1>2. x \in HeldType /\ x.head = header
  BY <1>0 DEF HeldType
<1>3. Known(held[c].head) /\ held[c].head.vault # NoVault
  BY <1>0, HeldKnown DEF Holding
<1>4. Known(header) /\ header # NoHeader /\ header.vault = held[c].head.vault
  BY <1>3, HeaderKnown DEF Rebase, Changed
<1>. HIDE DEF x
<1>5. ASSUME NEW o \in Op, op' = [op EXCEPT ![c] = o], ClientOK(o, header, open[c])
      PROVE  IInv'
  BY <1>0, <1>1, <1>2, <1>5, ClientStep
<1>6. CASE op[c].kind = "changePassphrase" /\ (op[c].stale \/ op[c].tries >= ConflictRetries)
  <2>1. Finish(c)
    BY <1>6 DEF Rebase, RebaseFailed
  <2>2. HeldIsKnown(NoOp, header, open[c])
    BY <1>4 DEF HeldIsKnown, NoOp, Seeing
  <2>. QED
    BY <1>0, <1>5, <2>1, <2>2, NoOpType, FinishedOK DEF Finish
<1>7. CASE op[c].kind # "changePassphrase" /\ (op[c].stale \/ op[c].tries >= ConflictRetries)
  <2>1. IndexFailed(c, FALSE) /\ op[c].kind \in IndexKinds
    BY <1>0, <1>7 DEF Rebase, RebaseFailed
  <2>2. PICK o \in Op : /\ op' = [op EXCEPT ![c] = o]
                        /\ o = NoOp \/ (/\ o.pc = "undo" /\ o.kind = "addKey" /\ OpShape(o)
                                        /\ op[c].kind = "addKey" /\ o.doubt = (op[c].doubt \/ FALSE))
    <3>1. PICK o \in Op : /\ op' = [op EXCEPT ![c] = o] /\ OpShape(o)
                          /\ \/ o = NoOp
                             \/ /\ o.pc = "undo" /\ o.kind = "addKey" /\ op[c].kind = "addKey"
                                /\ o.key = op[c].key
                                /\ ~op[c].existed /\ o.doubt = (op[c].doubt \/ FALSE)
      BY <2>1, IndexFailedOK
    <3>. QED
      BY <3>1
  <2>3. CASE o = NoOp
    <3>1. HeldIsKnown(NoOp, header, open[c])
      BY <1>4 DEF HeldIsKnown, NoOp, Seeing
    <3>. QED
      BY <1>0, <1>5, <2>2, <2>3, <3>1, NoOpType, FinishedOK
  <2>4. CASE o # NoOp
    <3>1. o.doubt
      BY <1>0, <2>2, <2>4 DEF OpShape, Points
    <3>2. ClientOK(o, header, open[c])
      BY <1>4, <2>2, <2>4, <3>1
      DEF ClientOK, HeldIsKnown, PushIsMutation, ChangeProved, SlotsTracked, Seeing
    <3>. QED
      BY <1>5, <2>2, <3>2
  <2>. QED
    BY <2>3, <2>4
<1>8. CASE ~(op[c].stale \/ op[c].tries >= ConflictRetries)
  <2>. DEFINE pc == IF op[c].kind = "changePassphrase" THEN "rewrap" ELSE "index"
              n == [op[c] EXCEPT !.tries = @ + 1, !.pc = pc]
  <2>1. op' = [op EXCEPT ![c] = n]
    BY <1>0, <1>8 DEF Rebase
  <2>2. op[c].tries + 1 \in 0..ConflictRetries /\ pc \in Pcs
    BY <1>0, <1>8, VaultAssumption DEF Op, Pcs
  <2>5. pc = IF op[c].kind = "changePassphrase" THEN "rewrap" ELSE "index"
    OBVIOUS
  <2>. HIDE DEF pc
  <2>3. n \in Op /\ n.pc = pc /\ SameCall(op[c], n) /\ n.index = op[c].index /\ n.seen = op[c].seen
        /\ n.existed = op[c].existed /\ n.doubt = op[c].doubt
    BY <1>0, <2>2 DEF Op, SameCall
  <2>4. OpShape(n)
    BY <1>0, <2>3, <2>5 DEF OpShape, Arguments, Points, SameCall
  <2>. HIDE DEF n
  <2>6. HeldIsKnown(n, header, open[c]) /\ PushIsMutation(n, header) /\ ChangeProved(n, header)
    BY <1>0, <1>4, <2>3, <2>5
    DEF ClientOK, HeldIsKnown, PushIsMutation, ChangeProved, Seeing, SameCall
  <2>7. SlotsTracked(n, header)
    BY <1>0, <1>4, <2>3, <2>5 DEF ClientOK, SlotsTracked, SameCall, OpShape, Points
  <2>. QED
    BY <1>5, <2>1, <2>3, <2>4, <2>6, <2>7 DEF ClientOK
<1>. QED
  BY <1>6, <1>7, <1>8

\* addKey before its first write.
LEMMA AddStepsHold ==
    ASSUME IInv, NEW c \in Clients, AddStart(c) \/ LookForBlob(c)
    PROVE  IInv'
<1>0. /\ op[c] \in Op /\ OpShape(op[c]) /\ ClientOK(op[c], held[c].head, open[c])
      /\ op \in [Clients -> Op]
      /\ UNCHANGED <<store, blob, open, held, pending, remember, excused>> /\ UNCHANGED bounds
  BY ClientTypes DEF AddStart, LookForBlob, IInv, TypeOK
<1>1. CASE Finish(c)
  BY <1>0, <1>1, InwardFinish DEF Finish, Inward
<1>2. CASE AddStart(c) /\ open[c]
  <2>. DEFINE e == op[c].key \in held[c].head.index.keys
              pc == IF e THEN "look" ELSE "blob"
              n == [op[c] EXCEPT !.existed = e, !.pc = pc]
  <2>1. Inward(c, n)
    BY <1>0, <1>2 DEF AddStart, Inward
  <2>2. e \in BOOLEAN /\ pc \in Pcs /\ pc = (IF e THEN "look" ELSE "blob")
        /\ e = (op[c].key \in held[c].head.index.keys)
    BY DEF Pcs
  <2>. HIDE DEF e, pc
  <2>3. n \in Op /\ n.pc = pc /\ SameCall(op[c], n) /\ n.index = op[c].index /\ n.existed = e
    BY <1>0, <2>2 DEF Op, SameCall
  <2>. HIDE DEF n
  <2>4. OpShape(n) /\ n.kind = "addKey"
    BY <1>0, <1>2, <2>2, <2>3 DEF AddStart, OpShape, Arguments, Points, SameCall
  <2>5. ClientOK(n, held[c].head, open[c])
    BY <1>0, <1>2, <2>2, <2>3, <2>4
    DEF ClientOK, HeldIsKnown, PushIsMutation, ChangeProved, SlotsTracked, Seeing, SameCall
  <2>. QED
    BY <2>1, <2>3, <2>5, InwardStep
<1>3. CASE LookForBlob(c) /\ Go(c, "blob")
  <2>. DEFINE n == [op[c] EXCEPT !.pc = "blob"]
  <2>1. Inward(c, n)
    BY <1>0, <1>3, GoIsMove DEF Inward
  <2>2. n \in Op /\ n.pc = "blob" /\ SameCall(op[c], n) /\ n.index = op[c].index /\ n.existed = op[c].existed
    BY <1>0 DEF Op, SameCall, Pcs
  <2>. HIDE DEF n
  <2>3. OpShape(n) /\ n.existed
    BY <1>0, <1>3, <2>2 DEF LookForBlob, At, OpShape, Arguments, Points, SameCall
  <2>4. ClientOK(n, held[c].head, open[c])
    BY <1>0, <1>3, <2>2, <2>3
    DEF ClientOK, HeldIsKnown, PushIsMutation, ChangeProved, SlotsTracked, Seeing, Holding, LookForBlob, At
  <2>. QED
    BY <2>1, <2>2, <2>4, InwardStep
<1>. QED
  BY <1>1, <1>2, <1>3 DEF AddStart, LookForBlob

-----------------------------------------------------------------------------
\* Unlocking, passphrase changes and the trust refresh.

LEMMA FailsHold ==
    ASSUME IInv, NEW c \in Clients, Fails(c)
    PROVE  IInv'
  BY InwardFinish DEF Fails, Finish, Inward

\* An operation that has the header held or pulled in hand.
LEMMA SeeingStep ==
    ASSUME IInv, NEW c \in Clients, NEW n \in Op, Inward(c, n), OpShape(n),
           n.pc \in {"check", "rewrap", "repush"}, Known(n.seen),
           n.pc # "check" => open[c] \/ op[c].pc \in Holding,
           n.kind = "changePassphrase" => n.phrase = n.seen.phrase,
           n.pc = "repush" => held[c].head.check = n.seen.check
    PROVE  IInv'
<1>1. ClientOK(op[c], held[c].head, open[c])
  BY ClientTypes
<1>2. ClientOK(n, held[c].head, open[c])
  BY <1>1 DEF ClientOK, HeldIsKnown, PushIsMutation, ChangeProved, SlotsTracked, Holding
<1>. QED
  BY <1>2, InwardStep

LEMMA PullHeaderHolds ==
    ASSUME IInv, NEW c \in Clients, PullHeader(c)
    PROVE  IInv'
<1>0. /\ op[c] \in Op /\ OpShape(op[c]) /\ op \in [Clients -> Op] /\ header \in Header
  BY ClientTypes DEF IInv, TypeOK
<1>1. CASE header.vault = NoVault
  BY <1>1, InwardFinish DEF PullHeader, Finish, Inward
<1>2. CASE header.vault # NoVault
  <2>. DEFINE n == [op[c] EXCEPT !.pc = "check", !.seen = header]
  <2>1. Inward(c, n)
    BY <1>0, <1>2 DEF PullHeader, Inward
  <2>2. n \in Op /\ n.pc = "check" /\ n.seen = header /\ SameCall(op[c], n) /\ n.index = op[c].index
    BY <1>0 DEF Op, SameCall, Pcs
  <2>. HIDE DEF n
  <2>3. OpShape(n) /\ n.kind # "changePassphrase"
    BY <1>0, <2>2 DEF PullHeader, At, OpShape, Arguments, Points, SameCall
  <2>. QED
    BY <1>2, <2>1, <2>2, <2>3, HeaderKnown, SeeingStep
<1>. QED
  BY <1>1, <1>2

LEMMA ChangeStartHolds ==
    ASSUME IInv, NEW c \in Clients, ChangeStart(c)
    PROVE  IInv'
<1>. DEFINE h == held[c].head
<1>0. /\ op[c] \in Op /\ OpShape(op[c]) /\ op \in [Clients -> Op] /\ h \in Header
  BY ClientTypes DEF IInv, TypeOK
<1>1. CASE Finish(c)
  BY <1>1, InwardFinish DEF ChangeStart, Finish, Inward
<1>2. CASE ~(~open[c] \/ op[c].stale \/ op[c].phrase # held[c].head.phrase)
  <2>. DEFINE n == [op[c] EXCEPT !.pc = "rewrap", !.seen = h]
  <2>1. Inward(c, n)
    BY <1>0, <1>2 DEF ChangeStart, Inward
  <2>2. n \in Op /\ n.pc = "rewrap" /\ n.seen = h /\ SameCall(op[c], n) /\ n.index = op[c].index
    BY <1>0 DEF Op, SameCall, Pcs
  <2>. HIDE DEF n
  <2>3. OpShape(n) /\ n.phrase = n.seen.phrase
    BY <1>0, <1>2, <2>2 DEF ChangeStart, At, OpShape, Arguments, Points, SameCall
  <2>. QED
    BY <1>2, <2>1, <2>2, <2>3, HeldKnown, SeeingStep
<1>. QED
  BY <1>1, <1>2 DEF ChangeStart

LEMMA RewrapHolds ==
    ASSUME IInv, NEW c \in Clients, Rewrap(c)
    PROVE  IInv'
<1>0. /\ op[c] \in Op /\ OpShape(op[c]) /\ op \in [Clients -> Op]
      /\ ClientOK(op[c], held[c].head, open[c])
  BY ClientTypes DEF IInv, TypeOK
<1>1. CASE Finish(c)
  BY <1>1, InwardFinish DEF Rewrap, Finish, Inward
<1>2. CASE Go(c, "repush") /\ held[c].head.check = op[c].seen.check
  <2>. DEFINE n == [op[c] EXCEPT !.pc = "repush"]
  <2>1. Inward(c, n)
    BY <1>2, GoIsMove DEF Rewrap, Inward
  <2>2. n \in Op /\ n.pc = "repush" /\ n.seen = op[c].seen /\ SameCall(op[c], n) /\ n.index = op[c].index
    BY <1>0 DEF Op, SameCall, Pcs
  <2>. HIDE DEF n
  <2>3. OpShape(n) /\ n.phrase = n.seen.phrase /\ Known(n.seen)
    BY <1>0, <1>2, <2>2
    DEF Rewrap, At, OpShape, Arguments, Points, SameCall, ClientOK, HeldIsKnown, ChangeProved, Seeing
  <2>. QED
    BY <1>2, <2>1, <2>2, <2>3, SeeingStep DEF Rewrap, At, Holding
<1>. QED
  BY <1>1, <1>2 DEF Rewrap

LEMMA PushRewrappedConflictHolds ==
    ASSUME IInv, NEW c \in Clients, PushRewrappedConflict(c)
    PROVE  IInv'
<1>. DEFINE n == [op[c] EXCEPT !.pc = "rebase"]
<1>0. /\ op[c] \in Op /\ OpShape(op[c]) /\ op \in [Clients -> Op]
      /\ ClientOK(op[c], held[c].head, open[c]) /\ op[c].pc = "repush"
      /\ op[c].kind = "changePassphrase"
  BY ClientTypes DEF IInv, TypeOK, PushRewrappedConflict, At, OpShape, Points
<1>1. Inward(c, n)
  BY GoIsMove DEF PushRewrappedConflict, Inward
<1>2. n \in Op /\ n.pc = "rebase" /\ n.seen = op[c].seen /\ SameCall(op[c], n) /\ n.index = op[c].index
  BY <1>0 DEF Op, SameCall, Pcs
<1>. HIDE DEF n
<1>3. OpShape(n)
  BY <1>0, <1>2 DEF OpShape, Arguments, Points, SameCall
<1>4. ClientOK(n, held[c].head, open[c])
  BY <1>0, <1>2, <1>3
  DEF ClientOK, HeldIsKnown, PushIsMutation, ChangeProved, SlotsTracked, Holding, Seeing, SameCall
<1>. QED
  BY <1>1, <1>2, <1>4, InwardStep

LEMMA TrustStartHolds ==
    ASSUME IInv, NEW c \in Clients, TrustStart(c)
    PROVE  IInv'
<1>0. /\ op[c] \in Op /\ OpShape(op[c])
  BY ClientTypes
<1>1. CASE open[c]
  <2>1. Points([op[c] EXCEPT !.pc = "refresh"])
    BY <1>0 DEF TrustStart, Op, OpShape, Points
  <2>. QED
    BY <1>1, <2>1, PlainGo DEF TrustStart, Plain
<1>2. CASE ~open[c]
  BY <1>2, InwardFinish DEF TrustStart, Finish, Inward
<1>. QED
  BY <1>1, <1>2

LEMMA VerifyHolds ==
    ASSUME IInv, NEW c \in Clients, Verify(c)
    PROVE  IInv'
<1>0. /\ op[c] \in Op /\ OpShape(op[c]) /\ ClientOK(op[c], held[c].head, open[c])
      /\ UNCHANGED <<header, last, used, verifier, epoch, blob, excused, open, held, pending>>
      /\ UNCHANGED bounds
  BY ClientTypes DEF Verify, store
<1>1. CASE Finish(c) /\ remember' = IF op[c].kind = "unlock" THEN remember
                                     ELSE [remember EXCEPT ![c] = NoRecord]
  <2>1. remember' \in [Clients -> [vault : Vaults \union {NoVault}, epoch : Nat,
                                  auth : Check \union {NoCheck}]]
    BY <1>1 DEF NoRecord, IInv, TypeOK
  <2>2. OtherTypes'
    BY <1>0, <2>1 DEF IInv, TypeOK, OtherTypes, bounds
  <2>. QED
    BY <1>0, <1>1, <2>2, FinishStep
<1>2. CASE Go(c, "pull") /\ UNCHANGED remember
  <2>1. Points([op[c] EXCEPT !.pc = "pull"])
    BY <1>0 DEF Verify, Op, OpShape, Points
  <2>2. UNCHANGED <<store, blob, open, held, pending, remember, excused>>
    BY <1>0, <1>2 DEF store
  <2>. QED
    BY <1>0, <1>2, <2>1, <2>2, PlainGo DEF Plain
<1>. QED
  BY <1>1, <1>2 DEF Verify

\* setVerifier keeps the types.
LEMMA PublishTypes ==
    ASSUME IInv, NEW a \in Check \union {NoCheck}, NEW b, Publish(a, b)
    PROVE  /\ verifier' \in Check \union {NoCheck}
           /\ calls' \in 0..MaxCalls /\ faults' \in 0..MaxFaults
<1>1. CASE verifier' = a /\ UNCHANGED bounds
  BY <1>1 DEF IInv, TypeOK, bounds
<1>2. CASE /\ verifier \notin {NoCheck, b} \/ faults < MaxFaults
           /\ UNCHANGED verifier /\ UNCHANGED calls
           /\ faults' = IF verifier \in {NoCheck, b} THEN faults + 1 ELSE faults
  <2>1. faults' \in 0..MaxFaults
    BY <1>2, VaultAssumption DEF IInv, TypeOK
  <2>. QED
    BY <1>2, <2>1 DEF IInv, TypeOK
<1>. QED
  BY <1>1, <1>2 DEF Publish

\* The operation ends and leaves the client with header h, if not locked.
LEMMA InstallHolds ==
    ASSUME IInv, NEW c \in Clients, NEW h \in Header, NEW a \in Check \union {NoCheck},
           Known(h), Install(c, h, a), Finish(c), OtherTypes',
           UNCHANGED <<header, last, used, blob, excused>>
    PROVE  IInv'
<1>1. CASE op[c].stale
  BY <1>1, FinishStep DEF Install
<1>2. CASE ~op[c].stale
  <2>. DEFINE x == [head |-> h, auth |-> a]
  <2>1. x \in HeldType /\ x.head = h /\ h # NoHeader
    BY DEF HeldType, Known, Written, NoHeader
  <2>2. HeldIsKnown(NoOp, h, TRUE)
    BY <2>1 DEF HeldIsKnown, NoOp, Seeing
  <2>3. ClientOK(NoOp, x.head, TRUE)
    BY <2>1, <2>2, FinishedOK
  <2>4. open' = [open EXCEPT ![c] = TRUE] /\ held' = [held EXCEPT ![c] = x]
    BY <1>2 DEF Install
  <2>. HIDE DEF x
  <2>. QED
    BY <2>1, <2>3, <2>4, NoOpType, ClientStep DEF Finish
<1>. QED
  BY <1>1, <1>2

\* The header an operation has seen, and its wrapping.
LEMMA SeenTypes ==
    ASSUME IInv, NEW c \in Clients, Seeing(op[c])
    PROVE  /\ op[c].seen \in Header /\ Known(op[c].seen) /\ op[c].seen.check \in Check \union {NoCheck}
  BY ClientTypes DEF ClientOK, HeldIsKnown, Op, Header

LEMMA FreshDoneHolds ==
    ASSUME IInv, NEW c \in Clients, FreshDone(c)
    PROVE  IInv'
<1>1. /\ op[c].seen \in Header /\ Known(op[c].seen) /\ op[c].seen.check \in Check \union {NoCheck}
  BY SeenTypes DEF FreshDone, At, Seeing
<1>2. OtherTypes'
  BY <1>1, PublishTypes DEF FreshDone, IInv, TypeOK, OtherTypes
<1>. QED
  BY <1>1, <1>2, InstallHolds DEF FreshDone

LEMMA UnlockCheckHolds ==
    ASSUME IInv, NEW c \in Clients, UnlockCheck(c)
    PROVE  IInv'
<1>. DEFINE seen == op[c].seen
            NP == [auth : Check \union {NoCheck}, current : Check \union {NoCheck}]
<1>1. seen \in Header /\ Known(seen) /\ seen.check \in Check \union {NoCheck}
  BY SeenTypes DEF UnlockCheck, At, Seeing
<1>2. Finish(c) /\ UNCHANGED <<header, last, used, epoch, blob, remember, excused>>
  BY DEF UnlockCheck
<1>3. CASE op[c].phrase # seen.phrase
  <2>1. UNCHANGED <<open, held, verifier, pending, bounds>>
    BY <1>3 DEF UnlockCheck
  <2>2. OtherTypes'
    BY <1>2, <2>1, TypesKept
  <2>. QED
    BY <1>2, <2>1, <2>2, FinishStep
<1>4. CASE op[c].phrase = seen.phrase
  <2>1. Install(c, seen, seen.check)
    BY <1>4 DEF UnlockCheck
  <2>2. pending' \in [Clients -> NP]
    <3>1. pending' = pending \/ pending' = [pending EXCEPT ![c] = NoPending]
      BY <1>4 DEF UnlockCheck
    <3>. QED
      BY <3>1 DEF IInv, TypeOK, NoPending
  <2>3. \/ UNCHANGED <<verifier, bounds>> \/ \E b : Publish(seen.check, b)
    BY <1>4 DEF UnlockCheck
  <2>4. /\ verifier' \in Check \union {NoCheck}
        /\ calls' \in 0..MaxCalls /\ faults' \in 0..MaxFaults
    BY <1>1, <2>3, PublishTypes DEF IInv, TypeOK, bounds
  <2>5. OtherTypes'
    BY <1>2, <2>2, <2>4 DEF IInv, TypeOK, OtherTypes
  <2>. QED
    BY <1>1, <1>2, <2>1, <2>5, InstallHolds
<1>. QED
  BY <1>3, <1>4

LEMMA UnlockRememberedHolds ==
    ASSUME IInv, NEW c \in Clients, UnlockRemembered(c)
    PROVE  IInv'
<1>1. /\ op[c].seen \in Header /\ Known(op[c].seen) /\ remember[c].auth \in Check \union {NoCheck}
  BY SeenTypes DEF UnlockRemembered, At, Seeing, IInv, TypeOK
<1>2. Finish(c) /\ UNCHANGED <<header, last, used, verifier, epoch, blob, pending, excused>>
      /\ UNCHANGED bounds
  BY DEF UnlockRemembered, store
<1>3. CASE StaleRecord(c, op[c].seen)
  <2>1. remember' \in [Clients -> [vault : Vaults \union {NoVault}, epoch : Nat,
                                  auth : Check \union {NoCheck}]]
        /\ UNCHANGED <<open, held>>
    BY <1>3 DEF UnlockRemembered, NoRecord, IInv, TypeOK
  <2>2. OtherTypes'
    BY <1>2, <2>1 DEF IInv, TypeOK, OtherTypes, bounds
  <2>. QED
    BY <1>2, <2>1, <2>2, FinishStep
<1>4. CASE ~StaleRecord(c, op[c].seen)
  <2>1. OtherTypes'
    BY <1>2, <1>4, TypesKept DEF UnlockRemembered
  <2>. QED
    BY <1>1, <1>2, <1>4, <2>1, InstallHolds DEF UnlockRemembered
<1>. QED
  BY <1>3, <1>4

\* The AUTH of the wrapping held replaces the one kept for requests.
LEMMA ChangeDoneHolds ==
    ASSUME IInv, NEW c \in Clients, ChangeDone(c)
    PROVE  IInv'
<1>. DEFINE auth == held[c].head.check
            s == op[c].seen.check
            x == IF op[c].stale THEN held[c] ELSE [held[c] EXCEPT !.auth = auth]
            p == IF verifier' = auth THEN NoPending ELSE [auth |-> auth, current |-> s]
<1>1. auth \in Check \union {NoCheck} /\ s \in Check \union {NoCheck} /\ held[c] \in HeldType
      /\ ClientOK(op[c], held[c].head, open[c]) /\ open[c] \in BOOLEAN
  BY ClientTypes DEF Op, Header, HeldType
<1>2. x \in HeldType /\ x.head = held[c].head
  BY <1>1 DEF HeldType
<1>3. held' = [held EXCEPT ![c] = x]
  BY DEF ChangeDone, IInv, TypeOK
<1>4. p \in [auth : Check \union {NoCheck}, current : Check \union {NoCheck}]
  BY <1>1 DEF NoPending
<1>5. pending' = [pending EXCEPT ![c] = p] /\ Publish(auth, s)
  BY DEF ChangeDone
<1>. HIDE DEF p, x, auth, s
<1>6. OtherTypes'
  <2>1. pending' \in [Clients -> [auth : Check \union {NoCheck}, current : Check \union {NoCheck}]]
    BY <1>4, <1>5 DEF IInv, TypeOK
  <2>. QED
    BY <1>1, <1>5, <2>1, PublishTypes DEF ChangeDone, IInv, TypeOK, OtherTypes
<1>7. ClientOK(NoOp, x.head, open[c])
  BY <1>1, <1>2, FinishedOK DEF ClientOK
<1>8. open' = [open EXCEPT ![c] = open[c]]
  BY DEF ChangeDone, IInv, TypeOK
<1>. QED
  BY <1>1, <1>2, <1>3, <1>6, <1>7, <1>8, NoOpType, ClientStep DEF ChangeDone, Finish

LEMMA RetryVerifierHolds ==
    ASSUME IInv, NEW c \in Clients, RetryVerifier(c)
    PROVE  IInv'
<1>1. Finish(c) /\ UNCHANGED <<header, last, used, epoch, blob, open, held, remember, excused>>
  BY DEF RetryVerifier
<1>2. pending[c].auth \in Check \union {NoCheck}
  BY DEF IInv, TypeOK
<1>3. pending' \in [Clients -> [auth : Check \union {NoCheck}, current : Check \union {NoCheck}]]
  <2>1. pending' = pending \/ pending' = [pending EXCEPT ![c] = NoPending]
    BY DEF RetryVerifier
  <2>. QED
    BY <2>1 DEF IInv, TypeOK, NoPending
<1>4. \/ UNCHANGED <<verifier, bounds>> \/ Publish(pending[c].auth, pending[c].current)
  BY DEF RetryVerifier
<1>5. OtherTypes'
  BY <1>1, <1>2, <1>3, <1>4, PublishTypes DEF IInv, TypeOK, OtherTypes, bounds
<1>. QED
  BY <1>1, <1>5, FinishStep

LEMMA RefreshIndexHolds ==
    ASSUME IInv, NEW c \in Clients, RefreshIndex(c)
    PROVE  IInv'
<1>0. /\ ClientOK(op[c], held[c].head, open[c]) /\ open[c] \in BOOLEAN /\ held[c] \in HeldType
      /\ Finish(c) /\ UNCHANGED <<header, last, used, verifier, epoch, blob, remember, excused>>
      /\ UNCHANGED bounds /\ header \in Header
  BY ClientTypes DEF RefreshIndex, store, HeldType
<1>1. CASE ~open[c]
  <2>1. OtherTypes'
    BY <1>0, <1>1, TypesKept DEF RefreshIndex
  <2>. QED
    BY <1>0, <1>1, <2>1, FinishStep DEF RefreshIndex
<1>2. CASE open[c] /\ (Changed(c) \/ header.version < held[c].head.version)
  <2>1. LockNow(c) /\ UNCHANGED held
    BY <1>2 DEF RefreshIndex
  <2>2. OtherTypes'
    BY <1>0, <2>1, LockTypes
  <2>3. ClientOK(NoOp, held[c].head, FALSE)
    BY <1>0, FinishedOK DEF ClientOK
  <2>4. open' = [open EXCEPT ![c] = FALSE] /\ held' = [held EXCEPT ![c] = held[c]]
    BY <2>1 DEF LockNow, IInv, TypeOK
  <2>. QED
    BY <1>0, <2>2, <2>3, <2>4, NoOpType, ClientStep DEF Finish
<1>3. CASE open[c] /\ ~(Changed(c) \/ header.version < held[c].head.version)
  <2>. DEFINE x == [held[c] EXCEPT !.head = header]
  <2>1. held' = [held EXCEPT ![c] = x] /\ UNCHANGED <<open, pending>>
    BY <1>3 DEF RefreshIndex, Sees
  <2>2. x \in HeldType /\ x.head = header
    BY <1>0 DEF HeldType
  <2>3. OtherTypes'
    BY <1>0, <2>1, TypesKept
  <2>4. Known(header) /\ header # NoHeader
    BY <1>3, HeldKnown, HeaderKnown DEF Changed
  <2>5. HeldIsKnown(NoOp, header, TRUE)
    BY <2>4 DEF HeldIsKnown, NoOp, Seeing
  <2>6. ClientOK(NoOp, x.head, open[c])
    BY <1>3, <2>2, <2>5, FinishedOK
  <2>7. open' = [open EXCEPT ![c] = open[c]]
    BY <2>1 DEF IInv, TypeOK
  <2>. HIDE DEF x
  <2>. QED
    BY <1>0, <2>1, <2>2, <2>3, <2>6, <2>7, NoOpType, ClientStep DEF Finish
<1>. QED
  BY <1>1, <1>2, <1>3

-----------------------------------------------------------------------------
\* Lock, the remember record, crashes.

LEMMA LockHolds ==
    ASSUME IInv, NEW c \in Clients, Lock(c)
    PROVE  IInv'
<1>. DEFINE b == op[c].pc # "idle"
            n == [op[c] EXCEPT !.stale = b]
            x == IF b THEN held[c] ELSE NoHeld
<1>0. /\ op[c] \in Op /\ OpShape(op[c]) /\ ClientOK(op[c], held[c].head, open[c])
      /\ held[c] \in HeldType /\ op \in [Clients -> Op] /\ open[c] \in BOOLEAN
  BY ClientTypes DEF HeldType, IInv, TypeOK
<1>1. /\ op' = [op EXCEPT ![c] = n] /\ open' = [open EXCEPT ![c] = FALSE]
      /\ UNCHANGED <<header, last, used, blob, excused>>
  BY <1>0 DEF Lock, LockNow, At, store
<1>2. held' = [held EXCEPT ![c] = x]
  BY DEF Lock, At
<1>3. OtherTypes'
  BY LockTypes DEF Lock, store
<1>4. b \in BOOLEAN /\ b = (op[c].pc # "idle")
  OBVIOUS
<1>5. x \in HeldType /\ x = (IF b THEN held[c] ELSE NoHeld) /\ NoHeld.head = NoHeader
  BY <1>0, NoHeaderType DEF NoHeld, HeldType
<1>. HIDE DEF b, x
<1>6. /\ n \in Op /\ n.pc = op[c].pc /\ SameCall(op[c], n) /\ n.index = op[c].index
      /\ n.seen = op[c].seen /\ n.existed = op[c].existed /\ n.doubt = op[c].doubt
  BY <1>0, <1>4 DEF Op, SameCall
<1>. HIDE DEF n
<1>7. OpShape(n)
  BY <1>0, <1>6 DEF OpShape, Arguments, Points, SameCall
<1>8. CASE b
  <2>1. PushIsMutation(n, held[c].head)
    BY <1>0, <1>6 DEF ClientOK, PushIsMutation, SameCall, Mutated, Refuses, Skips
  <2>2. HeldIsKnown(n, held[c].head, FALSE) /\ ChangeProved(n, held[c].head) /\ SlotsTracked(n, held[c].head)
    BY <1>0, <1>6 DEF ClientOK, HeldIsKnown, ChangeProved, SlotsTracked, SameCall, Seeing
  <2>3. ClientOK(n, x.head, FALSE)
    BY <1>5, <1>7, <1>8, <2>1, <2>2 DEF ClientOK
  <2>. QED
    BY <1>1, <1>2, <1>3, <1>5, <1>6, <2>3, ClientStep
<1>9. CASE ~b
  <2>1. ClientOK(n, NoHeader, FALSE)
    BY <1>4, <1>6, <1>7, <1>9
    DEF ClientOK, HeldIsKnown, PushIsMutation, ChangeProved, SlotsTracked, Holding, Seeing
  <2>. QED
    BY <1>1, <1>2, <1>3, <1>5, <1>6, <1>9, <2>1, ClientStep
<1>. QED
  BY <1>4, <1>8, <1>9

LEMMA RememberHolds ==
    ASSUME IInv, NEW c \in Clients, Remember(c)
    PROVE  IInv'
<1>. DEFINE r == [vault |-> held[c].head.vault, epoch |-> held[c].head.epoch, auth |-> held[c].auth]
<1>0. /\ op[c] \in Op /\ ClientOK(op[c], held[c].head, open[c])
      /\ held[c] \in [head : Header, auth : Check \union {NoCheck}]
  BY ClientTypes
<1>1. r \in [vault : Vaults \union {NoVault}, epoch : Nat, auth : Check \union {NoCheck}]
  BY <1>0 DEF Header
<1>2. remember' = [remember EXCEPT ![c] = r]
  BY DEF Remember
<1>. HIDE DEF r
<1>3. OtherTypes'
  BY <1>1, <1>2, VaultAssumption DEF Remember, IInv, TypeOK, OtherTypes, store
<1>4. op' = [op EXCEPT ![c] = op[c]] /\ UNCHANGED <<header, last, used, blob, excused, open, held>>
  BY DEF Remember, store, IInv, TypeOK
<1>. QED
  BY <1>0, <1>3, <1>4, OpStep

LEMMA CrashHolds ==
    ASSUME IInv, NEW c \in Clients, Crash(c)
    PROVE  IInv'
<1>1. NoHeld \in HeldType /\ NoHeld.head = NoHeader
  BY NoHeaderType DEF NoHeld, HeldType
<1>2. OtherTypes'
  BY LockTypes DEF Crash, store
<1>3. HeldIsKnown(NoOp, NoHeader, FALSE)
  BY DEF HeldIsKnown, NoOp, Seeing, Holding
<1>4. ClientOK(NoOp, NoHeld.head, FALSE)
  BY <1>1, <1>3, FinishedOK
<1>. QED
  BY <1>1, <1>2, <1>4, NoOpType, ClientStep DEF Crash, Finish, LockNow, store

-----------------------------------------------------------------------------
\* Key slots.

\* Writing one slot excuses its key whenever another client works on it.
LEMMA SetBlobSlots ==
    ASSUME IInv, NEW c \in Clients, NEW k \in Keys, NEW v \in Vaults \union {NoVault},
           SetBlob(c, k, v), UNCHANGED <<header, last, used>>,
           v = held[c].head.vault \/ k \notin header.index.keys \/ Overlap(c, k)
    PROVE  /\ blob' \in [Keys -> Vaults \union {NoVault}] /\ excused' \subseteq Keys
           /\ HeaderStep /\ SlotsLeft(c) /\ OnlyOverlapLosesKeys'
           /\ blob'[k] = v
<1>1. /\ blob \in [Keys -> Vaults \union {NoVault}] /\ excused \subseteq Keys
      /\ \A j \in Keys : j # k => blob'[j] = blob[j] /\ (j \in excused' <=> j \in excused)
      /\ blob'[k] = v /\ (k \in excused' <=> Overlap(c, k))
      /\ blob' \in [Keys -> Vaults \union {NoVault}] /\ excused' \subseteq Keys
  BY DEF IInv, TypeOK, SetBlob
<1>2. HeaderStep
  BY DEF HeaderStep
<1>3. SlotsLeft(c)
  <2>. SUFFICES ASSUME NEW d \in Clients \ {c}, op[d].kind = "addKey"
                PROVE  \/ op[d].key \in excused'
                       \/ blob'[op[d].key] = blob[op[d].key] /\ op[d].key \notin excused
    BY DEF SlotsLeft
  <2>1. op[d].key \in Keys
    BY ClientTypes DEF OpShape, Arguments
  <2>2. op[d].key = k => Overlap(c, k)
    BY DEF Overlap
  <2>. QED
    BY <1>1, <2>1, <2>2
<1>4. OnlyOverlapLosesKeys'
  <2>. SUFFICES ASSUME NEW j \in header.index.keys
                PROVE  blob'[j] = header.vault \/ j \in excused'
    BY DEF OnlyOverlapLosesKeys
  <2>1. j \in Keys
    BY DEF IInv, TypeOK, Header, Account!Index
  <2>2. j # k => blob[j] = header.vault \/ j \in excused
    BY DEF IInv, OnlyOverlapLosesKeys
  <2>3. j = k => v = header.vault \/ Overlap(c, k)
    BY DEF Overlap
  <2>. QED
    BY <1>1, <2>1, <2>2, <2>3
<1>. QED
  BY <1>1, <1>2, <1>3, <1>4

\* A step that changes slots of keys and its own operation.
LEMMA SlotStep ==
    ASSUME IInv, NEW c \in Clients, NEW o \in Op, op' = [op EXCEPT ![c] = o], OpShape(o),
           UNCHANGED <<header, last, used, open, held>>, OtherTypes',
           blob' \in [Keys -> Vaults \union {NoVault}], excused' \subseteq Keys,
           SlotsLeft(c), OnlyOverlapLosesKeys',
           \/ o.pc \in {"idle", "wipe"}
           \/ /\ o.pc = "index" /\ o.kind = "addKey" /\ op[c].pc \in Holding
              /\ ~o.existed /\ ~o.doubt => o.key \notin held[c].head.index.keys
              /\ blob'[o.key] = held[c].head.vault
    PROVE  IInv'
<1>1. /\ ClientOK(op[c], held[c].head, open[c]) /\ held[c] \in HeldType /\ open[c] \in BOOLEAN
  BY ClientTypes DEF HeldType
<1>2. PICK x \in HeldType, b \in BOOLEAN : x = held[c] /\ b = open[c]
  BY <1>1
<1>3. held' = [held EXCEPT ![c] = x] /\ open' = [open EXCEPT ![c] = b]
  BY <1>2 DEF IInv, TypeOK
<1>4. /\ x.head = NoHeader \/ Known(x.head)'
      /\ b \/ op[c].pc \in Holding => x.head # NoHeader
  BY <1>1, <1>2 DEF ClientOK, HeldIsKnown, Known, Written, Agrees
<1>5. ClientOK(o, x.head, b)'
  BY <1>2, <1>4
  DEF ClientOK, HeldIsKnown, PushIsMutation, ChangeProved, SlotsTracked, Seeing, Holding
<1>6. HeaderStep
  BY DEF HeaderStep
<1>. QED
  BY <1>3, <1>5, <1>6, AnyStep

LEMMA WriteBlobHolds ==
    ASSUME IInv, NEW c \in Clients, WriteBlob(c)
    PROVE  IInv'
<1>. DEFINE h == held[c].head
            k == op[c].key
<1>0. /\ op[c] \in Op /\ OpShape(op[c]) /\ ClientOK(op[c], h, open[c])
      /\ op[c].kind = "addKey" /\ k \in Keys /\ op[c].pc = "blob"
      /\ h.vault \in Vaults \union {NoVault}
  BY ClientTypes DEF WriteBlob, At, OpShape, Points, Arguments, Header
<1>1. UNCHANGED <<header, last, used, verifier, epoch, pending, remember, open, held>>
  BY DEF WriteBlob, store
<1>2. OtherTypes'
  BY <1>1, TypesKept DEF WriteBlob
<1>3. SetBlob(c, k, h.vault)
  BY DEF WriteBlob
<1>4. /\ blob' \in [Keys -> Vaults \union {NoVault}] /\ excused' \subseteq Keys
      /\ SlotsLeft(c) /\ OnlyOverlapLosesKeys' /\ blob'[k] = h.vault
  BY <1>0, <1>1, <1>3, SetBlobSlots
<1>7. CASE Go(c, "index")
  <2>. DEFINE n == [op[c] EXCEPT !.pc = "index"]
  <2>1. op' = [op EXCEPT ![c] = n]
    BY <1>7, GoIsMove
  <2>2. /\ n \in Op /\ n.pc = "index" /\ SameCall(op[c], n) /\ n.index = op[c].index
        /\ n.existed = op[c].existed /\ n.doubt = op[c].doubt
    BY <1>0 DEF Op, Pcs, SameCall
  <2>. HIDE DEF n
  <2>3. OpShape(n)
    BY <1>0, <2>2 DEF OpShape, Arguments, Points, SameCall, IndexKinds
  <2>4. /\ n.kind = "addKey" /\ op[c].pc \in Holding /\ blob'[n.key] = held[c].head.vault
        /\ ~n.existed /\ ~n.doubt => n.key \notin held[c].head.index.keys
    BY <1>0, <1>4, <2>2 DEF ClientOK, SlotsTracked, SameCall, Holding
  <2>. QED
    BY <1>1, <1>2, <1>4, <2>1, <2>2, <2>3, <2>4, SlotStep
<1>8. CASE Finish(c)
  <2>1. NoOp.pc = "idle"
    BY DEF NoOp
  <2>. QED
    BY <1>1, <1>2, <1>4, <1>8, <2>1, NoOpType, SlotStep DEF Finish
<1>. QED
  BY <1>7, <1>8 DEF WriteBlob

LEMMA DeleteBlobHolds ==
    ASSUME IInv, NEW c \in Clients, DeleteBlob(c)
    PROVE  IInv'
<1>. DEFINE h == held[c].head
            k == op[c].key
<1>0. /\ op[c] \in Op /\ OpShape(op[c]) /\ ClientOK(op[c], h, open[c])
      /\ k \in Keys /\ op[c].pc \in {"undo", "drop"}
  BY ClientTypes DEF DeleteBlob, At, OpShape, Points, Arguments
<1>1. UNCHANGED <<header, last, used, verifier, epoch, pending, remember, open, held>>
  BY DEF DeleteBlob, store
<1>2. OtherTypes'
  BY <1>1, TypesKept DEF DeleteBlob
<1>3. Known(h)
  BY <1>0, HeldKnown DEF Holding
<1>4. k \notin header.index.keys \/ Overlap(c, k)
  <2>1. ~Overlap(c, k) => h = header /\ ~op[c].doubt
    BY <1>3 DEF Overlap, Known, Agrees
  <2>2. ~op[c].doubt => k \notin h.index.keys
    BY <1>0 DEF ClientOK, SlotsTracked, OpShape, Points
  <2>. QED
    BY <2>1, <2>2
<1>5. /\ blob' \in [Keys -> Vaults \union {NoVault}] /\ excused' \subseteq Keys
      /\ SlotsLeft(c) /\ OnlyOverlapLosesKeys'
  BY <1>0, <1>1, <1>4, SetBlobSlots DEF DeleteBlob
<1>6. NoOp.pc = "idle"
  BY DEF NoOp
<1>. QED
  BY <1>1, <1>2, <1>5, <1>6, NoOpType, SlotStep DEF DeleteBlob, Finish

LEMMA WipeOneHolds ==
    ASSUME IInv, NEW c \in Clients, WipeOne(c)
    PROVE  IInv'
<1>0. op[c] \in Op /\ OpShape(op[c]) /\ op[c].wipe \subseteq Keys /\ op \in [Clients -> Op]
  BY ClientTypes DEF Op, IInv, TypeOK
<1>1. UNCHANGED <<header, last, used, verifier, epoch, pending, remember, open, held>>
  BY DEF WipeOne, store
<1>2. OtherTypes'
  BY <1>1, TypesKept DEF WipeOne
<1>3. PICK k \in op[c].wipe : /\ blob' = [blob EXCEPT ![k] = NoVault]
                              /\ excused' = excused \union {k}
                              /\ op' = [op EXCEPT ![c].wipe = @ \ {k}]
  BY DEF WipeOne
<1>. DEFINE w == op[c].wipe \ {k}
            n == [op[c] EXCEPT !.wipe = w]
<1>4. op' = [op EXCEPT ![c] = n] /\ w \subseteq Keys
  BY <1>0, <1>3
<1>. HIDE DEF w
<1>5. n \in Op /\ n.pc = op[c].pc /\ SameCall(op[c], n) /\ n.index = op[c].index
      /\ n.existed = op[c].existed /\ n.doubt = op[c].doubt
  BY <1>0, <1>4 DEF Op, SameCall
<1>. HIDE DEF n
<1>6. OpShape(n) /\ n.pc = "wipe"
  BY <1>0, <1>5 DEF WipeOne, At, OpShape, Arguments, Points, SameCall
<1>7. /\ blob' \in [Keys -> Vaults \union {NoVault}] /\ excused' \subseteq Keys
      /\ \A j \in Keys : j \in excused' \/ (blob'[j] = blob[j] /\ j \notin excused)
      /\ excused \subseteq excused'
  BY <1>0, <1>3 DEF IInv, TypeOK
<1>8. SlotsLeft(c)
  <2>1. \A d \in Clients : op[d].kind = "addKey" => op[d].key \in Keys
    BY ClientTypes DEF OpShape, Arguments
  <2>. QED
    BY <1>7, <2>1 DEF SlotsLeft
<1>9. OnlyOverlapLosesKeys'
  <2>1. header.index.keys \subseteq Keys
    BY DEF IInv, TypeOK, Header, Account!Index
  <2>. QED
    BY <1>1, <1>7, <2>1 DEF IInv, OnlyOverlapLosesKeys
<1>. QED
  BY <1>1, <1>2, <1>4, <1>5, <1>6, <1>7, <1>8, <1>9, SlotStep

-----------------------------------------------------------------------------
\* Header writes.

\* A write the service accepts, from a header h.
LEMMA PutStep ==
    ASSUME IInv, ~VersionsRestart, NEW h \in Header, Put(h),
           used \subseteq used', used' \subseteq Vaults, h.vault \in used',
           h.vault = header.vault \/ h.vault \notin used,
           h.check \in Check,
           \/ h.check = header.check /\ h.phrase = header.phrase /\ h.check[2] <= last
           \/ h.check[2] = last + 1
    PROVE  /\ HeaderStep /\ Known(header)' /\ header' # NoHeader /\ header' \in Header
           /\ header'.vault = h.vault /\ header'.phrase = h.phrase /\ header'.index = h.index
           /\ header'.check = h.check
<1>1. last \in Nat /\ last + 1 \in Nat /\ header' = [h EXCEPT !.version = last + 1] /\ last' = last + 1
  BY DEF Put, NextVersion, IInv, TypeOK
<1>2. /\ header' \in Header /\ header'.vault = h.vault /\ header'.phrase = h.phrase
      /\ header'.index = h.index /\ header'.check = h.check /\ header'.version = last'
  BY <1>1 DEF Header
<1>3. header'.check[2] <= last' /\ header'.check \in Check
  BY <1>1, <1>2 DEF Check
<1>4. HeaderStep
  BY <1>1, <1>2, <1>3 DEF HeaderStep
<1>5. Written(header)'
  BY <1>1, <1>2, <1>3 DEF Written
<1>6. Known(header)'
  BY <1>5 DEF Known, Agrees
<1>7. header' # NoHeader
  BY <1>1, <1>2 DEF NoHeader
<1>. QED
  BY <1>2, <1>4, <1>6, <1>7

\* What is left to show of a step that wrote the header.
LEMMA WriteStep ==
    ASSUME IInv, NEW c \in Clients, NEW o \in Op, NEW x \in HeldType,
           op' = [op EXCEPT ![c] = o], held' = [held EXCEPT ![c] = x], OpShape(o),
           UNCHANGED <<open, blob, excused>>, OtherTypes', HeaderStep,
           OnlyOverlapLosesKeys', Known(header)', header' # NoHeader,
           x = held[c] \/ x.head = header',
           \/ o.pc = "idle"
           \/ o.pc = "publish" /\ o.seen = header'
           \/ op[c].pc \in Holding /\ \/ o.pc = "drop" /\ o.key \notin x.head.index.keys
                                      \/ o.pc = "undo" /\ o.doubt
                                      \/ o.pc = "republish"
    PROVE  IInv'
<1>1. /\ ClientOK(op[c], held[c].head, open[c]) /\ held[c].head \in Header /\ open[c] \in BOOLEAN
  BY ClientTypes
<1>2. PICK b \in BOOLEAN : b = open[c]
  BY <1>1
<1>3. open' = [open EXCEPT ![c] = b]
  BY <1>2 DEF IInv, TypeOK
<1>4. /\ x.head = NoHeader \/ Known(x.head)'
      /\ b \/ op[c].pc \in Holding => x.head # NoHeader
  <2>1. CASE x = held[c]
    <3>1. PICK h \in Header : h = held[c].head
      BY <1>1
    <3>2. h = NoHeader \/ Known(h)'
      BY <1>1, <3>1, KnownKept DEF ClientOK, HeldIsKnown
    <3>3. h = x.head
      BY <2>1, <3>1
    <3>. QED
      BY <1>1, <1>2, <2>1, <3>1, <3>2, <3>3 DEF ClientOK, HeldIsKnown
  <2>2. CASE x.head = header'
    BY <2>2 DEF Known, Written, Agrees
  <2>. QED
    BY <2>1, <2>2
<1>5. o.pc = "publish" => Known(o.seen)'
  BY DEF Known, Written, Agrees, Holding
<1>6. HeldIsKnown(o, x.head, b)'
  BY <1>4, <1>5 DEF HeldIsKnown, Holding, Seeing
<1>7. PushIsMutation(o, x.head)' /\ SlotsTracked(o, x.head)' /\ OpShape(o)'
  BY DEF PushIsMutation, SlotsTracked
<1>8. ChangeProved(o, x.head)'
  BY DEF ChangeProved, Seeing, OpShape, Points
<1>9. ClientOK(o, x.head, b)'
  BY <1>6, <1>7, <1>8 DEF ClientOK
<1>10. SlotsLeft(c)
  BY DEF SlotsLeft
<1>11. blob' \in [Keys -> Vaults \union {NoVault}] /\ excused' \subseteq Keys
  BY DEF IInv, TypeOK
<1>. QED
  BY <1>3, <1>9, <1>10, <1>11, AnyStep

\* A base that is accepted names the header held: they are the same.
LEMMA AcceptedIsHeld ==
    ASSUME IInv, NEW c \in Clients, op[c].pc \in Holding, Accepts(held[c].head.version)
    PROVE  /\ held[c].head = header /\ Known(header) /\ header.vault # NoVault
           /\ header \in Header /\ header.vault \in used /\ header.check \in Check
           /\ header.check[2] <= last
  BY HeldKnown DEF Accepts, Known, Agrees, Written, IInv, TypeOK

\* An index write applies its operation to the index in the slot.
LEMMA ResealedIsMutated ==
    ASSUME IInv, NEW c \in Clients, op[c].pc = "push", Accepts(held[c].head.version)
    PROVE  /\ held[c].head = header /\ Resealed(c) = [header EXCEPT !.index = Mutated(op[c], header.index)]
           /\ Resealed(c) \in Header /\ Resealed(c).index = Mutated(op[c], header.index)
           /\ Resealed(c).vault = header.vault /\ Resealed(c).phrase = header.phrase
           /\ Resealed(c).check = header.check /\ Resealed(c).epoch = header.epoch
           /\ ~Refuses(op[c], header.index) /\ op[c].kind \in IndexKinds
           /\ header.index \in Account!Index
<1>1. held[c].head = header /\ header \in Header
  BY AcceptedIsHeld DEF Holding
<1>2. /\ op[c].index = Mutated(op[c], header.index) /\ ~Refuses(op[c], header.index)
      /\ op[c].kind \in IndexKinds /\ op[c].index \in Account!Index /\ header.index \in Account!Index
  BY <1>1, ClientTypes DEF ClientOK, PushIsMutation, OpShape, Points
<1>. QED
  BY <1>1, <1>2 DEF Resealed, Header

LEMMA PushSteps ==
    ASSUME IInv, ~VersionsRestart, NEW c \in Clients, op[c].pc = "push",
           Accepts(held[c].head.version), Put(Resealed(c)), UNCHANGED <<used, blob, excused>>
    PROVE  /\ HeaderStep /\ Known(header)' /\ header' # NoHeader /\ header' \in Header
           /\ header'.vault = header.vault /\ header'.phrase = header.phrase
           /\ header'.index = Mutated(op[c], header.index) /\ header'.check = header.check
           /\ OnlyOverlapLosesKeys'
<1>. DEFINE r == Resealed(c)
<1>1. /\ held[c].head = header /\ r \in Header /\ r.index = Mutated(op[c], header.index)
      /\ r.vault = header.vault /\ r.phrase = header.phrase /\ r.check = header.check
      /\ op[c].kind \in IndexKinds /\ header.index \in Account!Index
  BY ResealedIsMutated
<1>2. header.vault \in used /\ header.check \in Check /\ header.check[2] <= last
  BY AcceptedIsHeld DEF Holding
<1>3. used \subseteq used' /\ used' \subseteq Vaults /\ Put(r)
  BY DEF IInv, TypeOK
<1>. HIDE DEF r
<1>4. /\ HeaderStep /\ Known(header)' /\ header' # NoHeader /\ header' \in Header
      /\ header'.vault = header.vault /\ header'.phrase = header.phrase
      /\ header'.index = Mutated(op[c], header.index) /\ header'.check = header.check
  BY <1>1, <1>2, <1>3, PutStep
<1>5. OnlyOverlapLosesKeys'
  <2>. SUFFICES ASSUME NEW j \in header'.index.keys
                PROVE  blob[j] = header.vault \/ j \in excused
    BY <1>4 DEF OnlyOverlapLosesKeys
  <2>1. j \in header.index.keys \/ (op[c].kind = "addKey" /\ j = op[c].key)
    BY <1>1, <1>4, ClientTypes, MutatedKeys
  <2>2. op[c].kind = "addKey" => blob[op[c].key] = header.vault \/ op[c].key \in excused
    BY <1>1, ClientTypes DEF ClientOK, SlotsTracked
  <2>. QED
    BY <2>1, <2>2 DEF IInv, OnlyOverlapLosesKeys
<1>. QED
  BY <1>4, <1>5

LEMMA PushIndexHolds ==
    ASSUME IInv, ~VersionsRestart, NEW c \in Clients, PushIndex(c)
    PROVE  IInv'
<1>0. /\ op[c].pc = "push" /\ Accepts(held[c].head.version) /\ Put(Resealed(c)) /\ op[c] \in Op
      /\ OpShape(op[c]) /\ op[c].kind \in IndexKinds /\ held[c] \in HeldType
      /\ header.index \in Account!Index
      /\ UNCHANGED <<used, verifier, epoch, blob, open, pending, remember, excused>> /\ UNCHANGED bounds
  BY ClientTypes DEF PushIndex, At, OpShape, Points, HeldType
<1>1. /\ HeaderStep /\ Known(header)' /\ header' # NoHeader /\ header' \in Header
      /\ header'.index = Mutated(op[c], header.index) /\ OnlyOverlapLosesKeys'
  BY <1>0, PushSteps
<1>2. OtherTypes'
  BY <1>0, TypesKept
<1>. DEFINE x == [held[c] EXCEPT !.head = header']
<1>3. held' = [held EXCEPT ![c] = x]
  BY DEF PushIndex, Sees
<1>4. x \in HeldType /\ x.head = header'
  BY <1>0, <1>1 DEF HeldType
<1>5. PICK o \in Op : /\ op' = [op EXCEPT ![c] = o] /\ OpShape(o)
                       /\ \/ o = NoOp
                          \/ /\ o.pc = "drop" /\ o.kind = op[c].kind /\ o.key = op[c].key
                             /\ o.kind \in {"removeKey", "rotateKey"}
  BY <1>0, IndexWrittenOK DEF PushIndex
<1>. HIDE DEF x
<1>6. o # NoOp => o.key \notin x.head.index.keys
  BY <1>0, <1>1, <1>4, <1>5, MutatedKeys
<1>7. NoOp.pc = "idle" /\ op[c].pc \in Holding
  BY <1>0 DEF NoOp, Holding
<1>. QED
  BY <1>0, <1>1, <1>2, <1>3, <1>4, <1>5, <1>6, <1>7, WriteStep

LEMMA PushIndexLostHolds ==
    ASSUME IInv, ~VersionsRestart, NEW c \in Clients, PushIndexLost(c)
    PROVE  IInv'
<1>0. /\ op[c].pc = "push" /\ Accepts(held[c].head.version) /\ Put(Resealed(c))
      /\ op[c].kind \in IndexKinds /\ held[c] \in HeldType
      /\ UNCHANGED <<used, verifier, epoch, blob, open, held, pending, remember, excused>> /\ Fault
      /\ held' = [held EXCEPT ![c] = held[c]]
  BY ClientTypes DEF PushIndexLost, At, OpShape, Points, HeldType, IInv, TypeOK
<1>1. /\ HeaderStep /\ Known(header)' /\ header' # NoHeader /\ OnlyOverlapLosesKeys'
  BY <1>0, PushSteps
<1>2. OtherTypes'
  BY <1>0, TypesKept
<1>5. PICK o \in Op : /\ op' = [op EXCEPT ![c] = o] /\ OpShape(o)
                      /\ \/ o = NoOp
                         \/ /\ o.pc = "undo" /\ o.kind = "addKey" /\ op[c].kind = "addKey"
                            /\ o.key = op[c].key
                            /\ ~op[c].existed /\ o.doubt = (op[c].doubt \/ TRUE)
  BY <1>0, IndexFailedOK DEF PushIndexLost
<1>7. NoOp.pc = "idle" /\ op[c].pc \in Holding
  BY <1>0 DEF NoOp, Holding
<1>. QED
  BY <1>0, <1>1, <1>2, <1>5, <1>7, WriteStep

\* A passphrase change replaces the wrapping in the slot and nothing else.
LEMMA RewrappedSteps ==
    ASSUME IInv, ~VersionsRestart, NEW c \in Clients, op[c].pc = "repush",
           Accepts(held[c].head.version), Put(Rewrapped(c)), UNCHANGED <<used, blob, excused>>
    PROVE  /\ HeaderStep /\ Known(header)' /\ header' # NoHeader /\ header' \in Header
           /\ header'.vault = header.vault /\ header'.phrase = op[c].next
           /\ header'.index = header.index /\ OnlyOverlapLosesKeys'
           /\ header.vault # NoVault /\ op[c].next \in Phrases
           /\ op[c].phrase = header.phrase /\ op[c].seen.check = header.check
<1>. DEFINE r == Rewrapped(c)
<1>1. /\ held[c].head = header /\ Known(header) /\ header.vault # NoVault
      /\ header \in Header /\ header.vault \in used
  BY AcceptedIsHeld DEF Holding
<1>2. /\ op[c].next \in Phrases /\ op[c].kind = "changePassphrase" /\ last + 1 \in Nat
      /\ header.vault \in Vaults
  BY <1>1, ClientTypes DEF OpShape, Points, Arguments, IInv, TypeOK
<1>3. r = [header EXCEPT !.phrase = op[c].next, !.check = <<header.vault, last + 1>>]
  BY <1>1 DEF Rewrapped, NextVersion
<1>4. <<header.vault, last + 1>> \in Check /\ <<header.vault, last + 1>>[2] = last + 1
  BY <1>2 DEF Check
<1>5. /\ r \in Header /\ r.vault = header.vault /\ r.phrase = op[c].next /\ r.index = header.index
      /\ r.check \in Check /\ r.check[2] = last + 1
  BY <1>1, <1>2, <1>3, <1>4 DEF Header
<1>6. used \subseteq used' /\ used' \subseteq Vaults /\ Put(r) /\ r.vault \in used'
  BY <1>1, <1>5 DEF IInv, TypeOK
<1>. HIDE DEF r
<1>7. /\ HeaderStep /\ Known(header)' /\ header' # NoHeader /\ header' \in Header
      /\ header'.vault = header.vault /\ header'.phrase = op[c].next /\ header'.index = header.index
  BY <1>5, <1>6, PutStep
<1>8. OnlyOverlapLosesKeys'
  BY <1>7 DEF IInv, OnlyOverlapLosesKeys
<1>9. op[c].phrase = header.phrase /\ op[c].seen.check = header.check
  BY <1>1, <1>2, ClientTypes DEF ClientOK, HeldIsKnown, ChangeProved, Seeing, Known, Agrees
<1>. QED
  BY <1>1, <1>2, <1>7, <1>8, <1>9

LEMMA PushRewrappedHolds ==
    ASSUME IInv, ~VersionsRestart, NEW c \in Clients, PushRewrapped(c)
    PROVE  IInv'
<1>0. /\ op[c].pc = "repush" /\ Accepts(held[c].head.version) /\ Put(Rewrapped(c)) /\ op[c] \in Op
      /\ OpShape(op[c]) /\ held[c] \in HeldType
      /\ UNCHANGED <<used, verifier, epoch, blob, open, pending, remember, excused>>
  BY ClientTypes DEF PushRewrapped, At, HeldType
<1>1. /\ HeaderStep /\ Known(header)' /\ header' # NoHeader /\ header' \in Header
      /\ OnlyOverlapLosesKeys'
  BY <1>0, RewrappedSteps
<1>2. OtherTypes'
  BY <1>0, TypesKept DEF PushRewrapped
<1>3. op[c].pc \in Holding /\ NoOp.pc = "idle"
  BY <1>0 DEF Holding, NoOp
<1>4. CASE Go(c, "republish") /\ held' = [held EXCEPT ![c] = Sees(c, header')]
  <2>. DEFINE x == [held[c] EXCEPT !.head = header']
              n == [op[c] EXCEPT !.pc = "republish"]
  <2>1. x \in HeldType /\ x.head = header'
    BY <1>0, <1>1 DEF HeldType
  <2>2. n \in Op /\ n.pc = "republish" /\ SameCall(op[c], n) /\ n.index = op[c].index
    BY <1>0 DEF Op, Pcs, SameCall
  <2>3. op' = [op EXCEPT ![c] = n] /\ held' = [held EXCEPT ![c] = x]
    BY <1>4, GoIsMove DEF Sees
  <2>. HIDE DEF x, n
  <2>4. OpShape(n)
    BY <1>0, <2>2 DEF OpShape, Arguments, Points, SameCall
  <2>. QED
    BY <1>0, <1>1, <1>2, <1>3, <2>1, <2>2, <2>3, <2>4, WriteStep
<1>5. CASE Finish(c) /\ UNCHANGED held
  <2>1. held' = [held EXCEPT ![c] = held[c]]
    BY <1>5 DEF IInv, TypeOK
  <2>. QED
    BY <1>0, <1>1, <1>2, <1>3, <1>5, <2>1, NoOpType, WriteStep DEF Finish
<1>. QED
  BY <1>4, <1>5 DEF PushRewrapped

\* A fresh vault starts without keys, under an id nobody has seen.
LEMMA FreshSteps ==
    ASSUME IInv, ~VersionsRestart, NEW c \in Clients, op[c].pc = "fresh",
           NEW v \in Vaults \ used, Put(FreshHeader(c, v)), used' = used \union {v},
           UNCHANGED <<blob, excused>>
    PROVE  /\ HeaderStep /\ Known(header)' /\ header' # NoHeader /\ header' \in Header
           /\ header'.vault = v /\ header'.phrase \in Phrases
           /\ header'.index \in Account!Index /\ header'.index.keys = {}
           /\ OnlyOverlapLosesKeys'
<1>. DEFINE r == FreshHeader(c, v)
<1>1. /\ op[c].phrase \in Phrases /\ op[c].index \in Account!Index /\ op[c].index.keys = {}
      /\ op[c].seen.epoch \in Nat /\ last + 1 \in Nat
  BY ClientTypes DEF OpShape, Points, Arguments, IInv, TypeOK, Op, Header
<1>2. r = [NoHeader EXCEPT !.vault = v, !.epoch = op[c].seen.epoch, !.phrase = op[c].phrase,
                            !.check = <<v, last + 1>>, !.index = op[c].index]
  BY DEF FreshHeader, NextVersion
<1>3. <<v, last + 1>> \in Check /\ <<v, last + 1>>[2] = last + 1
  BY <1>1 DEF Check
<1>4. /\ r \in Header /\ r.vault = v /\ r.phrase = op[c].phrase /\ r.index = op[c].index
      /\ r.check \in Check /\ r.check[2] = last + 1
  BY <1>1, <1>2, <1>3, NoHeaderType DEF Header
<1>5. used \subseteq used' /\ used' \subseteq Vaults /\ Put(r) /\ r.vault \in used' /\ r.vault \notin used
  BY <1>4 DEF IInv, TypeOK
<1>. HIDE DEF r
<1>6. /\ HeaderStep /\ Known(header)' /\ header' # NoHeader /\ header' \in Header
      /\ header'.vault = v /\ header'.phrase = op[c].phrase /\ header'.index = op[c].index
  BY <1>4, <1>5, PutStep
<1>. QED
  BY <1>1, <1>6 DEF OnlyOverlapLosesKeys

LEMMA WriteFreshHolds ==
    ASSUME IInv, ~VersionsRestart, NEW c \in Clients, WriteFresh(c)
    PROVE  IInv'
<1>0. /\ op[c].pc = "fresh" /\ op[c] \in Op /\ OpShape(op[c]) /\ held[c] \in HeldType
      /\ UNCHANGED <<verifier, epoch, blob, open, held, pending, remember, excused>>
      /\ held' = [held EXCEPT ![c] = held[c]] /\ op \in [Clients -> Op]
  BY ClientTypes DEF WriteFresh, At, HeldType, IInv, TypeOK
<1>1. PICK v \in Vaults \ used : Put(FreshHeader(c, v)) /\ used' = used \union {v}
  BY DEF WriteFresh
<1>2. /\ HeaderStep /\ Known(header)' /\ header' # NoHeader /\ header' \in Header
      /\ OnlyOverlapLosesKeys'
  BY <1>0, <1>1, FreshSteps
<1>3. OtherTypes'
  BY <1>0, TypesKept DEF WriteFresh
<1>4. CASE op' = [op EXCEPT ![c].pc = "publish", ![c].seen = header']
  <2>. DEFINE n == [op[c] EXCEPT !.pc = "publish", !.seen = header']
  <2>1. op' = [op EXCEPT ![c] = n]
    BY <1>0, <1>4
  <2>2. n \in Op /\ n.pc = "publish" /\ n.seen = header' /\ SameCall(op[c], n) /\ n.index = op[c].index
    BY <1>0, <1>2 DEF Op, Pcs, SameCall
  <2>. HIDE DEF n
  <2>3. OpShape(n)
    BY <1>0, <2>2 DEF OpShape, Arguments, Points, SameCall
  <2>. QED
    BY <1>0, <1>2, <1>3, <2>1, <2>2, <2>3, WriteStep
<1>5. CASE Finish(c)
  <2>1. NoOp.pc = "idle"
    BY DEF NoOp
  <2>. QED
    BY <1>0, <1>2, <1>3, <1>5, <2>1, NoOpType, WriteStep DEF Finish
<1>. QED
  BY <1>4, <1>5 DEF WriteFresh

\* The server's reset deletes header and slots together.
LEMMA ServerWipesHolds ==
    ASSUME IInv, NEW c \in Clients, ServerWipes(c)
    PROVE  IInv'
<1>. DEFINE t == [op[c].seen EXCEPT !.epoch = epoch + 1]
            n == [op[c] EXCEPT !.pc = "list", !.seen = t]
<1>0. /\ op[c].pc = "status" /\ op[c] \in Op /\ OpShape(op[c]) /\ held[c] \in HeldType
      /\ op[c].seen \in Header /\ epoch + 1 \in Nat
      /\ held[c].head \in Header /\ open[c] \in BOOLEAN /\ op \in [Clients -> Op]
      /\ ClientOK(op[c], held[c].head, open[c])
  BY ClientTypes DEF ServerWipes, At, HeldType, IInv, TypeOK, Op
<1>1. /\ header' = NoHeader /\ blob' = [k \in Keys |-> NoVault] /\ verifier' = NoCheck
      /\ UNCHANGED <<last, used, open, held, pending, remember, excused>> /\ UNCHANGED bounds
      /\ epoch' = epoch + 1
      /\ op' = [op EXCEPT ![c].pc = "list", ![c].seen.epoch = epoch + 1]
  BY DEF ServerWipes
<1>2. op' = [op EXCEPT ![c] = n]
  BY <1>0, <1>1 DEF Op, Header
<1>3. t \in Header
  BY <1>0 DEF Header
<1>. HIDE DEF t
<1>4. n \in Op /\ n.pc = "list" /\ SameCall(op[c], n) /\ n.index = op[c].index
  BY <1>0, <1>3 DEF Op, Pcs, SameCall
<1>. HIDE DEF n
<1>5. PICK o \in Op, x \in HeldType, b \in BOOLEAN : o = n /\ x = held[c] /\ b = open[c]
  BY <1>0, <1>4
<1>6. OpShape(o) /\ o.pc = "list"
  BY <1>0, <1>4, <1>5 DEF OpShape, Arguments, Points, SameCall
<1>7. HeaderStep /\ SlotsLeft(c) /\ OnlyOverlapLosesKeys'
  BY <1>1, EmptyIndexType DEF HeaderStep, SlotsLeft, OnlyOverlapLosesKeys, NoHeader
<1>8. OtherTypes'
  BY <1>0, <1>1 DEF IInv, TypeOK, OtherTypes, bounds
<1>9. PICK h \in Header : h = x.head
  BY <1>0, <1>5
<1>10. h = NoHeader \/ Known(h)'
  BY <1>0, <1>5, <1>7, <1>9, KnownKept DEF ClientOK, HeldIsKnown
<1>11. ClientOK(o, h, b)'
  BY <1>0, <1>5, <1>6, <1>9, <1>10
  DEF ClientOK, HeldIsKnown, PushIsMutation, ChangeProved, SlotsTracked, Seeing, Holding
<1>12. ClientOK(o, x.head, b)'
  BY <1>9, <1>11
<1>13. blob' \in [Keys -> Vaults \union {NoVault}] /\ excused' \subseteq Keys
  BY <1>1 DEF IInv, TypeOK
<1>14. held' = [held EXCEPT ![c] = x] /\ open' = [open EXCEPT ![c] = b] /\ op' = [op EXCEPT ![c] = o]
  BY <1>1, <1>2, <1>5 DEF IInv, TypeOK
<1>. QED
  BY <1>7, <1>8, <1>12, <1>13, <1>14, AnyStep

-----------------------------------------------------------------------------
\* The invariant.

LEMMA InitHolds ==
    ASSUME Init
    PROVE  IInv
<1>. DEFINE Start ==
        /\ header \in Header /\ last = header.version /\ SlotInv
        /\ used \subseteq Vaults /\ header.index.keys = {}
        /\ open \in [Clients -> BOOLEAN] /\ held \in [Clients -> HeldType]
        /\ \A c \in Clients : \/ held[c].head = NoHeader /\ ~open[c]
                              \/ held[c].head = header /\ Known(header) /\ header # NoHeader
<1>1. Start
  <2>1. CASE /\ header = NoHeader /\ used = {}
             /\ open = [c \in Clients |-> FALSE] /\ held = [c \in Clients |-> NoHeld]
    <3>1. NoHeld \in HeldType /\ NoHeld.head = NoHeader
      BY NoHeaderType DEF NoHeld, HeldType
    <3>2. NoHeader.index.keys = {}
      BY EmptyIndexType DEF NoHeader
    <3>. QED
      BY <2>1, <3>1, <3>2, NoHeaderType DEF Init, SlotInv
  <2>2. ASSUME NEW v \in Vaults, NEW p \in Phrases, header = NewHeader(v, p), used = {v},
               open = [c \in Clients |-> TRUE],
               held = [c \in Clients |-> [head |-> header, auth |-> header.check]]
        PROVE  Start
    <3>1. <<v, 1>> \in Check /\ <<v, 1>>[2] = 1
      BY DEF Check
    <3>2. /\ header \in Header /\ header.version = 1 /\ header.vault = v /\ header.check = <<v, 1>>
          /\ header.index = NoHeader.index /\ NoHeader.index.keys = {}
      BY <2>2, <3>1, NoHeaderType, EmptyIndexType DEF NewHeader, Header, NoHeader
    <3>3. last = 1
      BY <3>2 DEF Init
    <3>4. Written(header) /\ Known(header) /\ header # NoHeader
      BY <2>2, <3>1, <3>2, <3>3 DEF Known, Written, Agrees, NoHeader
    <3>5. [head |-> header, auth |-> header.check] \in HeldType
      BY <3>1, <3>2 DEF HeldType
    <3>. QED
      BY <2>2, <3>2, <3>3, <3>4, <3>5 DEF SlotInv
  <2>. QED
    BY <2>1, <2>2 DEF Init
<1>2. TypeOK
  <2>1. verifier \in Check \union {NoCheck} /\ epoch \in Nat /\ last \in Nat
    BY <1>1 DEF Init, Header
  <2>2. /\ op \in [Clients -> Op]
        /\ pending \in [Clients -> [auth : Check \union {NoCheck}, current : Check \union {NoCheck}]]
        /\ remember \in [Clients -> [vault : Vaults \union {NoVault}, epoch : Nat,
                                     auth : Check \union {NoCheck}]]
    BY NoOpType DEF Init, NoPending, NoRecord
  <2>3. calls \in 0..MaxCalls /\ faults \in 0..MaxFaults /\ excused \subseteq Keys
        /\ blob \in [Keys -> Vaults \union {NoVault}]
    BY VaultAssumption DEF Init
  <2>. QED
    BY <1>1, <2>1, <2>2, <2>3 DEF TypeOK, HeldType
<1>3. ASSUME NEW c \in Clients PROVE ClientInv(c)
  <2>1. op[c] = NoOp /\ open[c] \in BOOLEAN
    BY <1>1 DEF Init
  <2>2. HeldIsKnown(NoOp, held[c].head, open[c])
    BY <1>1 DEF HeldIsKnown, NoOp, Seeing, Holding
  <2>. QED
    BY <2>1, <2>2, FinishedOK DEF ClientInv
<1>. QED
  BY <1>1, <1>2, <1>3 DEF IInv, OnlyOverlapLosesKeys

LEMMA StutterHolds ==
    ASSUME IInv, UNCHANGED vars
    PROVE  IInv'
  BY DEF vars, IInv, TypeOK, SlotInv, OnlyOverlapLosesKeys, ClientInv, ClientOK, HeldIsKnown,
         PushIsMutation, ChangeProved, SlotsTracked, Known, Written, Agrees

LEMMA StepHolds ==
    ASSUME IInv, ~VersionsRestart, [Next]_vars
    PROVE  IInv'
<1>1. CASE UNCHANGED vars
  BY <1>1, StutterHolds
<1>2. ASSUME NEW c \in Clients, Calling(c) \/ Lock(c) \/ Remember(c) \/ Crash(c) \/ Fails(c)
      PROVE  IInv'
  BY <1>2, CallingHolds, LockHolds, RememberHolds, CrashHolds, FailsHold
<1>3. ASSUME NEW c \in Clients, IndexStep(c)
      PROVE  IInv'
  BY <1>3, SealIndexHolds, PushIndexHolds, PushIndexLostHolds, PushFailuresHold,
     RebaseChangedHolds, RebaseHolds DEF IndexStep
<1>4. ASSUME NEW c \in Clients, BlobStep(c)
      PROVE  IInv'
  BY <1>4, AddStepsHold, WriteBlobHolds, DeleteBlobHolds DEF BlobStep
<1>5. ASSUME NEW c \in Clients, FreshStep(c)
      PROVE  IInv'
  BY <1>5, ResetStepsHold, ServerWipesHolds, WipeOneHolds, WriteFreshHolds, FreshDoneHolds
  DEF FreshStep
<1>6. ASSUME NEW c \in Clients, UnlockStep(c)
      PROVE  IInv'
  BY <1>6, VerifyHolds, PullHeaderHolds, UnlockCheckHolds, UnlockRememberedHolds DEF UnlockStep
<1>7. ASSUME NEW c \in Clients, ChangeStep(c)
      PROVE  IInv'
  BY <1>7, ChangeStartHolds, RewrapHolds, PushRewrappedHolds, PushRewrappedConflictHolds,
     ChangeDoneHolds, RetryVerifierHolds, TrustStartHolds, RefreshIndexHolds DEF ChangeStep
<1>. QED
  BY <1>1, <1>2, <1>3, <1>4, <1>5, <1>6, <1>7 DEF Next

LEMMA Invariance ==
    ASSUME ~VersionsRestart
    PROVE  Spec => []IInv
<1>1. Init => IInv
  BY InitHolds
<1>2. IInv /\ [Next]_vars => IInv'
  BY StepHolds
<1>. QED
  BY <1>1, <1>2, PTL DEF Spec

-----------------------------------------------------------------------------
\* The steps that write the header, and all the others.

LEMMA HeaderWriters ==
    ASSUME [Next]_vars
    PROVE  \/ UNCHANGED <<header, used>>
           \/ \E c \in Clients : \/ PushIndex(c) \/ PushIndexLost(c) \/ PushRewrapped(c)
                                 \/ WriteFresh(c) \/ ServerWipes(c)
<1>1. CASE UNCHANGED vars
  BY <1>1 DEF vars
<1>2. ASSUME NEW c \in Clients, Calling(c)
      PROVE  UNCHANGED <<header, used>>
  <2>1. \A o : Call(c, o) => UNCHANGED <<header, used>>
    BY DEF Call, store
  <2>. QED
    BY <1>2, <2>1 DEF Calling, CallingOpen
<1>3. ASSUME NEW c \in Clients, Lock(c) \/ Remember(c) \/ Crash(c) \/ Fails(c)
      PROVE  UNCHANGED <<header, used>>
  BY <1>3 DEF Lock, Remember, Crash, Fails, store
<1>4. ASSUME NEW c \in Clients, IndexStep(c)
      PROVE  PushIndex(c) \/ PushIndexLost(c) \/ UNCHANGED <<header, used>>
  BY <1>4 DEF IndexStep, SealIndex, PushIndexFails, PushIndexConflict, RebaseChanged, Rebase, store
<1>5. ASSUME NEW c \in Clients, BlobStep(c)
      PROVE  UNCHANGED <<header, used>>
  BY <1>5 DEF BlobStep, AddStart, LookForBlob, WriteBlob, DeleteBlob, store
<1>6. ASSUME NEW c \in Clients, FreshStep(c)
      PROVE  WriteFresh(c) \/ ServerWipes(c) \/ UNCHANGED <<header, used>>
  BY <1>6 DEF FreshStep, CreateStart, ResetStart, ServerDeclines, ListSlots, WipeOne, PullForReset,
     WriteFreshConflict, FreshDone, store
<1>7. ASSUME NEW c \in Clients, UnlockStep(c)
      PROVE  UNCHANGED <<header, used>>
  BY <1>7 DEF UnlockStep, Verify, PullHeader, UnlockCheck, UnlockRemembered, store
<1>8. ASSUME NEW c \in Clients, ChangeStep(c)
      PROVE  PushRewrapped(c) \/ UNCHANGED <<header, used>>
  BY <1>8 DEF ChangeStep, ChangeStart, Rewrap, PushRewrappedConflict, ChangeDone, RetryVerifier,
     TrustStart, RefreshIndex, store
<1>. QED
  BY <1>1, <1>2, <1>3, <1>4, <1>5, <1>6, <1>7, <1>8 DEF Next

\* An accepted index write is an edit of the vault in force.
LEMMA PushIsEdit ==
    ASSUME IInv, ~VersionsRestart, NEW c \in Clients, PushIndex(c) \/ PushIndexLost(c)
    PROVE  Account!Edit
<1>. DEFINE i == header.index
            o == op[c]
<1>0. /\ op[c].pc = "push" /\ Accepts(held[c].head.version) /\ Put(Resealed(c))
      /\ UNCHANGED <<used, blob, excused>>
  BY DEF PushIndex, PushIndexLost, At
<1>1. /\ header'.vault = header.vault /\ header'.phrase = header.phrase
      /\ header'.index = Mutated(o, i)
  BY <1>0, PushSteps
<1>2. header.vault # NoVault /\ held[c].head = header
  BY <1>0, AcceptedIsHeld DEF Holding
<1>3. o \in Op /\ OpShape(o) /\ i \in Account!Index /\ o.kind \in IndexKinds
      /\ ~Refuses(o, i) /\ ~Skips(o, i)
  BY <1>0, <1>2, ClientTypes DEF ClientOK, PushIsMutation, OpShape, Points
<1>. DEFINE Edited == \/ \E k \in Keys : header'.index = Account!WithKey(i, k)
                      \/ \E k \in i.keys : header'.index = Account!WithoutKey(i, k)
                      \/ \E old \in Keys, new \in i.keys :
                           old # new /\ header'.index = Account!Rotated(i, old, new)
                      \/ \E h \in Hosts, k \in i.keys : header'.index = Account!Bound(i, h, k)
                      \/ \E h \in Hosts : header'.index = Account!Bound(i, h, NoKey)
                      \/ \E s \in BOOLEAN : header'.index = Account!WithSync(i, s)
<1>4. o.kind = "addKey" => Edited
  BY <1>1, <1>3 DEF Mutated, OpShape, Arguments
<1>5. o.kind = "removeKey" => Edited
  <2>. SUFFICES ASSUME o.kind = "removeKey" PROVE Edited
    OBVIOUS
  <2>1. header'.index = Account!WithoutKey(i, o.key) /\ header'.index # i
    BY <1>1, <1>3 DEF Mutated, Skips
  <2>2. o.key \in i.keys
    <3>1. o.key \notin i.keys => Account!WithoutKey(i, o.key) = i
      BY <1>3 DEF Account!WithoutKey, Account!Index
    <3>. QED
      BY <2>1, <3>1
  <2>. QED
    BY <2>1, <2>2
<1>6. o.kind = "rotateKey" => Edited
  BY <1>1, <1>3 DEF Mutated, Refuses, OpShape, Arguments
<1>7. o.kind = "bindHost" => Edited
  BY <1>1, <1>3 DEF Mutated, Refuses, OpShape, Arguments
<1>8. o.kind = "unbindHost" => Edited
  BY <1>1, <1>3 DEF Mutated, OpShape, Arguments
<1>9. o.kind = "setSyncPassphrase" => Edited
  BY <1>1, <1>3 DEF Mutated, Op
<1>10. Edited
  BY <1>3, <1>4, <1>5, <1>6, <1>7, <1>8, <1>9 DEF IndexKinds
<1>. QED
  BY <1>0, <1>1, <1>2, <1>10 DEF Account!Edit

\* Every step of the clients is a step of the abstract vault, or none.
LEMMA StepRefines ==
    ASSUME IInv, ~VersionsRestart, [Next]_vars
    PROVE  [Account!Next]_(Account!vars)
<1>1. CASE UNCHANGED <<header, used>>
  BY <1>1 DEF Account!vars
<1>2. ASSUME NEW c \in Clients, PushIndex(c) \/ PushIndexLost(c)
      PROVE  Account!Next
  BY <1>2, PushIsEdit DEF Account!Next
<1>3. ASSUME NEW c \in Clients, PushRewrapped(c)
      PROVE  Account!Next
  <2>1. /\ op[c].pc = "repush" /\ Accepts(held[c].head.version) /\ Put(Rewrapped(c))
        /\ UNCHANGED <<used, blob, excused>>
    BY <1>3 DEF PushRewrapped, At
  <2>2. /\ header'.vault = header.vault /\ header'.phrase \in Phrases
        /\ header'.index = header.index /\ header.vault # NoVault
    BY <2>1, RewrappedSteps
  <2>. QED
    BY <2>1, <2>2 DEF Account!Next, Account!Rephrase
<1>4. ASSUME NEW c \in Clients, WriteFresh(c)
      PROVE  Account!Next
  <2>1. PICK v \in Vaults \ used : Put(FreshHeader(c, v)) /\ used' = used \union {v}
    BY <1>4 DEF WriteFresh
  <2>2. op[c].pc = "fresh" /\ UNCHANGED <<blob, excused>>
    BY <1>4 DEF WriteFresh, At
  <2>3. /\ header'.vault = v /\ header'.phrase \in Phrases
        /\ header'.index \in Account!Index /\ header'.index.keys = {}
    BY <2>1, <2>2, FreshSteps
  <2>. QED
    BY <2>1, <2>3 DEF Account!Next, Account!Fresh
<1>5. ASSUME NEW c \in Clients, ServerWipes(c)
      PROVE  Account!Next
  BY <1>5 DEF ServerWipes, Account!Next, Account!Wipe, NoHeader
<1>. QED
  BY <1>1, <1>2, <1>3, <1>4, <1>5, HeaderWriters

LEMMA InitRefines ==
    ASSUME Init
    PROVE  Account!Init
<1>1. CASE header = NoHeader /\ used = {}
  BY <1>1 DEF NoHeader, Account!Init
<1>2. ASSUME NEW v \in Vaults, NEW p \in Phrases, header = NewHeader(v, p), used = {v}
      PROVE  Account!Init
  <2>1. header.vault = v /\ header.phrase = p /\ header.index = Account!EmptyIndex
    BY <1>2 DEF NewHeader, NoHeader
  <2>. QED
    BY <1>2, <2>1 DEF Account!Init
<1>. QED
  BY <1>1, <1>2 DEF Init

\* However many clients write, lock, crash and retry at once, the account
\* behaves as one vault whose operations are atomic: KeyVaultStore's version
\* bases and re-basing (writeIndex, rebase, changePassphrase, resetVault)
\* implement AccountVault, on a service whose versions do not restart.
THEOREM ClientsActAsOneVault ==
    ASSUME ~VersionsRestart
    PROVE  Spec => ActsAsOneVault
<1>1. Init => Account!Init
  BY InitRefines
<1>2. IInv /\ [Next]_vars => [Account!Next]_(Account!vars)
  BY StepRefines
<1>. QED
  BY <1>1, <1>2, Invariance, PTL DEF Spec, ActsAsOneVault, Account!Spec

\* The base version of a write is the header it was made from: a client that
\* holds the version in the slot holds what is in the slot.
THEOREM HeldIsWhatItNames ==
    ASSUME ~VersionsRestart
    PROVE  Spec => []HoldsWhatItNames
<1>1. IInv => HoldsWhatItNames
  <2>. SUFFICES ASSUME IInv, NEW c \in Clients, held[c].head.version = header.version,
                       header.vault # NoVault
                PROVE  held[c].head = header
    BY DEF HoldsWhatItNames, IInv
  <2>1. held[c].head = NoHeader \/ Known(held[c].head)
    BY ClientTypes DEF ClientOK, HeldIsKnown
  <2>2. header.version # 0
    BY HeaderKnown DEF Known, Written, IInv, TypeOK
  <2>. QED
    BY <2>1, <2>2 DEF Known, Agrees, NoHeader
<1>. QED
  BY <1>1, Invariance, PTL

\* A key named by the index has its slot unless clients overlapped on it:
\* the order of blob and index writes in addKey, removeKey and rotateKey
\* survives every crash, failure, conflict and lock in between.
THEOREM KeysKeepTheirSlots ==
    ASSUME ~VersionsRestart
    PROVE  Spec => []OnlyOverlapLosesKeys
<1>1. IInv => OnlyOverlapLosesKeys
  BY DEF IInv
<1>. QED
  BY <1>1, Invariance, PTL

\* changePassphrase replaces a wrapping only for a client that has proved
\* the passphrase of that very wrapping, also after a re-base.
THEOREM ChangesAreProved ==
    ASSUME ~VersionsRestart
    PROVE  Spec => ChangeIsProved
<1>. DEFINE A == header'.vault = header.vault /\ header'.check # header.check
                  => \E c \in Clients : /\ op[c].pc = "repush"
                                        /\ op[c].phrase = header.phrase
                                        /\ op[c].seen.check = header.check
<1>1. ASSUME IInv, [Next]_vars
      PROVE  A
  <2>1. CASE UNCHANGED <<header, used>>
    BY <2>1
  <2>2. ASSUME NEW c \in Clients, PushIndex(c) \/ PushIndexLost(c)
        PROVE  A
    <3>1. /\ op[c].pc = "push" /\ Accepts(held[c].head.version) /\ Put(Resealed(c))
          /\ UNCHANGED <<used, blob, excused>>
      BY <2>2 DEF PushIndex, PushIndexLost, At
    <3>. QED
      BY <1>1, <3>1, PushSteps
  <2>3. ASSUME NEW c \in Clients, PushRewrapped(c)
        PROVE  A
    <3>1. /\ op[c].pc = "repush" /\ Accepts(held[c].head.version) /\ Put(Rewrapped(c))
          /\ UNCHANGED <<used, blob, excused>>
      BY <2>3 DEF PushRewrapped, At
    <3>2. op[c].phrase = header.phrase /\ op[c].seen.check = header.check
      BY <1>1, <3>1, RewrappedSteps
    <3>. QED
      BY <3>1, <3>2
  <2>4. ASSUME NEW c \in Clients, WriteFresh(c)
        PROVE  A
    <3>1. PICK v \in Vaults \ used : Put(FreshHeader(c, v)) /\ used' = used \union {v}
      BY <2>4 DEF WriteFresh
    <3>2. op[c].pc = "fresh" /\ UNCHANGED <<blob, excused>>
      BY <2>4 DEF WriteFresh, At
    <3>3. header'.vault = v
      BY <1>1, <3>1, <3>2, FreshSteps
    <3>4. header.vault # v
      BY <1>1, VaultAssumption DEF IInv, SlotInv, Written, NoHeader
    <3>. QED
      BY <3>3, <3>4
  <2>5. ASSUME NEW c \in Clients, ServerWipes(c)
        PROVE  A
    <3>1. header' = NoHeader
      BY <2>5 DEF ServerWipes
    <3>2. header.vault = NoVault => header = NoHeader
      BY <1>1, VaultAssumption DEF IInv, SlotInv, Written, TypeOK
    <3>. QED
      BY <3>1, <3>2 DEF NoHeader
  <2>. QED
    BY <1>1, <2>1, <2>2, <2>3, <2>4, <2>5, HeaderWriters
<1>2. IInv /\ [Next]_vars => [A]_vars
  BY <1>1
<1>. QED
  BY <1>2, Invariance, PTL DEF Spec, ChangeIsProved

=============================================================================
