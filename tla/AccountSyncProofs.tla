------------------------- MODULE AccountSyncProofs -------------------------
(***************************************************************************)
(* What AccountSync promises for any number of devices, aliases, fields    *)
(* and re-bases, whether or not answers are lost.                          *)
(***************************************************************************)
EXTENDS AccountSync, TLAPS

\* The slot of an absent account is empty, a present one has been written,
\* and a round with base 0 merged with nothing.
SlotShape ==
    /\ slot.kind = "absent" => slot.hosts = NoHosts
    /\ slot.kind # "absent" => slot.version > 0
    /\ \A d \in Devices : round[d].pc = "push" /\ round[d].base = 0 => round[d].remote = NoHosts

Inv == TypeOK /\ SlotShape /\ PushBasis /\ RoundPartition

-----------------------------------------------------------------------------
\* The operators.

\* Merging two entries gives an entry: a merged host never disappears.
LEMMA MergeType ==
    ASSUME NEW mine \in Entry, NEW theirs \in Entry \cup {NoEntry}
    PROVE  mergeLocalOverRemote(mine, theirs) \in Entry
BY DEF mergeLocalOverRemote, Entry

\* Assembly yields a host list.
LEMMA AssembleType ==
    ASSUME NEW mine \in HostList, NEW remote \in HostList, NEW ticked \in SUBSET Aliases
    PROVE  assembleSyncSet(mine, remote, ticked) \in HostList
<1> SUFFICES ASSUME NEW a \in Aliases
             PROVE  assembleSyncSet(mine, remote, ticked)[a] \in Entry \cup {NoEntry}
    BY DEF assembleSyncSet, HostList
<1>1. CASE a \in ticked /\ mine[a] # NoEntry
    <2>1. mine[a] \in Entry /\ remote[a] \in Entry \cup {NoEntry}
        BY <1>1 DEF HostList
    <2>2. mergeLocalOverRemote(mine[a], remote[a]) \in Entry
        BY <2>1, MergeType
    <2> QED BY <1>1, <2>2 DEF assembleSyncSet
<1>2. CASE ~(a \in ticked /\ mine[a] # NoEntry)
    BY <1>2 DEF assembleSyncSet, HostList
<1> QED BY <1>1, <1>2

\* A ticked alias the account holds is in the assembled set, with every field
\* the account's entry had.
LEMMA AssembleKeeps ==
    ASSUME NEW mine \in HostList, NEW remote \in HostList, NEW ticked \in SUBSET Aliases,
           NEW a \in Names(remote), a \in ticked
    PROVE  /\ a \in Names(assembleSyncSet(mine, remote, ticked))
           /\ \A f \in Fields : remote[a][f] # NoValue =>
                 assembleSyncSet(mine, remote, ticked)[a][f] # NoValue
<1>1. a \in Aliases /\ remote[a] # NoEntry /\ remote[a] \in Entry
    BY DEF Names, HostList
<1>2. CASE mine[a] # NoEntry
    <2>1. mine[a] \in Entry
        BY <1>1, <1>2 DEF HostList
    <2>2. mergeLocalOverRemote(mine[a], remote[a]) \in Entry
        BY <1>1, <2>1, MergeType
    <2>3. mergeLocalOverRemote(mine[a], remote[a]) # NoEntry
        BY <2>2, SyncAssumption DEF Entry
    <2>4. assembleSyncSet(mine, remote, ticked)[a] = mergeLocalOverRemote(mine[a], remote[a])
        BY <1>1, <1>2 DEF assembleSyncSet
    <2>5. \A f \in Fields : remote[a][f] # NoValue =>
             mergeLocalOverRemote(mine[a], remote[a])[f] # NoValue
        BY <1>1 DEF mergeLocalOverRemote
    <2> QED BY <1>1, <2>3, <2>4, <2>5 DEF Names
<1>3. CASE mine[a] = NoEntry
    BY <1>1, <1>3 DEF assembleSyncSet, Names
<1> QED BY <1>2, <1>3

LEMMA NamesType == ASSUME NEW hosts PROVE Names(hosts) \in SUBSET Aliases
BY DEF Names

LEMMA IdleType == NoHosts \in HostList /\ Idle \in Round
BY DEF NoHosts, HostList, Idle, Round

-----------------------------------------------------------------------------
\* Typing.

LEMMA UploadType ==
    ASSUME TypeOK, NEW d \in Devices
    PROVE  Upload(d) \in HostList /\ Names(Upload(d)) \in SUBSET Aliases
<1>1. local[d] \in HostList /\ round[d].remote \in HostList
      /\ round[d].selected \in SUBSET Aliases
    BY DEF TypeOK, Round
<1> QED BY <1>1, AssembleType, NamesType DEF Upload

LEMMA InitType == Init => TypeOK
BY IdleType DEF Init, TypeOK, SlotKinds

LEMMA AbsorbType ==
    ASSUME TypeOK, NEW d \in Devices, NEW names \in SUBSET Aliases, absorbAccount(d, names)
    PROVE  /\ checked' \in [Devices -> SUBSET Aliases]
           /\ unticked' \in [Devices -> SUBSET Aliases]
           /\ copy' \in [Devices -> SUBSET (SUBSET Aliases)]
<1>1. checked[d] \in SUBSET Aliases /\ unticked[d] \in SUBSET Aliases
    BY DEF TypeOK
<1>2. CheckedAfter(names, checked[d], unticked[d]) \in SUBSET Aliases
      /\ UntickedAfter(names, checked[d], unticked[d]) \in SUBSET Aliases
    BY <1>1 DEF CheckedAfter, UntickedAfter, aliasesToAutoCheck
<1> QED BY <1>2 DEF absorbAccount, PersistSelection, TypeOK

LEMMA PullType ==
    ASSUME TypeOK, NEW d \in Devices, PullClean(d)
    PROVE  TypeOK'
<1> DEFINE r == round[d]
           remote == IF slot.kind = "ok" THEN slot.hosts ELSE NoHosts
           selected == CheckedAfter(Names(remote), r.selected, r.unticked)
           off == UntickedAfter(Names(remote), r.selected, r.unticked)
           base == baseVersion(slot)
           next == [r EXCEPT !.pc = "push", !.selected = selected, !.unticked = off,
                             !.base = base, !.remote = remote]
<1>1. r \in Round /\ remote \in HostList /\ base \in Nat /\ Names(remote) \in SUBSET Aliases
    BY IdleType, NamesType DEF TypeOK, baseVersion
<1>2. selected \in SUBSET Aliases /\ off \in SUBSET Aliases
    <2>1. r.selected \in SUBSET Aliases /\ r.unticked \in SUBSET Aliases
        BY <1>1 DEF Round
    <2> QED BY <1>1, <2>1 DEF CheckedAfter, UntickedAfter, aliasesToAutoCheck
<1>3. next \in Round
    BY <1>1, <1>2 DEF Round
<1>4. \E new \in Round : round' = [round EXCEPT ![d] = new]
    BY <1>3, IdleType DEF PullClean
<1>5. round' \in [Devices -> Round]
    BY <1>4 DEF TypeOK
<1>6. checked' \in [Devices -> SUBSET Aliases] /\ unticked' \in [Devices -> SUBSET Aliases]
      /\ copy' \in [Devices -> SUBSET (SUBSET Aliases)]
    BY <1>1, <1>2 DEF PullClean, PersistSelection, TypeOK
<1> QED BY <1>5, <1>6 DEF PullClean, TypeOK

LEMMA ApplyType ==
    ASSUME TypeOK, NEW d \in Devices, ApplyPush(d)
    PROVE  /\ slot' \in [kind : SlotKinds, version : Nat, hosts : HostList]
           /\ round' \in [Devices -> Round]
           /\ carried' \subseteq Devices \X Aliases
<1>1. Upload(d) \in HostList
    BY UploadType
<1>2. {<<d, a>> : a \in (Names(slot.hosts) \ Names(Upload(d))) \cap unticked[d]}
        \subseteq Devices \X Aliases
    BY DEF Names
<1> QED BY <1>1, <1>2, IdleType DEF ApplyPush, EndRound, TypeOK, SlotKinds

LEMMA RestoredType ==
    ASSUME TypeOK, NEW d \in Devices
    PROVE  Restored(d) \in HostList
<1> SUFFICES ASSUME NEW a \in Aliases
             PROVE  Restored(d)[a] \in Entry \cup {NoEntry}
    BY DEF Restored, HostList
<1>1. local[d][a] \in Entry \cup {NoEntry} /\ Upload(d)[a] \in Entry \cup {NoEntry}
    BY UploadType DEF TypeOK, HostList
<1>2. CASE local[d][a] = NoEntry /\ Upload(d)[a] # NoEntry
    BY <1>1, <1>2 DEF Restored, Entry
<1>3. CASE ~(local[d][a] = NoEntry /\ Upload(d)[a] # NoEntry)
    BY <1>1, <1>3 DEF Restored
<1> QED BY <1>2, <1>3

LEMMA DeviceType ==
    ASSUME TypeOK, NEW d \in Devices, DeviceStep(d)
    PROVE  TypeOK'
<1>1. CASE login(d)
    BY <1>1 DEF login, TypeOK
<1>2. CASE logout(d)
    BY <1>2 DEF logout, TypeOK
<1>3. CASE loadAccount(d)
    <2>1. DegradedNames(slot) \in SUBSET Aliases
        BY NamesType DEF DegradedNames
    <2>2. CASE slot.kind = "absent"
        BY <1>3, <2>2 DEF loadAccount, TypeOK
    <2>3. CASE slot.kind # "absent"
        BY <1>3, <2>1, <2>3, AbsorbType DEF loadAccount, TypeOK
    <2> QED BY <2>2, <2>3
<1>4. CASE refreshStatus(d)
    <2>1. round' \in [Devices -> Round]
        BY <1>4, IdleType DEF refreshStatus, TypeOK
    <2>2. CASE copy[d] = {} /\ UNCHANGED <<checked, unticked, copy>>
        BY <1>4, <2>1, <2>2 DEF refreshStatus, TypeOK
    <2>3. CASE \E names \in copy[d] : absorbAccount(d, names)
        <3>1. PICK names \in copy[d] : absorbAccount(d, names)
            BY <2>3
        <3>2. names \in SUBSET Aliases
            BY <3>1 DEF TypeOK
        <3> QED BY <1>4, <2>1, <3>1, <3>2, AbsorbType DEF refreshStatus, TypeOK
    <2> QED BY <1>4, <2>2, <2>3 DEF refreshStatus
<1>5. CASE syncNow(d)
    <2>1. [Idle EXCEPT !.pc = "pull", !.attempts = 1,
              !.selected = checked[d], !.unticked = unticked[d]] \in Round
        BY IdleType DEF TypeOK, Round
    <2> QED BY <1>5, <2>1 DEF syncNow, TypeOK
<1>6. ASSUME NEW a \in Aliases, EditHosts(d, a) PROVE TypeOK'
    <2>1. [f \in Fields |-> IF f \in Owned[d] THEN d ELSE NoValue] \in Entry
        BY DEF Entry
    <2> QED BY <1>6, <2>1 DEF EditHosts, TypeOK, HostList
<1>7. ASSUME NEW a \in Aliases, NEW on \in BOOLEAN, setSelected(d, a, on) PROVE TypeOK'
    BY <1>7 DEF setSelected, TypeOK
<1>8. CASE PullClean(d)
    BY <1>8, PullType
<1>9. CASE PullStops(d)
    BY <1>9, IdleType DEF PullStops, EndRound, TypeOK
<1>10. CASE PushOk(d)
    <2>1. Names(Upload(d)) \in SUBSET Aliases /\ round[d].selected \in SUBSET Aliases
          /\ round[d].unticked \in SUBSET Aliases
        BY UploadType DEF TypeOK, Round
    <2>2. checked' \in [Devices -> SUBSET Aliases] /\ unticked' \in [Devices -> SUBSET Aliases]
          /\ copy' \in [Devices -> SUBSET (SUBSET Aliases)]
        BY <1>10, <2>1 DEF PushOk, PersistSelection, UntickedAfterPush, TypeOK
    <2>3. local' \in [Devices -> HostList]
        BY <1>10, RestoredType DEF PushOk, TypeOK
    <2>4. ApplyPush(d) /\ UNCHANGED <<loggedIn, writes>>
        BY <1>10 DEF PushOk
    <2> QED BY <2>2, <2>3, <2>4, ApplyType DEF TypeOK
<1>11. CASE PushConflict(d)
    <2>1. [round[d] EXCEPT !.pc = "pull", !.attempts = @ + 1] \in Round
        <3>1. round[d] \in Round /\ round[d].attempts + 1 \in Nat
            BY DEF TypeOK, Round
        <3>2. \A n \in Nat : [round[d] EXCEPT !.pc = "pull", !.attempts = n] \in Round
            BY <3>1 DEF Round
        <3> QED BY <3>1, <3>2
    <2>2. \E new \in Round : round' = [round EXCEPT ![d] = new]
        BY <1>11, <2>1, IdleType DEF PushConflict, EndRound
    <2>3. round' \in [Devices -> Round]
        BY <2>2 DEF TypeOK
    <2> QED BY <1>11, <2>3 DEF PushConflict, TypeOK
<1>12. CASE PushFails(d)
    BY <1>12, IdleType DEF PushFails, EndRound, TypeOK
<1>13. CASE PushAnswerLost(d)
    BY <1>13, ApplyType DEF PushAnswerLost, TypeOK
<1> QED BY <1>1, <1>2, <1>3, <1>4, <1>5, <1>6, <1>7, <1>8, <1>9, <1>10, <1>11, <1>12, <1>13
        DEF DeviceStep, RoundStep

LEMMA StepType == TypeOK /\ [Next]_vars => TypeOK'
<1> SUFFICES ASSUME TypeOK, [Next]_vars PROVE TypeOK'
    OBVIOUS
<1>1. ASSUME NEW d \in Devices, DeviceStep(d) PROVE TypeOK'
    BY <1>1, DeviceType
<1>2. CASE WriteUnreadable
    <2>1. PICK kind \in {"foreign", "unreadable"} :
              slot' = [slot EXCEPT !.kind = kind, !.version = @ + 1]
        BY <1>2 DEF WriteUnreadable
    <2>2. slot' \in [kind : SlotKinds, version : Nat, hosts : HostList]
        <3>1. slot.version + 1 \in Nat /\ kind \in SlotKinds
            BY DEF TypeOK, SlotKinds
        <3>2. \A n \in Nat : [slot EXCEPT !.kind = kind, !.version = n]
                                \in [kind : SlotKinds, version : Nat, hosts : HostList]
            BY <3>1 DEF TypeOK
        <3> QED BY <2>1, <3>1, <3>2
    <2> QED BY <1>2, <2>2 DEF WriteUnreadable, TypeOK
<1>3. CASE ClearAccount
    BY <1>3, IdleType DEF ClearAccount, TypeOK, SlotKinds
<1>4. CASE UNCHANGED vars
    BY <1>4 DEF vars, TypeOK
<1> QED BY <1>1, <1>2, <1>3, <1>4 DEF Next

\* Type correctness, for every instance.
THEOREM TypeCorrect == Spec => []TypeOK
<1> QED BY InitType, StepType, PTL DEF Spec

-----------------------------------------------------------------------------
\* The inductive invariant.

LEMMA InitInv == Init => Inv
<1> SUFFICES ASSUME Init PROVE Inv
    OBVIOUS
<1>1. TypeOK
    BY InitType
<1>2. \A d \in Devices : round[d].pc = "idle"
    BY DEF Init, Idle
<1> QED BY <1>1, <1>2 DEF Init, Inv, SlotShape, PushBasis, RoundPartition

\* A step of one device that leaves the slot alone and does not end with a
\* push of its own pending.
LEMMA QuietStep ==
    ASSUME Inv, TypeOK', NEW d \in Devices, slot' = slot, round'[d].pc # "push",
           \A e \in Devices \ {d} : round'[e] = round[e] /\ unticked'[e] = unticked[e]
    PROVE  Inv'
<1>1. \A e \in Devices : round'[e].pc = "push" =>
          e # d /\ round'[e] = round[e] /\ unticked'[e] = unticked[e]
    OBVIOUS
<1>2. SlotShape'
    BY <1>1 DEF Inv, SlotShape
<1>3. PushBasis'
    BY <1>1 DEF Inv, PushBasis, BaseIsCurrent, baseVersion
<1>4. RoundPartition'
    BY <1>1 DEF Inv, RoundPartition
<1> QED BY <1>2, <1>3, <1>4 DEF Inv

\* A step that replaces the slot by a newer version: no push of another
\* device can be applied on it any more, unless the account is now absent.
LEMMA SlotStep ==
    ASSUME Inv, TypeOK', NEW S \in SUBSET Devices,
           slot'.version = slot.version + 1,
           slot'.kind = "absent" => slot'.hosts = NoHosts,
           \A e \in S : round'[e].pc # "push",
           \A e \in Devices \ S : round'[e] = round[e] /\ unticked'[e] = unticked[e]
    PROVE  Inv'
<1>1. \A e \in Devices : round'[e].pc = "push" =>
          e \notin S /\ round'[e] = round[e] /\ unticked'[e] = unticked[e]
    OBVIOUS
<1>2. slot.version \in Nat /\ slot'.version \in Nat /\ \A e \in Devices : round[e].base \in Nat
    BY DEF Inv, TypeOK, Round
<1>3. SlotShape'
    BY <1>1, <1>2 DEF Inv, SlotShape
<1>4. PushBasis'
    <2> SUFFICES ASSUME NEW e \in Devices, round'[e].pc = "push"
                 PROVE  /\ round'[e].base <= slot'.version
                        /\ BaseIsCurrent(e)' => /\ slot'.kind \in {"absent", "ok"}
                                                /\ round'[e].remote = slot'.hosts
        BY DEF PushBasis
    <2>1. round'[e] = round[e] /\ round[e].base <= slot.version
        BY <1>1 DEF Inv, PushBasis
    <2>2. CASE slot'.kind # "absent"
        BY <1>2, <2>1, <2>2 DEF BaseIsCurrent, baseVersion
    <2>3. CASE slot'.kind = "absent"
        BY <1>2, <2>1, <2>3 DEF BaseIsCurrent, baseVersion, Inv, SlotShape
    <2> QED BY <2>2, <2>3
<1>5. RoundPartition'
    BY <1>1 DEF Inv, RoundPartition
<1> QED BY <1>3, <1>4, <1>5 DEF Inv

\* A clean pull sets the round up to push on exactly what it read.
LEMMA PullInv ==
    ASSUME Inv, TypeOK', NEW d \in Devices, PullClean(d)
    PROVE  Inv'
<1> DEFINE r == round[d]
           remote == IF slot.kind = "ok" THEN slot.hosts ELSE NoHosts
           selected == CheckedAfter(Names(remote), r.selected, r.unticked)
           off == UntickedAfter(Names(remote), r.selected, r.unticked)
           base == baseVersion(slot)
           next == [r EXCEPT !.pc = "push", !.selected = selected, !.unticked = off,
                             !.base = base, !.remote = remote]
<1>1. slot' = slot /\ slot.kind \in {"ok", "absent"}
      /\ \A e \in Devices \ {d} : round'[e] = round[e] /\ unticked'[e] = unticked[e]
    BY DEF PullClean, PersistSelection, Inv, TypeOK
<1>2. unticked'[d] = off
    BY DEF PullClean, PersistSelection, Inv, TypeOK
<1>3. CASE round'[d] = Idle
    BY <1>1, <1>3, QuietStep DEF Idle
<1>4. CASE round'[d] = next
    <2>1. r \in Round /\ slot.version \in Nat
        BY DEF Inv, TypeOK
    <2>2. /\ round'[d].base = base /\ round'[d].remote = remote
          /\ round'[d].selected = selected /\ round'[d].unticked = off
        BY <1>4, <2>1 DEF Round
    <2>3. \A e \in Devices : e # d => round'[e] = round[e] /\ unticked'[e] = unticked[e]
        BY <1>1
    <2>4. SlotShape'
        <3>1. base = 0 => remote = NoHosts
            BY <1>1, <2>1 DEF Inv, SlotShape, baseVersion
        <3> QED BY <1>1, <2>2, <2>3, <3>1 DEF Inv, SlotShape
    <2>5. PushBasis'
        <3>1. base <= slot.version /\ remote = slot.hosts
            BY <1>1, <2>1 DEF Inv, SlotShape, baseVersion
        <3> QED BY <1>1, <2>2, <2>3, <3>1 DEF Inv, PushBasis, BaseIsCurrent, baseVersion
    <2>6. RoundPartition'
        <3>1. r.selected \in SUBSET Aliases /\ r.unticked \in SUBSET Aliases
              /\ Names(remote) \in SUBSET Aliases
            BY <2>1, NamesType DEF Round
        <3>2. Names(remote) \subseteq selected \cup off /\ off \cap selected = {}
            BY <3>1 DEF CheckedAfter, UntickedAfter, aliasesToAutoCheck
        <3> HIDE DEF remote, selected, off
        <3>3. /\ round'[d].unticked \cap round'[d].selected = {}
              /\ Names(round'[d].remote) \subseteq round'[d].selected \cup round'[d].unticked
              /\ round'[d].unticked = unticked'[d]
            BY <1>2, <2>2, <3>2
        <3> QED BY <2>3, <3>3 DEF Inv, RoundPartition, Names
    <2> QED BY <2>4, <2>5, <2>6 DEF Inv
<1> QED BY <1>3, <1>4 DEF PullClean, Inv, TypeOK

LEMMA StepInv == Inv /\ [Next]_vars => Inv'
<1> SUFFICES ASSUME Inv, [Next]_vars PROVE Inv'
    OBVIOUS
<1>0. TypeOK /\ TypeOK'
    BY StepType DEF Inv
<1>1. ASSUME NEW d \in Devices, DeviceStep(d) PROVE Inv'
    <2>0. ASSUME ~Busy(d), slot' = slot, round' = round,
                 \A e \in Devices \ {d} : unticked'[e] = unticked[e]
          PROVE  Inv'
        BY <1>0, <2>0, QuietStep DEF Busy
    <2>1. CASE login(d)
        BY <2>0, <2>1 DEF login
    <2>2. CASE logout(d)
        BY <1>0, <2>0, <2>2 DEF logout, TypeOK
    <2>3. CASE loadAccount(d)
        BY <1>0, <2>0, <2>3 DEF loadAccount, absorbAccount, PersistSelection, TypeOK
    <2>4. CASE refreshStatus(d)
        <3>1. slot' = slot /\ round'[d].pc # "push"
              /\ \A e \in Devices \ {d} : round'[e] = round[e] /\ unticked'[e] = unticked[e]
            BY <1>0, <2>4 DEF refreshStatus, absorbAccount, PersistSelection, TypeOK, Idle
        <3> QED BY <1>0, <3>1, QuietStep
    <2>5. CASE syncNow(d)
        <3>1. slot' = slot /\ round'[d].pc # "push"
              /\ \A e \in Devices \ {d} : round'[e] = round[e] /\ unticked'[e] = unticked[e]
            BY <1>0, <2>5 DEF syncNow, TypeOK, Idle
        <3> QED BY <1>0, <3>1, QuietStep
    <2>6. ASSUME NEW a \in Aliases, EditHosts(d, a) PROVE Inv'
        BY <2>0, <2>6 DEF EditHosts
    <2>7. ASSUME NEW a \in Aliases, NEW on \in BOOLEAN, setSelected(d, a, on) PROVE Inv'
        BY <1>0, <2>0, <2>7 DEF setSelected, TypeOK
    <2>8. CASE PullClean(d)
        BY <1>0, <2>8, PullInv
    <2>9. CASE PullStops(d) \/ PushConflict(d) \/ PushFails(d)
        <3>1. slot' = slot /\ round'[d].pc # "push"
              /\ \A e \in Devices \ {d} : round'[e] = round[e] /\ unticked'[e] = unticked[e]
            BY <1>0, <2>9 DEF PullStops, PushConflict, PushFails, EndRound, TypeOK, Idle, Round
        <3> QED BY <1>0, <3>1, QuietStep
    <2>10. CASE PushOk(d) \/ PushAnswerLost(d)
        <3>1. ApplyPush(d) /\ \A e \in Devices \ {d} : unticked'[e] = unticked[e]
            BY <1>0, <2>10 DEF PushOk, PushAnswerLost, PersistSelection, TypeOK
        <3>2. slot'.version = slot.version + 1 /\ slot'.kind # "absent"
              /\ round'[d].pc # "push" /\ \A e \in Devices \ {d} : round'[e] = round[e]
            BY <1>0, <3>1 DEF ApplyPush, EndRound, TypeOK, Idle
        <3> DEFINE S == {d}
        <3>3. S \in SUBSET Devices /\ (\A e \in S : round'[e].pc # "push")
              /\ \A e \in Devices \ S : round'[e] = round[e] /\ unticked'[e] = unticked[e]
            BY <3>1, <3>2
        <3> HIDE DEF S
        <3> QED BY <1>0, <3>2, <3>3, SlotStep
    <2> QED BY <1>1, <2>1, <2>2, <2>3, <2>4, <2>5, <2>6, <2>7, <2>8, <2>9, <2>10
            DEF DeviceStep, RoundStep
<1>2. CASE WriteUnreadable \/ ClearAccount
    <2>1. slot'.version = slot.version + 1 /\ (slot'.kind = "absent" => slot'.hosts = NoHosts)
          /\ round' = round /\ unticked' = unticked
        <3>1. CASE WriteUnreadable
            <4>1. PICK kind \in {"foreign", "unreadable"} :
                      slot' = [slot EXCEPT !.kind = kind, !.version = @ + 1]
                BY <3>1 DEF WriteUnreadable
            <4>2. slot'.version = slot.version + 1 /\ slot'.kind # "absent"
                BY <1>0, <4>1 DEF TypeOK
            <4> QED BY <3>1, <4>2 DEF WriteUnreadable
        <3>2. CASE ClearAccount
            BY <3>2 DEF ClearAccount
        <3> QED BY <1>2, <3>1, <3>2
    <2>2. {} \in SUBSET Devices
        OBVIOUS
    <2> QED BY <1>0, <2>1, <2>2, SlotStep
<1>3. CASE UNCHANGED vars
    BY <1>3 DEF vars, Inv, TypeOK, SlotShape, PushBasis, RoundPartition, BaseIsCurrent, baseVersion
<1> QED BY <1>1, <1>2, <1>3 DEF Next

LEMMA Invariance == Spec => []Inv
<1> QED BY InitInv, StepInv, PTL DEF Spec

\* A push that the server can still apply merged with exactly what the slot
\* holds: the version check makes a lost update impossible.
THEOREM PushBasisHolds == Spec => []PushBasis
<1>1. Inv => PushBasis
    BY DEF Inv
<1> QED BY Invariance, <1>1, PTL

-----------------------------------------------------------------------------
\* The action properties.

\* Which steps change the slot, and how.
LEMMA SlotChange ==
    ASSUME Inv, [Next]_vars, slot' # slot
    PROVE  \/ \E d \in Devices : ApplyPush(d)
           \/ WriteUnreadable
           \/ ClearAccount
BY DEF Next, vars, DeviceStep, RoundStep, login, logout, loadAccount, refreshStatus, syncNow,
       EditHosts, setSelected, PullClean, PullStops, PushOk, PushConflict, PushFails, PushAnswerLost

\* What an applied push does to the hosts of the account.
LEMMA PushEffect ==
    ASSUME Inv, NEW d \in Devices, ApplyPush(d)
    PROVE  /\ PushedBy(d)
           /\ slot.kind \in {"absent", "ok"}
           /\ slot'.hosts = Upload(d)
           /\ \A a \in Names(slot.hosts) \ Names(slot'.hosts) : a \in unticked[d]
           /\ \A a \in Names(slot.hosts) \cap Names(slot'.hosts), f \in Fields :
                 slot.hosts[a][f] # NoValue => slot'.hosts[a][f] # NoValue
<1>1. slot'.hosts = Upload(d) /\ slot'.version = slot.version + 1
    BY DEF ApplyPush
<1>2. PushedBy(d)
    BY <1>1 DEF ApplyPush, EndRound, PushedBy, Inv, TypeOK, Idle
<1>3. slot.kind \in {"absent", "ok"} /\ round[d].remote = slot.hosts
    BY DEF ApplyPush, Inv, PushBasis
<1>4. local[d] \in HostList /\ slot.hosts \in HostList /\ round[d].selected \in SUBSET Aliases
    BY DEF Inv, TypeOK, Round
<1>5. Names(slot.hosts) \subseteq round[d].selected \cup unticked[d]
    BY <1>3 DEF ApplyPush, Inv, RoundPartition
<1>6. ASSUME NEW a \in Names(slot.hosts), a \in round[d].selected
      PROVE  /\ a \in Names(slot'.hosts)
             /\ \A f \in Fields : slot.hosts[a][f] # NoValue => slot'.hosts[a][f] # NoValue
    BY <1>1, <1>3, <1>4, <1>6, AssembleKeeps DEF Upload
<1>7. \A a \in Aliases : a \notin round[d].selected => a \notin Names(slot'.hosts)
    BY <1>1 DEF Upload, assembleSyncSet, Names
<1>8. \A a \in Names(slot.hosts) : a \in Aliases
    BY DEF Names
<1> QED BY <1>1, <1>2, <1>3, <1>5, <1>6, <1>7, <1>8

\* Only an explicit untick takes a host out of the account.
THEOREM OnlyUntickRemovesHolds == Spec => OnlyUntickRemoves
<1> DEFINE A == \A a \in Names(slot.hosts) \ Names(slot'.hosts) :
                   \/ slot'.kind = "absent"
                   \/ \E d \in Devices : PushedBy(d) /\ a \in unticked[d]
<1>1. Inv /\ [Next]_vars => [A]_vars
    <2> SUFFICES ASSUME Inv, [Next]_vars, slot' # slot PROVE A
        BY DEF Names
    <2>1. ASSUME NEW d \in Devices, ApplyPush(d) PROVE A
        BY <2>1, PushEffect
    <2>2. CASE WriteUnreadable
        BY <2>2 DEF WriteUnreadable, Inv, TypeOK, Names
    <2>3. CASE ClearAccount
        BY <2>3 DEF ClearAccount
    <2> QED BY <2>1, <2>2, <2>3, SlotChange
<1> QED BY Invariance, <1>1, PTL DEF OnlyUntickRemoves, Spec

\* No push strips a field another client put on a host.
THEOREM FieldsCarriedHolds == Spec => FieldsCarried
<1> DEFINE A == \A a \in Names(slot.hosts) \cap Names(slot'.hosts), f \in Fields :
                   slot.hosts[a][f] # NoValue => slot'.hosts[a][f] # NoValue
<1>1. Inv /\ [Next]_vars => [A]_vars
    <2> SUFFICES ASSUME Inv, [Next]_vars, slot' # slot PROVE A
        OBVIOUS
    <2>1. ASSUME NEW d \in Devices, ApplyPush(d) PROVE A
        BY <2>1, PushEffect
    <2>2. CASE WriteUnreadable
        BY <2>2 DEF WriteUnreadable, Inv, TypeOK, Names
    <2>3. CASE ClearAccount
        BY <2>3 DEF ClearAccount, Names, NoHosts
    <2> QED BY <2>1, <2>2, <2>3, SlotChange
<1> QED BY Invariance, <1>1, PTL DEF FieldsCarried, Spec

-----------------------------------------------------------------------------
\* What a round has ready to upload, and the unticks it works with.

\* A push is pending only for a set with something in it.
UploadsSomething == \A d \in Devices : round[d].pc = "push" => Names(Upload(d)) # {}

\* A running round holds the unticks that are persisted: no control of the
\* view is live while it runs.
RoundUnticks == \A d \in Devices : Busy(d) => round[d].unticked = unticked[d]

\* A device's step leaves the other devices alone.
LEMMA OthersKept ==
    ASSUME TypeOK, NEW d \in Devices, DeviceStep(d), NEW e \in Devices, e # d
    PROVE  /\ round'[e] = round[e] /\ local'[e] = local[e] /\ unticked'[e] = unticked[e]
           /\ \A a : <<e, a>> \in carried' => <<e, a>> \in carried
<1>1. CASE login(d) \/ logout(d) \/ loadAccount(d) \/ refreshStatus(d) \/ syncNow(d)
    BY <1>1 DEF login, logout, loadAccount, refreshStatus, syncNow, absorbAccount,
                PersistSelection, TypeOK
<1>2. ASSUME NEW a \in Aliases, EditHosts(d, a) \/ \E on \in BOOLEAN : setSelected(d, a, on)
      PROVE  /\ round'[e] = round[e] /\ local'[e] = local[e] /\ unticked'[e] = unticked[e]
             /\ carried' \subseteq carried
    BY <1>2 DEF EditHosts, setSelected, TypeOK
<1>3. CASE PullClean(d)
    BY <1>3 DEF PullClean, PersistSelection, TypeOK
<1>4. CASE PullStops(d) \/ PushConflict(d) \/ PushFails(d)
    BY <1>4 DEF PullStops, PushConflict, PushFails, EndRound, TypeOK
<1>5. CASE PushOk(d) \/ PushAnswerLost(d)
    <2>1. ApplyPush(d) /\ local'[e] = local[e] /\ unticked'[e] = unticked[e]
        BY <1>5 DEF PushOk, PushAnswerLost, PersistSelection, TypeOK
    <2>2. round'[e] = round[e] /\ \A a : <<e, a>> \in carried' => <<e, a>> \in carried
        BY <2>1 DEF ApplyPush, EndRound, TypeOK
    <2> QED BY <2>1, <2>2
<1> QED BY <1>1, <1>2, <1>3, <1>4, <1>5 DEF DeviceStep, RoundStep

\* A device has a push pending after its own step only if it just pulled.
LEMMA PushAfterPull ==
    ASSUME TypeOK, NEW d \in Devices, DeviceStep(d), round'[d].pc = "push"
    PROVE  PullClean(d)
<1>1. CASE login(d) \/ logout(d) \/ loadAccount(d)
    BY <1>1 DEF login, logout, loadAccount, Busy
<1>5. CASE refreshStatus(d)
    BY <1>5 DEF refreshStatus, Idle, TypeOK
<1>6. CASE syncNow(d)
    <2>1. round'[d].pc = "pull"
        BY <1>6 DEF syncNow, Idle, TypeOK
    <2> QED BY <2>1
<1>2. ASSUME NEW a \in Aliases, EditHosts(d, a) \/ \E on \in BOOLEAN : setSelected(d, a, on)
      PROVE  FALSE
    BY <1>2 DEF EditHosts, setSelected, Busy
<1>3. CASE PullStops(d) \/ PushConflict(d) \/ PushFails(d)
    BY <1>3 DEF PullStops, PushConflict, PushFails, EndRound, Idle, TypeOK, Round
<1>4. CASE PushOk(d) \/ PushAnswerLost(d)
    BY <1>4 DEF PushOk, PushAnswerLost, ApplyPush, EndRound, Idle, TypeOK
<1> QED BY <1>1, <1>2, <1>3, <1>4, <1>5, <1>6 DEF DeviceStep, RoundStep

\* The round ends as empty-selection instead of uploading nothing.
LEMMA UploadsStep ==
    ASSUME TypeOK, TypeOK', UploadsSomething, [Next]_vars
    PROVE  UploadsSomething'
<1>1. ASSUME NEW d \in Devices, DeviceStep(d) PROVE UploadsSomething'
    <2> SUFFICES ASSUME NEW e \in Devices, round'[e].pc = "push"
                 PROVE  Names(Upload(e)') # {}
        BY DEF UploadsSomething, Names
    <2>1. CASE e # d
        BY <1>1, <2>1, OthersKept DEF UploadsSomething, Upload
    <2>2. CASE e = d
        <3> DEFINE r == round[d]
                   remote == IF slot.kind = "ok" THEN slot.hosts ELSE NoHosts
                   selected == CheckedAfter(Names(remote), r.selected, r.unticked)
                   off == UntickedAfter(Names(remote), r.selected, r.unticked)
                   next == [r EXCEPT !.pc = "push", !.selected = selected, !.unticked = off,
                                     !.base = baseVersion(slot), !.remote = remote]
        <3>1. PullClean(d)
            BY <1>1, <2>2, PushAfterPull
        <3>2. local' = local /\ r \in Round
              /\ round'[d] = IF Names(assembleSyncSet(local[d], remote, selected)) = {} THEN Idle
                             ELSE next
            BY <3>1 DEF PullClean, TypeOK
        <3> HIDE DEF remote, selected, off
        <3>3. Names(assembleSyncSet(local[d], remote, selected)) # {} /\ round'[d] = next
            BY <2>2, <3>2 DEF Idle
        <3>4. round'[d].remote = remote /\ round'[d].selected = selected
            BY <3>2, <3>3 DEF Round
        <3> QED BY <2>2, <3>2, <3>3, <3>4 DEF Upload
    <2> QED BY <2>1, <2>2
<1>2. CASE WriteUnreadable \/ ClearAccount \/ UNCHANGED vars
    <2>1. round' = round /\ local' = local
        BY <1>2 DEF WriteUnreadable, ClearAccount, vars
    <2> QED BY <2>1 DEF UploadsSomething, Upload
<1> QED BY <1>1, <1>2 DEF Next

\* The tick rule holds in every round that is about to push.
THEOREM RoundPartitionHolds == Spec => []RoundPartition
<1>1. Inv => RoundPartition
    BY DEF Inv
<1> QED BY Invariance, <1>1, PTL

\* A round about to push knows what it is about to overwrite: types, basis and
\* tick rule together.
THEOREM RoundIsSoundHolds == Spec => []RoundIsSound
<1>1. TypeOK /\ PushBasis /\ RoundPartition => RoundIsSound
    BY DEF RoundIsSound
<1> QED BY TypeCorrect, PushBasisHolds, RoundPartitionHolds, <1>1, PTL

\* A round overwrites nothing it could not read and never empties the account.
THEOREM FailsClosedHolds == Spec => FailsClosed
<1> DEFINE A == \A d \in Devices : PushedBy(d) =>
                   /\ slot.kind \in {"absent", "ok"}
                   /\ Names(slot'.hosts) # {}
<1>1. Init => UploadsSomething
    BY DEF Init, UploadsSomething, Idle
<1>2. Inv /\ UploadsSomething /\ [Next]_vars => UploadsSomething'
    BY UploadsStep, StepType DEF Inv
<1>3. Inv /\ UploadsSomething /\ [Next]_vars => [A]_vars
    <2> SUFFICES ASSUME Inv, UploadsSomething, [Next]_vars,
                        NEW d \in Devices, PushedBy(d)
                 PROVE  slot.kind \in {"absent", "ok"} /\ Names(slot'.hosts) # {}
        OBVIOUS
    <2>1. round'[d].pc # round[d].pc /\ slot' # slot /\ round' # round
        BY DEF PushedBy
    <2>2. PICK e \in Devices : ApplyPush(e)
        BY <2>1, SlotChange DEF WriteUnreadable, ClearAccount
    <2>3. d = e
        BY <2>1, <2>2 DEF ApplyPush, EndRound, Inv, TypeOK
    <2>4. slot'.hosts = Upload(d) /\ slot.kind \in {"absent", "ok"}
        BY <2>2, <2>3, PushEffect
    <2>5. round[d].pc = "push"
        BY DEF PushedBy
    <2> QED BY <2>4, <2>5 DEF UploadsSomething
<1> QED BY Invariance, <1>1, <1>2, <1>3, PTL DEF FailsClosed, Spec

-----------------------------------------------------------------------------
\* An untick is one-shot as long as every applied push is answered.

\* A spent untick is not pending.
UnticksSpent == \A d \in Devices, a \in Aliases : <<d, a>> \in carried => a \notin unticked[d]

UntickInv == RoundUnticks /\ UnticksSpent

\* The selection rule adds no untick.
LEMMA NoNewUntick ==
    ASSUME NEW remote, NEW ticked, NEW off
    PROVE  UntickedAfter(remote, ticked, off) \subseteq off
BY DEF UntickedAfter

\* The device's own part of the two invariants.
UntickOf(d) ==
    /\ Busy(d) => round[d].unticked = unticked[d]
    /\ \A a \in Aliases : <<d, a>> \in carried => a \notin unticked[d]

\* A step that spends no untick by a push and adds none.
LEMMA UntickKept ==
    ASSUME TypeOK, NEW d \in Devices, UntickOf(d), carried' = carried,
           unticked'[d] \subseteq unticked[d],
           Busy(d)' => round'[d].unticked = unticked'[d]
    PROVE  UntickOf(d)'
BY DEF UntickOf

LEMMA UntickDevice ==
    ASSUME ~LossyPush, Inv, TypeOK', NEW d \in Devices, UntickOf(d), DeviceStep(d)
    PROVE  UntickOf(d)'
<1>0. TypeOK
    BY DEF Inv
<1>1. CASE login(d) \/ logout(d) \/ loadAccount(d)
    <2>1. ~Busy(d)' /\ carried' = carried
        BY <1>1 DEF login, logout, loadAccount, Busy
    <2>2. unticked'[d] \subseteq unticked[d]
        BY <1>0, <1>1, NoNewUntick DEF login, logout, loadAccount, absorbAccount,
                                       PersistSelection, TypeOK
    <2> QED BY <1>0, <2>1, <2>2, UntickKept
<1>2. CASE refreshStatus(d)
    <2>1. ~Busy(d)' /\ carried' = carried
        BY <1>0, <1>2 DEF refreshStatus, Busy, Idle, TypeOK
    <2>2. unticked'[d] \subseteq unticked[d]
        BY <1>0, <1>2, NoNewUntick DEF refreshStatus, absorbAccount, PersistSelection, TypeOK
    <2> QED BY <1>0, <2>1, <2>2, UntickKept
<1>3. CASE syncNow(d)
    <2>1. round'[d].unticked = unticked[d] /\ unticked' = unticked /\ carried' = carried
        BY <1>0, <1>3 DEF syncNow, TypeOK, Idle
    <2> QED BY <1>0, <2>1, UntickKept
<1>4. ASSUME NEW a \in Aliases, EditHosts(d, a) PROVE UntickOf(d)'
    BY <1>4 DEF EditHosts, UntickOf, Busy
<1>5. ASSUME NEW a \in Aliases, NEW on \in BOOLEAN, setSelected(d, a, on) PROVE UntickOf(d)'
    <2>1. ~Busy(d)' /\ carried' = carried \ {<<d, a>>}
        BY <1>5 DEF setSelected, Busy
    <2>2. unticked'[d] \subseteq unticked[d] \cup {a}
        BY <1>0, <1>5 DEF setSelected, TypeOK
    <2> QED BY <2>1, <2>2 DEF UntickOf
<1>6. CASE PullClean(d)
    <2> DEFINE r == round[d]
               remote == IF slot.kind = "ok" THEN slot.hosts ELSE NoHosts
               selected == CheckedAfter(Names(remote), r.selected, r.unticked)
               off == UntickedAfter(Names(remote), r.selected, r.unticked)
               next == [r EXCEPT !.pc = "push", !.selected = selected, !.unticked = off,
                                 !.base = baseVersion(slot), !.remote = remote]
    <2>1. r \in Round /\ Busy(d) /\ carried' = carried
        BY <1>0, <1>6 DEF PullClean, Busy, TypeOK
    <2>2. unticked'[d] = off /\ (round'[d] = Idle \/ round'[d] = next)
        BY <1>0, <1>6 DEF PullClean, PersistSelection, TypeOK
    <2>3. off \subseteq unticked[d]
        BY <2>1, NoNewUntick DEF UntickOf
    <2> HIDE DEF remote, selected, off
    <2>4. Busy(d)' => round'[d].unticked = off
        <3>1. CASE round'[d] = Idle
            BY <3>1 DEF Busy, Idle
        <3>2. CASE round'[d] = next
            BY <2>1, <3>2 DEF Round
        <3> QED BY <2>2, <3>1, <3>2
    <2> QED BY <1>0, <2>1, <2>2, <2>3, <2>4, UntickKept
<1>7. CASE PullStops(d) \/ PushFails(d)
    <2>1. ~Busy(d)' /\ unticked' = unticked /\ carried' = carried
        BY <1>0, <1>7 DEF PullStops, PushFails, EndRound, Busy, Idle, TypeOK
    <2> QED BY <1>0, <2>1, UntickKept
<1>8. CASE PushConflict(d)
    <2>1. unticked' = unticked /\ carried' = carried /\ Busy(d)
          /\ (~Busy(d)' \/ round'[d].unticked = round[d].unticked)
        BY <1>0, <1>8 DEF PushConflict, EndRound, Busy, Idle, TypeOK, Round
    <2> QED BY <1>0, <2>1, UntickKept DEF UntickOf
<1>9. CASE PushOk(d)
    <2>1. ~Busy(d)' /\ Busy(d)
        BY <1>0, <1>9 DEF PushOk, ApplyPush, EndRound, Busy, Idle, TypeOK
    <2>2. unticked'[d] = unticked[d] \cap Names(Upload(d))
        <3>1. round[d].unticked = unticked[d]
            BY <2>1 DEF UntickOf
        <3>2. unticked'[d] = UntickedAfterPush(round[d].unticked, Upload(d))
            BY <1>0, <1>9 DEF PushOk, PersistSelection, TypeOK
        <3> QED BY <3>1, <3>2 DEF UntickedAfterPush
    <2>3. carried' = carried \cup
              {<<d, a>> : a \in (Names(slot.hosts) \ Names(Upload(d))) \cap unticked[d]}
        BY <1>9 DEF PushOk, ApplyPush
    <2>4. \A a \in Aliases : <<d, a>> \in carried' => <<d, a>> \in carried \/ a \notin Names(Upload(d))
        BY <2>3
    <2> QED BY <2>1, <2>2, <2>4 DEF UntickOf
<1>10. CASE PushAnswerLost(d)
    BY <1>10 DEF PushAnswerLost
<1> QED BY <1>1, <1>2, <1>3, <1>4, <1>5, <1>6, <1>7, <1>8, <1>9, <1>10 DEF DeviceStep, RoundStep

LEMMA UntickStep ==
    ASSUME ~LossyPush, Inv, TypeOK', UntickInv, [Next]_vars
    PROVE  UntickInv'
<1>0. TypeOK /\ \A e \in Devices : UntickOf(e)
    BY DEF Inv, UntickInv, RoundUnticks, UnticksSpent, UntickOf
<1>1. ASSUME \A e \in Devices : UntickOf(e)' PROVE UntickInv'
    BY <1>1 DEF UntickInv, RoundUnticks, UnticksSpent, UntickOf
<1>2. ASSUME NEW d \in Devices, DeviceStep(d), NEW e \in Devices PROVE UntickOf(e)'
    <2>1. CASE e = d
        BY <1>0, <1>2, <2>1, UntickDevice
    <2>2. CASE e # d
        BY <1>0, <1>2, <2>2, OthersKept DEF UntickOf, Busy
    <2> QED BY <2>1, <2>2
<1>3. CASE WriteUnreadable \/ ClearAccount \/ UNCHANGED vars
    <2>1. round' = round /\ unticked' = unticked /\ carried' = carried
        BY <1>3 DEF WriteUnreadable, ClearAccount, vars
    <2> QED BY <1>0, <1>1, <2>1 DEF UntickOf, Busy
<1> QED BY <1>1, <1>2, <1>3 DEF Next

\* No push of a device takes out the same host twice for one untick, when no
\* answer is lost: only PushOk applies a push, and it spends what it carried.
THEOREM UntickIsOneShotHolds == ~LossyPush => (Spec => UntickIsOneShot)
<1> SUFFICES ASSUME ~LossyPush PROVE Spec => UntickIsOneShot
    OBVIOUS
<1> DEFINE A == \A d \in Devices : PushedBy(d) =>
                   \A a \in Names(slot.hosts) \ Names(slot'.hosts) : <<d, a>> \notin carried
<1>1. Init => UntickInv
    BY DEF Init, UntickInv, RoundUnticks, UnticksSpent, Busy, Idle
<1>2. Inv /\ UntickInv /\ [Next]_vars => UntickInv'
    BY UntickStep, StepType DEF Inv
<1>3. Inv /\ UntickInv /\ [Next]_vars => [A]_vars
    <2> SUFFICES ASSUME Inv, UntickInv, [Next]_vars, NEW d \in Devices, PushedBy(d),
                        NEW a \in Names(slot.hosts) \ Names(slot'.hosts)
                 PROVE  <<d, a>> \notin carried
        OBVIOUS
    <2>1. round'[d].pc # round[d].pc /\ slot' # slot
        BY DEF PushedBy
    <2>2. PICK e \in Devices : ApplyPush(e)
        BY <2>1, SlotChange DEF WriteUnreadable, ClearAccount
    <2>3. d = e
        BY <2>1, <2>2 DEF ApplyPush, EndRound, Inv, TypeOK
    <2>4. a \in unticked[d] /\ a \in Aliases
        BY <2>2, <2>3, PushEffect DEF Names
    <2> QED BY <2>4 DEF UntickInv, UnticksSpent
<1> QED BY Invariance, <1>1, <1>2, <1>3, PTL DEF UntickIsOneShot, Spec
=============================================================================
