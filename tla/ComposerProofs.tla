--------------------------- MODULE ComposerProofs ---------------------------
(***************************************************************************)
(* The guarantees of the composer: of the store that keeps each session's  *)
(* draft, tiles, uploads and sends (ComposerStore), and of the controller  *)
(* that writes a prompt to its PTY (ComposerDelivery).  The two have no    *)
(* variable in common; the controller's Init, Next and Spec are named      *)
(* DeliveryInit, DeliveryNext and DeliverySpec.                            *)
(*                                                                         *)
(* The store.  StoreInv has three parts that hold always: types (Types),   *)
(* records in shape (Shapes), uploads and sends under way, where they      *)
(* are registered, and that no two keys share a record (Links).  The       *)
(* fourth, Good, holds until a send goes on or ends under a key that       *)
(* names another record by then (strayed): a record knows the one send     *)
(* it has (OneSend).  Until the application starts from an outdated        *)
(* save, also: records are their sessions' own (Keyed, Owned), the words   *)
(* owed and not at risk are in them and in what was saved (WordsHeld,      *)
(* WordsSaved), and a prompt being delivered has those of its record       *)
(* (Sent).  And until a batch is unhooked: batches are found under the     *)
(* keys of their records (Registered), a send that waits finds what it     *)
(* is to carry (Waits, Carries), and a record's flags are backed           *)
(* (Flags).                                                                *)
(*                                                                         *)
(* The controller.  DeliveryTypeOK already ties the chain to the calls     *)
(* under way; DeliveryInv adds what each await left behind: which writes   *)
(* are acknowledged (Acknowledged), that only the head of the chain has    *)
(* started (OnlyHeadRuns), and where each entry of the PTY came from.      *)
(***************************************************************************)
EXTENDS ComposerStore, ComposerDelivery, FiniteSetTheorems, SequenceTheorems, TLAPS

-----------------------------------------------------------------------------
(* The store: its inductive invariant.                                     *)

RecordType ==
    [draft : SUBSET Pieces, attachments : SUBSET Files, parked : SUBSET Files, error : BOOLEAN,
     sendInFlight : BOOLEAN, uploading : BOOLEAN, history : Seq(SUBSET Pieces),
     recallSaved : (SUBSET Pieces) \cup {NoText}, recallIndex : Nat]
BatchType ==
    [phase : {"idle", "uploading", "thrown"}, rec : Recs \cup {NoRec}, files : SUBSET Files,
     cancel : BOOLEAN, loose : BOOLEAN]
SendType ==
    [phase : {"idle", "waiting", "delivering"}, key : Keys \cup {<<>>}, rec : Recs \cup {NoRec},
     batch : Batches \cup {NoBatch}, payload : SUBSET Pieces, wanted : SUBSET Files]
Modes == {"hidden", "docked", "expanded"}
LayoutType == [mode : Modes, lastOpenMode : Modes \ {"hidden"}, terminalOwnsTyping : BOOLEAN]
StoredType == [states : [Keys -> Recs \cup {NoRec}], rec : [Recs -> RecordType],
               mode : Modes, lastOpenMode : Modes \ {"hidden"}]

Types ==
    /\ name \in [Sessions -> Names \cup {Unborn, Gone}]
    /\ conn \in 1 .. MaxConns
    /\ states \in [Keys -> Recs \cup {NoRec}]
    /\ rec \in [Recs -> RecordType]
    /\ batches \in [Keys -> Batches \cup {NoBatch}]
    /\ batch \in [Batches -> BatchType]
    /\ sends \in [Sends -> SendType]
    /\ layout \in LayoutType
    /\ stored \in StoredType
    /\ dirty \in BOOLEAN
    /\ author \in [Pieces -> Sessions \cup {NoSession}]
    /\ owed \subseteq Words
    /\ kept \subseteq Words
    /\ risked \subseteq Pieces
    /\ strayed \in BOOLEAN
    /\ unhooked \in BOOLEAN
    /\ outdated \in BOOLEAN
    /\ calls \in Nat
    /\ faults \in Nat

\* The pieces that have been written or staged.
Known == {p \in Pieces : author[p] \in Sessions}

\* A history is bounded and without repetition, a prompt in it is not empty.
HistoryOK(h) == /\ Len(h) <= HistoryLimit
                /\ IsInjective(h)
                /\ {} \notin ToSet(h)

Bounded(s) == HistoryOK(s.history) /\ Cardinality(s.parked) <= ParkedLimit

\* A browse of the history has set a draft aside and is somewhere in it.
RecordOK(s) == /\ s.recallSaved = NoText <=> s.recallIndex = 0
               /\ s.recallIndex <= Len(s.history)
               /\ Bounded(s)

\* A saved record has no flag and no browse.
SavedOK(s) == /\ Bounded(s)
              /\ s.recallIndex = 0
              /\ ~ s.sendInFlight /\ ~ s.uploading

Shapes ==
    /\ \A r \in Recs : RecordOK(rec[r]) /\ Contents(rec[r]) \subseteq Known
    /\ \A r \in Recs : SavedOK(stored.rec[r]) /\ Contents(stored.rec[r]) \subseteq Known
    /\ \A k \in Keys : stored.states[k] # NoRec => Saved(stored.rec[stored.states[k]])
    /\ \A b \in Batches : batch[b].files \subseteq Known
    /\ \A i \in Sends : sends[i].payload \subseteq Known
    /\ owed \subseteq Known
    /\ kept \subseteq Known

NamesApart == \A x, y \in Sessions : Live(x) /\ name[x] = name[y] => x = y

\* No two keys name the same record.
Apart(st) == \A k, l \in Keys : st[k] # NoRec /\ st[k] = st[l] => k = l

\* Batches and sends under way, and the registration of batches.
Links ==
    /\ NamesApart
    /\ Apart(states)
    /\ Apart(stored.states)
    /\ \A b \in Batches : IF batch[b].phase = "idle" THEN batch[b] = IdleBatch
                          ELSE batch[b].rec \in Recs
    /\ \A i \in Sends : IF sends[i].phase = "idle" THEN sends[i] = IdleSend
                        ELSE /\ sends[i].key \in Keys
                             /\ sends[i].key[1] <= conn
                             /\ sends[i].rec \in Recs
                             /\ sends[i].phase = "waiting" => sends[i].batch \in Batches
                             /\ sends[i].phase = "delivering" => sends[i].payload # {}
    /\ \A k \in Keys : batches[k] # NoBatch =>
          /\ k[1] = conn
          /\ batch[batches[k]].phase # "idle"
          /\ \A l \in Keys : batches[l] = batches[k] => l = k

\* One send per record, which knows of it.
OneSend ==
    \A i \in Sends : sends[i].phase # "idle" =>
        /\ rec[sends[i].rec].sendInFlight
        /\ \A j \in Sends : sends[j].phase # "idle" /\ sends[j].rec = sends[i].rec => i = j

-----------------------------------------------------------------------------
(* Whose the records are, until a save that is outdated is loaded.         *)

\* The record of a live session is its own, and nobody else has one.
Keyed == outdated \/ \A k \in Keys : states[k] # NoRec => \E x \in Sessions : Live(x) /\ k = KeyOf(x)

\* What is in session x's record, on its way into it, or being sent from it.
By(x) == {p \in Pieces : author[p] = x}
OwnRecord(x) == states[KeyOf(x)] # NoRec => Contents(rec[states[KeyOf(x)]]) \subseteq By(x)
OwnUploads(x) == \A b \in Batches : batch[b].phase = "uploading" /\ batch[b].rec = states[KeyOf(x)]
                                      => batch[b].files \subseteq By(x)
OwnPayloads(x) == \A i \in Sends : sends[i].phase = "delivering" /\ sends[i].rec = states[KeyOf(x)]
                                      => sends[i].payload \subseteq By(x)
Owned == outdated \/ \A x \in Sessions : Live(x) => OwnRecord(x) /\ OwnUploads(x) /\ OwnPayloads(x)

\* The words to be found: owed, and not at risk.
Safe == owed \ risked

\* Where a session's words are: in the draft, or set aside by the browse.
Writing(s) == IF s.recallIndex = 0 THEN s.draft ELSE Stash(s)
WordsHeld == outdated \/ \A w \in Safe : Live(author[w]) /\ w \in Writing(Record(KeyOf(author[w])))
WordsSaved == outdated \/ \A w \in kept \ risked :
                             \E k \in Keys : /\ stored.states[k] # NoRec
                                             /\ w \in Loaded(stored.rec[stored.states[k]]).draft

\* A prompt that is being delivered has all the words its record will lose.
Sent == outdated \/ \A i \in Sends, w \in Safe :
                       sends[i].phase = "delivering" /\ sends[i].rec = states[KeyOf(author[w])]
                         => w \in sends[i].payload

-----------------------------------------------------------------------------
(* What uploads and sends find, until one lost hold of a batch.            *)

\* A registered batch is its record's, under the key of a live session, and
\* one that is not loose is registered.
Tied(b) == ~ batch[b].loose /\ ~ batch[b].cancel
Registered ==
    unhooked \/
    /\ \A k \in Keys : batches[k] # NoBatch /\ Tied(batches[k]) =>
          /\ batch[batches[k]].rec = states[k]
          /\ \E x \in Sessions : Live(x) /\ k = KeyOf(x)
    /\ \A b \in Batches : batch[b].phase = "uploading" /\ Tied(b) => \E k \in Keys : batches[k] = b

\* What a waiting send is to carry is on its way in the batch it waits for, or
\* has landed in the record, or the banner is up, or it threw.
Awaited(i) ==
    LET b == sends[i].batch
        r == sends[i].rec
    IN IF batch[b].phase = "uploading"
         THEN /\ sends[i].wanted \subseteq batch[b].files
              /\ sends[i].wanted # {} => batch[b].rec = r /\ ~ batch[b].cancel
              /\ \A k \in Keys : batches[k] = b => k = sends[i].key
         ELSE rec[r].error \/ sends[i].wanted \ Thrown \subseteq rec[r].attachments
Waits == unhooked \/ \A i \in Sends : sends[i].phase = "waiting" =>
                        IF sends[i].key[1] = conn THEN Awaited(i) ELSE states[sends[i].key] = NoRec
Carries == unhooked \/ \A i \in Sends : sends[i].phase = "delivering" =>
                                          sends[i].wanted \ Thrown \subseteq sends[i].payload

\* Flags that something backs.
Backed(r) ==
    /\ rec[r].uploading => \E b \in Batches : /\ batch[b].rec = r
                                              /\ batch[b].phase \in {"uploading", "thrown"}
                                              /\ ~ batch[b].cancel
    /\ rec[r].sendInFlight => \E i \in Sends : sends[i].rec = r
Flags == unhooked \/ \A k \in Keys : states[k] # NoRec => Backed(states[k])

-----------------------------------------------------------------------------

Good == /\ OneSend
        /\ Keyed /\ Owned /\ WordsHeld /\ WordsSaved /\ Sent
        /\ Registered /\ Waits /\ Carries /\ Flags

StoreInv == Types /\ Shapes /\ Links /\ (strayed \/ Good)

-----------------------------------------------------------------------------
(* The operators on records.                                               *)

\* Injectivity and membership of a sequence, by positions.
LEMMA Positions ==
    ASSUME NEW S, NEW h \in Seq(S)
    PROVE  /\ IsInjective(h) <=> \A i, j \in 1 .. Len(h) : h[i] = h[j] => i = j
           /\ \A e : e \in ToSet(h) <=> \E i \in 1 .. Len(h) : h[i] = e
<1>1. DOMAIN h = 1 .. Len(h)
  OBVIOUS
<1> QED
  BY <1>1 DEF IsInjective, ToSet

\* Throwing an entry out of a sequence keeps the others, each once.
LEMMA WithoutFacts ==
    ASSUME NEW S, NEW h \in Seq(S), NEW e \in S, IsInjective(h)
    PROVE  /\ Without(h, e) \in Seq(S)
           /\ Len(Without(h, e)) <= Len(h)
           /\ IsInjective(Without(h, e))
           /\ ToSet(Without(h, e)) \subseteq ToSet(h) \ {e}
<1>1. CASE e \notin ToSet(h)
  BY <1>1 DEF Without
<1>2. CASE e \in ToSet(h)
  <2> DEFINE at == CHOOSE i \in DOMAIN h : h[i] = e
             w == Without(h, e)
  <2>1. at \in 1 .. Len(h) /\ h[at] = e
    BY <1>2 DEF ToSet
  <2>2. w = SubSeq(h, 1, at - 1) \o SubSeq(h, at + 1, Len(h))
    BY <1>2 DEF Without, RemoveAt
  <2> HIDE DEF at, w
  <2> DEFINE u == SubSeq(h, 1, at - 1)
             v == SubSeq(h, at + 1, Len(h))
  <2>3. /\ u \in Seq(S) /\ Len(u) = at - 1 /\ \A i \in 1 .. at - 1 : u[i] = h[i]
        /\ v \in Seq(S) /\ Len(v) = Len(h) - at /\ \A i \in 1 .. Len(h) - at : v[i] = h[at + i]
    BY <2>1
  <2> HIDE DEF u, v
  <2>4. /\ w \in Seq(S)
        /\ Len(w) = Len(u) + Len(v)
        /\ \A i \in 1 .. Len(u) + Len(v) : w[i] = IF i <= Len(u) THEN u[i] ELSE v[i - Len(u)]
    BY <2>2, <2>3, ConcatProperties DEF u, v
  <2>n. Len(h) \in Nat /\ at \in Nat
    BY <2>1
  <2>l. Len(w) = Len(h) - 1
    BY <2>3, <2>4, <2>n
  <2>5. /\ \A i \in 1 .. at - 1 : w[i] = h[i]
        /\ \A i \in at .. Len(w) : w[i] = h[i + 1]
    <3>1. ASSUME NEW i \in 1 .. at - 1 PROVE w[i] = h[i]
      <4>1. i \in 1 .. Len(u) + Len(v) /\ i <= Len(u)
        BY <2>1, <2>3, <2>n
      <4>2. w[i] = u[i]
        BY <2>4, <4>1
      <4> QED
        BY <2>3, <4>2
    <3>2. ASSUME NEW i \in at .. Len(w) PROVE w[i] = h[i + 1]
      <4>1. i \in 1 .. Len(u) + Len(v) /\ ~ i <= Len(u) /\ i - Len(u) = i - at + 1
        BY <2>1, <2>3, <2>n, <2>l
      <4>2. w[i] = v[i - at + 1]
        BY <2>4, <4>1
      <4>3. i - at + 1 \in 1 .. Len(h) - at /\ at + (i - at + 1) = i + 1
        BY <2>1, <2>n, <2>l
      <4> QED
        BY <2>3, <4>2, <4>3
    <3> QED
      BY <3>1, <3>2
  <2>6. IsInjective(w)
    <3>1. \A i, j \in 1 .. Len(h) : h[i] = h[j] => i = j
      BY Positions
    <3>2. \A i, j \in 1 .. Len(w) : w[i] = w[j] => i = j
      BY <2>1, <2>n, <2>l, <2>5, <3>1
    <3> QED
      BY <2>4, <3>2, Positions
  <2>7. ToSet(w) \subseteq ToSet(h) \ {e}
    <3> SUFFICES ASSUME NEW d \in ToSet(w) PROVE d \in ToSet(h) /\ d # e
      OBVIOUS
    <3>1. PICK i \in 1 .. Len(w) : w[i] = d
      BY <2>4, Positions
    <3>2. \A k, l \in 1 .. Len(h) : h[k] = h[l] => k = l
      BY Positions
    <3>3. PICK k \in 1 .. Len(h) : k # at /\ h[k] = d
      <4>1. CASE i < at
        <5>1. i \in 1 .. at - 1 /\ i \in 1 .. Len(h)
          BY <2>1, <2>n, <2>l, <4>1
        <5> QED
          BY <2>5, <3>1, <4>1, <5>1
      <4>2. CASE ~ i < at
        <5>1. i \in at .. Len(w) /\ i + 1 \in 1 .. Len(h) /\ i + 1 # at
          BY <2>1, <2>n, <2>l, <4>2
        <5> QED
          BY <2>5, <3>1, <5>1
      <4> QED
        BY <4>1, <4>2
    <3> QED
      BY <2>1, <3>2, <3>3, Positions
  <2> QED
    BY <2>4, <2>n, <2>l, <2>6, <2>7 DEF w
<1> QED
  BY <1>1, <1>2

\* The newest n entries of a sequence.
LEMMA LastOnesFacts ==
    ASSUME NEW S, NEW h \in Seq(S), NEW n \in Nat, IsInjective(h)
    PROVE  /\ LastOnes(h, n) \in Seq(S)
           /\ Len(LastOnes(h, n)) <= n
           /\ IsInjective(LastOnes(h, n))
           /\ ToSet(LastOnes(h, n)) \subseteq ToSet(h)
<1>1. CASE Len(h) <= n
  BY <1>1 DEF LastOnes
<1>2. CASE ~ Len(h) <= n
  <2> DEFINE from == Len(h) - n + 1
             l == LastOnes(h, n)
  <2>1. l = SubSeq(h, from, Len(h))
    BY <1>2 DEF LastOnes
  <2>2. from \in 1 .. Len(h) + 1 /\ from + n = Len(h) + 1
    BY <1>2
  <2> HIDE DEF from, l
  <2>3. l \in Seq(S) /\ Len(l) = n /\ \A i \in 1 .. n : l[i] = h[from + i - 1]
    BY <2>1, <2>2
  <2>p. \A i \in 1 .. n : from + i - 1 \in 1 .. Len(h)
    BY <2>2
  <2>4. IsInjective(l)
    <3>1. \A i, j \in 1 .. Len(h) : h[i] = h[j] => i = j
      BY Positions
    <3>2. ASSUME NEW i \in 1 .. n, NEW j \in 1 .. n, l[i] = l[j] PROVE i = j
      <4>1. from + i - 1 = from + j - 1
        BY <2>3, <2>p, <3>1, <3>2
      <4> QED
        BY <2>2, <4>1
    <3> QED
      BY <2>3, <3>2, Positions
  <2>5. ToSet(l) \subseteq ToSet(h)
    <3> SUFFICES ASSUME NEW d \in ToSet(l) PROVE d \in ToSet(h)
      OBVIOUS
    <3>1. PICK i \in 1 .. Len(l) : l[i] = d
      BY <2>3, Positions
    <3> QED
      BY <2>3, <2>p, <3>1, Positions
  <2> QED
    BY <2>3, <2>4, <2>5 DEF l
<1> QED
  BY <1>1, <1>2

\* A prompt recorded is one more entry, and the history stays in shape.
LEMMA HistoryStep ==
    ASSUME NEW h \in Seq(SUBSET Pieces), HistoryOK(h),
           NEW p \in SUBSET Pieces, p # {},
           NEW g, g = LastOnes(Append(Without(h, p), p), HistoryLimit)
    PROVE  /\ g \in Seq(SUBSET Pieces) /\ HistoryOK(g)
           /\ ToSet(g) \subseteq ToSet(h) \cup {p}
<1> DEFINE w == Without(h, p)
           a == Append(w, p)
<1>1. /\ w \in Seq(SUBSET Pieces) /\ IsInjective(w) /\ ToSet(w) \subseteq ToSet(h) \ {p}
  BY WithoutFacts DEF HistoryOK
<1> HIDE DEF w
<1>2. a \in Seq(SUBSET Pieces) /\ Len(a) = Len(w) + 1
      /\ \A i \in 1 .. Len(a) : a[i] = IF i = Len(a) THEN p ELSE w[i]
  BY <1>1
<1>3. ToSet(a) \subseteq ToSet(w) \cup {p}
  <2> SUFFICES ASSUME NEW d \in ToSet(a), d # p PROVE d \in ToSet(w)
    OBVIOUS
  <2>1. PICK i \in 1 .. Len(a) : a[i] = d
    BY <1>2, Positions
  <2> QED
    BY <1>1, <1>2, <2>1, Positions
<1>4. IsInjective(a)
  <2>1. \A i, j \in 1 .. Len(w) : w[i] = w[j] => i = j
    BY <1>1, Positions
  <2>2. \A i \in 1 .. Len(w) : w[i] # p
    BY <1>1, Positions
  <2>3. \A i, j \in 1 .. Len(a) : a[i] = a[j] => i = j
    BY <1>1, <1>2, <2>1, <2>2
  <2> QED
    BY <1>2, <2>3, Positions
<1> HIDE DEF a
<1>5. HistoryLimit \in Nat
  BY StoreAssumption
<1>6. g \in Seq(SUBSET Pieces) /\ Len(g) <= HistoryLimit /\ IsInjective(g) /\ ToSet(g) \subseteq ToSet(a)
  BY <1>2, <1>4, <1>5, LastOnesFacts DEF a, w
<1> QED
  BY <1>1, <1>3, <1>6 DEF HistoryOK

-----------------------------------------------------------------------------
(* Keys, records and writes of them.                                       *)

\* What the assumption on the constants says of each.
LEMMA Constants ==
    /\ HistoryLimit \in Nat /\ ParkedLimit \in Nat /\ MaxConns \in Nat \ {0}
    /\ NoRec \notin Recs /\ NoBatch \notin Batches /\ NoSession \notin Sessions
    /\ Unborn \notin Names /\ Gone \notin Names
    /\ \A T \in SUBSET Pieces : T # NoText
    /\ Words \subseteq Pieces /\ Files \subseteq Pieces
BY StoreAssumption DEF Pieces

\* The record ensure() makes is in shape and holds nothing.
LEMMA BlankIsOK ==
    /\ Blank \in RecordType /\ RecordOK(Blank) /\ SavedOK(Blank)
    /\ Contents(Blank) = {} /\ Writing(Blank) = {}
<1>1. <<>> \in Seq(SUBSET Pieces) /\ Len(<<>>) = 0 /\ ToSet(<<>>) = {} /\ IsInjective(<<>>)
  BY DEF ToSet, IsInjective
<1>2. Cardinality({}) = 0
  BY FS_EmptySet
<1>3. Blank \in RecordType
  <2> DEFINE none == <<>>
  <2>1. none \in Seq(SUBSET Pieces)
    BY <1>1
  <2> HIDE DEF none
  <2>2. [draft |-> {}, attachments |-> {}, parked |-> {}, error |-> FALSE,
         sendInFlight |-> FALSE, uploading |-> FALSE, history |-> none,
         recallSaved |-> NoText, recallIndex |-> 0] \in RecordType
    BY <2>1 DEF RecordType
  <2> QED
    BY <2>2 DEF Blank, none
<1>4. HistoryOK(<<>>)
  BY <1>1, Constants DEF HistoryOK
<1>5. RecordOK(Blank) /\ SavedOK(Blank)
  BY <1>1, <1>2, <1>4, Constants DEF Blank, RecordOK, SavedOK, Bounded
<1>6. Contents(Blank) = {} /\ Writing(Blank) = {}
  BY <1>1 DEF Blank, Contents, Writing, Held, Stash
<1> QED
  BY <1>3, <1>5, <1>6

\* Every live session has a key of its own, on the connection in use.
LEMMA KeyFacts ==
    ASSUME Types, Links, NEW x \in Sessions, Live(x)
    PROVE  /\ KeyOf(x) \in Keys
           /\ KeyOf(x)[1] = conn
           /\ \A y \in Sessions : Live(y) /\ KeyOf(y) = KeyOf(x) => y = x
<1>1. KeyOf(x) \in Keys /\ KeyOf(x)[1] = conn
  BY DEF Types, Live, KeyOf, Keys
<1>2. \A y \in Sessions : Live(y) /\ KeyOf(y) = KeyOf(x) => y = x
  BY DEF Live, KeyOf, Links, NamesApart
<1> QED
  BY <1>1, <1>2

\* The record a key names, a blank one included, is in shape.
LEMMA RecordFacts ==
    ASSUME Types, Shapes, NEW k \in Keys
    PROVE  /\ Record(k) \in RecordType
           /\ RecordOK(Record(k))
           /\ Contents(Record(k)) \subseteq Known
<1>1. CASE states[k] = NoRec
  BY <1>1, BlankIsOK DEF Record
<1>2. CASE states[k] # NoRec
  <2>1. states[k] \in Recs
    BY <1>2 DEF Types
  <2> QED
    BY <1>2, <2>1 DEF Record, Types, Shapes
<1> QED
  BY <1>1, <1>2

\* A record is written in place, or a new object is put under the key.
WritesRecord(k, r, s) ==
    /\ states' = [states EXCEPT ![k] = r]
    /\ rec' = [rec EXCEPT ![r] = s]
    /\ \/ r = states[k] /\ Record(k) = rec[r]
       \/ /\ states[k] = NoRec /\ Record(k) = Blank
          /\ \A l \in Keys : states[l] # r
          /\ \A i \in Sends : sends[i].rec # r
          /\ \A b \in Batches : batch[b].rec # r

\* Put writes the record under the key: the object there, or one nobody else holds.
LEMMA PutWrites ==
    ASSUME Types, NEW k \in Keys, NEW s, Put(k, s)
    PROVE  RecAt(k) \in Recs /\ WritesRecord(k, RecAt(k), s)
<1>1. CASE states[k] = NoRec
  <2>1. FreshRec \in Recs /\ FreshRec \notin Referenced
    BY <1>1 DEF Put, FreshRec, First
  <2>2. /\ \A l \in Keys : states[l] # FreshRec
        /\ \A i \in Sends : sends[i].rec # FreshRec
        /\ \A b \in Batches : batch[b].rec # FreshRec
    BY <2>1 DEF Referenced
  <2> QED
    BY <1>1, <2>1, <2>2 DEF Put, RecAt, Record, WritesRecord
<1>2. CASE states[k] # NoRec
  BY <1>2 DEF Put, RecAt, Record, WritesRecord, Types
<1> QED
  BY <1>1, <1>2

\* What a write of session x's record leaves under the keys.
LEMMA WriteReads ==
    ASSUME Types, Links, Types', NEW x \in Sessions, Live(x), NEW r \in Recs, NEW s \in RecordType,
           WritesRecord(KeyOf(x), r, s), UNCHANGED <<name, conn>>
    PROVE  /\ states'[KeyOf(x)] = r
           /\ rec'[r] = s
           /\ \A k \in Keys : k # KeyOf(x) => states'[k] = states[k]
           /\ \A q \in Recs : q # r => rec'[q] = rec[q]
           /\ \A k \in Keys : k # KeyOf(x) => states[k] # r
           /\ \A k \in Keys : k # KeyOf(x) => Record(k)' = Record(k)
           /\ Record(KeyOf(x))' = s
           /\ Apart(states')
<1> DEFINE key == KeyOf(x)
<1>1. key \in Keys
  BY KeyFacts
<1>2. states \in [Keys -> Recs \cup {NoRec}] /\ rec \in [Recs -> RecordType] /\ NoRec \notin Recs
  BY Constants DEF Types
<1>k. key' = key
  BY DEF KeyOf
<1> HIDE DEF key
<1>3. /\ states'[key] = r
      /\ rec'[r] = s
      /\ \A k \in Keys : k # key => states'[k] = states[k]
      /\ \A q \in Recs : q # r => rec'[q] = rec[q]
  BY <1>1, <1>2 DEF WritesRecord, key
<1>4. \A k \in Keys : k # key => states[k] # r
  BY <1>1, <1>2 DEF WritesRecord, Links, Apart, key
<1>5. ASSUME NEW k \in Keys, k # key PROVE Record(k)' = Record(k)
  BY <1>2, <1>3, <1>4, <1>5 DEF Record
<1>6. Record(key)' = s
  BY <1>2, <1>3, <1>k DEF Record
<1>7. Apart(states')
  BY <1>1, <1>2, <1>3, <1>4 DEF Links, Apart
<1> QED
  BY <1>3, <1>4, <1>5, <1>6, <1>7, <1>k DEF key

-----------------------------------------------------------------------------
(* A write of one session's record.                                        *)

\* Pieces keep their author.
AuthorsKept == \A p \in Pieces : author[p] \in Sessions => author'[p] = author[p]

\* What session x's record may become: it gains pieces of x only, and the
\* safe words stay where they are or are written now, when no prompt of the
\* record is being delivered.
Becomes(x, s) ==
    /\ Contents(s) \subseteq Contents(Record(KeyOf(x))) \cup {p \in Pieces : author'[p] = x}
    /\ owed' \subseteq owed \cup {w \in Words : author'[w] = x}
    /\ \A w \in Safe' : \/ author'[w] = x /\ w \in Writing(s) /\ ~ Delivering(KeyOf(x))
                        \/ w \in Safe /\ (w \in Writing(Record(KeyOf(x))) => w \in Writing(s))

\* Pieces stay known.
LEMMA KnownStays ==
    ASSUME AuthorsKept
    PROVE  /\ Known \subseteq Known'
           /\ \A x \in Sessions : By(x) \subseteq By(x)'
BY DEF AuthorsKept, Known, By

\* A write of a record in shape leaves every record in shape.
LEMMA WriteKeepsShapes ==
    ASSUME Types, Shapes, Links, Types', NEW x \in Sessions, Live(x), NEW r \in Recs,
           NEW s \in RecordType, RecordOK(s), WritesRecord(KeyOf(x), r, s), AuthorsKept, Becomes(x, s)
    PROVE  /\ \A q \in Recs : RecordOK(rec[q])' /\ Contents(rec[q])' \subseteq Known'
           /\ owed' \subseteq Known'
<1>1. KeyOf(x) \in Keys
  BY KeyFacts
<1>2. Contents(s) \subseteq Known'
  BY <1>1, RecordFacts, KnownStays DEF Becomes, Known
<1>3. rec' = [rec EXCEPT ![r] = s] /\ rec \in [Recs -> RecordType]
  BY DEF WritesRecord, Types
<1>4. ASSUME NEW q \in Recs PROVE RecordOK(rec'[q]) /\ Contents(rec'[q]) \subseteq Known'
  <2>1. CASE q = r
    BY <1>2, <1>3, <2>1
  <2>2. CASE q # r
    BY <1>3, <2>2, KnownStays DEF Shapes
  <2> QED
    BY <2>1, <2>2
<1>5. ASSUME NEW w \in owed' PROVE w \in Known'
  BY <1>5, KnownStays, Constants DEF Becomes, Shapes, Known
<1>6. \A q \in Recs : RecordOK(rec[q])' /\ Contents(rec[q])' \subseteq Known'
  BY <1>4 DEF RecordOK, Bounded, HistoryOK, Contents, Held, Stash
<1> QED
  BY <1>5, <1>6

\* A write that adds only pieces of its own session, and keeps the safe words,
\* keeps what the invariant says of the records.
LEMMA WriteKeepsRecords ==
    ASSUME StoreInv, Good, Types', NEW x \in Sessions, Live(x), NEW r \in Recs,
           NEW s \in RecordType, WritesRecord(KeyOf(x), r, s), UNCHANGED <<name, conn>>,
           AuthorsKept, Becomes(x, s), ~ outdated, UNCHANGED outdated
    PROVE  /\ Keyed' /\ WordsHeld'
           /\ \A y \in Sessions : Live(y) => OwnRecord(y)'
<1> USE DEF StoreInv
<1>0. /\ KeyOf(x) \in Keys
      /\ \A y \in Sessions : Live(y) => KeyOf(y) \in Keys /\ (y # x => KeyOf(y) # KeyOf(x))
  BY KeyFacts
<1>1. /\ states'[KeyOf(x)] = r
      /\ rec'[r] = s
      /\ \A k \in Keys : k # KeyOf(x) => states'[k] = states[k]
      /\ \A q \in Recs : q # r => rec'[q] = rec[q]
      /\ \A k \in Keys : k # KeyOf(x) => states[k] # r
      /\ \A k \in Keys : k # KeyOf(x) => Record(k)' = Record(k)
      /\ Record(KeyOf(x))' = s
      /\ Apart(states')
  BY WriteReads
<1>2. \A y : KeyOf(y)' = KeyOf(y) /\ (Live(y)' <=> Live(y))
  BY DEF KeyOf, Live
<1>3. Keyed'
  BY <1>0, <1>1, <1>2 DEF Keyed, Good
<1>4. WordsHeld'
  <2> DEFINE after == [k \in Keys |-> IF k = KeyOf(x) THEN s ELSE Record(k)]
  <2>1. \A k \in Keys : after[k] = IF states'[k] = NoRec THEN Blank ELSE rec'[states'[k]]
    BY <1>0, <1>1, Constants DEF Record
  <2>2. ASSUME NEW w \in Safe'
        PROVE  \E y \in Sessions : author'[w] = y /\ Live(y) /\ w \in Writing(after[KeyOf(y)])
    <3>1. CASE author'[w] = x /\ w \in Writing(s)
      BY <1>0, <3>1
    <3>2. CASE w \in Safe /\ (w \in Writing(Record(KeyOf(x))) => w \in Writing(s))
      <4>1. author[w] \in Sessions /\ author'[w] = author[w]
        BY <3>2, Constants DEF Safe, Shapes, Known, AuthorsKept
      <4>2. Live(author[w]) /\ w \in Writing(Record(KeyOf(author[w])))
        BY <3>2 DEF Good, WordsHeld
      <4> QED
        BY <1>0, <3>2, <4>1, <4>2
    <3> QED
      BY <2>2, <3>1, <3>2 DEF Becomes
  <2> HIDE DEF after
  <2>3. ASSUME NEW w \in Safe'
        PROVE  Live(author[w])' /\ (w \in Writing(Record(KeyOf(author[w]))))'
    <3>1. PICK y \in Sessions : author'[w] = y /\ Live(y) /\ w \in Writing(after[KeyOf(y)])
      BY <2>2, <2>3
    <3>2. KeyOf(y) \in Keys /\ KeyOf(y) = KeyOf(author[w])'
      BY <1>0, <3>1 DEF KeyOf
    <3>3. (Record(KeyOf(author[w])))' = after[KeyOf(y)]
      BY <2>1, <3>2 DEF Record
    <3> QED
      BY <3>1, <3>3 DEF Live, Writing, Stash
  <2> QED
    BY <2>3 DEF WordsHeld
<1>5. ASSUME NEW y \in Sessions, Live(y) PROVE OwnRecord(y)'
  <2>1. CASE y = x
    <3>1. Contents(Record(KeyOf(x))) \subseteq By(x)
      BY BlankIsOK DEF Good, Owned, OwnRecord, Record
    <3>2. Contents(s) \subseteq By(x)'
      BY <3>1, KnownStays DEF Becomes, By
    <3> QED
      BY <1>1, <1>2, <2>1, <3>2 DEF OwnRecord, Contents, Held, Stash
  <2>2. CASE y # x
    <3>1. states'[KeyOf(y)] = states[KeyOf(y)] /\ states[KeyOf(y)] # r
      BY <1>0, <1>1, <1>5, <2>2
    <3>2. states[KeyOf(y)] # NoRec => /\ rec'[states[KeyOf(y)]] = rec[states[KeyOf(y)]]
                                      /\ Contents(rec[states[KeyOf(y)]]) \subseteq By(y)
      BY <1>0, <1>1, <1>5, <3>1 DEF Good, Owned, OwnRecord, Types
    <3> QED
      BY <1>2, <3>1, <3>2, KnownStays DEF OwnRecord, Contents, Held, Stash
  <2> QED
    BY <2>1, <2>2
<1> QED
  BY <1>1, <1>3, <1>4, <1>5

\* A write that adds only pieces of its own session adds no safe word to a
\* record whose prompt is being delivered.
LEMMA SentStays ==
    ASSUME StoreInv, Good, Types', NEW x \in Sessions, Live(x), NEW r \in Recs,
           NEW s \in RecordType, WritesRecord(KeyOf(x), r, s), UNCHANGED <<name, conn>>,
           AuthorsKept, Becomes(x, s), ~ outdated,
           \A i \in Sends : sends'[i].phase = "delivering" =>
                              /\ sends[i].phase = "delivering"
                              /\ sends'[i].rec = sends[i].rec
                              /\ sends'[i].payload = sends[i].payload
    PROVE  Sent'
<1> USE DEF StoreInv
<1> DEFINE key == KeyOf(x)
<1>0. /\ key \in Keys
      /\ \A y \in Sessions : Live(y) => KeyOf(y) \in Keys /\ (y # x => KeyOf(y) # key)
  BY KeyFacts
<1>1. /\ states'[key] = r
      /\ \A k \in Keys : k # key => states'[k] = states[k]
  BY WriteReads
<1>2. r = states[key] \/ (states[key] = NoRec /\ \A i \in Sends : sends[i].rec # r)
  BY DEF WritesRecord
<1>3. \A y : KeyOf(y)' = KeyOf(y)
  BY DEF KeyOf
<1> HIDE DEF key
<1> SUFFICES ASSUME NEW i \in Sends, NEW w \in Safe', sends'[i].phase = "delivering",
                    sends'[i].rec = (states[KeyOf(author[w])])'
             PROVE  w \in sends'[i].payload
  BY DEF Sent
<1>4. /\ sends[i].phase = "delivering"
      /\ sends'[i].rec = sends[i].rec /\ sends'[i].payload = sends[i].payload
      /\ sends[i].rec \in Recs
  BY DEF Links
<1>5. CASE author'[w] = x /\ ~ Delivering(KeyOf(x))
  <2>1. sends[i].rec = r /\ sends[i].rec # states[key]
    BY <1>1, <1>3, <1>4, <1>5 DEF Delivering, key, KeyOf
  <2> QED
    BY <1>2, <2>1
<1>6. CASE w \in Safe
  <2>1. author'[w] = author[w] /\ Live(author[w]) /\ author[w] \in Sessions
    BY <1>6, Constants DEF Good, WordsHeld, Safe, Shapes, Known, AuthorsKept
  <2>2. KeyOf(author[w])' = KeyOf(author[w]) /\ KeyOf(author[w]) \in Keys
    BY <1>0, <2>1 DEF KeyOf
  <2>3. sends[i].rec = states[KeyOf(author[w])]
    BY <1>1, <1>2, <1>4, <2>2
  <2> QED
    BY <1>4, <1>6, <2>3 DEF Good, Sent
<1> QED
  BY <1>5, <1>6 DEF Becomes

\* A write of a record whose flags stay, by a gesture that touches no upload
\* and no send, keeps the invariant.
LEMMA EditKeeps ==
    ASSUME StoreInv, Types', NEW x \in Sessions, Live(x), NEW s \in RecordType, RecordOK(s),
           Put(KeyOf(x), s), ~ \E i \in Sends : Resumable(i),
           UNCHANGED <<name, conn, batches, batch, sends, stored, kept, strayed, unhooked, outdated>>,
           AuthorsKept, Becomes(x, s), risked \subseteq risked',
           s.sendInFlight = Record(KeyOf(x)).sendInFlight,
           s.uploading => Record(KeyOf(x)).uploading
    PROVE  StoreInv'
<1> USE DEF StoreInv
<1> DEFINE key == KeyOf(x)
           r == RecAt(key)
<1>0. /\ key \in Keys
      /\ \A y \in Sessions : Live(y) => KeyOf(y) \in Keys /\ (y # x => KeyOf(y) # key)
  BY KeyFacts
<1>1. r \in Recs /\ WritesRecord(key, r, s)
  BY <1>0, PutWrites
<1>2. \A y : KeyOf(y)' = KeyOf(y) /\ (Live(y)' <=> Live(y))
  BY DEF KeyOf, Live
<1>k. key[1] = conn
  BY KeyFacts
<1>f. /\ s.sendInFlight = Record(key).sendInFlight
      /\ s.uploading => Record(key).uploading
  OBVIOUS
<1> HIDE DEF key, r
<1>3. Shapes'
  <2>1. /\ \A q \in Recs : RecordOK(rec[q])' /\ Contents(rec[q])' \subseteq Known'
        /\ owed' \subseteq Known'
    BY <1>1, WriteKeepsShapes DEF key
  <2>2. /\ \A q \in Recs : SavedOK(stored.rec[q])' /\ Contents(stored.rec[q])' \subseteq Known'
        /\ \A k \in Keys : stored'.states[k] # NoRec => Saved(stored.rec[stored.states[k]])'
        /\ \A b \in Batches : batch'[b].files \subseteq Known'
        /\ \A i \in Sends : sends'[i].payload \subseteq Known'
        /\ kept' \subseteq Known'
    BY KnownStays DEF Shapes, SavedOK, Bounded, HistoryOK, Saved, Contents, Held, Stash
  <2> QED
    BY <2>1, <2>2 DEF Shapes
<1>4. Links'
  <2>1. Apart(states')
    BY <1>1, WriteReads DEF key
  <2>2. Apart(states)' /\ Apart(stored.states)' /\ NamesApart'
    BY <2>1 DEF Links, Apart, NamesApart, Live
  <2> QED
    BY <2>2 DEF Links
<1>5. ASSUME ~ strayed PROVE Good'
  <2>0. Good
    BY <1>5
  <2>1. ASSUME ~ outdated
        PROVE  /\ Keyed' /\ WordsHeld'
               /\ \A y \in Sessions : Live(y) => OwnRecord(y)'
    BY <1>1, <2>0, <2>1, WriteKeepsRecords DEF key
  <2>t. Keyed' /\ WordsHeld'
    BY <2>1 DEF Keyed, WordsHeld
  <2>2. /\ states'[key] = r
        /\ rec'[r] = s
        /\ \A k \in Keys : k # key => states'[k] = states[k]
        /\ \A q \in Recs : q # r => rec'[q] = rec[q]
        /\ \A k \in Keys : k # key => states[k] # r
    BY <1>1, WriteReads DEF key
  <2>3. \/ r = states[key] /\ Record(key) = rec[r]
        \/ /\ states[key] = NoRec /\ Record(key) = Blank
           /\ \A i \in Sends : sends[i].rec # r
           /\ \A b \in Batches : batch[b].rec # r
    BY <1>1 DEF WritesRecord
  <2>4. ASSUME ~ outdated, NEW y \in Sessions, Live(y) PROVE OwnUploads(y)' /\ OwnPayloads(y)'
    BY <1>0, <1>2, <2>0, <2>2, <2>3, <2>4, KnownStays DEF Good, Owned, OwnUploads, OwnPayloads
  <2>5. Owned'
    BY <1>2, <2>1, <2>4 DEF Owned
  <2>6. WordsSaved'
    BY <2>0 DEF Good, WordsSaved, Loaded, EndRecall
  <2>s. Sent'
    <3>1. ~ outdated => Sent'
      BY <1>1, <2>0, SentStays DEF key
    <3> QED
      BY <3>1 DEF Sent
  <2>7. Registered'
    <3>1. \A k \in Keys : batches[k] # NoBatch => batches[k] \in Batches
      BY DEF Types
    <3>2. \A k \in Keys : batches[k] # NoBatch => batch[batches[k]].rec \in Recs
      BY <3>1 DEF Links
    <3> QED
      BY <1>0, <1>2, <2>0, <2>2, <2>3, <3>1, <3>2, Constants DEF Good, Registered, Tied
  <2>8. Waits'
    <3>1. \A i \in Sends : sends[i].phase = "waiting" => batch[sends[i].batch].phase = "uploading"
      BY DEF Resumable
    <3>2. \A i \in Sends : sends[i].phase = "waiting" /\ sends[i].key[1] # conn
                          => states'[sends[i].key] = states[sends[i].key]
      BY <1>k, <2>2 DEF Links
    <3> QED
      BY <2>0, <3>1, <3>2 DEF Good, Waits, Awaited
  <2>9. Carries'
    BY <2>0 DEF Good, Carries, Thrown
  <2>10. OneSend'
    <3>1. \A i \in Sends : sends[i].phase # "idle" => sends[i].rec \in Recs
      BY DEF Links
    <3>2. \A i \in Sends : sends[i].phase # "idle" => rec'[sends[i].rec].sendInFlight
      BY <1>f, <2>0, <2>2, <2>3, <3>1 DEF Good, OneSend
    <3> QED
      BY <2>0, <3>2 DEF Good, OneSend
  <2>11. Flags'
    <3> SUFFICES ASSUME ~ unhooked, NEW k \in Keys, states'[k] # NoRec PROVE Backed(states[k])'
      BY DEF Flags
    <3>1. CASE k = key /\ states[key] = NoRec
      BY <1>1, <1>f, <2>2, <2>3, <3>1, Constants DEF Backed, Blank
    <3>2. CASE k = key /\ states[key] # NoRec
      BY <1>0, <1>1, <1>f, <2>0, <2>2, <2>3, <3>2 DEF Good, Flags, Backed
    <3>3. CASE k # key
      <4>1. states'[k] = states[k] /\ states[k] \in Recs /\ rec'[states[k]] = rec[states[k]]
        BY <2>2, <3>3 DEF Types
      <4> QED
        BY <2>0, <4>1 DEF Good, Flags, Backed
    <3> QED
      BY <3>1, <3>2, <3>3
  <2> QED
    BY <2>t, <2>5, <2>6, <2>s, <2>7, <2>8, <2>9, <2>10, <2>11 DEF Good
<1> QED
  BY <1>3, <1>4, <1>5

-----------------------------------------------------------------------------
(* The gestures that edit one record.                                      *)

\* endRecall leaves everything but the browse.
LEMMA EndRecallFacts ==
    ASSUME NEW s \in RecordType, Bounded(s)
    PROVE  /\ EndRecall(s) \in RecordType /\ RecordOK(EndRecall(s))
           /\ Writing(EndRecall(s)) = s.draft
           /\ Contents(EndRecall(s)) = s.draft \cup s.attachments \cup s.parked \cup UNION ToSet(s.history)
           /\ EndRecall(s).sendInFlight = s.sendInFlight
           /\ EndRecall(s).uploading = s.uploading
           /\ EndRecall(s).error = s.error
           /\ EndRecall(s).attachments = s.attachments
<1> DEFINE t == EndRecall(s)
<1>1. /\ t \in RecordType
      /\ t.draft = s.draft /\ t.attachments = s.attachments /\ t.parked = s.parked
      /\ t.sendInFlight = s.sendInFlight /\ t.uploading = s.uploading /\ t.error = s.error
      /\ t.history = s.history /\ t.recallSaved = NoText /\ t.recallIndex = 0
  BY DEF EndRecall, RecordType
<1> HIDE DEF t
<1>2. Len(s.history) \in Nat
  BY DEF RecordType
<1>3. RecordOK(t)
  BY <1>1, <1>2 DEF RecordOK, Bounded, HistoryOK
<1>4. Writing(t) = s.draft /\ Contents(t) = s.draft \cup s.attachments \cup s.parked \cup UNION ToSet(s.history)
  BY <1>1 DEF Writing, Contents, Held, Stash
<1> QED
  BY <1>1, <1>3, <1>4 DEF t

\* A write of a record is well typed.
LEMMA WriteTypes ==
    ASSUME Types, NEW k \in Keys, NEW s \in RecordType, Put(k, s)
    PROVE  /\ states' \in [Keys -> Recs \cup {NoRec}]
           /\ rec' \in [Recs -> RecordType]
BY PutWrites DEF WritesRecord, Types

\* A new word gets its author, and nobody loses one.
LEMMA NewWordFacts ==
    ASSUME Types, Fresh(Words) # {}, NEW x \in Sessions, author' = [author EXCEPT ![NewWord] = x]
    PROVE  /\ NewWord \in Words /\ author[NewWord] = NoSession /\ author'[NewWord] = x
           /\ author' \in [Pieces -> Sessions \cup {NoSession}]
           /\ AuthorsKept
<1>1. NewWord \in Words /\ author[NewWord] = NoSession
  BY DEF NewWord, First, Fresh
<1> QED
  BY <1>1, Constants DEF Types, AuthorsKept

\* setDraft with more text.
LEMMA TypeKeeps ==
    ASSUME StoreInv, NEW x \in Sessions, Type(x)
    PROVE  StoreInv'
<1> USE DEF StoreInv
<1> DEFINE s == Record(KeyOf(x))
           u == [s EXCEPT !.draft = @ \cup {NewWord}, !.error = FALSE]
           t == EndRecall(u)
<1>0. Live(x) /\ KeyOf(x) \in Keys
  BY KeyFacts DEF Type
<1>1. s \in RecordType /\ RecordOK(s)
  BY <1>0, RecordFacts
<1>2. Fresh(Words) # {} /\ author' = [author EXCEPT ![NewWord] = x]
  BY DEF Type
<1>3. /\ NewWord \in Words /\ author'[NewWord] = x /\ NewWord \in Pieces
      /\ author' \in [Pieces -> Sessions \cup {NoSession}]
      /\ AuthorsKept
  BY <1>2, NewWordFacts, Constants
<1>4. /\ Put(KeyOf(x), t) /\ dirty' = TRUE
      /\ owed' = owed \cup {NewWord}
      /\ risked' = risked \cup Stash(s) \cup (IF Delivering(KeyOf(x)) THEN {NewWord} ELSE {})
      /\ ~ \E i \in Sends : Resumable(i)
      /\ calls' = calls + 1
      /\ UNCHANGED <<name, conn, batches, batch, sends, layout, stored, kept, strayed, unhooked, outdated, faults>>
  BY DEF Type, Edit, Gesture, Frame
<1> HIDE DEF s
<1>5. /\ u \in RecordType /\ Bounded(u)
      /\ u.draft = s.draft \cup {NewWord} /\ u.attachments = s.attachments /\ u.parked = s.parked
      /\ u.history = s.history /\ u.sendInFlight = s.sendInFlight /\ u.uploading = s.uploading
  BY <1>1, <1>3 DEF RecordType, RecordOK, Bounded
<1> HIDE DEF u
<1>6. /\ t \in RecordType /\ RecordOK(t)
      /\ Writing(t) = s.draft \cup {NewWord}
      /\ Contents(t) \subseteq Contents(s) \cup {NewWord}
      /\ t.sendInFlight = s.sendInFlight /\ t.uploading = s.uploading
  BY <1>5, EndRecallFacts DEF Contents, Held
<1> HIDE DEF t
<1>7. Becomes(x, t)
  <2>1. Contents(t) \subseteq Contents(s) \cup {p \in Pieces : author'[p] = x}
    BY <1>3, <1>6
  <2>2. Writing(s) \subseteq s.draft \cup Stash(s)
    BY DEF Writing
  <2> QED
    BY <1>3, <1>4, <1>6, <2>1, <2>2 DEF Becomes, Safe, s
<1>8. Types'
  <2>1. Stash(s) \subseteq Pieces
    BY <1>1 DEF Stash, RecordType
  <2> QED
    BY <1>0, <1>3, <1>4, <1>6, <2>1, WriteTypes DEF Types
<1> QED
  BY <1>0, <1>3, <1>4, <1>6, <1>7, <1>8, EditKeeps DEF s

\* A gesture that writes nothing new.
LEMMA RearrangeKeeps ==
    ASSUME StoreInv, NEW x \in Sessions, Live(x), Gesture, NEW t \in RecordType, RecordOK(t),
           Put(KeyOf(x), t),
           Contents(t) \subseteq Contents(Record(KeyOf(x))),
           owed' \subseteq owed,
           risked \subseteq risked', risked' \subseteq Pieces,
           \A w \in Safe' : w \in Writing(Record(KeyOf(x))) => w \in Writing(t),
           t.sendInFlight = Record(KeyOf(x)).sendInFlight,
           t.uploading => Record(KeyOf(x)).uploading,
           dirty' \in BOOLEAN, layout' \in LayoutType,
           UNCHANGED <<name, conn, batches, batch, sends, stored, author, kept, strayed, unhooked, outdated, faults>>
    PROVE  StoreInv'
<1> USE DEF StoreInv
<1>1. KeyOf(x) \in Keys
  BY KeyFacts
<1>2. Types'
  BY <1>1, WriteTypes DEF Types, Gesture
<1>3. AuthorsKept /\ Becomes(x, t)
  BY DEF AuthorsKept, Becomes, Safe
<1> QED
  BY <1>2, <1>3, EditKeeps DEF Gesture

\* setDraft with an empty one.
LEMMA EraseKeeps ==
    ASSUME StoreInv, NEW x \in Sessions, Erase(x)
    PROVE  StoreInv'
<1> DEFINE s == Record(KeyOf(x))
           u == [s EXCEPT !.draft = {}, !.error = FALSE]
           t == EndRecall(u)
<1>1. Live(x) /\ KeyOf(x) \in Keys /\ s \in RecordType /\ RecordOK(s)
  BY KeyFacts, RecordFacts DEF Erase, StoreInv
<1>2. /\ Put(KeyOf(x), t) /\ dirty' = TRUE /\ owed' = owed \ s.draft
      /\ risked' = risked \cup Stash(s) /\ Gesture
      /\ UNCHANGED <<name, conn, batches, batch, sends, layout, stored, author, kept, strayed, unhooked, outdated, faults>>
  BY DEF Erase, Edit, Frame
<1> HIDE DEF s
<1>3. /\ u \in RecordType /\ Bounded(u)
      /\ u.draft = {} /\ u.attachments = s.attachments /\ u.parked = s.parked
      /\ u.history = s.history /\ u.sendInFlight = s.sendInFlight /\ u.uploading = s.uploading
  BY <1>1 DEF RecordType, RecordOK, Bounded
<1> HIDE DEF u
<1>4. /\ t \in RecordType /\ RecordOK(t)
      /\ Contents(t) \subseteq Contents(s)
      /\ t.sendInFlight = s.sendInFlight /\ t.uploading = s.uploading
  BY <1>3, EndRecallFacts DEF Contents
<1> HIDE DEF t
<1>5. \A w \in Safe' : w \notin Writing(s)
  BY <1>2 DEF Writing, Safe
<1>6. layout' \in LayoutType
  BY <1>2 DEF StoreInv, Types
<1>7. risked' \subseteq Pieces
  BY <1>1, <1>2 DEF StoreInv, Types, Stash, RecordType
<1> QED
  BY <1>1, <1>2, <1>4, <1>5, <1>6, <1>7, RearrangeKeeps DEF s

\* Text a panel adds.
LEMMA SeedKeeps ==
    ASSUME StoreInv, NEW x \in Sessions, Seed(x)
    PROVE  StoreInv'
<1> USE DEF StoreInv
<1> DEFINE s == Record(KeyOf(x))
           t == [s EXCEPT !.draft = @ \cup {NewWord}, !.error = FALSE]
<1>0. Live(x) /\ KeyOf(x) \in Keys
  BY KeyFacts DEF Seed
<1>1. s \in RecordType /\ RecordOK(s)
  BY <1>0, RecordFacts
<1>2. Fresh(Words) # {} /\ author' = [author EXCEPT ![NewWord] = x]
  BY DEF Seed
<1>3. /\ NewWord \in Words /\ author'[NewWord] = x /\ NewWord \in Pieces
      /\ author' \in [Pieces -> Sessions \cup {NoSession}]
      /\ AuthorsKept
  BY <1>2, NewWordFacts, Constants
<1>4. /\ Put(KeyOf(x), t) /\ dirty' = TRUE
      /\ owed' = owed \cup {NewWord}
      /\ risked' = risked \cup (IF s.recallIndex # 0 \/ Delivering(KeyOf(x)) THEN {NewWord} ELSE {})
      /\ ~ \E i \in Sends : Resumable(i)
      /\ calls' = calls + 1
      /\ UNCHANGED <<name, conn, batches, batch, sends, layout, stored, kept, strayed, unhooked, outdated, faults>>
  BY DEF Seed, Edit, Gesture, Frame
<1> HIDE DEF s
<1>5. /\ t \in RecordType
      /\ t.draft = s.draft \cup {NewWord} /\ t.attachments = s.attachments /\ t.parked = s.parked
      /\ t.history = s.history /\ t.sendInFlight = s.sendInFlight /\ t.uploading = s.uploading
      /\ t.recallIndex = s.recallIndex /\ t.recallSaved = s.recallSaved
  BY <1>1, <1>3 DEF RecordType
<1> HIDE DEF t
<1>6. RecordOK(t)
  BY <1>1, <1>5 DEF RecordOK, Bounded
<1>7. Contents(t) \subseteq Contents(s) \cup {NewWord}
  BY <1>5 DEF Contents, Held, Stash
<1>8. Becomes(x, t)
  <2>1. Contents(t) \subseteq Contents(s) \cup {p \in Pieces : author'[p] = x}
    BY <1>3, <1>7
  <2>2. /\ Writing(s) \subseteq Writing(t)
        /\ s.recallIndex = 0 => NewWord \in Writing(t)
    BY <1>5 DEF Writing, Stash
  <2> QED
    BY <1>3, <1>4, <2>1, <2>2 DEF Becomes, Safe, s
<1>9. Types'
  BY <1>0, <1>3, <1>4, <1>5, WriteTypes DEF Types
<1> QED
  BY <1>0, <1>3, <1>4, <1>5, <1>6, <1>8, <1>9, EditKeeps DEF s

\* The banner is dismissed, and nothing is saved.
LEMMA DismissErrorKeeps ==
    ASSUME StoreInv, NEW x \in Sessions, DismissError(x)
    PROVE  StoreInv'
<1> DEFINE s == Record(KeyOf(x))
           t == [s EXCEPT !.error = FALSE]
<1>1. Live(x) /\ KeyOf(x) \in Keys /\ s \in RecordType /\ RecordOK(s)
  BY KeyFacts, RecordFacts DEF DismissError, StoreInv
<1>2. /\ Put(KeyOf(x), t) /\ Gesture
      /\ UNCHANGED <<name, conn, batches, batch, sends, layout, stored, dirty, author, owed, risked, kept,
                     strayed, unhooked, outdated, faults>>
  BY DEF DismissError, Frame
<1> HIDE DEF s
<1>3. /\ t \in RecordType /\ RecordOK(t)
      /\ Contents(t) = Contents(s) /\ Writing(t) = Writing(s)
      /\ t.sendInFlight = s.sendInFlight /\ t.uploading = s.uploading
  BY <1>1 DEF RecordType, RecordOK, Bounded, Contents, Held, Stash, Writing
<1> HIDE DEF t
<1>4. layout' \in LayoutType /\ dirty' \in BOOLEAN /\ Safe' = Safe /\ risked' \subseteq Pieces
  BY <1>2 DEF StoreInv, Types, Safe
<1> QED
  BY <1>1, <1>2, <1>3, <1>4, RearrangeKeeps DEF s

\* A prompt of the history is part of what the record holds.
LEMMA RecalledFacts ==
    ASSUME NEW s \in RecordType, RecordOK(s), NEW i \in 1 .. Len(s.history)
    PROVE  s.history[i] \in SUBSET Pieces /\ s.history[i] \subseteq UNION ToSet(s.history)
<1>1. s.history \in Seq(SUBSET Pieces)
  BY DEF RecordType
<1> QED
  BY <1>1, Positions

\* The first step of a browse sets the draft aside, the next ones do not.
LEMMA RecallOlderKeeps ==
    ASSUME StoreInv, NEW x \in Sessions, RecallOlder(x)
    PROVE  StoreInv'
<1> DEFINE s == Record(KeyOf(x))
           at == IF s.recallIndex = 0 THEN Len(s.history) ELSE s.recallIndex - 1
           d == s.history[at]
           aside == IF s.recallIndex = 0 THEN s.draft ELSE s.recallSaved
           t == [s EXCEPT !.draft = d, !.recallIndex = at, !.recallSaved = aside]
<1>1. Live(x) /\ KeyOf(x) \in Keys /\ s \in RecordType /\ RecordOK(s)
  BY KeyFacts, RecordFacts DEF RecallOlder, StoreInv
<1>2. /\ Put(KeyOf(x), t) /\ dirty' = TRUE /\ Gesture /\ at > 0
      /\ UNCHANGED <<name, conn, batches, batch, sends, layout, stored, author, owed, risked, kept,
                     strayed, unhooked, outdated, faults>>
  BY DEF RecallOlder, Edit, Frame
<1> HIDE DEF s
<1>3. s.recallIndex \in Nat /\ s.recallIndex <= Len(s.history) /\ Len(s.history) \in Nat
  BY <1>1 DEF RecordType, RecordOK
<1>4. at \in 1 .. Len(s.history)
  BY <1>2, <1>3
<1>5. d \in SUBSET Pieces /\ d \subseteq UNION ToSet(s.history)
  BY <1>1, <1>4, RecalledFacts
<1>a. aside \in (SUBSET Pieces) \cup {NoText}
  BY <1>1 DEF RecordType
<1> HIDE DEF at, d, aside
<1>n. at \in Nat
  BY <1>3, <1>4
<1>6. /\ t \in RecordType
      /\ t.draft = d /\ t.recallIndex = at /\ t.history = s.history
      /\ t.recallSaved = aside
      /\ t.attachments = s.attachments /\ t.parked = s.parked
      /\ t.sendInFlight = s.sendInFlight /\ t.uploading = s.uploading
  BY <1>1, <1>5, <1>a, <1>n DEF RecordType
<1> HIDE DEF t
<1>7. s.draft # NoText
  BY <1>1, Constants DEF RecordType
<1>8. RecordOK(t)
  BY <1>1, <1>4, <1>6, <1>7 DEF RecordOK, Bounded, aside
<1>9. Contents(t) \subseteq Contents(s)
  BY <1>5, <1>6, <1>7 DEF Contents, Held, Stash, aside
<1>10. Writing(t) = Writing(s)
  BY <1>1, <1>4, <1>6, <1>7 DEF Writing, Stash, RecordOK, aside
<1>11. layout' \in LayoutType /\ Safe' = Safe /\ risked' \subseteq Pieces
  BY <1>2 DEF StoreInv, Types, Safe
<1> QED
  BY <1>1, <1>2, <1>6, <1>8, <1>9, <1>10, <1>11, RearrangeKeeps DEF s

\* The last step forward brings back the draft set aside.
LEMMA RecallNewerKeeps ==
    ASSUME StoreInv, NEW x \in Sessions, RecallNewer(x)
    PROVE  StoreInv'
<1> DEFINE s == Record(KeyOf(x))
           next == s.recallIndex + 1
           u == [s EXCEPT !.draft = Stash(s)]
           d == s.history[next]
           v == [s EXCEPT !.draft = d, !.recallIndex = next]
           t == IF next <= Len(s.history) THEN v ELSE EndRecall(u)
<1>1. Live(x) /\ KeyOf(x) \in Keys /\ s \in RecordType /\ RecordOK(s)
  BY KeyFacts, RecordFacts DEF RecallNewer, StoreInv
<1>2. /\ Put(KeyOf(x), t) /\ dirty' = TRUE /\ Gesture /\ s.recallIndex # 0
      /\ UNCHANGED <<name, conn, batches, batch, sends, layout, stored, author, owed, risked, kept,
                     strayed, unhooked, outdated, faults>>
  BY DEF RecallNewer, Edit, Frame
<1> HIDE DEF s
<1>3. s.recallIndex \in Nat /\ Len(s.history) \in Nat /\ s.recallSaved \in (SUBSET Pieces) \cup {NoText}
  BY <1>1 DEF RecordType
<1>4. /\ t \in RecordType /\ RecordOK(t)
      /\ Contents(t) \subseteq Contents(s) /\ Writing(t) = Writing(s)
      /\ t.sendInFlight = s.sendInFlight /\ t.uploading = s.uploading
  <2>1. CASE next <= Len(s.history)
    <3>1. next \in 1 .. Len(s.history)
      BY <1>3, <2>1
    <3>2. d \in SUBSET Pieces /\ d \subseteq UNION ToSet(s.history)
      BY <1>1, <3>1, RecalledFacts
    <3>t. t = v
      BY <2>1
    <3> HIDE DEF next, d, t
    <3>n. next \in Nat
      BY <1>3, <3>1
    <3>3. /\ v \in RecordType
          /\ v.draft = d /\ v.recallIndex = next /\ v.history = s.history
          /\ v.recallSaved = s.recallSaved
          /\ v.attachments = s.attachments /\ v.parked = s.parked
          /\ v.sendInFlight = s.sendInFlight /\ v.uploading = s.uploading
      BY <1>1, <3>2, <3>n DEF RecordType
    <3> HIDE DEF v
    <3>4. RecordOK(t)
      BY <1>1, <1>2, <3>1, <3>t, <3>3 DEF RecordOK, Bounded
    <3>5. Contents(t) \subseteq Contents(s)
      BY <3>2, <3>t, <3>3 DEF Contents, Held, Stash
    <3>6. Writing(t) = Writing(s)
      BY <1>2, <3>1, <3>t, <3>3 DEF Writing, Stash
    <3> QED
      BY <3>t, <3>3, <3>4, <3>5, <3>6
  <2>2. CASE ~ next <= Len(s.history)
    <3>1. t = EndRecall(u)
      BY <2>2
    <3>2. Stash(s) \in SUBSET Pieces
      BY <1>3 DEF Stash
    <3>3. /\ u \in RecordType /\ Bounded(u)
          /\ u.draft = Stash(s) /\ u.attachments = s.attachments /\ u.parked = s.parked
          /\ u.history = s.history /\ u.sendInFlight = s.sendInFlight /\ u.uploading = s.uploading
      BY <1>1, <3>2 DEF RecordType, RecordOK, Bounded
    <3> HIDE DEF u, t
    <3>4. /\ Contents(t) \subseteq Contents(s) /\ Writing(t) = Stash(s)
          /\ t \in RecordType /\ RecordOK(t)
          /\ t.sendInFlight = s.sendInFlight /\ t.uploading = s.uploading
      BY <3>1, <3>3, EndRecallFacts DEF Contents, Held
    <3> QED
      BY <1>2, <3>4 DEF Writing
  <2> QED
    BY <2>1, <2>2
<1> HIDE DEF t
<1>5. layout' \in LayoutType /\ Safe' = Safe /\ risked' \subseteq Pieces
  BY <1>2 DEF StoreInv, Types, Safe
<1> QED
  BY <1>1, <1>2, <1>4, <1>5, RearrangeKeeps DEF s

\* What parkPaths keeps and what may fall off.
LEMMA ParkFacts ==
    ASSUME NEW s \in RecordType, NEW paths \in SUBSET Files, NEW t \in ParkPaths(s, paths)
    PROVE  /\ t \in RecordType
           /\ Cardinality(t.parked) <= ParkedLimit
           /\ t.parked \subseteq s.parked \cup paths
           /\ t.draft = s.draft /\ t.attachments = s.attachments /\ t.history = s.history
           /\ t.error = s.error /\ t.sendInFlight = s.sendInFlight /\ t.uploading = s.uploading
           /\ t.recallSaved = s.recallSaved /\ t.recallIndex = s.recallIndex
<1>1. PICK Q \in SUBSET (s.parked \cup paths) :
        t = [s EXCEPT !.parked = Q] /\ Cardinality(Q) <= ParkedLimit
  BY Constants DEF ParkPaths
<1>2. Q \in SUBSET Files
  BY DEF RecordType
<1> QED
  BY <1>1, <1>2 DEF RecordType

\* A file that is there already becomes a tile.
LEMMA SeedAttachmentKeeps ==
    ASSUME StoreInv, NEW x \in Sessions, SeedAttachment(x)
    PROVE  StoreInv'
<1> USE DEF StoreInv
<1> DEFINE s == Record(KeyOf(x))
<1>0. Live(x) /\ KeyOf(x) \in Keys /\ s \in RecordType /\ RecordOK(s)
  BY KeyFacts, RecordFacts DEF SeedAttachment
<1>1. PICK f \in Fresh(Files) : /\ Edit(x, MergePaths(s, {f}))
                                /\ author' = [author EXCEPT ![f] = x]
  BY DEF SeedAttachment
<1> DEFINE t == MergePaths(s, {f})
<1>2. /\ Put(KeyOf(x), t) /\ dirty' = TRUE
      /\ ~ \E i \in Sends : Resumable(i)
      /\ calls' = calls + 1
      /\ UNCHANGED <<name, conn, batches, batch, sends, layout, stored, owed, risked, kept, strayed, unhooked, outdated, faults>>
  BY <1>1 DEF SeedAttachment, Edit, Gesture, Frame
<1>3. f \in Files /\ f \in Pieces /\ author[f] = NoSession
  BY Constants DEF Fresh
<1>4. author' \in [Pieces -> Sessions \cup {NoSession}] /\ author'[f] = x /\ AuthorsKept
  BY <1>1, <1>3, Constants DEF Types, AuthorsKept
<1> HIDE DEF s
<1>5. /\ t \in RecordType
      /\ t.draft = s.draft /\ t.attachments = s.attachments \cup {f} /\ t.parked = s.parked
      /\ t.history = s.history /\ t.sendInFlight = s.sendInFlight /\ t.uploading = s.uploading
      /\ t.recallIndex = s.recallIndex /\ t.recallSaved = s.recallSaved
  BY <1>0, <1>3 DEF RecordType, MergePaths
<1> HIDE DEF t
<1>6. RecordOK(t)
  BY <1>0, <1>5 DEF RecordOK, Bounded
<1>7. Contents(t) \subseteq Contents(s) \cup {f} /\ Writing(t) = Writing(s)
  BY <1>5 DEF Contents, Held, Stash, Writing
<1>8. Becomes(x, t)
  BY <1>2, <1>3, <1>4, <1>7 DEF Becomes, Safe, s
<1>9. Types'
  BY <1>0, <1>2, <1>4, <1>5, WriteTypes DEF Types
<1> QED
  BY <1>0, <1>2, <1>4, <1>5, <1>6, <1>8, <1>9, EditKeeps DEF s

\* A tile is removed.
LEMMA RemoveAttachmentKeeps ==
    ASSUME StoreInv, NEW x \in Sessions, RemoveAttachment(x)
    PROVE  StoreInv'
<1> DEFINE s == Record(KeyOf(x))
<1>1. Live(x) /\ KeyOf(x) \in Keys /\ s \in RecordType /\ RecordOK(s)
  BY KeyFacts, RecordFacts DEF RemoveAttachment, StoreInv
<1>2. PICK f \in s.attachments : Edit(x, [s EXCEPT !.attachments = @ \ {f}])
  BY DEF RemoveAttachment
<1> DEFINE t == [s EXCEPT !.attachments = @ \ {f}]
<1>3. /\ Put(KeyOf(x), t) /\ dirty' = TRUE /\ Gesture
      /\ UNCHANGED <<name, conn, batches, batch, sends, layout, stored, author, owed, risked, kept,
                     strayed, unhooked, outdated, faults>>
  BY <1>2 DEF RemoveAttachment, Edit, Frame
<1> HIDE DEF s
<1>4. /\ t \in RecordType
      /\ t.draft = s.draft /\ t.attachments \subseteq s.attachments /\ t.parked = s.parked
      /\ t.history = s.history /\ t.sendInFlight = s.sendInFlight /\ t.uploading = s.uploading
      /\ t.recallIndex = s.recallIndex /\ t.recallSaved = s.recallSaved
  BY <1>1 DEF RecordType
<1> HIDE DEF t
<1>5. RecordOK(t) /\ Contents(t) \subseteq Contents(s) /\ Writing(t) = Writing(s)
  BY <1>1, <1>4 DEF RecordOK, Bounded, Contents, Held, Stash, Writing
<1>6. layout' \in LayoutType /\ Safe' = Safe /\ risked' \subseteq Pieces
  BY <1>3 DEF StoreInv, Types, Safe
<1> QED
  BY <1>1, <1>3, <1>4, <1>5, <1>6, RearrangeKeeps DEF s

\* The offer of a parked tile is answered.
LEMMA UnparkKeeps ==
    ASSUME StoreInv, NEW x \in Sessions, NEW include \in BOOLEAN, Unpark(x, include)
    PROVE  StoreInv'
<1> DEFINE s == Record(KeyOf(x))
<1>1. Live(x) /\ KeyOf(x) \in Keys /\ s \in RecordType /\ RecordOK(s)
  BY KeyFacts, RecordFacts DEF Unpark, StoreInv
<1>2. PICK f \in s.parked :
        LET rest == [s EXCEPT !.parked = @ \ {f}]
        IN Edit(x, IF include THEN MergePaths(rest, {f}) ELSE rest)
  BY DEF Unpark
<1> DEFINE rest == [s EXCEPT !.parked = @ \ {f}]
           t == IF include THEN MergePaths(rest, {f}) ELSE rest
<1>3. /\ Put(KeyOf(x), t) /\ dirty' = TRUE /\ Gesture
      /\ UNCHANGED <<name, conn, batches, batch, sends, layout, stored, author, owed, risked, kept,
                     strayed, unhooked, outdated, faults>>
  BY <1>2 DEF Unpark, Edit, Frame
<1> HIDE DEF s
<1>4. /\ rest \in RecordType
      /\ rest.draft = s.draft /\ rest.attachments = s.attachments /\ rest.parked = s.parked \ {f}
      /\ rest.history = s.history /\ rest.sendInFlight = s.sendInFlight
      /\ rest.uploading = s.uploading
      /\ rest.recallIndex = s.recallIndex /\ rest.recallSaved = s.recallSaved
  BY <1>1 DEF RecordType
<1> HIDE DEF rest
<1>5. f \in s.parked /\ f \in Files /\ IsFiniteSet(s.parked) /\ s.parked \subseteq Files
  BY <1>1, StoreAssumption, FS_Subset DEF RecordType
<1>6. /\ t \in RecordType
      /\ t.draft = s.draft /\ t.attachments \subseteq s.attachments \cup s.parked
      /\ t.parked = s.parked \ {f}
      /\ t.history = s.history /\ t.sendInFlight = s.sendInFlight /\ t.uploading = s.uploading
      /\ t.recallIndex = s.recallIndex /\ t.recallSaved = s.recallSaved
  <2>1. CASE include
    <3>1. t = [rest EXCEPT !.attachments = @ \cup {f}]
      BY <2>1 DEF MergePaths
    <3> HIDE DEF t
    <3>2. rest.attachments \cup {f} \subseteq Files
      BY <1>4, <1>5 DEF RecordType
    <3>3. /\ t \in RecordType
          /\ t.draft = rest.draft /\ t.attachments = rest.attachments \cup {f}
          /\ t.parked = rest.parked
          /\ t.history = rest.history /\ t.sendInFlight = rest.sendInFlight
          /\ t.uploading = rest.uploading
          /\ t.recallIndex = rest.recallIndex /\ t.recallSaved = rest.recallSaved
      BY <1>4, <3>1, <3>2 DEF RecordType
    <3> QED
      BY <1>4, <1>5, <3>3
  <2>2. CASE ~ include
    BY <1>4, <2>2
  <2> QED
    BY <2>1, <2>2
<1> HIDE DEF t
<1>7. Cardinality(t.parked) <= ParkedLimit
  <2>1. /\ Cardinality(s.parked) \in Nat
        /\ Cardinality(t.parked) = Cardinality(s.parked) - 1
    BY <1>5, <1>6, FS_RemoveElement, FS_CardinalityType
  <2> QED
    BY <1>1, <2>1, Constants DEF RecordOK, Bounded
<1>8. RecordOK(t) /\ Contents(t) \subseteq Contents(s) /\ Writing(t) = Writing(s)
  BY <1>1, <1>6, <1>7 DEF RecordOK, Bounded, Contents, Held, Stash, Writing
<1>9. layout' \in LayoutType /\ Safe' = Safe /\ risked' \subseteq Pieces
  BY <1>3 DEF StoreInv, Types, Safe
<1> QED
  BY <1>1, <1>3, <1>6, <1>8, <1>9, RearrangeKeeps DEF s

\* The card closes: its draft goes to the pane, or its tiles are parked, or
\* both stay.
LEMMA HideKeeps ==
    ASSUME StoreInv, NEW x \in Sessions, NEW flush \in BOOLEAN, Hide(x, flush)
    PROVE  StoreInv'
<1> DEFINE s == Record(KeyOf(x))
           moved == flush /\ CanFlush(s)
           u == [s EXCEPT !.draft = {}]
<1>1. Live(x) /\ KeyOf(x) \in Keys /\ s \in RecordType /\ RecordOK(s)
  BY KeyFacts, RecordFacts DEF Hide, StoreInv
<1>2. PICK p \in ParkPaths(s, s.attachments) :
        Put(KeyOf(x), IF moved THEN EndRecall(u)
                      ELSE IF s.draft = {} THEN [p EXCEPT !.attachments = {}] ELSE s)
  BY DEF Hide
<1> DEFINE t == IF moved THEN EndRecall(u)
                ELSE IF s.draft = {} THEN [p EXCEPT !.attachments = {}] ELSE s
<1>3. /\ Put(KeyOf(x), t) /\ dirty' = TRUE /\ Gesture
      /\ layout' = SetMode([layout EXCEPT !.terminalOwnsTyping = @ \/ moved], "hidden")
      /\ owed' = owed \ (IF moved THEN s.draft ELSE {})
      /\ risked' = risked \cup (IF moved THEN Stash(s) ELSE {})
      /\ UNCHANGED <<name, conn, batches, batch, sends, stored, author, kept, strayed, unhooked, outdated, faults>>
  BY <1>2 DEF Hide
<1>4. layout' \in LayoutType
  <2>1. layout \in LayoutType
    BY DEF StoreInv, Types
  <2> HIDE DEF moved
  <2> QED
    BY <1>3, <2>1 DEF SetMode, LayoutType, Modes
<1> HIDE DEF s, moved
<1>5. /\ t \in RecordType /\ RecordOK(t)
      /\ Contents(t) \subseteq Contents(s)
      /\ \A w \in Safe' : w \in Writing(s) => w \in Writing(t)
      /\ t.sendInFlight = s.sendInFlight /\ t.uploading = s.uploading
  <2>1. CASE moved
    <3>1. t = EndRecall(u)
      BY <2>1
    <3>2. /\ u \in RecordType /\ Bounded(u)
          /\ u.draft = {} /\ u.attachments = s.attachments /\ u.parked = s.parked
          /\ u.history = s.history /\ u.sendInFlight = s.sendInFlight /\ u.uploading = s.uploading
      BY <1>1 DEF RecordType, RecordOK, Bounded
    <3> HIDE DEF u, t
    <3>3. \A w \in Safe' : w \notin Writing(s)
      BY <1>3, <2>1 DEF Writing, Safe
    <3>4. Contents(t) \subseteq Contents(s)
      BY <3>1, <3>2, EndRecallFacts DEF Contents
    <3> QED
      BY <3>1, <3>2, <3>3, <3>4, EndRecallFacts
  <2>2. CASE ~ moved /\ s.draft = {}
    <3>1. t = [p EXCEPT !.attachments = {}]
      BY <2>2
    <3>2. /\ p \in RecordType
          /\ Cardinality(p.parked) <= ParkedLimit
          /\ p.parked \subseteq s.parked \cup s.attachments
          /\ p.draft = s.draft /\ p.history = s.history
          /\ p.sendInFlight = s.sendInFlight /\ p.uploading = s.uploading
          /\ p.recallSaved = s.recallSaved /\ p.recallIndex = s.recallIndex
      <4>1. s.attachments \in SUBSET Files
        BY <1>1 DEF RecordType
      <4> QED
        BY <1>1, <4>1, ParkFacts
    <3> HIDE DEF t
    <3>3. /\ t \in RecordType
          /\ t.draft = s.draft /\ t.attachments = {} /\ t.parked = p.parked
          /\ t.history = s.history /\ t.sendInFlight = s.sendInFlight /\ t.uploading = s.uploading
          /\ t.recallSaved = s.recallSaved /\ t.recallIndex = s.recallIndex
      BY <3>1, <3>2 DEF RecordType
    <3>4. RecordOK(t)
      BY <1>1, <3>2, <3>3 DEF RecordOK, Bounded
    <3> QED
      BY <3>2, <3>3, <3>4 DEF Contents, Held, Stash, Writing
  <2>3. CASE ~ moved /\ s.draft # {}
    BY <1>1, <2>3
  <2> QED
    BY <2>1, <2>2, <2>3
<1> HIDE DEF t
<1>6. risked \subseteq risked' /\ risked' \subseteq Pieces /\ owed' \subseteq owed
  BY <1>1, <1>3 DEF StoreInv, Types, Stash, RecordType
<1> QED
  BY <1>1, <1>3, <1>4, <1>5, <1>6, RearrangeKeeps DEF s

-----------------------------------------------------------------------------
(* The start, the card and a new session.                                  *)

\* The store starts with no record at all.
LEMMA InitStoreInv == Init => StoreInv
<1> SUFFICES ASSUME Init PROVE StoreInv
  OBVIOUS
<1>1. First(Sessions) \in Sessions /\ First(Names) \in Names
  BY StoreAssumption DEF First
<1>2. 1 \in 1 .. MaxConns
  BY Constants
<1>3. Types
  <2>1. name \in [Sessions -> Names \cup {Unborn, Gone}]
    BY <1>1 DEF Init
  <2>2. rec \in [Recs -> RecordType] /\ states \in [Keys -> Recs \cup {NoRec}]
    BY BlankIsOK DEF Init
  <2>3. batch \in [Batches -> BatchType] /\ batches \in [Keys -> Batches \cup {NoBatch}]
    BY DEF Init, IdleBatch, BatchType
  <2>4. sends \in [Sends -> SendType]
    BY DEF Init, IdleSend, SendType
  <2>5. layout \in LayoutType
    BY DEF Init, FirstLayout, LayoutType, Modes
  <2>6. stored \in StoredType
    BY <2>2 DEF Init, StoredType, Modes
  <2>7. author \in [Pieces -> Sessions \cup {NoSession}]
    BY DEF Init
  <2>8. conn \in 1 .. MaxConns /\ dirty \in BOOLEAN /\ owed \subseteq Words /\ kept \subseteq Words
        /\ risked \subseteq Pieces /\ strayed \in BOOLEAN /\ unhooked \in BOOLEAN
        /\ outdated \in BOOLEAN /\ calls \in Nat /\ faults \in Nat
    BY <1>2 DEF Init
  <2> QED
    BY <2>1, <2>2, <2>3, <2>4, <2>5, <2>6, <2>7, <2>8 DEF Types
<1>4. Shapes
  BY BlankIsOK DEF Init, Shapes, IdleBatch, IdleSend
<1>5. Links
  <2>1. NamesApart
    BY StoreAssumption DEF Init, NamesApart, Live
  <2> QED
    BY <2>1 DEF Init, Links, Apart, IdleBatch, IdleSend
<1>6. Good
  <2>1. Keyed /\ WordsHeld /\ WordsSaved /\ Sent /\ Flags
    BY DEF Init, Keyed, WordsHeld, WordsSaved, Sent, Safe, Flags
  <2>2. Owned
    <3>1. ASSUME NEW x \in Sessions, Live(x) PROVE states[KeyOf(x)] = NoRec
      BY <1>3, <1>5, <3>1, KeyFacts DEF Init
    <3>2. /\ \A b \in Batches : batch[b].phase # "uploading"
          /\ \A i \in Sends : sends[i].phase # "delivering"
      BY DEF Init, IdleBatch, IdleSend
    <3> QED
      BY <3>1, <3>2 DEF Owned, OwnRecord, OwnUploads, OwnPayloads
  <2>3. Registered /\ Waits /\ Carries /\ OneSend
    BY DEF Init, Registered, Waits, Carries, OneSend, IdleBatch, IdleSend
  <2> QED
    BY <2>1, <2>2, <2>3 DEF Good
<1> QED
  BY <1>3, <1>4, <1>5, <1>6 DEF StoreInv

\* What a step that leaves records, uploads, sends and the save alone keeps.
LEMMA LeftAlone ==
    ASSUME StoreInv, UNCHANGED <<conn, states, rec, batches, batch, sends, stored, author, owed, risked, kept,
                             strayed, unhooked, outdated>>
    PROVE  /\ Shapes'
           /\ Links /\ NamesApart' => Links'
           /\ Good => WordsSaved' /\ Waits' /\ Carries' /\ OneSend' /\ Flags'
<1> USE DEF StoreInv
<1>1. Shapes'
  BY DEF Shapes, Known, RecordOK, SavedOK, Bounded, HistoryOK, Contents, Held, Stash, Saved
<1>2. NamesApart' => Links'
  BY DEF Links, Apart
<1>3. Good => WordsSaved'
  BY DEF Good, WordsSaved, Loaded, EndRecall
<1>4. Good => Carries' /\ OneSend'
  BY DEF Good, Carries, OneSend, Thrown
<1>5. Good => Waits'
  BY SMTT(20) DEF Good, Waits, Awaited, Thrown
<1>6. Good => Flags'
  BY DEF Good, Flags, Backed
<1> QED
  BY <1>1, <1>2, <1>3, <1>4, <1>5, <1>6

\* A step of the card, or none.
LEMMA LayoutKeeps ==
    ASSUME StoreInv, UNCHANGED <<name, conn, states, rec, batches, batch, sends, stored, author, owed, risked,
                             kept, strayed, unhooked, outdated>>,
           layout' \in LayoutType, dirty' \in BOOLEAN, calls' \in Nat, faults' \in Nat
    PROVE  StoreInv'
<1> USE DEF StoreInv
<1>1. Types'
  BY DEF Types
<1>2. NamesApart'
  BY DEF Links, NamesApart, Live
<1>3. \A y : KeyOf(y)' = KeyOf(y) /\ (Live(y)' <=> Live(y))
  BY DEF KeyOf, Live
<1>4. Good => Keyed'
  BY <1>3 DEF Good, Keyed
<1>5. Good => Owned'
  BY <1>3 DEF Good, Owned, OwnRecord, OwnUploads, OwnPayloads, By, Contents, Held, Stash
<1>6. Good => WordsHeld' /\ Sent'
  BY DEF Good, WordsHeld, Sent, Safe, Writing, Record, Stash, Live, KeyOf
<1>7. Good => Registered'
  BY <1>3 DEF Good, Registered, Tied
<1> QED
  BY <1>1, <1>2, <1>4, <1>5, <1>6, <1>7, LeftAlone DEF Good

\* The card changes size.
LEMMA ChangeModeKeeps ==
    ASSUME StoreInv, NEW next \in Modes, ChangeMode(next)
    PROVE  StoreInv'
<1>1. /\ layout' = SetMode(layout, next) /\ dirty' = TRUE /\ calls' = calls + 1
      /\ UNCHANGED <<name, conn, states, rec, batches, batch, sends, stored, author, owed, risked, kept,
                     strayed, unhooked, outdated, faults>>
  BY DEF ChangeMode, Gesture, ghosts
<1>2. layout' \in LayoutType
  <2>1. layout \in LayoutType
    BY DEF StoreInv, Types
  <2> QED
    BY <1>1, <2>1 DEF SetMode, LayoutType, Modes
<1>3. calls' \in Nat /\ faults' \in Nat /\ dirty' \in BOOLEAN
  BY <1>1 DEF StoreInv, Types
<1> QED
  BY <1>1, <1>2, <1>3, LayoutKeeps

\* A session that takes a free name finds no record under it.
LEMMA CreateKeeps ==
    ASSUME StoreInv, NEW x \in Sessions, NEW n \in Names, Create(x, n)
    PROVE  StoreInv'
<1> USE DEF StoreInv
<1>1. /\ name[x] = Unborn /\ FreeName(n)
      /\ name' = [name EXCEPT ![x] = n]
      /\ calls' = calls + 1
      /\ UNCHANGED <<conn, states, rec, batches, batch, sends, layout, stored, dirty,
                     author, owed, risked, kept, strayed, unhooked, outdated, faults>>
  BY DEF Create, Gesture, ghosts
<1>2. Types'
  BY <1>1 DEF Types
<1>3. /\ name'[x] = n /\ ~ Live(x) /\ Live(x)'
      /\ \A y \in Sessions : y # x => name'[y] = name[y] /\ (Live(y)' <=> Live(y)) /\ KeyOf(y)' = KeyOf(y)
      /\ \A y \in Sessions : Live(y) => y # x
  BY <1>1, Constants DEF Types, Live, KeyOf
<1>4. NamesApart'
  BY <1>1, <1>3 DEF Links, NamesApart, FreeName, Live
<1>s. Good => Registered'
  BY <1>1, <1>3 DEF Good, Registered, Tied
<1>5. ASSUME Good, ~ outdated PROVE Keyed' /\ Owned' /\ WordsHeld' /\ Sent'
  <2>1. Keyed'
    BY <1>1, <1>3, <1>5 DEF Good, Keyed
  <2>2. /\ KeyOf(x)' = <<conn, n>> /\ <<conn, n>> \in Keys
        /\ states[<<conn, n>>] = NoRec
    BY <1>1, <1>3, <1>5 DEF Good, Keyed, KeyOf, Keys, Types, FreeName
  <2>3. OwnRecord(x)' /\ OwnUploads(x)' /\ OwnPayloads(x)'
    BY <1>1, <2>2, Constants DEF OwnRecord, OwnUploads, OwnPayloads, Links
  <2>4. ASSUME NEW y \in Sessions, y # x, Live(y)' PROVE OwnRecord(y)' /\ OwnUploads(y)' /\ OwnPayloads(y)'
    BY <1>1, <1>3, <1>5, <2>4 DEF Good, Owned, OwnRecord, OwnUploads, OwnPayloads, By, Contents, Held, Stash
  <2>5. WordsHeld'
    <3> SUFFICES ASSUME NEW w \in Safe'
                 PROVE  Live(author[w])' /\ (w \in Writing(Record(KeyOf(author[w]))))'
      BY DEF WordsHeld
    <3>1. Live(author[w]) /\ w \in Writing(Record(KeyOf(author[w]))) /\ author[w] \in Sessions
      BY <1>1, <1>5, Constants DEF Good, WordsHeld, Safe, Shapes, Known
    <3>2. Live(author[w])' /\ KeyOf(author[w])' = KeyOf(author[w])
      BY <1>1, <1>3, <3>1 DEF Live, KeyOf
    <3> QED
      BY <1>1, <3>1, <3>2 DEF Record, Writing, Stash
  <2>6. Sent'
    <3> SUFFICES ASSUME NEW i \in Sends, NEW w \in Safe', sends[i].phase = "delivering",
                        sends[i].rec = (states[KeyOf(author[w])])'
                 PROVE  w \in sends[i].payload
      BY <1>1 DEF Sent
    <3>1. Live(author[w]) /\ author[w] \in Sessions /\ w \in Safe
      BY <1>1, <1>5, Constants DEF Good, WordsHeld, Safe, Shapes, Known
    <3>2. KeyOf(author[w])' = KeyOf(author[w])
      BY <1>1, <1>3, <3>1 DEF KeyOf
    <3> QED
      BY <1>1, <1>5, <3>1, <3>2 DEF Good, Sent
  <2> QED
    BY <2>1, <2>3, <2>4, <2>5, <2>6 DEF Owned
<1>6. outdated => Keyed' /\ Owned' /\ WordsHeld' /\ Sent'
  BY <1>1 DEF Keyed, Owned, WordsHeld, Sent
<1> QED
  BY <1>1, <1>2, <1>4, <1>s, <1>5, <1>6, LeftAlone DEF Good

-----------------------------------------------------------------------------
(* Work thrown away: discard and kill.                                     *)

\* A send that is not under way wants nothing.
LEMMA IdleWants == [IdleSend EXCEPT !.wanted = {}] = IdleSend
<1> DEFINE none == <<>>
           idle == [phase |-> "idle", key |-> none, rec |-> NoRec, batch |-> NoBatch,
                    payload |-> {}, wanted |-> {}]
<1>1. IdleSend = idle
  BY DEF IdleSend
<1> HIDE DEF none
<1>2. [idle EXCEPT !.wanted = {}] = idle
  OBVIOUS
<1> QED
  BY <1>1, <1>2

\* What cancelling the batch of a key does to batches and sends: the key's
\* batch no longer lands, and its sends want nothing; another record's batch is
\* unhooked by it.
LEMMA CancelFacts ==
    ASSUME Types, Links, NEW k \in Keys, CancelBatch(k)
    PROVE  /\ batch' \in [Batches -> BatchType] /\ sends' \in [Sends -> SendType]
           /\ unhooked' \in BOOLEAN /\ (unhooked => unhooked')
           /\ ~ unhooked' /\ batches[k] # NoBatch => ~ batch[batches[k]].loose
           /\ \A b \in Batches : /\ batch'[b].phase = batch[b].phase
                                 /\ batch'[b].rec = batch[b].rec
                                 /\ batch'[b].files = batch[b].files
                                 /\ batch'[b].loose = batch[b].loose
                                 /\ b # batches[k] => batch'[b] = batch[b]
                                 /\ b = batches[k] => batch'[b].cancel
                                 /\ batch[b].cancel => batch'[b].cancel
           /\ \A i \in Sends : /\ sends'[i].phase = sends[i].phase
                               /\ sends'[i].key = sends[i].key
                               /\ sends'[i].rec = sends[i].rec
                               /\ sends'[i].batch = sends[i].batch
                               /\ sends'[i].payload = sends[i].payload
                               /\ sends'[i].wanted \subseteq sends[i].wanted
                               /\ sends[i].key = k => sends'[i].wanted = {}
                               /\ sends[i] = IdleSend => sends'[i] = IdleSend
<1>1. /\ batch' = IF batches[k] = NoBatch THEN batch ELSE [batch EXCEPT ![batches[k]].cancel = TRUE]
      /\ unhooked' = (unhooked \/ (batches[k] # NoBatch /\ batch[batches[k]].loose))
      /\ sends' = [i \in Sends |-> IF sends[i].key = k THEN [sends[i] EXCEPT !.wanted = {}]
                                   ELSE sends[i]]
  BY DEF CancelBatch
<1>2. /\ batches[k] \in Batches \cup {NoBatch} /\ batch \in [Batches -> BatchType]
      /\ sends \in [Sends -> SendType] /\ unhooked \in BOOLEAN /\ NoBatch \notin Batches
  BY Constants DEF Types
<1>3. ASSUME NEW b \in Batches
      PROVE  /\ batch'[b] \in BatchType
             /\ batch'[b].phase = batch[b].phase
             /\ batch'[b].rec = batch[b].rec
             /\ batch'[b].files = batch[b].files
             /\ batch'[b].loose = batch[b].loose
             /\ b # batches[k] => batch'[b] = batch[b]
             /\ b = batches[k] => batch'[b].cancel
             /\ batch[b].cancel => batch'[b].cancel
  <2>1. CASE b # batches[k]
    BY <1>1, <1>2, <2>1
  <2>2. CASE b = batches[k]
    <3>1. batch'[b] = [batch[b] EXCEPT !.cancel = TRUE] /\ batch[b] \in BatchType
      BY <1>1, <1>2, <2>2
    <3> QED
      BY <2>2, <3>1 DEF BatchType
  <2> QED
    BY <2>1, <2>2
<1>4. batch' \in [Batches -> BatchType]
  BY <1>1, <1>2, <1>3
<1>5. ASSUME NEW i \in Sends
      PROVE  /\ sends'[i] \in SendType
             /\ sends'[i].phase = sends[i].phase
             /\ sends'[i].key = sends[i].key
             /\ sends'[i].rec = sends[i].rec
             /\ sends'[i].batch = sends[i].batch
             /\ sends'[i].payload = sends[i].payload
             /\ sends'[i].wanted \subseteq sends[i].wanted
             /\ sends[i].key = k => sends'[i].wanted = {}
             /\ sends[i] = IdleSend => sends'[i] = IdleSend
  <2>1. CASE sends[i].key # k
    BY <1>1, <1>2, <2>1
  <2>2. CASE sends[i].key = k
    <3>1. sends'[i] = [sends[i] EXCEPT !.wanted = {}] /\ sends[i] \in SendType
      BY <1>1, <1>2, <2>2
    <3>2. [IdleSend EXCEPT !.wanted = {}] = IdleSend
      BY IdleWants
    <3>3. sends[i] = IdleSend => sends'[i] = IdleSend
      BY <3>1, <3>2
    <3> HIDE DEF IdleSend
    <3> QED
      BY <2>2, <3>1, <3>3 DEF SendType
  <2> QED
    BY <2>1, <2>2
<1>6. sends' \in [Sends -> SendType]
  BY <1>1, <1>5
<1> QED
  BY <1>1, <1>2, <1>3, <1>4, <1>5, <1>6

\* The shapes and the links of batches and sends after a cancel.
LEMMA CancelKeeps ==
    ASSUME StoreInv, NEW k \in Keys, CancelBatch(k),
           UNCHANGED <<conn, batches, author, stored, kept>>
    PROVE  /\ \A b \in Batches : batch'[b].files \subseteq Known'
           /\ \A i \in Sends : sends'[i].payload \subseteq Known'
           /\ \A q \in Recs : SavedOK(stored.rec[q])' /\ Contents(stored.rec[q])' \subseteq Known'
           /\ \A l \in Keys : stored'.states[l] # NoRec => Saved(stored.rec[stored.states[l]])'
           /\ kept' \subseteq Known'
           /\ NamesApart' /\ Apart(states)' => Links'
<1> USE DEF StoreInv
<1>1. /\ \A b \in Batches : batch'[b].files \subseteq Known'
      /\ \A i \in Sends : sends'[i].payload \subseteq Known'
      /\ kept' \subseteq Known'
  BY CancelFacts DEF Shapes, Known
<1>2. /\ \A q \in Recs : SavedOK(stored.rec[q])' /\ Contents(stored.rec[q])' \subseteq Known'
      /\ \A l \in Keys : stored'.states[l] # NoRec => Saved(stored.rec[stored.states[l]])'
  BY DEF Shapes, Known, SavedOK, Bounded, HistoryOK, Saved, Contents, Held, Stash
<1>3. \A l \in Keys : batches[l] # NoBatch => batches[l] \in Batches
  BY DEF Types
<1>4. ASSUME NEW b \in Batches
      PROVE  IF batch'[b].phase = "idle" THEN batch'[b] = IdleBatch ELSE batch'[b].rec \in Recs
  <2>1. batch[b].phase = "idle" => b # batches[k]
    BY Constants DEF Links
  <2> QED
    BY <2>1, CancelFacts DEF Links
<1>5. ASSUME NEW i \in Sends
      PROVE  IF sends'[i].phase = "idle" THEN sends'[i] = IdleSend
             ELSE /\ sends'[i].key \in Keys
                  /\ sends'[i].key[1] <= conn
                  /\ sends'[i].rec \in Recs
                  /\ sends'[i].phase = "waiting" => sends'[i].batch \in Batches
                  /\ sends'[i].phase = "delivering" => sends'[i].payload # {}
  BY CancelFacts DEF Links
<1>6. ASSUME NEW l \in Keys, batches[l] # NoBatch
      PROVE  batch'[batches[l]].phase # "idle"
  BY <1>3, <1>6, CancelFacts DEF Links
<1>7. NamesApart' /\ Apart(states)' => Links'
  BY <1>4, <1>5, <1>6 DEF Links, Apart
<1> QED
  BY <1>1, <1>2, <1>7

\* A discarded batch is no other record's, and no waiting send hopes for it.
LEMMA CancelKeepsGood ==
    ASSUME StoreInv, Good, ~ unhooked', NEW k \in Keys, CancelBatch(k),
           ~ \E i \in Sends : Resumable(i), UNCHANGED <<conn, batches>>,
           \A l \in Keys : l[1] # conn => states'[l] = states[l]
    PROVE  /\ Waits' /\ Carries'
           /\ \A b \in Batches : batch'[b].phase = "uploading" /\ Tied(b)' => \E l \in Keys : batches[l] = b
           /\ \A l \in Keys : batches[l] # NoBatch /\ Tied(batches[l])' =>
                 /\ l # k /\ batch'[batches[l]].rec = states[l]
                 /\ \E y \in Sessions : Live(y) /\ l = KeyOf(y)
           /\ \A l \in Keys : l # k /\ states[l] # NoRec /\ rec[states[l]].uploading =>
                 \E b \in Batches : /\ batch'[b].rec = states[l]
                                    /\ batch'[b].phase \in {"uploading", "thrown"}
                                    /\ ~ batch'[b].cancel
<1> USE DEF StoreInv
<1>1. Good /\ ~ unhooked
  BY CancelFacts
<1>2. \A l \in Keys : batches[l] # NoBatch => batches[l] \in Batches
  BY DEF Types
<1>t. Thrown' = Thrown
  BY CancelFacts DEF Thrown
<1>3. Carries'
  BY <1>1, <1>t, CancelFacts DEF Good, Carries
<1>4. ASSUME NEW b \in Batches, batch'[b].phase = "uploading", Tied(b)'
      PROVE  \E l \in Keys : batches[l] = b
  BY <1>1, <1>4, CancelFacts DEF Good, Registered, Tied
<1>5. ASSUME NEW l \in Keys, batches[l] # NoBatch, Tied(batches[l])'
      PROVE  /\ l # k /\ batch'[batches[l]].rec = states[l]
             /\ \E y \in Sessions : Live(y) /\ l = KeyOf(y)
  <2>1. ~ batch'[batches[l]].cancel /\ ~ batch'[batches[l]].loose /\ batches[l] \in Batches
    BY <1>2, <1>5 DEF Tied
  <2>2. batches[l] # batches[k] /\ Tied(batches[l])
    BY <2>1, CancelFacts DEF Tied
  <2> QED
    BY <1>1, <1>5, <2>1, <2>2, CancelFacts DEF Good, Registered
<1>6. ASSUME NEW l \in Keys, l # k, states[l] # NoRec, rec[states[l]].uploading
      PROVE  \E b \in Batches : /\ batch'[b].rec = states[l]
                                /\ batch'[b].phase \in {"uploading", "thrown"}
                                /\ ~ batch'[b].cancel
  <2>1. PICK b \in Batches : /\ batch[b].rec = states[l]
                             /\ batch[b].phase \in {"uploading", "thrown"}
                             /\ ~ batch[b].cancel
    BY <1>1, <1>6 DEF Good, Flags, Backed
  <2>2. b # batches[k]
    <3> SUFFICES ASSUME b = batches[k] PROVE FALSE
      OBVIOUS
    <3>1. ~ batch[b].loose /\ batches[k] # NoBatch
      BY <1>2, Constants, CancelFacts
    <3>2. batch[b].rec = states[k]
      BY <1>1, <2>1, <3>1 DEF Good, Registered, Tied
    <3>3. Apart(states)
      BY DEF Links
    <3> QED
      BY <1>1, <1>6, <2>1, <3>2, <3>3 DEF Apart
  <2> QED
    BY <2>1, <2>2, CancelFacts
<1>7. Waits'
  <2> SUFFICES ASSUME NEW i \in Sends, sends'[i].phase = "waiting"
               PROVE  IF sends'[i].key[1] = conn THEN Awaited(i)' ELSE states'[sends'[i].key] = NoRec
    BY DEF Waits
  <2>1. /\ sends[i].phase = "waiting" /\ sends[i].key = sends'[i].key
        /\ sends'[i].batch = sends[i].batch /\ sends'[i].rec = sends[i].rec
        /\ sends'[i].wanted \subseteq sends[i].wanted
    BY CancelFacts
  <2>o. CASE sends[i].key[1] # conn
    BY <1>1, <2>1, <2>o DEF Good, Waits, Links
  <2> SUFFICES ASSUME sends[i].key[1] = conn PROVE Awaited(i)'
    BY <2>1, <2>o
  <2>2. sends[i].batch \in Batches /\ batch[sends[i].batch].phase = "uploading" /\ Awaited(i)
    BY <1>1, <2>1 DEF Good, Waits, Links, Resumable
  <2> DEFINE b == sends[i].batch
  <2>3. /\ sends[i].wanted \subseteq batch[b].files
        /\ sends[i].wanted # {} => batch[b].rec = sends[i].rec /\ ~ batch[b].cancel
        /\ \A l \in Keys : batches[l] = b => l = sends[i].key
    BY <2>2 DEF Awaited
  <2>4. sends'[i].wanted # {} => b # batches[k]
    BY <2>3, CancelFacts
  <2>5. /\ batch'[b].phase = "uploading"
        /\ sends'[i].wanted \subseteq batch'[b].files
        /\ sends'[i].wanted # {} => batch'[b].rec = sends[i].rec /\ ~ batch'[b].cancel
    <3>1. b \in Batches
      BY <2>2
    <3> HIDE DEF b
    <3> QED
      BY <2>1, <2>2, <2>3, <2>4, <3>1, CancelFacts DEF b
  <2> QED
    BY <2>1, <2>3, <2>5 DEF Awaited
<1> QED
  BY <1>1, <1>3, <1>4, <1>5, <1>6, <1>7

\* discard empties the record and cancels its upload, whose flag it resets.
LEMMA DiscardKeeps ==
    ASSUME StoreInv, NEW x \in Sessions, Discard(x)
    PROVE  StoreInv'
<1> USE DEF StoreInv
<1> DEFINE key == KeyOf(x)
           s == Record(key)
           r == RecAt(key)
           u == [s EXCEPT !.draft = {}, !.attachments = {}, !.parked = {}, !.error = FALSE,
                          !.uploading = FALSE]
           t == EndRecall(u)
<1>0. /\ Live(x) /\ key \in Keys
      /\ \A y \in Sessions : Live(y) => KeyOf(y) \in Keys /\ (y # x => KeyOf(y) # key)
  BY KeyFacts DEF Discard
<1>1. s \in RecordType /\ RecordOK(s)
  BY <1>0, RecordFacts
<1>2. /\ Put(key, t) /\ dirty' = TRUE /\ owed' = owed \ Held(s)
      /\ CancelBatch(key)
      /\ calls' = calls + 1
      /\ ~ \E i \in Sends : Resumable(i)
      /\ UNCHANGED <<name, conn, batches, layout, stored, author, kept, risked, strayed, outdated, faults>>
  BY DEF Discard, Edit, Gesture
<1> HIDE DEF s
<1>3. /\ u \in RecordType /\ Bounded(u)
      /\ u.draft = {} /\ u.attachments = {} /\ u.parked = {}
      /\ u.history = s.history /\ u.sendInFlight = s.sendInFlight /\ ~ u.uploading
  <2>1. /\ u \in RecordType
        /\ u.draft = {} /\ u.attachments = {} /\ u.parked = {}
        /\ u.history = s.history /\ u.sendInFlight = s.sendInFlight /\ ~ u.uploading
    BY <1>1 DEF RecordType
  <2> HIDE DEF u
  <2>2. Cardinality({}) <= ParkedLimit
    BY Constants, FS_EmptySet
  <2> QED
    BY <1>1, <2>1, <2>2 DEF RecordOK, Bounded
<1> HIDE DEF u
<1>4. /\ t \in RecordType /\ RecordOK(t)
      /\ Contents(t) \subseteq Contents(s)
      /\ t.sendInFlight = s.sendInFlight /\ ~ t.uploading
  BY <1>3, EndRecallFacts DEF Contents
<1> HIDE DEF t
<1>5. AuthorsKept /\ Becomes(x, t)
  <2>1. \A w \in Safe' : w \in Safe /\ w \notin Writing(s)
    BY <1>2 DEF Writing, Held, Safe
  <2> QED
    BY <1>2, <1>4, <2>1 DEF AuthorsKept, Becomes, s
<1>6. r \in Recs /\ WritesRecord(key, r, t)
  BY <1>0, <1>2, PutWrites
<1>7. Types'
  BY <1>0, <1>2, <1>4, WriteTypes, CancelFacts DEF Types
<1> HIDE DEF key, r
<1>8. Shapes'
  <2>1. /\ \A q \in Recs : RecordOK(rec[q])' /\ Contents(rec[q])' \subseteq Known'
        /\ owed' \subseteq Known'
    BY <1>0, <1>4, <1>5, <1>6, <1>7, WriteKeepsShapes DEF key
  <2> QED
    BY <1>0, <1>2, <2>1, CancelKeeps DEF Shapes
<1>9. Links'
  <2>1. NamesApart'
    BY <1>2 DEF Links, NamesApart, Live
  <2>2. Apart(states')
    BY <1>0, <1>2, <1>4, <1>6, <1>7, WriteReads DEF key
  <2>3. Apart(states)'
    BY <2>2 DEF Apart
  <2> QED
    BY <1>0, <1>2, <2>1, <2>3, CancelKeeps
<1>10. ASSUME ~ strayed' PROVE Good'
  <2>0. Good
    BY <1>2, <1>10
  <2>1. ASSUME ~ outdated
        PROVE  /\ Keyed' /\ WordsHeld' /\ Sent'
               /\ \A y \in Sessions : Live(y) => OwnRecord(y)'
    <3>1. /\ Keyed' /\ WordsHeld'
          /\ \A y \in Sessions : Live(y) => OwnRecord(y)'
      BY <1>0, <1>2, <1>4, <1>5, <1>6, <1>7, <2>0, <2>1, WriteKeepsRecords DEF key
    <3>2. \A i \in Sends : sends'[i].phase = "delivering" =>
                              /\ sends[i].phase = "delivering"
                              /\ sends'[i].rec = sends[i].rec
                              /\ sends'[i].payload = sends[i].payload
      BY <1>0, <1>2, CancelFacts
    <3>3. Sent'
      BY <1>0, <1>2, <1>4, <1>5, <1>6, <1>7, <2>0, <2>1, <3>2, SentStays DEF key
    <3> QED
      BY <3>1, <3>3
  <2>2. /\ states'[key] = r
        /\ rec'[r] = t
        /\ \A k \in Keys : k # key => states'[k] = states[k]
        /\ \A q \in Recs : q # r => rec'[q] = rec[q]
        /\ \A k \in Keys : k # key => states[k] # r
    BY <1>0, <1>2, <1>4, <1>6, <1>7, WriteReads DEF key
  <2>3. \/ r = states[key] /\ s = rec[r]
        \/ /\ states[key] = NoRec /\ s = Blank
           /\ \A i \in Sends : sends[i].rec # r
           /\ \A b \in Batches : batch[b].rec # r
    BY <1>6 DEF WritesRecord, s
  <2>w. ASSUME ~ unhooked'
        PROVE  /\ Waits' /\ Carries'
               /\ \A b \in Batches : batch'[b].phase = "uploading" /\ Tied(b)' => \E l \in Keys : batches[l] = b
               /\ \A l \in Keys : batches[l] # NoBatch /\ Tied(batches[l])' =>
                     /\ l # key /\ batch'[batches[l]].rec = states[l]
                     /\ \E y \in Sessions : Live(y) /\ l = KeyOf(y)
               /\ \A l \in Keys : l # key /\ states[l] # NoRec /\ rec[states[l]].uploading =>
                     \E b \in Batches : /\ batch'[b].rec = states[l]
                                        /\ batch'[b].phase \in {"uploading", "thrown"}
                                        /\ ~ batch'[b].cancel
    <3>1. \A l \in Keys : l[1] # conn => states'[l] = states[l]
      BY <1>0, <2>2, KeyFacts DEF key
    <3> QED
      BY <1>0, <1>2, <2>0, <2>w, <3>1, CancelKeepsGood
  <2>4. \A y : KeyOf(y)' = KeyOf(y) /\ (Live(y)' <=> Live(y))
    BY <1>2 DEF KeyOf, Live
  <2>5. ASSUME ~ outdated, NEW y \in Sessions, Live(y) PROVE OwnUploads(y)' /\ OwnPayloads(y)'
    <3>1. /\ \A b \in Batches : batch'[b].phase = "uploading" /\ batch'[b].rec = states'[KeyOf(y)]
                                  => batch[b].phase = "uploading" /\ batch[b].rec = states[KeyOf(y)]
          /\ \A i \in Sends : sends'[i].phase = "delivering" /\ sends'[i].rec = states'[KeyOf(y)]
                                  => sends[i].phase = "delivering" /\ sends[i].rec = states[KeyOf(y)]
      BY <1>0, <1>2, <2>2, <2>3, <2>5, CancelFacts DEF key
    <3>2. By(y)' = By(y)
      BY <1>2 DEF By
    <3> QED
      BY <1>0, <1>2, <2>0, <2>4, <2>5, <3>1, <3>2, CancelFacts DEF Good, Owned, OwnUploads, OwnPayloads
  <2>6. Owned' /\ Keyed' /\ WordsHeld' /\ Sent'
    BY <1>2, <2>1, <2>4, <2>5 DEF Owned, Keyed, WordsHeld, Sent
  <2>7. WordsSaved'
    BY <1>2, <2>0 DEF Good, WordsSaved, Loaded, EndRecall
  <2>8. Registered'
    BY <1>2, <2>2, <2>4, <2>w DEF Registered
  <2>9. OneSend'
    <3>1. \A i \in Sends : sends[i].phase # "idle" => sends[i].rec \in Recs
      BY DEF Links
    <3>2. \A i \in Sends : sends[i].phase # "idle" => rec'[sends[i].rec].sendInFlight
      BY <1>4, <2>0, <2>2, <2>3, <3>1 DEF Good, OneSend
    <3> QED
      BY <1>0, <1>2, <2>0, <3>2, CancelFacts DEF Good, OneSend
  <2>10. Flags'
    <3> SUFFICES ASSUME ~ unhooked', NEW k \in Keys, states'[k] # NoRec PROVE Backed(states[k])'
      BY DEF Flags
    <3>u. ~ unhooked
      BY <1>0, <1>2, CancelFacts
    <3>1. CASE k = key
      <4>0. t.sendInFlight <=> s.sendInFlight
        BY <1>4
      <4>1. t.sendInFlight => \E i \in Sends : sends[i].rec = r
        <5>1. CASE states[key] = NoRec
          <6>1. s = Blank
            BY <1>6, <2>3, <5>1, Constants
          <6> QED
            BY <4>0, <6>1 DEF Blank
        <5>2. CASE states[key] # NoRec
          <6>1. r = states[key] /\ s = rec[r]
            BY <2>3, <5>2
          <6>2. Backed(r)
            BY <1>0, <2>0, <3>u, <5>2, <6>1 DEF Good, Flags
          <6> QED
            BY <4>0, <6>1, <6>2 DEF Backed
        <5> QED
          BY <5>1, <5>2
      <4>2. t.sendInFlight => \E i \in Sends : sends'[i].rec = r
        BY <1>0, <1>2, <4>1, CancelFacts
      <4> QED
        BY <1>4, <2>2, <3>1, <4>2 DEF Backed
    <3>2. CASE k # key
      <4>1. states'[k] = states[k] /\ states[k] \in Recs /\ rec'[states[k]] = rec[states[k]]
            /\ states[k] # NoRec
        BY <2>2, <3>2 DEF Types
      <4>2. rec[states[k]].sendInFlight => \E i \in Sends : sends'[i].rec = states[k]
        BY <1>0, <1>2, <2>0, <3>u, <4>1, CancelFacts DEF Good, Flags, Backed
      <4> QED
        BY <2>w, <3>2, <4>1, <4>2 DEF Backed
    <3> QED
      BY <3>1, <3>2
  <2>11. Waits' /\ Carries'
    BY <2>w DEF Waits, Carries
  <2> QED
    BY <2>6, <2>7, <2>8, <2>9, <2>10, <2>11 DEF Good
<1> QED
  BY <1>7, <1>8, <1>9, <1>10

\* forget drops the record and cancels its upload; a send under way keeps the
\* record object, which no key names any more.
LEMMA KillKeeps ==
    ASSUME StoreInv, NEW x \in Sessions, Kill(x)
    PROVE  StoreInv'
<1> USE DEF StoreInv
<1> DEFINE key == KeyOf(x)
<1>0. /\ Live(x) /\ key \in Keys
      /\ \A y \in Sessions : Live(y) => KeyOf(y) \in Keys /\ (y # x => KeyOf(y) # key)
  BY KeyFacts DEF Kill
<1>1. /\ name' = [name EXCEPT ![x] = Gone]
      /\ states' = [states EXCEPT ![key] = NoRec]
      /\ dirty' = (dirty \/ states[key] # NoRec)
      /\ owed' = {w \in owed : author[w] # x}
      /\ CancelBatch(key)
      /\ calls' = calls + 1
      /\ ~ \E i \in Sends : Resumable(i)
      /\ UNCHANGED <<conn, rec, batches, layout, stored, author, kept, risked, strayed, outdated, faults>>
  BY DEF Kill, Gesture
<1> HIDE DEF key
<1>2. Types'
  <2>1. dirty' \in BOOLEAN
    BY <1>1 DEF Types
  <2>2. name' \in [Sessions -> Names \cup {Unborn, Gone}] /\ states' \in [Keys -> Recs \cup {NoRec}]
    BY <1>1 DEF Types
  <2> QED
    BY <1>0, <1>1, <2>1, <2>2, CancelFacts DEF Types
<1>3. /\ ~ Live(x)'
      /\ \A y \in Sessions : y # x => name'[y] = name[y] /\ (Live(y)' <=> Live(y)) /\ KeyOf(y)' = KeyOf(y)
  BY <1>1, Constants DEF Types, Live, KeyOf
<1>4. Shapes'
  <2>1. /\ \A q \in Recs : RecordOK(rec[q])' /\ Contents(rec[q])' \subseteq Known'
        /\ owed' \subseteq Known'
    BY <1>1 DEF Shapes, Known, RecordOK, Bounded, HistoryOK, Contents, Held, Stash
  <2> QED
    BY <1>0, <1>1, <2>1, CancelKeeps DEF Shapes
<1>5. Links'
  <2>1. NamesApart'
    BY <1>3 DEF Links, NamesApart, Live
  <2>2. Apart(states)'
    BY <1>0, <1>1 DEF Types, Links, Apart
  <2> QED
    BY <1>0, <1>1, <2>1, <2>2, CancelKeeps
<1>6. ASSUME ~ strayed' PROVE Good'
  <2>0. Good
    BY <1>1, <1>6
  <2>1. /\ states'[key] = NoRec
        /\ \A k \in Keys : k # key => states'[k] = states[k]
    BY <1>0, <1>1 DEF Types
  <2>w. ASSUME ~ unhooked'
        PROVE  /\ Waits' /\ Carries'
               /\ \A b \in Batches : batch'[b].phase = "uploading" /\ Tied(b)' => \E l \in Keys : batches[l] = b
               /\ \A l \in Keys : batches[l] # NoBatch /\ Tied(batches[l])' =>
                     /\ l # key /\ batch'[batches[l]].rec = states[l]
                     /\ \E y \in Sessions : Live(y) /\ l = KeyOf(y)
               /\ \A l \in Keys : l # key /\ states[l] # NoRec /\ rec[states[l]].uploading =>
                     \E b \in Batches : /\ batch'[b].rec = states[l]
                                        /\ batch'[b].phase \in {"uploading", "thrown"}
                                        /\ ~ batch'[b].cancel
    <3>1. \A l \in Keys : l[1] # conn => states'[l] = states[l]
      BY <1>0, <2>1, KeyFacts DEF key
    <3> QED
      BY <1>0, <1>1, <2>0, <2>w, <3>1, CancelKeepsGood
  <2>2. Keyed'
    <3> SUFFICES ASSUME ~ outdated, NEW k \in Keys, states'[k] # NoRec
                 PROVE  \E y \in Sessions : Live(y)' /\ k = KeyOf(y)'
      BY <1>1 DEF Keyed
    <3>1. PICK y \in Sessions : Live(y) /\ k = KeyOf(y)
      BY <2>0, <2>1 DEF Good, Keyed
    <3> QED
      BY <1>3, <2>1, <3>1 DEF key
  <2>3. WordsSaved'
    BY <1>1, <2>0 DEF Good, WordsSaved, Loaded, EndRecall
  <2>4. ASSUME ~ outdated, NEW y \in Sessions, Live(y)' PROVE OwnRecord(y)' /\ OwnUploads(y)' /\ OwnPayloads(y)'
    <3>1. y # x /\ Live(y) /\ KeyOf(y)' = KeyOf(y) /\ states'[KeyOf(y)] = states[KeyOf(y)]
      BY <1>0, <1>3, <2>1, <2>4
    <3>2. By(y)' = By(y)
      BY <1>1 DEF By
    <3>3. OwnRecord(y)'
      BY <1>1, <2>0, <2>4, <3>1, <3>2 DEF Good, Owned, OwnRecord, Contents, Held, Stash
    <3>4. OwnUploads(y)' /\ OwnPayloads(y)'
      BY <1>0, <1>1, <2>0, <2>4, <3>1, <3>2, CancelFacts DEF Good, Owned, OwnUploads, OwnPayloads
    <3> QED
      BY <3>3, <3>4
  <2>5. Owned'
    BY <1>1, <2>4 DEF Owned
  <2>6. WordsHeld'
    <3> SUFFICES ASSUME ~ outdated, NEW w \in Safe'
                 PROVE  Live(author[w])' /\ (w \in Writing(Record(KeyOf(author[w]))))'
      BY <1>1 DEF WordsHeld
    <3>1. /\ Live(author[w]) /\ w \in Writing(Record(KeyOf(author[w])))
          /\ author[w] \in Sessions /\ author[w] # x /\ author'[w] = author[w]
      BY <1>1, <2>0, Constants DEF Good, WordsHeld, Safe, Shapes, Known
    <3>2. Live(author[w])' /\ KeyOf(author[w])' = KeyOf(author[w])
      BY <1>1, <1>3, <3>1 DEF Live, KeyOf
    <3>3. states'[KeyOf(author[w])] = states[KeyOf(author[w])]
      BY <1>0, <2>1, <3>1
    <3> QED
      BY <1>1, <3>1, <3>2, <3>3 DEF Record, Writing, Stash
  <2>s. Sent'
    <3> SUFFICES ASSUME ~ outdated, NEW i \in Sends, NEW w \in Safe', sends'[i].phase = "delivering",
                        sends'[i].rec = (states[KeyOf(author[w])])'
                 PROVE  w \in sends'[i].payload
      BY <1>1 DEF Sent
    <3>1. /\ sends[i].phase = "delivering" /\ sends'[i].rec = sends[i].rec
          /\ sends'[i].payload = sends[i].payload
      BY <1>0, <1>1, CancelFacts
    <3>2. /\ Live(author[w]) /\ author[w] \in Sessions /\ author[w] # x /\ author'[w] = author[w]
          /\ w \in Safe
      BY <1>1, <2>0, Constants DEF Good, WordsHeld, Safe, Shapes, Known
    <3>3. states'[KeyOf(author[w])'] = states[KeyOf(author[w])]
      BY <1>0, <1>3, <2>1, <3>2
    <3>4. sends[i].rec = states[KeyOf(author[w])]
      BY <1>1, <3>1, <3>2, <3>3 DEF KeyOf
    <3> QED
      BY <2>0, <3>1, <3>2, <3>4 DEF Good, Sent
  <2>7. Registered'
    <3> SUFFICES ASSUME ~ unhooked' PROVE Registered'
      BY DEF Registered
    <3>1. \A l \in Keys : l # key => \A y \in Sessions : Live(y) /\ l = KeyOf(y) => Live(y)' /\ l = KeyOf(y)'
      BY <1>0, <1>3 DEF key
    <3> QED
      BY <1>1, <2>1, <2>w, <3>1 DEF Registered
  <2>8. OneSend'
    BY <1>0, <1>1, <2>0, CancelFacts DEF Good, OneSend
  <2>9. Flags'
    <3> SUFFICES ASSUME ~ unhooked', NEW k \in Keys, states'[k] # NoRec PROVE Backed(states[k])'
      BY DEF Flags
    <3>1. k # key /\ states'[k] = states[k] /\ states[k] # NoRec /\ ~ unhooked
      BY <1>0, <1>1, <2>1, CancelFacts
    <3>2. rec[states[k]].sendInFlight => \E i \in Sends : sends'[i].rec = states[k]
      BY <1>0, <1>1, <2>0, <3>1, CancelFacts DEF Good, Flags, Backed
    <3> QED
      BY <1>1, <2>w, <3>1, <3>2 DEF Backed
  <2>10. Waits' /\ Carries'
    BY <2>w DEF Waits, Carries
  <2> QED
    BY <2>2, <2>3, <2>5, <2>6, <2>s, <2>7, <2>8, <2>9, <2>10 DEF Good
<1> QED
  BY <1>2, <1>4, <1>5, <1>6

-----------------------------------------------------------------------------
(* Staging and sending.                                                    *)

\* A batch that lost its entry under a key is otherwise the same.
LEMMA LoosenedFacts ==
    ASSUME Types, NEW c \in Batches, NEW k \in Keys
    PROVE  /\ Loosened(c, k) \in BatchType
           /\ Loosened(c, k).phase = batch[c].phase /\ Loosened(c, k).rec = batch[c].rec
           /\ Loosened(c, k).files = batch[c].files /\ Loosened(c, k).cancel = batch[c].cancel
           /\ ~ Loosened(c, k).loose => ~ batch[c].loose /\ batches[k] # c
           /\ batches[k] # c => Loosened(c, k) = batch[c]
<1> DEFINE now == batches[k] = c
           l == batch[c].loose \/ now
           d == [batch[c] EXCEPT !.loose = l]
<1>1. batch[c] \in BatchType
  BY DEF Types
<1>2. Loosened(c, k) = d
  BY DEF Loosened
<1>3. ~ now => d = batch[c]
  BY <1>1 DEF BatchType
<1>4. /\ d \in BatchType
      /\ d.phase = batch[c].phase /\ d.rec = batch[c].rec
      /\ d.files = batch[c].files /\ d.cancel = batch[c].cancel
      /\ d.loose = l
  BY <1>1 DEF BatchType
<1> HIDE DEF d
<1> QED
  BY <1>2, <1>3, <1>4

\* A batch is registered under its record's key.  One that threw and is still
\* registered there becomes loose.
LEMMA StageKeeps ==
    ASSUME StoreInv, NEW x \in Sessions, Stage(x)
    PROVE  StoreInv'
<1> USE DEF StoreInv
<1> DEFINE key == KeyOf(x)
           s == Record(key)
           r == RecAt(key)
           b == First(IdleBatches)
           t == [s EXCEPT !.uploading = TRUE, !.error = FALSE]
<1>0. /\ Live(x) /\ key \in Keys
      /\ \A y \in Sessions : Live(y) => KeyOf(y) \in Keys /\ (y # x => KeyOf(y) # key)
      /\ key[1] = conn
  BY KeyFacts DEF Stage
<1>1. s \in RecordType /\ RecordOK(s)
  BY <1>0, RecordFacts
<1>2. PICK F \in SUBSET Fresh(Files) :
        /\ F # {}
        /\ batch' = [c \in Batches |->
                       IF c = b THEN [phase |-> "uploading", rec |-> r, files |-> F,
                                      cancel |-> FALSE, loose |-> FALSE]
                       ELSE Loosened(c, key)]
        /\ batches' = [batches EXCEPT ![key] = b]
        /\ author' = [p \in Pieces |-> IF p \in F THEN x ELSE author[p]]
  BY DEF Stage
<1>3. /\ Put(key, t) /\ calls' = calls + 1
      /\ ~ \E i \in Sends : Resumable(i)
      /\ UNCHANGED <<name, conn, sends, layout, stored, dirty, owed, risked, kept, strayed,
                     unhooked, outdated, faults>>
  BY DEF Stage, Gesture
<1>4. b \in Batches /\ batch[b].phase = "idle"
  BY DEF Stage, First, IdleBatches
<1> HIDE DEF s, b
<1>5. /\ t \in RecordType /\ RecordOK(t)
      /\ Contents(t) = Contents(s) /\ Writing(t) = Writing(s)
      /\ t.sendInFlight = s.sendInFlight /\ t.uploading
  BY <1>1 DEF RecordType, RecordOK, Bounded, Contents, Held, Stash, Writing
<1>f. t.sendInFlight <=> s.sendInFlight
  BY <1>5
<1> HIDE DEF t
<1>6. r \in Recs /\ WritesRecord(key, r, t)
  BY <1>0, <1>3, PutWrites
<1> HIDE DEF key, r
<1>7. /\ F \subseteq Files /\ F \subseteq Pieces
      /\ \A p \in F : author[p] = NoSession /\ author'[p] = x
      /\ author' \in [Pieces -> Sessions \cup {NoSession}]
      /\ AuthorsKept
  BY <1>2, Constants DEF Fresh, Types, AuthorsKept
<1>8. Becomes(x, t)
  <2>1. owed' = owed /\ Safe' = Safe
    BY <1>3 DEF Safe
  <2> QED
    BY <1>5, <2>1 DEF Becomes, s, key
<1>9. /\ batch'[b] = [phase |-> "uploading", rec |-> r, files |-> F, cancel |-> FALSE, loose |-> FALSE]
      /\ \A c \in Batches : c # b => batch'[c] = Loosened(c, key)
  BY <1>2, <1>4
<1>10. /\ batch'[b].phase = "uploading" /\ batch'[b].rec = r /\ batch'[b].files = F
       /\ ~ batch'[b].cancel /\ ~ batch'[b].loose
       /\ \A c \in Batches : c # b =>
             /\ batch'[c].phase = batch[c].phase /\ batch'[c].rec = batch[c].rec
             /\ batch'[c].files = batch[c].files /\ batch'[c].cancel = batch[c].cancel
             /\ ~ batch'[c].loose => ~ batch[c].loose /\ batches[key] # c
             /\ batches[key] # c => batch'[c] = batch[c]
  BY <1>0, <1>9, LoosenedFacts
<1>11. /\ batches'[key] = b
       /\ \A k \in Keys : k # key => batches'[k] = batches[k]
       /\ \A k \in Keys : batches[k] # b
       /\ \A k \in Keys : batches[k] # NoBatch => batches[k] \in Batches
       /\ b # NoBatch
  BY <1>0, <1>2, <1>4, Constants DEF Types, Links
<1>12. Types'
  <2>1. batch' \in [Batches -> BatchType]
    <3>1. batch'[b] \in BatchType
      BY <1>6, <1>7, <1>9 DEF BatchType
    <3>2. \A c \in Batches : c # b => batch'[c] \in BatchType
      BY <1>0, <1>9, LoosenedFacts
    <3> QED
      BY <1>2, <3>1, <3>2
  <2>2. batches' \in [Keys -> Batches \cup {NoBatch}]
    BY <1>2, <1>4 DEF Types
  <2> QED
    BY <1>0, <1>3, <1>5, <1>7, <2>1, <2>2, WriteTypes DEF Types
<1>13. Shapes'
  <2>1. /\ \A q \in Recs : RecordOK(rec[q])' /\ Contents(rec[q])' \subseteq Known'
        /\ owed' \subseteq Known'
    BY <1>0, <1>5, <1>6, <1>7, <1>8, <1>12, WriteKeepsShapes DEF key
  <2>2. Known \subseteq Known' /\ F \subseteq Known'
    BY <1>7, KnownStays DEF Known
  <2>3. \A c \in Batches : batch'[c].files \subseteq Known'
    BY <1>10, <2>2 DEF Shapes
  <2>4. /\ \A q \in Recs : SavedOK(stored.rec[q])' /\ Contents(stored.rec[q])' \subseteq Known'
        /\ \A k \in Keys : stored'.states[k] # NoRec => Saved(stored.rec[stored.states[k]])'
        /\ \A i \in Sends : sends'[i].payload \subseteq Known'
        /\ kept' \subseteq Known'
    BY <1>3, <2>2 DEF Shapes, SavedOK, Bounded, HistoryOK, Saved, Contents, Held, Stash
  <2> QED
    BY <2>1, <2>3, <2>4 DEF Shapes
<1>14. Links'
  <2>1. NamesApart'
    BY <1>3 DEF Links, NamesApart, Live
  <2>a. Apart(states') /\ UNCHANGED stored
    BY <1>0, <1>3, <1>5, <1>6, <1>12, WriteReads DEF key
  <2>p. Apart(states)' /\ Apart(stored.states)'
    BY <2>a DEF Links, Apart
  <2>2. ASSUME NEW c \in Batches
        PROVE  IF batch'[c].phase = "idle" THEN batch'[c] = IdleBatch ELSE batch'[c].rec \in Recs
    <3>1. CASE c = b
      BY <1>6, <1>10, <3>1
    <3>2. CASE c # b
      <4>1. batch[c].phase = "idle" => batches[key] # c
        BY <1>0, <1>11, <3>2, Constants DEF Links
      <4> QED
        BY <1>10, <3>2, <4>1 DEF Links
    <3> QED
      BY <3>1, <3>2
  <2>3. \A i \in Sends : IF sends'[i].phase = "idle" THEN sends'[i] = IdleSend
                         ELSE /\ sends'[i].key \in Keys
                              /\ sends'[i].key[1] <= conn'
                              /\ sends'[i].rec \in Recs
                              /\ sends'[i].phase = "waiting" => sends'[i].batch \in Batches
                              /\ sends'[i].phase = "delivering" => sends'[i].payload # {}
    BY <1>3 DEF Links
  <2>4. ASSUME NEW k \in Keys, batches'[k] # NoBatch
        PROVE  /\ k[1] = conn'
               /\ batch'[batches'[k]].phase # "idle"
               /\ \A l \in Keys : batches'[l] = batches'[k] => l = k
    <3>1. CASE k = key
      BY <1>0, <1>3, <1>10, <1>11, <3>1
    <3>2. CASE k # key
      <4>1. batches'[k] = batches[k] /\ batches[k] \in Batches /\ batches[k] # b
        BY <1>11, <2>4, <3>2
      <4> QED
        BY <1>3, <1>10, <1>11, <2>4, <4>1 DEF Links
    <3> QED
      BY <3>1, <3>2
  <2> QED
    BY <2>1, <2>p, <2>2, <2>3, <2>4 DEF Links
<1>15. ASSUME ~ strayed PROVE Good'
  <2>0. Good
    BY <1>15
  <2>1. ASSUME ~ outdated
        PROVE  /\ Keyed' /\ WordsHeld' /\ Sent'
               /\ \A y \in Sessions : Live(y) => OwnRecord(y)'
    <3>1. /\ Keyed' /\ WordsHeld'
          /\ \A y \in Sessions : Live(y) => OwnRecord(y)'
      BY <1>0, <1>3, <1>5, <1>6, <1>7, <1>8, <1>12, <2>0, <2>1, WriteKeepsRecords DEF key
    <3>2. Sent'
      BY <1>0, <1>3, <1>5, <1>6, <1>7, <1>8, <1>12, <2>0, <2>1, SentStays DEF key
    <3> QED
      BY <3>1, <3>2
  <2>2. /\ states'[key] = r
        /\ rec'[r] = t
        /\ \A k \in Keys : k # key => states'[k] = states[k]
        /\ \A q \in Recs : q # r => rec'[q] = rec[q]
        /\ \A k \in Keys : k # key => states[k] # r
    BY <1>0, <1>3, <1>5, <1>6, <1>12, WriteReads DEF key
  <2>3. \/ r = states[key] /\ s = rec[r]
        \/ /\ states[key] = NoRec /\ s = Blank
           /\ \A i \in Sends : sends[i].rec # r
           /\ \A c \in Batches : batch[c].rec # r
    BY <1>6 DEF WritesRecord, s
  <2>4. \A y : KeyOf(y)' = KeyOf(y) /\ (Live(y)' <=> Live(y))
    BY <1>3 DEF KeyOf, Live
  <2>5. ASSUME ~ outdated, NEW y \in Sessions, Live(y) PROVE OwnUploads(y)' /\ OwnPayloads(y)'
    <3>1. By(y) \subseteq By(y)' /\ (y = x => F \subseteq By(y)')
      BY <1>7, KnownStays DEF By
    <3>2. OwnPayloads(y)'
      <4>1. \A i \in Sends : sends[i].rec = states'[KeyOf(y)] => sends[i].rec = states[KeyOf(y)]
        BY <1>0, <2>2, <2>3, <2>5 DEF key
      <4> QED
        BY <1>3, <2>0, <2>4, <2>5, <3>1, <4>1 DEF Good, Owned, OwnPayloads
    <3>3. ASSUME NEW c \in Batches, batch'[c].phase = "uploading", batch'[c].rec = states'[KeyOf(y)]
          PROVE  batch'[c].files \subseteq By(y)'
      <4>1. CASE c = b
        <5>1. y = x
          BY <1>0, <1>10, <2>2, <2>5, <3>3, <4>1
        <5> QED
          BY <1>10, <3>1, <4>1, <5>1
      <4>2. CASE c # b
        <5>1. batch[c].phase = "uploading" /\ batch[c].rec = states[KeyOf(y)] /\ batch'[c].files = batch[c].files
          BY <1>0, <1>10, <2>2, <2>3, <2>5, <3>3, <4>2 DEF key
        <5> QED
          BY <2>0, <2>5, <3>1, <5>1 DEF Good, Owned, OwnUploads
      <4> QED
        BY <4>1, <4>2
    <3> QED
      BY <2>4, <3>2, <3>3 DEF OwnUploads
  <2>6. Owned' /\ Keyed' /\ WordsHeld' /\ Sent'
    BY <1>3, <2>1, <2>4, <2>5 DEF Owned, Keyed, WordsHeld, Sent
  <2>7. WordsSaved'
    BY <1>3, <2>0 DEF Good, WordsSaved, Loaded, EndRecall
  <2>t. Thrown' = Thrown
    BY <1>4, <1>10 DEF Thrown
  <2>8. Registered'
    <3> SUFFICES ASSUME ~ unhooked PROVE Registered'
      BY <1>3 DEF Registered
    <3>1. ASSUME NEW k \in Keys, batches'[k] # NoBatch, Tied(batches[k])'
          PROVE  /\ batch'[batches'[k]].rec = states'[k]
                 /\ \E y \in Sessions : Live(y)' /\ k = KeyOf(y)'
      <4>1. CASE k = key
        BY <1>0, <1>10, <1>11, <2>2, <2>4, <4>1 DEF key
      <4>2. CASE k # key
        <5>1. batches'[k] = batches[k] /\ batches[k] \in Batches /\ batches[k] # b /\ batches[k] # NoBatch
          BY <1>11, <3>1, <4>2
        <5>2. Tied(batches[k]) /\ batch'[batches[k]].rec = batch[batches[k]].rec
          BY <1>10, <3>1, <5>1 DEF Tied
        <5> QED
          BY <2>0, <2>2, <2>4, <4>2, <5>1, <5>2 DEF Good, Registered
      <4> QED
        BY <4>1, <4>2
    <3>2. ASSUME NEW c \in Batches, batch'[c].phase = "uploading", Tied(c)'
          PROVE  \E k \in Keys : batches'[k] = c
      <4>1. CASE c = b
        BY <1>0, <1>11, <4>1
      <4>2. CASE c # b
        <5>1. batch[c].phase = "uploading" /\ Tied(c) /\ batches[key] # c
          BY <1>10, <3>2, <4>2 DEF Tied
        <5> QED
          BY <1>11, <2>0, <5>1 DEF Good, Registered
      <4> QED
        BY <4>1, <4>2
    <3> QED
      BY <3>1, <3>2 DEF Registered
  <2>9. Waits'
    <3> SUFFICES ASSUME ~ unhooked, NEW i \in Sends, sends[i].phase = "waiting"
                 PROVE  IF sends[i].key[1] = conn THEN Awaited(i)' ELSE states'[sends[i].key] = NoRec
      BY <1>3 DEF Waits
    <3>o. CASE sends[i].key[1] # conn
      BY <1>0, <2>0, <2>2, <3>o DEF Good, Waits, Links
    <3> SUFFICES ASSUME sends[i].key[1] = conn PROVE Awaited(i)'
      BY <3>o
    <3> DEFINE c == sends[i].batch
    <3>1. c \in Batches /\ batch[c].phase = "uploading" /\ Awaited(i)
      BY <1>3, <2>0 DEF Good, Waits, Links, Resumable
    <3>2. /\ sends[i].wanted \subseteq batch[c].files
          /\ sends[i].wanted # {} => batch[c].rec = sends[i].rec /\ ~ batch[c].cancel
          /\ \A k \in Keys : batches[k] = c => k = sends[i].key
      BY <3>1 DEF Awaited
    <3> HIDE DEF c
    <3>3. c # b
      BY <1>4, <3>1
    <3>4. /\ batch'[c].phase = "uploading" /\ batch'[c].files = batch[c].files
          /\ batch'[c].rec = batch[c].rec /\ (batch'[c].cancel = batch[c].cancel)
          /\ \A k \in Keys : batches'[k] = c => batches[k] = c
      BY <1>10, <1>11, <3>1, <3>3
    <3> QED
      BY <1>3, <3>2, <3>4 DEF Awaited, c
  <2>10. Carries'
    BY <1>3, <2>0, <2>t DEF Good, Carries
  <2>11. OneSend'
    <3>1. \A i \in Sends : sends[i].phase # "idle" => sends[i].rec \in Recs
      BY DEF Links
    <3>2. \A i \in Sends : sends[i].phase # "idle" => rec'[sends[i].rec].sendInFlight
      BY <1>f, <2>0, <2>2, <2>3, <3>1 DEF Good, OneSend
    <3> QED
      BY <1>3, <2>0, <3>2 DEF Good, OneSend
  <2>12. Flags'
    <3> SUFFICES ASSUME ~ unhooked, NEW k \in Keys, states'[k] # NoRec PROVE Backed(states[k])'
      BY <1>3 DEF Flags
    <3>1. CASE k = key
      <4>1. t.sendInFlight => \E i \in Sends : sends[i].rec = r
        <5>1. CASE states[key] = NoRec
          <6>1. s = Blank
            BY <1>6, <2>3, <5>1, Constants
          <6> QED
            BY <1>f, <6>1 DEF Blank
        <5>2. CASE states[key] # NoRec
          <6>1. r = states[key] /\ s = rec[r]
            BY <2>3, <5>2
          <6>2. Backed(r)
            BY <1>0, <2>0, <5>2, <6>1 DEF Good, Flags
          <6> QED
            BY <1>f, <6>1, <6>2 DEF Backed
        <5> QED
          BY <5>1, <5>2
      <4> QED
        BY <1>3, <1>4, <1>10, <2>2, <3>1, <4>1 DEF Backed
    <3>2. CASE k # key
      <4>1. states'[k] = states[k] /\ states[k] \in Recs /\ rec'[states[k]] = rec[states[k]]
            /\ states[k] # NoRec
        BY <2>2, <3>2 DEF Types
      <4>2. Backed(states[k])
        BY <2>0, <4>1 DEF Good, Flags
      <4>3. \A c \in Batches : batch[c].phase \in {"uploading", "thrown"} =>
                /\ batch'[c].phase = batch[c].phase /\ batch'[c].rec = batch[c].rec
                /\ batch'[c].cancel = batch[c].cancel
        BY <1>4, <1>10
      <4> QED
        BY <1>3, <4>1, <4>2, <4>3 DEF Backed
    <3> QED
      BY <3>1, <3>2
  <2> QED
    BY <2>6, <2>7, <2>8, <2>9, <2>10, <2>11, <2>12 DEF Good
<1> QED
  BY <1>3, <1>12, <1>13, <1>14, <1>15

\* What is on its way into the record under a key is in the batch registered
\* there.
LEMMA OnTheWayFacts ==
    ASSUME StoreInv, Good, ~ unhooked, NEW k \in Keys, NEW r \in Recs,
           \/ r = states[k]
           \/ \A c \in Batches : batch[c].rec # r,
           \A c \in OnTheWay(r) : ~ batch[c].loose
    PROVE  \A c \in OnTheWay(r) : c \in Batches /\ c = batches[k]
<1> SUFFICES ASSUME NEW c \in OnTheWay(r) PROVE c \in Batches /\ c = batches[k]
  OBVIOUS
<1>1. c \in Batches /\ batch[c].phase = "uploading" /\ batch[c].rec = r /\ Tied(c)
  BY DEF OnTheWay, Tied
<1>2. r = states[k] /\ r # NoRec
  BY <1>1, Constants
<1>3. PICK l \in Keys : batches[l] = c
  BY <1>1 DEF Good, Registered
<1>4. states[l] = r
  BY <1>1, <1>3, Constants DEF Good, Registered
<1>5. l = k
  BY <1>2, <1>4 DEF StoreInv, Links, Apart
<1> QED
  BY <1>1, <1>3, <1>5

\* A send begins, or waits for the batch under its key; either way it wants
\* what is on its way into its record.
LEMMA SendKeeps ==
    ASSUME StoreInv, NEW x \in Sessions, Send(x)
    PROVE  StoreInv'
<1> USE DEF StoreInv
<1> DEFINE key == KeyOf(x)
           s == Record(key)
           r == RecAt(key)
           b == batches[key]
           i == First(IdleSends)
           wanted == FilesOf(OnTheWay(r))
           banner == s.error /\ b # NoBatch
           t == [s EXCEPT !.sendInFlight = TRUE, !.error = banner]
           call == IF b # NoBatch
                     THEN [phase |-> "waiting", key |-> key, rec |-> r, batch |-> b,
                           payload |-> {}, wanted |-> wanted]
                     ELSE [phase |-> "delivering", key |-> key, rec |-> r, batch |-> NoBatch,
                           payload |-> Payload(s), wanted |-> wanted]
<1>0. /\ Live(x) /\ key \in Keys
      /\ \A y \in Sessions : Live(y) => KeyOf(y) \in Keys /\ (y # x => KeyOf(y) # key)
      /\ key[1] = conn
  BY KeyFacts DEF Send
<1>1. s \in RecordType /\ RecordOK(s) /\ Contents(s) \subseteq Known
  BY <1>0, RecordFacts
<1>2. /\ Put(key, t) /\ calls' = calls + 1
      /\ ~ s.sendInFlight
      /\ sends' = [sends EXCEPT ![i] = call]
      /\ b = NoBatch => Payload(s) # {}
      /\ risked' = risked \cup (IF b = NoBatch THEN Stash(s) ELSE {})
      /\ unhooked' = (unhooked \/ \E c \in OnTheWay(r) : batch[c].loose)
      /\ ~ \E j \in Sends : Resumable(j)
      /\ UNCHANGED <<name, conn, batches, batch, layout, stored, dirty, author, owed, kept,
                     strayed, outdated, faults>>
  BY DEF Send, Gesture, Begin
<1>3. i \in Sends /\ sends[i].phase = "idle"
  BY DEF Send, First, IdleSends
<1>4. sends[i].rec = NoRec
  BY <1>3 DEF Links, IdleSend
<1>5. wanted \subseteq Files /\ Payload(s) \subseteq Contents(s) /\ Payload(s) \subseteq Pieces
  BY <1>1, Constants DEF FilesOf, OnTheWay, Types, BatchType, Payload, Contents, Held, RecordType
<1>6. b \in Batches \cup {NoBatch}
  BY <1>0 DEF Types
<1> HIDE DEF s, i, b, wanted
<1>7. /\ t \in RecordType /\ t.sendInFlight /\ t.uploading = s.uploading
      /\ t.draft = s.draft /\ t.attachments = s.attachments /\ t.parked = s.parked
      /\ t.history = s.history /\ t.recallSaved = s.recallSaved /\ t.recallIndex = s.recallIndex
  <2> HIDE DEF banner
  <2>1. banner \in BOOLEAN
    BY <1>1 DEF RecordType, banner
  <2> QED
    BY <1>1, <2>1 DEF RecordType
<1> HIDE DEF t
<1>8. RecordOK(t) /\ Contents(t) = Contents(s) /\ Writing(t) = Writing(s)
  BY <1>1, <1>7 DEF RecordOK, Bounded, Contents, Held, Stash, Writing
<1>f. t.uploading <=> s.uploading
  BY <1>7
<1>9. r \in Recs /\ WritesRecord(key, r, t)
  BY <1>0, <1>2, PutWrites
<1> HIDE DEF key, r
<1>10. /\ call \in SendType
       /\ call.phase \in {"waiting", "delivering"} /\ call.key = key /\ call.rec = r
       /\ call.wanted = wanted /\ call.payload \subseteq Contents(s)
       /\ call.phase = "waiting" => b # NoBatch /\ call.batch = b
       /\ call.phase = "delivering" => b = NoBatch /\ call.payload # {}
  <2> DEFINE pay == Payload(s)
  <2>1. pay \subseteq Contents(s) /\ pay \subseteq Pieces /\ (b = NoBatch => pay # {})
    BY <1>2, <1>5
  <2> HIDE DEF pay
  <2>2. CASE b # NoBatch
    <3> DEFINE waiting == [phase |-> "waiting", key |-> key, rec |-> r, batch |-> b,
                           payload |-> {}, wanted |-> wanted]
    <3>1. waiting \in SendType
      BY <1>0, <1>5, <1>6, <1>9, <2>2 DEF SendType
    <3> QED
      BY <2>2, <3>1
  <2>3. CASE b = NoBatch
    <3> DEFINE sent == [phase |-> "delivering", key |-> key, rec |-> r, batch |-> NoBatch,
                        payload |-> pay, wanted |-> wanted]
    <3>1. sent \in SendType
      BY <1>0, <1>5, <1>6, <1>9, <2>1, <2>3 DEF SendType
    <3>2. call = sent
      BY <2>3 DEF pay
    <3> QED
      BY <2>1, <2>3, <3>1, <3>2
  <2> QED
    BY <2>2, <2>3
<1> HIDE DEF call
<1>11. sends'[i] = call /\ \A j \in Sends : j # i => sends'[j] = sends[j]
  BY <1>2, <1>3 DEF Types
<1>12. AuthorsKept /\ Becomes(x, t)
  <2>1. owed' = owed /\ Safe' \subseteq Safe
    BY <1>2 DEF Safe
  <2> QED
    BY <1>2, <1>8, <2>1 DEF AuthorsKept, Becomes, s, key
<1>13. Types'
  <2>1. sends' \in [Sends -> SendType]
    BY <1>2, <1>3, <1>10 DEF Types
  <2>2. unhooked' \in BOOLEAN /\ risked' \subseteq Pieces
    BY <1>1, <1>2 DEF Types, Stash, RecordType
  <2> QED
    BY <1>0, <1>2, <1>7, <2>1, <2>2, WriteTypes DEF Types
<1>14. Shapes'
  <2>1. /\ \A q \in Recs : RecordOK(rec[q])' /\ Contents(rec[q])' \subseteq Known'
        /\ owed' \subseteq Known'
    BY <1>0, <1>7, <1>8, <1>9, <1>12, <1>13, WriteKeepsShapes DEF key
  <2>2. Known' = Known
    BY <1>2 DEF Known
  <2>3. \A j \in Sends : sends'[j].payload \subseteq Known'
    BY <1>1, <1>10, <1>11, <2>2 DEF Shapes
  <2>4. /\ \A q \in Recs : SavedOK(stored.rec[q])' /\ Contents(stored.rec[q])' \subseteq Known'
        /\ \A k \in Keys : stored'.states[k] # NoRec => Saved(stored.rec[stored.states[k]])'
        /\ \A c \in Batches : batch'[c].files \subseteq Known'
        /\ kept' \subseteq Known'
    BY <1>2, <2>2 DEF Shapes, SavedOK, Bounded, HistoryOK, Saved, Contents, Held, Stash
  <2> QED
    BY <2>1, <2>3, <2>4 DEF Shapes
<1>15. Links'
  <2>1. NamesApart'
    BY <1>2 DEF Links, NamesApart, Live
  <2>a. Apart(states') /\ UNCHANGED stored
    BY <1>0, <1>2, <1>7, <1>9, <1>13, WriteReads DEF key
  <2>p. Apart(states)' /\ Apart(stored.states)'
    BY <2>a DEF Links, Apart
  <2>2. /\ \A c \in Batches : IF batch'[c].phase = "idle" THEN batch'[c] = IdleBatch
                              ELSE batch'[c].rec \in Recs
        /\ \A k \in Keys : batches'[k] # NoBatch =>
              /\ k[1] = conn'
              /\ batch'[batches'[k]].phase # "idle"
              /\ \A l \in Keys : batches'[l] = batches'[k] => l = k
    BY <1>2 DEF Links
  <2>3. ASSUME NEW j \in Sends
        PROVE  IF sends'[j].phase = "idle" THEN sends'[j] = IdleSend
               ELSE /\ sends'[j].key \in Keys
                    /\ sends'[j].key[1] <= conn'
                    /\ sends'[j].rec \in Recs
                    /\ sends'[j].phase = "waiting" => sends'[j].batch \in Batches
                    /\ sends'[j].phase = "delivering" => sends'[j].payload # {}
    <3>1. CASE j = i
      <4>1. conn \in Nat /\ conn' = conn
        BY <1>2 DEF Types
      <4> QED
        BY <1>0, <1>6, <1>9, <1>10, <1>11, <3>1, <4>1
    <3>2. CASE j # i
      BY <1>2, <1>11, <3>2 DEF Links
    <3> QED
      BY <3>1, <3>2
  <2> QED
    BY <2>1, <2>p, <2>2, <2>3 DEF Links
<1>16. ASSUME ~ strayed' PROVE Good'
  <2>0. Good
    BY <1>2, <1>16
  <2>1. ASSUME ~ outdated
        PROVE  /\ Keyed' /\ WordsHeld'
               /\ \A y \in Sessions : Live(y) => OwnRecord(y)'
    BY <1>0, <1>2, <1>7, <1>9, <1>12, <1>13, <2>0, <2>1, WriteKeepsRecords DEF key
  <2>2. /\ states'[key] = r
        /\ rec'[r] = t
        /\ \A k \in Keys : k # key => states'[k] = states[k]
        /\ \A q \in Recs : q # r => rec'[q] = rec[q]
        /\ \A k \in Keys : k # key => states[k] # r
    BY <1>0, <1>2, <1>7, <1>9, <1>13, WriteReads DEF key
  <2>3. \/ r = states[key] /\ s = rec[r]
        \/ /\ states[key] = NoRec /\ s = Blank
           /\ \A j \in Sends : sends[j].rec # r
           /\ \A c \in Batches : batch[c].rec # r
    BY <1>9 DEF WritesRecord, s
  <2>4. \A y : KeyOf(y)' = KeyOf(y) /\ (Live(y)' <=> Live(y)) /\ By(y)' = By(y)
    BY <1>2 DEF KeyOf, Live, By
  <2>w. ASSUME ~ unhooked'
        PROVE  /\ ~ unhooked
               /\ b = NoBatch => wanted = {}
               /\ wanted # {} => batch[b].phase = "uploading" /\ batch[b].rec = r /\ ~ batch[b].cancel
               /\ b # NoBatch => wanted \subseteq batch[b].files
    <3>0. ~ unhooked /\ \A c \in OnTheWay(r) : ~ batch[c].loose
      BY <1>2, <2>w
    <3>2. \A c \in OnTheWay(r) : c \in Batches /\ c = b
      BY <1>0, <1>9, <2>0, <2>3, <3>0, OnTheWayFacts DEF b
    <3>1. \A f \in wanted : \E c \in OnTheWay(r) : f \in batch[c].files
      BY DEF wanted, FilesOf
    <3> QED
      BY <3>0, <3>1, <3>2, Constants DEF OnTheWay
  <2>6. ASSUME ~ outdated, NEW y \in Sessions, Live(y) PROVE OwnUploads(y)' /\ OwnPayloads(y)'
    <3>1. OwnUploads(y)'
      <4>1. \A c \in Batches : batch[c].rec = states'[KeyOf(y)] => batch[c].rec = states[KeyOf(y)]
        BY <1>0, <2>2, <2>3, <2>6 DEF key
      <4> QED
        BY <1>2, <2>0, <2>4, <2>6, <4>1 DEF Good, Owned, OwnUploads
    <3>2. ASSUME NEW j \in Sessions, j = x PROVE Contents(s) \subseteq By(x)
      BY <1>0, <2>0, <2>6, BlankIsOK DEF Good, Owned, OwnRecord, Record, s, key
    <3>3. ASSUME NEW j \in Sends, sends'[j].phase = "delivering", sends'[j].rec = states'[KeyOf(y)]
          PROVE  sends'[j].payload \subseteq By(y)
      <4>1. CASE j = i
        <5>1. y = x
          BY <1>0, <1>10, <1>11, <2>2, <2>6, <3>3, <4>1
        <5> QED
          BY <1>10, <1>11, <3>2, <4>1, <5>1
      <4>2. CASE j # i
        <5>1. sends'[j] = sends[j] /\ sends[j].rec = states[KeyOf(y)]
          BY <1>0, <1>11, <2>2, <2>3, <2>6, <3>3, <4>2 DEF key
        <5> QED
          BY <2>0, <2>6, <3>3, <5>1 DEF Good, Owned, OwnPayloads
      <4> QED
        BY <4>1, <4>2
    <3> QED
      BY <2>4, <3>1, <3>3 DEF OwnPayloads
  <2>7. Owned' /\ Keyed' /\ WordsHeld'
    BY <1>2, <2>1, <2>4, <2>6 DEF Owned, Keyed, WordsHeld
  <2>8. WordsSaved'
    BY <1>2, <2>0 DEF Good, WordsSaved, Loaded, EndRecall
  <2>s. Sent'
    <3> SUFFICES ASSUME ~ outdated, NEW j \in Sends, NEW w \in Safe', sends'[j].phase = "delivering",
                        sends'[j].rec = (states[KeyOf(author[w])])'
                 PROVE  w \in sends'[j].payload
      BY <1>2 DEF Sent
    <3>1. /\ Live(author[w]) /\ w \in Writing(Record(KeyOf(author[w]))) /\ w \in Safe
          /\ author[w] \in Sessions /\ author'[w] = author[w]
      BY <1>2, <2>0, Constants DEF Good, WordsHeld, Safe, Shapes, Known
    <3>2. sends'[j].rec = states'[KeyOf(author[w])] /\ KeyOf(author[w]) \in Keys
      BY <1>0, <1>2, <3>1 DEF KeyOf
    <3>3. CASE j = i
      <4>1. KeyOf(author[w]) = key
        BY <1>10, <1>11, <2>2, <3>2, <3>3
      <4>2. w \in Writing(s) /\ b = NoBatch /\ w \notin Stash(s)
        BY <1>2, <1>10, <1>11, <3>1, <3>3, <4>1 DEF s, Safe
      <4>3. w \in Payload(s)
        BY <4>2 DEF Writing, Payload
      <4> QED
        BY <1>11, <3>3, <4>2, <4>3 DEF call
    <3>4. CASE j # i
      <4>1. sends'[j] = sends[j] /\ sends[j].rec \in Recs
        BY <1>11, <3>4 DEF Links
      <4>2. sends[j].rec = states[KeyOf(author[w])]
        BY <2>2, <2>3, <3>2, <4>1
      <4> QED
        BY <2>0, <3>1, <4>1, <4>2 DEF Good, Sent
    <3> QED
      BY <3>3, <3>4
  <2>9. Registered'
    <3>1. \A k \in Keys : batches[k] # NoBatch => batches[k] \in Batches /\ batch[batches[k]].rec \in Recs
      BY DEF Types, Links
    <3> QED
      BY <1>0, <1>2, <2>0, <2>2, <2>3, <2>4, <2>w, <3>1, Constants DEF Good, Registered, Tied
  <2>10. Waits'
    <3> SUFFICES ASSUME ~ unhooked', NEW j \in Sends, sends'[j].phase = "waiting"
                 PROVE  IF sends'[j].key[1] = conn THEN Awaited(j)' ELSE states'[sends'[j].key] = NoRec
      BY <1>2 DEF Waits
    <3>o. CASE sends'[j].key[1] # conn
      <4>1. sends'[j] = sends[j] /\ sends[j].key # key
        BY <1>0, <1>10, <1>11, <3>o
      <4> QED
        BY <2>0, <2>2, <2>w, <3>o, <4>1 DEF Good, Waits, Links
    <3> SUFFICES ASSUME sends'[j].key[1] = conn PROVE Awaited(j)'
      BY <3>o
    <3>1. CASE j = i
      <4>1. b # NoBatch /\ sends'[j] = call /\ call.batch = b
        BY <1>10, <1>11, <3>1
      <4>2. \A k \in Keys : batches[k] = b => k = key
        BY <1>0, <4>1 DEF Links, b
      <4> QED
        BY <1>2, <1>10, <2>w, <4>1, <4>2 DEF Awaited
    <3>2. CASE j # i
      <4>1. sends'[j] = sends[j]
        BY <1>11, <3>2
      <4>2. batch[sends[j].batch].phase = "uploading" /\ Awaited(j)
        BY <1>2, <2>0, <2>w, <4>1 DEF Good, Waits, Resumable
      <4> QED
        BY <1>2, <4>1, <4>2 DEF Awaited
    <3> QED
      BY <3>1, <3>2
  <2>11. Carries'
    <3>1. Thrown' = Thrown
      BY <1>2 DEF Thrown
    <3> QED
      BY <1>10, <1>11, <2>0, <2>w, <3>1 DEF Good, Carries
  <2>12. \A j \in Sends : sends[j].phase # "idle" => sends[j].rec \in Recs /\ sends[j].rec # r
    <3>1. ASSUME NEW j \in Sends, sends[j].phase # "idle", sends[j].rec = r PROVE FALSE
      <4>1. rec[r].sendInFlight
        BY <2>0, <3>1 DEF Good, OneSend
      <4> QED
        BY <1>2, <2>3, <3>1, <4>1
    <3> QED
      BY <3>1 DEF Links
  <2>13. OneSend'
    <3> SUFFICES ASSUME NEW j \in Sends, sends'[j].phase # "idle"
                 PROVE  /\ rec'[sends'[j].rec].sendInFlight
                        /\ \A l \in Sends : sends'[l].phase # "idle" /\ sends'[l].rec = sends'[j].rec => j = l
      BY DEF OneSend
    <3>1. CASE j = i
      BY <1>7, <1>10, <1>11, <2>2, <2>12, <3>1
    <3>2. CASE j # i
      <4>1. sends'[j] = sends[j] /\ sends[j].rec \in Recs /\ sends[j].rec # r
        BY <1>11, <2>12, <3>2
      <4>2. rec'[sends[j].rec].sendInFlight
        BY <2>0, <2>2, <4>1 DEF Good, OneSend
      <4>3. ASSUME NEW l \in Sends, sends'[l].phase # "idle", sends'[l].rec = sends[j].rec PROVE j = l
        <5>1. l # i
          BY <1>10, <1>11, <4>1, <4>3
        <5> QED
          BY <1>11, <2>0, <4>1, <4>3, <5>1 DEF Good, OneSend
      <4> QED
        BY <4>1, <4>2, <4>3
    <3> QED
      BY <3>1, <3>2
  <2>14. Flags'
    <3> SUFFICES ASSUME ~ unhooked', NEW k \in Keys, states'[k] # NoRec PROVE Backed(states[k])'
      BY DEF Flags
    <3>1. CASE k = key
      <4>1. t.uploading => \E c \in Batches : /\ batch[c].rec = r
                                              /\ batch[c].phase \in {"uploading", "thrown"}
                                              /\ ~ batch[c].cancel
        <5>1. CASE states[key] = NoRec
          <6>1. s = Blank
            BY <1>9, <2>3, <5>1, Constants
          <6> QED
            BY <1>f, <6>1 DEF Blank
        <5>2. CASE states[key] # NoRec
          <6>1. r = states[key] /\ s = rec[r]
            BY <2>3, <5>2
          <6>2. Backed(r)
            BY <1>0, <2>0, <2>w, <5>2, <6>1 DEF Good, Flags
          <6> QED
            BY <1>f, <6>1, <6>2 DEF Backed
        <5> QED
          BY <5>1, <5>2
      <4> QED
        BY <1>2, <1>3, <1>10, <1>11, <2>2, <3>1, <4>1 DEF Backed
    <3>2. CASE k # key
      <4>1. states'[k] = states[k] /\ states[k] \in Recs /\ rec'[states[k]] = rec[states[k]]
            /\ states[k] # NoRec
        BY <2>2, <3>2 DEF Types
      <4>2. Backed(states[k])
        BY <2>0, <2>w, <4>1 DEF Good, Flags
      <4>3. \A j \in Sends : sends[j].rec = states[k] => sends'[j] = sends[j]
        BY <1>4, <1>11, <4>1
      <4> QED
        BY <1>2, <4>1, <4>2, <4>3 DEF Backed
    <3> QED
      BY <3>1, <3>2
  <2> QED
    BY <2>7, <2>8, <2>s, <2>9, <2>10, <2>11, <2>13, <2>14 DEF Good
<1> QED
  BY <1>13, <1>14, <1>15, <1>16

-----------------------------------------------------------------------------
(* Renames and reconnects.                                                 *)

\* The record moves to the new name.  The batch stays under the old one, and is
\* loose from now on.
LEMMA RenameKeeps ==
    ASSUME StoreInv, NEW x \in Sessions, NEW n \in Names, Rename(x, n)
    PROVE  StoreInv'
<1> USE DEF StoreInv
<1> DEFINE from == KeyOf(x)
           to == <<conn, n>>
<1>0. /\ Live(x) /\ from \in Keys /\ from[1] = conn /\ to \in Keys /\ to[1] = conn
      /\ \A y \in Sessions : Live(y) => KeyOf(y) \in Keys /\ (y # x => KeyOf(y) # from)
      /\ \A y \in Sessions : KeyOf(y) # to
  BY KeyFacts DEF Rename, Keys, Types, FreeName, KeyOf
<1>1. /\ FreeName(n)
      /\ name' = [name EXCEPT ![x] = n]
      /\ batch' = [c \in Batches |-> Loosened(c, from)]
      /\ IF states[from] = NoRec THEN UNCHANGED <<states, dirty>>
         ELSE /\ states' = [states EXCEPT ![to] = states[from], ![from] = NoRec]
              /\ dirty' = TRUE
      /\ calls' = calls + 1
      /\ UNCHANGED <<conn, rec, batches, sends, layout, stored, author, owed, risked, kept, strayed,
                     unhooked, outdated, faults>>
  BY DEF Rename, Gesture, ghosts
<1>2. /\ KeyOf(x)' = to /\ Live(x)' /\ name'[x] = n
      /\ \A y \in Sessions : y # x => name'[y] = name[y] /\ (Live(y)' <=> Live(y)) /\ KeyOf(y)' = KeyOf(y)
  BY <1>1 DEF Types, Live, KeyOf
<1>3. from # to
  BY <1>0
<1> HIDE DEF from, to
<1>4. \A c \in Batches : /\ batch'[c].phase = batch[c].phase /\ batch'[c].rec = batch[c].rec
                         /\ batch'[c].files = batch[c].files /\ batch'[c].cancel = batch[c].cancel
                         /\ ~ batch'[c].loose => ~ batch[c].loose /\ batches[from] # c
                         /\ batches[from] # c => batch'[c] = batch[c]
  BY <1>0, <1>1, LoosenedFacts
<1>s. /\ states'[from] = NoRec
      /\ states'[to] = IF states[from] = NoRec THEN states[to] ELSE states[from]
      /\ \A k \in Keys : k # from /\ k # to => states'[k] = states[k]
  BY <1>0, <1>1, <1>3 DEF Types
<1>5. Types'
  <2>1. batch' \in [Batches -> BatchType]
    BY <1>0, <1>1, LoosenedFacts
  <2>2. name' \in [Sessions -> Names \cup {Unborn, Gone}]
    BY <1>1 DEF Types
  <2>3. states' \in [Keys -> Recs \cup {NoRec}] /\ dirty' \in BOOLEAN
    BY <1>0, <1>1 DEF Types
  <2> QED
    BY <1>1, <2>1, <2>2, <2>3 DEF Types
<1>6. Shapes'
  <2>1. Known' = Known
    BY <1>1 DEF Known
  <2>2. \A c \in Batches : batch'[c].files \subseteq Known'
    BY <1>4, <2>1 DEF Shapes
  <2>3. /\ \A q \in Recs : RecordOK(rec[q])' /\ Contents(rec[q])' \subseteq Known'
        /\ \A q \in Recs : SavedOK(stored.rec[q])' /\ Contents(stored.rec[q])' \subseteq Known'
        /\ \A k \in Keys : stored'.states[k] # NoRec => Saved(stored.rec[stored.states[k]])'
        /\ \A i \in Sends : sends'[i].payload \subseteq Known'
        /\ owed' \subseteq Known'
        /\ kept' \subseteq Known'
    BY <1>1, <2>1 DEF Shapes, RecordOK, SavedOK, Bounded, HistoryOK, Saved, Contents, Held, Stash
  <2> QED
    BY <2>2, <2>3 DEF Shapes
<1>7. Links'
  <2>1. NamesApart'
    BY <1>1, <1>2 DEF Links, NamesApart, Live, FreeName
  <2>2. ASSUME NEW c \in Batches
        PROVE  IF batch'[c].phase = "idle" THEN batch'[c] = IdleBatch ELSE batch'[c].rec \in Recs
    <3>1. batch[c].phase = "idle" => batches[from] # c
      BY <1>0, Constants DEF Links
    <3> QED
      BY <1>4, <3>1 DEF Links
  <2>3. \A k \in Keys : batches[k] # NoBatch => batch'[batches[k]].phase # "idle"
    BY <1>4 DEF Links, Types
  <2>4. Apart(states)'
    <3>1. Apart(states)
      BY DEF Links
    <3> QED
      BY <1>0, <1>s, <3>1 DEF Apart
  <2>5. Apart(stored.states)'
    <3>1. Apart(stored.states)
      BY DEF Links
    <3> QED
      BY <1>1, <3>1 DEF Apart
  <2> QED
    BY <1>1, <2>1, <2>2, <2>3, <2>4, <2>5 DEF Links
<1>8. ASSUME ~ strayed PROVE Good'
  <2>0. Good
    BY <1>8
  <2>1. ASSUME ~ outdated PROVE states[to] = NoRec
    BY <1>0, <2>0, <2>1 DEF Good, Keyed
  <2>2. ASSUME ~ outdated
        PROVE  /\ states'[to] = states[from] /\ states'[from] = NoRec
               /\ \A k \in Keys : k # from /\ k # to => states'[k] = states[k]
    BY <1>s, <2>1, <2>2
  <2>3. Keyed'
    <3> SUFFICES ASSUME ~ outdated, NEW k \in Keys, states'[k] # NoRec
                 PROVE  \E y \in Sessions : Live(y)' /\ k = KeyOf(y)'
      BY <1>1 DEF Keyed
    <3>1. CASE k = to
      BY <1>2, <3>1
    <3>2. CASE k # to
      <4>1. k # from /\ states[k] # NoRec
        BY <2>2, <3>2
      <4>2. PICK y \in Sessions : Live(y) /\ k = KeyOf(y)
        BY <2>0, <4>1 DEF Good, Keyed
      <4> QED
        BY <1>2, <4>1, <4>2 DEF from
    <3> QED
      BY <3>1, <3>2
  <2>5. WordsSaved'
    BY <1>1, <2>0 DEF Good, WordsSaved, Loaded, EndRecall
  <2>6. ASSUME ~ outdated, NEW y \in Sessions, Live(y)'
        PROVE  /\ Live(y) /\ KeyOf(y) \in Keys
               /\ states'[KeyOf(y)'] = states[KeyOf(y)] /\ By(y)' = By(y)
    <3>1. By(y)' = By(y)
      BY <1>1 DEF By
    <3>2. CASE y = x
      BY <1>0, <1>2, <2>2, <2>6, <3>1, <3>2 DEF from
    <3>3. CASE y # x
      <4>1. Live(y) /\ KeyOf(y)' = KeyOf(y)
        BY <1>2, <2>6, <3>3
      <4>2. KeyOf(y) \in Keys /\ KeyOf(y) # from /\ KeyOf(y) # to
        BY <1>0, <3>3, <4>1
      <4> QED
        BY <2>2, <2>6, <3>1, <4>1, <4>2
    <3> QED
      BY <3>2, <3>3
  <2>7. Owned'
    <3> SUFFICES ASSUME ~ outdated, NEW y \in Sessions, Live(y)'
                 PROVE  OwnRecord(y)' /\ OwnUploads(y)' /\ OwnPayloads(y)'
      BY <1>1 DEF Owned
    <3>1. OwnRecord(y) /\ OwnUploads(y) /\ OwnPayloads(y)
      BY <2>0, <2>6 DEF Good, Owned
    <3>2. OwnRecord(y)'
      BY <1>1, <2>6, <3>1 DEF OwnRecord, Contents, Held, Stash
    <3>3. OwnUploads(y)' /\ OwnPayloads(y)'
      BY <1>1, <1>4, <2>6, <3>1 DEF OwnUploads, OwnPayloads
    <3> QED
      BY <3>2, <3>3
  <2>8. WordsHeld'
    <3> SUFFICES ASSUME ~ outdated, NEW w \in Safe'
                 PROVE  Live(author[w])' /\ (w \in Writing(Record(KeyOf(author[w]))))'
      BY <1>1 DEF WordsHeld
    <3>1. PICK y \in Sessions : /\ author[w] = y /\ author'[w] = y
                               /\ Live(y) /\ w \in Writing(Record(KeyOf(y)))
      BY <1>1, <2>0, Constants DEF Good, WordsHeld, Safe, Shapes, Known
    <3>2. Live(y)'
      BY <1>2, <3>1
    <3>3. states'[KeyOf(y)'] = states[KeyOf(y)]
      BY <2>6, <3>1, <3>2
    <3>4. w \in (Writing(Record(KeyOf(y))))'
      BY <1>1, <3>1, <3>3 DEF Record, Writing, Stash
    <3> QED
      BY <3>1, <3>2, <3>4 DEF Live, KeyOf, Record, Writing, Stash
  <2>s. Sent'
    <3> SUFFICES ASSUME ~ outdated, NEW i \in Sends, NEW w \in Safe', sends[i].phase = "delivering",
                        sends[i].rec = (states[KeyOf(author[w])])'
                 PROVE  w \in sends[i].payload
      BY <1>1 DEF Sent
    <3>1. PICK y \in Sessions : author[w] = y /\ author'[w] = y /\ Live(y) /\ w \in Safe
      BY <1>1, <2>0, Constants DEF Good, WordsHeld, Safe, Shapes, Known
    <3>2. Live(y)' /\ (states[KeyOf(author[w])])' = states'[KeyOf(y)']
      BY <1>2, <3>1 DEF KeyOf
    <3>3. states'[KeyOf(y)'] = states[KeyOf(y)]
      BY <2>6, <3>2
    <3> QED
      BY <2>0, <3>1, <3>2, <3>3 DEF Good, Sent
  <2>t. Thrown' = Thrown
    BY <1>1, <1>4, SMTT(20) DEF Thrown
  <2>9. Registered'
    <3>0. CASE unhooked
      BY <1>1, <3>0 DEF Registered
    <3> SUFFICES ASSUME ~ unhooked PROVE Registered'
      BY <3>0
    <3>1. ASSUME NEW k \in Keys, batches[k] # NoBatch, Tied(batches[k])'
          PROVE  /\ batch'[batches[k]].rec = states'[k]
                 /\ \E y \in Sessions : Live(y)' /\ k = KeyOf(y)'
      <4>1. batches[k] \in Batches /\ batch[batches[k]].rec \in Recs
        BY <3>1 DEF Types, Links
      <4>2. Tied(batches[k]) /\ k # from /\ batch'[batches[k]].rec = batch[batches[k]].rec
        BY <1>1, <1>4, <3>1, <4>1 DEF Tied
      <4>3. batch[batches[k]].rec = states[k] /\ \E y \in Sessions : Live(y) /\ k = KeyOf(y)
        BY <2>0, <3>1, <4>2 DEF Good, Registered
      <4>4. PICK y \in Sessions : Live(y) /\ k = KeyOf(y)
        BY <4>3
      <4>5. y # x /\ k # to
        BY <1>0, <4>2, <4>4 DEF from
      <4> QED
        BY <1>2, <1>s, <4>2, <4>3, <4>4, <4>5
    <3>2. ASSUME NEW c \in Batches, batch'[c].phase = "uploading", Tied(c)'
          PROVE  \E k \in Keys : batches[k] = c
      <4>1. batch[c].phase = "uploading" /\ Tied(c)
        BY <1>4, <3>2 DEF Tied
      <4> QED
        BY <2>0, <4>1 DEF Good, Registered
    <3> QED
      BY <1>1, <3>1, <3>2 DEF Registered
  <2>10. Waits'
    <3> SUFFICES ASSUME ~ unhooked, NEW i \in Sends, sends[i].phase = "waiting"
                 PROVE  IF sends[i].key[1] = conn THEN Awaited(i)' ELSE states'[sends[i].key] = NoRec
      BY <1>1 DEF Waits
    <3>1. CASE sends[i].key[1] = conn
      <4>1. sends[i].batch \in Batches /\ Awaited(i)
        BY <2>0, <3>1 DEF Good, Waits, Links
      <4> QED
        BY <1>1, <1>4, <2>t, <3>1, <4>1 DEF Awaited
    <3>2. CASE sends[i].key[1] # conn
      <4>1. sends[i].key \in Keys /\ states[sends[i].key] = NoRec
        BY <2>0, <3>2 DEF Good, Waits, Links
      <4> QED
        BY <1>0, <1>s, <3>2, <4>1
    <3> QED
      BY <3>1, <3>2
  <2>11. Carries' /\ OneSend'
    BY <1>1, <2>t, <2>0 DEF Good, Carries, OneSend
  <2>12. Flags'
    <3> SUFFICES ASSUME ~ unhooked, NEW k \in Keys, states'[k] # NoRec PROVE Backed(states[k])'
      BY <1>1 DEF Flags
    <3>1. PICK l \in Keys : states'[k] = states[l] /\ states[l] # NoRec
      BY <1>0, <1>s
    <3>2. Backed(states[l])
      BY <2>0, <3>1 DEF Good, Flags
    <3> QED
      BY <1>1, <1>4, <3>1, <3>2 DEF Backed
  <2> QED
    BY <2>0, <2>3, <2>5, <2>7, <2>8, <2>s, <2>9, <2>10, <2>11, <2>12 DEF Good
<1> QED
  BY <1>1, <1>5, <1>6, <1>7, <1>8

\* What was under the keys of a connection is under the next one's.
CarriedTo(g, f, none, c) ==
    \A k \in Keys : /\ f[k] # none => k[1] = c
                    /\ g[k] = IF k[1] = c THEN none
                              ELSE IF k[1] = c + 1 /\ f[<<c, k[2]>>] # none
                                   THEN f[<<c, k[2]>>] ELSE f[k]

\* What is under the keys of the next connection after the move, and elsewhere.
LEMMA CarriedFacts ==
    ASSUME NEW none, NEW f, NEW g, NEW c \in Nat \ {0}, c < MaxConns, CarriedTo(g, f, none, c)
    PROVE  /\ \A k \in Keys : <<c, k[2]>> \in Keys /\ <<c + 1, k[2]>> \in Keys /\ k = <<k[1], k[2]>>
           /\ \A k \in Keys : k[1] = c + 1 => g[k] = f[<<c, k[2]>>]
           /\ \A k \in Keys : k[1] # c + 1 => g[k] = none
           /\ \A k \in Keys : k[1] = c => g[<<c + 1, k[2]>>] = f[k]
<1>1. MaxConns \in Nat
  BY Constants
<1>2. \A k \in Keys : <<c, k[2]>> \in Keys /\ <<c + 1, k[2]>> \in Keys /\ k = <<k[1], k[2]>>
  BY <1>1 DEF Keys
<1>3. \A k \in Keys : k[1] = c + 1 => g[k] = f[<<c, k[2]>>]
  BY <1>2 DEF CarriedTo
<1>4. \A k \in Keys : k[1] # c + 1 => g[k] = none
  BY <1>2 DEF CarriedTo
<1>5. ASSUME NEW k \in Keys, k[1] = c PROVE g[<<c + 1, k[2]>>] = f[k]
  <2> DEFINE l == <<c + 1, k[2]>>
  <2>1. l \in Keys /\ l[1] = c + 1 /\ l[2] = k[2] /\ k = <<c, k[2]>>
    BY <1>2, <1>5
  <2> HIDE DEF l
  <2>2. g[l] = f[<<c, l[2]>>]
    BY <1>3, <2>1
  <2> QED
    BY <2>1, <2>2 DEF l
<1> QED
  BY <1>2, <1>3, <1>4, <1>5

\* Records and batches move to the next connection together.
LEMMA ReconnectKeeps ==
    ASSUME StoreInv, Reconnect
    PROVE  StoreInv'
<1> USE DEF StoreInv
<1> DEFINE was(k) == <<conn, k[2]>>
           now(k) == <<conn + 1, k[2]>>
<1>1. /\ conn < MaxConns /\ conn' = conn + 1
      /\ states' = [k \in Keys |-> IF k[1] = conn THEN NoRec
                                   ELSE IF k[1] = conn + 1 /\ states[<<conn, k[2]>>] # NoRec
                                        THEN states[<<conn, k[2]>>] ELSE states[k]]
      /\ batches' = [k \in Keys |-> IF k[1] = conn THEN NoBatch
                                    ELSE IF k[1] = conn + 1 /\ batches[<<conn, k[2]>>] # NoBatch
                                         THEN batches[<<conn, k[2]>>] ELSE batches[k]]
      /\ dirty' = TRUE
      /\ calls' = calls + 1
      /\ UNCHANGED <<name, rec, batch, sends, layout, stored, author, owed, risked, kept, strayed,
                     unhooked, outdated, faults>>
  BY DEF Reconnect, Gesture, ghosts
<1>g. \A k \in Keys :
        /\ states'[k] = IF k[1] = conn THEN NoRec
                        ELSE IF k[1] = conn + 1 /\ states[<<conn, k[2]>>] # NoRec
                             THEN states[<<conn, k[2]>>] ELSE states[k]
        /\ batches'[k] = IF k[1] = conn THEN NoBatch
                         ELSE IF k[1] = conn + 1 /\ batches[<<conn, k[2]>>] # NoBatch
                              THEN batches[<<conn, k[2]>>] ELSE batches[k]
  BY <1>1
<1>2. conn \in Nat \ {0} /\ MaxConns \in Nat
  BY Constants DEF Types
<1>3. \A k \in Keys : was(k) \in Keys /\ was(k)[1] = conn /\ now(k) \in Keys
  BY <1>1, <1>2 DEF Keys
<1>4. /\ \A k \in Keys : batches'[k] # NoBatch => k[1] = conn + 1 /\ batches'[k] = batches[was(k)]
      /\ \A k \in Keys : k[1] = conn => batches'[now(k)] = batches[k]
      /\ \A k \in Keys : k = <<k[1], k[2]>>
  <2>1. \A k \in Keys : batches[k] # NoBatch => k[1] = conn
    BY DEF Links
  <2>2. CarriedTo(batches', batches, NoBatch, conn)
    BY <1>g, <2>1 DEF CarriedTo
  <2>3. \A k \in Keys : k = <<k[1], k[2]>>
    BY DEF Keys
  <2>4. /\ \A k \in Keys : batches'[k] # NoBatch => k[1] = conn + 1 /\ batches'[k] = batches[was(k)]
        /\ \A k \in Keys : k[1] = conn => batches'[now(k)] = batches[k]
    BY <1>1, <1>2, <2>2, CarriedFacts
  <2> QED
    BY <2>3, <2>4
<1>s. \A k \in Keys : states'[k] # NoRec =>
        \/ k[1] # conn /\ states'[k] = states[k]
        \/ k[1] = conn + 1 /\ states'[k] = states[was(k)]
  BY <1>g
<1>5. Types'
  <2>1. conn' \in 1 .. MaxConns
    BY <1>1, <1>2
  <2>2. states' \in [Keys -> Recs \cup {NoRec}]
    BY <1>1, <1>3 DEF Types
  <2>3. batches' \in [Keys -> Batches \cup {NoBatch}]
    BY <1>1, <1>3 DEF Types
  <2> QED
    BY <1>1, <2>1, <2>2, <2>3 DEF Types
<1>6. Shapes'
  BY <1>1 DEF Shapes, Known, RecordOK, SavedOK, Bounded, HistoryOK, Saved, Contents, Held, Stash
<1>7. Links'
  <2>1. NamesApart'
    BY <1>1 DEF Links, NamesApart, Live
  <2>2. ASSUME NEW k \in Keys, batches'[k] # NoBatch
        PROVE  /\ k[1] = conn'
               /\ batch'[batches'[k]].phase # "idle"
               /\ \A l \in Keys : batches'[l] = batches'[k] => l = k
    <3>1. k[1] = conn + 1 /\ batches'[k] = batches[was(k)] /\ was(k) \in Keys
      BY <1>3, <1>4, <2>2
    <3>2. ASSUME NEW l \in Keys, batches'[l] = batches'[k] PROVE l = k
      <4>1. l[1] = conn + 1 /\ batches'[l] = batches[was(l)] /\ was(l) \in Keys
        BY <1>3, <1>4, <2>2, <3>2
      <4>2. was(l) = was(k)
        BY <2>2, <3>1, <3>2, <4>1 DEF Links
      <4> QED
        BY <1>4, <3>1, <4>1, <4>2
    <3>3. batch[batches[was(k)]].phase # "idle"
      BY <2>2, <3>1 DEF Links
    <3> QED
      BY <1>1, <3>1, <3>2, <3>3
  <2>3. ASSUME NEW i \in Sends, sends[i].phase # "idle"
        PROVE  sends[i].key[1] <= conn'
    <3>1. sends[i].key \in Keys /\ sends[i].key[1] <= conn
      BY <2>3 DEF Links
    <3>2. sends[i].key[1] \in Nat
      BY <3>1 DEF Keys
    <3> QED
      BY <1>1, <1>2, <3>1, <3>2
  <2>4. Apart(states)'
    <3> SUFFICES ASSUME NEW k \in Keys, NEW l \in Keys, states'[k] # NoRec, states'[k] = states'[l]
                 PROVE  k = l
      BY DEF Apart
    <3> DEFINE From(q, r) == \/ q[1] # conn /\ r = q
                             \/ q[1] = conn + 1 /\ r = was(q)
    <3>1. PICK q \in Keys : From(k, q) /\ states'[k] = states[q]
      BY <1>3, <1>s
    <3>2. PICK r \in Keys : From(l, r) /\ states'[l] = states[r]
      BY <1>3, <1>s
    <3>3. Apart(states) /\ states[q] = states[r] /\ states[q] # NoRec
      BY <3>1, <3>2 DEF Links
    <3>4. q = r
      BY <3>3 DEF Apart
    <3> QED
      BY <1>3, <1>4, <3>1, <3>2, <3>4
  <2>5. Apart(stored.states)'
    <3>1. Apart(stored.states)
      BY DEF Links
    <3> QED
      BY <1>1, <3>1 DEF Apart
  <2> QED
    BY <1>1, <2>1, <2>2, <2>3, <2>4, <2>5 DEF Links
<1>8. ASSUME ~ strayed PROVE Good'
  <2>0. Good
    BY <1>8
  <2>1. ASSUME ~ outdated
        PROVE  /\ \A k \in Keys : states'[k] # NoRec => k[1] = conn + 1 /\ states'[k] = states[was(k)]
               /\ \A k \in Keys : k[1] = conn => states'[now(k)] = states[k]
    <3>1. \A k \in Keys : states[k] # NoRec => k[1] = conn
      BY <2>0, <2>1 DEF Good, Keyed, KeyOf
    <3>2. CarriedTo(states', states, NoRec, conn)
      BY <1>g, <3>1 DEF CarriedTo
    <3> QED
      BY <1>1, <1>2, <3>2, CarriedFacts
  <2>2. Keyed'
    <3> SUFFICES ASSUME ~ outdated, NEW k \in Keys, states'[k] # NoRec
                 PROVE  \E y \in Sessions : Live(y)' /\ k = KeyOf(y)'
      BY <1>1 DEF Keyed
    <3>1. k[1] = conn + 1 /\ states[was(k)] # NoRec /\ was(k) \in Keys
      BY <1>3, <2>1
    <3>2. PICK y \in Sessions : Live(y) /\ was(k) = KeyOf(y)
      BY <2>0, <3>1 DEF Good, Keyed
    <3>3. k[2] = name[y]
      BY <3>2 DEF KeyOf
    <3>4. k = <<conn + 1, name[y]>>
      BY <1>4, <3>1, <3>3
    <3> QED
      BY <1>1, <3>2, <3>4 DEF Live, KeyOf
  <2>4. WordsSaved'
    BY <1>1, <2>0 DEF Good, WordsSaved, Loaded, EndRecall
  <2>5. ASSUME ~ outdated, NEW y \in Sessions, Live(y)'
        PROVE  /\ Live(y) /\ KeyOf(y) \in Keys
               /\ states'[KeyOf(y)'] = states[KeyOf(y)] /\ By(y)' = By(y)
    <3>1. Live(y) /\ By(y)' = By(y)
      BY <1>1, <2>5 DEF Live, By
    <3>2. KeyOf(y) \in Keys /\ KeyOf(y)[1] = conn
      BY <3>1, KeyFacts
    <3>3. KeyOf(y)' = now(KeyOf(y))
      BY <1>1 DEF KeyOf
    <3> QED
      BY <2>1, <2>5, <3>1, <3>2, <3>3
  <2>6. Owned'
    <3> SUFFICES ASSUME ~ outdated, NEW y \in Sessions, Live(y)'
                 PROVE  OwnRecord(y)' /\ OwnUploads(y)' /\ OwnPayloads(y)'
      BY <1>1 DEF Owned
    <3>1. OwnRecord(y) /\ OwnUploads(y) /\ OwnPayloads(y)
      BY <2>0, <2>5 DEF Good, Owned
    <3>2. OwnRecord(y)'
      BY <1>1, <2>5, <3>1, SMTT(20) DEF OwnRecord, Contents, Held, Stash
    <3>3. OwnUploads(y)' /\ OwnPayloads(y)'
      BY <1>1, <2>5, <3>1 DEF OwnUploads, OwnPayloads
    <3> QED
      BY <3>2, <3>3
  <2>7. WordsHeld'
    <3> SUFFICES ASSUME ~ outdated, NEW w \in Safe'
                 PROVE  Live(author[w])' /\ (w \in Writing(Record(KeyOf(author[w]))))'
      BY <1>1 DEF WordsHeld
    <3>1. PICK y \in Sessions : /\ author[w] = y /\ author'[w] = y
                               /\ Live(y) /\ w \in Writing(Record(KeyOf(y)))
      BY <1>1, <2>0, Constants DEF Good, WordsHeld, Safe, Shapes, Known
    <3>2. Live(y)'
      BY <1>1, <3>1 DEF Live
    <3>3. states'[KeyOf(y)'] = states[KeyOf(y)]
      BY <2>5, <3>1, <3>2
    <3>4. w \in (Writing(Record(KeyOf(y))))'
      BY <1>1, <3>1, <3>3 DEF Record, Writing, Stash
    <3> QED
      BY <3>1, <3>2, <3>4 DEF Live, KeyOf, Record, Writing, Stash
  <2>s. Sent'
    <3> SUFFICES ASSUME ~ outdated, NEW i \in Sends, NEW w \in Safe', sends[i].phase = "delivering",
                        sends[i].rec = (states[KeyOf(author[w])])'
                 PROVE  w \in sends[i].payload
      BY <1>1 DEF Sent
    <3>1. PICK y \in Sessions : author[w] = y /\ author'[w] = y /\ Live(y) /\ w \in Safe
      BY <1>1, <2>0, Constants DEF Good, WordsHeld, Safe, Shapes, Known
    <3>2. Live(y)' /\ (states[KeyOf(author[w])])' = states'[KeyOf(y)']
      BY <1>1, <3>1 DEF KeyOf, Live
    <3>3. states'[KeyOf(y)'] = states[KeyOf(y)]
      BY <2>5, <3>2
    <3> QED
      BY <2>0, <3>1, <3>2, <3>3 DEF Good, Sent
  <2>t. Thrown' = Thrown
    BY <1>1 DEF Thrown
  <2>8. Registered'
    <3>0. CASE unhooked
      BY <1>1, <3>0 DEF Registered
    <3> SUFFICES ASSUME ~ unhooked PROVE Registered'
      BY <3>0
    <3>1. ASSUME NEW k \in Keys, batches'[k] # NoBatch, Tied(batches[k])'
          PROVE  /\ batch'[batches'[k]].rec = states'[k]
                 /\ \E y \in Sessions : Live(y)' /\ k = KeyOf(y)'
      <4>1. k[1] = conn + 1 /\ batches'[k] = batches[was(k)] /\ was(k) \in Keys
        BY <1>3, <1>4, <3>1
      <4>2. Tied(batches[was(k)])
        BY <1>1, <3>1, <4>1 DEF Tied
      <4>3. /\ batch[batches[was(k)]].rec = states[was(k)]
            /\ \E y \in Sessions : Live(y) /\ was(k) = KeyOf(y)
        BY <2>0, <3>1, <4>1, <4>2 DEF Good, Registered
      <4>4. PICK y \in Sessions : Live(y) /\ was(k) = KeyOf(y)
        BY <4>3
      <4>5. states[was(k)] # NoRec /\ states'[k] = states[was(k)]
        <5>1. batch[batches[was(k)]].rec \in Recs
          BY <3>1, <4>1 DEF Types, Links
        <5>2. states[was(k)] # NoRec
          BY <4>3, <5>1, Constants
        <5> QED
          BY <1>2, <1>g, <4>1, <5>2
      <4>6. k[2] = name[y]
        BY <4>4 DEF KeyOf
      <4>7. k = <<conn + 1, name[y]>>
        BY <1>4, <4>1, <4>6
      <4>8. Live(y)' /\ k = KeyOf(y)'
        BY <1>1, <4>4, <4>7 DEF Live, KeyOf
      <4> QED
        BY <1>1, <4>1, <4>3, <4>5, <4>8
    <3>2. ASSUME NEW c \in Batches, batch[c].phase = "uploading", Tied(c)'
          PROVE  \E k \in Keys : batches'[k] = c
      <4>1. PICK k \in Keys : batches[k] = c
        BY <1>1, <2>0, <3>2 DEF Good, Registered, Tied
      <4>2. k[1] = conn
        BY <4>1, Constants DEF Links
      <4> QED
        BY <1>3, <1>4, <4>1, <4>2
    <3> QED
      BY <1>1, <3>1, <3>2 DEF Registered
  <2>9. Waits'
    <3> SUFFICES ASSUME ~ unhooked, NEW i \in Sends, sends[i].phase = "waiting"
                 PROVE  sends[i].key[1] # conn + 1 /\ states'[sends[i].key] = NoRec
      BY <1>1 DEF Waits
    <3>1. sends[i].key \in Keys /\ sends[i].key[1] <= conn
      BY DEF Links
    <3>2. sends[i].key[1] \in Nat
      BY <3>1 DEF Keys
    <3>3. sends[i].key[1] # conn => states[sends[i].key] = NoRec
      BY <2>0 DEF Good, Waits
    <3> DEFINE m == sends[i].key
    <3> HIDE DEF m
    <3>4. m \in Keys /\ m[1] \in Nat /\ m[1] <= conn /\ (m[1] # conn => states[m] = NoRec)
      BY <3>1, <3>2, <3>3 DEF m
    <3>5. m[1] # conn + 1
      BY <1>2, <3>4
    <3>6. states'[m] = NoRec
      BY <1>s, <3>4, <3>5
    <3> QED
      BY <3>5, <3>6 DEF m
  <2>10. Carries' /\ OneSend'
    BY <1>1, <2>0, <2>t DEF Good, Carries, OneSend
  <2>11. Flags'
    <3> SUFFICES ASSUME ~ unhooked, NEW k \in Keys, states'[k] # NoRec PROVE Backed(states[k])'
      BY <1>1 DEF Flags
    <3>1. PICK l \in Keys : states'[k] = states[l]
      BY <1>3, <1>s
    <3>2. Backed(states[l])
      BY <2>0, <3>1 DEF Good, Flags
    <3> QED
      BY <1>1, <3>1, <3>2 DEF Backed
  <2> QED
    BY <2>0, <2>2, <2>4, <2>6, <2>7, <2>s, <2>8, <2>9, <2>10, <2>11 DEF Good
<1> QED
  BY <1>1, <1>5, <1>6, <1>7, <1>8

-----------------------------------------------------------------------------
(* Uploads that land or throw.                                             *)

\* The sends no longer wait for some files.
Trimmed(D) == sends' = [i \in Sends |-> [sends[i] EXCEPT !.wanted = @ \ D]]

\* A send that wants less is otherwise the same.
LEMMA TrimmedFacts ==
    ASSUME Types, NEW D, Trimmed(D)
    PROVE  /\ sends' \in [Sends -> SendType]
           /\ \A i \in Sends : /\ sends'[i].phase = sends[i].phase
                               /\ sends'[i].key = sends[i].key
                               /\ sends'[i].rec = sends[i].rec
                               /\ sends'[i].batch = sends[i].batch
                               /\ sends'[i].payload = sends[i].payload
                               /\ sends'[i].wanted = sends[i].wanted \ D
                               /\ sends[i] = IdleSend => sends'[i] = IdleSend
<1>1. ASSUME NEW i \in Sends
      PROVE  /\ sends'[i] \in SendType
             /\ sends'[i].phase = sends[i].phase
             /\ sends'[i].key = sends[i].key
             /\ sends'[i].rec = sends[i].rec
             /\ sends'[i].batch = sends[i].batch
             /\ sends'[i].payload = sends[i].payload
             /\ sends'[i].wanted = sends[i].wanted \ D
             /\ sends[i] = IdleSend => sends'[i] = IdleSend
  <2> DEFINE left == sends[i].wanted \ D
  <2>1. sends'[i] = [sends[i] EXCEPT !.wanted = left] /\ sends[i] \in SendType
    BY DEF Types, Trimmed
  <2>2. left \subseteq Files
    BY <2>1 DEF SendType
  <2>3. sends[i] = IdleSend => left = {}
    BY DEF IdleSend
  <2>4. [IdleSend EXCEPT !.wanted = {}] = IdleSend
    BY IdleWants
  <2> HIDE DEF left
  <2>5. sends[i] = IdleSend => sends'[i] = IdleSend
    BY <2>1, <2>3, <2>4
  <2>6. /\ sends'[i] \in SendType
        /\ sends'[i].phase = sends[i].phase
        /\ sends'[i].key = sends[i].key
        /\ sends'[i].rec = sends[i].rec
        /\ sends'[i].batch = sends[i].batch
        /\ sends'[i].payload = sends[i].payload
        /\ sends'[i].wanted = left
    BY <2>1, <2>2 DEF SendType
  <2> QED
    BY <2>5, <2>6 DEF left
<1> QED
  BY <1>1 DEF Trimmed

\* What a landing does: to the record, unless the batch was cancelled, and to
\* what the sends want.
LEMMA LandingFacts ==
    ASSUME Types, Shapes, Links, NEW b \in Batches, UploadLands(b)
    PROVE  /\ batch[b].rec \in Recs
           /\ rec' \in [Recs -> RecordType] /\ sends' \in [Sends -> SendType] /\ dirty' \in BOOLEAN
           /\ \A q \in Recs : q # batch[b].rec => rec'[q] = rec[q]
           /\ RecordOK(rec'[batch[b].rec])
           /\ Writing(rec'[batch[b].rec]) = Writing(rec[batch[b].rec])
           /\ Contents(rec'[batch[b].rec]) \subseteq Contents(rec[batch[b].rec]) \cup batch[b].files
           /\ rec'[batch[b].rec].sendInFlight = rec[batch[b].rec].sendInFlight
           /\ rec[batch[b].rec].error => rec'[batch[b].rec].error
           /\ rec[batch[b].rec].attachments \subseteq rec'[batch[b].rec].attachments
           /\ IF batch[b].cancel THEN rec' = rec ELSE ~ rec'[batch[b].rec].uploading
           /\ \A i \in Sends : /\ sends'[i].phase = sends[i].phase
                               /\ sends'[i].key = sends[i].key
                               /\ sends'[i].rec = sends[i].rec
                               /\ sends'[i].batch = sends[i].batch
                               /\ sends'[i].payload = sends[i].payload
                               /\ sends'[i].wanted \subseteq sends[i].wanted
                               /\ sends[i] = IdleSend => sends'[i] = IdleSend
                               /\ ~ batch[b].cancel =>
                                    \/ rec'[batch[b].rec].error
                                    \/ sends'[i].wanted \cap batch[b].files
                                         \subseteq rec'[batch[b].rec].attachments
<1> DEFINE r == batch[b].rec
           F == batch[b].files
           parks == layout.mode = "hidden" /\ rec[r].draft = {}
<1>1. /\ r \in Recs /\ rec[r] \in RecordType /\ RecordOK(rec[r]) /\ F \subseteq Files
      /\ rec \in [Recs -> RecordType] /\ sends \in [Sends -> SendType] /\ dirty \in BOOLEAN
  BY DEF UploadLands, Types, BatchType, Links, Shapes
<1>2. PICK P \in SUBSET F :
        LET s == [rec[r] EXCEPT !.uploading = FALSE, !.error = @ \/ P # F]
        IN IF batch[b].cancel
             THEN UNCHANGED <<rec, dirty, sends>>
             ELSE /\ \E t \in IF parks THEN ParkPaths(s, P) ELSE {MergePaths(s, P)} :
                        rec' = [rec EXCEPT ![r] = t]
                  /\ dirty' = TRUE
                  /\ sends' = IF ~ parks THEN sends
                              ELSE [i \in Sends |-> [sends[i] EXCEPT !.wanted = @ \ P]]
  BY DEF UploadLands
<1>3. CASE batch[b].cancel
  <2>1. UNCHANGED <<rec, dirty, sends>>
    BY <1>2, <1>3
  <2> QED
    BY <1>1, <1>3, <2>1
<1>4. CASE ~ batch[b].cancel
  <2> DEFINE bad == rec[r].error \/ P # F
             s == [rec[r] EXCEPT !.uploading = FALSE, !.error = bad]
  <2>1. PICK t \in IF parks THEN ParkPaths(s, P) ELSE {MergePaths(s, P)} : rec' = [rec EXCEPT ![r] = t]
    BY <1>2, <1>4
  <2>2. /\ dirty' = TRUE
        /\ sends' = IF ~ parks THEN sends ELSE [i \in Sends |-> [sends[i] EXCEPT !.wanted = @ \ P]]
    BY <1>2, <1>4
  <2>3. P \subseteq Files /\ P \subseteq F
    BY <1>1
  <2> HIDE DEF parks
  <2>4. bad \in BOOLEAN /\ (rec[r].error => bad) /\ (P # F => bad)
    BY <1>1 DEF RecordType
  <2> HIDE DEF bad
  <2> DEFINE d == rec[r]
  <2> HIDE DEF r, F
  <2>d. d \in RecordType /\ RecordOK(d)
    BY <1>1
  <2>s. s = [d EXCEPT !.uploading = FALSE, !.error = bad]
    OBVIOUS
  <2> HIDE DEF d, s
  <2>5. /\ s \in RecordType
        /\ s.draft = d.draft /\ s.attachments = d.attachments /\ s.parked = d.parked
        /\ s.history = d.history /\ s.sendInFlight = d.sendInFlight /\ s.uploading = FALSE
        /\ s.recallIndex = d.recallIndex /\ s.recallSaved = d.recallSaved /\ s.error = bad
    BY <2>4, <2>d, <2>s DEF RecordType
  <2>6. /\ t \in RecordType
        /\ t.draft = d.draft
        /\ t.history = d.history /\ t.sendInFlight = d.sendInFlight /\ t.uploading = FALSE
        /\ t.recallIndex = d.recallIndex /\ t.recallSaved = d.recallSaved /\ t.error = bad
        /\ t.attachments = IF parks THEN d.attachments ELSE d.attachments \cup P
        /\ t.parked \subseteq d.parked \cup P
        /\ Cardinality(t.parked) <= ParkedLimit
    <3>1. CASE parks
      <4>1. t \in ParkPaths(s, P)
        BY <2>1, <3>1
      <4> QED
        BY <2>3, <2>5, <3>1, <4>1, ParkFacts
    <3>2. CASE ~ parks
      <4>1. t = [s EXCEPT !.attachments = @ \cup P]
        BY <2>1, <3>2 DEF MergePaths
      <4>2. s.attachments \cup P \subseteq Files
        BY <2>3, <2>5 DEF RecordType
      <4>3. /\ t \in RecordType
            /\ t.draft = s.draft /\ t.attachments = s.attachments \cup P /\ t.parked = s.parked
            /\ t.history = s.history /\ t.sendInFlight = s.sendInFlight /\ t.uploading = s.uploading
            /\ t.recallIndex = s.recallIndex /\ t.recallSaved = s.recallSaved /\ t.error = s.error
        BY <2>5, <4>1, <4>2 DEF RecordType
      <4> QED
        BY <2>d, <2>5, <3>2, <4>3 DEF RecordOK, Bounded
    <3> QED
      BY <3>1, <3>2
  <2>7. RecordOK(t)
    BY <2>d, <2>6 DEF RecordOK, Bounded
  <2>8. Contents(t) \subseteq Contents(d) \cup F /\ Writing(t) = Writing(d)
    BY <2>3, <2>6 DEF Contents, Held, Stash, Writing
  <2>9. rec' \in [Recs -> RecordType] /\ rec'[r] = t /\ \A q \in Recs : q # r => rec'[q] = rec[q]
    BY <1>1, <2>1, <2>6
  <2>10. /\ sends' \in [Sends -> SendType]
         /\ \A i \in Sends : /\ sends'[i].phase = sends[i].phase
                             /\ sends'[i].key = sends[i].key
                             /\ sends'[i].rec = sends[i].rec
                             /\ sends'[i].batch = sends[i].batch
                             /\ sends'[i].payload = sends[i].payload
                             /\ sends'[i].wanted \subseteq sends[i].wanted
                             /\ sends[i] = IdleSend => sends'[i] = IdleSend
                             /\ parks => sends'[i].wanted \cap P = {}
    <3>1. CASE parks
      <4>1. Trimmed(P)
        BY <2>2, <3>1 DEF Trimmed
      <4> QED
        BY <3>1, <4>1, TrimmedFacts
    <3>2. CASE ~ parks
      BY <1>1, <2>2, <3>2
    <3> QED
      BY <3>1, <3>2
  <2>11. ASSUME NEW i \in Sends PROVE t.error \/ sends'[i].wanted \cap F \subseteq t.attachments
    <3>1. CASE P # F
      BY <2>4, <2>6, <3>1
    <3>2. CASE P = F
      BY <2>6, <2>10, <3>2
    <3> QED
      BY <3>1, <3>2
  <2>12. (d.error => t.error) /\ d.attachments \subseteq t.attachments /\ ~ t.uploading
    BY <2>4, <2>6 DEF d
  <2>13. dirty' \in BOOLEAN
    BY <2>2
  <2> QED
    BY <1>1, <1>4, <2>6, <2>7, <2>8, <2>9, <2>10, <2>11, <2>12, <2>13 DEF r, F, d
<1> QED
  BY <1>3, <1>4

\* An upload lands in the record object it was staged for, whatever key names
\* it now, and the sends that wait for it find its files there, or the banner.
LEMMA UploadLandsKeeps ==
    ASSUME StoreInv, NEW b \in Batches, UploadLands(b)
    PROVE  StoreInv'
<1> USE DEF StoreInv
<1> DEFINE r == batch[b].rec
           F == batch[b].files
           off == batch[b].cancel
<1>1. /\ batch[b].phase = "uploading"
      /\ batches' = [k \in Keys |-> IF batches[k] = b THEN NoBatch ELSE batches[k]]
      /\ batch' = [batch EXCEPT ![b] = IdleBatch]
      /\ UNCHANGED <<name, conn, states, layout, stored, author, owed, risked, kept, strayed,
                     unhooked, outdated, calls, faults>>
  BY DEF UploadLands, ghosts
<1>2. /\ r \in Recs /\ F \subseteq Known
      /\ rec' \in [Recs -> RecordType] /\ sends' \in [Sends -> SendType] /\ dirty' \in BOOLEAN
      /\ \A q \in Recs : q # r => rec'[q] = rec[q]
      /\ RecordOK(rec'[r])
      /\ Writing(rec'[r]) = Writing(rec[r])
      /\ Contents(rec'[r]) \subseteq Contents(rec[r]) \cup F
      /\ rec'[r].sendInFlight = rec[r].sendInFlight
      /\ rec[r].error => rec'[r].error
      /\ rec[r].attachments \subseteq rec'[r].attachments
      /\ IF off THEN rec' = rec ELSE ~ rec'[r].uploading
  BY LandingFacts DEF Shapes
<1>3. \A i \in Sends : /\ sends'[i].phase = sends[i].phase
                       /\ sends'[i].key = sends[i].key
                       /\ sends'[i].rec = sends[i].rec
                       /\ sends'[i].batch = sends[i].batch
                       /\ sends'[i].payload = sends[i].payload
                       /\ sends'[i].wanted \subseteq sends[i].wanted
                       /\ sends[i] = IdleSend => sends'[i] = IdleSend
                       /\ ~ off => \/ rec'[r].error
                                   \/ sends'[i].wanted \cap F \subseteq rec'[r].attachments
  BY LandingFacts
<1>4. /\ \A k \in Keys : batches'[k] # NoBatch => batches'[k] = batches[k] /\ batches[k] # b
      /\ \A k \in Keys : batches[k] # b => batches'[k] = batches[k]
      /\ \A c \in Batches : c # b => batch'[c] = batch[c]
      /\ batch'[b] = IdleBatch /\ batch'[b].phase = "idle"
  BY <1>1 DEF Types, IdleBatch
<1>5. \A k \in Keys : batches[k] # NoBatch => batches[k] \in Batches
  BY DEF Types
<1> HIDE DEF r, F, off
<1>6. Types'
  <2>1. batch' \in [Batches -> BatchType]
    BY <1>1 DEF Types, BatchType, IdleBatch
  <2>2. batches' \in [Keys -> Batches \cup {NoBatch}]
    BY <1>1 DEF Types
  <2> QED
    BY <1>1, <1>2, <2>1, <2>2 DEF Types
<1>7. Known' = Known
  BY <1>1 DEF Known
<1>8. Shapes'
  <2>1. ASSUME NEW q \in Recs PROVE RecordOK(rec'[q]) /\ Contents(rec'[q]) \subseteq Known
    BY <1>2 DEF Shapes
  <2>2. \A q \in Recs : RecordOK(rec[q])' /\ Contents(rec[q])' \subseteq Known'
    BY <1>7, <2>1 DEF RecordOK, Bounded, HistoryOK, Contents, Held, Stash
  <2>3. \A c \in Batches : batch'[c].files \subseteq Known'
    BY <1>4, <1>7 DEF Shapes, IdleBatch
  <2>4. \A i \in Sends : sends'[i].payload \subseteq Known'
    BY <1>3, <1>7 DEF Shapes
  <2>5. /\ \A q \in Recs : SavedOK(stored.rec[q])' /\ Contents(stored.rec[q])' \subseteq Known'
        /\ \A k \in Keys : stored'.states[k] # NoRec => Saved(stored.rec[stored.states[k]])'
        /\ owed' \subseteq Known'
        /\ kept' \subseteq Known'
    BY <1>1, <1>7 DEF Shapes, SavedOK, Bounded, HistoryOK, Saved, Contents, Held, Stash
  <2> QED
    BY <2>2, <2>3, <2>4, <2>5 DEF Shapes
<1>9. Links'
  <2>1. NamesApart'
    BY <1>1 DEF Links, NamesApart, Live
  <2>2. \A c \in Batches : IF batch'[c].phase = "idle" THEN batch'[c] = IdleBatch
                           ELSE batch'[c].rec \in Recs
    BY <1>4 DEF Links
  <2>3. \A i \in Sends : IF sends'[i].phase = "idle" THEN sends'[i] = IdleSend
                         ELSE /\ sends'[i].key \in Keys
                              /\ sends'[i].key[1] <= conn'
                              /\ sends'[i].rec \in Recs
                              /\ sends'[i].phase = "waiting" => sends'[i].batch \in Batches
                              /\ sends'[i].phase = "delivering" => sends'[i].payload # {}
    BY <1>1, <1>3 DEF Links
  <2>4. ASSUME NEW k \in Keys, batches'[k] # NoBatch
        PROVE  /\ k[1] = conn'
               /\ batch'[batches'[k]].phase # "idle"
               /\ \A l \in Keys : batches'[l] = batches'[k] => l = k
    <3>1. batches'[k] = batches[k] /\ batches[k] # b /\ batches[k] \in Batches /\ batches[k] # NoBatch
      BY <1>4, <1>5, <2>4
    <3>2. \A l \in Keys : batches'[l] = batches'[k] => batches[l] = batches[k]
      BY <1>4, <2>4
    <3> QED
      BY <1>1, <1>4, <3>1, <3>2 DEF Links
  <2>p. Apart(states)' /\ Apart(stored.states)'
    <3>1. Apart(states) /\ Apart(stored.states)
      BY DEF Links
    <3> QED
      BY <1>1, <3>1 DEF Apart
  <2> QED
    BY <2>1, <2>p, <2>2, <2>3, <2>4 DEF Links
<1>10. ASSUME ~ strayed PROVE Good'
  <2>0. Good
    BY <1>10
  <2>1. \A y : KeyOf(y)' = KeyOf(y) /\ (Live(y)' <=> Live(y)) /\ By(y)' = By(y)
    BY <1>1 DEF KeyOf, Live, By
  <2>2. Keyed'
    BY <1>1, <2>0, <2>1 DEF Good, Keyed
  <2>3. WordsSaved'
    BY <1>1, <2>0 DEF Good, WordsSaved, Loaded, EndRecall
  <2>4. ASSUME ~ outdated, NEW y \in Sessions, Live(y)
        PROVE  OwnRecord(y)' /\ OwnUploads(y)' /\ OwnPayloads(y)'
    <3>1. OwnRecord(y) /\ OwnUploads(y) /\ OwnPayloads(y)
      BY <2>0, <2>4 DEF Good, Owned
    <3>2. OwnUploads(y)' /\ OwnPayloads(y)'
      BY <1>1, <1>3, <1>4, <2>1, <3>1 DEF OwnUploads, OwnPayloads
    <3>3. ASSUME states[KeyOf(y)] # NoRec
          PROVE  Contents(rec'[states[KeyOf(y)]]) \subseteq By(y)
      <4>1. states[KeyOf(y)] \in Recs
        BY <2>4, <3>3, KeyFacts DEF Types
      <4>2. CASE states[KeyOf(y)] = r
        <5>1. F \subseteq By(y)
          BY <1>1, <3>1, <4>2 DEF OwnUploads, r, F
        <5> QED
          BY <1>2, <3>1, <3>3, <4>2, <5>1 DEF OwnRecord
      <4>3. CASE states[KeyOf(y)] # r
        BY <1>2, <3>1, <3>3, <4>1, <4>3 DEF OwnRecord
      <4> QED
        BY <4>2, <4>3
    <3>4. OwnRecord(y)'
      BY <1>1, <2>1, <3>3 DEF OwnRecord, Contents, Held, Stash
    <3> QED
      BY <3>2, <3>4
  <2>5. Owned'
    BY <1>1, <2>1, <2>4 DEF Owned
  <2>6. WordsHeld'
    <3> SUFFICES ASSUME ~ outdated, NEW w \in Safe'
                 PROVE  Live(author[w])' /\ (w \in Writing(Record(KeyOf(author[w]))))'
      BY <1>1 DEF WordsHeld
    <3>1. PICK y \in Sessions : /\ author[w] = y /\ author'[w] = y
                               /\ Live(y) /\ w \in Writing(Record(KeyOf(y)))
      BY <1>1, <2>0, Constants DEF Good, WordsHeld, Safe, Shapes, Known
    <3> DEFINE k == KeyOf(y)
    <3>2. k \in Keys /\ k' = k /\ states[k] \in Recs \cup {NoRec} /\ states'[k] = states[k]
      BY <1>1, <2>1, <3>1, KeyFacts DEF Types
    <3> HIDE DEF k
    <3>3. CASE states[k] = NoRec
      BY <3>1, <3>2, <3>3, BlankIsOK DEF Record, k
    <3>4. CASE states[k] # NoRec
      <4>1. w \in Writing(rec[states[k]])
        BY <3>1, <3>4 DEF Record, k
      <4>2. w \in Writing(rec'[states[k]])
        BY <1>2, <3>2, <3>4, <4>1
      <4>3. w \in (Writing(Record(k)))'
        BY <3>2, <3>4, <4>2 DEF Record, Writing, Stash
      <4> QED
        BY <1>1, <3>1, <4>3 DEF k, Live, KeyOf, Record, Writing, Stash
    <3> QED
      BY <3>3, <3>4
  <2>s. Sent'
    <3>1. \A w : Safe' = Safe /\ (states[KeyOf(author[w])])' = states[KeyOf(author[w])]
      BY <1>1 DEF Safe, KeyOf
    <3> QED
      BY <1>1, <1>3, <2>0, <3>1 DEF Good, Sent
  <2>t. Thrown' = Thrown
    BY <1>1, <1>4 DEF Thrown
  <2>7. Registered'
    <3>0. CASE unhooked
      BY <1>1, <3>0 DEF Registered
    <3> SUFFICES ASSUME ~ unhooked PROVE Registered'
      BY <3>0
    <3>1. ASSUME NEW k \in Keys, batches'[k] # NoBatch, Tied(batches[k])'
          PROVE  /\ batch'[batches'[k]].rec = states'[k]
                 /\ \E y \in Sessions : Live(y)' /\ k = KeyOf(y)'
      <4>1. batches'[k] = batches[k] /\ batches[k] # b /\ batches[k] \in Batches /\ batches[k] # NoBatch
        BY <1>4, <1>5, <3>1
      <4>2. Tied(batches[k])
        BY <1>4, <3>1, <4>1 DEF Tied
      <4> QED
        BY <1>1, <1>4, <2>0, <2>1, <4>1, <4>2 DEF Good, Registered
    <3>2. ASSUME NEW c \in Batches, batch'[c].phase = "uploading", Tied(c)'
          PROVE  \E k \in Keys : batches'[k] = c
      <4>1. c # b
        BY <1>4, <3>2
      <4>2. batch[c].phase = "uploading" /\ Tied(c)
        BY <1>4, <3>2, <4>1 DEF Tied
      <4> QED
        BY <1>4, <2>0, <4>1, <4>2 DEF Good, Registered
    <3> QED
      BY <3>1, <3>2 DEF Registered
  <2>8. Waits'
    <3> SUFFICES ASSUME ~ unhooked, NEW i \in Sends, sends'[i].phase = "waiting"
                 PROVE  IF sends'[i].key[1] = conn THEN Awaited(i)' ELSE states'[sends'[i].key] = NoRec
      BY <1>1 DEF Waits
    <3>o. sends'[i].key[1] # conn => states'[sends'[i].key] = NoRec
      BY <1>1, <1>3, <2>0 DEF Good, Waits
    <3> SUFFICES ASSUME sends'[i].key[1] = conn PROVE Awaited(i)'
      BY <3>o
    <3> DEFINE c == sends[i].batch
               q == sends[i].rec
    <3>1. c \in Batches /\ q \in Recs /\ Awaited(i) /\ sends'[i].batch = c /\ sends'[i].rec = q
          /\ sends'[i].wanted \subseteq sends[i].wanted /\ sends'[i].key = sends[i].key
      BY <1>3, <2>0 DEF Good, Waits, Links
    <3>2. /\ rec[q].error => rec'[q].error
          /\ rec[q].attachments \subseteq rec'[q].attachments
      BY <1>2, <3>1
    <3>3. CASE c = b
      <4>1. /\ sends[i].wanted \subseteq F
            /\ sends[i].wanted # {} => r = q /\ ~ off
        BY <1>1, <3>1, <3>3 DEF Awaited, r, F, off
      <4> HIDE DEF c, q
      <4>2. rec'[q].error \/ sends'[i].wanted \subseteq rec'[q].attachments
        <5>1. CASE sends'[i].wanted = {}
          BY <5>1
        <5>2. CASE sends'[i].wanted # {}
          BY <1>3, <3>1, <4>1, <5>2
        <5> QED
          BY <5>1, <5>2
      <4> QED
        BY <1>4, <3>1, <3>3, <4>2 DEF Awaited
    <3>4. CASE c # b /\ batch[c].phase = "uploading"
      <4>1. /\ sends[i].wanted \subseteq batch[c].files
            /\ sends[i].wanted # {} => batch[c].rec = q /\ ~ batch[c].cancel
            /\ \A k \in Keys : batches[k] = c => k = sends[i].key
        BY <3>1, <3>4 DEF Awaited
      <4> HIDE DEF c, q
      <4>2. \A k \in Keys : batches'[k] = c => batches[k] = c
        BY <1>4, <3>1, Constants
      <4> QED
        BY <1>4, <3>1, <3>4, <4>1, <4>2 DEF Awaited
    <3>5. CASE c # b /\ batch[c].phase # "uploading"
      <4>1. rec[q].error \/ sends[i].wanted \ Thrown \subseteq rec[q].attachments
        BY <3>1, <3>5 DEF Awaited
      <4> HIDE DEF c, q
      <4> QED
        BY <1>4, <2>t, <3>1, <3>2, <3>5, <4>1 DEF Awaited
    <3> QED
      BY <3>3, <3>4, <3>5
  <2>9. Carries'
    BY <1>1, <1>3, <2>0, <2>t DEF Good, Carries
  <2>10. \A q \in Recs : rec[q].sendInFlight = rec'[q].sendInFlight
    BY <1>2
  <2>11. OneSend'
    <3>1. \A i \in Sends : sends[i].phase # "idle" => sends[i].rec \in Recs /\ rec[sends[i].rec].sendInFlight
      BY <2>0 DEF Good, OneSend, Links
    <3> QED
      BY <1>3, <2>0, <2>10, <3>1 DEF Good, OneSend
  <2>12. Flags'
    <3> SUFFICES ASSUME ~ unhooked, NEW k \in Keys, states[k] # NoRec PROVE Backed(states[k])'
      BY <1>1 DEF Flags
    <3> DEFINE q == states[k]
    <3>1. q \in Recs /\ Backed(q) /\ states'[k] = q
      BY <1>1, <2>0 DEF Good, Flags, Types
    <3> HIDE DEF q
    <3>2. rec'[q].sendInFlight => \E i \in Sends : sends'[i].rec = q
      BY <1>3, <2>10, <3>1 DEF Backed
    <3>3. rec'[q].uploading => \E c \in Batches : /\ batch'[c].rec = q
                                                  /\ batch'[c].phase \in {"uploading", "thrown"}
                                                  /\ ~ batch'[c].cancel
      <4> SUFFICES ASSUME rec'[q].uploading
                   PROVE  \E c \in Batches : /\ c # b
                                             /\ batch[c].rec = q
                                             /\ batch[c].phase \in {"uploading", "thrown"}
                                             /\ ~ batch[c].cancel
        BY <1>4
      <4>1. CASE off
        BY <1>2, <3>1, <4>1 DEF Backed, off
      <4>2. CASE ~ off
        <5>1. q # r /\ rec'[q] = rec[q]
          BY <1>2, <3>1, <4>2
        <5> QED
          BY <3>1, <5>1 DEF Backed, r
      <4> QED
        BY <4>1, <4>2
    <3> QED
      BY <3>1, <3>2, <3>3 DEF Backed, q
  <2> QED
    BY <2>2, <2>3, <2>5, <2>6, <2>s, <2>7, <2>8, <2>9, <2>11, <2>12 DEF Good
<1> QED
  BY <1>1, <1>6, <1>8, <1>9, <1>10

\* A batch that throws keeps its entry and its flag, and its files are thrown.
LEMMA UploadThrowsKeeps ==
    ASSUME StoreInv, NEW b \in Batches, UploadThrows(b)
    PROVE  StoreInv'
<1> USE DEF StoreInv
<1>1. /\ faults' = faults + 1
      /\ batch[b].phase = "uploading"
      /\ batch' = [batch EXCEPT ![b].phase = "thrown"]
      /\ UNCHANGED <<name, conn, states, rec, batches, sends, layout, stored, dirty, author, owed,
                     risked, kept, strayed, unhooked, outdated, calls>>
  BY DEF UploadThrows, ghosts
<1>3. batch[b] \in BatchType /\ batch'[b] = [batch[b] EXCEPT !.phase = "thrown"]
      /\ \A c \in Batches : c # b => batch'[c] = batch[c]
  BY <1>1 DEF Types
<1>4. /\ batch'[b] \in BatchType
      /\ batch'[b].phase = "thrown" /\ batch'[b].rec = batch[b].rec
      /\ batch'[b].files = batch[b].files /\ batch'[b].cancel = batch[b].cancel
      /\ batch'[b].loose = batch[b].loose
  BY <1>3 DEF BatchType
<1>5. \A c \in Batches : /\ batch'[c].rec = batch[c].rec /\ batch'[c].files = batch[c].files
                         /\ batch'[c].cancel = batch[c].cancel /\ batch'[c].loose = batch[c].loose
                         /\ batch'[c].phase = IF c = b THEN "thrown" ELSE batch[c].phase
  BY <1>3, <1>4
<1>6. Types'
  <2>1. batch' \in [Batches -> BatchType]
    BY <1>1, <1>3, <1>4 DEF Types
  <2> QED
    BY <1>1, <2>1 DEF Types
<1>7. Known' = Known
  BY <1>1 DEF Known
<1>8. Shapes'
  <2>1. /\ \A c \in Batches : batch'[c].files \subseteq Known'
        /\ \A i \in Sends : sends'[i].payload \subseteq Known'
    BY <1>1, <1>5, <1>7 DEF Shapes
  <2>2. /\ \A q \in Recs : RecordOK(rec[q])' /\ Contents(rec[q])' \subseteq Known'
        /\ \A q \in Recs : SavedOK(stored.rec[q])' /\ Contents(stored.rec[q])' \subseteq Known'
        /\ \A k \in Keys : stored'.states[k] # NoRec => Saved(stored.rec[stored.states[k]])'
        /\ owed' \subseteq Known'
        /\ kept' \subseteq Known'
    BY <1>1, <1>7 DEF Shapes, RecordOK, SavedOK, Bounded, HistoryOK, Saved, Contents, Held, Stash
  <2> QED
    BY <2>1, <2>2 DEF Shapes
<1>9. Links'
  <2>1. NamesApart'
    BY <1>1 DEF Links, NamesApart, Live
  <2>2. \A c \in Batches : IF batch'[c].phase = "idle" THEN batch'[c] = IdleBatch
                           ELSE batch'[c].rec \in Recs
    BY <1>1, <1>3, <1>4 DEF Links
  <2>3. \A i \in Sends : IF sends'[i].phase = "idle" THEN sends'[i] = IdleSend
                         ELSE /\ sends'[i].key \in Keys
                              /\ sends'[i].key[1] <= conn'
                              /\ sends'[i].rec \in Recs
                              /\ sends'[i].phase = "waiting" => sends'[i].batch \in Batches
                              /\ sends'[i].phase = "delivering" => sends'[i].payload # {}
    BY <1>1 DEF Links
  <2>4. \A k \in Keys : batches[k] # NoBatch => batch'[batches[k]].phase # "idle"
    BY <1>5 DEF Links, Types
  <2>p. Apart(states)' /\ Apart(stored.states)'
    <3>1. Apart(states) /\ Apart(stored.states)
      BY DEF Links
    <3> QED
      BY <1>1, <3>1 DEF Apart
  <2> QED
    BY <1>1, <2>1, <2>p, <2>2, <2>3, <2>4 DEF Links
<1>10. ASSUME ~ strayed PROVE Good'
  <2>0. Good
    BY <1>10
  <2>1. \A y : KeyOf(y)' = KeyOf(y) /\ (Live(y)' <=> Live(y)) /\ By(y)' = By(y)
    BY <1>1 DEF KeyOf, Live, By
  <2>2. Keyed'
    BY <1>1, <2>0, <2>1 DEF Good, Keyed
  <2>3. WordsSaved'
    BY <1>1, <2>0 DEF Good, WordsSaved, Loaded, EndRecall
  <2>4. ASSUME ~ outdated, NEW y \in Sessions, Live(y)
        PROVE  OwnRecord(y)' /\ OwnUploads(y)' /\ OwnPayloads(y)'
    <3>1. OwnRecord(y) /\ OwnUploads(y) /\ OwnPayloads(y)
      BY <2>0, <2>4 DEF Good, Owned
    <3>2. OwnRecord(y)'
      BY <1>1, <2>1, <3>1 DEF OwnRecord, Contents, Held, Stash
    <3>3. OwnUploads(y)' /\ OwnPayloads(y)'
      BY <1>1, <1>5, <2>1, <3>1 DEF OwnUploads, OwnPayloads
    <3> QED
      BY <3>2, <3>3
  <2>5. Owned'
    BY <1>1, <2>1, <2>4 DEF Owned
  <2>6. WordsHeld'
    BY <1>1, <2>0 DEF Good, WordsHeld, Safe, Live, KeyOf, Record, Writing, Stash
  <2>s. Sent'
    <3>1. \A w : Safe' = Safe /\ (states[KeyOf(author[w])])' = states[KeyOf(author[w])]
      BY <1>1 DEF Safe, KeyOf
    <3> QED
      BY <1>1, <2>0, <3>1 DEF Good, Sent
  <2>t. Thrown \subseteq Thrown' /\ batch[b].files \subseteq Thrown'
    BY <1>5 DEF Thrown
  <2>7. Registered'
    <3>1. \A k \in Keys : batches[k] # NoBatch => batches[k] \in Batches
      BY DEF Types
    <3> QED
      BY <1>1, <1>5, <2>0, <2>1, <3>1 DEF Good, Registered, Tied
  <2>8. Waits'
    <3> SUFFICES ASSUME ~ unhooked, NEW i \in Sends, sends'[i].phase = "waiting"
                 PROVE  IF sends'[i].key[1] = conn THEN Awaited(i)' ELSE states'[sends'[i].key] = NoRec
      BY <1>1 DEF Waits
    <3>o. sends'[i].key[1] # conn => states'[sends'[i].key] = NoRec
      BY <1>1, <2>0 DEF Good, Waits
    <3> SUFFICES ASSUME sends'[i].key[1] = conn PROVE Awaited(i)'
      BY <3>o
    <3>1. sends[i].batch \in Batches /\ Awaited(i)
      BY <1>1, <2>0 DEF Good, Waits, Links
    <3>2. CASE sends[i].batch = b
      <4>1. sends[i].wanted \subseteq batch[b].files /\ batch'[sends[i].batch].phase # "uploading"
        BY <1>1, <1>4, <3>1, <3>2 DEF Awaited
      <4>2. sends'[i].wanted \ Thrown' = {}
        BY <1>1, <2>t, <4>1
      <4> QED
        BY <1>1, <4>1, <4>2 DEF Awaited
    <3>3. CASE sends[i].batch # b
      BY <1>1, <1>3, <2>t, <3>1, <3>3 DEF Awaited
    <3> QED
      BY <3>2, <3>3
  <2>9. Carries'
    BY <1>1, <2>0, <2>t DEF Good, Carries
  <2>10. OneSend'
    BY <1>1, <2>0 DEF Good, OneSend
  <2>11. Flags'
    <3> SUFFICES ASSUME ~ unhooked, NEW k \in Keys, states[k] # NoRec PROVE Backed(states[k])'
      BY <1>1 DEF Flags
    <3>1. Backed(states[k])
      BY <2>0 DEF Good, Flags
    <3> QED
      BY <1>1, <1>5, <3>1 DEF Backed
  <2> QED
    BY <2>2, <2>3, <2>5, <2>6, <2>s, <2>7, <2>8, <2>9, <2>10, <2>11 DEF Good
<1> QED
  BY <1>1, <1>6, <1>8, <1>9, <1>10

-----------------------------------------------------------------------------
(* Sends that go on and sends that are answered.                           *)

\* A record whose send has begun or ended is otherwise the same.
LEMMA InFlightFacts ==
    ASSUME NEW d \in RecordType, NEW flag \in BOOLEAN, NEW e, e = [d EXCEPT !.sendInFlight = flag]
    PROVE  /\ e \in RecordType /\ e.sendInFlight = flag
           /\ e.draft = d.draft /\ e.attachments = d.attachments /\ e.parked = d.parked
           /\ e.error = d.error /\ e.uploading = d.uploading /\ e.history = d.history
           /\ e.recallSaved = d.recallSaved /\ e.recallIndex = d.recallIndex
           /\ RecordOK(d) => RecordOK(e)
           /\ Contents(e) = Contents(d) /\ Writing(e) = Writing(d)
<1>1. /\ e \in RecordType /\ e.sendInFlight = flag
      /\ e.draft = d.draft /\ e.attachments = d.attachments /\ e.parked = d.parked
      /\ e.error = d.error /\ e.uploading = d.uploading /\ e.history = d.history
      /\ e.recallSaved = d.recallSaved /\ e.recallIndex = d.recallIndex
  BY DEF RecordType
<1> QED
  BY <1>1 DEF RecordOK, Bounded, Contents, Held, Stash, Writing

\* A send that waited composes its payload from the record its key names: its
\* own, and what it wanted is there, or it stops at the banner.
LEMMA SendResumesKeeps ==
    ASSUME StoreInv, NEW i \in Sends, SendResumes(i)
    PROVE  StoreInv'
<1> USE DEF StoreInv
<1> DEFINE k == sends[i].key
           r == sends[i].rec
           W == sends[i].wanted
           pay == Payload(Record(k))
           goes == ~ rec[r].error /\ pay # {}
           call == IF goes THEN [phase |-> "delivering", key |-> k, rec |-> r, batch |-> NoBatch,
                                 payload |-> pay, wanted |-> W]
                   ELSE IdleSend
           flag == goes
           e == [rec[r] EXCEPT !.sendInFlight = flag]
           laid == Stash(Record(k))
<1>1. /\ sends[i].phase = "waiting" /\ batch[sends[i].batch].phase # "uploading"
      /\ sends' = [sends EXCEPT ![i] = call]
      /\ rec' = [rec EXCEPT ![r] = e]
      /\ strayed' = (strayed \/ states[k] # r)
      /\ risked' = risked \cup (IF goes THEN laid ELSE {})
      /\ UNCHANGED <<name, conn, states, batches, batch, layout, stored, dirty, author, owed, kept,
                     unhooked, outdated, calls, faults>>
  BY DEF SendResumes, Resumable, Begin
<1>2. /\ k \in Keys /\ k[1] <= conn /\ r \in Recs /\ W \subseteq Files
      /\ sends \in [Sends -> SendType] /\ rec \in [Recs -> RecordType]
  BY <1>1 DEF Links, Types, SendType
<1>3. pay \subseteq Contents(Record(k)) /\ pay \subseteq Pieces /\ pay \subseteq Known /\ laid \subseteq Pieces
  BY <1>2, RecordFacts, Constants DEF Payload, Contents, Held, Stash, RecordType
<1>4. (goes => pay # {} /\ ~ rec[r].error) /\ goes \in BOOLEAN
  OBVIOUS
<1> HIDE DEF k, r, W, pay, goes, laid
<1>5. /\ call \in SendType /\ call.payload \subseteq Known
      /\ goes => /\ call.phase = "delivering" /\ call.key = k /\ call.rec = r
                 /\ call.payload = pay /\ call.wanted = W
      /\ ~ goes => call = IdleSend /\ call.phase = "idle"
  <2>1. CASE goes
    BY <1>2, <1>3, <2>1 DEF SendType
  <2>2. CASE ~ goes
    BY <2>2 DEF IdleSend, SendType
  <2> QED
    BY <2>1, <2>2
<1> HIDE DEF call
<1>6. /\ e \in RecordType /\ e.sendInFlight = flag
      /\ e.attachments = rec[r].attachments /\ e.error = rec[r].error /\ e.uploading = rec[r].uploading
      /\ RecordOK(e) /\ Contents(e) = Contents(rec[r]) /\ Writing(e) = Writing(rec[r])
  <2>1. rec[r] \in RecordType /\ RecordOK(rec[r])
    BY <1>2 DEF Shapes
  <2> QED
    BY <1>4, <2>1, InFlightFacts
<1>f. (e.uploading <=> rec[r].uploading) /\ (e.sendInFlight <=> goes) /\ (e.error <=> rec[r].error)
  BY <1>6 DEF flag
<1> HIDE DEF e, flag
<1>7. /\ sends'[i] = call /\ \A j \in Sends : j # i => sends'[j] = sends[j]
      /\ rec'[r] = e /\ \A q \in Recs : q # r => rec'[q] = rec[q]
  BY <1>1, <1>2
<1>8. Types'
  <2>1. sends' \in [Sends -> SendType] /\ rec' \in [Recs -> RecordType] /\ strayed' \in BOOLEAN
        /\ risked' \subseteq Pieces
    BY <1>1, <1>2, <1>3, <1>5, <1>6 DEF Types
  <2> QED
    BY <1>1, <2>1 DEF Types
<1>9. Known' = Known
  BY <1>1 DEF Known
<1>10. Shapes'
  <2>1. ASSUME NEW q \in Recs PROVE RecordOK(rec'[q]) /\ Contents(rec'[q]) \subseteq Known
    BY <1>2, <1>6, <1>7 DEF Shapes
  <2>2. \A q \in Recs : RecordOK(rec[q])' /\ Contents(rec[q])' \subseteq Known'
    BY <1>9, <2>1 DEF RecordOK, Bounded, HistoryOK, Contents, Held, Stash
  <2>3. \A j \in Sends : sends'[j].payload \subseteq Known'
    BY <1>5, <1>7, <1>9 DEF Shapes
  <2>4. /\ \A q \in Recs : SavedOK(stored.rec[q])' /\ Contents(stored.rec[q])' \subseteq Known'
        /\ \A l \in Keys : stored'.states[l] # NoRec => Saved(stored.rec[stored.states[l]])'
        /\ \A b \in Batches : batch'[b].files \subseteq Known'
        /\ owed' \subseteq Known'
        /\ kept' \subseteq Known'
    BY <1>1, <1>9 DEF Shapes, SavedOK, Bounded, HistoryOK, Saved, Contents, Held, Stash
  <2> QED
    BY <2>2, <2>3, <2>4 DEF Shapes
<1>11. Links'
  <2>1. NamesApart'
    BY <1>1 DEF Links, NamesApart, Live
  <2>2. /\ \A b \in Batches : IF batch'[b].phase = "idle" THEN batch'[b] = IdleBatch
                              ELSE batch'[b].rec \in Recs
        /\ \A l \in Keys : batches'[l] # NoBatch =>
              /\ l[1] = conn'
              /\ batch'[batches'[l]].phase # "idle"
              /\ \A m \in Keys : batches'[m] = batches'[l] => m = l
    BY <1>1 DEF Links
  <2>3. ASSUME NEW j \in Sends
        PROVE  IF sends'[j].phase = "idle" THEN sends'[j] = IdleSend
               ELSE /\ sends'[j].key \in Keys
                    /\ sends'[j].key[1] <= conn'
                    /\ sends'[j].rec \in Recs
                    /\ sends'[j].phase = "waiting" => sends'[j].batch \in Batches
                    /\ sends'[j].phase = "delivering" => sends'[j].payload # {}
    <3>1. CASE j = i
      BY <1>1, <1>2, <1>4, <1>5, <1>7, <3>1
    <3>2. CASE j # i
      BY <1>1, <1>7, <3>2 DEF Links
    <3> QED
      BY <3>1, <3>2
  <2>p. Apart(states)' /\ Apart(stored.states)'
    <3>1. Apart(states) /\ Apart(stored.states)
      BY DEF Links
    <3> QED
      BY <1>1, <3>1 DEF Apart
  <2> QED
    BY <2>1, <2>p, <2>2, <2>3 DEF Links
<1>12. ASSUME ~ strayed' PROVE Good'
  <2>0. Good /\ states[k] = r
    BY <1>1, <1>12
  <2>1. \A y : KeyOf(y)' = KeyOf(y) /\ (Live(y)' <=> Live(y)) /\ By(y)' = By(y)
    BY <1>1 DEF KeyOf, Live, By
  <2>2. Keyed'
    BY <1>1, <2>0, <2>1 DEF Good, Keyed
  <2>3. WordsSaved'
    BY <1>1, <2>0 DEF Good, WordsSaved, Loaded, EndRecall
  <2>4. \A q \in Recs : /\ Contents(rec'[q]) = Contents(rec[q])
                        /\ Writing(rec'[q]) = Writing(rec[q])
                        /\ rec'[q].attachments = rec[q].attachments
                        /\ rec'[q].error <=> rec[q].error
                        /\ rec'[q].uploading <=> rec[q].uploading
    BY <1>6, <1>f, <1>7
  <2>5. Record(k) = rec[r] /\ r # NoRec
    BY <1>2, <2>0, Constants DEF Record
  <2>6. ASSUME ~ outdated, NEW y \in Sessions, Live(y)
        PROVE  OwnRecord(y)' /\ OwnUploads(y)' /\ OwnPayloads(y)'
    <3>1. OwnRecord(y) /\ OwnUploads(y) /\ OwnPayloads(y)
      BY <2>0, <2>6 DEF Good, Owned
    <3>2. KeyOf(y) \in Keys /\ states[KeyOf(y)] \in Recs \cup {NoRec}
      BY <2>6, KeyFacts DEF Types
    <3>3. OwnUploads(y)'
      BY <1>1, <2>1, <3>1 DEF OwnUploads
    <3>4. OwnRecord(y)'
      <4>1. states[KeyOf(y)] # NoRec => Contents(rec'[states[KeyOf(y)]]) \subseteq By(y)
        BY <2>4, <3>1, <3>2 DEF OwnRecord
      <4> QED
        BY <1>1, <2>1, <4>1 DEF OwnRecord, Contents, Held, Stash
    <3>5. ASSUME NEW j \in Sends, sends'[j].phase = "delivering", sends'[j].rec = states[KeyOf(y)]
          PROVE  sends'[j].payload \subseteq By(y)
      <4>1. CASE j = i
        <5>1. goes /\ sends'[j].payload = pay /\ states[KeyOf(y)] = r
          BY <1>5, <1>7, <3>5, <4>1
        <5> QED
          BY <1>3, <2>5, <3>1, <5>1 DEF OwnRecord
      <4>2. CASE j # i
        BY <1>7, <3>1, <3>5, <4>2 DEF OwnPayloads
      <4> QED
        BY <4>1, <4>2
    <3>6. OwnPayloads(y)'
      BY <1>1, <2>1, <3>5 DEF OwnPayloads
    <3> QED
      BY <3>3, <3>4, <3>6
  <2>7. Owned'
    BY <1>1, <2>1, <2>6 DEF Owned
  <2>8. WordsHeld'
    <3> SUFFICES ASSUME ~ outdated, NEW w \in Safe'
                 PROVE  Live(author[w])' /\ (w \in Writing(Record(KeyOf(author[w]))))'
      BY <1>1 DEF WordsHeld
    <3>1. PICK y \in Sessions : /\ author[w] = y /\ author'[w] = y
                               /\ Live(y) /\ w \in Writing(Record(KeyOf(y)))
      BY <1>1, <2>0, Constants DEF Good, WordsHeld, Safe, Shapes, Known
    <3> DEFINE l == KeyOf(y)
    <3>2. l \in Keys /\ l' = l /\ states[l] \in Recs \cup {NoRec} /\ states'[l] = states[l]
      BY <1>1, <2>1, <3>1, KeyFacts DEF Types
    <3> HIDE DEF l
    <3>3. CASE states[l] = NoRec
      BY <3>1, <3>2, <3>3, BlankIsOK DEF Record, l
    <3>4. CASE states[l] # NoRec
      <4>1. w \in Writing(rec[states[l]])
        BY <3>1, <3>4 DEF Record, l
      <4>2. w \in Writing(rec'[states[l]])
        BY <2>4, <3>2, <3>4, <4>1
      <4>3. w \in (Writing(Record(l)))'
        BY <3>2, <3>4, <4>2 DEF Record, Writing, Stash
      <4> QED
        BY <1>1, <3>1, <4>3 DEF l, Live, KeyOf, Record, Writing, Stash
    <3> QED
      BY <3>3, <3>4
  <2>s. Sent'
    <3> SUFFICES ASSUME ~ outdated, NEW j \in Sends, NEW w \in Safe', sends'[j].phase = "delivering",
                        sends'[j].rec = (states[KeyOf(author[w])])'
                 PROVE  w \in sends'[j].payload
      BY <1>1 DEF Sent
    <3>1. PICK y \in Sessions : /\ author[w] = y /\ author'[w] = y /\ w \in Safe
                               /\ Live(y) /\ w \in Writing(Record(KeyOf(y)))
      BY <1>1, <2>0, Constants DEF Good, WordsHeld, Safe, Shapes, Known
    <3>2. (states[KeyOf(author[w])])' = states[KeyOf(y)]
      BY <1>1, <3>1 DEF KeyOf
    <3>3. CASE j = i
      <4>1. goes /\ sends'[j].payload = pay /\ states[KeyOf(y)] = r
        BY <1>5, <1>7, <3>2, <3>3
      <4>2. Record(KeyOf(y)) = Record(k)
        BY <2>0, <4>1 DEF Record
      <4>3. w \in Writing(Record(k)) /\ w \notin laid
        BY <1>1, <3>1, <4>1, <4>2 DEF Safe
      <4> QED
        BY <4>1, <4>3 DEF Writing, Payload, pay, laid
    <3>4. CASE j # i
      BY <1>7, <2>0, <3>1, <3>2, <3>4 DEF Good, Sent
    <3> QED
      BY <3>3, <3>4
  <2>t. Thrown' = Thrown
    BY <1>1 DEF Thrown
  <2>9. Registered'
    BY <1>1, <2>0, <2>1 DEF Good, Registered, Tied
  <2>10. Waits'
    <3> SUFFICES ASSUME ~ unhooked, NEW j \in Sends, sends'[j].phase = "waiting"
                 PROVE  IF sends'[j].key[1] = conn THEN Awaited(j)' ELSE states'[sends'[j].key] = NoRec
      BY <1>1 DEF Waits
    <3>1. j # i /\ sends'[j] = sends[j]
      BY <1>5, <1>7
    <3>o. sends[j].key[1] # conn => states'[sends[j].key] = NoRec
      BY <1>1, <2>0, <3>1 DEF Good, Waits
    <3> SUFFICES ASSUME sends'[j].key[1] = conn PROVE Awaited(j)'
      BY <3>o, <3>1
    <3>2. Awaited(j) /\ sends[j].rec \in Recs
      BY <2>0, <3>1 DEF Good, Waits, Links
    <3> QED
      BY <1>1, <2>4, <2>t, <3>1, <3>2 DEF Awaited
  <2>11. Carries'
    <3> SUFFICES ASSUME ~ unhooked, NEW j \in Sends, sends'[j].phase = "delivering"
                 PROVE  sends'[j].wanted \ Thrown \subseteq sends'[j].payload
      BY <1>1, <2>t DEF Carries
    <3>1. CASE j = i
      <4>1. goes /\ sends'[j].payload = pay /\ sends'[j].wanted = W
        BY <1>5, <1>7, <3>1
      <4>2. k[1] = conn
        BY <1>1, <2>0, <2>5 DEF Good, Waits, k
      <4>3. rec[r].error \/ W \ Thrown \subseteq rec[r].attachments
        BY <1>1, <2>0, <4>2 DEF Good, Waits, Awaited, k, r, W
      <4> QED
        BY <1>4, <2>5, <4>1, <4>3 DEF Payload, pay
    <3>2. CASE j # i
      BY <1>7, <2>0, <3>2 DEF Good, Carries
    <3> QED
      BY <3>1, <3>2
  <2>12. \A j \in Sends : sends[j].phase # "idle" /\ j # i => sends[j].rec \in Recs /\ sends[j].rec # r
    BY <1>1, <2>0 DEF Good, OneSend, Links, r
  <2>13. OneSend'
    <3> SUFFICES ASSUME NEW j \in Sends, sends'[j].phase # "idle"
                 PROVE  /\ rec'[sends'[j].rec].sendInFlight
                        /\ \A l \in Sends : sends'[l].phase # "idle" /\ sends'[l].rec = sends'[j].rec => j = l
      BY DEF OneSend
    <3>1. CASE j = i
      BY <1>f, <1>5, <1>7, <2>12, <3>1
    <3>2. CASE j # i
      <4>1. sends'[j] = sends[j] /\ sends[j].rec \in Recs /\ sends[j].rec # r
        BY <1>7, <2>12, <3>2
      <4>2. rec'[sends[j].rec].sendInFlight
        BY <1>7, <2>0, <4>1 DEF Good, OneSend
      <4>3. ASSUME NEW l \in Sends, sends'[l].phase # "idle", sends'[l].rec = sends[j].rec PROVE j = l
        <5>1. l # i
          BY <1>5, <1>7, <4>1, <4>3
        <5> QED
          BY <1>7, <2>0, <4>1, <4>3, <5>1 DEF Good, OneSend
      <4> QED
        BY <4>1, <4>2, <4>3
    <3> QED
      BY <3>1, <3>2
  <2>14. Flags'
    <3> SUFFICES ASSUME ~ unhooked, NEW l \in Keys, states[l] # NoRec PROVE Backed(states[l])'
      BY <1>1 DEF Flags
    <3> DEFINE q == states[l]
    <3>1. q \in Recs /\ Backed(q) /\ states'[l] = q
      BY <1>1, <2>0 DEF Good, Flags, Types
    <3> HIDE DEF q
    <3>2. rec'[q].sendInFlight => \E j \in Sends : sends'[j].rec = q
      <4>1. CASE q = r
        BY <1>f, <1>5, <1>7, <4>1
      <4>2. CASE q # r
        BY <1>7, <3>1, <4>2 DEF Backed, r
      <4> QED
        BY <4>1, <4>2
    <3> QED
      BY <1>1, <2>4, <3>1, <3>2 DEF Backed, q
  <2> QED
    BY <2>2, <2>3, <2>7, <2>8, <2>s, <2>9, <2>10, <2>11, <2>13, <2>14 DEF Good
<1> QED
  BY <1>1, <1>8, <1>10, <1>11, <1>12

\* What a delivered prompt leaves of the record it was sent from.
LEMMA DeliveredFacts ==
    ASSUME NEW s \in RecordType, RecordOK(s), NEW p \in SUBSET Pieces, p # {},
           NEW t, t = MarkDelivered(RecordSent(s, p))
    PROVE  /\ t \in RecordType /\ RecordOK(t)
           /\ Contents(t) \subseteq Contents(s) \cup p
           /\ t.sendInFlight = s.sendInFlight /\ t.uploading = FALSE
<1> DEFINE g == LastOnes(Append(Without(s.history, p), p), HistoryLimit)
           u == [s EXCEPT !.history = g]
           v == [u EXCEPT !.draft = {}, !.attachments = {}, !.error = FALSE, !.uploading = FALSE]
<1>1. t = EndRecall(v)
  BY DEF MarkDelivered, RecordSent
<1>2. g \in Seq(SUBSET Pieces) /\ HistoryOK(g) /\ ToSet(g) \subseteq ToSet(s.history) \cup {p}
  <2>1. s.history \in Seq(SUBSET Pieces) /\ HistoryOK(s.history)
    BY DEF RecordType, RecordOK, Bounded
  <2> DEFINE h == s.history
  <2>2. h \in Seq(SUBSET Pieces) /\ HistoryOK(h) /\ g = LastOnes(Append(Without(h, p), p), HistoryLimit)
    BY <2>1
  <2> HIDE DEF h, g
  <2>3. g \in Seq(SUBSET Pieces) /\ HistoryOK(g) /\ ToSet(g) \subseteq ToSet(h) \cup {p}
    BY <2>2, HistoryStep
  <2> QED
    BY <2>3 DEF h
<1> HIDE DEF g
<1>3. /\ u \in RecordType /\ u.history = g /\ u.parked = s.parked /\ u.sendInFlight = s.sendInFlight
  BY <1>2 DEF RecordType
<1> HIDE DEF u
<1>4. /\ v \in RecordType
      /\ v.draft = {} /\ v.attachments = {} /\ v.parked = s.parked /\ v.history = g
      /\ v.sendInFlight = s.sendInFlight /\ v.uploading = FALSE
  BY <1>3 DEF RecordType
<1> HIDE DEF v
<1>5. Bounded(v)
  BY <1>2, <1>4 DEF RecordOK, Bounded
<1>6. (UNION ToSet(g)) \subseteq (UNION ToSet(s.history)) \cup p
  <2> SUFFICES ASSUME NEW e \in ToSet(g), NEW d \in e PROVE d \in (UNION ToSet(s.history)) \cup p
    OBVIOUS
  <2>1. e \in ToSet(s.history) \/ e = p
    BY <1>2
  <2> QED
    BY <2>1
<1>7. /\ t \in RecordType /\ RecordOK(t)
      /\ Contents(t) = v.draft \cup v.attachments \cup v.parked \cup UNION ToSet(v.history)
      /\ t.sendInFlight = v.sendInFlight /\ t.uploading = v.uploading
  BY <1>1, <1>4, <1>5, EndRecallFacts
<1>8. Contents(t) = s.parked \cup UNION ToSet(g)
  BY <1>4, <1>7
<1>9. (UNION ToSet(s.history)) \subseteq Contents(s) /\ s.parked \subseteq Contents(s)
  BY DEF Contents
<1> QED
  BY <1>4, <1>6, <1>7, <1>8, <1>9

\* What a failed one makes of it: the whole payload is the draft.
LEMMA RestoredFacts ==
    ASSUME NEW s \in RecordType, RecordOK(s), NEW p \in SUBSET Pieces,
           NEW t, t = RestoreFailedSend(s, p)
    PROVE  /\ t \in RecordType /\ RecordOK(t)
           /\ Contents(t) \subseteq Contents(s) \cup p
           /\ Writing(t) = p
           /\ t.sendInFlight = FALSE /\ t.uploading = s.uploading
<1> DEFINE v == [s EXCEPT !.draft = p, !.attachments = {}, !.error = TRUE, !.sendInFlight = FALSE]
<1>1. t = EndRecall(v)
  BY DEF RestoreFailedSend
<1>2. /\ v \in RecordType
      /\ v.draft = p /\ v.attachments = {} /\ v.parked = s.parked /\ v.history = s.history
      /\ v.sendInFlight = FALSE /\ v.uploading = s.uploading
  BY DEF RecordType
<1> HIDE DEF v
<1>3. Bounded(v)
  BY <1>2 DEF RecordOK, Bounded
<1> QED
  BY <1>1, <1>2, <1>3, EndRecallFacts DEF Contents

\* The record is emptied or the whole payload is put back, in the record the
\* send was made from; the safe words it held were all in the payload (Sent).
LEMMA AnsweredKeeps ==
    ASSUME StoreInv, NEW i \in Sends, NEW ok \in BOOLEAN, NEW close \in BOOLEAN, Answered(i, ok, close)
    PROVE  StoreInv'
<1> USE DEF StoreInv
<1> DEFINE k == sends[i].key
           r == sends[i].rec
           p == sends[i].payload
           a == RecAt(k)
           cleared == [rec EXCEPT ![r].sendInFlight = FALSE]
           s == IF states[k] = NoRec THEN Blank ELSE cleared[states[k]]
           t == IF ok THEN MarkDelivered(RecordSent(s, p)) ELSE RestoreFailedSend(s, p)
           opened == IF layout.mode = "hidden" THEN SetMode(layout, layout.lastOpenMode) ELSE layout
<1>1. /\ sends[i].phase = "delivering"
      /\ states[k] # NoRec \/ ~ (Recs \subseteq Referenced)
      /\ states' = [states EXCEPT ![k] = a]
      /\ rec' = [cleared EXCEPT ![a] = t]
      /\ layout' = IF ~ ok THEN layout ELSE IF close THEN SetMode(opened, "hidden") ELSE opened
      /\ owed' = IF ok THEN owed \ p ELSE owed
      /\ strayed' = (strayed \/ states[k] # r)
      /\ sends' = [sends EXCEPT ![i] = IdleSend]
      /\ dirty' = TRUE
      /\ UNCHANGED <<name, conn, batches, batch, stored, author, kept, risked, unhooked, outdated, calls,
                     faults>>
  BY DEF Answered
<1>2. /\ k \in Keys /\ k[1] <= conn /\ r \in Recs /\ p \in SUBSET Pieces /\ p # {} /\ p \subseteq Known
      /\ sends \in [Sends -> SendType] /\ rec \in [Recs -> RecordType]
      /\ states \in [Keys -> Recs \cup {NoRec}]
  BY <1>1 DEF Links, Types, SendType, Shapes
<1>3. layout' \in LayoutType
  <2>1. layout \in LayoutType
    BY DEF Types
  <2>2. opened \in LayoutType
    BY <2>1 DEF SetMode, LayoutType, Modes
  <2> HIDE DEF opened
  <2> QED
    BY <1>1, <2>1, <2>2 DEF SetMode, LayoutType, Modes
<1>4. a \in Recs
  <2>1. CASE states[k] = NoRec
    BY <1>1, <2>1 DEF RecAt, FreshRec, First
  <2>2. CASE states[k] # NoRec
    BY <1>2, <2>2 DEF RecAt
  <2> QED
    BY <2>1, <2>2
<1>b. a = IF states[k] = NoRec THEN FreshRec ELSE states[k]
  BY DEF RecAt
<1> HIDE DEF k, r, p, a, opened
<1>5. /\ cleared \in [Recs -> RecordType]
      /\ \A q \in Recs : q # r => cleared[q] = rec[q]
      /\ cleared[r] = [rec[r] EXCEPT !.sendInFlight = FALSE]
      /\ cleared[r].sendInFlight = FALSE
      /\ cleared[r].uploading = rec[r].uploading
      /\ \A q \in Recs : /\ RecordOK(cleared[q])
                         /\ Contents(cleared[q]) = Contents(rec[q])
                         /\ Writing(cleared[q]) = Writing(rec[q])
  <2>1. rec[r] \in RecordType /\ \A q \in Recs : RecordOK(rec[q])
    BY <1>2 DEF Shapes
  <2>2. cleared[r] = [rec[r] EXCEPT !.sendInFlight = FALSE] /\ \A q \in Recs : q # r => cleared[q] = rec[q]
    BY <1>2
  <2> DEFINE e == cleared[r]
             d == rec[r]
             flag == FALSE
  <2>3. e = [d EXCEPT !.sendInFlight = flag]
    BY <2>2
  <2>e. cleared = [rec EXCEPT ![r] = e]
    BY <1>2, <2>2
  <2>f. flag \in BOOLEAN /\ ~ flag
    OBVIOUS
  <2>d. d \in RecordType /\ RecordOK(d)
    BY <1>2, <2>1
  <2> HIDE DEF e, d, flag, cleared
  <2>4. /\ e \in RecordType /\ e.sendInFlight = flag /\ e.uploading = d.uploading
        /\ RecordOK(e) /\ Contents(e) = Contents(d) /\ Writing(e) = Writing(d)
    BY <2>3, <2>f, <2>d, InFlightFacts
  <2>5. cleared \in [Recs -> RecordType]
    BY <1>2, <2>e, <2>4
  <2>6. e = cleared[r]
    BY DEF e
  <2>7. /\ e \in RecordType /\ e.sendInFlight = FALSE /\ e.uploading = rec[r].uploading
        /\ RecordOK(e) /\ Contents(e) = Contents(rec[r]) /\ Writing(e) = Writing(rec[r])
    BY <2>4 DEF d, flag
  <2> QED
    BY <2>1, <2>2, <2>5, <2>6, <2>7
<1> HIDE DEF cleared
<1>6. /\ s \in RecordType /\ RecordOK(s) /\ Contents(s) \subseteq Known
  <2>1. CASE states[k] = NoRec
    BY <2>1, BlankIsOK
  <2>2. CASE states[k] # NoRec
    BY <1>2, <1>5, <2>2 DEF Shapes
  <2> QED
    BY <2>1, <2>2
<1>d. states[k] # NoRec => s = cleared[states[k]]
  OBVIOUS
<1> HIDE DEF s
<1>7. /\ t \in RecordType /\ RecordOK(t)
      /\ Contents(t) \subseteq Contents(s) \cup p
      /\ ok => t.sendInFlight = s.sendInFlight /\ t.uploading = FALSE
      /\ ~ ok => t.sendInFlight = FALSE /\ t.uploading = s.uploading /\ Writing(t) = p
  <2>1. CASE ok
    <3>1. t = MarkDelivered(RecordSent(s, p))
      BY <2>1
    <3> HIDE DEF t
    <3> QED
      BY <1>2, <1>6, <2>1, <3>1, DeliveredFacts
  <2>2. CASE ~ ok
    <3>1. t = RestoreFailedSend(s, p)
      BY <2>2
    <3> HIDE DEF t
    <3>2. /\ t \in RecordType /\ RecordOK(t)
          /\ Contents(t) \subseteq Contents(s) \cup p
          /\ Writing(t) = p
          /\ t.sendInFlight = FALSE /\ t.uploading = s.uploading
      <4>1. s \in RecordType /\ RecordOK(s) /\ p \in SUBSET Pieces
        BY <1>2, <1>6
      <4>2. \A d \in RecordType, q \in SUBSET Pieces : RecordOK(d) =>
              /\ RestoreFailedSend(d, q) \in RecordType /\ RecordOK(RestoreFailedSend(d, q))
              /\ Contents(RestoreFailedSend(d, q)) \subseteq Contents(d) \cup q
              /\ Writing(RestoreFailedSend(d, q)) = q
              /\ RestoreFailedSend(d, q).sendInFlight = FALSE
              /\ RestoreFailedSend(d, q).uploading = d.uploading
        BY RestoredFacts
      <4> QED
        BY <3>1, <4>1, <4>2, Zenon
    <3> QED
      BY <2>2, <3>2
  <2> QED
    BY <2>1, <2>2
<1> HIDE DEF t
<1>8. /\ rec' \in [Recs -> RecordType]
      /\ rec'[a] = t /\ \A q \in Recs : q # a => rec'[q] = cleared[q]
      /\ sends'[i] = IdleSend /\ \A j \in Sends : j # i => sends'[j] = sends[j]
      /\ IdleSend.phase = "idle" /\ IdleSend.payload = {}
  BY <1>1, <1>2, <1>4, <1>5, <1>7 DEF IdleSend
<1>9. Types'
  <2>1. IdleSend \in SendType
    BY DEF IdleSend, SendType
  <2>2. sends' \in [Sends -> SendType] /\ states' \in [Keys -> Recs \cup {NoRec}]
    BY <1>1, <1>2, <1>4, <2>1
  <2>3. strayed' \in BOOLEAN /\ owed' \subseteq Words /\ dirty' \in BOOLEAN
    BY <1>1 DEF Types
  <2> QED
    BY <1>1, <1>3, <1>8, <2>2, <2>3 DEF Types
<1>10. Known' = Known
  BY <1>1 DEF Known
<1>11. Shapes'
  <2>1. ASSUME NEW q \in Recs PROVE RecordOK(rec'[q]) /\ Contents(rec'[q]) \subseteq Known
    <3>1. CASE q = a
      BY <1>2, <1>6, <1>7, <1>8, <3>1
    <3>2. CASE q # a
      BY <1>5, <1>8, <3>2 DEF Shapes
    <3> QED
      BY <3>1, <3>2
  <2>2. \A q \in Recs : RecordOK(rec[q])' /\ Contents(rec[q])' \subseteq Known'
    BY <1>10, <2>1 DEF RecordOK, Bounded, HistoryOK, Contents, Held, Stash
  <2>3. \A j \in Sends : sends'[j].payload \subseteq Known'
    BY <1>8, <1>10 DEF Shapes
  <2>4. /\ \A q \in Recs : SavedOK(stored.rec[q])' /\ Contents(stored.rec[q])' \subseteq Known'
        /\ \A l \in Keys : stored'.states[l] # NoRec => Saved(stored.rec[stored.states[l]])'
        /\ \A b \in Batches : batch'[b].files \subseteq Known'
        /\ owed' \subseteq Known'
        /\ kept' \subseteq Known'
    BY <1>1, <1>10 DEF Shapes, SavedOK, Bounded, HistoryOK, Saved, Contents, Held, Stash
  <2> QED
    BY <2>2, <2>3, <2>4 DEF Shapes
<1>12. Links'
  <2>1. NamesApart'
    BY <1>1 DEF Links, NamesApart, Live
  <2>2. /\ \A b \in Batches : IF batch'[b].phase = "idle" THEN batch'[b] = IdleBatch
                              ELSE batch'[b].rec \in Recs
        /\ \A l \in Keys : batches'[l] # NoBatch =>
              /\ l[1] = conn'
              /\ batch'[batches'[l]].phase # "idle"
              /\ \A m \in Keys : batches'[m] = batches'[l] => m = l
    BY <1>1 DEF Links
  <2>3. ASSUME NEW j \in Sends
        PROVE  IF sends'[j].phase = "idle" THEN sends'[j] = IdleSend
               ELSE /\ sends'[j].key \in Keys
                    /\ sends'[j].key[1] <= conn'
                    /\ sends'[j].rec \in Recs
                    /\ sends'[j].phase = "waiting" => sends'[j].batch \in Batches
                    /\ sends'[j].phase = "delivering" => sends'[j].payload # {}
    BY <1>1, <1>8 DEF Links
  <2>p. Apart(stored.states)'
    <3>1. Apart(stored.states)
      BY DEF Links
    <3> QED
      BY <1>1, <3>1 DEF Apart
  <2>q. Apart(states)'
    <3>1. Apart(states)
      BY DEF Links
    <3>2. CASE states[k] # NoRec
      BY <1>1, <1>2, <1>b, <3>1, <3>2 DEF Apart
    <3>3. CASE states[k] = NoRec
      <4>1. \A l \in Keys : states[l] # a
        BY <1>1, <1>b, <3>3 DEF FreshRec, First, Referenced
      <4> QED
        BY <1>1, <1>2, <3>1, <4>1 DEF Apart
    <3> QED
      BY <3>2, <3>3
  <2> QED
    BY <2>1, <2>p, <2>q, <2>2, <2>3 DEF Links
<1>13. ASSUME ~ strayed' PROVE Good'
  <2>0. Good /\ states[k] = r /\ a = r /\ r # NoRec /\ Record(k) = rec[r] /\ states' = states
    BY <1>1, <1>2, <1>13, <1>b, Constants DEF Record
  <2>2. /\ s = cleared[r] /\ Contents(s) = Contents(rec[r]) /\ Writing(s) = Writing(rec[r])
        /\ s.sendInFlight = FALSE /\ s.uploading = rec[r].uploading
    BY <1>2, <1>5, <1>d, <2>0
  <2>3. rec'[r] = t /\ \A q \in Recs : q # r => rec'[q] = rec[q]
    BY <1>5, <1>8, <2>0
  <2>7. ASSUME ~ outdated
        PROVE  Keyed' /\ WordsHeld' /\ \A y \in Sessions : Live(y) => OwnRecord(y)'
    <3>1. PICK x \in Sessions : Live(x) /\ k = KeyOf(x)
      BY <1>2, <2>0, <2>7 DEF Good, Keyed
    <3>2. WritesRecord(KeyOf(x), r, t)
      <4>1. states' = [states EXCEPT ![k] = r]
        BY <1>1, <2>0
      <4>2. rec' \in [Recs -> RecordType] /\ [rec EXCEPT ![r] = t] \in [Recs -> RecordType]
        BY <1>2, <1>7, <1>8
      <4>3. \A q \in Recs : rec'[q] = [rec EXCEPT ![r] = t][q]
        BY <1>2, <2>3
      <4>4. rec' = [rec EXCEPT ![r] = t]
        BY <4>2, <4>3
      <4> QED
        BY <2>0, <3>1, <4>1, <4>4 DEF WritesRecord
    <3>3. p \subseteq By(x) /\ Contents(rec[r]) \subseteq By(x)
      <4>1. OwnPayloads(x) /\ OwnRecord(x)
        BY <2>0, <2>7, <3>1 DEF Good, Owned
      <4>2. p \subseteq By(x)
        BY <1>1, <2>0, <3>1, <4>1 DEF OwnPayloads, k, r, p
      <4> QED
        BY <2>0, <3>1, <4>1, <4>2 DEF OwnRecord
    <3>4. Contents(t) \subseteq Contents(Record(KeyOf(x))) \cup {q \in Pieces : author'[q] = x}
      BY <1>1, <1>2, <1>7, <2>0, <2>2, <3>1, <3>3 DEF By
    <3>5. ASSUME NEW w \in Safe' PROVE w \in Safe /\ (w \in Writing(rec[r]) => w \in Writing(t))
      <4>1. w \in Safe /\ (ok => w \notin p)
        BY <1>1 DEF Safe
      <4>2. ASSUME w \in Writing(rec[r]) PROVE w \in p
        <5>1. author[w] = x
          BY <3>3, <4>2 DEF Writing, Contents, Held, By
        <5> QED
          BY <1>1, <2>0, <2>7, <3>1, <4>1, <5>1 DEF Good, Sent, k, r, p
      <4> QED
        BY <1>7, <4>1, <4>2
    <3>6. AuthorsKept /\ Becomes(x, t)
      <4>1. AuthorsKept /\ owed' \subseteq owed
        BY <1>1 DEF AuthorsKept
      <4> QED
        BY <2>0, <3>1, <3>4, <3>5, <4>1 DEF Becomes
    <3> QED
      BY <1>1, <1>2, <1>7, <1>9, <2>0, <2>7, <3>1, <3>2, <3>6, WriteKeepsRecords
  <2>8. \A y : KeyOf(y)' = KeyOf(y) /\ (Live(y)' <=> Live(y)) /\ By(y)' = By(y)
    BY <1>1 DEF KeyOf, Live, By
  <2>9. ASSUME ~ outdated, NEW y \in Sessions, Live(y) PROVE OwnUploads(y)' /\ OwnPayloads(y)'
    <3>1. OwnUploads(y) /\ OwnPayloads(y)
      BY <2>0, <2>9 DEF Good, Owned
    <3> QED
      BY <1>1, <1>8, <2>0, <2>8, <3>1 DEF OwnUploads, OwnPayloads
  <2>10. Owned' /\ Keyed' /\ WordsHeld'
    BY <1>1, <2>7, <2>8, <2>9 DEF Owned, Keyed, WordsHeld
  <2>11. WordsSaved'
    BY <1>1, <2>0 DEF Good, WordsSaved, Loaded, EndRecall
  <2>s. Sent'
    <3>1. \A w \in Safe' : w \in Safe /\ (states[KeyOf(author[w])])' = states[KeyOf(author[w])]
      BY <1>1, <2>0 DEF Safe, KeyOf
    <3> QED
      BY <1>1, <1>8, <2>0, <3>1 DEF Good, Sent
  <2>t. Thrown' = Thrown
    BY <1>1 DEF Thrown
  <2>12. Registered'
    BY <1>1, <2>0, <2>8 DEF Good, Registered, Tied
  <2>13. \A j \in Sends : sends[j].phase # "idle" /\ j # i => sends[j].rec \in Recs /\ sends[j].rec # r
    BY <1>1, <2>0 DEF Good, OneSend, Links, r
  <2>14. Waits'
    <3> SUFFICES ASSUME ~ unhooked, NEW j \in Sends, sends'[j].phase = "waiting"
                 PROVE  IF sends'[j].key[1] = conn THEN Awaited(j)' ELSE states'[sends'[j].key] = NoRec
      BY <1>1 DEF Waits
    <3>1. j # i /\ sends'[j] = sends[j] /\ rec'[sends[j].rec] = rec[sends[j].rec]
      BY <1>8, <2>3, <2>13
    <3>2. IF sends[j].key[1] = conn THEN Awaited(j) ELSE states[sends[j].key] = NoRec
      BY <2>0, <3>1 DEF Good, Waits
    <3> QED
      BY <1>1, <2>0, <2>t, <3>1, <3>2 DEF Awaited
  <2>15. Carries'
    BY <1>1, <1>8, <2>0, <2>t DEF Good, Carries
  <2>16. OneSend'
    <3> SUFFICES ASSUME NEW j \in Sends, sends'[j].phase # "idle"
                 PROVE  /\ rec'[sends'[j].rec].sendInFlight
                        /\ \A l \in Sends : sends'[l].phase # "idle" /\ sends'[l].rec = sends'[j].rec => j = l
      BY DEF OneSend
    <3>1. j # i /\ sends'[j] = sends[j] /\ rec'[sends[j].rec] = rec[sends[j].rec]
      BY <1>8, <2>3, <2>13
    <3> QED
      BY <1>8, <2>0, <3>1 DEF Good, OneSend
  <2>17. Flags'
    <3> SUFFICES ASSUME ~ unhooked, NEW l \in Keys, states[l] # NoRec PROVE Backed(states[l])'
      BY <1>1, <2>0 DEF Flags
    <3> DEFINE q == states[l]
    <3>1. q \in Recs /\ Backed(q) /\ states'[l] = q
      BY <2>0 DEF Good, Flags, Types
    <3> HIDE DEF q
    <3>2. CASE q = r
      <4>1. t.sendInFlight = FALSE
        BY <1>7, <2>2
      <4>2. t.uploading => rec[r].uploading
        BY <1>7, <2>2
      <4> QED
        BY <1>1, <2>3, <3>1, <3>2, <4>1, <4>2 DEF Backed, q
    <3>3. CASE q # r
      <4>1. rec'[q] = rec[q]
        BY <2>3, <3>1, <3>3
      <4>2. rec[q].sendInFlight => \E j \in Sends : sends'[j].rec = q
        BY <1>8, <3>1, <3>3 DEF Backed, r
      <4> QED
        BY <1>1, <3>1, <4>1, <4>2 DEF Backed, q
    <3> QED
      BY <3>2, <3>3
  <2> QED
    BY <2>10, <2>11, <2>s, <2>12, <2>14, <2>15, <2>16, <2>17 DEF Good
<1> QED
  BY <1>1, <1>9, <1>11, <1>12, <1>13

-----------------------------------------------------------------------------
(* The save and the restart.                                               *)

\* A record as it is saved.
Persisted(d) == [d EXCEPT !.error = FALSE, !.recallIndex = 0, !.sendInFlight = FALSE,
                          !.uploading = FALSE]

\* Saving a record keeps all it holds and drops its flags; the words set aside
\* by a browse are those a restart will load.
LEMMA PersistedFacts ==
    ASSUME NEW d \in RecordType, RecordOK(d)
    PROVE  /\ Persisted(d) \in RecordType /\ SavedOK(Persisted(d))
           /\ Contents(Persisted(d)) = Contents(d)
           /\ Saved(Persisted(d)) <=> Saved(d)
           /\ Loaded(Persisted(d)).draft = Writing(d)
           /\ Writing(d) # {} => Saved(d)
<1> DEFINE s == Persisted(d)
<1>1. /\ s \in RecordType
      /\ s.draft = d.draft /\ s.attachments = d.attachments /\ s.parked = d.parked
      /\ s.history = d.history /\ s.recallSaved = d.recallSaved /\ s.recallIndex = 0
      /\ s.sendInFlight = FALSE /\ s.uploading = FALSE
  BY DEF Persisted, RecordType
<1> HIDE DEF s
<1>2. SavedOK(s)
  BY <1>1 DEF SavedOK, RecordOK, Bounded
<1>3. Contents(s) = Contents(d) /\ (Saved(s) <=> Saved(d))
  BY <1>1 DEF Contents, Held, Stash, Saved
<1>4. Loaded(s).draft = Writing(d)
  <2> DEFINE back == IF s.recallSaved = NoText THEN s.draft ELSE s.recallSaved
             u == [s EXCEPT !.draft = back]
  <2>1. back = Writing(d)
    BY <1>1 DEF Writing, Stash, RecordOK
  <2> HIDE DEF back
  <2>2. u.draft = back
    BY <1>1 DEF RecordType
  <2>4. EndRecall(u).draft = u.draft
    BY <1>1 DEF RecordType, EndRecall
  <2>5. Loaded(s) = EndRecall(u)
    BY DEF Loaded, back
  <2> QED
    BY <2>1, <2>2, <2>4, <2>5
<1>5. ASSUME Writing(d) # {} PROVE Saved(d)
  <2>1. CASE d.recallIndex = 0
    BY <1>5, <2>1 DEF Writing, Saved
  <2>2. CASE d.recallIndex # 0
    <3>1. d.recallIndex \in Nat /\ d.recallIndex <= Len(d.history) /\ Len(d.history) \in Nat
      BY DEF RecordType, RecordOK
    <3>2. Len(<<>>) = 0
      OBVIOUS
    <3>3. d.history # <<>>
      BY <2>2, <3>1, <3>2
    <3> QED
      BY <3>3 DEF Saved
  <2> QED
    BY <2>1, <2>2
<1> QED
  BY <1>1, <1>2, <1>3, <1>4, <1>5 DEF s

\* A record as it is loaded: nothing that was not saved, no flag, no browse.
LEMMA LoadedFacts ==
    ASSUME NEW d \in RecordType, SavedOK(d)
    PROVE  /\ Loaded(d) \in RecordType /\ RecordOK(Loaded(d))
           /\ Contents(Loaded(d)) \subseteq Contents(d)
           /\ Loaded(d).draft \subseteq Contents(d)
           /\ Writing(Loaded(d)) = Loaded(d).draft
           /\ Loaded(d).sendInFlight = FALSE /\ Loaded(d).uploading = FALSE
<1> DEFINE back == IF d.recallSaved = NoText THEN d.draft ELSE d.recallSaved
           u == [d EXCEPT !.draft = back]
           t == Loaded(d)
<1>1. back \in SUBSET Pieces /\ back \subseteq Held(d)
  BY DEF RecordType, Held, Stash
<1>2. t = EndRecall(u)
  BY DEF Loaded
<1> HIDE DEF back
<1>3. /\ u \in RecordType
      /\ u.draft = back /\ u.attachments = d.attachments /\ u.parked = d.parked
      /\ u.history = d.history /\ u.sendInFlight = d.sendInFlight /\ u.uploading = d.uploading
  BY <1>1 DEF RecordType
<1>4. Bounded(u) /\ d.sendInFlight = FALSE /\ d.uploading = FALSE
  BY <1>3 DEF SavedOK, Bounded, RecordType
<1> HIDE DEF u, t
<1>5. /\ t \in RecordType /\ RecordOK(t)
      /\ Writing(t) = u.draft
      /\ Contents(t) = u.draft \cup u.attachments \cup u.parked \cup UNION ToSet(u.history)
      /\ t.sendInFlight = u.sendInFlight /\ t.uploading = u.uploading
  BY <1>2, <1>3, <1>4, EndRecallFacts
<1>6. t.draft = u.draft
  BY <1>2, <1>3 DEF EndRecall, RecordType
<1>7. /\ t.draft \subseteq Contents(d)
      /\ Contents(t) \subseteq Contents(d)
  BY <1>1, <1>3, <1>5, <1>6 DEF Contents
<1> QED
  BY <1>3, <1>4, <1>5, <1>6, <1>7 DEF t

\* What is saved has something in it.
LEMMA SavedHolds ==
    ASSUME NEW d \in RecordType, Bounded(d), Saved(d)
    PROVE  Contents(d) # {}
<1>1. CASE d.history # <<>>
  <2> DEFINE h == d.history
  <2>1. h \in Seq(SUBSET Pieces) /\ h # <<>> /\ {} \notin ToSet(h)
    BY <1>1 DEF RecordType, Bounded, HistoryOK
  <2>2. 1 \in 1 .. Len(h)
    BY <2>1
  <2> HIDE DEF h
  <2>3. h[1] \in ToSet(h) /\ h[1] # {}
    BY <2>1, <2>2, Positions
  <2>4. PICK p : p \in h[1]
    BY <2>3
  <2>5. p \in UNION ToSet(h)
    BY <2>3, <2>4
  <2> QED
    BY <2>5 DEF Contents, h
<1>2. CASE d.history = <<>>
  BY <1>2 DEF Saved, Contents, Held
<1> QED
  BY <1>1, <1>2

\* What is owed when the store is saved is in what is saved.
LEMMA PersistNowKeeps ==
    ASSUME StoreInv, PersistNow
    PROVE  StoreInv'
<1> USE DEF StoreInv
<1> DEFINE saves(k) == states[k] # NoRec /\ Saved(rec[states[k]])
           isSaved(r) == \E k \in Keys : saves(k) /\ states[k] = r
<1>1. /\ stored'.states = [k \in Keys |-> IF saves(k) THEN states[k] ELSE NoRec]
      /\ stored'.rec = [r \in Recs |-> IF isSaved(r) THEN Persisted(rec[r]) ELSE Blank]
      /\ stored'.mode = layout.mode /\ stored'.lastOpenMode = layout.lastOpenMode
      /\ stored' = [states |-> stored'.states, rec |-> stored'.rec, mode |-> stored'.mode,
                    lastOpenMode |-> stored'.lastOpenMode]
      /\ dirty' = FALSE /\ kept' = owed
      /\ UNCHANGED <<name, conn, states, rec, batches, batch, sends, layout, author, owed, risked,
                     strayed, unhooked, outdated, calls, faults>>
  <2> DEFINE saved == {k \in Keys : states[k] # NoRec /\ Saved(rec[states[k]])}
             st == [k \in Keys |-> IF k \in saved THEN states[k] ELSE NoRec]
             rc == [r \in Recs |-> IF \E k \in saved : states[k] = r
                                   THEN [rec[r] EXCEPT !.error = FALSE, !.recallIndex = 0,
                                           !.sendInFlight = FALSE, !.uploading = FALSE]
                                   ELSE Blank]
  <2>1. /\ stored' = [states |-> st, rec |-> rc, mode |-> layout.mode,
                      lastOpenMode |-> layout.lastOpenMode]
        /\ dirty' = FALSE /\ kept' = owed
        /\ UNCHANGED <<name, conn, states, rec, batches, batch, sends, layout, author, owed, risked,
                       strayed, unhooked, outdated, calls, faults>>
    BY DEF PersistNow
  <2>2. st = [k \in Keys |-> IF saves(k) THEN states[k] ELSE NoRec]
    OBVIOUS
  <2>3. \A r : (\E k \in saved : states[k] = r) <=> isSaved(r)
    OBVIOUS
  <2>4. rc = [r \in Recs |-> IF isSaved(r) THEN Persisted(rec[r]) ELSE Blank]
    <3> HIDE DEF isSaved
    <3> QED
      BY <2>3 DEF Persisted
  <2> HIDE DEF saves, isSaved, st, rc
  <2> QED
    BY <2>1, <2>2, <2>4
<1>2. /\ states \in [Keys -> Recs \cup {NoRec}] /\ rec \in [Recs -> RecordType] /\ NoRec \notin Recs
      /\ \A r \in Recs : RecordOK(rec[r]) /\ Contents(rec[r]) \subseteq Known
  BY Constants DEF Types, Shapes
<1>3. \A k \in Keys : /\ saves(k) <=> states[k] # NoRec /\ Saved(rec[states[k]])
                      /\ saves(k) => states[k] \in Recs /\ isSaved(states[k])
  BY <1>2
<1> HIDE DEF saves, isSaved
<1>4. ASSUME NEW r \in Recs
      PROVE  /\ stored'.rec[r] \in RecordType /\ SavedOK(stored'.rec[r])
             /\ Contents(stored'.rec[r]) \subseteq Known
             /\ isSaved(r) => /\ Saved(stored'.rec[r]) <=> Saved(rec[r])
                              /\ Loaded(stored'.rec[r]).draft = Writing(rec[r])
  <2>1. CASE isSaved(r)
    <3>1. stored'.rec[r] = Persisted(rec[r])
      BY <1>1, <2>1
    <3> QED
      BY <1>2, <3>1, PersistedFacts
  <2>2. CASE ~ isSaved(r)
    <3>1. stored'.rec[r] = Blank
      BY <1>1, <2>2
    <3> QED
      BY <2>2, <3>1, BlankIsOK
  <2> QED
    BY <2>1, <2>2
<1>5. ASSUME NEW k \in Keys
      PROVE  /\ stored'.states[k] = IF saves(k) THEN states[k] ELSE NoRec
             /\ stored'.states[k] # NoRec => saves(k) /\ stored'.states[k] = states[k]
  BY <1>1
<1>6. Types'
  <2>1. layout \in LayoutType
    BY DEF Types
  <2>2. layout.mode \in Modes /\ layout.lastOpenMode \in Modes \ {"hidden"}
    BY <2>1 DEF LayoutType
  <2>3. stored'.states \in [Keys -> Recs \cup {NoRec}]
    BY <1>1, <1>2
  <2>4. stored'.rec \in [Recs -> RecordType]
    BY <1>1, <1>4
  <2>5. stored' \in StoredType
    BY <1>1, <2>2, <2>3, <2>4 DEF StoredType
  <2> QED
    BY <1>1, <2>5 DEF Types
<1>7. Known' = Known
  BY <1>1 DEF Known
<1>8. Shapes'
  <2>1. \A r \in Recs : SavedOK(stored.rec[r])' /\ Contents(stored.rec[r])' \subseteq Known'
    BY <1>4, <1>7 DEF SavedOK, Bounded, HistoryOK, Contents, Held, Stash
  <2>2. ASSUME NEW k \in Keys, stored'.states[k] # NoRec PROVE Saved(stored'.rec[stored'.states[k]])
    BY <1>3, <1>4, <1>5, <2>2
  <2>3. \A k \in Keys : stored'.states[k] # NoRec => Saved(stored.rec[stored.states[k]])'
    BY <2>2 DEF Saved
  <2>4. /\ \A r \in Recs : RecordOK(rec[r])' /\ Contents(rec[r])' \subseteq Known'
        /\ \A b \in Batches : batch'[b].files \subseteq Known'
        /\ \A i \in Sends : sends'[i].payload \subseteq Known'
        /\ owed' \subseteq Known'
        /\ kept' \subseteq Known'
    BY <1>1, <1>7 DEF Shapes, RecordOK, Bounded, HistoryOK, Contents, Held, Stash
  <2> QED
    BY <2>1, <2>3, <2>4 DEF Shapes
<1>9. Links'
  <2>1. NamesApart'
    BY <1>1 DEF Links, NamesApart, Live
  <2>2. Apart(states)
    BY DEF Links
  <2>3. Apart(states)'
    BY <1>1, <2>2 DEF Apart
  <2>4. Apart(stored.states)'
    <3> SUFFICES ASSUME NEW k \in Keys, NEW l \in Keys, stored'.states[k] # NoRec,
                        stored'.states[k] = stored'.states[l]
                 PROVE  k = l
      BY DEF Apart
    <3>1. states[k] # NoRec /\ states[k] = states[l]
      BY <1>5
    <3> QED
      BY <2>2, <3>1 DEF Apart
  <2> QED
    BY <1>1, <2>1, <2>3, <2>4 DEF Links
<1>10. ASSUME ~ strayed' PROVE Good'
  <2>0. Good
    BY <1>1, <1>10
  <2>1. \A y : KeyOf(y)' = KeyOf(y) /\ (Live(y)' <=> Live(y))
    BY <1>1 DEF KeyOf, Live
  <2>2. Keyed'
    BY <1>1, <2>0, <2>1 DEF Good, Keyed
  <2>3. Owned'
    BY <1>1, <2>0, <2>1 DEF Good, Owned, OwnRecord, OwnUploads, OwnPayloads, By, Contents, Held, Stash
  <2>4. WordsHeld'
    BY <1>1, <2>0 DEF Good, WordsHeld, Safe, Writing, Record, Stash, Live, KeyOf
  <2>s. Sent'
    BY <1>1, <2>0 DEF Good, Sent, Safe, KeyOf
  <2>5. Registered' /\ Waits' /\ Carries' /\ OneSend' /\ Flags'
    <3>1. Registered' /\ Carries' /\ OneSend'
      BY <1>1, <2>0, <2>1 DEF Good, Registered, Tied, Carries, OneSend, Thrown
    <3>2. Waits'
      <4>1. Thrown' = Thrown
        BY <1>1 DEF Thrown
      <4>2. \A i \in Sends : Awaited(i)' <=> Awaited(i)
        BY <1>1, <4>1 DEF Awaited
      <4> QED
        BY <1>1, <2>0, <4>2 DEF Good, Waits
    <3>3. Flags'
      BY <1>1, <2>0 DEF Good, Flags, Backed
    <3> QED
      BY <3>1, <3>2, <3>3
  <2>7. WordsSaved'
    <3> SUFFICES ASSUME ~ outdated, NEW w \in Safe
                 PROVE  \E k \in Keys : /\ stored'.states[k] # NoRec
                                        /\ w \in Loaded(stored'.rec[stored'.states[k]]).draft
      BY <1>1 DEF WordsSaved, Safe, Loaded, EndRecall
    <3>1. PICK y \in Sessions : Live(y) /\ w \in Writing(Record(KeyOf(y)))
      BY <2>0, Constants DEF Good, WordsHeld, Safe, Shapes, Known
    <3> DEFINE k == KeyOf(y)
    <3>2. k \in Keys
      BY <3>1, KeyFacts
    <3> HIDE DEF k
    <3>3. states[k] # NoRec /\ w \in Writing(rec[states[k]])
      BY <3>1, BlankIsOK DEF Record, k
    <3>4. states[k] \in Recs /\ rec[states[k]] \in RecordType /\ RecordOK(rec[states[k]])
      BY <1>2, <3>2, <3>3
    <3>5. Saved(rec[states[k]])
      BY <3>3, <3>4, PersistedFacts
    <3>6. saves(k) /\ stored'.states[k] = states[k] /\ isSaved(states[k])
      BY <1>3, <1>5, <3>2, <3>3, <3>5
    <3>7. w \in Loaded(stored'.rec[states[k]]).draft
      BY <1>4, <3>3, <3>4, <3>6
    <3> QED
      BY <3>2, <3>3, <3>6, <3>7
  <2> QED
    BY <2>2, <2>3, <2>4, <2>s, <2>5, <2>7 DEF Good
<1> QED
  BY <1>1, <1>6, <1>8, <1>9, <1>10

\* A record that was saved is loaded under the key it was saved under, which is
\* its own unless its pieces tell otherwise (outdated).
LEMMA RestartKeeps ==
    ASSUME StoreInv, Restart
    PROVE  StoreInv'
<1> USE DEF StoreInv
<1>1. /\ faults' = faults + 1
      /\ states' = stored.states
      /\ rec' = [r \in Recs |-> Loaded(stored.rec[r])]
      /\ batches' = [k \in Keys |-> NoBatch]
      /\ batch' = [b \in Batches |-> IdleBatch]
      /\ sends' = [i \in Sends |-> IdleSend]
      /\ layout' = [mode |-> stored.mode, lastOpenMode |-> stored.lastOpenMode,
                    terminalOwnsTyping |-> FALSE]
      /\ dirty' = FALSE
      /\ owed' = owed \cap kept
      /\ outdated' = (outdated \/ \E k \in Keys : \E p \in HeldFor(stored.states, stored.rec, k) :
                                   ~ (Live(author[p]) /\ KeyOf(author[p]) = k))
      /\ UNCHANGED <<name, conn, stored, author, kept, risked, strayed, unhooked, calls>>
  BY DEF Restart
<1>2. /\ stored.states \in [Keys -> Recs \cup {NoRec}] /\ stored.rec \in [Recs -> RecordType]
      /\ stored.mode \in Modes /\ stored.lastOpenMode \in Modes \ {"hidden"}
      /\ NoRec \notin Recs
  BY Constants DEF Types, StoredType
<1>3. \A r \in Recs : SavedOK(stored.rec[r]) /\ Contents(stored.rec[r]) \subseteq Known
  BY DEF Shapes
<1>4. ASSUME NEW r \in Recs
      PROVE  /\ rec'[r] = Loaded(stored.rec[r])
             /\ rec'[r] \in RecordType /\ RecordOK(rec'[r])
             /\ Contents(rec'[r]) \subseteq Contents(stored.rec[r])
             /\ rec'[r].draft \subseteq Contents(stored.rec[r])
             /\ Writing(rec'[r]) = rec'[r].draft
             /\ ~ rec'[r].sendInFlight /\ ~ rec'[r].uploading
  <2>1. rec'[r] = Loaded(stored.rec[r])
    BY <1>1
  <2>2. stored.rec[r] \in RecordType /\ SavedOK(stored.rec[r])
    BY <1>2, <1>3
  <2> QED
    BY <2>1, <2>2, LoadedFacts
<1>5. /\ \A b \in Batches : batch'[b] = IdleBatch
      /\ \A i \in Sends : sends'[i] = IdleSend
      /\ \A k \in Keys : batches'[k] = NoBatch
      /\ IdleBatch.phase = "idle" /\ IdleBatch.files = {}
      /\ IdleSend.phase = "idle" /\ IdleSend.payload = {}
  BY <1>1 DEF IdleBatch, IdleSend
<1>6. Types'
  <2>1. IdleBatch \in BatchType /\ IdleSend \in SendType
    BY DEF IdleBatch, BatchType, IdleSend, SendType
  <2>2. batch' \in [Batches -> BatchType] /\ sends' \in [Sends -> SendType]
        /\ batches' \in [Keys -> Batches \cup {NoBatch}]
    BY <1>1, <2>1
  <2>3. layout' \in LayoutType
    BY <1>1, <1>2 DEF LayoutType
  <2>4. rec' \in [Recs -> RecordType]
    BY <1>1, <1>4
  <2>o. owed \subseteq Words /\ faults \in Nat
    BY DEF Types
  <2>e. owed' = owed \cap kept /\ faults' = faults + 1 /\ dirty' = FALSE
    BY <1>1
  <2>5. owed' \subseteq Words /\ faults' \in Nat /\ dirty' \in BOOLEAN
    <3>1. owed' \subseteq Words
      BY <2>o, <2>e
    <3>2. faults' \in Nat
      BY <2>o, <2>e
    <3>3. dirty' \in BOOLEAN
      BY <2>e
    <3> QED
      BY <3>1, <3>2, <3>3
  <2>6. outdated' \in BOOLEAN
    BY <1>1, Zenon
  <2> QED
    BY <1>1, <1>2, <2>2, <2>3, <2>4, <2>5, <2>6 DEF Types
<1>7. Known' = Known
  BY <1>1 DEF Known
<1>8. Shapes'
  <2>1. \A r \in Recs : RecordOK(rec'[r]) /\ Contents(rec'[r]) \subseteq Known
    BY <1>3, <1>4
  <2>2. \A r \in Recs : RecordOK(rec[r])' /\ Contents(rec[r])' \subseteq Known'
    BY <1>7, <2>1 DEF RecordOK, Bounded, HistoryOK, Contents, Held, Stash
  <2>3. /\ \A r \in Recs : SavedOK(stored.rec[r])' /\ Contents(stored.rec[r])' \subseteq Known'
        /\ \A k \in Keys : stored'.states[k] # NoRec => Saved(stored.rec[stored.states[k]])'
    BY <1>1, <1>7 DEF Shapes, SavedOK, Bounded, HistoryOK, Saved, Contents, Held, Stash
  <2>4. /\ \A b \in Batches : batch'[b].files \subseteq Known'
        /\ \A i \in Sends : sends'[i].payload \subseteq Known'
    BY <1>5
  <2>5. owed' \subseteq Known' /\ kept' \subseteq Known'
    BY <1>1, <1>7 DEF Shapes
  <2> QED
    BY <2>2, <2>3, <2>4, <2>5 DEF Shapes
<1>9. Links'
  <2>1. NamesApart'
    BY <1>1 DEF Links, NamesApart, Live
  <2>2. Apart(stored.states)
    BY DEF Links
  <2>3. Apart(states)' /\ Apart(stored.states)'
    BY <1>1, <2>2 DEF Apart
  <2> QED
    BY <1>5, <2>1, <2>3 DEF Links
<1>10. ASSUME ~ strayed' PROVE Good'
  <2>0. Good
    BY <1>1, <1>10
  <2>1. \A y : KeyOf(y)' = KeyOf(y) /\ (Live(y)' <=> Live(y)) /\ By(y)' = By(y)
    BY <1>1 DEF KeyOf, Live, By
  <2>2. ASSUME ~ outdated', NEW k \in Keys, stored.states[k] # NoRec
        PROVE  /\ stored.states[k] \in Recs
               /\ \A p \in Contents(stored.rec[stored.states[k]]) :
                     author[p] \in Sessions /\ Live(author[p]) /\ KeyOf(author[p]) = k
    <3>1. stored.states[k] \in Recs
      BY <1>2, <2>2
    <3>2. ASSUME NEW p \in Contents(stored.rec[stored.states[k]])
          PROVE  author[p] \in Sessions /\ Live(author[p]) /\ KeyOf(author[p]) = k
      <4>1. p \in HeldFor(stored.states, stored.rec, k)
        BY <2>2, <3>2 DEF HeldFor
      <4>2. p \in Known
        BY <1>3, <3>1, <3>2
      <4> QED
        BY <1>1, <2>2, <4>1, <4>2 DEF Known
    <3> QED
      BY <3>1, <3>2
  <2>3. Keyed'
    <3> SUFFICES ASSUME ~ outdated', NEW k \in Keys, stored.states[k] # NoRec
                 PROVE  \E x \in Sessions : Live(x)' /\ k = KeyOf(x)'
      BY <1>1 DEF Keyed
    <3>1. stored.states[k] \in Recs /\ Saved(stored.rec[stored.states[k]])
      BY <2>2 DEF Shapes
    <3>2. PICK p : p \in Contents(stored.rec[stored.states[k]])
      <4> DEFINE d == stored.rec[stored.states[k]]
      <4>1. d \in RecordType /\ Bounded(d) /\ Saved(d)
        BY <1>2, <1>3, <3>1 DEF SavedOK
      <4> HIDE DEF d
      <4>2. Contents(d) # {}
        BY <4>1, SavedHolds
      <4> QED
        BY <4>2 DEF d
    <3>3. author[p] \in Sessions /\ Live(author[p]) /\ KeyOf(author[p]) = k
      BY <2>2, <3>2
    <3> QED
      BY <2>1, <3>3
  <2>5. Owned'
    <3> SUFFICES ASSUME ~ outdated', NEW y \in Sessions, Live(y)
                 PROVE  OwnRecord(y)' /\ OwnUploads(y)' /\ OwnPayloads(y)'
      BY <2>1 DEF Owned
    <3>1. OwnUploads(y)' /\ OwnPayloads(y)'
      BY <1>5 DEF OwnUploads, OwnPayloads
    <3> DEFINE k == KeyOf(y)
    <3>2. k \in Keys
      BY KeyFacts
    <3>3. \A z \in Sessions : Live(z) /\ KeyOf(z) = k => z = y
      BY KeyFacts
    <3> HIDE DEF k
    <3>4. ASSUME stored.states[k] # NoRec PROVE Contents(rec'[stored.states[k]]) \subseteq By(y)
      <4>1. Contents(rec'[stored.states[k]]) \subseteq Contents(stored.rec[stored.states[k]])
        BY <1>4, <2>2, <3>2, <3>4
      <4>2. Contents(stored.rec[stored.states[k]]) \subseteq Known
        BY <1>3, <2>2, <3>2, <3>4
      <4>3. \A p \in Contents(stored.rec[stored.states[k]]) : p \in Pieces /\ author[p] = y
        BY <2>2, <3>2, <3>3, <3>4, <4>2 DEF Known
      <4> QED
        BY <4>1, <4>3 DEF By
    <3>5. states'[k] # NoRec => Contents(rec'[states'[k]]) \subseteq By(y)
      BY <1>1, <3>4
    <3>6. OwnRecord(y)'
      BY <2>1, <3>5 DEF OwnRecord, Contents, Held, Stash, k
    <3> QED
      BY <3>1, <3>6
  <2>6. WordsHeld'
    <3> SUFFICES ASSUME ~ outdated', NEW w \in Safe'
                 PROVE  Live(author[w])' /\ (w \in Writing(Record(KeyOf(author[w]))))'
      BY DEF WordsHeld
    <3>1. w \in kept \ risked /\ ~ outdated
      BY <1>1 DEF Safe
    <3>2. PICK k \in Keys : /\ stored.states[k] # NoRec
                            /\ w \in Loaded(stored.rec[stored.states[k]]).draft
      BY <2>0, <3>1 DEF Good, WordsSaved
    <3> DEFINE r == stored.states[k]
    <3>3. r \in Recs
      BY <2>2, <3>2
    <3>4. w \in rec'[r].draft /\ w \in Writing(rec'[r]) /\ w \in Contents(stored.rec[r])
      BY <1>4, <3>2, <3>3
    <3>5. Live(author[w]) /\ KeyOf(author[w]) = k
      BY <2>2, <3>2, <3>4
    <3>6. states'[k] = r /\ r # NoRec
      BY <1>1, <3>2
    <3> HIDE DEF r
    <3>7. w \in (Writing(Record(k)))'
      BY <3>4, <3>6 DEF Record, Writing, Stash
    <3>8. author' = author /\ Live(author[w])' /\ KeyOf(author[w])' = k
      BY <1>1, <3>5 DEF Live, KeyOf
    <3> QED
      BY <3>6, <3>7, <3>8 DEF Record, Writing, Stash
  <2>7. WordsSaved'
    BY <1>1, <2>0 DEF Good, WordsSaved, Loaded, EndRecall
  <2>8. Registered' /\ Waits' /\ Carries' /\ OneSend' /\ Sent'
    BY <1>5 DEF Registered, Waits, Carries, OneSend, Sent
  <2>9. Flags'
    <3> SUFFICES ASSUME NEW k \in Keys, states'[k] # NoRec
                 PROVE  ~ rec'[states'[k]].sendInFlight /\ ~ rec'[states'[k]].uploading
      BY DEF Flags, Backed
    <3>1. states'[k] \in Recs
      BY <1>1, <1>2
    <3> QED
      BY <1>4, <3>1
  <2> QED
    BY <2>3, <2>5, <2>6, <2>7, <2>8, <2>9 DEF Good
<1> QED
  BY <1>1, <1>6, <1>8, <1>9, <1>10

-----------------------------------------------------------------------------
(* The theorems.                                                           *)

\* Every step of the store keeps the invariant.
LEMMA StoreNextKeeps == StoreInv /\ [Next]_vars => StoreInv'
<1> SUFFICES ASSUME StoreInv, [Next]_vars PROVE StoreInv'
  OBVIOUS
<1>1. CASE \E b \in Batches : UploadLands(b) \/ UploadThrows(b)
  BY <1>1, UploadLandsKeeps, UploadThrowsKeeps
<1>2. CASE \E i \in Sends : SendResumes(i)
  BY <1>2, SendResumesKeeps
<1>3. CASE \E i \in Sends, ok, close \in BOOLEAN : Answered(i, ok, close)
  BY <1>3, AnsweredKeeps
<1>4. CASE \E x \in Sessions : Type(x) \/ Erase(x) \/ Seed(x) \/ Discard(x) \/ DismissError(x)
  BY <1>4, TypeKeeps, EraseKeeps, SeedKeeps, DiscardKeeps, DismissErrorKeeps
<1>5. CASE \E x \in Sessions : RecallOlder(x) \/ RecallNewer(x)
  BY <1>5, RecallOlderKeeps, RecallNewerKeeps
<1>6. CASE \E x \in Sessions : SeedAttachment(x) \/ RemoveAttachment(x) \/ Stage(x)
  BY <1>6, SeedAttachmentKeeps, RemoveAttachmentKeeps, StageKeeps
<1>7. CASE \E x \in Sessions, b \in BOOLEAN : Unpark(x, b) \/ Hide(x, b)
  BY <1>7, UnparkKeeps, HideKeeps
<1>8. CASE \E x \in Sessions : Send(x) \/ Kill(x)
  BY <1>8, SendKeeps, KillKeeps
<1>9. CASE \E x \in Sessions, n \in Names : Create(x, n) \/ Rename(x, n)
  BY <1>9, CreateKeeps, RenameKeeps
<1>10. CASE \E m \in {"hidden", "docked", "expanded"} : ChangeMode(m)
  BY <1>10, ChangeModeKeeps DEF Modes
<1>11. CASE Reconnect
  BY <1>11, ReconnectKeeps
<1>12. CASE PersistNow
  BY <1>12, PersistNowKeeps
<1>13. CASE Restart
  BY <1>13, RestartKeeps
<1>14. CASE UNCHANGED vars
  <2>1. UNCHANGED <<name, conn, states, rec, batches, batch, sends, layout, stored, dirty, author,
                    owed, risked, kept, strayed, unhooked, outdated, calls, faults>>
    BY <1>14 DEF vars, core, ghosts
  <2>2. layout' \in LayoutType /\ dirty' \in BOOLEAN /\ calls' \in Nat /\ faults' \in Nat
    BY <2>1 DEF StoreInv, Types
  <2> QED
    BY <2>1, <2>2, LayoutKeeps
<1> QED
  BY <1>1, <1>2, <1>3, <1>4, <1>5, <1>6, <1>7, <1>8, <1>9, <1>10, <1>11, <1>12, <1>13, <1>14 DEF Next

\* The inductive invariant holds of every state of the store.
THEOREM StoreInvariance == Spec => []StoreInv
BY InitStoreInv, StoreNextKeeps, PTL DEF Spec

\* The types and limits follow from the invariant.
LEMMA StoreTypesHold == StoreInv => TypeOK
<1> SUFFICES ASSUME StoreInv PROVE TypeOK
  OBVIOUS
<1>1. ASSUME NEW r \in Recs
      PROVE  /\ rec[r].draft \subseteq Pieces
             /\ rec[r].attachments \cup rec[r].parked \subseteq Files
             /\ Cardinality(rec[r].parked) <= ParkedLimit
             /\ Len(rec[r].history) <= HistoryLimit
             /\ IsInjective(rec[r].history)
             /\ rec[r].recallIndex <= Len(rec[r].history)
  BY DEF StoreInv, Types, Shapes, RecordType, RecordOK, Bounded, HistoryOK
<1>2. layout.mode \in Modes /\ layout.lastOpenMode \in Modes \ {"hidden"}
  BY DEF StoreInv, Types, LayoutType
<1> QED
  BY <1>1, <1>2 DEF StoreInv, Types, TypeOK, Modes

\* Every record, batch, send and saved record has its type in every state:
\* histories and parked lists within their limits, a prompt once in a
\* history, and a browse of the history inside it.
THEOREM StoreTypes == Spec => []TypeOK
BY StoreInvariance, StoreTypesHold, PTL

\* A live session's record holds pieces of that session.
LEMMA OwnTextHolds == StoreInv => OwnText
<1> SUFFICES ASSUME StoreInv, ~ strayed, ~ outdated, NEW x \in Sessions, Live(x),
                    NEW p \in HeldFor(states, rec, KeyOf(x))
             PROVE  author[p] = x
  BY DEF OwnText
<1>1. states[KeyOf(x)] # NoRec /\ p \in Contents(rec[states[KeyOf(x)]])
  BY DEF HeldFor
<1>2. OwnRecord(x)
  BY DEF StoreInv, Good, Owned
<1> QED
  BY <1>1, <1>2 DEF OwnRecord, By

\* What a session's record holds was written in that session, through renames
\* and reused names, reconnects, kills, restarts from a save that is up to date
\* and uploads that land in the record object they were staged for; until a
\* send strays or a restart is outdated.
THEOREM StoreOwnText == Spec => []OwnText
BY StoreInvariance, OwnTextHolds, PTL

\* The words owed are in the draft or set aside.
LEMMA WorkKeptHolds == StoreInv => WorkKept
<1> SUFFICES ASSUME StoreInv, ~ strayed, ~ outdated, NEW w \in owed \ risked
             PROVE  Live(author[w]) /\ w \in Held(Record(KeyOf(author[w])))
  BY DEF WorkKept
<1>1. Live(author[w]) /\ w \in Writing(Record(KeyOf(author[w])))
  BY DEF StoreInv, Good, WordsHeld, Safe
<1> QED
  BY <1>1 DEF Writing, Held

\* A word the user wrote and neither threw away nor saw delivered, and that was
\* not put at risk by a delivery or a browse under way, is in its session's
\* draft or set aside by a browse of its history, after a failed send, a rename,
\* a reconnect, and after a restart as of the last save; until a send strays or
\* a restart is outdated.
THEOREM StoreWorkKept == Spec => []WorkKept
BY StoreInvariance, WorkKeptHolds, PTL

\* A payload has all its send wanted.
LEMMA CarriesHold == StoreInv => SendCarriesUploads
BY DEF StoreInv, Good, Carries, SendCarriesUploads

\* A send that waited for the uploads on their way carries every file of
\* them that was not thrown, parked or cancelled, until a rename makes a send
\* miss its batch, or a session cancel another's (unhooked), or a send strays.
THEOREM StoreSendCarriesUploads == Spec => []SendCarriesUploads
BY StoreInvariance, CarriesHold, PTL

\* A flag of a record under a key is backed.
LEMMA FlagsHold == StoreInv => FlagsBacked
BY StoreTypesHold DEF StoreInv, Good, Flags, Backed, FlagsBacked

\* A record that says that it uploads or sends has an upload or a send that
\* will clear it (or a batch that threw), until one is unhooked or a send strays.
THEOREM StoreFlagsBacked == Spec => []FlagsBacked
BY StoreInvariance, FlagsHold, PTL

-----------------------------------------------------------------------------
(* The controller: its inductive invariant.                                *)

Started == {"write", "writing", "wrote", "pause", "sleeping", "slept", "rejected", "finished"}
Unfinished == {"write", "pause", "sleeping", "slept"}

OnlyHeadRuns == \A i \in 1..Len(queue) : i # 1 => phase[queue[i]] = "queued"

CountsAgree ==
    \A c \in Calls :
        /\ phase[c] \in {"new", "queued"} => writeCount[c] = 0
        /\ phase[c] \in Started => writeCount[c] >= 1 /\ issued[c] = captured[c]
        /\ phase[c] \in Unfinished => writeCount[c] < Len(Writes(request[c]))
        /\ phase[c] = "finished" => writeCount[c] = Len(Writes(request[c]))
        /\ result[c].status = "not-sent" => writeCount[c] = 0

EntriesAgree ==
    \A i \in 1..Len(pty) :
        /\ pty[i].gen = captured[pty[i].call]
        /\ pty[i].index \in 1..writeCount[pty[i].call]
        /\ phase[pty[i].call] = "writing" => pty[i].index < writeCount[pty[i].call]

\* The number of the call's first writes that are acknowledged.
Done(c) ==
    IF result[c].status = "delivered" THEN Len(Writes(request[c]))
    ELSE IF phase[c] \in {"wrote", "finished"} \union Unfinished THEN writeCount[c]
    ELSE IF phase[c] \in {"writing", "rejected"} THEN writeCount[c] - 1 ELSE 0

Acknowledged ==
    \A c \in Calls : \A k \in 1..Done(c) :
        \E i \in 1..Len(pty) : pty[i] = Entry(c, k, captured[c], TRUE)

BehindPrefix ==
    \A i \in 1..Len(pty) : \A k \in 1..pty[i].index - 1 :
        \E j \in 1..i - 1 : pty[j].call = pty[i].call /\ pty[j].index = k /\ pty[j].whole

OvertakenIsSettled ==
    \A i, j \in 1..Len(pty) : i < j /\ pty[i].call # pty[j].call => phase[pty[i].call] = "settled"

\* The calls that entered the chain and could have written.
Entered(c) == writeCount[c] > 0 \/ phase[c] \notin {"new", "settled"}
IdsAgree ==
    /\ \A c \in Calls : Entered(c) => request[c].id \in operationIds
    /\ \A c, d \in Calls : Entered(c) /\ Entered(d) /\ request[c].id = request[d].id => c = d

DeliveryInv ==
    /\ DeliveryTypeOK /\ OnlyHeadRuns /\ CountsAgree /\ EntriesAgree /\ Acknowledged
    /\ BehindPrefix /\ OvertakenIsSettled /\ Serialized /\ IdsAgree

-----------------------------------------------------------------------------
Parts == {"START", "body", "END", "ENTER"}

\* A request has at least one write, and each is one of the four parts
\* (composerPayloadSegments and the submit key of deliverOne).
LEMMA WritesType ==
    \A r \in Requests : Writes(r) \in Seq(Parts) /\ Len(Writes(r)) \in Nat /\ Len(Writes(r)) >= 1
<1> SUFFICES ASSUME NEW r \in Requests
             PROVE  Writes(r) \in Seq(Parts) /\ Len(Writes(r)) \in Nat /\ Len(Writes(r)) >= 1
  OBVIOUS
<1> DEFINE body == composerPayloadSegments(r.payload)
           tail == IF r.intent = "submit" THEN <<"ENTER">> ELSE <<>>
<1>1. body \in Seq(Parts) /\ Len(body) >= 1
  <2>1. <<"START", "body", "END">> \in Seq(Parts) /\ Len(<<"START", "body", "END">>) = 3
    BY DEF Parts
  <2>2. <<"body">> \in Seq(Parts) /\ Len(<<"body">>) = 1
    BY DEF Parts
  <2>3. CASE r.payload = "lines"
    BY <2>1, <2>3 DEF composerPayloadSegments
  <2>4. CASE r.payload # "lines"
    BY <2>2, <2>4 DEF composerPayloadSegments
  <2>5. QED
    BY <2>3, <2>4
<1>2. tail \in Seq(Parts)
  BY DEF Parts
<1>3. Writes(r) = body \o tail
  BY DEF Writes
<1> HIDE DEF body, tail
<1>4. QED
  BY <1>1, <1>2, <1>3

\* What DeliveryTypeOK says of one entry of the PTY.
LEMMA EntryType ==
    ASSUME DeliveryTypeOK
    PROVE  /\ Len(pty) \in Nat
           /\ \A i \in 1..Len(pty) :
                /\ pty[i] \in Entries /\ pty[i].call \in Calls
                /\ pty[i].index \in Nat /\ pty[i].gen \in Nat
<1>1. Len(pty) \in Nat /\ \A i \in 1..Len(pty) : pty[i] \in Entries
  BY DEF DeliveryTypeOK
<1>2. QED
  BY <1>1 DEF Entries

\* The chain without its head.
LEMMA TailFacts ==
    ASSUME NEW q \in Seq(Calls), q # <<>>
    PROVE  /\ Len(q) \in Nat \ {0}
           /\ Tail(q) \in Seq(Calls) /\ Len(Tail(q)) = Len(q) - 1
           /\ \A i \in 1..Len(q) - 1 : Tail(q)[i] = q[i + 1]
  OBVIOUS

\* The controller starts with nothing queued and nothing on the PTY.
LEMMA InitDeliveryInv == DeliveryInit => DeliveryInv
<1> SUFFICES ASSUME DeliveryInit PROVE DeliveryInv
  OBVIOUS
<1> USE DEF DeliveryInit
<1>1. DeliveryTypeOK
  <2>1. \A c \in Calls : request[c] \in Requests
    BY DeliveryAssumption DEF Requests
  <2>2. \A c \in Calls : writeCount[c] <= Len(Writes(request[c]))
    <3> TAKE c \in Calls
    <3>1. request[c] \in Requests /\ writeCount[c] = 0
      BY <2>1
    <3> HIDE DEF DeliveryInit
    <3>2. QED
      BY <3>1, WritesType
  <2>3. request \in [Calls -> Requests]
    BY <2>1
  <2>4. Pending \in Results /\ Pending.status = "pending"
    BY DEF Pending, Results, Statuses, Reasons
  <2>5. QED
    BY <2>2, <2>3, <2>4 DEF DeliveryTypeOK, ChainAgrees, TransportStates, Phases
<1>2. OnlyHeadRuns /\ EntriesAgree /\ BehindPrefix /\ OvertakenIsSettled /\ Serialized
  BY DEF OnlyHeadRuns, EntriesAgree, BehindPrefix, OvertakenIsSettled, Serialized
<1>3. CountsAgree
  BY DEF CountsAgree, Started, Unfinished, Pending
<1>4. Acknowledged
  BY DEF Acknowledged, Done, Unfinished, Pending
<1>5. IdsAgree
  BY DEF IdsAgree, Entered
<1>6. QED
  BY <1>1, <1>2, <1>3, <1>4, <1>5 DEF DeliveryInv

\* Resolving the head's promise keeps the invariant when the answer is one the
\* call has earned.
LEMMA SettlesKeeps ==
    ASSUME DeliveryInv, NEW c \in Calls, Running(c), phase[c] \notin {"new", "settled"},
           NEW r \in Results, r.status # "pending",
           r.status = "delivered" => phase[c] = "finished",
           r.status = "not-sent" => writeCount[c] = 0,
           settles(c, r)
    PROVE  DeliveryInv'
<1> USE DEF settles, transportVars, callVars
<1>q. /\ queue \in Seq(Calls) /\ Len(queue) \in Nat \ {0} /\ queue[1] = c
      /\ queue' \in Seq(Calls) /\ Len(queue') = Len(queue) - 1
      /\ \A i \in 1..Len(queue) - 1 : queue'[i] = queue[i + 1]
      /\ \A i, j \in 1..Len(queue) : queue[i] = queue[j] => i = j
  BY TailFacts DEF DeliveryInv, DeliveryTypeOK, ChainAgrees, Running
<1>p. /\ phase \in [Calls -> Phases] /\ phase' = [phase EXCEPT ![c] = "settled"]
      /\ writeCount \in [Calls -> Nat] /\ request \in [Calls -> Requests]
  BY DEF DeliveryInv, DeliveryTypeOK
<1>r. result \in [Calls -> Results] /\ result' = [result EXCEPT ![c] = r]
  BY DEF DeliveryInv, DeliveryTypeOK
<1>e. /\ Len(pty) \in Nat
      /\ \A i \in 1..Len(pty) : pty[i].call \in Calls /\ pty[i].index \in Nat
  BY EntryType DEF DeliveryInv
<1>1. DeliveryTypeOK'
  <2>3. \A i, j \in 1..Len(queue') : queue'[i] = queue'[j] => i = j
    BY <1>q
  <2>4. ASSUME NEW d \in Calls
        PROVE  (\E i \in 1..Len(queue') : queue'[i] = d) <=> phase'[d] \notin {"new", "settled"}
    <3>1. CASE d = c
      <4>1. ~ \E i \in 1..Len(queue') : queue'[i] = c
        BY <1>q
      <4>2. QED
        BY <4>1, <3>1, <1>p
    <3>2. CASE d # c
      <4>1. (\E i \in 1..Len(queue) : queue[i] = d) => \E i \in 1..Len(queue') : queue'[i] = d
        <5> SUFFICES ASSUME NEW i \in 1..Len(queue), queue[i] = d
                     PROVE  i - 1 \in 1..Len(queue') /\ queue'[i - 1] = d
          OBVIOUS
        <5>1. i # 1
          BY <1>q, <3>2
        <5>2. QED
          BY <1>q, <5>1
      <4>2. (\E i \in 1..Len(queue') : queue'[i] = d) => \E i \in 1..Len(queue) : queue[i] = d
        BY <1>q
      <4>3. (\E i \in 1..Len(queue) : queue[i] = d) <=> phase[d] \notin {"new", "settled"}
        BY DEF DeliveryInv, DeliveryTypeOK, ChainAgrees
      <4>4. phase'[d] = phase[d]
        BY <1>p, <3>2
      <4>5. QED
        BY <4>1, <4>2, <4>3, <4>4
    <3>3. QED
      BY <3>1, <3>2
  <2>5. phase' \in [Calls -> Phases] /\ result' \in [Calls -> Results]
    BY <1>p, <1>r DEF Phases
  <2>6. \A d \in Calls : phase'[d] = "settled" <=> result'[d].status # "pending"
    BY <1>p, <1>r DEF DeliveryInv, DeliveryTypeOK, ChainAgrees
  <2>7. ChainAgrees'
    BY <2>3, <2>4, <2>6 DEF DeliveryInv, DeliveryTypeOK, ChainAgrees
  <2>8. QED
    BY <1>q, <2>5, <2>7 DEF DeliveryInv, DeliveryTypeOK
<1>2. OnlyHeadRuns'
  <2> SUFFICES ASSUME NEW i \in 1..Len(queue'), i # 1
               PROVE  phase'[queue'[i]] = "queued"
    BY DEF OnlyHeadRuns
  <2>1. queue'[i] = queue[i + 1] /\ i + 1 \in 1..Len(queue) /\ queue[i + 1] # c
    BY <1>q
  <2>2. phase[queue[i + 1]] = "queued" /\ queue[i + 1] \in Calls
    BY <1>q, <2>1 DEF DeliveryInv, OnlyHeadRuns
  <2>3. QED
    BY <2>1, <2>2, <1>p
<1>3. CountsAgree'
  BY <1>p, <1>r DEF DeliveryInv, CountsAgree, Started, Unfinished
<1>4. EntriesAgree'
  BY <1>p, <1>e DEF DeliveryInv, EntriesAgree
<1>5. Acknowledged'
  <2> SUFFICES ASSUME NEW d \in Calls, NEW k \in 1..Done(d)'
               PROVE  \E i \in 1..Len(pty) : pty[i] = Entry(d, k, captured[d], TRUE)
    BY DEF Acknowledged, Entry
  <2>1. Done(d)' = Done(d) \/ Done(d)' = 0
    <3>1. CASE d # c
      BY <3>1, <1>p, <1>r DEF Done
    <3>2. CASE d = c /\ r.status = "delivered"
      <4>1. phase[c] = "finished" /\ writeCount[c] = Len(Writes(request[c]))
        BY <3>2 DEF DeliveryInv, CountsAgree
      <4>2. Done(c) = Len(Writes(request[c]))
        BY <4>1 DEF Done
      <4>3. Done(c)' = Len(Writes(request[c]))
        BY <3>2, <1>r DEF Done
      <4>4. QED
        BY <4>2, <4>3, <3>2
    <3>3. CASE d = c /\ r.status # "delivered"
      BY <3>3, <1>p, <1>r DEF Done, Unfinished
    <3>4. QED
      BY <3>1, <3>2, <3>3
  <2>2. k \in 1..Done(d)
    BY <2>1
  <2>3. QED
    BY <2>2 DEF DeliveryInv, Acknowledged
<1>6. BehindPrefix' /\ Serialized'
  <2>1. pty' = pty /\ BehindPrefix /\ Serialized
    BY DEF DeliveryInv
  <2>2. BehindPrefix'
    BY <2>1 DEF BehindPrefix
  <2>3. Serialized'
    BY <2>1 DEF Serialized
  <2> QED
    BY <2>2, <2>3
<1>7. OvertakenIsSettled'
  BY <1>p, <1>e DEF DeliveryInv, OvertakenIsSettled
<1>8. IdsAgree'
  <2>1. \A d \in Calls : Entered(d)' => Entered(d)
    BY <1>p DEF Entered
  <2>2. QED
    BY <2>1 DEF DeliveryInv, IdsAgree
<1>9. QED
  BY <1>1, <1>2, <1>3, <1>4, <1>5, <1>6, <1>7, <1>8 DEF DeliveryInv

Acked == {"wrote", "finished"} \union Unfinished

\* The frame of a step that only moves one running call.
Moves(c, q) ==
    /\ phase' = [phase EXCEPT ![c] = q]
    /\ UNCHANGED <<transportState, generation, operationIds, queue, request, captured,
                   writeCount, issued, result>>
    /\ stage' \in [Calls -> {"write", "pacing"}]

\* Moving a running call on leaves the chain, the counts and the ids in order.
LEMMA MovesKeep ==
    ASSUME DeliveryInv, NEW c \in Calls, NEW q \in Started,
           phase[c] \in Started,
           q \in Unfinished => writeCount[c] < Len(Writes(request[c])),
           q = "finished" => writeCount[c] = Len(Writes(request[c])),
           Moves(c, q), pty' \in Seq(Entries)
    PROVE  DeliveryTypeOK' /\ OnlyHeadRuns' /\ CountsAgree' /\ IdsAgree'
<1> USE DEF Moves
<1>p. /\ phase \in [Calls -> Phases] /\ phase' = [phase EXCEPT ![c] = q]
      /\ phase[c] \notin {"new", "queued", "settled"} /\ q \notin {"new", "queued", "settled"}
  BY DEF DeliveryInv, DeliveryTypeOK, Started
<1>1. DeliveryTypeOK'
  <2>1. phase' \in [Calls -> Phases]
    BY <1>p DEF Started, Phases
  <2>2. \A d \in Calls : phase'[d] \in {"new", "settled"} <=> phase[d] \in {"new", "settled"}
    BY <1>p
  <2>3. \A d \in Calls : phase'[d] = "settled" <=> phase[d] = "settled"
    BY <1>p
  <2>4. ASSUME NEW d \in Calls
        PROVE  /\ (\E i \in 1..Len(queue) : queue[i] = d) <=> phase'[d] \notin {"new", "settled"}
               /\ phase'[d] = "settled" <=> result[d].status # "pending"
    BY <2>2, <2>3 DEF DeliveryInv, DeliveryTypeOK, ChainAgrees
  <2>5. ChainAgrees'
    BY <2>4 DEF DeliveryInv, DeliveryTypeOK, ChainAgrees
  <2>6. QED
    BY <2>1, <2>5 DEF DeliveryInv, DeliveryTypeOK
<1>2. OnlyHeadRuns'
  <2>1. \A i \in 1..Len(queue) : queue[i] \in Calls
    BY DEF DeliveryInv, DeliveryTypeOK
  <2>2. QED
    BY <1>p, <2>1 DEF DeliveryInv, OnlyHeadRuns
<1>3. CountsAgree'
  BY <1>p DEF DeliveryInv, CountsAgree, Started, Unfinished
<1>4. IdsAgree'
  <2>1. \A d \in Calls : Entered(d)' <=> Entered(d)
    BY <1>p DEF Entered
  <2>2. QED
    BY <2>1 DEF DeliveryInv, IdsAgree
<1>5. QED
  BY <1>1, <1>2, <1>3, <1>4

\* A turn of the event loop in which nothing reaches the PTY.
LEMMA QuietMoveKeeps ==
    ASSUME DeliveryInv, NEW c \in Calls, NEW q \in Started,
           phase[c] \in Started, q # "writing",
           q \in Unfinished => writeCount[c] < Len(Writes(request[c])),
           q = "finished" => writeCount[c] = Len(Writes(request[c])),
           q \in Acked => phase[c] \in Acked,
           Moves(c, q), pty' = pty
    PROVE  DeliveryInv'
<1>p. /\ phase \in [Calls -> Phases] /\ phase' = [phase EXCEPT ![c] = q]
      /\ phase[c] \notin {"new", "queued", "settled"} /\ q \notin {"new", "queued", "settled"}
  BY DEF DeliveryInv, DeliveryTypeOK, Started, Moves
<1>e. Len(pty) \in Nat /\ \A i \in 1..Len(pty) : pty[i].call \in Calls
  BY EntryType DEF DeliveryInv
<1>1. DeliveryTypeOK' /\ OnlyHeadRuns' /\ CountsAgree' /\ IdsAgree'
  <2>1. pty' \in Seq(Entries)
    BY DEF DeliveryInv, DeliveryTypeOK
  <2>2. QED
    BY <2>1, MovesKeep
<1>2. EntriesAgree'
  BY <1>p, <1>e DEF DeliveryInv, EntriesAgree, Moves
<1>3. Acknowledged'
  <2> SUFFICES ASSUME NEW d \in Calls, NEW k \in 1..Done(d)'
               PROVE  \E i \in 1..Len(pty) : pty[i] = Entry(d, k, captured[d], TRUE)
    BY DEF Acknowledged, Entry, Moves
  <2>1. writeCount[d] \in Nat
    BY DEF DeliveryInv, DeliveryTypeOK
  <2>2. k \in 1..Done(d)
    <3>1. CASE d # c
      BY <3>1, <1>p DEF Done, Moves
    <3>2. CASE d = c /\ result[c].status = "delivered"
      BY <3>2, <1>p DEF DeliveryInv, DeliveryTypeOK, ChainAgrees
    <3>3. CASE d = c /\ result[c].status # "delivered"
      BY <3>3, <1>p, <2>1 DEF Done, Moves, Acked, Unfinished, Started
    <3>4. QED
      BY <3>1, <3>2, <3>3
  <2>3. QED
    BY <2>2 DEF DeliveryInv, Acknowledged
<1>4. BehindPrefix' /\ Serialized'
  BY DEF DeliveryInv, BehindPrefix, Serialized
<1>5. OvertakenIsSettled'
  BY <1>p, <1>e DEF DeliveryInv, OvertakenIsSettled
<1>6. QED
  BY <1>1, <1>2, <1>3, <1>4, <1>5 DEF DeliveryInv

\* What DeliveryTypeOK says of the chain.
LEMMA ChainFacts ==
    ASSUME DeliveryTypeOK
    PROVE  /\ queue \in Seq(Calls) /\ Len(queue) \in Nat
           /\ \A i \in 1..Len(queue) : queue[i] \in Calls
           /\ \A i, j \in 1..Len(queue) : queue[i] = queue[j] => i = j
           /\ \A d \in Calls :
                /\ (\E i \in 1..Len(queue) : queue[i] = d) <=> phase[d] \notin {"new", "settled"}
                /\ phase[d] = "settled" <=> result[d].status # "pending"
                /\ writeCount[d] <= Len(Writes(request[d]))
  BY DEF DeliveryTypeOK, ChainAgrees

\* Only the head of the chain has started, so two started calls are one.
LEMMA OneRuns ==
    ASSUME DeliveryInv, NEW c \in Calls, NEW d \in Calls, phase[c] \in Started, phase[d] \in Started
    PROVE  c = d
<1>1. /\ \E i \in 1..Len(queue) : queue[i] = c
      /\ \E i \in 1..Len(queue) : queue[i] = d
  BY DEF DeliveryInv, DeliveryTypeOK, ChainAgrees, Started
<1>2. \A i \in 1..Len(queue) : phase[queue[i]] \in Started => i = 1
  BY DEF DeliveryInv, OnlyHeadRuns, Started
<1>3. QED
  BY <1>1, <1>2

\* A write's bytes reach the PTY: whole when it resolved, perhaps in part when
\* it rejected.
LEMMA LandsKeeps ==
    ASSUME DeliveryInv, NEW c \in Calls, NEW q \in {"wrote", "rejected"}, NEW w \in BOOLEAN,
           q = "wrote" => w = TRUE,
           phase[c] = "writing", Moves(c, q), pty' = Append(pty, Landed(c, w))
    PROVE  DeliveryInv'
<1> DEFINE n == Len(pty) + 1
           new == Landed(c, w)
<1>p. /\ phase \in [Calls -> Phases] /\ phase' = [phase EXCEPT ![c] = q]
      /\ writeCount' = writeCount /\ request' = request /\ captured' = captured
      /\ result' = result
  BY DEF DeliveryInv, DeliveryTypeOK, Moves
<1>c. /\ writeCount[c] \in Nat /\ writeCount[c] >= 1 /\ issued[c] = captured[c]
      /\ writeCount[c] <= Len(Writes(request[c])) /\ request[c] \in Requests
      /\ issued[c] \in Nat /\ result[c].status = "pending"
  BY DEF DeliveryInv, DeliveryTypeOK, ChainAgrees, CountsAgree, Started
<1>e. /\ Len(pty) \in Nat /\ pty \in Seq(Entries)
      /\ \A i \in 1..Len(pty) : pty[i].call \in Calls /\ pty[i].index \in Nat
  BY EntryType DEF DeliveryInv, DeliveryTypeOK
<1>w. /\ new \in Entries
      /\ new.call = c /\ new.index = writeCount[c] /\ new.gen = captured[c] /\ new.whole = w
      /\ new = Entry(c, writeCount[c], captured[c], w)
  <2>1. Writes(request[c])[writeCount[c]] \in Parts
    BY <1>c, WritesType
  <2>2. QED
    BY <1>c, <2>1 DEF Landed, Entry, Entries, Parts
<1> HIDE DEF new
<1>y. /\ pty' \in Seq(Entries) /\ Len(pty') = n /\ pty'[n] = new
      /\ \A i \in 1..Len(pty) : pty'[i] = pty[i]
  BY <1>e, <1>w DEF new
<1>1. DeliveryTypeOK' /\ OnlyHeadRuns' /\ CountsAgree' /\ IdsAgree'
  BY <1>y, MovesKeep DEF Started, Unfinished
<1>2. EntriesAgree'
  <2> SUFFICES ASSUME NEW i \in 1..n
               PROVE  /\ pty'[i].gen = captured[pty'[i].call]
                      /\ pty'[i].index \in 1..writeCount[pty'[i].call]
                      /\ phase'[pty'[i].call] = "writing" => pty'[i].index < writeCount[pty'[i].call]
    BY <1>y, <1>p DEF EntriesAgree
  <2>1. CASE i = n
    BY <2>1, <1>y, <1>w, <1>c, <1>p
  <2>2. CASE i \in 1..Len(pty)
    BY <2>2, <1>y, <1>e, <1>p DEF DeliveryInv, EntriesAgree
  <2>3. QED
    BY <2>1, <2>2, <1>e
<1>3. Acknowledged'
  <2> SUFFICES ASSUME NEW d \in Calls, NEW k \in 1..Done(d)'
               PROVE  \E i \in 1..n : pty'[i] = Entry(d, k, captured[d], TRUE)
    BY <1>y, <1>p DEF Acknowledged, Entry
  <2>1. CASE k \in 1..Done(d)
    <3>1. PICK i \in 1..Len(pty) : pty[i] = Entry(d, k, captured[d], TRUE)
      BY <2>1 DEF DeliveryInv, Acknowledged
    <3>2. i \in 1..n /\ pty'[i] = pty[i]
      BY <1>y, <1>e
    <3>3. QED
      BY <3>1, <3>2
  <2>2. CASE k \notin 1..Done(d)
    <3>1. d = c
      BY <2>2, <1>p DEF Done
    <3>2. Done(c) = writeCount[c] - 1
      BY <1>c DEF Done, Unfinished
    <3>3. Done(c)' = IF q = "wrote" THEN writeCount[c] ELSE writeCount[c] - 1
      BY <1>p, <1>c DEF Done, Unfinished
    <3>4. k = writeCount[c] /\ q = "wrote"
      BY <2>2, <3>1, <3>2, <3>3, <1>c
    <3>5. pty'[n] = Entry(d, k, captured[d], TRUE) /\ n \in 1..n
      BY <3>1, <3>4, <1>y, <1>w, <1>e
    <3>6. QED
      BY <3>5
  <2>3. QED
    BY <2>1, <2>2
<1>4. BehindPrefix'
  <2> SUFFICES ASSUME NEW i \in 1..n, NEW k \in 1..pty'[i].index - 1
               PROVE  \E j \in 1..i - 1 :
                        pty'[j].call = pty'[i].call /\ pty'[j].index = k /\ pty'[j].whole
    BY <1>y DEF BehindPrefix
  <2>1. CASE i = n
    <3>1. k \in 1..Done(c)
      BY <2>1, <1>y, <1>w, <1>c DEF Done, Unfinished
    <3>2. PICK j \in 1..Len(pty) : pty[j] = Entry(c, k, captured[c], TRUE)
      BY <3>1 DEF DeliveryInv, Acknowledged
    <3>3. pty[j].call = c /\ pty[j].index = k /\ pty[j].whole
      BY <3>2 DEF Entry
    <3>4. j \in 1..i - 1 /\ pty'[j] = pty[j]
      BY <2>1, <1>y, <1>e
    <3>5. QED
      BY <3>3, <3>4, <2>1, <1>y, <1>w
  <2>2. CASE i \in 1..Len(pty)
    <3>1. PICK j \in 1..i - 1 : pty[j].call = pty[i].call /\ pty[j].index = k /\ pty[j].whole
      BY <2>2, <1>y DEF DeliveryInv, BehindPrefix
    <3>2. pty'[j] = pty[j] /\ pty'[i] = pty[i]
      BY <2>2, <1>y, <1>e
    <3>3. QED
      BY <3>1, <3>2
  <2>3. QED
    BY <2>1, <2>2, <1>e
<1>s. \A i \in 1..Len(pty) : pty[i].call # c => phase[pty[i].call] = "settled"
  <2> SUFFICES ASSUME NEW i \in 1..Len(pty), pty[i].call # c, phase[pty[i].call] # "settled"
               PROVE  FALSE
    OBVIOUS
  <2>1. writeCount[pty[i].call] # 0 /\ pty[i].call \in Calls
    BY <1>e DEF DeliveryInv, EntriesAgree
  <2>2. phase[pty[i].call] \in Started
    BY <2>1, <1>p DEF DeliveryInv, CountsAgree, Phases, Started
  <2>3. QED
    BY <2>1, <2>2, OneRuns DEF Started
<1>5. OvertakenIsSettled'
  <2> SUFFICES ASSUME NEW i \in 1..n, NEW j \in 1..n, i < j, pty'[i].call # pty'[j].call
               PROVE  phase'[pty'[i].call] = "settled"
    BY <1>y DEF OvertakenIsSettled
  <2>1. i \in 1..Len(pty) /\ pty'[i] = pty[i]
    BY <1>y, <1>e
  <2>2. phase[pty[i].call] = "settled"
    <3>1. CASE j = n
      BY <3>1, <2>1, <1>y, <1>w, <1>s
    <3>2. CASE j \in 1..Len(pty)
      BY <3>2, <2>1, <1>y DEF DeliveryInv, OvertakenIsSettled
    <3>3. j = n \/ j \in 1..Len(pty)
      <4>1. Len(pty) \in Nat
        BY <1>e
      <4>2. QED
        BY <4>1
    <3>4. QED
      BY <3>1, <3>2, <3>3
  <2>3. QED
    BY <2>1, <2>2, <1>p, <1>e
<1>6. Serialized'
  <2> SUFFICES ASSUME NEW i \in 1..Len(pty'), NEW j \in 1..Len(pty'), i < j
               PROVE  /\ pty'[i].call = pty'[j].call => pty'[i].index < pty'[j].index
                      /\ pty'[i].call # pty'[j].call =>
                            \A k \in j + 1..Len(pty') : pty'[k].call # pty'[i].call
    BY Zenon DEF Serialized
  <2>n. Len(pty') = n /\ i \in 1..n /\ j \in 1..n
    BY <1>y
  <2>1. i \in 1..Len(pty) /\ pty'[i] = pty[i]
    BY <1>y, <1>e, <2>n
  <2>2. CASE j = n
    <3>1. pty'[i].call = pty'[j].call => pty'[i].index < pty'[j].index
      BY <2>1, <2>2, <1>y, <1>w, <1>e, <1>c DEF DeliveryInv, EntriesAgree
    <3>2. j + 1..Len(pty') = {}
      BY <2>n, <2>2, <1>e
    <3>3. QED
      BY <3>1, <3>2
  <2>3. CASE j \in 1..Len(pty)
    <3>1. pty'[j] = pty[j]
      BY <2>3, <1>y
    <3>2. pty[i].call = pty[j].call => pty[i].index < pty[j].index
      BY <2>1, <2>3 DEF DeliveryInv, Serialized
    <3>3. ASSUME pty[i].call # pty[j].call, NEW k \in j + 1..n
          PROVE  pty'[k].call # pty[i].call
      <4>1. CASE k = n
        <5>1. phase[pty[i].call] = "settled"
          BY <2>1, <2>3, <3>3 DEF DeliveryInv, OvertakenIsSettled
        <5>2. QED
          BY <4>1, <5>1, <1>y, <1>w
      <4>2. CASE k \in j + 1..Len(pty)
        <5>1. k \in 1..Len(pty)
          BY <4>2, <2>3, <1>e
        <5>2. pty'[k] = pty[k]
          BY <5>1, <1>y
        <5>3. Serialized
          BY DEF DeliveryInv
        <5>4. pty[k].call # pty[i].call
          BY <4>2, <2>1, <2>3, <3>3, <5>3 DEF Serialized
        <5>5. QED
          BY <5>2, <5>4
      <4>3. k = n \/ k \in j + 1..Len(pty)
        <5>1. Len(pty) \in Nat
          BY <1>e
        <5>2. QED
          BY <2>3, <3>3, <5>1
      <4>4. QED
        BY <4>1, <4>2, <4>3
    <3>4. QED
      BY <2>1, <2>n, <3>1, <3>2, <3>3
  <2>4. j = n \/ j \in 1..Len(pty)
    <3>1. Len(pty) \in Nat
      BY <1>e
    <3>2. QED
      BY <2>n, <3>1
  <2>5. QED
    BY <2>2, <2>3, <2>4
<1>7. QED
  BY <1>1, <1>2, <1>3, <1>4, <1>5, <1>6 DEF DeliveryInv

\* Calling effects.write on the generation the user sent on.
LEMMA IssuesKeeps ==
    ASSUME DeliveryInv, NEW c \in Calls, Running(c), isCurrent(c),
           phase[c] \in {"queued", "write"},
           writeCount[c] < Len(Writes(request[c])), issues(c)
    PROVE  DeliveryInv'
<1> USE DEF issues, transportVars, callVars
<1>p. /\ phase \in [Calls -> Phases] /\ phase' = [phase EXCEPT ![c] = "writing"]
      /\ writeCount \in [Calls -> Nat] /\ writeCount' = [writeCount EXCEPT ![c] = writeCount[c] + 1]
      /\ issued \in [Calls -> Nat] /\ issued' = [issued EXCEPT ![c] = captured[c]]
      /\ captured \in [Calls -> Nat] /\ result[c].status = "pending"
  BY DEF DeliveryInv, DeliveryTypeOK, ChainAgrees, isCurrent
<1>n. writeCount[c] \in Nat /\ writeCount'[c] = writeCount[c] + 1
  BY <1>p
<1>o. \A d \in Calls \ {c} : /\ phase'[d] = phase[d] /\ writeCount'[d] = writeCount[d]
                             /\ issued'[d] = issued[d]
  BY <1>p
<1>e. /\ Len(pty) \in Nat
      /\ \A i \in 1..Len(pty) : pty[i].call \in Calls /\ pty[i].index \in Nat
  BY EntryType DEF DeliveryInv
<1>1. DeliveryTypeOK'
  <2>1. /\ phase' \in [Calls -> Phases] /\ writeCount' \in [Calls -> Nat]
        /\ issued' \in [Calls -> Nat] /\ stage' \in [Calls -> {"write", "pacing"}]
    BY <1>p DEF DeliveryInv, DeliveryTypeOK, Phases
  <2>2. Len(Writes(request[c])) \in Nat
    BY WritesType DEF DeliveryInv, DeliveryTypeOK
  <2>3. ASSUME NEW d \in Calls
        PROVE  /\ (\E i \in 1..Len(queue) : queue[i] = d) <=> phase'[d] \notin {"new", "settled"}
               /\ phase'[d] = "settled" <=> result[d].status # "pending"
               /\ writeCount'[d] <= Len(Writes(request[d]))
    <3>1. CASE d = c
      <4>1. (\E i \in 1..Len(queue) : queue[i] = c)
        BY DEF DeliveryInv, DeliveryTypeOK, ChainAgrees
      <4>2. QED
        BY <3>1, <4>1, <1>p, <1>n, <2>2
    <3>2. CASE d # c
      BY <3>2, <1>o DEF DeliveryInv, DeliveryTypeOK, ChainAgrees
    <3>3. QED
      BY <3>1, <3>2
  <2>4. ChainAgrees'
    <3>1. UNCHANGED <<queue, result, request>>
      OBVIOUS
    <3>2. \A i, j \in 1..Len(queue) : queue[i] = queue[j] => i = j
      BY ChainFacts DEF DeliveryInv
    <3> HIDE DEF issues, transportVars, callVars
    <3>3. QED
      BY <2>3, <3>1, <3>2 DEF ChainAgrees
  <2>5. QED
    BY <2>1, <2>4 DEF DeliveryInv, DeliveryTypeOK
<1>2. OnlyHeadRuns'
  <2>1. \A i \in 1..Len(queue) : i # 1 => queue[i] \in Calls /\ queue[i] # c
    <3>1. 1 \in 1..Len(queue) /\ queue[1] = c
      BY TailFacts DEF DeliveryInv, DeliveryTypeOK, Running
    <3>2. QED
      BY <3>1, ChainFacts DEF DeliveryInv
  <2>2. QED
    BY <2>1, <1>o DEF DeliveryInv, OnlyHeadRuns
<1>3. CountsAgree'
  <2> SUFFICES ASSUME NEW d \in Calls
               PROVE  /\ phase'[d] \in {"new", "queued"} => writeCount'[d] = 0
                      /\ phase'[d] \in Started => writeCount'[d] >= 1 /\ issued'[d] = captured[d]
                      /\ phase'[d] \in Unfinished => writeCount'[d] < Len(Writes(request[d]))
                      /\ phase'[d] = "finished" => writeCount'[d] = Len(Writes(request[d]))
                      /\ result[d].status = "not-sent" => writeCount'[d] = 0
    BY DEF CountsAgree
  <2>1. CASE d = c
    BY <2>1, <1>p, <1>n DEF Unfinished
  <2>2. CASE d # c
    BY <2>2, <1>o DEF DeliveryInv, CountsAgree
  <2>3. QED
    BY <2>1, <2>2
<1>4. EntriesAgree'
  <2> SUFFICES ASSUME NEW i \in 1..Len(pty)
               PROVE  /\ pty[i].gen = captured[pty[i].call]
                      /\ pty[i].index \in 1..writeCount'[pty[i].call]
                      /\ phase'[pty[i].call] = "writing" => pty[i].index < writeCount'[pty[i].call]
    BY DEF EntriesAgree
  <2>1. CASE pty[i].call = c
    BY <2>1, <1>n, <1>e DEF DeliveryInv, EntriesAgree
  <2>2. CASE pty[i].call # c
    BY <2>2, <1>o, <1>e DEF DeliveryInv, EntriesAgree
  <2>3. QED
    BY <2>1, <2>2
<1>5. Acknowledged'
  <2> SUFFICES ASSUME NEW d \in Calls, NEW k \in 1..Done(d)'
               PROVE  \E i \in 1..Len(pty) : pty[i] = Entry(d, k, captured[d], TRUE)
    BY DEF Acknowledged, Entry
  <2>1. k \in 1..Done(d)
    <3>1. CASE d # c
      BY <3>1, <1>o DEF Done
    <3>2. CASE d = c
      <4>1. Done(c)' = writeCount[c]
        BY <1>p, <1>n DEF Done, Unfinished
      <4>2. Done(c) = writeCount[c] \/ writeCount[c] = 0
        BY <1>p DEF DeliveryInv, CountsAgree, Done, Unfinished
      <4>3. QED
        BY <3>2, <4>1, <4>2
    <3>3. QED
      BY <3>1, <3>2
  <2>2. QED
    BY <2>1 DEF DeliveryInv, Acknowledged
<1>6. BehindPrefix' /\ Serialized'
  <2>1. pty' = pty /\ BehindPrefix /\ Serialized
    BY DEF DeliveryInv
  <2>2. BehindPrefix'
    BY <2>1 DEF BehindPrefix
  <2>3. Serialized'
    BY <2>1 DEF Serialized
  <2> QED
    BY <2>2, <2>3
<1>7. OvertakenIsSettled'
  BY <1>p, <1>e DEF DeliveryInv, OvertakenIsSettled
<1>8. IdsAgree'
  <2>1. \A d \in Calls : Entered(d)' => Entered(d)
    BY <1>p, <1>o DEF Entered
  <2>2. QED
    BY <2>1 DEF DeliveryInv, IdsAgree
<1>9. QED
  BY <1>1, <1>2, <1>3, <1>4, <1>5, <1>6, <1>7, <1>8 DEF DeliveryInv

\* A new call is refused or joins the chain, on the generation of the moment.
LEMMA DeliverKeeps ==
    ASSUME DeliveryInv, NEW c \in Calls, NEW r \in Requests, deliver(c, r)
    PROVE  DeliveryInv'
<1> USE DEF deliver, transportVars
<1>p. /\ phase \in [Calls -> Phases] /\ phase[c] = "new"
      /\ phase' \in [Calls -> Phases] /\ phase'[c] \in {"queued", "settled"}
      /\ result'[c].status \notin {"delivered", "uncertain"} /\ result' \in [Calls -> Results]
      /\ request' = [request EXCEPT ![c] = r] /\ request \in [Calls -> Requests]
      /\ captured' = [captured EXCEPT ![c] = generation] /\ captured \in [Calls -> Nat]
      /\ writeCount[c] = 0 /\ writeCount' = writeCount /\ result[c].status = "pending"
  <2>1. /\ phase \in [Calls -> Phases] /\ request \in [Calls -> Requests]
        /\ captured \in [Calls -> Nat] /\ result \in [Calls -> Results]
    BY DEF DeliveryInv, DeliveryTypeOK
  <2>2. writeCount[c] = 0 /\ result[c].status = "pending"
    BY DEF DeliveryInv, DeliveryTypeOK, ChainAgrees, CountsAgree
  <2>3. NotSent(refused(r)) \in Results /\ NotSent(refused(r)).status = "not-sent"
    BY DEF NotSent, Results, refused, Statuses, Reasons
  <2>4. QED
    BY <2>1, <2>2, <2>3 DEF Phases
<1>o. \A d \in Calls \ {c} : /\ phase'[d] = phase[d] /\ request'[d] = request[d]
                             /\ captured'[d] = captured[d] /\ result'[d] = result[d]
  BY DEF DeliveryInv, DeliveryTypeOK
<1>e. /\ Len(pty) \in Nat
      /\ \A i \in 1..Len(pty) : pty[i].call \in Calls \ {c} /\ pty[i].index \in Nat
  <2>1. \A i \in 1..Len(pty) : pty[i].index \in 1..writeCount[pty[i].call]
    BY DEF DeliveryInv, EntriesAgree
  <2>2. QED
    BY <2>1, <1>p, EntryType DEF DeliveryInv
<1>3. CountsAgree'
  <2> SUFFICES ASSUME NEW d \in Calls
               PROVE  /\ phase'[d] \in {"new", "queued"} => writeCount[d] = 0
                      /\ phase'[d] \in Started => writeCount[d] >= 1 /\ issued[d] = captured'[d]
                      /\ phase'[d] \in Unfinished => writeCount[d] < Len(Writes(request'[d]))
                      /\ phase'[d] = "finished" => writeCount[d] = Len(Writes(request'[d]))
                      /\ result'[d].status = "not-sent" => writeCount[d] = 0
    BY DEF CountsAgree
  <2>1. CASE d = c
    BY <2>1, <1>p DEF Unfinished, Started
  <2>2. CASE d # c
    BY <2>2, <1>o DEF DeliveryInv, CountsAgree
  <2>3. QED
    BY <2>1, <2>2
<1>4. EntriesAgree'
  BY <1>p, <1>o, <1>e DEF DeliveryInv, EntriesAgree
<1>5. Acknowledged'
  <2> SUFFICES ASSUME NEW d \in Calls, NEW k \in 1..Done(d)'
               PROVE  \E i \in 1..Len(pty) : pty[i] = Entry(d, k, captured[d], TRUE)'
    BY DEF Acknowledged
  <2>1. CASE d = c
    <3>1. Done(c)' = 0
      BY <1>p DEF Done, Unfinished
    <3>2. QED
      BY <2>1, <3>1
  <2>2. CASE d # c
    <3>1. Done(d)' = Done(d)
      BY <2>2, <1>o DEF Done
    <3>2. Entry(d, k, captured[d], TRUE)' = Entry(d, k, captured[d], TRUE)
      BY <2>2, <1>o DEF Entry
    <3>3. QED
      BY <3>1, <3>2 DEF DeliveryInv, Acknowledged
  <2>3. QED
    BY <2>1, <2>2
<1>6. BehindPrefix' /\ Serialized'
  <2>1. pty' = pty /\ BehindPrefix /\ Serialized
    BY DEF DeliveryInv
  <2>2. BehindPrefix'
    BY <2>1 DEF BehindPrefix
  <2>3. Serialized'
    BY <2>1 DEF Serialized
  <2> QED
    BY <2>2, <2>3
<1>7. OvertakenIsSettled'
  BY <1>o, <1>e DEF DeliveryInv, OvertakenIsSettled
<1>w. Len(Writes(r)) \in Nat /\ request'[c] = r
  BY WritesType, <1>p
<1>8. CASE refused(r) # "none"
  <2>1. phase'[c] = "settled" /\ result'[c].status = "not-sent" /\ UNCHANGED <<operationIds, queue>>
    BY <1>8, <1>p DEF NotSent, DeliveryInv, DeliveryTypeOK
  <2>2. ASSUME NEW d \in Calls
        PROVE  /\ (\E i \in 1..Len(queue) : queue[i] = d) <=> phase'[d] \notin {"new", "settled"}
               /\ phase'[d] = "settled" <=> result'[d].status # "pending"
               /\ writeCount[d] <= Len(Writes(request'[d]))
    <3>1. CASE d = c
      <4>1. ~ \E i \in 1..Len(queue) : queue[i] = c
        BY <1>p DEF DeliveryInv, DeliveryTypeOK, ChainAgrees
      <4>2. QED
        BY <3>1, <4>1, <2>1, <1>p, <1>w
    <3>2. CASE d # c
      <4> HIDE DEF deliver
      <4>1. QED
        BY <3>2, <1>o, ChainFacts DEF DeliveryInv
    <3>3. QED
      BY <3>1, <3>2
  <2>3. ChainAgrees'
    BY <2>1, <2>2 DEF DeliveryInv, DeliveryTypeOK, ChainAgrees
  <2>4. request' \in [Calls -> Requests] /\ captured' \in [Calls -> Nat]
    BY <1>p DEF DeliveryInv, DeliveryTypeOK
  <2>5. DeliveryTypeOK'
    BY <2>1, <2>3, <2>4, <1>p DEF DeliveryInv, DeliveryTypeOK
  <2>6. OnlyHeadRuns'
    <3>1. \A i \in 1..Len(queue) : i # 1 => queue[i] \in Calls \ {c}
      BY <1>p, SMTT(20) DEF DeliveryInv, DeliveryTypeOK, OnlyHeadRuns
    <3>2. QED
      BY <3>1, <2>1, <1>o DEF DeliveryInv, OnlyHeadRuns
  <2>7. IdsAgree'
    <3>1. \A d \in Calls : Entered(d)' => d # c /\ Entered(d)
      BY <2>1, <1>p, <1>o DEF Entered
    <3>2. QED
      BY <3>1, <2>1, <1>o DEF DeliveryInv, IdsAgree
  <2>8. QED
    BY <2>5, <2>6, <2>7, <1>3, <1>4, <1>5, <1>6, <1>7 DEF DeliveryInv
<1>9. CASE refused(r) = "none"
  <2> DEFINE m == Len(queue) + 1
  <2>1. /\ phase'[c] = "queued" /\ operationIds' = operationIds \union {r.id}
        /\ result' = result /\ r.id \notin operationIds
    BY <1>9, <1>p DEF refused
  <2>q. /\ queue \in Seq(Calls) /\ Len(queue) \in Nat
        /\ queue' \in Seq(Calls) /\ Len(queue') = m /\ queue'[m] = c
        /\ \A i \in 1..Len(queue) : queue'[i] = queue[i] /\ queue[i] \in Calls \ {c}
    <3>1. queue \in Seq(Calls) /\ queue' = Append(queue, c)
      BY <1>9 DEF DeliveryInv, DeliveryTypeOK
    <3> HIDE DEF deliver
    <3>2. \A i \in 1..Len(queue) : queue[i] # c
      BY <1>p, ChainFacts DEF DeliveryInv
    <3>3. QED
      BY <3>1, <3>2
  <2>d. \A i, j \in 1..Len(queue) : queue[i] = queue[j] => i = j
    BY DEF DeliveryInv, DeliveryTypeOK, ChainAgrees
  <2>2. \A i, j \in 1..m : queue'[i] = queue'[j] => i = j
    <3> SUFFICES ASSUME NEW i \in 1..m, NEW j \in 1..m, queue'[i] = queue'[j] PROVE i = j
      OBVIOUS
    <3>1. (i = m \/ i \in 1..Len(queue)) /\ (j = m \/ j \in 1..Len(queue))
      BY <2>q
    <3>2. QED
      BY <3>1, <2>q, <2>d
  <2>3. ASSUME NEW d \in Calls
        PROVE  /\ (\E i \in 1..m : queue'[i] = d) <=> phase'[d] \notin {"new", "settled"}
               /\ phase'[d] = "settled" <=> result'[d].status # "pending"
               /\ writeCount[d] <= Len(Writes(request'[d]))
    <3>1. CASE d = c
      <4> HIDE DEF deliver
      <4>1. \E i \in 1..m : queue'[i] = c
        BY <2>q
      <4>2. writeCount[c] <= Len(Writes(request'[c]))
        BY <1>p, <1>w
      <4>3. QED
        BY <3>1, <4>1, <4>2, <2>1, <1>p
    <3>2. CASE d # c
      <4>1. (\E i \in 1..m : queue'[i] = d) <=> (\E i \in 1..Len(queue) : queue[i] = d)
        <5>1. ASSUME NEW i \in 1..m, queue'[i] = d
              PROVE  i \in 1..Len(queue) /\ queue[i] = d
          BY <5>1, <3>2, <2>q
        <5>2. ASSUME NEW i \in 1..Len(queue), queue[i] = d
              PROVE  i \in 1..m /\ queue'[i] = d
          BY <5>2, <2>q
        <5>3. QED
          BY ONLY <5>1, <5>2
      <4> HIDE DEF deliver
      <4>2. QED
        BY <3>2, <4>1, <1>o, ChainFacts DEF DeliveryInv
    <3>3. QED
      BY <3>1, <3>2
  <2>4. ChainAgrees'
    <3> HIDE DEF deliver, m
    <3>1. QED
      BY <2>q, <2>2, <2>3, <1>p DEF ChainAgrees
  <2>5. /\ request' \in [Calls -> Requests] /\ captured' \in [Calls -> Nat]
        /\ operationIds' \subseteq OperationIds
    BY <1>p, <2>1 DEF DeliveryInv, DeliveryTypeOK, Requests
  <2>6. DeliveryTypeOK'
    BY <2>q, <2>4, <2>5, <1>p DEF DeliveryInv, DeliveryTypeOK
  <2>7. OnlyHeadRuns'
    <3> SUFFICES ASSUME NEW i \in 1..m, i # 1 PROVE phase'[queue'[i]] = "queued"
      BY <2>q DEF OnlyHeadRuns
    <3>1. CASE i = m
      BY <3>1, <2>1, <2>q
    <3>2. CASE i \in 1..Len(queue)
      BY <3>2, <2>q, <1>o DEF DeliveryInv, OnlyHeadRuns
    <3>3. QED
      BY <3>1, <3>2, <2>q
  <2>8. IdsAgree'
    <3>1. \A d \in Calls \ {c} : (Entered(d)' <=> Entered(d)) /\ request'[d] = request[d]
      BY <1>p, <1>o DEF Entered
    <3>2. \A d \in Calls : Entered(d)' => request'[d].id \in operationIds'
      BY <3>1, <2>1, <1>w DEF DeliveryInv, IdsAgree
    <3>3. \A d \in Calls \ {c} : Entered(d)' => request'[d].id # request'[c].id
      BY <3>1, <2>1, <1>w DEF DeliveryInv, IdsAgree
    <3>4. QED
      BY <3>1, <3>2, <3>3 DEF DeliveryInv, IdsAgree
  <2>9. QED
    BY <2>6, <2>7, <2>8, <1>3, <1>4, <1>5, <1>6, <1>7 DEF DeliveryInv
<1>10. QED
  BY <1>8, <1>9

\* The answer of the catch is one the call has earned.
LEMMA CaughtResult ==
    ASSUME DeliveryTypeOK, NEW c \in Calls
    PROVE  /\ caught(c) \in Results /\ caught(c).status \in {"not-sent", "uncertain"}
           /\ caught(c).status = "not-sent" => writeCount[c] = 0
<1>1. stage[c] \in {"write", "pacing"}
  BY DEF DeliveryTypeOK
<1>2. QED
  BY <1>1 DEF caught, NotSent, Results, Statuses, Reasons

\* One turn of deliverOne, between two of its awaits.
LEMMA ControllerKeeps ==
    ASSUME DeliveryInv, NEW c \in Calls, Controller(c)
    PROVE  DeliveryInv'
<1>c. /\ caught(c) \in Results /\ caught(c).status \in {"not-sent", "uncertain"}
      /\ caught(c).status = "not-sent" => writeCount[c] = 0
  BY CaughtResult DEF DeliveryInv
<1>t. /\ stage \in [Calls -> {"write", "pacing"}] /\ writeCount[c] \in Nat
      /\ Len(Writes(request[c])) \in Nat /\ Len(Writes(request[c])) >= 1
      /\ writeCount[c] <= Len(Writes(request[c]))
  BY WritesType, ChainFacts DEF DeliveryInv, DeliveryTypeOK
<1>n. /\ phase[c] \in {"new", "queued"} => writeCount[c] = 0
      /\ phase[c] \in Unfinished => writeCount[c] < Len(Writes(request[c]))
  BY DEF DeliveryInv, CountsAgree
<1>s. ASSUME phase[c] \in Started, Running(c), settles(c, caught(c))
      PROVE  DeliveryInv'
  BY <1>s, <1>c, SettlesKeeps DEF Started
<1>1. CASE deliverOne(c)
  <2>1. CASE Unsendable(c) # "none"
    <3>1. /\ NotSent(Unsendable(c)) \in Results
          /\ NotSent(Unsendable(c)).status = "not-sent"
      BY DEF NotSent, Results, Unsendable, Statuses, Reasons
    <3>2. QED
      BY <1>1, <2>1, <3>1, <1>n, SettlesKeeps DEF deliverOne
  <2>2. CASE Unsendable(c) = "none"
    <3>1. isCurrent(c)
      BY <2>2 DEF Unsendable, isCurrent
    <3>2. QED
      BY <1>1, <2>2, <3>1, <1>n, <1>t, IssuesKeeps DEF deliverOne
  <2>3. QED
    BY <2>1, <2>2
<1>2. CASE write(c)
  <2>1. CASE isCurrent(c)
    BY <1>2, <2>1, <1>n, IssuesKeeps DEF write, Unfinished
  <2>2. CASE ~isCurrent(c)
    BY <1>2, <2>2, <1>s DEF write, Started
  <2>3. QED
    BY <2>1, <2>2
<1>3. CASE wrote(c)
  <2>1. CASE isCurrent(c)
    <3> DEFINE q == AfterWrite(c)
    <3>1. q \in {"finished", "pause", "write"}
      BY DEF AfterWrite
    <3>2. /\ q \in Unfinished => writeCount[c] < Len(Writes(request[c]))
          /\ q = "finished" => writeCount[c] = Len(Writes(request[c]))
      BY <1>t DEF AfterWrite, Unfinished
    <3>3. Moves(c, q) /\ pty' = pty
      BY <1>3, <2>1, <1>t DEF wrote, enters, Moves, transportVars, callVars
    <3>4. phase[c] = "wrote"
      BY <1>3 DEF wrote
    <3> HIDE DEF q
    <3>5. q \in Started /\ q # "writing" /\ phase[c] \in Started /\ phase[c] \in Acked
      BY <3>1, <3>4 DEF Started, Acked
    <3>6. QED
      BY <3>2, <3>3, <3>5, QuietMoveKeeps
  <2>2. CASE ~isCurrent(c)
    BY <1>3, <2>2, <1>s DEF wrote, Started
  <2>3. QED
    BY <2>1, <2>2
<1>4. CASE pause(c)
  <2>1. CASE isCurrent(c)
    <3>1. Moves(c, "sleeping") /\ pty' = pty
      BY <1>4, <2>1, <1>t DEF pause, Moves, transportVars, callVars
    <3>2. phase[c] = "pause" /\ "sleeping" \in Started /\ phase[c] \in Started
      BY <1>4 DEF pause, Started
    <3>3. phase[c] \in Acked /\ phase[c] \in Unfinished
      BY <3>2 DEF Acked, Unfinished
    <3>4. QED
      BY <3>1, <3>2, <3>3, <1>n, QuietMoveKeeps
  <2>2. CASE ~isCurrent(c)
    BY <1>4, <2>2, <1>s DEF pause, Started
  <2>3. QED
    BY <2>1, <2>2
<1>5. CASE slept(c)
  <2>1. CASE isCurrent(c)
    <3>1. Moves(c, "write") /\ pty' = pty
      BY <1>5, <2>1, <1>t DEF slept, enters, Moves, transportVars, callVars
    <3>2. phase[c] = "slept" /\ "write" \in Started /\ phase[c] \in Started
      BY <1>5 DEF slept, Started
    <3>3. phase[c] \in Acked /\ phase[c] \in Unfinished
      BY <3>2 DEF Acked, Unfinished
    <3>4. QED
      BY <3>1, <3>2, <3>3, <1>n, QuietMoveKeeps
  <2>2. CASE ~isCurrent(c)
    BY <1>5, <2>2, <1>s DEF slept, Started
  <2>3. QED
    BY <2>1, <2>2
<1>6. CASE rejected(c)
  BY <1>6, <1>s DEF rejected, Started
<1>7. CASE finished(c)
  <2>1. /\ Delivered(c) \in Results /\ Delivered(c).status = "delivered"
    BY <1>t DEF Delivered, Results, Statuses, Reasons
  <2>2. QED
    BY <1>7, <2>1, SettlesKeeps DEF finished
<1>8. QED
  BY <1>1, <1>2, <1>3, <1>4, <1>5, <1>6, <1>7 DEF Controller

\* The bridge settles a write, or a pause ends.
LEMMA EffectsKeep ==
    ASSUME DeliveryInv, NEW c \in Calls, Effects(c)
    PROVE  DeliveryInv'
<1>t. stage \in [Calls -> {"write", "pacing"}]
  BY DEF DeliveryInv, DeliveryTypeOK
<1>1. CASE acknowledges(c)
  <2>1. Moves(c, "wrote") /\ pty' = Append(pty, Landed(c, TRUE)) /\ phase[c] = "writing"
    BY <1>1, <1>t DEF acknowledges, Moves, transportVars, callVars
  <2>2. QED
    BY <2>1, LandsKeeps
<1>2. CASE rejects(c)
  <2>1. Moves(c, "rejected") /\ phase[c] = "writing"
    BY <1>2, <1>t DEF rejects, Moves, transportVars, callVars
  <2>2. CASE pty' = pty
    <3>1. phase[c] \in Started /\ "rejected" \in Started
      BY <2>1 DEF Started
    <3>2. "rejected" \notin Acked /\ "rejected" \notin Unfinished
      BY DEF Acked, Unfinished
    <3>3. QED
      BY <2>1, <2>2, <3>1, <3>2, QuietMoveKeeps
  <2>3. ASSUME NEW w \in BOOLEAN, pty' = Append(pty, Landed(c, w)) PROVE DeliveryInv'
    BY <2>1, <2>3, LandsKeeps
  <2>4. pty' = pty \/ \E w \in BOOLEAN : pty' = Append(pty, Landed(c, w))
    BY <1>2 DEF rejects
  <2>5. QED
    BY <2>2, <2>3, <2>4
<1>3. CASE sleeps(c)
  <2>1. PICK q \in {"slept", "rejected"} : phase' = [phase EXCEPT ![c] = q]
    BY <1>3 DEF sleeps
  <2>2. Moves(c, q) /\ pty' = pty /\ phase[c] = "sleeping"
    BY <1>3, <2>1, <1>t DEF sleeps, Moves, transportVars, callVars
  <2>3. phase[c] \in Started /\ q \in Started /\ phase[c] \in Acked /\ phase[c] \in Unfinished
    BY <2>2 DEF Started, Acked, Unfinished
  <2>4. writeCount[c] < Len(Writes(request[c]))
    BY <2>3 DEF DeliveryInv, CountsAgree
  <2>5. QED
    BY <2>2, <2>3, <2>4, QuietMoveKeeps
<1>4. QED
  BY <1>1, <1>2, <1>3 DEF Effects

\* A change of the transport touches only its own two fields.
LEMMA TransportKeeps ==
    ASSUME DeliveryInv, NEW state \in TransportStates, setTransportState(state)
    PROVE  DeliveryInv'
<1> USE DEF setTransportState
<1>1. generation' \in Nat
  BY DEF DeliveryInv, DeliveryTypeOK
<1>2. DeliveryTypeOK'
  BY <1>1 DEF DeliveryInv, DeliveryTypeOK, ChainAgrees
<1>3. OnlyHeadRuns' /\ CountsAgree' /\ EntriesAgree' /\ BehindPrefix' /\ OvertakenIsSettled' /\ Serialized'
  BY DEF DeliveryInv, OnlyHeadRuns, CountsAgree, EntriesAgree, BehindPrefix, OvertakenIsSettled, Serialized
<1>4. Acknowledged' /\ IdsAgree'
  BY DEF DeliveryInv, Acknowledged, Done, Entry, IdsAgree, Entered
<1>5. QED
  BY <1>2, <1>3, <1>4 DEF DeliveryInv

\* Every step of the controller, its callers, its transport and its bridge
\* keeps the invariant.
LEMMA DeliveryNextKeeps == DeliveryInv /\ [DeliveryNext]_deliveryVars => DeliveryInv'
<1> SUFFICES ASSUME DeliveryInv, [DeliveryNext]_deliveryVars PROVE DeliveryInv'
  OBVIOUS
<1>1. ASSUME NEW state \in TransportStates, setTransportState(state) PROVE DeliveryInv'
  BY <1>1, TransportKeeps
<1>2. ASSUME NEW c \in Calls, NEW r \in Requests, deliver(c, r) PROVE DeliveryInv'
  BY <1>2, DeliverKeeps
<1>3. ASSUME NEW c \in Calls, Controller(c) PROVE DeliveryInv'
  BY <1>3, ControllerKeeps
<1>4. ASSUME NEW c \in Calls, Effects(c) PROVE DeliveryInv'
  BY <1>4, EffectsKeep
<1>5. CASE UNCHANGED deliveryVars
  BY <1>5 DEF deliveryVars, DeliveryInv, DeliveryTypeOK, ChainAgrees, OnlyHeadRuns, CountsAgree, EntriesAgree,
              Acknowledged, Done, Entry, BehindPrefix, OvertakenIsSettled, Serialized,
              IdsAgree, Entered
<1>6. QED
  BY <1>1, <1>2, <1>3, <1>4, <1>5 DEF DeliveryNext

\* The inductive invariant holds in every state of the specification.
LEMMA AlwaysDeliveryInv == DeliverySpec => []DeliveryInv
  BY InitDeliveryInv, DeliveryNextKeeps, PTL DEF DeliverySpec

\* The chain of composerSend.ts holds exactly the sends not yet answered, for
\* any number of them.
THEOREM DeliveryTypesHold == DeliverySpec => []DeliveryTypeOK
<1>1. DeliveryInv => DeliveryTypeOK
  BY DEF DeliveryInv
<1>2. QED
  BY <1>1, AlwaysDeliveryInv, PTL

\* deliverOne reports delivered, and so clears the draft, only when every
\* write was acknowledged on the generation the user sent on.
THEOREM ClearsAreEarned == DeliverySpec => []ClearIsEarned
<1>1. DeliveryInv => ClearIsEarned
  BY DEF DeliveryInv, Acknowledged, Done, ClearIsEarned, Draft
<1>2. QED
  BY <1>1, AlwaysDeliveryInv, PTL

\* failIfStale fences every write: none reaches another generation's PTY.
THEOREM NothingSlips == DeliverySpec => []OneGeneration
<1>1. DeliveryInv => OneGeneration
  BY DEF DeliveryInv, EntriesAgree, OneGeneration
<1>2. QED
  BY <1>1, AlwaysDeliveryInv, PTL

\* A send answered not-sent put nothing on the PTY.
THEOREM NotSentSentNothing == DeliverySpec => []NotSentIsNothing
<1>1. DeliveryInv => NotSentIsNothing
  <2> SUFFICES ASSUME DeliveryInv, NEW c \in Calls, result[c].status = "not-sent",
                      NEW i \in 1..Len(pty), pty[i].call = c
               PROVE  FALSE
    BY DEF NotSentIsNothing
  <2>1. writeCount[c] = 0
    BY DEF DeliveryInv, CountsAgree
  <2>2. pty[i].index \in 1..writeCount[c]
    BY DEF DeliveryInv, EntriesAgree
  <2>3. QED
    BY <2>1, <2>2
<1>2. QED
  BY <1>1, AlwaysDeliveryInv, PTL

\* One operation id, one call's bytes.
THEOREM IdsAreSentOnce == DeliverySpec => []SentOnce
<1>1. DeliveryInv => SentOnce
  <2> SUFFICES ASSUME DeliveryInv, NEW i \in 1..Len(pty), NEW j \in 1..Len(pty),
                      request[pty[i].call].id = request[pty[j].call].id
               PROVE  pty[i].call = pty[j].call
    BY DEF SentOnce
  <2>1. /\ pty[i].call \in Calls /\ pty[j].call \in Calls
        /\ writeCount[pty[i].call] \in Nat /\ writeCount[pty[j].call] \in Nat
    BY EntryType DEF DeliveryInv, DeliveryTypeOK
  <2>2. writeCount[pty[i].call] > 0 /\ writeCount[pty[j].call] > 0
    BY <2>1 DEF DeliveryInv, EntriesAgree
  <2>3. QED
    BY <2>1, <2>2 DEF DeliveryInv, IdsAgree, Entered
<1>2. QED
  BY <1>1, AlwaysDeliveryInv, PTL

\* The promise chain keeps the prompts apart and in order on the PTY.
THEOREM PromptsAreSerialized == DeliverySpec => []Serialized
<1>1. DeliveryInv => Serialized
  BY DEF DeliveryInv
<1>2. QED
  BY <1>1, AlwaysDeliveryInv, PTL

\* Enter is pressed only behind the whole body.
THEOREM EnterFollowsBody == DeliverySpec => []EnterAfterBody
<1>1. DeliveryInv => EnterAfterBody
  BY DEF DeliveryInv, BehindPrefix, EnterAfterBody
<1>2. QED
  BY <1>1, AlwaysDeliveryInv, PTL

\* The PTY carries each prompt once, in one piece and in its order.
THEOREM PtyStaysInOrder == DeliverySpec => []PtyInOrder
<1>1. DeliveryTypeOK /\ SentOnce /\ Serialized /\ EnterAfterBody => PtyInOrder
  BY DEF PtyInOrder
<1>2. QED
  BY <1>1, DeliveryTypesHold, IdsAreSentOnce, PromptsAreSerialized, EnterFollowsBody, PTL
=============================================================================
