---------------------------- MODULE AccountVault ----------------------------
(***************************************************************************)
(* What the key vault promises its account: one vault at a time, whose     *)
(* index changes by whole operations, each applied to the index it finds.  *)
(* How clients, slots and versions bring this about is in KeyVault.        *)
(***************************************************************************)
CONSTANTS
    Vaults,     \* ids of fresh vaults, each with its own data key
    Phrases,    \* vault passphrases
    Keys,       \* key ids
    Hosts,      \* account host aliases
    NoVault,
    NoPhrase,
    NoKey

VARIABLES
    vault,      \* the vault in force, or NoVault
    phrase,     \* the passphrase that opens it
    index,      \* its decrypted index
    used        \* the ids of all vaults there have been

vars == <<vault, phrase, index, used>>

\* The keys, the key each host is bound to, and whether the passphrase of the
\* account's settings is kept.
Index == [keys : SUBSET Keys, hosts : [Hosts -> Keys \union {NoKey}],
          sync : BOOLEAN]

EmptyIndex == [keys |-> {}, hosts |-> [h \in Hosts |-> NoKey], sync |-> FALSE]

WithKey(i, k) == [i EXCEPT !.keys = @ \union {k}]
WithoutKey(i, k) == [i EXCEPT !.keys = @ \ {k}]
Rotated(i, old, new) ==
    [i EXCEPT !.keys = @ \ {old},
              !.hosts = [h \in Hosts |-> IF @[h] = old THEN new ELSE @[h]]]
Bound(i, h, k) == [i EXCEPT !.hosts[h] = k]
WithSync(i, s) == [i EXCEPT !.sync = s]

\* An account without a vault, or one set up earlier and still empty.
Init ==
    /\ index = EmptyIndex
    /\ \/ vault = NoVault /\ phrase = NoPhrase /\ used = {}
       \/ vault \in Vaults /\ phrase \in Phrases /\ used = {vault}

\* A fresh vault replaces the one in force, if any; it starts without keys,
\* and its id is new.
Fresh ==
    \E v \in Vaults \ used, p \in Phrases, i \in Index :
        /\ i.keys = {}
        /\ vault' = v /\ phrase' = p /\ index' = i
        /\ used' = used \union {v}

\* The server deletes the vault.
Wipe ==
    /\ vault' = NoVault /\ phrase' = NoPhrase /\ index' = EmptyIndex
    /\ UNCHANGED used

\* Only the passphrase is replaced, never the index with it.
Rephrase ==
    /\ vault # NoVault
    /\ phrase' \in Phrases
    /\ UNCHANGED <<vault, index, used>>

\* One operation on the index in force.  A key that replaces another and a
\* key a host is bound to are keys the vault holds.
Edit ==
    /\ vault # NoVault
    /\ \/ \E k \in Keys : index' = WithKey(index, k)
       \/ \E k \in index.keys : index' = WithoutKey(index, k)
       \/ \E old \in Keys, new \in index.keys :
            old # new /\ index' = Rotated(index, old, new)
       \/ \E h \in Hosts, k \in index.keys : index' = Bound(index, h, k)
       \/ \E h \in Hosts : index' = Bound(index, h, NoKey)
       \/ \E s \in BOOLEAN : index' = WithSync(index, s)
    /\ UNCHANGED <<vault, phrase, used>>

Next == Fresh \/ Wipe \/ Rephrase \/ Edit

Spec == Init /\ [][Next]_vars
=============================================================================
