------------------------------ MODULE Keystore ------------------------------
(***************************************************************************)
(* The enrolled phone keys of mc_keystore.c, as operators on the slot      *)
(* table.  A label is wording and left out; a signature verifies under the *)
(* key that made it and no other.                                          *)
(***************************************************************************)
EXTENDS Naturals

CONSTANTS
  Keys,      \* the key pairs phones have made
  NoKey,     \* an unused slot
  TornKey,   \* a slot in use whose key is half that of some phone
  MaxKeys    \* MC_KEYSTORE_MAX_KEYS

ASSUME KeystoreAssumption ==
  /\ NoKey \notin Keys /\ TornKey \notin Keys
  /\ NoKey # TornKey
  /\ MaxKeys \in Nat \ {0}

KeySlots == 0 .. MaxKeys - 1
Keystores == [KeySlots -> Keys \cup {NoKey, TornKey}]

EmptyKeystore == [s \in KeySlots |-> NoKey]

\* The slots that hold a key; SlotsOf(ks, NoKey) are the free ones.
SlotsOf(ks, key) == {s \in KeySlots : ks[s] = key}
Holds(ks, key) == SlotsOf(ks, key) # {}

IsFirst(slot, slots) == slot \in slots /\ \A s \in slots : slot <= s

\* Mutant: the key itself is not searched for.
HomesFree(ks, key) == SlotsOf(ks, NoKey)

\* A key enrolled again keeps its slot, a new one takes the first free slot.
Homes(ks, key) == IF Holds(ks, key) THEN SlotsOf(ks, key) ELSE SlotsOf(ks, NoKey)
Adds(ks, key, slot) == IsFirst(slot, Homes(ks, key))
Add(ks, key, slot) == [ks EXCEPT ![slot] = key]

Remove(ks, slot) == [ks EXCEPT ![slot] = NoKey]
=============================================================================
