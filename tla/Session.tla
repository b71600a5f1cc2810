------------------------------ MODULE Session ------------------------------
(***************************************************************************)
(* Who may command the board: BLE links, the pool of sessions behind them, *)
(* challenge-response authentication, the enrolled keys and how they reach *)
(* flash, ownership transfer and factory reset.                            *)
(*                                                                         *)
(* The NimBLE host task runs connection events and requests one at a time, *)
(* each to its end.  app_task saves the keystore, or wipes the flash, in   *)
(* steps of its own on the other core; nothing locks the keystore.  Power  *)
(* may be cut between any two steps.  A phone is named by its key.         *)
(*                                                                         *)
(* The debounce of the keystore save is a delay of any length.  Of the     *)
(* lock only what a change of owner is about is kept: whether it has the   *)
(* owner's settings.  Its own save is a part of the request here (that it  *)
(* may fail is in module Device).                                          *)
(***************************************************************************)
EXTENDS Keystore

CONSTANTS
  Handles,      \* the connection handles of the controller
  MaxSessions,  \* MC_BLE_MAX_SESSIONS
  MaxNonce      \* bound: the challenges issued

\* sdkconfig leaves NimBLE at its default of as many links as sessions.
ASSUME SessionAssumption ==
  /\ MaxSessions \in Nat
  /\ MaxNonce \in Nat
  /\ Handles = 1 .. MaxSessions

VARIABLES
  links,     \* the phone behind each connection handle
  pool,      \* s_sessions
  keystore,  \* s_keystore
  lock,      \* s_lock: "default" or "configured"
  dirty,     \* s_persist_keystore.dirty
  save,      \* nvs_keystore_save() under way in app_task
  nvs,       \* the keystore and lock blobs in flash
  wiping,    \* perform_reset() in app_task: the last blob it was to erase
  kept,      \* history: the erase of the keystore has failed
  issued,    \* the challenges drawn from the random generator
  heard,     \* the challenges each phone has received
  asked,     \* history: the open challenge of each link
  vouched,   \* history: the links whose phone has answered theirs
  astray     \* history: keystore and flash may differ with nothing owed

ble == <<links, pool, issued, heard, asked, vouched>>
keys == <<keystore, dirty, astray>>
reset == <<wiping, kept>>
app == <<save, reset>>
vars == <<ble, keys, app, lock, nvs>>

NoPhone == NoKey
NoNonce == 0
Challenges == 1 .. MaxNonce

Pool == 1 .. MaxSessions
States == {"UNAUTH", "CHALLENGED", "AUTHED"}
SessionRecord ==
  [active : BOOLEAN, handle : Handles \cup {0}, state : States, nonce : 0 .. MaxNonce]

\* mc_session_init(), and the zeroes a freed entry is left with.
Fresh(active, handle) ==
  [active |-> active, handle |-> handle, state |-> "UNAUTH", nonce |-> NoNonce]

SaveSteps == {"none", "copying", "writing"}
NoSave == [step |-> "none", blob |-> EmptyKeystore]

NoLinks == [h \in Handles |-> NoPhone]
FreePool == [i \in Pool |-> Fresh(FALSE, 0)]

Init ==
  /\ links = NoLinks
  /\ pool = FreePool
  /\ keystore = EmptyKeystore
  /\ lock = "default"
  /\ dirty = FALSE
  /\ save = NoSave
  /\ nvs = [keys |-> EmptyKeystore, lock |-> "default"]
  /\ wiping = "no"
  /\ kept = FALSE
  /\ issued = 0
  /\ heard = [key \in Keys |-> {}]
  /\ asked = [h \in Handles |-> NoNonce]
  /\ vouched = {}
  /\ astray = FALSE

-----------------------------------------------------------------------------
(* Connections                                                             *)

Inactive == {i \in Pool : ~pool[i].active}

\* session_for() takes the first entry of a handle.
Entries(h) == {i \in Pool : pool[i].active /\ pool[i].handle = h}
EntryOf(h) == CHOOSE i \in Entries(h) : IsFirst(i, Entries(h))

\* gatt_svr_on_connect(): no free entry, no session.
Connect(phone, h) ==
  /\ links[h] = NoPhone
  /\ \A other \in Handles : links[other] # phone
  /\ links' = [links EXCEPT ![h] = phone]
  /\ \/ Inactive = {} /\ pool' = pool
     \/ \E i \in Inactive :
          IsFirst(i, Inactive) /\ pool' = [pool EXCEPT ![i] = Fresh(TRUE, h)]
  /\ UNCHANGED <<issued, heard, asked, vouched, keys, app, lock, nvs>>

\* Mutant: the first entry in use is freed, the handles are not compared.
FreedFirst(h) ==
  [i \in Pool |-> IF IsFirst(i, Pool \ Inactive) THEN Fresh(FALSE, pool[i].handle) ELSE pool[i]]

Freed(h) ==
  [i \in Pool |-> IF IsFirst(i, Entries(h)) THEN Fresh(FALSE, pool[i].handle) ELSE pool[i]]

\* gatt_svr_on_disconnect(), for whatever reason the link is gone.
Disconnect(h) ==
  /\ links[h] # NoPhone
  /\ links' = [links EXCEPT ![h] = NoPhone]
  /\ pool' = Freed(h)
  /\ asked' = [asked EXCEPT ![h] = NoNonce]
  /\ vouched' = vouched \ {h}
  /\ UNCHANGED <<issued, heard, keys, app, lock, nvs>>

-----------------------------------------------------------------------------
(* Authentication: requests on link h                                      *)

HasSession(h) == links[h] # NoPhone /\ Entries(h) # {}
Authed(h) == pool[EntryOf(h)].state = "AUTHED"

\* The phone may hear the challenge long after, or answer it twice.
AuthBegin(h) ==
  /\ HasSession(h)
  /\ issued < MaxNonce
  /\ issued' = issued + 1
  /\ pool' = [pool EXCEPT ![EntryOf(h)].state = "CHALLENGED", ![EntryOf(h)].nonce = issued + 1]
  /\ heard' = [heard EXCEPT ![links[h]] = @ \cup {issued + 1}]
  /\ asked' = [asked EXCEPT ![h] = issued + 1]
  /\ vouched' = vouched \ {h}
  /\ UNCHANGED <<links, keys, app, lock, nvs>>

\* Mutant: a signature under any challenge will do.
VerifiesUnchallenged(key, nonce, answered) == Holds(keystore, key)

\* mc_keystore_find_verifying() of a signature by key under "answered".
Verifies(key, nonce, answered) == Holds(keystore, key) /\ nonce = answered

\* on_session_authed_cb(): a bike found locked is unlocked and the lock saved.
AuthResponse(h, answered, unlocks) ==
  /\ HasSession(h)
  /\ answered \in heard[links[h]]
  /\ pool[EntryOf(h)].state = "CHALLENGED"
  /\ LET ok == Verifies(links[h], pool[EntryOf(h)].nonce, answered)
     IN  /\ pool' = [pool EXCEPT ![EntryOf(h)].state = IF ok THEN "AUTHED" ELSE "UNAUTH",
                                 ![EntryOf(h)].nonce = NoNonce]
         /\ unlocks => ok /\ lock = "configured"
  /\ nvs' = IF unlocks THEN [nvs EXCEPT !.lock = lock] ELSE nvs
  /\ vouched' = IF answered = asked[h] /\ Holds(keystore, links[h])
                THEN vouched \cup {h} ELSE vouched
  /\ asked' = [asked EXCEPT ![h] = NoNonce]
  /\ UNCHANGED <<links, issued, heard, keys, app, lock>>

-----------------------------------------------------------------------------
(* Keys and ownership: requests on link h                                  *)

\* A slot that changes while it is copied is in the blob as it was, as it is or
\* half of each.
Mixtures(old, new) ==
  {blob \in Keystores : \A s \in KeySlots :
     blob[s] \in IF old[s] = new[s] THEN {new[s]} ELSE {old[s], new[s], TornKey}}

\* The copy takes microseconds: one change may overlap it, never two.
Overlapped(ks) ==
  IF save.step = "copying"
  THEN {[step |-> "writing", blob |-> blob] : blob \in Mixtures(save.blob, ks)}
  ELSE {save}

\* persist_keystore_cb() after a change of the keys.
Changed(ks) ==
  /\ keystore' = ks
  /\ save' \in Overlapped(ks)
  /\ dirty' = TRUE
  /\ astray' = (astray \/ save.step # "none")

\* Mutant: whoever has asked for a challenge.
MayEnrollChallenged(h) ==
  \/ SlotsOf(keystore, NoKey) = KeySlots
  \/ pool[EntryOf(h)].state # "UNAUTH"

\* The first key of an empty keystore, or a further one by an owner.
MayEnroll(h) ==
  \/ SlotsOf(keystore, NoKey) = KeySlots
  \/ Authed(h)

Enroll(h, key, slot) ==
  /\ HasSession(h)
  /\ MayEnroll(h)
  /\ Adds(keystore, key, slot)
  /\ Changed(Add(keystore, key, slot))
  /\ UNCHANGED <<ble, reset, lock, nvs>>

Revoke(h, slot) ==
  /\ HasSession(h)
  /\ Authed(h)
  /\ keystore[slot] # NoKey
  /\ Changed(Remove(keystore, slot))
  /\ UNCHANGED <<ble, reset, lock, nvs>>

\* The lock is saved at once, the wiped keystore marked.
Transfer(h) ==
  /\ HasSession(h)
  /\ Authed(h)
  /\ Changed(EmptyKeystore)
  /\ lock' = "default"
  /\ nvs' = [nvs EXCEPT !.lock = "default"]
  /\ UNCHANGED <<ble, reset>>

\* Any of the lock requests that change it, saved at once.
LockCommand(h) ==
  /\ HasSession(h)
  /\ Authed(h)
  /\ lock' = "configured"
  /\ nvs' = [nvs EXCEPT !.lock = "configured"]
  /\ UNCHANGED <<ble, keys, app>>

-----------------------------------------------------------------------------
(* app_task                                                                *)

\* Mutant: the reset does not hold up the loop.
LoopRunsOn == save.step = "none"

LoopRuns == save.step = "none" /\ wiping = "no"

\* The debounce has elapsed: mc_keystore_serialize() begins to copy.
SaveBegin ==
  /\ LoopRuns
  /\ dirty
  /\ save' = [step |-> "copying", blob |-> keystore]
  /\ astray' = FALSE
  /\ UNCHANGED <<ble, keystore, dirty, reset, lock, nvs>>

SaveCopied ==
  /\ save.step = "copying"
  /\ save' = [save EXCEPT !.step = "writing"]
  /\ UNCHANGED <<ble, keys, reset, lock, nvs>>

\* Mutant: flushed, whatever nvs_set_blob() and nvs_commit() say.
StillDirtyNever(written) == FALSE

StillDirty(written) == IF written THEN FALSE ELSE dirty

\* nvs_commit() has returned; mc_persist_mark_flushed() if it succeeded.
SaveEnd(written) ==
  /\ save.step = "writing"
  /\ nvs' = IF written THEN [nvs EXCEPT !.keys = save.blob] ELSE nvs
  /\ dirty' = StillDirty(written)
  /\ save' = NoSave
  /\ UNCHANGED <<ble, keystore, astray, reset, lock>>

\* BOOT has been held: perform_reset() erases the keystore, then the lock.  It
\* looks at no result: what cannot be erased stays.
WipeKeys(erased) ==
  /\ LoopRuns
  /\ nvs' = IF erased THEN [nvs EXCEPT !.keys = EmptyKeystore] ELSE nvs
  /\ wiping' = "keys"
  /\ kept' = ~erased
  /\ UNCHANGED <<ble, keys, save, lock>>

WipeLock(erased) ==
  /\ wiping = "keys"
  /\ nvs' = IF erased THEN [nvs EXCEPT !.lock = "default"] ELSE nvs
  /\ wiping' = "lock"
  /\ UNCHANGED <<ble, keys, save, kept, lock>>

-----------------------------------------------------------------------------
(* Restarts                                                                *)

\* app_main() on what flash holds; a keystore it cannot read is an empty one.
Boot(readable) ==
  /\ links' = NoLinks
  /\ pool' = FreePool
  /\ asked' = [h \in Handles |-> NoNonce]
  /\ vouched' = {}
  /\ keystore' = IF readable THEN nvs'.keys ELSE EmptyKeystore
  /\ lock' = nvs.lock
  /\ dirty' = FALSE
  /\ save' = NoSave
  /\ wiping' = "no"
  /\ kept' = FALSE
  /\ astray' = ~readable
  /\ UNCHANGED <<issued, heard>>

\* A blob being written is in flash as a whole, or the one before it is.
PowerCut(readable, landed) ==
  /\ nvs' = IF landed /\ save.step = "writing" THEN [nvs EXCEPT !.keys = save.blob] ELSE nvs
  /\ Boot(readable)

\* esp_restart() after the event log, too, is erased.
Restart ==
  /\ wiping = "lock"
  /\ UNCHANGED nvs
  /\ Boot(TRUE)

-----------------------------------------------------------------------------
Request(h) ==
  \/ AuthBegin(h)
  \/ \E answered \in Challenges, unlocks \in BOOLEAN : AuthResponse(h, answered, unlocks)
  \/ \E key \in Keys, slot \in KeySlots : Enroll(h, key, slot)
  \/ \E slot \in KeySlots : Revoke(h, slot)
  \/ Transfer(h)
  \/ LockCommand(h)

Link(h) ==
  \/ \E phone \in Keys : Connect(phone, h)
  \/ Disconnect(h)
  \/ Request(h)

AppTask ==
  \/ SaveBegin
  \/ SaveCopied
  \/ \E written \in BOOLEAN : SaveEnd(written)
  \/ \E erased \in BOOLEAN : WipeKeys(erased) \/ WipeLock(erased)

Next ==
  \/ \E h \in Handles : Link(h)
  \/ AppTask
  \/ \E readable, landed \in BOOLEAN : PowerCut(readable, landed)
  \/ Restart

Spec == Init /\ [][Next]_vars

-----------------------------------------------------------------------------
(* Properties                                                              *)

\* The state is well-formed, and app_task does one thing at a time: it never
\* writes the keystore it is erasing.
TypeOK ==
  /\ links \in [Handles -> Keys \cup {NoPhone}]
  /\ pool \in [Pool -> SessionRecord]
  /\ keystore \in Keystores
  /\ lock \in {"default", "configured"}
  /\ dirty \in BOOLEAN
  /\ save \in [step : SaveSteps, blob : Keystores]
  /\ nvs \in [keys : Keystores, lock : {"default", "configured"}]
  /\ wiping \in {"no", "keys", "lock"}
  /\ wiping # "no" => save.step = "none"
  /\ kept \in BOOLEAN
  /\ issued \in 0 .. MaxNonce
  /\ heard \in [Keys -> SUBSET Challenges]
  /\ asked \in [Handles -> 0 .. MaxNonce]
  /\ vouched \subseteq Handles
  /\ astray \in BOOLEAN

\* However links come and go, every one has its own session and no session is
\* left behind: no phone is connected and ignored, none inherits an entry.
OneSessionPerLink ==
  /\ \A i \in Pool :
       pool[i].active => pool[i].handle \in Handles /\ links[pool[i].handle] # NoPhone
  /\ \A i, j \in Pool :
       pool[i].active /\ pool[j].active /\ pool[i].handle = pool[j].handle => i = j
  /\ \A h \in Handles : links[h] # NoPhone => Entries(h) # {}

\* A session is authenticated only if the phone of this very connection has
\* answered the challenge last issued on it (PROTOCOL.md section 3.3, 5): not
\* by an answer that is late, repeated or meant for an earlier connection.
AuthedOnThisLink ==
  \A i \in Pool : pool[i].active /\ pool[i].state = "AUTHED" => pool[i].handle \in vouched

\* No key sits in two slots, in use or in flash: revoking the slot the phone
\* shows removes the key.
KeysOnce ==
  \A key \in Keys, s, t \in KeySlots : keystore[s] = key /\ keystore[t] = key => s = t

\* A well-formed board: a session a link, a slot a key.
SessionSound == TypeOK /\ OneSessionPerLink /\ KeysOnce

\* A change of the keys is in flash or is owed to it, whatever writes fail and
\* wherever power is cut, but for the two gaps the code has: a change that
\* overtakes a running save, and a boot that could not read the blob.  A reset
\* that is erasing the flash does not owe it anything.
KeysOwed == wiping = "no" /\ keystore # nvs.keys => dirty \/ astray

NewKey == \E key \in Keys : Holds(keystore', key) /\ ~Holds(keystore, key)
Configures == nvs.lock # "configured" /\ nvs'.lock = "configured"

\* The links whose request this step is.
Actors == {h \in Handles : Request(h)}
ByOwner == Actors # {} /\ Actors \subseteq vouched'

\* A new key enters on a link whose own phone has answered a challenge there as
\* an owner, into an empty keystore, or back from flash with a restart; and only
\* such a link puts a lock configuration into flash.  Another phone's session
\* does not count, and no reset that is under way, save or late reply does it.
OwnersRule ==
  [][/\ NewKey => \/ keystore = EmptyKeystore
                  \/ keystore' = nvs'.keys /\ links' = NoLinks
                  \/ ByOwner
     /\ Configures => ByOwner]_vars

\* No key enrolled before a factory reset is there after it, not even one that a
\* save or a phone still connected has in hand while the flash is erased: but
\* for an erase that has failed, which perform_reset() does not notice.
ResetForgets == [][Restart /\ ~kept => keystore' = EmptyKeystore]_vars

=============================================================================
