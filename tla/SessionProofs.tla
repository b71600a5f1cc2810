--------------------------- MODULE SessionProofs ---------------------------
(***************************************************************************)
(* Sessions and keys for any phones, number of sessions and of key slots.  *)
(*                                                                         *)
(* That an authenticated session answered the challenge of its own link    *)
(* needs two more facts: every link has exactly one session, and an open   *)
(* challenge in a session is the one last issued on its link.  That a      *)
(* change of the keys is owed to flash needs to know what a save under way *)
(* has copied; that a reset forgets every key, that nothing is saved under *)
(* it.                                                                     *)
(***************************************************************************)
EXTENDS Session, FiniteSetTheorems, TLAPS

\* A challenge a session waits for is the one last issued on its link.
ChallengesOpen ==
  \A i \in Pool :
    pool[i].active /\ pool[i].state = "CHALLENGED" => pool[i].nonce = asked[pool[i].handle]

LinksInv == OneSessionPerLink /\ AuthedOnThisLink /\ ChallengesOpen

Once(ks) ==
  \A key \in Keys, s, t \in KeySlots : ks[s] = key /\ ks[t] = key => s = t

\* A save under way is owed until it ends; it holds the keystore unless a
\* change has overtaken it, and one that is still copying was not overtaken.
SaveInv ==
  /\ save.step # "none" => dirty /\ (astray \/ save.blob = keystore)
  /\ save.step = "copying" => save.blob = keystore
  /\ Once(save.blob)
  /\ Once(nvs.keys)
  /\ wiping # "no" /\ ~kept => nvs.keys = EmptyKeystore

KeysInv == KeysOnce /\ SaveInv /\ KeysOwed

USE SessionAssumption, KeystoreAssumption DEF reset

-----------------------------------------------------------------------------
(* Types                                                                   *)

LEMMA FreshType ==
  ASSUME NEW active \in BOOLEAN, NEW h \in Handles \cup {0}
  PROVE  Fresh(active, h) \in SessionRecord
BY DEF Fresh, SessionRecord, States, NoNonce

LEMMA EmptyType == EmptyKeystore \in Keystores
BY DEF EmptyKeystore, Keystores

LEMMA FreePoolType == FreePool \in [Pool -> SessionRecord]
BY FreshType DEF FreePool

LEMMA NoSaveType == NoSave \in [step : SaveSteps, blob : Keystores]
BY EmptyType DEF NoSave, SaveSteps

LEMMA InitType == Init => TypeOK
<1> SUFFICES ASSUME Init PROVE TypeOK
  OBVIOUS
<1>1. pool \in [Pool -> SessionRecord]
  BY FreePoolType DEF Init
<1>2. keystore \in Keystores /\ nvs \in [keys : Keystores, lock : {"default", "configured"}]
  BY EmptyType DEF Init
<1>3. save \in [step : SaveSteps, blob : Keystores] /\ save.step = "none"
  BY NoSaveType DEF Init, NoSave
<1>4. /\ links \in [Handles -> Keys \cup {NoPhone}]
      /\ heard \in [Keys -> SUBSET Challenges]
      /\ asked \in [Handles -> 0 .. MaxNonce]
      /\ issued \in 0 .. MaxNonce
  BY DEF Init, NoLinks, NoNonce, Challenges
<1>5. /\ lock \in {"default", "configured"} /\ dirty \in BOOLEAN
      /\ wiping \in {"no", "keys", "lock"} /\ kept \in BOOLEAN
      /\ vouched \subseteq Handles /\ astray \in BOOLEAN
  BY DEF Init
<1> QED BY <1>1, <1>2, <1>3, <1>4, <1>5 DEF TypeOK

\* What a change of the keys may do to the types.
LEMMA ChangedType ==
  ASSUME TypeOK, NEW ks \in Keystores, Changed(ks)
  PROVE  /\ keystore' \in Keystores
         /\ dirty' \in BOOLEAN
         /\ astray' \in BOOLEAN
         /\ save' \in [step : SaveSteps, blob : Keystores]
         /\ save.step = "none" => save'.step = "none"
<1>1. save' \in [step : SaveSteps, blob : Keystores]
      /\ (save.step = "none" => save'.step = "none")
  <2>1. save' \in Overlapped(ks)
    BY DEF Changed
  <2>2. CASE save.step = "copying"
    <3>1. PICK blob \in Mixtures(save.blob, ks) : save' = [step |-> "writing", blob |-> blob]
      BY <2>1, <2>2, Zenon DEF Overlapped
    <3>2. blob \in Keystores
      BY DEF Mixtures
    <3> QED BY <2>2, <3>1, <3>2 DEF SaveSteps
  <2>3. CASE save.step # "copying"
    <3>1. save' = save
      BY <2>1, <2>3 DEF Overlapped
    <3> QED BY <3>1 DEF TypeOK
  <2> QED BY <2>2, <2>3
<1>2. keystore' = ks /\ dirty' = TRUE /\ astray' = (astray \/ save.step # "none")
  BY DEF Changed
<1> QED BY <1>1, <1>2 DEF TypeOK

\* Before a restart the types of what is in flash, after it those of the rest.
LEMMA BootType ==
  ASSUME TypeOK, NEW readable \in BOOLEAN, Boot(readable),
         nvs' \in [keys : Keystores, lock : {"default", "configured"}]
  PROVE  TypeOK'
<1>1. pool' \in [Pool -> SessionRecord]
  BY FreePoolType DEF Boot
<1>2. keystore' \in Keystores
  BY EmptyType DEF Boot
<1>3. save' \in [step : SaveSteps, blob : Keystores] /\ wiping' = "no"
  BY NoSaveType DEF Boot
<1>4. /\ links' \in [Handles -> Keys \cup {NoPhone}]
      /\ asked' \in [Handles -> 0 .. MaxNonce]
      /\ UNCHANGED <<issued, heard>>
  BY DEF Boot, NoLinks, NoNonce
<1>5. /\ lock' \in {"default", "configured"} /\ dirty' \in BOOLEAN
      /\ vouched' \subseteq Handles /\ astray' \in BOOLEAN /\ kept' \in BOOLEAN
  BY DEF Boot, TypeOK
<1> QED BY <1>1, <1>2, <1>3, <1>4, <1>5 DEF TypeOK

\* The types a request on the AUTH channel leaves in the pool.
LEMMA EntryType ==
  ASSUME TypeOK, NEW e, NEW state \in States, NEW nonce \in 0 .. MaxNonce
  PROVE  [pool EXCEPT ![e].state = state, ![e].nonce = nonce] \in [Pool -> SessionRecord]
<1>1. pool \in [Pool -> SessionRecord]
  BY DEF TypeOK
<1>2. \A i \in Pool : [[pool[i] EXCEPT !.state = state] EXCEPT !.nonce = nonce] \in SessionRecord
  BY <1>1 DEF SessionRecord
<1>3. CASE e \in Pool
  BY <1>1, <1>2, <1>3
<1>4. CASE e \notin Pool
  BY <1>1, <1>4
<1> QED BY <1>3, <1>4

LEMMA LinkType ==
  ASSUME TypeOK, NEW h \in Handles,
         (\E phone \in Keys : Connect(phone, h)) \/ Disconnect(h)
  PROVE  TypeOK'
<1>1. ASSUME NEW phone \in Keys, Connect(phone, h)
      PROVE  TypeOK'
  <2>1. pool' \in [Pool -> SessionRecord]
    <3>1. CASE pool' = pool
      BY <3>1 DEF TypeOK
    <3>2. ASSUME NEW i \in Pool, pool' = [pool EXCEPT ![i] = Fresh(TRUE, h)]
          PROVE  pool' \in [Pool -> SessionRecord]
      BY <3>2, FreshType DEF TypeOK
    <3> QED BY <1>1, <3>1, <3>2 DEF Connect, Inactive
  <2>2. links' \in [Handles -> Keys \cup {NoPhone}]
    BY <1>1 DEF Connect, TypeOK
  <2> QED BY <1>1, <2>1, <2>2 DEF Connect, TypeOK, keys, app
<1>2. CASE Disconnect(h)
  <2>1. pool' \in [Pool -> SessionRecord]
    <3>1. \A i \in Pool : Fresh(FALSE, pool[i].handle) \in SessionRecord
      BY FreshType DEF TypeOK, SessionRecord
    <3> QED BY <1>2, <3>1 DEF Disconnect, Freed, TypeOK
  <2>2. links' \in [Handles -> Keys \cup {NoPhone}] /\ asked' \in [Handles -> 0 .. MaxNonce]
    BY <1>2 DEF Disconnect, TypeOK, NoPhone, NoNonce
  <2> QED BY <1>2, <2>1, <2>2 DEF Disconnect, TypeOK, keys, app
<1> QED BY <1>1, <1>2

LEMMA AuthType ==
  ASSUME TypeOK, NEW h \in Handles,
         \/ AuthBegin(h)
         \/ \E answered \in Challenges, unlocks \in BOOLEAN : AuthResponse(h, answered, unlocks)
  PROVE  TypeOK'
<1>1. CASE AuthBegin(h)
  <2>1. issued + 1 \in Challenges
    BY <1>1 DEF AuthBegin, TypeOK, Challenges
  <2>2. pool' \in [Pool -> SessionRecord]
    <3>1. "CHALLENGED" \in States /\ issued + 1 \in 0 .. MaxNonce
      BY <2>1 DEF States, Challenges
    <3>2. pool' = [pool EXCEPT ![EntryOf(h)].state = "CHALLENGED", ![EntryOf(h)].nonce = issued + 1]
      BY <1>1 DEF AuthBegin
    <3> QED BY <3>1, <3>2, EntryType
  <2>3. heard' \in [Keys -> SUBSET Challenges]
    BY <1>1, <2>1 DEF AuthBegin, TypeOK
  <2>4. asked' \in [Handles -> 0 .. MaxNonce] /\ issued' \in 0 .. MaxNonce
    BY <1>1, <2>1 DEF AuthBegin, TypeOK, Challenges
  <2> QED BY <1>1, <2>2, <2>3, <2>4 DEF AuthBegin, TypeOK, keys, app
<1>2. ASSUME NEW answered \in Challenges, NEW unlocks \in BOOLEAN,
             AuthResponse(h, answered, unlocks)
      PROVE  TypeOK'
  <2>1. pool' \in [Pool -> SessionRecord]
    <3> DEFINE ok == Verifies(links[h], pool[EntryOf(h)].nonce, answered)
    <3>1. (IF ok THEN "AUTHED" ELSE "UNAUTH") \in States /\ NoNonce \in 0 .. MaxNonce
      BY DEF States, NoNonce
    <3>2. pool' = [pool EXCEPT ![EntryOf(h)].state = IF ok THEN "AUTHED" ELSE "UNAUTH",
                               ![EntryOf(h)].nonce = NoNonce]
      BY <1>2 DEF AuthResponse
    <3> HIDE DEF ok
    <3> QED BY <3>1, <3>2, EntryType
  <2>2. nvs' \in [keys : Keystores, lock : {"default", "configured"}]
    BY <1>2 DEF AuthResponse, TypeOK
  <2>3. asked' \in [Handles -> 0 .. MaxNonce] /\ vouched' \subseteq Handles
    BY <1>2 DEF AuthResponse, TypeOK, NoNonce
  <2> QED BY <1>2, <2>1, <2>2, <2>3 DEF AuthResponse, TypeOK, keys, app
<1> QED BY <1>1, <1>2

\* The requests on keys and ownership.
OwnerRequest(h) ==
  \/ \E key \in Keys, slot \in KeySlots : Enroll(h, key, slot)
  \/ \E slot \in KeySlots : Revoke(h, slot)
  \/ Transfer(h)
  \/ LockCommand(h)

LEMMA OwnerType ==
  ASSUME TypeOK, NEW h \in Handles, OwnerRequest(h)
  PROVE  TypeOK'
<1>1. ASSUME NEW key \in Keys, NEW slot \in KeySlots, Enroll(h, key, slot)
      PROVE  TypeOK'
  <2>1. Add(keystore, key, slot) \in Keystores
    BY DEF Add, Keystores, TypeOK
  <2>2. Changed(Add(keystore, key, slot)) /\ UNCHANGED <<ble, reset, lock, nvs>>
    BY <1>1 DEF Enroll
  <2> QED BY <2>1, <2>2, ChangedType DEF TypeOK, ble
<1>2. ASSUME NEW slot \in KeySlots, Revoke(h, slot)
      PROVE  TypeOK'
  <2>1. Remove(keystore, slot) \in Keystores
    BY <1>2 DEF Remove, Keystores, TypeOK, Revoke
  <2>2. Changed(Remove(keystore, slot)) /\ UNCHANGED <<ble, reset, lock, nvs>>
    BY <1>2 DEF Revoke
  <2> QED BY <2>1, <2>2, ChangedType DEF TypeOK, ble
<1>3. CASE Transfer(h)
  <2>1. Changed(EmptyKeystore) /\ UNCHANGED <<ble, reset>>
    BY <1>3 DEF Transfer
  <2>2. lock' \in {"default", "configured"}
        /\ nvs' \in [keys : Keystores, lock : {"default", "configured"}]
    BY <1>3 DEF Transfer, TypeOK
  <2> QED BY <2>1, <2>2, EmptyType, ChangedType DEF TypeOK, ble
<1>4. CASE LockCommand(h)
  BY <1>4 DEF LockCommand, TypeOK, ble, keys, app
<1> QED BY <1>1, <1>2, <1>3, <1>4 DEF OwnerRequest

LEMMA AppType ==
  ASSUME TypeOK, AppTask
  PROVE  TypeOK'
<1>1. CASE SaveBegin
  BY <1>1 DEF SaveBegin, LoopRuns, TypeOK, SaveSteps, ble
<1>2. CASE SaveCopied
  BY <1>2 DEF SaveCopied, TypeOK, SaveSteps, ble, keys
<1>3. ASSUME NEW written \in BOOLEAN, SaveEnd(written)
      PROVE  TypeOK'
  <2>1. nvs' \in [keys : Keystores, lock : {"default", "configured"}]
    BY <1>3 DEF SaveEnd, TypeOK
  <2> QED BY <1>3, <2>1, NoSaveType DEF SaveEnd, StillDirty, TypeOK, ble, NoSave
<1>4. ASSUME NEW erased \in BOOLEAN, WipeKeys(erased)
      PROVE  TypeOK'
  <2>1. nvs' \in [keys : Keystores, lock : {"default", "configured"}]
    BY <1>4, EmptyType DEF WipeKeys, TypeOK
  <2> QED BY <1>4, <2>1 DEF WipeKeys, LoopRuns, TypeOK, ble, keys
<1>5. ASSUME NEW erased \in BOOLEAN, WipeLock(erased)
      PROVE  TypeOK'
  <2>1. nvs' \in [keys : Keystores, lock : {"default", "configured"}]
    BY <1>5 DEF WipeLock, TypeOK
  <2> QED BY <1>5, <2>1 DEF WipeLock, TypeOK, ble, keys
<1> QED BY <1>1, <1>2, <1>3, <1>4, <1>5 DEF AppTask

LEMMA RestartType ==
  ASSUME TypeOK,
         (\E readable, landed \in BOOLEAN : PowerCut(readable, landed)) \/ Restart
  PROVE  TypeOK'
<1>1. ASSUME NEW readable \in BOOLEAN, NEW landed \in BOOLEAN, PowerCut(readable, landed)
      PROVE  TypeOK'
  <2>1. nvs' \in [keys : Keystores, lock : {"default", "configured"}]
    BY <1>1 DEF PowerCut, TypeOK
  <2> QED BY <1>1, <2>1, BootType DEF PowerCut
<1>2. CASE Restart
  BY <1>2, BootType DEF Restart, TypeOK
<1> QED BY <1>1, <1>2

LEMMA NextType == TypeOK /\ [Next]_vars => TypeOK'
<1> SUFFICES ASSUME TypeOK, [Next]_vars PROVE TypeOK'
  OBVIOUS
<1>1. CASE UNCHANGED vars
  BY <1>1 DEF vars, ble, keys, app, TypeOK
<1>2. ASSUME NEW h \in Handles, Link(h)
      PROVE  TypeOK'
  BY <1>2, LinkType, AuthType, OwnerType DEF Link, Request, OwnerRequest
<1> QED BY <1>1, <1>2, AppType, RestartType DEF Next

\* The state is well-formed, and app_task never saves the keystore while it
\* erases it, for any phones and numbers of sessions and key slots.
THEOREM SessionTypeOK == Spec => []TypeOK
BY InitType, NextType, PTL DEF Spec

-----------------------------------------------------------------------------
(* Links and sessions                                                      *)

\* As long as a handle is free, so is an entry of the pool.
LEMMA RoomInPool ==
  ASSUME TypeOK, OneSessionPerLink, NEW h \in Handles, links[h] = NoPhone
  PROVE  Inactive # {}
<1> SUFFICES ASSUME Inactive = {} PROVE FALSE
  OBVIOUS
<1> DEFINE handleOf == [i \in Pool |-> pool[i].handle]
<1>1. \A i \in Pool : pool[i].active
  BY DEF Inactive, TypeOK, SessionRecord
<1>2. handleOf \in [Pool -> Handles \ {h}]
  BY <1>1 DEF OneSessionPerLink
<1>3. IsFiniteSet(Pool) /\ Cardinality(Pool) = MaxSessions
  BY FS_Interval DEF Pool
<1>4. IsFiniteSet(Handles \ {h}) /\ Cardinality(Handles \ {h}) = MaxSessions - 1
  <2>1. IsFiniteSet(Handles) /\ Cardinality(Handles) = MaxSessions
    BY <1>3 DEF Pool
  <2> HIDE DEF handleOf
  <2>2. /\ IsFiniteSet(Handles \ {h})
        /\ Cardinality(Handles \ {h}) =
             IF h \in Handles THEN Cardinality(Handles) - 1 ELSE Cardinality(Handles)
    BY ONLY <2>1, FS_RemoveElement, Zenon
  <2> QED BY <2>1, <2>2
<1>5. Cardinality(Handles \ {h}) < Cardinality(Pool)
  BY <1>3, <1>4
<1>6. \A i, j \in Pool : handleOf[i] = handleOf[j] => i = j
  BY <1>1 DEF OneSessionPerLink
<1>7. \E i, j \in Pool : i # j /\ handleOf[i] = handleOf[j]
  <2> DEFINE others == Handles \ {h}
  <2>1. /\ IsFiniteSet(Pool) /\ IsFiniteSet(others)
        /\ Cardinality(others) < Cardinality(Pool)
        /\ handleOf \in [Pool -> others]
    BY <1>2, <1>3, <1>4, <1>5
  <2> HIDE DEF others, handleOf
  <2> QED BY ONLY <2>1, FS_PigeonHole, Zenon
<1> QED BY <1>6, <1>7

\* The session of a link is the one entry that has its handle.
LEMMA EntryOfLink ==
  ASSUME OneSessionPerLink, NEW h \in Handles, HasSession(h)
  PROVE  /\ EntryOf(h) \in Pool
         /\ pool[EntryOf(h)].active
         /\ pool[EntryOf(h)].handle = h
         /\ \A i \in Pool : pool[i].active /\ pool[i].handle = h => i = EntryOf(h)
<1>1. PICK i \in Entries(h) : TRUE
  BY DEF HasSession
<1>2. i \in Pool /\ Entries(h) = {i}
  BY <1>1 DEF Entries, OneSessionPerLink
<1>3. i <= i
  BY <1>2 DEF Pool
<1>4. IsFirst(i, Entries(h))
  BY <1>2, <1>3 DEF IsFirst
<1>5. EntryOf(h) = i
  BY <1>2, <1>4 DEF EntryOf
<1> QED BY <1>2, <1>5 DEF Entries

\* A request on the AUTH channel sets these fields of the session of its link.
EntrySet(h, state, nonce) ==
  pool' = [pool EXCEPT ![EntryOf(h)].state = state, ![EntryOf(h)].nonce = nonce]

\* It changes one entry, not whose it is.
LEMMA EntryChanged ==
  ASSUME TypeOK, OneSessionPerLink, NEW h \in Handles, HasSession(h),
         NEW state, NEW nonce,
         EntrySet(h, state, nonce)
  PROVE  /\ \A i \in Pool : pool'[i].active = pool[i].active /\ pool'[i].handle = pool[i].handle
         /\ \A i \in Pool : i # EntryOf(h) => pool'[i] = pool[i]
         /\ pool'[EntryOf(h)].state = state
         /\ pool'[EntryOf(h)].nonce = nonce
<1>1. EntryOf(h) \in Pool /\ pool \in [Pool -> SessionRecord]
  BY EntryOfLink DEF TypeOK
<1> DEFINE e == EntryOf(h)
<1>2. pool[e] \in SessionRecord
  BY <1>1
<1>3. pool'[e] = [[pool[e] EXCEPT !.state = state] EXCEPT !.nonce = nonce]
  BY <1>1 DEF EntrySet
<1>4. /\ pool'[e].active = pool[e].active /\ pool'[e].handle = pool[e].handle
      /\ pool'[e].state = state /\ pool'[e].nonce = nonce
  BY <1>2, <1>3 DEF SessionRecord
<1>5. \A i \in Pool : i # e => pool'[i] = pool[i]
  BY <1>1 DEF EntrySet
<1> QED BY <1>4, <1>5

LEMMA InitLinks == Init => LinksInv
<1> SUFFICES ASSUME Init PROVE LinksInv
  OBVIOUS
<1>1. \A i \in Pool : ~pool[i].active
  BY DEF Init, FreePool, Fresh
<1>2. \A h \in Handles : links[h] = NoPhone
  BY DEF Init, NoLinks
<1> QED BY <1>1, <1>2 DEF LinksInv, OneSessionPerLink, AuthedOnThisLink, ChallengesOpen

LEMMA ConnectLinks ==
  ASSUME TypeOK, LinksInv, NEW h \in Handles, NEW phone \in Keys, Connect(phone, h)
  PROVE  LinksInv'
<1>1. links[h] = NoPhone /\ links' = [links EXCEPT ![h] = phone] /\ UNCHANGED <<asked, vouched>>
  BY DEF Connect
<1>2. PICK i \in Inactive : pool' = [pool EXCEPT ![i] = Fresh(TRUE, h)]
  BY RoomInPool DEF Connect, LinksInv
<1>3. i \in Pool /\ ~pool[i].active /\ pool \in [Pool -> SessionRecord]
  BY DEF Inactive, TypeOK
<1>4. /\ pool'[i].active /\ pool'[i].handle = h /\ pool'[i].state = "UNAUTH"
      /\ \A j \in Pool : j # i => pool'[j] = pool[j]
  BY <1>2, <1>3 DEF Fresh
<1>5. /\ links'[h] # NoPhone
      /\ \A g \in Handles : g # h => links'[g] = links[g]
  BY <1>1 DEF TypeOK, NoPhone
<1>6. \A j \in Pool : pool[j].active => pool[j].handle # h
  BY <1>1 DEF LinksInv, OneSessionPerLink
<1>7. OneSessionPerLink'
  <2>1. \A j \in Pool : pool'[j].active =>
          pool'[j].handle \in Handles /\ links'[pool'[j].handle] # NoPhone
    BY <1>4, <1>5, <1>6 DEF LinksInv, OneSessionPerLink
  <2>2. \A j, k \in Pool :
          pool'[j].active /\ pool'[k].active /\ pool'[j].handle = pool'[k].handle => j = k
    BY <1>4, <1>6 DEF LinksInv, OneSessionPerLink
  <2>3. \A g \in Handles : links'[g] # NoPhone =>
          \E j \in Pool : pool'[j].active /\ pool'[j].handle = g
    BY <1>3, <1>4, <1>5 DEF LinksInv, OneSessionPerLink, Entries
  <2> QED BY <2>1, <2>2, <2>3 DEF OneSessionPerLink, Entries
<1>8. AuthedOnThisLink' /\ ChallengesOpen'
  BY <1>1, <1>4 DEF LinksInv, AuthedOnThisLink, ChallengesOpen
<1> QED BY <1>7, <1>8 DEF LinksInv

LEMMA DisconnectLinks ==
  ASSUME TypeOK, LinksInv, NEW h \in Handles, Disconnect(h)
  PROVE  LinksInv'
<1>1. /\ links[h] # NoPhone
      /\ links' = [links EXCEPT ![h] = NoPhone]
      /\ asked' = [asked EXCEPT ![h] = NoNonce]
      /\ vouched' = vouched \ {h}
      /\ pool' = Freed(h)
  BY DEF Disconnect
<1> DEFINE e == EntryOf(h)
<1>2. /\ e \in Pool /\ pool[e].active /\ pool[e].handle = h
      /\ \A i \in Pool : pool[i].active /\ pool[i].handle = h => i = e
  BY <1>1, EntryOfLink DEF HasSession, LinksInv, OneSessionPerLink
<1>3. \A i \in Pool : IsFirst(i, Entries(h)) <=> i = e
  <2>1. Entries(h) = {e}
    BY <1>2 DEF Entries
  <2>2. e <= e
    BY <1>2 DEF Pool
  <2> HIDE DEF e
  <2> QED BY <2>1, <2>2 DEF IsFirst
<1> HIDE DEF e
<1>4. ~pool'[e].active /\ \A i \in Pool : i # e => pool'[i] = pool[i]
  BY <1>1, <1>2, <1>3 DEF Freed, Fresh
<1>5. \A i \in Pool : pool'[i].active => pool'[i] = pool[i] /\ pool[i].handle # h
  BY <1>2, <1>4
<1>6. \A g \in Handles : g # h =>
        links'[g] = links[g] /\ asked'[g] = asked[g] /\ (g \in vouched => g \in vouched')
  BY <1>1 DEF TypeOK
<1>7. links'[h] = NoPhone
  BY <1>1 DEF TypeOK
<1>8. OneSessionPerLink'
  <2>1. \A i \in Pool : pool'[i].active =>
          pool'[i].handle \in Handles /\ links'[pool'[i].handle] # NoPhone
    BY <1>5, <1>6 DEF LinksInv, OneSessionPerLink
  <2>2. \A i, j \in Pool :
          pool'[i].active /\ pool'[j].active /\ pool'[i].handle = pool'[j].handle => i = j
    BY <1>5 DEF LinksInv, OneSessionPerLink
  <2>3. \A g \in Handles : links'[g] # NoPhone =>
          \E i \in Pool : pool'[i].active /\ pool'[i].handle = g
    BY <1>2, <1>4, <1>6, <1>7 DEF LinksInv, OneSessionPerLink, Entries
  <2> QED BY <2>1, <2>2, <2>3 DEF OneSessionPerLink, Entries
<1>9. AuthedOnThisLink' /\ ChallengesOpen'
  BY <1>5, <1>6 DEF LinksInv, OneSessionPerLink, AuthedOnThisLink, ChallengesOpen
<1> QED BY <1>8, <1>9 DEF LinksInv

\* Whatever request leaves links, handles and activity alone.
LEMMA SameEntries ==
  ASSUME OneSessionPerLink, UNCHANGED links,
         \A i \in Pool : pool'[i].active = pool[i].active /\ pool'[i].handle = pool[i].handle
  PROVE  OneSessionPerLink'
<1>1. \A h : Entries(h)' = Entries(h)
  BY DEF Entries
<1> QED BY <1>1 DEF OneSessionPerLink

LEMMA AuthBeginLinks ==
  ASSUME TypeOK, LinksInv, NEW h \in Handles, AuthBegin(h)
  PROVE  LinksInv'
<1>1. /\ HasSession(h) /\ UNCHANGED links /\ vouched' = vouched \ {h}
      /\ EntrySet(h, "CHALLENGED", issued + 1)
      /\ asked' = [asked EXCEPT ![h] = issued + 1]
  BY DEF AuthBegin, EntrySet
<1>2. OneSessionPerLink
  BY DEF LinksInv
<1> DEFINE e == EntryOf(h)
<1>3. /\ \A i \in Pool : pool'[i].active = pool[i].active /\ pool'[i].handle = pool[i].handle
      /\ \A i \in Pool : i # e => pool'[i] = pool[i]
      /\ pool'[e].state = "CHALLENGED" /\ pool'[e].nonce = issued + 1
  BY <1>1, <1>2, EntryChanged
<1>4. /\ pool[e].handle = h
      /\ \A i \in Pool : pool[i].active /\ pool[i].handle = h => i = e
  BY <1>1, <1>2, EntryOfLink
<1>5. asked'[h] = issued + 1 /\ \A g \in Handles : g # h => asked'[g] = asked[g]
  BY <1>1 DEF TypeOK
<1> HIDE DEF e
<1>6. OneSessionPerLink'
  BY <1>1, <1>2, <1>3, SameEntries
<1>7. AuthedOnThisLink' /\ ChallengesOpen'
  <2> SUFFICES ASSUME NEW i \in Pool, pool'[i].active
               PROVE  /\ pool'[i].state = "AUTHED" => pool'[i].handle \in vouched'
                      /\ pool'[i].state = "CHALLENGED" => pool'[i].nonce = asked'[pool'[i].handle]
    BY DEF AuthedOnThisLink, ChallengesOpen
  <2>1. pool[i].active /\ pool'[i].handle = pool[i].handle /\ pool[i].handle \in Handles
    BY <1>2, <1>3 DEF OneSessionPerLink
  <2>2. CASE i = e
    BY <1>3, <1>4, <1>5, <2>1, <2>2
  <2>3. CASE i # e
    <3>1. pool'[i] = pool[i] /\ pool[i].handle # h
      BY <1>3, <1>4, <2>1, <2>3
    <3> QED BY <1>1, <1>5, <2>1, <3>1 DEF LinksInv, AuthedOnThisLink, ChallengesOpen
  <2> QED BY <2>2, <2>3
<1> QED BY <1>6, <1>7 DEF LinksInv

\* The heart of it: the signature that verifies is one under the challenge last
\* issued on this link.
LEMMA VerifiedVouched ==
  ASSUME TypeOK, LinksInv, NEW h \in Handles, NEW answered \in Challenges, NEW unlocks \in BOOLEAN,
         AuthResponse(h, answered, unlocks),
         Verifies(links[h], pool[EntryOf(h)].nonce, answered)
  PROVE  h \in vouched'
<1>1. /\ HasSession(h) /\ OneSessionPerLink
      /\ pool[EntryOf(h)].state = "CHALLENGED"
      /\ vouched' = IF answered = asked[h] /\ Holds(keystore, links[h])
                    THEN vouched \cup {h} ELSE vouched
  BY DEF AuthResponse, LinksInv
<1>2. pool[EntryOf(h)].nonce = asked[h]
  BY <1>1, EntryOfLink DEF LinksInv, ChallengesOpen
<1> QED BY <1>1, <1>2 DEF Verifies

LEMMA AuthResponseLinks ==
  ASSUME TypeOK, LinksInv, NEW h \in Handles, NEW answered \in Challenges, NEW unlocks \in BOOLEAN,
         AuthResponse(h, answered, unlocks)
  PROVE  LinksInv'
<1> DEFINE ok == Verifies(links[h], pool[EntryOf(h)].nonce, answered)
           state == IF ok THEN "AUTHED" ELSE "UNAUTH"
<1>1. /\ HasSession(h) /\ UNCHANGED links
      /\ pool[EntryOf(h)].state = "CHALLENGED"
      /\ EntrySet(h, state, NoNonce)
      /\ asked' = [asked EXCEPT ![h] = NoNonce]
      /\ vouched' = IF answered = asked[h] /\ Holds(keystore, links[h])
                    THEN vouched \cup {h} ELSE vouched
  BY DEF AuthResponse, EntrySet
<1>2. OneSessionPerLink
  BY DEF LinksInv
<1>3. ok => h \in vouched'
  BY VerifiedVouched
<1>4. state # "CHALLENGED" /\ (state = "AUTHED" => ok)
  OBVIOUS
<1> DEFINE e == EntryOf(h)
<1> HIDE DEF state, ok
<1>5. /\ \A i \in Pool : pool'[i].active = pool[i].active /\ pool'[i].handle = pool[i].handle
      /\ \A i \in Pool : i # e => pool'[i] = pool[i]
      /\ pool'[e].state = state
  BY <1>1, <1>2, EntryChanged
<1>6. /\ pool[e].handle = h
      /\ \A i \in Pool : pool[i].active /\ pool[i].handle = h => i = e
  BY <1>1, <1>2, EntryOfLink
<1>7. (\A g \in Handles : g # h => asked'[g] = asked[g]) /\ vouched \subseteq vouched'
  BY <1>1 DEF TypeOK
<1> HIDE DEF e
<1>8. OneSessionPerLink'
  BY <1>1, <1>2, <1>5, SameEntries
<1>9. AuthedOnThisLink' /\ ChallengesOpen'
  <2> SUFFICES ASSUME NEW i \in Pool, pool'[i].active
               PROVE  /\ pool'[i].state = "AUTHED" => pool'[i].handle \in vouched'
                      /\ pool'[i].state = "CHALLENGED" => pool'[i].nonce = asked'[pool'[i].handle]
    BY DEF AuthedOnThisLink, ChallengesOpen
  <2>1. pool[i].active /\ pool'[i].handle = pool[i].handle /\ pool[i].handle \in Handles
    BY <1>2, <1>5 DEF OneSessionPerLink
  <2>2. CASE i = e
    BY <1>3, <1>4, <1>5, <1>6, <2>1, <2>2
  <2>3. CASE i # e
    <3>1. pool'[i] = pool[i] /\ pool[i].handle # h
      BY <1>5, <1>6, <2>1, <2>3
    <3> QED BY <1>7, <2>1, <3>1 DEF LinksInv, AuthedOnThisLink, ChallengesOpen
  <2> QED BY <2>2, <2>3
<1> QED BY <1>8, <1>9 DEF LinksInv

LEMMA BootLinks ==
  ASSUME NEW readable, Boot(readable)
  PROVE  LinksInv'
<1>1. \A i \in Pool : ~pool'[i].active
  BY DEF Boot, FreePool, Fresh
<1>2. \A h \in Handles : links'[h] = NoPhone
  BY DEF Boot, NoLinks
<1> QED BY <1>1, <1>2 DEF LinksInv, OneSessionPerLink, AuthedOnThisLink, ChallengesOpen

LEMMA SameLinks ==
  ASSUME LinksInv, UNCHANGED ble
  PROVE  LinksInv'
BY DEF ble, LinksInv, OneSessionPerLink, AuthedOnThisLink, ChallengesOpen, Entries

LEMMA NextLinks == TypeOK /\ LinksInv /\ [Next]_vars => LinksInv'
<1> SUFFICES ASSUME TypeOK, LinksInv, [Next]_vars PROVE LinksInv'
  OBVIOUS
<1>1. CASE UNCHANGED vars
  BY <1>1, SameLinks DEF vars
<1>2. ASSUME NEW h \in Handles, Link(h)
      PROVE  LinksInv'
  <2>1. CASE OwnerRequest(h)
    <3>1. UNCHANGED ble
      BY <2>1 DEF OwnerRequest, Enroll, Revoke, Transfer, LockCommand
    <3> QED BY <3>1, SameLinks
  <2>2. CASE \E answered \in Challenges, unlocks \in BOOLEAN : AuthResponse(h, answered, unlocks)
    BY <2>2, AuthResponseLinks
  <2> QED BY <1>2, <2>1, <2>2, ConnectLinks, DisconnectLinks, AuthBeginLinks
          DEF Link, Request, OwnerRequest
<1>3. CASE AppTask
  <2>1. UNCHANGED ble
    BY <1>3 DEF AppTask, SaveBegin, SaveCopied, SaveEnd, WipeKeys, WipeLock
  <2> QED BY <2>1, SameLinks
<1>4. CASE (\E readable, landed \in BOOLEAN : PowerCut(readable, landed)) \/ Restart
  BY <1>4, BootLinks DEF PowerCut, Restart
<1> QED BY <1>1, <1>2, <1>3, <1>4 DEF Next

\* Every link has a session of its own and no session outlives its link, for any
\* number of them: one entry is always left for a handle that is free.
THEOREM LinksHaveSessions == Spec => []OneSessionPerLink
<1>1. LinksInv => OneSessionPerLink
  BY DEF LinksInv
<1> QED BY <1>1, InitType, NextType, InitLinks, NextLinks, PTL DEF Spec

\* An authenticated session answered the challenge last issued on its own link.
THEOREM AuthedOnTheirLink == Spec => []AuthedOnThisLink
<1>1. LinksInv => AuthedOnThisLink
  BY DEF LinksInv
<1> QED BY <1>1, InitType, NextType, InitLinks, NextLinks, PTL DEF Spec

-----------------------------------------------------------------------------
(* Keys                                                                    *)

\* A key put into a slot is not in another slot, of the old table or the new.
Fits(old, new) ==
  \A s, t \in KeySlots :
    new[s] \in Keys /\ new[s] # old[s] /\ t # s => old[t] # new[s] /\ new[t] # new[s]

LEMMA MixtureOnce ==
  ASSUME NEW old, NEW new, Once(old), Fits(old, new), NEW blob \in Mixtures(old, new)
  PROVE  Once(blob)
<1> SUFFICES ASSUME NEW key \in Keys, NEW s \in KeySlots, NEW t \in KeySlots,
                    blob[s] = key, blob[t] = key, s # t
             PROVE  FALSE
  BY DEF Once
<1>1. blob[s] \in {old[s], new[s]} /\ blob[t] \in {old[t], new[t]}
  BY DEF Mixtures
<1>2. CASE blob[s] = old[s] /\ blob[t] = old[t]
  BY <1>2 DEF Once
<1>3. CASE blob[s] # old[s]
  BY <1>1, <1>3 DEF Fits
<1>4. CASE blob[t] # old[t]
  BY <1>1, <1>4 DEF Fits
<1> QED BY <1>2, <1>3, <1>4

LEMMA AddFits ==
  ASSUME NEW ks \in Keystores, Once(ks), NEW key \in Keys, NEW slot \in KeySlots,
         Adds(ks, key, slot)
  PROVE  Fits(ks, Add(ks, key, slot))
<1> DEFINE new == Add(ks, key, slot)
<1>1. new[slot] = key /\ \A s \in KeySlots : s # slot => new[s] = ks[s]
  BY DEF Add, Keystores
<1>2. slot \in Homes(ks, key)
  BY DEF Adds, IsFirst
<1>3. \A t \in KeySlots : t # slot => ks[t] # key
  <2>1. CASE Holds(ks, key)
    BY <1>2, <2>1 DEF Homes, SlotsOf, Once
  <2>2. CASE ~Holds(ks, key)
    BY <2>2 DEF Holds, SlotsOf
  <2> QED BY <2>1, <2>2
<1> HIDE DEF new
<1>4. Fits(ks, new)
  BY <1>1, <1>3 DEF Fits
<1> QED BY <1>4 DEF new

\* Every change of the keys keeps them single: in use, in the copy it may
\* overlap and in flash.
LEMMA ChangedKeys ==
  ASSUME TypeOK, KeysInv, NEW ks \in Keystores,
         Fits(keystore, ks), Changed(ks),
         nvs'.keys = nvs.keys, UNCHANGED reset
  PROVE  KeysInv'
<1>1. /\ keystore' = ks /\ dirty' = TRUE /\ save' \in Overlapped(ks)
      /\ (save.step # "none" => astray')
  BY DEF Changed
<1>2. Once(keystore)
  BY DEF KeysInv, KeysOnce, Once
<1>3. \A blob \in Mixtures(keystore, ks) : Once(blob)
  BY <1>2, MixtureOnce
<1>4. ks \in Mixtures(keystore, ks)
  BY DEF Mixtures
<1>5. /\ save'.step # "none" => save.step # "none"
      /\ save'.step # "copying"
      /\ Once(save'.blob)
  <2>1. CASE save.step = "copying"
    <3>1. PICK blob \in Mixtures(save.blob, ks) : save' = [step |-> "writing", blob |-> blob]
      BY <1>1, <2>1, Zenon DEF Overlapped
    <3>2. save.blob = keystore
      BY <2>1 DEF KeysInv, SaveInv
    <3> QED BY <1>3, <2>1, <3>1, <3>2
  <2>2. CASE save.step # "copying"
    <3>1. save' = save
      BY <1>1, <2>2 DEF Overlapped
    <3> QED BY <2>2, <3>1 DEF KeysInv, SaveInv
  <2> QED BY <2>1, <2>2
<1>6. Once(ks) /\ Once(nvs'.keys)
  BY <1>3, <1>4 DEF KeysInv, SaveInv
<1>7. KeysOnce'
  BY <1>1, <1>6 DEF KeysOnce, Once
<1>8. SaveInv'
  <2>1. Once(save.blob)' /\ Once(nvs.keys)'
    BY <1>5, <1>6 DEF Once
  <2>2. wiping' # "no" /\ ~kept' => nvs'.keys = EmptyKeystore
    BY DEF KeysInv, SaveInv
  <2> QED BY <1>1, <1>5, <2>1, <2>2 DEF SaveInv
<1>9. KeysOwed'
  BY <1>1 DEF KeysOwed
<1> QED BY <1>7, <1>8, <1>9 DEF KeysInv

LEMMA EmptyOnce ==
  ASSUME NEW ks
  PROVE  Once(EmptyKeystore) /\ Fits(ks, EmptyKeystore)
BY DEF Once, Fits, EmptyKeystore

LEMMA OwnerKeys ==
  ASSUME TypeOK, KeysInv, NEW h \in Handles, OwnerRequest(h)
  PROVE  KeysInv'
<1>1. ASSUME NEW key \in Keys, NEW slot \in KeySlots, Enroll(h, key, slot)
      PROVE  KeysInv'
  <2>1. Fits(keystore, Add(keystore, key, slot)) /\ Add(keystore, key, slot) \in Keystores
    <3>1. Once(keystore) /\ keystore \in Keystores
      BY DEF KeysInv, KeysOnce, Once, TypeOK
    <3>2. Add(keystore, key, slot) \in Keystores
      BY <3>1 DEF Add, Keystores
    <3> QED BY <1>1, <3>1, <3>2, AddFits DEF Enroll
  <2>2. Changed(Add(keystore, key, slot)) /\ UNCHANGED <<nvs, reset>>
    BY <1>1 DEF Enroll
  <2> QED BY <2>1, <2>2, ChangedKeys
<1>2. ASSUME NEW slot \in KeySlots, Revoke(h, slot)
      PROVE  KeysInv'
  <2>1. Fits(keystore, Remove(keystore, slot)) /\ Remove(keystore, slot) \in Keystores
    BY DEF Fits, Remove, Keystores, TypeOK
  <2>2. Changed(Remove(keystore, slot)) /\ UNCHANGED <<nvs, reset>>
    BY <1>2 DEF Revoke
  <2> QED BY <2>1, <2>2, ChangedKeys
<1>3. CASE Transfer(h)
  <2>1. Changed(EmptyKeystore) /\ nvs'.keys = nvs.keys /\ UNCHANGED reset
    BY <1>3 DEF Transfer, TypeOK
  <2> QED BY <2>1, EmptyType, EmptyOnce, ChangedKeys
<1>4. CASE LockCommand(h)
  <2>1. UNCHANGED <<keys, app>> /\ nvs'.keys = nvs.keys
    BY <1>4 DEF LockCommand, TypeOK
  <2> QED BY <2>1 DEF keys, app, KeysInv, KeysOnce, SaveInv, KeysOwed, Once
<1> QED BY <1>1, <1>2, <1>3, <1>4 DEF OwnerRequest

LEMMA SameKeys ==
  ASSUME KeysInv, UNCHANGED <<keys, app>>, nvs'.keys = nvs.keys
  PROVE  KeysInv'
BY DEF keys, app, KeysInv, KeysOnce, SaveInv, KeysOwed, Once

LEMMA AppKeys ==
  ASSUME TypeOK, KeysInv, AppTask
  PROVE  KeysInv'
<1> USE DEF KeysInv
<1>1. CASE SaveBegin
  <2>1. /\ save' = [step |-> "copying", blob |-> keystore]
        /\ dirty /\ UNCHANGED <<keystore, dirty, nvs, reset>>
    BY <1>1 DEF SaveBegin
  <2> QED BY <2>1 DEF KeysOnce, SaveInv, KeysOwed, Once
<1>2. CASE SaveCopied
  <2>1. /\ save.step = "copying" /\ save'.step = "writing" /\ save'.blob = save.blob
        /\ UNCHANGED <<keys, reset, nvs>>
    BY <1>2 DEF SaveCopied, TypeOK
  <2> QED BY <2>1 DEF keys, KeysOnce, SaveInv, KeysOwed, Once
<1>3. ASSUME NEW written \in BOOLEAN, SaveEnd(written)
      PROVE  KeysInv'
  <2>1. /\ save.step = "writing" /\ wiping = "no" /\ UNCHANGED <<keystore, astray, reset>>
        /\ nvs'.keys = IF written THEN save.blob ELSE nvs.keys
        /\ dirty' = IF written THEN FALSE ELSE dirty
    BY <1>3 DEF SaveEnd, StillDirty, TypeOK
  <2>2. save'.step = "none" /\ save'.blob = EmptyKeystore
    BY <1>3 DEF SaveEnd, NoSave
  <2>3. dirty /\ (astray \/ save.blob = keystore)
    BY <2>1 DEF SaveInv
  <2>4. Once(save'.blob) /\ Once(nvs'.keys)
    BY <2>1, <2>2, EmptyOnce DEF SaveInv
  <2>5. KeysOwed'
    BY <2>1, <2>3 DEF KeysOwed
  <2>6. KeysOnce' /\ SaveInv'
    <3>1. Once(save.blob)' /\ Once(nvs.keys)'
      BY <2>4 DEF Once
    <3> QED BY <2>1, <2>2, <3>1 DEF KeysOnce, SaveInv
  <2> QED BY <2>5, <2>6
<1>4. ASSUME NEW erased \in BOOLEAN, WipeKeys(erased)
      PROVE  KeysInv'
  <2>1. /\ UNCHANGED <<keys, save>> /\ wiping' = "keys" /\ kept' = ~erased
        /\ nvs'.keys = IF erased THEN EmptyKeystore ELSE nvs.keys
    BY <1>4 DEF WipeKeys, TypeOK
  <2>2. Once(nvs'.keys)
    BY <2>1, EmptyOnce DEF SaveInv
  <2>3. Once(nvs.keys)'
    BY <2>2 DEF Once
  <2> QED BY <2>1, <2>3 DEF keys, KeysOnce, SaveInv, KeysOwed, Once
<1>5. ASSUME NEW erased \in BOOLEAN, WipeLock(erased)
      PROVE  KeysInv'
  <2>1. /\ UNCHANGED <<keys, save, kept>> /\ wiping = "keys" /\ wiping' = "lock"
        /\ nvs'.keys = nvs.keys
    BY <1>5 DEF WipeLock, TypeOK
  <2> QED BY <2>1 DEF keys, KeysOnce, SaveInv, KeysOwed, Once
<1> QED BY <1>1, <1>2, <1>3, <1>4, <1>5 DEF AppTask

LEMMA BootKeys ==
  ASSUME NEW readable \in BOOLEAN, Boot(readable), Once(nvs'.keys)
  PROVE  KeysInv'
<1>1. /\ keystore' = IF readable THEN nvs'.keys ELSE EmptyKeystore
      /\ save'.step = "none" /\ save'.blob = EmptyKeystore
      /\ astray' = ~readable /\ wiping' = "no"
  BY DEF Boot, NoSave
<1>2. Once(keystore)' /\ Once(save.blob)' /\ Once(nvs.keys)'
  BY <1>1, EmptyOnce DEF Once
<1> QED BY <1>1, <1>2 DEF KeysInv, KeysOnce, SaveInv, KeysOwed, Once

LEMMA NextKeys == TypeOK /\ KeysInv /\ [Next]_vars => KeysInv'
<1> SUFFICES ASSUME TypeOK, KeysInv, [Next]_vars PROVE KeysInv'
  OBVIOUS
<1>1. CASE UNCHANGED vars
  BY <1>1, SameKeys DEF vars
<1>2. ASSUME NEW h \in Handles, Link(h)
      PROVE  KeysInv'
  <2>1. CASE OwnerRequest(h)
    BY <2>1, OwnerKeys
  <2>2. CASE ~OwnerRequest(h)
    <3>1. UNCHANGED <<keys, app>> /\ nvs'.keys = nvs.keys
      BY <1>2, <2>2
         DEF Link, Request, OwnerRequest, Connect, Disconnect, AuthBegin, AuthResponse, TypeOK
    <3> QED BY <3>1, SameKeys
  <2> QED BY <2>1, <2>2
<1>3. ASSUME NEW readable \in BOOLEAN, NEW landed \in BOOLEAN, PowerCut(readable, landed)
      PROVE  KeysInv'
  <2>1. nvs'.keys \in {nvs.keys, save.blob}
    BY <1>3 DEF PowerCut, TypeOK
  <2> QED BY <1>3, <2>1, BootKeys DEF PowerCut, KeysInv, SaveInv
<1>4. CASE Restart
  <2>1. Boot(TRUE) /\ nvs' = nvs
    BY <1>4 DEF Restart
  <2> QED BY <2>1, BootKeys DEF KeysInv, SaveInv
<1> QED BY <1>1, <1>2, <1>3, <1>4, AppKeys DEF Next

LEMMA InitKeys == Init => KeysInv
<1> SUFFICES ASSUME Init PROVE KeysInv
  OBVIOUS
<1>1. /\ keystore = EmptyKeystore /\ nvs.keys = EmptyKeystore
      /\ save.step = "none" /\ save.blob = EmptyKeystore /\ wiping = "no"
  BY DEF Init, NoSave
<1> QED BY <1>1, EmptyOnce DEF KeysInv, KeysOnce, SaveInv, KeysOwed, Once

\* No key ever sits in two slots: not after any change, nor after a restart from
\* a blob whose copy a change overlapped.
THEOREM KeysSitOnce == Spec => []KeysOnce
<1>1. KeysInv => KeysOnce
  BY DEF KeysInv
<1> QED BY <1>1, InitType, NextType, InitKeys, NextKeys, PTL DEF Spec

\* A change of the keys is in flash or owed to it, but for the two named gaps.
THEOREM KeyChangesOwed == Spec => []KeysOwed
<1>1. KeysInv => KeysOwed
  BY DEF KeysInv
<1> QED BY <1>1, InitType, NextType, InitKeys, NextKeys, PTL DEF Spec

\* A factory reset whose erase of the keystore has succeeded leaves no key
\* behind.
THEOREM ResetForgetsKeys == Spec => ResetForgets
<1>1. KeysInv /\ [Next]_vars => [Restart /\ ~kept => keystore' = EmptyKeystore]_vars
  BY DEF KeysInv, SaveInv, Restart, Boot
<1> QED BY <1>1, InitType, NextType, InitKeys, NextKeys, PTL DEF Spec, ResetForgets

-----------------------------------------------------------------------------
(* Who rules                                                               *)

\* The body of OwnersRule.
Rules ==
  /\ NewKey => \/ keystore = EmptyKeystore
               \/ keystore' = nvs'.keys /\ links' = NoLinks
               \/ ByOwner
  /\ Configures => ByOwner

LEMMA EmptyHolds == \A key \in Keys : ~Holds(EmptyKeystore, key)
BY DEF Holds, SlotsOf, EmptyKeystore

LEMMA AuthedVouched ==
  ASSUME LinksInv, NEW h \in Handles, HasSession(h), Authed(h)
  PROVE  h \in vouched
BY EntryOfLink DEF LinksInv, AuthedOnThisLink, Authed

\* What a link does that changes nothing others may see: neither a key enters
\* nor a lock configuration is saved.
Neither == ~NewKey /\ ~Configures

\* A request that lets a key in or saves a lock configuration comes from a link
\* that has vouched for itself, but for the first key.
LEMMA RequestRules ==
  ASSUME TypeOK, LinksInv, NEW h \in Handles, Request(h)
  PROVE  \/ Neither
         \/ keystore = EmptyKeystore /\ ~Configures
         \/ h \in vouched'
<1>1. ASSUME NEW key \in Keys, NEW slot \in KeySlots, Enroll(h, key, slot)
      PROVE  (keystore = EmptyKeystore /\ ~Configures) \/ h \in vouched'
  <2>1. UNCHANGED <<nvs, vouched>>
    BY <1>1 DEF Enroll, ble
  <2>2. CASE SlotsOf(keystore, NoKey) = KeySlots
    <3>1. \A s \in KeySlots : keystore[s] = NoKey
      BY <2>2 DEF SlotsOf
    <3>2. keystore = EmptyKeystore
      BY <3>1 DEF TypeOK, Keystores, EmptyKeystore
    <3> QED BY <2>1, <3>2 DEF Configures
  <2>3. CASE Authed(h)
    BY <1>1, <2>1, <2>3, AuthedVouched DEF Enroll
  <2> QED BY <1>1, <2>2, <2>3 DEF Enroll, MayEnroll
<1>2. ASSUME NEW slot \in KeySlots, Revoke(h, slot)
      PROVE  Neither
  <2>1. \A s \in KeySlots : keystore'[s] \in {keystore[s], NoKey}
    BY <1>2 DEF Revoke, Changed, Remove, TypeOK, Keystores
  <2>2. UNCHANGED nvs
    BY <1>2 DEF Revoke
  <2> QED BY <2>1, <2>2 DEF Neither, NewKey, Configures, Holds, SlotsOf
<1>3. CASE Transfer(h)
  <2>1. keystore' = EmptyKeystore /\ nvs'.lock = "default"
    BY <1>3 DEF Transfer, Changed, TypeOK
  <2> QED BY <2>1, EmptyHolds DEF Neither, NewKey, Configures
<1>4. CASE LockCommand(h)
  BY <1>4, AuthedVouched DEF LockCommand, ble
<1>5. ASSUME NEW answered \in Challenges, NEW unlocks \in BOOLEAN,
             AuthResponse(h, answered, unlocks)
      PROVE  Neither \/ h \in vouched'
  <2>1. UNCHANGED keystore /\ (~unlocks => UNCHANGED nvs)
        /\ (unlocks => Verifies(links[h], pool[EntryOf(h)].nonce, answered))
    BY <1>5 DEF AuthResponse, keys
  <2> QED BY <1>5, <2>1, VerifiedVouched DEF Neither, NewKey, Configures
<1>6. CASE AuthBegin(h)
  BY <1>6 DEF AuthBegin, keys, Neither, NewKey, Configures
<1> QED BY <1>1, <1>2, <1>3, <1>4, <1>5, <1>6 DEF Request

LEMMA NextRules == TypeOK /\ LinksInv /\ [Next]_vars => Rules
<1> SUFFICES ASSUME TypeOK, LinksInv, [Next]_vars PROVE Rules
  OBVIOUS
<1>1. Neither => Rules
  BY DEF Rules, Neither
<1>2. UNCHANGED keystore /\ nvs'.lock \in {nvs.lock, "default"} => Neither
  BY DEF Neither, NewKey, Configures
<1>3. ASSUME NEW h \in Handles, Request(h)
      PROVE  Rules
  <2>1. CASE Neither
    BY <1>1, <2>1
  <2>2. CASE keystore = EmptyKeystore /\ ~Configures
    BY <2>2 DEF Rules
  <2>3. CASE ~Neither /\ ~(keystore = EmptyKeystore /\ ~Configures)
    <3>1. \A other \in Actors : other \in vouched'
      BY <2>3, RequestRules DEF Actors
    <3>2. h \in Actors
      BY <1>3 DEF Actors
    <3> QED BY <3>1, <3>2 DEF ByOwner, Rules
  <2> QED BY <2>1, <2>2, <2>3
<1>4. ASSUME NEW h \in Handles, Link(h), ~Request(h)
      PROVE  UNCHANGED <<keystore, nvs>>
  BY <1>4 DEF Link, Connect, Disconnect, keys
<1>5. AppTask \/ UNCHANGED vars => UNCHANGED keystore /\ nvs'.lock \in {nvs.lock, "default"}
  BY DEF AppTask, SaveBegin, SaveCopied, SaveEnd, WipeKeys, WipeLock, vars, keys, TypeOK
<1>6. ASSUME NEW readable \in BOOLEAN, Boot(readable), nvs'.lock = nvs.lock
      PROVE  Rules
  <2>1. ~Configures
    BY <1>6 DEF Configures
  <2>2. CASE readable
    BY <1>6, <2>1, <2>2 DEF Boot, Rules
  <2>3. CASE ~readable
    BY <1>6, <2>1, <2>3, EmptyHolds DEF Boot, Rules, NewKey
  <2> QED BY <2>2, <2>3
<1>7. (\E readable, landed \in BOOLEAN : PowerCut(readable, landed)) \/ Restart => Rules
  <2>1. ASSUME NEW readable \in BOOLEAN, NEW landed \in BOOLEAN, PowerCut(readable, landed)
        PROVE  Boot(readable) /\ nvs'.lock = nvs.lock
    BY <2>1 DEF PowerCut, TypeOK
  <2>2. Restart => Boot(TRUE) /\ nvs'.lock = nvs.lock
    BY DEF Restart
  <2> QED BY <1>6, <2>1, <2>2
<1> QED BY <1>1, <1>2, <1>3, <1>4, <1>5, <1>7 DEF Next

\* The link on which a new key enters has answered a challenge as an owner's,
\* or the key is the first, or it came back with a restart; and the link that
\* puts a lock configuration into flash has answered one, too.
THEOREM RuledByOwners == Spec => OwnersRule
<1>1. TypeOK /\ LinksInv /\ [Next]_vars => [Rules]_vars
  BY NextRules
<1> QED BY <1>1, InitType, NextType, InitLinks, NextLinks, PTL DEF Spec, OwnersRule, Rules

\* Session, keystore and flash are well typed, links and sessions match, and
\* no key sits in two slots.
THEOREM SessionIsSound == Spec => []SessionSound
<1>1. TypeOK /\ OneSessionPerLink /\ KeysOnce => SessionSound
  BY DEF SessionSound
<1> QED BY <1>1, SessionTypeOK, LinksHaveSessions, KeysSitOnce, PTL

=============================================================================
