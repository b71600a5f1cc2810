---------------------------- MODULE EngineProofs ----------------------------
(***************************************************************************)
(* Lemmas about the operators of OutputEngine and LockEngine.  Each call   *)
(* keeps the type of the engine record, and the fields that are not its    *)
(* business; and it keeps a board "sound", that is, well typed, with the   *)
(* lock and the engine it inhibits in agreement.                           *)
(***************************************************************************)
EXTENDS LockEngine, FiniteSetTheorems, SequenceTheorems, TLAPS

(***************************************************************************)
(* The output engine                                                       *)
(***************************************************************************)

\* A set of naturals has a least element.  The library's induction theorems take
\* an operator and cannot be used here; this one, from the well-foundedness of
\* the strict subset ordering, stands in for them.
LEMMA LeastNatural ==
  ASSUME NEW S \in SUBSET Nat, S # {}
  PROVE  \E x \in S : \A y \in S : x <= y
<1> DEFINE Upto(x) == 0 .. (x - 1)
           T == {Upto(x) : x \in S}
<1>1. \A x \in S : IsFiniteSet(Upto(x))
  BY FS_Interval
<1>2. ASSUME NEW x \in S
      PROVE  Upto(x) \in FiniteSubsetsOf(Nat)
  <2>1. Upto(x) \subseteq Nat
    OBVIOUS
  <2> HIDE DEF Upto
  <2> QED BY <1>1, <2>1 DEF FiniteSubsetsOf
<1>3. PICK t \in T : \A u \in T : <<u, t>> \notin StrictSubsetOrdering(Nat)
  <2>1. T \subseteq FiniteSubsetsOf(Nat) /\ T # {}
    <3> HIDE DEF Upto
    <3> QED BY <1>2
  <2> HIDE DEF T
  <2> QED BY <2>1, FS_StrictSubsetOrderingWellFounded, WFMin
<1>4. PICK x \in S : t = Upto(x)
  OBVIOUS
<1>5. ASSUME NEW y \in S, y < x PROVE FALSE
  <2>1. Upto(y) \in SUBSET Nat /\ Upto(x) \in SUBSET Nat
    OBVIOUS
  <2>2. Upto(y) \subseteq Upto(x) /\ y \in Upto(x) /\ y \notin Upto(y)
    BY <1>5
  <2>3. <<Upto(y), Upto(x)>> \in StrictSubsetOrdering(Nat)
    BY <2>1, <2>2 DEF StrictSubsetOrdering
  <2> QED BY <1>3, <1>4, <2>3
<1> QED BY <1>5

\* Calls on the outputs leave the configuration and what other modules tell
\* the engine alone.
Untouched(o, p) ==
  /\ p.config = o.config
  /\ p.engine_running = o.engine_running
  /\ p.interlock_engaged = o.interlock_engaged
  /\ p.immobilized = o.immobilized

Keeps(o, p) == p \in Engine /\ Untouched(o, p)

LEMMA KeepsTrans ==
  ASSUME NEW o, NEW p, NEW q, Keeps(o, p), Keeps(p, q)
  PROVE  Keeps(o, q)
BY DEF Keeps, Untouched

LEMMA KeepsRefl == ASSUME NEW o \in Engine PROVE Keeps(o, o)
BY DEF Keeps, Untouched

LEMMA FirstOfOne ==
  ASSUME NEW c \in Channel
  PROVE  FirstChannel({c}) = c
BY DEF FirstChannel, Channel

\* With at most one ignition the scan finds it, or there is none.
LEMMA FirstOfAtMostOne ==
  ASSUME NEW S \in SUBSET Channel, AtMostOne(S)
  PROVE  (S = {} /\ FirstChannel(S) = None) \/ (FirstChannel(S) \in S)
<1>1. CASE S = {}
  BY <1>1 DEF FirstChannel
<1>2. CASE S # {}
  <2>1. PICK c \in S : S = {c}
    BY <1>2 DEF AtMostOne
  <2> QED BY <2>1, FirstOfOne
<1> QED BY <1>1, <1>2

LEMMA NoneNotChannel == None \notin Channel
BY DEF None, Channel

LEMMA InitEngineType ==
  ASSUME NEW cfg \in OutputConfig, NEW on \in SUBSET Channel
  PROVE  InitEngine(cfg, on) \in Engine
BY DEF InitEngine, Engine

LEMMA SetRawKeeps ==
  ASSUME NEW o \in Engine, NEW ch \in Channel \cup {None}, NEW on \in BOOLEAN,
         on => ch \in Channel
  PROVE  Keeps(o, SetRaw(o, ch, on))
BY DEF SetRaw, Keeps, Untouched, Engine

LEMMA ClearDeadlinesKeeps ==
  ASSUME NEW o \in Engine, NEW S
  PROVE  Keeps(o, ClearDeadlines(o, S))
BY DEF ClearDeadlines, Keeps, Untouched, Engine

LEMMA RearmedType ==
  ASSUME NEW o \in Engine, NEW ch \in Channel
  PROVE  Rearmed(o, ch) \in Nat
BY DEF Rearmed, Engine, OutputConfig

LEMMA EndHazardModeKeeps ==
  ASSUME NEW o \in Engine, NEW except \in Channel \cup {None}
  PROVE  Keeps(o, EndHazardMode(o, except))
<1> DEFINE back == o.config.hazard_member \ {except}
           dl == [c \in Channel |-> IF c \in back THEN Rearmed(o, c) ELSE o.deadline[c]]
<1>1. dl \in [Channel -> Nat]
  BY RearmedType DEF Engine
<1>2. back \subseteq Channel
  BY DEF Engine, OutputConfig
<1> QED BY <1>1, <1>2 DEF EndHazardMode, Keeps, Untouched, Engine

LEMMA IgnitionOnKeeps ==
  ASSUME NEW o \in Engine
  PROVE  Keeps(o, IgnitionOn(o))
<1> DEFINE lit == o.config.on_with_ignition \ (o.config.is_ignition \cup o.commanded)
<1>1. lit \subseteq Channel
  BY DEF Engine, OutputConfig
<1>2. Keeps(o, ClearDeadlines(o, lit))
  BY ClearDeadlinesKeeps
<1> QED BY <1>1, <1>2 DEF IgnitionOn, Keeps, Untouched, Engine

LEMMA IgnitionOffKeeps ==
  ASSUME NEW o \in Engine
  PROVE  Keeps(o, IgnitionOff(o))
<1>1. Keeps(o, ClearDeadlines(o, Channel \ o.config.is_ignition))
  BY ClearDeadlinesKeeps
<1> QED BY <1>1 DEF IgnitionOff, Keeps, Untouched, Engine

LEMMA DropOppositeKeeps ==
  ASSUME NEW o \in Engine, NEW ch \in Channel
  PROVE  Keeps(o, DropOpposite(o, ch))
<1> DEFINE opp == FindIndicator(o.config, OppositeSide(o.config.indicator[ch]))
<1>1. CASE opp \in o.commanded \ {ch}
  <2>1. opp \in Channel
    BY <1>1 DEF Engine
  <2>2. Keeps(o, SetRaw(o, opp, FALSE))
    BY <2>1, SetRawKeeps
  <2>3. Keeps(SetRaw(o, opp, FALSE), ClearDeadlines(SetRaw(o, opp, FALSE), {opp}))
    BY <2>2, ClearDeadlinesKeeps DEF Keeps
  <2> QED BY <1>1, <2>2, <2>3, KeepsTrans DEF DropOpposite
<1>2. CASE opp \notin o.commanded \ {ch}
  BY <1>2, KeepsRefl DEF DropOpposite
<1> QED BY <1>1, <1>2

LEMMA DropPartnerKeeps ==
  ASSUME NEW o \in Engine, NEW ch \in Channel
  PROVE  Keeps(o, DropPartner(o, ch))
<1>1. o.config.alternate[ch] \in Channel \cup {None}
  BY DEF Engine, OutputConfig
<1> QED BY <1>1, SetRawKeeps DEF DropPartner

LEMMA ArmAutoCancelKeeps ==
  ASSUME NEW o \in Engine, NEW ch \in Channel, NEW on \in BOOLEAN
  PROVE  Keeps(o, ArmAutoCancel(o, ch, on))
BY DEF ArmAutoCancel, Keeps, Untouched, Engine, OutputConfig

LEMMA ClearedKeeps ==
  ASSUME NEW o \in Engine, NEW ch \in Channel, NEW on \in BOOLEAN
  PROVE  Keeps(o, Cleared(o, ch, on))
<1> DEFINE o1 == IF ch \in o.config.hazard_member THEN EndHazardMode(o, ch) ELSE o
           o2 == IF on /\ ch \in OnSide(o.config) THEN DropOpposite(o1, ch) ELSE o1
           o3 == IF on THEN DropPartner(o2, ch) ELSE o2
<1>1. Keeps(o, o1)
  BY EndHazardModeKeeps, KeepsRefl
<1>2. o1 \in Engine
  BY <1>1 DEF Keeps
<1>3. Keeps(o1, o2)
  <2> HIDE DEF o1
  <2> QED BY <1>2, DropOppositeKeeps, KeepsRefl
<1>4. o2 \in Engine
  BY <1>3 DEF Keeps
<1>5. Keeps(o2, o3)
  <2> HIDE DEF o2
  <2> QED BY <1>4, DropPartnerKeeps, KeepsRefl
<1>6. Keeps(o, o3)
  <2> HIDE DEF o1, o2, o3
  <2> QED BY <1>1, <1>3, <1>5, KeepsTrans
<1> QED BY <1>6 DEF Cleared

LEMMA CommandedKeeps ==
  ASSUME NEW o \in Engine, NEW ch \in Channel, NEW on \in BOOLEAN
  PROVE  Keeps(o, Commanded(o, ch, on))
<1> DEFINE set == SetRaw(o, ch, on)
<1>1. Keeps(o, set)
  BY SetRawKeeps
<1>2. Keeps(set, ArmAutoCancel(set, ch, on))
  BY <1>1, ArmAutoCancelKeeps DEF Keeps
<1>3. Keeps(o, ArmAutoCancel(set, ch, on))
  BY <1>1, <1>2, KeepsTrans
<1> QED BY <1>1, <1>3 DEF Commanded

LEMMA KeyEdgeKeeps ==
  ASSUME NEW was, NEW o \in Engine, NEW ch, NEW on
  PROVE  Keeps(o, KeyEdge(was, o, ch, on))
BY IgnitionOnKeeps, IgnitionOffKeeps, KeepsRefl DEF KeyEdge

LEMMA ApplySetKeeps ==
  ASSUME NEW o \in Engine, NEW ch \in Channel, NEW on \in BOOLEAN
  PROVE  Keeps(o, ApplySet(o, ch, on))
<1> DEFINE p == Cleared(o, ch, on)
           q == Commanded(p, ch, on)
<1>1. Keeps(o, p) /\ p \in Engine
  BY ClearedKeeps DEF Keeps
<1>2. Keeps(p, q) /\ q \in Engine
  <2> HIDE DEF p
  <2> QED BY <1>1, CommandedKeeps DEF Keeps
<1>3. Keeps(q, KeyEdge(p, q, ch, on))
  <2> HIDE DEF q
  <2> QED BY <1>2, KeyEdgeKeeps
<1> HIDE DEF p, q
<1>4. Keeps(o, KeyEdge(p, q, ch, on))
  BY <1>1, <1>2, <1>3, KeepsTrans
<1> QED BY <1>4 DEF ApplySet, p, q

\* mc_output_set(), refused or not.
LEMMA OutputSetKeeps ==
  ASSUME NEW o \in Engine, NEW ch \in Channel, NEW on \in BOOLEAN, NEW source
  PROVE  Keeps(o, OutputSet(o, ch, on, source))
BY ApplySetKeeps, KeepsRefl DEF OutputSet

LEMMA AlternatePressKeeps ==
  ASSUME NEW o \in Engine, NEW ch \in Channel, NEW source
  PROVE  Keeps(o, AlternatePress(o, ch, source))
<1>1. o.config.alternate[ch] \in Channel \cup {None}
  BY DEF Engine, OutputConfig
<1> QED BY <1>1, OutputSetKeeps, KeepsRefl DEF AlternatePress, NextOfPair

LEMMA HazardPressKeeps ==
  ASSUME NEW o \in Engine
  PROVE  Keeps(o, HazardPress(o))
<1>1. Keeps(o, EndHazardMode(o, None))
  BY EndHazardModeKeeps
<1>2. Keeps(o, ClearDeadlines(o, o.config.hazard_member))
  BY ClearDeadlinesKeeps
<1>3. Keeps(o, StartHazardMode(o))
  BY <1>2 DEF StartHazardMode, Keeps, Untouched, Engine, OutputConfig
<1> QED BY <1>1, <1>3, KeepsRefl DEF HazardPress

LEMMA OutputTickKeeps ==
  ASSUME NEW o \in Engine
  PROVE  Keeps(o, OutputTick(o))
<1> DEFINE dl == [c \in Channel |-> IF o.deadline[c] > 0 THEN o.deadline[c] - 1 ELSE 0]
<1>1. dl \in [Channel -> Nat]
  BY DEF Engine
<1> QED BY <1>1 DEF OutputTick, Keeps, Untouched, Engine

LEMMA SettersType ==
  ASSUME NEW o \in Engine, NEW x \in BOOLEAN
  PROVE  /\ SetEngineRunning(o, x) \in Engine
         /\ SetInterlockEngaged(o, x) \in Engine
         /\ SetImmobilized(o, x) \in Engine
BY DEF SetEngineRunning, SetInterlockEngaged, SetImmobilized, Engine

\* Making room relights hazard members at most, never the channel itself.
LEMMA ClearedLights ==
  ASSUME NEW o \in Engine, NEW ch \in Channel, NEW state \in BOOLEAN,
         NEW c \in Cleared(o, ch, state).commanded
  PROVE  c \in o.commanded \/ (c \in o.config.hazard_member /\ c # ch)
BY DEF Cleared, EndHazardMode, DropOpposite, DropPartner, SetRaw,
       ClearDeadlines, Engine, OutputConfig


\* Commanding a channel off lights nothing but hazard members.
LEMMA OffLights ==
  ASSUME NEW o \in Engine, NEW ch \in Channel
  PROVE  ApplySet(o, ch, FALSE).commanded \subseteq o.commanded \cup o.config.hazard_member
<1> DEFINE p == Cleared(o, ch, FALSE)
           q == Commanded(p, ch, FALSE)
<1>1. p \in Engine /\ p.commanded \subseteq o.commanded \cup o.config.hazard_member
  BY ClearedKeeps, ClearedLights DEF Keeps
<1>2. q \in Engine /\ q.commanded \subseteq p.commanded
  <2> HIDE DEF p
  <2>1. q \in Engine
    BY <1>1, CommandedKeeps DEF Keeps
  <2> QED BY <1>1, <2>1 DEF Commanded, SetRaw, ArmAutoCancel, Engine
<1>3. KeyEdge(p, q, ch, FALSE).commanded \subseteq q.commanded
  <2> HIDE DEF p, q
  <2> QED BY <1>2 DEF KeyEdge, IgnitionOff, ClearDeadlines, Engine
<1> QED BY <1>1, <1>2, <1>3 DEF ApplySet

\* A channel that is commanded on, and not refused, is lit.
LEMMA OnLights ==
  ASSUME NEW o \in Engine, NEW ch \in Channel
  PROVE  ch \in ApplySet(o, ch, TRUE).commanded
<1> DEFINE p == Cleared(o, ch, TRUE)
           q == Commanded(p, ch, TRUE)
<1>1. p \in Engine
  BY ClearedKeeps DEF Keeps
<1>2. q \in Engine /\ ch \in q.commanded
  <2> HIDE DEF p
  <2>1. q \in Engine
    BY <1>1, CommandedKeeps DEF Keeps
  <2> QED BY <1>1, <2>1 DEF Commanded, SetRaw, ArmAutoCancel, Engine
<1>3. ch \in KeyEdge(p, q, ch, TRUE).commanded
  <2> HIDE DEF p, q
  <2> QED BY <1>2 DEF KeyEdge, IgnitionOn, ClearDeadlines, Engine
<1> QED BY <1>3 DEF ApplySet

(***************************************************************************)
(* The lock over the output engine                                         *)
(***************************************************************************)

IsLocked(b) == b.lock.state = "LOCKED"

\* No cheat-code attempt is pending.
NoAttempts(l) == l.wrong = 0 /\ l.backoff = 0 /\ l.entry = <<>>

\* The ignition is not a hazard member, as LockedParked supposes.
KeyApart(o) == o.config.is_ignition \cap o.config.hazard_member = {}

Sound(b) ==
  /\ b \in Board /\ ValidOutputConfig(b.output.config)
  /\ b.output.immobilized <=> IsLocked(b)
  /\ b.lock.locked_flag <=> IsLocked(b)
  /\ b.lock.state = "DISABLED" <=> ~ b.lock.config.immobilizer_enabled
  /\ ~ IsLocked(b) => NoAttempts(b.lock)
  /\ IsLocked(b) => b.output.commanded \subseteq b.output.config.hazard_member
  /\ IsLocked(b) /\ KeyApart(b.output) => ~ b.output.engine_running

LEMMA BoardFields ==
  ASSUME NEW b \in Board
  PROVE  b.lock \in LockRecord /\ b.output \in Engine
BY DEF Board

LEMMA ForceOffKeeps ==
  ASSUME NEW o \in Engine
  PROVE  /\ Keeps(o, ForceOff(o))
         /\ ForceOff(o).commanded \subseteq o.config.hazard_member
<1> DEFINE spared == IF o.hazard_active THEN o.config.hazard_member ELSE {}
           doused == o.commanded \ spared
           fewer  == [o EXCEPT !.commanded = @ \ doused]
           dark   == ClearDeadlines(fewer, doused \cap OnSide(o.config))
<1>1. Keeps(o, fewer) /\ fewer \in Engine
  BY DEF Keeps, Untouched, Engine
<1>2. Keeps(fewer, dark) /\ dark \in Engine
  <2> HIDE DEF fewer
  <2> QED BY <1>1, ClearDeadlinesKeeps DEF Keeps
<1>3. Keeps(o, dark)
  BY <1>1, <1>2, KeepsTrans
<1>4. dark.commanded \subseteq o.config.hazard_member
  BY DEF ClearDeadlines, Engine
<1>5. Keeps(o, IgnitionOff(dark))
  <2> HIDE DEF dark
  <2> QED BY <1>2, <1>3, IgnitionOffKeeps, KeepsTrans
<1>6. IgnitionOff(dark).commanded \subseteq dark.commanded
  <2> HIDE DEF dark
  <2> QED BY <1>2 DEF IgnitionOff, ClearDeadlines, Engine
<1> QED BY <1>3, <1>4, <1>5, <1>6 DEF ForceOff

LEMMA SetFlagType ==
  ASSUME NEW l \in LockRecord, NEW flag \in BOOLEAN
  PROVE  SetFlag(l, flag) \in LockRecord
BY DEF SetFlag, LockRecord

LEMMA ResetCheatcodeType ==
  ASSUME NEW l \in LockRecord
  PROVE  ResetCheatcode(l) \in LockRecord
BY EmptySeq DEF ResetCheatcode, LockRecord

\* Entering LOCKED from a parked board.
LEMMA EnterLockedSound ==
  ASSUME NEW b \in Board, ValidOutputConfig(b.output.config),
         b.lock.config.immobilizer_enabled, ~ b.output.engine_running
  PROVE  /\ Sound(EnterLocked(b))
         /\ EnterLocked(b).lock.config = b.lock.config
         /\ Untouched(SetImmobilized(b.output, TRUE), EnterLocked(b).output)
<1> DEFINE dark == ForceOff(b.output)
           o == SetImmobilized(dark, TRUE)
           flagged == SetFlag(b.lock, TRUE)
           l == [flagged EXCEPT !.state = "LOCKED", !.parked_for = 0]
<1>1. b.lock \in LockRecord /\ b.output \in Engine
  BY BoardFields
<1>2. dark \in Engine /\ dark.commanded \subseteq b.output.config.hazard_member
      /\ Untouched(b.output, dark)
  BY <1>1, ForceOffKeeps DEF Keeps
<1>3. /\ o \in Engine /\ o.immobilized /\ o.commanded = dark.commanded
      /\ o.config = b.output.config /\ o.engine_running = b.output.engine_running
      /\ Untouched(SetImmobilized(b.output, TRUE), o)
  <2> HIDE DEF dark
  <2> QED BY <1>1, <1>2 DEF SetImmobilized, Untouched, Engine
<1>4. /\ l \in LockRecord /\ l.state = "LOCKED" /\ l.locked_flag
      /\ l.config = b.lock.config
  BY <1>1 DEF SetFlag, LockRecord, LockStates
<1>5. EnterLocked(b) = [lock |-> l, output |-> o]
  BY DEF EnterLocked
<1> HIDE DEF l, o, dark
<1>6. EnterLocked(b).lock = l /\ EnterLocked(b).output = o
  BY <1>5
<1>7. EnterLocked(b) \in Board
  BY <1>3, <1>4, <1>5 DEF Board
<1> QED BY <1>2, <1>3, <1>4, <1>6, <1>7 DEF Sound, IsLocked

\* What makes a board that is not locked sound.
LEMMA OpenSound ==
  ASSUME NEW l \in LockRecord, NEW o \in Engine, ValidOutputConfig(o.config),
         l.state # "LOCKED", ~ l.locked_flag, ~ o.immobilized, NoAttempts(l),
         l.state = "DISABLED" <=> ~ l.config.immobilizer_enabled
  PROVE  Sound([lock |-> l, output |-> o])
BY DEF Sound, IsLocked, Board

\* A board like Sound, but for a lock state that is about to be overwritten.
AboutToLeave(b) ==
  /\ b \in Board /\ ValidOutputConfig(b.output.config)
  /\ b.output.immobilized <=> IsLocked(b)
  /\ ~ IsLocked(b) => NoAttempts(b.lock)

LEMMA EnterUnlockedSound ==
  ASSUME NEW b, AboutToLeave(b), b.lock.config.immobilizer_enabled
  PROVE  /\ Sound(EnterUnlocked(b))
         /\ EnterUnlocked(b).lock.config = b.lock.config
         /\ EnterUnlocked(b).output.config = b.output.config
<1> DEFINE flagged == SetFlag(b.lock, FALSE)
           l == [flagged EXCEPT !.state = "UNLOCKED", !.parked_for = 0]
           free == SetImmobilized(b.output, FALSE)
           ign == FirstChannel(free.config.is_ignition)
           o == IF ign = None THEN free ELSE OutputSet(free, ign, TRUE, "local")
<1>1. b.lock \in LockRecord /\ b.output \in Engine
  BY BoardFields DEF AboutToLeave
<1>2. /\ l \in LockRecord /\ l.state = "UNLOCKED" /\ ~ l.locked_flag
      /\ l.config = b.lock.config
      /\ NoAttempts(b.lock) => NoAttempts(l)
  BY <1>1 DEF SetFlag, LockRecord, LockStates, NoAttempts
<1> HIDE DEF l
<1>3. CASE b.lock.state # "LOCKED"
  <2>1. EnterUnlocked(b) = [b EXCEPT !.lock = l]
    BY <1>3 DEF EnterUnlocked, l
  <2>2. EnterUnlocked(b) = [lock |-> l, output |-> b.output]
    BY <2>1 DEF AboutToLeave, Board
  <2> QED BY <1>1, <1>2, <1>3, <2>2, OpenSound DEF AboutToLeave, IsLocked
<1>4. CASE b.lock.state = "LOCKED"
  <2>1. free \in Engine /\ ~ free.immobilized /\ free.config = b.output.config
    BY <1>1 DEF SetImmobilized, Engine
  <2>2. o \in Engine /\ ~ o.immobilized /\ o.config = b.output.config
    <3>1. ign = None \/ ign \in Channel
      BY <2>1, FirstOfAtMostOne DEF AboutToLeave, ValidOutputConfig, Engine, OutputConfig
    <3> HIDE DEF free, ign
    <3>2. CASE ign = None
      BY <2>1, <3>2
    <3>3. CASE ign # None
      <4>1. Keeps(free, OutputSet(free, ign, TRUE, "local"))
        BY <2>1, <3>1, <3>3, OutputSetKeeps
      <4> QED BY <2>1, <3>3, <4>1 DEF Keeps, Untouched
    <3> QED BY <3>2, <3>3
  <2>3. EnterUnlocked(b) = [lock |-> ResetCheatcode(l), output |-> o]
    BY <1>4 DEF EnterUnlocked, l
  <2>4. /\ ResetCheatcode(l) \in LockRecord /\ ResetCheatcode(l).state = "UNLOCKED"
        /\ ~ ResetCheatcode(l).locked_flag /\ NoAttempts(ResetCheatcode(l))
        /\ ResetCheatcode(l).config = b.lock.config
    BY <1>2, EmptySeq DEF ResetCheatcode, LockRecord, NoAttempts
  <2> HIDE DEF o
  <2> QED BY <2>2, <2>3, <2>4, OpenSound DEF AboutToLeave
<1> QED BY <1>3, <1>4

\* What EnterDisabled() leaves behind, whatever the configuration says.
LEMMA EnterDisabledEffect ==
  ASSUME NEW b, AboutToLeave(b)
  PROVE  LET r == EnterDisabled(b)
         IN  /\ r = [lock |-> r.lock, output |-> r.output]
             /\ r.lock \in LockRecord /\ r.lock.state = "DISABLED"
             /\ ~ r.lock.locked_flag /\ NoAttempts(r.lock)
             /\ r.lock.config = b.lock.config
             /\ r.output \in Engine /\ ~ r.output.immobilized
             /\ r.output.config = b.output.config
<1> DEFINE flagged == SetFlag(b.lock, FALSE)
           l == [flagged EXCEPT !.state = "DISABLED", !.parked_for = 0]
           free == SetImmobilized(b.output, FALSE)
<1>1. b.lock \in LockRecord /\ b.output \in Engine
  BY BoardFields DEF AboutToLeave
<1>2. /\ l \in LockRecord /\ l.state = "DISABLED" /\ ~ l.locked_flag
      /\ l.config = b.lock.config
      /\ NoAttempts(b.lock) => NoAttempts(l)
  BY <1>1 DEF SetFlag, LockRecord, LockStates, NoAttempts
<1> HIDE DEF l
<1>3. CASE b.lock.state # "LOCKED"
  <2>1. EnterDisabled(b) = [b EXCEPT !.lock = l]
    BY <1>3 DEF EnterDisabled, l
  <2>2. EnterDisabled(b) = [lock |-> l, output |-> b.output]
    BY <2>1 DEF AboutToLeave, Board
  <2> QED BY <1>1, <1>2, <1>3, <2>2 DEF AboutToLeave, IsLocked
<1>4. CASE b.lock.state = "LOCKED"
  <2>1. free \in Engine /\ ~ free.immobilized /\ free.config = b.output.config
    BY <1>1 DEF SetImmobilized, Engine
  <2>2. EnterDisabled(b) = [lock |-> ResetCheatcode(l), output |-> free]
    BY <1>4 DEF EnterDisabled, l
  <2>3. /\ ResetCheatcode(l) \in LockRecord /\ ResetCheatcode(l).state = "DISABLED"
        /\ ~ ResetCheatcode(l).locked_flag /\ NoAttempts(ResetCheatcode(l))
        /\ ResetCheatcode(l).config = b.lock.config
    BY <1>2, EmptySeq DEF ResetCheatcode, LockRecord, NoAttempts
  <2> HIDE DEF free
  <2> QED BY <2>1, <2>2, <2>3
<1> QED BY <1>3, <1>4

LEMMA EnterDisabledSound ==
  ASSUME NEW b, AboutToLeave(b), ~ b.lock.config.immobilizer_enabled
  PROVE  /\ Sound(EnterDisabled(b))
         /\ EnterDisabled(b).lock.config = b.lock.config
         /\ EnterDisabled(b).output.config = b.output.config
BY EnterDisabledEffect, OpenSound DEF AboutToLeave

-----------------------------------------------------------------------------
(* The calls                                                               *)

\* A call leaves a sound board, and the output configuration alone.
Safe(b, c) == Sound(c) /\ c.output.config = b.output.config

LEMMA RequestLockSafe ==
  ASSUME NEW b, Sound(b)
  PROVE  Safe(b, RequestLock(b)) /\ RequestLock(b).lock.config = b.lock.config
<1>1. CASE RequestLock(b) = b
  BY <1>1 DEF Safe
<1>2. CASE RequestLock(b) # b
  <2>1. /\ RequestLock(b) = EnterLocked(b)
        /\ b.lock.config.immobilizer_enabled /\ ~ b.output.engine_running
    BY <1>2 DEF RequestLock, Riding
  <2>2. SetImmobilized(b.output, TRUE).config = b.output.config
    BY BoardFields DEF SetImmobilized, Sound, Engine
  <2>3. b \in Board /\ ValidOutputConfig(b.output.config)
    BY DEF Sound
  <2>4. /\ Sound(EnterLocked(b)) /\ EnterLocked(b).lock.config = b.lock.config
        /\ EnterLocked(b).output.config = b.output.config
    BY <2>1, <2>2, <2>3, EnterLockedSound DEF Untouched
  <2> QED BY <2>1, <2>4 DEF Safe
<1> QED BY <1>1, <1>2

LEMMA SoundLeaves ==
  ASSUME NEW b, Sound(b)
  PROVE  AboutToLeave(b) /\ (IsLocked(b) => b.lock.config.immobilizer_enabled)
BY DEF Sound, AboutToLeave, IsLocked

LEMMA RequestUnlockSafe ==
  ASSUME NEW b, Sound(b)
  PROVE  Safe(b, RequestUnlock(b)) /\ RequestUnlock(b).lock.config = b.lock.config
BY SoundLeaves, EnterUnlockedSound DEF RequestUnlock, Safe, IsLocked

LEMMA BackoffDurationType ==
  ASSUME NEW wrong \in Nat
  PROVE  BackoffDuration(wrong) \in Nat
BY LockAssumption DEF BackoffDuration

LEMMA EntryTypes ==
  ASSUME NEW l \in LockRecord, NEW button \in Button
  PROVE  /\ Typed(l, button) \in LockRecord
         /\ Judged(l) \in LockRecord
         /\ Penalized(l) \in LockRecord
<1> DEFINE wrong == IF l.wrong < MaxWrong THEN l.wrong + 1 ELSE MaxWrong
<1>1. Entered(l, button) \in Seq(Button)
  BY EmptySeq DEF Entered, LockRecord
<1>2. wrong \in Nat
  BY LockAssumption DEF MaxWrong, LockRecord
<1>3. Judged(l) \in LockRecord
  BY EmptySeq DEF Judged, LockRecord
<1>4. BackoffDuration(wrong) \in Nat
  BY <1>2, BackoffDurationType
<1> HIDE DEF wrong
<1>5. [Judged(l) EXCEPT !.wrong = wrong, !.quiet = 0, !.backoff = BackoffDuration(wrong)]
        \in LockRecord
  BY <1>2, <1>3, <1>4 DEF LockRecord
<1>6. Penalized(l) \in LockRecord
  BY <1>5 DEF Penalized, wrong
<1>7. Typed(l, button) \in LockRecord
  BY <1>1 DEF Typed, LockRecord
<1> QED BY <1>3, <1>6, <1>7

\* A new record for the same lock: state, flag and configuration kept.
SameLock(l, m) ==
  m \in LockRecord /\ m.state = l.state /\ m.config = l.config
  /\ m.locked_flag = l.locked_flag

LEMMA SameLockSafe ==
  ASSUME NEW b, Sound(b), NEW m, SameLock(b.lock, m), IsLocked(b) \/ NoAttempts(m)
  PROVE  LET c == [b EXCEPT !.lock = m]
         IN  /\ Safe(b, c) /\ c.lock = m /\ c.output = b.output
             /\ AboutToLeave(c)
BY DEF Safe, Sound, AboutToLeave, IsLocked, Board, SameLock

LEMMA CheatcodePressSafe ==
  ASSUME NEW b, Sound(b), NEW button \in Button
  PROVE  /\ Safe(b, CheatcodePress(b, button))
         /\ CheatcodePress(b, button).lock.config = b.lock.config
<1> DEFINE entry == Entered(b.lock, button)
           code  == b.lock.config.code
<1>1. b.lock \in LockRecord
  BY BoardFields DEF Sound
<1>2. CASE ~ Listening(b.lock)
  BY <1>2 DEF CheatcodePress, Safe
<1>3. CASE Listening(b.lock) /\ Len(entry) < Len(code)
  <2>1. SameLock(b.lock, Typed(b.lock, button))
    BY <1>1, EntryTypes DEF SameLock, Typed, LockRecord
  <2>2. CheatcodePress(b, button) = [b EXCEPT !.lock = Typed(b.lock, button)]
    BY <1>3 DEF CheatcodePress
  <2>3. IsLocked(b)
    BY <1>3 DEF Listening, IsLocked
  <2> QED BY <2>1, <2>2, <2>3, SameLockSafe DEF SameLock
<1>4. CASE Listening(b.lock) /\ ~ Len(entry) < Len(code) /\ entry = code
  <2> DEFINE c == [b EXCEPT !.lock = Judged(b.lock)]
  <2>1. SameLock(b.lock, Judged(b.lock))
    BY <1>1, EntryTypes DEF SameLock, Judged, LockRecord
  <2>2. CheatcodePress(b, button) = EnterUnlocked(c)
    BY <1>4 DEF CheatcodePress
  <2>3. IsLocked(b) /\ b.lock.config.immobilizer_enabled
    BY <1>4, SoundLeaves DEF Listening, IsLocked
  <2>4. AboutToLeave(c) /\ c.lock.config = b.lock.config /\ c.output = b.output
    BY <2>1, <2>3, SameLockSafe DEF SameLock
  <2> HIDE DEF c
  <2>5. /\ Sound(EnterUnlocked(c)) /\ EnterUnlocked(c).lock.config = c.lock.config
        /\ EnterUnlocked(c).output.config = c.output.config
    BY <2>3, <2>4, EnterUnlockedSound
  <2> QED BY <2>2, <2>4, <2>5 DEF Safe
<1>5. CASE Listening(b.lock) /\ ~ Len(entry) < Len(code) /\ entry # code
  <2>1. SameLock(b.lock, Penalized(b.lock))
    BY <1>1, EntryTypes DEF SameLock, Penalized, Judged, LockRecord
  <2>2. CheatcodePress(b, button) = [b EXCEPT !.lock = Penalized(b.lock)]
    BY <1>5 DEF CheatcodePress
  <2>3. IsLocked(b)
    BY <1>5 DEF Listening, IsLocked
  <2> QED BY <2>1, <2>2, <2>3, SameLockSafe DEF SameLock
<1> QED BY <1>2, <1>3, <1>4, <1>5

LEMMA SetCheatcodeSafe ==
  ASSUME NEW b, Sound(b), NEW code \in Codes \cup {<<>>}
  PROVE  /\ Safe(b, SetCheatcode(b, code))
         /\ SetCheatcode(b, code).lock.config = [b.lock.config EXCEPT !.code = code]
         /\ SetCheatcode(b, code).output = b.output
<1> DEFINE l == [ResetCheatcode(b.lock) EXCEPT !.config.code = code, !.dirty = TRUE]
<1>1. b.lock \in LockRecord
  BY BoardFields DEF Sound
<1>2. /\ l \in LockRecord /\ NoAttempts(l) /\ l.state = b.lock.state
      /\ l.locked_flag = b.lock.locked_flag
      /\ l.config = [b.lock.config EXCEPT !.code = code]
  BY <1>1, EmptySeq DEF ResetCheatcode, LockRecord, LockConfig, NoAttempts
<1>3. l.config.immobilizer_enabled = b.lock.config.immobilizer_enabled
  BY <1>1, <1>2 DEF LockRecord, LockConfig
<1>4. SetCheatcode(b, code) = [b EXCEPT !.lock = l]
  BY DEF SetCheatcode
<1> HIDE DEF l
<1> QED BY <1>2, <1>3, <1>4 DEF Safe, Sound, IsLocked, Board

LEMMA ApplyLockConfigSafe ==
  ASSUME NEW b, Sound(b), NEW enabled \in BOOLEAN, NEW methods \in SUBSET Methods,
         NEW input \in BOOLEAN
  PROVE  LET r == ApplyLockConfig(b, enabled, methods, input)
         IN  Safe(b, r) /\ (r = b \/ ValidLockConfig(r.lock.config, b.output.config))
<1> DEFINE was == b.lock.config.immobilizer_enabled
           cfg == [b.lock.config EXCEPT !.immobilizer_enabled = enabled,
                                        !.methods = methods, !.switch_input = input]
           l == [b.lock EXCEPT !.config = cfg, !.dirty = TRUE]
           c == [b EXCEPT !.lock = [@ EXCEPT !.config = cfg, !.dirty = TRUE]]
           r == ApplyLockConfig(b, enabled, methods, input)
<1>1. b.lock \in LockRecord /\ b.output \in Engine
  BY BoardFields DEF Sound
<1>2. cfg \in LockConfig /\ cfg.immobilizer_enabled = enabled
  BY <1>1 DEF LockRecord, LockConfig
<1>3. /\ l \in LockRecord /\ l.config = cfg /\ l.state = b.lock.state
      /\ l.locked_flag = b.lock.locked_flag
      /\ NoAttempts(b.lock) => NoAttempts(l)
  <2> HIDE DEF cfg
  <2> QED BY <1>1, <1>2 DEF LockRecord, NoAttempts
<1>4. c = [lock |-> l, output |-> b.output] /\ c.lock = l /\ c.output = b.output
  BY DEF Sound, Board
<1>5. AboutToLeave(c)
  <2> HIDE DEF c, l
  <2> QED BY <1>1, <1>3, <1>4 DEF AboutToLeave, Sound, IsLocked, Board
<1>6. \/ ~ ValidLockConfig(cfg, b.output.config) /\ r = b
      \/ ValidLockConfig(cfg, b.output.config) /\ was /\ ~ enabled /\ r = EnterDisabled(c)
      \/ ValidLockConfig(cfg, b.output.config) /\ ~ was /\ enabled /\ r = GoTo(c, "UNLOCKED")
      \/ ValidLockConfig(cfg, b.output.config) /\ was = enabled /\ r = c
  BY <1>1 DEF ApplyLockConfig, LockRecord, LockConfig
<1> HIDE DEF cfg, l, c, r
<1>7. CASE r = b
  BY <1>7 DEF Safe, r
<1>8. CASE ValidLockConfig(cfg, b.output.config) /\ was /\ ~ enabled /\ r = EnterDisabled(c)
  BY <1>2, <1>3, <1>4, <1>5, <1>8, EnterDisabledSound DEF Safe, r
<1>9. CASE ValidLockConfig(cfg, b.output.config) /\ ~ was /\ enabled /\ r = GoTo(c, "UNLOCKED")
  <2> DEFINE m == [l EXCEPT !.state = "UNLOCKED", !.parked_for = 0]
  <2>1. b.lock.state = "DISABLED" /\ ~ b.output.immobilized /\ NoAttempts(b.lock)
        /\ ~ b.lock.locked_flag
    BY <1>9 DEF Sound, IsLocked
  <2>2. /\ m \in LockRecord /\ m.state = "UNLOCKED" /\ m.config = cfg
        /\ ~ m.locked_flag /\ NoAttempts(m)
    BY <1>3, <2>1 DEF LockRecord, LockStates, NoAttempts
  <2>3. r = [lock |-> m, output |-> b.output]
    BY <1>4, <1>9 DEF GoTo
  <2>4. ValidOutputConfig(b.output.config)
    BY DEF Sound
  <2> HIDE DEF m
  <2>5. Sound([lock |-> m, output |-> b.output])
    BY <1>1, <1>2, <1>9, <2>1, <2>2, <2>4, OpenSound
  <2>6. r.lock.config = cfg /\ r.output = b.output
    BY <2>2, <2>3
  <2> QED BY <1>9, <2>3, <2>5, <2>6 DEF Safe, r
<1>10. CASE ValidLockConfig(cfg, b.output.config) /\ was = enabled /\ r = c
  <2>1. Sound(c)
    BY <1>1, <1>2, <1>3, <1>4, <1>5, <1>10 DEF Sound, AboutToLeave, IsLocked
  <2> QED BY <1>3, <1>4, <1>10, <2>1 DEF Safe, r
<1> QED BY <1>6, <1>7, <1>8, <1>9, <1>10

LEMMA TransferSafe ==
  ASSUME NEW b, Sound(b)
  PROVE  /\ Safe(b, TransferOwnership(b))
         /\ ~ TransferOwnership(b).lock.config.immobilizer_enabled
<1> DEFINE r == EnterDisabled(b)
           l == [r.lock EXCEPT !.config = DefaultLockConfig, !.dirty = TRUE]
<1>1. /\ r = [lock |-> r.lock, output |-> r.output]
      /\ r.lock \in LockRecord /\ r.lock.state = "DISABLED"
      /\ ~ r.lock.locked_flag /\ NoAttempts(r.lock)
      /\ r.output \in Engine /\ ~ r.output.immobilized
      /\ r.output.config = b.output.config
  BY SoundLeaves, EnterDisabledEffect
<1>2. DefaultLockConfig \in LockConfig /\ ~ DefaultLockConfig.immobilizer_enabled
  BY DEF DefaultLockConfig, LockConfig
<1> HIDE DEF r
<1>3. /\ l \in LockRecord /\ l.state = "DISABLED" /\ ~ l.locked_flag /\ NoAttempts(l)
      /\ l.config = DefaultLockConfig
  BY <1>1, <1>2 DEF LockRecord, NoAttempts
<1>4. TransferOwnership(b) = [lock |-> l, output |-> r.output]
  <2>1. TransferOwnership(b) = [r EXCEPT !.lock.config = DefaultLockConfig, !.lock.dirty = TRUE]
    BY DEF TransferOwnership, r
  <2> QED BY <1>1, <2>1
<1> HIDE DEF l
<1> QED BY <1>1, <1>2, <1>3, <1>4, OpenSound DEF Safe, Sound
-----------------------------------------------------------------------------
(* The engine under the lock                                               *)

\* A call on the outputs of a sound board that lights nothing but hazard
\* members while the bike is locked.
LEMMA OutputSafe ==
  ASSUME NEW b, Sound(b), NEW p, Keeps(b.output, p),
         IsLocked(b) => p.commanded \subseteq b.output.config.hazard_member
  PROVE  LET c == [b EXCEPT !.output = p]
         IN  Safe(b, c) /\ c.lock = b.lock /\ c.output = p
BY DEF Safe, Sound, IsLocked, Board, Keeps, Untouched, KeyApart

LEMMA OutputSetSafe ==
  ASSUME NEW b, Sound(b), NEW ch \in Channel, NEW on \in BOOLEAN, NEW source
  PROVE  LET p == OutputSet(b.output, ch, on, source)
         IN  Keeps(b.output, p)
             /\ (IsLocked(b) => p.commanded \subseteq b.output.config.hazard_member)
<1>1. b.output \in Engine
  BY BoardFields DEF Sound
<1>2. Keeps(b.output, OutputSet(b.output, ch, on, source))
  BY <1>1, OutputSetKeeps
<1>3. ASSUME IsLocked(b)
      PROVE  OutputSet(b.output, ch, on, source).commanded
               \subseteq b.output.config.hazard_member
  <2>1. b.output.immobilized
        /\ b.output.commanded \subseteq b.output.config.hazard_member
    BY <1>3 DEF Sound
  <2>2. CASE Permitted(b.output, ch, on, source)
    <3>1. on = FALSE
      BY <2>1, <2>2 DEF Permitted
    <3> QED BY <1>1, <2>1, <2>2, <3>1, OffLights DEF OutputSet
  <2>3. CASE ~ Permitted(b.output, ch, on, source)
    BY <2>1, <2>3 DEF OutputSet
  <2> QED BY <2>2, <2>3
<1> QED BY <1>2, <1>3

LEMMA HazardPressSafe ==
  ASSUME NEW b, Sound(b)
  PROVE  LET p == HazardPress(b.output)
         IN  Keeps(b.output, p)
             /\ (IsLocked(b) => p.commanded \subseteq b.output.config.hazard_member)
<1>1. b.output \in Engine
  BY BoardFields DEF Sound
<1>2. HazardPress(b.output).commanded
        \subseteq b.output.commanded \cup b.output.config.hazard_member
  BY <1>1 DEF HazardPress, EndHazardMode, StartHazardMode, ClearDeadlines, Engine,
              OutputConfig
<1> QED BY <1>1, <1>2, HazardPressKeeps DEF Sound

LEMMA OutputTickSafe ==
  ASSUME NEW b, Sound(b)
  PROVE  LET p == OutputTick(b.output)
         IN  Keeps(b.output, p)
             /\ (IsLocked(b) => p.commanded \subseteq b.output.config.hazard_member)
<1>1. b.output \in Engine
  BY BoardFields DEF Sound
<1>2. OutputTick(b.output).commanded \subseteq b.output.commanded
  BY <1>1 DEF OutputTick, Engine
<1> QED BY <1>1, <1>2, OutputTickKeeps DEF Sound

\* With an ignition assigned, a locked board whose key is no hazard member
\* has its key off.
LEMMA LockedKeyOff ==
  ASSUME NEW b, Sound(b), IsLocked(b), KeyApart(b.output),
         b.output.config.is_ignition # {}
  PROVE  FirstChannel(b.output.config.is_ignition) # None /\ ~ IgnitionLive(b.output)
<1>1. b.output \in Engine /\ AtMostOne(b.output.config.is_ignition)
      /\ b.output.commanded \subseteq b.output.config.hazard_member
  BY BoardFields DEF Sound, ValidOutputConfig
<1>2. FirstChannel(b.output.config.is_ignition) \in b.output.config.is_ignition
  BY <1>1, FirstOfAtMostOne DEF Engine, OutputConfig
<1>3. b.output.config.is_ignition \subseteq Channel
  BY <1>1 DEF Engine, OutputConfig
<1> QED BY <1>1, <1>2, <1>3, NoneNotChannel DEF KeyApart, IgnitionLive

LEMMA EngineDetectedSafe ==
  ASSUME NEW b, Sound(b), NEW running \in BOOLEAN, running => MayRun(b.output),
         b.lock.config.immobilizer_enabled => b.output.config.is_ignition # {}
  PROVE  LET c == [b EXCEPT !.output = SetEngineRunning(@, running)]
         IN  Safe(b, c) /\ c.lock = b.lock
<1> DEFINE p == SetEngineRunning(b.output, running)
           c == [b EXCEPT !.output = p]
<1>1. b.output \in Engine
  BY BoardFields DEF Sound
<1>2. /\ p \in Engine /\ p.config = b.output.config
      /\ p.immobilized = b.output.immobilized /\ p.engine_running = running
      /\ p.commanded \subseteq b.output.commanded
  BY <1>1 DEF SetEngineRunning, Engine
<1>3. ASSUME IsLocked(b), KeyApart(b.output) PROVE ~ running
  BY <1>3, LockedKeyOff, SoundLeaves DEF MayRun
<1> HIDE DEF p
<1>4. c = [lock |-> b.lock, output |-> p]
  BY DEF Sound, Board
<1> QED BY <1>2, <1>3, <1>4 DEF Safe, Sound, IsLocked, Board, KeyApart, p

-----------------------------------------------------------------------------
(* mc_lock_tick()                                                          *)

LEMMA ElapseSame ==
  ASSUME NEW l \in LockRecord
  PROVE  SameLock(l, Elapse(l)) /\ (NoAttempts(l) => NoAttempts(Elapse(l)))
<1>1. BackoffLeft(l) \in Nat /\ ParkedFor(l) \in Nat
  BY DEF BackoffLeft, ParkedFor, LockRecord
<1>2. l.backoff = 0 => BackoffLeft(l) = 0
  BY DEF BackoffLeft
<1>3. Elapse(l) \in LockRecord
  <2>0. /\ l.quiet \in Nat /\ l.wrong \in Nat /\ l.entry \in Seq(Button)
        /\ l.entry_age \in Nat
    BY DEF LockRecord
  <2>1. /\ Elapse(l).quiet \in Nat
        /\ Elapse(l).wrong \in Nat
        /\ Elapse(l).entry \in Seq(Button)
        /\ Elapse(l).entry_age \in Nat
        /\ Elapse(l).backoff \in Nat
        /\ Elapse(l).parked_for \in Nat
    <3>1. Elapse(l).quiet \in Nat
      BY <2>0, LockAssumption DEF Elapse, LockRecord
    <3>2. Elapse(l).wrong \in Nat
      BY <2>0 DEF Elapse, LockRecord
    <3>3. Elapse(l).entry \in Seq(Button)
      BY <2>0, EmptySeq DEF Elapse, LockRecord
    <3>4. Elapse(l).entry_age \in Nat
      BY <2>0 DEF Elapse, LockRecord
    <3>5. Elapse(l).backoff \in Nat /\ Elapse(l).parked_for \in Nat
      BY <1>1 DEF Elapse, LockRecord
    <3> QED BY <3>1, <3>2, <3>3, <3>4, <3>5
  <2>2. Elapse(l) = [l EXCEPT !.backoff = Elapse(l).backoff, !.wrong = Elapse(l).wrong,
                              !.quiet = Elapse(l).quiet, !.entry = Elapse(l).entry,
                              !.entry_age = Elapse(l).entry_age,
                              !.parked_for = Elapse(l).parked_for]
    BY DEF Elapse, LockRecord
  <2> QED BY <2>1, <2>2 DEF LockRecord
<1>4. Elapse(l).state = l.state /\ Elapse(l).config = l.config
      /\ Elapse(l).locked_flag = l.locked_flag
  BY DEF Elapse, LockRecord
<1>5. NoAttempts(l) => NoAttempts(Elapse(l))
  BY <1>2 DEF Elapse, LockRecord, NoAttempts
<1> QED BY <1>3, <1>4, <1>5 DEF SameLock

LEMMA FollowSwitchSafe ==
  ASSUME NEW b, Sound(b), NEW level \in BOOLEAN
  PROVE  LET p == FollowSwitch(b, level)
         IN  Keeps(b.output, p)
             /\ (IsLocked(b) => p.commanded \subseteq b.output.config.hazard_member)
<1> DEFINE ign == FirstChannel(b.output.config.is_ignition)
<1>1. b.output \in Engine /\ AtMostOne(b.output.config.is_ignition)
  BY BoardFields DEF Sound, ValidOutputConfig
<1>2. ign = None \/ ign \in Channel
  BY <1>1, FirstOfAtMostOne DEF Engine, OutputConfig
<1>3. CASE FollowSwitch(b, level) = b.output
  BY <1>1, <1>3, KeepsRefl DEF Sound
<1>4. CASE ign # None /\ FollowSwitch(b, level) = OutputSet(b.output, ign, level, "local")
  BY <1>2, <1>4, OutputSetSafe
<1> QED BY <1>3, <1>4 DEF FollowSwitch

LEMMA SwitchedSafe ==
  ASSUME NEW b, Sound(b), NEW level \in BOOLEAN
  PROVE  Safe(b, Switched(b, level)) /\ Switched(b, level).lock.config = b.lock.config
<1> DEFINE p == FollowSwitch(b, level)
           m == [b.lock EXCEPT !.prev_switch = level]
           c == [b EXCEPT !.lock = m]
<1>1. b.lock \in LockRecord
  BY BoardFields DEF Sound
<1>2. SameLock(b.lock, m) /\ (NoAttempts(b.lock) => NoAttempts(m))
  BY <1>1 DEF SameLock, LockRecord, NoAttempts
<1>3. Keeps(b.output, p)
      /\ (IsLocked(b) => p.commanded \subseteq b.output.config.hazard_member)
  BY FollowSwitchSafe
<1> HIDE DEF m, p
<1>4. /\ Safe(b, c) /\ c.lock = m /\ c.output = b.output
  BY <1>2, SameLockSafe DEF Sound
<1>5. IsLocked(c) <=> IsLocked(b)
  BY <1>2, <1>4 DEF SameLock, IsLocked
<1>6. Switched(b, level) = [c EXCEPT !.output = p]
  <2>1. c = [lock |-> m, output |-> b.output]
    BY DEF Sound, Board
  <2>2. Switched(b, level) = [lock |-> m, output |-> p]
    BY DEF Switched, m, p
  <2> HIDE DEF c
  <2> QED BY <2>1, <2>2
<1> HIDE DEF c
<1>7. /\ Safe(c, [c EXCEPT !.output = p])
      /\ [c EXCEPT !.output = p].lock = c.lock
  BY <1>3, <1>4, <1>5, OutputSafe DEF Safe
<1> QED BY <1>2, <1>4, <1>6, <1>7 DEF Safe, SameLock

LEMMA GoToSafe ==
  ASSUME NEW b, Sound(b), ~ IsLocked(b), b.lock.config.immobilizer_enabled,
         NEW state \in {"UNLOCKED", "PARKED"}
  PROVE  Safe(b, GoTo(b, state)) /\ GoTo(b, state).lock.config = b.lock.config
<1> DEFINE m == [b.lock EXCEPT !.state = state, !.parked_for = 0]
<1>1. b.lock \in LockRecord /\ b.output \in Engine /\ ValidOutputConfig(b.output.config)
  BY BoardFields DEF Sound
<1>2. NoAttempts(b.lock) /\ ~ b.lock.locked_flag /\ ~ b.output.immobilized
  BY DEF Sound
<1>3. /\ m \in LockRecord /\ m.state = state /\ m.config = b.lock.config
      /\ ~ m.locked_flag /\ NoAttempts(m)
  BY <1>1, <1>2 DEF LockRecord, LockStates, NoAttempts
<1>4. GoTo(b, state) = [lock |-> m, output |-> b.output]
  <2>1. b = [lock |-> b.lock, output |-> b.output]
    BY DEF Sound, Board
  <2> QED BY <2>1 DEF GoTo
<1> HIDE DEF m
<1>5. Sound([lock |-> m, output |-> b.output])
  BY <1>1, <1>2, <1>3, OpenSound
<1> QED BY <1>3, <1>4, <1>5 DEF Safe

LEMMA EnterLockedSafe ==
  ASSUME NEW b, Sound(b), b.lock.config.immobilizer_enabled, ~ Riding(b.output)
  PROVE  Safe(b, EnterLocked(b)) /\ EnterLocked(b).lock.config = b.lock.config
<1>1. b \in Board /\ ValidOutputConfig(b.output.config) /\ ~ b.output.engine_running
  BY DEF Sound, Riding
<1>2. SetImmobilized(b.output, TRUE).config = b.output.config
  BY BoardFields DEF SetImmobilized, Sound, Engine
<1> QED BY <1>1, <1>2, EnterLockedSound DEF Safe, Untouched

LEMMA EnabledTickSafe ==
  ASSUME NEW b, Sound(b), NEW level \in BOOLEAN, b.lock.config.immobilizer_enabled
  PROVE  Safe(b, EnabledTick(b, level))
         /\ EnabledTick(b, level).lock.config = b.lock.config
<1>1. b.lock.state \in {"UNLOCKED", "PARKED", "LOCKED"}
  BY BoardFields DEF Sound, LockRecord, LockStates
<1>2. CASE EnabledTick(b, level) = b
  BY <1>2 DEF Safe
<1>3. CASE b.lock.state = "UNLOCKED"
  BY <1>2, <1>3, GoToSafe DEF EnabledTick, IsLocked
<1>4. CASE b.lock.state = "PARKED"
  BY <1>2, <1>4, GoToSafe, EnterLockedSafe DEF EnabledTick, IsLocked
<1>5. CASE b.lock.state = "LOCKED"
  BY <1>2, <1>5, SoundLeaves, EnterUnlockedSound DEF EnabledTick, Safe
<1> QED BY <1>1, <1>3, <1>4, <1>5

LEMMA SafeTrans ==
  ASSUME NEW b, NEW c, NEW d, Safe(b, c), Safe(c, d)
  PROVE  Safe(b, d)
BY DEF Safe

LEMMA LockTickSafe ==
  ASSUME NEW b, Sound(b), NEW level \in BOOLEAN
  PROVE  Safe(b, LockTick(b, level)) /\ LockTick(b, level).lock.config = b.lock.config
<1> DEFINE m == Elapse(b.lock)
           c == [b EXCEPT !.lock = Elapse(@)]
           s == Switched(c, level)
<1>1. SameLock(b.lock, m) /\ (NoAttempts(b.lock) => NoAttempts(m))
  BY BoardFields, ElapseSame DEF Sound
<1>2. Safe(b, c) /\ c.lock = m /\ c.lock.config = b.lock.config
  <2> HIDE DEF m
  <2>1. IsLocked(b) \/ NoAttempts(m)
    BY <1>1 DEF Sound
  <2>2. c = [b EXCEPT !.lock = m]
    BY DEF m
  <2> HIDE DEF c
  <2> QED BY <1>1, <2>1, <2>2, SameLockSafe DEF SameLock
<1> HIDE DEF c
<1>3. Sound(c)
  BY <1>2 DEF Safe
<1>4. CASE c.lock.config.immobilizer_enabled
  <2>1. Safe(c, s) /\ s.lock.config = c.lock.config
    BY <1>3, SwitchedSafe
  <2> HIDE DEF s
  <2>2. Safe(s, EnabledTick(s, level)) /\ EnabledTick(s, level).lock.config = s.lock.config
    BY <1>4, <2>1, EnabledTickSafe DEF Safe
  <2>3. LockTick(b, level) = EnabledTick(s, level)
    BY <1>4 DEF LockTick, c, s
  <2> QED BY <1>2, <2>1, <2>2, <2>3, SafeTrans
<1>5. CASE ~ c.lock.config.immobilizer_enabled /\ c.lock.state = "DISABLED"
  <2>1. LockTick(b, level) = c
    BY <1>5 DEF LockTick, c
  <2> QED BY <1>2, <2>1
<1>6. CASE ~ c.lock.config.immobilizer_enabled /\ c.lock.state # "DISABLED"
  BY <1>3, <1>6 DEF Sound
<1> QED BY <1>4, <1>5, <1>6

-----------------------------------------------------------------------------
(* Boot of an engine that has nothing on and no lock persisted             *)

LEMMA FirstBootSound ==
  ASSUME NEW cfg \in OutputConfig, ValidOutputConfig(cfg)
  PROVE  LET b == LockInit(DefaultLockConfig, FALSE, InitEngine(cfg, {}))
         IN  /\ Sound(b) /\ b.output.config = cfg
             /\ ~ b.lock.config.immobilizer_enabled
<1> DEFINE o == InitEngine(cfg, {})
           b == LockInit(DefaultLockConfig, FALSE, o)
           p == SetImmobilized(o, FALSE)
<1>1. o \in Engine /\ o.config = cfg
  BY InitEngineType DEF InitEngine
<1>2. p \in Engine /\ ~ p.immobilized /\ p.config = cfg
  <2> HIDE DEF o
  <2> QED BY <1>1 DEF SetImmobilized, Engine
<1>3. DefaultLockConfig \in LockConfig /\ ~ DefaultLockConfig.immobilizer_enabled
  BY DEF DefaultLockConfig, LockConfig
<1> HIDE DEF o
<1>4. b.output = p
  BY <1>3 DEF LockInit
<1>5. /\ b.lock \in LockRecord /\ b.lock.state = "DISABLED" /\ ~ b.lock.locked_flag
      /\ NoAttempts(b.lock) /\ b.lock.config = DefaultLockConfig
  BY <1>3, EmptySeq DEF LockInit, LockRecord, LockStates, NoAttempts
<1>6. b = [lock |-> b.lock, output |-> b.output]
  BY DEF LockInit
<1> HIDE DEF b, p
<1>7. Sound([lock |-> b.lock, output |-> p])
  BY <1>2, <1>3, <1>5, OpenSound
<1>8. Sound(b) /\ b.output.config = cfg /\ ~ b.lock.config.immobilizer_enabled
  BY <1>2, <1>3, <1>4, <1>5, <1>6, <1>7
<1> QED BY <1>8 DEF b, o

-----------------------------------------------------------------------------
(* What a call does to the phase, the key and the engine                   *)

IsOff(b) == b.lock.state = "DISABLED"

\* An unlock finds an ignition to turn on, and nothing refuses to.
KeyTurns(o) ==
  o.config.is_ignition # {} /\ o.config.is_ignition \cap o.config.is_starter = {}

\* The steps a call may take between the phases: on and off move nothing else,
\* a lock is engaged from an enabled immobilizer only, neither end of it
\* touches the engine, and its release leaves the key on.
Moves(b, c) ==
  /\ ~ (IsOff(b) <=> IsOff(c)) =>
       /\ IgnitionLive(c.output) <=> IgnitionLive(b.output)
       /\ c.output.engine_running = b.output.engine_running
  /\ IsOff(b) => ~ IsLocked(c)
  /\ ~ (IsLocked(b) <=> IsLocked(c)) => c.output.engine_running = b.output.engine_running
  /\ IsLocked(b) /\ ~ IsLocked(c) /\ ~ IsOff(c) => IgnitionLive(c.output)

LEMMA SameStateMoves ==
  ASSUME NEW b, NEW c, c.lock.state = b.lock.state
  PROVE  Moves(b, c)
BY DEF Moves, IsOff, IsLocked

LEMMA EnterUnlockedMoves ==
  ASSUME NEW b, AboutToLeave(b), IsLocked(b), KeyTurns(b.output)
  PROVE  LET r == EnterUnlocked(b)
         IN  /\ r.lock.state = "UNLOCKED" /\ IgnitionLive(r.output)
             /\ r.output.engine_running = b.output.engine_running
<1> DEFINE free == SetImmobilized(b.output, FALSE)
           ign == FirstChannel(free.config.is_ignition)
           o == OutputSet(free, ign, TRUE, "local")
           l == [SetFlag(b.lock, FALSE) EXCEPT !.state = "UNLOCKED", !.parked_for = 0]
<1>1. b.lock \in LockRecord /\ b.output \in Engine
  BY BoardFields DEF AboutToLeave
<1>2. /\ free \in Engine /\ ~ free.immobilized /\ free.config = b.output.config
      /\ free.engine_running = b.output.engine_running
  BY <1>1 DEF SetImmobilized, Engine
<1>3. ign \in free.config.is_ignition /\ ign \in Channel /\ ign # None
  BY <1>2, FirstOfAtMostOne, NoneNotChannel
  DEF AboutToLeave, ValidOutputConfig, KeyTurns, Engine, OutputConfig
<1>4. ResetCheatcode(l).state = "UNLOCKED"
  BY <1>1 DEF ResetCheatcode, SetFlag, LockRecord
<1>5. EnterUnlocked(b) = [lock |-> ResetCheatcode(l), output |-> o]
  BY <1>3 DEF EnterUnlocked, IsLocked
<1> HIDE DEF free, l
<1>6. o = ApplySet(free, ign, TRUE)
  BY <1>2, <1>3 DEF OutputSet, Permitted, KeyTurns
<1>7. Keeps(free, o)
  BY <1>2, <1>3, OutputSetKeeps
<1>8. IgnitionLive(o)
  BY <1>2, <1>3, <1>6, <1>7, OnLights DEF IgnitionLive, Keeps, Untouched
<1> HIDE DEF o
<1> QED BY <1>2, <1>4, <1>5, <1>7, <1>8 DEF Keeps, Untouched

LEMMA EnterDisabledMoves ==
  ASSUME NEW b, AboutToLeave(b)
  PROVE  LET r == EnterDisabled(b)
         IN  /\ r.lock.state = "DISABLED"
             /\ IgnitionLive(r.output) <=> IgnitionLive(b.output)
             /\ r.output.engine_running = b.output.engine_running
<1> DEFINE free == SetImmobilized(b.output, FALSE)
<1>1. b.output \in Engine
  BY BoardFields DEF AboutToLeave
<1>2. /\ free.config = b.output.config /\ free.commanded = b.output.commanded
      /\ free.engine_running = b.output.engine_running
  BY <1>1 DEF SetImmobilized, Engine
<1>3. EnterDisabled(b).output \in {b.output, free}
  BY DEF EnterDisabled, AboutToLeave, Board
<1> HIDE DEF free
<1> QED BY <1>2, <1>3, EnterDisabledEffect DEF IgnitionLive

LEMMA EnterLockedMoves ==
  ASSUME NEW b, Sound(b), b.lock.config.immobilizer_enabled, ~ Riding(b.output)
  PROVE  EnterLocked(b).output.engine_running = b.output.engine_running
<1>1. b \in Board /\ ValidOutputConfig(b.output.config) /\ ~ b.output.engine_running
  BY DEF Sound, Riding
<1>2. SetImmobilized(b.output, TRUE).engine_running = b.output.engine_running
  BY <1>1, BoardFields DEF SetImmobilized, Engine
<1> QED BY <1>1, <1>2, EnterLockedSound DEF Untouched

LEMMA RequestLockMoves ==
  ASSUME NEW b, Sound(b)
  PROVE  Moves(b, RequestLock(b))
<1>1. CASE RequestLock(b) = b
  BY <1>1, SameStateMoves
<1>2. CASE RequestLock(b) # b
  <2>1. /\ RequestLock(b) = EnterLocked(b) /\ ~ IsLocked(b)
        /\ b.lock.config.immobilizer_enabled /\ ~ Riding(b.output)
    BY <1>2 DEF RequestLock, IsLocked
  <2>2. EnterLocked(b).output.engine_running = b.output.engine_running
    BY <2>1, EnterLockedMoves
  <2>3. IsLocked(EnterLocked(b)) /\ ~ IsOff(b) /\ ~ IsOff(EnterLocked(b))
    <3>1. EnterLocked(b).lock.state = "LOCKED"
      BY BoardFields DEF EnterLocked, SetFlag, Sound, LockRecord
    <3> QED BY <2>1, <3>1 DEF IsLocked, IsOff, Sound
  <2> QED BY <2>1, <2>2, <2>3 DEF Moves
<1> QED BY <1>1, <1>2

LEMMA UnlockMoves ==
  ASSUME NEW b, NEW c, AboutToLeave(c), IsLocked(c), KeyTurns(c.output),
         IsLocked(b), c.output = b.output
  PROVE  Moves(b, EnterUnlocked(c))
BY EnterUnlockedMoves DEF Moves, IsLocked, IsOff

LEMMA RequestUnlockMoves ==
  ASSUME NEW b, Sound(b), IsLocked(b) => KeyTurns(b.output)
  PROVE  Moves(b, RequestUnlock(b))
BY UnlockMoves, SameStateMoves, SoundLeaves DEF RequestUnlock, IsLocked

LEMMA CheatcodePressMoves ==
  ASSUME NEW b, Sound(b), NEW button \in Button, IsLocked(b) => KeyTurns(b.output)
  PROVE  Moves(b, CheatcodePress(b, button))
<1> DEFINE entry == Entered(b.lock, button)
           c == [b EXCEPT !.lock = Judged(b.lock)]
<1>1. b.lock \in LockRecord
  BY BoardFields DEF Sound
<1>2. CASE CheatcodePress(b, button) = EnterUnlocked(c) /\ Listening(b.lock)
  <2>1. SameLock(b.lock, Judged(b.lock))
    BY <1>1, EntryTypes DEF SameLock, Judged, LockRecord
  <2>2. IsLocked(b)
    BY <1>2 DEF Listening, IsLocked
  <2>3. AboutToLeave(c) /\ c.lock.state = b.lock.state /\ c.output = b.output
    BY <2>1, <2>2, SameLockSafe DEF SameLock
  <2> HIDE DEF c
  <2> QED BY <1>2, <2>2, <2>3, UnlockMoves DEF IsLocked
<1>3. CASE ~ (CheatcodePress(b, button) = EnterUnlocked(c) /\ Listening(b.lock))
  <2>1. CheatcodePress(b, button).lock.state = b.lock.state
    <3>1. /\ Typed(b.lock, button).state = b.lock.state
          /\ Penalized(b.lock).state = b.lock.state
      BY <1>1 DEF Typed, Penalized, Judged, LockRecord
    <3>2. \/ CheatcodePress(b, button) = b
          \/ CheatcodePress(b, button) = [b EXCEPT !.lock = Typed(b.lock, button)]
          \/ CheatcodePress(b, button) = [b EXCEPT !.lock = Penalized(b.lock)]
      BY <1>3 DEF CheatcodePress
    <3> QED BY <3>1, <3>2 DEF Sound, Board
  <2> QED BY <2>1, SameStateMoves
<1> QED BY <1>2, <1>3

LEMMA SetCheatcodeMoves ==
  ASSUME NEW b, Sound(b), NEW code
  PROVE  Moves(b, SetCheatcode(b, code))
<1>1. SetCheatcode(b, code).lock.state = b.lock.state
  BY BoardFields DEF SetCheatcode, ResetCheatcode, Sound, Board, LockRecord
<1> QED BY <1>1, SameStateMoves

LEMMA ApplyLockConfigMoves ==
  ASSUME NEW b, Sound(b), NEW enabled \in BOOLEAN, NEW methods, NEW input
  PROVE  Moves(b, ApplyLockConfig(b, enabled, methods, input))
<1> DEFINE was == b.lock.config.immobilizer_enabled
           cfg == [b.lock.config EXCEPT !.immobilizer_enabled = enabled,
                                        !.methods = methods, !.switch_input = input]
           l == [b.lock EXCEPT !.config = cfg, !.dirty = TRUE]
           c == [b EXCEPT !.lock = [@ EXCEPT !.config = cfg, !.dirty = TRUE]]
           r == ApplyLockConfig(b, enabled, methods, input)
<1>1. b.lock \in LockRecord /\ b.output \in Engine
  BY BoardFields DEF Sound
<1>2. c = [lock |-> l, output |-> b.output] /\ l.state = b.lock.state
  BY <1>1 DEF Sound, Board, LockRecord
<1>3. r = b \/ r = c \/ r = EnterDisabled(c) \/ (~ was /\ r = GoTo(c, "UNLOCKED"))
  BY DEF ApplyLockConfig
<1> HIDE DEF cfg, l, c, r
<1>4. CASE r = b \/ r = c
  BY <1>2, <1>4, SameStateMoves DEF r
<1>5. CASE r = EnterDisabled(c)
  <2>1. EnterDisabled(c).lock.state = "DISABLED"
    BY <1>1, <1>2 DEF EnterDisabled, ResetCheatcode, SetFlag, LockRecord, l
  <2>2. /\ IgnitionLive(r.output) <=> IgnitionLive(b.output)
        /\ r.output.engine_running = b.output.engine_running
    BY <1>1, <1>2, <1>5 DEF EnterDisabled, SetImmobilized, IgnitionLive, Engine
  <2> QED BY <1>5, <2>1, <2>2 DEF Moves, IsOff, IsLocked, r
<1>6. CASE ~ was /\ r = GoTo(c, "UNLOCKED")
  <2>1. r.output = b.output
    BY <1>2, <1>6 DEF GoTo
  <2>2. r.lock.state = "UNLOCKED"
    BY <1>1, <1>2, <1>6 DEF GoTo, LockRecord, l
  <2>3. IsOff(b)
    BY <1>6 DEF Sound, IsOff
  <2> QED BY <2>1, <2>2, <2>3 DEF Moves, IsOff, IsLocked, r
<1> QED BY <1>3, <1>4, <1>5, <1>6

LEMMA TransferMoves ==
  ASSUME NEW b, Sound(b)
  PROVE  Moves(b, TransferOwnership(b))
<1> DEFINE r == EnterDisabled(b)
           t == TransferOwnership(b)
<1>1. /\ r = [lock |-> r.lock, output |-> r.output]
      /\ r.lock \in LockRecord
  BY SoundLeaves, EnterDisabledEffect
<1>2. /\ r.lock.state = "DISABLED"
      /\ IgnitionLive(r.output) <=> IgnitionLive(b.output)
      /\ r.output.engine_running = b.output.engine_running
  BY SoundLeaves, EnterDisabledMoves
<1>3. t = [r EXCEPT !.lock.config = DefaultLockConfig, !.lock.dirty = TRUE]
  BY DEF TransferOwnership
<1> HIDE DEF r, t
<1>4. t.lock.state = r.lock.state /\ t.output = r.output
  BY <1>1, <1>3 DEF LockRecord
<1> QED BY <1>2, <1>4 DEF Moves, IsOff, IsLocked, t

\* A tick neither enables nor disables, and leaves the engine alone.
Ticks(b, c) ==
  /\ IsOff(b) <=> IsOff(c)
  /\ IsOff(b) => ~ IsLocked(c)
  /\ c.output.engine_running = b.output.engine_running
  /\ IsLocked(b) /\ ~ IsLocked(c) => IgnitionLive(c.output)

LEMMA EnabledTickTicks ==
  ASSUME NEW b, Sound(b), NEW level \in BOOLEAN, b.lock.config.immobilizer_enabled,
         IsLocked(b) => KeyTurns(b.output)
  PROVE  Ticks(b, EnabledTick(b, level))
<1> DEFINE r == EnabledTick(b, level)
<1>1. b.lock.state \in {"UNLOCKED", "PARKED", "LOCKED"} /\ ~ IsOff(b)
  BY BoardFields DEF Sound, LockRecord, LockStates, IsOff
<1>2. CASE r = b
  BY <1>1, <1>2 DEF Ticks
<1>3. ASSUME NEW state \in {"UNLOCKED", "PARKED"}, ~ IsLocked(b), r = GoTo(b, state)
      PROVE  Ticks(b, r)
  <2>1. GoTo(b, state).lock.state = state /\ GoTo(b, state).output = b.output
    BY <1>3, BoardFields DEF GoTo, Sound, Board, LockRecord
  <2> HIDE DEF r
  <2> QED BY <1>1, <1>3, <2>1 DEF Ticks, IsOff, IsLocked
<1>4. ASSUME ~ IsLocked(b), ~ Riding(b.output), r = EnterLocked(b)
      PROVE  Ticks(b, r)
  <2>1. EnterLocked(b).lock.state = "LOCKED"
    BY BoardFields DEF EnterLocked, SetFlag, Sound, LockRecord
  <2> QED BY <1>1, <1>4, <2>1, EnterLockedMoves DEF Ticks, IsOff, IsLocked
<1>5. ASSUME IsLocked(b), r = EnterUnlocked(b)
      PROVE  Ticks(b, r)
  BY <1>1, <1>5, SoundLeaves, EnterUnlockedMoves DEF Ticks, IsOff, IsLocked
<1> HIDE DEF r
<1>6. \/ r = b
      \/ ~ IsLocked(b) /\ \E state \in {"UNLOCKED", "PARKED"} : r = GoTo(b, state)
      \/ ~ IsLocked(b) /\ ~ Riding(b.output) /\ r = EnterLocked(b)
      \/ IsLocked(b) /\ r = EnterUnlocked(b)
  BY <1>1 DEF EnabledTick, IsLocked, r
<1> QED BY <1>2, <1>3, <1>4, <1>5, <1>6 DEF r

LEMMA LockTickTicks ==
  ASSUME NEW b, Sound(b), NEW level \in BOOLEAN, IsLocked(b) => KeyTurns(b.output)
  PROVE  Ticks(b, LockTick(b, level))
<1> DEFINE m == Elapse(b.lock)
           c == [b EXCEPT !.lock = Elapse(@)]
           s == Switched(c, level)
<1>1. SameLock(b.lock, m) /\ (NoAttempts(b.lock) => NoAttempts(m))
  BY BoardFields, ElapseSame DEF Sound
<1>2. Sound(c) /\ c.lock = m /\ c.output = b.output /\ c.lock.state = b.lock.state
  <2> HIDE DEF m
  <2>1. IsLocked(b) \/ NoAttempts(m)
    BY <1>1 DEF Sound
  <2>2. c = [b EXCEPT !.lock = m]
    BY DEF m
  <2> HIDE DEF c
  <2> QED BY <1>1, <2>1, <2>2, SameLockSafe DEF SameLock, Safe
<1> HIDE DEF c
<1>3. CASE c.lock.config.immobilizer_enabled
  <2>1. Safe(c, s) /\ s.lock.config = c.lock.config
    BY <1>2, SwitchedSafe
  <2>2. s.lock.state = b.lock.state
    BY <1>2, BoardFields DEF Switched, Sound, LockRecord
  <2>3. s.output.engine_running = b.output.engine_running
    BY <1>2, FollowSwitchSafe DEF Switched, Keeps, Untouched
  <2> HIDE DEF s
  <2>4. IsLocked(s) => KeyTurns(s.output)
    BY <1>2, <2>1, <2>2 DEF IsLocked, KeyTurns, Safe
  <2>5. Ticks(s, EnabledTick(s, level))
    BY <1>3, <2>1, <2>4, EnabledTickTicks DEF Safe
  <2>6. LockTick(b, level) = EnabledTick(s, level)
    BY <1>3 DEF LockTick, c, s
  <2> QED BY <2>2, <2>3, <2>5, <2>6 DEF Ticks, IsOff, IsLocked
<1>4. CASE ~ c.lock.config.immobilizer_enabled
  <2>1. LockTick(b, level) = c
    <3>1. c.lock.state = "DISABLED"
      BY <1>2, <1>4 DEF Sound
    <3> QED BY <1>4, <3>1 DEF LockTick, c
  <2> QED BY <1>2, <2>1 DEF Ticks, IsOff, IsLocked
<1> QED BY <1>3, <1>4

=============================================================================
