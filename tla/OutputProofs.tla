---------------------------- MODULE OutputProofs ----------------------------
(***************************************************************************)
(* The theorems of Output and Diag, for every set of configurations the    *)
(* validation accepts and every number of channels.                        *)
(***************************************************************************)
EXTENDS Diag, EngineProofs

-----------------------------------------------------------------------------
(* What an accepted command does to the set of lit channels                *)

\* A plain channel is lit after a command if it was commanded on, or was lit
\* and is another channel.
LEMMA PlainByCommand ==
  ASSUME NEW o \in Engine, NEW ch \in Channel, NEW state \in BOOLEAN,
         NEW c \in Plain(o.config), c \in ApplySet(o, ch, state).commanded
  PROVE  IF c = ch THEN state ELSE c \in o.commanded
<1> DEFINE p == Cleared(o, ch, state)
           q == Commanded(p, ch, state)
<1>1. p \in Engine /\ p.config = o.config
  BY ClearedKeeps DEF Keeps, Untouched
<1>2. q \in Engine /\ q.config = o.config
  <2> HIDE DEF p
  <2> QED BY <1>1, CommandedKeeps DEF Keeps, Untouched
<1>3. c \in p.commanded => c \in o.commanded
  BY ClearedLights DEF Plain
<1>4. c \in q.commanded => IF c = ch THEN state ELSE c \in p.commanded
  <2> HIDE DEF p
  <2> QED BY <1>1 DEF Commanded, SetRaw, ArmAutoCancel, Engine
<1>5. c \in KeyEdge(p, q, ch, state).commanded => c \in q.commanded
  <2> HIDE DEF p, q
  <2> QED BY <1>2 DEF KeyEdge, IgnitionOn, IgnitionOff, ClearDeadlines,
                      Engine, OutputConfig, Plain
<1> QED BY <1>3, <1>4, <1>5 DEF ApplySet

\* A channel that is commanded off is out.
LEMMA OffPutsOut ==
  ASSUME NEW o \in Engine, NEW ch \in Channel
  PROVE  ch \notin ApplySet(o, ch, FALSE).commanded
<1> DEFINE p == Cleared(o, ch, FALSE)
           q == Commanded(p, ch, FALSE)
<1>1. p \in Engine
  BY ClearedKeeps DEF Keeps
<1>2. q \in Engine /\ ch \notin q.commanded
  <2> HIDE DEF p
  <2> QED BY <1>1, CommandedKeeps DEF Keeps, Commanded, SetRaw, ArmAutoCancel, Engine
<1>3. ch \notin KeyEdge(p, q, ch, FALSE).commanded
  <2> HIDE DEF p, q
  <2> QED BY <1>2 DEF KeyEdge, IgnitionOff, ClearDeadlines, Engine
<1> QED BY <1>3 DEF ApplySet

\* Making room for a channel puts its partner out,
LEMMA PartnerCleared ==
  ASSUME NEW o \in Engine, ValidOutputConfig(o.config), NEW ch \in Channel
  PROVE  o.config.alternate[ch] \notin Cleared(o, ch, TRUE).commanded
<1> DEFINE o1 == IF ch \in o.config.hazard_member THEN EndHazardMode(o, ch) ELSE o
           o2 == IF ch \in OnSide(o.config) THEN DropOpposite(o1, ch) ELSE o1
<1>1. o1 \in Engine /\ o1.config = o.config
  BY EndHazardModeKeeps DEF Keeps, Untouched
<1>2. o2 \in Engine /\ o2.config = o.config
  <2> HIDE DEF o1
  <2> QED BY <1>1, DropOppositeKeeps DEF Keeps, Untouched
<1>3. Cleared(o, ch, TRUE) = DropPartner(o2, ch)
  BY DEF Cleared
<1> HIDE DEF o2
<1> QED BY <1>2, <1>3 DEF DropPartner, SetRaw, Engine

\* and out it stays, unless the key lights it.
LEMMA PartnerOut ==
  ASSUME NEW o \in Engine, ValidOutputConfig(o.config), NEW ch \in Channel,
         o.config.alternate[ch] \in Plain(o.config)
  PROVE  o.config.alternate[ch] \notin ApplySet(o, ch, TRUE).commanded
<1> DEFINE partner == o.config.alternate[ch]
           p == Cleared(o, ch, TRUE)
           q == Commanded(p, ch, TRUE)
<1>1. p \in Engine /\ p.config = o.config
  BY ClearedKeeps DEF Keeps, Untouched
<1>2. q \in Engine /\ q.config = o.config
  <2> HIDE DEF p
  <2> QED BY <1>1, CommandedKeeps DEF Keeps, Untouched
<1>3. partner \in Channel /\ partner # None /\ partner # ch
  BY NoneNotChannel DEF ValidOutputConfig, Plain
<1>4. partner \notin p.commanded
  BY PartnerCleared
<1>5. partner \notin q.commanded
  <2> HIDE DEF p, partner
  <2> QED BY <1>1, <1>3, <1>4 DEF Commanded, SetRaw, ArmAutoCancel, Engine
<1>6. partner \notin KeyEdge(p, q, ch, TRUE).commanded
  <2> HIDE DEF p, q
  <2> QED BY <1>2, <1>5 DEF KeyEdge, IgnitionOn, ClearDeadlines,
                            Engine, OutputConfig, Plain
<1> QED BY <1>6 DEF ApplySet

-----------------------------------------------------------------------------
(* Auto-cancel                                                             *)

\* The inductive form of IndicatorArmed, for the indicators among the channels
\* S: while the hazards run it is still true of those that do not take part;
\* "but" is a channel that is about to be set.
ArmedBut(o, S, but) ==
  \A c \in OnSide(o.config) \cap S :
    (/\ c # but
     /\ c \in o.commanded
     /\ o.config.turn_auto_cancel > 0
     /\ c \in o.config.hazard_member => ~ o.hazard_active)
    => o.deadline[c] > 0

Armed(o, S) == ArmedBut(o, S, None)

LEMMA EndHazardModeArmed ==
  ASSUME NEW o \in Engine, NEW S, Armed(o, S), NEW but \in Channel \cup {None}
  PROVE  ArmedBut(EndHazardMode(o, but), S, but)
BY DEF Armed, ArmedBut, EndHazardMode, Rearmed, Engine, OutputConfig, OnSide, None, Channel

LEMMA ClearedArmed ==
  ASSUME NEW o \in Engine, NEW S, Armed(o, S), NEW ch \in Channel, NEW state \in BOOLEAN
  PROVE  ArmedBut(Cleared(o, ch, state), S, ch)
<1> DEFINE o1 == IF ch \in o.config.hazard_member THEN EndHazardMode(o, ch) ELSE o
           o2 == IF state /\ ch \in OnSide(o.config) THEN DropOpposite(o1, ch) ELSE o1
           o3 == IF state THEN DropPartner(o2, ch) ELSE o2
<1>1. Keeps(o, o1) /\ o1 \in Engine
  BY EndHazardModeKeeps, KeepsRefl DEF Keeps
<1>2. ArmedBut(o1, S, ch)
  <2>1. ArmedBut(o, S, ch)
    BY NoneNotChannel DEF Armed, ArmedBut, OnSide
  <2> QED BY <2>1, EndHazardModeArmed
<1>3. Keeps(o1, o2) /\ o2 \in Engine
  <2> HIDE DEF o1
  <2> QED BY <1>1, DropOppositeKeeps, KeepsRefl DEF Keeps
<1>4. ArmedBut(o2, S, ch)
  <2> HIDE DEF o1
  <2> QED BY <1>1, <1>2 DEF ArmedBut, DropOpposite, SetRaw, ClearDeadlines,
                            Engine, OutputConfig, OnSide
<1>5. ArmedBut(o3, S, ch)
  <2> HIDE DEF o2
  <2> QED BY <1>3, <1>4 DEF ArmedBut, DropPartner, SetRaw, Engine, OutputConfig, OnSide
<1> QED BY <1>5 DEF Cleared

LEMMA CommandedArmed ==
  ASSUME NEW o \in Engine, NEW S, NEW ch \in Channel, NEW state \in BOOLEAN,
         ArmedBut(o, S, ch)
  PROVE  Armed(Commanded(o, ch, state), S \cup {ch})
BY DEF Armed, ArmedBut, Commanded, SetRaw, ArmAutoCancel, Engine, OutputConfig,
       OnSide

\* Key on lights no indicator of S raw; key off puts every indicator out but
\* one that is the ignition, and that one was just commanded off.
LEMMA KeyEdgeArmed ==
  ASSUME NEW was, NEW o \in Engine, NEW S, NEW ch \in Channel, NEW state \in BOOLEAN,
         Armed(o, S), AtMostOne(o.config.is_ignition), was.config = o.config,
         ~ state => ch \notin o.commanded,
         state => S \cap o.config.on_with_ignition \subseteq o.commanded
  PROVE  Armed(KeyEdge(was, o, ch, state), S)
<1>1. CASE KeyEdge(was, o, ch, state) = o
  BY <1>1
<1>2. CASE state /\ KeyEdge(was, o, ch, state) = IgnitionOn(o)
  <2> DEFINE lit == o.config.on_with_ignition \ (o.config.is_ignition \cup o.commanded)
             p == IgnitionOn(o)
  <2>1. /\ p.commanded = o.commanded \cup lit /\ p.config = o.config
        /\ p.hazard_active = o.hazard_active
        /\ \A c \in Channel \ lit : p.deadline[c] = o.deadline[c]
    BY DEF IgnitionOn, ClearDeadlines, Engine
  <2>2. lit \cap S = {}
    BY <1>2
  <2> HIDE DEF lit, p
  <2>3. Armed(p, S)
    BY <2>1, <2>2 DEF Armed, ArmedBut, OnSide
  <2> QED BY <1>2, <2>3 DEF p
<1>3. CASE ~ state /\ ch \in o.config.is_ignition
           /\ KeyEdge(was, o, ch, state) = IgnitionOff(o)
  BY <1>3 DEF Armed, ArmedBut, IgnitionOff, ClearDeadlines,
              AtMostOne, Engine, OutputConfig, OnSide
<1> QED BY <1>1, <1>2, <1>3 DEF KeyEdge

\* The channels of S that may still be lit for their own sake.
LEMMA ApplySetArmed ==
  ASSUME NEW o \in Engine, ValidOutputConfig(o.config), NEW S, Armed(o, S),
         NEW ch \in Channel, NEW state \in BOOLEAN, NEW T,
         T \subseteq S \cup {ch},
         T \cap o.config.on_with_ignition \subseteq Cleared(o, ch, state).commanded \cup {ch}
  PROVE  Armed(ApplySet(o, ch, state), T)
<1> DEFINE p == Cleared(o, ch, state)
           q == Commanded(p, ch, state)
<1>1. p \in Engine /\ p.config = o.config
  BY ClearedKeeps DEF Keeps, Untouched
<1>2. q \in Engine /\ q.config = o.config
  <2> HIDE DEF p
  <2> QED BY <1>1, CommandedKeeps DEF Keeps, Untouched
<1>3. ArmedBut(p, S, ch)
  BY ClearedArmed
<1>4. Armed(q, S \cup {ch})
  <2> HIDE DEF p
  <2> QED BY <1>1, <1>3, CommandedArmed
<1>5. Armed(q, T)
  <2> HIDE DEF q
  <2> QED BY <1>4 DEF Armed, ArmedBut
<1>6. q.commanded = IF state THEN p.commanded \cup {ch} ELSE p.commanded \ {ch}
  <2> HIDE DEF p
  <2> QED BY <1>1 DEF Commanded, SetRaw, ArmAutoCancel, Engine
<1>7. Armed(KeyEdge(p, q, ch, state), T)
  <2>1. ~ state => ch \notin q.commanded
    <3> HIDE DEF p, q
    <3> QED BY <1>6
  <2>2. state => T \cap q.config.on_with_ignition \subseteq q.commanded
    <3> HIDE DEF q
    <3> QED BY <1>2, <1>6
  <2> HIDE DEF p, q
  <2> QED BY <1>1, <1>2, <1>5, <2>1, <2>2, KeyEdgeArmed DEF ValidOutputConfig
<1> QED BY <1>7 DEF ApplySet

LEMMA HazardPressArmed ==
  ASSUME NEW o \in Engine, NEW S, Armed(o, S)
  PROVE  Armed(HazardPress(o), S)
<1>1. Armed(EndHazardMode(o, None), S)
  BY EndHazardModeArmed DEF Armed
<1>2. ~ o.hazard_active => Armed(StartHazardMode(o), S)
  BY DEF Armed, ArmedBut, StartHazardMode, ClearDeadlines, Engine, OutputConfig, OnSide
<1> QED BY <1>1, <1>2 DEF HazardPress

LEMMA OutputTickArmed ==
  ASSUME NEW o \in Engine, NEW S, Armed(o, S)
  PROVE  Armed(OutputTick(o), S)
BY DEF Armed, ArmedBut, OutputTick, Engine, OutputConfig, OnSide

-----------------------------------------------------------------------------
(* Turn exclusion                                                          *)

\* The inductive form of TurnExclusive: while the hazards hold both signals,
\* it is what they will be given back that excludes the other.  R are the
\* channels that are as the flash had them.
Exclusive(o, R, c, d) ==
  IF o.hazard_active /\ c \in o.config.hazard_member
  THEN {c, d} \subseteq o.hazard_saved => {c, d} \subseteq R
  ELSE {c, d} \subseteq o.commanded => {c, d} \subseteq R

\* The scan for the opposite side finds the other signal.
LEMMA OppositeFound ==
  ASSUME NEW cf \in OutputConfig, NEW c, NEW d, Opposed(cf, c, d)
  PROVE  FindIndicator(cf, OppositeSide(cf.indicator[c])) = d
<1>1. c \in Channel /\ d \in Channel /\ c # d
  BY DEF Opposed, OnSide
<1>2. cf.indicator[c] # cf.indicator[d]
  BY <1>1 DEF Opposed, OnSide
<1>3. cf.indicator[d] = OppositeSide(cf.indicator[c])
  BY <1>1, <1>2 DEF Opposed, OnSide, OppositeSide, OutputConfig, Sides
<1>4. {e \in Channel : cf.indicator[e] = cf.indicator[d]} = {d}
  BY <1>1 DEF Opposed, OnSide
<1> QED BY <1>1, <1>3, <1>4, FirstOfOne DEF FindIndicator

\* Leaving hazard mode, dropping an opposite or a partner keep two signals
\* apart, neither of which is the channel being set.
LEMMA ClearedApart ==
  ASSUME NEW o \in Engine, NEW R, NEW c, NEW d, Signals(o.config, c, d), Exclusive(o, R, c, d),
         NEW ch \in Channel \ {c, d}, NEW state \in BOOLEAN
  PROVE  Exclusive(Cleared(o, ch, state), R, c, d)
<1> DEFINE o1 == IF ch \in o.config.hazard_member THEN EndHazardMode(o, ch) ELSE o
           o2 == IF state /\ ch \in OnSide(o.config) THEN DropOpposite(o1, ch) ELSE o1
           o3 == IF state THEN DropPartner(o2, ch) ELSE o2
<1>1. Keeps(o, o1) /\ o1 \in Engine
  BY EndHazardModeKeeps, KeepsRefl DEF Keeps
<1>2. Exclusive(o1, R, c, d)
  BY DEF Exclusive, EndHazardMode, Signals, Opposed, Engine, OutputConfig
<1>3. Keeps(o1, o2) /\ o2 \in Engine
  <2> HIDE DEF o1
  <2> QED BY <1>1, DropOppositeKeeps, KeepsRefl DEF Keeps
<1>4. Exclusive(o2, R, c, d)
  <2> HIDE DEF o1
  <2> QED BY <1>1, <1>2 DEF Exclusive, DropOpposite, SetRaw, ClearDeadlines, Engine
<1>5. Exclusive(o3, R, c, d)
  <2> HIDE DEF o2
  <2> QED BY <1>3, <1>4 DEF Exclusive, DropPartner, SetRaw, Engine
<1> QED BY <1>5 DEF Cleared

\* Commanding one of the two signals puts one of them out, and ends hazards
\* they take part in.
LEMMA ClearedOpposite ==
  ASSUME NEW o \in Engine, NEW c, NEW d, Opposed(o.config, c, d)
  PROVE  /\ d \notin Cleared(o, c, TRUE).commanded
         /\ \A state \in BOOLEAN :
              c \in o.config.hazard_member => ~ Cleared(o, c, state).hazard_active
<1> DEFINE o1 == IF c \in o.config.hazard_member THEN EndHazardMode(o, c) ELSE o
<1>1. c \in Channel /\ d \in Channel /\ c # d /\ c \in OnSide(o.config)
  BY DEF Opposed, OnSide
<1>2. o1 \in Engine /\ o1.config = o.config
  BY <1>1, EndHazardModeKeeps DEF Keeps, Untouched
<1>3. c \in o.config.hazard_member => ~ o1.hazard_active
  BY DEF EndHazardMode, Engine
<1>4. d \notin DropOpposite(o1, c).commanded
  <2>1. o.config \in OutputConfig
    BY DEF Engine
  <2>2. FindIndicator(o1.config, OppositeSide(o1.config.indicator[c])) = d
    BY <1>2, <2>1, OppositeFound
  <2> HIDE DEF o1
  <2> QED BY <1>1, <1>2, <2>2 DEF DropOpposite, SetRaw, ClearDeadlines, Engine
<1> HIDE DEF o1
<1>5. d \notin DropPartner(DropOpposite(o1, c), c).commanded
  BY <1>1, <1>2, <1>4, DropOppositeKeeps DEF DropPartner, SetRaw, Keeps, Engine
<1>6. ASSUME NEW state \in BOOLEAN, c \in o.config.hazard_member
      PROVE  ~ Cleared(o, c, state).hazard_active
  BY <1>1, <1>2, <1>3, <1>6, DropOppositeKeeps
     DEF o1, Cleared, DropPartner, DropOpposite, SetRaw, ClearDeadlines, Engine
<1> QED BY <1>1, <1>5, <1>6 DEF Cleared, o1

LEMMA ApplySetExclusive ==
  ASSUME NEW o \in Engine, ValidOutputConfig(o.config),
         NEW R, NEW c, NEW d, Signals(o.config, c, d), Exclusive(o, R, c, d),
         NEW ch \in Channel, NEW state \in BOOLEAN, NEW T,
         ch \notin {c, d} => T = R
  PROVE  Exclusive(ApplySet(o, ch, state), T, c, d)
<1> DEFINE p == Cleared(o, ch, state)
           q == Commanded(p, ch, state)
<1>1. p \in Engine /\ p.config = o.config
  BY ClearedKeeps DEF Keeps, Untouched
<1>2. q \in Engine /\ q.config = o.config
  <2> HIDE DEF p
  <2> QED BY <1>1, CommandedKeeps DEF Keeps, Untouched
<1>3. /\ q.hazard_active = p.hazard_active /\ q.hazard_saved = p.hazard_saved
      /\ q.commanded = IF state THEN p.commanded \cup {ch} ELSE p.commanded \ {ch}
  <2> HIDE DEF p
  <2> QED BY <1>1 DEF Commanded, SetRaw, ArmAutoCancel, Engine
<1>4. Exclusive(q, T, c, d)
  <2>1. CASE ch \notin {c, d}
    <3>1. Exclusive(p, R, c, d)
      BY <2>1, ClearedApart
    <3> HIDE DEF p, q
    <3> QED BY <1>1, <1>2, <1>3, <2>1, <3>1 DEF Exclusive
  <2>2. CASE ch = c
    <3>1. state => d \notin p.commanded
      BY <2>2, ClearedOpposite DEF Signals
    <3>2. c \in o.config.hazard_member => ~ p.hazard_active
      BY <2>2, ClearedOpposite DEF Signals
    <3>3. c # d
      BY DEF Signals, Opposed
    <3> HIDE DEF p, q
    <3> QED BY <1>2, <1>3, <2>2, <3>1, <3>2, <3>3 DEF Exclusive
  <2>3. CASE ch = d
    <3>0. Signals(o.config, d, c)
      BY DEF Signals, Opposed
    <3>1. state => c \notin p.commanded
      BY <2>3, <3>0, ClearedOpposite DEF Signals
    <3>2. c \in o.config.hazard_member => ~ p.hazard_active
      <4>1. c \in o.config.hazard_member => d \in o.config.hazard_member
        BY DEF Signals
      <4> QED BY <2>3, <3>0, <4>1, ClearedOpposite DEF Signals
    <3>3. c # d
      BY DEF Signals, Opposed
    <3> HIDE DEF p, q
    <3> QED BY <1>2, <1>3, <2>3, <3>1, <3>2, <3>3 DEF Exclusive
  <2> QED BY <2>1, <2>2, <2>3
<1>5. Exclusive(KeyEdge(p, q, ch, state), T, c, d)
  <2> HIDE DEF p, q
  <2>1. Exclusive(IgnitionOn(q), T, c, d)
    BY <1>2, <1>4 DEF Exclusive, IgnitionOn, ClearDeadlines, Signals, Opposed, OnSide, Engine
  <2>2. Exclusive(IgnitionOff(q), T, c, d)
    BY <1>2 DEF Exclusive, IgnitionOff, ClearDeadlines, Signals, Opposed, OnSide,
                ValidOutputConfig, AtMostOne, Engine, OutputConfig
  <2> QED BY <1>4, <2>1, <2>2 DEF KeyEdge
<1> QED BY <1>5 DEF ApplySet

LEMMA HazardPressExclusive ==
  ASSUME NEW o \in Engine, NEW R, NEW c, NEW d, Signals(o.config, c, d), Exclusive(o, R, c, d)
  PROVE  Exclusive(HazardPress(o), R, c, d)
BY NoneNotChannel DEF Exclusive, HazardPress, EndHazardMode, StartHazardMode,
   ClearDeadlines, Signals, Opposed, OnSide, Engine, OutputConfig

\* What is kept of R is enough.
LEMMA ExclusiveKept ==
  ASSUME NEW o \in Engine, NEW R, NEW c, NEW d, Signals(o.config, c, d), Exclusive(o, R, c, d),
         NEW ask, ask \cap {c, d} = {}
  PROVE  Exclusive(o, (R \ ask) \cap Held(o), c, d)
BY DEF Exclusive, Held

-----------------------------------------------------------------------------
(* The theorems                                                            *)

\* The indicators that owe themselves an end.
Owed == asked \cup (Channel \ (cfg.on_with_ignition \cup restored))

Asunder == \A c, d \in Channel : Opposed(cfg, c, d) => ~ {c, d} \subseteq asked

IInv ==
  /\ TypeOK
  /\ StarterProtected
  /\ PairExclusive
  /\ Asunder
  /\ Armed(engine, Owed)
  /\ \A c, d \in Channel : Signals(cfg, c, d) => Exclusive(engine, restored, c, d)

LEMMA InitIInv == Init => IInv
<1> SUFFICES ASSUME Init PROVE IInv
  OBVIOUS
<1>1. PICK c \in Configs, saved \in SUBSET Channel : engine = InitEngine(c, saved)
  BY DEF Init
<1>2. c \in OutputConfig
  BY ConfigsAssumption
<1>3. cfg = c /\ ~ engine.hazard_active /\ ~ engine.engine_running
  BY <1>1 DEF InitEngine, cfg
<1>4. TypeOK
  <2>1. engine \in Engine
    BY <1>1, <1>2, InitEngineType
  <2> QED BY <1>3, <2>1 DEF Init, TypeOK, Held, on
<1>5. Armed(engine, Owed)
  BY DEF Init, Armed, ArmedBut, Owed, OnSide, cfg, on
<1> QED BY <1>3, <1>4, <1>5 DEF Init, IInv, StarterProtected, PairExclusive, Asunder,
                                Exclusive, on

\* A command, accepted or refused, preserves the invariant.
LEMMA CommandIInv ==
  ASSUME IInv, NEW ch \in Channel, NEW state \in BOOLEAN, NEW source \in Sources,
         engine' = OutputSet(engine, ch, state, source), prior' = {},
         Credited(ch, state, source)
  PROVE  IInv'
<1> USE DEF IInv
<1>1. engine \in Engine /\ cfg \in Configs /\ ValidOutputConfig(cfg) /\ engine.config = cfg
      /\ asked \in SUBSET on /\ restored \in SUBSET Held(engine)
  BY ConfigsAssumption DEF TypeOK, cfg
<1>2. Keeps(engine, engine')
  BY <1>1, OutputSetKeeps DEF cfg
<1>3. engine' \in Engine /\ cfg' = cfg /\ engine'.engine_running = engine.engine_running
  BY <1>2 DEF Keeps, Untouched, cfg
<1>4. CASE Permitted(engine, ch, state, source)
  <2> DEFINE room == Cleared(engine, ch, state).commanded
  <2>1. engine' = ApplySet(engine, ch, state)
    BY <1>4 DEF OutputSet
  <2>2. /\ asked' = ((asked \cap room) \cup {ch}) \cap on'
        /\ restored' = (restored \ {ch}) \cap Held(engine')
    BY <1>4 DEF Credited, Credit
  <2> HIDE DEF room
  <2>3. TypeOK'
    BY <1>1, <1>3, <2>2 DEF TypeOK
  <2>4. ~ state => ch \notin asked'
    <3> SUFFICES ASSUME ~ state PROVE ch \notin on'
      BY <2>2
    <3> QED BY <1>1, <2>1, OffPutsOut DEF on
  <2>5. ASSUME NEW c \in Plain(cfg), c \in on'
        PROVE  IF c = ch THEN state ELSE c \in on
    BY <1>1, <2>1, <2>5, PlainByCommand DEF cfg, on
  <2>6. StarterProtected'
    <3> SUFFICES ASSUME engine.engine_running, NEW c \in Plain(cfg) \cup asked',
                        c \in cfg.is_starter, c \in on'
                 PROVE  FALSE
      BY <1>3 DEF StarterProtected
    <3>1. c # ch
      <4>1. state => ch \notin cfg.is_starter
        BY <1>4 DEF Permitted, cfg
      <4> QED BY <2>4, <2>5, <4>1
    <3>2. c \in (Plain(cfg) \cup asked) \cap on
      BY <1>1, <2>2, <2>5, <3>1
    <3> QED BY <3>2 DEF StarterProtected
  <2>7. PairExclusive'
    <3> SUFFICES ASSUME NEW c \in asked',
                        cfg.alternate[c] \in asked' \cup (on' \cap Plain(cfg))
                 PROVE  FALSE
      BY <1>3 DEF PairExclusive
    <3> DEFINE d == cfg.alternate[c]
    <3>1. on \subseteq Channel /\ on' \subseteq Channel
      BY <1>1, <1>3 DEF Engine, on
    <3>2. c \in Channel /\ d \in Channel /\ c # d /\ cfg.alternate[d] = c
      BY <1>1, <2>2, <3>1, NoneNotChannel DEF Plain, ValidOutputConfig
    <3>3. state => cfg.alternate[ch] \notin room
      BY <1>1, PartnerCleared DEF room, cfg
    <3>4. c # ch
      <4>1. d \in Plain(cfg) /\ state /\ c = ch => d \notin on'
        BY <1>1, <2>1, PartnerOut DEF cfg, on
      <4> QED BY <2>2, <2>4, <3>2, <3>3, <4>1
    <3>5. d # ch
      BY <2>2, <2>4, <2>5, <3>2, <3>3, <3>4
    <3>6. c \in asked /\ d \in asked \cup (on \cap Plain(cfg))
      BY <2>2, <2>5, <3>4, <3>5
    <3> QED BY <3>6 DEF PairExclusive
  <2>8. Asunder'
    <3> SUFFICES ASSUME NEW c \in Channel, NEW d \in Channel, Opposed(cfg, c, d),
                        {c, d} \subseteq asked'
                 PROVE  FALSE
      BY <1>3 DEF Asunder
    <3>1. Opposed(cfg, d, c) /\ c # d
      BY DEF Opposed
    <3>2. state /\ c = ch => d \notin room
      BY <1>1, ClearedOpposite DEF room, cfg
    <3>3. state /\ d = ch => c \notin room
      BY <1>1, <3>1, ClearedOpposite DEF room, cfg
    <3>4. {c, d} \subseteq asked
      BY <2>2, <2>4, <3>1, <3>2, <3>3
    <3> QED BY <3>4 DEF Asunder
  <2>9. Armed(engine', Owed')
    <3> DEFINE T == Owed' \cap on'
    <3>1. T \subseteq Owed \cup {ch}
      BY <1>3, <2>2 DEF Owed, Held, on
    <3>2. T \cap cfg.on_with_ignition \subseteq room \cup {ch}
      BY <1>3, <2>2 DEF Owed
    <3>3. Armed(engine', T)
      <4> HIDE DEF T
      <4> QED BY <1>1, <2>1, <3>1, <3>2, ApplySetArmed DEF room, cfg
    <3> QED BY <3>3 DEF Armed, ArmedBut, on
  <2>10. ASSUME NEW c \in Channel, NEW d \in Channel, Signals(cfg', c, d)
         PROVE  Exclusive(engine', restored', c, d)
    <3>1. Signals(cfg, c, d) /\ Exclusive(engine, restored, c, d)
      BY <1>3, <2>10
    <3>2. CASE ch \notin {c, d}
      <4>1. Exclusive(engine', restored, c, d)
        BY <1>1, <2>1, <3>1, <3>2, ApplySetExclusive DEF cfg
      <4>2. Signals(engine'.config, c, d)
        BY <2>10 DEF cfg
      <4> QED BY <1>3, <2>2, <3>2, <4>1, <4>2, ExclusiveKept
    <3>3. CASE ch \in {c, d}
      <4>1. Exclusive(engine', {}, c, d)
        BY <1>1, <2>1, <3>1, <3>3, ApplySetExclusive DEF cfg
      <4> QED BY <4>1 DEF Exclusive
    <3> QED BY <3>2, <3>3
  <2> QED BY <2>3, <2>6, <2>7, <2>8, <2>9, <2>10
<1>5. CASE ~ Permitted(engine, ch, state, source)
  <2>1. engine' = engine /\ UNCHANGED <<asked, restored>>
    BY <1>5 DEF OutputSet, Credited
  <2> QED BY <1>1, <2>1 DEF TypeOK, StarterProtected, PairExclusive, Asunder, Owed, cfg, on
<1> QED BY <1>4, <1>5

\* A call that nobody asked to light anything, and that lights no plain
\* channel.
LEMMA UncreditedIInv ==
  ASSUME IInv, engine' \in Engine, cfg' = cfg, Uncredited, prior' \in SUBSET SUBSET Channel,
         engine'.engine_running => engine.engine_running \/ on' \cap cfg.is_starter = {},
         on' \subseteq on \cup cfg.hazard_member,
         Armed(engine', Owed),
         \A c, d \in Channel : Signals(cfg, c, d) => Exclusive(engine', restored, c, d)
  PROVE  IInv'
<1> USE DEF IInv
<1>1. asked' = asked \cap on' /\ restored' = restored \cap Held(engine')
  BY DEF Uncredited, Credit, TypeOK
<1>2. TypeOK'
  BY <1>1 DEF TypeOK
<1>3. StarterProtected'
  <2>1. asked \subseteq on
    BY DEF TypeOK
  <2>2. on' \cap (Plain(cfg) \cup asked') \subseteq on \cap (Plain(cfg) \cup asked)
    BY <1>1, <2>1 DEF Plain
  <2> QED BY <2>2 DEF StarterProtected
<1>4. PairExclusive' /\ Asunder'
  BY <1>1 DEF PairExclusive, Asunder, Plain
<1>5. Armed(engine', Owed')
  <2>1. Owed' \cap on' \subseteq Owed
    BY <1>1 DEF Owed, Held, on
  <2> QED BY <2>1 DEF Armed, ArmedBut, on
<1>6. ASSUME NEW c \in Channel, NEW d \in Channel, Signals(cfg', c, d)
      PROVE  Exclusive(engine', restored', c, d)
  <2>1. Exclusive(engine', restored, c, d) /\ Signals(engine'.config, c, d)
    BY <1>6 DEF cfg
  <2>2. restored' = (restored \ {}) \cap Held(engine')
    BY <1>1
  <2> QED BY <2>1, <2>2, ExclusiveKept
<1> QED BY <1>2, <1>3, <1>4, <1>5, <1>6

LEMMA NextIInv == IInv /\ [Next]_vars => IInv'
<1> SUFFICES ASSUME IInv, [Next]_vars PROVE IInv'
  OBVIOUS
<1>0. engine \in Engine /\ cfg \in Configs /\ ValidOutputConfig(cfg) /\ engine.config = cfg
      /\ prior \in SUBSET SUBSET Channel
  BY ConfigsAssumption DEF IInv, TypeOK, cfg
<1>1. ASSUME NEW ch \in Channel, NEW state \in BOOLEAN, NEW source \in Sources,
             Command(ch, state, source)
      PROVE  IInv'
  BY <1>1, CommandIInv DEF Command
<1>2. ASSUME NEW ch \in Channel, Alternate(ch)
      PROVE  IInv'
  <2>1. CASE cfg.alternate[ch] = None
    BY <1>2, <2>1 DEF Alternate, AlternatePress, IInv, TypeOK, StarterProtected,
                      PairExclusive, Asunder, Owed, cfg, on
  <2>2. CASE cfg.alternate[ch] # None
    <3>1. NextOfPair(engine, ch) \in Channel
      BY <1>0, <2>2 DEF NextOfPair, Engine, OutputConfig
    <3>2. /\ engine' = OutputSet(engine, NextOfPair(engine, ch), TRUE, "local")
          /\ prior' = {}
          /\ Credited(NextOfPair(engine, ch), TRUE, "local")
      BY <1>2, <2>2 DEF Alternate, AlternatePress, cfg
    <3> QED BY <3>1, <3>2, CommandIInv DEF Sources
  <2> QED BY <2>1, <2>2
<1>3. CASE Hazard
  <2>1. Keeps(engine, engine')
    BY <1>0, <1>3, HazardPressKeeps DEF Hazard
  <2>2. engine' \in Engine /\ cfg' = cfg /\ engine'.engine_running = engine.engine_running
    BY <2>1 DEF Keeps, Untouched, cfg
  <2>3. prior' \in SUBSET SUBSET Channel
    BY <1>0, <1>3 DEF Hazard, on, Engine
  <2>4. on' \subseteq on \cup cfg.hazard_member
    BY <1>0, <1>3 DEF Hazard, HazardPress, EndHazardMode, StartHazardMode,
                      ClearDeadlines, Engine, cfg, on
  <2>5. Armed(engine', Owed)
    BY <1>0, <1>3, HazardPressArmed DEF Hazard, IInv
  <2>6. ASSUME NEW c \in Channel, NEW d \in Channel, Signals(cfg, c, d)
        PROVE  Exclusive(engine', restored, c, d)
    BY <1>0, <1>3, <2>6, HazardPressExclusive DEF Hazard, IInv
  <2> QED BY <1>3, <2>2, <2>3, <2>4, <2>5, <2>6, UncreditedIInv DEF Hazard
<1>4. CASE Tick
  <2>1. Keeps(engine, engine')
    BY <1>0, <1>4, OutputTickKeeps DEF Tick
  <2>2. engine' \in Engine /\ cfg' = cfg /\ engine'.engine_running = engine.engine_running
    BY <2>1 DEF Keeps, Untouched, cfg
  <2>3. on' \subseteq on /\ engine'.hazard_active = engine.hazard_active
        /\ engine'.hazard_saved = engine.hazard_saved
    BY <1>0, <1>4 DEF Tick, OutputTick, Engine, on
  <2>4. prior' \in SUBSET SUBSET Channel
    BY <1>0, <1>4 DEF Tick
  <2>5. Armed(engine', Owed)
    BY <1>0, <1>4, OutputTickArmed DEF Tick, IInv
  <2>6. ASSUME NEW c \in Channel, NEW d \in Channel, Signals(cfg, c, d)
        PROVE  Exclusive(engine', restored, c, d)
    BY <2>2, <2>3, <2>6 DEF IInv, Exclusive, cfg, on
  <2> QED BY <1>4, <2>2, <2>3, <2>4, <2>5, <2>6, UncreditedIInv DEF Tick
<1>5. ASSUME NEW running \in BOOLEAN, EngineDetected(running)
      PROVE  IInv'
  <2>1. engine' \in Engine /\ cfg' = cfg
    <3>1. engine' \in Engine
      BY <1>0, <1>5, SettersType DEF EngineDetected
    <3>2. SetEngineRunning(engine, running).config = engine.config
      BY <1>0 DEF SetEngineRunning, Engine
    <3> QED BY <1>5, <3>1, <3>2 DEF EngineDetected, cfg
  <2>2. /\ on' \subseteq on
        /\ engine'.hazard_active = engine.hazard_active
        /\ engine'.hazard_saved = engine.hazard_saved
        /\ engine'.deadline = engine.deadline
        /\ engine'.engine_running => engine.engine_running \/ on' \cap cfg.is_starter = {}
    BY <1>0, <1>5 DEF EngineDetected, SetEngineRunning, Engine, cfg, on
  <2>3. prior' \in SUBSET SUBSET Channel
    BY <1>5 DEF EngineDetected
  <2>4. Armed(engine', Owed)
    BY <2>1, <2>2 DEF IInv, Armed, ArmedBut, cfg, on
  <2>5. ASSUME NEW c \in Channel, NEW d \in Channel, Signals(cfg, c, d)
        PROVE  Exclusive(engine', restored, c, d)
    BY <2>1, <2>2, <2>5 DEF IInv, Exclusive, cfg, on
  <2> QED BY <1>5, <2>1, <2>2, <2>3, <2>4, <2>5, UncreditedIInv DEF EngineDetected
<1>6. ASSUME NEW engaged \in BOOLEAN, InterlockMoved(engaged)
      PROVE  IInv'
  <2>1. engine' \in Engine
    BY <1>0, <1>6, SettersType DEF InterlockMoved
  <2>2. /\ cfg' = cfg /\ on' = on
        /\ engine'.hazard_active = engine.hazard_active
        /\ engine'.hazard_saved = engine.hazard_saved
        /\ engine'.deadline = engine.deadline
        /\ engine'.engine_running = engine.engine_running
        /\ UNCHANGED <<prior, asked, restored>>
    BY <1>0, <1>6 DEF InterlockMoved, SetInterlockEngaged, Engine, cfg, on
  <2>3. TypeOK'
    BY <2>1, <2>2 DEF IInv, TypeOK, Held, on
  <2>4. Owed' = Owed
    BY <2>2 DEF Owed
  <2>5. Armed(engine', Owed')
    BY <2>2, <2>4 DEF IInv, Armed, ArmedBut, cfg, on
  <2> QED BY <2>2, <2>3, <2>5 DEF IInv, StarterProtected, PairExclusive, Asunder, Exclusive,
                                  cfg, on
<1>7. CASE UNCHANGED vars
  BY <1>7 DEF vars, IInv, TypeOK, StarterProtected, PairExclusive, Asunder, Owed, cfg, on
<1> QED BY <1>1, <1>2, <1>3, <1>4, <1>5, <1>6, <1>7 DEF Next

THEOREM InvariantHolds == Spec => []IInv
BY InitIInv, NextIInv, PTL DEF Spec

\* The engine record keeps its type through every call.
THEOREM OutputTypeOK == Spec => []TypeOK
<1>1. IInv => TypeOK
  BY DEF IInv
<1> QED BY <1>1, InvariantHolds, PTL

\* A starter that the key and the hazards leave alone, or that was commanded,
\* is never engaged on a running engine.
THEOREM StarterIsProtected == Spec => []StarterProtected
<1>1. IInv => StarterProtected
  BY DEF IInv
<1> QED BY <1>1, InvariantHolds, PTL

\* A member of a pair that a command lit has no partner lit by a command, nor
\* a plain one lit at all.
THEOREM PairsAreExclusive == Spec => []PairExclusive
<1>1. IInv => PairExclusive
  BY DEF IInv
<1> QED BY <1>1, InvariantHolds, PTL

\* The two signals of a board are never lit together outside a hazard stop,
\* but when both are still as the flash had them.
THEOREM TurnsAreExclusive == Spec => []TurnExclusive
<1>1. IInv => TurnExclusive
  BY DEF IInv, TurnExclusive, Asunder, Exclusive, on
<1> QED BY <1>1, InvariantHolds, PTL

\* Outside a hazard stop a lit signal always has an auto-cancel pending, but
\* for one the key lit and one that is still as the flash had it.
THEOREM IndicatorsAreArmed == Spec => []IndicatorArmed
<1>1. IInv => IndicatorArmed
  BY NoneNotChannel DEF IInv, IndicatorArmed, Timed, Owed, Armed, ArmedBut, OnSide, cfg, on
<1> QED BY <1>1, InvariantHolds, PTL

\* Well typed, and neither the starter and the engine, nor a pair, nor the two
\* signals run together.
THEOREM EngineIsSound == Spec => []EngineSound
<1>1. TypeOK /\ StarterProtected /\ PairExclusive /\ TurnExclusive => EngineSound
  BY DEF EngineSound
<1> QED BY <1>1, OutputTypeOK, StarterIsProtected, PairsAreExclusive,
           TurnsAreExclusive, PTL

-----------------------------------------------------------------------------
(* The drive                                                               *)

SteadyIn(o, c) ==
  /\ WiringOf(o).behaviour[c] \in {"toggle", "momentary"}
  /\ c \notin o.config.hazard_member

ShedIn(o, d, c) == d.lv_cutoff /\ c \notin Essential(o)

\* LevelsFollow of an engine and its hardware, for the channels S.
Follows(o, d, S) ==
  \A c \in S :
    /\ d.level[c] => c \in o.commanded /\ ~ ShedIn(o, d, c)
    /\ SteadyIn(o, c) /\ c \in o.commanded /\ ~ ShedIn(o, d, c) => d.level[c]

\* A call that leaves the configuration and the cutoff alone, and the hardware
\* of the new engine following it.
Drives(o, d, p, e) ==
  /\ e \in Drive
  /\ p.config = o.config
  /\ e.lv_cutoff = d.lv_cutoff
  /\ Follows(p, e, Channel)

LEMMA ActualLevels ==
  ASSUME NEW o \in Engine, NEW d, NEW c \in Channel
  PROVE  /\ Actual(o, d, c) \in BOOLEAN
         /\ Actual(o, d, c) => c \in o.commanded /\ ~ ShedIn(o, d, c)
         /\ SteadyIn(o, c) /\ c \in o.commanded /\ ~ ShedIn(o, d, c) => Actual(o, d, c)
BY DEF Actual, DrivenOn, ShedIn, SteadyIn

\* Driving a set of channels makes them follow, and leaves the others.
LEMMA ApplyHalFollows ==
  ASSUME NEW o \in Engine, NEW d \in Drive, NEW S \in SUBSET Channel
  PROVE  /\ ApplyHal(o, d, S) \in Drive
         /\ ApplyHal(o, d, S).lv_cutoff = d.lv_cutoff
         /\ Follows(o, ApplyHal(o, d, S), S)
         /\ \A c \in Channel \ S : ApplyHal(o, d, S).level[c] = d.level[c]
<1> DEFINE lv == [c \in Channel |-> IF c \in S THEN Actual(o, d, c) ELSE d.level[c]]
           e == ApplyHal(o, d, S)
<1>1. lv \in [Channel -> BOOLEAN]
  <2>1. ASSUME NEW c \in Channel PROVE (IF c \in S THEN Actual(o, d, c) ELSE d.level[c]) \in BOOLEAN
    BY ActualLevels DEF Drive
  <2> QED BY <2>1
<1>2. e = [d EXCEPT !.level = lv]
  BY DEF ApplyHal
<1>3. /\ e.level = lv /\ e.lv_cutoff = d.lv_cutoff
      /\ e \in Drive
  <2> HIDE DEF lv, e
  <2> QED BY <1>1, <1>2 DEF Drive
<1>4. ASSUME NEW c \in S
      PROVE  e.level[c] = Actual(o, d, c)
  <2> HIDE DEF e
  <2> QED BY <1>3
<1>5. ASSUME NEW c \in S
      PROVE  ShedIn(o, e, c) = ShedIn(o, d, c)
  <2> HIDE DEF e
  <2> QED BY <1>3 DEF ShedIn
<1>6. Follows(o, e, S)
  <2> HIDE DEF e
  <2> QED BY <1>4, <1>5, ActualLevels DEF Follows
<1>7. \A c \in Channel \ S : e.level[c] = d.level[c]
  <2> HIDE DEF e
  <2> QED BY <1>3
<1> QED BY <1>3, <1>6, <1>7

\* set_commanded_on_raw() on at least the channels that change.
LEMMA RawSetDrives ==
  ASSUME NEW was \in Engine, NEW o \in Engine, o.config \in Configs,
         was.config = o.config, NEW d \in Drive, Follows(was, d, Channel),
         NEW S \in SUBSET Channel, Flipped(was, o) \subseteq S
  PROVE  Drives(was, d, o, RawSet(was, o, d, S))
<1> DEFINE begun == {c \in S \cap (o.commanded \ was.commanded) :
                       WiringOf(o).behaviour[c] = "flasher"}
           br == [c \in Channel |-> IF c \in begun THEN WiringOf(o).opens ELSE d.burst[c]]
           d1 == [d EXCEPT !.burst = br]
           e == ApplyHal(o, d1, S)
<1>1. WiringOf(o).opens \in Bursts
  BY DiagAssumption DEF WiringOf, DriveConfig
<1>2. br \in [Channel -> Bursts]
  BY <1>1 DEF Drive
<1>3. d1 \in Drive /\ d1.lv_cutoff = d.lv_cutoff /\ d1.level = d.level
  <2> HIDE DEF br
  <2> QED BY <1>2 DEF Drive
<1>4. /\ e \in Drive
      /\ e.lv_cutoff = d.lv_cutoff
      /\ Follows(o, e, S)
      /\ \A c \in Channel \ S : e.level[c] = d.level[c]
  <2> HIDE DEF d1
  <2> QED BY <1>3, ApplyHalFollows
<1>5. ASSUME NEW c \in Channel \ S
      PROVE  /\ e.level[c] = d.level[c]
             /\ c \in o.commanded <=> c \in was.commanded
             /\ ShedIn(o, e, c) <=> ShedIn(was, d, c)
             /\ SteadyIn(o, c) <=> SteadyIn(was, c)
  <2> HIDE DEF e
  <2> QED BY <1>4, <1>5 DEF Flipped, ShedIn, SteadyIn, Essential, WiringOf
<1>6. Follows(o, e, Channel)
  <2> HIDE DEF e
  <2> QED BY <1>4, <1>5 DEF Follows
<1>7. RawSet(was, o, d, S) = e
  BY DEF RawSet
<1> QED BY <1>4, <1>6, <1>7 DEF Drives

LEMMA FollowDrives ==
  ASSUME NEW was \in Engine, NEW o \in Engine, o.config \in Configs,
         was.config = o.config, NEW d \in Drive, Follows(was, d, Channel)
  PROVE  Drives(was, d, o, Follow(was, o, d))
<1>1. Flipped(was, o) \subseteq Channel
  BY DEF Flipped, Engine
<1> QED BY <1>1, RawSetDrives DEF Follow

LEMMA DriveSetDrives ==
  ASSUME NEW o \in Engine, o.config \in Configs, NEW d \in Drive,
         Follows(o, d, Channel), NEW ch \in Channel, NEW state \in BOOLEAN, NEW source
  PROVE  Drives(o, d, OutputSet(o, ch, state, source), DriveSet(o, d, ch, state, source))
<1> DEFINE p == Cleared(o, ch, state)
           q == Commanded(p, ch, state)
           r == KeyEdge(p, q, ch, state)
           d1 == Follow(o, p, d)
           d2 == RawSet(p, q, d1, {ch})
           d3 == Follow(q, r, d2)
<1>1. p \in Engine /\ p.config = o.config
  BY ClearedKeeps DEF Keeps, Untouched
<1>2. Drives(o, d, p, d1)
  <2> HIDE DEF p
  <2> QED BY <1>1, FollowDrives
<1>3. q \in Engine /\ q.config = o.config /\ Flipped(p, q) \subseteq {ch}
  <2> HIDE DEF p
  <2>1. q \in Engine /\ q.config = p.config
    BY <1>1, CommandedKeeps DEF Keeps, Untouched
  <2>2. q.commanded = IF state THEN p.commanded \cup {ch} ELSE p.commanded \ {ch}
    BY <1>1 DEF Commanded, SetRaw, ArmAutoCancel, Engine
  <2> QED BY <1>1, <2>1, <2>2 DEF Flipped
<1>4. Drives(p, d1, q, d2)
  <2> HIDE DEF p, q, d1
  <2> QED BY <1>1, <1>2, <1>3, RawSetDrives DEF Drives
<1>5. r \in Engine /\ r.config = o.config
  <2> HIDE DEF p, q
  <2> QED BY <1>3, KeyEdgeKeeps DEF Keeps, Untouched
<1>6. Drives(q, d2, r, d3)
  <2> HIDE DEF p, q, r, d1, d2
  <2> QED BY <1>3, <1>4, <1>5, FollowDrives DEF Drives
<1>7. Drives(o, d, r, d3)
  <2> HIDE DEF p, q, r, d1, d2, d3
  <2> QED BY <1>1, <1>2, <1>3, <1>4, <1>5, <1>6 DEF Drives
<1>8. Drives(o, d, o, d)
  BY DEF Drives
<1>9. CASE Permitted(o, ch, state, source)
  <2>1. OutputSet(o, ch, state, source) = r /\ DriveSet(o, d, ch, state, source) = d3
    BY <1>9 DEF OutputSet, ApplySet, DriveSet
  <2> HIDE DEF r, d3
  <2> QED BY <1>7, <2>1
<1>10. CASE ~ Permitted(o, ch, state, source)
  BY <1>8, <1>10 DEF OutputSet, DriveSet
<1> QED BY <1>9, <1>10

LEMMA DriveAlternateDrives ==
  ASSUME NEW o \in Engine, o.config \in Configs, NEW d \in Drive,
         Follows(o, d, Channel), NEW ch \in Channel, NEW source
  PROVE  Drives(o, d, AlternatePress(o, ch, source), DriveAlternate(o, d, ch, source))
<1> DEFINE partner == o.config.alternate[ch]
           lit == NextOfPair(o, ch)
<1>1. partner \in Channel \cup {None}
  BY DEF Engine, OutputConfig
<1>2. CASE partner = None
  BY <1>2 DEF AlternatePress, DriveAlternate, Drives
<1>3. CASE partner # None
  <2>1. lit \in Channel
    BY <1>1, <1>3 DEF NextOfPair
  <2>2. /\ AlternatePress(o, ch, source) = OutputSet(o, lit, TRUE, source)
        /\ DriveAlternate(o, d, ch, source) = DriveSet(o, d, lit, TRUE, source)
    BY <1>3 DEF AlternatePress, DriveAlternate
  <2> HIDE DEF lit
  <2> QED BY <2>1, <2>2, DriveSetDrives
<1> QED BY <1>2, <1>3

LEMMA DriveHazardDrives ==
  ASSUME NEW o \in Engine, o.config \in Configs, NEW d \in Drive, Follows(o, d, Channel)
  PROVE  Drives(o, d, HazardPress(o), DriveHazard(o, d))
<1> DEFINE p == HazardPress(o)
           q == [p EXCEPT !.hazard_active = FALSE]
           members == o.config.hazard_member
<1>1. p \in Engine /\ p.config = o.config
  BY HazardPressKeeps DEF Keeps, Untouched
<1>2. CASE o.hazard_active
  <2> HIDE DEF p
  <2> QED BY <1>1, <1>2, FollowDrives DEF DriveHazard, p
<1>3. CASE ~ o.hazard_active
  <2>1. p.commanded = o.commanded \cup members
    BY <1>3 DEF HazardPress, StartHazardMode, ClearDeadlines, Engine, OutputConfig
  <2>2. q \in Engine /\ q.config = o.config /\ q.commanded = p.commanded
    <3> HIDE DEF p
    <3> QED BY <1>1 DEF Engine
  <2>3. members \in SUBSET Channel
    BY DEF Engine, OutputConfig
  <2>4. Flipped(o, q) \subseteq members
    <3> HIDE DEF p, q, members
    <3> QED BY <2>1, <2>2 DEF Flipped
  <2>5. DriveHazard(o, d) = RawSet(o, q, d, members)
    BY <1>3 DEF DriveHazard
  <2>6. Drives(o, d, q, RawSet(o, q, d, members))
    <3> HIDE DEF p, q, members
    <3> QED BY <2>2, <2>3, <2>4, RawSetDrives
  <2>7. ASSUME NEW e, Follows(q, e, Channel) PROVE Follows(p, e, Channel)
    <3> HIDE DEF p, q
    <3> QED BY <1>1, <2>2, <2>7 DEF Follows, ShedIn, SteadyIn, Essential, WiringOf
  <2> HIDE DEF p, q, members
  <2> QED BY <1>1, <2>5, <2>6, <2>7 DEF Drives, p
<1> QED BY <1>2, <1>3

\* The tick, and a cutoff that moves, drive every channel anew.
LEMMA AllDriven ==
  ASSUME NEW o \in Engine, NEW d \in Drive
  PROVE  /\ ApplyHal(o, d, Channel) \in Drive
         /\ ApplyHal(o, d, Channel).lv_cutoff = d.lv_cutoff
         /\ Follows(o, ApplyHal(o, d, Channel), Channel)
BY ApplyHalFollows

LEMMA SetLvCutoffFollows ==
  ASSUME NEW o \in Engine, NEW d \in Drive, Follows(o, d, Channel), NEW cutoff \in BOOLEAN
  PROVE  /\ SetLvCutoff(o, d, cutoff) \in Drive
         /\ SetLvCutoff(o, d, cutoff).lv_cutoff = cutoff
         /\ Follows(o, SetLvCutoff(o, d, cutoff), Channel)
<1> DEFINE d1 == [d EXCEPT !.lv_cutoff = cutoff]
<1>1. d1 \in Drive /\ d1.lv_cutoff = cutoff
  BY DEF Drive
<1>2. CASE d.lv_cutoff = cutoff
  BY <1>2 DEF SetLvCutoff
<1>3. CASE d.lv_cutoff # cutoff
  <2>1. SetLvCutoff(o, d, cutoff) = ApplyHal(o, d1, Channel)
    BY <1>3 DEF SetLvCutoff
  <2> HIDE DEF d1
  <2> QED BY <1>1, <2>1, AllDriven
<1> QED BY <1>2, <1>3

-----------------------------------------------------------------------------
(* The round-robin                                                         *)

LEMMA AheadType ==
  ASSUME NEW k \in Channel, NEW c \in Channel
  PROVE  Ahead(k, c) \in 0 .. NumChannels - 1
BY NumChannelsAssumption DEF Ahead, Channel

\* The driven channel that the cursor meets first.
LEMMA FirstDriven ==
  ASSUME NEW k \in Channel, NEW E \in SUBSET Channel, E # {}
  PROVE  \E s \in E : {c \in E : \A e \in E : Ahead(k, c) <= Ahead(k, e)} = {s}
<1> DEFINE A == {Ahead(k, e) : e \in E}
<1>1. A \subseteq Nat /\ A # {}
  BY AheadType
<1>2. PICK a \in A : \A b \in A : a <= b
  <2> HIDE DEF A
  <2> QED BY <1>1, LeastNatural
<1>3. PICK s \in E : a = Ahead(k, s)
  OBVIOUS
<1>4. \A e \in E : Ahead(k, s) <= Ahead(k, e)
  BY <1>2, <1>3
<1>5. ASSUME NEW c \in E, Ahead(k, c) <= Ahead(k, s), Ahead(k, s) <= Ahead(k, c)
      PROVE  c = s
  BY <1>5, NumChannelsAssumption DEF Ahead, Channel
<1> QED BY <1>4, <1>5

\* The cursor goes past the sampled channel, and so comes nearer to every
\* channel it has not reached.
LEMMA PastSampled ==
  ASSUME NEW k \in Channel, NEW s \in Channel, NEW c \in Channel,
         Ahead(k, s) < Ahead(k, c)
  PROVE  Ahead(IF s = NumChannels - 1 THEN 0 ELSE s + 1, c) < Ahead(k, c)
BY NumChannelsAssumption DEF Ahead, Channel

LEMMA ClassifyType ==
  ASSUME NEW cf, NEW c, NEW current PROVE Classify(cf, c, current) \in Faults
BY DEF Classify, Faults

LEMMA TakenType ==
  ASSUME NEW g \in DiagRecord, NEW E, NEW R, NEW reading \in Nat
  PROVE  /\ Taken(g, E, R, reading) \in DiagRecord
         /\ Taken(g, E, R, reading).config = g.config
         /\ Taken(g, E, R, reading).cursor = g.cursor
         /\ \A c \in Channel :
              /\ c \in R \ E => /\ Taken(g, E, R, reading).current[c] = 0
                                /\ Taken(g, E, R, reading).fault[c] = "none"
              /\ c \notin R => /\ Taken(g, E, R, reading).current[c] = g.current[c]
                               /\ Taken(g, E, R, reading).fault[c] = g.fault[c]
<1> DEFINE cu == [c \in Channel |-> IF c \notin R THEN g.current[c]
                                    ELSE IF c \in E THEN reading ELSE 0]
           fa == [c \in Channel |-> IF c \notin R THEN g.fault[c]
                                    ELSE IF c \in E
                                         THEN Classify(g.config, c, reading) ELSE "none"]
           t == [g EXCEPT !.current = cu, !.fault = fa]
<1>1. cu \in [Channel -> Nat]
  BY DEF DiagRecord
<1>2. fa \in [Channel -> Faults]
  <2>1. "none" \in Faults
    BY DEF Faults
  <2> QED BY <2>1, ClassifyType DEF DiagRecord
<1>3. /\ t \in DiagRecord /\ t.config = g.config /\ t.cursor = g.cursor
      /\ t.current = cu /\ t.fault = fa
  <2> HIDE DEF cu, fa
  <2> QED BY <1>1, <1>2 DEF DiagRecord
<1>4. Taken(g, E, R, reading) = t
  BY DEF Taken
<1> HIDE DEF t
<1> QED BY <1>3, <1>4

\* A sampling: the types, and a dark channel that is cleared, or left as it
\* was with the cursor nearer to it.
LEMMA SampleRound ==
  ASSUME NEW g \in DiagRecord, NEW E \in SUBSET Channel, NEW reading \in Nat
  PROVE  /\ Sample(g, E, reading) \in DiagRecord
         /\ Sample(g, E, reading).config = g.config
         /\ \A c \in Channel \ E :
              \/ /\ Sample(g, E, reading).current[c] = 0
                 /\ Sample(g, E, reading).fault[c] = "none"
              \/ /\ Sample(g, E, reading).current[c] = g.current[c]
                 /\ Sample(g, E, reading).fault[c] = g.fault[c]
                 /\ Ahead(Sample(g, E, reading).cursor, c) < Ahead(g.cursor, c)
<1> DEFINE R == {c \in Channel : \A e \in E : Ahead(g.cursor, c) <= Ahead(g.cursor, e)}
           s == FirstChannel(R \cap E)
           t == Taken(g, E, R, reading)
           k == IF s = None THEN t.cursor
                ELSE IF s = NumChannels - 1 THEN 0 ELSE s + 1
           z == [t EXCEPT !.cursor = k]
<1>1. Sample(g, E, reading) = z
  BY DEF Sample
<1>2. g.cursor \in Channel
  BY DEF DiagRecord
<1>3. /\ t \in DiagRecord /\ t.config = g.config /\ t.cursor = g.cursor
      /\ \A c \in Channel :
           /\ c \in R \ E => t.current[c] = 0 /\ t.fault[c] = "none"
           /\ c \notin R => t.current[c] = g.current[c] /\ t.fault[c] = g.fault[c]
  <2> HIDE DEF R
  <2> QED BY TakenType
<1>4. CASE E = {}
  <2>1. R = Channel /\ R \cap E = {}
    BY <1>4
  <2>2. s = None
    <3> HIDE DEF R
    <3> QED BY <2>1 DEF FirstChannel
  <2>3. k = g.cursor
    BY <1>3, <2>2
  <2>4. z \in DiagRecord /\ z.config = t.config /\ z.current = t.current /\ z.fault = t.fault
    <3> HIDE DEF R, t, k
    <3> QED BY <1>2, <1>3, <2>3 DEF DiagRecord
  <2> HIDE DEF R, t, z
  <2> QED BY <1>1, <1>3, <2>1, <2>4
<1>5. CASE E # {}
  <2>1. PICK f \in E : {c \in E : \A e \in E : Ahead(g.cursor, c) <= Ahead(g.cursor, e)} = {f}
    BY <1>2, <1>5, FirstDriven
  <2>2. R \cap E = {f}
    BY <2>1
  <2>3. s = f
    <3> HIDE DEF R
    <3> QED BY <2>2, FirstOfOne
  <2>4. f # None
    BY NoneNotChannel
  <2>5. k = IF f = NumChannels - 1 THEN 0 ELSE f + 1
    <3> HIDE DEF s, t
    <3> QED BY <2>3, <2>4
  <2>6. k \in Channel
    BY <2>5, NumChannelsAssumption DEF Channel
  <2>7. /\ z \in DiagRecord /\ z.config = t.config /\ z.current = t.current
        /\ z.fault = t.fault /\ z.cursor = k
    <3> HIDE DEF R, s, t, k
    <3> QED BY <1>3, <2>6 DEF DiagRecord
  <2>8. ASSUME NEW c \in Channel \ R
        PROVE  Ahead(k, c) < Ahead(g.cursor, c)
    <3>1. PICK e \in E : ~ (Ahead(g.cursor, c) <= Ahead(g.cursor, e))
      BY <2>8
    <3>2. Ahead(g.cursor, f) <= Ahead(g.cursor, e)
      BY <2>1
    <3>3. /\ Ahead(g.cursor, c) \in Nat /\ Ahead(g.cursor, e) \in Nat
          /\ Ahead(g.cursor, f) \in Nat
      BY <1>2, AheadType
    <3>4. Ahead(g.cursor, f) < Ahead(g.cursor, c)
      BY <3>1, <3>2, <3>3
    <3> HIDE DEF k
    <3> QED BY <1>2, <2>5, <3>4, PastSampled
  <2> HIDE DEF R, s, t, k, z
  <2> QED BY <1>1, <1>3, <2>7, <2>8
<1> QED BY <1>4, <1>5

-----------------------------------------------------------------------------
(* Diag: the steps                                                         *)

\* While a driven channel has not been met since it went dark, the samplings
\* that passed it are fewer than what the cursor has left behind.
Rounded ==
  \/ dark + Ahead(diag.cursor, Watched) < NumChannels
  \/ diag.current[Watched] = 0 /\ diag.fault[Watched] = "none"

DInv ==
  /\ DiagTypeOK
  /\ Follows(engine, drive, Channel)
  /\ CopiesAgree
  /\ engine.engine_running => ~ drive.lv_cutoff
  /\ Rounded

LEMMA RunningType ==
  ASSUME NEW g, NEW o, NEW battery PROVE Running(g, o, battery) \in BOOLEAN
BY DEF Running

LEMMA CutoffType ==
  ASSUME NEW g, NEW running, NEW battery
  PROVE  /\ Cutoff(g, running, battery) \in BOOLEAN
         /\ running => ~ Cutoff(g, running, battery)
BY DEF Cutoff

\* Every step of Diag is a step of Output, or none.
LEMMA DiagStepMaps == [DiagNext]_diagVars => [Next]_vars
<1>1. ASSUME NEW ch \in Channel, NEW state \in BOOLEAN, NEW source \in Sources,
             DrivenCommand(ch, state, source)
      PROVE  Next
  BY <1>1 DEF DrivenCommand, Next
<1>2. ASSUME NEW ch \in Channel, DrivenAlternate(ch) PROVE Next
  BY <1>2 DEF DrivenAlternate, Next
<1>3. DrivenHazard => Next
  BY DEF DrivenHazard, Next
<1>4. DrivenTick => Next
  BY DEF DrivenTick, Next
<1>5. ASSUME NEW engaged \in BOOLEAN, DrivenInterlock(engaged) PROVE Next
  BY <1>5 DEF DrivenInterlock, Next
<1>6. ASSUME NEW reading \in Currents, NEW battery \in Voltages, DiagTick(reading, battery)
      PROVE  Next
  <2>1. EngineDetected(Running(diag, engine, battery))
    BY <1>6 DEF DiagTick
  <2> QED BY <2>1, RunningType DEF Next
<1>7. ASSUME NEW cf \in DiagConfigs, DiagSetConfig(cf) \/ ConfigImport(cf)
      PROVE  UNCHANGED vars
  BY <1>7 DEF DiagSetConfig, ConfigImport, vars
<1>8. ASSUME NEW S \in LearnRequests, DiagLearn(S) PROVE UNCHANGED vars
  BY <1>8 DEF DiagLearn, vars
<1>9. UNCHANGED diagVars => UNCHANGED vars
  BY DEF diagVars, vars
<1> QED BY <1>1, <1>2, <1>3, <1>4, <1>5, <1>6, <1>7, <1>8, <1>9 DEF DiagNext

LEMMA InitDInv == DiagInit => DInv
<1> SUFFICES ASSUME DiagInit PROVE DInv
  OBVIOUS
<1> DEFINE cold == [ level     |-> [c \in Channel |-> FALSE],
                     blink     |-> TRUE,
                     burst     |-> [c \in Channel |-> WiringOf(engine).opens],
                     lv_cutoff |-> FALSE ]
<1>1. engine \in Engine /\ engine.config \in Configs /\ engine.engine_running = FALSE
  <2>1. PICK c \in Configs, saved \in SUBSET Channel : engine = InitEngine(c, saved)
    BY DEF DiagInit, Init
  <2>2. c \in OutputConfig
    BY ConfigsAssumption
  <2> QED BY <2>1, <2>2, InitEngineType DEF InitEngine
<1>2. WiringOf(engine).opens \in Bursts
  BY <1>1, DiagAssumption DEF WiringOf, DriveConfig
<1>3. cold \in Drive /\ cold.lv_cutoff = FALSE
  BY <1>2 DEF Drive
<1>4. drive \in Drive /\ drive.lv_cutoff = FALSE /\ Follows(engine, drive, Channel)
  <2>1. drive = ApplyHal(engine, cold, Channel)
    BY DEF DiagInit
  <2> HIDE DEF cold
  <2> QED BY <1>1, <1>3, <2>1, AllDriven, ApplyHalFollows DEF Drives
<1>5. stored \in DiagConfig
  BY DiagAssumption DEF DiagInit
<1>6. diag \in DiagRecord /\ diag.config = stored /\ diag.engine_running = FALSE
      /\ diag.lv_cutoff_active = FALSE
      /\ diag.current[Watched] = 0 /\ diag.fault[Watched] = "none"
  <2>1. 0 \in Channel /\ "none" \in Faults
    BY NumChannelsAssumption DEF Channel, Faults
  <2> QED BY <1>5, <2>1, DiagAssumption DEF DiagInit, InitDiag, DiagRecord
<1>7. dark \in 0 .. NumChannels
  BY NumChannelsAssumption DEF DiagInit
<1> QED BY <1>1, <1>4, <1>5, <1>6, <1>7 DEF DInv, DiagTypeOK, CopiesAgree, Rounded

\* A call that only drives.
LEMMA DrivenDInv ==
  ASSUME DInv, engine'.engine_running = engine.engine_running,
         Drives(engine, drive, engine', drive'), UNCHANGED <<diag, stored, dark>>
  PROVE  DInv'
BY DEF DInv, DiagTypeOK, Drives, CopiesAgree, Rounded

LEMMA DiagNextDInv ==
  ASSUME TypeOK, DInv, [DiagNext]_diagVars
  PROVE  DInv'
<1> USE DEF DInv
<1>0. /\ engine \in Engine /\ engine.config \in Configs
      /\ drive \in Drive /\ Follows(engine, drive, Channel)
      /\ diag \in DiagRecord /\ stored \in DiagConfig /\ dark \in 0 .. NumChannels
  BY DEF TypeOK, cfg, DiagTypeOK
<1>1. ASSUME NEW ch \in Channel, NEW state \in BOOLEAN, NEW source \in Sources,
             DrivenCommand(ch, state, source)
      PROVE  DInv'
  <2>1. /\ engine' = OutputSet(engine, ch, state, source)
        /\ drive' = DriveSet(engine, drive, ch, state, source)
        /\ UNCHANGED <<diag, stored, dark>>
    BY <1>1 DEF DrivenCommand, Command
  <2>2. Drives(engine, drive, engine', drive')
    BY <1>0, <2>1, DriveSetDrives
  <2>3. engine'.engine_running = engine.engine_running
    BY <1>0, <2>1, OutputSetKeeps DEF Keeps, Untouched
  <2> QED BY <2>1, <2>2, <2>3, DrivenDInv
<1>2. ASSUME NEW ch \in Channel, DrivenAlternate(ch)
      PROVE  DInv'
  <2>1. /\ engine' = AlternatePress(engine, ch, "local")
        /\ drive' = DriveAlternate(engine, drive, ch, "local")
        /\ UNCHANGED <<diag, stored, dark>>
    BY <1>2 DEF DrivenAlternate, Alternate
  <2>2. Drives(engine, drive, engine', drive')
    BY <1>0, <2>1, DriveAlternateDrives
  <2>3. engine'.engine_running = engine.engine_running
    BY <1>0, <2>1, AlternatePressKeeps DEF Keeps, Untouched
  <2> QED BY <2>1, <2>2, <2>3, DrivenDInv
<1>3. CASE DrivenHazard
  <2>1. /\ engine' = HazardPress(engine)
        /\ drive' = DriveHazard(engine, drive)
        /\ UNCHANGED <<diag, stored, dark>>
    BY <1>3 DEF DrivenHazard, Hazard
  <2>2. Drives(engine, drive, engine', drive')
    BY <1>0, <2>1, DriveHazardDrives
  <2>3. engine'.engine_running = engine.engine_running
    BY <1>0, <2>1, HazardPressKeeps DEF Keeps, Untouched
  <2> QED BY <2>1, <2>2, <2>3, DrivenDInv
<1>4. CASE DrivenTick
  <2>1. PICK blink \in BOOLEAN, burst \in Pulses(drive.burst) :
          drive' = ApplyHal(engine', [drive EXCEPT !.blink = blink, !.burst = burst], Channel)
    BY <1>4 DEF DrivenTick
  <2>2. engine' = OutputTick(engine) /\ UNCHANGED <<diag, stored, dark>>
    BY <1>4 DEF DrivenTick, Tick
  <2>3. engine' \in Engine /\ engine'.config = engine.config
        /\ engine'.engine_running = engine.engine_running
    BY <1>0, <2>2, OutputTickKeeps DEF Keeps, Untouched
  <2> DEFINE d == [drive EXCEPT !.blink = blink, !.burst = burst]
  <2>4. d \in Drive /\ d.lv_cutoff = drive.lv_cutoff
    BY <1>0 DEF Drive, Pulses
  <2>5. Drives(engine, drive, engine', drive')
    <3> HIDE DEF d
    <3> QED BY <2>1, <2>3, <2>4, AllDriven DEF Drives, d
  <2> QED BY <2>2, <2>3, <2>5, DrivenDInv
<1>5. ASSUME NEW engaged \in BOOLEAN, DrivenInterlock(engaged)
      PROVE  DInv'
  <2>1. engine' = SetInterlockEngaged(engine, engaged) /\ UNCHANGED <<drive, diag, stored, dark>>
    BY <1>5 DEF DrivenInterlock, InterlockMoved
  <2>2. /\ engine'.config = engine.config /\ engine'.commanded = engine.commanded
        /\ engine'.engine_running = engine.engine_running
    BY <1>0, <2>1 DEF SetInterlockEngaged, Engine
  <2>3. Drives(engine, drive, engine', drive')
    BY <1>0, <2>1, <2>2 DEF Drives, Follows, ShedIn, SteadyIn, Essential, WiringOf
  <2> QED BY <2>1, <2>2, <2>3, DrivenDInv
<1>6. ASSUME NEW reading \in Currents, NEW battery \in Voltages, DiagTick(reading, battery)
      PROVE  DInv'
  <2> DEFINE running == Running(diag, engine, battery)
             cutoff == Cutoff(diag, running, battery)
             d == Follow(engine, engine', drive)
             z == Sample(diag, Energized, reading)
  <2>1. /\ engine' = SetEngineRunning(engine, running)
        /\ drive' = SetLvCutoff(engine', d, cutoff)
        /\ diag' = [z EXCEPT !.engine_running = running, !.lv_cutoff_active = cutoff]
        /\ dark' = IF Watched \in Energized THEN 0
                   ELSE IF dark < NumChannels THEN dark + 1 ELSE dark
        /\ stored' = stored
    BY <1>6 DEF DiagTick, EngineDetected
  <2>2. running \in BOOLEAN /\ cutoff \in BOOLEAN /\ (running => ~ cutoff)
    BY RunningType, CutoffType
  <2> HIDE DEF running, cutoff
  <2>3. engine' \in Engine /\ engine'.config = engine.config /\ engine'.engine_running = running
    <3>1. engine' \in Engine
      BY <1>0, <2>1, <2>2, SettersType
    <3> QED BY <1>0, <2>1, <2>2, <3>1 DEF SetEngineRunning, Engine
  <2>4. Drives(engine, drive, engine', d)
    BY <1>0, <2>3, FollowDrives
  <2>5. drive' \in Drive /\ drive'.lv_cutoff = cutoff /\ Follows(engine', drive', Channel)
    <3> HIDE DEF d
    <3> QED BY <2>1, <2>2, <2>3, <2>4, SetLvCutoffFollows DEF Drives
  <2>6. Energized \in SUBSET Channel /\ reading \in Nat /\ Watched \in Channel
    BY DiagAssumption DEF Energized
  <2>7. /\ z \in DiagRecord /\ z.config = diag.config
        /\ Watched \notin Energized =>
             \/ z.current[Watched] = 0 /\ z.fault[Watched] = "none"
             \/ /\ z.current[Watched] = diag.current[Watched]
                /\ z.fault[Watched] = diag.fault[Watched]
                /\ Ahead(z.cursor, Watched) < Ahead(diag.cursor, Watched)
    BY <1>0, <2>6, SampleRound
  <2> HIDE DEF z
  <2>8. /\ diag' \in DiagRecord /\ diag'.config = stored
        /\ diag'.current = z.current /\ diag'.fault = z.fault /\ diag'.cursor = z.cursor
        /\ diag'.engine_running = running /\ diag'.lv_cutoff_active = cutoff
    BY <2>1, <2>2, <2>7 DEF DiagRecord, CopiesAgree
  <2>9. dark' \in 0 .. NumChannels
    BY <1>0, <2>1, NumChannelsAssumption
  <2>10. Rounded'
    <3>1. /\ diag.cursor \in Channel /\ diag'.cursor \in Channel
          /\ Ahead(diag.cursor, Watched) \in 0 .. NumChannels - 1
          /\ Ahead(diag'.cursor, Watched) \in 0 .. NumChannels - 1
      BY <1>0, <2>6, <2>8, AheadType DEF DiagRecord
    <3>2. CASE Watched \in Energized
      BY <2>1, <3>1, <3>2, NumChannelsAssumption DEF Rounded
    <3>3. CASE Watched \notin Energized
      <4>1. dark' <= dark + 1 /\ dark' \in Nat
        BY <1>0, <2>1, <3>3, NumChannelsAssumption
      <4> QED BY <1>0, <2>7, <2>8, <3>1, <3>3, <4>1, NumChannelsAssumption DEF Rounded
    <3> QED BY <3>2, <3>3
  <2> QED BY <1>0, <2>1, <2>2, <2>3, <2>5, <2>8, <2>9, <2>10 DEF DiagTypeOK, CopiesAgree
<1>7. ASSUME NEW cf \in DiagConfigs, DiagSetConfig(cf) \/ ConfigImport(cf)
      PROVE  DInv'
  <2>1. diag' = [diag EXCEPT !.config = cf] /\ stored' = cf /\ UNCHANGED <<engine, drive, dark>>
    BY <1>7 DEF DiagSetConfig, ConfigImport, vars
  <2>2. cf \in DiagConfig
    BY DiagAssumption
  <2>3. /\ diag' \in DiagRecord /\ diag'.config = cf /\ diag'.cursor = diag.cursor
        /\ diag'.current = diag.current /\ diag'.fault = diag.fault
        /\ diag'.engine_running = diag.engine_running
        /\ diag'.lv_cutoff_active = diag.lv_cutoff_active
    BY <1>0, <2>1, <2>2 DEF DiagRecord
  <2> QED BY <2>1, <2>2, <2>3 DEF DiagTypeOK, CopiesAgree, Rounded, Follows, SteadyIn,
                                  ShedIn, Essential, WiringOf
<1>8. ASSUME NEW S \in LearnRequests, DiagLearn(S)
      PROVE  DInv'
  <2>1. PICK reading \in [S \cap Energized -> Currents] :
          diag' = Learn(diag, S \cap Energized, reading)
    BY <1>8 DEF DiagLearn, vars
  <2>2. stored' = diag'.config /\ UNCHANGED <<engine, drive, dark>>
    BY <1>8 DEF DiagLearn, vars
  <2> DEFINE ol == [c \in Channel |-> IF c \in S \cap Energized THEN reading[c] \div 2
                                      ELSE diag.config.open_load[c]]
  <2>3. ol \in [Channel -> Nat]
    <3>1. ASSUME NEW c \in S \cap Energized PROVE reading[c] \div 2 \in Nat
      <4>1. reading[c] \in Nat
        BY DiagAssumption
      <4> QED BY <4>1
    <3> QED BY <1>0, <3>1 DEF DiagRecord, DiagConfig
  <2>4. diag' = [diag EXCEPT !.config = [diag.config EXCEPT !.open_load = ol]]
    BY <1>0, <2>1 DEF Learn, DiagRecord
  <2>5. /\ diag' \in DiagRecord /\ diag'.cursor = diag.cursor
        /\ diag'.current = diag.current /\ diag'.fault = diag.fault
        /\ diag'.engine_running = diag.engine_running
        /\ diag'.lv_cutoff_active = diag.lv_cutoff_active
        /\ diag'.config \in DiagConfig
    <3> HIDE DEF ol
    <3> QED BY <1>0, <2>3, <2>4 DEF DiagRecord, DiagConfig
  <2> QED BY <2>2, <2>5 DEF DiagTypeOK, CopiesAgree, Rounded, Follows, SteadyIn,
                            ShedIn, Essential, WiringOf
<1>9. CASE UNCHANGED diagVars
  BY <1>9 DEF diagVars, vars, DiagTypeOK, CopiesAgree, Rounded, Follows, SteadyIn, ShedIn,
              Essential, WiringOf
<1> QED BY <1>1, <1>2, <1>3, <1>4, <1>5, <1>6, <1>7, <1>8, <1>9 DEF DiagNext

\* The driven outputs are the outputs: every theorem of Output holds of them.
THEOREM DiagImplementsOutput == DiagSpec => Spec
<1>1. DiagInit => Init
  BY DEF DiagInit
<1> QED BY <1>1, DiagStepMaps, PTL DEF DiagSpec, Spec

THEOREM DiagInvariant == DiagSpec => []DInv
<1>1. TypeOK /\ DInv /\ [DiagNext]_diagVars => DInv'
  BY DiagNextDInv
<1> QED BY <1>1, InitDInv, DiagImplementsOutput, OutputTypeOK, PTL DEF DiagSpec

\* Well typed, with the hardware following the engine between the ticks too,
\* and the copies of the diagnostics in agreement.
THEOREM DiagIsSound == DiagSpec => []DiagSound
<1>1. DInv => DiagSound
  BY DEF DInv, DiagSound, LevelsFollow, Follows, Steady, SteadyIn, Shed, ShedIn, cfg, on
<1> QED BY <1>1, DiagInvariant, PTL

\* Neither the battery nor anything but the rider puts out a steady light
\* while the engine runs, nor an essential one ever.
THEOREM RideLightsStay == DiagSpec => []RideKeepsLights
<1>1. TypeOK /\ DInv => RideKeepsLights
  <2> SUFFICES ASSUME TypeOK, DInv, NEW c \in on, Steady(c),
                      engine.engine_running \/ c \in Essential(engine)
               PROVE  drive.level[c]
    BY DEF RideKeepsLights
  <2>1. c \in Channel /\ c \in engine.commanded
    BY DEF TypeOK, Engine, on
  <2>2. ~ ShedIn(engine, drive, c)
    BY DEF DInv, ShedIn
  <2> QED BY <2>1, <2>2 DEF DInv, Follows, Steady, SteadyIn, cfg
<1> QED BY <1>1, DiagInvariant, DiagImplementsOutput, OutputTypeOK, PTL

\* One round of samplings clears what a channel that went dark had shown.
THEOREM DarkIsCleared == DiagSpec => []DarkReadsNothing
<1>1. DInv => DarkReadsNothing
  <2> SUFFICES ASSUME DInv, dark = NumChannels
               PROVE  diag.current[Watched] = 0 /\ diag.fault[Watched] = "none"
    BY DEF DarkReadsNothing
  <2>1. Ahead(diag.cursor, Watched) \in Nat
    BY AheadType, DiagAssumption DEF DInv, DiagTypeOK, DiagRecord
  <2> QED BY <2>1, NumChannelsAssumption DEF DInv, Rounded
<1> QED BY <1>1, DiagInvariant, PTL

-----------------------------------------------------------------------------
(* The hazards                                                             *)

\* Where a scan finds something, it finds a member of the set.
LEMMA FirstInSet ==
  ASSUME NEW S \in SUBSET Channel, S # {}
  PROVE  FirstChannel(S) \in S
<1>1. S \subseteq Nat
  BY NumChannelsAssumption DEF Channel
<1>2. \E c \in S : \A d \in S : c <= d
  BY <1>1, LeastNatural
<1> QED BY <1>2 DEF FirstChannel

UndisturbedIn(cf, c) ==
  /\ cf.alternate[c] = None
  /\ c \notin cf.is_starter
  /\ c \in OnSide(cf) =>
       \A d \in OnSide(cf) : d \in cf.hazard_member

\* The inductive form of HazardsVisible: no member of a running group has an
\* auto-cancel pending.
Visible(o) ==
  o.hazard_active =>
    \A c \in o.config.hazard_member :
      o.deadline[c] = 0 /\ (UndisturbedIn(o.config, c) => c \in o.commanded)

\* Dropping the opposite of a channel outside the group takes no undisturbed
\* member of it.
LEMMA OppositeOutside ==
  ASSUME NEW cf \in OutputConfig, NEW ch \in OnSide(cf) \ cf.hazard_member,
         NEW c \in cf.hazard_member, UndisturbedIn(cf, c)
  PROVE  FindIndicator(cf, OppositeSide(cf.indicator[ch])) # c
<1> DEFINE side == OppositeSide(cf.indicator[ch])
           S == {e \in Channel : cf.indicator[e] = side}
<1>1. c \in Channel /\ c # None
  BY NoneNotChannel DEF OutputConfig
<1>2. side # "none"
  BY DEF OppositeSide
<1>3. c \notin S
  BY <1>1, <1>2 DEF UndisturbedIn, OnSide
<1>4. S = {} \/ FirstChannel(S) \in S
  <2> HIDE DEF side
  <2> QED BY FirstInSet
<1>5. S = {} => FirstChannel(S) = None
  <2> HIDE DEF S
  <2> QED BY DEF FirstChannel
<1>6. FirstChannel(S) # c
  <2> HIDE DEF S
  <2> QED BY <1>1, <1>3, <1>4, <1>5
<1> QED BY <1>6 DEF FindIndicator

LEMMA ClearedVisible ==
  ASSUME NEW o \in Engine, ValidOutputConfig(o.config), Visible(o),
         NEW ch \in Channel, NEW state \in BOOLEAN
  PROVE  /\ Visible(Cleared(o, ch, state))
         /\ ch \in o.config.hazard_member => ~ Cleared(o, ch, state).hazard_active
<1> DEFINE o1 == IF ch \in o.config.hazard_member THEN EndHazardMode(o, ch) ELSE o
           o2 == IF state /\ ch \in OnSide(o.config) THEN DropOpposite(o1, ch) ELSE o1
           o3 == IF state THEN DropPartner(o2, ch) ELSE o2
<1>0. o.config \in OutputConfig
  BY DEF Engine
<1>1. Keeps(o, o1) /\ o1 \in Engine /\ o1.config = o.config
  BY EndHazardModeKeeps, KeepsRefl DEF Keeps, Untouched
<1>2. Visible(o1) /\ (ch \in o.config.hazard_member => ~ o1.hazard_active)
  BY DEF Visible, EndHazardMode, Engine
<1>3. o2 \in Engine /\ o2.config = o.config
  <2> HIDE DEF o1
  <2> QED BY <1>1, DropOppositeKeeps DEF Keeps, Untouched
<1>4. o2.hazard_active = o1.hazard_active
  <2> HIDE DEF o1
  <2> QED BY <1>1 DEF DropOpposite, SetRaw, ClearDeadlines, Engine
<1>5. Visible(o2)
  <2> SUFFICES ASSUME o1.hazard_active, NEW c \in o.config.hazard_member
               PROVE  /\ o2.deadline[c] = 0
                      /\ UndisturbedIn(o.config, c) => c \in o2.commanded
    <3> HIDE DEF o2
    <3> QED BY <1>3, <1>4 DEF Visible
  <2>1. ch \notin o.config.hazard_member
    BY <1>2
  <2>2. o1.deadline[c] = 0 /\ (UndisturbedIn(o.config, c) => c \in o1.commanded)
    <3> HIDE DEF o1
    <3> QED BY <1>1, <1>2 DEF Visible
  <2>3. c \in Channel
    BY <1>0 DEF OutputConfig
  <2> HIDE DEF o1
  <2>4. CASE ~ (state /\ ch \in OnSide(o.config))
    BY <2>2, <2>4
  <2>5. CASE state /\ ch \in OnSide(o.config)
    <3> DEFINE opp == FindIndicator(o.config, OppositeSide(o.config.indicator[ch]))
    <3>1. UndisturbedIn(o.config, c) => opp # c
      BY <1>0, <2>1, <2>5, OppositeOutside
    <3>2. o2 = IF opp \in o1.commanded \ {ch}
               THEN ClearDeadlines(SetRaw(o1, opp, FALSE), {opp}) ELSE o1
      BY <1>1, <2>5 DEF DropOpposite
    <3> HIDE DEF opp, o2
    <3> QED BY <1>1, <2>2, <2>3, <3>1, <3>2 DEF SetRaw, ClearDeadlines, Engine
  <2> QED BY <2>4, <2>5
<1>6. Visible(o3) /\ o3.hazard_active = o2.hazard_active
  <2>1. ASSUME NEW c \in o.config.hazard_member, UndisturbedIn(o.config, c)
        PROVE  o.config.alternate[ch] # c
    BY <2>1, NoneNotChannel, <1>0 DEF UndisturbedIn, ValidOutputConfig, OutputConfig
  <2> HIDE DEF o2
  <2> QED BY <1>3, <1>5, <2>1 DEF Visible, DropPartner, SetRaw, Engine
<1>7. Cleared(o, ch, state) = o3
  BY DEF Cleared
<1> HIDE DEF o1, o2, o3
<1> QED BY <1>2, <1>4, <1>6, <1>7

LEMMA CommandedVisible ==
  ASSUME NEW o \in Engine, Visible(o), NEW ch \in Channel, NEW state \in BOOLEAN,
         ch \in o.config.hazard_member => ~ o.hazard_active
  PROVE  Visible(Commanded(o, ch, state))
BY DEF Visible, Commanded, SetRaw, ArmAutoCancel, Engine, OutputConfig

LEMMA KeyEdgeVisible ==
  ASSUME NEW was, NEW o \in Engine, Visible(o), NEW ch, NEW state
  PROVE  Visible(KeyEdge(was, o, ch, state))
BY DEF Visible, KeyEdge, IgnitionOn, IgnitionOff, ClearDeadlines, Engine, OutputConfig

LEMMA OutputSetVisible ==
  ASSUME NEW o \in Engine, ValidOutputConfig(o.config), Visible(o),
         NEW ch \in Channel, NEW state \in BOOLEAN, NEW source
  PROVE  Visible(OutputSet(o, ch, state, source))
<1> DEFINE p == Cleared(o, ch, state)
           q == Commanded(p, ch, state)
<1>1. p \in Engine /\ p.config = o.config
  BY ClearedKeeps DEF Keeps, Untouched
<1>2. Visible(p) /\ (ch \in o.config.hazard_member => ~ p.hazard_active)
  BY ClearedVisible
<1>3. q \in Engine /\ Visible(q)
  <2> HIDE DEF p
  <2> QED BY <1>1, <1>2, CommandedKeeps, CommandedVisible DEF Keeps
<1>4. Visible(KeyEdge(p, q, ch, state))
  <2> HIDE DEF p, q
  <2> QED BY <1>3, KeyEdgeVisible
<1> QED BY <1>4 DEF OutputSet, ApplySet

LEMMA HazardPressVisible ==
  ASSUME NEW o \in Engine, Visible(o)
  PROVE  Visible(HazardPress(o))
BY DEF Visible, HazardPress, EndHazardMode, StartHazardMode, ClearDeadlines, Engine,
       OutputConfig

LEMMA OutputTickVisible ==
  ASSUME NEW o \in Engine, Visible(o)
  PROVE  Visible(OutputTick(o))
BY DEF Visible, OutputTick, Engine, OutputConfig

\* The inductive form of HazardsBorrow: what was lit when the hazards started
\* is what was saved of the group and, outside of it, what is still lit.
Borrowed(o, before) ==
  /\ o.hazard_active
  /\ \A c \in Channel :
       IF c \in o.config.hazard_member
       THEN /\ o.deadline[c] = 0
            /\ c \in o.commanded
            /\ c \in before <=> c \in o.hazard_saved
       ELSE c \in before <=> c \in o.commanded

HInv == Visible(engine) /\ \A before \in prior : Borrowed(engine, before)

LEMMA NextHInv == TypeOK /\ HInv /\ [Next]_vars => HInv'
<1> SUFFICES ASSUME TypeOK, HInv, [Next]_vars PROVE HInv'
  OBVIOUS
<1>0. engine \in Engine /\ ValidOutputConfig(engine.config) /\ Visible(engine)
      /\ prior \in SUBSET SUBSET Channel
  BY ConfigsAssumption DEF TypeOK, HInv, cfg
<1>1. ASSUME NEW ch \in Channel, NEW state \in BOOLEAN, NEW source \in Sources,
             Command(ch, state, source)
      PROVE  HInv'
  <2>1. Visible(OutputSet(engine, ch, state, source))
    BY <1>0, OutputSetVisible
  <2> QED BY <1>1, <2>1 DEF Command, HInv
<1>2. ASSUME NEW ch \in Channel, Alternate(ch)
      PROVE  HInv'
  <2>1. engine.config.alternate[ch] \in Channel \cup {None}
    BY <1>0 DEF Engine, OutputConfig
  <2>2. Visible(AlternatePress(engine, ch, "local"))
    BY <1>0, <2>1, OutputSetVisible DEF AlternatePress, NextOfPair
  <2> QED BY <1>2, <2>2 DEF Alternate, HInv
<1>3. CASE Hazard
  <2>1. engine' = HazardPress(engine) /\ Visible(engine')
    BY <1>0, <1>3, HazardPressVisible DEF Hazard
  <2>2. ASSUME NEW before \in prior' PROVE Borrowed(engine', before)
    <3>1. engine'.hazard_active /\ ~ engine.hazard_active /\ before = engine.commanded
      BY <1>3, <2>2 DEF Hazard, on
    <3>2. engine' = StartHazardMode(engine)
      BY <2>1, <3>1 DEF HazardPress
    <3> QED BY <1>0, <3>1, <3>2 DEF Borrowed, StartHazardMode, ClearDeadlines, Engine,
                                     OutputConfig
  <2> QED BY <2>1, <2>2 DEF HInv
<1>4. CASE Tick
  <2>1. engine' = OutputTick(engine) /\ Visible(engine')
    BY <1>0, <1>4, OutputTickVisible DEF Tick
  <2>2. ASSUME NEW before \in prior' PROVE Borrowed(engine', before)
    <3>1. PICK old \in prior : before = old \cap engine'.commanded
      BY <1>4, <2>2 DEF Tick
    <3>2. Borrowed(engine, old)
      BY <3>1 DEF HInv
    <3> QED BY <1>0, <2>1, <3>1, <3>2 DEF Borrowed, OutputTick, Engine, OutputConfig
  <2> QED BY <2>1, <2>2 DEF HInv
<1>5. ASSUME NEW running \in BOOLEAN, EngineDetected(running)
      PROVE  HInv'
  BY <1>0, <1>5 DEF EngineDetected, SetEngineRunning, HInv, Visible, UndisturbedIn, Engine
<1>6. ASSUME NEW engaged \in BOOLEAN, InterlockMoved(engaged)
      PROVE  HInv'
  BY <1>0, <1>6 DEF InterlockMoved, SetInterlockEngaged, HInv, Visible, Borrowed, Engine
<1>7. CASE UNCHANGED vars
  BY <1>7 DEF vars, HInv
<1> QED BY <1>1, <1>2, <1>3, <1>4, <1>5, <1>6, <1>7 DEF Next

THEOREM HazardInvariant == Spec => []HInv
<1>1. Init => HInv
  BY DEF Init, InitEngine, HInv, Visible
<1> QED BY <1>1, NextHInv, OutputTypeOK, PTL DEF Spec

\* Hazards that run light every member that nothing else may put out.
THEOREM HazardsAreVisible == Spec => []HazardsVisible
<1>1. HInv => HazardsVisible
  BY DEF HInv, HazardsVisible, Visible, Undisturbed, UndisturbedIn, cfg, on
<1> QED BY <1>1, HazardInvariant, PTL

\* Started and stopped with nothing but time in between, the hazards leave
\* the outputs as they were, minus what timed out.
THEOREM HazardsOnlyBorrow == Spec => HazardsBorrow
<1>1. TypeOK /\ HInv /\ [Next]_vars =>
        [Hazard /\ engine.hazard_active => \A before \in prior : on' = before]_vars
  <2> SUFFICES ASSUME TypeOK, HInv, Hazard, engine.hazard_active, NEW before \in prior
               PROVE  on' = before
    OBVIOUS
  <2>1. engine \in Engine /\ before \in SUBSET Channel /\ Borrowed(engine, before)
    BY DEF TypeOK, HInv
  <2>2. engine' = HazardPress(engine)
    BY DEF Hazard
  <2>3. CASE engine.config.hazard_member = {}
    BY <2>1, <2>2, <2>3 DEF HazardPress, Borrowed, on, Engine
  <2>4. CASE engine.config.hazard_member # {}
    <3>1. engine' = EndHazardMode(engine, None)
      BY <2>2, <2>4 DEF HazardPress
    <3> QED BY <2>1, <3>1, NoneNotChannel
            DEF EndHazardMode, Borrowed, on, Engine, OutputConfig
  <2> QED BY <2>3, <2>4
<1> QED BY <1>1, HazardInvariant, OutputTypeOK, PTL DEF Spec, HazardsBorrow
=============================================================================
