----------------------------- MODULE PhoneProofs -----------------------------
(***************************************************************************)
(* Theorems of the phone's side: the watcher, the attempts and who awaits  *)
(* them; and the transfer of a configuration, where several screens of     *)
(* several phones read and write through one client each.                  *)
(***************************************************************************)
EXTENDS Reach, ConfigTransfer, SequenceTheorems, FiniteSetTheorems, TLAPS

Stages == {"none", "connect", "link", "save", "resolved", "failed", "rejected"}
Waiters == [who : {"watcher", "tap"}, device : Devices, client : Clients \cup {None},
            previous : Devices \cup {None}]
States == [type : {"idle", "watching", "connecting", "authenticating", "connected", "error"},
           client : Clients \cup {None}, device : Devices \cup {None}]

\* What the watcher and the screens look at.
Watches ==
  /\ state \in States /\ loading \in BOOLEAN
  /\ radioSub \in Devices \cup {None} /\ retryTimer \in Devices \cup {None}
  /\ watchingFor \in Devices \cup {None} /\ lastDevice \in Devices \cup {None}

\* The attempts, those who wait for them, and the links.
Tries ==
  /\ inFlight \in Clients \cup {None}
  /\ attempt \in [Clients -> [at : Stages, device : Devices \cup {None}]]
  /\ \A c \in Clients : attempt[c].at # "none" => attempt[c].device \in Devices
  /\ waiting \subseteq Waiters
  /\ linked \subseteq Clients /\ closing \subseteq linked /\ adopted \subseteq Clients

\* An attempt is registered while it is under way and awaited until it is over;
\* a client is shown, and closed, only once its attempt has succeeded; one whose
\* connection is up is past connecting.
Stands ==
  /\ inFlight # None => attempt[inFlight].at \in {"connect", "link", "save"}
  /\ \A w \in waiting : w.client # None => attempt[w.client].at # "none"
  /\ state.client # None => attempt[state.client].at \in {"none", "resolved"}
  /\ \A c \in linked : attempt[c].at \in {"link", "save", "resolved"}
  /\ \A c \in closing : attempt[c].at = "resolved"
  /\ state.client \in linked => state.client \in adopted

\* While the app says that it is at it, it is.
Minded == Watches /\ Tries /\ Stands /\ AlwaysOnIt
ReachInv == Minded /\ Reachable

\* The app starts with no attempt, and every board advertises.
LEMMA ReachInit == Init => ReachInv
<1>. SUFFICES ASSUME Init  PROVE ReachInv
  OBVIOUS
<1>1. Watches
  BY DEF Init, State, Watches, States
<1>2. attempt \in [Clients -> [at : Stages, device : Devices \cup {None}]]
      /\ \A c \in Clients : attempt[c].at = "none"
  BY DEF Init, NoAttempt, Stages
<1>3. Tries /\ Stands
  BY <1>2, ReachAssumption DEF Init, State, Tries, Stands
<1>4. Reachable /\ AlwaysOnIt
  BY DEF Init, State, Reachable, AlwaysOnIt
<1>. QED  BY <1>1, <1>3, <1>4 DEF ReachInv, Minded

-----------------------------------------------------------------------------
\* Every board has the connection or advertises.
LEMMA ReachBoards == Reachable /\ Next => Reachable'
<1>. SUFFICES ASSUME Reachable, Next  PROVE Reachable'
  OBVIOUS
<1>1. CASE UNCHANGED <<advertising, boardLinked>>
  BY <1>1 DEF Reachable
<1>2. ASSUME NEW c \in Clients, LinkUp(c)  PROVE Reachable'
  BY <1>2 DEF LinkUp, Reachable
<1>3. ASSUME NEW d \in Devices, BoardDrops(d) \/ Readvertise(d)  PROVE Reachable'
  BY <1>3 DEF BoardDrops, Readvertise, Advertise, Reachable
<1>4. CASE Continuations
  BY <1>1, <1>4 DEF Continuations, Resolved, AttemptFailed, boards
<1>5. CASE AppEvents
  BY <1>1, <1>5 DEF AppEvents, StartLoaded, RadioOn, Retry, IdentityLoaded,
                   Authenticate, Save, Closed, boards
<1>6. CASE RiderEvents
  BY <1>1, <1>6 DEF RiderEvents, Start, Stop, CalmDown, Tap, boards
<1>7. CASE LinkEvents
  BY <1>1, <1>2, <1>3, <1>7 DEF LinkEvents, LinkFails, Drop, HalfOpenDrops, boards
<1>. QED  BY <1>4, <1>5, <1>6, <1>7 DEF Next

-----------------------------------------------------------------------------
\* A watch that is begun is under way.
LEMMA WatchBegins ==
  ASSUME NEW d \in Devices, WatchFor(d),
         loading' \in BOOLEAN, lastDevice' \in Devices \cup {None}
  PROVE  Watches' /\ AlwaysOnIt' /\ state'.client = None
<1>1. /\ state' = State("watching") /\ radioSub' = d /\ retryTimer' = None
      /\ watchingFor' = d
  BY DEF WatchFor
<1>2. state' \in States /\ state'.type = "watching" /\ state'.client = None
  BY <1>1 DEF State, States
<1>3. Busy'  BY <1>1, ReachAssumption DEF Busy
<1>. QED  BY <1>1, <1>2, <1>3 DEF Watches, AlwaysOnIt

\* The states without a client.
LEMMA StateType ==
  ASSUME NEW type \in {"idle", "watching", "connecting", "authenticating", "connected", "error"}
  PROVE  /\ State(type) \in States
         /\ State(type).type = type /\ State(type).client = None
BY DEF State, States

\* What watching does leaves the attempts alone.
LEMMA WatcherKeeps ==
  ASSUME Minded,
         \/ Start \/ StartLoaded \/ RadioOn \/ Retry \/ Stop \/ CalmDown
  PROVE  Minded'
<1>1. Watches /\ Tries /\ Stands /\ AlwaysOnIt  BY DEF Minded
<1>2. CASE Start
  <2>1. UNCHANGED <<state, radioSub, retryTimer, watchingFor, lastDevice, inFlight, attempt,
                    waiting, adopted, closing, linked>> /\ loading' = TRUE
    BY <1>2 DEF Start, tries, links
  <2>. QED  BY <1>1, <2>1 DEF Minded, Watches, Tries, Stands, AlwaysOnIt, Busy
<1>3. CASE CalmDown
  <2>1. UNCHANGED <<state, radioSub, retryTimer, watchingFor, lastDevice, inFlight, attempt,
                    waiting, adopted, closing, linked, loading>>
    BY <1>3 DEF CalmDown, tries, links, session
  <2>. QED  BY <1>1, <2>1 DEF Minded, Watches, Tries, Stands, AlwaysOnIt, Busy
<1>4. CASE StartLoaded
  <2>1. UNCHANGED <<lastDevice, inFlight, attempt, waiting, adopted, closing, linked>>
        /\ loading' = FALSE
    BY <1>4 DEF StartLoaded, tries, links
  <2>2. CASE lastDevice = None
    <3>1. state' = State("idle") /\ UNCHANGED <<radioSub, retryTimer, watchingFor>>
      BY <1>4, <2>2 DEF StartLoaded
    <3>2. state' \in States /\ state'.type = "idle" /\ state'.client = None
      BY <3>1, StateType
    <3>. QED  BY <1>1, <2>1, <3>1, <3>2, ReachAssumption
                 DEF Minded, Watches, Tries, Stands, AlwaysOnIt, Busy
  <2>3. CASE lastDevice # None
    <3>1. WatchFor(lastDevice) /\ lastDevice \in Devices
      BY <1>1, <1>4, <2>3 DEF StartLoaded, Watches
    <3>2. Watches' /\ AlwaysOnIt' /\ state'.client = None
      BY <1>1, <2>1, <3>1, WatchBegins DEF Watches
    <3>. QED  BY <1>1, <2>1, <3>2, ReachAssumption DEF Minded, Tries, Stands
  <2>. QED  BY <2>2, <2>3
<1>5. CASE Retry
  <2>1. UNCHANGED <<lastDevice, inFlight, attempt, waiting, adopted, closing, linked, loading>>
    BY <1>5 DEF Retry, tries, links
  <2>2. WatchFor(retryTimer) /\ retryTimer \in Devices
    BY <1>1, <1>5 DEF Retry, Watches
  <2>3. Watches' /\ AlwaysOnIt' /\ state'.client = None
    BY <1>1, <2>1, <2>2, WatchBegins DEF Watches
  <2>. QED  BY <1>1, <2>1, <2>3, ReachAssumption DEF Minded, Tries, Stands
<1>6. CASE RadioOn
  <2> DEFINE w == [who |-> "watcher", device |-> radioSub, client |-> None, previous |-> None]
  <2>1. /\ UNCHANGED <<lastDevice, inFlight, attempt, adopted, closing, linked, loading,
                       retryTimer, watchingFor>>
        /\ radioSub # None /\ radioSub' = None /\ state' = State("connecting")
        /\ waiting' = waiting \cup {w}
    BY <1>6 DEF RadioOn, links
  <2>2. w \in Waiters /\ w.client = None
    BY <1>1, <2>1 DEF Watches, Waiters
  <2> HIDE DEF w
  <2>3. state' \in States /\ state'.client = None
    BY <2>1, StateType
  <2>. QED  BY <1>1, <2>1, <2>2, <2>3, ReachAssumption
               DEF Minded, Watches, Tries, Stands, AlwaysOnIt, Busy
<1>7. CASE Stop
  <2>1. /\ UNCHANGED <<lastDevice, inFlight, attempt, waiting, adopted, linked, loading>>
        /\ radioSub' = None /\ retryTimer' = None /\ watchingFor' = None
        /\ state' = State("idle")
        /\ closing' = closing \cup ({state.client} \cap linked)
    BY <1>7 DEF Stop, tries
  <2>2. state' \in States /\ state'.type = "idle" /\ state'.client = None
    BY <2>1, StateType
  <2>3. \A c \in closing' : attempt[c].at = "resolved"
    BY <1>1, <2>1, ReachAssumption DEF Stands, Tries
  <2>. QED  BY <1>1, <2>1, <2>2, <2>3, ReachAssumption
               DEF Minded, Watches, Tries, Stands, AlwaysOnIt
<1>. QED  BY <1>2, <1>3, <1>4, <1>5, <1>6, <1>7

-----------------------------------------------------------------------------
\* An attempt that moves on stays one for its device; the others stand.
LEMMA Moves ==
  ASSUME Tries, NEW c \in Clients, attempt[c].at # "none",
         NEW stage \in Stages \ {"none"}, Goes(c, stage)
  PROVE  /\ attempt' \in [Clients -> [at : Stages, device : Devices \cup {None}]]
         /\ \A e \in Clients : attempt'[e].device = attempt[e].device
         /\ attempt'[c].at = stage
         /\ \A e \in Clients \ {c} : attempt'[e].at = attempt[e].at
BY DEF Goes, Tries

\* A step of an attempt that is under way: its connection comes up or goes down,
\* and it stays registered only as long as it is under way.
LEMMA AttemptMoves ==
  ASSUME Minded, NEW c \in Clients,
         attempt[c].at \in {"connect", "link", "save"},
         NEW stage \in Stages \ {"none"}, Goes(c, stage),
         UNCHANGED <<state, loading, radioSub, retryTimer, watchingFor, waiting, adopted, closing>>,
         lastDevice' \in Devices \cup {None},
         \/ stage \in {"connect", "link", "save"} /\ inFlight' = inFlight
         \/ inFlight' = IF inFlight = c THEN None ELSE inFlight,
         \/ linked' = linked \ {c}
         \/ /\ linked' \in {linked, linked \cup {c}}
            /\ stage \in {"link", "save", "resolved"}
  PROVE  Minded'
<1>1. Watches /\ Tries /\ Stands /\ AlwaysOnIt  BY DEF Minded
<1>2. /\ attempt' \in [Clients -> [at : Stages, device : Devices \cup {None}]]
      /\ \A e \in Clients : attempt'[e].device = attempt[e].device
      /\ attempt'[c].at = stage
      /\ \A e \in Clients \ {c} : attempt'[e].at = attempt[e].at
  BY <1>1, Moves
<1>3. c \notin closing /\ c # state.client
  BY <1>1, ReachAssumption DEF Stands
<1>4. Tries'
  BY <1>1, <1>2, <1>3, ReachAssumption DEF Tries
<1>5. Watches' /\ AlwaysOnIt'
  BY <1>1 DEF Watches, AlwaysOnIt, Busy
<1>6. /\ \A w \in waiting : w.client \in Clients \cup {None}
      /\ state.client \in Clients \cup {None}
  BY <1>1 DEF Tries, Waiters, Watches, States
<1>7. inFlight' # None => attempt'[inFlight'].at \in {"connect", "link", "save"}
  BY <1>1, <1>2 DEF Tries, Stands
<1>8. \A w \in waiting' : w.client # None => attempt'[w.client].at # "none"
  BY <1>1, <1>2, <1>6 DEF Stands
<1>9. /\ state'.client # None => attempt'[state'.client].at \in {"none", "resolved"}
      /\ state'.client \in linked' => state'.client \in adopted'
  BY <1>1, <1>2, <1>3, <1>6 DEF Stands
<1>10. /\ \A e \in linked' : attempt'[e].at \in {"link", "save", "resolved"}
       /\ \A e \in closing' : attempt'[e].at = "resolved"
  BY <1>1, <1>2, <1>3 DEF Tries, Stands
<1>. QED  BY <1>4, <1>5, <1>7, <1>8, <1>9, <1>10 DEF Minded, Stands

\* The steps of an attempt.
LEMMA AttemptKeeps ==
  ASSUME Minded, NEW c \in Clients,
         LinkUp(c) \/ LinkFails(c) \/ Authenticate(c) \/ Save(c)
  PROVE  Minded'
<1>1. Watches /\ Tries /\ Stands  BY DEF Minded
<1>2. lastDevice \in Devices \cup {None}
      /\ (attempt[c].at # "none" => attempt[c].device \in Devices)
  BY <1>1 DEF Watches, Tries
<1>. USE DEF session, links, Settles, Stages
<1>3. CASE LinkUp(c)
  <2>1. /\ attempt[c].at = "connect" /\ Goes(c, "link")
        /\ UNCHANGED <<state, loading, radioSub, retryTimer, watchingFor, waiting, adopted,
                       closing, lastDevice, inFlight>>
        /\ linked' = linked \cup {c}
    BY <1>3 DEF LinkUp
  <2>. QED  BY <1>2, <2>1, AttemptMoves
<1>4. CASE LinkFails(c)
  <2>1. /\ attempt[c].at = "connect" /\ Settles(c, "failed")
        /\ UNCHANGED <<state, loading, radioSub, retryTimer, watchingFor, waiting, adopted,
                       closing, lastDevice, linked>>
    BY <1>4 DEF LinkFails
  <2>2. linked' = linked \ {c}
    BY <1>1, <2>1 DEF Stands
  <2>. QED  BY <1>2, <2>1, <2>2, AttemptMoves
<1>5. CASE Authenticate(c)
  <2>1. /\ attempt[c].at = "link"
        /\ UNCHANGED <<state, loading, radioSub, retryTimer, watchingFor, waiting, adopted,
                       closing, lastDevice>>
        /\ \/ Goes(c, "save") /\ UNCHANGED <<inFlight, linked>>
           \/ \E stage \in {"failed", "rejected"} : Settles(c, stage) /\ linked' = linked \ {c}
    BY <1>5 DEF Authenticate
  <2>2. CASE Goes(c, "save") /\ UNCHANGED <<inFlight, linked>>
    BY <1>2, <2>1, <2>2, AttemptMoves
  <2>3. ASSUME NEW stage \in {"failed", "rejected"},
               Settles(c, stage), linked' = linked \ {c}
        PROVE  Minded'
    BY <1>2, <2>1, <2>3, AttemptMoves
  <2>. QED  BY <2>1, <2>2, <2>3
<1>6. CASE Save(c)
  <2>1. /\ attempt[c].at = "save"
        /\ UNCHANGED <<state, loading, radioSub, retryTimer, watchingFor, waiting, adopted,
                       closing>>
        /\ \/ lastDevice' = attempt[c].device /\ Settles(c, "resolved") /\ UNCHANGED linked
           \/ Settles(c, "failed") /\ linked' = linked \ {c} /\ UNCHANGED lastDevice
    BY <1>6 DEF Save
  <2>2. lastDevice' \in Devices \cup {None}
    BY <1>2, <2>1
  <2>3. CASE Settles(c, "resolved") /\ UNCHANGED linked
    BY <2>1, <2>2, <2>3, AttemptMoves
  <2>4. CASE Settles(c, "failed") /\ linked' = linked \ {c}
    BY <2>1, <2>2, <2>4, AttemptMoves
  <2>. QED  BY <2>1, <2>3, <2>4
<1>. QED  BY <1>3, <1>4, <1>5, <1>6

-----------------------------------------------------------------------------
\* A client of no use: it has no connection, nobody awaits it, and it is not shown.
LEMMA FreeIsFree ==
  ASSUME Minded, NEW c \in Clients, Free(c)
  PROVE  /\ c \notin linked
         /\ inFlight # c
         /\ \A w \in waiting : w.client # c
<1>1. Watches /\ Tries /\ Stands  BY DEF Minded
<1>2. CASE attempt[c].at = "none"
  BY <1>1, <1>2, ReachAssumption DEF Stands
<1>3. CASE attempt[c].at = "resolved" /\ c \notin linked \cup {state.client}
           /\ \A w \in waiting : w.client # c
  BY <1>1, <1>3, ReachAssumption DEF Stands
<1>. QED  BY <1>2, <1>3 DEF Free

\* A caller joins the registered attempt for its device or begins one.
LEMMA EstablishKeeps ==
  ASSUME Minded, NEW w \in Waiters, w.client = None, Establish(w),
         state' = State("authenticating"),
         UNCHANGED <<loading, lastDevice, closing, linked>>,
         radioSub' \in Devices \cup {None}, retryTimer' \in Devices \cup {None},
         watchingFor' \in Devices \cup {None}
  PROVE  Minded'
<1>1. Watches /\ Tries /\ Stands  BY DEF Minded
<1>2. state' \in States /\ state'.type = "authenticating" /\ state'.client = None
  BY StateType
<1>3. Watches'
  BY <1>1, <1>2 DEF Watches
<1>4. CASE Joins(w.device) # {}
  <2> DEFINE v == [w EXCEPT !.client = inFlight]
  <2>1. inFlight \in Clients
    BY <1>1, <1>4 DEF Joins, Tries
  <2>2. v \in Waiters /\ v.client = inFlight
    BY <2>1 DEF Waiters
  <2>3. waiting' = (waiting \ {w}) \cup {v} /\ UNCHANGED <<inFlight, attempt, adopted>>
    BY <1>4 DEF Establish
  <2> HIDE DEF v
  <2>4. Tries'
    BY <1>1, <2>2, <2>3 DEF Tries
  <2>5. Stands'
    BY <1>1, <1>2, <2>1, <2>2, <2>3, ReachAssumption DEF Tries, Stands
  <2>6. Busy'
    BY <2>3 DEF Busy
  <2>. QED  BY <1>3, <2>4, <2>5, <2>6 DEF Minded, AlwaysOnIt
<1>5. CASE Joins(w.device) = {}
  <2> DEFINE c == CHOOSE c \in Clients : Free(c)
             v == [w EXCEPT !.client = c]
             a == [at |-> "connect", device |-> w.device]
  <2>1. /\ \E e \in Clients : Free(e)
        /\ attempt' = [attempt EXCEPT ![c] = a]
        /\ adopted' = adopted \ {c} /\ inFlight' = c
        /\ waiting' = (waiting \ {w}) \cup {v}
    BY <1>5 DEF Establish
  <2>2. c \in Clients /\ Free(c)
    BY <2>1
  <2>3. /\ v \in Waiters /\ v.client = c
        /\ a \in [at : Stages, device : Devices \cup {None}] /\ a.at = "connect"
        /\ a.device \in Devices
    BY <2>2 DEF Waiters, Stages
  <2> HIDE DEF c, v, a
  <2>4. /\ c \notin linked /\ inFlight # c
        /\ \A u \in waiting : u.client # c
    BY <2>2, FreeIsFree
  <2>5. /\ attempt' \in [Clients -> [at : Stages, device : Devices \cup {None}]]
        /\ attempt'[c] = a
        /\ \A e \in Clients \ {c} : attempt'[e] = attempt[e]
    BY <1>1, <2>1, <2>2, <2>3 DEF Tries
  <2>6. Tries'
    BY <1>1, <2>1, <2>2, <2>3, <2>5 DEF Tries
  <2>7. \A u \in waiting : u.client \in Clients \cup {None}
    BY <1>1 DEF Tries, Waiters
  <2>8. Stands'
    BY <1>1, <1>2, <2>1, <2>2, <2>3, <2>4, <2>5, <2>7, ReachAssumption DEF Tries, Stands
  <2>9. Busy'
    BY <2>1 DEF Busy
  <2>. QED  BY <1>3, <2>6, <2>8, <2>9 DEF Minded, AlwaysOnIt
<1>. QED  BY <1>4, <1>5

\* The watcher, with the identity loaded, and the rider's tap.
LEMMA CallersKeep ==
  ASSUME Minded,
         (\E w \in waiting : IdentityLoaded(w)) \/ (\E d \in Devices : Tap(d))
  PROVE  Minded'
<1>1. Watches /\ Tries  BY DEF Minded
<1>2. ASSUME NEW w \in waiting, IdentityLoaded(w)  PROVE Minded'
  <2>1. w \in Waiters /\ w.client = None /\ Establish(w) /\ state' = State("authenticating")
        /\ UNCHANGED <<loading, lastDevice, closing, linked, radioSub, retryTimer, watchingFor>>
    BY <1>1, <1>2 DEF IdentityLoaded, Tries
  <2>. QED  BY <1>1, <2>1, EstablishKeeps DEF Watches
<1>3. ASSUME NEW d \in Devices, Tap(d)  PROVE Minded'
  <2> DEFINE w == [who |-> "tap", device |-> d, client |-> None, previous |-> watchingFor]
  <2>1. /\ Establish(w) /\ state' = State("authenticating")
        /\ radioSub' = None /\ retryTimer' = None /\ watchingFor' = None
        /\ UNCHANGED <<loading, lastDevice, closing, linked>>
    BY <1>3 DEF Tap
  <2>2. w \in Waiters /\ w.client = None
    BY <1>1 DEF Watches, Waiters
  <2> HIDE DEF w
  <2>. QED  BY <2>1, <2>2, EstablishKeeps
<1>. QED  BY <1>2, <1>3

\* What awaited an attempt goes on when the attempt is over.
LEMMA ContinuationsKeep ==
  ASSUME Minded, Continuations
  PROVE  Minded'
<1>1. Watches /\ Tries /\ Stands  BY DEF Minded
<1>2. ASSUME NEW w \in waiting, Resolved(w)  PROVE Minded'
  <2> DEFINE c == w.client
  <2>1. /\ c # None /\ attempt[c].at = "resolved"
        /\ state' = Connected(c) /\ adopted' = adopted \cup {c}
        /\ waiting' = waiting \ {w}
        /\ UNCHANGED <<loading, radioSub, retryTimer, watchingFor, lastDevice, inFlight,
                       attempt, closing, linked>>
    BY <1>2 DEF Resolved, Adopt
  <2>2. c \in Clients
    BY <1>1, <2>1 DEF Tries, Waiters
  <2> HIDE DEF c
  <2>3. attempt[c].device \in Devices
    BY <1>1, <2>1, <2>2 DEF Tries
  <2>4. state' \in States /\ state'.type = "connected" /\ state'.client = c
    BY <2>1, <2>2, <2>3 DEF Connected, States
  <2>5. Watches' /\ Tries' /\ AlwaysOnIt'
    BY <1>1, <2>1, <2>2, <2>4 DEF Watches, Tries, AlwaysOnIt
  <2>6. Stands'
    BY <1>1, <2>1, <2>4 DEF Stands
  <2>. QED  BY <2>5, <2>6 DEF Minded
<1>3. ASSUME NEW w \in waiting, AttemptFailed(w)  PROVE Minded'
  <2> DEFINE c == w.client
  <2>1. /\ c # None /\ attempt[c].at \in {"failed", "rejected"}
        /\ IF w.who = "watcher" THEN WatcherRetries(w) ELSE TapGivesUp(w)
        /\ waiting' = waiting \ {w}
        /\ UNCHANGED <<loading, lastDevice, inFlight, adopted, closing, linked>>
        /\ attempt' = IF \E v \in waiting \ {w} : v.client = c
                      THEN attempt ELSE [attempt EXCEPT ![c] = NoAttempt]
    BY <1>3 DEF AttemptFailed, Failed, links
  <2>2. /\ c \in Clients /\ w.device \in Devices
        /\ w.previous \in Devices \cup {None}
    BY <1>1, <2>1 DEF Tries, Waiters
  <2> HIDE DEF c
  <2>3. Watches' /\ AlwaysOnIt' /\ state'.client = None
    <3>1. CASE w.who = "watcher"
      <4>1. state' = State("error") /\ retryTimer' = w.device /\ UNCHANGED <<radioSub, watchingFor>>
        BY <2>1, <3>1 DEF WatcherRetries
      <4>2. state' \in States /\ state'.type = "error" /\ state'.client = None
        BY <4>1, StateType
      <4>3. Busy'
        BY <2>2, <4>1, ReachAssumption DEF Busy
      <4>. QED  BY <1>1, <2>1, <2>2, <4>1, <4>2, <4>3 DEF Watches, AlwaysOnIt
    <3>2. CASE w.who # "watcher" /\ w.previous # None
      <4>1. WatchFor(w.previous)
        BY <2>1, <3>2 DEF TapGivesUp
      <4>. QED  BY <1>1, <2>1, <2>2, <3>2, <4>1, WatchBegins DEF Watches
    <3>3. CASE w.who # "watcher" /\ w.previous = None
      <4>1. state' = State("idle") /\ UNCHANGED <<radioSub, retryTimer, watchingFor>>
        BY <2>1, <3>3 DEF TapGivesUp
      <4>2. state' \in States /\ state'.type = "idle" /\ state'.client = None
        BY <4>1, StateType
      <4>. QED  BY <1>1, <2>1, <4>1, <4>2 DEF Watches, AlwaysOnIt
    <3>. QED  BY <3>1, <3>2, <3>3
  <2>4. c \notin linked /\ inFlight # c
    BY <1>1, <2>1, <2>2 DEF Stands
  <2>5. CASE \E v \in waiting \ {w} : v.client = c
    <3>1. attempt' = attempt  BY <2>1, <2>5
    <3>. QED  BY <1>1, <2>1, <2>3, <3>1, ReachAssumption DEF Minded, Tries, Stands
  <2>6. CASE ~ \E v \in waiting \ {w} : v.client = c
    <3>1. attempt' = [attempt EXCEPT ![c] = NoAttempt]  BY <2>1, <2>6
    <3>2. /\ attempt' \in [Clients -> [at : Stages, device : Devices \cup {None}]]
          /\ attempt'[c].at = "none"
          /\ \A e \in Clients \ {c} : attempt'[e] = attempt[e]
      BY <1>1, <2>2, <3>1 DEF Tries, NoAttempt, Stages
    <3>3. Tries'
      BY <1>1, <2>1, <3>2 DEF Tries
    <3>4. \A u \in waiting : u.client \in Clients \cup {None}
      BY <1>1 DEF Tries, Waiters
    <3>5. Stands'
      BY <1>1, <2>1, <2>3, <2>4, <2>6, <3>2, <3>4, ReachAssumption DEF Tries, Stands
    <3>. QED  BY <2>3, <3>3, <3>5 DEF Minded
  <2>. QED  BY <2>5, <2>6
<1>. QED  BY <1>2, <1>3 DEF Continuations

-----------------------------------------------------------------------------
\* A lost connection begins a watch or leaves what is shown as it is.
LEMMA LostWatches ==
  ASSUME Minded, NEW c \in linked, Lost(c),
         UNCHANGED <<loading, lastDevice, waiting>>
  PROVE  /\ Watches' /\ AlwaysOnIt'
         /\ state'.client = None \/ state' = state
<1>1. Watches /\ Tries /\ Stands /\ AlwaysOnIt  BY DEF Minded
<1>2. attempt[c].device \in Devices
  BY <1>1 DEF Tries, Stands
<1>3. CASE WatchFor(attempt[c].device)
  BY <1>1, <1>2, <1>3, WatchBegins DEF Watches
<1>4. CASE UNCHANGED <<state, radioSub, retryTimer, watchingFor>>
  BY <1>1, <1>4 DEF Watches, AlwaysOnIt, Busy
<1>. QED  BY <1>3, <1>4 DEF Lost

\* A client whose connection has ended is forgotten once nobody awaits it.
LEMMA ForgetKeeps ==
  ASSUME Minded, NEW c \in linked, attempt[c].at = "resolved", Quiet,
         Lost(c), Forget(c),
         closing' = closing \ {c}, linked' = linked \ {c},
         UNCHANGED <<loading, lastDevice, inFlight, waiting>>
  PROVE  Minded'
<1>1. Watches /\ Tries /\ Stands  BY DEF Minded
<1>2. /\ Watches' /\ AlwaysOnIt'
      /\ state'.client = None \/ state' = state
  BY LostWatches
<1>3. c \in Clients /\ c # None
  BY <1>1, ReachAssumption DEF Tries
<1>4. /\ attempt' \in [Clients -> [at : Stages, device : Devices \cup {None}]]
      /\ attempt'[c].at = "none"
      /\ \A e \in Clients \ {c} : attempt'[e] = attempt[e]
      /\ adopted' = adopted \ {c}
  BY <1>1, <1>3 DEF Tries, Forget, NoAttempt, Stages
<1>5. Tries'
  BY <1>1, <1>4 DEF Tries
<1>6. \A w \in waiting : w.client # c /\ w.client \in Clients \cup {None}
  BY <1>1, <1>3 DEF Quiet, Settled, Tries, Waiters
<1>7. inFlight # c
  BY <1>1, <1>3 DEF Stands
<1>8. state.client \in Clients \cup {None}
  BY <1>1 DEF Watches, States
<1>9. /\ inFlight' # None => attempt'[inFlight'].at \in {"connect", "link", "save"}
      /\ \A w \in waiting' : w.client # None => attempt'[w.client].at # "none"
  BY <1>1, <1>4, <1>6, <1>7 DEF Tries, Stands
<1>10. /\ state'.client # None => attempt'[state'.client].at \in {"none", "resolved"}
       /\ state'.client \in linked' => state'.client \in adopted'
  BY <1>1, <1>2, <1>4, <1>8, ReachAssumption DEF Tries, Stands
<1>11. /\ \A e \in linked' : attempt'[e].at \in {"link", "save", "resolved"}
       /\ \A e \in closing' : attempt'[e].at = "resolved"
  BY <1>1, <1>4 DEF Tries, Stands
<1>. QED  BY <1>2, <1>5, <1>9, <1>10, <1>11 DEF Minded, Stands

\* A connection that is lost, and one that stop() has closed.
LEMMA EndsKeep ==
  ASSUME Minded, Quiet, NEW c \in Clients, Drop(c) \/ Closed(c)
  PROVE  Minded'
<1>1. Watches /\ Tries /\ Stands  BY DEF Minded
<1>2. CASE Closed(c)
  <2>1. c \in linked /\ attempt[c].at = "resolved"
    BY <1>1, <1>2 DEF Closed, Tries, Stands
  <2>. QED  BY <1>2, <2>1, ForgetKeeps DEF Closed
<1>3. CASE Drop(c)
  <2>1. /\ c \in linked \ closing /\ linked' = linked \ {c} /\ Lost(c)
        /\ UNCHANGED <<loading, lastDevice, waiting, closing>>
    BY <1>3 DEF Drop
  <2>2. /\ Watches' /\ AlwaysOnIt'
        /\ state'.client = None \/ state' = state
    BY <2>1, LostWatches
  <2>3. attempt[c].at \in {"link", "save", "resolved"}
    BY <1>1, <2>1 DEF Stands
  <2>4. CASE attempt[c].at = "resolved"
    <3>1. Forget(c) /\ UNCHANGED inFlight
      BY <1>3, <2>4 DEF Drop
    <3>2. closing' = closing \ {c}  BY <2>1
    <3>. QED  BY <2>1, <2>4, <3>1, <3>2, ForgetKeeps
  <2>5. CASE attempt[c].at = "save"
    <3>1. UNCHANGED <<attempt, inFlight, adopted>>
      BY <1>3, <2>5 DEF Drop
    <3>. QED  BY <1>1, <2>1, <2>2, <3>1, ReachAssumption DEF Minded, Tries, Stands
  <2>6. CASE attempt[c].at = "link"
    <3>1. Settles(c, "failed") /\ UNCHANGED adopted
      BY <1>3, <2>6 DEF Drop
    <3>2. /\ attempt' \in [Clients -> [at : Stages, device : Devices \cup {None}]]
          /\ \A e \in Clients : attempt'[e].device = attempt[e].device
          /\ attempt'[c].at = "failed"
          /\ \A e \in Clients \ {c} : attempt'[e].at = attempt[e].at
          /\ inFlight' = IF inFlight = c THEN None ELSE inFlight
      BY <1>1, <2>6, <3>1, Moves DEF Settles, Stages
    <3>3. Tries'
      <4>1. c \in Clients /\ inFlight' \in Clients \cup {None}
        BY <1>1, <3>2 DEF Tries
      <4>2. \A e \in Clients : attempt'[e].at # "none" => attempt'[e].device \in Devices
        BY <1>1, <2>6, <3>2 DEF Tries
      <4>. QED  BY <1>1, <2>1, <3>1, <3>2, <4>1, <4>2 DEF Tries
    <3>4. /\ \A w \in waiting : w.client \in Clients \cup {None}
          /\ state.client \in Clients \cup {None} /\ state.client # c
      BY <1>1, <2>6, ReachAssumption DEF Tries, Waiters, Watches, States, Stands
    <3>5. /\ inFlight' # None => attempt'[inFlight'].at \in {"connect", "link", "save"}
          /\ \A w \in waiting' : w.client # None => attempt'[w.client].at # "none"
      BY <1>1, <2>1, <3>2, <3>4 DEF Tries, Stands
    <3>6. /\ state'.client # None => attempt'[state'.client].at \in {"none", "resolved"}
          /\ state'.client \in linked' => state'.client \in adopted'
      BY <1>1, <2>1, <2>2, <3>1, <3>2, <3>4, ReachAssumption DEF Tries, Stands
    <3>7. /\ \A e \in linked' : attempt'[e].at \in {"link", "save", "resolved"}
          /\ \A e \in closing' : attempt'[e].at = "resolved"
      BY <1>1, <2>1, <3>2 DEF Tries, Stands
    <3>. QED  BY <2>2, <3>3, <3>5, <3>6, <3>7 DEF Minded, Stands
  <2>. QED  BY <2>3, <2>4, <2>5, <2>6
<1>. QED  BY <1>2, <1>3

-----------------------------------------------------------------------------
\* Every step of the app, the links and the rider.
LEMMA ReachSteps == ReachInv /\ [Next]_vars => ReachInv'
<1>. SUFFICES ASSUME ReachInv, [Next]_vars  PROVE ReachInv'
  OBVIOUS
<1>1. Minded /\ Reachable  BY DEF ReachInv
<1>2. CASE UNCHANGED vars
  BY <1>1, <1>2 DEF vars, session, tries, links, boards, ReachInv, Minded, Watches,
                    Tries, Stands, Reachable, AlwaysOnIt, Busy
<1>3. CASE Next
  <2>1. Reachable'
    BY <1>1, <1>3, ReachBoards
  <2>2. CASE Continuations
    BY <1>1, <2>1, <2>2, ContinuationsKeep DEF ReachInv
  <2>3. ASSUME NEW d \in Devices, HalfOpenDrops(d) \/ BoardDrops(d) \/ Readvertise(d)
        PROVE  Minded'
    BY <1>1, <2>3 DEF HalfOpenDrops, BoardDrops, Readvertise, session, tries,
       links, Minded, Watches, Tries, Stands, AlwaysOnIt, Busy
  <2>4. CASE Quiet /\ AppEvents
    BY <1>1, <2>1, <2>4, WatcherKeeps, CallersKeep, AttemptKeeps, EndsKeep DEF AppEvents, ReachInv
  <2>5. CASE Quiet /\ LinkEvents
    BY <1>1, <2>1, <2>3, <2>5, AttemptKeeps, EndsKeep DEF LinkEvents, ReachInv
  <2>6. CASE Quiet /\ RiderEvents
    BY <1>1, <2>1, <2>6, WatcherKeeps, CallersKeep DEF RiderEvents, ReachInv
  <2>. QED  BY <1>3, <2>1, <2>2, <2>4, <2>5, <2>6 DEF Next
<1>. QED  BY <1>2, <1>3

\* The registered attempt is one under way, nobody waits for an attempt that is
\* not, the session shown is one whose end will be noticed, a board without this
\* phone's connection can be connected to, and while the app says that it is at
\* it someone is: for any number of boards and attempts, whatever overlaps.
THEOREM ReachIsSound == Spec => []ReachSound
<1>1. Init => ReachInv  BY ReachInit
<1>2. ReachInv /\ [Next]_vars => ReachInv'  BY ReachSteps
<1>3. ReachInv => ReachSound
  BY DEF ReachInv, Minded, Watches, States, Stands, ReachSound
<1>. QED  BY <1>1, <1>2, <1>3, PTL DEF Spec

-----------------------------------------------------------------------------
(***************************************************************************)
(* The transfer of a configuration.  One who sends has exactly one part of *)
(* its write under way, as a message or as its acknowledgement, and the    *)
(* board's staging buffer holds the parts before it (InTurn); one who      *)
(* reads with no other read of its phone to mix up with has its request    *)
(* or parts of one version under way (Waits).                              *)
(***************************************************************************)
Cell == Block \cup {Blank}

\* What may be on its way to the board, and back.
Messages ==
  [op : {"read", "commit"}, id : Call, off : {0}, size : {0}]
  \cup [op : {"begin"}, id : Call, off : {0}, size : Sizes]
  \cup [op : {"chunk"}, id : Call, off : Offset, size : Sizes]
Notice ==
  [kind : {"chunk"}, off : Offset, block : Cell, total : Offset]
  \cup [kind : {"result"}, ok : BOOLEAN]
Frame == Notice \cup [kind : {"ack"}, id : Call]

\* What a phone has staged, and what a call of the client is.
Stage == [buf : [Offset -> Cell], total : 0 .. Largest, got : 0 .. Largest, active : BOOLEAN]
Calling ==
  [at : {"idle", "send", "read", "commit", "orphan", "hung"}, id : Call,
   size : 0 .. Largest, next : 0 .. Largest + 1, chunks : [Offset -> Cell],
   alone : BOOLEAN, since : SUBSET Seq(Cell), applied : BOOLEAN]

Typed ==
  /\ config \in Seq(Cell) /\ Len(config) \in Offset
  /\ staging \in [Phones -> Stage]
  /\ \A p \in Phones : staging[p].got <= staging[p].total
  /\ \A p \in Phones : staging[p].active => staging[p].total \in Sizes
  /\ up \in [Phones -> Seq(Messages)]
  /\ down \in [Phones -> Seq(Frame)]
  /\ pending \in [Phones -> Callers \cup {NoOne}]
  /\ caller \in [Callers -> Calling]
  /\ events \in Call /\ untrue \subseteq {"read", "ok", "refused"} /\ mixed \in BOOLEAN
  /\ \A c \in Callers : caller[c].at = "send" =>
       caller[c].size \in Sizes /\ caller[c].next \in 1 .. Largest + 1

Sending(c) == caller[c].at = "send"
Writing(c) == caller[c].at \in {"send", "commit"}

Acks(f, id) == f.kind = "ack" /\ f.id = id

\* Nothing under way carries this number.
Unknown(u, d, id) ==
  /\ \A i \in DOMAIN u : u[i].id # id
  /\ \A i \in DOMAIN d : ~ Acks(d[i], id)

\* One who writes shares its number with no other call and no other phone, and
\* has committed nothing while it still sends.
Owns(c) ==
  /\ caller[c].id # 0
  /\ \A d \in Callers \ {c} : caller[d].id # caller[c].id
  /\ \A p \in Phones \ {ClientOf[c]} : Unknown(up[p], down[p], caller[c].id)
  /\ Sending(c) =>
       /\ ~ caller[c].applied
       /\ \A p \in Phones : \A i \in DOMAIN up[p] :
            up[p][i].op = "commit" => up[p][i].id # caller[c].id

\* No number beyond the count of the calls is in use.
Numbered ==
  /\ \A p \in Phones :
       /\ \A i \in DOMAIN up[p] : up[p][i].id <= events
       /\ \A i \in DOMAIN down[p] : down[p][i].kind = "ack" => down[p][i].id <= events
  /\ \A c \in Callers : caller[c].id <= events /\ (Writing(c) => Owns(c))

-----------------------------------------------------------------------------
(* One that sends                                                          *)

\* The first k blocks of the write id are in the buffer, and no more.
Filled(s, id, n, k) ==
  /\ s.active /\ s.total = n /\ s.got = k
  /\ \A i \in 1 .. k : s.buf[i] = [write |-> id, size |-> n]

\* Its beginning is on its way, behind what was asked before it.
BeginUp(l, u, d) ==
  /\ l.next = 1
  /\ \E i \in DOMAIN u :
       /\ u[i] = Message("begin", l.id, 0, l.size)
       /\ \A j \in DOMAIN u \ {i} : u[j].id # l.id /\ u[j].op \in {"read", "commit"}
       /\ \A j \in DOMAIN u : j > i => u[j].op = "read"
  /\ \A i \in DOMAIN d : ~ Acks(d[i], l.id)

\* A block of it is.
ChunkUp(l, u, d, s) ==
  /\ l.next \in 2 .. l.size + 1
  /\ \E i \in DOMAIN u :
       /\ u[i] = Message("chunk", l.id, l.next - 1, l.size)
       /\ \A j \in DOMAIN u \ {i} : u[j].id # l.id /\ u[j].op = "read"
  /\ \A i \in DOMAIN d : ~ Acks(d[i], l.id)
  /\ Filled(s, l.id, l.size, l.next - 2)

\* The acknowledgement of the last part is.
AckDown(l, u, d, s) ==
  /\ l.next \in 1 .. l.size + 1
  /\ \A j \in DOMAIN u : u[j].id # l.id /\ u[j].op = "read"
  /\ \E i \in DOMAIN d :
       /\ Acks(d[i], l.id)
       /\ \A j \in DOMAIN d \ {i} : ~ Acks(d[j], l.id)
  /\ Filled(s, l.id, l.size, l.next - 1)

InTurn(l, u, d, s) == BeginUp(l, u, d) \/ ChunkUp(l, u, d, s) \/ AckDown(l, u, d, s)

NoWrites(u) == \A i \in DOMAIN u : u[i].op \in {"read", "commit"}

\* A buffer in use holds parts of one write.
Intact(s) == s.active => \E id \in Call : Filled(s, id, s.total, s.got)

\* At most one caller of a phone sends, and in turn; else nothing of a write is
\* on its way.
OrderedAt(p) ==
  /\ Intact(staging[p])
  /\ (\A c \in Callers : ClientOf[c] = p => ~ Sending(c)) => NoWrites(up[p])
  /\ \A c \in Callers : ClientOf[c] = p /\ Sending(c) =>
       /\ \A d \in Callers : ClientOf[d] = p /\ Sending(d) => d = c
       /\ InTurn(caller[c], up[p], down[p], staging[p])

Ordered == Whole(config) /\ \A p \in Phones : OrderedAt(p)
OrderedIfSo == ~ mixed => Ordered

-----------------------------------------------------------------------------
(* One that reads                                                          *)

\* Its request is on its way and no chunk is.
Asked(l, u, d) ==
  /\ \E i \in DOMAIN u : u[i].op = "read" /\ \A j \in DOMAIN u \ {i} : u[j].op \in {"begin", "chunk"}
  /\ \A i \in DOMAIN d : d[i].kind # "chunk"
  /\ \A k \in Offset : l.chunks[k] = Blank

Piece(f, V) == f.off \in 1 .. Len(V) /\ f.block = V[f.off] /\ f.total = Len(V)

\* Every chunk it has, or has coming, is of one version in force since it asked.
Answered(l, u, d) ==
  /\ \A i \in DOMAIN u : u[i].op \in {"begin", "chunk"}
  /\ \E V \in l.since :
       /\ Len(V) \in Offset
       /\ \A i \in DOMAIN d : d[i].kind = "chunk" => Piece(d[i], V)
       /\ \A k \in Offset : l.chunks[k] = Blank \/ (k <= Len(V) /\ l.chunks[k] = V[k])

Waits(l, u, d) == Asked(l, u, d) \/ Answered(l, u, d)

WaitsAt(p) ==
  LET c == pending[p]
  IN  c # NoOne => /\ ClientOf[c] = p
                   /\ caller[c].at = "read" /\ caller[c].alone => Waits(caller[c], up[p], down[p])

Reads ==
  /\ "read" \notin untrue
  /\ \A c \in Callers : /\ caller[c].alone => caller[c].at # "hung"
                        /\ caller[c].at = "read" => config \in caller[c].since
  /\ \A p \in Phones : WaitsAt(p)

-----------------------------------------------------------------------------
(* One that has committed                                                  *)

\* Its commit is on its way, and no answer that it could take for its own.
Committing(l, u, d) ==
  /\ ~ l.applied
  /\ \E i \in DOMAIN u : /\ u[i].op = "commit" /\ u[i].id = l.id
                         /\ \A j \in DOMAIN u \ {i} : u[j].op \in {"begin", "chunk"}
  /\ \A i \in DOMAIN d : d[i].kind = "ack"

\* Any result on its way says whether the board took its configuration.
Committed(l, u, d) ==
  /\ \A i \in DOMAIN u : u[i].op \in {"begin", "chunk"}
  /\ \A i \in DOMAIN d : d[i].kind # "chunk" /\ (d[i].kind = "result" => d[i].ok = l.applied)

Commits(l, u, d) == Committing(l, u, d) \/ Committed(l, u, d)

CommitsAt(p) ==
  LET c == pending[p]
  IN  c # NoOne /\ caller[c].at = "commit" /\ caller[c].alone => Commits(caller[c], up[p], down[p])

Tellings ==
  /\ untrue \cap {"ok", "refused"} = {}
  /\ \A p \in Phones : CommitsAt(p)
TellingsIfSo == ~ mixed => Tellings

TransferInvariant == Typed /\ Numbered /\ Reads /\ OrderedIfSo /\ TellingsIfSo

-----------------------------------------------------------------------------
(* The queues                                                              *)

LEMMA TailElements ==
  ASSUME NEW S, NEW u \in Seq(S), u # <<>>
  PROVE  /\ Tail(u) \in Seq(S) /\ Head(u) \in S
         /\ 1 \in DOMAIN u /\ Head(u) = u[1]
         /\ \A i \in DOMAIN Tail(u) : /\ i \in Nat /\ i + 1 \in DOMAIN u /\ i + 1 # 1
                                      /\ Tail(u)[i] = u[i + 1]
         /\ \A i \in DOMAIN u : i # 1 => i - 1 \in DOMAIN Tail(u) /\ Tail(u)[i - 1] = u[i]
<1>1. Len(u) \in Nat \ {0} /\ DOMAIN u = 1 .. Len(u)
  OBVIOUS
<1>2. Tail(u) \in Seq(S) /\ Len(Tail(u)) = Len(u) - 1 /\ Head(u) = u[1]
  BY HeadTailProperties
<1>3. DOMAIN Tail(u) = 1 .. Len(u) - 1 /\ \A i \in 1 .. Len(u) - 1 : Tail(u)[i] = u[i + 1]
  BY <1>1, <1>2, HeadTailProperties
<1> QED BY <1>1, <1>2, <1>3

LEMMA AppendElements ==
  ASSUME NEW S, NEW u \in Seq(S), NEW m \in S
  PROVE  LET e == Append(u, m)
         IN  /\ e \in Seq(S) /\ Len(e) = Len(u) + 1 /\ Len(e) \in DOMAIN e /\ e[Len(e)] = m
             /\ Len(e) \notin DOMAIN u
             /\ \A i \in DOMAIN u : i \in DOMAIN e /\ e[i] = u[i] /\ i < Len(e) /\ i \in Nat
             /\ \A i \in DOMAIN e : i = Len(e) \/ i \in DOMAIN u
BY AppendProperties

Reply(d, a, id) == d \o a \o <<Ack(id)>>

LEMMA ReplyElements ==
  ASSUME NEW d \in Seq(Frame), NEW a \in Seq(Notice), NEW id \in Call
  PROVE  LET e == Reply(d, a, id)
         IN  /\ e \in Seq(Frame) /\ Len(e) \in DOMAIN e /\ e[Len(e)] = Ack(id)
             /\ Len(e) \notin DOMAIN d
             /\ \A i \in DOMAIN d : i \in DOMAIN e /\ e[i] = d[i]
             /\ \A i \in DOMAIN e : i = Len(e) \/ i \in DOMAIN d
                                    \/ \E k \in DOMAIN a : e[i] = a[k]
<1> DEFINE b == d \o a
           e == b \o <<Ack(id)>>
<1>1. a \in Seq(Frame) /\ Ack(id) \in Frame /\ <<Ack(id)>> \in Seq(Frame)
  BY DEF Frame, Ack
<1>2. /\ b \in Seq(Frame) /\ Len(b) = Len(d) + Len(a)
      /\ \A i \in 1 .. Len(d) + Len(a) : b[i] = IF i <= Len(d) THEN d[i] ELSE a[i - Len(d)]
  BY <1>1, ConcatProperties
<1> HIDE DEF b
<1>3. /\ e \in Seq(Frame) /\ Len(e) = Len(b) + 1
      /\ \A i \in 1 .. Len(b) + 1 : e[i] = IF i <= Len(b) THEN b[i] ELSE <<Ack(id)>>[i - Len(b)]
  BY <1>1, <1>2, ConcatProperties
<1> HIDE DEF e
<1>4. Len(d) \in Nat /\ Len(a) \in Nat /\ DOMAIN d = 1 .. Len(d) /\ DOMAIN a = 1 .. Len(a)
      /\ DOMAIN e = 1 .. Len(e)
  BY <1>3
<1>5. e[Len(e)] = Ack(id)
  <2>1. Len(b) \in Nat
    BY <1>2
  <2>2. e[Len(b) + 1] = <<Ack(id)>>[(Len(b) + 1) - Len(b)]
    BY <1>3, <2>1
  <2>3. (Len(b) + 1) - Len(b) = 1
    BY <2>1
  <2> QED BY <1>3, <2>2, <2>3
<1>6. \A i \in DOMAIN d : i \in DOMAIN e /\ e[i] = d[i]
  BY <1>2, <1>3, <1>4
<1>7. \A i \in DOMAIN e : i = Len(e) \/ i \in DOMAIN d \/ \E k \in DOMAIN a : e[i] = a[k]
  <2> TAKE i \in DOMAIN e
  <2>1. i \in 1 .. Len(d) + Len(a) + 1
    BY <1>2, <1>3, <1>4
  <2>2. CASE i > Len(d) /\ i <= Len(d) + Len(a)
    <3>1. i - Len(d) \in DOMAIN a /\ e[i] = a[i - Len(d)]
      BY <1>2, <1>3, <1>4, <2>1, <2>2
    <3> QED BY <3>1
  <2> QED BY <1>2, <1>3, <1>4, <2>1, <2>2
<1>8. e = Reply(d, a, id)
  BY DEF Reply, e, b
<1>9. Len(e) \in DOMAIN e /\ Len(e) \notin DOMAIN d
  BY <1>2, <1>3, <1>4
<1>10. e \in Seq(Frame)
  BY <1>3
<1> QED BY <1>5, <1>6, <1>7, <1>8, <1>9, <1>10

\* What is notified is no acknowledgement.
LEMMA NoticeKinds == \A f \in Notice : f.kind \in {"chunk", "result"}
BY DEF Notice

LEMMA FrameKinds == \A f \in Frame : /\ f.kind \in {"chunk", "result", "ack"}
                                     /\ f.kind # "ack" => f \in Notice
                                     /\ f.kind = "ack" => f.id \in Call
                                     /\ f.kind = "result" => f.ok \in BOOLEAN
                                     /\ f.kind = "chunk" => /\ f.off \in Offset /\ f.total \in Offset
                                                            /\ f.block \in Cell
BY DEF Frame, Notice

LEMMA MessageFields ==
  \A m \in Messages :
    /\ m.op \in {"read", "begin", "chunk", "commit"} /\ m.id \in Call
    /\ m.op \in {"begin", "chunk"} => m.size \in Sizes
    /\ m.op = "chunk" => m.off \in Offset
BY DEF Messages


-----------------------------------------------------------------------------
(* One writer and its message                                              *)

Queues(u, d) == u \in Seq(Messages) /\ d \in Seq(Frame)

\* The board handles a message that is not the writer's.
LEMMA InTurnBeside ==
  ASSUME NEW l, NEW u, NEW d, NEW s, NEW s2, NEW a \in Seq(Notice),
         Queues(u, d), u # <<>>, InTurn(l, u, d, s),
         Head(u).op \in {"read", "commit"}, Head(u).op = "read" => s2 = s
  PROVE  InTurn(l, Tail(u), Reply(d, a, Head(u).id), s2)
<1> DEFINE e == Reply(d, a, Head(u).id)
           t == Tail(u)
<1>1. /\ t \in Seq(Messages) /\ Head(u) \in Messages /\ 1 \in DOMAIN u /\ Head(u) = u[1]
      /\ \A i \in DOMAIN t : i \in Nat /\ i + 1 \in DOMAIN u /\ i + 1 # 1 /\ t[i] = u[i + 1]
      /\ \A i \in DOMAIN u : i # 1 => i - 1 \in DOMAIN t /\ t[i - 1] = u[i]
      /\ \A i \in DOMAIN u : i \in Nat
  BY TailElements DEF Queues
<1>2. Head(u).id \in Call
  BY <1>1, MessageFields
<1>3. /\ e \in Seq(Frame) /\ Len(e) \in DOMAIN e /\ e[Len(e)] = Ack(Head(u).id)
      /\ Len(e) \notin DOMAIN d
      /\ \A i \in DOMAIN d : i \in DOMAIN e /\ e[i] = d[i]
      /\ \A i \in DOMAIN e : i = Len(e) \/ i \in DOMAIN d \/ \E k \in DOMAIN a : e[i] = a[k]
  BY <1>2, ReplyElements DEF Queues
<1>4. \A k \in DOMAIN a : a[k].kind # "ack"
  BY NoticeKinds, ElementOfSeq
<1> HIDE DEF e, t
<1>5. ASSUME NEW i \in DOMAIN e, Acks(e[i], l.id), Head(u).id # l.id
      PROVE  i \in DOMAIN d /\ Acks(d[i], l.id)
  BY <1>3, <1>4, <1>5 DEF Acks, Ack
<1>6. CASE BeginUp(l, u, d)
  <2>1. PICK i \in DOMAIN u :
          /\ u[i] = Message("begin", l.id, 0, l.size)
          /\ \A j \in DOMAIN u \ {i} : u[j].id # l.id /\ u[j].op \in {"read", "commit"}
          /\ \A j \in DOMAIN u : j > i => u[j].op = "read"
    BY <1>6 DEF BeginUp
  <2>2. i # 1 /\ Head(u).id # l.id
    BY <1>1, <2>1 DEF Message
  <2>3. i - 1 \in DOMAIN t /\ t[i - 1] = u[i]
    BY <1>1, <2>2
  <2>4. \A j \in DOMAIN t \ {i - 1} : t[j].id # l.id /\ t[j].op \in {"read", "commit"}
    BY <1>1, <2>1
  <2>5. \A j \in DOMAIN t : j > i - 1 => t[j].op = "read"
    BY <1>1, <2>1
  <2>6. \A j \in DOMAIN e : ~ Acks(e[j], l.id)
    BY <1>5, <1>6, <2>2 DEF BeginUp
  <2>7. BeginUp(l, t, e)
    BY <1>6, <2>1, <2>3, <2>4, <2>5, <2>6 DEF BeginUp
  <2> QED BY <2>7 DEF InTurn, e, t
<1>7. CASE ChunkUp(l, u, d, s)
  <2>1. PICK i \in DOMAIN u :
          /\ u[i] = Message("chunk", l.id, l.next - 1, l.size)
          /\ \A j \in DOMAIN u \ {i} : u[j].id # l.id /\ u[j].op = "read"
    BY <1>7 DEF ChunkUp
  <2>2. i # 1 /\ Head(u).id # l.id /\ s2 = s
    BY <1>1, <2>1 DEF Message
  <2>3. i - 1 \in DOMAIN t /\ t[i - 1] = u[i]
    BY <1>1, <2>2
  <2>4. \A j \in DOMAIN t \ {i - 1} : t[j].id # l.id /\ t[j].op = "read"
    BY <1>1, <2>1
  <2>5. \A j \in DOMAIN e : ~ Acks(e[j], l.id)
    BY <1>5, <1>7, <2>2 DEF ChunkUp
  <2>6. ChunkUp(l, t, e, s2)
    BY <1>7, <2>1, <2>2, <2>3, <2>4, <2>5 DEF ChunkUp
  <2> QED BY <2>6 DEF InTurn, e, t
<1>8. CASE AckDown(l, u, d, s)
  <2>1. /\ \A j \in DOMAIN u : u[j].id # l.id /\ u[j].op = "read"
        /\ Head(u).id # l.id /\ s2 = s
    BY <1>1, <1>8 DEF AckDown
  <2>2. \A j \in DOMAIN t : t[j].id # l.id /\ t[j].op = "read"
    BY <1>1, <2>1
  <2>3. PICK i \in DOMAIN d : Acks(d[i], l.id) /\ \A j \in DOMAIN d \ {i} : ~ Acks(d[j], l.id)
    BY <1>8 DEF AckDown
  <2>4. i \in DOMAIN e /\ Acks(e[i], l.id)
    BY <1>3, <2>3
  <2>5. \A j \in DOMAIN e \ {i} : ~ Acks(e[j], l.id)
    BY <1>5, <1>3, <2>1, <2>3
  <2>6. AckDown(l, t, e, s2)
    BY <1>8, <2>1, <2>2, <2>4, <2>5 DEF AckDown
  <2> QED BY <2>6 DEF InTurn, e, t
<1> QED BY <1>6, <1>7, <1>8 DEF InTurn

\* The board handles the writer's own message.
LEMMA InTurnHandled ==
  ASSUME NEW l, NEW u, NEW d, NEW s, NEW s2, NEW a \in Seq(Notice),
         Queues(u, d), u # <<>>, InTurn(l, u, d, s), l.size \in Nat,
         \/ /\ Head(u).op = "begin"
            /\ Filled(s2, l.id, l.size, 0)
         \/ /\ Head(u).op = "chunk"
            /\ l.next \in 2 .. l.size + 1 /\ Filled(s, l.id, l.size, l.next - 2)
               => Filled(s2, l.id, l.size, l.next - 1)
  PROVE  /\ InTurn(l, Tail(u), Reply(d, a, Head(u).id), s2)
         /\ Head(u).id = l.id /\ Head(u).size = l.size
         /\ NoWrites(Tail(u))
<1> DEFINE e == Reply(d, a, Head(u).id)
           t == Tail(u)
<1>1. /\ t \in Seq(Messages) /\ Head(u) \in Messages /\ 1 \in DOMAIN u /\ Head(u) = u[1]
      /\ \A i \in DOMAIN t : i \in Nat /\ i + 1 \in DOMAIN u /\ i + 1 # 1 /\ t[i] = u[i + 1]
      /\ \A i \in DOMAIN u : i \in Nat
  BY TailElements DEF Queues
<1>2. Head(u).id \in Call
  BY <1>1, MessageFields
<1>3. /\ Len(e) \in DOMAIN e /\ e[Len(e)] = Ack(Head(u).id)
      /\ Len(e) \notin DOMAIN d
      /\ \A i \in DOMAIN d : i \in DOMAIN e /\ e[i] = d[i]
      /\ \A i \in DOMAIN e : i = Len(e) \/ i \in DOMAIN d \/ \E k \in DOMAIN a : e[i] = a[k]
  BY <1>2, ReplyElements DEF Queues
<1>4. \A k \in DOMAIN a : a[k].kind # "ack"
  BY NoticeKinds, ElementOfSeq
<1> HIDE DEF e, t
<1>5. ASSUME \A i \in DOMAIN d : ~ Acks(d[i], l.id), Head(u).id = l.id
      PROVE  \E i \in DOMAIN e : Acks(e[i], l.id) /\ \A j \in DOMAIN e \ {i} : ~ Acks(e[j], l.id)
  <2>1. Acks(e[Len(e)], l.id)
    BY <1>3, <1>5 DEF Acks, Ack
  <2>2. \A j \in DOMAIN e \ {Len(e)} : ~ Acks(e[j], l.id)
    BY <1>3, <1>4, <1>5 DEF Acks
  <2> QED BY <1>3, <2>1, <2>2
<1>6. ~ AckDown(l, u, d, s)
  BY <1>1 DEF AckDown
<1>7. CASE BeginUp(l, u, d)
  <2>1. PICK i \in DOMAIN u :
          /\ u[i] = Message("begin", l.id, 0, l.size)
          /\ \A j \in DOMAIN u \ {i} : u[j].id # l.id /\ u[j].op \in {"read", "commit"}
          /\ \A j \in DOMAIN u : j > i => u[j].op = "read"
    BY <1>7 DEF BeginUp
  <2>2. i = 1
    BY <1>1, <2>1
  <2>3. Head(u).op = "begin" /\ Head(u).id = l.id /\ Head(u).size = l.size
    BY <1>1, <2>1, <2>2 DEF Message
  <2>4. \A j \in DOMAIN t : t[j].id # l.id /\ t[j].op = "read"
    BY <1>1, <2>1, <2>2
  <2>5. \E j \in DOMAIN e : Acks(e[j], l.id) /\ \A k \in DOMAIN e \ {j} : ~ Acks(e[k], l.id)
    BY <1>5, <1>7, <2>3 DEF BeginUp
  <2>6. AckDown(l, t, e, s2)
    BY <1>7, <2>3, <2>4, <2>5 DEF AckDown, BeginUp
  <2> QED BY <2>3, <2>4, <2>6 DEF InTurn, e, t, NoWrites
<1>8. CASE ChunkUp(l, u, d, s)
  <2>1. PICK i \in DOMAIN u :
          /\ u[i] = Message("chunk", l.id, l.next - 1, l.size)
          /\ \A j \in DOMAIN u \ {i} : u[j].id # l.id /\ u[j].op = "read"
    BY <1>8 DEF ChunkUp
  <2>2. i = 1
    BY <1>1, <2>1
  <2>3. Head(u).op = "chunk" /\ Head(u).id = l.id /\ Head(u).size = l.size
    BY <1>1, <2>1, <2>2 DEF Message
  <2>4. \A j \in DOMAIN t : t[j].id # l.id /\ t[j].op = "read"
    BY <1>1, <2>1, <2>2
  <2>5. \E j \in DOMAIN e : Acks(e[j], l.id) /\ \A k \in DOMAIN e \ {j} : ~ Acks(e[k], l.id)
    BY <1>5, <1>8, <2>3 DEF ChunkUp
  <2>6. AckDown(l, t, e, s2)
    BY <1>8, <2>3, <2>4, <2>5 DEF AckDown, ChunkUp
  <2> QED BY <2>3, <2>4, <2>6 DEF InTurn, e, t, NoWrites
<1> QED BY <1>6, <1>7, <1>8 DEF InTurn

\* The client takes a frame that is not the writer's acknowledgement.
LEMMA InTurnTaken ==
  ASSUME NEW l, NEW u, NEW d, NEW s, Queues(u, d), d # <<>>,
         InTurn(l, u, d, s), ~ Acks(Head(d), l.id)
  PROVE  InTurn(l, u, Tail(d), s)
<1> DEFINE t == Tail(d)
<1>1. /\ 1 \in DOMAIN d /\ Head(d) = d[1]
      /\ \A i \in DOMAIN t : i \in Nat /\ i + 1 \in DOMAIN d /\ i + 1 # 1 /\ t[i] = d[i + 1]
      /\ \A i \in DOMAIN d : i # 1 => i - 1 \in DOMAIN t /\ t[i - 1] = d[i]
      /\ \A i \in DOMAIN d : i \in Nat
  BY TailElements DEF Queues
<1> HIDE DEF t
<1>2. (\A i \in DOMAIN d : ~ Acks(d[i], l.id)) => \A i \in DOMAIN t : ~ Acks(t[i], l.id)
  BY <1>1
<1>3. CASE BeginUp(l, u, d)
  BY <1>2, <1>3 DEF BeginUp, InTurn, t
<1>4. CASE ChunkUp(l, u, d, s)
  BY <1>2, <1>4 DEF ChunkUp, InTurn, t
<1>5. CASE AckDown(l, u, d, s)
  <2>1. PICK i \in DOMAIN d : Acks(d[i], l.id) /\ \A j \in DOMAIN d \ {i} : ~ Acks(d[j], l.id)
    BY <1>5 DEF AckDown
  <2>2. i # 1
    BY <1>1, <2>1
  <2>3. i - 1 \in DOMAIN t /\ Acks(t[i - 1], l.id)
    BY <1>1, <2>1, <2>2
  <2>4. \A j \in DOMAIN t \ {i - 1} : ~ Acks(t[j], l.id)
    BY <1>1, <2>1
  <2>5. AckDown(l, u, t, s)
    BY <1>5, <2>3, <2>4 DEF AckDown
  <2> QED BY <2>5 DEF InTurn, t
<1> QED BY <1>3, <1>4, <1>5 DEF InTurn

\* Another call of the phone asks for the configuration.
LEMMA InTurnAsked ==
  ASSUME NEW l, NEW u, NEW d, NEW s, NEW m \in Messages, Queues(u, d),
         InTurn(l, u, d, s), m.op = "read", m.id # l.id
  PROVE  InTurn(l, Append(u, m), d, s)
<1> DEFINE e == Append(u, m)
<1>1. /\ Len(e) \in DOMAIN e /\ e[Len(e)] = m /\ Len(e) \notin DOMAIN u
      /\ \A i \in DOMAIN u : i \in DOMAIN e /\ e[i] = u[i] /\ i < Len(e) /\ i \in Nat
      /\ \A i \in DOMAIN e : i = Len(e) \/ i \in DOMAIN u
  BY AppendElements DEF Queues
<1> HIDE DEF e
<1>2. CASE BeginUp(l, u, d)
  <2>1. PICK i \in DOMAIN u :
          /\ u[i] = Message("begin", l.id, 0, l.size)
          /\ \A j \in DOMAIN u \ {i} : u[j].id # l.id /\ u[j].op \in {"read", "commit"}
          /\ \A j \in DOMAIN u : j > i => u[j].op = "read"
    BY <1>2 DEF BeginUp
  <2>2. i \in DOMAIN e /\ e[i] = u[i]
    BY <1>1
  <2>3. \A j \in DOMAIN e \ {i} : e[j].id # l.id /\ e[j].op \in {"read", "commit"}
    BY <1>1, <2>1
  <2>4. \A j \in DOMAIN e : j > i => e[j].op = "read"
    BY <1>1, <2>1
  <2> QED BY <1>2, <2>1, <2>2, <2>3, <2>4 DEF BeginUp, InTurn, e
<1>3. CASE ChunkUp(l, u, d, s)
  <2>1. PICK i \in DOMAIN u :
          /\ u[i] = Message("chunk", l.id, l.next - 1, l.size)
          /\ \A j \in DOMAIN u \ {i} : u[j].id # l.id /\ u[j].op = "read"
    BY <1>3 DEF ChunkUp
  <2>2. i \in DOMAIN e /\ e[i] = u[i]
    BY <1>1
  <2>3. \A j \in DOMAIN e \ {i} : e[j].id # l.id /\ e[j].op = "read"
    BY <1>1, <2>1
  <2>4. ChunkUp(l, e, d, s)
    BY <1>3, <2>1, <2>2, <2>3 DEF ChunkUp
  <2> QED BY <2>4 DEF InTurn, e
<1>4. CASE AckDown(l, u, d, s)
  BY <1>1, <1>4 DEF AckDown, InTurn, e
<1> QED BY <1>2, <1>3, <1>4 DEF InTurn

\* The writer takes its acknowledgement and sends what comes next.
LEMMA InTurnSends ==
  ASSUME NEW l, NEW u, NEW d, NEW s, Queues(u, d), d # <<>>,
         InTurn(l, u, d, s), Acks(Head(d), l.id)
  PROVE  /\ AckDown(l, u, d, s)
         /\ \A i \in DOMAIN Tail(d) : ~ Acks(Tail(d)[i], l.id)
<1>1. /\ 1 \in DOMAIN d /\ Head(d) = d[1]
      /\ \A i \in DOMAIN Tail(d) : i \in Nat /\ i + 1 \in DOMAIN d /\ i + 1 # 1
                                   /\ Tail(d)[i] = d[i + 1]
  BY TailElements DEF Queues
<1>2. AckDown(l, u, d, s)
  BY <1>1 DEF InTurn, BeginUp, ChunkUp
<1> QED BY <1>1, <1>2 DEF AckDown


-----------------------------------------------------------------------------
(* Types                                                                   *)

LEMMA Constants ==
  /\ ClientOf \in [Callers -> Phones]
  /\ Largest \in Nat /\ Sizes \subseteq 1 .. Largest /\ Sizes \subseteq Offset
  /\ NoOne \notin Callers /\ MaxEvents \in Nat
  /\ Offset = 1 .. Largest /\ Call = 0 .. MaxEvents
  /\ \A n \in Sizes : n \in 0 .. Largest /\ n \in Nat /\ 0 < n
BY ConfigTransferAssumption DEF Offset, Call

LEMMA Responds ==
  ASSUME Typed, NEW p \in Phones, up[p] # <<>>, NEW frames \in Seq(Notice),
         Respond(p, frames)
  PROVE  /\ events' \in Call /\ events <= events'
         /\ \E a \in Seq(Notice) :
              /\ \A i \in DOMAIN a : \E k \in DOMAIN frames : a[i] = frames[k]
              /\ down' = [down EXCEPT ![p] = Reply(@, a, Head(up[p]).id)]
<1>1. PICK a \in Arriving(frames) :
        /\ IF a = frames THEN UNCHANGED events ELSE Counted
        /\ down' = [down EXCEPT ![p] = @ \o a \o <<Ack(Head(up[p]).id)>>]
  BY DEF Respond
<1>2. events' \in Call /\ events <= events'
  BY <1>1, Constants DEF Counted, Typed
<1>2a. PICK n \in 0 .. Len(frames) :
        \E kept \in [1 .. n -> DOMAIN frames] : a = [i \in 1 .. n |-> frames[kept[i]]]
  BY <1>1 DEF Arriving
<1>3. PICK kept \in [1 .. n -> DOMAIN frames] : a = [i \in 1 .. n |-> frames[kept[i]]]
  BY <1>2a
<1>4. \A i \in 1 .. n : frames[kept[i]] \in Notice
  BY <1>3, ElementOfSeq
<1>5. n \in Nat
  BY <1>2a
<1>6. a \in Seq(Notice)
  <2>1. a \in [1 .. n -> Notice]
    BY <1>3, <1>4
  <2> QED BY <1>5, <2>1, SeqDef
<1>7. \A i \in DOMAIN a : \E k \in DOMAIN frames : a[i] = frames[k]
  BY <1>3
<1> QED BY <1>1, <1>2, <1>6, <1>7 DEF Reply

LEMMA RefusalTyped == <<Result(FALSE)>> \in Seq(Notice) /\ <<>> \in Seq(Notice)
BY DEF Result, Notice

\* Taking a message and replying keep the queues typed.
LEMMA QueuesTyped ==
  ASSUME Typed, NEW p \in Phones, up[p] # <<>>, up' = [up EXCEPT ![p] = Tail(@)],
         NEW a \in Seq(Notice), down' = [down EXCEPT ![p] = Reply(@, a, Head(up[p]).id)]
  PROVE  /\ up' \in [Phones -> Seq(Messages)] /\ down' \in [Phones -> Seq(Frame)]
         /\ up'[p] = Tail(up[p]) /\ down'[p] = Reply(down[p], a, Head(up[p]).id)
         /\ \A q \in Phones \ {p} : up'[q] = up[q] /\ down'[q] = down[q]
         /\ Queues(up[p], down[p]) /\ Head(up[p]) \in Messages
<1>1. Queues(up[p], down[p])
  BY DEF Typed, Queues
<1>2. Tail(up[p]) \in Seq(Messages) /\ Head(up[p]) \in Messages
  BY <1>1, TailElements DEF Queues
<1>3. Reply(down[p], a, Head(up[p]).id) \in Seq(Frame)
  BY <1>1, <1>2, MessageFields, ReplyElements DEF Queues
<1> QED BY <1>1, <1>2, <1>3 DEF Typed

Bounded(s) == s.got <= s.total /\ (s.active => s.total \in Sizes)

LEMMA StagingKeeps ==
  ASSUME Typed, NEW p \in Phones,
         NEW s \in Stage, Bounded(s), staging' = [staging EXCEPT ![p] = s]
  PROVE  /\ staging' \in [Phones -> Stage]
         /\ \A q \in Phones : staging'[q].got <= staging'[q].total
         /\ \A q \in Phones : staging'[q].active => staging'[q].total \in Sizes
BY DEF Typed, Bounded

LEMMA ReadFrames ==
  ASSUME Typed
  PROVE  [i \in DOMAIN config |-> Chunk(i, config[i], Len(config))] \in Seq(Notice)
<1> DEFINE frames == [i \in DOMAIN config |-> Chunk(i, config[i], Len(config))]
<1>1. DOMAIN config = 1 .. Len(config) /\ Len(config) \in Offset
  BY DEF Typed
<1>2. \A i \in 1 .. Len(config) : Chunk(i, config[i], Len(config)) \in Notice
  BY <1>1, Constants, ElementOfSeq DEF Chunk, Notice, Typed
<1>3. frames \in [1 .. Len(config) -> Notice] /\ Len(config) \in Nat
  BY <1>1, <1>2, Constants
<1> QED BY <1>3, SeqDef

LEMMA HandleReadTyped == ASSUME Typed, NEW p \in Phones, HandleRead(p) PROVE Typed'
<1> DEFINE frames == [i \in DOMAIN config |-> Chunk(i, config[i], Len(config))]
<1>1. up[p] # <<>> /\ up' = [up EXCEPT ![p] = Tail(@)] /\ Respond(p, frames)
  BY DEF HandleRead, Takes
<1>2. frames \in Seq(Notice)
  BY ReadFrames
<1> HIDE DEF frames
<1>3. PICK a \in Seq(Notice) : down' = [down EXCEPT ![p] = Reply(@, a, Head(up[p]).id)]
  BY <1>1, <1>2, Responds
<1>4. events' \in Call
  BY <1>1, <1>2, Responds
<1>5. up' \in [Phones -> Seq(Messages)] /\ down' \in [Phones -> Seq(Frame)]
  BY <1>1, <1>3, QueuesTyped
<1>6. UNCHANGED <<config, staging, pending, caller, untrue, mixed>>
  BY DEF HandleRead, board
<1> QED BY <1>4, <1>5, <1>6 DEF Typed

LEMMA HandleBeginTyped == ASSUME Typed, NEW p \in Phones, HandleBegin(p) PROVE Typed'
<1> DEFINE s == [staging[p] EXCEPT !.total = Head(up[p]).size, !.got = 0, !.active = TRUE]
<1>1. /\ up[p] # <<>> /\ up' = [up EXCEPT ![p] = Tail(@)] /\ Respond(p, <<>>)
      /\ Head(up[p]).op = "begin" /\ staging' = [staging EXCEPT ![p] = s]
  BY DEF HandleBegin, Takes, StagingOf
<1>2. PICK a \in Seq(Notice) : down' = [down EXCEPT ![p] = Reply(@, a, Head(up[p]).id)]
  BY <1>1, RefusalTyped, Responds
<1>3. events' \in Call
  BY <1>1, RefusalTyped, Responds
<1>4. /\ up' \in [Phones -> Seq(Messages)] /\ down' \in [Phones -> Seq(Frame)]
      /\ Head(up[p]) \in Messages
  BY <1>1, <1>2, QueuesTyped
<1>5. Head(up[p]).size \in Sizes
  BY <1>1, <1>4, MessageFields
<1>6. s \in Stage /\ Bounded(s)
  <2>1. staging[p] \in Stage
    BY DEF Typed
  <2>a. Head(up[p]).size \in 0 .. Largest /\ 0 \in 0 .. Largest
    <3>1. \A n \in Sizes : n \in 0 .. Largest /\ 0 \in 0 .. Largest
      BY Constants
    <3> QED BY <1>5, <3>1
  <2>b. 0 <= Head(up[p]).size
    BY <2>a
  <2>2. s \in Stage /\ s.got = 0 /\ s.total = Head(up[p]).size
    BY <2>1, <2>a DEF Stage
  <2> HIDE DEF s
  <2> QED BY <1>5, <2>b, <2>2 DEF Bounded
<1> HIDE DEF s
<1>7. /\ staging' \in [Phones -> Stage]
      /\ \A q \in Phones : staging'[q].got <= staging'[q].total
      /\ \A q \in Phones : staging'[q].active => staging'[q].total \in Sizes
  BY <1>1, <1>6, StagingKeeps
<1>8. UNCHANGED <<config, pending, caller, untrue, mixed>>
  BY DEF HandleBegin
<1> QED BY <1>3, <1>4, <1>7, <1>8 DEF Typed

\* The two ways a chunk is handled.
Refused(p) ==
  /\ staging' = [staging EXCEPT ![p] = [@ EXCEPT !.active = FALSE]]
  /\ UNCHANGED <<config, caller, untrue>>

Stored(p) ==
  LET m == Head(up[p])
  IN  /\ staging[p].active
      /\ staging' = [staging EXCEPT ![p] =
           [staging[p] EXCEPT !.buf[m.off] = [write |-> m.id, size |-> m.size],
                              !.got = IF m.off > staging[p].got THEN m.off ELSE staging[p].got]]
      /\ UNCHANGED <<config, caller, untrue>>

LEMMA HandleChunkCases ==
  ASSUME NEW p \in Phones, HandleChunk(p)
  PROVE  /\ up[p] # <<>> /\ Head(up[p]).op = "chunk" /\ up' = [up EXCEPT ![p] = Tail(@)]
         /\ UNCHANGED <<pending, untrue, mixed, config, caller>>
         /\ \/ /\ Refused(p) /\ Respond(p, <<Result(FALSE)>>)
               /\ ~ staging[p].active \/ Head(up[p]).off > staging[p].total
            \/ /\ Stored(p) /\ Respond(p, <<>>)
               /\ ~ (Head(up[p]).off > staging[p].total)
<1>1. CASE ~ staging[p].active \/ Head(up[p]).off > staging[p].total
  BY <1>1 DEF HandleChunk, Takes, StagingOf, Refuse, Refused
<1>2. CASE ~ (~ staging[p].active \/ Head(up[p]).off > staging[p].total)
  <2>1. Stored(p) /\ Respond(p, <<>>)
    BY <1>2 DEF HandleChunk, StagingOf, Stored
  <2> QED BY <1>2, <2>1 DEF HandleChunk, Takes, Stored
<1> QED BY <1>1, <1>2

\* The callers' records after a commit.
Informed(valid, id) ==
  caller' = [c \in Callers |->
    IF caller[c].at = "read"
    THEN [caller[c] EXCEPT !.since = @ \cup {config'}]
    ELSE [caller[c] EXCEPT !.applied = @ \/ (valid /\ caller[c].id = id)]]

LEMMA HandleCommitCases ==
  ASSUME NEW p \in Phones, HandleCommit(p)
  PROVE  /\ up[p] # <<>> /\ Head(up[p]).op = "commit" /\ up' = [up EXCEPT ![p] = Tail(@)]
         /\ UNCHANGED <<pending, untrue, mixed>>
         /\ staging' = [staging EXCEPT ![p] = [@ EXCEPT !.active = FALSE]]
         /\ \/ /\ Respond(p, <<Result(FALSE)>>)
               /\ UNCHANGED <<config, caller>>
            \/ /\ staging[p].active /\ staging[p].got = staging[p].total
               /\ \E valid \in BOOLEAN :
                    /\ Respond(p, <<Result(valid)>>)
                    /\ config' = IF valid THEN SubSeq(staging[p].buf, 1, staging[p].total) ELSE config
                    /\ Informed(valid, Head(up[p]).id)
<1>1. CASE ~ staging[p].active \/ staging[p].got # staging[p].total
  BY <1>1 DEF HandleCommit, Takes, StagingOf, Refuse
<1>2. CASE ~ (~ staging[p].active \/ staging[p].got # staging[p].total)
  BY <1>2 DEF HandleCommit, Takes, StagingOf, Informed
<1> QED BY <1>1, <1>2


LEMMA HandleChunkTyped == ASSUME Typed, NEW p \in Phones, HandleChunk(p) PROVE Typed'
<1>1. /\ up[p] # <<>> /\ Head(up[p]).op = "chunk" /\ up' = [up EXCEPT ![p] = Tail(@)]
      /\ UNCHANGED <<pending, untrue, mixed, config, caller>>
      /\ \/ Refused(p) /\ Respond(p, <<Result(FALSE)>>)
         \/ Stored(p) /\ Respond(p, <<>>) /\ ~ (Head(up[p]).off > staging[p].total)
  BY HandleChunkCases
<1>2. /\ events' \in Call
      /\ \E a \in Seq(Notice) : down' = [down EXCEPT ![p] = Reply(@, a, Head(up[p]).id)]
  BY <1>1, RefusalTyped, Responds
<1>3. /\ up' \in [Phones -> Seq(Messages)] /\ down' \in [Phones -> Seq(Frame)]
      /\ Head(up[p]) \in Messages
  BY <1>1, <1>2, QueuesTyped
<1>4. staging[p] \in Stage /\ Bounded(staging[p])
  BY DEF Typed, Bounded
<1>5. \E s \in Stage : Bounded(s) /\ staging' = [staging EXCEPT ![p] = s]
  <2>1. CASE Refused(p)
    <3> DEFINE s == [staging[p] EXCEPT !.active = FALSE]
    <3>1. s \in Stage /\ s.got = staging[p].got /\ s.total = staging[p].total /\ ~ s.active
      BY <1>4 DEF Stage
    <3>2. staging' = [staging EXCEPT ![p] = s]
      BY <2>1 DEF Refused
    <3> HIDE DEF s
    <3> QED BY <1>4, <3>1, <3>2 DEF Bounded
  <2>2. CASE Stored(p) /\ ~ (Head(up[p]).off > staging[p].total)
    <3> DEFINE m == Head(up[p])
               cell == [write |-> m.id, size |-> m.size]
               got == IF m.off > staging[p].got THEN m.off ELSE staging[p].got
               s == [staging[p] EXCEPT !.buf[m.off] = cell, !.got = got]
    <3>1. m.off \in Offset /\ cell \in Cell
      BY <1>1, <1>3, MessageFields DEF Cell, Block
    <3>2. got \in 0 .. Largest /\ got <= staging[p].total
      BY <1>4, <2>2, <3>1, Constants DEF Stage, Bounded
    <3> HIDE DEF cell, got
    <3>3. s \in Stage /\ s.got = got /\ s.total = staging[p].total /\ s.active = staging[p].active
      BY <1>4, <3>1, <3>2 DEF Stage
    <3>4. staging' = [staging EXCEPT ![p] = s]
      BY <2>2 DEF Stored, cell, got
    <3> HIDE DEF s
    <3> QED BY <1>4, <3>2, <3>3, <3>4 DEF Bounded
  <2> QED BY <1>1, <2>1, <2>2
<1>6. /\ staging' \in [Phones -> Stage]
      /\ \A q \in Phones : staging'[q].got <= staging'[q].total
      /\ \A q \in Phones : staging'[q].active => staging'[q].total \in Sizes
  BY <1>5, StagingKeeps
<1> QED BY <1>1, <1>2, <1>3, <1>6 DEF Typed

LEMMA CommitCallers ==
  ASSUME Typed, config' \in Seq(Cell), NEW valid \in BOOLEAN, NEW id,
         Informed(valid, id)
  PROVE  /\ caller' \in [Callers -> Calling]
         /\ \A c \in Callers :
              /\ caller'[c].at = caller[c].at /\ caller'[c].id = caller[c].id
              /\ caller'[c].size = caller[c].size /\ caller'[c].next = caller[c].next
              /\ caller'[c].alone = caller[c].alone /\ caller'[c].chunks = caller[c].chunks
              /\ caller[c].at = "read" => caller'[c].since = caller[c].since \cup {config'}
              /\ caller[c].at # "read" =>
                   caller'[c].applied = (caller[c].applied \/ (valid /\ caller[c].id = id))
<1>1. ASSUME NEW c \in Callers
      PROVE  /\ caller'[c] \in Calling
             /\ caller'[c].at = caller[c].at /\ caller'[c].id = caller[c].id
             /\ caller'[c].size = caller[c].size /\ caller'[c].next = caller[c].next
             /\ caller'[c].alone = caller[c].alone /\ caller'[c].chunks = caller[c].chunks
             /\ caller[c].at = "read" => caller'[c].since = caller[c].since \cup {config'}
             /\ caller[c].at # "read" =>
                  caller'[c].applied = (caller[c].applied \/ (valid /\ caller[c].id = id))
  <2>1. caller[c] \in Calling
    BY DEF Typed
  <2>2. CASE caller[c].at = "read"
    <3>1. caller'[c] = [caller[c] EXCEPT !.since = @ \cup {config'}]
      BY <2>2 DEF Informed
    <3>2. caller[c].since \cup {config'} \in SUBSET Seq(Cell)
      BY <2>1 DEF Calling
    <3> QED BY <2>1, <2>2, <3>1, <3>2 DEF Calling
  <2>3. CASE caller[c].at # "read"
    <3> DEFINE so == caller[c].applied \/ (valid /\ caller[c].id = id)
    <3>1. caller'[c] = [caller[c] EXCEPT !.applied = so]
      BY <2>3 DEF Informed
    <3>2. so \in BOOLEAN
      BY <2>1 DEF Calling
    <3> HIDE DEF so
    <3>3. caller'[c] \in Calling /\ caller'[c].applied = so /\ caller'[c].at = caller[c].at
          /\ caller'[c].id = caller[c].id
          /\ caller'[c].size = caller[c].size /\ caller'[c].next = caller[c].next
          /\ caller'[c].alone = caller[c].alone /\ caller'[c].chunks = caller[c].chunks
      BY <2>1, <3>1, <3>2 DEF Calling
    <3> QED BY <2>3, <3>3 DEF so
  <2> QED BY <2>2, <2>3
<1> QED BY <1>1 DEF Informed

LEMMA HandleCommitTyped == ASSUME Typed, NEW p \in Phones, HandleCommit(p) PROVE Typed'
<1>1. /\ up[p] # <<>> /\ up' = [up EXCEPT ![p] = Tail(@)]
      /\ UNCHANGED <<pending, untrue, mixed>>
      /\ staging' = [staging EXCEPT ![p] = [@ EXCEPT !.active = FALSE]]
      /\ \E ok \in BOOLEAN : Respond(p, <<Result(ok)>>)
  BY HandleCommitCases
<1>2. /\ events' \in Call
      /\ \E a \in Seq(Notice) : down' = [down EXCEPT ![p] = Reply(@, a, Head(up[p]).id)]
  <2>1. PICK ok \in BOOLEAN : Respond(p, <<Result(ok)>>)
    BY <1>1
  <2>2. <<Result(ok)>> \in Seq(Notice)
    BY DEF Result, Notice
  <2> QED BY <1>1, <2>1, <2>2, Responds
<1>3. up' \in [Phones -> Seq(Messages)] /\ down' \in [Phones -> Seq(Frame)]
  BY <1>1, <1>2, QueuesTyped
<1>4. /\ staging' \in [Phones -> Stage]
      /\ \A q \in Phones : staging'[q].got <= staging'[q].total
      /\ \A q \in Phones : staging'[q].active => staging'[q].total \in Sizes
  <2> DEFINE s == [staging[p] EXCEPT !.active = FALSE]
  <2>1. staging[p] \in Stage /\ Bounded(staging[p])
    BY DEF Typed, Bounded
  <2>2. s \in Stage /\ s.got = staging[p].got /\ s.total = staging[p].total /\ ~ s.active
    BY <2>1 DEF Stage
  <2>3. staging' = [staging EXCEPT ![p] = s]
    BY <1>1
  <2> HIDE DEF s
  <2> QED BY <2>1, <2>2, <2>3, StagingKeeps DEF Bounded
<1>5. CASE UNCHANGED <<config, caller>>
  BY <1>1, <1>2, <1>3, <1>4, <1>5 DEF Typed
<1>6. ASSUME staging[p].active, NEW valid \in BOOLEAN,
             config' = IF valid THEN SubSeq(staging[p].buf, 1, staging[p].total) ELSE config,
             Informed(valid, Head(up[p]).id)
      PROVE  Typed'
  <2>1. config' \in Seq(Cell) /\ Len(config') \in Offset
    <3>1. staging[p].total \in Sizes /\ staging[p].total \in 1 .. Largest
      BY <1>6, Constants DEF Typed
    <3>2. \A i \in 1 .. staging[p].total : staging[p].buf[i] \in Cell
      BY <3>1, Constants DEF Typed, Stage
    <3>3. /\ SubSeq(staging[p].buf, 1, staging[p].total) \in Seq(Cell)
          /\ Len(SubSeq(staging[p].buf, 1, staging[p].total)) = staging[p].total
      BY <3>1, <3>2, Constants, SubSeqProperties
    <3> QED BY <1>6, <3>1, <3>3, Constants DEF Typed
  <2>2. /\ caller' \in [Callers -> Calling]
        /\ \A c \in Callers : /\ caller'[c].at = caller[c].at /\ caller'[c].size = caller[c].size
                             /\ caller'[c].next = caller[c].next
    BY <1>6, <2>1, CommitCallers
  <2> QED BY <1>1, <1>2, <1>3, <1>4, <2>1, <2>2 DEF Typed
<1> QED BY <1>5, <1>6, HandleCommitCases


LEMMA NoCallType ==
  /\ NoCall \in Calling /\ NoCall.at = "idle" /\ NoCall.id = 0 /\ ~ NoCall.applied /\ ~ NoCall.alone
  /\ \A k \in Offset : NoCall.chunks[k] = Blank
  /\ 0 \in Call /\ 0 \in 0 .. Largest
<1>1. 0 \in Call /\ 0 \in 0 .. Largest /\ 0 \in 0 .. Largest + 1
  BY Constants
<1>2. NoBlocks \in [Offset -> Cell] /\ \A k \in Offset : NoBlocks[k] = Blank
  BY DEF NoBlocks, Cell
<1> QED BY <1>1, <1>2 DEF NoCall, Calling

LEMMA CallerKeeps ==
  ASSUME Typed, NEW c \in Callers, NEW r \in Calling, caller' = [caller EXCEPT ![c] = r],
         r.at = "send" => r.size \in Sizes /\ r.next \in 1 .. Largest + 1
  PROVE  /\ caller' \in [Callers -> Calling]
         /\ \A d \in Callers : caller'[d].at = "send" =>
              caller'[d].size \in Sizes /\ caller'[d].next \in 1 .. Largest + 1
         /\ caller'[c] = r /\ \A d \in Callers \ {c} : caller'[d] = caller[d]
BY DEF Typed

LEMMA CountedType ==
  ASSUME Typed, Counted
  PROVE  events' = events + 1 /\ events' \in Call
BY Constants DEF Counted, Typed

LEMMA SendTyped ==
  ASSUME Typed, NEW p \in Phones, NEW m \in Messages, Send(p, m)
  PROVE  /\ up' \in [Phones -> Seq(Messages)]
         /\ up'[p] = Append(up[p], m) /\ \A q \in Phones \ {p} : up'[q] = up[q]
BY AppendProperties DEF Typed, Send

LEMMA GetsTyped ==
  ASSUME Typed, NEW p \in Phones, NEW kind, Gets(p, kind)
  PROVE  /\ down[p] # <<>> /\ Head(down[p]).kind = kind /\ Head(down[p]) \in Frame
         /\ down' \in [Phones -> Seq(Frame)]
         /\ down'[p] = Tail(down[p]) /\ \A q \in Phones \ {p} : down'[q] = down[q]
<1>1. down[p] \in Seq(Frame) /\ down[p] # <<>> /\ Head(down[p]).kind = kind
      /\ down' = [down EXCEPT ![p] = Tail(@)]
  BY DEF Gets, Typed
<1>2. Tail(down[p]) \in Seq(Frame) /\ Head(down[p]) \in Frame
  BY <1>1, TailElements
<1> QED BY <1>1, <1>2 DEF Typed

\* A read that begins, and a write.
LEMMA StartReadParts ==
  ASSUME Typed, NEW c \in Callers, StartRead(c)
  PROVE  LET p == ClientOf[c]
             m == Message("read", events', 0, 0)
         IN  /\ p \in Phones /\ m \in Messages /\ Send(p, m)
             /\ events' = events + 1 /\ events' \in Call
             /\ caller[c].at = "idle"
             /\ pending' = [pending EXCEPT ![p] = c]
             /\ UNCHANGED <<config, staging, down, untrue, mixed>>
             /\ caller' \in [Callers -> Calling]
             /\ \A d \in Callers \ {c} : caller'[d] = caller[d]
             /\ caller'[c].at = "read" /\ caller'[c].id = events' /\ caller'[c].since = {config}
             /\ ~ caller'[c].applied /\ (\A k \in Offset : caller'[c].chunks[k] = Blank)
             /\ caller'[c].alone => up[p] = <<>> /\ down[p] = <<>>
<1> DEFINE p == ClientOf[c]
           m == Message("read", events', 0, 0)
           r == [NoCall EXCEPT !.at = "read", !.id = events', !.since = {config},
                               !.alone = up[p] = <<>> /\ down[p] = <<>>]
<1>1. p \in Phones
  BY Constants
<1>2. events' = events + 1 /\ events' \in Call /\ caller[c].at = "idle"
  BY CountedType DEF StartRead, Calls
<1>3. m \in Messages
  BY <1>2 DEF Message, Messages
<1>4. Send(p, m) /\ caller' = [caller EXCEPT ![c] = r] /\ pending' = [pending EXCEPT ![p] = c]
      /\ UNCHANGED <<config, staging, down, untrue, mixed>>
  BY DEF StartRead, board
<1>5. config \in Seq(Cell)
  BY DEF Typed
<1>6. /\ r \in Calling /\ r.at = "read" /\ r.id = events' /\ r.since = {config}
      /\ ~ r.applied /\ r.chunks = NoCall.chunks
      /\ r.alone => up[p] = <<>> /\ down[p] = <<>>
  BY <1>2, <1>5, NoCallType DEF Calling
<1> HIDE DEF r
<1>7. caller' \in [Callers -> Calling] /\ caller'[c] = r
      /\ \A d \in Callers \ {c} : caller'[d] = caller[d]
  BY <1>4, <1>6, CallerKeeps
<1> QED BY <1>1, <1>2, <1>3, <1>4, <1>6, <1>7, NoCallType

LEMMA StartWriteParts ==
  ASSUME Typed, NEW c \in Callers, StartWrite(c)
  PROVE  LET p == ClientOf[c]
         IN  \E n \in Sizes :
             /\ p \in Phones /\ Message("begin", events', 0, n) \in Messages
             /\ Send(p, Message("begin", events', 0, n))
             /\ events' = events + 1 /\ events' \in Call
             /\ caller[c].at = "idle"
             /\ mixed' = (mixed \/ \E d \in Callers : ClientOf[d] = p /\ caller[d].at = "send")
             /\ UNCHANGED <<config, staging, down, pending, untrue>>
             /\ caller' \in [Callers -> Calling]
             /\ \A d \in Callers \ {c} : caller'[d] = caller[d]
             /\ caller'[c].at = "send" /\ caller'[c].id = events' /\ caller'[c].size = n
             /\ caller'[c].next = 1 /\ ~ caller'[c].applied /\ ~ caller'[c].alone
<1> DEFINE p == ClientOf[c]
<1>1. p \in Phones
  BY Constants
<1>2. PICK n \in Sizes :
        /\ Calls(c) /\ Send(p, Message("begin", events', 0, n))
        /\ caller' = [caller EXCEPT ![c] =
             [NoCall EXCEPT !.at = "send", !.id = events', !.size = n, !.next = 1]]
        /\ mixed' = (mixed \/ \E d \in Callers : ClientOf[d] = p /\ caller[d].at = "send")
        /\ UNCHANGED <<config, staging, down, pending, untrue>>
  BY DEF StartWrite, board
<1> DEFINE r == [NoCall EXCEPT !.at = "send", !.id = events', !.size = n, !.next = 1]
<1>3. events' = events + 1 /\ events' \in Call /\ caller[c].at = "idle"
  BY <1>2, CountedType DEF Calls
<1>4. Message("begin", events', 0, n) \in Messages
  BY <1>3 DEF Message, Messages
<1>5. n \in 0 .. Largest /\ 1 \in 0 .. Largest + 1
  BY Constants
<1>6. /\ r \in Calling /\ r.at = "send" /\ r.id = events' /\ r.size = n /\ r.next = 1
      /\ ~ r.applied /\ ~ r.alone
  BY <1>3, <1>5, NoCallType DEF Calling
<1>7. caller' = [caller EXCEPT ![c] = r]
  BY <1>2
<1> HIDE DEF r
<1>8. caller' \in [Callers -> Calling] /\ caller'[c] = r
      /\ \A d \in Callers \ {c} : caller'[d] = caller[d]
  <2>1. 1 \in 1 .. Largest + 1
    BY Constants
  <2> QED BY <1>6, <1>7, <2>1, CallerKeeps
<1> QED BY <1>1, <1>2, <1>3, <1>4, <1>6, <1>8

LEMMA StartReadTyped == ASSUME Typed, NEW c \in Callers, StartRead(c) PROVE Typed'
<1> DEFINE p == ClientOf[c]
<1>1. /\ p \in Phones /\ events' \in Call
      /\ pending' = [pending EXCEPT ![p] = c]
      /\ UNCHANGED <<config, staging, down, untrue, mixed>>
      /\ caller' \in [Callers -> Calling]
      /\ \A d \in Callers \ {c} : caller'[d] = caller[d]
      /\ caller'[c].at = "read"
  BY StartReadParts
<1>2. up' \in [Phones -> Seq(Messages)]
  BY StartReadParts, SendTyped
<1> QED BY <1>1, <1>2 DEF Typed

LEMMA StartWriteTyped == ASSUME Typed, NEW c \in Callers, StartWrite(c) PROVE Typed'
<1> DEFINE p == ClientOf[c]
<1>1. PICK n \in Sizes :
        /\ p \in Phones /\ events' \in Call
        /\ Message("begin", events', 0, n) \in Messages /\ Send(p, Message("begin", events', 0, n))
        /\ mixed' = (mixed \/ \E d \in Callers : ClientOf[d] = p /\ caller[d].at = "send")
        /\ UNCHANGED <<config, staging, down, pending, untrue>>
        /\ caller' \in [Callers -> Calling]
        /\ \A d \in Callers \ {c} : caller'[d] = caller[d]
        /\ caller'[c].size = n /\ caller'[c].next = 1
  BY StartWriteParts
<1>2. up' \in [Phones -> Seq(Messages)]
  BY <1>1, SendTyped
<1>3. mixed' \in BOOLEAN
  BY <1>1 DEF Typed
<1>4. 1 \in 1 .. Largest + 1
  BY Constants
<1> QED BY <1>1, <1>2, <1>3, <1>4 DEF Typed


\* What a client may do with an acknowledgement.
Writer(c, p) == caller[c].at = "send" /\ Head(down[p]).id = caller[c].id

Ignores(p) == (\A c \in Callers : ~ Writer(c, p)) /\ UNCHANGED <<up, pending, caller>>

Continues(c, p) ==
  /\ Writer(c, p) /\ caller[c].next <= caller[c].size
  /\ Send(p, Message("chunk", caller[c].id, caller[c].next, caller[c].size))
  /\ caller' = [caller EXCEPT ![c].next = @ + 1]
  /\ UNCHANGED pending

Concludes(c, p) ==
  /\ Writer(c, p) /\ caller[c].next > caller[c].size
  /\ Send(p, Message("commit", caller[c].id, 0, 0))
  /\ pending' = [pending EXCEPT ![p] = c]
  /\ caller' = [caller EXCEPT ![c].at = "commit", ![c].size = 0, ![c].next = 0,
                              ![c].alone = up[p] = <<>> /\ Tail(down[p]) = <<>>]

LEMMA TakeAckCases ==
  ASSUME NEW p \in Phones, TakeAck(p)
  PROVE  /\ Gets(p, "ack")
         /\ UNCHANGED <<config, staging, events, untrue, mixed>>
         /\ \/ Ignores(p)
            \/ \E c \in Callers : Continues(c, p) \/ Concludes(c, p)
BY DEF TakeAck, Ignores, Continues, Concludes, Writer, board

LEMMA ContinuesParts ==
  ASSUME Typed, NEW p \in Phones, NEW c \in Callers, Continues(c, p)
  PROVE  LET m == Message("chunk", caller[c].id, caller[c].next, caller[c].size)
         IN  /\ m \in Messages /\ Send(p, m)
             /\ caller' \in [Callers -> Calling] /\ \A d \in Callers \ {c} : caller'[d] = caller[d]
             /\ caller[c].next \in 1 .. caller[c].size
             /\ caller'[c] = [caller[c] EXCEPT !.next = @ + 1]
             /\ caller'[c].next = caller[c].next + 1 /\ caller'[c].next \in 1 .. Largest + 1
             /\ caller'[c].id = caller[c].id /\ caller'[c].size = caller[c].size
             /\ caller'[c].at = "send" /\ caller'[c].applied = caller[c].applied
             /\ caller'[c].alone = caller[c].alone
<1> DEFINE r == [caller[c] EXCEPT !.next = @ + 1]
<1>1. /\ caller[c] \in Calling /\ caller[c].at = "send"
      /\ caller[c].size \in Sizes /\ caller[c].next \in 1 .. Largest + 1
      /\ caller[c].next <= caller[c].size
  BY DEF Typed, Continues, Writer
<1>2. /\ caller[c].next \in Offset /\ caller[c].next \in 1 .. caller[c].size
      /\ caller[c].next + 1 \in 1 .. Largest + 1 /\ caller[c].next + 1 \in 0 .. Largest + 1
  <2>1. \A n \in Sizes, k \in 1 .. Largest + 1 :
          k <= n => /\ k \in Offset /\ k \in 1 .. n
                    /\ k + 1 \in 1 .. Largest + 1 /\ k + 1 \in 0 .. Largest + 1
    BY Constants
  <2> QED BY <1>1, <2>1
<1>3. Message("chunk", caller[c].id, caller[c].next, caller[c].size) \in Messages
  BY <1>1, <1>2 DEF Message, Messages, Calling
<1>4. /\ r \in Calling /\ r.next = caller[c].next + 1 /\ r.id = caller[c].id
      /\ r.size = caller[c].size /\ r.at = "send" /\ r.applied = caller[c].applied
      /\ r.alone = caller[c].alone
  BY <1>1, <1>2 DEF Calling
<1>5. caller' = [caller EXCEPT ![c] = r]
  BY DEF Continues
<1> HIDE DEF r
<1>6. /\ caller' \in [Callers -> Calling] /\ caller'[c] = r
      /\ \A d \in Callers \ {c} : caller'[d] = caller[d]
  BY <1>1, <1>2, <1>4, <1>5, CallerKeeps
<1>7. Send(p, Message("chunk", caller[c].id, caller[c].next, caller[c].size))
  BY DEF Continues
<1> QED BY <1>2, <1>3, <1>4, <1>6, <1>7 DEF r

LEMMA ConcludesParts ==
  ASSUME Typed, NEW p \in Phones, NEW c \in Callers, Concludes(c, p)
  PROVE  LET m == Message("commit", caller[c].id, 0, 0)
         IN  /\ m \in Messages /\ Send(p, m)
             /\ caller' \in [Callers -> Calling] /\ \A d \in Callers \ {c} : caller'[d] = caller[d]
             /\ caller'[c].at = "commit" /\ caller'[c].id = caller[c].id
             /\ caller'[c].applied = caller[c].applied
             /\ caller'[c].alone => up[p] = <<>> /\ Tail(down[p]) = <<>>
             /\ pending' = [pending EXCEPT ![p] = c]
<1> DEFINE solo == up[p] = <<>> /\ Tail(down[p]) = <<>>
           r == [caller[c] EXCEPT !.at = "commit", !.size = 0, !.next = 0, !.alone = solo]
<1>1. caller[c] \in Calling
  BY DEF Typed
<1>2. 0 \in 0 .. Largest /\ 0 \in 0 .. Largest + 1 /\ solo \in BOOLEAN
  BY Constants
<1>3. Message("commit", caller[c].id, 0, 0) \in Messages
  BY <1>1 DEF Message, Messages, Calling
<1>4. caller' = [caller EXCEPT ![c] = r]
  BY DEF Concludes, Typed
<1> HIDE DEF solo
<1>5. /\ r \in Calling /\ r.at = "commit" /\ r.id = caller[c].id
      /\ r.applied = caller[c].applied /\ r.alone = solo
  BY <1>1, <1>2 DEF Calling
<1> HIDE DEF r
<1>6. /\ caller' \in [Callers -> Calling] /\ caller'[c] = r
      /\ \A d \in Callers \ {c} : caller'[d] = caller[d]
  BY <1>4, <1>5, CallerKeeps
<1>7. /\ Send(p, Message("commit", caller[c].id, 0, 0))
      /\ pending' = [pending EXCEPT ![p] = c]
  BY DEF Concludes
<1> QED BY <1>3, <1>5, <1>6, <1>7 DEF solo

LEMMA TakeAckTyped == ASSUME Typed, NEW p \in Phones, TakeAck(p) PROVE Typed'
<1>1. /\ down' \in [Phones -> Seq(Frame)]
      /\ UNCHANGED <<config, staging, events, untrue, mixed>>
  BY TakeAckCases, GetsTyped
<1>2. CASE Ignores(p)
  BY <1>1, <1>2 DEF Ignores, Typed
<1>3. ASSUME NEW c \in Callers, Continues(c, p) PROVE Typed'
  <2>1. /\ up' \in [Phones -> Seq(Messages)] /\ UNCHANGED pending
    BY <1>3, ContinuesParts, SendTyped DEF Continues
  <2>2. /\ caller' \in [Callers -> Calling] /\ \A d \in Callers \ {c} : caller'[d] = caller[d]
        /\ caller'[c].next \in 1 .. Largest + 1 /\ caller'[c].size = caller[c].size
        /\ caller[c].at = "send"
    BY <1>3, ContinuesParts DEF Continues, Writer
  <2> QED BY <1>1, <2>1, <2>2 DEF Typed
<1>4. ASSUME NEW c \in Callers, Concludes(c, p) PROVE Typed'
  <2>1. up' \in [Phones -> Seq(Messages)]
    BY <1>4, ConcludesParts, SendTyped
  <2>2. /\ caller' \in [Callers -> Calling] /\ \A d \in Callers \ {c} : caller'[d] = caller[d]
        /\ caller'[c].at = "commit" /\ pending' = [pending EXCEPT ![p] = c]
    BY <1>4, ConcludesParts
  <2> QED BY <1>1, <2>1, <2>2 DEF Typed
<1> QED BY <1>2, <1>3, <1>4, TakeAckCases

\* A call ends; what it ends with.
LEMMA EndsTyped ==
  ASSUME Typed, NEW c \in Callers, Ends(c)
  PROVE  /\ caller' \in [Callers -> Calling] /\ caller'[c] = NoCall
         /\ \A d \in Callers \ {c} : caller'[d] = caller[d]
         /\ \A d \in Callers : caller'[d].at = "send" =>
              caller'[d].size \in Sizes /\ caller'[d].next \in 1 .. Largest + 1
BY NoCallType, CallerKeeps DEF Ends

LEMMA UnexpectedTyped == ASSUME Typed, NEW p \in Phones, Unexpected(p) PROVE Typed'
<1>1. down' \in [Phones -> Seq(Frame)]
  BY GetsTyped DEF Unexpected
<1> QED BY <1>1 DEF Unexpected, Typed, board

\* The cases of a chunk that somebody waits for.
With(c, f) == [caller[c].chunks EXCEPT ![f.off] = f.block]

Collects(c, f) ==
  /\ ~ Complete(With(c, f), f.total)
  /\ caller' = [caller EXCEPT ![c].chunks = With(c, f)]
  /\ UNCHANGED <<pending, untrue>>

Throws(c, f) ==
  /\ Complete(With(c, f), f.total)
  /\ \E i \in Received(With(c, f)) : i > f.total
  /\ caller' = [caller EXCEPT ![c].at = "hung"]
  /\ Closes(ClientOf[c])
  /\ UNCHANGED untrue

Shows(c, f) ==
  /\ Complete(With(c, f), f.total)
  /\ ~ \E i \in Received(With(c, f)) : i > f.total
  /\ Ends(c) /\ Closes(ClientOf[c])
  /\ Tells(c, "read", SubSeq(With(c, f), 1, f.total) \in caller[c].since)

LEMMA TakeChunkCases ==
  ASSUME Typed, NEW p \in Phones, TakeChunk(p)
  PROVE  LET c == pending[p]
             f == Head(down[p])
         IN  /\ Gets(p, "chunk") /\ c \in Callers /\ caller[c].at = "read"
             /\ UNCHANGED <<config, staging, up, events, mixed>>
             /\ ClientOf[c] = p => Collects(c, f) \/ Throws(c, f) \/ Shows(c, f)
             /\ \/ UNCHANGED pending \/ Closes(p)
             /\ \/ UNCHANGED untrue
                \/ Tells(c, "read", SubSeq(With(c, f), 1, f.total) \in caller[c].since)
             /\ \/ caller' = [caller EXCEPT ![c].chunks = With(c, f)]
                \/ caller' = [caller EXCEPT ![c].at = "hung"]
                \/ Ends(c)
<1> DEFINE c == pending[p]
           f == Head(down[p])
<1>1. c \in Callers
  BY DEF TakeChunk, Typed
<1>2. [caller[c].chunks EXCEPT ![f.off] = f.block] = With(c, f)
  BY DEF With
<1>3. CASE ~ Complete(With(c, f), f.total)
  BY <1>1, <1>2, <1>3 DEF TakeChunk, Collects, board
<1>4. CASE Complete(With(c, f), f.total) /\ \E i \in Received(With(c, f)) : i > f.total
  BY <1>1, <1>2, <1>4 DEF TakeChunk, Throws, board
<1>5. CASE Complete(With(c, f), f.total) /\ ~ \E i \in Received(With(c, f)) : i > f.total
  BY <1>1, <1>2, <1>5 DEF TakeChunk, Shows, board
<1> QED BY <1>3, <1>4, <1>5

LEMMA TakeChunkTyped == ASSUME Typed, NEW p \in Phones, TakeChunk(p) PROVE Typed'
<1> DEFINE c == pending[p]
           f == Head(down[p])
<1>1. /\ Gets(p, "chunk") /\ c \in Callers /\ caller[c].at = "read"
      /\ UNCHANGED <<config, staging, up, events, mixed>>
      /\ UNCHANGED pending \/ Closes(p)
      /\ \/ UNCHANGED untrue
         \/ Tells(c, "read", SubSeq(With(c, f), 1, f.total) \in caller[c].since)
      /\ \/ caller' = [caller EXCEPT ![c].chunks = With(c, f)]
         \/ caller' = [caller EXCEPT ![c].at = "hung"]
         \/ Ends(c)
  BY TakeChunkCases
<1>2. down' \in [Phones -> Seq(Frame)] /\ f \in Frame /\ f.kind = "chunk"
  BY <1>1, GetsTyped
<1>3. pending' \in [Phones -> Callers \cup {NoOne}]
  BY <1>1 DEF Closes, Typed
<1>4. untrue' \subseteq {"read", "ok", "refused"}
  BY <1>1 DEF Tells, Typed
<1>5. caller[c] \in Calling /\ With(c, f) \in [Offset -> Cell]
  BY <1>1, <1>2, FrameKinds DEF Typed, Calling, With
<1>6. /\ caller' \in [Callers -> Calling]
      /\ \A d \in Callers : caller'[d].at = "send" =>
           caller'[d].size \in Sizes /\ caller'[d].next \in 1 .. Largest + 1
  <2>1. CASE caller' = [caller EXCEPT ![c].chunks = With(c, f)]
    <3> DEFINE r == [caller[c] EXCEPT !.chunks = With(c, f)]
    <3>1. r \in Calling /\ r.at = "read"
      BY <1>1, <1>5 DEF Calling
    <3>2. caller' = [caller EXCEPT ![c] = r]
      BY <2>1, <1>1 DEF Typed
    <3> HIDE DEF r
    <3> QED BY <1>1, <3>1, <3>2, CallerKeeps
  <2>2. CASE caller' = [caller EXCEPT ![c].at = "hung"]
    <3> DEFINE r == [caller[c] EXCEPT !.at = "hung"]
    <3>1. r \in Calling /\ r.at = "hung"
      BY <1>1, <1>5 DEF Calling
    <3>2. caller' = [caller EXCEPT ![c] = r]
      BY <2>2, <1>1 DEF Typed
    <3> HIDE DEF r
    <3> QED BY <1>1, <3>1, <3>2, CallerKeeps
  <2>3. CASE Ends(c)
    BY <1>1, <2>3, EndsTyped
  <2> QED BY <1>1, <2>1, <2>2, <2>3
<1> QED BY <1>1, <1>2, <1>3, <1>4, <1>6 DEF Typed

LEMMA TakeReplyParts ==
  ASSUME Typed, NEW p \in Phones, TakeReply(p)
  PROVE  LET c == pending[p]
             f == Head(down[p])
         IN  /\ Gets(p, "chunk") \/ Gets(p, "result")
             /\ c \in Callers /\ Ends(c) /\ Closes(p)
             /\ UNCHANGED <<config, staging, up, events, mixed>>
             /\ \/ /\ caller[c].at = "commit"
                   /\ IF Code(f) = 0 THEN Tells(c, "ok", caller[c].applied)
                                     ELSE Tells(c, "refused", ~ caller[c].applied)
                \/ UNCHANGED untrue
BY DEF TakeReply, Typed, board

LEMMA TakeReplyTyped == ASSUME Typed, NEW p \in Phones, TakeReply(p) PROVE Typed'
<1> DEFINE c == pending[p]
<1>1. /\ Gets(p, "chunk") \/ Gets(p, "result")
      /\ c \in Callers /\ Ends(c) /\ Closes(p)
      /\ UNCHANGED <<config, staging, up, events, mixed>>
  BY TakeReplyParts
<1>2. down' \in [Phones -> Seq(Frame)]
  BY <1>1, GetsTyped
<1>3. untrue' \subseteq {"read", "ok", "refused"}
  BY TakeReplyParts DEF Tells, Typed
<1>4. pending' \in [Phones -> Callers \cup {NoOne}]
  BY <1>1 DEF Closes, Typed
<1>5. /\ caller' \in [Callers -> Calling]
      /\ \A d \in Callers : caller'[d].at = "send" =>
           caller'[d].size \in Sizes /\ caller'[d].next \in 1 .. Largest + 1
  BY <1>1, EndsTyped
<1> QED BY <1>1, <1>2, <1>3, <1>4, <1>5 DEF Typed

LEMMA TimeoutTyped == ASSUME Typed, NEW c \in Callers, Timeout(c) PROVE Typed'
<1>1. /\ Ends(c) /\ UNCHANGED <<config, staging, up, down, events, untrue, mixed>>
      /\ UNCHANGED pending \/ Closes(ClientOf[c])
  BY DEF Timeout, board, wire
<1>2. pending' \in [Phones -> Callers \cup {NoOne}]
  BY <1>1, Constants DEF Closes, Typed
<1> QED BY <1>1, <1>2, EndsTyped DEF Typed

\* What a lost link leaves of the calls.
LEMMA LinkLostParts ==
  ASSUME Typed, NEW p \in Phones, LinkLost(p)
  PROVE  /\ events' = events + 1 /\ events' \in Call
         /\ UNCHANGED <<config, untrue, mixed>> /\ Closes(p)
         /\ up' \in [Phones -> Seq(Messages)] /\ down' \in [Phones -> Seq(Frame)]
         /\ up'[p] = <<>> /\ down'[p] = <<>>
         /\ \A q \in Phones \ {p} : up'[q] = up[q] /\ down'[q] = down[q]
         /\ staging' = [staging EXCEPT ![p] = NoStaging]
         /\ caller' \in [Callers -> Calling]
         /\ \A c \in Callers :
              /\ ClientOf[c] # p => caller'[c] = caller[c]
              /\ ClientOf[c] = p =>
                   \/ caller'[c] = caller[c] /\ caller[c].at \notin {"send", "read", "commit"}
                   \/ caller'[c] = NoCall
                   \/ caller'[c] = [NoCall EXCEPT !.at = "orphan"]
<1>1. events' = events + 1 /\ events' \in Call
  BY CountedType DEF LinkLost
<1>2. /\ UNCHANGED <<config, untrue, mixed>> /\ Closes(p)
      /\ up' = [up EXCEPT ![p] = <<>>] /\ down' = [down EXCEPT ![p] = <<>>]
      /\ staging' = [staging EXCEPT ![p] = NoStaging]
      /\ caller' = [c \in Callers |-> IF ClientOf[c] = p THEN CutOff(c) ELSE caller[c]]
  BY DEF LinkLost
<1>3. /\ up' \in [Phones -> Seq(Messages)] /\ down' \in [Phones -> Seq(Frame)]
      /\ up'[p] = <<>> /\ down'[p] = <<>>
      /\ \A q \in Phones \ {p} : up'[q] = up[q] /\ down'[q] = down[q]
  BY <1>2 DEF Typed
<1>4. \A c \in Callers :
        /\ ClientOf[c] # p => caller'[c] = caller[c]
        /\ ClientOf[c] = p =>
             \/ caller'[c] = caller[c] /\ caller[c].at \notin {"send", "read", "commit"}
             \/ caller'[c] = NoCall
             \/ caller'[c] = [NoCall EXCEPT !.at = "orphan"]
  BY <1>2 DEF CutOff
<1>5. [NoCall EXCEPT !.at = "orphan"] \in Calling
  BY NoCallType DEF Calling
<1>6. caller' \in [Callers -> Calling]
  BY <1>2, <1>4, <1>5, NoCallType DEF Typed
<1> QED BY <1>1, <1>2, <1>3, <1>4, <1>6

LEMMA NoStagingType == NoStaging \in Stage /\ Bounded(NoStaging) /\ ~ NoStaging.active
<1>1. 0 \in 0 .. Largest
  BY Constants
<1>2. NoBlocks \in [Offset -> Cell]
  BY DEF NoBlocks, Cell
<1> QED BY <1>1, <1>2 DEF NoStaging, Stage, Bounded

LEMMA LinkLostTyped == ASSUME Typed, NEW p \in Phones, LinkLost(p) PROVE Typed'
<1>1. /\ events' \in Call
      /\ UNCHANGED <<config, untrue, mixed>> /\ Closes(p)
      /\ up' \in [Phones -> Seq(Messages)] /\ down' \in [Phones -> Seq(Frame)]
      /\ staging' = [staging EXCEPT ![p] = NoStaging]
      /\ caller' \in [Callers -> Calling]
  BY LinkLostParts
<1>2. /\ staging' \in [Phones -> Stage]
      /\ \A q \in Phones : staging'[q].got <= staging'[q].total
      /\ \A q \in Phones : staging'[q].active => staging'[q].total \in Sizes
  BY <1>1, NoStagingType, StagingKeeps
<1>3. pending' \in [Phones -> Callers \cup {NoOne}]
  BY <1>1 DEF Closes, Typed
<1>4. [NoCall EXCEPT !.at = "orphan"].at = "orphan" /\ NoCall.at = "idle"
  BY DEF NoCall
<1>5. \A c \in Callers : caller'[c].at = "send" => caller'[c] = caller[c]
  BY <1>4, LinkLostParts
<1> QED BY <1>1, <1>2, <1>3, <1>5 DEF Typed

-----------------------------------------------------------------------------
(* Numbers                                                                 *)

\* What is known of a number when nothing is sent under it.
LEMMA NumbersKeep ==
  ASSUME Typed, Typed', Numbered, events <= events',
         \A p \in Phones : \A i \in DOMAIN up'[p] : \E j \in DOMAIN up[p] : up'[p][i] = up[p][j],
         \A p \in Phones : \A i \in DOMAIN down'[p] : down'[p][i].kind = "ack" =>
           \/ \E j \in DOMAIN down[p] : down'[p][i] = down[p][j]
           \/ \E j \in DOMAIN up[p] : down'[p][i].id = up[p][j].id,
         \A c \in Callers :
           \/ caller'[c].id = 0 /\ ~ Writing(c)'
           \/ /\ caller'[c].id = caller[c].id
              /\ Writing(c)' => Writing(c)
              /\ Sending(c)' => Sending(c) /\ ~ caller'[c].applied
  PROVE  Numbered'
<1>1. events \in Int /\ events' \in Int /\ \A c \in Callers : caller[c].id \in Int
  BY Constants DEF Typed, Calling
<1>2. \A p \in Phones : /\ \A i \in DOMAIN up[p] : up[p][i] \in Messages /\ up[p][i].id \in Int
                        /\ \A i \in DOMAIN down[p] : down[p][i].kind = "ack" => down[p][i].id \in Int
  <2> TAKE p \in Phones
  <2>1. up[p] \in Seq(Messages) /\ down[p] \in Seq(Frame) /\ Call \subseteq Int
    BY Constants DEF Typed
  <2>2. \A i \in DOMAIN up[p] : up[p][i] \in Messages
    BY <2>1, ElementOfSeq
  <2>3. \A i \in DOMAIN down[p] : down[p][i] \in Frame
    BY <2>1, ElementOfSeq
  <2> QED BY <2>1, <2>2, <2>3, MessageFields, FrameKinds
<1>3. ASSUME NEW p \in Phones
      PROVE  /\ \A i \in DOMAIN up'[p] : up'[p][i].id <= events'
             /\ \A i \in DOMAIN down'[p] : down'[p][i].kind = "ack" => down'[p][i].id <= events'
  <2>1. \A i \in DOMAIN up[p] : up[p][i].id <= events'
    BY <1>1, <1>2 DEF Numbered
  <2>2. \A i \in DOMAIN down[p] : down[p][i].kind = "ack" => down[p][i].id <= events'
    BY <1>1, <1>2 DEF Numbered
  <2> QED BY <2>1, <2>2
<1>4. ASSUME NEW c \in Callers PROVE caller'[c].id <= events'
  <2>1. caller[c].id <= events /\ 0 <= events' /\ events' \in Int
    BY Constants DEF Numbered, Typed
  <2> QED BY <1>1, <2>1
<1>5. ASSUME NEW c \in Callers, Writing(c)' PROVE Owns(c)'
  <2>1. /\ caller'[c].id = caller[c].id /\ Owns(c)
        /\ Sending(c)' => Sending(c) /\ ~ caller'[c].applied
    BY <1>5 DEF Numbered
  <2>2. \A d \in Callers \ {c} : caller'[d].id # caller'[c].id
    BY <2>1 DEF Owns
  <2>3. \A p \in Phones \ {ClientOf[c]} : Unknown(up'[p], down'[p], caller'[c].id)
    <3> TAKE p \in Phones \ {ClientOf[c]}
    <3>1. Unknown(up[p], down[p], caller[c].id)
      BY <2>1 DEF Owns
    <3>2. \A i \in DOMAIN up'[p] : up'[p][i].id # caller[c].id
      BY <3>1 DEF Unknown
    <3>3. \A i \in DOMAIN down'[p] : ~ Acks(down'[p][i], caller[c].id)
      BY <3>1 DEF Unknown, Acks
    <3> QED BY <2>1, <3>2, <3>3 DEF Unknown
  <2>4. Sending(c)' => \A p \in Phones : \A i \in DOMAIN up'[p] :
                         up'[p][i].op = "commit" => up'[p][i].id # caller'[c].id
    BY <2>1 DEF Owns
  <2> QED BY <2>1, <2>2, <2>3, <2>4 DEF Owns
<1> QED BY <1>3, <1>4, <1>5 DEF Numbered

LEMMA RepliedNumbers ==
  ASSUME Typed, NEW p \in Phones, up[p] # <<>>, up' = [up EXCEPT ![p] = Tail(@)],
         NEW a \in Seq(Notice), down' = [down EXCEPT ![p] = Reply(@, a, Head(up[p]).id)]
  PROVE  /\ \A q \in Phones : \A i \in DOMAIN up'[q] : \E j \in DOMAIN up[q] : up'[q][i] = up[q][j]
         /\ \A q \in Phones : \A i \in DOMAIN down'[q] : down'[q][i].kind = "ack" =>
              \/ \E j \in DOMAIN down[q] : down'[q][i] = down[q][j]
              \/ \E j \in DOMAIN up[q] : down'[q][i].id = up[q][j].id
<1>1. /\ up'[p] = Tail(up[p]) /\ down'[p] = Reply(down[p], a, Head(up[p]).id)
      /\ \A q \in Phones \ {p} : up'[q] = up[q] /\ down'[q] = down[q]
      /\ Queues(up[p], down[p]) /\ Head(up[p]) \in Messages
  BY QueuesTyped
<1>2. /\ 1 \in DOMAIN up[p] /\ Head(up[p]) = up[p][1]
      /\ \A i \in DOMAIN Tail(up[p]) : i + 1 \in DOMAIN up[p] /\ Tail(up[p])[i] = up[p][i + 1]
  BY <1>1, TailElements DEF Queues
<1> DEFINE e == Reply(down[p], a, Head(up[p]).id)
<1>3. /\ e[Len(e)] = Ack(Head(up[p]).id)
      /\ \A i \in DOMAIN down[p] : i \in DOMAIN e /\ e[i] = down[p][i]
      /\ \A i \in DOMAIN e : i = Len(e) \/ i \in DOMAIN down[p] \/ \E k \in DOMAIN a : e[i] = a[k]
  BY <1>1, MessageFields, ReplyElements DEF Queues
<1> HIDE DEF e
<1>4. \A k \in DOMAIN a : a[k].kind # "ack"
  BY NoticeKinds, ElementOfSeq
<1>5. \A i \in DOMAIN e : e[i].kind = "ack" =>
        \/ \E j \in DOMAIN down[p] : e[i] = down[p][j]
        \/ \E j \in DOMAIN up[p] : e[i].id = up[p][j].id
  BY <1>2, <1>3, <1>4 DEF Ack
<1>6. \A i \in DOMAIN up'[p] : \E j \in DOMAIN up[p] : up'[p][i] = up[p][j]
  BY <1>1, <1>2
<1>7. down'[p] = e
  BY <1>1 DEF e
<1> QED BY <1>1, <1>5, <1>6, <1>7

LEMMA HandleNumbered ==
  ASSUME Typed, Typed', Numbered, NEW p \in Phones, Handle(p) PROVE Numbered'
<1>1. /\ up[p] # <<>> /\ up' = [up EXCEPT ![p] = Tail(@)] /\ events <= events'
      /\ \E a \in Seq(Notice) : down' = [down EXCEPT ![p] = Reply(@, a, Head(up[p]).id)]
  <2>1. /\ up[p] # <<>> /\ up' = [up EXCEPT ![p] = Tail(@)]
        /\ \E frames \in Seq(Notice) : Respond(p, frames)
    <3>1. CASE HandleRead(p)
      BY <3>1, ReadFrames DEF HandleRead, Takes
    <3>2. CASE HandleBegin(p)
      BY <3>2, RefusalTyped DEF HandleBegin, Takes
    <3>3. CASE HandleChunk(p)
      BY <3>3, RefusalTyped, HandleChunkCases
    <3>4. CASE HandleCommit(p)
      <4>1. \A ok \in BOOLEAN : <<Result(ok)>> \in Seq(Notice)
        BY DEF Result, Notice
      <4> QED BY <3>4, <4>1, HandleCommitCases
    <3> QED BY <3>1, <3>2, <3>3, <3>4 DEF Handle
  <2> QED BY <2>1, Responds
<1>2. /\ \A q \in Phones : \A i \in DOMAIN up'[q] : \E j \in DOMAIN up[q] : up'[q][i] = up[q][j]
      /\ \A q \in Phones : \A i \in DOMAIN down'[q] : down'[q][i].kind = "ack" =>
           \/ \E j \in DOMAIN down[q] : down'[q][i] = down[q][j]
           \/ \E j \in DOMAIN up[q] : down'[q][i].id = up[q][j].id
  BY <1>1, RepliedNumbers
<1>3. ASSUME NEW c \in Callers
      PROVE  /\ caller'[c].id = caller[c].id
             /\ Writing(c)' => Writing(c)
             /\ Sending(c)' => Sending(c) /\ ~ caller'[c].applied
  <2>0. Sending(c) => ~ caller[c].applied
    BY DEF Numbered, Owns, Sending, Writing
  <2>1. CASE UNCHANGED caller
    BY <2>0, <2>1 DEF Writing, Sending
  <2>2. CASE HandleCommit(p) /\ ~ UNCHANGED caller
    <3>1. PICK valid \in BOOLEAN : Informed(valid, Head(up[p]).id)
      BY <2>2, HandleCommitCases
    <3>2. config' \in Seq(Cell)
      BY DEF Typed
    <3>3. /\ caller'[c].at = caller[c].at /\ caller'[c].id = caller[c].id
          /\ caller[c].at # "read" =>
               caller'[c].applied = (caller[c].applied \/ (valid /\ caller[c].id = Head(up[p]).id))
      BY <3>1, <3>2, CommitCallers
    <3>4. Sending(c) => caller[c].id # Head(up[p]).id
      <4>1. 1 \in DOMAIN up[p] /\ up[p][1].op = "commit" /\ Head(up[p]) = up[p][1]
        BY <2>2, HandleCommitCases, TailElements DEF Typed
      <4> QED BY <4>1 DEF Numbered, Owns, Sending, Writing
    <3> QED BY <2>0, <3>3, <3>4 DEF Writing, Sending
  <2>3. UNCHANGED caller \/ HandleCommit(p)
    BY HandleChunkCases DEF Handle, HandleRead, HandleBegin
  <2> QED BY <2>1, <2>2, <2>3
<1> QED BY <1>1, <1>2, <1>3, NumbersKeep

\* The client takes a frame of p.
LEMMA TakenNumbers ==
  ASSUME Typed, NEW p \in Phones, down[p] # <<>>,
         down'[p] = Tail(down[p]), \A q \in Phones \ {p} : down'[q] = down[q]
  PROVE  \A q \in Phones : \A i \in DOMAIN down'[q] : \E j \in DOMAIN down[q] : down'[q][i] = down[q][j]
<1>1. \A i \in DOMAIN Tail(down[p]) : i + 1 \in DOMAIN down[p] /\ Tail(down[p])[i] = down[p][i + 1]
  BY TailElements DEF Typed
<1> QED BY <1>1

\* What a client sends next is under a number of its own.
LEMMA SentNumbered ==
  ASSUME Typed, Typed', Numbered, NEW p \in Phones, NEW c \in Callers, NEW m \in Messages,
         Writer(c, p), Gets(p, "ack"), Send(p, m), m.id = caller[c].id, events' = events,
         \A d \in Callers \ {c} : caller'[d] = caller[d],
         caller'[c].id = caller[c].id, caller'[c].applied = caller[c].applied,
         Sending(c)' => m.op # "commit"
  PROVE  Numbered' /\ ClientOf[c] = p
<1>1. /\ down[p] # <<>> /\ Head(down[p]).kind = "ack" /\ Head(down[p]) \in Frame
      /\ down'[p] = Tail(down[p]) /\ \A q \in Phones \ {p} : down'[q] = down[q]
  BY GetsTyped
<1>2. /\ up'[p] = Append(up[p], m) /\ \A q \in Phones \ {p} : up'[q] = up[q]
  BY SendTyped
<1>3. /\ Sending(c) /\ Writing(c) /\ Owns(c) /\ caller[c].id = Head(down[p]).id
      /\ caller[c].id <= events
  BY DEF Writer, Sending, Writing, Numbered
<1>4. 1 \in DOMAIN down[p] /\ Head(down[p]) = down[p][1]
  BY <1>1, TailElements DEF Typed
<1>5. ClientOf[c] = p
  BY <1>1, <1>3, <1>4 DEF Owns, Unknown, Acks
<1>6. \A i \in DOMAIN up'[p] : up'[p][i] = m \/ \E j \in DOMAIN up[p] : up'[p][i] = up[p][j]
  <2>1. up[p] \in Seq(Messages)
    BY DEF Typed
  <2>2. LET e == Append(up[p], m)
        IN  /\ e[Len(e)] = m /\ \A i \in DOMAIN e : i = Len(e) \/ i \in DOMAIN up[p]
            /\ \A i \in DOMAIN up[p] : e[i] = up[p][i]
    BY <2>1, AppendElements
  <2> QED BY <1>2, <2>2
<1>7. \A q \in Phones : \A i \in DOMAIN down'[q] : \E j \in DOMAIN down[q] : down'[q][i] = down[q][j]
  BY <1>1, TakenNumbers
<1>8. ASSUME NEW q \in Phones
      PROVE  /\ \A i \in DOMAIN up'[q] : up'[q][i].id <= events'
             /\ \A i \in DOMAIN down'[q] : down'[q][i].kind = "ack" => down'[q][i].id <= events'
  <2>1. \A i \in DOMAIN up'[q] : up'[q][i].id <= events'
    BY <1>2, <1>3, <1>6 DEF Numbered
  <2>2. \A i \in DOMAIN down'[q] : down'[q][i].kind = "ack" => down'[q][i].id <= events'
    BY <1>7 DEF Numbered
  <2> QED BY <2>1, <2>2
<1>9. ASSUME NEW e \in Callers, Writing(e)' PROVE Owns(e)'
  <2>1. Owns(e) /\ caller'[e].id = caller[e].id
    BY <1>3, <1>9 DEF Writing, Numbered
  <2>2. \A d \in Callers \ {e} : caller'[d].id # caller'[e].id
    BY <2>1 DEF Owns
  <2>3. \A q \in Phones \ {ClientOf[e]} : Unknown(up'[q], down'[q], caller'[e].id)
    <3> TAKE q \in Phones \ {ClientOf[e]}
    <3>1. Unknown(up[q], down[q], caller[e].id)
      BY <2>1 DEF Owns
    <3>2. \A i \in DOMAIN down'[q] : ~ Acks(down'[q][i], caller[e].id)
      BY <1>7, <3>1 DEF Unknown
    <3>3. \A i \in DOMAIN up'[q] : up'[q][i].id # caller[e].id
      <4>1. CASE q # p
        BY <1>2, <3>1, <4>1 DEF Unknown
      <4>2. CASE q = p
        <5>1. e # c
          BY <1>5, <4>2
        <5>2. m.id # caller[e].id
          BY <2>1, <5>1 DEF Owns
        <5> QED BY <1>6, <3>1, <4>2, <5>2 DEF Unknown
      <4> QED BY <4>1, <4>2
    <3> QED BY <2>1, <3>2, <3>3 DEF Unknown
  <2>4. ASSUME Sending(e)'
        PROVE  /\ ~ caller'[e].applied
               /\ \A q \in Phones : \A i \in DOMAIN up'[q] :
                    up'[q][i].op = "commit" => up'[q][i].id # caller'[e].id
    <3>1. Sending(e)
      BY <1>3, <2>4 DEF Sending
    <3>2. /\ ~ caller[e].applied
          /\ \A q \in Phones : \A i \in DOMAIN up[q] :
               up[q][i].op = "commit" => up[q][i].id # caller[e].id
      BY <2>1, <3>1 DEF Owns
    <3>3. m.op = "commit" => m.id # caller[e].id
      <4>1. CASE e = c
        BY <2>4, <4>1
      <4>2. CASE e # c
        BY <2>1, <4>2 DEF Owns
      <4> QED BY <4>1, <4>2
    <3>4. \A q \in Phones : \A i \in DOMAIN up'[q] :
            up'[q][i].op = "commit" => up'[q][i].id # caller'[e].id
      BY <1>2, <1>6, <2>1, <3>2, <3>3
    <3> QED BY <3>2, <3>4
  <2>5. caller'[e].id # 0
    BY <2>1 DEF Owns
  <2> QED BY <2>2, <2>3, <2>4, <2>5 DEF Owns
<1>10. \A d \in Callers : caller'[d].id <= events'
  BY DEF Numbered
<1> QED BY <1>5, <1>8, <1>9, <1>10 DEF Numbered

LEMMA TakeAckNumbered ==
  ASSUME Typed, Typed', Numbered, NEW p \in Phones, TakeAck(p) PROVE Numbered'
<1>1. Gets(p, "ack") /\ events' = events
  BY TakeAckCases
<1>2. CASE Ignores(p)
  <2>1. /\ down[p] # <<>> /\ down'[p] = Tail(down[p])
        /\ \A q \in Phones \ {p} : down'[q] = down[q]
    BY <1>1, GetsTyped
  <2>2. \A q \in Phones : \A i \in DOMAIN down'[q] : \E j \in DOMAIN down[q] : down'[q][i] = down[q][j]
    BY <2>1, TakenNumbers
  <2>3. UNCHANGED <<up, caller>>
    BY <1>2 DEF Ignores
  <2>4. events <= events'
    BY <1>1, Constants DEF Typed
  <2>5. \A c \in Callers : Sending(c) => ~ caller[c].applied
    BY DEF Numbered, Owns, Sending, Writing
  <2>6. \A c \in Callers : /\ Writing(c)' => Writing(c)
                           /\ Sending(c)' => Sending(c) /\ ~ caller'[c].applied
    BY <2>3, <2>5 DEF Writing, Sending
  <2> QED BY <2>2, <2>3, <2>4, <2>6, NumbersKeep
<1>3. ASSUME NEW c \in Callers, Continues(c, p) PROVE Numbered'
  <2> DEFINE m == Message("chunk", caller[c].id, caller[c].next, caller[c].size)
  <2>1. /\ m \in Messages /\ Send(p, m) /\ \A d \in Callers \ {c} : caller'[d] = caller[d]
        /\ caller'[c].id = caller[c].id /\ caller'[c].applied = caller[c].applied
    BY <1>3, ContinuesParts
  <2>2. m.id = caller[c].id /\ m.op # "commit"
    BY DEF Message
  <2> HIDE DEF m
  <2> QED BY <1>1, <1>3, <2>1, <2>2, SentNumbered DEF Continues
<1>4. ASSUME NEW c \in Callers, Concludes(c, p) PROVE Numbered'
  <2> DEFINE m == Message("commit", caller[c].id, 0, 0)
  <2>1. /\ m \in Messages /\ Send(p, m) /\ \A d \in Callers \ {c} : caller'[d] = caller[d]
        /\ caller'[c].id = caller[c].id /\ caller'[c].applied = caller[c].applied
        /\ caller'[c].at = "commit"
    BY <1>4, ConcludesParts
  <2>2. m.id = caller[c].id /\ ~ Sending(c)'
    BY <2>1 DEF Message, Sending
  <2> HIDE DEF m
  <2> QED BY <1>1, <1>4, <2>1, <2>2, SentNumbered DEF Concludes
<1> QED BY <1>2, <1>3, <1>4, TakeAckCases

\* The client drops or uses what was notified, or a call ends.
LEMMA TakenNumbered ==
  ASSUME Typed, Typed', Numbered, NEW p \in Phones, Unexpected(p) \/ TakeChunk(p) \/ TakeReply(p)
  PROVE  Numbered'
<1>1. /\ Gets(p, "chunk") \/ Gets(p, "result")
      /\ up' = up /\ events' = events
  BY TakeChunkCases, TakeReplyParts DEF Unexpected
<1>2. /\ down[p] # <<>> /\ down'[p] = Tail(down[p])
      /\ \A q \in Phones \ {p} : down'[q] = down[q]
  BY <1>1, GetsTyped
<1>3. \A q \in Phones : \A i \in DOMAIN down'[q] : \E j \in DOMAIN down[q] : down'[q][i] = down[q][j]
  BY <1>2, TakenNumbers
<1>4. events <= events'
  BY <1>1, Constants DEF Typed
<1>5. ASSUME NEW c \in Callers
      PROVE  \/ caller'[c].id = 0 /\ ~ Writing(c)'
             \/ /\ caller'[c].id = caller[c].id
                /\ Writing(c)' => Writing(c)
                /\ Sending(c)' => Sending(c) /\ ~ caller'[c].applied
  <2>1. Sending(c) => ~ caller[c].applied
    BY DEF Numbered, Owns, Sending, Writing
  <2>2. CASE caller'[c] = caller[c]
    BY <2>1, <2>2 DEF Writing, Sending
  <2>3. CASE caller'[c] = NoCall
    BY <2>3 DEF NoCall, Writing
  <2>4. CASE TakeChunk(p) /\ c = pending[p] /\ caller'[c] # NoCall
    <3> DEFINE f == Head(down[p])
    <3>1. /\ caller[c].at = "read"
          /\ \/ caller' = [caller EXCEPT ![c].chunks = With(c, f)]
             \/ caller' = [caller EXCEPT ![c].at = "hung"]
             \/ Ends(c)
      BY <2>4, TakeChunkCases
    <3>2. caller[c] \in Calling /\ caller'[c] \in Calling /\ caller \in [Callers -> Calling]
      BY DEF Typed
    <3>3. ~ Ends(c)
      BY <2>4, EndsTyped
    <3>4. caller'[c].id = caller[c].id /\ caller'[c].at \in {"read", "hung"}
      BY <3>1, <3>2, <3>3 DEF Calling
    <3> QED BY <3>4 DEF Writing, Sending
  <2>5. caller'[c] = caller[c] \/ caller'[c] = NoCall \/ (TakeChunk(p) /\ c = pending[p])
    <3>1. CASE Unexpected(p)
      BY <3>1 DEF Unexpected
    <3>2. CASE TakeChunk(p)
      BY <3>2, TakeChunkCases, EndsTyped DEF Typed
    <3>3. CASE TakeReply(p)
      BY <3>3, TakeReplyParts, EndsTyped
    <3> QED BY <3>1, <3>2, <3>3
  <2> QED BY <2>2, <2>3, <2>4, <2>5
<1> QED BY <1>1, <1>3, <1>4, <1>5, NumbersKeep

LEMMA TimeoutNumbered ==
  ASSUME Typed, Typed', Numbered, NEW d \in Callers, Timeout(d) PROVE Numbered'
<1>1. Ends(d) /\ UNCHANGED <<up, down, events>>
  BY DEF Timeout, wire
<1>2. events <= events'
  BY <1>1, Constants DEF Typed
<1>3. ASSUME NEW c \in Callers
      PROVE  \/ caller'[c].id = 0 /\ ~ Writing(c)'
             \/ /\ caller'[c].id = caller[c].id
                /\ Writing(c)' => Writing(c)
                /\ Sending(c)' => Sending(c) /\ ~ caller'[c].applied
  <2>1. Sending(c) => ~ caller[c].applied
    BY DEF Numbered, Owns, Sending, Writing
  <2>2. caller'[c] = caller[c] \/ caller'[c] = NoCall
    BY <1>1, EndsTyped
  <2> QED BY <2>1, <2>2 DEF NoCall, Writing, Sending
<1> QED BY <1>1, <1>2, <1>3, NumbersKeep

LEMMA LinkLostNumbered ==
  ASSUME Typed, Typed', Numbered, NEW p \in Phones, LinkLost(p) PROVE Numbered'
<1>1. /\ events' = events + 1 /\ events \in Int
      /\ up'[p] = <<>> /\ down'[p] = <<>>
      /\ \A q \in Phones \ {p} : up'[q] = up[q] /\ down'[q] = down[q]
  BY LinkLostParts, Constants DEF Typed
<1>2. events <= events'
  BY <1>1
<1>3. ASSUME NEW c \in Callers
      PROVE  \/ caller'[c].id = 0 /\ ~ Writing(c)'
             \/ /\ caller'[c].id = caller[c].id
                /\ Writing(c)' => Writing(c)
                /\ Sending(c)' => Sending(c) /\ ~ caller'[c].applied
  <2>1. Sending(c) => ~ caller[c].applied
    BY DEF Numbered, Owns, Sending, Writing
  <2>2. \/ caller'[c] = caller[c] \/ caller'[c] = NoCall
        \/ caller'[c] = [NoCall EXCEPT !.at = "orphan"]
    BY LinkLostParts
  <2> QED BY <2>1, <2>2 DEF NoCall, Writing, Sending
<1>4. DOMAIN up'[p] = {} /\ DOMAIN down'[p] = {}
  BY <1>1
<1> QED BY <1>1, <1>2, <1>3, <1>4, NumbersKeep

\* A call that begins has a number of its own.
LEMMA BegunNumbered ==
  ASSUME Typed, Typed', Numbered, NEW c \in Callers, NEW m \in Messages,
         Send(ClientOf[c], m), m.id = events', m.op # "commit", events' = events + 1,
         down' = down, ~ Writing(c), \A d \in Callers \ {c} : caller'[d] = caller[d],
         caller'[c].id = events', ~ caller'[c].applied
  PROVE  Numbered'
<1> DEFINE p == ClientOf[c]
<1>1. /\ up'[p] = Append(up[p], m) /\ \A q \in Phones \ {p} : up'[q] = up[q]
      /\ p \in Phones
  BY Constants, SendTyped
<1>2. \A i \in DOMAIN up'[p] : up'[p][i] = m \/ \E j \in DOMAIN up[p] : up'[p][i] = up[p][j]
  <2>1. up[p] \in Seq(Messages)
    BY <1>1 DEF Typed
  <2>2. LET e == Append(up[p], m)
        IN  /\ e[Len(e)] = m /\ \A i \in DOMAIN e : i = Len(e) \/ i \in DOMAIN up[p]
            /\ \A i \in DOMAIN up[p] : e[i] = up[p][i]
    BY <2>1, AppendElements
  <2> QED BY <1>1, <2>2
<1>3. events \in Int /\ events' \in Int /\ 0 <= events /\ \A d \in Callers : caller[d].id \in Int
  BY Constants DEF Typed, Calling
<1>4. \A q \in Phones : /\ \A i \in DOMAIN up[q] : up[q][i].id \in Int
                        /\ \A i \in DOMAIN down[q] : down[q][i].kind = "ack" => down[q][i].id \in Int
  <2> TAKE q \in Phones
  <2>1. up[q] \in Seq(Messages) /\ down[q] \in Seq(Frame) /\ Call \subseteq Int
    BY Constants DEF Typed
  <2>2. \A i \in DOMAIN up[q] : up[q][i] \in Messages
    BY <2>1, ElementOfSeq
  <2>3. \A i \in DOMAIN down[q] : down[q][i] \in Frame
    BY <2>1, ElementOfSeq
  <2> QED BY <2>1, <2>2, <2>3, MessageFields, FrameKinds
\* The number is new.
<1>5. /\ \A q \in Phones : \A i \in DOMAIN up[q] : up[q][i].id # events' /\ up[q][i].id <= events'
      /\ \A q \in Phones : \A i \in DOMAIN down[q] : down[q][i].kind = "ack" =>
           down[q][i].id # events' /\ down[q][i].id <= events'
      /\ \A d \in Callers : caller[d].id # events' /\ caller[d].id <= events'
  <2>1. \A n \in Int : n <= events => n # events' /\ n <= events'
    BY <1>3
  <2> QED BY <1>3, <1>4, <2>1 DEF Numbered
<1>6. ASSUME NEW q \in Phones
      PROVE  /\ \A i \in DOMAIN up'[q] : up'[q][i].id <= events'
             /\ \A i \in DOMAIN down'[q] : down'[q][i].kind = "ack" => down'[q][i].id <= events'
  <2>1. \A i \in DOMAIN up'[q] : up'[q][i] = m \/ \E j \in DOMAIN up[q] : up'[q][i] = up[q][j]
    BY <1>1, <1>2
  <2>2. events' <= events'
    BY <1>3
  <2>3. \A i \in DOMAIN up'[q] : up'[q][i].id <= events'
    BY <1>5, <2>1, <2>2
  <2> QED BY <1>5, <2>3
<1>7. \A d \in Callers : caller'[d].id <= events'
  BY <1>3, <1>5
<1>8. Owns(c)'
  <2>1. events' # 0
    BY <1>3
  <2>2. \A d \in Callers \ {c} : caller'[d].id # caller'[c].id
    BY <1>5
  <2>3. \A q \in Phones \ {p} : Unknown(up'[q], down'[q], caller'[c].id)
    BY <1>1, <1>5 DEF Unknown, Acks
  <2>4. \A q \in Phones : \A i \in DOMAIN up'[q] :
          up'[q][i].op = "commit" => up'[q][i].id # caller'[c].id
    <3> TAKE q \in Phones
    <3>1. \A i \in DOMAIN up'[q] : up'[q][i] = m \/ \E j \in DOMAIN up[q] : up'[q][i] = up[q][j]
      BY <1>1, <1>2
    <3> QED BY <1>5, <3>1
  <2> QED BY <2>1, <2>2, <2>3, <2>4 DEF Owns
<1>9. ASSUME NEW e \in Callers \ {c}, Writing(e)' PROVE Owns(e)'
  <2>1. Owns(e) /\ caller'[e] = caller[e] /\ m.id # caller[e].id
    BY <1>5, <1>9 DEF Writing, Numbered
  <2>2. \A d \in Callers \ {e} : caller'[d].id # caller'[e].id
    BY <1>5, <2>1 DEF Owns
  <2>3. \A q \in Phones \ {ClientOf[e]} : Unknown(up'[q], down'[q], caller'[e].id)
    BY <1>1, <1>2, <2>1 DEF Owns, Unknown
  <2>4. Sending(e)' => /\ ~ caller'[e].applied
                       /\ \A q \in Phones : \A i \in DOMAIN up'[q] :
                            up'[q][i].op = "commit" => up'[q][i].id # caller'[e].id
    <3>1. \A q \in Phones : \A i \in DOMAIN up'[q] :
            up'[q][i] = m \/ \E j \in DOMAIN up[q] : up'[q][i] = up[q][j]
      BY <1>1, <1>2
    <3> QED BY <2>1, <3>1 DEF Owns, Sending
  <2> QED BY <2>1, <2>2, <2>3, <2>4 DEF Owns
<1> QED BY <1>6, <1>7, <1>8, <1>9 DEF Numbered

LEMMA StartNumbered ==
  ASSUME Typed, Typed', Numbered, NEW c \in Callers, StartRead(c) \/ StartWrite(c)
  PROVE  Numbered'
<1>1. CASE StartRead(c)
  <2> DEFINE m == Message("read", events', 0, 0)
  <2>1. /\ m \in Messages /\ Send(ClientOf[c], m) /\ events' = events + 1 /\ caller[c].at = "idle"
        /\ down' = down /\ \A d \in Callers \ {c} : caller'[d] = caller[d]
        /\ caller'[c].id = events' /\ ~ caller'[c].applied
    BY <1>1, StartReadParts
  <2>2. m.id = events' /\ m.op # "commit" /\ ~ Writing(c)
    BY <2>1 DEF Message, Writing
  <2> HIDE DEF m
  <2> QED BY <2>1, <2>2, BegunNumbered
<1>2. CASE StartWrite(c)
  <2>1. PICK n \in Sizes :
          LET m == Message("begin", events', 0, n)
          IN  /\ m \in Messages /\ Send(ClientOf[c], m) /\ events' = events + 1 /\ caller[c].at = "idle"
              /\ down' = down /\ \A d \in Callers \ {c} : caller'[d] = caller[d]
              /\ caller'[c].id = events' /\ ~ caller'[c].applied
    BY <1>2, StartWriteParts
  <2> DEFINE m == Message("begin", events', 0, n)
  <2>2. m.id = events' /\ m.op # "commit" /\ ~ Writing(c)
    BY <2>1 DEF Message, Writing
  <2>3. m \in Messages /\ Send(ClientOf[c], m)
    BY <2>1
  <2> HIDE DEF m
  <2> QED BY <2>1, <2>2, <2>3, BegunNumbered
<1> QED BY <1>1, <1>2

-----------------------------------------------------------------------------
(* Order                                                                   *)

LEMMA InTurnSame ==
  ASSUME NEW l, NEW k, NEW u, NEW d, NEW s, InTurn(l, u, d, s),
         k.id = l.id, k.size = l.size, k.next = l.next
  PROVE  InTurn(k, u, d, s)
<1>1. CASE BeginUp(l, u, d)
  BY <1>1 DEF BeginUp, InTurn
<1>2. CASE ChunkUp(l, u, d, s)
  BY <1>2 DEF ChunkUp, InTurn
<1>3. CASE AckDown(l, u, d, s)
  BY <1>3 DEF AckDown, InTurn
<1> QED BY <1>1, <1>2, <1>3 DEF InTurn

\* What the writer has sent, when the board comes to it.
LEMMA InTurnHead ==
  ASSUME NEW l, NEW u, NEW d, NEW s, Queues(u, d), u # <<>>, InTurn(l, u, d, s),
         Head(u).op \in {"begin", "chunk"}
  PROVE  /\ Head(u).id = l.id /\ Head(u).size = l.size
         /\ Head(u).op = "chunk" => /\ Head(u).off = l.next - 1
                                    /\ l.next \in 2 .. l.size + 1
                                    /\ Filled(s, l.id, l.size, l.next - 2)
<1>1. 1 \in DOMAIN u /\ Head(u) = u[1]
  BY TailElements DEF Queues
<1>2. CASE BeginUp(l, u, d)
  <2>1. PICK i \in DOMAIN u :
          /\ u[i] = Message("begin", l.id, 0, l.size)
          /\ \A j \in DOMAIN u \ {i} : u[j].id # l.id /\ u[j].op \in {"read", "commit"}
    BY <1>2 DEF BeginUp
  <2>2. i = 1
    BY <1>1, <2>1
  <2> QED BY <1>1, <2>1, <2>2 DEF Message
<1>3. CASE ChunkUp(l, u, d, s)
  <2>1. PICK i \in DOMAIN u :
          /\ u[i] = Message("chunk", l.id, l.next - 1, l.size)
          /\ \A j \in DOMAIN u \ {i} : u[j].id # l.id /\ u[j].op = "read"
    BY <1>3 DEF ChunkUp
  <2>2. i = 1
    BY <1>1, <2>1
  <2> QED BY <1>1, <1>3, <2>1, <2>2 DEF Message, ChunkUp
<1>4. CASE AckDown(l, u, d, s)
  BY <1>1, <1>4 DEF AckDown
<1> QED BY <1>2, <1>3, <1>4 DEF InTurn

\* A call goes on with what it was doing.
Works(c) ==
  /\ Sending(c)' <=> Sending(c)
  /\ Sending(c) => /\ caller'[c].id = caller[c].id /\ caller'[c].size = caller[c].size
                   /\ caller'[c].next = caller[c].next

LEMMA OrderedElsewhere ==
  ASSUME NEW q \in Phones, OrderedAt(q), up'[q] = up[q], down'[q] = down[q], staging'[q] = staging[q],
         \A c \in Callers : ClientOf[c] = q => Works(c)
  PROVE  OrderedAt(q)'
<1>1. Intact(staging'[q])
  BY DEF OrderedAt
<1>2. (\A c \in Callers : ClientOf[c] = q => ~ Sending(c)') => NoWrites(up'[q])
  BY DEF OrderedAt, Works
<1>3. ASSUME NEW c \in Callers, ClientOf[c] = q, Sending(c)'
      PROVE  /\ \A d \in Callers : ClientOf[d] = q /\ Sending(d)' => d = c
             /\ InTurn(caller'[c], up'[q], down'[q], staging'[q])
  <2>1. /\ Sending(c) /\ InTurn(caller[c], up[q], down[q], staging[q])
        /\ \A d \in Callers : ClientOf[d] = q /\ Sending(d) => d = c
        /\ caller'[c].id = caller[c].id /\ caller'[c].size = caller[c].size
        /\ caller'[c].next = caller[c].next
    BY <1>3 DEF OrderedAt, Works
  <2>2. InTurn(caller'[c], up[q], down[q], staging[q])
    BY <2>1, InTurnSame
  <2> QED BY <1>3, <2>1, <2>2 DEF Works
<1> QED BY <1>1, <1>2, <1>3 DEF OrderedAt

LEMMA SameWorks == ASSUME NEW c, caller'[c] = caller[c] PROVE Works(c)
BY DEF Works, Sending

\* The board handles a message of p that is not part of a write.
LEMMA OrderedBeside ==
  ASSUME Typed, NEW p \in Phones, OrderedAt(p), up[p] # <<>>, Head(up[p]).op \in {"read", "commit"},
         up' = [up EXCEPT ![p] = Tail(@)],
         NEW a \in Seq(Notice), down' = [down EXCEPT ![p] = Reply(@, a, Head(up[p]).id)],
         Head(up[p]).op = "read" => staging'[p] = staging[p], Intact(staging'[p]),
         \A c \in Callers : ClientOf[c] = p => Works(c)
  PROVE  OrderedAt(p)'
<1>1. /\ up'[p] = Tail(up[p]) /\ down'[p] = Reply(down[p], a, Head(up[p]).id)
      /\ Queues(up[p], down[p])
  BY QueuesTyped
<1>2. (\A c \in Callers : ClientOf[c] = p => ~ Sending(c)') => NoWrites(up'[p])
  <2>1. \A i \in DOMAIN Tail(up[p]) : i + 1 \in DOMAIN up[p] /\ Tail(up[p])[i] = up[p][i + 1]
    BY <1>1, TailElements DEF Queues
  <2> QED BY <1>1, <2>1 DEF OrderedAt, Works, NoWrites
<1>3. ASSUME NEW c \in Callers, ClientOf[c] = p, Sending(c)'
      PROVE  /\ \A d \in Callers : ClientOf[d] = p /\ Sending(d)' => d = c
             /\ InTurn(caller'[c], up'[p], down'[p], staging'[p])
  <2>1. /\ Sending(c) /\ InTurn(caller[c], up[p], down[p], staging[p])
        /\ \A d \in Callers : ClientOf[d] = p /\ Sending(d) => d = c
        /\ caller'[c].id = caller[c].id /\ caller'[c].size = caller[c].size
        /\ caller'[c].next = caller[c].next
    BY <1>3 DEF OrderedAt, Works
  <2>2. InTurn(caller[c], Tail(up[p]), Reply(down[p], a, Head(up[p]).id), staging'[p])
    BY <1>1, <2>1, InTurnBeside
  <2>3. InTurn(caller'[c], up'[p], down'[p], staging'[p])
    BY <1>1, <2>1, <2>2, InTurnSame
  <2> QED BY <1>3, <2>1, <2>3 DEF Works
<1> QED BY <1>2, <1>3 DEF OrderedAt

\* There is a writer when the board comes to a part of a write.
LEMMA WriterOf ==
  ASSUME Typed, NEW p \in Phones, OrderedAt(p), up[p] # <<>>, Head(up[p]).op \in {"begin", "chunk"}
  PROVE  \E c \in Callers :
           /\ ClientOf[c] = p /\ Sending(c) /\ InTurn(caller[c], up[p], down[p], staging[p])
           /\ \A d \in Callers : ClientOf[d] = p /\ Sending(d) => d = c
           /\ caller[c].size \in Sizes /\ caller[c].size \in Nat /\ caller[c].id \in Call
<1>1. 1 \in DOMAIN up[p] /\ Head(up[p]) = up[p][1]
  BY TailElements DEF Typed
<1>2. ~ NoWrites(up[p])
  BY <1>1 DEF NoWrites
<1>3. PICK c \in Callers : ClientOf[c] = p /\ Sending(c)
  BY <1>2 DEF OrderedAt
<1>4. caller[c].size \in Sizes /\ caller[c].id \in Call
  BY <1>3 DEF Typed, Sending, Calling
<1>5. caller[c].size \in Nat
  BY <1>4, Constants
<1> QED BY <1>3, <1>4, <1>5 DEF OrderedAt

\* The board handles a part of the write of p.
LEMMA OrderedHandled ==
  ASSUME Typed, NEW p \in Phones, OrderedAt(p), up[p] # <<>>,
         up' = [up EXCEPT ![p] = Tail(@)], caller' = caller,
         NEW a \in Seq(Notice), down' = [down EXCEPT ![p] = Reply(@, a, Head(up[p]).id)],
         NEW c \in Callers, ClientOf[c] = p, Sending(c), InTurn(caller[c], up[p], down[p], staging[p]),
         \A d \in Callers : ClientOf[d] = p /\ Sending(d) => d = c,
         caller[c].size \in Nat, Intact(staging'[p]),
         \/ /\ Head(up[p]).op = "begin"
            /\ Filled(staging'[p], caller[c].id, caller[c].size, 0)
         \/ /\ Head(up[p]).op = "chunk"
            /\ Filled(staging'[p], caller[c].id, caller[c].size, caller[c].next - 1)
  PROVE  OrderedAt(p)'
<1>1. /\ up'[p] = Tail(up[p]) /\ down'[p] = Reply(down[p], a, Head(up[p]).id)
      /\ Queues(up[p], down[p])
  BY QueuesTyped
<1>2. InTurn(caller[c], Tail(up[p]), Reply(down[p], a, Head(up[p]).id), staging'[p])
  BY <1>1, InTurnHandled
<1>3. \A d \in Callers : ClientOf[d] = p /\ Sending(d)' => d = c
  BY DEF Sending
<1>4. Sending(c)'
  BY DEF Sending
<1>5. InTurn(caller'[c], up'[p], down'[p], staging'[p])
  BY <1>1, <1>2
<1> QED BY <1>3, <1>4, <1>5 DEF OrderedAt

LEMMA HandleReadOrdered ==
  ASSUME Typed, Ordered, NEW p \in Phones, HandleRead(p) PROVE Ordered'
<1>1. /\ up[p] # <<>> /\ Head(up[p]).op = "read" /\ up' = [up EXCEPT ![p] = Tail(@)]
      /\ Respond(p, [i \in DOMAIN config |-> Chunk(i, config[i], Len(config))])
      /\ UNCHANGED <<config, staging, caller>>
  BY DEF HandleRead, Takes, board
<1>2. PICK a \in Seq(Notice) : down' = [down EXCEPT ![p] = Reply(@, a, Head(up[p]).id)]
  BY <1>1, ReadFrames, Responds
<1>3. \A q \in Phones \ {p} : up'[q] = up[q] /\ down'[q] = down[q]
  BY <1>1, <1>2, QueuesTyped
<1>4. \A c \in Callers : Works(c)
  BY <1>1, SameWorks
<1>5. OrderedAt(p)'
  BY <1>1, <1>2, <1>4, OrderedBeside DEF Ordered, OrderedAt
<1>6. \A q \in Phones \ {p} : OrderedAt(q)'
  BY <1>1, <1>3, <1>4, OrderedElsewhere DEF Ordered
<1> QED BY <1>1, <1>5, <1>6 DEF Ordered

LEMMA HandleBeginOrdered ==
  ASSUME Typed, Ordered, NEW p \in Phones, HandleBegin(p) PROVE Ordered'
<1> DEFINE s == [staging[p] EXCEPT !.total = Head(up[p]).size, !.got = 0, !.active = TRUE]
<1>1. /\ up[p] # <<>> /\ up' = [up EXCEPT ![p] = Tail(@)] /\ Respond(p, <<>>)
      /\ Head(up[p]).op = "begin" /\ staging' = [staging EXCEPT ![p] = s]
      /\ UNCHANGED <<config, caller>>
  BY DEF HandleBegin, Takes, StagingOf
<1>2. PICK a \in Seq(Notice) : down' = [down EXCEPT ![p] = Reply(@, a, Head(up[p]).id)]
  BY <1>1, RefusalTyped, Responds
<1>3. PICK c \in Callers :
           /\ ClientOf[c] = p /\ Sending(c) /\ InTurn(caller[c], up[p], down[p], staging[p])
           /\ \A d \in Callers : ClientOf[d] = p /\ Sending(d) => d = c
           /\ caller[c].size \in Nat /\ caller[c].id \in Call
  BY <1>1, WriterOf DEF Ordered
<1>4. /\ \A q \in Phones \ {p} : up'[q] = up[q] /\ down'[q] = down[q]
      /\ Queues(up[p], down[p])
  BY <1>1, <1>2, QueuesTyped
<1>5. Head(up[p]).size = caller[c].size
  BY <1>1, <1>3, <1>4, InTurnHead
<1>6. staging'[p] = s /\ staging[p] \in Stage /\ \A q \in Phones \ {p} : staging'[q] = staging[q]
  BY <1>1 DEF Typed
<1>7. s.active /\ s.total = caller[c].size /\ s.got = 0
  BY <1>5, <1>6 DEF Stage
<1> HIDE DEF s
<1>8. /\ Filled(staging'[p], caller[c].id, caller[c].size, 0)
      /\ Intact(staging'[p])
  BY <1>3, <1>6, <1>7 DEF Filled, Intact
<1>9. OrderedAt(p)'
  BY <1>1, <1>2, <1>3, <1>8, OrderedHandled DEF Ordered
<1>10. \A q \in Phones \ {p} : OrderedAt(q)'
  BY <1>1, <1>4, <1>6, SameWorks, OrderedElsewhere DEF Ordered
<1> QED BY <1>1, <1>9, <1>10 DEF Ordered

\* A chunk comes when it is awaited.
LEMMA ChunkAwaited ==
  ASSUME Typed, Ordered, NEW p \in Phones, HandleChunk(p)
  PROVE  /\ Stored(p) /\ Respond(p, <<>>)
         /\ \E c \in Callers :
              /\ ClientOf[c] = p /\ Sending(c) /\ InTurn(caller[c], up[p], down[p], staging[p])
              /\ \A d \in Callers : ClientOf[d] = p /\ Sending(d) => d = c
              /\ caller[c].size \in Nat /\ caller[c].id \in Call
              /\ Head(up[p]).id = caller[c].id /\ Head(up[p]).size = caller[c].size
              /\ Head(up[p]).off = caller[c].next - 1
              /\ caller[c].next \in 2 .. caller[c].size + 1
              /\ Filled(staging[p], caller[c].id, caller[c].size, caller[c].next - 2)
<1>1. up[p] # <<>> /\ Head(up[p]).op = "chunk"
  BY HandleChunkCases
<1>2. PICK c \in Callers :
           /\ ClientOf[c] = p /\ Sending(c) /\ InTurn(caller[c], up[p], down[p], staging[p])
           /\ \A d \in Callers : ClientOf[d] = p /\ Sending(d) => d = c
           /\ caller[c].size \in Nat /\ caller[c].id \in Call
  BY <1>1, WriterOf DEF Ordered
<1>3. Queues(up[p], down[p])
  BY DEF Typed, Queues
<1>4. /\ Head(up[p]).id = caller[c].id /\ Head(up[p]).size = caller[c].size
      /\ Head(up[p]).off = caller[c].next - 1
      /\ caller[c].next \in 2 .. caller[c].size + 1
      /\ Filled(staging[p], caller[c].id, caller[c].size, caller[c].next - 2)
  BY <1>1, <1>2, <1>3, InTurnHead
<1>5. staging[p].active /\ ~ (Head(up[p]).off > staging[p].total)
  <2>1. staging[p].active /\ staging[p].total = caller[c].size
    BY <1>4 DEF Filled
  <2> QED BY <1>2, <1>4, <2>1
<1> QED BY <1>2, <1>4, <1>5, HandleChunkCases

LEMMA HandleChunkOrdered ==
  ASSUME Typed, Ordered, NEW p \in Phones, HandleChunk(p) PROVE Ordered'
<1>1. /\ up[p] # <<>> /\ Head(up[p]).op = "chunk" /\ up' = [up EXCEPT ![p] = Tail(@)]
      /\ UNCHANGED <<config, caller>> /\ Stored(p) /\ Respond(p, <<>>)
  BY HandleChunkCases, ChunkAwaited
<1>2. PICK a \in Seq(Notice) : down' = [down EXCEPT ![p] = Reply(@, a, Head(up[p]).id)]
  BY <1>1, RefusalTyped, Responds
<1>3. PICK c \in Callers :
              /\ ClientOf[c] = p /\ Sending(c) /\ InTurn(caller[c], up[p], down[p], staging[p])
              /\ \A d \in Callers : ClientOf[d] = p /\ Sending(d) => d = c
              /\ caller[c].size \in Nat /\ caller[c].id \in Call
              /\ Head(up[p]).id = caller[c].id /\ Head(up[p]).size = caller[c].size
              /\ Head(up[p]).off = caller[c].next - 1
              /\ caller[c].next \in 2 .. caller[c].size + 1
              /\ Filled(staging[p], caller[c].id, caller[c].size, caller[c].next - 2)
  BY ChunkAwaited
<1>4. \A q \in Phones \ {p} : up'[q] = up[q] /\ down'[q] = down[q]
  BY <1>1, <1>2, QueuesTyped
<1> DEFINE k == caller[c].next - 1
           cell == [write |-> caller[c].id, size |-> caller[c].size]
<1>5. k \in Nat /\ caller[c].next - 2 = k - 1 /\ k > k - 1 /\ k \in 1 .. caller[c].size
  BY <1>3
<1>6. /\ staging[p] \in Stage /\ staging[p].active /\ staging[p].total = caller[c].size
      /\ staging[p].got = k - 1
      /\ \A i \in 1 .. k - 1 : staging[p].buf[i] = cell
  BY <1>3, <1>5 DEF Filled, Typed
<1>7. staging' = [staging EXCEPT ![p] = [staging[p] EXCEPT !.buf[k] = cell, !.got = k]]
  BY <1>1, <1>3, <1>5, <1>6 DEF Stored
<1>8. \A q \in Phones \ {p} : staging'[q] = staging[q]
  BY <1>7 DEF Typed
<1>9. k \in Offset
  <2>1. \A n \in Sizes : \A i \in 1 .. n : i \in Offset
    BY Constants
  <2>2. caller[c].size \in Sizes
    BY <1>3 DEF Typed, Sending
  <2> QED BY <1>5, <2>1, <2>2
<1>10. /\ Filled(staging'[p], caller[c].id, caller[c].size, caller[c].next - 1)
       /\ Intact(staging'[p])
  <2>1. staging'[p] = [staging[p] EXCEPT !.buf[k] = cell, !.got = k]
    BY <1>7 DEF Typed
  <2> HIDE DEF cell
  <2>2. /\ staging'[p].active /\ staging'[p].total = caller[c].size /\ staging'[p].got = k
        /\ staging'[p].buf = [staging[p].buf EXCEPT ![k] = cell]
    BY <1>6, <2>1 DEF Stage
  <2>3. \A i \in 1 .. k : staging'[p].buf[i] = cell
    <3> TAKE i \in 1 .. k
    <3>1. i \in Offset /\ (i = k \/ i \in 1 .. k - 1)
      BY <1>5, <1>9, Constants
    <3>2. DOMAIN staging[p].buf = Offset
      BY <1>6 DEF Stage
    <3> QED BY <1>6, <2>2, <3>1, <3>2
  <2>4. Filled(staging'[p], caller[c].id, caller[c].size, k)
    BY <2>2, <2>3 DEF Filled, cell
  <2>5. Filled(staging'[p], caller[c].id, staging'[p].total, staging'[p].got)
    BY <2>2, <2>4
  <2> QED BY <1>3, <2>4, <2>5 DEF Intact
<1>11. OrderedAt(p)'
  BY <1>1, <1>2, <1>3, <1>10, OrderedHandled DEF Ordered
<1>12. \A q \in Phones \ {p} : OrderedAt(q)'
  BY <1>1, <1>4, <1>8, SameWorks, OrderedElsewhere DEF Ordered
<1> QED BY <1>1, <1>11, <1>12 DEF Ordered

\* What is committed is the whole of one write.
LEMMA CommitsWhole ==
  ASSUME Typed, NEW p \in Phones, Intact(staging[p]), staging[p].active,
         staging[p].got = staging[p].total
  PROVE  Whole(SubSeq(staging[p].buf, 1, staging[p].total))
<1> DEFINE s == staging[p]
           n == s.total
           v == SubSeq(s.buf, 1, n)
<1>1. PICK id \in Call : Filled(s, id, n, n)
  BY DEF Intact
<1>2. n \in Nat /\ 1 <= n
  <2>1. n \in Sizes
    BY DEF Typed
  <2>2. \A k \in Sizes : k \in Nat /\ 1 <= k
    BY Constants
  <2> QED BY <2>1, <2>2
<1>3. \A i \in 1 .. n : s.buf[i] = [write |-> id, size |-> n]
  BY <1>1 DEF Filled
<1>4. v = Json(id, n)
  <2>1. v = [i \in 1 .. n |-> s.buf[i]]
    BY <1>2
  <2> HIDE DEF v, n
  <2> QED BY <1>3, <2>1 DEF Json
<1>5. v[1] = [write |-> id, size |-> n]
  <2> HIDE DEF v, n
  <2>1. 1 \in 1 .. n
    BY <1>2
  <2> QED BY <1>4, <2>1 DEF Json
<1> HIDE DEF v, n
<1>6. Whole(v)
  BY <1>4, <1>5 DEF Whole
<1> QED BY <1>6 DEF v, n

LEMMA HandleCommitOrdered ==
  ASSUME Typed, Typed', Ordered, NEW p \in Phones, HandleCommit(p) PROVE Ordered'
<1> DEFINE s == [staging[p] EXCEPT !.active = FALSE]
<1>1. /\ up[p] # <<>> /\ Head(up[p]).op = "commit" /\ up' = [up EXCEPT ![p] = Tail(@)]
      /\ staging' = [staging EXCEPT ![p] = s]
      /\ \E ok \in BOOLEAN : Respond(p, <<Result(ok)>>)
      /\ \/ UNCHANGED <<config, caller>>
         \/ /\ staging[p].active /\ staging[p].got = staging[p].total
            /\ \E valid \in BOOLEAN :
                 /\ config' = IF valid THEN SubSeq(staging[p].buf, 1, staging[p].total) ELSE config
                 /\ Informed(valid, Head(up[p]).id)
  BY HandleCommitCases
<1>2. PICK a \in Seq(Notice) : down' = [down EXCEPT ![p] = Reply(@, a, Head(up[p]).id)]
  <2>1. PICK ok \in BOOLEAN : Respond(p, <<Result(ok)>>)
    BY <1>1
  <2>2. <<Result(ok)>> \in Seq(Notice)
    BY DEF Result, Notice
  <2> QED BY <1>1, <2>1, <2>2, Responds
<1>3. \A q \in Phones \ {p} : up'[q] = up[q] /\ down'[q] = down[q] /\ staging'[q] = staging[q]
  BY <1>1, <1>2, QueuesTyped DEF Typed
<1>4. Intact(staging'[p])
  <2>1. staging'[p] = s /\ staging[p] \in Stage
    BY <1>1 DEF Typed
  <2>2. ~ staging'[p].active
    BY <2>1 DEF Stage
  <2> QED BY <2>2 DEF Intact
<1> HIDE DEF s
<1>5. \A c \in Callers : Works(c)
  <2>1. CASE UNCHANGED caller
    BY <2>1, SameWorks
  <2>2. ASSUME NEW valid \in BOOLEAN, Informed(valid, Head(up[p]).id)
        PROVE  \A c \in Callers : Works(c)
    <3>1. config' \in Seq(Cell)
      BY DEF Typed
    <3> QED BY <2>2, <3>1, CommitCallers DEF Works, Sending
  <2> QED BY <1>1, <2>1, <2>2
<1>6. Whole(config')
  BY <1>1, CommitsWhole DEF Ordered, OrderedAt
<1>7. OrderedAt(p)'
  BY <1>1, <1>2, <1>4, <1>5, OrderedBeside DEF Ordered
<1>8. \A q \in Phones \ {p} : OrderedAt(q)'
  BY <1>3, <1>5, OrderedElsewhere DEF Ordered
<1> QED BY <1>6, <1>7, <1>8 DEF Ordered

\* The client takes a frame of p that no writer waits for.
LEMMA OrderedTaken ==
  ASSUME Typed, Ordered, NEW p \in Phones, down[p] # <<>>,
         down'[p] = Tail(down[p]), \A q \in Phones \ {p} : down'[q] = down[q],
         UNCHANGED <<up, staging, config>>, \A c \in Callers : Works(c),
         \A c \in Callers : Sending(c) => ~ Acks(Head(down[p]), caller[c].id)
  PROVE  Ordered'
<1>1. ASSUME NEW c \in Callers, ClientOf[c] = p, Sending(c)'
      PROVE  /\ \A d \in Callers : ClientOf[d] = p /\ Sending(d)' => d = c
             /\ InTurn(caller'[c], up'[p], down'[p], staging'[p])
  <2>1. /\ Sending(c) /\ InTurn(caller[c], up[p], down[p], staging[p])
        /\ \A d \in Callers : ClientOf[d] = p /\ Sending(d) => d = c
        /\ caller'[c].id = caller[c].id /\ caller'[c].size = caller[c].size
        /\ caller'[c].next = caller[c].next
    BY <1>1 DEF Ordered, OrderedAt, Works
  <2>2. Queues(up[p], down[p]) /\ ~ Acks(Head(down[p]), caller[c].id)
    BY <2>1 DEF Typed, Queues
  <2>3. InTurn(caller[c], up[p], Tail(down[p]), staging[p])
    BY <2>1, <2>2, InTurnTaken
  <2>4. InTurn(caller'[c], up[p], Tail(down[p]), staging[p])
    BY <2>1, <2>3, InTurnSame
  <2> QED BY <1>1, <2>1, <2>4 DEF Works
<1>2. (\A c \in Callers : ClientOf[c] = p => ~ Sending(c)') => NoWrites(up'[p])
  BY DEF Ordered, OrderedAt, Works
<1>3. OrderedAt(p)'
  BY <1>1, <1>2 DEF Ordered, OrderedAt
<1>4. \A q \in Phones \ {p} : OrderedAt(q)'
  BY OrderedElsewhere DEF Ordered
<1> QED BY <1>3, <1>4 DEF Ordered

\* The writer has its acknowledgement, which was the only thing under way.
LEMMA WriterHolds ==
  ASSUME Typed, Ordered, NEW p \in Phones, NEW c \in Callers, ClientOf[c] = p, Writer(c, p),
         Gets(p, "ack")
  PROVE  /\ AckDown(caller[c], up[p], down[p], staging[p])
         /\ \A i \in DOMAIN Tail(down[p]) : ~ Acks(Tail(down[p])[i], caller[c].id)
         /\ \A d \in Callers : ClientOf[d] = p /\ Sending(d) => d = c
<1>1. /\ down[p] # <<>> /\ Acks(Head(down[p]), caller[c].id) /\ Queues(up[p], down[p])
  BY GetsTyped DEF Writer, Acks, Typed, Queues
<1>2. /\ InTurn(caller[c], up[p], down[p], staging[p])
      /\ \A d \in Callers : ClientOf[d] = p /\ Sending(d) => d = c
  BY DEF Writer, Sending, Ordered, OrderedAt
<1> QED BY <1>1, <1>2, InTurnSends

LEMMA ContinuesOrdered ==
  ASSUME Typed, Typed', Numbered, Ordered, NEW p \in Phones, NEW c \in Callers, ClientOf[c] = p,
         Gets(p, "ack"), Continues(c, p), UNCHANGED <<config, staging>>
  PROVE  Ordered'
<1> DEFINE l == caller[c]
           m == Message("chunk", l.id, l.next, l.size)
<1>1. /\ AckDown(l, up[p], down[p], staging[p])
      /\ \A i \in DOMAIN Tail(down[p]) : ~ Acks(Tail(down[p])[i], l.id)
      /\ \A d \in Callers : ClientOf[d] = p /\ Sending(d) => d = c
  BY WriterHolds DEF Continues
<1>2. /\ m \in Messages /\ Send(p, m) /\ \A d \in Callers \ {c} : caller'[d] = caller[d]
      /\ caller'[c].next = l.next + 1 /\ caller'[c].id = l.id /\ caller'[c].size = l.size
      /\ caller'[c].at = "send" /\ l.next \in 1 .. l.size
  BY ContinuesParts
<1>3. /\ up'[p] = Append(up[p], m) /\ \A q \in Phones \ {p} : up'[q] = up[q]
  BY <1>2, SendTyped
<1>4. down'[p] = Tail(down[p]) /\ \A q \in Phones \ {p} : down'[q] = down[q]
  BY GetsTyped
<1> DEFINE e == Append(up[p], m)
<1>5. /\ Len(e) \in DOMAIN e /\ e[Len(e)] = m
      /\ \A i \in DOMAIN e : i = Len(e) \/ i \in DOMAIN up[p]
      /\ \A i \in DOMAIN up[p] : e[i] = up[p][i]
  <2>1. up[p] \in Seq(Messages)
    BY DEF Typed
  <2> QED BY <1>2, <2>1, AppendElements
<1>6. l.size \in Nat
  BY <1>2, Constants DEF Typed, Continues, Writer, Calling
<1> HIDE DEF e
<1>7. InTurn(caller'[c], e, Tail(down[p]), staging[p])
  <2> DEFINE k == caller'[c]
  <2>1. k.next - 1 = l.next /\ k.next - 2 = l.next - 1 /\ k.next \in 2 .. k.size + 1
    BY <1>2, <1>6
  <2>2. e[Len(e)] = Message("chunk", k.id, k.next - 1, k.size)
    BY <1>2, <1>5, <2>1
  <2>3. \A j \in DOMAIN e \ {Len(e)} : e[j].id # k.id /\ e[j].op = "read"
    BY <1>1, <1>2, <1>5 DEF AckDown
  <2>4. Filled(staging[p], k.id, k.size, k.next - 2)
    BY <1>1, <1>2, <2>1 DEF AckDown
  <2> HIDE DEF k
  <2>5. k.id = l.id
    BY <1>2 DEF k
  <2>6. ChunkUp(k, e, Tail(down[p]), staging[p])
    BY <1>1, <1>5, <2>1, <2>2, <2>3, <2>4, <2>5 DEF ChunkUp
  <2> QED BY <2>6 DEF InTurn, k
<1>8. OrderedAt(p)'
  <2>1. Sending(c)' /\ \A d \in Callers : ClientOf[d] = p /\ Sending(d)' => d = c
    BY <1>1, <1>2 DEF Sending
  <2>2. InTurn(caller'[c], up'[p], down'[p], staging'[p])
    BY <1>3, <1>4, <1>7 DEF e
  <2> QED BY <2>1, <2>2 DEF Ordered, OrderedAt
<1>9. \A q \in Phones \ {p} : OrderedAt(q)'
  BY <1>2, <1>3, <1>4, SameWorks, OrderedElsewhere DEF Ordered
<1> QED BY <1>8, <1>9 DEF Ordered

LEMMA ConcludesOrdered ==
  ASSUME Typed, Typed', Numbered, Ordered, NEW p \in Phones, NEW c \in Callers, ClientOf[c] = p,
         Gets(p, "ack"), Concludes(c, p), UNCHANGED <<config, staging>>
  PROVE  Ordered'
<1> DEFINE m == Message("commit", caller[c].id, 0, 0)
<1>1. /\ AckDown(caller[c], up[p], down[p], staging[p])
      /\ \A d \in Callers : ClientOf[d] = p /\ Sending(d) => d = c
  BY WriterHolds DEF Concludes
<1>2. /\ m \in Messages /\ Send(p, m) /\ \A d \in Callers \ {c} : caller'[d] = caller[d]
      /\ caller'[c].at = "commit"
  BY ConcludesParts
<1>3. /\ up'[p] = Append(up[p], m) /\ \A q \in Phones \ {p} : up'[q] = up[q]
  BY <1>2, SendTyped
<1>4. \A q \in Phones \ {p} : down'[q] = down[q]
  BY GetsTyped
<1>5. NoWrites(up'[p])
  <2>1. up[p] \in Seq(Messages)
    BY DEF Typed
  <2>2. LET e == Append(up[p], m)
        IN  /\ e[Len(e)] = m
            /\ \A i \in DOMAIN e : i = Len(e) \/ i \in DOMAIN up[p]
            /\ \A i \in DOMAIN up[p] : e[i] = up[p][i]
    BY <1>2, <2>1, AppendElements
  <2>3. m.op = "commit"
    BY DEF Message
  <2> QED BY <1>1, <1>3, <2>2, <2>3 DEF NoWrites, AckDown
<1>6. \A d \in Callers : ClientOf[d] = p => ~ Sending(d)'
  BY <1>1, <1>2 DEF Sending
<1>7. OrderedAt(p)'
  BY <1>5, <1>6 DEF Ordered, OrderedAt
<1>8. \A q \in Phones \ {p} : OrderedAt(q)'
  BY <1>2, <1>3, <1>4, SameWorks, OrderedElsewhere DEF Ordered
<1> QED BY <1>7, <1>8 DEF Ordered

\* An acknowledgement is the phone's that sent.
LEMMA WriterHere ==
  ASSUME Typed, Numbered, NEW p \in Phones, NEW c \in Callers, Writer(c, p), Gets(p, "ack")
  PROVE  ClientOf[c] = p
<1>1. /\ down[p] # <<>> /\ Head(down[p]).kind = "ack"
  BY GetsTyped
<1>2. 1 \in DOMAIN down[p] /\ Head(down[p]) = down[p][1]
  BY <1>1, TailElements DEF Typed
<1> QED BY <1>1, <1>2 DEF Numbered, Owns, Unknown, Acks, Writer, Writing

LEMMA TakeAckOrdered ==
  ASSUME Typed, Typed', Numbered, Ordered, NEW p \in Phones, TakeAck(p) PROVE Ordered'
<1>1. Gets(p, "ack") /\ UNCHANGED <<config, staging>>
  BY TakeAckCases
<1>2. CASE Ignores(p)
  <2>1. /\ down[p] # <<>> /\ down'[p] = Tail(down[p])
        /\ \A q \in Phones \ {p} : down'[q] = down[q]
    BY <1>1, GetsTyped
  <2>2. \A c \in Callers : Sending(c) => ~ Acks(Head(down[p]), caller[c].id)
    BY <1>2 DEF Ignores, Writer, Sending, Acks
  <2>3. \A c \in Callers : Works(c)
    BY <1>2, SameWorks DEF Ignores
  <2> QED BY <1>1, <1>2, <2>1, <2>2, <2>3, OrderedTaken DEF Ignores
<1>3. ASSUME NEW c \in Callers, Continues(c, p) PROVE Ordered'
  BY <1>1, <1>3, WriterHere, ContinuesOrdered DEF Continues
<1>4. ASSUME NEW c \in Callers, Concludes(c, p) PROVE Ordered'
  BY <1>1, <1>4, WriterHere, ConcludesOrdered DEF Concludes
<1> QED BY <1>2, <1>3, <1>4, TakeAckCases

\* A read or a commit that ends is no writer's.
LEMMA EndsWorks ==
  ASSUME Typed, NEW c \in Callers, Ends(c), ~ Sending(c) PROVE \A d \in Callers : Works(d)
<1>1. caller'[c] = NoCall /\ \A d \in Callers \ {c} : caller'[d] = caller[d]
  BY EndsTyped
<1>2. Works(c)
  <2>1. caller'[c].at = "idle"
    BY <1>1 DEF NoCall
  <2> QED BY <2>1 DEF Works, Sending
<1> QED BY <1>1, <1>2, SameWorks

LEMMA TakenOrdered ==
  ASSUME Typed, Typed', Ordered, NEW p \in Phones, Unexpected(p) \/ TakeChunk(p) \/ TakeReply(p)
  PROVE  Ordered'
<1>1. /\ Gets(p, "chunk") \/ Gets(p, "result")
      /\ UNCHANGED <<up, staging, config>>
  BY TakeChunkCases, TakeReplyParts DEF Unexpected, board
<1>2. /\ down[p] # <<>> /\ down'[p] = Tail(down[p]) /\ Head(down[p]).kind \in {"chunk", "result"}
      /\ \A q \in Phones \ {p} : down'[q] = down[q]
  BY <1>1, GetsTyped
<1>3. \A c \in Callers : ~ Acks(Head(down[p]), caller[c].id)
  BY <1>2 DEF Acks
<1>4. \A c \in Callers : Works(c)
  <2>1. CASE Unexpected(p)
    BY <2>1, SameWorks DEF Unexpected
  <2>2. CASE TakeReply(p)
    <3>1. /\ pending[p] \in Callers /\ Ends(pending[p])
          /\ caller[pending[p]].at \in {"read", "commit"}
      BY <2>2, TakeReplyParts DEF TakeReply
    <3> QED BY <3>1, EndsWorks DEF Sending
  <2>3. CASE TakeChunk(p)
    <3> DEFINE f == Head(down[p])
    <3>1. PICK c \in Callers :
            /\ caller[c].at = "read"
            /\ \/ caller' = [caller EXCEPT ![c].chunks = With(c, f)]
               \/ caller' = [caller EXCEPT ![c].at = "hung"]
               \/ Ends(c)
      BY <2>3, TakeChunkCases
    <3>2. CASE Ends(c)
      BY <3>1, <3>2, EndsWorks DEF Sending
    <3>3. CASE ~ Ends(c)
      <4>1. caller[c] \in Calling /\ caller'[c] \in Calling /\ caller \in [Callers -> Calling]
        BY <3>1 DEF Typed
      <4>2. \A d \in Callers \ {c} : caller'[d] = caller[d]
        BY <3>1, <3>3, <4>1
      <4>3. caller'[c].at \in {"read", "hung"}
        BY <3>1, <3>3, <4>1 DEF Calling
      <4>4. Works(c)
        BY <3>1, <4>3 DEF Works, Sending
      <4> QED BY <4>2, <4>4, SameWorks
    <3> QED BY <3>2, <3>3
  <2> QED BY <2>1, <2>2, <2>3
<1> QED BY <1>1, <1>2, <1>3, <1>4, OrderedTaken

LEMMA TimeoutOrdered ==
  ASSUME Typed, Ordered, NEW c \in Callers, Timeout(c) PROVE Ordered'
<1>1. /\ Ends(c) /\ UNCHANGED <<config, staging, up, down>>
      /\ ~ Sending(c)
  BY DEF Timeout, board, wire, Expires, Sending
<1>2. \A d \in Callers : Works(d)
  BY <1>1, EndsWorks
<1>3. \A q \in Phones : OrderedAt(q)'
  BY <1>1, <1>2, OrderedElsewhere DEF Ordered
<1> QED BY <1>1, <1>3 DEF Ordered

LEMMA LinkLostOrdered ==
  ASSUME Typed, Ordered, NEW p \in Phones, LinkLost(p) PROVE Ordered'
<1>1. /\ config' = config /\ up'[p] = <<>>
      /\ \A q \in Phones \ {p} : up'[q] = up[q] /\ down'[q] = down[q]
      /\ staging' = [staging EXCEPT ![p] = NoStaging]
      /\ \A c \in Callers :
              /\ ClientOf[c] # p => caller'[c] = caller[c]
              /\ ClientOf[c] = p =>
                   \/ caller'[c] = caller[c] /\ caller[c].at \notin {"send", "read", "commit"}
                   \/ caller'[c] = NoCall
                   \/ caller'[c] = [NoCall EXCEPT !.at = "orphan"]
  BY LinkLostParts
<1>2. ~ staging'[p].active /\ \A q \in Phones \ {p} : staging'[q] = staging[q]
  BY <1>1, NoStagingType DEF Typed
<1>3. \A c \in Callers : ClientOf[c] = p => ~ Sending(c)'
  BY <1>1 DEF Sending, NoCall
<1>4. NoWrites(up'[p])
  BY <1>1 DEF NoWrites
<1>5. OrderedAt(p)'
  BY <1>2, <1>3, <1>4 DEF OrderedAt, Intact
<1>6. \A q \in Phones \ {p} : OrderedAt(q)'
  BY <1>1, <1>2, SameWorks, OrderedElsewhere DEF Ordered
<1> QED BY <1>1, <1>5, <1>6 DEF Ordered

LEMMA StartReadOrdered ==
  ASSUME Typed, Numbered, Ordered, NEW c \in Callers, StartRead(c) PROVE Ordered'
<1> DEFINE p == ClientOf[c]
           m == Message("read", events', 0, 0)
<1>1. /\ p \in Phones /\ m \in Messages /\ Send(p, m) /\ events' = events + 1 /\ events \in Int
      /\ caller[c].at = "idle" /\ UNCHANGED <<config, staging, down>>
      /\ caller'[c].at = "read" /\ \A d \in Callers \ {c} : caller'[d] = caller[d]
  BY StartReadParts, Constants DEF Typed
<1>2. m.op = "read" /\ m.id = events'
  BY DEF Message
<1> HIDE DEF m
<1>3. up'[p] = Append(up[p], m) /\ \A q \in Phones \ {p} : up'[q] = up[q]
  BY <1>1, SendTyped
<1>4. \A d \in Callers : Works(d)
  <2>1. Works(c)
    BY <1>1 DEF Works, Sending
  <2> QED BY <1>1, <2>1, SameWorks
<1>5. Queues(up[p], down[p])
  BY <1>1 DEF Typed, Queues
<1>6. NoWrites(up[p]) => NoWrites(up'[p])
  <2>1. LET e == Append(up[p], m)
        IN  /\ e[Len(e)] = m
            /\ \A i \in DOMAIN e : i = Len(e) \/ i \in DOMAIN up[p]
            /\ \A i \in DOMAIN up[p] : e[i] = up[p][i]
    BY <1>1, <1>5, AppendElements DEF Queues
  <2> QED BY <1>2, <1>3, <2>1 DEF NoWrites
<1>7. ASSUME NEW d \in Callers, ClientOf[d] = p, Sending(d)'
      PROVE  /\ \A e \in Callers : ClientOf[e] = p /\ Sending(e)' => e = d
             /\ InTurn(caller'[d], up'[p], down'[p], staging'[p])
  <2>1. /\ Sending(d) /\ InTurn(caller[d], up[p], down[p], staging[p])
        /\ \A e \in Callers : ClientOf[e] = p /\ Sending(e) => e = d
        /\ caller'[d] = caller[d]
    BY <1>1, <1>4, <1>7 DEF Ordered, OrderedAt, Works, Sending
  <2>2. m.id # caller[d].id
    <3>1. caller[d].id \in Int /\ caller[d].id <= events
      BY Constants DEF Numbered, Typed, Calling
    <3> QED BY <1>1, <1>2, <3>1
  <2>3. InTurn(caller[d], Append(up[p], m), down[p], staging[p])
    BY <1>1, <1>2, <1>5, <2>1, <2>2, InTurnAsked
  <2> QED BY <1>1, <1>3, <1>4, <2>1, <2>3 DEF Works
<1>8. OrderedAt(p)'
  <2>1. (\A d \in Callers : ClientOf[d] = p => ~ Sending(d)') => NoWrites(up'[p])
    BY <1>1, <1>4, <1>6 DEF Ordered, OrderedAt, Works
  <2> QED BY <1>1, <1>7, <2>1 DEF Ordered, OrderedAt
<1>9. \A q \in Phones \ {p} : OrderedAt(q)'
  BY <1>1, <1>3, <1>4, OrderedElsewhere DEF Ordered
<1> QED BY <1>1, <1>8, <1>9 DEF Ordered

LEMMA StartWriteOrdered ==
  ASSUME Typed, Numbered, Ordered, NEW c \in Callers, StartWrite(c), ~ mixed' PROVE Ordered'
<1> DEFINE p == ClientOf[c]
<1>1. PICK n \in Sizes :
             /\ p \in Phones /\ Message("begin", events', 0, n) \in Messages
             /\ Send(p, Message("begin", events', 0, n))
             /\ events' = events + 1
             /\ mixed' = (mixed \/ \E d \in Callers : ClientOf[d] = p /\ caller[d].at = "send")
             /\ UNCHANGED <<config, staging, down>>
             /\ \A d \in Callers \ {c} : caller'[d] = caller[d]
             /\ caller'[c].at = "send" /\ caller'[c].id = events' /\ caller'[c].size = n
             /\ caller'[c].next = 1 /\ caller[c].at = "idle"
  BY StartWriteParts
<1> DEFINE m == Message("begin", events', 0, n)
           e == Append(up[p], m)
<1>2. up'[p] = e /\ \A q \in Phones \ {p} : up'[q] = up[q]
  BY <1>1, SendTyped
<1>3. \A d \in Callers : ClientOf[d] = p => ~ Sending(d)
  BY <1>1 DEF Sending
<1>4. NoWrites(up[p])
  BY <1>1, <1>3 DEF Ordered, OrderedAt
<1>5. Queues(up[p], down[p])
  BY <1>1 DEF Typed, Queues
<1>6. /\ Len(e) \in DOMAIN e /\ e[Len(e)] = m
      /\ \A i \in DOMAIN e : i = Len(e) \/ i \in DOMAIN up[p]
      /\ \A i \in DOMAIN up[p] : e[i] = up[p][i] /\ i < Len(e) /\ i \in Nat
  BY <1>1, <1>5, AppendElements DEF Queues
<1>7. /\ \A i \in DOMAIN up[p] : up[p][i].id # events'
      /\ \A i \in DOMAIN down[p] : ~ Acks(down[p][i], events')
  <2>1. Call \subseteq Int /\ \A x \in Int : x <= events => x # events'
    <3>1. events \in Int
      BY Constants DEF Typed
    <3> QED BY <1>1, <3>1, Constants
  <2>2. \A i \in DOMAIN up[p] : up[p][i] \in Messages
    BY <1>5, ElementOfSeq DEF Queues
  <2>3. \A i \in DOMAIN down[p] : down[p][i] \in Frame
    BY <1>5, ElementOfSeq DEF Queues
  <2>4. \A i \in DOMAIN up[p] : up[p][i].id \in Int /\ up[p][i].id <= events
    BY <1>1, <2>1, <2>2, MessageFields DEF Numbered
  <2>5. \A i \in DOMAIN down[p] : down[p][i].kind = "ack" =>
          down[p][i].id \in Int /\ down[p][i].id <= events
    BY <1>1, <2>1, <2>3, FrameKinds DEF Numbered
  <2> QED BY <2>1, <2>4, <2>5 DEF Acks
<1> DEFINE k == caller'[c]
<1>8. m = Message("begin", k.id, 0, k.size) /\ k.next = 1 /\ k.id = events'
  BY <1>1
<1> HIDE DEF e, m, k
<1>9. InTurn(k, e, down[p], staging[p])
  <2>1. \A j \in DOMAIN e \ {Len(e)} : e[j].id # k.id /\ e[j].op \in {"read", "commit"}
    BY <1>4, <1>6, <1>7, <1>8 DEF NoWrites
  <2>2. Len(e) \in Int /\ \A i \in DOMAIN up[p] : ~ (i > Len(e))
    <3>1. DOMAIN e = 1 .. Len(e) /\ Len(e) \in Nat
      BY <1>1, <1>5, AppendElements DEF e, m, Queues
    <3> QED BY <1>6, <3>1
  <2>3. \A j \in DOMAIN e : j > Len(e) => e[j].op = "read"
    BY <1>6, <2>2
  <2>4. BeginUp(k, e, down[p])
    BY <1>6, <1>7, <1>8, <2>1, <2>3 DEF BeginUp
  <2> QED BY <2>4 DEF InTurn
<1>10. OrderedAt(p)'
  <2>1. Sending(c)' /\ \A d \in Callers : ClientOf[d] = p /\ Sending(d)' => d = c
    BY <1>1, <1>3 DEF Sending
  <2>2. InTurn(caller'[c], up'[p], down'[p], staging'[p])
    BY <1>1, <1>2, <1>9 DEF k
  <2>3. Intact(staging'[p])
    BY <1>1 DEF Ordered, OrderedAt
  <2> QED BY <1>1, <2>1, <2>2, <2>3 DEF OrderedAt
<1>11. \A q \in Phones \ {p} : OrderedAt(q)'
  BY <1>1, <1>2, SameWorks, OrderedElsewhere DEF Ordered
<1> QED BY <1>1, <1>10, <1>11 DEF Ordered

-----------------------------------------------------------------------------
(* One that reads, and one that has committed                              *)

\* The writer on the same phone sends a part of its write.
LEMMA WaitsSent ==
  ASSUME NEW l, NEW u, NEW d, NEW m \in Messages, Queues(u, d), m.op \in {"begin", "chunk"}
  PROVE  /\ Waits(l, u, d) => Waits(l, Append(u, m), d)
         /\ Commits(l, u, d) => Commits(l, Append(u, m), d)
<1> DEFINE e == Append(u, m)
<1>1. /\ Len(e) \in DOMAIN e /\ e[Len(e)] = m
      /\ \A i \in DOMAIN u : i \in DOMAIN e /\ e[i] = u[i]
      /\ \A i \in DOMAIN e : i = Len(e) \/ i \in DOMAIN u
  BY AppendElements DEF Queues
<1> HIDE DEF e
<1>2. ASSUME Asked(l, u, d) PROVE Asked(l, e, d)
  <2>1. PICK i \in DOMAIN u : u[i].op = "read" /\ \A j \in DOMAIN u \ {i} : u[j].op \in {"begin", "chunk"}
    BY <1>2 DEF Asked
  <2>2. i \in DOMAIN e /\ e[i].op = "read" /\ \A j \in DOMAIN e \ {i} : e[j].op \in {"begin", "chunk"}
    BY <1>1, <2>1
  <2> QED BY <1>2, <2>2 DEF Asked
<1>3. ASSUME Answered(l, u, d) PROVE Answered(l, e, d)
  <2>1. \A i \in DOMAIN e : e[i].op \in {"begin", "chunk"}
    BY <1>1, <1>3 DEF Answered
  <2> QED BY <1>3, <2>1 DEF Answered
<1>4. ASSUME Committing(l, u, d) PROVE Committing(l, e, d)
  <2>1. PICK i \in DOMAIN u : /\ u[i].op = "commit" /\ u[i].id = l.id
                              /\ \A j \in DOMAIN u \ {i} : u[j].op \in {"begin", "chunk"}
    BY <1>4 DEF Committing
  <2>2. /\ i \in DOMAIN e /\ e[i].op = "commit" /\ e[i].id = l.id
        /\ \A j \in DOMAIN e \ {i} : e[j].op \in {"begin", "chunk"}
    BY <1>1, <2>1
  <2> QED BY <1>4, <2>2 DEF Committing
<1>5. ASSUME Committed(l, u, d) PROVE Committed(l, e, d)
  BY <1>1, <1>5 DEF Committed
<1> QED BY <1>2, <1>3, <1>4, <1>5 DEF Waits, Commits, e

\* The board handles a part of a write, whatever it notifies but no chunk.
LEMMA WaitsBeside ==
  ASSUME NEW l, NEW u, NEW d, NEW a \in Seq(Notice), Queues(u, d), u # <<>>,
         Head(u).op \in {"begin", "chunk"}, \A k \in DOMAIN a : a[k].kind # "chunk"
  PROVE  /\ Waits(l, u, d) => Waits(l, Tail(u), Reply(d, a, Head(u).id))
         /\ a = <<>> => (Commits(l, u, d) => Commits(l, Tail(u), Reply(d, a, Head(u).id)))
<1> DEFINE e == Reply(d, a, Head(u).id)
           t == Tail(u)
<1>1. /\ t \in Seq(Messages) /\ Head(u) \in Messages /\ 1 \in DOMAIN u /\ Head(u) = u[1]
      /\ \A i \in DOMAIN t : i \in Nat /\ i + 1 \in DOMAIN u /\ i + 1 # 1 /\ t[i] = u[i + 1]
      /\ \A i \in DOMAIN u : i # 1 => i - 1 \in DOMAIN t /\ t[i - 1] = u[i]
      /\ \A i \in DOMAIN u : i \in Nat
  BY TailElements DEF Queues
<1>2. /\ Len(e) \in DOMAIN e /\ e[Len(e)] = Ack(Head(u).id)
      /\ \A i \in DOMAIN e : i = Len(e) \/ i \in DOMAIN d \/ \E k \in DOMAIN a : e[i] = a[k]
      /\ \A i \in DOMAIN d : e[i] = d[i]
  BY <1>1, MessageFields, ReplyElements DEF Queues
<1> HIDE DEF e, t
<1>3. Ack(Head(u).id).kind = "ack"
  BY DEF Ack
<1>4. ASSUME Asked(l, u, d) PROVE Asked(l, t, e)
  <2>1. PICK i \in DOMAIN u : u[i].op = "read" /\ \A j \in DOMAIN u \ {i} : u[j].op \in {"begin", "chunk"}
    BY <1>4 DEF Asked
  <2>2. i # 1
    BY <1>1, <2>1
  <2>3. i - 1 \in DOMAIN t /\ t[i - 1].op = "read"
    BY <1>1, <2>1, <2>2
  <2>4. \A j \in DOMAIN t \ {i - 1} : t[j].op \in {"begin", "chunk"}
    BY <1>1, <2>1
  <2>5. \A j \in DOMAIN e : e[j].kind # "chunk"
    BY <1>2, <1>3, <1>4 DEF Asked
  <2> QED BY <1>4, <2>3, <2>4, <2>5 DEF Asked
<1>5. ASSUME Answered(l, u, d) PROVE Answered(l, t, e)
  <2>1. \A i \in DOMAIN t : t[i].op \in {"begin", "chunk"}
    BY <1>1, <1>5 DEF Answered
  <2>2. \A i \in DOMAIN e : e[i].kind = "chunk" => \E j \in DOMAIN d : e[i] = d[j]
    BY <1>2, <1>3
  <2> QED BY <1>5, <2>1, <2>2 DEF Answered
<1>6. ASSUME a = <<>>, Committing(l, u, d) PROVE Committing(l, t, e)
  <2>1. PICK i \in DOMAIN u : /\ u[i].op = "commit" /\ u[i].id = l.id
                              /\ \A j \in DOMAIN u \ {i} : u[j].op \in {"begin", "chunk"}
    BY <1>6 DEF Committing
  <2>2. i # 1
    BY <1>1, <2>1
  <2>3. i - 1 \in DOMAIN t /\ t[i - 1].op = "commit" /\ t[i - 1].id = l.id
    BY <1>1, <2>1, <2>2
  <2>4. \A j \in DOMAIN t \ {i - 1} : t[j].op \in {"begin", "chunk"}
    BY <1>1, <2>1
  <2>5. DOMAIN a = {}
    BY <1>6
  <2>6. \A j \in DOMAIN e : e[j].kind = "ack"
    BY <1>2, <1>3, <1>6, <2>5 DEF Committing
  <2> QED BY <1>6, <2>3, <2>4, <2>6 DEF Committing
<1>7. ASSUME a = <<>>, Committed(l, u, d) PROVE Committed(l, t, e)
  <2>1. \A i \in DOMAIN t : t[i].op \in {"begin", "chunk"}
    BY <1>1, <1>7 DEF Committed
  <2>2. DOMAIN a = {}
    BY <1>7
  <2>3. \A i \in DOMAIN e : e[i].kind = "ack" \/ \E j \in DOMAIN d : e[i] = d[j]
    BY <1>2, <1>3, <2>2
  <2> QED BY <1>7, <2>1, <2>3 DEF Committed
<1> QED BY <1>4, <1>5, <1>6, <1>7 DEF Waits, Commits, e, t

\* The client takes a frame and the call is as it was.
LEMMA WaitsTaken ==
  ASSUME NEW l, NEW u, NEW d, Queues(u, d), d # <<>>
  PROVE  /\ Waits(l, u, d) => Waits(l, u, Tail(d))
         /\ Commits(l, u, d) => Commits(l, u, Tail(d))
<1>1. \A i \in DOMAIN Tail(d) : i + 1 \in DOMAIN d /\ Tail(d)[i] = d[i + 1]
  BY TailElements DEF Queues
<1> DEFINE t == Tail(d)
<1>2. \A i \in DOMAIN t : \E j \in DOMAIN d : t[i] = d[j]
  BY <1>1
<1> HIDE DEF t
<1>3. Asked(l, u, d) => Asked(l, u, t)
  BY <1>2 DEF Asked
<1>4. Answered(l, u, d) => Answered(l, u, t)
  BY <1>2 DEF Answered
<1>5. Committing(l, u, d) => Committing(l, u, t)
  BY <1>2 DEF Committing
<1>6. Committed(l, u, d) => Committed(l, u, t)
  BY <1>2 DEF Committed
<1> QED BY <1>3, <1>4, <1>5, <1>6 DEF Waits, Commits, t

LEMMA WaitsSame ==
  ASSUME NEW l, NEW k, NEW u, NEW d, Waits(l, u, d), k.chunks = l.chunks, l.since \subseteq k.since
  PROVE  Waits(k, u, d)
<1>1. Asked(l, u, d) => Asked(k, u, d)
  BY DEF Asked
<1>2. Answered(l, u, d) => Answered(k, u, d)
  BY DEF Answered
<1> QED BY <1>1, <1>2 DEF Waits

LEMMA CommitsSame ==
  ASSUME NEW l, NEW k, NEW u, NEW d, Commits(l, u, d), k.id = l.id, k.applied = l.applied
  PROVE  Commits(k, u, d)
<1>1. Committing(l, u, d) => Committing(k, u, d)
  BY DEF Committing
<1>2. Committed(l, u, d) => Committed(k, u, d)
  BY DEF Committed
<1> QED BY <1>1, <1>2 DEF Commits

\* While a phone waits, the board comes to no read and no commit but its own.
LEMMA WaitsHead ==
  ASSUME NEW l, NEW u, NEW d, Queues(u, d), u # <<>>
  PROVE  /\ Waits(l, u, d) /\ Head(u).op \notin {"begin", "chunk"} =>
              /\ Head(u).op = "read" /\ \A i \in DOMAIN Tail(u) : Tail(u)[i].op \in {"begin", "chunk"}
              /\ Asked(l, u, d)
         /\ Commits(l, u, d) /\ Head(u).op \notin {"begin", "chunk"} =>
              /\ Head(u).op = "commit" /\ Head(u).id = l.id
              /\ \A i \in DOMAIN Tail(u) : Tail(u)[i].op \in {"begin", "chunk"}
              /\ Committing(l, u, d)
<1>1. /\ 1 \in DOMAIN u /\ Head(u) = u[1]
      /\ \A i \in DOMAIN Tail(u) : i + 1 \in DOMAIN u /\ i + 1 # 1 /\ Tail(u)[i] = u[i + 1]
  BY TailElements DEF Queues
<1>2. ASSUME Waits(l, u, d), Head(u).op \notin {"begin", "chunk"}
      PROVE  /\ Head(u).op = "read" /\ \A i \in DOMAIN Tail(u) : Tail(u)[i].op \in {"begin", "chunk"}
             /\ Asked(l, u, d)
  <2>1. Asked(l, u, d)
    BY <1>1, <1>2 DEF Waits, Answered
  <2>2. PICK i \in DOMAIN u : u[i].op = "read" /\ \A j \in DOMAIN u \ {i} : u[j].op \in {"begin", "chunk"}
    BY <2>1 DEF Asked
  <2>3. i = 1
    BY <1>1, <1>2, <2>2
  <2> QED BY <1>1, <2>1, <2>2, <2>3
<1>3. ASSUME Commits(l, u, d), Head(u).op \notin {"begin", "chunk"}
      PROVE  /\ Head(u).op = "commit" /\ Head(u).id = l.id
             /\ \A i \in DOMAIN Tail(u) : Tail(u)[i].op \in {"begin", "chunk"}
             /\ Committing(l, u, d)
  <2>1. Committing(l, u, d)
    BY <1>1, <1>3 DEF Commits, Committed
  <2>2. PICK i \in DOMAIN u : /\ u[i].op = "commit" /\ u[i].id = l.id
                              /\ \A j \in DOMAIN u \ {i} : u[j].op \in {"begin", "chunk"}
    BY <2>1 DEF Committing
  <2>3. i = 1
    BY <1>1, <1>3, <2>2
  <2> QED BY <1>1, <2>1, <2>2, <2>3
<1> QED BY <1>2, <1>3

\* A chunk of the version that is being read, in its place.
LEMMA Collected ==
  ASSUME Typed, NEW c \in Callers, NEW u, NEW d, NEW s \in SUBSET Seq(Cell), s = caller[c].since,
         Queues(u, d), d # <<>>, Head(d).kind = "chunk", Waits(caller[c], u, d)
  PROVE  \E V \in s :
           /\ Len(V) \in Offset /\ Head(d).total = Len(V)
           /\ \A i \in DOMAIN u : u[i].op \in {"begin", "chunk"}
           /\ \A i \in DOMAIN d : d[i].kind = "chunk" => Piece(d[i], V)
           /\ With(c, Head(d)) \in [Offset -> Cell]
           /\ \A k \in Offset : \/ With(c, Head(d))[k] = Blank
                                \/ k <= Len(V) /\ With(c, Head(d))[k] = V[k]
<1> DEFINE f == Head(d)
           l == caller[c]
<1>1. 1 \in DOMAIN d /\ f = d[1] /\ f \in Frame
  BY TailElements DEF Queues
<1>2. Answered(l, u, d)
  BY <1>1 DEF Waits, Asked
<1>3. PICK V \in s :
        /\ Len(V) \in Offset
        /\ \A i \in DOMAIN d : d[i].kind = "chunk" => Piece(d[i], V)
        /\ \A k \in Offset : l.chunks[k] = Blank \/ (k <= Len(V) /\ l.chunks[k] = V[k])
  BY <1>2 DEF Answered
<1>4. Piece(f, V)
  BY <1>1, <1>3
<1>5. l.chunks \in [Offset -> Cell] /\ f.off \in Offset /\ f.block \in Cell
  BY <1>1, FrameKinds DEF Typed, Calling
<1>6. With(c, f) \in [Offset -> Cell]
  BY <1>5 DEF With
<1>7. \A k \in Offset : With(c, f)[k] = IF k = f.off THEN f.block ELSE l.chunks[k]
  BY <1>5 DEF With
<1>8. f.off <= Len(V) /\ f.block = V[f.off] /\ f.total = Len(V)
  BY <1>4 DEF Piece
<1>9. \A i \in DOMAIN u : u[i].op \in {"begin", "chunk"}
  BY <1>2 DEF Answered
<1>10. \A k \in Offset : With(c, f)[k] = Blank \/ (k <= Len(V) /\ With(c, f)[k] = V[k])
  BY <1>3, <1>7, <1>8
<1> QED BY <1>3, <1>6, <1>8, <1>9, <1>10

\* When as many came as there are, they are the version and nothing else.
LEMMA CollectedAll ==
  ASSUME NEW V \in Seq(Cell), Len(V) \in Offset, NEW chunks \in [Offset -> Cell],
         \A k \in Offset : chunks[k] = Blank \/ (k <= Len(V) /\ chunks[k] = V[k]),
         Complete(chunks, Len(V))
  PROVE  SubSeq(chunks, 1, Len(V)) = V /\ ~ \E i \in Received(chunks) : i > Len(V)
<1> DEFINE n == Len(V)
           S == Received(chunks)
<1>1. n \in Nat /\ Offset = 1 .. Largest /\ Largest \in Nat /\ n <= Largest /\ 1 <= n
  BY Constants
<1>2. S \subseteq 1 .. n
  BY <1>1 DEF Received
<1>3. IsFiniteSet(1 .. n) /\ Cardinality(1 .. n) = n
  <2>1. 1 \in Int /\ n \in Int
    BY <1>1
  <2>2. IsFiniteSet(1 .. n) /\ Cardinality(1 .. n) = IF 1 > n THEN 0 ELSE n - 1 + 1
    BY <2>1, FS_Interval
  <2> QED BY <1>1, <2>2
<1>4. S = 1 .. n
  <2>1. IsFiniteSet(S) /\ Cardinality(S) <= n /\ (Cardinality(S) = n => S = 1 .. n)
    BY <1>2, <1>3, FS_Subset
  <2>2. Cardinality(S) \in Nat
    BY <2>1, FS_CardinalityType
  <2>3. Cardinality(S) >= n
    BY DEF Complete
  <2> QED BY <1>1, <2>1, <2>2, <2>3
<1>5. \A i \in 1 .. n : chunks[i] = V[i]
  BY <1>1, <1>4 DEF Received
<1>6. SubSeq(chunks, 1, n) = [i \in 1 .. n |-> chunks[i]]
  BY <1>1
<1>7. V = [i \in 1 .. n |-> V[i]]
  OBVIOUS
<1>8. SubSeq(chunks, 1, n) = V
  <2> HIDE DEF n
  <2>1. [i \in 1 .. n |-> chunks[i]] = [i \in 1 .. n |-> V[i]]
    BY <1>5
  <2> QED BY <1>6, <1>7, <2>1
<1>9. ~ \E i \in S : i > n
  BY <1>1, <1>4
<1> QED BY <1>8, <1>9

-----------------------------------------------------------------------------
(* Reads                                                                   *)

LEMMA WaitsElsewhere ==
  ASSUME NEW q \in Phones, WaitsAt(q), up'[q] = up[q], down'[q] = down[q],
         \/ pending'[q] = NoOne
         \/ pending'[q] = pending[q] /\ caller'[pending[q]] = caller[pending[q]]
  PROVE  WaitsAt(q)'
BY DEF WaitsAt

\* Nothing that a read rests on has changed but the frames and the messages.
StillReads ==
  /\ \A c \in Callers : /\ caller'[c].alone => caller'[c].at # "hung"
                        /\ caller'[c].at = "read" => config' \in caller'[c].since
  /\ "read" \notin untrue'

LEMMA SameReads ==
  ASSUME Reads, \A c \in Callers : caller'[c] = caller[c] \/ (~ caller'[c].alone /\ caller'[c].at # "read"),
         config' = config, "read" \notin untrue'
  PROVE  StillReads
BY DEF Reads, StillReads

LEMMA OneFrame == ASSUME NEW x PROVE \A k \in DOMAIN <<x>> : <<x>>[k] = x
<1>1. Len(<<x>>) = 1 /\ DOMAIN <<x>> = 1 .. Len(<<x>>) /\ <<x>>[1] = x
  OBVIOUS
<1> QED BY <1>1

LEMMA NoFrames == ASSUME NEW a \in Seq(Notice), \A i \in DOMAIN a : \E k \in DOMAIN <<>> : a[i] = <<>>[k]
                  PROVE  a = <<>> /\ \A k \in DOMAIN a : a[k].kind # "chunk"
<1>a. <<>> \in Seq(Notice) /\ Len(<<>>) = 0 /\ \A s \in Seq(Notice) : DOMAIN s = 1 .. Len(s)
  OBVIOUS
<1>b. DOMAIN <<>> = {}
  BY <1>a
<1>1. DOMAIN a = {}
  BY <1>b
<1>2. Len(a) = 0
  BY <1>1
<1> QED BY <1>1, <1>2

\* The board handles a part of a write.
LEMMA WaitsHandled ==
  ASSUME Typed, NEW p \in Phones, up[p] # <<>>, Head(up[p]).op \in {"begin", "chunk"},
         up' = [up EXCEPT ![p] = Tail(@)], NEW a \in Seq(Notice), \A k \in DOMAIN a : a[k].kind # "chunk",
         down' = [down EXCEPT ![p] = Reply(@, a, Head(up[p]).id)],
         UNCHANGED <<config, pending, caller, untrue>>
  PROVE  /\ Reads => Reads'
         /\ a = <<>> => (Tellings => Tellings')
<1>1. /\ up'[p] = Tail(up[p]) /\ down'[p] = Reply(down[p], a, Head(up[p]).id)
      /\ Queues(up[p], down[p])
      /\ \A q \in Phones \ {p} : up'[q] = up[q] /\ down'[q] = down[q]
  BY QueuesTyped
<1>2. ASSUME Reads PROVE Reads'
  <2>1. StillReads
    BY <1>2, SameReads DEF Reads
  <2>2. WaitsAt(p)'
    <3>1. ASSUME Waits(caller[pending[p]], up[p], down[p])
          PROVE  Waits(caller'[pending'[p]], up'[p], down'[p])
      BY <1>1, <3>1, WaitsBeside
    <3> QED BY <1>2, <3>1 DEF Reads, WaitsAt
  <2>3. \A q \in Phones \ {p} : WaitsAt(q)'
    BY <1>1, <1>2, WaitsElsewhere DEF Reads
  <2> QED BY <2>1, <2>2, <2>3 DEF Reads, StillReads
<1>3. ASSUME a = <<>>, Tellings PROVE Tellings'
  <2>1. CommitsAt(p)'
    <3>1. ASSUME Commits(caller[pending[p]], up[p], down[p])
          PROVE  Commits(caller'[pending'[p]], up'[p], down'[p])
      <4>1. Commits(caller[pending[p]], Tail(up[p]), Reply(down[p], a, Head(up[p]).id))
        BY <1>1, <1>3, <3>1, WaitsBeside
      <4> QED BY <1>1, <4>1
    <3> QED BY <1>3, <3>1 DEF Tellings, CommitsAt
  <2>2. \A q \in Phones \ {p} : CommitsAt(q)'
    BY <1>1, <1>3 DEF Tellings, CommitsAt
  <2> QED BY <1>3, <2>1, <2>2 DEF Tellings
<1> QED BY <1>2, <1>3

LEMMA HandleBeginReads ==
  ASSUME Typed, NEW p \in Phones, HandleBegin(p)
  PROVE  (Reads => Reads') /\ (Tellings => Tellings')
<1>1. /\ up[p] # <<>> /\ up' = [up EXCEPT ![p] = Tail(@)] /\ Respond(p, <<>>)
      /\ Head(up[p]).op = "begin" /\ UNCHANGED <<config, pending, caller, untrue>>
  BY DEF HandleBegin, Takes
<1>2. PICK a \in Seq(Notice) :
        /\ \A i \in DOMAIN a : \E k \in DOMAIN <<>> : a[i] = <<>>[k]
        /\ down' = [down EXCEPT ![p] = Reply(@, a, Head(up[p]).id)]
  BY <1>1, RefusalTyped, Responds
<1>3. a = <<>> /\ \A k \in DOMAIN a : a[k].kind # "chunk"
  BY <1>2, NoFrames
<1> QED BY <1>1, <1>2, <1>3, WaitsHandled

\* A refusal is notified only when writes of the phone were mixed.
LEMMA HandleChunkReads ==
  ASSUME Typed, NEW p \in Phones, HandleChunk(p)
  PROVE  (Reads => Reads') /\ (Ordered /\ Tellings => Tellings')
<1>1. /\ up[p] # <<>> /\ Head(up[p]).op = "chunk" /\ up' = [up EXCEPT ![p] = Tail(@)]
      /\ UNCHANGED <<pending, untrue, config, caller>>
      /\ Respond(p, <<Result(FALSE)>>) \/ Respond(p, <<>>)
      /\ Ordered => Respond(p, <<>>)
  BY HandleChunkCases, ChunkAwaited
<1>2. ASSUME Respond(p, <<Result(FALSE)>>) PROVE Reads => Reads'
  <2>1. PICK a \in Seq(Notice) :
          /\ \A i \in DOMAIN a : \E k \in DOMAIN <<Result(FALSE)>> : a[i] = <<Result(FALSE)>>[k]
          /\ down' = [down EXCEPT ![p] = Reply(@, a, Head(up[p]).id)]
    BY <1>1, <1>2, RefusalTyped, Responds
  <2>2. \A i \in DOMAIN a : a[i].kind # "chunk"
    <3>1. \A k \in DOMAIN <<Result(FALSE)>> : <<Result(FALSE)>>[k] = Result(FALSE)
      BY OneFrame
    <3>2. Result(FALSE).kind = "result"
      BY DEF Result
    <3> QED BY <2>1, <3>1, <3>2
  <2> QED BY <1>1, <2>1, <2>2, WaitsHandled
<1>3. ASSUME Respond(p, <<>>) PROVE (Reads => Reads') /\ (Tellings => Tellings')
  <2>1. PICK a \in Seq(Notice) :
          /\ \A i \in DOMAIN a : \E k \in DOMAIN <<>> : a[i] = <<>>[k]
          /\ down' = [down EXCEPT ![p] = Reply(@, a, Head(up[p]).id)]
    BY <1>1, <1>3, RefusalTyped, Responds
  <2>2. a = <<>> /\ \A k \in DOMAIN a : a[k].kind # "chunk"
    BY <2>1, NoFrames
  <2> QED BY <1>1, <2>1, <2>2, WaitsHandled
<1> QED BY <1>1, <1>2, <1>3

LEMMA HandleReadReads ==
  ASSUME Typed, NEW p \in Phones, HandleRead(p)
  PROVE  (Reads => Reads') /\ (Tellings => Tellings')
<1> DEFINE frames == [i \in DOMAIN config |-> Chunk(i, config[i], Len(config))]
<1>1. /\ up[p] # <<>> /\ Head(up[p]).op = "read" /\ up' = [up EXCEPT ![p] = Tail(@)]
      /\ Respond(p, frames) /\ UNCHANGED <<config, pending, caller, untrue>>
  BY DEF HandleRead, Takes, board
<1>2. PICK a \in Seq(Notice) :
        /\ \A i \in DOMAIN a : \E k \in DOMAIN frames : a[i] = frames[k]
        /\ down' = [down EXCEPT ![p] = Reply(@, a, Head(up[p]).id)]
  BY <1>1, ReadFrames, Responds
<1>3. /\ up'[p] = Tail(up[p]) /\ down'[p] = Reply(down[p], a, Head(up[p]).id)
      /\ Queues(up[p], down[p]) /\ Head(up[p]) \in Messages
      /\ \A q \in Phones \ {p} : up'[q] = up[q] /\ down'[q] = down[q]
  BY <1>1, <1>2, QueuesTyped
<1>4. \A i \in DOMAIN a : Piece(a[i], config)
  <2>1. DOMAIN config = 1 .. Len(config)
    BY DEF Typed
  <2> QED BY <1>2, <2>1 DEF Piece, Chunk
<1> HIDE DEF frames
<1>5. ASSUME Reads PROVE Reads'
  <2>1. StillReads
    BY <1>1, <1>5, SameReads DEF Reads
  <2>2. WaitsAt(p)'
    <3> DEFINE c == pending[p]
               l == caller[c]
    <3>1. ASSUME c # NoOne PROVE c \in Callers
      BY <3>1 DEF Typed
    <3>2. ASSUME c # NoOne, l.at = "read", l.alone PROVE Waits(l, up'[p], down'[p])
      <4>1. config \in l.since /\ Waits(l, up[p], down[p])
        BY <1>5, <3>1, <3>2 DEF Reads, WaitsAt
      <4> HIDE DEF l, c
      <4>2. /\ \A i \in DOMAIN Tail(up[p]) : Tail(up[p])[i].op \in {"begin", "chunk"}
            /\ \A i \in DOMAIN down[p] : down[p][i].kind # "chunk"
            /\ \A k \in Offset : l.chunks[k] = Blank
        BY <1>1, <1>3, <4>1, WaitsHead DEF Asked
      <4> DEFINE e == Reply(down[p], a, Head(up[p]).id)
      <4>3. /\ e[Len(e)] = Ack(Head(up[p]).id)
            /\ \A i \in DOMAIN down[p] : e[i] = down[p][i]
            /\ \A i \in DOMAIN e : i = Len(e) \/ i \in DOMAIN down[p] \/ \E k \in DOMAIN a : e[i] = a[k]
        BY <1>3, MessageFields, ReplyElements DEF Queues
      <4> HIDE DEF e
      <4>4. Ack(Head(up[p]).id).kind # "chunk"
        BY DEF Ack
      <4>5. \A i \in DOMAIN e : e[i].kind = "chunk" => Piece(e[i], config)
        BY <1>4, <4>2, <4>3, <4>4
      <4>6. Len(config) \in Offset
        BY DEF Typed
      <4>7. Answered(l, Tail(up[p]), e)
        BY <4>1, <4>2, <4>5, <4>6 DEF Answered
      <4> QED BY <1>3, <4>7 DEF Waits, e
    <3> QED BY <1>1, <1>5, <3>2 DEF Reads, WaitsAt
  <2>3. \A q \in Phones \ {p} : WaitsAt(q)'
    BY <1>1, <1>3, <1>5, WaitsElsewhere DEF Reads
  <2> QED BY <2>1, <2>2, <2>3 DEF Reads, StillReads
<1>6. ASSUME Tellings PROVE Tellings'
  <2>1. CommitsAt(p)'
    <3>1. ~ Commits(caller[pending[p]], up[p], down[p])
      BY <1>1, <1>3, WaitsHead
    <3> QED BY <1>1, <1>6, <3>1 DEF Tellings, CommitsAt
  <2>2. \A q \in Phones \ {p} : CommitsAt(q)'
    BY <1>1, <1>3, <1>6 DEF Tellings, CommitsAt
  <2> QED BY <1>1, <1>6, <2>1, <2>2 DEF Tellings
<1> QED BY <1>5, <1>6

\* What the board tells of a commit is what it did, and whose it was knows.
LEMMA HandleCommitReads ==
  ASSUME Typed, Typed', Reads, NEW p \in Phones, HandleCommit(p) PROVE Reads'
<1>1. /\ up[p] # <<>> /\ Head(up[p]).op = "commit" /\ up' = [up EXCEPT ![p] = Tail(@)]
      /\ UNCHANGED <<pending, untrue>>
      /\ \E ok \in BOOLEAN : Respond(p, <<Result(ok)>>)
      /\ \/ UNCHANGED <<config, caller>>
         \/ \E valid \in BOOLEAN : Informed(valid, Head(up[p]).id)
  BY HandleCommitCases
<1>2. PICK a \in Seq(Notice) : down' = [down EXCEPT ![p] = Reply(@, a, Head(up[p]).id)]
  <2>1. PICK ok \in BOOLEAN : Respond(p, <<Result(ok)>>)
    BY <1>1
  <2>2. <<Result(ok)>> \in Seq(Notice)
    BY DEF Result, Notice
  <2> QED BY <1>1, <2>1, <2>2, Responds
<1>3. /\ Queues(up[p], down[p])
      /\ \A q \in Phones \ {p} : up'[q] = up[q] /\ down'[q] = down[q]
  BY <1>1, <1>2, QueuesTyped
<1>4. ASSUME NEW c \in Callers
      PROVE  /\ caller'[c].at = caller[c].at /\ caller'[c].alone = caller[c].alone
             /\ caller'[c].chunks = caller[c].chunks
             /\ caller[c].at = "read" => /\ caller[c].since \subseteq caller'[c].since
                                         /\ config' \in caller'[c].since
  <2>1. CASE UNCHANGED <<config, caller>>
    BY <2>1 DEF Reads
  <2>2. ASSUME NEW valid \in BOOLEAN, Informed(valid, Head(up[p]).id)
        PROVE  /\ caller'[c].at = caller[c].at /\ caller'[c].alone = caller[c].alone
               /\ caller'[c].chunks = caller[c].chunks
               /\ caller[c].at = "read" => caller'[c].since = caller[c].since \cup {config'}
    <3>1. config' \in Seq(Cell)
      BY DEF Typed
    <3> QED BY <2>2, <3>1, CommitCallers
  <2> QED BY <1>1, <2>1, <2>2
<1>5. WaitsAt(p)'
  <2>1. ~ Waits(caller[pending[p]], up[p], down[p])
    BY <1>1, <1>3, WaitsHead
  <2>2. pending[p] # NoOne => pending[p] \in Callers
    BY DEF Typed
  <2> QED BY <1>1, <1>4, <2>1, <2>2 DEF Reads, WaitsAt
<1>6. ASSUME NEW q \in Phones \ {p} PROVE WaitsAt(q)'
  <2> DEFINE c == pending[q]
  <2>1. ASSUME c # NoOne, caller[c].at = "read", caller[c].alone
        PROVE  Waits(caller'[c], up'[q], down'[q])
    <3>1. c \in Callers
      BY <2>1 DEF Typed
    <3>2. Waits(caller[c], up[q], down[q])
      BY <2>1 DEF Reads, WaitsAt
    <3>3. caller'[c].chunks = caller[c].chunks /\ caller[c].since \subseteq caller'[c].since
      BY <1>4, <2>1, <3>1
    <3>4. Waits(caller'[c], up[q], down[q])
      BY <3>2, <3>3, WaitsSame
    <3> QED BY <1>3, <3>4
  <2>2. c # NoOne => c \in Callers /\ ClientOf[c] = q
    BY DEF Typed, Reads, WaitsAt
  <2>3. pending'[q] = c
    BY <1>1
  <2> QED BY <1>4, <2>1, <2>2, <2>3 DEF WaitsAt
<1> QED BY <1>1, <1>4, <1>5, <1>6 DEF Reads

LEMMA HandleCommitTellings ==
  ASSUME Typed, Typed', Numbered, Reads, Tellings, NEW p \in Phones, HandleCommit(p) PROVE Tellings'
<1> DEFINE id == Head(up[p]).id
<1>1. /\ up[p] # <<>> /\ Head(up[p]).op = "commit" /\ up' = [up EXCEPT ![p] = Tail(@)]
      /\ UNCHANGED <<pending, untrue>>
      /\ \E ok \in BOOLEAN :
           /\ Respond(p, <<Result(ok)>>)
           /\ (~ ok /\ UNCHANGED caller) \/ Informed(ok, id)
  BY HandleCommitCases
<1>2. PICK ok \in BOOLEAN :
           /\ Respond(p, <<Result(ok)>>)
           /\ (~ ok /\ UNCHANGED caller) \/ Informed(ok, id)
  BY <1>1
<1>3. PICK a \in Seq(Notice) :
        /\ \A i \in DOMAIN a : \E k \in DOMAIN <<Result(ok)>> : a[i] = <<Result(ok)>>[k]
        /\ down' = [down EXCEPT ![p] = Reply(@, a, id)]
  <2>1. <<Result(ok)>> \in Seq(Notice)
    BY DEF Result, Notice
  <2> QED BY <1>1, <1>2, <2>1, Responds
<1>4. \A i \in DOMAIN a : a[i] = Result(ok)
  <2>1. \A k \in DOMAIN <<Result(ok)>> : <<Result(ok)>>[k] = Result(ok)
    BY OneFrame
  <2> QED BY <1>3, <2>1
<1>5. /\ up'[p] = Tail(up[p]) /\ down'[p] = Reply(down[p], a, id)
      /\ Queues(up[p], down[p]) /\ Head(up[p]) \in Messages
      /\ \A q \in Phones \ {p} : up'[q] = up[q] /\ down'[q] = down[q]
  BY <1>1, <1>3, QueuesTyped
<1>6. ASSUME NEW c \in Callers
      PROVE  /\ caller'[c].at = caller[c].at /\ caller'[c].alone = caller[c].alone
             /\ caller'[c].id = caller[c].id
             /\ caller[c].at # "read" =>
                  caller'[c].applied = (caller[c].applied \/ (ok /\ caller[c].id = id))
  <2>1. CASE ~ ok /\ UNCHANGED caller
    <3>1. caller[c].applied \in BOOLEAN
      BY DEF Typed, Calling
    <3> QED BY <2>1, <3>1
  <2>2. CASE Informed(ok, id)
    <3>1. config' \in Seq(Cell)
      BY DEF Typed
    <3> QED BY <2>2, <3>1, CommitCallers
  <2> QED BY <1>2, <2>1, <2>2
<1>7. CommitsAt(p)'
  <2> DEFINE c == pending[p]
             k == caller'[c]
  <2>1. ASSUME c # NoOne, caller[c].at = "commit", caller[c].alone
        PROVE  Commits(k, up'[p], down'[p])
    <3>1. c \in Callers /\ Commits(caller[c], up[p], down[p])
      BY <2>1 DEF Typed, Tellings, CommitsAt
    <3>2. /\ id = caller[c].id
          /\ \A i \in DOMAIN Tail(up[p]) : Tail(up[p])[i].op \in {"begin", "chunk"}
          /\ ~ caller[c].applied /\ \A i \in DOMAIN down[p] : down[p][i].kind = "ack"
      BY <1>1, <1>5, <3>1, WaitsHead DEF Committing
    <3>3. k.applied = ok
      BY <1>6, <2>1, <3>1, <3>2
    <3> HIDE DEF k, c
    <3> DEFINE e == Reply(down[p], a, id)
    <3>4. /\ e[Len(e)] = Ack(id)
          /\ \A i \in DOMAIN down[p] : e[i] = down[p][i]
          /\ \A i \in DOMAIN e : i = Len(e) \/ i \in DOMAIN down[p] \/ \E j \in DOMAIN a : e[i] = a[j]
      BY <1>5, MessageFields, ReplyElements DEF Queues
    <3> HIDE DEF e
    <3>5. Ack(id).kind = "ack" /\ Result(ok).kind = "result" /\ Result(ok).ok = ok
      BY DEF Ack, Result
    <3>6. \A i \in DOMAIN e : e[i].kind # "chunk" /\ (e[i].kind = "result" => e[i].ok = k.applied)
      BY <1>4, <3>2, <3>3, <3>4, <3>5
    <3>7. Committed(k, Tail(up[p]), e)
      BY <3>2, <3>6 DEF Committed
    <3> QED BY <1>5, <3>7 DEF Commits, e
  <2>2. c # NoOne => c \in Callers
    BY DEF Typed
  <2>3. pending'[p] = c
    BY <1>1
  <2> QED BY <1>6, <2>1, <2>2, <2>3 DEF CommitsAt
<1>8. ASSUME NEW q \in Phones \ {p} PROVE CommitsAt(q)'
  <2> DEFINE c == pending[q]
  <2>1. ASSUME c # NoOne, caller[c].at = "commit", caller[c].alone
        PROVE  Commits(caller'[c], up'[q], down'[q])
    <3>1. c \in Callers /\ ClientOf[c] = q /\ Commits(caller[c], up[q], down[q])
      BY <2>1 DEF Typed, Tellings, CommitsAt, Reads, WaitsAt
    <3>2. caller[c].id # id
      <4>1. 1 \in DOMAIN up[p] /\ Head(up[p]) = up[p][1]
        BY <1>1, <1>5, TailElements DEF Queues
      <4> QED BY <2>1, <3>1, <4>1 DEF Numbered, Owns, Unknown, Writing
    <3>3. caller'[c].id = caller[c].id /\ caller'[c].applied = caller[c].applied
      <4>1. caller[c].applied \in BOOLEAN
        BY <3>1 DEF Typed, Calling
      <4> QED BY <1>6, <2>1, <3>1, <3>2, <4>1
    <3>4. Commits(caller'[c], up[q], down[q])
      BY <3>1, <3>3, CommitsSame
    <3> QED BY <1>5, <3>4
  <2>2. c # NoOne => c \in Callers
    BY DEF Typed
  <2>3. pending'[q] = c
    BY <1>1
  <2> QED BY <1>6, <2>1, <2>2, <2>3 DEF CommitsAt
<1> QED BY <1>1, <1>7, <1>8 DEF Tellings

LEMMA AppendFirst == \A m : Append(<<>>, m) = <<m>>
OBVIOUS

LEMMA CommitsElsewhere ==
  ASSUME NEW q \in Phones, CommitsAt(q), up'[q] = up[q], down'[q] = down[q],
         \/ pending'[q] = NoOne
         \/ pending'[q] = pending[q] /\ caller'[pending[q]] = caller[pending[q]]
  PROVE  CommitsAt(q)'
BY DEF CommitsAt

\* A writer sends on; nobody's waiting is disturbed.
LEMMA ContinuesReads ==
  ASSUME Typed, NEW p \in Phones, NEW c \in Callers, ClientOf[c] = p,
         Gets(p, "ack"), Continues(c, p), UNCHANGED <<config, untrue>>
  PROVE  (Reads => Reads') /\ (Reads /\ Tellings => Tellings')
<1> DEFINE m == Message("chunk", caller[c].id, caller[c].next, caller[c].size)
<1>1. /\ m \in Messages /\ Send(p, m) /\ \A d \in Callers \ {c} : caller'[d] = caller[d]
      /\ caller'[c].at = "send" /\ caller[c].at = "send" /\ pending' = pending
      /\ caller'[c].alone = caller[c].alone
  BY ContinuesParts DEF Continues, Writer
<1>2. m.op = "chunk"
  BY DEF Message
<1> HIDE DEF m
<1>3. up'[p] = Append(up[p], m) /\ \A q \in Phones \ {p} : up'[q] = up[q]
  BY <1>1, SendTyped
<1>4. /\ down[p] # <<>> /\ down'[p] = Tail(down[p]) /\ down'[p] \in Seq(Frame)
      /\ \A q \in Phones \ {p} : down'[q] = down[q]
  BY GetsTyped
<1>5. Queues(up[p], down[p]) /\ Queues(up[p], down'[p])
  BY <1>4 DEF Queues, Typed
<1>6. \A l : /\ Waits(l, up[p], down[p]) => Waits(l, up'[p], down'[p])
             /\ Commits(l, up[p], down[p]) => Commits(l, up'[p], down'[p])
  BY <1>1, <1>2, <1>3, <1>4, <1>5, WaitsTaken, WaitsSent
<1>7. ASSUME NEW q \in Phones, Reads, pending[q] # NoOne
      PROVE  /\ ClientOf[pending[q]] = q
             /\ caller[pending[q]].at # "send" => caller'[pending[q]] = caller[pending[q]]
             /\ caller'[pending[q]].at = caller[pending[q]].at
  BY <1>1, <1>7 DEF Reads, WaitsAt, Typed
<1>8. ASSUME Reads PROVE Reads'
  <2>1. StillReads
    BY <1>1, <1>8 DEF Reads, StillReads
  <2>2. \A q \in Phones : WaitsAt(q)'
    BY <1>1, <1>3, <1>4, <1>6, <1>7, <1>8 DEF Reads, WaitsAt
  <2> QED BY <2>1, <2>2 DEF Reads, StillReads
<1>9. ASSUME Reads, Tellings PROVE Tellings'
  <2>1. \A q \in Phones : CommitsAt(q)'
    BY <1>1, <1>3, <1>4, <1>6, <1>7, <1>9 DEF Tellings, CommitsAt
  <2> QED BY <1>9, <2>1 DEF Tellings
<1> QED BY <1>8, <1>9

LEMMA ConcludesReads ==
  ASSUME Typed, Numbered, NEW p \in Phones, NEW c \in Callers, ClientOf[c] = p,
         Gets(p, "ack"), Concludes(c, p), UNCHANGED <<config, untrue>>
  PROVE  (Reads => Reads') /\ (Reads /\ Tellings => Tellings')
<1> DEFINE m == Message("commit", caller[c].id, 0, 0)
<1>1. /\ m \in Messages /\ Send(p, m) /\ \A d \in Callers \ {c} : caller'[d] = caller[d]
      /\ caller'[c].at = "commit" /\ caller'[c].id = caller[c].id
      /\ caller'[c].applied = caller[c].applied
      /\ caller'[c].alone => up[p] = <<>> /\ Tail(down[p]) = <<>>
      /\ pending' = [pending EXCEPT ![p] = c] /\ caller[c].at = "send"
  BY ConcludesParts DEF Concludes, Writer
<1>2. m.op = "commit" /\ m.id = caller[c].id
  BY DEF Message
<1> HIDE DEF m
<1>3. up'[p] = Append(up[p], m) /\ \A q \in Phones \ {p} : up'[q] = up[q]
  BY <1>1, SendTyped
<1>4. down'[p] = Tail(down[p]) /\ \A q \in Phones \ {p} : down'[q] = down[q]
  BY GetsTyped
<1>5. pending'[p] = c /\ \A q \in Phones \ {p} : pending'[q] = pending[q]
  BY <1>1 DEF Typed
<1>6. ASSUME NEW q \in Phones \ {p}, Reads, pending[q] # NoOne
      PROVE  caller'[pending[q]] = caller[pending[q]]
  <2>1. pending[q] \in Callers /\ ClientOf[pending[q]] = q
    BY <1>6 DEF Reads, WaitsAt, Typed
  <2> QED BY <1>1, <2>1
<1>7. ASSUME Reads PROVE Reads'
  <2>1. StillReads
    BY <1>1, <1>7 DEF Reads, StillReads
  <2>2. WaitsAt(p)'
    BY <1>1, <1>5 DEF WaitsAt
  <2>3. \A q \in Phones \ {p} : WaitsAt(q)'
    BY <1>3, <1>4, <1>5, <1>6, <1>7 DEF Reads, WaitsAt
  <2> QED BY <2>1, <2>2, <2>3 DEF Reads, StillReads
<1>8. ASSUME Reads, Tellings PROVE Tellings'
  <2>1. CommitsAt(p)'
    <3>1. ~ caller[c].applied
      BY <1>1 DEF Numbered, Owns, Sending, Writing
    <3>2. ASSUME caller'[c].alone PROVE Committing(caller'[c], up'[p], down'[p])
      <4>1. up'[p] = <<m>> /\ down'[p] = <<>>
        BY <1>1, <1>3, <1>4, <3>2, AppendFirst
      <4>2. DOMAIN <<m>> = {1} /\ <<m>>[1] = m /\ DOMAIN down'[p] = {}
        BY <4>1
      <4>3. ~ caller'[c].applied
        BY <1>1, <3>1
      <4> QED BY <1>1, <1>2, <4>1, <4>2, <4>3 DEF Committing
    <3> QED BY <1>5, <3>2 DEF CommitsAt, Commits
  <2>2. \A q \in Phones \ {p} : CommitsAt(q)'
    BY <1>3, <1>4, <1>5, <1>6, <1>8 DEF Tellings, CommitsAt
  <2> QED BY <1>8, <2>1, <2>2 DEF Tellings
<1> QED BY <1>7, <1>8

\* The client drops a frame.
LEMMA DroppedReads ==
  ASSUME Typed, NEW p \in Phones, down[p] # <<>>,
         down'[p] = Tail(down[p]), \A q \in Phones \ {p} : down'[q] = down[q],
         UNCHANGED <<config, up, pending, caller, untrue>>
  PROVE  (Reads => Reads') /\ (Tellings => Tellings')
<1>1. Queues(up[p], down[p])
  BY DEF Queues, Typed
<1>2. \A l : /\ Waits(l, up[p], down[p]) => Waits(l, up[p], down'[p])
             /\ Commits(l, up[p], down[p]) => Commits(l, up[p], down'[p])
  BY <1>1, WaitsTaken
<1>3. ASSUME Reads PROVE Reads'
  <2>1. StillReads
    BY <1>3, SameReads DEF Reads
  <2>2. \A q \in Phones : WaitsAt(q)'
    BY <1>2, <1>3 DEF Reads, WaitsAt
  <2> QED BY <2>1, <2>2 DEF Reads, StillReads
<1>4. ASSUME Tellings PROVE Tellings'
  BY <1>2, <1>4 DEF Tellings, CommitsAt
<1> QED BY <1>3, <1>4

LEMMA TakeAckReads ==
  ASSUME Typed, Numbered, NEW p \in Phones, TakeAck(p)
  PROVE  (Reads => Reads') /\ (Reads /\ Tellings => Tellings')
<1>1. Gets(p, "ack") /\ UNCHANGED <<config, untrue>>
  BY TakeAckCases
<1>2. CASE Ignores(p)
  <2>1. /\ down[p] # <<>> /\ down'[p] = Tail(down[p])
        /\ \A q \in Phones \ {p} : down'[q] = down[q]
    BY <1>1, GetsTyped
  <2> QED BY <1>1, <1>2, <2>1, DroppedReads DEF Ignores
<1>3. ASSUME NEW c \in Callers, Continues(c, p)
      PROVE  (Reads => Reads') /\ (Reads /\ Tellings => Tellings')
  BY <1>1, <1>3, WriterHere, ContinuesReads DEF Continues
<1>4. ASSUME NEW c \in Callers, Concludes(c, p)
      PROVE  (Reads => Reads') /\ (Reads /\ Tellings => Tellings')
  BY <1>1, <1>4, WriterHere, ConcludesReads DEF Concludes
<1> QED BY <1>2, <1>3, <1>4, TakeAckCases

LEMMA UnexpectedReads ==
  ASSUME Typed, NEW p \in Phones, Unexpected(p)
  PROVE  (Reads => Reads') /\ (Tellings => Tellings')
<1>1. /\ down[p] # <<>> /\ down'[p] = Tail(down[p])
      /\ \A q \in Phones \ {p} : down'[q] = down[q]
  BY GetsTyped DEF Unexpected
<1> QED BY <1>1, DroppedReads DEF Unexpected, board

\* A call of p ends, and its waiter is gone or was another's.
LEMMA EndedReads ==
  ASSUME Typed, NEW p \in Phones, NEW c \in Callers, ClientOf[c] = p,
         caller'[c].at \in {"idle", "hung"}, caller[c].alone => caller'[c].at = "idle",
         caller'[c].alone => caller[c].alone,
         \A d \in Callers \ {c} : caller'[d] = caller[d],
         UNCHANGED <<config, up>>, \A q \in Phones \ {p} : down'[q] = down[q],
         Closes(p)
  PROVE  /\ Reads /\ "read" \notin untrue' => Reads'
         /\ Reads /\ Tellings /\ untrue' \cap {"ok", "refused"} = {} => Tellings'
<1>1. pending'[p] = NoOne /\ \A q \in Phones \ {p} : pending'[q] = pending[q]
  BY DEF Closes, Typed
<1>2. ASSUME NEW q \in Phones \ {p}, Reads, pending[q] # NoOne
      PROVE  caller'[pending[q]] = caller[pending[q]]
  <2>1. pending[q] \in Callers /\ ClientOf[pending[q]] = q
    BY <1>2 DEF Reads, WaitsAt, Typed
  <2> QED BY <2>1
<1>3. ASSUME Reads, "read" \notin untrue' PROVE Reads'
  <2>1. StillReads
    BY <1>3 DEF Reads, StillReads
  <2>2. WaitsAt(p)'
    BY <1>1 DEF WaitsAt
  <2>3. \A q \in Phones \ {p} : WaitsAt(q)'
    BY <1>1, <1>2, <1>3 DEF Reads, WaitsAt
  <2> QED BY <2>1, <2>2, <2>3 DEF Reads, StillReads
<1>4. ASSUME Reads, Tellings, untrue' \cap {"ok", "refused"} = {} PROVE Tellings'
  <2>1. CommitsAt(p)'
    BY <1>1 DEF CommitsAt
  <2>2. \A q \in Phones \ {p} : CommitsAt(q)'
    BY <1>1, <1>2, <1>4 DEF Tellings, CommitsAt
  <2> QED BY <1>4, <2>1, <2>2 DEF Tellings
<1> QED BY <1>3, <1>4

\* A read takes a chunk: keeps it, or shows what it has.
LEMMA CollectsReads ==
  ASSUME Typed, NEW p \in Phones, NEW c \in Callers, c = pending[p], ClientOf[c] = p,
         Gets(p, "chunk"), caller[c].at = "read", UNCHANGED <<config, up>>,
         Collects(c, Head(down[p]))
  PROVE  (Reads => Reads') /\ (Reads /\ Tellings => Tellings')
<1> DEFINE f == Head(down[p])
<1>1. /\ down[p] # <<>> /\ down'[p] = Tail(down[p]) /\ f.kind = "chunk" /\ f \in Frame
      /\ \A q \in Phones \ {p} : down'[q] = down[q]
  BY GetsTyped
<1>2. /\ caller[c] \in Calling /\ caller \in [Callers -> Calling]
      /\ Queues(up[p], down[p])
  BY DEF Typed, Queues
<1>3. /\ caller' = [caller EXCEPT ![c].chunks = With(c, f)]
      /\ UNCHANGED <<pending, untrue>>
  BY DEF Collects
<1>4. /\ \A d \in Callers \ {c} : caller'[d] = caller[d]
      /\ caller'[c].at = "read" /\ caller'[c].alone = caller[c].alone
      /\ caller'[c].since = caller[c].since /\ caller'[c].chunks = With(c, f)
  <2> DEFINE w == With(c, f)
  <2> HIDE DEF w
  <2>1. caller' = [caller EXCEPT ![c].chunks = w]
    BY <1>3 DEF w
  <2>2. /\ \A d \in Callers \ {c} : caller'[d] = caller[d]
        /\ caller'[c].at = "read" /\ caller'[c].alone = caller[c].alone
        /\ caller'[c].since = caller[c].since /\ caller'[c].chunks = w
    BY <1>2, <2>1 DEF Calling
  <2> QED BY <2>2 DEF w
<1>5. ASSUME Reads PROVE Reads'
  <2>1. StillReads
    BY <1>3, <1>4, <1>5 DEF Reads, StillReads
  <2>2. ASSUME caller[c].alone PROVE Waits(caller'[c], up'[p], down'[p])
    <3>1. Waits(caller[c], up[p], down[p])
      BY <1>5, <2>2, Constants DEF Reads, WaitsAt
    <3>2. PICK V \in caller[c].since :
            /\ Len(V) \in Offset
            /\ \A i \in DOMAIN up[p] : up[p][i].op \in {"begin", "chunk"}
            /\ \A i \in DOMAIN down[p] : down[p][i].kind = "chunk" => Piece(down[p][i], V)
            /\ \A k \in Offset : \/ With(c, f)[k] = Blank
                                 \/ k <= Len(V) /\ With(c, f)[k] = V[k]
      <4>1. caller[c].since \in SUBSET Seq(Cell)
        BY <1>2 DEF Calling
      <4> QED BY <1>1, <1>2, <3>1, <4>1, Collected
    <3>3. \A i \in DOMAIN down'[p] : down'[p][i].kind = "chunk" => Piece(down'[p][i], V)
      <4>1. \A i \in DOMAIN Tail(down[p]) : i + 1 \in DOMAIN down[p] /\ Tail(down[p])[i] = down[p][i + 1]
        BY <1>1, <1>2, TailElements DEF Queues
      <4> QED BY <1>1, <3>2, <4>1
    <3>4. /\ \A i \in DOMAIN up'[p] : up'[p][i].op \in {"begin", "chunk"}
          /\ \A k \in Offset : \/ caller'[c].chunks[k] = Blank
                               \/ k <= Len(V) /\ caller'[c].chunks[k] = V[k]
      BY <1>4, <3>2
    <3>5. V \in caller'[c].since
      BY <1>4
    <3>6. Answered(caller'[c], up'[p], down'[p])
      BY <3>2, <3>3, <3>4, <3>5 DEF Answered
    <3> QED BY <3>6 DEF Waits
  <2>3. WaitsAt(p)'
    BY <1>3, <1>4, <1>5, <2>2 DEF Reads, WaitsAt
  <2>4. ASSUME NEW q \in Phones \ {p} PROVE WaitsAt(q)'
    <3>1. pending[q] # NoOne => pending[q] \in Callers /\ ClientOf[pending[q]] = q
      BY <1>5 DEF Reads, WaitsAt, Typed
    <3> QED BY <1>1, <1>3, <1>4, <1>5, <3>1 DEF Reads, WaitsAt
  <2> QED BY <2>1, <2>3, <2>4 DEF Reads, StillReads
<1>6. ASSUME Reads, Tellings PROVE Tellings'
  <2>1. CommitsAt(p)'
    BY <1>3, <1>4 DEF CommitsAt
  <2>2. ASSUME NEW q \in Phones \ {p} PROVE CommitsAt(q)'
    <3>1. pending[q] # NoOne => pending[q] \in Callers /\ ClientOf[pending[q]] = q
      BY <1>6 DEF Reads, WaitsAt, Typed
    <3> QED BY <1>1, <1>3, <1>4, <1>6, <3>1 DEF Tellings, CommitsAt
  <2> QED BY <1>3, <1>6, <2>1, <2>2 DEF Tellings
<1> QED BY <1>5, <1>6

\* The reply is complete: it is a version the board had, and never too long.
LEMMA ShowsTrue ==
  ASSUME Typed, Reads, NEW p \in Phones, NEW c \in Callers, c = pending[p],
         Gets(p, "chunk"), caller[c].at = "read", caller[c].alone,
         Complete(With(c, Head(down[p])), Head(down[p]).total)
  PROVE  /\ SubSeq(With(c, Head(down[p])), 1, Head(down[p]).total) \in caller[c].since
         /\ ~ \E i \in Received(With(c, Head(down[p]))) : i > Head(down[p]).total
<1> DEFINE f == Head(down[p])
           w == With(c, f)
<1>1. /\ down[p] # <<>> /\ f.kind = "chunk" /\ f \in Frame
  BY GetsTyped
<1>2. /\ caller[c] \in Calling /\ Queues(up[p], down[p])
      /\ caller[c].since \in SUBSET Seq(Cell)
  BY DEF Typed, Queues, Calling
<1>3. Waits(caller[c], up[p], down[p])
  BY Constants DEF Reads, WaitsAt
<1>4. PICK V \in caller[c].since :
        /\ Len(V) \in Offset /\ f.total = Len(V) /\ w \in [Offset -> Cell]
        /\ \A k \in Offset : w[k] = Blank \/ (k <= Len(V) /\ w[k] = V[k])
  BY <1>1, <1>2, <1>3, Collected
<1>5. V \in Seq(Cell)
  BY <1>2
<1> HIDE DEF w, f
<1>6. Complete(w, Len(V))
  BY <1>4 DEF w, f
<1>7. SubSeq(w, 1, Len(V)) = V /\ ~ \E i \in Received(w) : i > Len(V)
  BY <1>4, <1>5, <1>6, CollectedAll
<1> QED BY <1>4, <1>7 DEF w, f

LEMMA TakeChunkReads ==
  ASSUME Typed, Reads, NEW p \in Phones, TakeChunk(p)
  PROVE  Reads' /\ (Tellings => Tellings')
<1> DEFINE f == Head(down[p])
<1>1. PICK c \in Callers : c = pending[p]
  BY TakeChunkCases
<1>2. ClientOf[c] = p
  BY <1>1, Constants DEF Reads, WaitsAt
<1>3. /\ Gets(p, "chunk") /\ caller[c].at = "read" /\ UNCHANGED <<config, up>>
      /\ Collects(c, f) \/ Throws(c, f) \/ Shows(c, f)
  BY <1>1, <1>2, TakeChunkCases
<1>4. \A q \in Phones \ {p} : down'[q] = down[q]
  BY <1>3, GetsTyped
<1>5. caller[c] \in Calling /\ caller \in [Callers -> Calling]
  BY DEF Typed
<1>6. CASE Collects(c, f)
  BY <1>1, <1>2, <1>3, <1>6, CollectsReads
<1>7. CASE Throws(c, f)
  <2>1. ~ caller[c].alone
    BY <1>1, <1>3, <1>7, ShowsTrue DEF Throws
  <2>2. /\ caller' = [caller EXCEPT ![c].at = "hung"] /\ Closes(p) /\ untrue' = untrue
    BY <1>2, <1>7 DEF Throws
  <2>3. /\ caller'[c].at = "hung" /\ caller'[c].alone = caller[c].alone
        /\ \A d \in Callers \ {c} : caller'[d] = caller[d]
    BY <1>5, <2>2 DEF Calling
  <2>4. /\ Reads /\ "read" \notin untrue' => Reads'
        /\ Reads /\ Tellings /\ untrue' \cap {"ok", "refused"} = {} => Tellings'
    BY <1>2, <1>3, <1>4, <2>1, <2>2, <2>3, EndedReads
  <2> QED BY <2>2, <2>4 DEF Reads, Tellings
<1>8. CASE Shows(c, f)
  <2>1. /\ Ends(c) /\ Closes(p)
        /\ Tells(c, "read", SubSeq(With(c, f), 1, f.total) \in caller[c].since)
        /\ Complete(With(c, f), f.total)
    BY <1>2, <1>8 DEF Shows
  <2>2. untrue' = untrue
    <3>1. caller[c].alone => SubSeq(With(c, f), 1, f.total) \in caller[c].since
      BY <1>1, <1>3, <2>1, ShowsTrue
    <3> QED BY <2>1, <3>1 DEF Tells
  <2>3. /\ caller'[c].at = "idle" /\ ~ caller'[c].alone
        /\ \A d \in Callers \ {c} : caller'[d] = caller[d]
    BY <2>1, EndsTyped DEF NoCall
  <2>4. /\ Reads /\ "read" \notin untrue' => Reads'
        /\ Reads /\ Tellings /\ untrue' \cap {"ok", "refused"} = {} => Tellings'
    BY <1>2, <1>3, <1>4, <2>1, <2>3, EndedReads
  <2> QED BY <2>2, <2>4 DEF Reads, Tellings
<1> QED BY <1>3, <1>6, <1>7, <1>8

\* The waiter of a commit tells what was done, if it alone was answered.
LEMMA TakeReplyReads ==
  ASSUME Typed, Reads, NEW p \in Phones, TakeReply(p)
  PROVE  Reads' /\ (Tellings => Tellings')
<1> DEFINE f == Head(down[p])
<1>1. PICK c \in Callers : c = pending[p]
  BY TakeReplyParts
<1>2. ClientOf[c] = p
  BY <1>1, Constants DEF Reads, WaitsAt
<1>3. /\ Gets(p, "chunk") \/ Gets(p, "result")
      /\ Ends(c) /\ Closes(p) /\ UNCHANGED <<config, up>>
      /\ \/ /\ caller[c].at = "commit"
            /\ IF Code(f) = 0 THEN Tells(c, "ok", caller[c].applied)
                              ELSE Tells(c, "refused", ~ caller[c].applied)
         \/ UNCHANGED untrue
  BY <1>1, TakeReplyParts
<1>4. /\ \A q \in Phones \ {p} : down'[q] = down[q]
      /\ down[p] # <<>> /\ f \in Frame /\ f.kind \in {"chunk", "result"}
  BY <1>3, GetsTyped
<1>5. /\ caller'[c].at = "idle" /\ ~ caller'[c].alone
      /\ \A d \in Callers \ {c} : caller'[d] = caller[d]
  BY <1>3, EndsTyped DEF NoCall
<1>6. /\ Reads /\ "read" \notin untrue' => Reads'
      /\ Reads /\ Tellings /\ untrue' \cap {"ok", "refused"} = {} => Tellings'
  BY <1>2, <1>3, <1>4, <1>5, EndedReads
<1>7. "read" \notin untrue'
  BY <1>3 DEF Tells, Reads
<1>8. ASSUME Tellings PROVE untrue' \cap {"ok", "refused"} = {}
  <2>1. CASE UNCHANGED untrue
    BY <1>8, <2>1 DEF Tellings
  <2>2. CASE caller[c].at = "commit" /\ ~ caller[c].alone
    BY <1>3, <1>8, <2>2 DEF Tells, Tellings
  <2>3. CASE caller[c].at = "commit" /\ caller[c].alone
    <3>1. Commits(caller[c], up[p], down[p])
      BY <1>1, <1>8, <2>3, Constants DEF Tellings, CommitsAt
    <3>2. 1 \in DOMAIN down[p] /\ f = down[p][1]
      BY <1>4, TailElements DEF Typed
    <3>3. f.kind = "result" /\ f.ok = caller[c].applied
      BY <1>4, <3>1, <3>2 DEF Commits, Committing, Committed
    <3>4. f.ok \in BOOLEAN
      BY <1>4, <3>3, FrameKinds
    <3>5. Code(f) = 0 <=> caller[c].applied
      BY <3>3, <3>4 DEF Code
    <3>6. CASE Code(f) = 0
      BY <1>3, <1>8, <3>5, <3>6 DEF Tells, Tellings
    <3>7. CASE Code(f) # 0
      BY <1>3, <1>8, <3>5, <3>7 DEF Tells, Tellings
    <3> QED BY <3>6, <3>7
  <2> QED BY <1>3, <2>1, <2>2, <2>3
<1> QED BY <1>6, <1>7, <1>8

LEMMA TimeoutReads ==
  ASSUME Typed, Reads, NEW c \in Callers, Timeout(c)
  PROVE  Reads' /\ (Tellings => Tellings')
<1> DEFINE p == ClientOf[c]
<1>1. /\ p \in Phones /\ Ends(c) /\ UNCHANGED <<config, up, down, untrue>>
      /\ UNCHANGED pending \/ Closes(p)


  BY Constants DEF Timeout, board, wire
<1>2. /\ caller'[c].at = "idle" /\ ~ caller'[c].alone
      /\ \A d \in Callers \ {c} : caller'[d] = caller[d]
  BY <1>1, EndsTyped DEF NoCall
<1>3. CASE Closes(p)
  <2>1. /\ Reads /\ "read" \notin untrue' => Reads'
        /\ Reads /\ Tellings /\ untrue' \cap {"ok", "refused"} = {} => Tellings'
    BY <1>1, <1>2, <1>3, EndedReads
  <2> QED BY <1>1, <2>1 DEF Reads, Tellings
<1>4. CASE UNCHANGED pending
  <2>1. StillReads
    BY <1>1, <1>2 DEF Reads, StillReads
  <2>2. \A q \in Phones : WaitsAt(q)'
    <3> TAKE q \in Phones
    <3>1. CASE pending[q] \in Callers \ {c}
      BY <1>1, <1>2, <1>4, <3>1, WaitsElsewhere DEF Reads
    <3>2. CASE pending[q] = c
      <4>1. ClientOf[c] = q
        BY <3>2, Constants DEF Reads, WaitsAt
      <4>2. pending'[q] = c
        BY <1>4, <3>2
      <4> QED BY <1>2, <4>1, <4>2 DEF WaitsAt
    <3>3. CASE pending[q] = NoOne
      BY <1>4, <3>3 DEF WaitsAt
    <3>4. pending[q] \in Callers \cup {NoOne}
      BY DEF Typed
    <3> QED BY <3>1, <3>2, <3>3, <3>4
  <2>3. ASSUME Tellings PROVE Tellings'
    <3>1. \A q \in Phones : CommitsAt(q)'
      BY <1>1, <1>2, <1>4, <2>3 DEF Tellings, CommitsAt, Typed
    <3> QED BY <1>1, <2>3, <3>1 DEF Tellings
  <2> QED BY <2>1, <2>2, <2>3 DEF Reads, StillReads
<1> QED BY <1>1, <1>3, <1>4

LEMMA LinkLostReads ==
  ASSUME Typed, Reads, NEW p \in Phones, LinkLost(p)
  PROVE  Reads' /\ (Tellings => Tellings')
<1>1. /\ UNCHANGED <<config, untrue>> /\ Closes(p)
      /\ \A q \in Phones \ {p} : up'[q] = up[q] /\ down'[q] = down[q]
      /\ \A c \in Callers :
              /\ ClientOf[c] # p => caller'[c] = caller[c]
              /\ ClientOf[c] = p =>
                   \/ caller'[c] = caller[c] /\ caller[c].at \notin {"send", "read", "commit"}
                   \/ caller'[c] = NoCall
                   \/ caller'[c] = [NoCall EXCEPT !.at = "orphan"]
  BY LinkLostParts
<1>2. pending'[p] = NoOne /\ \A q \in Phones \ {p} : pending'[q] = pending[q]
  BY <1>1 DEF Closes, Typed
<1>3. \A c \in Callers : caller'[c] = caller[c] \/ (~ caller'[c].alone /\ caller'[c].at # "read")
  BY <1>1 DEF NoCall
<1>4. StillReads
  BY <1>1, <1>3, SameReads DEF Reads
<1>5. ASSUME NEW q \in Phones \ {p}, pending[q] # NoOne
      PROVE  caller'[pending[q]] = caller[pending[q]]
  <2>1. pending[q] \in Callers /\ ClientOf[pending[q]] = q
    BY <1>5 DEF Reads, WaitsAt, Typed
  <2> QED BY <1>1, <2>1
<1>6. \A q \in Phones : WaitsAt(q)'
  BY <1>1, <1>2, <1>5 DEF Reads, WaitsAt
<1>7. ASSUME Tellings PROVE Tellings'
  <2>1. \A q \in Phones : CommitsAt(q)'
    BY <1>1, <1>2, <1>5, <1>7 DEF Tellings, CommitsAt
  <2> QED BY <1>1, <1>7, <2>1 DEF Tellings
<1> QED BY <1>4, <1>6, <1>7 DEF Reads, StillReads

LEMMA StartReadReads ==
  ASSUME Typed, Reads, NEW c \in Callers, StartRead(c)
  PROVE  Reads' /\ (Tellings => Tellings')
<1> DEFINE p == ClientOf[c]
           m == Message("read", events', 0, 0)
<1>1. /\ p \in Phones /\ m \in Messages /\ Send(p, m)
      /\ pending' = [pending EXCEPT ![p] = c]
      /\ UNCHANGED <<config, down, untrue>>
      /\ \A d \in Callers \ {c} : caller'[d] = caller[d]
      /\ caller'[c].at = "read" /\ caller'[c].since = {config}
      /\ \A k \in Offset : caller'[c].chunks[k] = Blank
      /\ caller'[c].alone => up[p] = <<>> /\ down[p] = <<>>
  BY StartReadParts
<1>2. m.op = "read"
  BY DEF Message
<1> HIDE DEF m
<1>3. up'[p] = Append(up[p], m) /\ \A q \in Phones \ {p} : up'[q] = up[q]
  BY <1>1, SendTyped
<1>4. pending'[p] = c /\ \A q \in Phones \ {p} : pending'[q] = pending[q]
  BY <1>1 DEF Typed
<1>5. ASSUME NEW q \in Phones \ {p}, pending[q] # NoOne
      PROVE  caller'[pending[q]] = caller[pending[q]]
  <2>1. pending[q] \in Callers /\ ClientOf[pending[q]] = q
    BY <1>5 DEF Reads, WaitsAt, Typed
  <2> QED BY <1>1, <2>1
<1>6. StillReads
  BY <1>1 DEF Reads, StillReads
<1>7. WaitsAt(p)'
  <2>1. ASSUME caller'[c].alone PROVE Asked(caller'[c], up'[p], down'[p])
    <3>1. up'[p] = <<m>> /\ down'[p] = <<>>
      BY <1>1, <1>3, <2>1, AppendFirst
    <3>2. DOMAIN <<m>> = {1} /\ <<m>>[1] = m /\ DOMAIN down'[p] = {}
      BY <3>1
    <3> QED BY <1>1, <1>2, <3>1, <3>2 DEF Asked
  <2> QED BY <1>4, <2>1 DEF WaitsAt, Waits
<1>8. \A q \in Phones \ {p} : WaitsAt(q)'
  BY <1>1, <1>3, <1>4, <1>5 DEF Reads, WaitsAt
<1>9. ASSUME Tellings PROVE Tellings'
  <2>1. CommitsAt(p)'
    BY <1>1, <1>4 DEF CommitsAt
  <2>2. \A q \in Phones \ {p} : CommitsAt(q)'
    BY <1>1, <1>3, <1>4, <1>5, <1>9 DEF Tellings, CommitsAt
  <2> QED BY <1>1, <1>9, <2>1, <2>2 DEF Tellings
<1> QED BY <1>6, <1>7, <1>8, <1>9 DEF Reads, StillReads

LEMMA StartWriteReads ==
  ASSUME Typed, Reads, NEW c \in Callers, StartWrite(c)
  PROVE  Reads' /\ (Tellings => Tellings')
<1> DEFINE p == ClientOf[c]
<1>1. PICK n \in Sizes :
             /\ p \in Phones /\ Message("begin", events', 0, n) \in Messages
             /\ Send(p, Message("begin", events', 0, n))
             /\ UNCHANGED <<config, down, pending, untrue>>
             /\ \A d \in Callers \ {c} : caller'[d] = caller[d]
             /\ caller'[c].at = "send" /\ ~ caller'[c].alone
  BY StartWriteParts
<1> DEFINE m == Message("begin", events', 0, n)
<1>2. m \in Messages /\ m.op = "begin"
  BY <1>1 DEF Message
<1>3. up'[p] = Append(up[p], m) /\ \A q \in Phones \ {p} : up'[q] = up[q]
  BY <1>1, SendTyped
<1> HIDE DEF m
<1>4. Queues(up[p], down[p])
  BY <1>1 DEF Queues, Typed
<1>5. \A l : /\ Waits(l, up[p], down[p]) => Waits(l, up'[p], down[p])
             /\ Commits(l, up[p], down[p]) => Commits(l, up'[p], down[p])
  BY <1>2, <1>3, <1>4, WaitsSent
<1>6. StillReads
  BY <1>1 DEF Reads, StillReads
<1>7. ASSUME NEW q \in Phones, pending[q] # NoOne
      PROVE  /\ pending[q] \in Callers
             /\ caller'[pending[q]] = caller[pending[q]] \/ caller'[pending[q]].at = "send"
  BY <1>1, <1>7 DEF Typed
<1>8. \A q \in Phones : WaitsAt(q)'
  BY <1>1, <1>3, <1>5, <1>7 DEF Reads, WaitsAt
<1>9. ASSUME Tellings PROVE Tellings'
  <2>1. \A q \in Phones : CommitsAt(q)'
    BY <1>1, <1>3, <1>5, <1>7, <1>9 DEF Tellings, CommitsAt
  <2> QED BY <1>1, <1>9, <2>1 DEF Tellings
<1> QED BY <1>6, <1>8, <1>9 DEF Reads, StillReads

-----------------------------------------------------------------------------
(* The invariant                                                           *)


LEMMA TransferInitial == TransferInit => TransferInvariant
<1> SUFFICES ASSUME TransferInit PROVE TransferInvariant
  OBVIOUS
<1>1. PICK n \in Sizes : config = Json(0, n)
  BY DEF TransferInit
<1>2. /\ staging = [p \in Phones |-> NoStaging]
      /\ up = [p \in Phones |-> <<>>] /\ down = [p \in Phones |-> <<>>]
      /\ pending = [p \in Phones |-> NoOne]
      /\ caller = [c \in Callers |-> NoCall]
      /\ events = 0 /\ untrue = {} /\ mixed = FALSE
  BY DEF TransferInit
<1>3. n \in Nat /\ 1 <= n /\ n \in Offset /\ 0 \in Call
  <2>1. \A k \in Sizes : k \in Nat /\ 1 <= k /\ k \in Offset /\ 0 \in Call
    BY Constants
  <2> QED BY <2>1
<1>4. config \in Seq(Cell) /\ Len(config) = n /\ Whole(config)
  <2>1. [write |-> 0, size |-> n] \in Cell
    BY <1>3 DEF Cell, Block
  <2>2. config \in [1 .. n -> Cell] /\ config = [i \in 1 .. n |-> [write |-> 0, size |-> n]]
    BY <1>1, <2>1 DEF Json
  <2>3. config \in Seq(Cell) /\ Len(config) = n
    BY <1>3, <2>2, SeqDef
  <2>4. config[1] = [write |-> 0, size |-> n]
    BY <1>3, <2>2
  <2> QED BY <1>1, <2>3, <2>4 DEF Whole
<1>5. Typed
  <2>1. staging \in [Phones -> Stage] /\ caller \in [Callers -> Calling]
    BY <1>2, NoStagingType, NoCallType
  <2>2. /\ \A p \in Phones : staging[p].got <= staging[p].total
        /\ \A p \in Phones : staging[p].active => staging[p].total \in Sizes
    BY <1>2, NoStagingType DEF Bounded
  <2>3. up \in [Phones -> Seq(Messages)] /\ down \in [Phones -> Seq(Frame)]
    BY <1>2
  <2>4. \A c \in Callers : caller[c].at = "idle"
    BY <1>2 DEF NoCall
  <2>5. \A c \in Callers : caller[c].at = "send" =>
          caller[c].size \in Sizes /\ caller[c].next \in 1 .. Largest + 1
    BY <2>4
  <2>6. /\ pending \in [Phones -> Callers \cup {NoOne}]
        /\ events \in Call /\ untrue \subseteq {"read", "ok", "refused"} /\ mixed \in BOOLEAN
    BY <1>2, <1>3
  <2>7. config \in Seq(Cell) /\ Len(config) \in Offset /\ Whole(config)
    BY <1>3, <1>4
  <2> QED BY <2>1, <2>2, <2>3, <2>5, <2>6, <2>7 DEF Typed
<1>6. \A c \in Callers : /\ caller[c].at = "idle" /\ caller[c].id = 0 /\ ~ caller[c].alone
  BY <1>2 DEF NoCall
<1>7. \A p \in Phones : DOMAIN up[p] = {} /\ DOMAIN down[p] = {}
  BY <1>2
<1>8. Numbered
  BY <1>2, <1>6, <1>7 DEF Numbered, Writing
<1>9. Reads
  BY <1>2, <1>6 DEF Reads, WaitsAt
<1>10. Ordered
  <2>1. \A p \in Phones : OrderedAt(p)
    BY <1>2, <1>6, <1>7, NoStagingType DEF OrderedAt, Intact, NoWrites, Sending
  <2> QED BY <1>4, <2>1 DEF Ordered
<1>11. Tellings
  BY <1>2 DEF Tellings, CommitsAt
<1> QED BY <1>5, <1>8, <1>9, <1>10, <1>11 DEF TransferInvariant, OrderedIfSo, TellingsIfSo

LEMMA TransferTyped ==
  ASSUME Typed, TransferNext PROVE Typed'
<1>1. ASSUME NEW c \in Callers, StartRead(c) \/ StartWrite(c) \/ Timeout(c) PROVE Typed'
  BY <1>1, StartReadTyped, StartWriteTyped, TimeoutTyped
<1>2. ASSUME NEW p \in Phones, Handle(p) \/ Take(p) \/ LinkLost(p) PROVE Typed'
  BY <1>2, HandleReadTyped, HandleBeginTyped, HandleChunkTyped, HandleCommitTyped,
     TakeAckTyped, UnexpectedTyped, TakeChunkTyped, TakeReplyTyped, LinkLostTyped
     DEF Handle, Take
<1> QED BY <1>1, <1>2 DEF TransferNext

LEMMA TransferNumbered ==
  ASSUME Typed, Typed', Numbered, TransferNext PROVE Numbered'
<1>1. ASSUME NEW c \in Callers, StartRead(c) \/ StartWrite(c) \/ Timeout(c) PROVE Numbered'
  BY <1>1, StartNumbered, TimeoutNumbered
<1>2. ASSUME NEW p \in Phones, Handle(p) \/ Take(p) \/ LinkLost(p) PROVE Numbered'
  BY <1>2, HandleNumbered, TakeAckNumbered, TakenNumbered, LinkLostNumbered DEF Take
<1> QED BY <1>1, <1>2 DEF TransferNext

LEMMA TransferOrdered ==
  ASSUME Typed, Typed', Numbered, Ordered, TransferNext, ~ mixed' PROVE Ordered'
<1>1. ASSUME NEW c \in Callers, StartRead(c) \/ StartWrite(c) \/ Timeout(c) PROVE Ordered'
  BY <1>1, StartReadOrdered, StartWriteOrdered, TimeoutOrdered
<1>2. ASSUME NEW p \in Phones, Handle(p) PROVE Ordered'
  BY <1>2, HandleReadOrdered, HandleBeginOrdered, HandleChunkOrdered, HandleCommitOrdered DEF Handle
<1>3. ASSUME NEW p \in Phones, Take(p) \/ LinkLost(p) PROVE Ordered'
  BY <1>3, TakeAckOrdered, TakenOrdered, LinkLostOrdered DEF Take
<1> QED BY <1>1, <1>2, <1>3 DEF TransferNext

LEMMA TransferReads ==
  ASSUME Typed, Typed', Numbered, Reads, TransferNext
  PROVE  Reads' /\ (Ordered /\ Tellings => Tellings')
<1>1. ASSUME NEW c \in Callers, StartRead(c) \/ StartWrite(c) \/ Timeout(c)
      PROVE  Reads' /\ (Tellings => Tellings')
  BY <1>1, StartReadReads, StartWriteReads, TimeoutReads
<1>2. ASSUME NEW p \in Phones, Handle(p)
      PROVE  Reads' /\ (Ordered /\ Tellings => Tellings')
  BY <1>2, HandleReadReads, HandleBeginReads, HandleChunkReads, HandleCommitReads,
     HandleCommitTellings DEF Handle
<1>3. ASSUME NEW p \in Phones, Take(p) \/ LinkLost(p)
      PROVE  Reads' /\ (Tellings => Tellings')
  BY <1>3, TakeAckReads, UnexpectedReads, TakeChunkReads, TakeReplyReads, LinkLostReads DEF Take
<1> QED BY <1>1, <1>2, <1>3 DEF TransferNext

\* That two writes of a phone were sent at once is not forgotten.
LEMMA MixedStays == ASSUME Typed, TransferNext, mixed PROVE mixed'
<1>1. ASSUME NEW c \in Callers, StartRead(c) \/ StartWrite(c) \/ Timeout(c) PROVE mixed'
  BY <1>1, StartReadParts, StartWriteParts DEF Timeout
<1>2. ASSUME NEW p \in Phones, Handle(p) PROVE mixed'
  BY <1>2, HandleChunkCases, HandleCommitCases DEF Handle, HandleRead, HandleBegin
<1>3. ASSUME NEW p \in Phones, Take(p) \/ LinkLost(p) PROVE mixed'
  BY <1>3, TakeAckCases, TakeChunkCases, TakeReplyParts, LinkLostParts DEF Take, Unexpected
<1> QED BY <1>1, <1>2, <1>3 DEF TransferNext

LEMMA TransferStep == TransferInvariant /\ [TransferNext]_transferVars => TransferInvariant'
<1> SUFFICES ASSUME TransferInvariant, [TransferNext]_transferVars PROVE TransferInvariant'
  OBVIOUS
<1> USE DEF TransferInvariant
<1>1. CASE TransferNext
  <2>1. Typed'
    BY <1>1, TransferTyped
  <2>2. Numbered'
    BY <1>1, <2>1, TransferNumbered
  <2>3. Reads'
    BY <1>1, <2>1, TransferReads
  <2>4. ~ mixed' => ~ mixed
    BY <1>1, MixedStays
  <2>5. OrderedIfSo'
    BY <1>1, <2>1, <2>4, TransferOrdered DEF OrderedIfSo
  <2>6. TellingsIfSo'
    BY <1>1, <2>1, <2>4, TransferReads DEF OrderedIfSo, TellingsIfSo
  <2> QED BY <2>1, <2>2, <2>3, <2>5, <2>6
<1>2. CASE UNCHANGED transferVars
  <2>1. UNCHANGED <<config, staging, up, down, pending, caller, events, untrue, mixed>>
    BY <1>2 DEF transferVars, board, wire
  <2>2. Typed'
    BY <2>1 DEF Typed
  <2>3. Numbered'
    BY <2>1 DEF Numbered, Owns, Writing, Sending
  <2>4. Reads' /\ (Tellings => Tellings')
    BY <2>1 DEF Reads, WaitsAt, Tellings, CommitsAt
  <2>5. Ordered => Ordered'
    BY <2>1 DEF Ordered, OrderedAt, Sending
  <2> QED BY <2>1, <2>2, <2>3, <2>4, <2>5 DEF OrderedIfSo, TellingsIfSo
<1> QED BY <1>1, <1>2

\* The configuration in force is one that a client wrote as a whole, unless two
\* writes of one phone were sent at once, and every part of the state has its
\* type: for any number of phones, callers and blocks.
THEOREM TransferIsSound == TransferSpec => []TransferSound
<1>1. TransferInvariant => TransferSound
  <2> SUFFICES ASSUME TransferInvariant PROVE TransferSound
    OBVIOUS
  <2>1. /\ config \in Seq(Block \cup {Blank})
        /\ pending \in [Phones -> Callers \cup {NoOne}]
        /\ events \in Call /\ untrue \subseteq {"read", "ok", "refused"} /\ mixed \in BOOLEAN
    BY DEF TransferInvariant, Typed, Cell
  <2>2. \A p \in Phones :
          /\ staging[p].buf \in [Offset -> Block \cup {Blank}]
          /\ staging[p].got <= staging[p].total /\ staging[p].active \in BOOLEAN
    BY DEF TransferInvariant, Typed, Cell, Stage
  <2>3. \A c \in Callers :
          /\ caller[c].at \in {"idle", "send", "read", "commit", "orphan", "hung"}
          /\ caller[c].id \in Call
    BY DEF TransferInvariant, Typed, Calling
  <2>4. ~ mixed => Whole(config)
    BY DEF TransferInvariant, OrderedIfSo, Ordered
  <2> QED BY <2>1, <2>2, <2>3, <2>4 DEF TransferSound, TypeOK
<1> QED BY <1>1, TransferInitial, TransferStep, PTL DEF TransferSpec

\* What a call ends with is so: a read alone on its phone gets a configuration
\* that was in force after it asked, and a write alone on its phone is told of
\* its own commit, unless two writes of its phone were sent at once.
THEOREM RepliesAreTrue == TransferSpec => []RepliesTrue
<1>1. TransferInvariant => RepliesTrue
  BY DEF TransferInvariant, Reads, TellingsIfSo, Tellings, RepliesTrue, ReadsWhole, ToldTrue
<1> QED BY <1>1, TransferInitial, TransferStep, PTL DEF TransferSpec

=============================================================================
