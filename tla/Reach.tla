------------------------------- MODULE Reach -------------------------------
(***************************************************************************)
(* How the phone finds its board and keeps it: BoardSession's watcher, its *)
(* attempts, the rider's taps and disconnects, and the advertising of the  *)
(* boards.                                                                 *)
(*                                                                         *)
(* The app is one thread: what runs between two awaits is one step.  An    *)
(* attempt is the promise that establishSession() starts, with a client of *)
(* its own; those who wait for it are the watcher and the rider's tap.     *)
(* A connection attempt has no timeout: it waits until the board is there. *)
(***************************************************************************)
EXTENDS Integers, FiniteSets

CONSTANTS
  Devices,         \* the boards
  Clients,         \* bound: the attempts and clients that exist at a time
  None,            \* no device, no client
  Taps, Disconnects  \* bounds: what the rider does

ASSUME ReachAssumption ==
  /\ None \notin Devices /\ None \notin Clients
  /\ Taps \in Nat /\ Disconnects \in Nat

VARIABLES
  state,       \* BoardSessionState: type, and the client and device of "connected"
  started, stopRequested,
  loading,     \* start() awaits loadLastDevice()
  radioSub,    \* the device the radio subscription is for
  retryTimer,  \* the device the retry timer is for
  watchingFor,
  lastDevice,  \* KeyStore: the device of the last session
  inFlight,    \* the client of the attempt that is registered
  attempt,     \* each client's attempt: where it is, for which device
  waiting,     \* who awaits an attempt, or the identity before one
  adopted,     \* the clients with a disconnect handler
  closing,     \* the clients whose connection stop() is cancelling
  linked,      \* the clients whose connection is up
  halfOpen,    \* the devices connected without a client that knows
  advertising, \* the boards that advertise
  boardLinked, \* the boards that have the connection of this phone
  taps, disconnects,  \* so far
  calm         \* history: the rider, the radio and the range rest from now on

session == <<state, started, stopRequested, loading, radioSub, retryTimer, watchingFor>>
tries == <<lastDevice, inFlight, attempt, waiting>>
links == <<adopted, closing, linked, halfOpen>>
boards == <<advertising, boardLinked>>
world == <<taps, disconnects, calm>>
vars == <<session, tries, links, boards, world>>

NoAttempt == [at |-> "none", device |-> None]
State(type) == [type |-> type, client |-> None, device |-> None]
Connected(c) == [type |-> "connected", client |-> c, device |-> attempt[c].device]

Init ==
  /\ state = State("idle") /\ started = FALSE /\ stopRequested = FALSE /\ loading = FALSE
  /\ radioSub = None /\ retryTimer = None /\ watchingFor = None
  /\ lastDevice \in Devices \cup {None}
  /\ inFlight = None /\ attempt = [c \in Clients |-> NoAttempt] /\ waiting = {}
  /\ adopted = {} /\ closing = {} /\ linked = {} /\ halfOpen = {}
  /\ advertising = Devices /\ boardLinked = {}
  /\ taps = 0 /\ disconnects = 0 /\ calm = FALSE

-----------------------------------------------------------------------------
(* Watching                                                                *)

WatchFor(d) ==
  /\ radioSub' = d
  /\ retryTimer' = None
  /\ watchingFor' = d
  /\ state' = State("watching")

\* The screen shown while there is no connection starts the session.
Start ==
  /\ ~ started /\ state.type # "connected"
  /\ started' = TRUE /\ stopRequested' = FALSE
  /\ loading' = TRUE
  /\ UNCHANGED <<state, radioSub, retryTimer, watchingFor, tries, links, boards, world>>

StartLoaded ==
  /\ loading
  /\ loading' = FALSE
  /\ IF lastDevice = None
     THEN state' = State("idle") /\ UNCHANGED <<radioSub, retryTimer, watchingFor>>
     ELSE WatchFor(lastDevice)
  /\ UNCHANGED <<started, stopRequested, tries, links, boards, world>>

\* The radio is on: the watcher begins an attempt, the identity first.
RadioOn ==
  /\ radioSub # None
  /\ radioSub' = None
  /\ state' = State("connecting")
  /\ waiting' = waiting \cup
       {[who |-> "watcher", device |-> radioSub, client |-> None, previous |-> None]}
  /\ UNCHANGED <<started, stopRequested, loading, retryTimer, watchingFor,
                 lastDevice, inFlight, attempt, links, boards, world>>

Retry ==
  /\ retryTimer # None
  /\ WatchFor(retryTimer)
  /\ UNCHANGED <<started, stopRequested, loading, tries, links, boards, world>>

-----------------------------------------------------------------------------
(* An attempt                                                              *)

\* A client that nothing refers to any more.
Free(c) ==
  \/ attempt[c].at = "none"
  \/ /\ attempt[c].at = "resolved" /\ c \notin linked \cup {state.client}
     /\ \A w \in waiting : w.client # c

\* A caller for the device of the registered attempt joins it.
Joins(d) == {c \in {inFlight} \ {None} : attempt[c].device = d}

\* establishSession(): w waits for an attempt, its own or the registered one.
Establish(w) ==
  IF Joins(w.device) # {}
  THEN /\ waiting' = (waiting \ {w}) \cup {[w EXCEPT !.client = inFlight]}
       /\ UNCHANGED <<inFlight, attempt, adopted>>
  ELSE LET c == CHOOSE c \in Clients : Free(c)
       IN
       /\ \E e \in Clients : Free(e)
       /\ attempt' = [attempt EXCEPT ![c] = [at |-> "connect", device |-> w.device]]
       /\ adopted' = adopted \ {c}
       /\ inFlight' = c
       /\ waiting' = (waiting \ {w}) \cup {[w EXCEPT !.client = c]}

IdentityLoaded(w) ==
  /\ w \in waiting /\ w.client = None
  /\ state' = State("authenticating")
  /\ Establish(w)
  /\ UNCHANGED <<started, stopRequested, loading, radioSub, retryTimer, watchingFor,
                 lastDevice, closing, linked, halfOpen, boards, world>>

\* The attempt moves on; whoever waits for it sees that later.
Goes(c, at) == attempt' = [attempt EXCEPT ![c].at = at]
Settles(c, at) == Goes(c, at) /\ inFlight' = IF inFlight = c THEN None ELSE inFlight

\* The devices this phone is connected to.
Held == halfOpen \cup {attempt[c].device : c \in linked}

\* connectToDevice() resolves once the board is in range and advertises, which
\* stops by itself on a connection.
LinkUp(c) ==
  LET d == attempt[c].device
  IN  /\ attempt[c].at = "connect"
      /\ d \in advertising \ Held
      /\ Goes(c, "link")
      /\ linked' = linked \cup {c}
      /\ advertising' = advertising \ {d}
      /\ boardLinked' = boardLinked \cup {d}
      /\ UNCHANGED <<session, lastDevice, inFlight, waiting, adopted, closing, halfOpen, world>>

\* Two clients of one device.
Contended(c) ==
  \E e \in Clients \ {c} : /\ attempt[e].device = attempt[c].device
                           /\ attempt[e].at = "connect" \/ e \in linked

\* connectToDevice() fails: the radio, or the device is being connected already.
LinkFails(c) ==
  /\ attempt[c].at = "connect"
  /\ ~ calm \/ Contended(c)
  /\ Settles(c, "failed")
  /\ UNCHANGED <<session, lastDevice, waiting, links, boards, world>>

\* The services are discovered and the session authenticates, enrolling if need
\* be.  A failed discovery leaves the transport without a device: disconnect()
\* has nothing to cancel.  A rejection closes the connection.
Authenticate(c) ==
  /\ attempt[c].at = "link" /\ c \in linked
  /\ \/ Goes(c, "save") /\ UNCHANGED <<inFlight, linked, halfOpen>>
     \/ /\ ~ calm /\ Settles(c, "failed")
        /\ linked' = linked \ {c}
        /\ halfOpen' = halfOpen \cup {attempt[c].device}
     \/ /\ ~ calm /\ Settles(c, "rejected")
        /\ linked' = linked \ {c} /\ UNCHANGED halfOpen
  /\ UNCHANGED <<session, lastDevice, waiting, adopted, closing, boards, world>>

\* saveLastDevice() is done: the promise resolves with the client.  Or the
\* storage fails, and the connection is closed.
Save(c) ==
  /\ attempt[c].at = "save"
  /\ \/ lastDevice' = attempt[c].device /\ Settles(c, "resolved") /\ UNCHANGED linked
     \/ ~ calm /\ Settles(c, "failed") /\ linked' = linked \ {c} /\ UNCHANGED lastDevice
  /\ UNCHANGED <<session, waiting, adopted, closing, halfOpen, boards, world>>

\* adoptSession(): the client is taken for connected.
Adopt(c) == state' = Connected(c) /\ adopted' = adopted \cup {c}

\* Whoever awaited the attempt goes on.
Resolved(w) ==
  /\ w \in waiting /\ w.client # None /\ attempt[w.client].at = "resolved"
  /\ Adopt(w.client)
  /\ waiting' = waiting \ {w}
  /\ UNCHANGED <<started, stopRequested, loading, radioSub, retryTimer, watchingFor,
                 lastDevice, inFlight, attempt, closing, linked, halfOpen, boards, world>>

Failed(w) == w \in waiting /\ w.client # None /\ attempt[w.client].at \in {"failed", "rejected"}

\* Mutant: the watcher gives up after a rejection.
WatcherGivesUp(w) ==
  /\ state' = State("error")
  /\ retryTimer' = IF attempt[w.client].at = "rejected" THEN None ELSE w.device
  /\ UNCHANGED <<radioSub, watchingFor>>

\* attemptConnect()'s catch: the watcher tries again after a while.
WatcherRetries(w) ==
  /\ state' = State("error")
  /\ retryTimer' = w.device
  /\ UNCHANGED <<radioSub, watchingFor>>

\* connectManually()'s catch: what was watched before is watched again.
TapGivesUp(w) ==
  IF w.previous # None
  THEN WatchFor(w.previous)
  ELSE state' = State("idle") /\ UNCHANGED <<radioSub, retryTimer, watchingFor>>

AttemptFailed(w) ==
  /\ Failed(w)
  /\ IF w.who = "watcher" THEN WatcherRetries(w) ELSE TapGivesUp(w)
  /\ waiting' = waiting \ {w}
  /\ attempt' = IF \E v \in waiting \ {w} : v.client = w.client
                THEN attempt ELSE [attempt EXCEPT ![w.client] = NoAttempt]
  /\ UNCHANGED <<started, stopRequested, loading, lastDevice, inFlight,
                 links, boards, world>>

-----------------------------------------------------------------------------
(* Connections that end                                                    *)

\* The disconnect handler of adoptSession().
Lost(c) ==
  IF c \in adopted /\ ~ stopRequested
  THEN WatchFor(attempt[c].device)
  ELSE UNCHANGED <<state, radioSub, retryTimer, watchingFor>>

Forget(c) == attempt' = [attempt EXCEPT ![c] = NoAttempt] /\ adopted' = adopted \ {c}

\* The phone loses a connection: an attempt under way fails, the handler runs.
\* While the device is saved nobody listens yet.
Drop(c) ==
  /\ c \in linked \ closing
  /\ ~ calm \/ attempt[c].device \notin boardLinked
  /\ linked' = linked \ {c}
  /\ Lost(c)
  /\ CASE attempt[c].at = "link" -> Settles(c, "failed") /\ UNCHANGED adopted
       [] attempt[c].at = "save" -> UNCHANGED <<attempt, inFlight, adopted>>
       [] attempt[c].at = "resolved" -> Forget(c) /\ UNCHANGED inFlight
  /\ UNCHANGED <<started, stopRequested, loading, lastDevice, waiting, closing,
                 halfOpen, boards, world>>

HalfOpenDrops(d) ==
  /\ d \in halfOpen
  /\ ~ calm \/ d \notin boardLinked
  /\ halfOpen' = halfOpen \ {d}
  /\ UNCHANGED <<session, tries, adopted, closing, linked, boards, world>>

\* Mutant: the board does not advertise again.
StaysSilent(d) == UNCHANGED advertising

\* advertise(): connectable, with or without a connection.
Advertise(d) == advertising' = advertising \cup {d}

\* BLE_GAP_EVENT_DISCONNECT at the board.
BoardDrops(d) ==
  /\ d \in boardLinked
  /\ ~ calm \/ d \notin Held
  /\ boardLinked' = boardLinked \ {d}
  /\ Advertise(d)
  /\ UNCHANGED <<session, tries, links, world>>

\* A rename or another power profile restarts the advertising.
Readvertise(d) ==
  /\ ~ calm
  /\ Advertise(d)
  /\ UNCHANGED <<boardLinked, session, tries, links, world>>

-----------------------------------------------------------------------------
(* The rider, and what is around the phone                                 *)

\* stop(): Disconnect on the screen of the session.
Stop ==
  /\ ~ calm /\ disconnects < Disconnects
  /\ state.type = "connected"
  /\ started' = FALSE /\ stopRequested' = TRUE
  /\ radioSub' = None /\ retryTimer' = None /\ watchingFor' = None
  /\ state' = State("idle")
  /\ closing' = closing \cup ({state.client} \cap linked)
  /\ disconnects' = disconnects + 1
  /\ UNCHANGED <<loading, tries, adopted, linked, halfOpen, boards, taps, calm>>

\* The cancelled connection ends: its handler runs, stop() may be past.
Closed(c) ==
  /\ c \in closing
  /\ closing' = closing \ {c}
  /\ linked' = linked \ {c}
  /\ Lost(c) /\ Forget(c)
  /\ UNCHANGED <<started, stopRequested, loading, lastDevice, inFlight, waiting,
                 halfOpen, boards, world>>

\* connectManually(): one at a time, from the screen without a session, which
\* called start() when it was mounted.
Tap(d) ==
  LET w == [who |-> "tap", device |-> d, client |-> None, previous |-> watchingFor]
  IN  /\ ~ calm /\ taps < Taps
      /\ started /\ state.type # "connected" /\ \A v \in waiting : v.who # "tap"
      /\ started' = TRUE /\ stopRequested' = FALSE
      /\ radioSub' = None /\ retryTimer' = None /\ watchingFor' = None
      /\ state' = State("authenticating")
      /\ Establish(w)
      /\ taps' = taps + 1
      /\ UNCHANGED <<loading, lastDevice, closing, linked, halfOpen, boards, disconnects, calm>>

\* From here on the boards stay near, the radio works and the rider waits.
CalmDown ==
  /\ ~ calm
  /\ calm' = TRUE
  /\ UNCHANGED <<session, tries, links, boards, taps, disconnects>>

-----------------------------------------------------------------------------
\* A promise that is settled: its continuations run before any other event.
Settled(w) == w.client # None /\ attempt[w.client].at \in {"resolved", "failed", "rejected"}
Quiet == \A w \in waiting : ~ Settled(w)

Continuations == \E w \in waiting : Resolved(w) \/ AttemptFailed(w)

AppEvents ==
  \/ StartLoaded \/ RadioOn \/ Retry
  \/ \E w \in waiting : IdentityLoaded(w)
  \/ \E c \in Clients : Authenticate(c) \/ Save(c) \/ Closed(c)

LinkEvents ==
  \/ \E c \in Clients : LinkUp(c) \/ LinkFails(c) \/ Drop(c)
  \/ \E d \in Devices : HalfOpenDrops(d) \/ BoardDrops(d) \/ Readvertise(d)

RiderEvents ==
  \/ Start \/ Stop \/ CalmDown
  \/ \E d \in Devices : Tap(d)

Next == \/ Continuations
        \/ Quiet /\ (AppEvents \/ LinkEvents \/ RiderEvents)

\* Attempts move on, and what can happen to a link happens.
AttemptSteps == \E c \in Clients : Authenticate(c) \/ Save(c) \/ Closed(c)
LinkSteps == \/ \E c \in Clients : LinkUp(c) \/ Drop(c)
             \/ \E d \in Devices : HalfOpenDrops(d) \/ BoardDrops(d)

\* The app's own tasks and timers run, and the screen starts the session.  The
\* links are fair once calm; strong, for a failing attempt disables the events
\* while its continuations run, and may do so again and again.
Fairness ==
  /\ WF_vars(Continuations)
  /\ WF_vars(Quiet /\ Start) /\ WF_vars(Quiet /\ StartLoaded)
  /\ WF_vars(Quiet /\ RadioOn) /\ WF_vars(Quiet /\ Retry)
  /\ WF_vars(Quiet /\ \E w \in waiting : IdentityLoaded(w))
  /\ SF_vars(Quiet /\ AttemptSteps)
  /\ SF_vars(Quiet /\ calm /\ LinkSteps)

Spec == Init /\ [][Next]_vars
FairSpec == Spec /\ Fairness

-----------------------------------------------------------------------------
(* What must hold                                                          *)

\* Someone is at it, or will be: the watcher or the rider's tap.
Busy == radioSub # None \/ retryTimer # None \/ loading \/ waiting # {}

\* While the app says that it watches, connects, authenticates or tries again, a
\* watcher or a call really is under way, and after an overlapping attempt too.
AlwaysOnIt ==
  state.type \in {"watching", "connecting", "authenticating", "error"} => Busy

\* A board that does not hold this phone's connection can be connected to,
\* however its connections ended.
Reachable == \A d \in Devices : d \in boardLinked \/ d \in advertising

\* The registered attempt is one under way, no one waits for an attempt that is
\* not, the session shown is one whose end will be noticed, and someone is at it.
ReachSound ==
  /\ state.type \in {"idle", "watching", "connecting", "authenticating", "connected", "error"}
  /\ inFlight # None => attempt[inFlight].at \in {"connect", "link", "save"}
  /\ \A w \in waiting : w.client # None => attempt[w.client].at # "none"
  /\ state.client \in linked => state.client \in adopted
  /\ Reachable
  /\ AlwaysOnIt

Live == state.type = "connected" /\ state.client \in linked \ closing

\* The four ways in which the code strands the rider: a connection lost while
\* the device is being saved, one left open after a failed discovery, a session
\* hidden by an attempt that overlapped with it, and a failed tap that was told
\* of no watch to go back to, after such an attempt.
Silent == state.type = "connected" /\ state.client \notin linked
Hidden == \E c \in adopted \cap linked : c \notin closing \cup {state.client}
Abandoned == started /\ state.type = "idle" /\ ~ Busy
Stranded == Silent \/ halfOpen # {} \/ Hidden \/ Abandoned

\* With its board near and the radio working the phone comes back to it by
\* itself, after whatever failures, drops, taps and disconnects.
Reconnects == (calm /\ lastDevice # None) ~> (Live \/ Stranded)

=============================================================================
