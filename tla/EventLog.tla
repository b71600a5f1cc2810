------------------------------ MODULE EventLog ------------------------------
(***************************************************************************)
(* The event log: a ring of slots in flash that both tasks of the board    *)
(* append to without a lock, that a change of owner empties, and that the  *)
(* phone reads in pages while app_task goes on logging.                    *)
(*                                                                         *)
(* An append is what mc_event_log_append() does to memory and flash, step  *)
(* by step: take the next number, write the slot, move the cursor in RAM,  *)
(* save the cursor.  Flash writes may fail, which the code ignores, and    *)
(* power may be cut between any two steps.                                 *)
(*                                                                         *)
(* An event is a number of its own, so that two of them are never          *)
(* confused; type, arguments and uptime are left out.                      *)
(***************************************************************************)
EXTENDS Integers, Sequences, FiniteSets

CONSTANTS
  SlotCount,      \* MC_EVENT_LOG_SLOT_COUNT
  Batch,          \* MC_PROTOCOL_EVENT_LOG_CHUNK_RECORDS
  WriteOutcomes,  \* {TRUE}, or BOOLEAN when a flash write may fail
  MaxEvents       \* bound: the events that happen

ASSUME EventLogAssumption ==
  /\ SlotCount \in Nat \ {0}
  /\ Batch \in Nat \ {0}
  /\ TRUE \in WriteOutcomes /\ WriteOutcomes \subseteq BOOLEAN
  /\ MaxEvents \in Nat

VARIABLES
  slots,    \* the record in each slot of the evtlog partition
  cursor,   \* last_seq in flash
  last,     \* s_event_log.last_seq
  task,     \* what each task is doing to the log
  page,     \* what EVENT_LOG_GET has left to send: since_seq, sent, total
  fetch,    \* getEventLog() of the phone
  born,     \* the events so far
  logged,   \* history: the events appended since the log was last emptied
  durable,  \* history: those of them that a restart finds
  harm      \* history: what has disturbed the log: a failed write, an overlap

log == <<slots, cursor, last>>
logHistory == <<born, logged, durable, harm>>
logVars == <<log, task, page, fetch, logHistory>>

Task == {"app", "ble"}
\* The records of a transfer and of a reset may go over the bound.
Event == 1 .. MaxEvents + 2
Slot == 0 .. SlotCount - 1

\* A slot never written, which read_slot() does not find.
Blank == [seq |-> 0, event |-> 0]
Record == [seq : Event, event : Event]

Idle == [at |-> "idle", seq |-> 0, event |-> 0]
NoPage == [since |-> 0, sent |-> 0, total |-> 0]

\* lost: a frame was dropped; torn: a page was read while the ring was not
\* settled; asof: the events that could be read when the request came in.
NoFetch == [at |-> "none", records |-> <<>>, lost |-> FALSE, torn |-> FALSE, asof |-> {}]

Events(s) == {s[i].event : i \in DOMAIN s}

SlotOf(seq) == (seq - 1) % SlotCount

LogInit ==
  /\ slots = [i \in Slot |-> Blank]
  /\ cursor = 0
  /\ last = 0
  /\ task = [t \in Task |-> Idle]
  /\ page = NoPage
  /\ fetch = NoFetch
  /\ born = 0
  /\ logged = <<>>
  /\ durable = <<>>
  /\ harm = {}

-----------------------------------------------------------------------------
(* Reading                                                                 *)

EffectiveStart(since) ==
  LET oldest == IF last > SlotCount THEN last - SlotCount ELSE 0
  IN  IF since > oldest THEN since ELSE oldest

CountSince(since) ==
  LET start == EffectiveStart(since) IN IF last > start THEN last - start ELSE 0

\* Mutant: the number kept in the slot is not compared.
FoundAny(seq) == slots[SlotOf(seq)] # Blank

\* A slot that was never written or is of another generation is skipped.
Found(seq) == slots[SlotOf(seq)].seq = seq

\* mc_event_log_read(): the records after "since", oldest first, "most" of them
\* at most, by the number that was looked at last.
Collect(since, most) ==
  LET collected[n \in 0 .. last] ==
        IF n <= EffectiveStart(since) THEN <<>>
        ELSE LET before == collected[n - 1]
             IN  IF Len(before) < most /\ Found(n) THEN Append(before, slots[SlotOf(n)])
                 ELSE before
  IN  collected

\* All of them, and a page.
Readable(since) == Collect(since, SlotCount)[last]
Read(since) == Collect(since, Batch)[last]

-----------------------------------------------------------------------------
(* Appending                                                               *)

Writing(t) == task[t].at \notin {"idle", "paging"}
Quiet == \A t \in Task : ~ Writing(t)

\* What t does next falls between the steps of the other task.
Disturbed(t) ==
  harm \cup (IF \E other \in Task \ {t} : Writing(other) THEN {"overlap"} ELSE {})

Outcome(ok) == harm \cup (IF ok THEN {} ELSE {"failed"})

\* Either task logs an event; the transfer's own comes after the wipe.
BeginAppend(t) ==
  /\ \/ task[t].at = "idle" /\ born < MaxEvents
     \/ task[t].at = "begin"
  /\ born' = born + 1
  /\ task' = [task EXCEPT ![t] = [at |-> "write", seq |-> last + 1, event |-> born + 1]]
  /\ harm' = Disturbed(t)
  /\ UNCHANGED <<log, page, fetch, logged, durable>>

WriteSlot(t) ==
  /\ task[t].at = "write"
  /\ \E ok \in WriteOutcomes :
       /\ slots' = IF ok
                   THEN [slots EXCEPT ![SlotOf(task[t].seq)] =
                           [seq |-> task[t].seq, event |-> task[t].event]]
                   ELSE slots
       /\ harm' = Outcome(ok)
  /\ task' = [task EXCEPT ![t].at = "advance"]
  /\ UNCHANGED <<cursor, last, page, fetch, born, logged, durable>>

Advance(t) ==
  /\ task[t].at = "advance"
  /\ last' = task[t].seq
  /\ logged' = Append(logged, task[t].event)
  /\ task' = [task EXCEPT ![t].at = "persist"]
  /\ UNCHANGED <<slots, cursor, page, fetch, born, durable, harm>>

Persist(t) ==
  /\ task[t].at = "persist"
  /\ \/ cursor' = task[t].seq /\ durable' = logged
     \/ FALSE \in WriteOutcomes /\ UNCHANGED <<cursor, durable>>
  /\ task' = [task EXCEPT ![t] = Idle]
  /\ UNCHANGED <<slots, last, page, fetch, born, logged, harm>>

AppendSteps(t) == BeginAppend(t) \/ WriteSlot(t) \/ Advance(t) \/ Persist(t)

-----------------------------------------------------------------------------
(* Emptying: a transfer of ownership on the NimBLE task, a factory reset on *)
(* app_task                                                                *)

\* mc_event_log_clear(): the slots keep their records.
BeginClear ==
  /\ task["ble"].at = "idle"
  /\ born < MaxEvents
  /\ last' = 0
  /\ task' = [task EXCEPT !["ble"].at = "clear"]
  /\ logged' = <<>>
  /\ harm' = Disturbed("ble")
  /\ UNCHANGED <<slots, cursor, page, fetch, born, durable>>

\* The transfer then logs itself: BeginAppend follows.
PersistClear ==
  /\ task["ble"].at = "clear"
  /\ \E ok \in WriteOutcomes :
       /\ cursor' = IF ok THEN 0 ELSE cursor
       /\ harm' = Outcome(ok)
  /\ durable' = logged
  /\ task' = [task EXCEPT !["ble"].at = "begin"]
  /\ UNCHANGED <<slots, last, page, fetch, born, logged>>

\* nvs_event_log_hal_erase() and _init(); mc_event_log_init() on a log of its
\* own.  When the partition cannot be erased the board restarts all the same.
Erase ==
  /\ task["app"].at = "idle"
  /\ born < MaxEvents
  /\ \/ /\ slots' = [i \in Slot |-> Blank]
        /\ cursor' = 0
        /\ logged' = <<>>
        /\ durable' = <<>>
        /\ harm' = Disturbed("app")
        /\ task' = [task EXCEPT !["app"].at = "relog"]
     \/ /\ FALSE \in WriteOutcomes
        /\ task' = [task EXCEPT !["app"].at = "restart"]
        /\ UNCHANGED <<slots, cursor, logged, durable, harm>>
  /\ UNCHANGED <<last, page, fetch, born>>

\* The reset is the first record of the emptied log.
Relog ==
  /\ task["app"].at = "relog"
  /\ born' = born + 1
  /\ slots' = [slots EXCEPT ![0] = [seq |-> 1, event |-> born + 1]]
  /\ cursor' = 1
  /\ logged' = <<born + 1>>
  /\ durable' = logged'
  /\ task' = [task EXCEPT !["app"].at = "restart"]
  /\ UNCHANGED <<last, page, fetch, harm>>

\* A power cut, a crash, or the restart that ends a factory reset.
Restart ==
  /\ last' = cursor
  /\ task' = [t \in Task |-> Idle]
  /\ page' = NoPage
  /\ fetch' = IF fetch.at = "waiting" THEN [fetch EXCEPT !.at = "failed"] ELSE fetch
  /\ logged' = durable
  /\ UNCHANGED <<slots, cursor, born, durable, harm>>

-----------------------------------------------------------------------------
(* The phone reads the log                                                 *)

\* The numbers in reach whose slot a later number has taken already: an append
\* is half done in a full ring, or power was cut before its save.
Overrun == {n \in EffectiveStart(0) + 1 .. last : slots[SlotOf(n)].seq > n}

\* Or a factory reset has emptied the flash under the cursor in memory.
Unsettled == Overrun # {} \/ task["app"].at \in {"relog", "restart"}

\* The latest n events.
Latest(n) == LET m == Len(logged) IN SubSeq(logged, IF m > n THEN m - n + 1 ELSE 1, m)

Get ==
  /\ task["ble"].at = "idle"
  /\ fetch.at # "waiting"
  /\ fetch' = [NoFetch EXCEPT !.at = "waiting", !.asof = Events(Readable(0))]
  /\ page' = [since |-> 0, sent |-> 0, total |-> CountSince(0)]
  /\ task' = [task EXCEPT !["ble"].at = "paging"]
  /\ UNCHANGED <<log, logHistory>>

\* Mutant: the next page starts after as many numbers as records were sent.
NextSinceCounted(got) == page.since + Len(got)

\* The next page starts after the last record of this one.
NextSince(got) == IF got = <<>> THEN page.since ELSE got[Len(got)].seq

\* A short page ends the reply, whatever was announced.
EndsReply(got) == Len(got) < Batch \/ page.sent + Len(got) >= page.total

\* The client waits until it holds as many records as were announced.
Assembled(records) == Len(records) >= page.total

SendPage ==
  /\ task["ble"].at = "paging"
  /\ LET got == Read(page.since)
     IN  /\ page' = [page EXCEPT !.since = NextSince(got), !.sent = @ + Len(got)]
         /\ task' = [task EXCEPT !["ble"].at = IF EndsReply(got) THEN "idle" ELSE "paging"]
         /\ \E delivered \in BOOLEAN :
              LET records == fetch.records \o (IF delivered THEN got ELSE <<>>)
              IN  fetch' = [fetch EXCEPT
                              !.records = records,
                              !.lost = @ \/ ~ delivered,
                              !.torn = @ \/ Unsettled,
                              !.at = IF @ = "waiting" /\ delivered /\ Assembled(records)
                                     THEN "done" ELSE @]
  /\ UNCHANGED <<log, logHistory>>

\* REPLY_TIMEOUT_MS is long against the pages of one reply.
FetchTimeout ==
  /\ fetch.at = "waiting"
  /\ task["ble"].at # "paging"
  /\ fetch' = [fetch EXCEPT !.at = "failed"]
  /\ UNCHANGED <<log, task, page, logHistory>>

-----------------------------------------------------------------------------
LogNext ==
  \/ \E t \in Task : AppendSteps(t)
  \/ BeginClear \/ PersistClear
  \/ Erase \/ Relog \/ Restart
  \/ Get \/ SendPage \/ FetchTimeout

LogSpec == LogInit /\ [][LogNext]_logVars

-----------------------------------------------------------------------------
(* Properties                                                              *)

LogTypeOK ==
  /\ slots \in [Slot -> Record \cup {Blank}]
  /\ cursor \in 0 .. MaxEvents + 2 /\ last \in 0 .. MaxEvents + 2
  /\ task \in [Task ->
       [at : {"idle", "begin", "write", "advance", "persist", "clear", "relog", "restart", "paging"},
        seq : 0 .. MaxEvents + 2, event : 0 .. MaxEvents + 2]]
  /\ page \in [since : 0 .. MaxEvents + 2, sent : Nat, total : 0 .. SlotCount]
  /\ fetch \in [at : {"none", "waiting", "done", "failed"}, records : Seq(Record),
                lost : BOOLEAN, torn : BOOLEAN, asof : SUBSET Event]
  /\ born \in 0 .. MaxEvents + 2
  /\ logged \in Seq(Event) /\ durable \in Seq(Event)
  /\ harm \subseteq {"overlap", "failed"}

\* With no record that failed to be written and no two tasks in the log at once,
\* the log holds the latest events in the order they happened and nothing else:
\* after power cuts between any two steps, after a change of owner that left the
\* old records in their slots, after the ring has wrapped, whether or not the
\* cursor could be saved.  A power cut in a full ring may cost the oldest ones.
Whole ==
  Quiet /\ harm = {} =>
    LET found == Readable(0)
    IN  /\ last = Len(logged)
        /\ [i \in DOMAIN found |-> found[i].event] = Latest(CountSince(0) - Cardinality(Overrun))

\* EVENT_LOG_GET while the other task logs: a request that was served and lost
\* no frame has resolved, though events were added and evicted between its
\* pages, unless a page was read while the ring was not settled.
FetchAnswered ==
  fetch.at = "waiting" /\ task["ble"].at # "paging" /\ harm = {} => fetch.lost \/ fetch.torn

\* The log holds what was logged, and a fetch of it ends.
LogSound == LogTypeOK /\ Whole /\ FetchAnswered

\* getEventLog(): "every record, oldest-first".  The list it resolves with is
\* in order, without a repeat, leaves out no event that is still in the ring,
\* and shows none from before the log was last emptied.
FetchShows ==
  [][ fetch.at = "waiting" /\ fetch'.at = "done" /\ harm = {} =>
        LET shown == fetch'.records
        IN  /\ \A i, j \in DOMAIN shown : i < j => shown[i].seq < shown[j].seq
            /\ ~ fetch'.torn => fetch.asof \cap Events(Readable(0)) \subseteq Events(shown)
            /\ Events(shown) \subseteq {logged[i] : i \in DOMAIN logged}
    ]_logVars

=============================================================================
