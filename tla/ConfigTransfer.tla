--------------------------- MODULE ConfigTransfer ---------------------------
(***************************************************************************)
(* Reading and writing the configuration: the chunks of the CONFIG channel, *)
(* the staging of each session, and the one waiter per channel of the app's *)
(* client, which several screens of a phone may overwrite.                  *)
(*                                                                         *)
(* A client's writes reach the board in order and are acknowledged, after   *)
(* what the board had to notify; notifications keep their order and may be  *)
(* lost.  Timers may expire at any moment.  A configuration is the sequence *)
(* of the blocks of its JSON, each marked with the write it came from.      *)
(***************************************************************************)
EXTENDS Integers, Sequences, FiniteSets

CONSTANTS
  Phones,    \* each with a link, a session and a client
  Callers,   \* the screens that read and write the configuration
  ClientOf,  \* the phone of each of them
  Largest,   \* CONFIG_JSON_MAX, in blocks
  Sizes,     \* the blocks a configuration may have
  NoOne,     \* no caller
  MaxEvents  \* bound: the reads and writes begun, answers that lose frames, links lost

ASSUME ConfigTransferAssumption ==
  /\ ClientOf \in [Callers -> Phones]
  /\ Largest \in Nat
  /\ Sizes \subseteq 1 .. Largest /\ Sizes # {}
  /\ NoOne \notin Callers
  /\ MaxEvents \in Nat

VARIABLES
  config,   \* app->config
  staging,  \* each session's cfg_write_buf, _total, _got, _active
  up,       \* the writes of each client that the board has not handled
  down,     \* what the board has sent and the client has not taken
  pending,  \* each client's waiter for the CONFIG channel
  caller,   \* each screen's call
  events,   \* how many of these there were
  untrue,   \* history: what calls ended with that was not so
  mixed     \* history: a write began while another one of its client sent

board == <<config, staging>>
wire == <<up, down>>
transferVars == <<board, wire, pending, caller, events, untrue, mixed>>

Offset == 1 .. Largest
Call == 0 .. MaxEvents

\* Blank is a buffer never written, or an offset no chunk came for.
Block == [write : Call, size : Sizes]
Blank == [write |-> 0, size |-> 0]

\* What JSON.stringify() makes of the configuration of one write.
Json(id, n) == [i \in 1 .. n |-> [write |-> id, size |-> n]]
Whole(c) == c = Json(c[1].write, c[1].size)

NoBlocks == [i \in Offset |-> Blank]
NoStaging == [buf |-> NoBlocks, total |-> 0, got |-> 0, active |-> FALSE]

\* alone: nothing of another call was on the way when the waiter was set;
\* since: the configurations of the board from then on; applied: its commit was.
NoCall == [at |-> "idle", id |-> 0, size |-> 0, next |-> 0, chunks |-> NoBlocks,
           alone |-> FALSE, since |-> {}, applied |-> FALSE]

TransferInit ==
  /\ \E n \in Sizes : config = Json(0, n)
  /\ staging = [p \in Phones |-> NoStaging]
  /\ up = [p \in Phones |-> <<>>] /\ down = [p \in Phones |-> <<>>]
  /\ pending = [p \in Phones |-> NoOne]
  /\ caller = [c \in Callers |-> NoCall]
  /\ events = 0 /\ untrue = {} /\ mixed = FALSE

-----------------------------------------------------------------------------
(* The screens                                                             *)

Message(op, id, off, n) == [op |-> op, id |-> id, off |-> off, size |-> n]
Send(p, message) == up' = [up EXCEPT ![p] = Append(@, message)]

Counted == events < MaxEvents /\ events' = events + 1

\* The screens of a phone are alike: the first one that is free calls.
Calls(c) ==
  /\ caller[c].at = "idle"
  /\ c = CHOOSE d \in Callers : ClientOf[d] = ClientOf[c] /\ caller[d].at = "idle"
  /\ Counted

\* A screen that is opened reads.  Its waiter takes the place of another's.
StartRead(c) ==
  LET p == ClientOf[c]
  IN  /\ Calls(c)
      /\ pending' = [pending EXCEPT ![p] = c]
      /\ Send(p, Message("read", events', 0, 0))
      /\ caller' = [caller EXCEPT ![c] =
           [NoCall EXCEPT !.at = "read", !.id = events', !.since = {config},
                          !.alone = up[p] = <<>> /\ down[p] = <<>>]]
      /\ UNCHANGED <<board, down, untrue, mixed>>

\* Save.  The waiter is set with the COMMIT, not before.
StartWrite(c) ==
  \E n \in Sizes : LET p == ClientOf[c] IN
    /\ Calls(c)
    /\ Send(p, Message("begin", events', 0, n))
    /\ caller' = [caller EXCEPT ![c] =
         [NoCall EXCEPT !.at = "send", !.id = events', !.size = n, !.next = 1]]
    /\ mixed' = (mixed \/ \E d \in Callers :
                            ClientOf[d] = p /\ caller[d].at = "send")
    /\ UNCHANGED <<board, down, pending, untrue>>

-----------------------------------------------------------------------------
(* The board                                                               *)

Chunk(off, block, total) == [kind |-> "chunk", off |-> off, block |-> block, total |-> total]
Result(ok) == [kind |-> "result", ok |-> ok]
Ack(id) == [kind |-> "ack", id |-> id]

\* A notification is dropped when the pool of buffers is exhausted.
Arriving(frames) ==
  UNION {{[i \in 1 .. n |-> frames[kept[i]]] :
            kept \in {k \in [1 .. n -> DOMAIN frames] : \A i, j \in 1 .. n : i < j => k[i] < k[j]}} :
         n \in 0 .. Len(frames)}

Respond(p, frames) ==
  \E arriving \in Arriving(frames) :
    /\ IF arriving = frames THEN UNCHANGED events ELSE Counted
    /\ down' = [down EXCEPT ![p] = @ \o arriving \o <<Ack(Head(up[p]).id)>>]

\* The board takes the next message of p, an op.
Takes(p, op) == up[p] # <<>> /\ Head(up[p]).op = op /\ up' = [up EXCEPT ![p] = Tail(@)]

\* config_send_read(): every chunk in one go.
HandleRead(p) ==
  /\ Takes(p, "read")
  /\ Respond(p, [i \in DOMAIN config |-> Chunk(i, config[i], Len(config))])
  /\ UNCHANGED <<board, pending, caller, untrue, mixed>>

\* Mutant: one buffer for the sessions of all phones.
OneStaging(p) == CHOOSE q \in Phones : TRUE

\* Each session has a staging buffer of its own.
StagingOf(p) == p

Refuse(p) ==
  /\ staging' = [staging EXCEPT ![StagingOf(p)].active = FALSE]
  /\ Respond(p, <<Result(FALSE)>>)
  /\ UNCHANGED <<config, caller, untrue>>

HandleBegin(p) ==
  /\ Takes(p, "begin")
  /\ staging' = [staging EXCEPT ![StagingOf(p)] =
                   [@ EXCEPT !.total = Head(up[p]).size, !.got = 0, !.active = TRUE]]
  /\ Respond(p, <<>>)
  /\ UNCHANGED <<config, pending, caller, untrue, mixed>>

\* Acknowledged only on error.
HandleChunk(p) ==
  LET m == Head(up[p])  s == staging[StagingOf(p)]
  IN  /\ Takes(p, "chunk")
      /\ IF ~ s.active \/ m.off > s.total
         THEN Refuse(p)
         ELSE /\ staging' = [staging EXCEPT ![StagingOf(p)] =
                   [s EXCEPT !.buf[m.off] = [write |-> m.id, size |-> m.size],
                             !.got = IF m.off > s.got THEN m.off ELSE s.got]]
              /\ Respond(p, <<>>)
              /\ UNCHANGED <<config, caller, untrue>>
      /\ UNCHANGED <<pending, untrue, mixed>>

\* What is not a configuration, or not a valid one, is refused.
HandleCommit(p) ==
  LET s == staging[StagingOf(p)]
  IN  /\ Takes(p, "commit")
      /\ IF ~ s.active \/ s.got # s.total
         THEN Refuse(p)
         ELSE \E valid \in BOOLEAN :
                /\ config' = IF valid THEN SubSeq(s.buf, 1, s.total) ELSE config
                /\ caller' = [c \in Callers |->
                     IF caller[c].at = "read"
                     THEN [caller[c] EXCEPT !.since = @ \cup {config'}]
                     ELSE [caller[c] EXCEPT !.applied = @ \/ (valid /\ caller[c].id = Head(up[p]).id)]]
                /\ staging' = [staging EXCEPT ![StagingOf(p)].active = FALSE]
                /\ Respond(p, <<Result(valid)>>)
      /\ UNCHANGED <<pending, untrue, mixed>>

Handle(p) == HandleRead(p) \/ HandleBegin(p) \/ HandleChunk(p) \/ HandleCommit(p)

-----------------------------------------------------------------------------
(* The client                                                              *)

Gets(p, kind) ==
  down[p] # <<>> /\ Head(down[p]).kind = kind /\ down' = [down EXCEPT ![p] = Tail(@)]

Ends(c) == caller' = [caller EXCEPT ![c] = NoCall]

\* What a call ends with, unless the frames of another could be taken for its
\* own.
Tells(c, what, true) ==
  untrue' = IF caller[c].alone /\ ~ true THEN untrue \cup {what} ELSE untrue
Closes(p) == pending' = [pending EXCEPT ![p] = NoOne]

\* A send() has resolved: the next chunk, or the COMMIT and its waiter.
TakeAck(p) ==
  LET ours == {c \in Callers : caller[c].id = Head(down[p]).id /\ caller[c].at = "send"}
  IN  /\ Gets(p, "ack")
      /\ \/ ours = {} /\ UNCHANGED <<up, pending, caller>>
         \/ \E c \in ours :
              /\ caller[c].next <= caller[c].size
              /\ Send(p, Message("chunk", caller[c].id, caller[c].next, caller[c].size))
              /\ caller' = [caller EXCEPT ![c].next = @ + 1]
              /\ UNCHANGED pending
         \/ \E c \in ours :
              /\ caller[c].next > caller[c].size
              /\ Send(p, Message("commit", caller[c].id, 0, 0))
              /\ pending' = [pending EXCEPT ![p] = c]
              /\ caller' = [caller EXCEPT ![c].at = "commit", ![c].size = 0, ![c].next = 0,
                              ![c].alone = up[p] = <<>> /\ Tail(down[p]) = <<>>]
      /\ UNCHANGED <<board, events, untrue, mixed>>

\* What arrives without a waiter is dropped.
Unexpected(p) ==
  /\ pending[p] = NoOne
  /\ Gets(p, "chunk") \/ Gets(p, "result")
  /\ UNCHANGED <<board, up, pending, caller, events, untrue, mixed>>

\* The chunks by offset, and as much of them as came.
Received(chunks) == {i \in Offset : chunks[i] # Blank}

\* Mutant: the last chunk ends the reply.
CompleteAtEnd(chunks, total) == chunks[total] # Blank

Complete(chunks, total) == Cardinality(Received(chunks)) >= total

\* A chunk past the end of the reply's buffer throws, and the call never ends.
TakeChunk(p) ==
  LET c == pending[p]
      f == Head(down[p])
      chunks == [caller[c].chunks EXCEPT ![f.off] = f.block]
  IN  /\ Gets(p, "chunk")
      /\ c # NoOne /\ caller[c].at = "read"
      /\ \/ /\ ~ Complete(chunks, f.total)
            /\ caller' = [caller EXCEPT ![c].chunks = chunks]
            /\ UNCHANGED <<pending, untrue>>
         \/ /\ Complete(chunks, f.total)
            /\ IF \E i \in Received(chunks) : i > f.total
               THEN caller' = [caller EXCEPT ![c].at = "hung"] /\ UNCHANGED untrue
               ELSE Ends(c) /\ Tells(c, "read", SubSeq(chunks, 1, f.total) \in caller[c].since)
            /\ Closes(p)
      /\ UNCHANGED <<board, up, events, mixed>>

\* The first byte of a chunk is the low byte of its offset, of a result the
\* result, where 0 is OK.
Code(f) == IF f.kind = "result" THEN (IF f.ok THEN 0 ELSE 1) ELSE ((f.off - 1) * 128) % 256

\* configWrite() takes any frame for the result of its COMMIT, configRead()
\* fails on a result.
TakeReply(p) ==
  LET c == pending[p]
      f == Head(down[p])
  IN  /\ Gets(p, "chunk") \/ Gets(p, "result")
      /\ c # NoOne
      /\ \/ /\ caller[c].at = "commit"
            /\ IF Code(f) = 0 THEN Tells(c, "ok", caller[c].applied)
                              ELSE Tells(c, "refused", ~ caller[c].applied)
         \/ caller[c].at = "read" /\ f.kind = "result" /\ UNCHANGED untrue
      /\ Ends(c) /\ Closes(p)
      /\ UNCHANGED <<board, up, events, mixed>>

Take(p) == TakeAck(p) \/ Unexpected(p) \/ TakeChunk(p) \/ TakeReply(p)

\* Mutant: a timer looks whether the waiter still is its own.
ExpiresOwn(c) == caller[c].at \in {"read", "commit"} /\ pending[ClientOf[c]] = c

\* The timer of a call runs until the call has ended, on the client it was made
\* on, whoever waits there now.
Expires(c) == caller[c].at \in {"read", "commit", "orphan"}

Timeout(c) ==
  /\ Expires(c)
  /\ Ends(c)
  /\ IF caller[c].at = "orphan" THEN UNCHANGED pending ELSE Closes(ClientOf[c])
  /\ UNCHANGED <<board, wire, events, untrue, mixed>>

-----------------------------------------------------------------------------
(* A link is lost, and made anew with a fresh session and client           *)

Unacknowledged(c) ==
  LET p == ClientOf[c]
  IN  \/ \E i \in DOMAIN up[p] : up[p][i].id = caller[c].id
      \/ \E i \in DOMAIN down[p] : down[p][i].kind = "ack" /\ down[p][i].id = caller[c].id

\* The waiter and the sends fail at once; a call whose waiter was overwritten
\* waits for its timer.
CutOff(c) ==
  IF caller[c].at \in {"send", "read", "commit"}
  THEN IF pending[ClientOf[c]] = c \/ Unacknowledged(c)
       THEN NoCall
       ELSE [NoCall EXCEPT !.at = "orphan"]
  ELSE caller[c]

LinkLost(p) ==
  /\ Counted
  /\ up' = [up EXCEPT ![p] = <<>>] /\ down' = [down EXCEPT ![p] = <<>>]
  /\ staging' = [staging EXCEPT ![p] = NoStaging]
  /\ Closes(p)
  /\ caller' = [c \in Callers |-> IF ClientOf[c] = p THEN CutOff(c) ELSE caller[c]]
  /\ UNCHANGED <<config, untrue, mixed>>

-----------------------------------------------------------------------------
TransferNext ==
  \/ \E c \in Callers : StartRead(c) \/ StartWrite(c) \/ Timeout(c)
  \/ \E p \in Phones : Handle(p) \/ Take(p) \/ LinkLost(p)

TransferSpec == TransferInit /\ [][TransferNext]_transferVars

\* The board handles what it is sent, the app takes what it is sent, and its
\* timers run.
TransferFairSpec ==
  /\ TransferSpec
  /\ \A p \in Phones : WF_transferVars(Handle(p)) /\ WF_transferVars(Take(p))
  /\ \A c \in Callers : WF_transferVars(Timeout(c))

-----------------------------------------------------------------------------
(* Properties                                                              *)

TypeOK ==
  /\ config \in Seq(Block \cup {Blank})
  /\ \A p \in Phones :
       /\ staging[p].buf \in [Offset -> Block \cup {Blank}]
       /\ staging[p].got <= staging[p].total /\ staging[p].active \in BOOLEAN
  /\ pending \in [Phones -> Callers \cup {NoOne}]
  /\ \A c \in Callers :
       /\ caller[c].at \in {"idle", "send", "read", "commit", "orphan", "hung"}
       /\ caller[c].id \in Call
  /\ events \in Call /\ untrue \subseteq {"read", "ok", "refused"} /\ mixed \in BOOLEAN

\* The configuration of the board is the whole of what one phone wrote, though
\* phones write at the same time, links end half-way and writes are begun
\* again: unless two writes of one phone were sent at once, for the board only
\* looks at the furthest end of what it received.
TransferSound == TypeOK /\ (~ mixed => Whole(config))

\* What a read shows is a configuration that the board had while it was asked,
\* in one piece, and it does not hang: unless something of another call of the
\* phone was still on the way when it asked.
ReadsWhole ==
  /\ "read" \notin untrue
  /\ \A c \in Callers : caller[c].alone => caller[c].at # "hung"

\* "Saved to the device" is said of a write that was applied, and "rejected" of
\* one that was not, unless something of another call was on the way, or two
\* writes of one phone were sent at once: with a third screen waiting, the
\* refusal of a chunk of theirs is taken for its own.
ToldTrue == ~ mixed => untrue \cap {"ok", "refused"} = {}

\* What a call ends with is so.
RepliesTrue == ReadsWhole /\ ToldTrue

\* Every call ends, also one whose waiter was overwritten, whose frames were
\* lost or whose link went, unless its reply was torn by another read.
CallsEnd ==
  \A c \in Callers :
    caller[c].at \in {"send", "read", "commit", "orphan"} ~> caller[c].at \in {"idle", "hung"}

=============================================================================
