----------------------------- MODULE WebSockets -----------------------------
(***************************************************************************)
(* Hub.Broadcast and Conn of backend-concepts/websockets/websockets.go:     *)
(* broadcasters share a read lock and put messages on bounded queues; each  *)
(* connection has a writer, a reader and Run.  Below it, for one connection *)
(* and its clock, the pings that tell whether the peer is still there.     *)
(***************************************************************************)
EXTENDS Integers, Sequences, FiniteSets, NoValue

CONSTANTS
    Conns, Broadcasters,   \* each broadcaster sends one message, itself
    SendBuffers,           \* the values of Config.SendBuffer; 0 is unbuffered
    Policies               \* of OverflowPolicy

ASSUME HubAssumption ==
    /\ SendBuffers \subseteq Nat
    /\ {"running", "ended"} \cap Broadcasters = {}
    /\ None \notin [to : Conns, at : {"try", "full", "retry", "closing", "over"}]

VARIABLES
    sendBuffer, policy,   \* of every connection
    conns,        \* Hub.conns
    todo,         \* per broadcaster, connections its loop has not reached
    sending,      \* per broadcaster, the connection its Send is on, and where
    phase,        \* per broadcaster: waiting, locked, done
    queue,        \* Conn.send
    closed,       \* connections whose Close has closed the channel
    shut,         \* of these, those whose socket is closed too
    writer, reader,   \* per connection: running, writing, ended
    cancelledRun, \* connections whose Run has cancelled its context
    returned,     \* connections whose Run has returned
    written,      \* per connection, what the peer got, in order
    stuck         \* connections whose peer does not read

hubVars == <<sendBuffer, policy, conns, todo, sending, phase, queue, closed, shut, writer, reader,
             cancelledRun, returned, written, stuck>>

hubLoops == <<sendBuffer, policy, conns, shut, reader, cancelledRun, returned, written, stuck>>
hubSends == <<sendBuffer, policy, conns, todo, sending, phase, stuck>>

HubInit ==
    /\ sendBuffer \in SendBuffers /\ policy \in Policies
    /\ conns = Conns
    /\ todo = [b \in Broadcasters |-> {}]
    /\ sending = [b \in Broadcasters |-> None]
    /\ phase = [b \in Broadcasters |-> "waiting"]
    /\ queue = [c \in Conns |-> <<>>]
    /\ closed = {} /\ shut = {} /\ cancelledRun = {} /\ returned = {}
    /\ writer = [c \in Conns |-> "running"] /\ reader = writer
    /\ written = [c \in Conns |-> <<>>]
    /\ stuck \in SUBSET Conns

-----------------------------------------------------------------------------
(* Broadcast takes the read lock: others may, Add and RemoveConn may not. *)
Lock(b) ==
    /\ phase[b] = "waiting"
    /\ phase' = [phase EXCEPT ![b] = "locked"]
    /\ todo' = [todo EXCEPT ![b] = conns]
    /\ UNCHANGED <<hubLoops, writer, sending, queue, closed>>

(* The loop over the map reaches a connection, in any order. *)
Reach(b, c) ==
    /\ phase[b] = "locked" /\ sending[b] = None /\ c \in todo[b]
    /\ sending' = [sending EXCEPT ![b] = [to |-> c, at |-> IF c \in closed THEN "over" ELSE "try"]]
    /\ todo' = [todo EXCEPT ![b] = @ \ {c}]
    /\ UNCHANGED <<hubLoops, writer, phase, queue, closed>>

At(b, c, at) == sending[b] # None /\ sending[b] = [to |-> c, at |-> at]
Step(b, at)  == sending' = [sending EXCEPT ![b].at = at]

(* What a send that does not wait may find: room, a full buffer, or without *)
(* a buffer a writer that waits in its select, or one that is not yet back *)
(* there.                                                                  *)
HasRoom(c)  == Len(queue[c]) < sendBuffer
MayPark(c)  == sendBuffer = 0 /\ writer[c] = "running" /\ c \notin closed \cup cancelledRun

Queued(b, c) == HasRoom(c) /\ queue' = [queue EXCEPT ![c] = Append(@, b)] /\ UNCHANGED writer
Handed(b, c) == MayPark(c) /\ writer' = [writer EXCEPT ![c] = b] /\ UNCHANGED queue
NoRoom(c)   == ~HasRoom(c) /\ UNCHANGED <<queue, writer>>

(* The first send; a full queue is an overflow. *)
Try(b, c) ==
    /\ At(b, c, "try")
    /\ \/ (Queued(b, c) \/ Handed(b, c)) /\ Step(b, "over")
       \/ NoRoom(c) /\ Step(b, "full")
    /\ UNCHANGED <<hubLoops, todo, phase, closed>>

(* Mutant: the slow client is not told. *)
OverflowSilently(b, c) ==
    /\ At(b, c, "full")
    /\ Step(b, "over")
    /\ UNCHANGED <<hubLoops, writer, todo, phase, queue, closed>>

(* The policy: the message is dropped, the oldest one is drained if the     *)
(* writer has not taken it meanwhile, or Close is called.                  *)
Overflow(b, c) ==
    /\ At(b, c, "full")
    /\ \/ policy = "DropNewest" /\ Step(b, "over") /\ UNCHANGED <<queue, closed>>
       \/ /\ policy = "DropOldest" /\ Step(b, "retry")
          /\ queue' = [queue EXCEPT ![c] = IF @ = <<>> THEN @ ELSE Tail(@)]
          /\ UNCHANGED closed
       \/ policy = "Disconnect" /\ closed' = closed \cup {c} /\ Step(b, "closing") /\ UNCHANGED queue
    /\ UNCHANGED <<hubLoops, writer, todo, phase>>

(* Close returns when the socket is closed, to whoever called it: a second  *)
(* caller waits for the first in closeOnce.                                *)
CloseReturns(b, c) ==
    /\ At(b, c, "closing") /\ c \in shut
    /\ Step(b, "over")
    /\ UNCHANGED <<hubLoops, writer, todo, phase, queue, closed>>

(* Mutant: the second try waits for room. *)
RetryBlocking(b, c) ==
    /\ At(b, c, "retry")
    /\ Queued(b, c) \/ Handed(b, c)
    /\ Step(b, "over")
    /\ UNCHANGED <<hubLoops, todo, phase, closed>>

(* One more try: another broadcaster may have taken the room. *)
Retry(b, c) ==
    /\ At(b, c, "retry")
    /\ Queued(b, c) \/ Handed(b, c) \/ NoRoom(c)
    /\ Step(b, "over")
    /\ UNCHANGED <<hubLoops, todo, phase, closed>>

(* Send returns, and after the last one the lock is released. *)
Sent(b) ==
    /\ sending[b] # None /\ sending[b].at = "over"
    /\ sending' = [sending EXCEPT ![b] = None]
    /\ phase' = [phase EXCEPT ![b] = IF todo[b] = {} THEN "done" ELSE @]
    /\ UNCHANGED <<hubLoops, writer, todo, queue, closed>>

(* Nobody is connected. *)
NoConns(b) ==
    /\ phase[b] = "locked" /\ sending[b] = None /\ todo[b] = {}
    /\ phase' = [phase EXCEPT ![b] = "done"]
    /\ UNCHANGED <<hubLoops, writer, todo, sending, queue, closed>>

-----------------------------------------------------------------------------
(* The writer's select takes a message, though the connection may be closed. *)
TakeMessage(c) ==
    /\ writer[c] = "running" /\ queue[c] # <<>>
    /\ writer' = [writer EXCEPT ![c] = Head(queue[c])]
    /\ queue' = [queue EXCEPT ![c] = Tail(@)]
    /\ UNCHANGED <<hubSends, closed, shut, reader, cancelledRun, returned, written>>

Busy(c) == writer[c] \in Broadcasters

(* The write ends; it fails when the socket is closed or about to be, its   *)
(* context is cancelled, or WriteTimeout passes on a peer that does not     *)
(* read.                                                                   *)
Write(c) ==
    /\ Busy(c)
    /\ \/ /\ c \notin stuck \cup shut
          /\ written' = [written EXCEPT ![c] = Append(@, writer[c])]
          /\ writer' = [writer EXCEPT ![c] = "running"]
       \/ /\ c \in stuck \cup closed \cup cancelledRun
          /\ writer' = [writer EXCEPT ![c] = "ended"]
          /\ UNCHANGED written
    /\ UNCHANGED <<hubSends, queue, closed, shut, reader, cancelledRun, returned>>

(* The select takes ctx.Done() or the closed channel. *)
WriterEnds(c) ==
    /\ writer[c] = "running" /\ c \in closed \cup cancelledRun
    /\ writer' = [writer EXCEPT ![c] = "ended"]
    /\ UNCHANGED <<hubSends, queue, closed, shut, reader, cancelledRun, returned, written>>

(* Read fails once the socket is closed or the context cancelled. *)
ReaderEnds(c) ==
    /\ reader[c] = "running" /\ c \in shut \cup cancelledRun
    /\ reader' = [reader EXCEPT ![c] = "ended"]
    /\ UNCHANGED <<hubSends, queue, closed, shut, writer, cancelledRun, returned, written>>

(* The client goes away or answers a close, or handle returns an error. *)
ReaderFails(c) ==
    /\ reader[c] = "running"
    /\ reader' = [reader EXCEPT ![c] = "ended"]
    /\ UNCHANGED <<hubSends, queue, closed, shut, writer, cancelledRun, returned, written>>

(* websocket.Conn.Close, under closeOnce: the close frame is sent and the   *)
(* peer's awaited, each for a bounded time, and the socket is closed.      *)
Shut(c) ==
    /\ c \in closed \ shut
    /\ shut' = shut \cup {c}
    /\ UNCHANGED <<hubSends, queue, closed, writer, reader, cancelledRun, returned, written>>

(* Mutant: Run waits for both errors before it cancels. *)
BothEnd(c) ==
    /\ c \notin cancelledRun /\ writer[c] = "ended" /\ reader[c] = "ended"
    /\ cancelledRun' = cancelledRun \cup {c}
    /\ UNCHANGED <<hubSends, queue, closed, shut, writer, reader, returned, written>>

(* Run gets the first error and cancels the other loop. *)
FirstEnds(c) ==
    /\ c \notin cancelledRun /\ "ended" \in {writer[c], reader[c]}
    /\ cancelledRun' = cancelledRun \cup {c}
    /\ UNCHANGED <<hubSends, queue, closed, shut, writer, reader, returned, written>>

(* It gets the second and closes the connection, unless a Send has, *)
RunCloses(c) ==
    /\ c \in cancelledRun \ closed /\ writer[c] = "ended" /\ reader[c] = "ended"
    /\ closed' = closed \cup {c}
    /\ UNCHANGED <<hubSends, queue, shut, writer, reader, cancelledRun, returned, written>>

(* and returns when Close does. *)
RunReturns(c) ==
    /\ c \in (cancelledRun \cap shut) \ returned /\ writer[c] = "ended" /\ reader[c] = "ended"
    /\ returned' = returned \cup {c}
    /\ UNCHANGED <<hubSends, queue, closed, shut, writer, reader, cancelledRun, written>>

(* The server's handler removes the connection when Run has returned; it    *)
(* waits for the broadcasts that hold the lock.                            *)
RemoveConn(c) ==
    /\ c \in returned \cap conns /\ \A b \in Broadcasters : phase[b] # "locked"
    /\ conns' = conns \ {c}
    /\ UNCHANGED <<sendBuffer, policy, todo, sending, phase, queue, closed, shut, writer, reader,
                   cancelledRun, returned, written, stuck>>

SendStep ==
    \E b \in Broadcasters :
        \/ Lock(b) \/ Sent(b) \/ NoConns(b)
        \/ \E c \in Conns : Reach(b, c) \/ Try(b, c) \/ Overflow(b, c) \/ CloseReturns(b, c) \/ Retry(b, c)

LoopStep ==
    \E c \in Conns :
        \/ TakeMessage(c) \/ Write(c) \/ WriterEnds(c) \/ ReaderEnds(c)
        \/ Shut(c) \/ FirstEnds(c) \/ RunCloses(c) \/ RunReturns(c) \/ RemoveConn(c)

HubNext == SendStep \/ LoopStep \/ \E c \in Conns : ReaderFails(c)

HubSpec == HubInit /\ [][HubNext]_hubVars

(* Goroutines run, and the library's close handshake has its own time       *)
(* limits; no client need read, or go away.                                *)
HubFairness == WF_hubVars(SendStep) /\ WF_hubVars(LoopStep)

-----------------------------------------------------------------------------
(* Properties. *)

(* A slow client does not stall a broadcast for good: each ends, whatever   *)
(* the peers, the policy and the other broadcasters do.                    *)
BroadcastsOver == \A b \in Broadcasters : phase[b] = "done"

(* A connection one of whose loops ended, or that was closed, lets both go, *)
(* leaves Run and leaves the hub: no goroutine stays.                      *)
EndedConnsLeft ==
    \A c \in Conns : c \in closed \/ "ended" \in {writer[c], reader[c]} => c \in returned \ conns

(* Disconnect leaves no hole that a client cannot see: as long as its       *)
(* connection is open it has got every message that was sent to it, or the *)
(* broadcaster that could not send one is about to close it.               *)
NoUnseenHole ==
    policy = "Disconnect" => \A c \in Conns \ closed, b \in Broadcasters :
        phase[b] = "done" /\ reader[c] = "running" /\ c \in conns =>
            \/ b \in {written[c][i] : i \in DOMAIN written[c]} \cup {queue[c][i] : i \in DOMAIN queue[c]}
            \/ writer[c] \in {b, "ended"}

-----------------------------------------------------------------------------
(* The keep-alive: when writeLoop gives a peer up.  A ping and a write block *)
(* the one writer; a tick that comes meanwhile waits in the ticker's        *)
(* channel, which holds one.  The peer only listens: it sends no message of *)
(* its own.                                                                *)

CONSTANTS
    ReadTimeout, WriteTimeout, PingInterval,
    MaxOvertakes,   \* bound: writes that go before a tick that is ready
    MaxAliveTime    \* the bound of the clock

(* Config.Validate. *)
ASSUME AliveAssumption ==
    /\ ReadTimeout \in Nat \ {0} /\ WriteTimeout \in Nat \ {0} /\ PingInterval \in Nat \ {0}
    /\ PingInterval < ReadTimeout
    /\ MaxOvertakes \in Nat /\ MaxAliveTime \in Nat

VARIABLES
    clock,
    gone,         \* when the peer stopped answering, -1 while it does
    lastAlive,
    nextTick,     \* when the ticker fires next
    tick,         \* a tick waits in its channel
    writing,      \* the writer: idle, writing, pinging, ended
    since,        \* when its call began
    overtaken     \* writes that went before a tick, since the last pong

aliveVars == <<clock, gone, lastAlive, nextTick, tick, writing, since, overtaken>>

AliveInit ==
    /\ clock = 0 /\ gone = -1 /\ lastAlive = 0 /\ nextTick = PingInterval
    /\ tick = FALSE /\ writing = "idle" /\ since = 0 /\ overtaken = 0

-----------------------------------------------------------------------------
(* The select takes a message that broadcasts have queued, also where a     *)
(* tick is ready: it chooses at random, and nothing in the code bounds how *)
(* often it may choose so.                                                 *)
StartWrite ==
    /\ writing = "idle"
    /\ tick => overtaken < MaxOvertakes
    /\ overtaken' = IF tick THEN overtaken + 1 ELSE overtaken
    /\ writing' = "writing" /\ since' = clock
    /\ UNCHANGED <<clock, gone, lastAlive, nextTick, tick>>

Silent == clock - lastAlive > ReadTimeout

(* The select takes the tick: silent for too long, or ping. *)
TakeTick ==
    /\ writing = "idle" /\ tick
    /\ tick' = FALSE
    /\ writing' = IF Silent THEN "ended" ELSE "pinging"
    /\ since' = clock
    /\ UNCHANGED <<clock, gone, lastAlive, nextTick, overtaken>>

(* Mutant: a ping that is answered does not count as life. *)
PongIgnored ==
    /\ writing = "pinging" /\ gone = -1
    /\ writing' = "idle" /\ overtaken' = 0
    /\ UNCHANGED <<clock, gone, lastAlive, nextTick, tick, since>>

Pong ==
    /\ writing = "pinging" /\ gone = -1
    /\ lastAlive' = clock
    /\ writing' = "idle" /\ overtaken' = 0
    /\ UNCHANGED <<clock, gone, nextTick, tick, since>>

(* A write to a peer that is gone may still find room in the buffers. *)
EndWrite ==
    /\ writing = "writing"
    /\ writing' = "idle"
    /\ UNCHANGED <<clock, gone, lastAlive, nextTick, tick, since, overtaken>>

(* Mutant: a ping has no deadline. *)
NoLimit == MaxAliveTime + 1

PingLimit == WriteTimeout
Deadline == IF writing = "pinging" THEN PingLimit ELSE WriteTimeout

Blocked == writing \in {"writing", "pinging"}

(* The call's context ends before the peer has answered, or has read. *)
TimeOut ==
    /\ Blocked /\ gone # -1 /\ clock - since >= Deadline
    /\ writing' = "ended"
    /\ UNCHANGED <<clock, gone, lastAlive, nextTick, tick, since, overtaken>>

(* The peer vanishes; its reader may go on, or there is none. *)
Vanish ==
    /\ gone = -1
    /\ gone' = clock
    /\ UNCHANGED <<clock, lastAlive, nextTick, tick, writing, since, overtaken>>

(* Time passes while the writer is blocked or has nothing to do; a peer     *)
(* that answers does so within WriteTimeout, and no call outlasts it.      *)
PassAliveTime ==
    /\ clock < MaxAliveTime
    /\ \/ writing = "idle" /\ ~tick
       \/ Blocked /\ clock - since < Deadline
       \/ writing = "ended"
    /\ clock' = clock + 1
    /\ tick' = (tick \/ clock + 1 = nextTick)
    /\ nextTick' = IF clock + 1 = nextTick THEN nextTick + PingInterval ELSE nextTick
    /\ UNCHANGED <<gone, lastAlive, writing, since, overtaken>>

AliveNext == StartWrite \/ TakeTick \/ Pong \/ EndWrite \/ TimeOut \/ Vanish \/ PassAliveTime

AliveSpec == AliveInit /\ [][AliveNext]_aliveVars

-----------------------------------------------------------------------------
(* Properties. *)

(* A client that only listens, and answers, is dropped for one cause only:  *)
(* so many writes went before its ping, each taking up to WriteTimeout,     *)
(* that the silence since its last pong reached ReadTimeout.  Where none or *)
(* few do, it stays connected.                                             *)
DroppedForCause ==
    gone = -1 /\ writing = "ended" => PingInterval + (1 + overtaken) * WriteTimeout > ReadTimeout

(* One that vanished is dropped within a ping interval and the calls that   *)
(* block the writer: the write that the tick found, those that went before *)
(* the tick, and the ping.                                                 *)
VanishedPeerDropped ==
    gone # -1 /\ writing # "ended" => clock - gone <= PingInterval + (2 + overtaken) * WriteTimeout

(* A connection is kept while its peer answers, unless writes crowd out its *)
(* pings, and dropped when it does not answer or would miss a message.     *)
ConnectionsAreKept == NoUnseenHole /\ DroppedForCause /\ VanishedPeerDropped
=============================================================================
