----------------------------- MODULE ChatStream -----------------------------
(***************************************************************************)
(* Join of grpc-concepts/server/server.go: one goroutine reads the stream,   *)
(* the handler's own writes it, and a bounded channel lies between them.    *)
(* readThenWrite, the other mode, writes nothing before the client's end.   *)
(* The client sends ahead, or waits for each echo before the next message.  *)
(***************************************************************************)
EXTENDS Integers, Sequences

CONSTANTS
    ChatMessages,    \* how many the client sends
    Incoming         \* the room of the channel

ASSUME ChatAssumption == ChatMessages \in Nat /\ Incoming \in Nat

Goodbye == 0

VARIABLES
    chatMode,        \* Concurrent, ReadThenWrite
    lockstep,        \* the client waits for each echo
    said, uplink,    \* messages that the client has sent; those not read yet
    halfClosed,      \* it has sent its last
    broken,          \* the stream has ended under the call
    held,            \* the message in the reader's hands, or 0
    reading,         \* the reader runs
    recvErr, inbox,
    echo,            \* the message in the writer's hands, or 0
    replies,
    join             \* running, failed (a Send has), ok, error

chatVars == <<chatMode, lockstep, said, uplink, halfClosed, broken, held, reading, recvErr, inbox, echo, replies, join>>
clientVars == <<said, uplink, halfClosed, broken>>
readerVars == <<held, reading, recvErr>>
writerVars == <<echo, replies, join>>

ChatInit ==
    /\ chatMode \in {"Concurrent", "ReadThenWrite"} /\ lockstep \in BOOLEAN
    /\ said = 0 /\ uplink = <<>> /\ halfClosed = FALSE /\ broken = FALSE
    /\ held = 0 /\ reading = TRUE /\ recvErr = FALSE /\ inbox = <<>>
    /\ echo = 0 /\ replies = <<>> /\ join = "running"

-----------------------------------------------------------------------------
Say ==
    /\ ~broken /\ said < ChatMessages /\ (lockstep => Len(replies) = said)
    /\ said' = said + 1 /\ uplink' = Append(uplink, said + 1)
    /\ UNCHANGED <<chatMode, lockstep, halfClosed, broken, inbox, readerVars, writerVars>>

CloseSend ==
    /\ ~broken /\ ~halfClosed /\ said = ChatMessages /\ (lockstep => Len(replies) = said)
    /\ halfClosed' = TRUE
    /\ UNCHANGED <<chatMode, lockstep, said, uplink, broken, inbox, readerVars, writerVars>>

(* The client disconnects, or its deadline passes: Recv and Send fail, the context ends. *)
BreakStream ==
    /\ ~broken /\ join = "running" /\ broken' = TRUE
    /\ UNCHANGED <<chatMode, lockstep, said, uplink, halfClosed, inbox, readerVars, writerVars>>

-----------------------------------------------------------------------------
Recv ==
    /\ reading /\ held = 0 /\ uplink # <<>>
    /\ held' = Head(uplink) /\ uplink' = Tail(uplink)
    /\ UNCHANGED <<chatMode, lockstep, said, halfClosed, broken, reading, recvErr, inbox, writerVars>>

RecvEnds ==
    /\ reading /\ held = 0 /\ (broken \/ (halfClosed /\ uplink = <<>>))
    /\ reading' = FALSE /\ recvErr' = broken
    /\ UNCHANGED <<chatMode, lockstep, clientVars, held, inbox, writerVars>>

HasRoomFor == chatMode = "ReadThenWrite" \/ Len(inbox) < Incoming

PassOn ==
    /\ held # 0 /\ HasRoomFor
    /\ inbox' = Append(inbox, held) /\ held' = 0
    /\ UNCHANGED <<chatMode, lockstep, clientVars, reading, recvErr, writerVars>>

(* Mutant: the reader's send does not select on the context. *)
ParkedForEver == FALSE

StopsPassing == broken

LeavePassing ==
    /\ held # 0 /\ StopsPassing /\ chatMode = "Concurrent"
    /\ held' = 0 /\ reading' = FALSE
    /\ UNCHANGED <<chatMode, lockstep, clientVars, recvErr, inbox, writerVars>>

-----------------------------------------------------------------------------
(* Mutant: it waits for the end, as readThenWrite. *)
WritesLast == ~reading

MayWrite == chatMode = "Concurrent" \/ ~reading

TakeIncoming ==
    /\ join = "running" /\ echo = 0 /\ inbox # <<>> /\ MayWrite
    /\ ~(chatMode = "ReadThenWrite" /\ recvErr)
    /\ echo' = Head(inbox) /\ inbox' = Tail(inbox)
    /\ UNCHANGED <<chatMode, lockstep, clientVars, readerVars, replies, join>>

SendEcho ==
    /\ join = "running" /\ echo # 0
    /\ echo' = 0
    /\ IF broken THEN join' = "failed" /\ UNCHANGED replies
                 ELSE replies' = Append(replies, echo) /\ UNCHANGED join
    /\ UNCHANGED <<chatMode, lockstep, clientVars, readerVars, inbox>>

(* Mutant: an empty channel is taken for its end. *)
ChannelIsEmpty == inbox = <<>>

(* The loop over the channel ends when the reader has closed it. *)
RangeIsOver == inbox = <<>> /\ ~reading

EndJoin ==
    /\ join = "running" /\ echo = 0
    /\ RangeIsOver \/ (chatMode = "ReadThenWrite" /\ recvErr)
    /\ IF recvErr \/ (broken /\ chatMode = "Concurrent") THEN join' = "error" /\ UNCHANGED replies
       ELSE join' = "ok" /\ replies' = IF chatMode = "Concurrent" THEN Append(replies, Goodbye) ELSE replies
    /\ UNCHANGED <<chatMode, lockstep, clientVars, readerVars, inbox, echo>>

(* Mutant: a failed Send returns at once. *)
WaitForNobody == TRUE

ReaderIsOver == ~reading

FailJoin ==
    /\ join = "failed" /\ ReaderIsOver
    /\ join' = "error"
    /\ UNCHANGED <<chatMode, lockstep, clientVars, readerVars, inbox, echo, replies>>

ChatStep == Say \/ CloseSend \/ Recv \/ RecvEnds \/ PassOn \/ LeavePassing \/ TakeIncoming \/ SendEcho \/ EndJoin \/ FailJoin
ChatNext == ChatStep \/ BreakStream
ChatSpec == ChatInit /\ [][ChatNext]_chatVars
ChatFairness == WF_chatVars(ChatStep)

-----------------------------------------------------------------------------
JoinOver == join \in {"ok", "error"}

(* The echoes are those of the first messages, in order, with nothing after *)
(* the goodbye; a call that ends well has answered everything the client    *)
(* said, and no call ends with its reader still on the stream.              *)
EchoedInOrder ==
    /\ \A i \in DOMAIN replies : replies[i] = i \/ (replies[i] = Goodbye /\ i = Len(replies))
    /\ join = "ok" => {i \in DOMAIN replies : replies[i] # Goodbye} = 1..ChatMessages
    /\ JoinOver => ~reading

(* A call ends, whoever waits for whom and whenever the stream breaks: in    *)
(* the concurrent mode always, in the other if the client sends ahead.      *)
ChatOver == chatMode = "Concurrent" \/ ~lockstep => JoinOver
=============================================================================
