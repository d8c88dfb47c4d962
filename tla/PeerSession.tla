----------------------------- MODULE PeerSession -----------------------------
(***************************************************************************)
(* One session of src/src/p2p/peer.rs, from the open socket to its end:    *)
(* Peer::handshake, then Peer::run with its read buffer, its queue and its *)
(* keepalive.  The other end is any remote: it sends what it likes, when   *)
(* it likes, and its bytes arrive in pieces of any size.                   *)
(*                                                                         *)
(* Data abstraction.  A message is a record of what the code looks at.  On *)
(* the wire it is HeaderSize units (the 24 bytes of the header) and `size' *)
(* units of payload; a unit names the message it belongs to and its place  *)
(* in it.  What this end writes is only counted.                           *)
(***************************************************************************)
EXTENDS Naturals, SequencesExt

CONSTANTS
  Message,       \* the messages the remote may send
  Misread,       \* [Message -> Nat], the length found by a header that starts
                 \* in the middle of the message
  HeaderSize,    \* 24 bytes, in units
  MaxSize,       \* MAX_MESSAGE_SIZE (4 MB), in units
  SocketBuffer,  \* messages that fit into the send buffer of the socket
  Capacity,      \* OUTBOUND_QUEUE_CAPACITY (2048)
  MaxSent        \* bound of the model: messages the remote sends

Kinds == {"version", "verack", "ping", "feature", "addr", "other"}

ASSUME PeerSessionAssumption ==
  /\ \A m \in Message :
       /\ m.kind \in Kinds              \* feature: sendaddrv2, wtxidrelay, feefilter
       /\ m.size \in Nat
       /\ m.valid \in BOOLEAN           \* magic, checksum and payload decode
       /\ m.modern \in BOOLEAN          \* a version of 70016 or later
       /\ m.words \subseteq {"knots", "libre", "satoshi", "core"}
       /\ m.libre \in BOOLEAN           \* the service bit of Libre Relay
  /\ Misread \in [Message -> Nat]
  /\ {HeaderSize, SocketBuffer, Capacity} \subseteq Nat \ {0}
  /\ {MaxSize, MaxSent} \subseteq Nat

VARIABLES
  pc,        \* where the task is
  stream,    \* units on their way from the remote
  link,      \* "open", or "closed" by the remote
  buf,       \* Peer::run, `accumulated'
  unsent,    \* messages to be written before the task goes on
  wire,      \* messages written that the remote has not read
  queue,     \* messages in the channel of the handle
  row,       \* the class of the row in the table, none before the handshake
  class,     \* Peer.node_type
  events,    \* history: the kinds of the events posted
  sent,      \* history: the messages of the remote
  handled    \* history: the numbers of the messages that were parsed

input == <<stream, link, sent>>
output == <<unsent, wire, queue>>
identity == <<row, class>>
history == <<events, handled>>
vars == <<pc, input, buf, output, identity, history>>

Init ==
  /\ pc = "version"
  /\ stream = << >> /\ link = "open" /\ buf = << >>
  /\ unsent = 1 /\ wire = 0 /\ queue = 0      \* our version goes first
  /\ row = "none" /\ class = "unknown"
  /\ events = << >> /\ sent = << >> /\ handled = << >>

-----------------------------------------------------------------------------
(* Frames.                                                                 *)

Frame(n, m) == [i \in 1..(HeaderSize + m.size) |-> [of |-> n, at |-> i]]

\* The length that the first HeaderSize units say.
Declared(units) ==
  LET n == units[1].of
  IN  IF \A i \in 1..HeaderSize : units[i] = [of |-> n, at |-> i]
      THEN sent[n].size
      ELSE Misread[sent[n]]

HasHeader(units) == Len(units) >= HeaderSize

Oversized(units) == HasHeader(units) /\ Declared(units) > MaxSize

HasFrame(units) ==
  /\ HasHeader(units) /\ Declared(units) <= MaxSize
  /\ Len(units) >= HeaderSize + Declared(units)

FrameOf(units) == SubSeq(units, 1, HeaderSize + Declared(units))
After(units) == SubSeq(units, HeaderSize + Declared(units) + 1, Len(units))

\* parse_message: the number of the message, if it is one.
Parsed(frame) ==
  {n \in {frame[1].of} : sent[n].valid /\ frame = Frame(n, sent[n])}

-----------------------------------------------------------------------------
(* Peer::handshake.                                                        *)

\* NodeType::from_handshake, `words' being the ones the user agent contains.
FromHandshake(m) ==
  CASE "knots" \in m.words                     -> "knots"
    [] m.libre \/ "libre" \in m.words          -> "libre"
    [] {"satoshi", "core"} \cap m.words # {}   -> "core"
    [] OTHER                                   -> "other"

Post(kind) == events' = Append(events, kind)

Negotiating == pc \in {"version", "verack"}

\* recv_message reads exactly one message; what follows it stays in the socket.
RecvMessage(n) ==
  /\ unsent = 0
  /\ HasFrame(stream)
  /\ n \in Parsed(FrameOf(stream))
  /\ stream' = After(stream)
  /\ handled' = Append(handled, n)

\* The version, then two capabilities to a remote that knows them, the verack.
ReceiveVersion(n) ==
  /\ pc = "version"
  /\ RecvMessage(n) /\ sent[n].kind = "version"
  /\ class' = FromHandshake(sent[n])
  /\ unsent' = IF sent[n].modern THEN 3 ELSE 1
  /\ pc' = "verack"
  /\ UNCHANGED <<link, sent, buf, wire, queue, row, events>>

IgnoreBeforeVersion(n) ==
  /\ pc = "version"
  /\ RecvMessage(n) /\ sent[n].kind # "version"
  /\ UNCHANGED <<pc, link, sent, buf, output, identity, events>>

\* Mutant: a second version is taken like the first.
ReceiveAgain(n) ==
  /\ pc = "verack"
  /\ RecvMessage(n) /\ sent[n].kind \notin {"verack", "ping", "feature"}
  /\ class' = IF sent[n].kind = "version" THEN FromHandshake(sent[n]) ELSE class
  /\ UNCHANGED <<pc, link, sent, buf, output, row, events>>

IgnoreBeforeVerack(n) ==
  /\ pc = "verack"
  /\ RecvMessage(n) /\ sent[n].kind \notin {"verack", "ping", "feature"}
  /\ UNCHANGED <<pc, link, sent, buf, output, identity, events>>

AnswerEarly(n) ==
  /\ pc = "verack"
  /\ RecvMessage(n) /\ sent[n].kind = "ping"
  /\ unsent' = 1
  /\ UNCHANGED <<pc, link, sent, buf, wire, queue, identity, events>>

ForwardEarly(n) ==
  /\ pc = "verack"
  /\ RecvMessage(n) /\ sent[n].kind = "feature"
  /\ Post("Message")
  /\ UNCHANGED <<pc, link, sent, buf, output, identity>>

\* The row is written and the event loop is told, without an await in between.
ReceiveVerack(n) ==
  /\ pc = "verack"
  /\ RecvMessage(n) /\ sent[n].kind = "verack"
  /\ row' = class
  /\ Post("Connected")
  /\ pc' = "established"
  /\ UNCHANGED <<link, sent, buf, output, class>>

\* A length over the limit, a message that does not parse, the end of the
\* stream, or a write to a closed socket.
HandshakeError ==
  /\ Negotiating
  /\ IF unsent > 0
     THEN link = "closed"
     ELSE \/ Oversized(stream)
          \/ HasFrame(stream) /\ Parsed(FrameOf(stream)) = {}
          \/ link = "closed" /\ ~HasFrame(stream)
  /\ pc' = "over"
  /\ UNCHANGED <<input, buf, output, identity, history>>

\* timeout(peer_timeout, ...), at any await of the handshake.
HandshakeTimeout ==
  /\ Negotiating
  /\ pc' = "over"
  /\ UNCHANGED <<input, buf, output, identity, history>>

\* The duplicate check of the connection task.
HandOver ==
  /\ pc = "established"
  /\ pc' \in {"select", "over"}
  /\ UNCHANGED <<input, buf, output, identity, history>>

-----------------------------------------------------------------------------
(* Peer::run.                                                              *)

Running == pc \in {"select", "process", "write"}

Read ==
  /\ pc = "select"
  /\ \E n \in 1..Len(stream) :
       /\ buf' = buf \o SubSeq(stream, 1, n)
       /\ stream' = SubSeq(stream, n + 1, Len(stream))
  /\ pc' = "process"
  /\ UNCHANGED <<link, sent, output, identity, history>>

\* The last event, then the loop is left.
Stop ==
  /\ Post("Disconnected")
  /\ pc' = "over"
  /\ UNCHANGED <<input, buf, output, identity, handled>>

\* The end of the stream, or a reset that loses what is on its way.
ReadEnd == pc = "select" /\ link = "closed" /\ Stop

TakeQueued ==
  /\ pc = "select" /\ queue > 0
  /\ queue' = queue - 1
  /\ unsent' = 1
  /\ pc' = "write"
  /\ UNCHANGED <<input, buf, wire, identity, history>>

Keepalive ==
  /\ pc = "select"
  /\ unsent' = 1
  /\ pc' = "write"
  /\ UNCHANGED <<input, buf, wire, queue, identity, history>>

\* Mutant: one message for each piece that is read.
ProcessOne ==
  /\ pc = "process" /\ unsent = 0
  /\ HasFrame(buf)
  /\ LET known == Parsed(FrameOf(buf))
         is(kind) == \E n \in known : sent[n].kind = kind
     IN  /\ handled' = handled \o SetToSeq(known)
         /\ unsent' = IF is("ping") THEN 1 ELSE 0
         /\ IF known = {} \/ is("ping")
            THEN UNCHANGED events
            ELSE Post(IF is("addr") THEN "Addresses" ELSE "Message")
  /\ buf' = After(buf)
  /\ pc' = "select"
  /\ UNCHANGED <<input, wire, queue, identity>>

\* A whole message is in the buffer: it leaves it, parsed or not.
ProcessMessage ==
  /\ pc = "process" /\ unsent = 0
  /\ HasFrame(buf)
  /\ LET known == Parsed(FrameOf(buf))
         is(kind) == \E n \in known : sent[n].kind = kind
     IN  /\ handled' = handled \o SetToSeq(known)
         /\ unsent' = IF is("ping") THEN 1 ELSE 0
         /\ IF known = {} \/ is("ping")
            THEN UNCHANGED events
            ELSE Post(IF is("addr") THEN "Addresses" ELSE "Message")
  /\ buf' = After(buf)
  /\ UNCHANGED <<pc, input, wire, queue, identity>>

\* Mutant: the buffer is kept.
KeepOversized ==
  /\ pc = "process" /\ unsent = 0
  /\ Oversized(buf)
  /\ pc' = "select"
  /\ UNCHANGED <<buf, input, output, identity, history>>

\* The whole buffer goes, with what it holds of later messages.
ClearOversized ==
  /\ pc = "process" /\ unsent = 0
  /\ Oversized(buf)
  /\ buf' = << >>
  /\ pc' = "select"
  /\ UNCHANGED <<input, output, identity, history>>

\* Mutant: the buffer does not outlive the read.
ProcessForget ==
  /\ pc = "process" /\ unsent = 0
  /\ ~HasFrame(buf) /\ ~Oversized(buf)
  /\ buf' = << >>
  /\ pc' = "select"
  /\ UNCHANGED <<input, output, identity, history>>

ProcessEnd ==
  /\ pc = "process" /\ unsent = 0
  /\ ~HasFrame(buf) /\ ~Oversized(buf)
  /\ pc' = "select"
  /\ UNCHANGED <<input, buf, output, identity, history>>

-----------------------------------------------------------------------------
(* send_message: it blocks while the send buffer of the socket is full.    *)

Write ==
  /\ pc # "over"
  /\ unsent > 0 /\ wire < SocketBuffer
  /\ unsent' = unsent - 1
  /\ wire' = wire + 1
  /\ pc' = IF pc = "write" THEN "select" ELSE pc
  /\ UNCHANGED <<input, buf, queue, identity, history>>

\* Mutant: a pong that cannot be written ends the session with an event, as the
\* other writes do, but not the loop.
PongReported ==
  /\ pc = "process" /\ unsent > 0 /\ link = "closed"
  /\ unsent' = 0
  /\ Post("Disconnected")
  /\ UNCHANGED <<pc, input, buf, wire, queue, identity, handled>>

\* The error of a pong is ignored.
PongFails ==
  /\ pc = "process" /\ unsent > 0 /\ link = "closed"
  /\ unsent' = 0
  /\ UNCHANGED <<pc, input, buf, wire, queue, identity, history>>

\* That of a queued message or of a keepalive is not.
WriteFails == pc = "write" /\ unsent > 0 /\ link = "closed" /\ Stop

-----------------------------------------------------------------------------
(* The others: who holds the handle, and the remote.                       *)

\* Mutant: an unbounded channel.
EnqueueUnbounded ==
  /\ Running
  /\ queue' = queue + 1
  /\ UNCHANGED <<pc, input, buf, unsent, wire, identity, history>>

Enqueue ==
  /\ Running /\ queue < Capacity
  /\ queue' = queue + 1
  /\ UNCHANGED <<pc, input, buf, unsent, wire, identity, history>>

RemoteSend(m) ==
  /\ pc # "over" /\ link = "open" /\ Len(sent) < MaxSent
  /\ sent' = Append(sent, m)
  /\ stream' = stream \o Frame(Len(sent'), m)
  /\ UNCHANGED <<pc, link, buf, output, identity, history>>

RemoteRead ==
  /\ pc # "over" /\ wire > 0
  /\ wire' = wire - 1
  /\ UNCHANGED <<pc, input, buf, unsent, queue, identity, history>>

RemoteClose ==
  /\ pc # "over" /\ link = "open"
  /\ link' = "closed"
  /\ UNCHANGED <<pc, stream, sent, buf, output, identity, history>>

-----------------------------------------------------------------------------
Handshake(n) ==
  \/ ReceiveVersion(n) \/ IgnoreBeforeVersion(n)
  \/ IgnoreBeforeVerack(n) \/ AnswerEarly(n) \/ ForwardEarly(n) \/ ReceiveVerack(n)

Process == ProcessMessage \/ ClearOversized \/ ProcessEnd

Send == Write \/ PongFails \/ WriteFails

Select == Read \/ ReadEnd \/ TakeQueued \/ Keepalive

Remote == RemoteRead \/ RemoteClose \/ \E m \in Message : RemoteSend(m)

Next ==
  \/ \E n \in DOMAIN sent : Handshake(n)
  \/ HandshakeError \/ HandshakeTimeout \/ HandOver
  \/ Select \/ Process \/ Send \/ Enqueue
  \/ Remote

(* The task is scheduled; the timer of the handshake fires; select! takes a *)
(* ready branch at random, so a branch that is ready again and again is     *)
(* taken; and the remote reads what it is sent.                             *)
Fairness ==
  /\ WF_vars(Process) /\ WF_vars(Send)
  /\ WF_vars(HandshakeTimeout) /\ WF_vars(HandOver)
  /\ SF_vars(Read) /\ SF_vars(TakeQueued)
  /\ WF_vars(RemoteRead)

Spec == Init /\ [][Next]_vars /\ Fairness

-----------------------------------------------------------------------------
(* Type invariant; a task that does not write owes no message.             *)
Unit == [of : DOMAIN sent, at : Nat \ {0}]
Class == {"unknown", "knots", "libre", "core", "other"}

TypeOK ==
  /\ pc \in {"version", "verack", "established", "select", "process", "write", "over"}
  /\ sent \in Seq(Message)
  /\ stream \in Seq(Unit) /\ buf \in Seq(Unit)
  /\ link \in {"open", "closed"}
  /\ unsent \in 0..3 /\ wire \in 0..SocketBuffer /\ queue \in 0..Capacity
  /\ row \in Class \cup {"none"} /\ class \in Class
  /\ events \in Seq({"Connected", "Disconnected", "Message", "Addresses"})
  /\ handled \in Seq(DOMAIN sent)

(* Framing, peer.rs:306-347 and 385-406: whatever pieces the stream comes   *)
(* in, whenever the task waits for input it has handled every message that  *)
(* has arrived in whole, each once, in order, also those that came with the *)
(* verack or before the peer task was there; but for messages that do not   *)
(* parse, and after a message over the limit, which may take others along.  *)
Sane(n) == \A k \in 1..n : sent[k].size <= MaxSize

Arrived == IF stream = << >> THEN Len(sent) ELSE Head(stream).of - 1

HandledExactly ==
  /\ \A i, j \in DOMAIN handled : i < j => handled[i] < handled[j]
  /\ pc \notin {"process", "over"} =>
       \A n \in DOMAIN sent :
         Sane(n) => (n \in Range(handled) <=> n <= Arrived /\ sent[n].valid)

(* The read buffer stays below the largest message, also when the remote    *)
(* announces more than the limit or the stream has lost its alignment.      *)
BufferBounded == pc \in {"select", "write"} => Len(buf) < HeaderSize + MaxSize

(* The class under which a node is stored is that of the first version it   *)
(* sent: a later version, also one before the verack, changes nothing.      *)
ClassifiedOnce ==
  row # "none" =>
    \E n \in DOMAIN sent :
      /\ row = FromHandshake(sent[n])
      /\ sent[n].kind = "version"
      /\ \A k \in 1..(n - 1) : sent[k].kind # "version"

(* The session keeps the lifecycle that the event loop relies on.           *)
Phase ==
  IF Negotiating THEN "handshake" ELSE IF Running THEN "running" ELSE pc

Life == INSTANCE SessionLifecycle WITH phase <- Phase, posted <- events

LifecycleKept == Life!Spec

(* As long as the remote reads what it is sent, every message it sends is   *)
(* handled or the session ends: a partial message, a full queue or a full   *)
(* socket does not stop the task for good.                                  *)
SentIsHandled ==
  \A n \in 1..MaxSent :
    (n <= Len(sent) /\ Sane(n) /\ sent[n].valid) ~> (n \in Range(handled) \/ pc = "over")
=============================================================================
