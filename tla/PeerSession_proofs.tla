-------------------------- MODULE PeerSession_proofs --------------------------
(***************************************************************************)
(* Theorems about a session, for every set of messages, every size of the  *)
(* header, of the largest message, of the socket buffer and of the channel. *)
(***************************************************************************)
EXTENDS PeerSession, FiniteSetTheorems, SequenceTheorems, TLAPS

-----------------------------------------------------------------------------
(* Frames and parsing.                                                     *)

(* What a header declares is a length, whatever bytes it is read from.      *)
LEMMA DeclaredType ==
  ASSUME NEW units \in Seq(Unit), sent \in Seq(Message), HasHeader(units)
  PROVE  /\ Declared(units) \in Nat
         /\ units[1] \in Unit /\ units[1].of \in DOMAIN sent
<1>1. HeaderSize \in Nat \ {0} /\ Len(units) \in Nat
  BY PeerSessionAssumption
<1>2. units[1] \in Unit
  BY <1>1 DEF HasHeader
<1>3. units[1].of \in DOMAIN sent
  BY <1>2 DEF Unit
<1>4. sent[units[1].of] \in Message
  BY <1>3
<1>5. sent[units[1].of].size \in Nat /\ Misread[sent[units[1].of]] \in Nat
  BY <1>4, PeerSessionAssumption
<1> QED
  BY <1>2, <1>3, <1>5 DEF Declared

(* A frame is a piece of what it is cut from, and starts with its start.    *)
LEMMA FrameStart ==
  ASSUME NEW units \in Seq(Unit), sent \in Seq(Message), HasFrame(units)
  PROVE  /\ units[1].of \in DOMAIN sent
         /\ HeaderSize + Declared(units) \in 1..Len(units)
         /\ FrameOf(units)[1] = units[1]
<1> DEFINE k == HeaderSize + Declared(units)
<1>1. units[1].of \in DOMAIN sent /\ Declared(units) \in Nat
  BY DeclaredType DEF HasFrame
<1>2. k \in 1..Len(units) /\ Len(units) \in Nat
  BY <1>1, PeerSessionAssumption DEF HasFrame
<1> HIDE DEF k
<1>3. \A i \in 1..k : units[i] \in Unit
  BY <1>2
<1>4. FrameOf(units)[1] = units[1]
  BY <1>2, <1>3, SubSeqProperties DEF FrameOf, k
<1> QED
  BY <1>1, <1>2, <1>4 DEF k

(* parse_message returns one message or none.                               *)
LEMMA ParsedType ==
  ASSUME NEW frame, frame[1].of \in DOMAIN sent
  PROVE  /\ Parsed(frame) = {} \/ \E n \in DOMAIN sent : Parsed(frame) = {n}
         /\ Parsed(frame) \subseteq DOMAIN sent
BY DEF Parsed

LEMMA SeqOfNone == SetToSeq({}) = << >>
<1>1. Cardinality({}) = 0
  BY FS_EmptySet
<1>2. << >> \in [1..0 -> {}] /\ IsInjective(<< >>)
  BY DEF IsInjective
<1>3. SetToSeq({}) \in [1..0 -> {}]
  BY <1>1, <1>2 DEF SetToSeq
<1> QED
  BY <1>3

LEMMA SeqOfOne ==
  ASSUME NEW n
  PROVE  SetToSeq({n}) = <<n>> /\ \A S : n \in S => <<n>> \in Seq(S)
<1>1. Cardinality({n}) = 1
  BY FS_Singleton
<1>2. <<n>> \in [1..1 -> {n}] /\ IsInjective(<<n>>)
  BY DEF IsInjective
<1>3. SetToSeq({n}) \in [1..1 -> {n}]
  BY <1>1, <1>2 DEF SetToSeq
<1> QED
  BY <1>3

-----------------------------------------------------------------------------
(* Type correctness.                                                       *)

(* Taking the first message off a sequence of units leaves units.           *)
LEMMA AfterType ==
  ASSUME NEW units \in Seq(Unit), sent \in Seq(Message), HasFrame(units)
  PROVE  After(units) \in Seq(Unit)
<1> DEFINE k == HeaderSize + Declared(units)
<1>1. k \in Nat /\ Len(units) \in Nat /\ k <= Len(units)
  BY DeclaredType, PeerSessionAssumption DEF HasFrame
<1> HIDE DEF k
<1>2. \A i \in (k + 1)..Len(units) : units[i] \in Unit
  BY <1>1
<1>3. SubSeq(units, k + 1, Len(units)) \in Seq(Unit)
  BY <1>1, <1>2, SubSeqProperties
<1> QED
  BY <1>3 DEF After, k

(* The handshake takes whole messages off the stream.                       *)
LEMMA RecvMessageType ==
  ASSUME TypeOK, NEW n \in DOMAIN sent, RecvMessage(n), UNCHANGED sent
  PROVE  /\ stream' \in Seq(Unit)
         /\ handled' \in Seq(DOMAIN sent)
BY AfterType, AppendProperties DEF RecvMessage, TypeOK

LEMMA UnitStable ==
  ASSUME UNCHANGED sent
  PROVE  Unit' = Unit
BY DEF Unit

LEMMA TypeInductive == TypeOK /\ [Next]_vars => TypeOK'
<1> SUFFICES ASSUME TypeOK, [Next]_vars PROVE TypeOK'
  OBVIOUS
<1> USE DEF TypeOK, input, output, identity, history
<1> DEFINE E == {"Connected", "Disconnected", "Message", "Addresses"}
<1>1. {HeaderSize, SocketBuffer, Capacity} \subseteq Nat \ {0} /\ {MaxSize, MaxSent} \subseteq Nat
  BY PeerSessionAssumption
<1>2. \A e \in E : Append(events, e) \in Seq(E)
  BY AppendProperties
<1>3. \A m : FromHandshake(m) \in Class
  BY DEF FromHandshake, Class
<1>4. ASSUME NEW n \in DOMAIN sent, Handshake(n)
      PROVE  TypeOK'
  <2>1. UNCHANGED <<link, sent, buf, wire, queue>> /\ RecvMessage(n)
    BY <1>4 DEF Handshake, ReceiveVersion, IgnoreBeforeVersion, IgnoreBeforeVerack,
                AnswerEarly, ForwardEarly, ReceiveVerack
  <2>2. stream' \in Seq(Unit') /\ buf' \in Seq(Unit') /\ handled' \in Seq(DOMAIN sent')
    BY <2>1, RecvMessageType, UnitStable
  <2>3. pc' \in {"version", "verack", "established"} /\ unsent' \in 0..3
    BY <1>4 DEF Handshake, ReceiveVersion, IgnoreBeforeVersion, IgnoreBeforeVerack,
                AnswerEarly, ForwardEarly, ReceiveVerack
  <2>4. events' \in Seq(E)
    BY <1>2, <1>4 DEF Handshake, ReceiveVersion, IgnoreBeforeVersion, IgnoreBeforeVerack,
                AnswerEarly, ForwardEarly, ReceiveVerack, Post
  <2>5. row' \in Class \cup {"none"} /\ class' \in Class
    BY <1>3, <1>4 DEF Handshake, ReceiveVersion, IgnoreBeforeVersion, IgnoreBeforeVerack,
                AnswerEarly, ForwardEarly, ReceiveVerack
  <2> QED
    BY <2>1, <2>2, <2>3, <2>4, <2>5
<1>5. CASE HandshakeError \/ HandshakeTimeout \/ HandOver
  BY <1>5, UnitStable DEF HandshakeError, HandshakeTimeout, HandOver
<1>6. CASE Read
  <2> PICK n \in 1..Len(stream) :
        /\ buf' = buf \o SubSeq(stream, 1, n)
        /\ stream' = SubSeq(stream, n + 1, Len(stream))
    BY <1>6 DEF Read
  <2>1. Len(stream) \in Nat /\ n \in Nat /\ \A i \in 1..Len(stream) : stream[i] \in Unit
    OBVIOUS
  <2>2. SubSeq(stream, 1, n) \in Seq(Unit)
    BY <2>1, SubSeqProperties
  <2>3. SubSeq(stream, n + 1, Len(stream)) \in Seq(Unit)
    BY <2>1, SubSeqProperties
  <2>4. buf' \in Seq(Unit)
    BY <2>2, ConcatProperties
  <2> QED
    BY <1>6, <2>3, <2>4, UnitStable DEF Read
<1>7. CASE ReadEnd \/ WriteFails
  BY <1>2, <1>7, UnitStable DEF ReadEnd, WriteFails, Stop, Post
<1>8. CASE TakeQueued \/ Keepalive
  BY <1>1, <1>8, UnitStable, SMTT(30) DEF TakeQueued, Keepalive
<1>9. CASE ProcessMessage
  <2> DEFINE known == Parsed(FrameOf(buf))
  <2>1. HasFrame(buf)
    BY <1>9 DEF ProcessMessage
  <2>2. FrameOf(buf)[1].of \in DOMAIN sent
    <3>1. buf \in Seq(Unit) /\ sent \in Seq(Message)
      OBVIOUS
    <3> QED
      BY <2>1, <3>1, FrameStart
  <2>3. known = {} \/ \E n \in DOMAIN sent : known = {n}
    BY <2>2, ParsedType
  <2> HIDE DEF known
  <2>4. SetToSeq(known) \in Seq(DOMAIN sent)
    <3>1. CASE known = {}
      BY <3>1, SeqOfNone, EmptySeq
    <3>2. ASSUME NEW n \in DOMAIN sent, known = {n}
          PROVE  SetToSeq(known) \in Seq(DOMAIN sent)
      BY <3>2, SeqOfOne, ZenonT(30)
    <3> QED
      BY <2>3, <3>1, <3>2
  <2>5. handled' \in Seq(DOMAIN sent)
    BY <1>9, <2>4, ConcatProperties DEF ProcessMessage, known
  <2>6. events' \in Seq(E)
    BY <1>2, <1>9 DEF ProcessMessage, Post
  <2>7. buf' \in Seq(Unit)
    BY <1>9, AfterType DEF ProcessMessage
  <2>8. unsent' \in 0..3
    BY <1>9 DEF ProcessMessage
  <2> QED
    BY <1>9, <2>5, <2>6, <2>7, <2>8, UnitStable DEF ProcessMessage
<1>10. CASE ClearOversized \/ ProcessEnd
  <2>1. buf' \in Seq(Unit)
    <3>1. buf' = << >> \/ buf' = buf
      BY <1>10 DEF ClearOversized, ProcessEnd
    <3> QED
      BY <3>1, EmptySeq
  <2>2. UNCHANGED <<stream, link, sent, unsent, wire, queue, row, class, events, handled>>
    BY <1>10 DEF ClearOversized, ProcessEnd
  <2>3. pc' = "select"
    BY <1>10 DEF ClearOversized, ProcessEnd
  <2> QED
    BY <2>1, <2>2, <2>3, UnitStable
<1>11. CASE Write \/ PongFails
  <2>1. UNCHANGED <<stream, link, sent, buf, queue, row, class, events, handled>>
    BY <1>11 DEF Write, PongFails
  <2>2. unsent' \in 0..3 /\ wire' \in 0..SocketBuffer
    <3>1. CASE Write
      <4>1. unsent > 0 /\ wire < SocketBuffer /\ unsent' = unsent - 1 /\ wire' = wire + 1
        BY <3>1 DEF Write
      <4> QED
        BY <1>1, <4>1
    <3>2. CASE PongFails
      <4>1. unsent' = 0 /\ wire' = wire
        BY <3>2 DEF PongFails
      <4> QED
        BY <4>1
    <3> QED
      BY <1>11, <3>1, <3>2
  <2>3. pc' = pc \/ pc' = "select"
    BY <1>11 DEF Write, PongFails
  <2> QED
    BY <2>1, <2>2, <2>3, UnitStable
<1>12. CASE Enqueue \/ RemoteRead
  <2>1. UNCHANGED <<pc, stream, link, sent, buf, unsent, row, class, events, handled>>
    BY <1>12 DEF Enqueue, RemoteRead
  <2>2. wire' \in 0..SocketBuffer /\ queue' \in 0..Capacity
    BY <1>1, <1>12, SMTT(30) DEF Enqueue, RemoteRead
  <2> QED
    BY <2>1, <2>2, UnitStable
<1>13. CASE RemoteClose
  BY <1>13, UnitStable DEF RemoteClose
<1>14. ASSUME NEW m \in Message, RemoteSend(m) PROVE TypeOK'
  <2>1. /\ sent' \in Seq(Message) /\ Len(sent') = Len(sent) + 1
        /\ DOMAIN sent \subseteq DOMAIN sent' /\ Len(sent') \in DOMAIN sent'
    BY <1>14, AppendProperties DEF RemoteSend
  <2>2. Unit \subseteq Unit'
    BY <2>1 DEF Unit
  <2>3. Frame(Len(sent'), m) \in Seq(Unit')
    <3>1. HeaderSize + m.size \in Nat
      BY <1>1, PeerSessionAssumption, SMTT(30)
    <3>2. \A i \in 1..(HeaderSize + m.size) : [of |-> Len(sent'), at |-> i] \in Unit'
      BY <2>1, <3>1 DEF Unit
    <3> DEFINE k == HeaderSize + m.size
               f == [i \in 1..k |-> [of |-> Len(sent'), at |-> i]]
    <3>3. f \in [1..k -> Unit']
      BY <3>2
    <3>4. k \in Nat
      BY <3>1
    <3> HIDE DEF k, f
    <3>5. f \in Seq(Unit')
      <4>1. f \in UNION {[1..n -> Unit'] : n \in Nat}
        BY <3>3, <3>4
      <4> QED
        BY <4>1, SeqDef
    <3> QED
      BY <3>5 DEF Frame, f, k
  <2>4. stream \in Seq(Unit') /\ buf \in Seq(Unit') /\ handled \in Seq(DOMAIN sent')
    BY <2>1, <2>2, SeqMonotonic
  <2>5. stream' \in Seq(Unit')
    BY <1>14, <2>3, <2>4, ConcatProperties DEF RemoteSend
  <2> QED
    BY <1>14, <2>1, <2>4, <2>5 DEF RemoteSend
<1>15. CASE UNCHANGED vars
  BY <1>15, UnitStable DEF vars
<1> QED
  BY <1>4, <1>5, <1>6, <1>7, <1>8, <1>9, <1>10, <1>11, <1>12, <1>13, <1>14, <1>15
  DEF Next, Select, Process, Send, Remote

LEMMA InitType == Init => TypeOK
BY PeerSessionAssumption DEF Init, TypeOK, Class

(* Every field of a session holds what its Rust type says, and neither the  *)
(* socket nor the channel of the handle takes more than it holds.           *)
THEOREM TypeCorrect == Spec => []TypeOK
BY InitType, TypeInductive, PTL DEF Spec

-----------------------------------------------------------------------------
(* The lifecycle.                                                          *)

(* Every step of a session is one of SessionLifecycle or stutters there, so *)
(* the event loop gets the events of a session in the order it relies on:   *)
(* Connected once, then reports, then Disconnected and nothing after it.    *)
THEOREM KeepsLifecycle == Spec => Life!Init /\ [][Life!Next]_(Life!vars)
<1>1. Init => Life!Init
  BY DEF Init, Life!Init, Phase, Negotiating
<1>2. TypeOK /\ [Next]_vars => [Life!Next]_(Life!vars)
  <2> SUFFICES ASSUME TypeOK, [Next]_vars PROVE [Life!Next]_(Life!vars)
    OBVIOUS
  <2> USE DEF input, output, identity, history, Phase, Negotiating, Running, Life!vars,
              Post, Life!Post
  <2>1. ASSUME NEW n \in DOMAIN sent, Handshake(n) PROVE [Life!Next]_(Life!vars)
    BY <2>1 DEF Handshake, ReceiveVersion, IgnoreBeforeVersion, IgnoreBeforeVerack,
                AnswerEarly, ForwardEarly, ReceiveVerack, RecvMessage,
                Life!Next, Life!Conclude, Life!Negotiate, Life!Establish
  <2>2. CASE HandshakeError \/ HandshakeTimeout \/ HandOver
    BY <2>2 DEF HandshakeError, HandshakeTimeout, HandOver,
                Life!Next, Life!Conclude, Life!Fail, Life!HandOver
  <2>3. CASE Read \/ TakeQueued \/ Keepalive
    BY <2>3 DEF Read, TakeQueued, Keepalive
  <2>4. CASE ReadEnd \/ WriteFails
    BY <2>4 DEF ReadEnd, WriteFails, Stop, Life!Next, Life!End
  <2>5. CASE ProcessMessage
    <3>1. \/ UNCHANGED events
          \/ \E kind \in {"Message", "Addresses"} : events' = Append(events, kind)
      BY <2>5 DEF ProcessMessage
    <3>2. pc = "process" /\ pc' = pc
      BY <2>5 DEF ProcessMessage
    <3> QED
      BY <3>1, <3>2 DEF Life!Next, Life!Report
  <2>6. CASE ClearOversized \/ ProcessEnd
    BY <2>6 DEF ClearOversized, ProcessEnd
  <2>7. CASE Write \/ PongFails
    BY <2>7 DEF Write, PongFails
  <2>8. CASE Enqueue \/ RemoteRead \/ RemoteClose
    BY <2>8 DEF Enqueue, RemoteRead, RemoteClose
  <2>9. ASSUME NEW m \in Message, RemoteSend(m) PROVE [Life!Next]_(Life!vars)
    BY <2>9 DEF RemoteSend
  <2>10. CASE UNCHANGED vars
    BY <2>10 DEF vars
  <2> QED
    BY <2>1, <2>2, <2>3, <2>4, <2>5, <2>6, <2>7, <2>8, <2>9, <2>10
    DEF Next, Select, Process, Send, Remote
<1> QED
  BY <1>1, <1>2, TypeCorrect, PTL DEF Spec

-----------------------------------------------------------------------------
(* Framing: the read buffer takes every message off the stream once and in *)
(* order, whatever pieces the stream comes in.                             *)
(*                                                                         *)
(* What has been sent and not taken yet is buf \o stream.  It is a piece   *)
(* of the concatenation of all frames that ends where that ends (Flows).   *)
(* As nothing here can be shown by induction on the length of a sequence,  *)
(* Flows relates any two units by their distance.                          *)

Size(s, n) == HeaderSize + s[n].size

\* No unit lies further before the end than its message has units left; of two
\* units, the later is of the same message and as much further in it, or of a later
\* message and at least so far off; a message starts behind the end of the one
\* before; the last unit is the end of the last message.
Inside(s, w) ==
  \A i \in 1..Len(w) :
    /\ w[i].of \in DOMAIN s /\ w[i].at \in 1..Size(s, w[i].of)
    /\ Len(w) - i >= Size(s, w[i].of) - w[i].at

Ordered(s, w) ==
  \A i, j \in 1..Len(w) :
    i < j => \/ w[i].of = w[j].of /\ w[j].at = w[i].at + (j - i)
             \/ w[i].of < w[j].of /\ j - i >= (Size(s, w[i].of) - w[i].at) + w[j].at

Continuous(s, w) ==
  \A i \in 1..Len(w) :
    w[i].at = Size(s, w[i].of) =>
      IF i = Len(w) THEN w[i].of = Len(s) ELSE w[i + 1] = [of |-> w[i].of + 1, at |-> 1]

Flows(s, w) == Inside(s, w) /\ Ordered(s, w) /\ Continuous(s, w)

\* What is left of the stream starts with message n, all before it being taken.
Starts(s, w, n) ==
  IF w = << >> THEN n = Len(s) + 1 ELSE w[1].of = n /\ w[1].at = 1

Delivered(s, h, n) == \A k \in 1..n : s[k].valid => k \in Range(h)

Aligned(s, w, h) == \E n \in 1..(Len(s) + 1) : Starts(s, w, n) /\ Delivered(s, h, n - 1)

\* The buffer was cleared at message n.
Overrun(s, h) == \E n \in DOMAIN s : s[n].size > MaxSize /\ Delivered(s, h, n - 1)

\* What was handled is valid, in order, and lies before what is left.
Handled(s, w, h) ==
  /\ \A i \in DOMAIN h : s[h[i]].valid
  /\ \A i, j \in DOMAIN h : i < j => h[i] < h[j]
  /\ \A i \in DOMAIN h : \A j \in 1..Len(w) : h[i] < w[j].of

Framed(s, w, h) ==
  /\ Flows(s, w)
  /\ Aligned(s, w, h) \/ Overrun(s, h)
  /\ Handled(s, w, h)

LEMMA SizeType ==
  ASSUME sent \in Seq(Message), NEW n \in DOMAIN sent
  PROVE  /\ Size(sent, n) \in Nat /\ HeaderSize \in Nat \ {0}
         /\ sent[n].size \in Nat /\ Size(sent, n) = HeaderSize + sent[n].size
<1>1. sent[n] \in Message
  OBVIOUS
<1> QED
  BY <1>1, PeerSessionAssumption DEF Size

-----------------------------------------------------------------------------
(* Flows.                                                                  *)

(* What is left when a piece is taken off the front flows on.               *)
LEMMA SuffixFlows ==
  ASSUME sent \in Seq(Message), NEW w \in Seq(Unit), Flows(sent, w), NEW k \in 0..Len(w)
  PROVE  LET t == SubSeq(w, k + 1, Len(w))
         IN  /\ t \in Seq(Unit) /\ Len(t) = Len(w) - k
             /\ \A i \in 1..Len(t) : t[i] = w[k + i]
             /\ Flows(sent, t)
<1> DEFINE t == SubSeq(w, k + 1, Len(w))
<1>1. Len(w) \in Nat /\ k \in Nat /\ k <= Len(w)
  OBVIOUS
<1>2. \A i \in (k + 1)..Len(w) : w[i] \in Unit
  BY <1>1
<1>3. /\ t \in Seq(Unit)
      /\ Len(t) = IF k + 1 <= Len(w) THEN Len(w) - (k + 1) + 1 ELSE 0
      /\ \A i \in 1..(Len(w) - (k + 1) + 1) : t[i] = w[(k + 1) + i - 1]
  BY <1>1, <1>2, SubSeqProperties
<1> HIDE DEF t
<1>4. Len(t) = Len(w) - k /\ \A i \in 1..Len(t) : t[i] = w[k + i] /\ k + i \in 1..Len(w)
  BY <1>1, <1>3
<1>5. \A n \in DOMAIN sent : Size(sent, n) \in Nat
  BY SizeType
<1>6. \A i \in 1..Len(w) : w[i].of \in DOMAIN sent /\ w[i].at \in Nat
  BY DEF Flows, Inside, Unit
<1>7. Inside(sent, t)
  <2> SUFFICES ASSUME NEW i \in 1..Len(t)
               PROVE  /\ t[i].of \in DOMAIN sent /\ t[i].at \in 1..Size(sent, t[i].of)
                      /\ Len(t) - i >= Size(sent, t[i].of) - t[i].at
    BY DEF Inside
  <2>1. /\ w[k + i].of \in DOMAIN sent /\ w[k + i].at \in 1..Size(sent, w[k + i].of)
        /\ Len(w) - (k + i) >= Size(sent, w[k + i].of) - w[k + i].at
    BY <1>4 DEF Flows, Inside
  <2> QED
    BY <1>1, <1>4, <1>5, <1>6, <2>1
<1>8. Ordered(sent, t)
  <2> SUFFICES ASSUME NEW i \in 1..Len(t), NEW j \in 1..Len(t), i < j
               PROVE  \/ t[i].of = t[j].of /\ t[j].at = t[i].at + (j - i)
                      \/ /\ t[i].of < t[j].of
                         /\ j - i >= (Size(sent, t[i].of) - t[i].at) + t[j].at
    BY DEF Ordered
  <2>1. k + i < k + j /\ (k + j) - (k + i) = j - i
    BY <1>1, <1>4
  <2>2. \/ w[k + i].of = w[k + j].of /\ w[k + j].at = w[k + i].at + ((k + j) - (k + i))
        \/ /\ w[k + i].of < w[k + j].of
           /\ (k + j) - (k + i) >= (Size(sent, w[k + i].of) - w[k + i].at) + w[k + j].at
    BY <1>4, <2>1 DEF Flows, Ordered
  <2> QED
    BY <1>4, <2>1, <2>2
<1>9. Continuous(sent, t)
  <2> SUFFICES ASSUME NEW i \in 1..Len(t), t[i].at = Size(sent, t[i].of)
               PROVE  IF i = Len(t)
                      THEN t[i].of = Len(sent)
                      ELSE t[i + 1] = [of |-> t[i].of + 1, at |-> 1]
    BY DEF Continuous
  <2>1. IF k + i = Len(w)
        THEN w[k + i].of = Len(sent)
        ELSE w[k + i + 1] = [of |-> w[k + i].of + 1, at |-> 1]
    BY <1>4 DEF Flows, Continuous
  <2>2. i # Len(t) => i + 1 \in 1..Len(t) /\ k + (i + 1) = k + i + 1
    BY <1>1, <1>4
  <2>3. i = Len(t) <=> k + i = Len(w)
    BY <1>1, <1>4
  <2> QED
    BY <1>4, <2>1, <2>2, <2>3
<1> QED
  BY <1>3, <1>4, <1>7, <1>8, <1>9 DEF Flows, t

(* Where message n starts, its whole frame follows, and behind it the next  *)
(* message or the end.                                                      *)
LEMMA FrameFlows ==
  ASSUME sent \in Seq(Message), NEW w \in Seq(Unit), Flows(sent, w), w # << >>,
         NEW n, w[1].of = n, w[1].at = 1
  PROVE  /\ n \in DOMAIN sent
         /\ Size(sent, n) \in 1..Len(w)
         /\ \A i \in 1..Size(sent, n) : w[i] = [of |-> n, at |-> i]
         /\ IF Size(sent, n) = Len(w)
            THEN n = Len(sent)
            ELSE w[Size(sent, n) + 1] = [of |-> n + 1, at |-> 1]
<1>1. Len(w) \in Nat \ {0}
  BY EmptySeq
<1>2. n \in DOMAIN sent /\ Len(w) - 1 >= Size(sent, n) - 1
  BY <1>1 DEF Flows, Inside
<1>3. Size(sent, n) \in Nat \ {0}
  BY <1>2, SizeType
<1>4. Size(sent, n) \in 1..Len(w)
  BY <1>1, <1>2, <1>3
<1>5. ASSUME NEW i \in 1..Size(sent, n) PROVE w[i] = [of |-> n, at |-> i]
  <2>1. i \in 1..Len(w)
    BY <1>4, <1>5
  <2>2. w[i].at \in Nat \ {0} /\ w[i] = [of |-> w[i].of, at |-> w[i].at]
    <3>1. w[i] \in Unit
      BY <2>1
    <3>2. w[i] \in [of : DOMAIN sent, at : Nat \ {0}]
      BY <3>1 DEF Unit
    <3> HIDE DEF Unit
    <3> QED
      BY <3>2
  <2>3. CASE i = 1
    BY <2>2, <2>3
  <2>4. CASE 1 < i
    <3>1. \/ w[1].of = w[i].of /\ w[i].at = w[1].at + (i - 1)
          \/ i - 1 >= (Size(sent, n) - 1) + w[i].at
      BY <1>1, <2>1, <2>4 DEF Flows, Ordered
    <3>2. w[i].of = n /\ w[i].at = i
      BY <1>3, <1>5, <2>2, <2>4, <3>1
    <3> QED
      BY <2>2, <3>2
  <2> QED
    BY <1>3, <1>5, <2>3, <2>4
<1>6. LET k == Size(sent, n)
      IN  w[k].of = n /\ w[k].at = k /\ k \in 1..Len(w)
  <2> DEFINE k == Size(sent, n)
  <2>1. k \in 1..k /\ k \in 1..Len(w)
    BY <1>3, <1>4
  <2>2. w[k] = [of |-> n, at |-> k]
    BY <1>5, <2>1
  <2> HIDE DEF k
  <2>3. w[k].of = n /\ w[k].at = k
    BY <2>2
  <2> QED
    BY <2>1, <2>3 DEF k
<1>7. IF Size(sent, n) = Len(w)
      THEN n = Len(sent)
      ELSE w[Size(sent, n) + 1] = [of |-> n + 1, at |-> 1]
  BY <1>6 DEF Flows, Continuous
<1> QED
  BY <1>2, <1>4, <1>5, <1>7

(* A message that the remote sends goes behind what is left.                *)
LEMMA SendFlows ==
  ASSUME sent \in Seq(Message), NEW w \in Seq(Unit), Flows(sent, w), NEW m \in Message
  PROVE  LET s == Append(sent, m)
             f == Frame(Len(s), m)
             u == w \o f
         IN  /\ Len(f) \in Nat \ {0} /\ Len(u) = Len(w) + Len(f)
             /\ \A i \in 1..Len(w) : u[i] = w[i]
             /\ \A i \in 1..Len(f) : u[Len(w) + i] = [of |-> Len(s), at |-> i]
             /\ Flows(s, u)
<1> DEFINE s == Append(sent, m)
           n == Len(s)
           K == HeaderSize + m.size
           f == Frame(n, m)
           u == w \o f
           L == Len(w)
           A == [of : Nat \ {0}, at : Nat \ {0}]
<1>1. /\ s \in Seq(Message) /\ n = Len(sent) + 1 /\ s[n] = m
      /\ \A k \in DOMAIN sent : s[k] = sent[k] /\ k < n
      /\ DOMAIN sent = 1..Len(sent) /\ DOMAIN s = 1..n /\ Len(sent) \in Nat
  BY AppendProperties
<1>2. K \in Nat \ {0} /\ Size(s, n) = K
  BY <1>1, PeerSessionAssumption DEF Size
<1>3. \A k \in DOMAIN sent : Size(s, k) = Size(sent, k) /\ Size(s, k) \in Nat
  BY <1>1, SizeType DEF Size
<1> HIDE DEF s
<1>4. n \in Nat \ {0}
  BY <1>1
<1> HIDE DEF n
<1>5. Len(f) = K /\ (\A i \in 1..K : f[i] = [of |-> n, at |-> i]) /\ f \in Seq(A)
  <2> DEFINE g == [i \in 1..K |-> [of |-> n, at |-> i]]
  <2>1. f = g
    BY DEF Frame
  <2>2. g \in [1..K -> A]
    BY <1>4
  <2> HIDE DEF f, g, A, K
  <2>3. f \in Seq(A)
    <3>1. f \in UNION {[1..k -> A] : k \in Nat}
      BY <1>2, <2>1, <2>2
    <3> QED
      BY <3>1, SeqDef
  <2>4. DOMAIN f = 1..K
    BY <2>1 DEF g
  <2> QED
    BY <1>2, <2>1, <2>3, <2>4 DEF g
<1>6. w \in Seq(A)
  <2>1. Unit \subseteq A
    BY <1>1 DEF Unit
  <2> QED
    BY <2>1, SeqMonotonic
<1> HIDE DEF f, K, A
<1>7. /\ L \in Nat /\ Len(u) = L + K
      /\ \A i \in 1..L : u[i] = w[i]
      /\ \A i \in 1..K : u[L + i] = [of |-> n, at |-> i]
  <2>1. L \in Nat /\ Len(u) = L + K
    BY <1>5, <1>6, ConcatProperties
  <2>2. \A i \in 1..Len(u) : u[i] = IF i <= L THEN w[i] ELSE f[i - L]
    BY <1>5, <1>6, ConcatProperties
  <2>3. \A i \in 1..L : i \in 1..Len(u)
    BY <1>2, <2>1
  <2>4. \A i \in 1..K : L + i \in 1..Len(u) /\ ~ (L + i <= L) /\ (L + i) - L = i
    BY <1>2, <2>1
  <2> HIDE DEF u
  <2> QED
    BY <1>5, <2>1, <2>2, <2>3, <2>4
<1> HIDE DEF u, L
<1>8. ASSUME NEW a \in 1..K, NEW j, j = L + a
       PROVE  u[j].of = n /\ u[j].at = a
  <2>1. u[j] = [of |-> n, at |-> a]
    BY <1>7, <1>8
  <2> QED
    BY <2>1
<1>9. \A i \in 1..L : /\ w[i].of \in DOMAIN sent /\ w[i].at \in 1..Size(sent, w[i].of)
                      /\ L - i >= Size(sent, w[i].of) - w[i].at
  BY DEF Flows, Inside, L
<1>10. \A i \in 1..(L + K) : i \in 1..L \/ \E a \in 1..K : i = L + a
  <2> SUFFICES ASSUME NEW i \in 1..(L + K), i \notin 1..L PROVE i - L \in 1..K /\ i = L + (i - L)
    OBVIOUS
  <2> QED
    BY <1>2, <1>7
<1>11. Inside(s, u)
  <2> SUFFICES ASSUME NEW i \in 1..(L + K)
               PROVE  /\ u[i].of \in DOMAIN s /\ u[i].at \in 1..Size(s, u[i].of)
                      /\ (L + K) - i >= Size(s, u[i].of) - u[i].at
    BY <1>7 DEF Inside
  <2>1. CASE i \in 1..L
    <3>1. w[i].of \in DOMAIN s /\ w[i].at \in 1..Size(s, w[i].of)
      BY <1>1, <1>3, <1>9, <2>1 DEF n
    <3>2. (L + K) - i >= Size(s, w[i].of) - w[i].at
      BY <1>2, <1>3, <1>7, <1>9, <2>1, SMTT(30)
    <3> QED
      BY <1>7, <2>1, <3>1, <3>2
  <2>2. ASSUME NEW a \in 1..K, i = L + a
        PROVE  /\ u[i].of \in DOMAIN s /\ u[i].at \in 1..Size(s, u[i].of)
               /\ (L + K) - i >= Size(s, u[i].of) - u[i].at
    <3>1. u[i].of = n /\ u[i].at = a
      BY <1>8, <2>2
    <3> QED
      BY <1>1, <1>2, <1>4, <1>7, <2>2, <3>1
  <2> QED
    BY <1>10, <2>1, <2>2
<1>12. Ordered(s, u)
  <2> SUFFICES ASSUME NEW i \in 1..(L + K), NEW j \in 1..(L + K), i < j
               PROVE  \/ u[i].of = u[j].of /\ u[j].at = u[i].at + (j - i)
                      \/ /\ u[i].of < u[j].of
                         /\ j - i >= (Size(s, u[i].of) - u[i].at) + u[j].at
    BY <1>7 DEF Ordered
  <2>1. CASE j \in 1..L
    <3>1. i \in 1..L
      BY <1>7, <2>1
    <3>2. \/ w[i].of = w[j].of /\ w[j].at = w[i].at + (j - i)
          \/ /\ w[i].of < w[j].of
             /\ j - i >= (Size(sent, w[i].of) - w[i].at) + w[j].at
      BY <2>1, <3>1 DEF Flows, Ordered, L
    <3> QED
      BY <1>3, <1>7, <1>9, <2>1, <3>1, <3>2
  <2>2. ASSUME i \in 1..L, NEW b \in 1..K, j = L + b
        PROVE  /\ u[i].of < u[j].of
               /\ j - i >= (Size(s, u[i].of) - u[i].at) + u[j].at
    <3>1. u[j].of = n /\ u[j].at = b /\ u[i] = w[i]
      BY <1>7, <1>8, <2>2
    <3>2. w[i].of < n /\ Size(s, w[i].of) = Size(sent, w[i].of) /\ Size(s, w[i].of) \in Nat
      BY <1>1, <1>3, <1>9, <2>2
    <3>3. w[i].at \in Nat /\ L - i >= Size(s, w[i].of) - w[i].at
      BY <1>9, <2>2, <3>2
    <3> QED
      BY <1>7, <2>2, <3>1, <3>2, <3>3
  <2>3. ASSUME NEW a \in 1..K, i = L + a, NEW b \in 1..K, j = L + b
        PROVE  u[i].of = u[j].of /\ u[j].at = u[i].at + (j - i)
    <3>1. u[j].of = n /\ u[j].at = b /\ u[i].of = n /\ u[i].at = a
      BY <1>8, <2>3
    <3> QED
      BY <1>2, <1>7, <2>3, <3>1
  <2> QED
    BY <1>10, <2>1, <2>2, <2>3
<1>13. Continuous(s, u)
  <2> SUFFICES ASSUME NEW i \in 1..(L + K), u[i].at = Size(s, u[i].of)
               PROVE  IF i = L + K
                      THEN u[i].of = n
                      ELSE u[i + 1] = [of |-> u[i].of + 1, at |-> 1]
    BY <1>7 DEF Continuous, n
  <2>1. CASE i \in 1..L
    <3>1. w[i].at = Size(sent, w[i].of)
      BY <1>3, <1>7, <1>9, <2>1
    <3>2. IF i = L THEN w[i].of = Len(sent) ELSE w[i + 1] = [of |-> w[i].of + 1, at |-> 1]
      BY <2>1, <3>1 DEF Flows, Continuous, L
    <3>3. i # L + K /\ u[i] = w[i]
      BY <1>2, <1>7, <2>1
    <3>4. CASE i = L
      <4>1. w[i].of + 1 = n /\ 1 \in 1..K
        BY <1>1, <1>2, <3>2, <3>4 DEF n
      <4> QED
        BY <1>7, <3>3, <3>4, <4>1
    <3>5. CASE i # L
      <4>1. i + 1 \in 1..L
        BY <1>7, <2>1, <3>5
      <4> QED
        BY <1>7, <3>2, <3>3, <3>5, <4>1
    <3> QED
      BY <3>4, <3>5
  <2>2. ASSUME NEW a \in 1..K, i = L + a
        PROVE  IF i = L + K
               THEN u[i].of = n
               ELSE u[i + 1] = [of |-> u[i].of + 1, at |-> 1]
    <3>1. u[i].of = n /\ u[i].at = a
      BY <1>8, <2>2
    <3>2. a = K
      BY <1>2, <3>1
    <3> QED
      BY <2>2, <3>1, <3>2
  <2> QED
    BY <1>10, <2>1, <2>2
<1> QED
  BY <1>2, <1>5, <1>7, <1>11, <1>12, <1>13 DEF Flows, s, n, f, u, L

-----------------------------------------------------------------------------
(* Taking one message.                                                     *)

(* A header at the start of a message declares the size of the message.     *)
LEMMA HeadOfMessage ==
  ASSUME sent \in Seq(Message), NEW w \in Seq(Unit), Flows(sent, w), w # << >>,
         NEW n, w[1].of = n, w[1].at = 1,
         NEW q \in Seq(Unit), HasHeader(q), Len(q) <= Len(w),
         \A i \in 1..Len(q) : q[i] = w[i]
  PROVE  n \in DOMAIN sent /\ Declared(q) = sent[n].size
<1>1. /\ n \in DOMAIN sent
      /\ \A i \in 1..Size(sent, n) : w[i] = [of |-> n, at |-> i]
  BY FrameFlows, ZenonT(30)
<1>2. /\ HeaderSize \in Nat \ {0} /\ Size(sent, n) = HeaderSize + sent[n].size
      /\ sent[n].size \in Nat /\ Len(q) \in Nat /\ HeaderSize <= Len(q)
  BY <1>1, SizeType DEF HasHeader
<1>3. \A i \in 1..HeaderSize : i \in 1..Size(sent, n) /\ i \in 1..Len(q)
  BY <1>2
<1>4. \A i \in 1..HeaderSize : q[i] = [of |-> n, at |-> i]
  BY <1>1, <1>3
<1>5. q[1] = w[1]
  BY <1>2
<1>6. q[1].of = n
  BY <1>5
<1> QED
  BY <1>1, <1>4, <1>6 DEF Declared

LEMMA DeliveredMore ==
  ASSUME NEW h, NEW g, Range(h) \subseteq Range(g), NEW n
  PROVE  Delivered(sent, h, n) => Delivered(sent, g, n)
BY DEF Delivered

(* The first frame of what is left is taken, and handled if it is a message *)
(* that parses: what is left and what was handled keep in step.             *)
LEMMA TakeFramed ==
  ASSUME sent \in Seq(Message), NEW w \in Seq(Unit), NEW h \in Seq(DOMAIN sent),
         Framed(sent, w, h), HasFrame(w)
  PROVE  LET g == h \o SetToSeq(Parsed(FrameOf(w)))
         IN  /\ Framed(sent, After(w), g)
             /\ Aligned(sent, w, h) => Aligned(sent, After(w), g)
             /\ \A m : Starts(sent, w, m) =>
                         m = w[1].of /\ m \in DOMAIN sent /\ Starts(sent, After(w), m + 1)
<1> DEFINE k == HeaderSize + Declared(w)
           n == w[1].of
           frame == FrameOf(w)
           p == Parsed(frame)
           g == h \o SetToSeq(p)
           t == After(w)
<1>1. /\ k \in 1..Len(w) /\ Len(w) \in Nat \ {0} /\ n \in DOMAIN sent
      /\ Declared(w) \in Nat /\ HeaderSize \in Nat \ {0}
  <2>1. Declared(w) \in Nat /\ n \in DOMAIN sent
    BY DeclaredType DEF HasFrame
  <2>2. HeaderSize \in Nat \ {0} /\ k <= Len(w) /\ Len(w) \in Nat
    BY PeerSessionAssumption DEF HasFrame
  <2> QED
    BY <2>1, <2>2
<1>2. /\ Len(frame) = k
      /\ \A i \in 1..k : frame[i] = w[i]
      /\ frame \in Seq(Unit)
  <2>1. \A i \in 1..k : w[i] \in Unit
    BY <1>1
  <2> HIDE DEF k
  <2>2. frame = SubSeq(w, 1, k)
    BY DEF FrameOf, k
  <2>3. /\ SubSeq(w, 1, k) \in Seq(Unit)
        /\ Len(SubSeq(w, 1, k)) = IF 1 <= k THEN k - 1 + 1 ELSE 0
        /\ \A i \in 1..(k - 1 + 1) : SubSeq(w, 1, k)[i] = w[1 + i - 1]
    BY <1>1, <2>1, SubSeqProperties
  <2> QED
    BY <1>1, <2>2, <2>3
<1>3. /\ t \in Seq(Unit) /\ Len(t) = Len(w) - k
      /\ \A i \in 1..Len(t) : t[i] = w[k + i] /\ k + i \in 2..Len(w)
      /\ Flows(sent, t)
  <2>1. k \in 0..Len(w)
    BY <1>1
  <2> HIDE DEF k
  <2>2. t = SubSeq(w, k + 1, Len(w))
    BY DEF After, k
  <2>3. /\ t \in Seq(Unit) /\ Len(t) = Len(w) - k
        /\ \A i \in 1..Len(t) : t[i] = w[k + i]
        /\ Flows(sent, t)
    BY <2>1, <2>2, SuffixFlows DEF Framed
  <2> QED
    BY <1>1, <2>3
<1>4. frame[1] = w[1] /\ w # << >>
  BY <1>1, <1>2
<1>5. p = {} \/ p = {n}
  BY <1>4 DEF Parsed
<1>0. n \in DOMAIN sent
  BY <1>1
<1>6. /\ p = {} => g = h
      /\ p = {n} => g = Append(h, n)
  <2> HIDE DEF p, n
  <2>1. CASE p = {}
    BY <2>1, SeqOfNone, ConcatEmptySeq
  <2>2. CASE p = {n}
    <3>1. g = h \o <<n>>
      BY <2>2, SeqOfOne
    <3>2. \A e \in DOMAIN sent : Append(h, e) = h \o <<e>>
      BY AppendIsConcat
    <3> QED
      BY <1>0, <2>2, <3>1, <3>2
  <2> QED
    BY <1>5, <2>1, <2>2
<1> HIDE DEF k, n, frame, p, g, t
<1>7. /\ DOMAIN h = 1..Len(h) /\ Len(h) \in Nat
      /\ \A i \in DOMAIN h : h[i] \in DOMAIN sent
  OBVIOUS
<1>8. p = {n} => /\ DOMAIN g = 1..(Len(h) + 1)
                 /\ g[Len(h) + 1] = n
                 /\ \A i \in 1..Len(h) : g[i] = h[i]
  <2> SUFFICES ASSUME p = {n}
               PROVE  /\ DOMAIN g = 1..(Len(h) + 1)
                      /\ g[Len(h) + 1] = n
                      /\ \A i \in 1..Len(h) : g[i] = h[i]
    OBVIOUS
  <2>1. g = Append(h, n)
    BY <1>6
  <2>2. Len(g) = Len(h) + 1 /\ g \in Seq(DOMAIN sent)
    BY <1>0, <2>1, AppendProperties
  <2>3. (\A i \in 1..Len(h) : g[i] = h[i]) /\ g[Len(h) + 1] = n
    BY <1>0, <2>1, AppendProperties
  <2> QED
    BY <2>2, <2>3
<1>9. Range(h) \subseteq Range(g) /\ (p = {n} => n \in Range(g))
  <2>1. p = {n} => \A i \in DOMAIN h : i \in DOMAIN g /\ g[i] = h[i]
    BY <1>7, <1>8
  <2>2. p = {n} => Len(h) + 1 \in DOMAIN g
    BY <1>7, <1>8
  <2> QED
    BY <1>5, <1>6, <1>8, <2>1, <2>2 DEF Range
<1>10. \A i \in DOMAIN h : h[i] < n
  BY <1>1 DEF Framed, Handled, n
<1>11. \A j \in 1..Len(t) : n <= t[j].of /\ t[j].of \in Nat
  <2> SUFFICES ASSUME NEW j \in 1..Len(t) PROVE n <= t[j].of /\ t[j].of \in Nat
    OBVIOUS
  <2>1. t[j] = w[k + j] /\ k + j \in 1..Len(w) /\ 1 < k + j /\ 1 \in 1..Len(w)
    BY <1>1, <1>3
  <2>2. w[1].of = w[k + j].of \/ w[1].of < w[k + j].of
    BY <2>1 DEF Framed, Flows, Ordered
  <2>3. w[k + j].of \in DOMAIN sent
    BY <2>1 DEF Framed, Flows, Inside
  <2>4. w[k + j].of \in Nat /\ n \in Nat
    BY <1>1, <2>3, SMTT(30)
  <2> QED
    BY <2>1, <2>2, <2>4 DEF n
<1>12. p = {n} => sent[n].valid /\ \A j \in 1..Len(t) : n < t[j].of
  <2> SUFFICES ASSUME p = {n}, NEW j \in 1..Len(t)
               PROVE  sent[n].valid /\ n < t[j].of
    BY DEF p, Parsed
  <2>1. n \in Parsed(frame)
    BY DEF p
  <2>2. sent[n].valid /\ frame = Frame(n, sent[n])
    BY <2>1 DEF Parsed
  <2>3. Size(sent, n) \in Nat \ {0} /\ Size(sent, n) = HeaderSize + sent[n].size
    BY <1>1, SizeType
  <2>4. frame = [i \in 1..Size(sent, n) |-> [of |-> n, at |-> i]]
    BY <2>2, <2>3 DEF Frame
  <2>5. DOMAIN frame = 1..k /\ DOMAIN frame = 1..Size(sent, n)
    <3>1. DOMAIN frame = 1..k
      BY <1>2
    <3>2. DOMAIN frame = 1..Size(sent, n)
      BY <2>4
    <3> QED
      BY <3>1, <3>2
  <2>6. k = Size(sent, n)
    BY <1>1, <2>3, <2>5
  <2>7. w[1].at = 1
    <3>1. frame[1] = [of |-> n, at |-> 1]
      BY <2>3, <2>4
    <3> QED
      BY <1>4, <3>1
  <2>8. t[j].of # n
    <3> SUFFICES ASSUME t[j].of = n PROVE FALSE
      OBVIOUS
    <3>1. t[j] = w[k + j] /\ k + j \in 1..Len(w) /\ 1 < k + j /\ 1 \in 1..Len(w)
      <4>1. t[j] = w[k + j] /\ k + j \in 2..Len(w)
        BY <1>3
      <4> HIDE DEF t
      <4>2. Len(w) \in Nat \ {0}
        BY <1>1
      <4> QED
        BY <4>1, <4>2
    <3>0. w[k + j].of = n
      BY <3>1
    <3>2. w[k + j].at \in 1..Size(sent, n)
      <4>1. w[k + j].at \in 1..Size(sent, w[k + j].of)
        BY <3>1 DEF Framed, Flows, Inside
      <4> QED
        BY <3>0, <4>1
    <3>3. \/ w[k + j].at = w[1].at + ((k + j) - 1)
          \/ w[1].of < w[k + j].of
      BY <3>1 DEF Framed, Flows, Ordered
    <3>4. w[1].of = n /\ w[k + j].of = n /\ n \in Nat
      BY <1>0, <3>0 DEF n
    <3>5. w[k + j].at = 1 + ((k + j) - 1)
      BY <2>7, <3>3, <3>4
    <3> QED
      BY <1>1, <1>3, <2>6, <3>2, <3>5
  <2> QED
    BY <1>1, <1>11, <2>2, <2>8
<1>13. Handled(sent, t, g)
  <2>1. CASE p = {}
    <3>1. \A i \in DOMAIN h : \A j \in 1..Len(t) : h[i] < t[j].of
      <4> SUFFICES ASSUME NEW i \in DOMAIN h, NEW j \in 1..Len(t) PROVE h[i] < t[j].of
        OBVIOUS
      <4>1. k + j \in 1..Len(w) /\ t[j] = w[k + j]
        BY <1>1, <1>3
      <4> QED
        BY <4>1 DEF Framed, Handled
    <3> QED
      BY <1>6, <2>1, <3>1 DEF Framed, Handled
  <2>2. CASE p = {n}
    <3>1. \A i \in DOMAIN g : (i \in DOMAIN h /\ g[i] = h[i]) \/ (i = Len(h) + 1 /\ g[i] = n)
      <4>1. \A i \in 1..(Len(h) + 1) : i \in 1..Len(h) \/ i = Len(h) + 1
        BY <1>7
      <4>2. DOMAIN g = 1..(Len(h) + 1) /\ g[Len(h) + 1] = n /\ \A i \in 1..Len(h) : g[i] = h[i]
        BY <1>8, <2>2
      <4>3. DOMAIN h = 1..Len(h)
        BY <1>7
      <4> QED
        BY <4>1, <4>2, <4>3
    <3>2. \A i \in DOMAIN g : sent[g[i]].valid
      BY <1>12, <2>2, <3>1 DEF Framed, Handled
    <3>3. \A i, j \in DOMAIN g : i < j => g[i] < g[j]
      <4> SUFFICES ASSUME NEW i \in DOMAIN g, NEW j \in DOMAIN g, i < j PROVE g[i] < g[j]
        OBVIOUS
      <4>1. i \in DOMAIN h /\ g[i] = h[i]
        BY <1>7, <1>8, <2>2, <3>1
      <4>2. CASE j \in DOMAIN h
        BY <3>1, <4>1, <4>2, <1>7, <1>8, <2>2 DEF Framed, Handled
      <4>3. CASE g[j] = n
        BY <1>10, <4>1, <4>3
      <4> QED
        BY <3>1, <4>2, <4>3
    <3>4. \A i \in DOMAIN g : \A j \in 1..Len(t) : g[i] < t[j].of
      <4> SUFFICES ASSUME NEW i \in DOMAIN g, NEW j \in 1..Len(t) PROVE g[i] < t[j].of
        OBVIOUS
      <4>1. g[i] \in Nat /\ g[i] <= n /\ n \in Nat
        BY <1>1, <1>7, <1>10, <3>1
      <4>2. n < t[j].of /\ t[j].of \in Nat
        BY <1>11, <1>12, <2>2
      <4> QED
        BY <4>1, <4>2
    <3> QED
      BY <3>2, <3>3, <3>4 DEF Handled
  <2> QED
    BY <1>5, <2>1, <2>2
<1>14. ASSUME w[1].at = 1
       PROVE  /\ k = Size(sent, n)
              /\ \A i \in 1..k : w[i] = [of |-> n, at |-> i]
              /\ Starts(sent, t, n + 1)
  <2>1. /\ Size(sent, n) \in 1..Len(w)
        /\ \A i \in 1..Size(sent, n) : w[i] = [of |-> n, at |-> i]
        /\ IF Size(sent, n) = Len(w)
           THEN n = Len(sent)
           ELSE w[Size(sent, n) + 1] = [of |-> n + 1, at |-> 1]
    BY <1>4, <1>14, FrameFlows DEF Framed, n
  <2>2. Declared(w) = sent[n].size
    BY <1>1, <1>4, <1>14, HeadOfMessage DEF Framed, HasFrame, n
  <2>3. k = Size(sent, n)
    BY <2>2 DEF k, Size
  <2>4. CASE k = Len(w)
    <3>1. t = << >> /\ n = Len(sent)
      BY <1>3, <2>1, <2>3, <2>4, EmptySeq
    <3> QED
      BY <2>1, <2>3, <3>1 DEF Starts
  <2>5. CASE k # Len(w)
    <3>1. Len(t) >= 1 /\ t # << >>
      BY <1>1, <1>3, <2>5, EmptySeq
    <3>2. t[1] = [of |-> n + 1, at |-> 1]
      BY <1>1, <1>3, <2>1, <2>3, <2>5, <3>1
    <3> QED
      BY <2>1, <2>3, <3>1, <3>2 DEF Starts
  <2> QED
    BY <2>4, <2>5
<1>15. ASSUME NEW m, Starts(sent, w, m)
       PROVE  m = n /\ w[1].at = 1
  BY <1>4, <1>15 DEF Starts, n
<1>16. ASSUME Aligned(sent, w, h) PROVE Aligned(sent, t, g)
  <2>1. w[1].at = 1 /\ Delivered(sent, h, n - 1)
    BY <1>4, <1>16 DEF Aligned, Starts, n
  <2>2. sent[n].valid => p = {n}
    <3> SUFFICES ASSUME sent[n].valid PROVE n \in Parsed(frame)
      BY <1>5 DEF p
    <3>1. frame = [i \in 1..k |-> [of |-> n, at |-> i]]
      <4>1. \A i \in 1..k : frame[i] = [of |-> n, at |-> i]
        BY <1>2, <1>14, <2>1
      <4>2. frame = [i \in 1..k |-> frame[i]]
        BY <1>2
      <4> QED
        BY <4>1, <4>2
    <3>2. frame = Frame(n, sent[n])
      BY <1>14, <2>1, <3>1 DEF Frame, Size
    <3> QED
      BY <1>4, <3>2 DEF Parsed, n
  <2>3. Delivered(sent, g, n)
    <3>1. \A m \in 1..n : m \in 1..(n - 1) \/ m = n
      BY <1>1
    <3>2. Delivered(sent, g, n - 1)
      BY <1>9, <2>1, DeliveredMore
    <3> QED
      BY <1>9, <2>2, <3>1, <3>2 DEF Delivered
  <2>4. n + 1 \in 1..(Len(sent) + 1) /\ (n + 1) - 1 = n
    BY <1>1
  <2> QED
    BY <1>14, <2>1, <2>3, <2>4 DEF Aligned
<1>17. Overrun(sent, h) => Overrun(sent, g)
  BY <1>9, DeliveredMore DEF Overrun
<1>18. Framed(sent, t, g)
  BY <1>3, <1>13, <1>16, <1>17 DEF Framed
<1>19. ASSUME NEW m, Starts(sent, w, m)
       PROVE  m = w[1].of /\ m \in DOMAIN sent /\ Starts(sent, t, m + 1)
  BY <1>0, <1>14, <1>15, <1>19 DEF n
<1> QED
  BY <1>16, <1>18, <1>19 DEF t, g, p, frame

-----------------------------------------------------------------------------
(* Sending, reading, clearing.                                             *)

LEMMA SendFramed ==
  ASSUME sent \in Seq(Message), NEW w \in Seq(Unit), NEW h \in Seq(DOMAIN sent),
         Framed(sent, w, h), NEW m \in Message
  PROVE  LET s == Append(sent, m)
             u == w \o Frame(Len(s), m)
         IN  /\ Framed(s, u, h)
             /\ \A n : Starts(sent, w, n) => Starts(s, u, n)
<1> DEFINE s == Append(sent, m)
           f == Frame(Len(s), m)
           u == w \o f
<1>1. /\ Len(s) = Len(sent) + 1 /\ DOMAIN s = 1..Len(s) /\ DOMAIN sent = 1..Len(sent)
      /\ Len(sent) \in Nat
      /\ \A k \in DOMAIN sent : s[k] = sent[k] /\ k \in DOMAIN s /\ k < Len(s)
  BY AppendProperties
<1>2. /\ Len(f) \in Nat \ {0} /\ Len(u) = Len(w) + Len(f)
      /\ \A i \in 1..Len(w) : u[i] = w[i]
      /\ \A i \in 1..Len(f) : u[Len(w) + i] = [of |-> Len(s), at |-> i]
      /\ Flows(s, u)
  BY SendFlows DEF Framed
<1>3. Len(w) \in Nat /\ DOMAIN h = 1..Len(h) /\ \A i \in DOMAIN h : h[i] \in DOMAIN sent
  OBVIOUS
<1> HIDE DEF s, f, u
<1>4. ASSUME NEW n, Starts(sent, w, n) PROVE Starts(s, u, n)
  <2>1. 1 \in 1..Len(f) /\ Len(u) # 0
    BY <1>2, <1>3
  <2>2. u # << >>
    BY <2>1
  <2>3. CASE w = << >>
    <3>1. u[1] = [of |-> Len(s), at |-> 1]
      <4>1. Len(w) + 1 = 1
        BY <2>3
      <4> QED
        BY <1>2, <2>1, <4>1
    <3> QED
      BY <1>1, <1>4, <2>2, <2>3, <3>1 DEF Starts
  <2>4. CASE w # << >>
    <3>1. u[1] = w[1]
      <4>1. 1 \in 1..Len(w)
        BY <2>4, EmptySeq
      <4> QED
        BY <1>2, <4>1
    <3> QED
      BY <1>4, <2>2, <2>4, <3>1 DEF Starts
  <2> QED
    BY <2>3, <2>4
<1>5. ASSUME NEW n \in 0..Len(sent), Delivered(sent, h, n) PROVE Delivered(s, h, n)
  BY <1>1, <1>5 DEF Delivered
<1>6. Aligned(sent, w, h) => Aligned(s, u, h)
  <2> SUFFICES ASSUME NEW n \in 1..(Len(sent) + 1),
                      Starts(sent, w, n), Delivered(sent, h, n - 1)
               PROVE  n \in 1..(Len(s) + 1) /\ Starts(s, u, n) /\ Delivered(s, h, n - 1)
    BY DEF Aligned
  <2>1. n - 1 \in 0..Len(sent) /\ n \in 1..(Len(s) + 1)
    BY <1>1
  <2> QED
    BY <1>4, <1>5, <2>1
<1>7. Overrun(sent, h) => Overrun(s, h)
  <2> SUFFICES ASSUME NEW n \in DOMAIN sent, sent[n].size > MaxSize, Delivered(sent, h, n - 1)
               PROVE  n \in DOMAIN s /\ s[n].size > MaxSize /\ Delivered(s, h, n - 1)
    BY DEF Overrun
  <2>1. n - 1 \in 0..Len(sent)
    BY <1>1
  <2> QED
    BY <1>1, <1>5, <2>1
<1>8. Handled(s, u, h)
  <2>1. \A i \in DOMAIN h : s[h[i]].valid
    BY <1>1, <1>3 DEF Framed, Handled
  <2>2. \A i \in DOMAIN h : \A j \in 1..Len(u) : h[i] < u[j].of
    <3> SUFFICES ASSUME NEW i \in DOMAIN h, NEW j \in 1..Len(u) PROVE h[i] < u[j].of
      OBVIOUS
    <3>1. CASE j \in 1..Len(w)
      BY <1>2, <3>1 DEF Framed, Handled
    <3>2. CASE j \notin 1..Len(w)
      <4>1. j - Len(w) \in 1..Len(f) /\ Len(w) + (j - Len(w)) = j
        BY <1>2, <1>3, <3>2
      <4>2. u[j] = [of |-> Len(s), at |-> j - Len(w)]
        BY <1>2, <4>1
      <4>3. u[j].of = Len(s)
        BY <4>2
      <4> QED
        BY <1>1, <1>3, <4>3
    <3> QED
      BY <3>1, <3>2
  <2> QED
    BY <2>1, <2>2 DEF Framed, Handled
<1> QED
  BY <1>2, <1>4, <1>6, <1>7, <1>8 DEF Framed, s, u, f

(* A whole message in the buffer is the first of what is left.              *)
LEMMA PrefixFrame ==
  ASSUME sent \in Seq(Message), NEW q \in Seq(Unit), NEW r \in Seq(Unit), HasFrame(q)
  PROVE  LET w == q \o r
         IN  /\ HasFrame(w) /\ FrameOf(w) = FrameOf(q)
             /\ After(w) = After(q) \o r
<1> DEFINE w == q \o r
           k == HeaderSize + Declared(q)
<1>1. /\ k \in 1..Len(q) /\ Len(q) \in Nat /\ HeaderSize \in 1..k /\ Len(r) \in Nat
      /\ HeaderSize <= Len(q) /\ Declared(q) \in Nat /\ Declared(q) <= MaxSize
  BY DeclaredType, PeerSessionAssumption DEF HasFrame
<1>2. /\ w \in Seq(Unit) /\ Len(w) = Len(q) + Len(r)
      /\ \A i \in 1..(Len(q) + Len(r)) : w[i] = IF i <= Len(q) THEN q[i] ELSE r[i - Len(q)]
  BY ConcatProperties
<1> HIDE DEF w
<1>3. \A i \in 1..Len(q) : w[i] = q[i] /\ i \in 1..Len(w)
  BY <1>1, <1>2
<1>4. Declared(w) = Declared(q)
  <2>1. 1 \in 1..Len(q) /\ \A i \in 1..HeaderSize : i \in 1..Len(q)
    BY <1>1
  <2> QED
    BY <1>3, <2>1 DEF Declared
<1>5. HasFrame(w) /\ k = HeaderSize + Declared(w)
  BY <1>1, <1>2, <1>4 DEF HasFrame, HasHeader
<1> HIDE DEF k
<1>6. FrameOf(q) = SubSeq(q, 1, k) /\ FrameOf(w) = SubSeq(w, 1, k)
  BY <1>5 DEF FrameOf, k
<1>7. After(q) = SubSeq(q, k + 1, Len(q)) /\ After(w) = SubSeq(w, k + 1, Len(w))
  BY <1>5 DEF After, k
<1>8. FrameOf(w) = FrameOf(q)
  <2>1. \A i \in 1..k : q[i] \in Unit /\ w[i] \in Unit /\ w[i] = q[i]
    BY <1>1, <1>2, <1>3
  <2>2. /\ SubSeq(q, 1, k) \in Seq(Unit) /\ Len(SubSeq(q, 1, k)) = k
        /\ \A i \in 1..k : SubSeq(q, 1, k)[i] = q[i]
    BY <1>1, <2>1, SubSeqProperties
  <2>3. /\ SubSeq(w, 1, k) \in Seq(Unit) /\ Len(SubSeq(w, 1, k)) = k
        /\ \A i \in 1..k : SubSeq(w, 1, k)[i] = w[i]
    BY <1>1, <2>1, SubSeqProperties
  <2> QED
    BY <1>6, <2>1, <2>2, <2>3, SeqEqual
<1>9. After(w) = After(q) \o r
  <2> DEFINE a == SubSeq(q, k + 1, Len(q))
             b == SubSeq(w, k + 1, Len(w))
  <2>1. /\ a \in Seq(Unit) /\ Len(a) = Len(q) - k
        /\ \A i \in 1..(Len(q) - k) : a[i] = q[k + i]
    <3>1. \A i \in (k + 1)..Len(q) : q[i] \in Unit
      BY <1>1
    <3> QED
      BY <1>1, <3>1, SubSeqProperties
  <2>2. /\ b \in Seq(Unit) /\ Len(b) = Len(w) - k
        /\ \A i \in 1..(Len(w) - k) : b[i] = w[k + i]
    <3>1. \A i \in (k + 1)..Len(w) : w[i] \in Unit
      BY <1>1, <1>2
    <3> QED
      BY <1>1, <1>2, <3>1, SubSeqProperties
  <2> HIDE DEF a, b
  <2>3. /\ a \o r \in Seq(Unit) /\ Len(a \o r) = Len(b)
        /\ \A i \in 1..Len(b) : (a \o r)[i] = IF i <= Len(a) THEN a[i] ELSE r[i - Len(a)]
    <3>1. Len(b) = Len(a) + Len(r)
      BY <1>1, <1>2, <2>1, <2>2
    <3>2. /\ a \o r \in Seq(Unit) /\ Len(a \o r) = Len(a) + Len(r)
          /\ \A i \in 1..(Len(a) + Len(r)) :
               (a \o r)[i] = IF i <= Len(a) THEN a[i] ELSE r[i - Len(a)]
      BY <2>1, ConcatProperties
    <3> QED
      BY <3>1, <3>2
  <2>4. ASSUME NEW i \in 1..Len(b) PROVE (a \o r)[i] = b[i]
    <3>1. b[i] = w[k + i] /\ k + i \in 1..(Len(q) + Len(r))
      BY <1>1, <1>2, <2>2
    <3>2. CASE i <= Len(a)
      <4>1. k + i <= Len(q) /\ i \in 1..(Len(q) - k)
        BY <1>1, <2>1, <3>2
      <4> QED
        BY <1>2, <2>1, <2>3, <3>1, <3>2, <4>1
    <3>3. CASE ~(i <= Len(a))
      <4>1. ~(k + i <= Len(q)) /\ (k + i) - Len(q) = i - Len(a)
        BY <1>1, <2>1, <3>3
      <4> QED
        BY <1>2, <2>3, <3>1, <3>3, <4>1
    <3> QED
      BY <3>2, <3>3
  <2>5. a \o r = b
    BY <2>2, <2>3, <2>4, SeqEqual
  <2> QED
    BY <1>7, <2>5 DEF a, b
<1> QED
  BY <1>5, <1>8, <1>9 DEF w

(* A buffer that is cleared at a length over the limit overruns.            *)
LEMMA ClearFramed ==
  ASSUME sent \in Seq(Message), NEW q \in Seq(Unit), NEW r \in Seq(Unit),
         NEW h \in Seq(DOMAIN sent), Framed(sent, q \o r, h), Oversized(q)
  PROVE  Framed(sent, r, h)
<1> DEFINE w == q \o r
           t == SubSeq(w, Len(q) + 1, Len(w))
<1>1. /\ w \in Seq(Unit) /\ Len(w) = Len(q) + Len(r) /\ Len(q) \in Nat /\ Len(r) \in Nat
      /\ \A i \in 1..(Len(q) + Len(r)) : w[i] = IF i <= Len(q) THEN q[i] ELSE r[i - Len(q)]
  BY ConcatProperties
<1>2. HeaderSize \in Nat \ {0} /\ HeaderSize <= Len(q)
  BY PeerSessionAssumption DEF Oversized, HasHeader
<1> HIDE DEF w
<1>3. /\ \A i \in 1..Len(q) : q[i] = w[i]
      /\ \A i \in 1..Len(r) : r[i] = w[Len(q) + i]
  <2>1. \A i \in 1..Len(q) : q[i] = w[i]
    BY <1>1
  <2>2. \A i \in 1..Len(r) : Len(q) + i \in 1..(Len(q) + Len(r)) /\ ~(Len(q) + i <= Len(q))
                             /\ (Len(q) + i) - Len(q) = i
    BY <1>1
  <2> QED
    BY <1>1, <2>1, <2>2
<1>4. /\ t \in Seq(Unit) /\ Len(t) = Len(w) - Len(q)
      /\ \A i \in 1..Len(t) : t[i] = w[Len(q) + i]
      /\ Flows(sent, t)
  <2>1. Len(q) \in 0..Len(w)
    BY <1>1
  <2> QED
    BY <1>1, <2>1, SuffixFlows DEF Framed, w
<1> HIDE DEF t
<1>5. t = r
  <2>1. Len(t) = Len(r)
    BY <1>1, <1>4
  <2>2. \A i \in 1..Len(t) : t[i] = r[i]
    BY <1>3, <1>4, <2>1
  <2> QED
    BY <1>4, <2>1, <2>2, SeqEqual
<1>6. Aligned(sent, w, h) => Overrun(sent, h)
  <2> SUFFICES ASSUME NEW n, Starts(sent, w, n), Delivered(sent, h, n - 1)
               PROVE  n \in DOMAIN sent /\ sent[n].size > MaxSize
    BY DEF Aligned, Overrun
  <2>1. w # << >>
    BY <1>1, <1>2
  <2>2. w[1].of = n /\ w[1].at = 1 /\ Len(q) <= Len(w)
    BY <1>1, <2>1 DEF Starts
  <2>3. n \in DOMAIN sent /\ Declared(q) = sent[n].size
    BY <1>1, <1>3, <2>1, <2>2, HeadOfMessage DEF Framed, Oversized, w
  <2> QED
    BY <2>3 DEF Oversized
<1>7. Handled(sent, r, h)
  <2>1. \A j \in 1..Len(r) : Len(q) + j \in 1..Len(w)
    BY <1>1
  <2> QED
    BY <1>3, <2>1 DEF Framed, Handled, w
<1> QED
  BY <1>4, <1>5, <1>6, <1>7 DEF Framed, w

-----------------------------------------------------------------------------
(* The invariant.                                                          *)

\* What is left and what was handled keep in step; a task that waits has looked at
\* all that is in its buffer; and the buffer is empty until the peer task reads.
FramingInv ==
  /\ Framed(sent, buf \o stream, handled)
  /\ pc \notin {"process", "over"} => ~HasFrame(buf) /\ ~Oversized(buf)
  /\ pc \in {"version", "verack", "established"} => buf = << >>

LEMMA EmptyBuffer ==
  /\ buf = << >> => ~HasFrame(buf) /\ ~Oversized(buf)
  /\ buf' = << >> => ~HasFrame(buf)' /\ ~Oversized(buf)'
BY PeerSessionAssumption DEF HasFrame, Oversized, HasHeader

LEMMA InitFramed == Init => FramingInv
<1> SUFFICES ASSUME Init PROVE FramingInv
  OBVIOUS
<1>1. sent = << >> /\ stream = << >> /\ buf = << >> /\ handled = << >>
  BY DEF Init
<1>2. buf \o stream = << >> /\ Len(sent) = 0
  BY <1>1
<1>3. Flows(sent, << >>)
  BY DEF Flows, Inside, Ordered, Continuous
<1>4. Aligned(sent, << >>, << >>)
  BY <1>2 DEF Aligned, Starts, Delivered
<1>5. Handled(sent, << >>, << >>)
  BY DEF Handled
<1> QED
  BY <1>1, <1>2, <1>3, <1>4, <1>5, EmptyBuffer DEF FramingInv, Framed

(* The handshake takes the first message of the stream.                     *)
LEMMA RecvFramed ==
  ASSUME TypeOK, Framed(sent, buf \o stream, handled), buf = << >>,
         NEW n \in DOMAIN sent, RecvMessage(n)
  PROVE  /\ Framed(sent, buf \o stream', handled')
         /\ \A m : Starts(sent, stream, m) => m = n /\ Starts(sent, stream', n + 1)
<1>1. sent \in Seq(Message) /\ stream \in Seq(Unit) /\ handled \in Seq(DOMAIN sent)
  BY DEF TypeOK
<1>2. /\ HasFrame(stream) /\ n \in Parsed(FrameOf(stream))
      /\ stream' = After(stream) /\ handled' = Append(handled, n)
  BY DEF RecvMessage
<1>3. buf \o stream = stream /\ buf \o stream' = stream'
  <2>1. stream' \in Seq(Unit)
    BY <1>1, <1>2, AfterType
  <2> QED
    BY <1>1, <2>1, ConcatEmptySeq
<1>4. Parsed(FrameOf(stream)) = {n}
  BY <1>2 DEF Parsed
<1>5. handled' = handled \o SetToSeq(Parsed(FrameOf(stream)))
  <2>1. Append(handled, n) = handled \o <<n>>
    BY <1>1, AppendIsConcat
  <2> QED
    BY <1>2, <1>4, <2>1, SeqOfOne
<1>6. stream[1].of = n
  <2>1. FrameOf(stream)[1] = stream[1]
    BY <1>1, <1>2, FrameStart
  <2> QED
    BY <1>2, <2>1 DEF Parsed
<1> QED
  BY <1>1, <1>2, <1>3, <1>5, <1>6, TakeFramed

(* What a header in the buffer declares does not depend on later messages.  *)
LEMMA DeclaredStable ==
  ASSUME TypeOK, NEW m \in Message, RemoteSend(m), HasHeader(buf)
  PROVE  Declared(buf)' = Declared(buf)
<1>1. buf[1].of \in DOMAIN sent
  BY DeclaredType DEF TypeOK
<1>2. buf' = buf /\ sent'[buf[1].of] = sent[buf[1].of]
  BY <1>1, AppendProperties DEF RemoteSend, TypeOK
<1> QED
  BY <1>2 DEF Declared

LEMMA FramingInductive == TypeOK /\ FramingInv /\ [Next]_vars => FramingInv'
<1> SUFFICES ASSUME TypeOK, FramingInv, [Next]_vars PROVE FramingInv'
  OBVIOUS
<1> USE DEF input, output, identity, history
<1>1. /\ sent \in Seq(Message) /\ stream \in Seq(Unit) /\ buf \in Seq(Unit)
      /\ handled \in Seq(DOMAIN sent)
  BY DEF TypeOK
<1>2. Framed(sent, buf \o stream, handled)
  BY DEF FramingInv
<1>3. ASSUME NEW n \in DOMAIN sent, Handshake(n) PROVE FramingInv'
  <2>1. /\ UNCHANGED <<sent, buf>> /\ RecvMessage(n) /\ Negotiating
        /\ pc' \in {"version", "verack", "established"}
    BY <1>3 DEF Handshake, ReceiveVersion, IgnoreBeforeVersion, IgnoreBeforeVerack,
                AnswerEarly, ForwardEarly, ReceiveVerack, Negotiating
  <2>2. buf = << >> /\ buf' = << >>
    BY <2>1 DEF FramingInv, Negotiating
  <2>3. Framed(sent, buf \o stream', handled')
    BY <1>2, <2>1, <2>2, RecvFramed
  <2> QED
    BY <2>1, <2>2, <2>3, EmptyBuffer DEF FramingInv
<1>4. CASE HandshakeError \/ HandshakeTimeout \/ HandOver
  <2>1. /\ UNCHANGED <<sent, buf, stream, handled>>
        /\ pc' = "over" \/ (pc = "established" /\ pc' = "select")
    BY <1>4 DEF HandshakeError, HandshakeTimeout, HandOver
  <2> QED
    BY <2>1 DEF FramingInv, HasFrame, Oversized, HasHeader, Declared
<1>5. CASE Read
  <2> PICK n \in 1..Len(stream) :
        /\ buf' = buf \o SubSeq(stream, 1, n)
        /\ stream' = SubSeq(stream, n + 1, Len(stream))
    BY <1>5 DEF Read
  <2>1. Len(stream) \in Nat /\ n \in Nat /\ \A i \in 1..Len(stream) : stream[i] \in Unit
    BY <1>1
  <2>2. SubSeq(stream, 1, n) \in Seq(Unit) /\ stream' \in Seq(Unit)
    BY <2>1, SubSeqProperties
  <2>3. SubSeq(stream, 1, n) \o stream' = stream
    <3>1. 1 \in 1..(Len(stream) + 1) /\ n \in (1 - 1)..Len(stream) /\ Len(stream) \in n..Len(stream)
      BY <2>1
    <3> QED
      BY <1>1, <3>1, ConcatAdjacentSubSeq, SubSeqFull
  <2>4. buf' \o stream' = buf \o stream
    <3> DEFINE a == SubSeq(stream, 1, n)
               b == SubSeq(stream, n + 1, Len(stream))
    <3>1. a \in Seq(Unit) /\ b \in Seq(Unit) /\ a \o b = stream
      BY <2>2, <2>3
    <3>3. buf' = buf \o a /\ stream' = b
      OBVIOUS
    <3> HIDE DEF a, b
    <3>2. (buf \o a) \o b = buf \o (a \o b)
      <4>1. buf \in Seq(Unit) /\ a \in Seq(Unit) /\ b \in Seq(Unit)
        BY <1>1, <3>1
      <4>2. \A x, y, z \in Seq(Unit) : (x \o y) \o z = x \o (y \o z)
        BY ConcatAssociative, SMTT(30)
      <4> QED
        BY <4>1, <4>2, Zenon
    <3>4. buf' \o stream' = (buf \o a) \o b
      BY <3>3, Zenon
    <3>5. buf \o (a \o b) = buf \o stream
      BY <3>1, Zenon
    <3> QED
      BY <3>2, <3>4, <3>5, Zenon
  <2>5. pc' = "process" /\ UNCHANGED <<sent, handled>>
    BY <1>5 DEF Read
  <2> QED
    BY <1>2, <2>4, <2>5 DEF FramingInv
<1>6. CASE ProcessMessage
  <2>1. /\ pc' = "process" /\ UNCHANGED <<sent, stream>> /\ HasFrame(buf)
        /\ buf' = After(buf) /\ handled' = handled \o SetToSeq(Parsed(FrameOf(buf)))
    BY <1>6 DEF ProcessMessage
  <2>2. /\ HasFrame(buf \o stream) /\ FrameOf(buf \o stream) = FrameOf(buf)
        /\ After(buf \o stream) = buf' \o stream
    BY <1>1, <2>1, PrefixFrame
  <2>3. buf \o stream \in Seq(Unit)
    BY <1>1, ConcatProperties
  <2>4. Framed(sent, buf' \o stream, handled')
    BY <1>1, <1>2, <2>1, <2>2, <2>3, TakeFramed
  <2> QED
    BY <2>1, <2>4 DEF FramingInv
<1>7. CASE ClearOversized
  <2>1. pc' = "select" /\ UNCHANGED <<sent, stream, handled>> /\ Oversized(buf) /\ buf' = << >>
    BY <1>7 DEF ClearOversized
  <2>2. buf' \o stream = stream
    BY <1>1, <2>1, ConcatEmptySeq
  <2>3. Framed(sent, stream, handled)
    BY <1>1, <1>2, <2>1, ClearFramed
  <2> QED
    BY <2>1, <2>2, <2>3, EmptyBuffer DEF FramingInv
<1>8. CASE ProcessEnd
  BY <1>8 DEF ProcessEnd, FramingInv, HasFrame, Oversized, HasHeader, Declared
<1>9. CASE ReadEnd \/ WriteFails
  <2>1. UNCHANGED <<sent, stream, buf, handled>> /\ pc' = "over"
    BY <1>9 DEF ReadEnd, WriteFails, Stop
  <2> QED
    BY <1>2, <2>1 DEF FramingInv
<1>10. CASE TakeQueued \/ Keepalive \/ Write
  <2>1. /\ UNCHANGED <<sent, stream, buf, handled>>
        /\ pc' = pc \/ (pc = "select" /\ pc' = "write") \/ (pc = "write" /\ pc' = "select")
    BY <1>10 DEF TakeQueued, Keepalive, Write
  <2> QED
    BY <1>2, <2>1 DEF FramingInv, HasFrame, Oversized, HasHeader, Declared
<1>11. CASE PongFails \/ Enqueue \/ RemoteRead \/ RemoteClose \/ UNCHANGED vars
  <2>1. UNCHANGED <<pc, sent, stream, buf, handled>>
    BY <1>11 DEF PongFails, Enqueue, RemoteRead, RemoteClose, vars
  <2> QED
    BY <1>2, <2>1 DEF FramingInv, HasFrame, Oversized, HasHeader, Declared
<1>12. ASSUME NEW m \in Message, RemoteSend(m) PROVE FramingInv'
  <2>1. /\ sent' = Append(sent, m) /\ stream' = stream \o Frame(Len(sent'), m)
        /\ UNCHANGED <<pc, buf, handled>>
    BY <1>12 DEF RemoteSend
  <2>2. buf \o stream \in Seq(Unit)
    BY <1>1, ConcatProperties
  <2>3. Framed(sent', (buf \o stream) \o Frame(Len(sent'), m), handled')
    BY <1>1, <1>2, <2>1, <2>2, SendFramed
  <2>4. (buf \o stream) \o Frame(Len(sent'), m) = buf' \o stream'
    <3> DEFINE f == Frame(Len(sent'), m)
               k == HeaderSize + m.size
               A == [of : Nat \ {0}, at : Nat \ {0}]
    <3>1. k \in Nat
      BY PeerSessionAssumption
    <3>2. Len(sent') \in Nat \ {0} /\ DOMAIN sent \subseteq Nat \ {0}
      BY <1>1, <2>1, AppendProperties
    <3>3. f \in [1..k -> A]
      BY <3>2 DEF Frame
    <3>4. buf \in Seq(A) /\ stream \in Seq(A)
      <4>1. Unit \subseteq A
        BY <3>2 DEF Unit
      <4> QED
        BY <1>1, <4>1, SeqMonotonic
    <3> HIDE DEF f, k, A
    <3>5. f \in Seq(A)
      <4>1. f \in UNION {[1..i -> A] : i \in Nat}
        BY <3>1, <3>3
      <4> QED
        BY <4>1, SeqDef
    <3>6. (buf \o stream) \o f = buf \o (stream \o f)
      BY <3>4, <3>5, ConcatAssociative
    <3> QED
      BY <2>1, <3>6 DEF f
  <2>5. HasHeader(buf) => Declared(buf)' = Declared(buf)
    BY <1>12, DeclaredStable
  <2>6. HasFrame(buf)' <=> HasFrame(buf)
    BY <2>1, <2>5 DEF HasFrame, HasHeader
  <2>7. Oversized(buf)' <=> Oversized(buf)
    BY <2>1, <2>5 DEF Oversized, HasHeader
  <2> QED
    BY <2>1, <2>3, <2>4, <2>6, <2>7 DEF FramingInv
<1> QED
  BY <1>3, <1>4, <1>5, <1>6, <1>7, <1>8, <1>9, <1>10, <1>11, <1>12
  DEF Next, Select, Process, Send, Remote

LEMMA FramedAlways == Spec => [](TypeOK /\ FramingInv)
BY InitType, TypeInductive, InitFramed, FramingInductive, PTL DEF Spec

-----------------------------------------------------------------------------
(* The theorems.                                                           *)

(* A message that is left is not in the buffer in whole while the task      *)
(* waits: the one that is left first, if the stream is aligned.             *)
LEMMA NothingWaits ==
  ASSUME TypeOK, FramingInv, pc \notin {"process", "over"},
         NEW m, Starts(sent, buf \o stream, m),
         NEW n \in DOMAIN sent, n <= Arrived, Sane(n)
  PROVE  n < m
<1> DEFINE w == buf \o stream
<1>1. /\ sent \in Seq(Message) /\ DOMAIN sent = 1..Len(sent) /\ Len(sent) \in Nat
      /\ n \in Nat /\ n <= Len(sent)
      /\ buf \in Seq(Unit) /\ stream \in Seq(Unit) /\ Len(buf) \in Nat /\ Len(stream) \in Nat
  BY DEF TypeOK
<1>2. /\ w \in Seq(Unit) /\ Len(w) = Len(buf) + Len(stream)
      /\ \A i \in 1..(Len(buf) + Len(stream)) :
           w[i] = IF i <= Len(buf) THEN buf[i] ELSE stream[i - Len(buf)]
  BY <1>1, ConcatProperties
<1>3. Flows(sent, w)
  BY DEF FramingInv, Framed
<1>4. Starts(sent, w, m)
  OBVIOUS
<1> HIDE DEF w
<1>5. CASE w = << >>
  BY <1>1, <1>4, <1>5 DEF Starts
<1>6. ASSUME w # << >>, ~(n < m) PROVE FALSE
  <2>1. w[1].of = m /\ w[1].at = 1
    BY <1>4, <1>6 DEF Starts
  <2>2. /\ m \in DOMAIN sent /\ Size(sent, m) \in 1..Len(w)
        /\ \A i \in 1..Size(sent, m) : w[i] = [of |-> m, at |-> i]
    <3>1. sent \in Seq(Message) /\ w \in Seq(Unit) /\ w # << >>
      BY <1>1, <1>2, <1>6
    <3> QED
      BY <1>3, <2>1, <3>1, FrameFlows
  <2>3. /\ m \in 1..n /\ Size(sent, m) \in Nat /\ HeaderSize \in Nat \ {0}
        /\ Size(sent, m) = HeaderSize + sent[m].size /\ sent[m].size \in Nat
    BY <1>1, <1>6, <2>2, SizeType
  <2>4. sent[m].size <= MaxSize
    BY <2>3 DEF Sane
  <2>5. Size(sent, m) <= Len(buf)
    <3>1. CASE stream = << >>
      BY <1>1, <1>2, <2>2, <3>1
    <3>2. CASE stream # << >>
      <4>1. Len(stream) \in Nat \ {0} /\ Head(stream) = stream[1] /\ stream[1] \in Unit
        BY <1>1, <3>2, EmptySeq
      <4>2. stream[1].of \in DOMAIN sent
        BY <4>1 DEF Unit
      <4>3. n <= stream[1].of - 1 /\ stream[1].of \in Nat
        BY <1>1, <3>2, <4>1, <4>2 DEF Arrived
      <4>4. w[Len(buf) + 1] = stream[1]
        <5>1. Len(buf) + 1 \in 1..(Len(buf) + Len(stream)) /\ ~(Len(buf) + 1 <= Len(buf))
              /\ (Len(buf) + 1) - Len(buf) = 1
          BY <1>1, <4>1
        <5> QED
          BY <1>2, <5>1
      <4>5. ASSUME ~(Size(sent, m) <= Len(buf)) PROVE FALSE
        <5>1. Len(buf) + 1 \in 1..Size(sent, m)
          BY <1>1, <2>3, <4>5
        <5>2. w[Len(buf) + 1] = [of |-> m, at |-> Len(buf) + 1]
          BY <2>2, <5>1
        <5>3. stream[1].of = m
          BY <4>4, <5>2
        <5> QED
          BY <1>1, <2>3, <4>3, <5>3
      <4> QED
        BY <4>5
    <3> QED
      BY <3>1, <3>2
  <2>6. HasHeader(buf) /\ Len(buf) <= Len(w)
    BY <1>1, <1>2, <2>3, <2>5 DEF HasHeader
  <2>7. \A i \in 1..Len(buf) : buf[i] = w[i]
    BY <1>1, <1>2
  <2>8. Declared(buf) = sent[m].size
    BY <1>1, <1>2, <1>3, <1>6, <2>1, <2>6, <2>7, HeadOfMessage, ZenonT(30)
  <2>9. HasFrame(buf)
    BY <2>3, <2>4, <2>5, <2>6, <2>8 DEF HasFrame
  <2> QED
    BY <2>9 DEF FramingInv
<1> QED
  BY <1>5, <1>6

LEMMA ExactlyHandled == TypeOK /\ FramingInv => HandledExactly
<1> SUFFICES ASSUME TypeOK, FramingInv PROVE HandledExactly
  OBVIOUS
<1>1. /\ sent \in Seq(Message) /\ DOMAIN sent = 1..Len(sent) /\ Len(sent) \in Nat
      /\ buf \in Seq(Unit) /\ stream \in Seq(Unit) /\ Len(buf) \in Nat /\ Len(stream) \in Nat
      /\ handled \in Seq(DOMAIN sent)
  BY DEF TypeOK
<1>2. \A i, j \in DOMAIN handled : i < j => handled[i] < handled[j]
  BY DEF FramingInv, Framed, Handled
<1>3. ASSUME NEW n \in DOMAIN sent, n \in Range(handled)
      PROVE  n <= Arrived /\ sent[n].valid
  <2>1. PICK i \in DOMAIN handled : handled[i] = n
    BY <1>3 DEF Range
  <2>2. sent[n].valid /\ \A j \in 1..Len(buf \o stream) : n < (buf \o stream)[j].of
    BY <2>1 DEF FramingInv, Framed, Handled
  <2>3. CASE stream = << >>
    BY <1>1, <2>2, <2>3 DEF Arrived
  <2>4. CASE stream # << >>
    <3>1. Len(stream) \in Nat \ {0} /\ Head(stream) = stream[1] /\ stream[1] \in Unit
      BY <1>1, <2>4, EmptySeq
    <3>2. stream[1].of \in DOMAIN sent
      BY <3>1 DEF Unit
    <3>3. /\ Len(buf) + 1 \in 1..(Len(buf) + Len(stream)) /\ ~(Len(buf) + 1 <= Len(buf))
          /\ (Len(buf) + 1) - Len(buf) = 1
      BY <1>1, <3>1
    <3>4. /\ Len(buf) + 1 \in 1..Len(buf \o stream)
          /\ (buf \o stream)[Len(buf) + 1] = stream[1]
      BY <1>1, <3>3, ConcatProperties
    <3>5. n < stream[1].of
      BY <2>2, <3>4
    <3>6. n <= stream[1].of - 1
      BY <1>1, <3>2, <3>5, SMTT(30)
    <3> QED
      BY <2>2, <2>4, <3>1, <3>6 DEF Arrived
  <2> QED
    BY <2>3, <2>4
<1>4. ASSUME pc \notin {"process", "over"}, NEW n \in DOMAIN sent, Sane(n),
             n <= Arrived, sent[n].valid
      PROVE  n \in Range(handled)
  <2>1. CASE Overrun(sent, handled)
    <3>1. PICK m \in DOMAIN sent : sent[m].size > MaxSize /\ Delivered(sent, handled, m - 1)
      BY <2>1 DEF Overrun
    <3>2. ~(m \in 1..n)
      <4>1. sent[m] \in Message
        BY <1>1
      <4>2. sent[m].size \in Nat /\ MaxSize \in Nat
        BY <4>1, PeerSessionAssumption
      <4> QED
        BY <1>4, <3>1, <4>2 DEF Sane
    <3>3. n \in 1..(m - 1)
      BY <1>1, <3>2
    <3> QED
      BY <1>4, <3>1, <3>3 DEF Delivered
  <2>2. CASE Aligned(sent, buf \o stream, handled)
    <3>1. PICK m \in 1..(Len(sent) + 1) :
            Starts(sent, buf \o stream, m) /\ Delivered(sent, handled, m - 1)
      BY <2>2 DEF Aligned
    <3>2. n < m
      BY <1>4, <3>1, NothingWaits
    <3>3. n \in 1..(m - 1)
      BY <1>1, <3>2
    <3> QED
      BY <1>4, <3>1, <3>3 DEF Delivered
  <2> QED
    BY <2>1, <2>2 DEF FramingInv, Framed
<1> QED
  BY <1>2, <1>3, <1>4 DEF HandledExactly

(* Whatever pieces the stream comes in, a task that waits has handled each  *)
(* message that has arrived once, in order: also those that came with the   *)
(* verack, and up to the first that is over the limit.                      *)
THEOREM HandlesExactly == Spec => []HandledExactly
BY FramedAlways, ExactlyHandled, PTL

(* The read buffer of a task that waits is smaller than the largest message, *)
(* also when the remote announces more or the stream has lost its alignment. *)
THEOREM BoundsBuffer == Spec => []BufferBounded
<1>1. TypeOK /\ FramingInv => BufferBounded
  <2> SUFFICES ASSUME TypeOK, FramingInv, pc \in {"select", "write"}
               PROVE  Len(buf) < HeaderSize + MaxSize
    BY DEF BufferBounded
  <2>1. HeaderSize \in Nat \ {0} /\ MaxSize \in Nat /\ Len(buf) \in Nat
    BY PeerSessionAssumption DEF TypeOK
  <2>2. ~HasFrame(buf) /\ ~Oversized(buf)
    BY DEF FramingInv
  <2>3. CASE ~HasHeader(buf)
    BY <2>1, <2>3 DEF HasHeader
  <2>4. CASE HasHeader(buf)
    <3>1. Declared(buf) \in Nat
      BY <2>4, DeclaredType DEF TypeOK
    <3>2. Declared(buf) <= MaxSize /\ ~(Len(buf) >= HeaderSize + Declared(buf))
      BY <2>1, <2>2, <2>4, <3>1 DEF HasFrame, Oversized
    <3> QED
      BY <2>1, <3>1, <3>2
  <2> QED
    BY <2>3, <2>4
<1> QED
  BY <1>1, FramedAlways, PTL

-----------------------------------------------------------------------------
(* The class of a node.                                                    *)

Unversioned(s, n) == \A k \in 1..n : s[k].kind # "version"

\* The class of the first version that was sent.
Named(s, c) ==
  \E n \in DOMAIN s :
    c = FromHandshake(s[n]) /\ s[n].kind = "version" /\ Unversioned(s, n - 1)

\* What the handshake has taken so far is no version, or its first version names
\* the class; the row is written once, from that class.
NamingInv ==
  /\ pc \in {"version", "verack"} => row = "none"
  /\ pc = "version" =>
       \E n \in 1..(Len(sent) + 1) : Starts(sent, stream, n) /\ Unversioned(sent, n - 1)
  /\ pc = "verack" => Named(sent, class)
  /\ row # "none" => Named(sent, row)

LEMMA NamedStable ==
  ASSUME sent \in Seq(Message), NEW m \in Message, NEW c, Named(sent, c)
  PROVE  Named(Append(sent, m), c)
<1> DEFINE s == Append(sent, m)
<1>1. /\ DOMAIN sent = 1..Len(sent) /\ Len(sent) \in Nat
      /\ \A k \in DOMAIN sent : k \in DOMAIN s /\ s[k] = sent[k]
  BY AppendProperties
<1> HIDE DEF s
<1>2. PICK n \in DOMAIN sent :
        c = FromHandshake(sent[n]) /\ sent[n].kind = "version" /\ Unversioned(sent, n - 1)
  BY DEF Named
<1>3. \A k \in 1..(n - 1) : k \in DOMAIN sent
  BY <1>1
<1>4. n \in DOMAIN s /\ s[n] = sent[n] /\ Unversioned(s, n - 1)
  BY <1>1, <1>2, <1>3 DEF Unversioned
<1>5. c = FromHandshake(s[n]) /\ s[n].kind = "version"
  BY <1>2, <1>4
<1> QED
  BY <1>4, <1>5 DEF Named, s

LEMMA NamingInductive == TypeOK /\ FramingInv /\ NamingInv /\ [Next]_vars => NamingInv'
<1> SUFFICES ASSUME TypeOK, FramingInv, NamingInv, [Next]_vars PROVE NamingInv'
  OBVIOUS
<1> USE DEF input, output, identity, history
<1>1. /\ sent \in Seq(Message) /\ stream \in Seq(Unit) /\ buf \in Seq(Unit)
      /\ handled \in Seq(DOMAIN sent) /\ DOMAIN sent = 1..Len(sent) /\ Len(sent) \in Nat
  BY DEF TypeOK
<1>2. ASSUME NEW n \in DOMAIN sent, ReceiveVersion(n) \/ IgnoreBeforeVersion(n)
      PROVE  NamingInv'
  <2>1. /\ RecvMessage(n) /\ pc = "version" /\ UNCHANGED <<sent, row>>
    BY <1>2 DEF ReceiveVersion, IgnoreBeforeVersion
  <2>2. PICK m \in 1..(Len(sent) + 1) : Starts(sent, stream, m) /\ Unversioned(sent, m - 1)
    BY <2>1 DEF NamingInv
  <2>3. buf = << >> /\ Framed(sent, buf \o stream, handled)
    BY <2>1 DEF FramingInv
  <2>4. m = n /\ Starts(sent, stream', n + 1)
    BY <2>1, <2>2, <2>3, RecvFramed
  <2>5. Unversioned(sent, n - 1) /\ row = "none"
    BY <2>1, <2>2, <2>4 DEF NamingInv
  <2>6. CASE ReceiveVersion(n)
    <3>1. /\ pc' = "verack" /\ class' = FromHandshake(sent[n]) /\ sent[n].kind = "version"
      BY <2>6 DEF ReceiveVersion
    <3>2. Named(sent, class')
      BY <2>5, <3>1 DEF Named
    <3> QED
      BY <2>1, <2>5, <3>1, <3>2 DEF NamingInv
  <2>7. CASE IgnoreBeforeVersion(n)
    <3>1. pc' = "version" /\ sent[n].kind # "version"
      BY <2>1, <2>7 DEF IgnoreBeforeVersion
    <3>2. \A k \in 1..n : k \in 1..(n - 1) \/ k = n
      BY <1>1
    <3>3. Unversioned(sent, n)
      BY <2>5, <3>1, <3>2 DEF Unversioned
    <3>4. n + 1 \in 1..(Len(sent) + 1) /\ (n + 1) - 1 = n
      BY <1>1
    <3>5. \E j \in 1..(Len(sent) + 1) : Starts(sent, stream', j) /\ Unversioned(sent, j - 1)
      BY <2>4, <3>3, <3>4
    <3> QED
      BY <2>1, <2>5, <3>1, <3>5 DEF NamingInv
  <2> QED
    BY <1>2, <2>6, <2>7
<1>3. ASSUME NEW n \in DOMAIN sent,
             IgnoreBeforeVerack(n) \/ AnswerEarly(n) \/ ForwardEarly(n) \/ ReceiveVerack(n)
      PROVE  NamingInv'
  <2>1. /\ pc = "verack" /\ UNCHANGED <<sent, class>>
        /\ (pc' = "verack" /\ row' = row) \/ (pc' = "established" /\ row' = class)
    BY <1>3 DEF IgnoreBeforeVerack, AnswerEarly, ForwardEarly, ReceiveVerack
  <2>2. Named(sent, class) /\ row = "none"
    BY <2>1 DEF NamingInv
  <2> QED
    BY <2>1, <2>2 DEF NamingInv
<1>4. ASSUME UNCHANGED <<sent, row, class>>,
             pc' \notin {"version", "verack"} \/ UNCHANGED <<pc, stream>>
      PROVE  NamingInv'
  BY <1>4 DEF NamingInv
<1>5. CASE HandshakeError \/ HandshakeTimeout \/ HandOver
  BY <1>4, <1>5 DEF HandshakeError, HandshakeTimeout, HandOver
<1>6. CASE Select
  BY <1>4, <1>6 DEF Select, Read, ReadEnd, TakeQueued, Keepalive, Stop
<1>7. CASE Process
  BY <1>4, <1>7 DEF Process, ProcessMessage, ClearOversized, ProcessEnd
<1>8. CASE Send
  BY <1>4, <1>8 DEF Send, Write, PongFails, WriteFails, Stop
<1>9. CASE Enqueue \/ RemoteRead \/ RemoteClose \/ UNCHANGED vars
  BY <1>4, <1>9 DEF Enqueue, RemoteRead, RemoteClose, vars
<1>10. ASSUME NEW m \in Message, RemoteSend(m) PROVE NamingInv'
  <2>1. /\ sent' = Append(sent, m) /\ stream' = stream \o Frame(Len(sent'), m)
        /\ UNCHANGED <<pc, buf, row, class>>
    BY <1>10 DEF RemoteSend
  <2>2. \A c : Named(sent, c) => Named(sent', c)
    BY <1>1, <2>1, NamedStable
  <2>3. ASSUME pc = "version"
        PROVE  \E n \in 1..(Len(sent') + 1) :
                 Starts(sent', stream', n) /\ Unversioned(sent', n - 1)
    <3>1. PICK n \in 1..(Len(sent) + 1) : Starts(sent, stream, n) /\ Unversioned(sent, n - 1)
      BY <2>3 DEF NamingInv
    <3>2. Framed(sent, stream, handled)
      <4>1. buf \o stream = stream
        BY <1>1, <2>3, ConcatEmptySeq DEF FramingInv
      <4> QED
        BY <4>1 DEF FramingInv
    <3>3. Starts(sent', stream', n)
      BY <1>1, <2>1, <3>1, <3>2, SendFramed
    <3>4. /\ Len(sent') = Len(sent) + 1
          /\ \A k \in DOMAIN sent : sent'[k] = sent[k]
      BY <1>1, <2>1, AppendProperties
    <3>5. n \in 1..(Len(sent') + 1) /\ \A k \in 1..(n - 1) : k \in DOMAIN sent
      BY <1>1, <3>4
    <3>6. Unversioned(sent', n - 1)
      BY <3>1, <3>4, <3>5 DEF Unversioned
    <3> QED
      BY <3>3, <3>5, <3>6
  <2> QED
    BY <2>1, <2>2, <2>3 DEF NamingInv
<1> QED
  BY <1>2, <1>3, <1>5, <1>6, <1>7, <1>8, <1>9, <1>10 DEF Next, Handshake, Remote

(* The row of a session is of the class of the first version it received:   *)
(* a second version, before or after the verack, changes nothing.           *)
THEOREM ClassifiesOnce == Spec => []ClassifiedOnce
<1>1. Init => NamingInv
  <2> SUFFICES ASSUME Init PROVE NamingInv
    OBVIOUS
  <2>1. pc = "version" /\ row = "none" /\ sent = << >> /\ stream = << >>
    BY DEF Init
  <2>2. 1 \in 1..(Len(sent) + 1) /\ Starts(sent, stream, 1) /\ Unversioned(sent, 1 - 1)
    BY <2>1 DEF Starts, Unversioned
  <2> QED
    BY <2>1, <2>2 DEF NamingInv
<1>2. NamingInv => ClassifiedOnce
  BY DEF NamingInv, Named, Unversioned, ClassifiedOnce
<1>3. Spec => []NamingInv
  BY <1>1, NamingInductive, FramedAlways, PTL DEF Spec
<1> QED
  BY <1>2, <1>3, PTL
=============================================================================
