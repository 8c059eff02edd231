---------------------------- MODULE StreamServer ----------------------------
(***************************************************************************)
(* The sockets of the order entry server: EpollServer::run                 *)
(* (order_entry/oe_server.cpp) over an edge-triggered epoll, and the       *)
(* StreamParser (oe_stream_parser.H) that cuts each stream into messages   *)
(* and limits their rate.  ClientHandler models what the messages do; here *)
(* the handler is only which descriptor has a session and which            *)
(* descriptors it closes.                                                  *)
(*                                                                         *)
(* A connection is numbered in the order of connect(); it waits in the     *)
(* backlog, is open at a descriptor, or is over.  A descriptor is used     *)
(* again after close(), and so is what is stored under it.                 *)
(***************************************************************************)
EXTENDS Integers, Sequences, FiniteSets, Sums

Seqs == INSTANCE SequencesExt

CONSTANTS
    ClientOf,               \* the client that makes each connection
    Descriptors,            \* descriptors accept() can return
    Kinds,                  \* kinds of message clients send
    BufferUnits,            \* sizeof(buf), in units of a message
    MaxEvents,              \* events of one epoll_wait
    MAX_MSGS_PER_SECOND,
    Second,                 \* 1e9 ns, in whole steps of the clock
    MaxMessages,            \* bound: messages sent on all connections
    MaxTime                 \* bound: steps of the clock

Connections == DOMAIN ClientOf
listen_fd == 0
Items == Connections \cup {listen_fd}
NoConnection == -1
NoDescriptor == -1

ASSUME ServerAssumption ==
    /\ Len(ClientOf) \in Nat /\ Connections = 1..Len(ClientOf)
    /\ Descriptors \subseteq Nat \ {listen_fd}
    /\ Cardinality(Descriptors) >= Cardinality(Connections)
    /\ Kinds \subseteq {"login", "order", "unknown", "malformed"}
    /\ {BufferUnits, MaxEvents} \subseteq Nat \ {0}
    /\ {MAX_MSGS_PER_SECOND, Second, MaxMessages, MaxTime} \subseteq Nat

VARIABLES
    sent,           \* per connection the last unit the client has sent
    over,           \* connections that have ended: the peer has hung up or is cut off
    recv,           \* per connection the units in its receive buffer
    backlog,        \* connections waiting for accept()
    opened,         \* per descriptor the connection open at it
    ready,          \* epoll: the items with an edge to report, listen_fd or a connection
    events, reading,            \* the rest of run()'s batch, and the descriptor it reads
    sock_to_partial_messages, sock_to_msg_timestamps,
    session,        \* per descriptor the connection that logged in there
    now,
    handled,        \* history: per connection the messages handled and when
    limited,        \* history: connections refused for their rate
    neglected       \* history: items whose edge run() took and did nothing about

peers == <<sent, over>>
kernel == <<recv, backlog, opened, ready>>
parser == <<sock_to_partial_messages, sock_to_msg_timestamps>>
serverVars == <<peers, kernel, events, reading, parser, session, now, handled, limited, neglected>>

-----------------------------------------------------------------------------
(* Messages.  The header of a message, its first unit, tells the kind and the length; a
   login is the longest message. *)

Length(kind) == IF kind = "login" THEN 3 ELSE 2
Unit(k, num, kind, at) == [conn |-> k, num |-> num, kind |-> kind, at |-> at]
Units(k, num, kind) == [at \in 1..Length(kind) |-> Unit(k, num, kind, at)]
Nothing(k) == Unit(k, 0, "order", Length("order"))

MessagesSent == Total([k \in Connections |-> sent[k].num], Connections)

\* What a client may send after a unit: the rest of the message or the next one.
Following(u) ==
    IF u.at < Length(u.kind) THEN {[u EXCEPT !.at = @ + 1]}
    ELSE {Unit(u.conn, u.num + 1, kind, 1) : kind \in IF MessagesSent < MaxMessages THEN Kinds ELSE {}}

Complete(buf) == buf # <<>> /\ Len(buf) >= Length(Head(buf).kind)

\* The message at the head of the buffer is refused: a wrong version or a length that is
\* too large by its header, an unknown type once it is complete.
Refused(buf) ==
    /\ buf # <<>>
    /\ Head(buf).kind = "malformed" \/ (Head(buf).kind = "unknown" /\ Complete(buf))

\* One turn of the loop of parse(): a message is passed on, or nothing more is.
Stuck(buf) == ~Complete(buf) \/ Refused(buf)
ParseOne(p) ==
    LET n == Length(Head(p.rest).kind) IN
    IF Stuck(p.rest) THEN p
    ELSE [messages |-> Append(p.messages, SubSeq(p.rest, 1, n)),
          rest |-> SubSeq(p.rest, n + 1, Len(p.rest))]

\* The loop: each turn that passes a message on makes the buffer shorter.
Parsed(buf) ==
    LET after[i \in 0..Len(buf)] ==
            IF i = 0 THEN [messages |-> <<>>, rest |-> buf] ELSE ParseOne(after[i - 1])
    IN  after[Len(buf)]

\* The messages it passes to the handler, and what stays.
Dispatched(buf) == Parsed(buf).messages
Rest(buf) == Parsed(buf).rest

\* The members of s that are in S, in their order.
Kept(s, S) ==
    LET kept[i \in 0..Len(s)] ==
            IF i = 0 THEN <<>>
            ELSE IF s[i] \in S THEN Append(kept[i - 1], s[i]) ELSE kept[i - 1]
    IN  kept[Len(s)]

-----------------------------------------------------------------------------
(* Clients, and what the kernel makes of them. *)

Open(k) == \E d \in Descriptors : opened[d] = k
Waiting(k) == Seqs!Contains(backlog, k)

\* An edge puts an item on the ready list, once.
Edge(item) ==
    /\ ready' = IF Seqs!Contains(ready, item) THEN ready ELSE Append(ready, item)
    /\ neglected' = neglected \ {item}
EdgeIfOpen(k) == IF Open(k) THEN Edge(k) ELSE UNCHANGED <<ready, neglected>>

Connect(k) ==
    /\ k \in Connections /\ sent[k] = Nothing(k) /\ k \notin over
    /\ ~Waiting(k) /\ ~Open(k)
    /\ \A j \in 1..(k - 1) : Waiting(j) \/ Open(j) \/ j \in over
    /\ backlog' = Append(backlog, k)
    /\ Edge(listen_fd)
    /\ UNCHANGED <<peers, recv, opened, events, reading, parser, session, now, handled, limited>>

Send(k) ==
    /\ Waiting(k) \/ Open(k)
    /\ k \notin over
    /\ \E u \in Following(sent[k]) :
          /\ sent' = [sent EXCEPT ![k] = u]
          /\ recv' = [recv EXCEPT ![k] = Append(@, u)]
    /\ EdgeIfOpen(k)
    /\ UNCHANGED <<over, backlog, opened, events, reading, parser, session, now, handled, limited>>

HangUp(k) ==
    /\ Waiting(k) \/ Open(k)
    /\ k \notin over
    /\ over' = over \cup {k}
    /\ EdgeIfOpen(k)
    /\ UNCHANGED <<sent, recv, backlog, opened, events, reading, parser, session, now, handled, limited>>

Tick ==
    /\ now < MaxTime
    /\ now' = now + 1
    /\ UNCHANGED <<peers, kernel, events, reading, parser, session, handled, limited, neglected>>

-----------------------------------------------------------------------------
(* run(). *)

\* Something to report: a connection to accept, bytes to read, or a peer that is gone.
Pending(item) ==
    IF item = listen_fd THEN backlog # <<>>
    ELSE Open(item) /\ (recv[item] # <<>> \/ item \in over)

DescriptorOf(item) ==
    IF item = listen_fd THEN listen_fd ELSE CHOOSE d \in Descriptors : opened[d] = item
EventOf(item) == [fd |-> DescriptorOf(item), hup |-> item \in over]
ItemAt(d) == IF d = listen_fd THEN listen_fd ELSE opened[d]

\* close(): the peer of a connection that is open is cut off.
Close(D) ==
    LET gone == {opened[d] : d \in D} \ {NoConnection} IN
    /\ opened' = [d \in Descriptors |-> IF d \in D THEN NoConnection ELSE opened[d]]
    /\ over' = over \cup gone
    /\ ready' = Kept(ready, Items \ gone)
    /\ recv' = [k \in Connections |-> IF k \in gone THEN <<>> ELSE recv[k]]

\* The parser's socket_closed and the handler's on_socket_closed.
SocketClosed(d) ==
    /\ sock_to_partial_messages' = [sock_to_partial_messages EXCEPT ![d] = <<>>]
    /\ session' = [session EXCEPT ![d] = NoConnection]
    /\ UNCHANGED sock_to_msg_timestamps

\* epoll_wait takes the edges off the list, in order, and reports what is still pending.
EpollWait ==
    LET pending == Kept(ready, {item \in Items : Pending(item)})
        n == FSets!Min({MaxEvents, Len(pending)})
    IN  /\ events = <<>> /\ reading = NoDescriptor
        /\ pending # <<>>
        /\ events' = [i \in 1..n |-> EventOf(pending[i])]
        /\ ready' = SubSeq(pending, n + 1, Len(pending))
        /\ UNCHANGED <<peers, recv, backlog, opened, reading, parser, session, now, handled, limited, neglected>>

Event == Head(events)
Handling == events # <<>> /\ reading = NoDescriptor

\* Mutant: the bytes of the last connection at the descriptor stay.
NewSocketKeepsBytes(d) ==
    /\ sock_to_msg_timestamps' = [sock_to_msg_timestamps EXCEPT ![d] = <<>>]
    /\ UNCHANGED sock_to_partial_messages

\* Mutant: so do the times of its messages.
NewSocketKeepsTimes(d) ==
    /\ sock_to_partial_messages' = [sock_to_partial_messages EXCEPT ![d] = <<>>]
    /\ UNCHANGED sock_to_msg_timestamps

NewSocket(d) ==
    /\ sock_to_partial_messages' = [sock_to_partial_messages EXCEPT ![d] = <<>>]
    /\ sock_to_msg_timestamps' = [sock_to_msg_timestamps EXCEPT ![d] = <<>>]

\* One accept() for one event; the kernel returns the lowest free descriptor, and adding
\* it to the epoll is an edge when there is something to read already.
Accept ==
    LET k == Head(backlog)
        d == FSets!Min({e \in Descriptors : opened[e] = NoConnection})
        waits == recv[k] # <<>> \/ k \in over
        listens == Len(backlog) > 1 /\ ~Seqs!Contains(ready, listen_fd)
    IN  /\ Handling /\ Event.fd = listen_fd
        /\ backlog' = Tail(backlog)
        /\ opened' = [opened EXCEPT ![d] = k]
        /\ NewSocket(d)
        /\ ready' = IF waits THEN Append(ready, k) ELSE ready
        /\ neglected' = IF listens THEN neglected \cup {listen_fd} ELSE neglected
        /\ events' = Tail(events)
        /\ UNCHANGED <<peers, recv, reading, session, now, handled, limited>>

\* EPOLLRDHUP or EPOLLHUP: the socket is closed, unread bytes and all, and the `break'
\* drops the events that are left.
HangUpEvent ==
    /\ Handling /\ Event.fd # listen_fd /\ Event.hup
    /\ Close({Event.fd}) /\ SocketClosed(Event.fd)
    /\ neglected' = (neglected \cup {ItemAt(e.fd) : e \in Seqs!ToSet(Tail(events))}) \ {NoConnection}
    /\ events' = <<>>
    /\ UNCHANGED <<sent, backlog, reading, now, handled, limited>>

\* Mutant: the event of the listening socket is read like any other.
ReadableEventAny ==
    /\ Handling /\ ~Event.hup
    /\ reading' = Event.fd
    /\ events' = Tail(events)
    /\ UNCHANGED <<peers, kernel, parser, session, now, handled, limited, neglected>>

ReadableEvent ==
    /\ Handling /\ Event.fd # listen_fd /\ ~Event.hup
    /\ reading' = Event.fd
    /\ events' = Tail(events)
    /\ UNCHANGED <<peers, kernel, parser, session, now, handled, limited, neglected>>

EndRead == reading' = NoDescriptor

\* Connections that read() has bytes of, or may have later.
Streams == {k \in Connections : recv[k] # <<>> \/ k \notin over}

\* read() has nothing more: EAGAIN.
ReadNothing ==
    /\ reading # NoDescriptor
    /\ opened[reading] \in Streams
    /\ recv[opened[reading]] = <<>>
    /\ EndRead
    /\ UNCHANGED <<peers, kernel, events, parser, session, now, handled, limited, neglected>>

\* read() returns 0, or fails because the handler or the parser has closed the socket.
ReadOver ==
    /\ reading # NoDescriptor
    /\ opened[reading] \notin Streams
    /\ Close({reading}) /\ SocketClosed(reading)
    /\ EndRead
    /\ UNCHANGED <<sent, backlog, events, now, handled, limited, neglected>>

\* Mutant: the times of messages are forgotten as soon as the clock moves.
RecentBriefly(d) == Kept(sock_to_msg_timestamps[d], {t \in 0..now : now - t < Second})

Recent(d) == Kept(sock_to_msg_timestamps[d], {t \in 0..now : now - t <= Second})

\* parse() refuses a read for the rate of the messages before it.
Limit(d) ==
    /\ sock_to_msg_timestamps' = [sock_to_msg_timestamps EXCEPT ![d] = Recent(d)]
    /\ Close({d})
    /\ limited' = limited \cup {opened[d]}
    /\ UNCHANGED <<sock_to_partial_messages, session, handled>>

\* The other descriptors at which the client is logged in: on_login closes them and this
\* one.  Only the first login of a read does anything.
LoggedInElsewhere(d) ==
    {e \in Descriptors \ {d} : session[e] # NoConnection /\ ClientOf[session[e]] = ClientOf[opened[d]]}

OnLogin(d) ==
    session' = [e \in Descriptors |->
        IF e \in LoggedInElsewhere(d) THEN NoConnection
        ELSE IF e = d /\ LoggedInElsewhere(d) = {} THEN opened[d]
        ELSE session[e]]

ClosedByLogin(d) == IF LoggedInElsewhere(d) = {} THEN {} ELSE {d} \cup LoggedInElsewhere(d)

Buffered(d, units) == sock_to_partial_messages[d] \o units

\* parse() of what one read() returned.
Parse(d, n) ==
    LET k == opened[d]
        buf == Buffered(d, SubSeq(recv[k], 1, n))
        messages == Dispatched(buf)
        login == \E i \in DOMAIN messages : Head(messages[i]).kind = "login"
        closed == (IF login THEN ClosedByLogin(d) ELSE {}) \cup (IF Refused(Rest(buf)) THEN {d} ELSE {})
    IN  /\ sock_to_partial_messages' = [sock_to_partial_messages EXCEPT ![d] = Rest(buf)]
        /\ sock_to_msg_timestamps' =
              [sock_to_msg_timestamps EXCEPT ![d] = Recent(d) \o [i \in DOMAIN messages |-> now]]
        /\ handled' = [handled EXCEPT ![k] = @ \o [i \in DOMAIN messages |-> [units |-> messages[i], at |-> now]]]
        /\ IF login THEN OnLogin(d) ELSE UNCHANGED session
        /\ IF closed = {} THEN recv' = [recv EXCEPT ![k] = SubSeq(@, n + 1, Len(@))] /\ UNCHANGED <<opened, over, ready>>
           ELSE Close(closed)
        /\ UNCHANGED limited

\* The next bytes of the stream, as many as the buffer holds.
ReadAndParse ==
    LET k == opened[reading]
        n == FSets!Min({BufferUnits, Len(recv[k])})
    IN  /\ reading # NoDescriptor
        /\ k \in Connections
        /\ recv[k] # <<>>
        /\ IF Len(Recent(reading)) > MAX_MSGS_PER_SECOND THEN Limit(reading) ELSE Parse(reading, n)
        /\ UNCHANGED <<sent, backlog, events, now, neglected>>

\* Mutant: one read() for one event.
ReadBytesOnce == ReadAndParse /\ EndRead

ReadBytes == ReadAndParse /\ UNCHANGED reading

\* handler.process(), after the batch, closes a socket that a report cannot be written
\* to; the parser is not told.
WriteFails(d) ==
    /\ events = <<>> /\ reading = NoDescriptor
    /\ session[d] # NoConnection
    /\ Close({d})
    /\ session' = [session EXCEPT ![d] = NoConnection]
    /\ UNCHANGED <<sent, backlog, events, reading, parser, now, handled, limited, neglected>>

-----------------------------------------------------------------------------

ServerInit ==
    /\ sent = [k \in Connections |-> Nothing(k)] /\ over = {}
    /\ recv = [k \in Connections |-> <<>>] /\ backlog = <<>>
    /\ opened = [d \in Descriptors |-> NoConnection] /\ ready = <<>>
    /\ events = <<>> /\ reading = NoDescriptor
    /\ sock_to_partial_messages = [d \in Descriptors |-> <<>>]
    /\ sock_to_msg_timestamps = [d \in Descriptors |-> <<>>]
    /\ session = [d \in Descriptors |-> NoConnection]
    /\ now = 0
    /\ handled = [k \in Connections |-> <<>>] /\ limited = {} /\ neglected = {}

Clients ==
    \/ \E k \in Connections : Connect(k) \/ Send(k) \/ HangUp(k)
    \/ \E d \in Descriptors : WriteFails(d)
    \/ Tick
Run ==
    \/ EpollWait \/ Accept \/ HangUpEvent \/ ReadableEvent
    \/ ReadNothing \/ ReadOver \/ ReadBytes

ServerNext == Clients \/ Run

\* The thread polls without blocking and never waits for a client.
ServerSpec == ServerInit /\ [][ServerNext]_serverVars /\ WF_serverVars(Run)

-----------------------------------------------------------------------------
(* The properties. *)

\* A read ends one message that had begun, and brings the shortest ones.
MessagesPerRead == 1 + (BufferUnits - 1) \div Length("order")

InWindow(k) == {i \in DOMAIN handled[k] : now - handled[k][i].at <= Second}

\* Every variable stays within its type, and a connection is at one place only.
ServerTypeOK ==
    /\ opened \in [Descriptors -> Connections \cup {NoConnection}]
    /\ session \in [Descriptors -> Connections \cup {NoConnection}]
    /\ Seqs!ToSet(ready) \subseteq Items
    /\ Seqs!IsInjective(ready) /\ Seqs!IsInjective(backlog)
    /\ reading \in Descriptors \cup {NoDescriptor}
    /\ \A i \in DOMAIN events : events[i].fd \in Descriptors \cup {listen_fd}
    /\ \A d, e \in Descriptors : opened[d] = opened[e] => d = e \/ opened[d] = NoConnection
    /\ \A k \in Connections : ~(Waiting(k) /\ Open(k))
    /\ Len(events) <= MaxEvents

\* The stream parser passes on the messages of a connection whole, in the order they were
\* sent and none twice, however the stream was cut into reads, and never with bytes of
\* an earlier connection at the same descriptor.
FramedExactly ==
    \A k \in Connections : \A i \in DOMAIN handled[k] :
        LET units == handled[k][i].units IN units = Units(k, i, Head(units).kind)

\* The rate limit lets no more messages of a connection through in a second than
\* MAX_MSGS_PER_SECOND and those of one read: it counts what earlier reads brought.
RateBounded ==
    \A k \in Connections :
        Cardinality(InWindow(k)) <= MAX_MSGS_PER_SECOND + MessagesPerRead

\* A connection is refused for its own messages, never for those of an earlier one at
\* its descriptor.
LimitedForItsOwn ==
    [][\A k \in limited' \ limited : Cardinality(InWindow(k)) > MAX_MSGS_PER_SECOND]_serverVars

\* No wake-up is lost: whatever there is to accept, to read or to close, an edge-triggered
\* epoll has still to report it or run() has it in hand; the exceptions are the edges
\* that run() took and dropped.
NoEdgeLost ==
    \A item \in Items :
        Pending(item) /\ item \notin neglected =>
            \/ Seqs!Contains(ready, item)
            \/ DescriptorOf(item) \in {reading} \cup {events[i].fd : i \in DOMAIN events}

\* oe_server.cpp:126: "must read until EAGAIN".  What a client has sent is read, or the
\* connection is closed.
EverythingRead ==
    \A k \in Connections : Open(k) /\ recv[k] # <<>> ~> ~Open(k) \/ recv[k] = <<>>
=============================================================================
