------------------------- MODULE StreamServerProofs -------------------------
(***************************************************************************)
(* The sockets of the order entry server, for any number of connections,   *)
(* descriptors and messages, any buffer and any rate: no edge of the epoll *)
(* is lost but those that run() drops, streams are cut into messages       *)
(* exactly, and rates are counted per connection.                          *)
(***************************************************************************)
EXTENDS StreamServer, SumProofs, SequenceTheorems

-----------------------------------------------------------------------------
(* The invariant. *)

Sent == [conn : Connections, num : Nat, kind : {"login", "order", "unknown", "malformed"}, at : 1..3]
Reported == [fd : Descriptors \cup {listen_fd}, hup : BOOLEAN]

ServerTypes ==
    /\ sent \in [Connections -> Sent] /\ over \subseteq Connections
    /\ recv \in [Connections -> Seq(Sent)] /\ backlog \in Seq(Connections)
    /\ opened \in [Descriptors -> Connections \cup {NoConnection}]
    /\ ready \in Seq(Items) /\ events \in Seq(Reported) /\ Len(events) <= MaxEvents
    /\ reading \in Descriptors \cup {NoDescriptor}
    /\ sock_to_partial_messages \in [Descriptors -> Seq(Sent)]
    /\ sock_to_msg_timestamps \in [Descriptors -> Seq(Nat)]
    /\ session \in [Descriptors -> Connections \cup {NoConnection}]
    /\ now \in Nat
    /\ handled \in [Connections -> Seq([units : Seq(Sent), at : Nat])]
    /\ limited \subseteq Connections /\ neglected \subseteq Items

\* What the epoll has to report, and what the batch reports.
Listed(item) == Seqs!Contains(ready, item)
Reporting(d) == \E i \in DOMAIN events : events[i].fd = d

\* A connection is at one place: it waits, is open at one descriptor, or neither.  Only what
\* is open is in the ready list.
SocketInv ==
    /\ Seqs!IsInjective(ready) /\ Seqs!IsInjective(backlog)
    /\ \A d, e \in Descriptors : opened[d] = opened[e] => d = e \/ opened[d] = NoConnection
    /\ \A k \in Connections : ~(Waiting(k) /\ Open(k))
    /\ \A k \in Connections : Listed(k) => Open(k)

\* A batch has one event of a descriptor, and one of the listening socket only while a
\* connection waits.
BatchInv ==
    /\ \A i, j \in DOMAIN events : events[i].fd = events[j].fd => i = j
    /\ Reporting(listen_fd) => backlog # <<>>

\* NoEdgeLost, by descriptor.
EdgesKept ==
    /\ backlog # <<>> /\ listen_fd \notin neglected => Listed(listen_fd) \/ Reporting(listen_fd)
    /\ \A d \in Descriptors :
          /\ opened[d] # NoConnection /\ opened[d] \notin neglected
          /\ recv[opened[d]] # <<>> \/ opened[d] \in over
          => Listed(opened[d]) \/ d = reading \/ Reporting(d)

EdgeInv == ServerTypes /\ SocketInv /\ BatchInv /\ EdgesKept

\* The unit v comes after u in the stream of a client.
Follows(u, v) ==
    /\ v.conn = u.conn
    /\ IF u.at < Length(u.kind) THEN v.num = u.num /\ v.kind = u.kind /\ v.at = u.at + 1
       ELSE v.num = u.num + 1 /\ v.at = 1

\* Units of k that follow one another, and the units after its message h.
Linked(k, s) ==
    /\ \A i \in 1..Len(s) : s[i].conn = k
    /\ \A i \in 1..(Len(s) - 1) : Follows(s[i], s[i + 1])
Chain(k, h, s) == Linked(k, s) /\ (s # <<>> => s[1].at = 1 /\ s[1].num = h + 1)

\* What is to come of the stream of k, after h messages, and ends with what was sent last.
Streamed(k, h, s, last) ==
    /\ Chain(k, h, s)
    /\ s # <<>> => s[Len(s)] = last
    /\ s = <<>> => last.num = h /\ last.at = Length(last.kind)

\* The stream of a connection is what was handled, what the parser holds and what is to read.
FrameInv ==
    /\ FramedExactly
    /\ \A k \in Connections :
          /\ sent[k].conn = k /\ sent[k].at <= Length(sent[k].kind)
          /\ Waiting(k) => handled[k] = <<>> /\ Streamed(k, 0, recv[k], sent[k])
          /\ k \notin over /\ ~Waiting(k) /\ ~Open(k) => handled[k] = <<>> /\ recv[k] = <<>>
    /\ \A d \in Descriptors : opened[d] # NoConnection =>
          Streamed(opened[d], Len(handled[opened[d]]), sock_to_partial_messages[d] \o recv[opened[d]], sent[opened[d]])

\* The messages H of a connection are in the order of their times, and none is of later than t.
Dated(H, t) ==
    /\ \A i \in DOMAIN H : H[i].at <= t
    /\ \A i, j \in DOMAIN H : i <= j => H[i].at <= H[j].at

\* Those of the last second.
Window(H, t) == {i \in DOMAIN H : t - H[i].at <= Second}

\* The times kept are those of the last messages of the connection, and those forgotten are
\* longer ago than a second.
TimesKept(H, times, t) ==
    \E m \in 0..Len(H) :
        /\ Len(times) = Len(H) - m
        /\ \A i \in 1..Len(times) : times[i] = H[m + i].at
        /\ \A i \in 1..m : t - H[i].at > Second

\* The parser counts the messages of the connection at a descriptor, and holds less than one.
RateInv ==
    /\ \A k \in Connections :
          /\ Dated(handled[k], now)
          /\ Cardinality(Window(handled[k], now)) <= MAX_MSGS_PER_SECOND + MessagesPerRead
    /\ \A d \in Descriptors : opened[d] # NoConnection =>
          /\ TimesKept(handled[opened[d]], sock_to_msg_timestamps[d], now)
          /\ ~Complete(sock_to_partial_messages[d])

-----------------------------------------------------------------------------
(* Sequences. *)

\* Contains, by index.
LEMMA ContainsIndex ==
    ASSUME NEW s, NEW x
    PROVE  Seqs!Contains(s, x) <=> \E i \in DOMAIN s : s[i] = x
  BY DEF Seqs!Contains

\* One member more.
LEMMA Appended ==
    ASSUME NEW T, NEW s \in Seq(T), NEW x \in T
    PROVE  /\ Append(s, x) \in Seq(T) /\ Append(s, x) # <<>>
           /\ \A y : Seqs!Contains(Append(s, x), y) <=> Seqs!Contains(s, y) \/ y = x
           /\ Seqs!IsInjective(s) /\ ~Seqs!Contains(s, x) => Seqs!IsInjective(Append(s, x))
  <1>1. PICK t : t = Append(s, x)
    OBVIOUS
  <1>2. /\ t \in Seq(T) /\ DOMAIN s = 1..Len(s) /\ DOMAIN t = 1..(Len(s) + 1) /\ t # <<>>
        /\ \A i \in DOMAIN s : t[i] = s[i] /\ i \in DOMAIN t
        /\ t[Len(s) + 1] = x /\ Len(s) + 1 \in DOMAIN t
        /\ \A i \in DOMAIN t : i \in DOMAIN s \/ i = Len(s) + 1
    BY <1>1
  <1>3. ASSUME Seqs!IsInjective(s), ~Seqs!Contains(s, x) PROVE Seqs!IsInjective(t)
    <2>1. \A i \in DOMAIN s : s[i] # x
      BY <1>3, ContainsIndex
    <2>2. QED
      BY <1>2, <1>3, <2>1 DEF Seqs!IsInjective
  <1>4. \A y : (\E i \in DOMAIN t : t[i] = y) <=> (\E i \in DOMAIN s : s[i] = y) \/ y = x
    BY <1>2
  <1>5. \A y : Seqs!Contains(t, y) <=> Seqs!Contains(s, y) \/ y = x
    BY <1>4, ContainsIndex
  <1>6. QED
    BY <1>1, <1>2, <1>3, <1>5

\* One member less, at the head.
LEMMA HeadGone ==
    ASSUME NEW T, NEW s \in Seq(T), s # <<>>, Seqs!IsInjective(s)
    PROVE  /\ Head(s) \in T /\ Seqs!Contains(s, Head(s))
           /\ Tail(s) \in Seq(T) /\ Seqs!IsInjective(Tail(s))
           /\ \A y : Seqs!Contains(Tail(s), y) <=> Seqs!Contains(s, y) /\ y # Head(s)
           /\ Tail(s) # <<>> => Len(s) > 1
  <1>1. PICK t : t = Tail(s)
    OBVIOUS
  <1>2. /\ t \in Seq(T) /\ Len(t) = Len(s) - 1 /\ Len(s) \in Nat /\ Len(s) > 0 /\ Head(s) = s[1] /\ s[1] \in T
        /\ DOMAIN s = 1..Len(s) /\ DOMAIN t = 1..(Len(s) - 1) /\ 1 \in DOMAIN s
        /\ t # <<>> => Len(t) > 0
    BY <1>1
  <1>3. \A i \in DOMAIN t : t[i] = s[i + 1] /\ i + 1 \in DOMAIN s /\ i + 1 # 1
    BY <1>1, <1>2, HeadTailProperties
  <1>4. \A i \in DOMAIN s : i # 1 => i - 1 \in DOMAIN t /\ t[i - 1] = s[i]
    BY <1>2, <1>3
  <1>5. Seqs!IsInjective(t)
    <2>1. ASSUME NEW i \in DOMAIN t, NEW j \in DOMAIN t, t[i] = t[j] PROVE i = j
      <3>1. i + 1 = j + 1
        BY <1>3, <2>1 DEF Seqs!IsInjective
      <3>2. QED
        BY <1>2, <3>1
    <2>2. QED
      BY <2>1 DEF Seqs!IsInjective
  <1>6. ASSUME NEW y, Seqs!Contains(t, y) PROVE Seqs!Contains(s, y) /\ y # Head(s)
    <2>1. PICK i \in DOMAIN t : t[i] = y
      BY <1>6, ContainsIndex
    <2>2. s[i + 1] = y /\ i + 1 \in DOMAIN s /\ i + 1 # 1
      BY <1>3, <2>1
    <2>3. QED
      BY <1>2, <2>2, ContainsIndex DEF Seqs!IsInjective
  <1>7. ASSUME NEW y, Seqs!Contains(s, y), y # Head(s) PROVE Seqs!Contains(t, y)
    <2>1. PICK i \in DOMAIN s : s[i] = y
      BY <1>7, ContainsIndex
    <2>2. i - 1 \in DOMAIN t /\ t[i - 1] = y
      BY <1>2, <1>4, <1>7, <2>1
    <2>3. QED
      BY <2>2, ContainsIndex
  <1>8. Seqs!Contains(s, s[1])
    BY <1>2, ContainsIndex
  <1>9. QED
    BY <1>1, <1>2, <1>5, <1>6, <1>7, <1>8

\* Without the first n, and the first n alone.
LEMMA CutAt ==
    ASSUME NEW T, NEW s \in Seq(T), NEW n \in 0..Len(s)
    PROVE  /\ SubSeq(s, n + 1, Len(s)) \in Seq(T) /\ Len(SubSeq(s, n + 1, Len(s))) = Len(s) - n
           /\ \A j \in 1..(Len(s) - n) : SubSeq(s, n + 1, Len(s))[j] = s[n + j] /\ n + j \in 1..Len(s)
           /\ SubSeq(s, 1, n) \in Seq(T) /\ Len(SubSeq(s, 1, n)) = n
           /\ \A j \in 1..n : SubSeq(s, 1, n)[j] = s[j]
  <1>1. Len(s) \in Nat /\ n \in Nat /\ n <= Len(s)
    OBVIOUS
  <1>2. \A j \in 1..(Len(s) - n) : n + j \in 1..Len(s)
    BY <1>1
  <1>3. PICK r : r = SubSeq(s, n + 1, Len(s))
    OBVIOUS
  <1>4. r = [j \in 1..(Len(s) - n) |-> s[n + j]]
    <2>1. r = [j \in 1..((1 + Len(s)) - (n + 1)) |-> s[((n + 1) + j) - 1]]
      BY <1>3
    <2>2. (1 + Len(s)) - (n + 1) = Len(s) - n /\ \A j \in 1..(Len(s) - n) : ((n + 1) + j) - 1 = n + j
      BY <1>1
    <2>3. QED
      BY <2>1, <2>2
  <1>5. r \in [1..(Len(s) - n) -> T] /\ Len(s) - n \in Nat
    BY <1>1, <1>2, <1>4
  <1>6. r \in Seq(T) /\ Len(r) = Len(s) - n
    BY <1>5
  <1>7. \A j \in 1..(Len(s) - n) : r[j] = s[n + j]
    BY <1>4
  <1>8. SubSeq(s, 1, n) \in Seq(T) /\ Len(SubSeq(s, 1, n)) = n /\ \A j \in 1..n : SubSeq(s, 1, n)[j] = s[j]
    BY <1>1
  <1>9. QED
    BY <1>2, <1>3, <1>6, <1>7, <1>8

\* f[i] are the members of S among the first i of s.
KeptBy(f, s, S, n) ==
    f = [i \in 0..n |-> IF i = 0 THEN <<>>
                        ELSE IF s[i] \in S THEN Append(f[i - 1], s[i]) ELSE f[i - 1]]

\* Kept is the last of such a function.
LEMMA KeptStepwise ==
    ASSUME NEW s, NEW S, Len(s) \in Nat
    PROVE  \E f : KeptBy(f, s, S, Len(s)) /\ Kept(s, S) = f[Len(s)]
  <1> DEFINE N == {n \in Nat : \E f : KeptBy(f, s, S, n)}
  <1>1. 0 \in N
    <2>1. PICK f : f = [i \in 0..0 |-> <<>>]
      OBVIOUS
    <2>2. KeptBy(f, s, S, 0)
      BY <2>1 DEF KeptBy
    <2>3. QED
      BY <2>2
  <1>2. ASSUME NEW n \in 0..(Len(s) - 1), n \in N
        PROVE  n + 1 \in N
    <2>1. PICK f : KeptBy(f, s, S, n)
      BY <1>2
    <2>2. PICK last : last = IF s[n + 1] \in S THEN Append(f[n], s[n + 1]) ELSE f[n]
      OBVIOUS
    <2>3. PICK g : g = [i \in 0..(n + 1) |-> IF i = n + 1 THEN last ELSE f[i]]
      OBVIOUS
    <2>4. ASSUME NEW i \in 0..(n + 1)
          PROVE  g[i] = IF i = 0 THEN <<>>
                        ELSE IF s[i] \in S THEN Append(g[i - 1], s[i]) ELSE g[i - 1]
      <3>1. CASE i = n + 1
        <4>1. i # 0 /\ i - 1 = n /\ n \in 0..(n + 1) /\ n # n + 1
          BY <1>2, <3>1
        <4>2. g[i] = last /\ g[i - 1] = f[n]
          BY <2>3, <3>1, <4>1
        <4>3. QED
          BY <2>2, <3>1, <4>1, <4>2
      <3>2. CASE i # n + 1
        <4>1. i \in 0..n /\ g[i] = f[i]
          BY <1>2, <2>3, <2>4, <3>2
        <4>2. f[i] = IF i = 0 THEN <<>>
                     ELSE IF s[i] \in S THEN Append(f[i - 1], s[i]) ELSE f[i - 1]
          BY <2>1, <4>1 DEF KeptBy
        <4>3. i # 0 => g[i - 1] = f[i - 1]
          BY <1>2, <2>3, <4>1
        <4>4. QED
          BY <4>1, <4>2, <4>3
      <3>3. QED
        BY <3>1, <3>2
    <2>5. KeptBy(g, s, S, n + 1)
      BY <2>3, <2>4 DEF KeptBy
    <2>6. QED
      BY <1>2, <2>5
  <1>3. Len(s) \in N
    <2> HIDE DEF N
    <2>1. 0..Len(s) \subseteq N
      BY <1>1, <1>2, CountUp
    <2>2. QED
      BY <2>1
  <1>4. PICK f : f = CHOOSE g : KeptBy(g, s, S, Len(s))
    OBVIOUS
  <1>5. KeptBy(f, s, S, Len(s))
    BY <1>3, <1>4
  <1>6. Kept(s, S) = f[Len(s)]
    BY <1>4 DEF Kept, KeptBy
  <1>7. QED
    BY <1>5, <1>6

\* The members of t are those of s, up to n, that are in S.
MembersOf(t, s, S, n) == \A x : (\E j \in DOMAIN t : t[j] = x) <=> (x \in S /\ \E j \in 1..n : s[j] = x)

\* What is kept: nothing but members of S, all of them, none twice.
LEMMA KeptMembers ==
    ASSUME NEW T, NEW s \in Seq(T), NEW S
    PROVE  /\ Kept(s, S) \in Seq(T)
           /\ \A x : Seqs!Contains(Kept(s, S), x) <=> x \in S /\ Seqs!Contains(s, x)
           /\ Seqs!IsInjective(s) => Seqs!IsInjective(Kept(s, S))
  <1>1. PICK f : KeptBy(f, s, S, Len(s)) /\ Kept(s, S) = f[Len(s)]
    BY KeptStepwise
  <1> DEFINE N == {n \in Nat : /\ f[n] \in Seq(T) /\ MembersOf(f[n], s, S, n)
                               /\ Seqs!IsInjective(s) => Seqs!IsInjective(f[n])}
  <1>2. Len(s) \in Nat /\ DOMAIN s = 1..Len(s)
    OBVIOUS
  <1>3. 0 \in N
    <2>1. f[0] = <<>>
      BY <1>1, <1>2 DEF KeptBy
    <2>2. f[0] \in Seq(T) /\ DOMAIN f[0] = {}
      BY <2>1
    <2>3. MembersOf(f[0], s, S, 0) /\ Seqs!IsInjective(f[0])
      BY <2>2 DEF MembersOf, Seqs!IsInjective
    <2>4. QED
      BY <2>2, <2>3
  <1>4. ASSUME NEW n \in 0..(Len(s) - 1), n \in N
        PROVE  n + 1 \in N
    <2>1. /\ f[n + 1] = IF s[n + 1] \in S THEN Append(f[n], s[n + 1]) ELSE f[n]
          /\ n + 1 \in 1..Len(s) /\ s[n + 1] \in T /\ n + 1 \in Nat
      <3>1. n + 1 \in 0..Len(s) /\ n + 1 # 0 /\ (n + 1) - 1 = n /\ n + 1 \in 1..Len(s)
        BY <1>2, <1>4
      <3>2. f[n + 1] = IF n + 1 = 0 THEN <<>>
                       ELSE IF s[n + 1] \in S THEN Append(f[(n + 1) - 1], s[n + 1]) ELSE f[(n + 1) - 1]
        BY <1>1, <3>1 DEF KeptBy
      <3>3. s[n + 1] \in T
        BY <3>1
      <3>4. QED
        BY <1>4, <3>1, <3>2, <3>3
    <2>2. \A j \in 1..(n + 1) : j \in 1..n \/ j = n + 1
      BY <1>4
    <2>3. f[n] \in Seq(T) /\ MembersOf(f[n], s, S, n)
      BY <1>4
    <2>4. CASE s[n + 1] \in S
      <3>1. PICK t : t = Append(f[n], s[n + 1])
        OBVIOUS
      <3>2. /\ t \in Seq(T) /\ DOMAIN t = 1..(Len(f[n]) + 1) /\ DOMAIN f[n] = 1..Len(f[n])
            /\ Len(f[n]) \in Nat
            /\ \A j \in DOMAIN f[n] : t[j] = f[n][j]
            /\ t[Len(f[n]) + 1] = s[n + 1]
        BY <2>1, <2>3, <3>1
      <3>3. \A j \in DOMAIN t : j \in DOMAIN f[n] \/ j = Len(f[n]) + 1
        BY <3>2
      <3>4. MembersOf(t, s, S, n + 1)
        <4>1. ASSUME NEW x, NEW j \in DOMAIN t, t[j] = x
              PROVE  x \in S /\ \E i \in 1..(n + 1) : s[i] = x
          <5>1. CASE j \in DOMAIN f[n]
            <6>1. x \in S /\ \E i \in 1..n : s[i] = x
              BY <2>3, <3>2, <4>1, <5>1 DEF MembersOf
            <6>2. QED
              BY <1>4, <6>1
          <5>2. CASE j = Len(f[n]) + 1
            BY <1>4, <2>4, <3>2, <4>1, <5>2
          <5>3. QED
            BY <3>3, <4>1, <5>1, <5>2
        <4>2. ASSUME NEW x \in S, NEW i \in 1..(n + 1), s[i] = x
              PROVE  \E j \in DOMAIN t : t[j] = x
          <5>1. CASE i \in 1..n
            <6>1. \E j \in DOMAIN f[n] : f[n][j] = x
              BY <2>3, <4>2, <5>1 DEF MembersOf
            <6>2. QED
              BY <3>2, <6>1
          <5>2. CASE i = n + 1
            BY <3>2, <4>2, <5>2
          <5>3. QED
            BY <2>2, <4>2, <5>1, <5>2
        <4>3. QED
          BY <4>1, <4>2 DEF MembersOf
      <3>5. ASSUME Seqs!IsInjective(s) PROVE Seqs!IsInjective(t)
        <4>1. \A i \in DOMAIN f[n] : f[n][i] # s[n + 1]
          <5>1. ASSUME NEW i \in DOMAIN f[n], f[n][i] = s[n + 1] PROVE FALSE
            <6>1. PICK j \in 1..n : s[j] = s[n + 1]
              BY <2>3, <5>1 DEF MembersOf
            <6>2. j \in DOMAIN s /\ n + 1 \in DOMAIN s /\ j # n + 1
              BY <1>2, <1>4, <2>1
            <6>3. QED
              BY <3>5, <6>1, <6>2 DEF Seqs!IsInjective
          <5>2. QED
            BY <5>1
        <4>2. Seqs!IsInjective(f[n])
          BY <1>4, <3>5
        <4>3. QED
          BY <3>2, <3>3, <4>1, <4>2 DEF Seqs!IsInjective
      <3>6. QED
        BY <2>1, <2>4, <3>1, <3>2, <3>4, <3>5
    <2>5. CASE s[n + 1] \notin S
      <3>1. MembersOf(f[n], s, S, n + 1)
        BY <1>4, <2>2, <2>3, <2>5 DEF MembersOf
      <3>2. QED
        BY <1>4, <2>1, <2>5, <3>1
    <2>6. QED
      BY <2>4, <2>5
  <1>5. Len(s) \in N
    <2> HIDE DEF N
    <2>1. 0..Len(s) \subseteq N
      BY <1>2, <1>3, <1>4, CountUp
    <2>2. QED
      BY <1>2, <2>1
  <1>6. \A x : Seqs!Contains(Kept(s, S), x) <=> x \in S /\ Seqs!Contains(s, x)
    BY <1>1, <1>2, <1>5, ContainsIndex DEF MembersOf
  <1>7. QED
    BY <1>1, <1>5, <1>6

-----------------------------------------------------------------------------
(* Connections and descriptors. *)

\* What the constants are.
LEMMA ServerConstants ==
    /\ Connections \subseteq Nat \ {0} /\ IsFiniteSet(Connections) /\ Descriptors \subseteq Nat \ {0}
    /\ listen_fd \notin Connections /\ NoConnection \notin Connections
    /\ NoConnection # listen_fd /\ NoDescriptor # listen_fd
    /\ listen_fd \notin Descriptors /\ NoDescriptor \notin Descriptors
    /\ BufferUnits \in Nat \ {0} /\ MaxEvents \in Nat \ {0}
    /\ MAX_MSGS_PER_SECOND \in Nat /\ Second \in Nat
    /\ Kinds \subseteq {"login", "order", "unknown", "malformed"}
  <1>1. Connections = 1..Len(ClientOf) /\ Len(ClientOf) \in Nat
    BY ServerAssumption
  <1>2. IsFiniteSet(Connections)
    BY <1>1, FS_Interval
  <1>3. QED
    BY <1>1, <1>2, ServerAssumption DEF listen_fd, NoConnection, NoDescriptor

\* The smaller of two numbers.
LEMMA SmallerOf ==
    ASSUME NEW a \in Nat, NEW b \in Nat
    PROVE  /\ FSets!Min({a, b}) \in Nat
           /\ FSets!Min({a, b}) <= a /\ FSets!Min({a, b}) <= b
           /\ FSets!Min({a, b}) = a \/ FSets!Min({a, b}) = b
  <1>1. PICK m : m = CHOOSE x \in {a, b} : \A y \in {a, b} : x =< y
    OBVIOUS
  <1>2. \E x \in {a, b} : \A y \in {a, b} : x =< y
    BY a <= b \/ b <= a
  <1>3. m \in {a, b} /\ \A y \in {a, b} : m =< y
    BY <1>1, <1>2
  <1>4. QED
    BY <1>1, <1>3 DEF FSets!Min

\* A set of numbers that is not empty has a smallest member.
LEMMA SmallestOf ==
    ASSUME NEW S, S \subseteq Nat, S # {}
    PROVE  FSets!Min(S) \in S
  <1> DEFINE N == {n \in Nat : \A m \in 0..n : m \notin S}
  <1>1. SUFFICES \E x \in S : \A y \in S : x =< y
    BY DEF FSets!Min
  <1>2. SUFFICES ASSUME ~\E x \in S : \A y \in S : x =< y PROVE FALSE
    OBVIOUS
  <1>3. PICK s : s \in S
    OBVIOUS
  <1>4. 0 \in N
    <2>1. ASSUME 0 \in S PROVE FALSE
      BY <1>2, <2>1
    <2>2. QED
      BY <2>1
  <1>5. ASSUME NEW n \in 0..(s - 1), n \in N
        PROVE  n + 1 \in N
    <2>1. ASSUME n + 1 \in S PROVE FALSE
      <3>1. \A y \in S : n + 1 =< y
        BY <1>5
      <3>2. QED
        BY <1>2, <2>1, <3>1
    <2>2. \A m \in 0..(n + 1) : m \in 0..n \/ m = n + 1
      BY <1>5
    <2>3. QED
      BY <1>5, <2>1, <2>2
  <1>6. s \in N
    <2> HIDE DEF N
    <2>1. s \in Nat
      BY <1>3
    <2>2. 0..s \subseteq N
      BY <1>4, <1>5, <2>1, CountUp
    <2>3. QED
      BY <2>1, <2>2
  <1>7. QED
    BY <1>3, <1>6

\* There is a descriptor for every connection that waits: those in use are fewer than the
\* connections.
LEMMA FreeDescriptor ==
    ASSUME ServerTypes, SocketInv, backlog # <<>>
    PROVE  LET d == FSets!Min({e \in Descriptors : opened[e] = NoConnection})
           IN  d \in Descriptors /\ opened[d] = NoConnection
  <1> DEFINE F == {e \in Descriptors : opened[e] = NoConnection}
  <1>1. F # {}
    <2>1. SUFFICES ASSUME F = {} PROVE FALSE
      OBVIOUS
    <2>2. PICK k : k = backlog[1]
      OBVIOUS
    <2>3. k \in Connections /\ Waiting(k)
      BY <2>2, ContainsIndex DEF ServerTypes, Waiting
    <2>4. ~Open(k)
      BY <2>3 DEF SocketInv
    <2>5. \A d \in Descriptors : opened[d] \in Connections \ {k}
      BY <2>1, <2>4 DEF ServerTypes, Open
    <2>6. opened \in Injection(Descriptors, Connections \ {k})
      BY <2>1, <2>5 DEF SocketInv, Injection, ServerTypes, IsInjective
    <2>7. IsFiniteSet(Connections \ {k}) /\ Cardinality(Connections \ {k}) = Cardinality(Connections) - 1
      BY <2>3, ServerConstants, FS_RemoveElement
    <2>8. Cardinality(Descriptors) <= Cardinality(Connections \ {k}) /\ IsFiniteSet(Descriptors)
      BY <2>6, <2>7, FS_Injection
    <2>9. Cardinality(Descriptors) \in Nat /\ Cardinality(Connections) \in Nat
      BY <2>8, ServerConstants, FS_CardinalityType
    <2>10. QED
      BY <2>7, <2>8, <2>9, ServerAssumption
  <1>2. F \subseteq Nat
    BY ServerConstants
  <1>3. FSets!Min(F) \in F
    <2> HIDE DEF F
    <2>1. QED
      BY <1>1, <1>2, SmallestOf
  <1>4. QED
    BY <1>3

\* An item with an edge is in the ready list, once.
LEMMA EdgeListed ==
    ASSUME ServerTypes, SocketInv, NEW item \in Items, Edge(item)
    PROVE  /\ ready' \in Seq(Items) /\ Seqs!IsInjective(ready')
           /\ \A x : Listed(x)' <=> Listed(x) \/ x = item
           /\ neglected' = neglected \ {item}
  <1>1. ready \in Seq(Items) /\ Seqs!IsInjective(ready) /\ neglected' = neglected \ {item}
    BY DEF ServerTypes, SocketInv, Edge
  <1>2. CASE Listed(item)
    <2>1. ready' = ready
      BY <1>2 DEF Edge, Listed
    <2>2. QED
      BY <1>1, <1>2, <2>1 DEF Listed
  <1>3. CASE ~Listed(item)
    <2>1. ready' = Append(ready, item)
      BY <1>3 DEF Edge, Listed
    <2>2. QED
      BY <1>1, <1>3, <2>1, Appended DEF Listed
  <1>4. QED
    BY <1>2, <1>3

\* One event less.
LEMMA EventDone ==
    ASSUME ServerTypes, BatchInv, events # <<>>, events' = Tail(events)
    PROVE  /\ events' \in Seq(Reported) /\ Len(events') <= MaxEvents
           /\ events[1] \in Reported /\ Event = events[1] /\ Reporting(Event.fd)
           /\ \A i, j \in DOMAIN events' : events'[i].fd = events'[j].fd => i = j
           /\ \A d : Reporting(d)' <=> Reporting(d) /\ d # Event.fd
  <1>1. events \in Seq(Reported) /\ Len(events) <= MaxEvents /\ MaxEvents \in Nat
    BY ServerConstants DEF ServerTypes
  <1>2. /\ events' \in Seq(Reported) /\ Len(events') = Len(events) - 1 /\ Len(events) \in Nat
        /\ Len(events) > 0 /\ Event = events[1] /\ events[1] \in Reported
        /\ DOMAIN events = 1..Len(events) /\ DOMAIN events' = 1..(Len(events) - 1) /\ 1 \in DOMAIN events
    BY <1>1 DEF Event
  <1>3. \A i \in DOMAIN events' : events'[i] = events[i + 1] /\ i + 1 \in DOMAIN events
    BY <1>1, <1>2, HeadTailProperties
  <1>4. \A i \in DOMAIN events : i # 1 => i - 1 \in DOMAIN events' /\ (i - 1) + 1 = i
    BY <1>2
  <1>5. ASSUME NEW i \in DOMAIN events', NEW j \in DOMAIN events', events'[i].fd = events'[j].fd
        PROVE  i = j
    <2>1. i + 1 = j + 1
      BY <1>3, <1>5 DEF BatchInv
    <2>2. QED
      BY <1>2, <2>1
  <1>6. ASSUME NEW d, Reporting(d)'
        PROVE  Reporting(d) /\ d # Event.fd
    <2>1. PICK i \in DOMAIN events' : events'[i].fd = d
      BY <1>6 DEF Reporting
    <2>2. events[i + 1].fd = d /\ i + 1 \in DOMAIN events /\ i + 1 # 1
      BY <1>2, <1>3, <2>1
    <2>3. QED
      BY <1>2, <2>2 DEF Reporting, BatchInv
  <1>7. ASSUME NEW d, Reporting(d), d # Event.fd
        PROVE  Reporting(d)'
    <2>1. PICK i \in DOMAIN events : events[i].fd = d
      BY <1>7 DEF Reporting
    <2>2. i - 1 \in DOMAIN events' /\ events'[i - 1] = events[i]
      BY <1>2, <1>3, <1>4, <1>7, <2>1
    <2>3. QED
      BY <2>1, <2>2 DEF Reporting
  <1>8. Reporting(Event.fd)
    BY <1>2 DEF Reporting
  <1>9. QED
    BY <1>1, <1>2, <1>5, <1>6, <1>7, <1>8

\* Every other connection stays as it is.
Untouched(k) ==
    /\ recv'[k] = recv[k] /\ (k \in over' <=> k \in over) /\ (Listed(k)' <=> Listed(k))

\* close() of these descriptors.
LEMMA CloseKeeps ==
    ASSUME ServerTypes, SocketInv, NEW D \in SUBSET Descriptors, Close(D), UNCHANGED backlog
    PROVE  /\ opened' \in [Descriptors -> Connections \cup {NoConnection}]
           /\ over' \subseteq Connections /\ over \subseteq over'
           /\ ready' \in Seq(Items) /\ recv' \in [Connections -> Seq(Sent)]
           /\ SocketInv'
           /\ \A d \in Descriptors : opened'[d] = IF d \in D THEN NoConnection ELSE opened[d]
           /\ \A d \in Descriptors : opened'[d] # NoConnection => Untouched(opened[d])
           /\ \A k \in Connections : Waiting(k) => Untouched(k)
           /\ \A k \in Connections : ~Open(k)' /\ Open(k) => k \in over' /\ recv'[k] = <<>>
           /\ \A k \in Connections : ~Open(k) => Untouched(k)
           /\ Listed(listen_fd)' <=> Listed(listen_fd)
  <1>1. PICK gone : gone = {opened[d] : d \in D} \ {NoConnection}
    OBVIOUS
  <1>2. /\ opened' = [d \in Descriptors |-> IF d \in D THEN NoConnection ELSE opened[d]]
        /\ over' = over \cup gone
        /\ ready' = Kept(ready, Items \ gone)
        /\ recv' = [k \in Connections |-> IF k \in gone THEN <<>> ELSE recv[k]]
    BY <1>1 DEF Close
  <1>3. gone \subseteq Connections
    BY <1>1 DEF ServerTypes
  <1>4. /\ opened' \in [Descriptors -> Connections \cup {NoConnection}]
        /\ over' \subseteq Connections /\ over \subseteq over' /\ recv' \in [Connections -> Seq(Sent)]
        /\ \A d \in Descriptors : opened'[d] = IF d \in D THEN NoConnection ELSE opened[d]
    BY <1>2, <1>3 DEF ServerTypes
  <1>5. /\ ready' \in Seq(Items) /\ Seqs!IsInjective(ready')
        /\ \A x : Listed(x)' <=> x \in Items \ gone /\ Listed(x)
    BY <1>2, KeptMembers DEF ServerTypes, SocketInv, Listed
  <1>6. \A k \in Connections : k \in gone <=> Open(k) /\ ~Open(k)'
    <2>1. ASSUME NEW k \in Connections, k \in gone PROVE Open(k) /\ ~Open(k)'
      <3>1. PICK d \in D : opened[d] = k
        BY <1>1, <2>1
      <3>2. Open(k) /\ k # NoConnection
        BY <3>1, ServerConstants DEF Open
      <3>3. \A e \in Descriptors : opened[e] = k => e = d
        BY <3>1, <3>2 DEF SocketInv
      <3>4. ~Open(k)'
        BY <1>4, <3>1, <3>2, <3>3 DEF Open
      <3>5. QED
        BY <3>2, <3>4
    <2>2. ASSUME NEW k \in Connections, k \notin gone, Open(k) PROVE Open(k)'
      <3>1. PICK d \in Descriptors : opened[d] = k
        BY <2>2 DEF Open
      <3>2. d \notin D
        BY <1>1, <2>2, <3>1, ServerConstants
      <3>3. QED
        BY <1>4, <3>1, <3>2 DEF Open
    <2>3. QED
      BY <2>1, <2>2
  <1>7. \A k \in Connections : k \notin gone => Untouched(k)
    BY <1>2, <1>5 DEF Untouched, Items
  <1>8. \A k \in Connections : Open(k)' => Open(k)
    BY <1>4, ServerConstants DEF Open
  <1>9. SocketInv'
    <2>1. \A d, e \in Descriptors : opened'[d] = opened'[e] => d = e \/ opened'[d] = NoConnection
      BY <1>4 DEF SocketInv
    <2>2. \A k \in Connections : ~(Waiting(k)' /\ Open(k)')
      BY <1>8 DEF SocketInv, Waiting
    <2>3. \A k \in Connections : Listed(k)' => Open(k)'
      BY <1>5, <1>6 DEF SocketInv
    <2>4. Seqs!IsInjective(backlog')
      BY DEF SocketInv
    <2>5. QED
      BY <1>5, <2>1, <2>2, <2>3, <2>4 DEF SocketInv
  <1>10. \A d \in Descriptors : opened'[d] # NoConnection => Untouched(opened[d])
    <2>1. ASSUME NEW d \in Descriptors, opened'[d] # NoConnection PROVE opened[d] \in Connections \ gone
      <3>1. opened'[d] = opened[d] /\ opened[d] \in Connections
        BY <1>4, <2>1 DEF ServerTypes
      <3>2. Open(opened[d])'
        BY <3>1 DEF Open
      <3>3. QED
        BY <1>6, <3>1, <3>2
    <2>2. QED
      BY <1>7, <2>1
  <1>11. Listed(listen_fd)' <=> Listed(listen_fd)
    BY <1>3, <1>5, ServerConstants DEF Items
  <1>12. \A k \in Connections : ~Open(k)' /\ Open(k) => k \in over' /\ recv'[k] = <<>>
    BY <1>2, <1>6
  <1>13. \A k \in Connections : Waiting(k) \/ ~Open(k) => Untouched(k)
    BY <1>6, <1>7 DEF SocketInv
  <1>14. QED
    BY <1>4, <1>5, <1>9, <1>10, <1>11, <1>12, <1>13

-----------------------------------------------------------------------------
(* No edge is lost: what clients do. *)

\* What a client sends next.
LEMMA FollowingSent ==
    ASSUME NEW u \in Sent, NEW v \in Following(u)
    PROVE  v \in Sent /\ Follows(u, v) /\ (u.at <= Length(u.kind) => v.at <= Length(v.kind))
  <1>1. /\ u.kind \in {"login", "order", "unknown", "malformed"} /\ u.at \in 1..3 /\ u.num \in Nat
        /\ u.conn \in Connections
    BY DEF Sent
  <1>2. CASE u.at < Length(u.kind)
    <2>1. v = [u EXCEPT !.at = @ + 1]
      BY <1>2 DEF Following
    <2>2. u.at + 1 \in 1..3 /\ u.at + 1 <= Length(u.kind)
      BY <1>1, <1>2 DEF Length
    <2>3. v.conn = u.conn /\ v.num = u.num /\ v.kind = u.kind /\ v.at = u.at + 1 /\ v \in Sent
      BY <2>1, <2>2 DEF Sent
    <2>4. QED
      BY <1>2, <2>2, <2>3 DEF Follows
  <1>3. CASE ~(u.at < Length(u.kind))
    <2>1. PICK kind \in Kinds : v = Unit(u.conn, u.num + 1, kind, 1)
      BY <1>3 DEF Following
    <2>2. kind \in {"login", "order", "unknown", "malformed"}
      BY ServerConstants
    <2>3. QED
      BY <1>1, <1>3, <2>1, <2>2 DEF Unit, Sent, Follows, Length
  <1>4. QED
    BY <1>2, <1>3

\* connect(): an edge of the listening socket.
LEMMA ConnectKeepsEdges ==
    ASSUME EdgeInv, NEW k \in Connections, Connect(k)
    PROVE  EdgeInv'
  <1>1. ServerTypes /\ SocketInv /\ BatchInv /\ EdgesKept
    BY DEF EdgeInv
  <1>2. /\ backlog' = Append(backlog, k) /\ ~Waiting(k) /\ ~Open(k) /\ Edge(listen_fd)
        /\ UNCHANGED <<sent, over, recv, opened, events, reading, sock_to_partial_messages,
                       sock_to_msg_timestamps, session, now, handled, limited>>
    BY DEF Connect, peers, parser
  <1>3. /\ ready' \in Seq(Items) /\ Seqs!IsInjective(ready')
        /\ \A x : Listed(x)' <=> Listed(x) \/ x = listen_fd
        /\ neglected' = neglected \ {listen_fd}
    <2>1. listen_fd \in Items
      BY DEF Items
    <2>2. QED
      BY <1>1, <1>2, <2>1, EdgeListed
  <1>4. /\ backlog' \in Seq(Connections) /\ backlog' # <<>> /\ Seqs!IsInjective(backlog')
        /\ \A x : Waiting(x)' <=> Waiting(x) \/ x = k
    BY <1>1, <1>2, Appended DEF ServerTypes, SocketInv, Waiting
  <1>5. ServerTypes'
    BY <1>1, <1>2, <1>3, <1>4 DEF ServerTypes
  <1>6. \A x : Open(x)' <=> Open(x)
    BY <1>2 DEF Open
  <1>7. SocketInv'
    BY <1>1, <1>2, <1>3, <1>4, <1>6, ServerConstants DEF SocketInv
  <1>8. \A d : Reporting(d)' <=> Reporting(d)
    BY <1>2 DEF Reporting
  <1>9. BatchInv'
    BY <1>1, <1>2, <1>4, <1>8 DEF BatchInv
  <1>10. EdgesKept'
    BY <1>1, <1>2, <1>3, <1>8, ServerConstants DEF EdgesKept, ServerTypes
  <1>11. QED
    BY <1>5, <1>7, <1>9, <1>10 DEF EdgeInv

\* A client sends or hangs up: an edge of its connection, if it is open.
LEMMA ClientKeepsEdges ==
    ASSUME EdgeInv, NEW k \in Connections, EdgeIfOpen(k), ServerTypes',
           \A j \in Connections \ {k} : recv'[j] = recv[j] /\ (j \in over' <=> j \in over),
           UNCHANGED <<backlog, opened, events, reading>>
    PROVE  EdgeInv'
  <1>1. ServerTypes /\ SocketInv /\ BatchInv /\ EdgesKept
    BY DEF EdgeInv
  <1>2. k \in Items /\ k # listen_fd
    BY ServerConstants DEF Items
  <1>3. /\ Seqs!IsInjective(ready')
        /\ \A x : Listed(x)' <=> Listed(x) \/ (x = k /\ Open(k))
        /\ \A x : x \notin neglected' <=> x \notin neglected \/ (x = k /\ Open(k))
    <2>1. CASE Open(k)
      <3>1. Edge(k)
        BY <2>1 DEF EdgeIfOpen
      <3>2. QED
        BY <1>1, <1>2, <2>1, <3>1, EdgeListed
    <2>2. CASE ~Open(k)
      <3>1. UNCHANGED <<ready, neglected>>
        BY <2>2 DEF EdgeIfOpen
      <3>2. QED
        BY <1>1, <2>2, <3>1 DEF Listed, SocketInv
    <2>3. QED
      BY <2>1, <2>2
  <1>4. \A x : (Open(x)' <=> Open(x)) /\ (Waiting(x)' <=> Waiting(x))
    BY DEF Open, Waiting
  <1>5. SocketInv'
    BY <1>1, <1>3, <1>4 DEF SocketInv
  <1>6. \A d : Reporting(d)' <=> Reporting(d)
    BY DEF Reporting
  <1>7. BatchInv'
    BY <1>1, <1>6 DEF BatchInv
  <1>8. EdgesKept'
    <2>1. ASSUME NEW d \in Descriptors, opened'[d] # NoConnection, opened'[d] \notin neglected',
                 recv'[opened'[d]] # <<>> \/ opened'[d] \in over'
          PROVE  Listed(opened[d])' \/ d = reading' \/ Reporting(d)'
      <3>1. opened[d] \in Connections /\ Open(opened[d])
        BY <1>1, <2>1 DEF ServerTypes, Open
      <3>2. CASE opened[d] = k
        BY <1>3, <3>1, <3>2
      <3>3. CASE opened[d] # k
        <4>1. opened[d] \notin neglected /\ (recv[opened[d]] # <<>> \/ opened[d] \in over)
          BY <1>3, <2>1, <3>1, <3>3
        <4>2. Listed(opened[d]) \/ d = reading \/ Reporting(d)
          BY <1>1, <2>1, <4>1 DEF EdgesKept
        <4>3. QED
          BY <1>3, <1>6, <4>2
      <3>4. QED
        BY <3>2, <3>3
    <2>2. backlog' # <<>> /\ listen_fd \notin neglected' => Listed(listen_fd)' \/ Reporting(listen_fd)'
      BY <1>1, <1>2, <1>3, <1>6 DEF EdgesKept
    <2>3. QED
      BY <2>1, <2>2 DEF EdgesKept, Listed
  <1>9. QED
    BY <1>5, <1>7, <1>8 DEF EdgeInv

LEMMA SendKeepsEdges ==
    ASSUME EdgeInv, NEW k \in Connections, Send(k)
    PROVE  EdgeInv'
  <1>1. ServerTypes /\ SocketInv
    BY DEF EdgeInv
  <1>2. PICK u \in Following(sent[k]) :
            /\ sent' = [sent EXCEPT ![k] = u] /\ recv' = [recv EXCEPT ![k] = Append(@, u)]
    BY DEF Send
  <1>3. /\ EdgeIfOpen(k)
        /\ UNCHANGED <<over, backlog, opened, events, reading, sock_to_partial_messages,
                       sock_to_msg_timestamps, session, now, handled, limited>>
    BY DEF Send, parser
  <1>4. u \in Sent
    BY <1>1, <1>2, FollowingSent DEF ServerTypes
  <1>5. sent' \in [Connections -> Sent] /\ recv' \in [Connections -> Seq(Sent)]
    BY <1>1, <1>2, <1>4 DEF ServerTypes
  <1>6. ready' \in Seq(Items) /\ neglected' \subseteq Items
    BY <1>1, <1>3, EdgeListed DEF EdgeIfOpen, ServerTypes, Items
  <1>7. ServerTypes'
    BY <1>1, <1>3, <1>5, <1>6 DEF ServerTypes
  <1>8. \A j \in Connections \ {k} : recv'[j] = recv[j] /\ (j \in over' <=> j \in over)
    BY <1>1, <1>2, <1>3 DEF ServerTypes
  <1>9. QED
    BY <1>3, <1>7, <1>8, ClientKeepsEdges

LEMMA HangUpKeepsEdges ==
    ASSUME EdgeInv, NEW k \in Connections, HangUp(k)
    PROVE  EdgeInv'
  <1>1. ServerTypes /\ SocketInv
    BY DEF EdgeInv
  <1>2. /\ over' = over \cup {k} /\ EdgeIfOpen(k)
        /\ UNCHANGED <<sent, recv, backlog, opened, events, reading, sock_to_partial_messages,
                       sock_to_msg_timestamps, session, now, handled, limited>>
    BY DEF HangUp, parser
  <1>3. ready' \in Seq(Items) /\ neglected' \subseteq Items
    BY <1>1, <1>2, EdgeListed DEF EdgeIfOpen, ServerTypes, Items
  <1>4. ServerTypes'
    BY <1>1, <1>2, <1>3 DEF ServerTypes
  <1>5. \A j \in Connections \ {k} : recv'[j] = recv[j] /\ (j \in over' <=> j \in over)
    BY <1>2
  <1>6. QED
    BY <1>2, <1>4, <1>5, ClientKeepsEdges

\* Nothing that the edges are about changes.
LEMMA EdgesUnchanged ==
    ASSUME EdgeInv, ServerTypes', UNCHANGED <<over, recv, backlog, opened, ready, events, reading, neglected>>
    PROVE  EdgeInv'
  <1>1. SocketInv'
    BY DEF EdgeInv, SocketInv, Waiting, Open, Listed
  <1>2. BatchInv'
    BY DEF EdgeInv, BatchInv, Reporting
  <1>3. EdgesKept'
    BY DEF EdgeInv, EdgesKept, Reporting, Listed
  <1>4. QED
    BY <1>1, <1>2, <1>3 DEF EdgeInv

LEMMA TickKeepsEdges ==
    ASSUME EdgeInv, Tick
    PROVE  EdgeInv'
  <1>1. /\ now' = now + 1
        /\ UNCHANGED <<sent, over, recv, backlog, opened, ready, events, reading, sock_to_partial_messages,
                       sock_to_msg_timestamps, session, handled, limited, neglected>>
    BY DEF Tick, peers, kernel, parser
  <1>2. ServerTypes
    BY DEF EdgeInv
  <1>3. now' \in Nat
    BY <1>1, <1>2 DEF ServerTypes
  <1>4. ServerTypes'
    BY <1>1, <1>2, <1>3 DEF ServerTypes
  <1>5. QED
    BY <1>1, <1>4, EdgesUnchanged

-----------------------------------------------------------------------------
(* No edge is lost: close(). *)

\* The events and the read that are given up are those of what is closed, or are noted as
\* neglected.
LEMMA CloseKeepsEdges ==
    ASSUME EdgeInv, ServerTypes', BatchInv', NEW D \in SUBSET Descriptors, Close(D), UNCHANGED backlog,
           neglected \subseteq neglected',
           Reporting(listen_fd) /\ listen_fd \notin neglected' => Reporting(listen_fd)',
           \A d \in Descriptors \ D :
              /\ opened[d] # NoConnection /\ opened[d] \notin neglected' /\ Reporting(d) => Reporting(d)'
              /\ d = reading => d = reading'
    PROVE  EdgeInv'
  <1>1. ServerTypes /\ SocketInv /\ BatchInv /\ EdgesKept
    BY DEF EdgeInv
  <1>2. /\ SocketInv'
        /\ \A d \in Descriptors : opened'[d] = IF d \in D THEN NoConnection ELSE opened[d]
        /\ \A d \in Descriptors : opened'[d] # NoConnection => Untouched(opened[d])
        /\ Listed(listen_fd)' <=> Listed(listen_fd)
    BY <1>1, CloseKeeps
  <1>3. ASSUME NEW d \in Descriptors, opened'[d] # NoConnection, opened'[d] \notin neglected',
               recv'[opened'[d]] # <<>> \/ opened'[d] \in over'
        PROVE  Listed(opened[d])' \/ d = reading' \/ Reporting(d)'
    <2>1. d \notin D /\ opened'[d] = opened[d]
      BY <1>2, <1>3
    <2>2. PICK k : k = opened[d]
      OBVIOUS
    <2>3. k # NoConnection /\ k \notin neglected /\ (recv[k] # <<>> \/ k \in over) /\ (Listed(k)' <=> Listed(k))
      BY <1>2, <1>3, <2>1, <2>2 DEF Untouched
    <2>4. Listed(k) \/ d = reading \/ Reporting(d)
      BY <1>1, <2>2, <2>3 DEF EdgesKept
    <2>5. Listed(k)' \/ d = reading' \/ Reporting(d)'
      BY <1>3, <2>1, <2>2, <2>3, <2>4
    <2>6. QED
      BY <2>1, <2>2, <2>5 DEF Listed
  <1>4. backlog' # <<>> /\ listen_fd \notin neglected' => Listed(listen_fd)' \/ Reporting(listen_fd)'
    BY <1>1, <1>2 DEF EdgesKept
  <1>5. EdgesKept'
    BY <1>3, <1>4 DEF EdgesKept, Listed
  <1>6. QED
    BY <1>2, <1>5 DEF EdgeInv

LEMMA WriteFailsKeepsEdges ==
    ASSUME EdgeInv, NEW d \in Descriptors, WriteFails(d)
    PROVE  EdgeInv'
  <1>1. ServerTypes /\ SocketInv /\ BatchInv /\ {d} \in SUBSET Descriptors
    BY DEF EdgeInv
  <1>2. /\ Close({d}) /\ session' = [session EXCEPT ![d] = NoConnection]
        /\ UNCHANGED <<sent, backlog, events, reading, sock_to_partial_messages, sock_to_msg_timestamps,
                       now, handled, limited, neglected>>
    BY DEF WriteFails, parser
  <1>3. /\ opened' \in [Descriptors -> Connections \cup {NoConnection}] /\ over' \subseteq Connections
        /\ ready' \in Seq(Items) /\ recv' \in [Connections -> Seq(Sent)]
    BY <1>1, <1>2, CloseKeeps
  <1>4. ServerTypes'
    BY <1>1, <1>2, <1>3 DEF ServerTypes
  <1>5. \A e : Reporting(e)' <=> Reporting(e)
    BY <1>2 DEF Reporting
  <1>6. BatchInv'
    BY <1>1, <1>2, <1>5 DEF BatchInv
  <1>7. QED
    BY <1>1, <1>2, <1>4, <1>5, <1>6, CloseKeepsEdges

-----------------------------------------------------------------------------
(* No edge is lost: the batch. *)

\* The descriptor of an open connection.
LEMMA DescriptorIs ==
    ASSUME ServerTypes, SocketInv, NEW k \in Connections, Open(k)
    PROVE  /\ DescriptorOf(k) \in Descriptors /\ opened[DescriptorOf(k)] = k
           /\ \A d \in Descriptors : opened[d] = k => DescriptorOf(k) = d
  <1>1. k # listen_fd /\ k # NoConnection
    BY ServerConstants
  <1>2. DescriptorOf(k) \in Descriptors /\ opened[DescriptorOf(k)] = k
    BY <1>1 DEF DescriptorOf, Open
  <1>3. QED
    BY <1>1, <1>2 DEF SocketInv

LEMMA EpollWaitKeepsEdges ==
    ASSUME EdgeInv, EpollWait
    PROVE  EdgeInv'
  <1>1. ServerTypes /\ SocketInv /\ BatchInv /\ EdgesKept
    BY DEF EdgeInv
  <1>2. PICK P : P = Kept(ready, {item \in Items : Pending(item)})
    OBVIOUS
  <1>3. PICK n : n = FSets!Min({MaxEvents, Len(P)})
    OBVIOUS
  <1>4. /\ events = <<>> /\ reading = NoDescriptor /\ P # <<>>
        /\ events' = [i \in 1..n |-> EventOf(P[i])] /\ ready' = SubSeq(P, n + 1, Len(P))
        /\ UNCHANGED <<sent, over, recv, backlog, opened, reading, sock_to_partial_messages,
                       sock_to_msg_timestamps, session, now, handled, limited, neglected>>
    BY <1>2, <1>3 DEF EpollWait, peers, parser
  <1>5. /\ P \in Seq(Items) /\ Seqs!IsInjective(P)
        /\ \A x : Seqs!Contains(P, x) <=> x \in Items /\ Pending(x) /\ Listed(x)
    BY <1>1, <1>2, KeptMembers DEF ServerTypes, SocketInv, Listed
  <1>6. Len(P) \in Nat /\ Len(P) > 0 /\ DOMAIN P = 1..Len(P)
    BY <1>4, <1>5
  <1>7. n \in 1..Len(P) /\ n <= MaxEvents /\ n \in Nat
    BY <1>3, <1>6, SmallerOf, ServerConstants
  <1>8. \A i \in 1..Len(P) : P[i] \in Items /\ Pending(P[i]) /\ Listed(P[i])
    BY <1>5, <1>6, ContainsIndex
  <1>9. \A i \in 1..Len(P) : IF P[i] = listen_fd THEN DescriptorOf(P[i]) = listen_fd /\ backlog # <<>>
                             ELSE DescriptorOf(P[i]) \in Descriptors /\ opened[DescriptorOf(P[i])] = P[i]
    <2>1. ASSUME NEW i \in 1..Len(P), P[i] # listen_fd
          PROVE  DescriptorOf(P[i]) \in Descriptors /\ opened[DescriptorOf(P[i])] = P[i]
      <3>1. P[i] \in Connections /\ Open(P[i])
        BY <1>8, <2>1 DEF Items, Pending
      <3>2. QED
        BY <1>1, <3>1, DescriptorIs
    <2>2. ASSUME NEW i \in 1..Len(P), P[i] = listen_fd
          PROVE  DescriptorOf(P[i]) = listen_fd /\ backlog # <<>>
      <3>1. Pending(listen_fd)
        BY <1>8, <2>2
      <3>2. QED
        BY <2>2, <3>1 DEF DescriptorOf, Pending
    <2>3. QED
      BY <2>1, <2>2
  <1>10. \A i \in 1..n : events'[i] = EventOf(P[i]) /\ i \in 1..Len(P)
    BY <1>4, <1>6, <1>7
  <1>11. \A i \in 1..n : events'[i].fd = DescriptorOf(P[i]) /\ events'[i] \in Reported
    <2>1. ASSUME NEW i \in 1..n PROVE EventOf(P[i]) \in Reported /\ EventOf(P[i]).fd = DescriptorOf(P[i])
      <3>1. DescriptorOf(P[i]) \in Descriptors \cup {listen_fd}
        BY <1>9, <1>10
      <3>2. (P[i] \in over) \in BOOLEAN
        OBVIOUS
      <3>3. QED
        BY <3>1, <3>2 DEF EventOf, Reported
    <2>2. QED
      BY <1>10, <2>1
  <1>12. events' \in Seq(Reported) /\ Len(events') = n /\ DOMAIN events' = 1..n
    <2>1. events' \in [1..n -> Reported]
      BY <1>4, <1>11
    <2>2. QED
      BY <1>7, <2>1
  <1>13. /\ ready' \in Seq(Items) /\ Len(ready') = Len(P) - n
         /\ \A j \in 1..(Len(P) - n) : ready'[j] = P[n + j] /\ n + j \in 1..Len(P)
    <2>1. n \in 0..Len(P)
      BY <1>6, <1>7
    <2>2. QED
      BY <1>4, <1>5, <2>1, CutAt
  <1>14. DOMAIN ready' = 1..(Len(P) - n)
    BY <1>13
  <1>15. \A x : Listed(x)' <=> \E j \in 1..Len(P) : j > n /\ P[j] = x
    <2>1. ASSUME NEW x, Listed(x)' PROVE \E j \in 1..Len(P) : j > n /\ P[j] = x
      <3>1. PICK j \in DOMAIN ready' : ready'[j] = x
        BY <2>1, ContainsIndex DEF Listed
      <3>2. n + j \in 1..Len(P) /\ P[n + j] = x /\ n + j > n
        BY <1>7, <1>13, <1>14, <3>1
      <3>3. QED
        BY <3>2
    <2>2. ASSUME NEW x, NEW j \in 1..Len(P), j > n, P[j] = x PROVE Listed(x)'
      <3>1. j - n \in 1..(Len(P) - n) /\ n + (j - n) = j
        BY <1>6, <1>7, <2>2
      <3>2. ready'[j - n] = x
        BY <1>13, <2>2, <3>1
      <3>3. QED
        BY <1>14, <3>1, <3>2, ContainsIndex DEF Listed
    <2>3. QED
      BY <2>1, <2>2
  <1>16. ServerTypes'
    BY <1>1, <1>4, <1>7, <1>12, <1>13 DEF ServerTypes
  <1>17. SocketInv'
    <2>1. Seqs!IsInjective(ready')
      <3>1. ASSUME NEW i \in DOMAIN ready', NEW j \in DOMAIN ready', ready'[i] = ready'[j] PROVE i = j
        <4>1. n + i = n + j
          BY <1>5, <1>6, <1>13, <1>14, <3>1 DEF Seqs!IsInjective
        <4>2. QED
          BY <1>7, <1>14, <3>1, <4>1
      <3>2. QED
        BY <3>1 DEF Seqs!IsInjective
    <2>2. \A x : (Open(x)' <=> Open(x)) /\ (Waiting(x)' <=> Waiting(x)) /\ (Listed(x)' => Listed(x))
      BY <1>4, <1>8, <1>15 DEF Open, Waiting
    <2>3. QED
      BY <1>1, <1>4, <2>1, <2>2 DEF SocketInv
  <1>18. BatchInv'
    <2>1. ASSUME NEW i \in DOMAIN events', NEW j \in DOMAIN events', events'[i].fd = events'[j].fd
          PROVE  i = j
      <3>1. i \in 1..Len(P) /\ j \in 1..Len(P) /\ DescriptorOf(P[i]) = DescriptorOf(P[j])
        BY <1>10, <1>11, <1>12, <2>1
      <3>2. P[i] = P[j]
        BY <1>9, <3>1, ServerConstants
      <3>3. QED
        BY <1>5, <1>6, <3>1, <3>2 DEF Seqs!IsInjective
    <2>2. ASSUME Reporting(listen_fd)' PROVE backlog # <<>>
      <3>1. PICK i \in 1..n : DescriptorOf(P[i]) = listen_fd
        BY <1>11, <1>12, <2>2 DEF Reporting
      <3>2. QED
        BY <1>9, <1>10, <3>1, ServerConstants
    <2>3. QED
      BY <1>4, <2>1, <2>2 DEF BatchInv
  <1>19. \A d : ~Reporting(d)
    BY <1>4 DEF Reporting
  <1>20. ASSUME NEW item \in Items, Pending(item), Listed(item)
         PROVE  Listed(item)' \/ Reporting(DescriptorOf(item))'
    <2>1. PICK j \in 1..Len(P) : P[j] = item
      BY <1>5, <1>6, <1>20, ContainsIndex
    <2>2. CASE j > n
      BY <1>15, <2>1, <2>2
    <2>3. CASE ~(j > n)
      <3>1. j \in 1..n
        BY <1>6, <1>7, <2>1, <2>3
      <3>2. events'[j].fd = DescriptorOf(item) /\ j \in DOMAIN events'
        BY <1>11, <1>12, <2>1, <3>1
      <3>3. PICK d : d = DescriptorOf(item)
        OBVIOUS
      <3>4. Reporting(d)'
        BY <3>2, <3>3 DEF Reporting
      <3>5. DescriptorOf(item)' = DescriptorOf(item)
        BY <1>4 DEF DescriptorOf
      <3>6. QED
        BY <3>3, <3>4, <3>5 DEF Reporting
    <2>4. QED
      BY <2>2, <2>3
  <1>21. EdgesKept'
    <2>1. backlog' # <<>> /\ listen_fd \notin neglected' => Listed(listen_fd)' \/ Reporting(listen_fd)'
      <3>1. SUFFICES ASSUME backlog # <<>>, listen_fd \notin neglected
                     PROVE  Listed(listen_fd)' \/ Reporting(listen_fd)'
        BY <1>4
      <3>2. Listed(listen_fd) /\ Pending(listen_fd) /\ listen_fd \in Items
        BY <1>1, <1>19, <3>1 DEF EdgesKept, Pending, Items
      <3>3. QED
        BY <1>20, <3>2 DEF DescriptorOf
    <2>2. ASSUME NEW d \in Descriptors, opened'[d] # NoConnection, opened'[d] \notin neglected',
                 recv'[opened'[d]] # <<>> \/ opened'[d] \in over'
          PROVE  Listed(opened[d])' \/ d = reading' \/ Reporting(d)'
      <3>1. PICK k : k = opened[d]
        OBVIOUS
      <3>2. k \in Connections /\ k # listen_fd /\ Open(k) /\ k \in Items /\ Pending(k) /\ d # reading /\ k = opened'[d]
        BY <1>1, <1>4, <2>2, <3>1, ServerConstants DEF ServerTypes, Open, Items, Pending
      <3>3. Listed(k)
        BY <1>1, <1>4, <1>19, <2>2, <3>1, <3>2 DEF EdgesKept
      <3>4. DescriptorOf(k) = d
        BY <1>1, <3>1, <3>2, DescriptorIs
      <3>5. DescriptorOf(k)' = DescriptorOf(k)
        BY <1>4 DEF DescriptorOf
      <3>6. Listed(k)' \/ Reporting(d)'
        BY <1>20, <3>2, <3>3, <3>4, <3>5 DEF Reporting
      <3>7. QED
        BY <3>2, <3>6 DEF Listed
    <2>3. QED
      BY <2>1, <2>2 DEF EdgesKept, Listed
  <1>22. QED
    BY <1>16, <1>17, <1>18, <1>21 DEF EdgeInv

LEMMA AcceptKeepsEdges ==
    ASSUME EdgeInv, Accept
    PROVE  EdgeInv'
  <1>1. ServerTypes /\ SocketInv /\ BatchInv /\ EdgesKept
    BY DEF EdgeInv
  <1>2. PICK k : k = Head(backlog)
    OBVIOUS
  <1>3. PICK d : d = FSets!Min({e \in Descriptors : opened[e] = NoConnection})
    OBVIOUS
  <1>4. PICK waits \in BOOLEAN : waits <=> recv[k] # <<>> \/ k \in over
    OBVIOUS
  <1>5. /\ events # <<>> /\ Event.fd = listen_fd /\ backlog' = Tail(backlog) /\ events' = Tail(events)
        /\ opened' = [opened EXCEPT ![d] = k] /\ NewSocket(d)
        /\ ready' = IF waits THEN Append(ready, k) ELSE ready
        /\ neglected' = IF Len(backlog) > 1 /\ ~Listed(listen_fd) THEN neglected \cup {listen_fd} ELSE neglected
        /\ UNCHANGED <<sent, over, recv, reading, session, now, handled, limited>>
    BY <1>2, <1>3, <1>4 DEF Accept, Handling, peers, Listed
  <1>6. /\ events' \in Seq(Reported) /\ Len(events') <= MaxEvents /\ Reporting(listen_fd)
        /\ \A i, j \in DOMAIN events' : events'[i].fd = events'[j].fd => i = j
        /\ \A e : Reporting(e)' <=> Reporting(e) /\ e # listen_fd
    BY <1>1, <1>5, EventDone
  <1>7. backlog # <<>>
    BY <1>1, <1>6 DEF BatchInv
  <1>8. d \in Descriptors /\ opened[d] = NoConnection
    BY <1>1, <1>3, <1>7, FreeDescriptor
  <1>9. /\ k \in Connections /\ Waiting(k) /\ backlog' \in Seq(Connections) /\ Seqs!IsInjective(backlog')
        /\ \A x : Waiting(x)' <=> Waiting(x) /\ x # k
        /\ backlog' # <<>> => Len(backlog) > 1
    BY <1>1, <1>2, <1>5, <1>7, HeadGone DEF ServerTypes, SocketInv, Waiting
  <1>10. ~Open(k) /\ ~Listed(k) /\ k # NoConnection /\ k # listen_fd /\ k \in Items
    BY <1>1, <1>9, ServerConstants DEF SocketInv, Items
  <1>11. /\ ready' \in Seq(Items) /\ Seqs!IsInjective(ready')
         /\ \A x : Listed(x)' <=> Listed(x) \/ (x = k /\ waits)
    <2>1. CASE waits
      BY <1>1, <1>5, <1>10, <2>1, Appended DEF ServerTypes, SocketInv, Listed
    <2>2. CASE ~waits
      BY <1>1, <1>5, <2>2 DEF ServerTypes, SocketInv, Listed
    <2>3. QED
      BY <2>1, <2>2
  <1>12. /\ opened' \in [Descriptors -> Connections \cup {NoConnection}] /\ opened'[d] = k
         /\ \A e \in Descriptors \ {d} : opened'[e] = opened[e] /\ opened[e] # k
    BY <1>1, <1>5, <1>8, <1>9, <1>10 DEF ServerTypes, Open
  <1>13. neglected' \subseteq Items /\ neglected \subseteq neglected'
    BY <1>1, <1>5 DEF ServerTypes, Items
  <1>14. /\ sock_to_partial_messages' \in [Descriptors -> Seq(Sent)]
         /\ sock_to_msg_timestamps' \in [Descriptors -> Seq(Nat)]
    BY <1>1, <1>5, <1>8 DEF ServerTypes, NewSocket
  <1>15. ServerTypes'
    BY <1>1, <1>5, <1>6, <1>9, <1>11, <1>12, <1>13, <1>14 DEF ServerTypes
  <1>16. \A x \in Connections : Open(x)' <=> Open(x) \/ x = k
    <2>1. ASSUME NEW x \in Connections, Open(x) PROVE Open(x)'
      <3>1. PICK e \in Descriptors : opened[e] = x
        BY <2>1 DEF Open
      <3>2. e # d
        BY <1>8, <3>1, ServerConstants
      <3>3. QED
        BY <1>12, <3>1, <3>2 DEF Open
    <2>2. ASSUME NEW x \in Connections, Open(x)', x # k PROVE Open(x)
      <3>1. PICK e \in Descriptors : opened'[e] = x
        BY <2>2 DEF Open
      <3>2. e # d /\ opened[e] = x
        BY <1>12, <2>2, <3>1
      <3>3. QED
        BY <3>2 DEF Open
    <2>3. Open(k)'
      BY <1>8, <1>12 DEF Open
    <2>4. QED
      BY <2>1, <2>2, <2>3
  <1>17. SocketInv'
    <2>1. ASSUME NEW e \in Descriptors, NEW f \in Descriptors, opened'[e] = opened'[f]
          PROVE  e = f \/ opened'[e] = NoConnection
      BY <1>1, <1>12, <2>1 DEF SocketInv
    <2>2. \A x \in Connections : ~(Waiting(x)' /\ Open(x)')
      BY <1>1, <1>9, <1>16 DEF SocketInv
    <2>3. \A x \in Connections : Listed(x)' => Open(x)'
      BY <1>1, <1>11, <1>16 DEF SocketInv
    <2>4. QED
      BY <1>9, <1>11, <2>1, <2>2, <2>3 DEF SocketInv
  <1>18. BatchInv'
    BY <1>6 DEF BatchInv
  <1>19. EdgesKept'
    <2>1. backlog' # <<>> /\ listen_fd \notin neglected' => Listed(listen_fd)'
      BY <1>5, <1>9, <1>11
    <2>2. ASSUME NEW e \in Descriptors, opened'[e] # NoConnection, opened'[e] \notin neglected',
                 recv'[opened'[e]] # <<>> \/ opened'[e] \in over'
          PROVE  Listed(opened[e])' \/ e = reading' \/ Reporting(e)'
      <3>1. PICK j : j = opened'[e]
        OBVIOUS
      <3>2. CASE e = d
        <4>1. Listed(k)'
          BY <1>4, <1>5, <1>11, <1>12, <2>2, <3>2
        <4>2. QED
          BY <1>12, <3>2, <4>1 DEF Listed
      <3>3. CASE e # d
        <4>1. j = opened[e] /\ e # listen_fd
          BY <1>12, <3>1, <3>3, ServerConstants
        <4>2. Listed(j) \/ e = reading \/ Reporting(e)
          BY <1>1, <1>5, <1>13, <2>2, <3>1, <4>1 DEF EdgesKept
        <4>3. Listed(j)' \/ e = reading' \/ Reporting(e)'
          BY <1>5, <1>6, <1>11, <4>1, <4>2
        <4>4. QED
          BY <3>1, <4>3 DEF Listed
      <3>4. QED
        BY <3>2, <3>3
    <2>3. QED
      BY <2>1, <2>2 DEF EdgesKept, Listed
  <1>20. QED
    BY <1>15, <1>17, <1>18, <1>19 DEF EdgeInv

LEMMA HangUpEventKeepsEdges ==
    ASSUME EdgeInv, HangUpEvent
    PROVE  EdgeInv'
  <1>1. ServerTypes /\ SocketInv /\ BatchInv /\ EdgesKept
    BY DEF EdgeInv
  <1>2. PICK d : d = Event.fd
    OBVIOUS
  <1>3. /\ events # <<>> /\ reading = NoDescriptor /\ d # listen_fd /\ Close({d}) /\ SocketClosed(d) /\ events' = <<>>
        /\ neglected' = (neglected \cup {ItemAt(e.fd) : e \in Seqs!ToSet(Tail(events))}) \ {NoConnection}
        /\ UNCHANGED <<sent, backlog, reading, now, handled, limited>>
    BY <1>2 DEF HangUpEvent, Handling
  <1>4. events \in Seq(Reported) /\ Event = events[1] /\ events[1] \in Reported
    BY <1>1, <1>3 DEF ServerTypes, Event
  <1>5. d \in Descriptors
    BY <1>2, <1>3, <1>4 DEF Reported
  <1>6. /\ opened' \in [Descriptors -> Connections \cup {NoConnection}] /\ over' \subseteq Connections
        /\ ready' \in Seq(Items) /\ recv' \in [Connections -> Seq(Sent)]
    BY <1>1, <1>3, <1>5, CloseKeeps
  <1>7. /\ sock_to_partial_messages' \in [Descriptors -> Seq(Sent)]
        /\ session' \in [Descriptors -> Connections \cup {NoConnection}]
        /\ UNCHANGED sock_to_msg_timestamps
    BY <1>1, <1>3, <1>5 DEF ServerTypes, SocketClosed
  <1>8. NoConnection \notin neglected
    BY <1>1, ServerConstants DEF ServerTypes, Items
  <1>9. PICK rest : rest = Tail(events)
    OBVIOUS
  <1>10. /\ rest \in Seq(Reported) /\ DOMAIN rest = 1..(Len(events) - 1) /\ DOMAIN events = 1..Len(events)
         /\ \A i \in DOMAIN rest : rest[i] = events[i + 1]
    BY <1>3, <1>4, <1>9, HeadTailProperties
  <1>11. \A e \in Reported : ItemAt(e.fd) \in Items \cup {NoConnection}
    BY <1>1 DEF ItemAt, Items, ServerTypes, Reported
  <1>12. \A e \in Seqs!ToSet(rest) : e \in Reported
    BY <1>10 DEF Seqs!ToSet
  <1>13. neglected' \subseteq Items /\ neglected \subseteq neglected'
    BY <1>1, <1>3, <1>8, <1>9, <1>11, <1>12 DEF ServerTypes
  <1>14. events' \in Seq(Reported) /\ Len(events') = 0 /\ DOMAIN events' = {}
    BY <1>3
  <1>15. Len(events') <= MaxEvents
    BY <1>14, ServerConstants
  <1>16. ServerTypes'
    BY <1>1, <1>3, <1>6, <1>7, <1>13, <1>14, <1>15 DEF ServerTypes
  <1>17. BatchInv'
    BY <1>14 DEF BatchInv, Reporting
  <1>18. ASSUME NEW e, e # d, Reporting(e), ItemAt(e) # NoConnection PROVE ItemAt(e) \in neglected'
    <2>1. PICK i \in DOMAIN events : events[i].fd = e
      BY <1>18 DEF Reporting
    <2>2. i # 1
      BY <1>2, <1>4, <1>18, <2>1
    <2>3. i - 1 \in DOMAIN rest /\ rest[i - 1] = events[i]
      BY <1>4, <1>10, <2>1, <2>2
    <2>4. events[i] \in Seqs!ToSet(rest)
      BY <2>3 DEF Seqs!ToSet
    <2>5. QED
      BY <1>3, <1>9, <1>18, <2>1, <2>4
  <1>19. Reporting(listen_fd) => listen_fd \in neglected'
    BY <1>3, <1>18, ServerConstants DEF ItemAt
  <1>20. \A e \in Descriptors \ {d} :
            /\ opened[e] # NoConnection /\ Reporting(e) => opened[e] \in neglected'
            /\ e # reading
    BY <1>3, <1>18, ServerConstants DEF ItemAt
  <1>21. QED
    BY <1>3, <1>5, <1>13, <1>16, <1>17, <1>19, <1>20, CloseKeepsEdges

LEMMA ReadableEventKeepsEdges ==
    ASSUME EdgeInv, ReadableEvent
    PROVE  EdgeInv'
  <1>1. ServerTypes /\ SocketInv /\ BatchInv /\ EdgesKept
    BY DEF EdgeInv
  <1>2. /\ events # <<>> /\ reading = NoDescriptor /\ Event.fd # listen_fd /\ reading' = Event.fd /\ events' = Tail(events)
        /\ UNCHANGED <<sent, over, recv, backlog, opened, ready, sock_to_partial_messages,
                       sock_to_msg_timestamps, session, now, handled, limited, neglected>>
    BY DEF ReadableEvent, Handling, peers, kernel, parser
  <1>3. /\ events' \in Seq(Reported) /\ Len(events') <= MaxEvents
        /\ events[1] \in Reported /\ Event = events[1]
        /\ \A i, j \in DOMAIN events' : events'[i].fd = events'[j].fd => i = j
        /\ \A d : Reporting(d)' <=> Reporting(d) /\ d # Event.fd
    BY <1>1, <1>2, EventDone
  <1>4. reading' \in Descriptors
    BY <1>2, <1>3 DEF Reported
  <1>5. ServerTypes'
    BY <1>1, <1>2, <1>3, <1>4 DEF ServerTypes
  <1>6. SocketInv'
    BY <1>1, <1>2 DEF SocketInv, Waiting, Open, Listed
  <1>7. BatchInv'
    BY <1>1, <1>2, <1>3 DEF BatchInv
  <1>8. \A x : Listed(x)' <=> Listed(x)
    BY <1>2 DEF Listed
  <1>9. EdgesKept'
    <2>1. \A d \in Descriptors : d # reading
      BY <1>2, ServerConstants
    <2>2. QED
      BY <1>1, <1>2, <1>3, <1>8, <2>1 DEF EdgesKept
  <1>10. QED
    BY <1>5, <1>6, <1>7, <1>9 DEF EdgeInv

LEMMA ReadNothingKeepsEdges ==
    ASSUME EdgeInv, ReadNothing
    PROVE  EdgeInv'
  <1>1. ServerTypes /\ SocketInv /\ BatchInv /\ EdgesKept
    BY DEF EdgeInv
  <1>2. /\ reading' = NoDescriptor
        /\ opened[reading] \notin over /\ recv[opened[reading]] = <<>>
        /\ UNCHANGED <<sent, over, recv, backlog, opened, ready, events, sock_to_partial_messages,
                       sock_to_msg_timestamps, session, now, handled, limited, neglected>>
    BY DEF ReadNothing, EndRead, Streams, peers, kernel, parser
  <1>3. ServerTypes'
    BY <1>1, <1>2 DEF ServerTypes
  <1>4. SocketInv'
    BY <1>1, <1>2 DEF SocketInv, Waiting, Open, Listed
  <1>5. \A x : (Listed(x)' <=> Listed(x)) /\ (Reporting(x)' <=> Reporting(x))
    BY <1>2 DEF Listed, Reporting
  <1>6. BatchInv'
    BY <1>1, <1>2, <1>5 DEF BatchInv
  <1>7. EdgesKept'
    BY <1>1, <1>2, <1>5 DEF EdgesKept
  <1>8. QED
    BY <1>3, <1>4, <1>6, <1>7 DEF EdgeInv

LEMMA ReadOverKeepsEdges ==
    ASSUME EdgeInv, ReadOver
    PROVE  EdgeInv'
  <1>1. ServerTypes /\ SocketInv /\ BatchInv
    BY DEF EdgeInv
  <1>2. PICK d : d = reading
    OBVIOUS
  <1>3. /\ reading # NoDescriptor /\ Close({d}) /\ SocketClosed(d) /\ reading' = NoDescriptor
        /\ UNCHANGED <<sent, backlog, events, now, handled, limited, neglected>>
    BY <1>2 DEF ReadOver, EndRead
  <1>4. d \in Descriptors
    BY <1>1, <1>2, <1>3 DEF ServerTypes
  <1>5. /\ opened' \in [Descriptors -> Connections \cup {NoConnection}] /\ over' \subseteq Connections
        /\ ready' \in Seq(Items) /\ recv' \in [Connections -> Seq(Sent)]
    BY <1>1, <1>3, <1>4, CloseKeeps
  <1>6. /\ sock_to_partial_messages' \in [Descriptors -> Seq(Sent)]
        /\ session' \in [Descriptors -> Connections \cup {NoConnection}]
        /\ UNCHANGED sock_to_msg_timestamps
    BY <1>1, <1>3, <1>4 DEF ServerTypes, SocketClosed
  <1>7. ServerTypes'
    BY <1>1, <1>3, <1>5, <1>6 DEF ServerTypes
  <1>8. \A x : Reporting(x)' <=> Reporting(x)
    BY <1>3 DEF Reporting
  <1>9. BatchInv'
    BY <1>1, <1>3, <1>8 DEF BatchInv
  <1>10. \A e \in Descriptors \ {d} : e # reading
    BY <1>2
  <1>11. QED
    BY <1>3, <1>4, <1>7, <1>8, <1>9, <1>10, CloseKeepsEdges

-----------------------------------------------------------------------------
(* The loop of parse(). *)

\* p[i] is what there is after i turns of the loop.
ParsedBy(p, buf, n) ==
    p = [i \in 0..n |-> IF i = 0 THEN [messages |-> <<>>, rest |-> buf] ELSE ParseOne(p[i - 1])]

\* Parsed is the last of such a function.
LEMMA ParsedStepwise ==
    ASSUME NEW buf, Len(buf) \in Nat
    PROVE  \E p : ParsedBy(p, buf, Len(buf)) /\ Parsed(buf) = p[Len(buf)]
  <1> DEFINE N == {n \in Nat : \E p : ParsedBy(p, buf, n)}
  <1>1. 0 \in N
    <2>1. PICK p : p = [i \in 0..0 |-> [messages |-> <<>>, rest |-> buf]]
      OBVIOUS
    <2>2. ParsedBy(p, buf, 0)
      BY <2>1 DEF ParsedBy
    <2>3. QED
      BY <2>2
  <1>2. ASSUME NEW n \in 0..(Len(buf) - 1), n \in N
        PROVE  n + 1 \in N
    <2>1. PICK p : ParsedBy(p, buf, n)
      BY <1>2
    <2>2. PICK last : last = ParseOne(p[n])
      OBVIOUS
    <2>3. PICK q : q = [i \in 0..(n + 1) |-> IF i = n + 1 THEN last ELSE p[i]]
      OBVIOUS
    <2>4. ASSUME NEW i \in 0..(n + 1)
          PROVE  q[i] = IF i = 0 THEN [messages |-> <<>>, rest |-> buf] ELSE ParseOne(q[i - 1])
      <3>1. CASE i = n + 1
        <4>1. i # 0 /\ i - 1 = n /\ n \in 0..(n + 1) /\ n # n + 1
          BY <1>2, <3>1
        <4>2. q[i] = last /\ q[i - 1] = p[n]
          BY <2>3, <3>1, <4>1
        <4>3. QED
          BY <2>2, <4>1, <4>2
      <3>2. CASE i # n + 1
        <4>1. i \in 0..n /\ q[i] = p[i]
          BY <1>2, <2>3, <2>4, <3>2
        <4>2. p[i] = IF i = 0 THEN [messages |-> <<>>, rest |-> buf] ELSE ParseOne(p[i - 1])
          BY <2>1, <4>1 DEF ParsedBy
        <4>3. i # 0 => q[i - 1] = p[i - 1]
          BY <1>2, <2>3, <4>1
        <4>4. QED
          BY <4>1, <4>2, <4>3
      <3>3. QED
        BY <3>1, <3>2
    <2>5. ParsedBy(q, buf, n + 1)
      BY <2>3, <2>4 DEF ParsedBy
    <2>6. QED
      BY <1>2, <2>5
  <1>3. Len(buf) \in N
    <2> HIDE DEF N
    <2>1. 0..Len(buf) \subseteq N
      BY <1>1, <1>2, CountUp
    <2>2. QED
      BY <2>1
  <1>4. PICK p : p = CHOOSE q : ParsedBy(q, buf, Len(buf))
    OBVIOUS
  <1>5. ParsedBy(p, buf, Len(buf))
    BY <1>3, <1>4
  <1>6. Parsed(buf) = p[Len(buf)]
    BY <1>4 DEF Parsed, ParsedBy
  <1>7. QED
    BY <1>5, <1>6

\* The first c units of the buffer are passed on as messages, the others stay.
CutAfter(q, buf, c) ==
    /\ c \in 0..Len(buf) /\ q.rest = SubSeq(buf, c + 1, Len(buf)) /\ q.messages \in Seq(Seq(Sent))
    /\ \A j \in DOMAIN q.messages : q.messages[j] # <<>>
    /\ c = 0 <=> q.messages = <<>>
    /\ q.messages # <<>> => c >= Length(buf[1].kind) + 2 * (Len(q.messages) - 1)

\* The messages are those of k after h, whole, and the cut is at the end of one.
FramedFrom(q, buf, c, k, h) ==
    /\ \A j \in DOMAIN q.messages : q.messages[j] = Units(k, h + j, q.messages[j][1].kind)
    /\ c # 0 => buf[c].num = h + Len(q.messages) /\ buf[c].at = Length(buf[c].kind)

\* The n units after the first c are the message num of k.
MessageAt(s, c, n, k, num) ==
    /\ \A j \in 1..n : s[c + j] = Unit(k, num, s[c + 1].kind, j)
    /\ s[c + n].num = num /\ s[c + n].at = Length(s[c + n].kind)

\* The units of a message that begins after c units.
LEMMA WholeMessage ==
    ASSUME NEW s \in Seq(Sent), NEW c \in 0..(Len(s) - 1), NEW k, NEW num, NEW n, Linked(k, s),
           s[c + 1].at = 1, s[c + 1].num = num, n = Length(s[c + 1].kind), c + n <= Len(s)
    PROVE  MessageAt(s, c, n, k, num)
  <1>1. PICK kind : kind = s[c + 1].kind
    OBVIOUS
  <1>2. n = Length(kind)
    BY <1>1
  <1>3. n \in {2, 3} /\ c \in Nat /\ Len(s) \in Nat /\ c + n <= Len(s)
    BY <1>1, <1>2 DEF Length
  <1>4. \A i \in 1..Len(s) : s[i] \in Sent /\ s[i].conn = k
    BY DEF Linked
  <1>5. c + 1 \in 1..Len(s) /\ c + 2 \in 1..Len(s) /\ (c + 1) + 1 = c + 2 /\ c + 1 \in 1..(Len(s) - 1)
    BY <1>3
  <1>6. s[c + 2].num = num /\ s[c + 2].kind = kind /\ s[c + 2].at = 2 /\ Follows(s[c + 1], s[c + 2])
    <2>1. Follows(s[c + 1], s[c + 2])
      BY <1>5 DEF Linked
    <2>2. 1 < Length(kind)
      BY <1>2, <1>3
    <2>3. QED
      BY <1>1, <2>1, <2>2 DEF Follows
  <1>7. CASE n = 2
    <2>1. \A j \in 1..n : j = 1 \/ j = 2
      BY <1>7
    <2>2. s[c + 1] = Unit(k, num, kind, 1) /\ s[c + 2] = Unit(k, num, kind, 2)
      BY <1>1, <1>4, <1>5, <1>6 DEF Unit, Sent
    <2>3. QED
      BY <1>1, <1>2, <1>6, <1>7, <2>1, <2>2 DEF MessageAt
  <1>8. CASE n = 3
    <2>1. \A j \in 1..n : j = 1 \/ j = 2 \/ j = 3
      BY <1>8
    <2>2. c + 3 \in 1..Len(s) /\ (c + 2) + 1 = c + 3 /\ c + 2 \in 1..(Len(s) - 1)
      BY <1>3, <1>8
    <2>3. s[c + 3].num = num /\ s[c + 3].kind = kind /\ s[c + 3].at = 3
      <3>1. Follows(s[c + 2], s[c + 3])
        BY <2>2 DEF Linked
      <3>2. 2 < Length(kind)
        BY <1>2, <1>8
      <3>3. QED
        BY <1>6, <3>1, <3>2 DEF Follows
    <2>4. /\ s[c + 1] = Unit(k, num, kind, 1) /\ s[c + 2] = Unit(k, num, kind, 2)
          /\ s[c + 3] = Unit(k, num, kind, 3)
      BY <1>1, <1>4, <1>5, <1>6, <2>2, <2>3 DEF Unit, Sent
    <2>5. QED
      BY <1>1, <1>2, <1>8, <2>1, <2>3, <2>4 DEF MessageAt
  <1>9. QED
    BY <1>3, <1>7, <1>8

\* A turn of the loop that passes a message on.
LEMMA ParseOneCuts ==
    ASSUME NEW buf \in Seq(Sent), NEW q, NEW c, CutAfter(q, buf, c), ~Stuck(q.rest)
    PROVE  \E n \in {2, 3} :
              /\ CutAfter(ParseOne(q), buf, c + n)
              /\ \A k, h : h \in Nat /\ Chain(k, h, buf) /\ FramedFrom(q, buf, c, k, h)
                              => FramedFrom(ParseOne(q), buf, c + n, k, h)
  <1>1. PICK r : r = q.rest
    OBVIOUS
  <1>2. c \in 0..Len(buf) /\ r = SubSeq(buf, c + 1, Len(buf)) /\ Len(buf) \in Nat
    BY <1>1 DEF CutAfter
  <1>3. /\ r \in Seq(Sent) /\ Len(r) = Len(buf) - c
        /\ \A j \in 1..(Len(buf) - c) : r[j] = buf[c + j] /\ c + j \in 1..Len(buf)
    BY <1>2, CutAt
  <1>4. PICK n : n = Length(Head(r).kind)
    OBVIOUS
  <1>5. r # <<>> /\ Len(r) >= n /\ n \in {2, 3} /\ Head(r) = r[1]
    BY <1>1, <1>3, <1>4 DEF Stuck, Complete, Length
  <1>6. n \in 0..Len(r) /\ c + n \in 0..Len(buf) /\ c \in Nat /\ c + 1 \in 1..Len(buf) /\ r[1] = buf[c + 1]
        /\ c + n <= Len(buf)
    BY <1>2, <1>3, <1>5
  <1>7. PICK m : m = SubSeq(r, 1, n)
    OBVIOUS
  <1>8. PICK rest : rest = SubSeq(r, n + 1, Len(r))
    OBVIOUS
  <1>9. /\ m \in Seq(Sent) /\ Len(m) = n /\ \A j \in 1..n : m[j] = r[j]
        /\ rest \in Seq(Sent) /\ Len(rest) = Len(r) - n
        /\ \A j \in 1..(Len(r) - n) : rest[j] = r[n + j] /\ n + j \in 1..Len(r)
    BY <1>3, <1>6, <1>7, <1>8, CutAt
  <1>10. rest = SubSeq(buf, (c + n) + 1, Len(buf))
    <2>1. PICK t : t = SubSeq(buf, (c + n) + 1, Len(buf))
      OBVIOUS
    <2>2. /\ t \in Seq(Sent) /\ Len(t) = Len(buf) - (c + n)
          /\ \A j \in 1..(Len(buf) - (c + n)) : t[j] = buf[(c + n) + j]
      BY <1>6, <2>1, CutAt
    <2>3. Len(rest) = Len(t) /\ Len(t) = Len(buf) - (c + n)
      BY <1>2, <1>3, <1>5, <1>9, <2>2
    <2>4. ASSUME NEW j \in 1..Len(t) PROVE rest[j] = t[j]
      <3>1. j \in 1..(Len(r) - n) /\ n + j \in 1..(Len(buf) - c) /\ c + (n + j) = (c + n) + j
            /\ j \in 1..(Len(buf) - (c + n))
        BY <1>2, <1>3, <1>5, <1>6, <2>3, <2>4
      <3>2. QED
        BY <1>3, <1>9, <2>2, <3>1
    <2>5. rest = t
      BY <1>9, <2>2, <2>3, <2>4, SeqEqual
    <2>6. QED
      BY <2>1, <2>5
  <1>11. PICK p : p = ParseOne(q)
    OBVIOUS
  <1>12. p.messages = Append(q.messages, m) /\ p.rest = rest
    BY <1>1, <1>4, <1>7, <1>8, <1>11 DEF ParseOne
  <1>13. PICK x : x = Len(q.messages)
    OBVIOUS
  <1>14. q.messages \in Seq(Seq(Sent)) /\ x \in Nat /\ DOMAIN q.messages = 1..x
    BY <1>13 DEF CutAfter
  <1>15. /\ p.messages \in Seq(Seq(Sent)) /\ Len(p.messages) = x + 1 /\ DOMAIN p.messages = 1..(x + 1)
         /\ \A j \in 1..x : p.messages[j] = q.messages[j]
         /\ p.messages[x + 1] = m /\ p.messages # <<>>
         /\ \A j \in 1..(x + 1) : j \in 1..x \/ j = x + 1
    <2>1. PICK ms : ms = q.messages
      OBVIOUS
    <2>2. PICK more : more = Append(ms, m)
      OBVIOUS
    <2>3. ms \in Seq(Seq(Sent)) /\ x = Len(ms) /\ m \in Seq(Sent)
      BY <1>9, <1>13, <1>14, <2>1
    <2>4. /\ more \in Seq(Seq(Sent)) /\ Len(more) = x + 1 /\ DOMAIN more = 1..(x + 1)
          /\ \A j \in 1..x : more[j] = ms[j]
          /\ more[x + 1] = m /\ more # <<>>
      <3> HIDE DEF Sent
      <3>1. more \in Seq(Seq(Sent)) /\ Len(more) = x + 1 /\ DOMAIN more = 1..(x + 1)
        BY <1>14, <2>2, <2>3
      <3>2. \A j \in 1..x : more[j] = ms[j]
        BY <1>14, <2>2, <2>3
      <3>3. more[x + 1] = m
        BY <1>14, <2>2, <2>3
      <3>4. QED
        BY <1>14, <3>1, <3>2, <3>3
    <2>5. \A j \in 1..(x + 1) : j \in 1..x \/ j = x + 1
      BY <1>14
    <2>6. QED
      BY <1>12, <2>1, <2>2, <2>4, <2>5
  <1>16. CutAfter(p, buf, c + n)
    <2>1. \A j \in DOMAIN p.messages : p.messages[j] # <<>>
      <3>1. m # <<>>
        BY <1>5, <1>9
      <3>2. \A j \in 1..x : q.messages[j] # <<>>
        BY <1>14 DEF CutAfter
      <3>3. QED
        BY <1>15, <3>1, <3>2
    <2>2. c + n # 0
      BY <1>5, <1>6
    <2>3. c + n >= Length(buf[1].kind) + 2 * ((x + 1) - 1)
      <3>1. CASE c = 0
        <4>1. q.messages = <<>>
          BY <3>1 DEF CutAfter
        <4>2. x = 0
          BY <1>13, <4>1
        <4>3. n = Length(buf[1].kind)
          BY <1>4, <1>5, <1>6, <3>1
        <4>4. QED
          BY <1>5, <3>1, <4>2, <4>3
      <3>2. CASE c # 0
        <4>1. c >= Length(buf[1].kind) + 2 * (x - 1)
          BY <1>13, <3>2 DEF CutAfter
        <4>2. Length(buf[1].kind) \in {2, 3}
          BY DEF Length
        <4>3. QED
          BY <1>5, <1>6, <1>14, <4>1, <4>2
      <3>3. QED
        BY <3>1, <3>2
    <2>4. QED
      BY <1>6, <1>10, <1>12, <1>15, <2>1, <2>2, <2>3 DEF CutAfter
  <1>17. ASSUME NEW k, NEW h \in Nat, Chain(k, h, buf), FramedFrom(q, buf, c, k, h)
         PROVE  FramedFrom(p, buf, c + n, k, h)
    <2>1. buf[c + 1].at = 1 /\ buf[c + 1].num = (h + x) + 1
      <3>1. CASE c = 0
        <4>1. q.messages = <<>> /\ buf # <<>>
          BY <1>6, <3>1 DEF CutAfter
        <4>2. x = 0
          BY <1>13, <4>1
        <4>3. QED
          BY <1>17, <3>1, <4>1, <4>2 DEF Chain
      <3>2. CASE c # 0
        <4>1. buf[c].num = h + x /\ buf[c].at = Length(buf[c].kind)
          BY <1>13, <1>17, <3>2 DEF FramedFrom
        <4>2. c \in 1..(Len(buf) - 1)
          BY <1>2, <1>6, <3>2
        <4>3. Follows(buf[c], buf[c + 1])
          BY <1>17, <4>2 DEF Chain, Linked
        <4>4. ~(buf[c].at < Length(buf[c].kind))
          BY <4>1 DEF Length
        <4>5. QED
          BY <4>1, <4>3, <4>4 DEF Follows
      <3>3. QED
        BY <3>1, <3>2
    <2>2. n = Length(buf[c + 1].kind) /\ c \in 0..(Len(buf) - 1) /\ c + n <= Len(buf)
      <3>1. n = Length(buf[c + 1].kind)
        BY <1>4, <1>5, <1>6
      <3>2. c \in 0..(Len(buf) - 1) /\ c + n <= Len(buf)
        BY <1>2, <1>6
      <3>3. QED
        BY <3>1, <3>2
    <2>3. PICK num : num = (h + x) + 1
      OBVIOUS
    <2>4. /\ \A j \in 1..n : buf[c + j] = Unit(k, num, buf[c + 1].kind, j)
          /\ buf[c + n].num = num /\ buf[c + n].at = Length(buf[c + n].kind)
      <3>1. Linked(k, buf) /\ buf[c + 1].num = num /\ buf[c + 1].at = 1
        BY <1>17, <2>1, <2>3 DEF Chain
      <3>2. MessageAt(buf, c, n, k, num)
        BY <2>2, <3>1, WholeMessage
      <3>3. QED
        BY <3>2 DEF MessageAt
    <2>5. num = h + (x + 1)
      BY <1>14, <2>3
    <2>6. m[1].kind = buf[c + 1].kind
      BY <1>5, <1>6, <1>9
    <2>7. m = Units(k, h + (x + 1), m[1].kind)
      <3>1. DOMAIN m = 1..n /\ m = [j \in 1..n |-> m[j]]
        BY <1>9
      <3>2. \A j \in 1..n : m[j] = Unit(k, num, buf[c + 1].kind, j)
        <4>1. \A j \in 1..n : j \in 1..(Len(buf) - c)
          BY <1>2, <1>5, <1>6
        <4>2. QED
          BY <1>3, <1>9, <2>4, <4>1
      <3>3. m = [j \in 1..n |-> Unit(k, num, buf[c + 1].kind, j)]
        BY <3>1, <3>2
      <3>4. QED
        BY <2>2, <2>5, <2>6, <3>3 DEF Units
    <2>8. \A j \in 1..x : q.messages[j] = Units(k, h + j, q.messages[j][1].kind)
      BY <1>14, <1>17 DEF FramedFrom
    <2>9. \A j \in DOMAIN p.messages : p.messages[j] = Units(k, h + j, p.messages[j][1].kind)
      BY <1>15, <2>7, <2>8
    <2>10. QED
      BY <1>15, <2>4, <2>5, <2>9 DEF FramedFrom
  <1>18. QED
    BY <1>5, <1>11, <1>16, <1>17

\* What parse() makes of the buffer: it stops at a message that is not complete or is
\* refused.
LEMMA ParsedCut ==
    ASSUME NEW buf \in Seq(Sent)
    PROVE  \E c : /\ CutAfter(Parsed(buf), buf, c) /\ Stuck(Parsed(buf).rest)
                  /\ \A k, h : h \in Nat /\ Chain(k, h, buf) => FramedFrom(Parsed(buf), buf, c, k, h)
  <1>1. Len(buf) \in Nat
    OBVIOUS
  <1>2. PICK p : ParsedBy(p, buf, Len(buf)) /\ Parsed(buf) = p[Len(buf)]
    BY <1>1, ParsedStepwise
  <1> DEFINE N == {i \in Nat : \E c : /\ CutAfter(p[i], buf, c) /\ (Stuck(p[i].rest) \/ c >= 2 * i)
                                      /\ \A k, h : h \in Nat /\ Chain(k, h, buf) => FramedFrom(p[i], buf, c, k, h)}
  <1>3. 0 \in N
    <2>1. p[0] = [messages |-> <<>>, rest |-> buf]
      BY <1>1, <1>2 DEF ParsedBy
    <2>2. SubSeq(buf, 0 + 1, Len(buf)) = buf
      OBVIOUS
    <2>3. p[0].messages = <<>> /\ p[0].rest = buf /\ DOMAIN p[0].messages = {}
      BY <2>1
    <2>4. CutAfter(p[0], buf, 0)
      BY <1>1, <2>2, <2>3 DEF CutAfter
    <2>5. \A k, h : FramedFrom(p[0], buf, 0, k, h)
      BY <2>3 DEF FramedFrom
    <2>6. QED
      BY <2>4, <2>5
  <1>4. ASSUME NEW i \in 0..(Len(buf) - 1), i \in N
        PROVE  i + 1 \in N
    <2>1. PICK c : /\ CutAfter(p[i], buf, c) /\ (Stuck(p[i].rest) \/ c >= 2 * i)
                   /\ \A k, h : h \in Nat /\ Chain(k, h, buf) => FramedFrom(p[i], buf, c, k, h)
      BY <1>4
    <2>2. p[i + 1] = ParseOne(p[i])
      <3>1. i + 1 \in 0..Len(buf) /\ i + 1 # 0 /\ (i + 1) - 1 = i
        BY <1>1, <1>4
      <3>2. p[i + 1] = IF i + 1 = 0 THEN [messages |-> <<>>, rest |-> buf] ELSE ParseOne(p[(i + 1) - 1])
        BY <1>2, <3>1 DEF ParsedBy
      <3>3. QED
        BY <3>1, <3>2
    <2>3. CASE Stuck(p[i].rest)
      <3>1. p[i + 1] = p[i]
        BY <2>2, <2>3 DEF ParseOne
      <3>2. QED
        BY <1>4, <2>1, <2>3, <3>1
    <2>4. CASE ~Stuck(p[i].rest)
      <3>1. PICK n \in {2, 3} :
                /\ CutAfter(p[i + 1], buf, c + n)
                /\ \A k, h : h \in Nat /\ Chain(k, h, buf) /\ FramedFrom(p[i], buf, c, k, h)
                                => FramedFrom(p[i + 1], buf, c + n, k, h)
        BY <2>1, <2>2, <2>4, ParseOneCuts
      <3>2. c \in Nat /\ c >= 2 * i
        BY <2>1, <2>4 DEF CutAfter
      <3>3. c + n >= 2 * (i + 1)
        BY <1>4, <3>2
      <3>4. \A k, h : h \in Nat /\ Chain(k, h, buf) => FramedFrom(p[i + 1], buf, c + n, k, h)
        BY <2>1, <3>1
      <3>5. QED
        BY <1>4, <3>1, <3>3, <3>4
    <2>5. QED
      BY <2>3, <2>4
  <1>5. Len(buf) \in N
    <2> HIDE DEF N
    <2>1. 0..Len(buf) \subseteq N
      BY <1>1, <1>3, <1>4, CountUp
    <2>2. QED
      BY <1>1, <2>1
  <1>6. PICK c : /\ CutAfter(Parsed(buf), buf, c) /\ (Stuck(Parsed(buf).rest) \/ c >= 2 * Len(buf))
                 /\ \A k, h : h \in Nat /\ Chain(k, h, buf) => FramedFrom(Parsed(buf), buf, c, k, h)
    BY <1>2, <1>5
  <1>7. Stuck(Parsed(buf).rest)
    <2>1. SUFFICES ASSUME c >= 2 * Len(buf) PROVE Stuck(Parsed(buf).rest)
      BY <1>6
    <2>2. c \in 0..Len(buf) /\ Parsed(buf).rest = SubSeq(buf, c + 1, Len(buf))
      BY <1>6 DEF CutAfter
    <2>3. c = Len(buf)
      BY <1>1, <2>1, <2>2
    <2>4. Len(Parsed(buf).rest) = 0 /\ Parsed(buf).rest \in Seq(Sent)
      BY <1>1, <2>2, <2>3, CutAt
    <2>5. QED
      BY <2>4 DEF Stuck, Complete
  <1>8. QED
    BY <1>6, <1>7

-----------------------------------------------------------------------------
(* No edge is lost: a read. *)

\* What is read and parsed in a step, and with what is left of an earlier read.
Reads(d, k, n, buf) ==
    /\ d \in Descriptors /\ d = reading /\ k \in Connections /\ k = opened[d] /\ Open(k)
    /\ n \in 1..Len(recv[k]) /\ n <= BufferUnits
    /\ buf = Buffered(d, SubSeq(recv[k], 1, n)) /\ buf \in Seq(Sent)
    /\ UNCHANGED <<sent, backlog, events, reading, now, neglected>>

\* A read either is refused for the rate or is parsed.
LEMMA ReadBytesCases ==
    ASSUME EdgeInv, ReadBytes
    PROVE  \E d, k, n, buf :
              /\ Reads(d, k, n, buf)
              /\ \/ Len(Recent(d)) > MAX_MSGS_PER_SECOND /\ Limit(d)
                 \/ ~(Len(Recent(d)) > MAX_MSGS_PER_SECOND) /\ Parse(d, n)
  <1>1. ServerTypes
    BY DEF EdgeInv
  <1>2. PICK d : d = reading
    OBVIOUS
  <1>3. PICK k : k = opened[d]
    OBVIOUS
  <1>4. PICK n : n = FSets!Min({BufferUnits, Len(recv[k])})
    OBVIOUS
  <1>5. /\ d # NoDescriptor /\ k \in Connections /\ recv[k] # <<>>
        /\ IF Len(Recent(d)) > MAX_MSGS_PER_SECOND THEN Limit(d) ELSE Parse(d, n)
        /\ UNCHANGED <<sent, backlog, events, reading, now, neglected>>
    BY <1>2, <1>3, <1>4 DEF ReadBytes, ReadAndParse
  <1>6. d \in Descriptors /\ Open(k)
    BY <1>1, <1>2, <1>3, <1>5 DEF ServerTypes, Open
  <1>7. recv[k] \in Seq(Sent) /\ sock_to_partial_messages[d] \in Seq(Sent)
    BY <1>1, <1>5, <1>6 DEF ServerTypes
  <1>8. Len(recv[k]) \in Nat /\ Len(recv[k]) > 0
    BY <1>5, <1>7
  <1>9. n \in 1..Len(recv[k]) /\ n <= BufferUnits
    BY <1>4, <1>8, SmallerOf, ServerConstants
  <1>10. PICK units : units = SubSeq(recv[k], 1, n)
    OBVIOUS
  <1>11. units \in Seq(Sent)
    <2>1. n \in 0..Len(recv[k])
      BY <1>8, <1>9
    <2>2. QED
      BY <1>7, <1>10, <2>1, CutAt
  <1>12. PICK buf : buf = Buffered(d, units)
    OBVIOUS
  <1>13. buf \in Seq(Sent)
    BY <1>7, <1>11, <1>12 DEF Buffered
  <1>14. Reads(d, k, n, buf)
    BY <1>2, <1>3, <1>5, <1>6, <1>9, <1>10, <1>12, <1>13 DEF Reads
  <1>15. QED
    BY <1>5, <1>14

\* The times kept are times.
LEMMA RecentTimes ==
    ASSUME ServerTypes, NEW d \in Descriptors
    PROVE  Recent(d) \in Seq(Nat)
  BY KeptMembers DEF ServerTypes, Recent

\* parse() refuses the read and closes the socket.
LEMMA LimitKeepsEdges ==
    ASSUME EdgeInv, NEW d, NEW k, NEW n, NEW buf, Reads(d, k, n, buf), Limit(d)
    PROVE  EdgeInv'
  <1>1. ServerTypes /\ SocketInv /\ BatchInv
    BY DEF EdgeInv
  <1>2. /\ d \in Descriptors /\ d = reading /\ k \in Connections /\ k = opened[d]
        /\ UNCHANGED <<sent, backlog, events, reading, now, neglected>>
    BY DEF Reads
  <1>3. /\ sock_to_msg_timestamps' = [sock_to_msg_timestamps EXCEPT ![d] = Recent(d)]
        /\ Close({d}) /\ limited' = limited \cup {k}
        /\ UNCHANGED <<sock_to_partial_messages, session, handled>>
    BY <1>2 DEF Limit
  <1>4. /\ opened' \in [Descriptors -> Connections \cup {NoConnection}] /\ over' \subseteq Connections
        /\ ready' \in Seq(Items) /\ recv' \in [Connections -> Seq(Sent)]
    BY <1>1, <1>2, <1>3, CloseKeeps
  <1>5. sock_to_msg_timestamps' \in [Descriptors -> Seq(Nat)] /\ limited' \subseteq Connections
    BY <1>1, <1>2, <1>3, RecentTimes DEF ServerTypes
  <1>6. ServerTypes'
    BY <1>1, <1>2, <1>3, <1>4, <1>5 DEF ServerTypes
  <1>7. \A x : Reporting(x)' <=> Reporting(x)
    BY <1>2 DEF Reporting
  <1>8. BatchInv'
    BY <1>1, <1>2, <1>7 DEF BatchInv
  <1>9. QED
    BY <1>2, <1>3, <1>6, <1>7, <1>8, CloseKeepsEdges

\* What a read that is parsed does to the stream, the times and the sockets: closed are the
\* descriptors that the handler or the parser closes.
ParsedInto(d, k, n, buf, messages, rest, closed) ==
    /\ messages = Dispatched(buf) /\ rest = Rest(buf)
    /\ messages \in Seq(Seq(Sent)) /\ rest \in Seq(Sent)
    /\ sock_to_partial_messages' = [sock_to_partial_messages EXCEPT ![d] = rest]
    /\ sock_to_msg_timestamps' =
          [sock_to_msg_timestamps EXCEPT ![d] = Recent(d) \o [i \in DOMAIN messages |-> now]]
    /\ handled' = [handled EXCEPT ![k] = @ \o [i \in DOMAIN messages |-> [units |-> messages[i], at |-> now]]]
    /\ session' \in [Descriptors -> Connections \cup {NoConnection}]
    /\ closed \subseteq Descriptors /\ (Refused(rest) => d \in closed) /\ (closed # {} => d \in closed)
    /\ IF closed = {} THEN recv' = [recv EXCEPT ![k] = SubSeq(@, n + 1, Len(@))] /\ UNCHANGED <<opened, over, ready>>
       ELSE Close(closed)
    /\ UNCHANGED limited

LEMMA ParseInto ==
    ASSUME ServerTypes, NEW d, NEW k, NEW n, NEW buf, Reads(d, k, n, buf), Parse(d, n)
    PROVE  \E messages, rest, closed : ParsedInto(d, k, n, buf, messages, rest, closed)
  <1>1. PICK messages : messages = Dispatched(buf)
    OBVIOUS
  <1>2. PICK rest : rest = Rest(buf)
    OBVIOUS
  <1>3. PICK login \in BOOLEAN : login <=> \E i \in DOMAIN messages : Head(messages[i]).kind = "login"
    OBVIOUS
  <1>4. PICK closed : closed = (IF login THEN ClosedByLogin(d) ELSE {}) \cup (IF Refused(rest) THEN {d} ELSE {})
    OBVIOUS
  <1>5. d \in Descriptors /\ k = opened[d] /\ k \in Connections
        /\ buf = Buffered(d, SubSeq(recv[k], 1, n)) /\ buf \in Seq(Sent)
    BY DEF Reads
  <1>6. /\ sock_to_partial_messages' = [sock_to_partial_messages EXCEPT ![d] = rest]
        /\ sock_to_msg_timestamps' =
              [sock_to_msg_timestamps EXCEPT ![d] = Recent(d) \o [i \in DOMAIN messages |-> now]]
        /\ handled' = [handled EXCEPT ![k] = @ \o [i \in DOMAIN messages |-> [units |-> messages[i], at |-> now]]]
        /\ IF login THEN OnLogin(d) ELSE UNCHANGED session
        /\ IF closed = {} THEN recv' = [recv EXCEPT ![k] = SubSeq(@, n + 1, Len(@))] /\ UNCHANGED <<opened, over, ready>>
           ELSE Close(closed)
        /\ UNCHANGED limited
    BY <1>1, <1>2, <1>3, <1>4, <1>5 DEF Parse
  <1>7. messages \in Seq(Seq(Sent)) /\ rest \in Seq(Sent)
    <2>1. PICK c : CutAfter(Parsed(buf), buf, c)
      BY <1>5, ParsedCut
    <2>2. messages \in Seq(Seq(Sent)) /\ rest = SubSeq(buf, c + 1, Len(buf)) /\ c \in 0..Len(buf)
      BY <1>1, <1>2, <2>1 DEF CutAfter, Dispatched, Rest
    <2>3. rest \in Seq(Sent)
      BY <1>5, <2>2, CutAt
    <2>4. QED
      BY <2>2, <2>3
  <1>8. session' \in [Descriptors -> Connections \cup {NoConnection}]
    BY <1>5, <1>6 DEF ServerTypes, OnLogin
  <1>9. closed \subseteq Descriptors /\ (Refused(rest) => d \in closed) /\ (closed # {} => d \in closed)
    BY <1>4, <1>5 DEF ClosedByLogin, LoggedInElsewhere
  <1>10. ParsedInto(d, k, n, buf, messages, rest, closed)
    BY <1>1, <1>2, <1>6, <1>7, <1>8, <1>9 DEF ParsedInto
  <1>11. QED
    BY <1>10

\* The messages of a read, with their time.
LEMMA StampedMessages ==
    ASSUME NEW messages \in Seq(Seq(Sent)), NEW t \in Nat
    PROVE  /\ [i \in DOMAIN messages |-> t] \in Seq(Nat)
           /\ Len([i \in DOMAIN messages |-> t]) = Len(messages)
           /\ [i \in DOMAIN messages |-> [units |-> messages[i], at |-> t]] \in Seq([units : Seq(Sent), at : Nat])
           /\ Len([i \in DOMAIN messages |-> [units |-> messages[i], at |-> t]]) = Len(messages)
  <1>1. PICK m : m = Len(messages)
    OBVIOUS
  <1>2. m \in Nat /\ DOMAIN messages = 1..m /\ \A i \in 1..m : messages[i] \in Seq(Sent)
    BY <1>1
  <1>3. [i \in 1..m |-> t] \in [1..m -> Nat]
    OBVIOUS
  <1>4. \A i \in 1..m : [units |-> messages[i], at |-> t] \in [units : Seq(Sent), at : Nat]
    BY <1>2
  <1>5. PICK f : f = [i \in 1..m |-> [units |-> messages[i], at |-> t]]
    OBVIOUS
  <1>6. PICK R : R = [units : Seq(Sent), at : Nat]
    OBVIOUS
  <1>7. f \in Seq(R) /\ Len(f) = m
    <2>1. f \in [1..m -> R]
      BY <1>4, <1>5, <1>6
    <2>2. QED
      BY <1>2, <2>1
  <1>8. QED
    BY <1>1, <1>2, <1>3, <1>5, <1>6, <1>7

LEMMA ParseKeepsEdges ==
    ASSUME EdgeInv, NEW d, NEW k, NEW n, NEW buf, Reads(d, k, n, buf), Parse(d, n)
    PROVE  EdgeInv'
  <1>1. ServerTypes /\ SocketInv /\ BatchInv /\ EdgesKept
    BY DEF EdgeInv
  <1>2. PICK messages, rest, closed : ParsedInto(d, k, n, buf, messages, rest, closed)
    BY <1>1, ParseInto
  <1>3. /\ d \in Descriptors /\ d = reading /\ k \in Connections /\ k = opened[d] /\ n \in 1..Len(recv[k])
        /\ UNCHANGED <<sent, backlog, events, reading, now, neglected>>
    BY DEF Reads
  <1>4. /\ messages \in Seq(Seq(Sent)) /\ rest \in Seq(Sent)
        /\ sock_to_partial_messages' = [sock_to_partial_messages EXCEPT ![d] = rest]
        /\ sock_to_msg_timestamps' =
              [sock_to_msg_timestamps EXCEPT ![d] = Recent(d) \o [i \in DOMAIN messages |-> now]]
        /\ handled' = [handled EXCEPT ![k] = @ \o [i \in DOMAIN messages |-> [units |-> messages[i], at |-> now]]]
        /\ session' \in [Descriptors -> Connections \cup {NoConnection}]
        /\ closed \subseteq Descriptors /\ (closed # {} => d \in closed)
        /\ IF closed = {} THEN recv' = [recv EXCEPT ![k] = SubSeq(@, n + 1, Len(@))] /\ UNCHANGED <<opened, over, ready>>
           ELSE Close(closed)
        /\ UNCHANGED limited
    BY <1>2 DEF ParsedInto
  <1>5. sock_to_partial_messages' \in [Descriptors -> Seq(Sent)]
    BY <1>1, <1>3, <1>4 DEF ServerTypes
  <1>6. sock_to_msg_timestamps' \in [Descriptors -> Seq(Nat)]
    <2>1. PICK stamps : stamps = [i \in DOMAIN messages |-> now]
      OBVIOUS
    <2>2. stamps \in Seq(Nat) /\ Recent(d) \in Seq(Nat)
      BY <1>1, <1>3, <1>4, <2>1, StampedMessages, RecentTimes DEF ServerTypes
    <2>3. Recent(d) \o stamps \in Seq(Nat)
      BY <2>2
    <2>4. QED
      BY <1>1, <1>3, <1>4, <2>1, <2>3 DEF ServerTypes
  <1>7. handled' \in [Connections -> Seq([units : Seq(Sent), at : Nat])]
    <2>1. PICK more : more = [i \in DOMAIN messages |-> [units |-> messages[i], at |-> now]]
      OBVIOUS
    <2>2. PICK R : R = [units : Seq(Sent), at : Nat]
      OBVIOUS
    <2>3. more \in Seq(R) /\ handled \in [Connections -> Seq(R)]
      BY <1>1, <1>4, <2>1, <2>2, StampedMessages DEF ServerTypes
    <2>4. handled[k] \o more \in Seq(R)
      BY <1>3, <2>3
    <2>5. handled' = [handled EXCEPT ![k] = handled[k] \o more]
      BY <1>4, <2>1
    <2>6. QED
      BY <1>3, <2>2, <2>3, <2>4, <2>5
  <1>8. \A x : Reporting(x)' <=> Reporting(x)
    BY <1>3 DEF Reporting
  <1>9. BatchInv'
    BY <1>1, <1>3, <1>8 DEF BatchInv
  <1>10. CASE closed = {}
    <2>1. recv' = [recv EXCEPT ![k] = SubSeq(@, n + 1, Len(@))] /\ UNCHANGED <<opened, over, ready>>
      BY <1>4, <1>10
    <2>2. recv' \in [Connections -> Seq(Sent)]
      <3>1. recv[k] \in Seq(Sent)
        BY <1>1, <1>3 DEF ServerTypes
      <3>2. n \in 0..Len(recv[k])
        BY <1>3, <3>1
      <3>3. SubSeq(recv[k], n + 1, Len(recv[k])) \in Seq(Sent)
        BY <3>1, <3>2, CutAt
      <3>4. QED
        BY <1>1, <1>3, <2>1, <3>3 DEF ServerTypes
    <2>3. ServerTypes'
      BY <1>1, <1>3, <1>4, <1>5, <1>6, <1>7, <2>1, <2>2 DEF ServerTypes
    <2>4. SocketInv'
      BY <1>1, <1>3, <2>1 DEF SocketInv, Open, Waiting, Listed
    <2>5. \A x : Listed(x)' <=> Listed(x)
      BY <2>1 DEF Listed
    <2>6. \A e \in Descriptors : e # d /\ opened[e] # NoConnection => recv'[opened[e]] = recv[opened[e]]
      <3>1. \A e \in Descriptors : e # d /\ opened[e] # NoConnection => opened[e] # k /\ opened[e] \in Connections
        BY <1>1, <1>3, ServerConstants DEF SocketInv, ServerTypes
      <3>2. QED
        BY <1>1, <1>3, <2>1, <3>1 DEF ServerTypes
    <2>7. EdgesKept'
      BY <1>1, <1>3, <1>8, <2>1, <2>5, <2>6 DEF EdgesKept
    <2>8. QED
      BY <1>9, <2>3, <2>4, <2>7 DEF EdgeInv
  <1>11. CASE closed # {}
    <2>1. Close(closed) /\ d \in closed /\ closed \in SUBSET Descriptors
      BY <1>4, <1>11
    <2>2. /\ opened' \in [Descriptors -> Connections \cup {NoConnection}] /\ over' \subseteq Connections
          /\ ready' \in Seq(Items) /\ recv' \in [Connections -> Seq(Sent)]
      BY <1>1, <1>3, <2>1, CloseKeeps
    <2>3. ServerTypes'
      BY <1>1, <1>3, <1>4, <1>5, <1>6, <1>7, <2>2 DEF ServerTypes
    <2>4. QED
      BY <1>3, <1>8, <1>9, <2>1, <2>3, CloseKeepsEdges
  <1>12. QED
    BY <1>10, <1>11

-----------------------------------------------------------------------------
(* The theorems about places and edges. *)

LEMMA InitEdges ==
    ASSUME ServerInit
    PROVE  EdgeInv
  <1>1. \A kk \in Connections : Nothing(kk) \in Sent
    BY DEF Nothing, Unit, Sent, Length
  <1>2. MaxEvents \in Nat
    BY ServerConstants
  <1>3. ServerTypes
    <2>1. sent \in [Connections -> Sent] /\ over \subseteq Connections
      BY <1>1 DEF ServerInit
    <2>2. events \in Seq(Reported) /\ Len(events) <= MaxEvents /\ ready \in Seq(Items) /\ backlog \in Seq(Connections)
      BY <1>2 DEF ServerInit
    <2>3. QED
      BY <2>1, <2>2 DEF ServerInit, ServerTypes
  <1>4. \A x : ~Listed(x) /\ ~Waiting(x) /\ ~Reporting(x)
    BY ContainsIndex DEF ServerInit, Listed, Waiting, Reporting
  <1>5. Seqs!IsInjective(ready) /\ Seqs!IsInjective(backlog)
    BY DEF ServerInit, Seqs!IsInjective
  <1>6. \A d \in Descriptors : opened[d] = NoConnection
    BY DEF ServerInit
  <1>7. SocketInv
    BY <1>4, <1>5, <1>6 DEF SocketInv
  <1>8. BatchInv
    BY <1>4 DEF BatchInv, ServerInit
  <1>9. EdgesKept
    BY <1>6 DEF EdgesKept, ServerInit
  <1>10. QED
    BY <1>3, <1>7, <1>8, <1>9 DEF EdgeInv

LEMMA NextKeepsEdges ==
    ASSUME EdgeInv, [ServerNext]_serverVars
    PROVE  EdgeInv'
  <1>1. ASSUME NEW k \in Connections, Connect(k) PROVE EdgeInv'
    BY <1>1, ConnectKeepsEdges
  <1>2. ASSUME NEW k \in Connections, Send(k) PROVE EdgeInv'
    BY <1>2, SendKeepsEdges
  <1>3. ASSUME NEW k \in Connections, HangUp(k) PROVE EdgeInv'
    BY <1>3, HangUpKeepsEdges
  <1>4. ASSUME NEW d \in Descriptors, WriteFails(d) PROVE EdgeInv'
    BY <1>4, WriteFailsKeepsEdges
  <1>5. CASE Tick
    BY <1>5, TickKeepsEdges
  <1>6. CASE EpollWait
    BY <1>6, EpollWaitKeepsEdges
  <1>7. CASE Accept
    BY <1>7, AcceptKeepsEdges
  <1>8. CASE HangUpEvent
    BY <1>8, HangUpEventKeepsEdges
  <1>9. CASE ReadableEvent
    BY <1>9, ReadableEventKeepsEdges
  <1>10. CASE ReadNothing
    BY <1>10, ReadNothingKeepsEdges
  <1>11. CASE ReadOver
    BY <1>11, ReadOverKeepsEdges
  <1>12. CASE ReadBytes
    <2>1. PICK d, k, n, buf : /\ Reads(d, k, n, buf)
                              /\ Limit(d) \/ Parse(d, n)
      BY <1>12, ReadBytesCases
    <2>2. QED
      BY <2>1, LimitKeepsEdges, ParseKeepsEdges
  <1>13. CASE UNCHANGED serverVars
    <2>1. UNCHANGED <<sent, over, recv, backlog, opened, ready, events, reading, sock_to_partial_messages,
                      sock_to_msg_timestamps, session, now, handled, limited, neglected>>
      BY <1>13 DEF serverVars, peers, kernel, parser
    <2>2. ServerTypes'
      BY <2>1 DEF EdgeInv, ServerTypes
    <2>3. QED
      BY <2>1, <2>2, EdgesUnchanged
  <1>14. QED
    BY <1>1, <1>2, <1>3, <1>4, <1>5, <1>6, <1>7, <1>8, <1>9, <1>10, <1>11, <1>12, <1>13
    DEF ServerNext, Clients, Run

\* EpollServer::run: the invariant holds in every state of the server.
THEOREM EdgeInvariant == ServerSpec => []EdgeInv
  <1>1. ServerInit => EdgeInv
    BY InitEdges
  <1>2. EdgeInv /\ [ServerNext]_serverVars => EdgeInv'
    BY NextKeepsEdges
  <1>3. QED
    BY <1>1, <1>2, PTL DEF ServerSpec

\* EpollServer::run: every variable stays within its type and a connection is at one
\* place only, for any number of connections.
THEOREM ServerTypesHold == ServerSpec => []ServerTypeOK
  <1>1. EdgeInv => ServerTypeOK
    <2>1. SUFFICES ASSUME EdgeInv PROVE ServerTypeOK
      OBVIOUS
    <2>2. ServerTypes /\ SocketInv
      BY <2>1 DEF EdgeInv
    <2>3. Seqs!ToSet(ready) \subseteq Items
      BY <2>2 DEF ServerTypes, Seqs!ToSet
    <2>4. \A i \in DOMAIN events : events[i].fd \in Descriptors \cup {listen_fd}
      <3>1. events \in Seq(Reported)
        BY <2>2 DEF ServerTypes
      <3>2. \A i \in DOMAIN events : events[i] \in Reported
        BY <3>1
      <3>3. QED
        BY <3>2 DEF Reported
    <2>5. QED
      BY <2>2, <2>3, <2>4 DEF ServerTypeOK, ServerTypes, SocketInv
  <1>2. QED
    BY <1>1, EdgeInvariant, PTL

\* EpollServer::run over an edge-triggered epoll: whatever there is to accept, to read or
\* to close is still to be reported or in hand, but for the edges that run() drops.
THEOREM EdgesAreKept == ServerSpec => []NoEdgeLost
  <1>1. EdgeInv => NoEdgeLost
    <2>1. SUFFICES ASSUME EdgeInv, NEW item \in Items, Pending(item), item \notin neglected
                   PROVE  \/ Seqs!Contains(ready, item)
                          \/ DescriptorOf(item) \in {reading} \cup {events[i].fd : i \in DOMAIN events}
      BY DEF NoEdgeLost
    <2>2. ServerTypes /\ SocketInv /\ EdgesKept
      BY <2>1 DEF EdgeInv
    <2>3. CASE item = listen_fd
      <3>1. Listed(listen_fd) \/ Reporting(listen_fd)
        BY <2>1, <2>2, <2>3 DEF EdgesKept, Pending
      <3>2. QED
        BY <2>3, <3>1 DEF Listed, Reporting, DescriptorOf
    <2>4. CASE item # listen_fd
      <3>1. item \in Connections /\ Open(item) /\ (recv[item] # <<>> \/ item \in over) /\ item # NoConnection
        BY <2>1, <2>4, ServerConstants DEF Pending, Items
      <3>2. PICK d : d = DescriptorOf(item)
        OBVIOUS
      <3>3. d \in Descriptors /\ opened[d] = item
        BY <2>2, <3>1, <3>2, DescriptorIs
      <3>4. Listed(item) \/ d = reading \/ Reporting(d)
        BY <2>1, <2>2, <3>1, <3>3 DEF EdgesKept
      <3>5. QED
        BY <3>2, <3>4 DEF Listed, Reporting
    <2>5. QED
      BY <2>3, <2>4
  <1>2. QED
    BY <1>1, EdgeInvariant, PTL

-----------------------------------------------------------------------------
(* Streams. *)

\* Another unit is sent.
LEMMA StreamGrows ==
    ASSUME NEW k \in Connections, NEW h \in Nat, NEW s \in Seq(Sent), NEW last \in Sent, NEW u \in Sent,
           Streamed(k, h, s, last), last.conn = k, last.at <= Length(last.kind), Follows(last, u)
    PROVE  Streamed(k, h, Append(s, u), u)
  <1>1. PICK t : t = Append(s, u)
    OBVIOUS
  <1>2. PICK l : l = Len(s)
    OBVIOUS
  <1>3. /\ l \in Nat /\ t \in Seq(Sent) /\ Len(t) = l + 1 /\ t # <<>>
        /\ \A i \in 1..l : t[i] = s[i]
        /\ t[l + 1] = u
    BY <1>1, <1>2
  <1>4. u.conn = k
    BY DEF Follows
  <1>5. \A i \in 1..(l + 1) : i \in 1..l \/ i = l + 1
    BY <1>3
  <1>6. \A i \in 1..Len(t) : t[i].conn = k
    BY <1>2, <1>3, <1>4, <1>5 DEF Streamed, Chain, Linked
  <1>7. ASSUME NEW i \in 1..(Len(t) - 1) PROVE Follows(t[i], t[i + 1])
    <2>1. i \in 1..l
      BY <1>3, <1>7
    <2>2. CASE i = l
      <3>1. s # <<>> /\ s[l] = last
        BY <1>2, <1>3, <2>1, <2>2 DEF Streamed
      <3>2. QED
        BY <1>3, <2>1, <2>2, <3>1
    <2>3. CASE i # l
      <3>1. i \in 1..(l - 1) /\ i + 1 \in 1..l
        BY <1>3, <2>1, <2>3
      <3>2. Follows(s[i], s[i + 1])
        BY <1>2, <3>1 DEF Streamed, Chain, Linked
      <3>3. QED
        BY <1>3, <2>1, <3>1, <3>2
    <2>4. QED
      BY <2>2, <2>3
  <1>8. t[1].at = 1 /\ t[1].num = h + 1
    <2>1. CASE s = <<>>
      <3>1. l = 0 /\ last.num = h /\ last.at = Length(last.kind)
        BY <1>2, <2>1 DEF Streamed
      <3>2. ~(last.at < Length(last.kind))
        BY <3>1 DEF Length
      <3>3. QED
        BY <1>3, <3>1, <3>2 DEF Follows
    <2>2. CASE s # <<>>
      <3>1. 1 \in 1..l
        BY <1>2, <1>3, <2>2
      <3>2. QED
        BY <1>3, <2>2, <3>1 DEF Streamed, Chain
    <2>3. QED
      BY <2>1, <2>2
  <1>9. QED
    BY <1>1, <1>3, <1>6, <1>7, <1>8 DEF Streamed, Chain, Linked

\* Messages are taken off the front of what the parser holds and what it has read.
LEMMA StreamShrinks ==
    ASSUME NEW k, NEW h \in Nat, NEW P \in Seq(Sent), NEW R \in Seq(Sent), NEW n \in 0..Len(R), NEW last,
           NEW buf, NEW q, NEW c, Streamed(k, h, P \o R, last), buf = P \o SubSeq(R, 1, n),
           CutAfter(q, buf, c), Chain(k, h, buf) => FramedFrom(q, buf, c, k, h)
    PROVE  /\ Streamed(k, h + Len(q.messages), q.rest \o SubSeq(R, n + 1, Len(R)), last)
           /\ FramedFrom(q, buf, c, k, h)
  <1>1. PICK s : s = P \o R
    OBVIOUS
  <1>2. /\ s \in Seq(Sent) /\ Len(s) = Len(P) + Len(R) /\ Len(P) \in Nat /\ Len(R) \in Nat /\ n \in Nat /\ n <= Len(R)
        /\ \A i \in 1..Len(s) : s[i] = IF i <= Len(P) THEN P[i] ELSE R[i - Len(P)]
    BY <1>1
  <1>3. PICK A : A = SubSeq(R, 1, n)
    OBVIOUS
  <1>4. PICK B : B = SubSeq(R, n + 1, Len(R))
    OBVIOUS
  <1>5. /\ A \in Seq(Sent) /\ Len(A) = n /\ \A j \in 1..n : A[j] = R[j]
        /\ B \in Seq(Sent) /\ Len(B) = Len(R) - n /\ \A j \in 1..(Len(R) - n) : B[j] = R[n + j]
    BY <1>3, <1>4, CutAt
  <1>6. /\ buf \in Seq(Sent) /\ Len(buf) = Len(P) + n
        /\ \A i \in 1..Len(buf) : buf[i] = IF i <= Len(P) THEN P[i] ELSE A[i - Len(P)]
    BY <1>2, <1>3, <1>5
  <1>7. \A i \in 1..Len(buf) : buf[i] = s[i] /\ i \in 1..Len(s)
    <2>1. ASSUME NEW i \in 1..Len(buf) PROVE buf[i] = s[i] /\ i \in 1..Len(s)
      <3>1. i \in 1..Len(s)
        BY <1>2, <1>6
      <3>2. CASE i <= Len(P)
        BY <1>2, <1>6, <3>1, <3>2
      <3>3. CASE ~(i <= Len(P))
        <4>1. i - Len(P) \in 1..n
          BY <1>2, <1>6, <3>3
        <4>2. QED
          BY <1>2, <1>5, <1>6, <3>1, <3>3, <4>1
      <3>4. QED
        BY <3>2, <3>3
    <2>2. QED
      BY <2>1
  <1>8. PICK t : t = q.rest \o B
    OBVIOUS
  <1>9. /\ c \in 0..Len(buf) /\ q.rest \in Seq(Sent) /\ Len(q.rest) = Len(buf) - c /\ c \in Nat
        /\ \A j \in 1..(Len(buf) - c) : q.rest[j] = buf[c + j] /\ c + j \in 1..Len(buf)
    <2>1. c \in 0..Len(buf) /\ q.rest = SubSeq(buf, c + 1, Len(buf))
      BY DEF CutAfter
    <2>2. c \in Nat
      BY <2>1
    <2>3. QED
      BY <1>6, <2>1, <2>2, CutAt
  <1>10. /\ t \in Seq(Sent) /\ Len(t) = Len(s) - c /\ c <= Len(s)
         /\ \A i \in 1..Len(t) : t[i] = IF i <= Len(buf) - c THEN q.rest[i] ELSE B[i - (Len(buf) - c)]
    <2>1. PICK r : r = q.rest
      OBVIOUS
    <2>2. r \in Seq(Sent) /\ Len(r) = Len(buf) - c /\ t = r \o B
      BY <1>8, <1>9, <2>1
    <2>3. /\ t \in Seq(Sent) /\ Len(t) = (Len(buf) - c) + Len(B)
          /\ \A i \in 1..Len(t) : t[i] = IF i <= Len(buf) - c THEN r[i] ELSE B[i - (Len(buf) - c)]
      <3>1. /\ t \in Seq(Sent) /\ Len(t) = Len(r) + Len(B)
            /\ \A i \in 1..Len(t) : t[i] = IF i <= Len(r) THEN r[i] ELSE B[i - Len(r)]
        <4>1. r \in Seq(Sent) /\ B \in Seq(Sent)
          BY <1>5, <2>2
        <4>2. t = r \o B
          BY <2>2
        <4>3. QED
          BY <4>1, <4>2
      <3>2. QED
        BY <2>2, <3>1
    <2>4. Len(t) = Len(s) - c /\ c <= Len(s)
      BY <1>2, <1>5, <1>6, <1>9, <2>3
    <2>5. QED
      BY <2>1, <2>3, <2>4
  <1>11. \A i \in 1..Len(t) : t[i] = s[c + i] /\ c + i \in 1..Len(s)
    <2>1. ASSUME NEW i \in 1..Len(t) PROVE t[i] = s[c + i] /\ c + i \in 1..Len(s)
      <3>1. c + i \in 1..Len(s)
        BY <1>2, <1>9, <1>10
      <3>2. CASE i <= Len(buf) - c
        <4>1. i \in 1..(Len(buf) - c)
          BY <1>2, <1>6, <1>9, <3>2
        <4>2. QED
          BY <1>7, <1>9, <1>10, <3>1, <3>2, <4>1
      <3>3. CASE ~(i <= Len(buf) - c)
        <4>1. PICK j : j = i - (Len(buf) - c)
          OBVIOUS
        <4>2. j \in 1..(Len(R) - n) /\ ~(c + i <= Len(P)) /\ (c + i) - Len(P) = n + j
          BY <1>2, <1>6, <1>9, <1>10, <3>3, <4>1
        <4>3. t[i] = R[n + j]
          BY <1>5, <1>10, <3>3, <4>1, <4>2
        <4>4. s[c + i] = R[n + j]
          BY <1>2, <3>1, <4>2
        <4>5. QED
          BY <3>1, <4>3, <4>4
      <3>4. QED
        BY <3>2, <3>3
    <2>2. QED
      BY <2>1
  <1>12. Streamed(k, h, s, last)
    BY <1>1
  <1>13. Chain(k, h, buf)
    <2>1. \A i \in 1..(Len(buf) - 1) : i \in 1..(Len(s) - 1) /\ i \in 1..Len(buf) /\ i + 1 \in 1..Len(buf)
      BY <1>2, <1>6
    <2>2. Linked(k, buf)
      BY <1>7, <1>12, <2>1 DEF Streamed, Chain, Linked
    <2>3. ASSUME buf # <<>> PROVE buf[1].at = 1 /\ buf[1].num = h + 1
      <3>1. 1 \in 1..Len(buf)
        BY <1>2, <1>6, <2>3
      <3>2. s # <<>>
        BY <1>2, <1>7, <3>1
      <3>3. QED
        BY <1>7, <1>12, <3>1, <3>2 DEF Streamed, Chain
    <2>4. QED
      BY <2>2, <2>3 DEF Chain
  <1>14. FramedFrom(q, buf, c, k, h)
    BY <1>13
  <1>15. PICK m : m = Len(q.messages)
    OBVIOUS
  <1>16. m \in Nat /\ (c = 0 => m = 0)
    BY <1>15 DEF CutAfter
  <1>17. c # 0 => s[c].num = h + m /\ s[c].at = Length(s[c].kind) /\ c \in 1..Len(s)
    <2>1. SUFFICES ASSUME c # 0 PROVE s[c].num = h + m /\ s[c].at = Length(s[c].kind) /\ c \in 1..Len(s)
      OBVIOUS
    <2>2. c \in 1..Len(buf)
      BY <1>9, <2>1
    <2>3. QED
      BY <1>7, <1>14, <1>15, <2>1, <2>2 DEF FramedFrom
  <1>18. Linked(k, t)
    <2>1. \A i \in 1..Len(t) : t[i].conn = k
      BY <1>11, <1>12 DEF Streamed, Chain, Linked
    <2>2. ASSUME NEW i \in 1..(Len(t) - 1) PROVE Follows(t[i], t[i + 1])
      <3>1. i \in 1..Len(t) /\ i + 1 \in 1..Len(t) /\ c + i \in 1..(Len(s) - 1) /\ (c + i) + 1 = c + (i + 1)
        BY <1>2, <1>9, <1>10
      <3>2. Follows(s[c + i], s[(c + i) + 1])
        BY <1>12, <3>1 DEF Streamed, Chain, Linked
      <3>3. QED
        BY <1>11, <3>1, <3>2
    <2>3. QED
      BY <2>1, <2>2 DEF Linked
  <1>19. ASSUME t # <<>> PROVE t[1].at = 1 /\ t[1].num = (h + m) + 1 /\ t[Len(t)] = last
    <2>1. 1 \in 1..Len(t) /\ Len(t) \in 1..Len(t)
      BY <1>10, <1>19
    <2>2. t[1] = s[c + 1] /\ t[Len(t)] = s[Len(s)] /\ s # <<>>
      <3>1. c + Len(t) = Len(s) /\ Len(s) # 0
        BY <1>2, <1>9, <1>10, <2>1
      <3>2. s # <<>>
        BY <3>1
      <3>3. t[1] = s[c + 1] /\ t[Len(t)] = s[c + Len(t)]
        BY <1>11, <2>1
      <3>4. QED
        BY <3>1, <3>2, <3>3
    <2>3. t[Len(t)] = last
      BY <1>12, <2>2 DEF Streamed
    <2>4. CASE c = 0
      BY <1>12, <1>16, <2>2, <2>3, <2>4 DEF Streamed, Chain
    <2>5. CASE c # 0
      <3>1. c \in 1..(Len(s) - 1)
        BY <1>2, <1>9, <1>10, <2>1, <2>5
      <3>2. Follows(s[c], s[c + 1])
        BY <1>12, <3>1 DEF Streamed, Chain, Linked
      <3>3. ~(s[c].at < Length(s[c].kind))
        BY <1>17, <2>5 DEF Length
      <3>4. QED
        BY <1>17, <2>2, <2>3, <2>5, <3>2, <3>3 DEF Follows
    <2>6. QED
      BY <2>4, <2>5
  <1>20. ASSUME t = <<>> PROVE last.num = h + m /\ last.at = Length(last.kind)
    <2>1. c = Len(s)
      BY <1>2, <1>9, <1>10, <1>20
    <2>2. CASE c = 0
      <3>1. s = <<>>
        BY <1>2, <2>1, <2>2
      <3>2. QED
        BY <1>12, <1>16, <2>2, <3>1 DEF Streamed
    <2>3. CASE c # 0
      <3>1. s # <<>>
        BY <2>1, <2>3
      <3>2. QED
        BY <1>12, <1>17, <2>1, <2>3, <3>1 DEF Streamed
    <2>4. QED
      BY <2>2, <2>3
  <1>21. Streamed(k, h + m, t, last)
    BY <1>18, <1>19, <1>20 DEF Streamed, Chain
  <1>22. QED
    BY <1>4, <1>8, <1>14, <1>15, <1>21

-----------------------------------------------------------------------------
(* Streams are framed. *)

\* Nothing that the streams are about changes.
LEMMA FramesUnchanged ==
    ASSUME FrameInv, UNCHANGED <<sent, recv, backlog, opened, sock_to_partial_messages, handled>>, over \subseteq over'
    PROVE  FrameInv'
  <1>1. \A x : (Open(x)' <=> Open(x)) /\ (Waiting(x)' <=> Waiting(x))
    BY DEF Open, Waiting
  <1>2. FramedExactly'
    BY DEF FrameInv, FramedExactly
  <1>3. QED
    BY <1>1, <1>2 DEF FrameInv

LEMMA ConnectKeepsFrames ==
    ASSUME EdgeInv, FrameInv, NEW k \in Connections, Connect(k)
    PROVE  FrameInv'
  <1>1. /\ backlog' = Append(backlog, k) /\ ~Waiting(k) /\ ~Open(k) /\ sent[k] = Nothing(k) /\ k \notin over
        /\ UNCHANGED <<sent, over, recv, opened, sock_to_partial_messages, handled>>
    BY DEF Connect, peers, parser
  <1>2. backlog \in Seq(Connections)
    BY DEF EdgeInv, ServerTypes
  <1>3. \A x : (Waiting(x)' <=> Waiting(x) \/ x = k) /\ (Open(x)' <=> Open(x))
    BY <1>1, <1>2, Appended DEF Waiting, Open
  <1>4. handled[k] = <<>> /\ recv[k] = <<>>
    BY <1>1 DEF FrameInv
  <1>5. Streamed(k, 0, recv[k], sent[k])
    <2>1. sent[k].num = 0 /\ sent[k].at = Length(sent[k].kind)
      BY <1>1 DEF Nothing, Unit, Length
    <2>2. recv[k] = <<>> /\ Len(recv[k]) = 0
      BY <1>4
    <2>3. QED
      BY <2>1, <2>2 DEF Streamed, Chain, Linked
  <1>6. FramedExactly'
    BY <1>1 DEF FrameInv, FramedExactly
  <1>7. QED
    BY <1>1, <1>3, <1>4, <1>5, <1>6 DEF FrameInv

LEMMA SendKeepsFrames ==
    ASSUME EdgeInv, FrameInv, NEW k \in Connections, Send(k)
    PROVE  FrameInv'
  <1>1. ServerTypes /\ SocketInv
    BY DEF EdgeInv
  <1>2. PICK u \in Following(sent[k]) :
            /\ sent' = [sent EXCEPT ![k] = u] /\ recv' = [recv EXCEPT ![k] = Append(@, u)]
    BY DEF Send
  <1>3. /\ Waiting(k) \/ Open(k)
        /\ UNCHANGED <<over, backlog, opened, sock_to_partial_messages, handled>>
    BY DEF Send, parser
  <1>4. PICK last : last = sent[k]
    OBVIOUS
  <1>5. last \in Sent /\ last.conn = k /\ last.at <= Length(last.kind)
    BY <1>1, <1>4 DEF ServerTypes, FrameInv
  <1>6. u \in Sent /\ Follows(last, u) /\ u.at <= Length(u.kind) /\ u.conn = k
    <2>1. u \in Sent /\ Follows(last, u) /\ u.at <= Length(u.kind)
      BY <1>2, <1>4, <1>5, FollowingSent
    <2>2. QED
      BY <1>5, <2>1 DEF Follows
  <1>7. /\ sent'[k] = u /\ recv'[k] = Append(recv[k], u) /\ recv[k] \in Seq(Sent)
        /\ \A j \in Connections \ {k} : sent'[j] = sent[j] /\ recv'[j] = recv[j]
    BY <1>1, <1>2 DEF ServerTypes
  <1>8. \A x : (Open(x)' <=> Open(x)) /\ (Waiting(x)' <=> Waiting(x))
    BY <1>3 DEF Open, Waiting
  <1>9. FramedExactly'
    BY <1>3 DEF FrameInv, FramedExactly
  <1>10. ASSUME NEW j \in Connections
         PROVE  /\ sent'[j].conn = j /\ sent'[j].at <= Length(sent'[j].kind)
                /\ Waiting(j)' => handled'[j] = <<>> /\ Streamed(j, 0, recv'[j], sent'[j])
                /\ j \notin over' /\ ~Waiting(j)' /\ ~Open(j)' => handled'[j] = <<>> /\ recv'[j] = <<>>
    <2>1. CASE j # k
      BY <1>3, <1>7, <1>8, <2>1 DEF FrameInv
    <2>2. CASE j = k
      <3>1. ASSUME Waiting(k) PROVE handled[k] = <<>> /\ Streamed(k, 0, recv'[k], u)
        <4>1. handled[k] = <<>> /\ Streamed(k, 0, recv[k], last)
          BY <1>4, <3>1 DEF FrameInv
        <4>2. QED
          BY <1>5, <1>6, <1>7, <4>1, StreamGrows
      <3>2. QED
        BY <1>3, <1>6, <1>7, <1>8, <2>2, <3>1
    <2>3. QED
      BY <2>1, <2>2
  <1>11. ASSUME NEW d \in Descriptors, opened'[d] # NoConnection
         PROVE  Streamed(opened'[d], Len(handled'[opened'[d]]), sock_to_partial_messages'[d] \o recv'[opened'[d]], sent'[opened'[d]])
    <2>1. PICK j : j = opened[d]
      OBVIOUS
    <2>2. PICK P : P = sock_to_partial_messages[d]
      OBVIOUS
    <2>3. j \in Connections /\ P \in Seq(Sent) /\ Len(handled[j]) \in Nat
      BY <1>1, <1>3, <1>11, <2>1, <2>2 DEF ServerTypes
    <2>4. Streamed(j, Len(handled[j]), P \o recv[j], sent[j])
      BY <1>3, <1>11, <2>1, <2>2 DEF FrameInv
    <2>5. Streamed(j, Len(handled[j]), P \o recv'[j], sent'[j])
      <3>1. CASE j # k
        BY <1>7, <2>3, <2>4, <3>1
      <3>2. CASE j = k
        <4>1. P \o recv[k] \in Seq(Sent) /\ P \o Append(recv[k], u) = Append(P \o recv[k], u)
          BY <1>6, <1>7, <2>3
        <4>2. Streamed(k, Len(handled[k]), Append(P \o recv[k], u), u)
          BY <1>4, <1>5, <1>6, <2>3, <2>4, <3>2, <4>1, StreamGrows
        <4>3. QED
          BY <1>7, <3>2, <4>1, <4>2
      <3>3. QED
        BY <3>1, <3>2
    <2>6. QED
      BY <1>3, <2>1, <2>2, <2>5
  <1>12. QED
    BY <1>9, <1>10, <1>11 DEF FrameInv

LEMMA AcceptKeepsFrames ==
    ASSUME EdgeInv, FrameInv, Accept
    PROVE  FrameInv'
  <1>1. ServerTypes /\ SocketInv /\ BatchInv
    BY DEF EdgeInv
  <1>2. PICK k : k = Head(backlog)
    OBVIOUS
  <1>3. PICK d : d = FSets!Min({e \in Descriptors : opened[e] = NoConnection})
    OBVIOUS
  <1>4. /\ events # <<>> /\ Event.fd = listen_fd /\ backlog' = Tail(backlog) /\ events' = Tail(events)
        /\ opened' = [opened EXCEPT ![d] = k]
        /\ sock_to_partial_messages' = [sock_to_partial_messages EXCEPT ![d] = <<>>]
        /\ UNCHANGED <<sent, over, recv, handled>>
    BY <1>2, <1>3 DEF Accept, Handling, peers, NewSocket
  <1>5. backlog # <<>>
    BY <1>1, <1>4, EventDone DEF BatchInv
  <1>6. d \in Descriptors /\ opened[d] = NoConnection
    BY <1>1, <1>3, <1>5, FreeDescriptor
  <1>7. k \in Connections /\ Waiting(k) /\ \A x : Waiting(x)' <=> Waiting(x) /\ x # k
    BY <1>1, <1>2, <1>4, <1>5, HeadGone DEF ServerTypes, SocketInv, Waiting
  <1>8. opened'[d] = k /\ \A e \in Descriptors \ {d} : opened'[e] = opened[e]
    BY <1>1, <1>4, <1>6 DEF ServerTypes
  <1>9. \A x \in Connections : Open(x) \/ x = k => Open(x)'
    BY <1>6, <1>8, ServerConstants DEF Open
  <1>10. FramedExactly'
    BY <1>4 DEF FrameInv, FramedExactly
  <1>11. ASSUME NEW e \in Descriptors, opened'[e] # NoConnection
         PROVE  Streamed(opened'[e], Len(handled[opened'[e]]), sock_to_partial_messages'[e] \o recv[opened'[e]], sent[opened'[e]])
    <2>1. CASE e = d
      <3>1. handled[k] = <<>> /\ Streamed(k, 0, recv[k], sent[k])
        BY <1>7 DEF FrameInv
      <3>2. sock_to_partial_messages'[d] = <<>> /\ recv[k] \in Seq(Sent)
        BY <1>1, <1>4, <1>6, <1>7 DEF ServerTypes
      <3>3. <<>> \o recv[k] = recv[k] /\ Len(handled[k]) = 0
        BY <3>1, <3>2
      <3>4. QED
        BY <1>8, <2>1, <3>1, <3>2, <3>3
    <2>2. CASE e # d
      <3>1. sock_to_partial_messages'[e] = sock_to_partial_messages[e]
        BY <1>1, <1>4, <2>2 DEF ServerTypes
      <3>2. QED
        BY <1>8, <1>11, <2>2, <3>1 DEF FrameInv
    <2>3. QED
      BY <2>1, <2>2
  <1>12. QED
    BY <1>4, <1>7, <1>9, <1>10, <1>11 DEF FrameInv

\* close() ends the streams of these descriptors; what was handled of the others stays.
LEMMA CloseKeepsFrames ==
    ASSUME EdgeInv, FrameInv, NEW D \in SUBSET Descriptors, Close(D), UNCHANGED <<backlog, sent>>, FramedExactly',
           \A d \in Descriptors \ D : sock_to_partial_messages'[d] = sock_to_partial_messages[d],
           \A k \in Connections : handled'[k] = handled[k] \/ \E d \in D : opened[d] = k
    PROVE  FrameInv'
  <1>1. ServerTypes /\ SocketInv
    BY DEF EdgeInv
  <1>2. /\ over \subseteq over'
        /\ \A d \in Descriptors : opened'[d] = IF d \in D THEN NoConnection ELSE opened[d]
        /\ \A d \in Descriptors : opened'[d] # NoConnection => Untouched(opened[d])
        /\ \A k \in Connections : Waiting(k) => Untouched(k)
        /\ \A k \in Connections : ~Open(k)' /\ Open(k) => k \in over' /\ recv'[k] = <<>>
        /\ \A k \in Connections : ~Open(k) => Untouched(k)
    BY <1>1, CloseKeeps
  <1>3. \A k \in Connections : ~Open(k) => handled'[k] = handled[k]
    BY DEF Open
  <1>4. ASSUME NEW k \in Connections
        PROVE  /\ sent'[k].conn = k /\ sent'[k].at <= Length(sent'[k].kind)
               /\ Waiting(k)' => handled'[k] = <<>> /\ Streamed(k, 0, recv'[k], sent'[k])
               /\ k \notin over' /\ ~Waiting(k)' /\ ~Open(k)' => handled'[k] = <<>> /\ recv'[k] = <<>>
    <2>1. Waiting(k)' <=> Waiting(k)
      BY DEF Waiting
    <2>2. ASSUME Waiting(k) PROVE handled'[k] = <<>> /\ Streamed(k, 0, recv'[k], sent'[k])
      <3>1. ~Open(k) /\ Untouched(k)
        BY <1>1, <1>2, <2>2 DEF SocketInv
      <3>2. handled'[k] = handled[k] /\ recv'[k] = recv[k]
        BY <1>3, <3>1 DEF Untouched
      <3>3. QED
        BY <2>2, <3>2 DEF FrameInv
    <2>3. ASSUME k \notin over', ~Waiting(k), ~Open(k)' PROVE handled'[k] = <<>> /\ recv'[k] = <<>>
      <3>1. ~Open(k)
        BY <1>2, <2>3
      <3>2. k \notin over /\ handled'[k] = handled[k] /\ recv'[k] = recv[k]
        BY <1>2, <1>3, <2>3, <3>1 DEF Untouched
      <3>3. QED
        BY <2>3, <3>1, <3>2 DEF FrameInv
    <2>4. QED
      BY <2>1, <2>2, <2>3 DEF FrameInv
  <1>5. ASSUME NEW d \in Descriptors, opened'[d] # NoConnection
        PROVE  Streamed(opened'[d], Len(handled'[opened'[d]]), sock_to_partial_messages'[d] \o recv'[opened'[d]], sent'[opened'[d]])
    <2>1. d \notin D /\ opened'[d] = opened[d] /\ opened[d] \in Connections
      BY <1>1, <1>2, <1>5 DEF ServerTypes
    <2>2. PICK k : k = opened[d]
      OBVIOUS
    <2>3. recv'[k] = recv[k] /\ sock_to_partial_messages'[d] = sock_to_partial_messages[d]
      BY <1>2, <1>5, <2>1, <2>2 DEF Untouched
    <2>4. handled'[k] = handled[k]
      <3>1. \A e \in D : opened[e] # k
        BY <1>1, <1>5, <2>1, <2>2 DEF SocketInv
      <3>2. QED
        BY <2>1, <2>2, <3>1
    <2>5. Streamed(k, Len(handled[k]), sock_to_partial_messages[d] \o recv[k], sent[k])
      BY <1>5, <2>1, <2>2 DEF FrameInv
    <2>6. QED
      BY <2>1, <2>2, <2>3, <2>4, <2>5
  <1>6. QED
    BY <1>4, <1>5 DEF FrameInv

\* The messages of a read are whole, are the next ones, and are handled in order.
LEMMA ParseKeepsFrames ==
    ASSUME EdgeInv, FrameInv, NEW d, NEW k, NEW n, NEW buf, Reads(d, k, n, buf), Parse(d, n)
    PROVE  FrameInv'
  <1>1. ServerTypes /\ SocketInv
    BY DEF EdgeInv
  <1>2. PICK messages, rest, closed : ParsedInto(d, k, n, buf, messages, rest, closed)
    BY <1>1, ParseInto
  <1>3. /\ d \in Descriptors /\ k \in Connections /\ k = opened[d] /\ Open(k) /\ n \in 1..Len(recv[k])
        /\ buf = sock_to_partial_messages[d] \o SubSeq(recv[k], 1, n) /\ buf \in Seq(Sent)
        /\ UNCHANGED <<sent, backlog, now>>
    BY DEF Reads, Buffered
  <1>4. /\ messages = Parsed(buf).messages /\ rest = Parsed(buf).rest /\ messages \in Seq(Seq(Sent))
        /\ sock_to_partial_messages' = [sock_to_partial_messages EXCEPT ![d] = rest]
        /\ handled' = [handled EXCEPT ![k] = @ \o [i \in DOMAIN messages |-> [units |-> messages[i], at |-> now]]]
        /\ closed \subseteq Descriptors /\ (closed # {} => d \in closed)
        /\ IF closed = {} THEN recv' = [recv EXCEPT ![k] = SubSeq(@, n + 1, Len(@))] /\ UNCHANGED <<opened, over, ready>>
           ELSE Close(closed)
    BY <1>2 DEF ParsedInto, Dispatched, Rest
  <1>5. PICK h : h = Len(handled[k])
    OBVIOUS
  <1>6. PICK P : P = sock_to_partial_messages[d]
    OBVIOUS
  <1>7. PICK R : R = recv[k]
    OBVIOUS
  <1>8. /\ h \in Nat /\ P \in Seq(Sent) /\ R \in Seq(Sent) /\ k # NoConnection /\ n \in 0..Len(R)
        /\ handled[k] \in Seq([units : Seq(Sent), at : Nat])
    <2>1. handled[k] \in Seq([units : Seq(Sent), at : Nat]) /\ P \in Seq(Sent) /\ R \in Seq(Sent) /\ k # NoConnection
      BY <1>1, <1>3, <1>6, <1>7, ServerConstants DEF ServerTypes
    <2>2. h \in Nat /\ Len(R) \in Nat
      BY <1>5, <2>1
    <2>3. QED
      BY <1>3, <1>7, <2>1, <2>2
  <1>9. PICK q : q = Parsed(buf)
    OBVIOUS
  <1>10. PICK c : CutAfter(q, buf, c) /\ \A kk, hh : hh \in Nat /\ Chain(kk, hh, buf) => FramedFrom(q, buf, c, kk, hh)
    BY <1>3, <1>9, ParsedCut
  <1>11. /\ Streamed(k, h + Len(q.messages), q.rest \o SubSeq(R, n + 1, Len(R)), sent[k])
         /\ FramedFrom(q, buf, c, k, h)
    <2>1. Streamed(k, h, P \o R, sent[k])
      BY <1>3, <1>5, <1>6, <1>7, <1>8 DEF FrameInv
    <2>2. buf = P \o SubSeq(R, 1, n) /\ (Chain(k, h, buf) => FramedFrom(q, buf, c, k, h))
      BY <1>3, <1>6, <1>7, <1>8, <1>10
    <2>3. QED
      BY <1>8, <1>10, <2>1, <2>2, StreamShrinks
  <1>12. PICK more : more = [i \in DOMAIN messages |-> [units |-> messages[i], at |-> now]]
    OBVIOUS
  <1>13. PICK m : m = Len(messages)
    OBVIOUS
  <1>14. m \in Nat /\ DOMAIN messages = 1..m /\ \A j \in 1..m : messages[j] \in Seq(Sent) /\ messages[j] # <<>>
    BY <1>4, <1>9, <1>10, <1>13 DEF CutAfter
  <1>15. PICK H : H = handled[k] \o more
    OBVIOUS
  <1>16. /\ Len(H) = h + m /\ DOMAIN H = 1..(h + m)
         /\ \A i \in 1..h : H[i] = handled[k][i]
         /\ \A j \in 1..m : H[h + j].units = messages[j]
    <2>1. PICK T : T = [units : Seq(Sent), at : Nat]
      OBVIOUS
    <2>2. more \in Seq(T) /\ Len(more) = m /\ handled[k] \in Seq(T)
      BY <1>1, <1>4, <1>8, <1>12, <1>13, <2>1, StampedMessages DEF ServerTypes
    <2>3. /\ Len(H) = h + m /\ DOMAIN H = 1..(h + m)
          /\ \A i \in 1..(h + m) : H[i] = IF i <= h THEN handled[k][i] ELSE more[i - h]
      <3>1. PICK G : G = handled[k]
        OBVIOUS
      <3>2. G \in Seq(T) /\ h = Len(G) /\ H = G \o more
        BY <1>5, <1>15, <2>2, <3>1
      <3>3. /\ H \in Seq(T) /\ Len(H) = Len(G) + Len(more)
            /\ \A i \in 1..(Len(G) + Len(more)) : H[i] = IF i <= Len(G) THEN G[i] ELSE more[i - Len(G)]
        BY <2>2, <3>2, ConcatProperties
      <3>4. QED
        BY <2>2, <3>1, <3>2, <3>3
    <2>4. \A i \in 1..h : H[i] = handled[k][i]
      BY <1>8, <1>14, <2>3
    <2>5. \A j \in 1..m : H[h + j] = more[j]
      <3>1. \A j \in 1..m : h + j \in 1..(h + m) /\ ~(h + j <= h) /\ (h + j) - h = j
        BY <1>8, <1>14
      <3>2. QED
        BY <2>3, <3>1
    <2>6. \A j \in 1..m : more[j].units = messages[j]
      BY <1>12, <1>14
    <2>7. QED
      BY <2>3, <2>4, <2>5, <2>6
  <1>17. handled' = [handled EXCEPT ![k] = H]
    BY <1>4, <1>12, <1>15
  <1>18. /\ handled'[k] = H /\ \A j \in Connections \ {k} : handled'[j] = handled[j]
    BY <1>1, <1>3, <1>17 DEF ServerTypes
  <1>19. FramedExactly'
    <2>1. ASSUME NEW i \in DOMAIN H PROVE H[i].units = Units(k, i, Head(H[i].units).kind)
      <3>1. CASE i \in 1..h
        <4>1. i \in DOMAIN handled[k]
          BY <1>5, <1>8, <3>1
        <4>2. handled[k][i].units = Units(k, i, Head(handled[k][i].units).kind)
          BY <1>3, <4>1 DEF FrameInv, FramedExactly
        <4>3. QED
          BY <1>16, <3>1, <4>2
      <3>2. CASE i \notin 1..h
        <4>1. PICK j : j = i - h
          OBVIOUS
        <4>2. j \in 1..m /\ i = h + j
          BY <1>8, <1>14, <1>16, <2>1, <3>2, <4>1
        <4>3. messages[j] = Units(k, i, messages[j][1].kind)
          BY <1>4, <1>9, <1>11, <1>14, <4>2 DEF FramedFrom
        <4>4. Head(messages[j]) = messages[j][1]
          BY <1>14, <4>2
        <4>5. H[i].units = messages[j]
          BY <1>16, <4>2
        <4>6. QED
          BY <4>3, <4>4, <4>5
      <3>3. QED
        BY <3>1, <3>2
    <2>2. \A j \in Connections \ {k} : \A i \in DOMAIN handled[j] :
             handled[j][i].units = Units(j, i, Head(handled[j][i].units).kind)
      BY DEF FrameInv, FramedExactly
    <2>3. QED
      BY <1>18, <2>1, <2>2 DEF FramedExactly
  <1>20. CASE closed = {}
    <2>1. recv' = [recv EXCEPT ![k] = SubSeq(@, n + 1, Len(@))] /\ UNCHANGED <<opened, over>>
      BY <1>4, <1>20
    <2>2. recv'[k] = SubSeq(R, n + 1, Len(R)) /\ \A j \in Connections \ {k} : recv'[j] = recv[j]
      BY <1>1, <1>3, <1>7, <2>1 DEF ServerTypes
    <2>3. \A x : (Open(x)' <=> Open(x)) /\ (Waiting(x)' <=> Waiting(x))
      BY <1>3, <2>1 DEF Open, Waiting
    <2>4. ~Waiting(k)
      BY <1>1, <1>3 DEF SocketInv
    <2>5. ASSUME NEW j \in Connections
          PROVE  /\ sent'[j].conn = j /\ sent'[j].at <= Length(sent'[j].kind)
                 /\ Waiting(j)' => handled'[j] = <<>> /\ Streamed(j, 0, recv'[j], sent'[j])
                 /\ j \notin over' /\ ~Waiting(j)' /\ ~Open(j)' => handled'[j] = <<>> /\ recv'[j] = <<>>
      <3>1. CASE j = k
        BY <1>3, <2>3, <2>4, <3>1 DEF FrameInv
      <3>2. CASE j # k
        BY <1>3, <1>18, <2>1, <2>2, <2>3, <3>2 DEF FrameInv
      <3>3. QED
        BY <3>1, <3>2
    <2>6. ASSUME NEW e \in Descriptors, opened[e] # NoConnection
          PROVE  Streamed(opened[e], Len(handled'[opened[e]]), sock_to_partial_messages'[e] \o recv'[opened[e]], sent[opened[e]])
      <3>1. CASE e = d
        <4>1. sock_to_partial_messages'[d] = q.rest
          BY <1>1, <1>3, <1>4, <1>9 DEF ServerTypes
        <4>2. Len(handled'[k]) = h + Len(q.messages)
          BY <1>4, <1>9, <1>13, <1>16, <1>18
        <4>3. QED
          BY <1>3, <1>11, <2>2, <3>1, <4>1, <4>2
      <3>2. CASE e # d
        <4>1. opened[e] \in Connections \ {k}
          BY <1>1, <1>3, <2>6, <3>2 DEF SocketInv, ServerTypes
        <4>2. sock_to_partial_messages'[e] = sock_to_partial_messages[e]
          BY <1>1, <1>4, <3>2 DEF ServerTypes
        <4>3. QED
          BY <1>18, <2>2, <2>6, <4>1, <4>2 DEF FrameInv
      <3>3. QED
        BY <3>1, <3>2
    <2>7. QED
      BY <1>3, <1>19, <2>1, <2>5, <2>6 DEF FrameInv
  <1>21. CASE closed # {}
    <2>1. Close(closed) /\ d \in closed /\ closed \in SUBSET Descriptors
      BY <1>4, <1>21
    <2>2. \A e \in Descriptors \ closed : sock_to_partial_messages'[e] = sock_to_partial_messages[e]
      BY <1>1, <1>4, <2>1 DEF ServerTypes
    <2>3. \A j \in Connections : handled'[j] = handled[j] \/ \E e \in closed : opened[e] = j
      BY <1>3, <1>18, <2>1
    <2>4. QED
      BY <1>3, <1>19, <2>1, <2>2, <2>3, CloseKeepsFrames
  <1>22. QED
    BY <1>20, <1>21

\* The other steps that close a socket; the parser forgets what it holds, or keeps it.
LEMMA SocketStepsKeepFrames ==
    ASSUME EdgeInv, FrameInv, NEW d \in Descriptors, Close({d}), UNCHANGED <<backlog, sent, handled>>,
           \A e \in Descriptors \ {d} : sock_to_partial_messages'[e] = sock_to_partial_messages[e]
    PROVE  FrameInv'
  <1>1. FramedExactly'
    BY DEF FrameInv, FramedExactly
  <1>2. QED
    BY <1>1, CloseKeepsFrames

LEMMA NextKeepsFrames ==
    ASSUME EdgeInv, FrameInv, [ServerNext]_serverVars
    PROVE  FrameInv'
  <1>1. ServerTypes
    BY DEF EdgeInv
  <1>2. ASSUME NEW k \in Connections, Connect(k) PROVE FrameInv'
    BY <1>2, ConnectKeepsFrames
  <1>3. ASSUME NEW k \in Connections, Send(k) PROVE FrameInv'
    BY <1>3, SendKeepsFrames
  <1>4. ASSUME NEW k \in Connections, HangUp(k) PROVE FrameInv'
    BY <1>4, FramesUnchanged DEF HangUp, parser
  <1>5. ASSUME NEW d \in Descriptors, WriteFails(d) PROVE FrameInv'
    BY <1>5, SocketStepsKeepFrames DEF WriteFails, parser
  <1>6. CASE Tick
    BY <1>6, FramesUnchanged DEF Tick, peers, kernel, parser
  <1>7. CASE EpollWait
    BY <1>7, FramesUnchanged DEF EpollWait, peers, parser
  <1>8. CASE Accept
    BY <1>8, AcceptKeepsFrames
  <1>9. CASE HangUpEvent
    <2>1. Event.fd \in Descriptors
      <3>1. events \in Seq(Reported) /\ events # <<>> /\ Event.fd # listen_fd /\ Event = Head(events)
        BY <1>1, <1>9 DEF ServerTypes, HangUpEvent, Handling, Event
      <3>2. Event \in Reported
        BY <3>1
      <3>3. QED
        BY <3>1, <3>2 DEF Reported
    <2>2. PICK d : d = Event.fd
      OBVIOUS
    <2>3. /\ Close({d}) /\ UNCHANGED <<backlog, sent, handled>>
          /\ sock_to_partial_messages' = [sock_to_partial_messages EXCEPT ![d] = <<>>]
      BY <1>9, <2>2 DEF HangUpEvent, SocketClosed
    <2>4. \A e \in Descriptors \ {d} : sock_to_partial_messages'[e] = sock_to_partial_messages[e]
      BY <1>1, <2>3 DEF ServerTypes
    <2>5. QED
      BY <2>1, <2>2, <2>3, <2>4, SocketStepsKeepFrames
  <1>10. CASE ReadableEvent
    BY <1>10, FramesUnchanged DEF ReadableEvent, peers, kernel, parser
  <1>11. CASE ReadNothing
    BY <1>11, FramesUnchanged DEF ReadNothing, peers, kernel, parser
  <1>12. CASE ReadOver
    <2>1. PICK d : d = reading
      OBVIOUS
    <2>2. /\ d \in Descriptors /\ Close({d}) /\ UNCHANGED <<backlog, sent, handled>>
          /\ sock_to_partial_messages' = [sock_to_partial_messages EXCEPT ![d] = <<>>]
      BY <1>1, <1>12, <2>1 DEF ServerTypes, ReadOver, SocketClosed
    <2>3. \A e \in Descriptors \ {d} : sock_to_partial_messages'[e] = sock_to_partial_messages[e]
      BY <1>1, <2>2 DEF ServerTypes
    <2>4. QED
      BY <2>2, <2>3, SocketStepsKeepFrames
  <1>13. CASE ReadBytes
    <2>1. PICK d, k, n, buf : Reads(d, k, n, buf) /\ (Limit(d) \/ Parse(d, n))
      BY <1>13, ReadBytesCases
    <2>2. CASE Limit(d)
      <3>1. d \in Descriptors /\ Close({d}) /\ UNCHANGED <<backlog, sent, handled, sock_to_partial_messages>>
        BY <2>1, <2>2 DEF Reads, Limit
      <3>2. QED
        BY <3>1, SocketStepsKeepFrames
    <2>3. QED
      BY <2>1, <2>2, ParseKeepsFrames
  <1>14. CASE UNCHANGED serverVars
    BY <1>14, FramesUnchanged DEF serverVars, peers, kernel, parser
  <1>15. QED
    BY <1>2, <1>3, <1>4, <1>5, <1>6, <1>7, <1>8, <1>9, <1>10, <1>11, <1>12, <1>13, <1>14
    DEF ServerNext, Clients, Run

LEMMA InitFrames ==
    ASSUME ServerInit
    PROVE  FrameInv
  <1>1. \A k \in Connections : handled[k] = <<>> /\ recv[k] = <<>> /\ sent[k] = Nothing(k)
    BY DEF ServerInit
  <1>2. \A k \in Connections : sent[k].conn = k /\ sent[k].at <= Length(sent[k].kind)
    <2>1. \A k \in Connections : Nothing(k).conn = k /\ Nothing(k).at = 2 /\ Nothing(k).kind = "order"
      BY DEF Nothing, Unit, Length
    <2>2. Length("order") = 2
      BY DEF Length
    <2>3. QED
      BY <1>1, <2>1, <2>2
  <1>3. \A k \in Connections : ~Waiting(k)
    BY ContainsIndex DEF ServerInit, Waiting
  <1>4. \A d \in Descriptors : opened[d] = NoConnection
    BY DEF ServerInit
  <1>5. FramedExactly
    BY <1>1 DEF FramedExactly
  <1>6. QED
    BY <1>1, <1>2, <1>3, <1>4, <1>5 DEF FrameInv

\* StreamParser::parse: however a stream is cut into reads and wherever its descriptor has
\* been used before, the handler gets its messages whole, in order and once.
THEOREM MessagesAreFramed == ServerSpec => []FramedExactly
  <1>1. ServerInit => FrameInv
    BY InitFrames
  <1>2. EdgeInv /\ FrameInv /\ [ServerNext]_serverVars => FrameInv'
    BY NextKeepsFrames
  <1>3. FrameInv => FramedExactly
    BY DEF FrameInv
  <1>4. QED
    BY <1>1, <1>2, <1>3, EdgeInvariant, PTL DEF ServerSpec

-----------------------------------------------------------------------------
(* Times. *)

\* t are the members of s from m + 1 to n, which are those of S.
SuffixOf(t, s, S, n, m) ==
    /\ m \in 0..n /\ Len(t) = n - m
    /\ \A i \in 1..(n - m) : t[i] = s[m + i]
    /\ \A i \in 1..m : s[i] \notin S
    /\ \A i \in 1..n : i > m => s[i] \in S

\* What is kept is the end of the list, when the members of S are at the end.
LEMMA KeptSuffix ==
    ASSUME NEW T, NEW s \in Seq(T), NEW S, \A i, j \in 1..Len(s) : i <= j /\ s[i] \in S => s[j] \in S
    PROVE  \E m : SuffixOf(Kept(s, S), s, S, Len(s), m)
  <1>1. Len(s) \in Nat
    OBVIOUS
  <1>2. PICK f : KeptBy(f, s, S, Len(s)) /\ Kept(s, S) = f[Len(s)]
    BY <1>1, KeptStepwise
  <1> DEFINE N == {n \in Nat : f[n] \in Seq(T) /\ \E m : SuffixOf(f[n], s, S, n, m)}
  <1>3. 0 \in N
    <2>1. f[0] = <<>>
      BY <1>1, <1>2 DEF KeptBy
    <2>2. f[0] \in Seq(T) /\ SuffixOf(f[0], s, S, 0, 0)
      BY <2>1 DEF SuffixOf
    <2>3. QED
      BY <2>2
  <1>4. ASSUME NEW n \in 0..(Len(s) - 1), n \in N
        PROVE  n + 1 \in N
    <2>1. PICK m : SuffixOf(f[n], s, S, n, m)
      BY <1>4
    <2>2. PICK t : t = f[n]
      OBVIOUS
    <2>3. /\ t \in Seq(T) /\ m \in 0..n /\ Len(t) = n - m /\ n \in Nat /\ m \in Nat
          /\ \A i \in 1..(n - m) : t[i] = s[m + i]
          /\ \A i \in 1..m : s[i] \notin S
          /\ \A i \in 1..n : i > m => s[i] \in S
      BY <1>1, <1>4, <2>1, <2>2 DEF SuffixOf
    <2>4. /\ f[n + 1] = IF s[n + 1] \in S THEN Append(t, s[n + 1]) ELSE t
          /\ n + 1 \in 1..Len(s) /\ s[n + 1] \in T
      <3>1. n + 1 \in 0..Len(s) /\ n + 1 # 0 /\ (n + 1) - 1 = n /\ n + 1 \in 1..Len(s)
        BY <1>1, <1>4
      <3>2. f[n + 1] = IF n + 1 = 0 THEN <<>>
                       ELSE IF s[n + 1] \in S THEN Append(f[(n + 1) - 1], s[n + 1]) ELSE f[(n + 1) - 1]
        BY <1>2, <3>1 DEF KeptBy
      <3>3. s[n + 1] \in T
        BY <3>1
      <3>4. QED
        BY <2>2, <3>1, <3>2, <3>3
    <2>5. \A i \in 1..(n + 1) : i \in 1..n \/ i = n + 1
      BY <2>3
    <2>6. CASE s[n + 1] \in S
      <3>1. PICK u : u = Append(t, s[n + 1])
        OBVIOUS
      <3>2. u \in Seq(T) /\ Len(u) = (n - m) + 1 /\ u[(n - m) + 1] = s[n + 1] /\ \A i \in 1..(n - m) : u[i] = t[i]
        <4>1. Len(t) \in Nat
          BY <2>3
        <4>2. u \in Seq(T) /\ Len(u) = Len(t) + 1 /\ u[Len(t) + 1] = s[n + 1] /\ \A i \in 1..Len(t) : u[i] = t[i]
          BY <2>3, <2>4, <3>1, <4>1
        <4>3. QED
          BY <2>3, <4>2
      <3>3. ASSUME NEW i \in 1..((n + 1) - m) PROVE u[i] = s[m + i]
        <4>1. CASE i \in 1..(n - m)
          BY <2>3, <3>2, <4>1
        <4>2. CASE i \notin 1..(n - m)
          <5>1. i = (n - m) + 1 /\ m + i = n + 1
            BY <2>3, <3>3, <4>2
          <5>2. QED
            BY <3>2, <5>1
        <4>3. QED
          BY <4>1, <4>2
      <3>4. \A i \in 1..(n + 1) : i > m => s[i] \in S
        BY <2>3, <2>5, <2>6
      <3>5. m \in 0..(n + 1) /\ Len(u) = (n + 1) - m
        BY <2>3, <3>2
      <3>6. SuffixOf(u, s, S, n + 1, m)
        BY <2>3, <3>3, <3>4, <3>5 DEF SuffixOf
      <3>7. QED
        <4>1. f[n + 1] = u /\ n + 1 \in Nat
          BY <2>3, <2>4, <2>6, <3>1
        <4>2. QED
          BY <3>2, <3>6, <4>1
    <2>7. CASE s[n + 1] \notin S
      <3>1. \A i \in 1..n : s[i] \notin S
        <4>1. \A i \in 1..n : i \in 1..Len(s) /\ i <= n + 1
          BY <1>1, <1>4
        <4>2. QED
          BY <2>4, <2>7, <4>1
      <3>2. m = n
        <4>1. SUFFICES ASSUME m # n PROVE FALSE
          OBVIOUS
        <4>2. n \in 1..n /\ n > m
          BY <2>3, <4>1
        <4>3. QED
          BY <2>3, <3>1, <4>2
      <3>3. SuffixOf(t, s, S, n + 1, n + 1)
        <4>1. Len(t) = (n + 1) - (n + 1) /\ n + 1 \in 0..(n + 1)
          BY <2>3, <3>2
        <4>2. \A i \in 1..((n + 1) - (n + 1)) : t[i] = s[(n + 1) + i]
          BY <2>3
        <4>3. \A i \in 1..(n + 1) : s[i] \notin S
          BY <2>5, <2>7, <3>1
        <4>4. \A i \in 1..(n + 1) : ~(i > n + 1)
          BY <2>3
        <4>5. QED
          BY <4>1, <4>2, <4>3, <4>4 DEF SuffixOf
      <3>4. f[n + 1] = t /\ n + 1 \in Nat
        BY <2>3, <2>4, <2>7
      <3>5. QED
        BY <2>3, <3>3, <3>4
    <2>8. QED
      BY <2>6, <2>7
  <1>5. Len(s) \in N
    <2> HIDE DEF N
    <2>1. 0..Len(s) \subseteq N
      BY <1>1, <1>3, <1>4, CountUp
    <2>2. QED
      BY <1>1, <2>1
  <1>6. QED
    BY <1>2, <1>5

\* r are the times of the messages H after the first m, which are those of the last second.
CountedFrom(H, r, t, m) ==
    /\ m \in 0..Len(H) /\ r \in Seq(Nat) /\ Len(r) = Len(H) - m
    /\ \A i \in 1..Len(r) : r[i] = H[m + i].at
    /\ \A i \in 1..m : t - H[i].at > Second
    /\ \A i \in 1..Len(H) : i > m => t - H[i].at <= Second

\* What parse() keeps of the times: one for each message of the last second.
LEMMA RecentIsWindow ==
    ASSUME NEW R, NEW H \in Seq(R), NEW times \in Seq(Nat), NEW t \in Nat, NEW r,
           \A i \in 1..Len(H) : H[i].at \in Nat, Dated(H, t), TimesKept(H, times, t),
           r = Kept(times, {x \in 0..t : t - x <= Second})
    PROVE  \E m : CountedFrom(H, r, t, m)
  <1> DEFINE S == {x \in 0..t : t - x <= Second}
  <1>1. Len(H) \in Nat /\ DOMAIN H = 1..Len(H) /\ Len(times) \in Nat /\ Second \in Nat
    BY ServerConstants
  <1>2. PICK a \in 0..Len(H) :
            /\ Len(times) = Len(H) - a
            /\ \A i \in 1..Len(times) : times[i] = H[a + i].at
            /\ \A i \in 1..a : t - H[i].at > Second
    BY DEF TimesKept
  <1>3. \A i \in 1..Len(times) : a + i \in 1..Len(H)
    BY <1>1, <1>2
  <1>4. \A i \in 1..Len(times) : times[i] \in S <=> t - times[i] <= Second
    <2>1. \A i \in 1..Len(times) : times[i] \in Nat /\ times[i] <= t
      BY <1>1, <1>2, <1>3 DEF Dated
    <2>2. QED
      BY <2>1
  <1>5. \A i, j \in 1..Len(times) : i <= j /\ times[i] \in S => times[j] \in S
    <2>1. ASSUME NEW i \in 1..Len(times), NEW j \in 1..Len(times), i <= j PROVE times[i] <= times[j]
      <3>1. a + i \in DOMAIN H /\ a + j \in DOMAIN H /\ a + i <= a + j
        BY <1>1, <1>2, <1>3, <2>1
      <3>2. QED
        BY <1>2, <3>1 DEF Dated
    <2>2. \A i \in 1..Len(times) : times[i] \in Nat
      OBVIOUS
    <2>3. QED
      BY <1>1, <1>4, <2>1, <2>2
  <1>6. PICK b : SuffixOf(r, times, S, Len(times), b)
    <2>1. r = Kept(times, S)
      OBVIOUS
    <2> HIDE DEF S
    <2>2. QED
      BY <1>5, <2>1, KeptSuffix
  <1>7. r \in Seq(Nat)
    BY KeptMembers
  <1>8. /\ b \in 0..Len(times) /\ Len(r) = Len(times) - b
        /\ \A i \in 1..(Len(times) - b) : r[i] = times[b + i]
        /\ \A i \in 1..b : times[i] \notin S
        /\ \A i \in 1..Len(times) : i > b => times[i] \in S
    BY <1>6 DEF SuffixOf
  <1>9. PICK m : m = a + b
    OBVIOUS
  <1>10. m \in 0..Len(H) /\ Len(r) = Len(H) - m /\ a \in Nat /\ b \in Nat
    <2>1. a \in 0..Len(H) /\ Len(times) = Len(H) - a
      BY <1>2
    <2>2. b \in 0..Len(times) /\ Len(r) = Len(times) - b
      BY <1>8
    <2>3. a \in Nat /\ a <= Len(H) /\ b \in Nat /\ b <= Len(times)
      BY <1>1, <2>1, <2>2
    <2>4. a + b \in Nat /\ a + b <= Len(H) /\ Len(times) - b = Len(H) - (a + b)
      BY <1>1, <2>1, <2>3
    <2>5. m \in 0..Len(H)
      BY <1>1, <1>9, <2>4
    <2>6. Len(r) = Len(H) - m
      BY <1>9, <2>2, <2>4
    <2>7. QED
      BY <2>3, <2>5, <2>6
  <1>11. ASSUME NEW i \in 1..Len(r) PROVE r[i] = H[m + i].at
    <2>1. i \in 1..(Len(times) - b) /\ b + i \in 1..Len(times) /\ a + (b + i) = m + i
      BY <1>1, <1>8, <1>9, <1>10, <1>11
    <2>2. QED
      BY <1>2, <1>8, <2>1
  <1>12. ASSUME NEW i \in 1..m PROVE t - H[i].at > Second
    <2>1. CASE i <= a
      BY <1>2, <1>10, <1>12, <2>1
    <2>2. CASE ~(i <= a)
      <3>1. i - a \in 1..b /\ i - a \in 1..Len(times) /\ a + (i - a) = i
        BY <1>1, <1>8, <1>9, <1>10, <1>12, <2>2
      <3>2. times[i - a] \notin S /\ times[i - a] = H[i].at /\ times[i - a] \in Nat
        BY <1>2, <1>8, <3>1
      <3>3. ~(t - times[i - a] <= Second)
        BY <1>4, <3>1, <3>2
      <3>4. QED
        BY <1>1, <3>2, <3>3
    <2>3. QED
      BY <2>1, <2>2
  <1>13. ASSUME NEW i \in 1..Len(H), i > m PROVE t - H[i].at <= Second
    <2>1. i - a \in 1..Len(times) /\ i - a > b /\ a + (i - a) = i
      BY <1>1, <1>2, <1>8, <1>9, <1>10, <1>13
    <2>2. times[i - a] \in S /\ times[i - a] = H[i].at
      BY <1>2, <1>8, <2>1
    <2>3. QED
      BY <1>4, <2>1, <2>2
  <1>14. CountedFrom(H, r, t, m)
    BY <1>7, <1>10, <1>11, <1>12, <1>13 DEF CountedFrom
  <1>15. QED
    BY <1>14

\* As many as there are messages in the window.
LEMMA WindowCounted ==
    ASSUME NEW H, NEW t \in Nat, Len(H) \in Nat, DOMAIN H = 1..Len(H), NEW m \in 0..Len(H),
           \A i \in 1..Len(H) : H[i].at \in Nat,
           \A i \in 1..m : t - H[i].at > Second, \A i \in 1..Len(H) : i > m => t - H[i].at <= Second
    PROVE  Cardinality(Window(H, t)) = Len(H) - m
  <1>1. Second \in Nat /\ m \in Nat
    BY ServerConstants
  <1>2. \A i \in 1..Len(H) : t - H[i].at <= Second <=> i > m
    BY <1>1
  <1>3. Window(H, t) = {i \in 1..Len(H) : i > m}
    BY <1>2 DEF Window
  <1>4. {i \in 1..Len(H) : i > m} = (m + 1)..Len(H)
    BY <1>1
  <1>5. PICK a : a = m + 1
    OBVIOUS
  <1>6. PICK l : l = Len(H)
    OBVIOUS
  <1>7. a \in Int /\ l \in Int
    BY <1>1, <1>5, <1>6
  <1>8. Cardinality(a..l) = IF a > l THEN 0 ELSE l - a + 1
    BY <1>7, FS_Interval
  <1>9. m \in Nat /\ m <= l /\ l \in Nat
    BY <1>1, <1>6
  <1>10. Cardinality(a..l) = l - m
    BY <1>5, <1>8, <1>9
  <1>11. QED
    BY <1>3, <1>4, <1>5, <1>6, <1>10

\* A second is longer ago when time has passed.
LEMMA WindowPasses ==
    ASSUME NEW H, NEW t \in Nat, Len(H) \in Nat, DOMAIN H = 1..Len(H),
           \A i \in 1..Len(H) : H[i].at \in Nat, Dated(H, t)
    PROVE  /\ Dated(H, t + 1)
           /\ Cardinality(Window(H, t + 1)) \in Nat /\ Cardinality(Window(H, t)) \in Nat
           /\ Cardinality(Window(H, t + 1)) <= Cardinality(Window(H, t))
           /\ \A times : TimesKept(H, times, t) => TimesKept(H, times, t + 1)
  <1>1. Second \in Nat
    BY ServerConstants
  <1>2. Dated(H, t + 1)
    BY DEF Dated
  <1>3. Window(H, t + 1) \subseteq Window(H, t)
    BY <1>1 DEF Window
  <1>4. IsFiniteSet(Window(H, t))
    <2>1. IsFiniteSet(1..Len(H))
      <3>1. PICK l : l = Len(H)
        OBVIOUS
      <3>2. 1 \in Int /\ l \in Int
        BY <3>1
      <3>3. IsFiniteSet(1..l)
        BY <3>2, FS_Interval
      <3>4. QED
        BY <3>1, <3>3
    <2>2. Window(H, t) \subseteq 1..Len(H)
      BY DEF Window
    <2>3. QED
      BY <2>1, <2>2, FS_Subset
  <1>5. /\ Cardinality(Window(H, t + 1)) <= Cardinality(Window(H, t)) /\ IsFiniteSet(Window(H, t + 1))
    BY <1>3, <1>4, FS_Subset
  <1>6. Cardinality(Window(H, t + 1)) \in Nat /\ Cardinality(Window(H, t)) \in Nat
    BY <1>4, <1>5, FS_CardinalityType
  <1>7. ASSUME NEW times, TimesKept(H, times, t) PROVE TimesKept(H, times, t + 1)
    <2>1. PICK m \in 0..Len(H) :
              /\ Len(times) = Len(H) - m
              /\ \A i \in 1..Len(times) : times[i] = H[m + i].at
              /\ \A i \in 1..m : t - H[i].at > Second
      BY <1>7 DEF TimesKept
    <2>2. \A i \in 1..m : (t + 1) - H[i].at > Second
      BY <1>1, <2>1
    <2>3. QED
      BY <2>1, <2>2 DEF TimesKept
  <1>8. QED
    BY <1>2, <1>5, <1>6, <1>7

\* Messages and times, all of t.
Stamped(more, stamps, t) ==
    Len(stamps) = Len(more) /\ \A j \in 1..Len(more) : more[j].at = t /\ stamps[j] = t
Timed(H) == \A i \in 1..Len(H) : H[i].at \in Nat

\* The messages of a read are added, all of now.
LEMMA WindowGrows ==
    ASSUME NEW R, NEW H \in Seq(R), NEW t \in Nat, NEW m, NEW r, CountedFrom(H, r, t, m),
           NEW more \in Seq(R), NEW stamps \in Seq(Nat),
           Timed(H), Dated(H, t), Stamped(more, stamps, t)
    PROVE  /\ Dated(H \o more, t) /\ TimesKept(H \o more, r \o stamps, t)
           /\ Cardinality(Window(H \o more, t)) = Len(r) + Len(more)
  <1>1. PICK l : l = Len(H)
    OBVIOUS
  <1>2. PICK e : e = Len(more)
    OBVIOUS
  <1>3. PICK G : G = H \o more
    OBVIOUS
  <1>4. l \in Nat /\ e \in Nat /\ m \in 0..l /\ m \in Nat /\ m <= l /\ Second \in Nat /\ DOMAIN H = 1..l
    BY <1>1, <1>2, ServerConstants DEF CountedFrom
  <1>5. /\ G \in Seq(R) /\ Len(G) = l + e /\ DOMAIN G = 1..(l + e)
        /\ \A i \in 1..(l + e) : G[i] = IF i <= l THEN H[i] ELSE more[i - l]
    BY <1>1, <1>2, <1>3, ConcatProperties
  <1>6. \A i \in 1..(l + e) : IF i \in 1..l THEN G[i] = H[i] ELSE G[i].at = t
    <2>1. ASSUME NEW i \in 1..(l + e), i \in 1..l PROVE G[i] = H[i]
      BY <1>4, <1>5, <2>1
    <2>2. ASSUME NEW i \in 1..(l + e), i \notin 1..l PROVE G[i].at = t
      <3>1. i - l \in 1..e /\ ~(i <= l)
        BY <1>4, <2>2
      <3>2. QED
        BY <1>2, <1>5, <3>1 DEF Stamped
    <2>3. QED
      BY <2>1, <2>2
  <1>7. \A i \in 1..(l + e) : G[i].at \in Nat /\ G[i].at <= t
    <2>1. ASSUME NEW i \in 1..(l + e) PROVE G[i].at \in Nat /\ G[i].at <= t
      <3>1. CASE i \in 1..l
        <4>1. H[i].at \in Nat /\ H[i].at <= t
          BY <1>1, <1>4, <3>1 DEF Dated, Timed
        <4>2. QED
          BY <1>6, <3>1, <4>1
      <3>2. CASE i \notin 1..l
        <4>1. G[i].at = t
          BY <1>6, <3>2
        <4>2. t <= t
          OBVIOUS
        <4>3. QED
          BY <4>1, <4>2
      <3>3. QED
        BY <3>1, <3>2
    <2>2. QED
      BY <2>1
  <1>8. Dated(G, t)
    <2>1. ASSUME NEW i \in 1..(l + e), NEW j \in 1..(l + e), i <= j PROVE G[i].at <= G[j].at
      <3>1. CASE j \in 1..l
        <4>1. i \in 1..l
          BY <1>4, <2>1, <3>1
        <4>2. QED
          BY <1>4, <1>6, <2>1, <3>1, <4>1 DEF Dated
      <3>2. CASE j \notin 1..l
        BY <1>6, <1>7, <3>2
      <3>3. QED
        BY <3>1, <3>2
    <2>2. QED
      BY <1>5, <1>7, <2>1 DEF Dated
  <1>9. \A i \in 1..m : t - G[i].at > Second
    <2>1. \A i \in 1..m : i \in 1..l /\ i \in 1..(l + e)
      BY <1>4
    <2>2. QED
      BY <1>6, <2>1 DEF CountedFrom
  <1>10. ASSUME NEW i \in 1..(l + e), i > m PROVE t - G[i].at <= Second
    <2>1. CASE i \in 1..l
      BY <1>1, <1>6, <1>10, <2>1 DEF CountedFrom
    <2>2. CASE i \notin 1..l
      <3>1. G[i].at = t
        BY <1>6, <2>2
      <3>2. t - t <= Second
        BY <1>4
      <3>3. QED
        BY <3>1, <3>2
    <2>3. QED
      BY <2>1, <2>2
  <1>11. m \in 0..(l + e)
    BY <1>4
  <1>12. Cardinality(Window(G, t)) = (l + e) - m
    <2>1. Len(G) \in Nat /\ DOMAIN G = 1..Len(G) /\ m \in 0..Len(G)
      BY <1>4, <1>5, <1>11
    <2>2. /\ \A i \in 1..Len(G) : G[i].at \in Nat
          /\ \A i \in 1..Len(G) : i > m => t - G[i].at <= Second
      BY <1>5, <1>7, <1>10
    <2>3. Cardinality(Window(G, t)) = Len(G) - m
      BY <1>9, <2>1, <2>2, WindowCounted
    <2>4. QED
      BY <1>5, <2>3
  <1>13. TimesKept(G, r \o stamps, t)
    <2>1. PICK a : a = Len(r)
      OBVIOUS
    <2>2. PICK s : s = r \o stamps
      OBVIOUS
    <2>3. a \in Nat /\ a = l - m
      BY <1>1, <2>1 DEF CountedFrom
    <2>4. Len(s) = a + e /\ \A i \in 1..(a + e) : s[i] = IF i <= a THEN r[i] ELSE stamps[i - a]
      <3>1. /\ Len(s) = Len(r) + Len(stamps)
            /\ \A i \in 1..(Len(r) + Len(stamps)) : s[i] = IF i <= Len(r) THEN r[i] ELSE stamps[i - Len(r)]
        BY <2>2, ConcatProperties DEF CountedFrom
      <3>2. Len(stamps) = e
        BY <1>2 DEF Stamped
      <3>3. QED
        BY <2>1, <3>1, <3>2
    <2>5. ASSUME NEW i \in 1..(a + e) PROVE s[i] = G[m + i].at
      <3>1. CASE i <= a
        <4>1. i \in 1..a /\ m + i \in 1..l /\ m + i \in 1..(l + e)
          BY <1>4, <2>3, <2>5, <3>1
        <4>2. QED
          BY <1>6, <2>1, <2>4, <3>1, <4>1 DEF CountedFrom
      <3>2. CASE ~(i <= a)
        <4>1. i - a \in 1..e /\ m + i \notin 1..l /\ m + i \in 1..(l + e)
          BY <1>4, <2>3, <2>5, <3>2
        <4>2. QED
          BY <1>2, <1>6, <2>4, <3>2, <4>1 DEF Stamped
      <3>3. QED
        BY <3>1, <3>2
    <2>6. a + e = (l + e) - m
      BY <1>4, <2>3
    <2>7. Len(s) = Len(G) - m /\ m \in 0..Len(G) /\ Len(s) = a + e
      BY <1>5, <1>11, <2>4, <2>6
    <2>8. TimesKept(G, s, t)
      BY <1>9, <2>5, <2>7 DEF TimesKept
    <2>9. QED
      BY <2>2, <2>8
  <1>14. (l + e) - m = Len(r) + Len(more)
    BY <1>1, <1>2, <1>4 DEF CountedFrom
  <1>15. QED
    BY <1>3, <1>8, <1>12, <1>13, <1>14

\* The messages of a read: it ends one that had begun, and brings the shortest ones.
LEMMA MessagesOfARead ==
    ASSUME NEW P \in Seq(Sent), NEW A \in Seq(Sent), Len(A) <= BufferUnits, ~Complete(P),
           NEW buf, buf = P \o A, NEW q, NEW c, CutAfter(q, buf, c)
    PROVE  Len(q.messages) <= MessagesPerRead /\ MessagesPerRead \in Nat
  <1>1. PICK m : m = Len(q.messages)
    OBVIOUS
  <1>2. PICK b : b = BufferUnits
    OBVIOUS
  <1>3. b \in Nat /\ b >= 1 /\ Len(A) <= b /\ Len(A) \in Nat /\ Len(P) \in Nat
    BY <1>2, ServerConstants
  <1>4. MessagesPerRead = 1 + ((b - 1) \div 2)
    BY <1>2 DEF MessagesPerRead, Length
  <1>5. m \in Nat /\ c \in 0..Len(buf)
    BY <1>1 DEF CutAfter
  <1>6. (b - 1) \div 2 \in Nat
    BY <1>3
  <1>7. ASSUME m # 0 PROVE 2 * (m - 1) <= b - 1
    <2>1. PICK L : L = Length(buf[1].kind)
      OBVIOUS
    <2>2. L \in {2, 3} /\ c >= L + 2 * (m - 1)
      BY <1>1, <1>7, <2>1 DEF CutAfter, Length
    <2>3. Len(P) < L
      <3>1. CASE P = <<>>
        BY <2>2, <3>1
      <3>2. CASE P # <<>>
        <4>1. Head(P) = P[1] /\ buf[1] = P[1]
          BY <3>2
        <4>2. ~(Len(P) >= Length(P[1].kind))
          BY <3>2, <4>1 DEF Complete
        <4>3. QED
          BY <1>3, <2>1, <2>2, <4>1, <4>2
      <3>3. QED
        BY <3>1, <3>2
    <2>4. Len(buf) = Len(P) + Len(A)
      OBVIOUS
    <2>5. c <= Len(P) + Len(A) /\ c \in Nat
      BY <1>3, <1>5, <2>4
    <2>6. QED
      BY <1>3, <1>5, <2>2, <2>3, <2>5
  <1>8. m <= 1 + ((b - 1) \div 2)
    <2>1. CASE m = 0
      BY <1>6, <2>1
    <2>2. CASE m # 0
      <3>1. PICK x : x = b - 1
        OBVIOUS
      <3>2. x \in Nat /\ 2 * (m - 1) <= x
        BY <1>3, <1>7, <2>2, <3>1
      <3>3. m - 1 <= x \div 2
        BY <1>5, <3>2
      <3>4. QED
        BY <1>5, <1>6, <3>1, <3>3
    <2>3. QED
      BY <2>1, <2>2
  <1>9. QED
    BY <1>1, <1>4, <1>6, <1>8

-----------------------------------------------------------------------------
(* Rates are counted. *)

\* What was handled of a connection is a list of messages with a time.
LEMMA HandledTimes ==
    ASSUME ServerTypes, NEW k \in Connections
    PROVE  /\ handled[k] \in Seq([units : Seq(Sent), at : Nat])
           /\ Len(handled[k]) \in Nat /\ DOMAIN handled[k] = 1..Len(handled[k])
           /\ \A i \in 1..Len(handled[k]) : handled[k][i].at \in Nat
  <1>1. PICK R : R = [units : Seq(Sent), at : Nat]
    OBVIOUS
  <1>2. PICK H : H = handled[k]
    OBVIOUS
  <1>3. H \in Seq(R)
    BY <1>1, <1>2 DEF ServerTypes
  <1>4. Len(H) \in Nat /\ DOMAIN H = 1..Len(H) /\ \A i \in 1..Len(H) : H[i] \in R
    BY <1>3
  <1>5. QED
    BY <1>1, <1>2, <1>3, <1>4

\* Nothing that the rates are about changes.
LEMMA RatesUnchanged ==
    ASSUME RateInv, UNCHANGED <<opened, sock_to_partial_messages, sock_to_msg_timestamps, handled, now>>
    PROVE  RateInv'
  BY DEF RateInv

LEMMA TickKeepsRates ==
    ASSUME EdgeInv, RateInv, Tick
    PROVE  RateInv'
  <1>1. /\ now' = now + 1
        /\ UNCHANGED <<opened, sock_to_partial_messages, sock_to_msg_timestamps, handled>>
    BY DEF Tick, kernel, parser
  <1>2. ServerTypes /\ now \in Nat
    BY DEF EdgeInv, ServerTypes
  <1>3. \A k \in Connections :
           /\ Dated(handled[k], now + 1)
           /\ Cardinality(Window(handled[k], now + 1)) \in Nat /\ Cardinality(Window(handled[k], now)) \in Nat
           /\ Cardinality(Window(handled[k], now + 1)) <= Cardinality(Window(handled[k], now))
           /\ \A times : TimesKept(handled[k], times, now) => TimesKept(handled[k], times, now + 1)
    <2>1. ASSUME NEW k \in Connections
          PROVE  /\ Dated(handled[k], now + 1)
                 /\ Cardinality(Window(handled[k], now + 1)) \in Nat /\ Cardinality(Window(handled[k], now)) \in Nat
                 /\ Cardinality(Window(handled[k], now + 1)) <= Cardinality(Window(handled[k], now))
                 /\ \A times : TimesKept(handled[k], times, now) => TimesKept(handled[k], times, now + 1)
      <3>1. PICK H : H = handled[k]
        OBVIOUS
      <3>2. Dated(H, now)
        BY <3>1 DEF RateInv
      <3>3. Len(H) \in Nat /\ DOMAIN H = 1..Len(H) /\ \A i \in 1..Len(H) : H[i].at \in Nat
        BY <1>2, <3>1, HandledTimes
      <3>4. /\ Dated(H, now + 1)
            /\ Cardinality(Window(H, now + 1)) \in Nat /\ Cardinality(Window(H, now)) \in Nat
            /\ Cardinality(Window(H, now + 1)) <= Cardinality(Window(H, now))
            /\ \A times : TimesKept(H, times, now) => TimesKept(H, times, now + 1)
        BY <1>2, <3>2, <3>3, WindowPasses
      <3>5. QED
        BY <3>1, <3>4
    <2>2. QED
      BY <2>1
  <1>4. MessagesPerRead \in Nat /\ MAX_MSGS_PER_SECOND \in Nat
    BY ServerConstants DEF MessagesPerRead, Length
  <1>5. ASSUME NEW k \in Connections
        PROVE  Cardinality(Window(handled[k], now + 1)) <= MAX_MSGS_PER_SECOND + MessagesPerRead
    <2>1. PICK x \in Nat, y \in Nat : x = Cardinality(Window(handled[k], now + 1)) /\ y = Cardinality(Window(handled[k], now))
      BY <1>3
    <2>2. x <= y /\ y <= MAX_MSGS_PER_SECOND + MessagesPerRead
      BY <1>3, <2>1 DEF RateInv
    <2>3. x <= MAX_MSGS_PER_SECOND + MessagesPerRead
      BY <1>4, <2>2
    <2>4. QED
      BY <2>1, <2>3
  <1>6. \A d \in Descriptors : opened[d] # NoConnection => opened[d] \in Connections
    BY <1>2 DEF ServerTypes
  <1>7. \A d \in Descriptors : opened[d] # NoConnection =>
           /\ TimesKept(handled[opened[d]], sock_to_msg_timestamps[d], now + 1)
           /\ ~Complete(sock_to_partial_messages[d])
    BY <1>3, <1>6 DEF RateInv
  <1>8. QED
    BY <1>1, <1>3, <1>5, <1>7 DEF RateInv

LEMMA AcceptKeepsRates ==
    ASSUME EdgeInv, FrameInv, RateInv, Accept
    PROVE  RateInv'
  <1>1. ServerTypes /\ SocketInv /\ BatchInv
    BY DEF EdgeInv
  <1>2. PICK k : k = Head(backlog)
    OBVIOUS
  <1>3. PICK d : d = FSets!Min({e \in Descriptors : opened[e] = NoConnection})
    OBVIOUS
  <1>4. /\ events # <<>> /\ Event.fd = listen_fd /\ backlog' = Tail(backlog) /\ events' = Tail(events)
        /\ opened' = [opened EXCEPT ![d] = k]
        /\ sock_to_partial_messages' = [sock_to_partial_messages EXCEPT ![d] = <<>>]
        /\ sock_to_msg_timestamps' = [sock_to_msg_timestamps EXCEPT ![d] = <<>>]
        /\ UNCHANGED <<handled, now>>
    BY <1>2, <1>3 DEF Accept, Handling, peers, NewSocket
  <1>5. backlog # <<>>
    BY <1>1, <1>4, EventDone DEF BatchInv
  <1>6. d \in Descriptors
    BY <1>1, <1>3, <1>5, FreeDescriptor
  <1>7. k \in Connections /\ Waiting(k)
    BY <1>1, <1>2, <1>5, HeadGone DEF ServerTypes, SocketInv, Waiting
  <1>8. handled[k] = <<>>
    BY <1>7 DEF FrameInv
  <1>9. /\ opened'[d] = k /\ sock_to_partial_messages'[d] = <<>> /\ sock_to_msg_timestamps'[d] = <<>>
        /\ \A e \in Descriptors \ {d} : /\ opened'[e] = opened[e]
                                        /\ sock_to_partial_messages'[e] = sock_to_partial_messages[e]
                                        /\ sock_to_msg_timestamps'[e] = sock_to_msg_timestamps[e]
    BY <1>1, <1>4, <1>6 DEF ServerTypes
  <1>10. TimesKept(<<>>, <<>>, now) /\ ~Complete(<<>>)
    BY DEF TimesKept, Complete
  <1>11. ASSUME NEW e \in Descriptors, opened'[e] # NoConnection
         PROVE  /\ TimesKept(handled[opened'[e]], sock_to_msg_timestamps'[e], now)
                /\ ~Complete(sock_to_partial_messages'[e])
    <2>1. CASE e = d
      BY <1>8, <1>9, <1>10, <2>1
    <2>2. CASE e # d
      BY <1>9, <1>11, <2>2 DEF RateInv
    <2>3. QED
      BY <2>1, <2>2
  <1>12. QED
    BY <1>4, <1>11 DEF RateInv

\* close() ends the count of these descriptors.
LEMMA CloseKeepsRates ==
    ASSUME EdgeInv, RateInv, NEW D \in SUBSET Descriptors, Close(D), UNCHANGED <<backlog, now>>,
           \A d \in Descriptors \ D : /\ sock_to_partial_messages'[d] = sock_to_partial_messages[d]
                                      /\ sock_to_msg_timestamps'[d] = sock_to_msg_timestamps[d],
           \A k \in Connections : \/ handled'[k] = handled[k]
                                  \/ /\ \E d \in D : opened[d] = k
                                     /\ Dated(handled'[k], now)
                                     /\ Cardinality(Window(handled'[k], now)) <= MAX_MSGS_PER_SECOND + MessagesPerRead
    PROVE  RateInv'
  <1>1. ServerTypes /\ SocketInv
    BY DEF EdgeInv
  <1>2. \A d \in Descriptors : opened'[d] = IF d \in D THEN NoConnection ELSE opened[d]
    BY <1>1, CloseKeeps
  <1>3. \A k \in Connections :
           /\ Dated(handled'[k], now)
           /\ Cardinality(Window(handled'[k], now)) <= MAX_MSGS_PER_SECOND + MessagesPerRead
    BY DEF RateInv
  <1>4. ASSUME NEW d \in Descriptors, opened'[d] # NoConnection
        PROVE  /\ TimesKept(handled'[opened'[d]], sock_to_msg_timestamps'[d], now)
               /\ ~Complete(sock_to_partial_messages'[d])
    <2>1. d \notin D /\ opened'[d] = opened[d] /\ opened[d] \in Connections
      BY <1>1, <1>2, <1>4 DEF ServerTypes
    <2>2. \A e \in D : opened[e] # opened[d]
      BY <1>1, <1>4, <2>1 DEF SocketInv
    <2>3. handled'[opened[d]] = handled[opened[d]]
      BY <2>1, <2>2
    <2>4. QED
      BY <1>4, <2>1, <2>3 DEF RateInv
  <1>5. QED
    BY <1>3, <1>4 DEF RateInv

\* What parse() counts is what was handled of the connection in the last second.
LEMMA RecentCounts ==
    ASSUME EdgeInv, RateInv, NEW d \in Descriptors, opened[d] # NoConnection
    PROVE  LET H == handled[opened[d]] r == Recent(d)
           IN  /\ Cardinality(Window(H, now)) = Len(r)
               /\ \E m : CountedFrom(H, r, now, m)
  <1>1. PICK k : k = opened[d]
    OBVIOUS
  <1>2. PICK H : H = handled[k]
    OBVIOUS
  <1>3. PICK r : r = Recent(d)
    OBVIOUS
  <1>4. ServerTypes /\ k \in Connections /\ now \in Nat /\ sock_to_msg_timestamps[d] \in Seq(Nat)
    BY <1>1 DEF EdgeInv, ServerTypes
  <1>5. /\ H \in Seq([units : Seq(Sent), at : Nat]) /\ Len(H) \in Nat /\ DOMAIN H = 1..Len(H)
        /\ \A i \in 1..Len(H) : H[i].at \in Nat
    BY <1>2, <1>4, HandledTimes
  <1>6. Dated(H, now) /\ TimesKept(H, sock_to_msg_timestamps[d], now)
    BY <1>1, <1>2, <1>4 DEF RateInv
  <1>7. r = Kept(sock_to_msg_timestamps[d], {x \in 0..now : now - x <= Second})
    BY <1>3 DEF Recent
  <1>8. PICK m : CountedFrom(H, r, now, m)
    BY <1>4, <1>5, <1>6, <1>7, RecentIsWindow
  <1>9. Cardinality(Window(H, now)) = Len(H) - m /\ Len(r) = Len(H) - m
    BY <1>4, <1>5, <1>8, WindowCounted DEF CountedFrom
  <1>10. QED
    BY <1>1, <1>2, <1>3, <1>8, <1>9

\* A read that is not refused adds its messages to the count.
LEMMA ParseKeepsRates ==
    ASSUME EdgeInv, RateInv, NEW d, NEW k, NEW n, NEW buf, Reads(d, k, n, buf), Parse(d, n),
           ~(Len(Recent(d)) > MAX_MSGS_PER_SECOND)
    PROVE  RateInv'
  <1>1. ServerTypes /\ SocketInv
    BY DEF EdgeInv
  <1>2. PICK messages, rest, closed : ParsedInto(d, k, n, buf, messages, rest, closed)
    BY <1>1, ParseInto
  <1>3. /\ d \in Descriptors /\ k \in Connections /\ k = opened[d] /\ n \in 1..Len(recv[k]) /\ n <= BufferUnits
        /\ buf = sock_to_partial_messages[d] \o SubSeq(recv[k], 1, n) /\ buf \in Seq(Sent)
        /\ UNCHANGED <<backlog, now>>
    BY DEF Reads, Buffered
  <1>4. /\ messages = Parsed(buf).messages /\ rest = Parsed(buf).rest /\ messages \in Seq(Seq(Sent))
        /\ sock_to_partial_messages' = [sock_to_partial_messages EXCEPT ![d] = rest]
        /\ sock_to_msg_timestamps' =
              [sock_to_msg_timestamps EXCEPT ![d] = Recent(d) \o [i \in DOMAIN messages |-> now]]
        /\ handled' = [handled EXCEPT ![k] = @ \o [i \in DOMAIN messages |-> [units |-> messages[i], at |-> now]]]
        /\ closed \subseteq Descriptors /\ (Refused(rest) => d \in closed) /\ (closed # {} => d \in closed)
        /\ IF closed = {} THEN UNCHANGED opened ELSE Close(closed)
    BY <1>2 DEF ParsedInto, Dispatched, Rest
  <1>5. PICK H : H = handled[k]
    OBVIOUS
  <1>6. PICK r : r = Recent(d)
    OBVIOUS
  <1>7. PICK more : more = [i \in DOMAIN messages |-> [units |-> messages[i], at |-> now]]
    OBVIOUS
  <1>8. PICK stamps : stamps = [i \in DOMAIN messages |-> now]
    OBVIOUS
  <1>9. PICK R : R = [units : Seq(Sent), at : Nat]
    OBVIOUS
  <1>10. k # NoConnection /\ now \in Nat
    BY <1>1, <1>3, ServerConstants DEF ServerTypes
  <1>11. PICK m : CountedFrom(H, r, now, m)
    BY <1>3, <1>5, <1>6, <1>10, RecentCounts
  <1>12. H \in Seq(R) /\ (\A i \in 1..Len(H) : H[i].at \in Nat) /\ Dated(H, now)
    BY <1>1, <1>3, <1>5, <1>9, HandledTimes DEF RateInv
  <1>13. /\ more \in Seq(R) /\ stamps \in Seq(Nat) /\ Len(more) = Len(messages) /\ Len(stamps) = Len(messages)
         /\ \A j \in 1..Len(messages) : more[j].at = now /\ stamps[j] = now
    <2>1. more \in Seq(R) /\ stamps \in Seq(Nat) /\ Len(more) = Len(messages) /\ Len(stamps) = Len(messages)
      BY <1>4, <1>7, <1>8, <1>9, <1>10, StampedMessages
    <2>2. DOMAIN messages = 1..Len(messages)
      BY <1>4
    <2>3. QED
      BY <1>7, <1>8, <2>1, <2>2
  <1>14. /\ Dated(H \o more, now) /\ TimesKept(H \o more, r \o stamps, now)
         /\ Cardinality(Window(H \o more, now)) = Len(r) + Len(messages)
    <2>1. Stamped(more, stamps, now) /\ Timed(H)
      BY <1>12, <1>13 DEF Stamped, Timed
    <2>2. H \in Seq(R) /\ Dated(H, now) /\ now \in Nat
      BY <1>10, <1>12
    <2>3. more \in Seq(R) /\ stamps \in Seq(Nat)
      BY <1>13
    <2>4. /\ Dated(H \o more, now) /\ TimesKept(H \o more, r \o stamps, now)
          /\ Cardinality(Window(H \o more, now)) = Len(r) + Len(more)
      BY <1>11, <2>1, <2>2, <2>3, WindowGrows
    <2>5. QED
      BY <1>13, <2>4
  <1>15. PICK q : q = Parsed(buf)
    OBVIOUS
  <1>16. PICK c : CutAfter(q, buf, c) /\ Stuck(q.rest)
    BY <1>3, <1>15, ParsedCut
  <1>17. Len(messages) <= MessagesPerRead /\ MessagesPerRead \in Nat
    <2>1. PICK P : P = sock_to_partial_messages[d]
      OBVIOUS
    <2>2. PICK A : A = SubSeq(recv[k], 1, n)
      OBVIOUS
    <2>3. P \in Seq(Sent) /\ recv[k] \in Seq(Sent) /\ ~Complete(P)
      BY <1>1, <1>3, <1>10, <2>1 DEF ServerTypes, RateInv
    <2>4. n \in 0..Len(recv[k])
      BY <1>3, <2>3
    <2>5. A \in Seq(Sent) /\ Len(A) <= BufferUnits
      BY <1>3, <2>2, <2>3, <2>4, CutAt
    <2>6. buf = P \o A
      BY <1>3, <2>1, <2>2
    <2>7. Len(q.messages) <= MessagesPerRead /\ MessagesPerRead \in Nat
      BY <1>16, <2>3, <2>5, <2>6, MessagesOfARead
    <2>8. QED
      BY <1>4, <1>15, <2>7
  <1>18. Cardinality(Window(H \o more, now)) <= MAX_MSGS_PER_SECOND + MessagesPerRead
    <2>1. Len(r) \in Nat /\ Len(messages) \in Nat /\ MAX_MSGS_PER_SECOND \in Nat /\ ~(Len(r) > MAX_MSGS_PER_SECOND)
      BY <1>4, <1>6, <1>11, ServerConstants DEF CountedFrom
    <2>2. Len(r) + Len(messages) <= MAX_MSGS_PER_SECOND + MessagesPerRead
      BY <1>17, <2>1
    <2>3. QED
      BY <1>14, <2>2
  <1>19. /\ handled'[k] = H \o more /\ \A j \in Connections \ {k} : handled'[j] = handled[j]
    <2>1. handled' = [handled EXCEPT ![k] = H \o more]
      BY <1>4, <1>5, <1>7
    <2>2. QED
      BY <1>1, <1>3, <2>1 DEF ServerTypes
  <1>20. /\ sock_to_partial_messages'[d] = rest /\ sock_to_msg_timestamps'[d] = r \o stamps
         /\ \A e \in Descriptors \ {d} : /\ sock_to_partial_messages'[e] = sock_to_partial_messages[e]
                                         /\ sock_to_msg_timestamps'[e] = sock_to_msg_timestamps[e]
    <2>1. sock_to_msg_timestamps' = [sock_to_msg_timestamps EXCEPT ![d] = r \o stamps]
      BY <1>4, <1>6, <1>8
    <2>2. QED
      BY <1>1, <1>3, <1>4, <2>1 DEF ServerTypes
  <1>21. CASE closed = {}
    <2>1. UNCHANGED opened
      BY <1>4, <1>21
    <2>2. ~Complete(rest)
      BY <1>4, <1>15, <1>16, <1>21 DEF Stuck
    <2>3. \A j \in Connections :
             /\ Dated(handled'[j], now)
             /\ Cardinality(Window(handled'[j], now)) <= MAX_MSGS_PER_SECOND + MessagesPerRead
      BY <1>14, <1>18, <1>19 DEF RateInv
    <2>4. ASSUME NEW e \in Descriptors, opened[e] # NoConnection
          PROVE  /\ TimesKept(handled'[opened[e]], sock_to_msg_timestamps'[e], now)
                 /\ ~Complete(sock_to_partial_messages'[e])
      <3>1. CASE e = d
        BY <1>3, <1>14, <1>19, <1>20, <2>2, <3>1
      <3>2. CASE e # d
        <4>1. opened[e] \in Connections \ {k}
          BY <1>1, <1>3, <2>4, <3>2 DEF SocketInv, ServerTypes
        <4>2. QED
          BY <1>19, <1>20, <2>4, <3>2, <4>1 DEF RateInv
      <3>3. QED
        BY <3>1, <3>2
    <2>5. QED
      BY <1>3, <2>1, <2>3, <2>4 DEF RateInv
  <1>22. CASE closed # {}
    <2>1. Close(closed) /\ d \in closed /\ closed \in SUBSET Descriptors
      BY <1>4, <1>22
    <2>2. \A e \in Descriptors \ closed : /\ sock_to_partial_messages'[e] = sock_to_partial_messages[e]
                                          /\ sock_to_msg_timestamps'[e] = sock_to_msg_timestamps[e]
      BY <1>20, <2>1
    <2>3. \A j \in Connections :
             \/ handled'[j] = handled[j]
             \/ /\ \E e \in closed : opened[e] = j
                /\ Dated(handled'[j], now)
                /\ Cardinality(Window(handled'[j], now)) <= MAX_MSGS_PER_SECOND + MessagesPerRead
      BY <1>3, <1>14, <1>18, <1>19, <2>1
    <2>4. QED
      BY <1>3, <2>1, <2>2, <2>3, CloseKeepsRates
  <1>23. QED
    BY <1>21, <1>22

LEMMA NextKeepsRates ==
    ASSUME EdgeInv, FrameInv, RateInv, [ServerNext]_serverVars
    PROVE  RateInv'
  <1>1. ServerTypes
    BY DEF EdgeInv
  <1>2. ASSUME NEW k \in Connections, Connect(k) PROVE RateInv'
    BY <1>2, RatesUnchanged DEF Connect, peers, parser
  <1>3. ASSUME NEW k \in Connections, Send(k) PROVE RateInv'
    BY <1>3, RatesUnchanged DEF Send, parser
  <1>4. ASSUME NEW k \in Connections, HangUp(k) PROVE RateInv'
    BY <1>4, RatesUnchanged DEF HangUp, parser
  <1>5. ASSUME NEW d \in Descriptors, WriteFails(d) PROVE RateInv'
    BY <1>5, CloseKeepsRates DEF WriteFails, parser
  <1>6. CASE Tick
    BY <1>6, TickKeepsRates
  <1>7. CASE EpollWait
    BY <1>7, RatesUnchanged DEF EpollWait, peers, parser
  <1>8. CASE Accept
    BY <1>8, AcceptKeepsRates
  <1>9. CASE HangUpEvent
    <2>1. Event.fd \in Descriptors
      <3>1. events \in Seq(Reported) /\ events # <<>> /\ Event.fd # listen_fd /\ Event = Head(events)
        BY <1>1, <1>9 DEF ServerTypes, HangUpEvent, Handling, Event
      <3>2. Event \in Reported
        BY <3>1
      <3>3. QED
        BY <3>1, <3>2 DEF Reported
    <2>2. PICK d : d = Event.fd
      OBVIOUS
    <2>3. /\ Close({d}) /\ UNCHANGED <<backlog, now, handled, sock_to_msg_timestamps>>
          /\ sock_to_partial_messages' = [sock_to_partial_messages EXCEPT ![d] = <<>>]
      BY <1>9, <2>2 DEF HangUpEvent, SocketClosed
    <2>4. \A e \in Descriptors \ {d} : sock_to_partial_messages'[e] = sock_to_partial_messages[e]
      BY <1>1, <2>3 DEF ServerTypes
    <2>5. QED
      BY <2>1, <2>2, <2>3, <2>4, CloseKeepsRates
  <1>10. CASE ReadableEvent
    BY <1>10, RatesUnchanged DEF ReadableEvent, peers, kernel, parser
  <1>11. CASE ReadNothing
    BY <1>11, RatesUnchanged DEF ReadNothing, peers, kernel, parser
  <1>12. CASE ReadOver
    <2>1. PICK d : d = reading
      OBVIOUS
    <2>2. /\ d \in Descriptors /\ Close({d}) /\ UNCHANGED <<backlog, now, handled, sock_to_msg_timestamps>>
          /\ sock_to_partial_messages' = [sock_to_partial_messages EXCEPT ![d] = <<>>]
      BY <1>1, <1>12, <2>1 DEF ServerTypes, ReadOver, SocketClosed
    <2>3. \A e \in Descriptors \ {d} : sock_to_partial_messages'[e] = sock_to_partial_messages[e]
      BY <1>1, <2>2 DEF ServerTypes
    <2>4. QED
      BY <2>2, <2>3, CloseKeepsRates
  <1>13. CASE ReadBytes
    <2>1. PICK d, k, n, buf : /\ Reads(d, k, n, buf)
                              /\ \/ Len(Recent(d)) > MAX_MSGS_PER_SECOND /\ Limit(d)
                                 \/ ~(Len(Recent(d)) > MAX_MSGS_PER_SECOND) /\ Parse(d, n)
      BY <1>13, ReadBytesCases
    <2>2. CASE Limit(d)
      <3>1. /\ d \in Descriptors /\ Close({d}) /\ UNCHANGED <<backlog, now, handled, sock_to_partial_messages>>
            /\ sock_to_msg_timestamps' = [sock_to_msg_timestamps EXCEPT ![d] = Recent(d)]
        BY <2>1, <2>2 DEF Reads, Limit
      <3>2. \A e \in Descriptors \ {d} : sock_to_msg_timestamps'[e] = sock_to_msg_timestamps[e]
        BY <1>1, <3>1 DEF ServerTypes
      <3>3. QED
        BY <3>1, <3>2, CloseKeepsRates
    <2>3. QED
      BY <2>1, <2>2, ParseKeepsRates
  <1>14. CASE UNCHANGED serverVars
    BY <1>14, RatesUnchanged DEF serverVars, peers, kernel, parser
  <1>15. QED
    BY <1>2, <1>3, <1>4, <1>5, <1>6, <1>7, <1>8, <1>9, <1>10, <1>11, <1>12, <1>13, <1>14
    DEF ServerNext, Clients, Run

LEMMA InitRates ==
    ASSUME ServerInit
    PROVE  RateInv
  <1>1. \A k \in Connections : handled[k] = <<>>
    BY DEF ServerInit
  <1>2. \A d \in Descriptors : opened[d] = NoConnection
    BY DEF ServerInit
  <1>3. Dated(<<>>, now) /\ Window(<<>>, now) = {}
    BY DEF Dated, Window
  <1>4. Cardinality({}) = 0
    BY FS_EmptySet
  <1>5. 0 <= MAX_MSGS_PER_SECOND + MessagesPerRead
    BY ServerConstants DEF MessagesPerRead, Length
  <1>6. QED
    BY <1>1, <1>2, <1>3, <1>4, <1>5 DEF RateInv

\* The three invariants of the server together.
ServerInv == EdgeInv /\ FrameInv /\ RateInv

\* EpollServer::run and StreamParser: the invariant of edges, streams and rates holds in
\* every state of the server.
THEOREM ServerInvariant == ServerSpec => []ServerInv
  <1>1. ServerInit => ServerInv
    BY InitEdges, InitFrames, InitRates DEF ServerInv
  <1>2. ServerInv /\ [ServerNext]_serverVars => ServerInv'
    BY NextKeepsEdges, NextKeepsFrames, NextKeepsRates DEF ServerInv
  <1>3. QED
    BY <1>1, <1>2, PTL DEF ServerSpec

\* StreamParser::parse: the rate limit lets no more messages of a connection through in a
\* second than the limit and those of one read, for any buffer, limit and clock.
THEOREM RatesAreBounded == ServerSpec => []RateBounded
  <1>1. ServerInv => RateBounded
    BY DEF ServerInv, RateInv, RateBounded, InWindow, Window
  <1>2. QED
    BY <1>1, ServerInvariant, PTL

\* StreamParser::parse: a connection is refused for its own messages of the last second,
\* never for those of an earlier one at its descriptor.
THEOREM LimitsAreItsOwn == ServerSpec => LimitedForItsOwn
  <1>1. ASSUME ServerInv, [ServerNext]_serverVars
        PROVE  \A k \in limited' \ limited : Cardinality(InWindow(k)) > MAX_MSGS_PER_SECOND
    <2>1. CASE UNCHANGED limited
      BY <2>1
    <2>2. CASE ReadBytes
      <3>1. EdgeInv /\ RateInv
        BY <1>1 DEF ServerInv
      <3>2. PICK d, k, n, buf : /\ Reads(d, k, n, buf)
                                /\ \/ Len(Recent(d)) > MAX_MSGS_PER_SECOND /\ Limit(d)
                                   \/ ~(Len(Recent(d)) > MAX_MSGS_PER_SECOND) /\ Parse(d, n)
        BY <2>2, <3>1, ReadBytesCases
      <3>3. d \in Descriptors /\ k = opened[d] /\ k \in Connections /\ k # NoConnection
        BY <3>2, ServerConstants DEF Reads
      <3>4. CASE Parse(d, n)
        <4>1. UNCHANGED limited
          BY <3>4 DEF Parse
        <4>2. QED
          BY <4>1
      <3>5. CASE Len(Recent(d)) > MAX_MSGS_PER_SECOND /\ Limit(d)
        <4>1. limited' = limited \cup {k}
          BY <3>3, <3>5 DEF Limit
        <4>2. Cardinality(Window(handled[k], now)) = Len(Recent(d))
          BY <3>1, <3>3, RecentCounts
        <4>3. Cardinality(InWindow(k)) > MAX_MSGS_PER_SECOND
          BY <3>5, <4>2 DEF InWindow, Window
        <4>4. QED
          BY <4>1, <4>3
      <3>6. QED
        BY <3>2, <3>4, <3>5
    <2>3. UNCHANGED limited \/ ReadBytes
      BY <1>1 DEF ServerNext, Clients, Run, Connect, Send, HangUp, WriteFails, Tick, EpollWait, Accept,
                  HangUpEvent, ReadableEvent, ReadNothing, ReadOver, serverVars
    <2>4. QED
      BY <2>1, <2>2, <2>3
  <1>2. ServerInv /\ [ServerNext]_serverVars =>
            [\A k \in limited' \ limited : Cardinality(InWindow(k)) > MAX_MSGS_PER_SECOND]_serverVars
    BY <1>1
  <1>3. QED
    BY <1>2, ServerInvariant, PTL DEF ServerSpec, LimitedForItsOwn
=============================================================================
