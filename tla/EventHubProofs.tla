--------------------------- MODULE EventHubProofs ---------------------------
(***************************************************************************)
(* What the output_browser health check says of the kiosk, and what is on  *)
(* its way to it, for any number of pages and sockets, any length of queue *)
(* and wire, and any number of activations, events, cuts and kills.        *)
(***************************************************************************)
EXTENDS EventHub, SequenceTheorems, TLAPS

\* What a closing socket leaves behind is only known to be right when it was the
\* only kiosk socket: two that are open at once are remembered by overlapped.
SeveralOverlap ==
    \A k, j \in OpenKiosk : k # j => overlapped

ReportInv ==
    /\ owner \in [Socket -> Page \cup {None}]
    /\ connected \in BOOLEAN /\ overlapped \in BOOLEAN
    /\ SeveralOverlap
    /\ KioskReported

\* Before the first socket is accepted no kiosk is reported.
LEMMA ReportInit == Init => ReportInv
PROOF
    BY HubBounds DEF Init, ReportInv, SeveralOverlap, KioskReported, OpenKiosk, None

\* A new socket of a kiosk is reported, and counts as overlapping when another
\* kiosk socket is open; one of a control page changes neither.
LEMMA ConnectReports ==
    ASSUME NEW p \in Page, NEW k \in Socket, ReportInv, Connect(p, k)
    PROVE  ReportInv'
PROOF
<1>1. owner' \in [Socket -> Page \cup {None}]
    BY DEF ReportInv, Connect
<1>2. connected' \in BOOLEAN /\ overlapped' \in BOOLEAN
    BY DEF ReportInv, Connect
<1>3. CASE p \in Kiosk
    <2>1. OpenKiosk' = OpenKiosk \cup {k}
        BY <1>3 DEF ReportInv, Connect, OpenKiosk
    <2>2. connected' /\ (OpenKiosk # {} => overlapped')
        BY <1>3 DEF Connect, ReportInv
    <2>3. overlapped => overlapped'
        BY DEF Connect, ReportInv
    <2>4. SeveralOverlap'
        BY <2>1, <2>2, <2>3 DEF SeveralOverlap, ReportInv
    <2>5. KioskReported'
        BY <2>1, <2>2 DEF KioskReported
    <2> QED BY <1>1, <1>2, <2>4, <2>5 DEF ReportInv
<1>4. CASE p \notin Kiosk
    <2>1. OpenKiosk' = OpenKiosk
        BY <1>4, HubBounds DEF ReportInv, Connect, OpenKiosk, None
    <2>2. connected' = connected /\ overlapped' = overlapped
        BY <1>4 DEF Connect, ReportInv
    <2> QED BY <1>1, <1>2, <2>1, <2>2 DEF ReportInv, SeveralOverlap, KioskReported
<1> QED BY <1>3, <1>4

\* A closed socket of a kiosk takes the report with it, which is wrong only when
\* another was open beside it.
LEMMA ClosingReports ==
    ASSUME NEW k \in Socket, ReportInv, SocketClosed(k)
    PROVE  ReportInv'
PROOF
<1>1. owner' \in [Socket -> Page \cup {None}]
    BY DEF ReportInv, SocketClosed, Free
<1>2. connected' \in BOOLEAN /\ overlapped' \in BOOLEAN
    BY DEF ReportInv, SocketClosed
<1>3. OpenKiosk' = OpenKiosk \ {k}
    BY HubBounds DEF ReportInv, SocketClosed, Free, OpenKiosk, None
<1>4. overlapped' = (overlapped /\ OpenKiosk \ {k} # {})
    BY DEF SocketClosed
<1>5. SeveralOverlap'
    BY <1>3, <1>4 DEF SeveralOverlap, ReportInv
<1>6. CASE owner[k] \in Kiosk
    <2>1. k \in OpenKiosk /\ ~connected'
        BY <1>6 DEF OpenKiosk, SocketClosed, ReportInv
    <2>2. OpenKiosk' # {} => overlapped'
        BY <2>1, <1>3, <1>4 DEF ReportInv, SeveralOverlap
    <2> QED BY <1>1, <1>2, <1>5, <2>1, <2>2 DEF ReportInv, KioskReported
<1>7. CASE owner[k] \notin Kiosk
    <2>1. OpenKiosk' = OpenKiosk
        BY <1>7, <1>3 DEF OpenKiosk
    <2>2. connected' = connected
        BY <1>7 DEF SocketClosed, ReportInv
    <2>3. OpenKiosk' # {} /\ overlapped => overlapped'
        BY <1>3, <1>4
    <2> QED BY <1>1, <1>2, <1>5, <2>1, <2>2, <2>3 DEF ReportInv, KioskReported
<1> QED BY <1>6, <1>7

\* A kill closes every socket and forgets the report.
LEMMA RestartReports ==
    ASSUME ReportInv, Restart
    PROVE  ReportInv'
PROOF
<1>1. OpenKiosk' = {}
    BY HubBounds DEF Restart, Free, OpenKiosk, None
<1>2. owner' \in [Socket -> Page \cup {None}]
    BY DEF ReportInv, Restart, Free
<1> QED BY <1>1, <1>2 DEF Restart, ReportInv, SeveralOverlap, KioskReported

\* No step makes the hub forget a second kiosk socket.
LEMMA ReportStep == ReportInv /\ [Next]_vars => ReportInv'
PROOF
<1> SUFFICES ASSUME ReportInv, [Next]_vars PROVE ReportInv'
    OBVIOUS
<1>1. ASSUME UNCHANGED <<owner, connected, overlapped>> PROVE ReportInv'
    BY <1>1 DEF ReportInv, SeveralOverlap, KioskReported, OpenKiosk
<1>2. CASE ActivatePattern
    BY <1>1, <1>2 DEF ActivatePattern
<1>3. CASE PublishOther
    BY <1>1, <1>3 DEF PublishOther
<1>4. CASE Restart
    BY <1>4, RestartReports
<1>5. CASE \E p \in Page, k \in Socket : Connect(p, k)
    BY <1>5, ConnectReports
<1>6. CASE \E p \in Page : Receive(p)
    BY <1>1, <1>6 DEF Receive
<1>7. CASE \E p \in Page : Disconnect(p)
    BY <1>1, <1>7 DEF Disconnect
<1>8. CASE \E k \in Socket : Send(k)
    BY <1>1, <1>8 DEF Send
<1>9. CASE \E k \in Socket : SocketClosed(k)
    BY <1>9, ClosingReports
<1>10. CASE UNCHANGED vars
    BY <1>1, <1>10 DEF vars
<1> QED
    BY <1>2, <1>3, <1>4, <1>5, <1>6, <1>7, <1>8, <1>9, <1>10 DEF Next

\* The output_browser health check, for any number of kiosks: one that is
\* reported has a socket, and one that has a socket is reported unless it shared
\* its time with another kiosk socket.
THEOREM KioskReportedAlways == Spec => []KioskReported
PROOF
<1>1. ReportInv => KioskReported
    BY DEF ReportInv
<1> QED BY <1>1, ReportInit, ReportStep, PTL DEF Spec

-----------------------------------------------------------------------------
(* Types.                                                                  *)

\* Pushing keeps a queue within its maximum.
LEMMA PushTyped ==
    ASSUME NEW q \in Seq(Nat), Len(q) <= MaxQueue, NEW m \in Nat
    PROVE  Push(q, m) \in Seq(Nat) /\ Len(Push(q, m)) <= MaxQueue
PROOF
<1>1. Len(q) \in Nat /\ MaxQueue \in Nat /\ MaxQueue >= 1
    BY LenProperties, HubBounds
<1>2. CASE Len(q) < MaxQueue
    BY <1>1, <1>2, AppendProperties DEF Push
<1>3. CASE ~(Len(q) < MaxQueue)
    <2>1. q # <<>>
        BY <1>1, <1>3, EmptySeq
    <2>2. Tail(q) \in Seq(Nat) /\ Len(Tail(q)) = Len(q) - 1
        BY <2>1, HeadTailProperties
    <2>3. Push(q, m) = Append(Tail(q), m)
        BY <1>3 DEF Push
    <2> QED
        BY <1>1, <2>2, <2>3, AppendProperties
<1> QED
    BY <1>2, <1>3

\* So does publishing, for every subscriber.
LEMMA PublishTyped ==
    ASSUME TypeOK, NEW m \in Nat, Publish(m)
    PROVE  queue' \in [Socket -> Seq(Nat)] /\ \A k \in Socket : Len(queue'[k]) <= MaxQueue
PROOF
<1>1. \A k \in Socket : /\ Push(queue[k], m) \in Seq(Nat)
                        /\ Len(Push(queue[k], m)) <= MaxQueue
    BY PushTyped DEF TypeOK
<1> QED
    BY <1>1 DEF Publish, TypeOK

\* No step gives a variable a value it may not have.
LEMMA TypeStep == TypeOK /\ [Next]_vars => TypeOK'
PROOF
<1> SUFFICES ASSUME TypeOK, [Next]_vars PROVE TypeOK'
    OBVIOUS
<1>b. MaxQueue \in Nat /\ MaxWire \in Nat /\ MaxWire >= 1 /\ MaxBreaks \in Nat
    BY HubBounds
<1>e. <<>> \in Seq(Nat) /\ Len(<<>>) = 0
    BY EmptySeq
<1>1. CASE ActivatePattern
    <2>1. active + 1 \in Nat
        BY DEF TypeOK
    <2> QED
        BY <1>1, <2>1, PublishTyped DEF ActivatePattern, TypeOK
<1>2. CASE PublishOther
    BY <1>2, PublishTyped DEF PublishOther, TypeOK
<1>3. CASE Restart
    <2>1. active' \in Nat /\ since' \in Nat /\ breaks' \in 0..MaxBreaks
        BY <1>3, <1>b DEF Restart, TypeOK
    <2>2. /\ queue' \in [Socket -> Seq(Nat)] /\ wire' \in [Socket -> Seq(Nat)]
          /\ \A k \in Socket : Len(queue'[k]) <= MaxQueue /\ Len(wire'[k]) <= MaxWire
        BY <1>3, <1>b, <1>e DEF Restart, Free
    <2> QED
        BY <1>3, <2>1, <2>2 DEF Restart, Free, TypeOK
<1>4. ASSUME NEW p \in Page, NEW k \in Socket, Connect(p, k) PROVE TypeOK'
    <2>1. <<active>> \in Seq(Nat) /\ Len(<<active>>) = 1
        BY DEF TypeOK
    <2> QED
        BY <1>4, <1>b, <2>1 DEF Connect, TypeOK
<1>5. ASSUME NEW p \in Page, Receive(p) PROVE TypeOK'
    <2>1. PICK k \in Socket : k = conn[p] /\ wire[k] # <<>>
        BY <1>5 DEF Receive, TypeOK
    <2>2. /\ Head(wire[k]) \in Nat /\ Tail(wire[k]) \in Seq(Nat)
          /\ Len(Tail(wire[k])) = Len(wire[k]) - 1 /\ Len(wire[k]) \in Nat
        BY <2>1, HeadTailProperties, LenProperties DEF TypeOK
    <2>3. wire' = [wire EXCEPT ![k] = Tail(wire[k])]
        BY <1>5, <2>1 DEF Receive, TypeOK
    <2>4. Len(Tail(wire[k])) <= MaxWire
        BY <1>b, <2>2 DEF TypeOK
    <2>5. shows' \in [Kiosk -> Nat]
        BY <1>5, <2>1, <2>2 DEF Receive, TypeOK
    <2> QED
        BY <1>5, <2>2, <2>3, <2>4, <2>5 DEF Receive, TypeOK
<1>6. ASSUME NEW p \in Page, Disconnect(p) PROVE TypeOK'
    <2>1. shows' \in [Kiosk -> Nat]
        BY <1>6 DEF Disconnect, TypeOK
    <2> QED
        BY <1>6, <1>b, <2>1 DEF Disconnect, TypeOK
<1>7. ASSUME NEW k \in Socket, Send(k) PROVE TypeOK'
    <2>1. /\ Head(queue[k]) \in Nat /\ Tail(queue[k]) \in Seq(Nat)
          /\ Len(Tail(queue[k])) = Len(queue[k]) - 1 /\ Len(queue[k]) \in Nat
        BY <1>7, HeadTailProperties, LenProperties DEF TypeOK, Send
    <2>2. PICK w : w = Append(wire[k], Head(queue[k]))
        OBVIOUS
    <2>3. w \in Seq(Nat) /\ Len(w) = Len(wire[k]) + 1 /\ Len(wire[k]) \in Nat
        BY <2>1, <2>2, AppendProperties, LenProperties DEF TypeOK
    <2>4. wire' = [wire EXCEPT ![k] = w] /\ queue' = [queue EXCEPT ![k] = Tail(queue[k])]
        BY <1>7, <2>2 DEF Send, TypeOK
    <2>5. Len(w) <= MaxWire /\ Len(Tail(queue[k])) <= MaxQueue
        BY <1>7, <1>b, <2>1, <2>3 DEF Send, TypeOK
    <2> QED
        BY <1>7, <2>1, <2>3, <2>4, <2>5 DEF Send, TypeOK
<1>8. ASSUME NEW k \in Socket, SocketClosed(k) PROVE TypeOK'
    BY <1>8, <1>b, <1>e DEF SocketClosed, Free, TypeOK
<1>9. CASE UNCHANGED vars
    BY <1>9 DEF vars, TypeOK
<1> QED
    BY <1>1, <1>2, <1>3, <1>4, <1>5, <1>6, <1>7, <1>8, <1>9 DEF Next

\* In the beginning, too.
LEMMA TypeInit == Init => TypeOK
PROOF
<1> SUFFICES ASSUME Init PROVE TypeOK
    OBVIOUS
<1>1. MaxBreaks \in Nat /\ MaxQueue >= 0 /\ MaxWire >= 0 /\ 0 \in 0..MaxBreaks
    BY HubBounds
<1>2. <<>> \in Seq(Nat) /\ Len(<<>>) = 0
    BY EmptySeq
<1>3. /\ queue \in [Socket -> Seq(Nat)] /\ wire \in [Socket -> Seq(Nat)]
      /\ \A k \in Socket : Len(queue[k]) <= MaxQueue /\ Len(wire[k]) <= MaxWire
    BY <1>1, <1>2 DEF Init
<1> QED
    BY <1>1, <1>3 DEF Init, TypeOK

\* No activation, event, cut or kill gives the hub, a socket or a page a value the
\* code has not, and no subscriber's queue exceeds its maximum (EventHub.publish).
THEOREM TypesOfHub == Spec => []TypeOK
PROOF
    BY TypeInit, TypeStep, PTL DEF Spec

-----------------------------------------------------------------------------
(* What is on its way to a kiosk, as a sequence.                           *)

Line(x, w, q) == <<x>> \o w \o q

\* No message is newer than a; patterns come in their order; the last of them is
\* a, with at most n other messages behind it.
UpTo(s, a) == \A i \in 1..Len(s) : s[i] <= a
Ordered(s) == \A i, j \in 1..Len(s) : i < j /\ s[j] # 0 => s[i] <= s[j]
EndsIn(s, a, n) == \E i \in 1..Len(s) : /\ s[i] = a /\ Len(s) - i <= n
                                        /\ \A j \in 1..Len(s) : j > i => s[j] = 0

\* t is s without its message d.
Without(s, t, d) ==
    /\ Len(t) + 1 = Len(s)
    /\ \A i \in 1..Len(t) : t[i] = IF i < d THEN s[i] ELSE s[i + 1]

\* s is that line, when the wire holds a messages and the queue b.
IsLine(s, x, w, q, a, b) ==
    /\ s \in Seq(Nat) /\ Len(s) = 1 + a + b /\ s[1] = x
    /\ \A i \in 1..a : s[1 + i] = w[i]
    /\ \A i \in 1..b : s[1 + a + i] = q[i]

\* The places of the messages of a line.
LEMMA LineShape ==
    ASSUME NEW x \in Nat, NEW w \in Seq(Nat), NEW q \in Seq(Nat),
           NEW a \in Nat, NEW b \in Nat, Len(w) = a, Len(q) = b
    PROVE  IsLine(Line(x, w, q), x, w, q, a, b)
PROOF
<1>1. <<x>> \in Seq(Nat) /\ Len(<<x>>) = 1 /\ <<x>>[1] = x
    OBVIOUS
<1>2. PICK u : u = <<x>> \o w
    OBVIOUS
<1>3. /\ u \in Seq(Nat) /\ Len(u) = Len(<<x>>) + Len(w)
      /\ \A i \in 1..(Len(<<x>>) + Len(w)) :
            u[i] = IF i <= Len(<<x>>) THEN <<x>>[i] ELSE w[i - Len(<<x>>)]
    BY <1>1, <1>2, ConcatProperties
<1>4. /\ u \in Seq(Nat) /\ Len(u) = 1 + a
      /\ \A i \in 1..(1 + a) : u[i] = IF i <= 1 THEN <<x>>[i] ELSE w[i - 1]
    BY <1>1, <1>3
<1>5. u[1] = x /\ \A i \in 1..a : u[1 + i] = w[i]
    <2>1. 1 \in 1..(1 + a) /\ \A i \in 1..a : 1 + i \in 1..(1 + a) /\ (1 + i) - 1 = i
        OBVIOUS
    <2> QED
        BY <1>1, <1>4, <2>1
<1>6. PICK v : v = u \o q
    OBVIOUS
<1>7. /\ v \in Seq(Nat) /\ Len(v) = Len(u) + Len(q)
      /\ \A i \in 1..(Len(u) + Len(q)) :
            v[i] = IF i <= Len(u) THEN u[i] ELSE q[i - Len(u)]
    BY <1>4, <1>6, ConcatProperties
<1>8. /\ Len(v) = 1 + a + b
      /\ \A i \in 1..(1 + a + b) : v[i] = IF i <= 1 + a THEN u[i] ELSE q[i - (1 + a)]
    BY <1>4, <1>7
<1>9. v[1] = x /\ \A i \in 1..a : v[1 + i] = w[i]
    <2>1. 1 \in 1..(1 + a + b) /\ 1 <= 1 + a
        OBVIOUS
    <2>2. \A i \in 1..a : 1 + i \in 1..(1 + a + b) /\ 1 + i <= 1 + a
        OBVIOUS
    <2> QED
        BY <1>5, <1>8, <2>1, <2>2
<1>10. \A i \in 1..b : v[1 + a + i] = q[i]
    <2> SUFFICES ASSUME NEW i \in 1..b PROVE v[1 + a + i] = q[i]
        OBVIOUS
    <2>1. PICK j \in 1..(1 + a + b) : j = 1 + a + i
        OBVIOUS
    <2>2. ~(j <= 1 + a) /\ j - (1 + a) = i
        BY <2>1
    <2>3. v[j] = q[j - (1 + a)]
        BY <1>8, <2>2
    <2> QED
        BY <2>1, <2>2, <2>3
<1>11. v = Line(x, w, q)
    BY <1>2, <1>6 DEF Line
<1> QED
    BY <1>7, <1>8, <1>9, <1>10, <1>11 DEF IsLine

\* Each is the screen's, the wire's or the queue's.
LEMMA Places ==
    ASSUME NEW a \in Nat, NEW b \in Nat, NEW i \in 1..(1 + a + b)
    PROVE  \/ i = 1
           \/ \E j \in 1..a : i = 1 + j
           \/ \E j \in 1..b : i = 1 + a + j
PROOF
<1>1. CASE i # 1 /\ i <= 1 + a
    <2>1. i - 1 \in 1..a /\ i = 1 + (i - 1)
        BY <1>1
    <2> QED
        BY <2>1
<1>2. CASE i > 1 + a
    <2>1. i - (1 + a) \in 1..b /\ i = 1 + a + (i - (1 + a))
        BY <1>2
    <2> QED
        BY <2>1
<1> QED
    BY <1>1, <1>2

\* Dropping a message keeps age and order, and the last pattern unless it was
\* that.
LEMMA Dropped ==
    ASSUME NEW s \in Seq(Nat), NEW t \in Seq(Nat), NEW d \in 1..Len(s), Without(s, t, d)
    PROVE  /\ \A a : UpTo(s, a) => UpTo(t, a)
           /\ Ordered(s) => Ordered(t)
           /\ \A a \in Nat, n \in Nat :
                 /\ EndsIn(s, a, n)
                 /\ \/ Len(s) - d > n
                    \/ s[d] # a
                    \/ \E j \in 1..Len(s) : j > d /\ s[j] # 0
                 => EndsIn(t, a, n)
PROOF
<1>1. PICK m \in Nat : m = Len(t) /\ m + 1 = Len(s)
    BY LenProperties DEF Without
<1>2. \A i \in 1..m : t[i] = IF i < d THEN s[i] ELSE s[i + 1]
    BY <1>1 DEF Without
<1>3. \A i \in 1..(m + 1) : s[i] \in Nat
    BY <1>1, ElementOfSeq
<1>4. d \in 1..(m + 1)
    BY <1>1
<1>5. ASSUME NEW a, UpTo(s, a) PROVE UpTo(t, a)
    <2>1. \A i \in 1..(m + 1) : s[i] <= a
        BY <1>1, <1>5 DEF UpTo
    <2>2. \A i \in 1..m : i \in 1..(m + 1) /\ i + 1 \in 1..(m + 1)
        BY <1>1
    <2> QED
        BY <1>1, <1>2, <2>1, <2>2 DEF UpTo
<1>6. ASSUME Ordered(s) PROVE Ordered(t)
    <2>1. \A i, j \in 1..(m + 1) : i < j /\ s[j] # 0 => s[i] <= s[j]
        BY <1>1, <1>6 DEF Ordered
    <2> SUFFICES ASSUME NEW i \in 1..m, NEW j \in 1..m, i < j, t[j] # 0
                 PROVE  t[i] <= t[j]
        BY <1>1 DEF Ordered
    <2>2. PICK e \in 1..(m + 1) : t[i] = s[e] /\ (e = i \/ e = i + 1) /\ (i < d <=> e = i)
        BY <1>2, <1>4
    <2>3. PICK f \in 1..(m + 1) : t[j] = s[f] /\ (f = j \/ f = j + 1) /\ (j < d <=> f = j)
        BY <1>2, <1>4
    <2>4. e < f
        BY <2>2, <2>3, <1>4
    <2> QED
        BY <2>1, <2>2, <2>3, <2>4
<1>7. ASSUME NEW a \in Nat, NEW n \in Nat, EndsIn(s, a, n),
             \/ Len(s) - d > n
             \/ s[d] # a
             \/ \E j \in 1..Len(s) : j > d /\ s[j] # 0
      PROVE  EndsIn(t, a, n)
    <2>1. PICK i \in 1..(m + 1) : /\ s[i] = a /\ (m + 1) - i <= n
                                /\ \A j \in 1..(m + 1) : j > i => s[j] = 0
        BY <1>1, <1>7 DEF EndsIn
    <2>2. i # d
        BY <1>1, <1>4, <1>7, <2>1
    <2>3. CASE i < d
        <3>1. i \in 1..m /\ t[i] = a /\ m - i <= n
            BY <1>2, <1>4, <2>1, <2>3
        <3>2. ASSUME NEW j \in 1..m, j > i PROVE t[j] = 0
            <4>1. /\ j \in 1..(m + 1) /\ j + 1 \in 1..(m + 1)
                  /\ j + 1 > i
                BY <3>2
            <4>2. s[j] = 0 /\ s[j + 1] = 0
                BY <2>1, <3>2, <4>1
            <4> QED
                BY <1>2, <4>2
        <3> QED
            BY <1>1, <3>1, <3>2 DEF EndsIn
    <2>4. CASE i > d
        <3>1. i - 1 \in 1..m /\ t[i - 1] = s[i]
            BY <1>2, <1>4, <2>4
        <3>2. m - (i - 1) <= n
            BY <2>1
        <3>3. ASSUME NEW j \in 1..m, j > i - 1 PROVE t[j] = 0
            <4>1. t[j] = s[j + 1] /\ j + 1 \in 1..(m + 1) /\ j + 1 > i
                BY <1>2, <1>4, <2>4, <3>3
            <4> QED
                BY <2>1, <4>1
        <3> QED
            BY <1>1, <2>1, <3>1, <3>2, <3>3 DEF EndsIn
    <2> QED
        BY <1>4, <2>2, <2>3, <2>4
<1> QED
    BY <1>5, <1>6, <1>7

\* Another message, or the next pattern, at the end.
LEMMA Appended ==
    ASSUME NEW s \in Seq(Nat), NEW a \in Nat, UpTo(s, a), Ordered(s)
    PROVE  /\ UpTo(Append(s, 0), a) /\ Ordered(Append(s, 0))
           /\ \A n \in Nat : EndsIn(s, a, n) => EndsIn(Append(s, 0), a, n + 1)
           /\ UpTo(Append(s, a + 1), a + 1) /\ Ordered(Append(s, a + 1))
           /\ EndsIn(Append(s, a + 1), a + 1, 0)
PROOF
<1>1. PICK m \in Nat : m = Len(s)
    BY LenProperties
<1>2. \A i \in 1..m : s[i] \in Nat /\ s[i] <= a
    BY <1>1, ElementOfSeq DEF UpTo
<1>3. \A i, j \in 1..m : i < j /\ s[j] # 0 => s[i] <= s[j]
    BY <1>1 DEF Ordered
<1>4. ASSUME NEW x \in Nat
      PROVE  /\ Len(Append(s, x)) = m + 1 /\ Append(s, x)[m + 1] = x
             /\ \A i \in 1..m : Append(s, x)[i] = s[i]
    BY <1>1, AppendProperties
<1>5. ASSUME NEW x \in {0, a + 1}
      PROVE  /\ UpTo(Append(s, x), IF x = 0 THEN a ELSE a + 1) /\ Ordered(Append(s, x))
    <2>1. PICK t : t = Append(s, x)
        OBVIOUS
    <2>2. /\ Len(t) = m + 1 /\ t[m + 1] = x
          /\ \A i \in 1..m : t[i] = s[i]
        BY <1>4, <2>1
    <2>3. \A i \in 1..(m + 1) : i \in 1..m \/ i = m + 1
        OBVIOUS
    <2>4. UpTo(t, IF x = 0 THEN a ELSE a + 1)
        BY <1>2, <2>2, <2>3 DEF UpTo
    <2>5. Ordered(t)
        <3> SUFFICES ASSUME NEW i \in 1..(m + 1), NEW j \in 1..(m + 1), i < j, t[j] # 0
                     PROVE  t[i] <= t[j]
            BY <2>2 DEF Ordered
        <3>1. i \in 1..m
            OBVIOUS
        <3>2. CASE j \in 1..m
            BY <1>3, <2>2, <3>1, <3>2
        <3>3. CASE j = m + 1
            BY <1>2, <2>2, <3>1, <3>3
        <3> QED
            BY <2>3, <3>2, <3>3
    <2> QED
        BY <2>1, <2>4, <2>5
<1>6. ASSUME NEW n \in Nat, EndsIn(s, a, n) PROVE EndsIn(Append(s, 0), a, n + 1)
    <2>1. PICK i \in 1..m : /\ s[i] = a /\ m - i <= n
                           /\ \A j \in 1..m : j > i => s[j] = 0
        BY <1>1, <1>6 DEF EndsIn
    <2>2. PICK t : t = Append(s, 0)
        OBVIOUS
    <2>3. /\ Len(t) = m + 1 /\ t[m + 1] = 0
          /\ \A k \in 1..m : t[k] = s[k]
        BY <1>4, <2>2
    <2>4. i \in 1..(m + 1) /\ t[i] = a /\ (m + 1) - i <= n + 1
        BY <2>1, <2>3
    <2>5. \A j \in 1..(m + 1) : j > i => t[j] = 0
        BY <2>1, <2>3
    <2> QED
        BY <2>2, <2>3, <2>4, <2>5 DEF EndsIn
<1>7. EndsIn(Append(s, a + 1), a + 1, 0)
    <2>1. m + 1 \in 1..(m + 1) /\ (m + 1) - (m + 1) <= 0
          /\ \A j \in 1..(m + 1) : ~(j > m + 1)
        OBVIOUS
    <2> QED
        BY <1>4, <2>1 DEF EndsIn
<1>8. a + 1 # 0
    OBVIOUS
<1> QED
    BY <1>5, <1>6, <1>7, <1>8

-----------------------------------------------------------------------------
(* The line of a kiosk.                                                    *)

\* What is left of a queue without its head.
LEMMA TailShape ==
    ASSUME NEW q \in Seq(Nat), q # <<>>
    PROVE  /\ Tail(q) \in Seq(Nat) /\ Head(q) \in Nat /\ Head(q) = q[1]
           /\ \E b \in Nat : /\ Len(Tail(q)) = b /\ Len(q) = b + 1
                             /\ \A i \in 1..b : Tail(q)[i] = q[i + 1]
PROOF
<1>1. /\ Head(q) \in Nat /\ Tail(q) \in Seq(Nat) /\ Head(q) = q[1]
      /\ Len(Tail(q)) = Len(q) - 1
      /\ \A i \in 1..Len(Tail(q)) : Tail(q)[i] = q[i + 1]
    BY HeadTailProperties
<1>2. Len(Tail(q)) \in Nat /\ Len(q) \in Nat
    BY <1>1, LenProperties
<1>3. Len(q) = Len(Tail(q)) + 1
    BY <1>1, <1>2
<1> QED
    BY <1>1, <1>2, <1>3

\* A message at the end of the queue is one at the end of the line.
LEMMA LineAppend ==
    ASSUME NEW x \in Nat, NEW w \in Seq(Nat), NEW q \in Seq(Nat), NEW m \in Nat
    PROVE  Line(x, w, Append(q, m)) = Append(Line(x, w, q), m)
PROOF
<1>1. PICK a \in Nat, b \in Nat : Len(w) = a /\ Len(q) = b
    BY LenProperties
<1>2. PICK r : r = Append(q, m)
    OBVIOUS
<1>3. /\ r \in Seq(Nat) /\ Len(r) = b + 1 /\ r[b + 1] = m
      /\ \A i \in 1..b : r[i] = q[i]
    <2>1. /\ r \in Seq(Nat) /\ Len(r) = Len(q) + 1 /\ r[Len(q) + 1] = m
          /\ \A i \in 1..Len(q) : r[i] = q[i]
        BY <1>2, AppendProperties
    <2> QED
        BY <1>1, <2>1
<1>4. PICK s : s = Line(x, w, q)
    OBVIOUS
<1>5. /\ s \in Seq(Nat) /\ Len(s) = 1 + a + b /\ s[1] = x
      /\ \A i \in 1..a : s[1 + i] = w[i]
      /\ \A i \in 1..b : s[1 + a + i] = q[i]
    <2>1. IsLine(s, x, w, q, a, b)
        BY <1>1, <1>4, LineShape
    <2> QED
        BY <2>1 DEF IsLine
<1>6. PICK c \in Nat : c = b + 1
    OBVIOUS
<1>7. PICK t : t = Line(x, w, r)
    OBVIOUS
<1>8. /\ t \in Seq(Nat) /\ Len(t) = 1 + a + c /\ t[1] = x
      /\ \A i \in 1..a : t[1 + i] = w[i]
      /\ \A i \in 1..c : t[1 + a + i] = r[i]
    <2>1. IsLine(t, x, w, r, a, c)
        BY <1>1, <1>3, <1>6, <1>7, LineShape
    <2> QED
        BY <2>1 DEF IsLine
<1>9. PICK n \in Nat : n = 1 + a + b
    OBVIOUS
<1>10. PICK v : v = Append(s, m)
    OBVIOUS
<1>11. /\ v \in Seq(Nat) /\ Len(v) = n + 1 /\ v[n + 1] = m
       /\ \A i \in 1..n : v[i] = s[i]
    <2>1. s \in Seq(Nat) /\ Len(s) = n
        BY <1>5, <1>9
    <2>2. /\ v \in Seq(Nat) /\ Len(v) = Len(s) + 1 /\ v[Len(s) + 1] = m
          /\ \A i \in 1..Len(s) : v[i] = s[i]
        BY <1>10, <2>1, AppendProperties
    <2> QED
        BY <2>1, <2>2
<1>12. ASSUME NEW i \in 1..(1 + a + c) PROVE t[i] = v[i]
    <2>1. CASE i = 1
        BY <1>5, <1>8, <1>9, <1>11, <2>1
    <2>2. ASSUME NEW j \in 1..a, i = 1 + j PROVE t[i] = v[i]
        <3>1. 1 + j \in 1..n
            BY <1>9
        <3> QED
            BY <1>5, <1>8, <1>11, <2>2, <3>1
    <2>3. ASSUME NEW j \in 1..c, i = 1 + a + j PROVE t[i] = v[i]
        <3>1. CASE j = b + 1
            <4>1. 1 + a + j = n + 1
                BY <1>9, <3>1
            <4> QED
                BY <1>3, <1>8, <1>11, <2>3, <3>1, <4>1
        <3>2. CASE j # b + 1
            <4>1. j \in 1..b /\ 1 + a + j \in 1..n
                BY <1>6, <1>9, <3>2
            <4> QED
                BY <1>3, <1>5, <1>8, <1>11, <2>3, <4>1
        <3> QED
            BY <3>1, <3>2
    <2> QED
        BY <2>1, <2>2, <2>3, Places
<1>13. Len(t) = 1 + a + c /\ Len(v) = 1 + a + c
    BY <1>6, <1>8, <1>9, <1>11
<1>14. t = v
    BY <1>8, <1>11, <1>12, <1>13, SeqEqual
<1> QED
    BY <1>2, <1>4, <1>7, <1>10, <1>14

\* The oldest message of the queue stands behind the wire; the line without it.
LEMMA LineTail ==
    ASSUME NEW x \in Nat, NEW w \in Seq(Nat), NEW q \in Seq(Nat), q # <<>>,
           NEW d \in Nat, d = Len(w) + 2
    PROVE  /\ Without(Line(x, w, q), Line(x, w, Tail(q)), d)
           /\ d \in 1..Len(Line(x, w, q))
           /\ Len(Line(x, w, q)) - d = Len(q) - 1
PROOF
<1>1. PICK r : r = Tail(q)
    OBVIOUS
<1>2. PICK b \in Nat : /\ Len(r) = b /\ Len(q) = b + 1
                       /\ \A i \in 1..b : r[i] = q[i + 1]
    BY <1>1, TailShape
<1>3. PICK a \in Nat, c \in Nat : Len(w) = a /\ c = b + 1
    BY LenProperties
<1>4. PICK s : s = Line(x, w, q)
    OBVIOUS
<1>5. /\ s \in Seq(Nat) /\ Len(s) = 1 + a + c /\ s[1] = x
      /\ \A i \in 1..a : s[1 + i] = w[i]
      /\ \A i \in 1..c : s[1 + a + i] = q[i]
    <2>1. IsLine(s, x, w, q, a, c)
        BY <1>2, <1>3, <1>4, LineShape
    <2> QED
        BY <2>1 DEF IsLine
<1>6. PICK t : t = Line(x, w, r)
    OBVIOUS
<1>7. /\ t \in Seq(Nat) /\ Len(t) = 1 + a + b /\ t[1] = x
      /\ \A i \in 1..a : t[1 + i] = w[i]
      /\ \A i \in 1..b : t[1 + a + i] = r[i]
    <2>1. IsLine(t, x, w, r, a, b)
        BY <1>1, <1>2, <1>3, <1>6, LineShape, TailShape
    <2> QED
        BY <2>1 DEF IsLine
<1>8. d = a + 2
    BY <1>3
<1>9. ASSUME NEW i \in 1..(1 + a + b)
      PROVE  t[i] = IF i < d THEN s[i] ELSE s[i + 1]
    <2>1. CASE i = 1
        BY <1>5, <1>7, <1>8, <2>1
    <2>2. ASSUME NEW j \in 1..a, i = 1 + j
          PROVE  t[i] = IF i < d THEN s[i] ELSE s[i + 1]
        <3>1. i < d
            BY <1>8, <2>2
        <3> QED
            BY <1>5, <1>7, <2>2, <3>1
    <2>3. ASSUME NEW j \in 1..b, i = 1 + a + j
          PROVE  t[i] = IF i < d THEN s[i] ELSE s[i + 1]
        <3>1. ~(i < d) /\ i + 1 = 1 + a + (j + 1) /\ j + 1 \in 1..c
            BY <1>3, <1>8, <2>3
        <3>2. t[i] = r[j] /\ r[j] = q[j + 1]
            BY <1>2, <1>7, <2>3
        <3>3. s[1 + a + (j + 1)] = q[j + 1]
            BY <1>5, <3>1
        <3> QED
            BY <3>1, <3>2, <3>3
    <2> QED
        BY <2>1, <2>2, <2>3, Places
<1>10. Without(s, t, d)
    BY <1>3, <1>5, <1>7, <1>9 DEF Without
<1>11. d \in 1..Len(s) /\ Len(s) - d = Len(q) - 1
    BY <1>2, <1>3, <1>5, <1>8
<1> QED
    BY <1>1, <1>4, <1>6, <1>10, <1>11

\* A frame that is sent moves from the queue to the wire, and the line stays.
LEMMA LineSend ==
    ASSUME NEW x \in Nat, NEW w \in Seq(Nat), NEW q \in Seq(Nat), q # <<>>
    PROVE  Line(x, Append(w, Head(q)), Tail(q)) = Line(x, w, q)
PROOF
<1>1. PICK r, h : r = Tail(q) /\ h = Head(q)
    OBVIOUS
<1>2. PICK b \in Nat : /\ Len(r) = b /\ Len(q) = b + 1
                       /\ \A i \in 1..b : r[i] = q[i + 1]
    BY <1>1, TailShape
<1>3. r \in Seq(Nat) /\ h = q[1] /\ h \in Nat
    BY <1>1, TailShape
<1>4. PICK a \in Nat, c \in Nat, e \in Nat : Len(w) = a /\ c = b + 1 /\ e = a + 1
    BY LenProperties
<1>5. PICK u : u = Append(w, h)
    OBVIOUS
<1>6. /\ u \in Seq(Nat) /\ Len(u) = e /\ u[e] = h
      /\ \A i \in 1..a : u[i] = w[i]
    <2>1. /\ u \in Seq(Nat) /\ Len(u) = Len(w) + 1 /\ u[Len(w) + 1] = h
          /\ \A i \in 1..Len(w) : u[i] = w[i]
        BY <1>3, <1>5, AppendProperties
    <2> QED
        BY <1>4, <2>1
<1>7. PICK s : s = Line(x, w, q)
    OBVIOUS
<1>8. /\ s \in Seq(Nat) /\ Len(s) = 1 + a + c /\ s[1] = x
      /\ \A i \in 1..a : s[1 + i] = w[i]
      /\ \A i \in 1..c : s[1 + a + i] = q[i]
    <2>1. IsLine(s, x, w, q, a, c)
        BY <1>2, <1>4, <1>7, LineShape
    <2> QED
        BY <2>1 DEF IsLine
<1>9. PICK t : t = Line(x, u, r)
    OBVIOUS
<1>10. /\ t \in Seq(Nat) /\ Len(t) = 1 + e + b /\ t[1] = x
       /\ \A i \in 1..e : t[1 + i] = u[i]
       /\ \A i \in 1..b : t[1 + e + i] = r[i]
    <2>1. IsLine(t, x, u, r, e, b)
        BY <1>2, <1>3, <1>6, <1>9, LineShape
    <2> QED
        BY <2>1 DEF IsLine
<1>11. ASSUME NEW i \in 1..(1 + a + c) PROVE t[i] = s[i]
    <2>1. CASE i = 1
        BY <1>8, <1>10, <2>1
    <2>2. ASSUME NEW j \in 1..a, i = 1 + j PROVE t[i] = s[i]
        <3>1. j \in 1..e
            BY <1>4
        <3> QED
            BY <1>6, <1>8, <1>10, <2>2, <3>1
    <2>3. ASSUME NEW j \in 1..c, i = 1 + a + j PROVE t[i] = s[i]
        <3>1. s[i] = q[j]
            BY <1>8, <2>3
        <3>2. CASE j = 1
            <4>1. i = 1 + e /\ e \in 1..e
                BY <1>4, <2>3, <3>2
            <4> QED
                BY <1>3, <1>6, <1>10, <3>1, <3>2, <4>1
        <3>3. CASE j # 1
            <4>1. PICK l \in 1..b : j = l + 1 /\ i = 1 + e + l
                <5>1. j - 1 \in 1..b /\ j = (j - 1) + 1 /\ i = 1 + e + (j - 1)
                    BY <1>4, <2>3, <3>3
                <5> QED
                    BY <5>1
            <4> QED
                BY <1>2, <1>10, <3>1, <4>1
        <3> QED
            BY <3>2, <3>3
    <2> QED
        BY <2>1, <2>2, <2>3, Places
<1>12. Len(t) = 1 + a + c /\ Len(s) = 1 + a + c
    BY <1>4, <1>8, <1>10
<1>13. t = s
    BY <1>8, <1>10, <1>11, <1>12, SeqEqual
<1> QED
    BY <1>1, <1>5, <1>7, <1>9, <1>13

\* A frame that is received leaves the wire; the line loses it when it is another
\* event, or what was shown before when it is a pattern.
LEMMA LineReceive ==
    ASSUME NEW x \in Nat, NEW w \in Seq(Nat), NEW q \in Seq(Nat), w # <<>>,
           NEW y \in Nat, NEW d,
           \/ d = 2 /\ y = x
           \/ d = 1 /\ y = Head(w)
    PROVE  /\ Without(Line(x, w, q), Line(y, Tail(w), q), d)
           /\ 1 \in 1..Len(Line(x, w, q)) /\ 2 \in 1..Len(Line(x, w, q))
           /\ Line(x, w, q)[2] = Head(w)
PROOF
<1>1. PICK r, h : r = Tail(w) /\ h = Head(w)
    OBVIOUS
<1>2. PICK a \in Nat : /\ Len(r) = a /\ Len(w) = a + 1
                       /\ \A i \in 1..a : r[i] = w[i + 1]
    BY <1>1, TailShape
<1>3. r \in Seq(Nat) /\ h = w[1]
    BY <1>1, TailShape
<1>4. PICK b \in Nat, e \in Nat : Len(q) = b /\ e = a + 1
    BY LenProperties
<1>5. PICK s : s = Line(x, w, q)
    OBVIOUS
<1>6. /\ s \in Seq(Nat) /\ Len(s) = 1 + e + b /\ s[1] = x
      /\ \A i \in 1..e : s[1 + i] = w[i]
      /\ \A i \in 1..b : s[1 + e + i] = q[i]
    <2>1. IsLine(s, x, w, q, e, b)
        BY <1>2, <1>4, <1>5, LineShape
    <2> QED
        BY <2>1 DEF IsLine
<1>7. PICK t : t = Line(y, r, q)
    OBVIOUS
<1>8. /\ t \in Seq(Nat) /\ Len(t) = 1 + a + b /\ t[1] = y
      /\ \A i \in 1..a : t[1 + i] = r[i]
      /\ \A i \in 1..b : t[1 + a + i] = q[i]
    <2>1. IsLine(t, y, r, q, a, b)
        BY <1>2, <1>3, <1>4, <1>7, LineShape
    <2> QED
        BY <2>1 DEF IsLine
<1>9. s[2] = h
    <2>1. 1 \in 1..e /\ 1 + 1 = 2
        BY <1>4
    <2> QED
        BY <1>3, <1>6, <2>1
<1>10. ASSUME NEW i \in 1..(1 + a + b)
       PROVE  t[i] = IF i < d THEN s[i] ELSE s[i + 1]
    <2>1. CASE i = 1
        <3>1. CASE d = 2 /\ y = x
            BY <1>6, <1>8, <2>1, <3>1
        <3>2. CASE d = 1 /\ y = h
            <4>1. i + 1 = 2 /\ ~(i < d)
                BY <2>1, <3>2
            <4> QED
                BY <1>8, <1>9, <2>1, <3>2, <4>1
        <3> QED
            BY <1>1, <3>1, <3>2
    <2>2. ASSUME NEW j \in 1..a, i = 1 + j
          PROVE  t[i] = IF i < d THEN s[i] ELSE s[i + 1]
        <3>1. ~(i < d) /\ i + 1 = 1 + (j + 1) /\ j + 1 \in 1..e
            BY <1>4, <2>2
        <3>2. t[i] = w[j + 1]
            BY <1>2, <1>8, <2>2
        <3>3. s[i + 1] = w[j + 1]
            BY <1>6, <3>1
        <3> QED
            BY <3>1, <3>2, <3>3
    <2>3. ASSUME NEW j \in 1..b, i = 1 + a + j
          PROVE  t[i] = IF i < d THEN s[i] ELSE s[i + 1]
        <3>1. ~(i < d) /\ i + 1 = 1 + e + j
            BY <1>4, <2>3
        <3>2. t[i] = q[j]
            BY <1>8, <2>3
        <3>3. s[i + 1] = q[j]
            BY <1>6, <3>1
        <3> QED
            BY <3>1, <3>2, <3>3
    <2> QED
        BY <2>1, <2>2, <2>3, Places
<1>11. Without(s, t, d) /\ 1 \in 1..Len(s) /\ 2 \in 1..Len(s)
    BY <1>4, <1>6, <1>8, <1>10 DEF Without
<1> QED
    BY <1>1, <1>5, <1>7, <1>9, <1>11

-----------------------------------------------------------------------------
(* A kiosk with a socket.                                                  *)

\* What ActivePatternOnItsWay says of one kiosk when a is the active pattern and
\* n other events came since.
Ready(x, w, q, a, n) ==
    /\ UpTo(Line(x, w, q), a) /\ Ordered(Line(x, w, q))
    /\ n < MaxQueue => EndsIn(Line(x, w, q), a, n)

\* A new socket is greeted: the active pattern is on the wire.
LEMMA ReadyGreeted ==
    ASSUME NEW x \in Nat, NEW a \in Nat, NEW n \in Nat, x <= a
    PROVE  Ready(x, <<a>>, <<>>, a, n)
PROOF
<1>1. <<a>> \in Seq(Nat) /\ Len(<<a>>) = 1 /\ <<a>>[1] = a
    OBVIOUS
<1>2. <<>> \in Seq(Nat) /\ Len(<<>>) = 0
    BY EmptySeq
<1>3. PICK s : s = Line(x, <<a>>, <<>>)
    OBVIOUS
<1>4. IsLine(s, x, <<a>>, <<>>, 1, 0)
    BY <1>1, <1>2, <1>3, LineShape
<1>5. Len(s) = 2 /\ s[1] = x /\ s[2] = a
    <2>1. \A i \in 1..1 : s[1 + i] = <<a>>[i]
        BY <1>4 DEF IsLine
    <2>2. s[1 + 1] = <<a>>[1]
        BY <2>1
    <2> QED
        BY <1>1, <1>4, <2>2 DEF IsLine
<1>6. \A i \in 1..2 : i = 1 \/ i = 2
    OBVIOUS
<1>7. UpTo(s, a)
    BY <1>5, <1>6 DEF UpTo
<1>8. Ordered(s)
    BY <1>5, <1>6 DEF Ordered
<1>9. EndsIn(s, a, n)
    <2>1. 2 \in 1..2 /\ 2 - 2 <= n /\ \A j \in 1..2 : ~(j > 2)
        OBVIOUS
    <2> QED
        BY <1>5, <2>1 DEF EndsIn
<1> QED
    BY <1>3, <1>7, <1>8, <1>9 DEF Ready

\* Sending moves a frame along the line.
LEMMA ReadySent ==
    ASSUME NEW x \in Nat, NEW w \in Seq(Nat), NEW q \in Seq(Nat), q # <<>>,
           NEW a \in Nat, NEW n \in Nat, Ready(x, w, q, a, n)
    PROVE  Ready(x, Append(w, Head(q)), Tail(q), a, n)
PROOF
    BY LineSend DEF Ready

\* Receiving takes another event out of it, or what a pattern replaces.
LEMMA ReadyReceived ==
    ASSUME NEW x \in Nat, NEW w \in Seq(Nat), NEW q \in Seq(Nat), w # <<>>,
           NEW a \in Nat, a # 0, NEW n \in Nat, Ready(x, w, q, a, n)
    PROVE  Ready(IF Head(w) # 0 THEN Head(w) ELSE x, Tail(w), q, a, n)
PROOF
<1>1. PICK y : y = IF Head(w) # 0 THEN Head(w) ELSE x
    OBVIOUS
<1>2. Head(w) \in Nat /\ Tail(w) \in Seq(Nat) /\ y \in Nat
    BY <1>1, TailShape
<1>3. PICK d \in {1, 2} : \/ d = 2 /\ y = x /\ Head(w) = 0
                          \/ d = 1 /\ y = Head(w) /\ Head(w) # 0
    BY <1>1
<1>4. PICK s, t : s = Line(x, w, q) /\ t = Line(y, Tail(w), q)
    OBVIOUS
<1>5. PICK b \in Nat, c \in Nat, e \in Nat : Len(w) = b /\ Len(q) = c /\ Len(Tail(w)) = e
    BY <1>2, LenProperties
<1>6. s \in Seq(Nat) /\ t \in Seq(Nat)
    <2>1. IsLine(s, x, w, q, b, c)
        BY <1>4, <1>5, LineShape
    <2>2. IsLine(t, y, Tail(w), q, e, c)
        BY <1>2, <1>4, <1>5, LineShape
    <2> QED
        BY <2>1, <2>2 DEF IsLine
<1>7. /\ Without(s, t, d) /\ s[2] = Head(w)
      /\ 1 \in 1..Len(s) /\ 2 \in 1..Len(s)
    <2>1. \/ d = 2 /\ y = x
          \/ d = 1 /\ y = Head(w)
        BY <1>3
    <2>2. /\ Without(Line(x, w, q), Line(y, Tail(w), q), d)
          /\ 1 \in 1..Len(Line(x, w, q)) /\ 2 \in 1..Len(Line(x, w, q))
          /\ Line(x, w, q)[2] = Head(w)
        BY <1>2, <2>1, LineReceive
    <2> QED
        BY <1>4, <2>2
<1>8. d \in 1..Len(s)
    BY <1>3, <1>7
<1>9. s[d] # a \/ \E j \in 1..Len(s) : j > d /\ s[j] # 0
    BY <1>3, <1>7
<1>10. /\ UpTo(s, a) => UpTo(t, a)
       /\ Ordered(s) => Ordered(t)
       /\ EndsIn(s, a, n) => EndsIn(t, a, n)
    <2>1. \A c1 : UpTo(s, c1) => UpTo(t, c1)
        BY <1>6, <1>7, <1>8, Dropped
    <2>2. Ordered(s) => Ordered(t)
        BY <1>6, <1>7, <1>8, Dropped
    <2>3. EndsIn(s, a, n) => EndsIn(t, a, n)
        BY <1>6, <1>7, <1>8, <1>9, Dropped
    <2> QED
        BY <2>1, <2>2, <2>3
<1> QED
    BY <1>1, <1>4, <1>10 DEF Ready

\* Publishing adds a message; the one a full queue loses is not the active pattern
\* while fewer other events came since than a queue holds.
LEMMA ReadyPushed ==
    ASSUME NEW x \in Nat, NEW w \in Seq(Nat), NEW q \in Seq(Nat),
           NEW a \in Nat, NEW n \in Nat, Ready(x, w, q, a, n)
    PROVE  /\ Ready(x, w, Push(q, 0), a, n + 1)
           /\ Ready(x, w, Push(q, a + 1), a + 1, 0)
PROOF
<1>1. PICK r : r = IF Len(q) < MaxQueue THEN q ELSE Tail(q)
    OBVIOUS
<1>2. PICK b \in Nat, c \in Nat : Len(w) = b /\ Len(q) = c
    BY LenProperties
<1>3. MaxQueue \in Nat /\ MaxQueue >= 1
    BY HubBounds
<1>4. PICK s : s = Line(x, w, q)
    OBVIOUS
<1>5. s \in Seq(Nat)
    <2>1. IsLine(s, x, w, q, b, c)
        BY <1>2, <1>4, LineShape
    <2> QED
        BY <2>1 DEF IsLine
<1>6. UpTo(s, a) /\ Ordered(s) /\ (n < MaxQueue => EndsIn(s, a, n))
    BY <1>4 DEF Ready
<1>7. ~(Len(q) < MaxQueue) => q # <<>>
    BY <1>3, EmptySeq
<1>8. r \in Seq(Nat)
    BY <1>1, <1>7, TailShape
<1>9. PICK t : t = Line(x, w, r)
    OBVIOUS
<1>10. t \in Seq(Nat)
    <2>1. PICK e \in Nat : Len(r) = e
        BY <1>8, LenProperties
    <2>2. IsLine(t, x, w, r, b, e)
        BY <1>2, <1>8, <1>9, <2>1, LineShape
    <2> QED
        BY <2>2 DEF IsLine
<1>11. UpTo(t, a) /\ Ordered(t) /\ (n + 1 < MaxQueue => EndsIn(t, a, n))
    <2>1. CASE Len(q) < MaxQueue
        BY <1>1, <1>3, <1>4, <1>6, <1>9, <2>1
    <2>2. CASE ~(Len(q) < MaxQueue)
        <3>1. PICK d \in Nat : d = Len(w) + 2
            BY <1>2
        <3>2. Without(s, t, d) /\ d \in 1..Len(s) /\ Len(s) - d = Len(q) - 1
            <4>1. q # <<>> /\ r = Tail(q)
                BY <1>1, <1>7, <2>2
            <4>2. /\ Without(Line(x, w, q), Line(x, w, Tail(q)), d)
                  /\ d \in 1..Len(Line(x, w, q))
                  /\ Len(Line(x, w, q)) - d = Len(q) - 1
                BY <3>1, <4>1, LineTail, ZenonT(60)
            <4> QED
                BY <1>4, <1>9, <4>1, <4>2
        <3>3. n + 1 < MaxQueue => Len(s) - d > n /\ n < MaxQueue
            BY <1>2, <1>3, <2>2, <3>2
        <3>4. \A c1 : UpTo(s, c1) => UpTo(t, c1)
            BY <1>5, <1>10, <3>2, Dropped
        <3>5. Ordered(s) => Ordered(t)
            BY <1>5, <1>10, <3>2, Dropped
        <3>6. ASSUME n + 1 < MaxQueue PROVE EndsIn(t, a, n)
            BY <1>5, <1>6, <1>10, <3>2, <3>3, <3>6, Dropped
        <3> QED
            BY <1>6, <3>4, <3>5, <3>6
    <2> QED
        BY <2>1, <2>2
<1>12. Push(q, 0) = Append(r, 0) /\ Push(q, a + 1) = Append(r, a + 1)
    BY <1>1 DEF Push
<1>13. Line(x, w, Append(r, 0)) = Append(t, 0) /\ Line(x, w, Append(r, a + 1)) = Append(t, a + 1)
    <2>1. ASSUME NEW m \in Nat
          PROVE  Line(x, w, Append(r, m)) = Append(Line(x, w, r), m)
        BY <1>8, LineAppend, ZenonT(90)
    <2> QED
        BY <1>9, <2>1
<1>14. /\ UpTo(Append(t, 0), a) /\ Ordered(Append(t, 0))
       /\ UpTo(Append(t, a + 1), a + 1) /\ Ordered(Append(t, a + 1))
       /\ EndsIn(Append(t, a + 1), a + 1, 0)
    BY <1>10, <1>11, Appended
<1>15. EndsIn(t, a, n) => EndsIn(Append(t, 0), a, n + 1)
    BY <1>10, <1>11, Appended
<1> QED
    BY <1>11, <1>12, <1>13, <1>14, <1>15 DEF Ready

\* Only the page that opened a socket holds it, and a socket that is free has
\* nothing in it.
Held == \A p \in Page : conn[p] # None => conn[p] \in Socket /\ owner[conn[p]] = p
Clean == \A k \in Socket : owner[k] = None => queue[k] = <<>> /\ wire[k] = <<>>

\* No screen shows more than was ever activated, and what a kiosk with a socket
\* shows and waits for is in order.
Screens == \A p \in Kiosk : shows[p] <= active
Lines == \A p \in Kiosk : conn[p] # None =>
             Ready(shows[p], wire[conn[p]], queue[conn[p]], active, since)

WayInv == TypeOK /\ active # 0 /\ Held /\ Clean /\ Screens /\ Lines

\* Before the first socket is open no kiosk waits for anything.
LEMMA WayInit == Init => WayInv
PROOF
    BY TypeInit, HubBounds DEF Init, WayInv, Held, Clean, Screens, Lines

\* The invariant says of every kiosk what the property says.
LEMMA WayReady == WayInv => ActivePatternOnItsWay
PROOF
<1> SUFFICES ASSUME WayInv, NEW p \in Kiosk, conn[p] # None
             PROVE  /\ since < MaxQueue => \E i \in DOMAIN Way(p) :
                          /\ Way(p)[i] = active
                          /\ \A j \in DOMAIN Way(p) : j > i => ~IsPattern(Way(p)[j])
                    /\ \A i, j \in DOMAIN Way(p) :
                          i < j /\ IsPattern(Way(p)[j]) => Way(p)[i] <= Way(p)[j]
    BY DEF ActivePatternOnItsWay
<1>1. PICK k \in Socket : k = conn[p]
    BY HubBounds DEF WayInv, TypeOK
<1>2. /\ wire[k] \in Seq(Nat) /\ queue[k] \in Seq(Nat) /\ shows[p] \in Nat
      /\ active \in Nat /\ since \in Nat
    BY DEF WayInv, TypeOK
<1>3. PICK s : s = Line(shows[p], wire[k], queue[k])
    OBVIOUS
<1>4. s = Way(p)
    BY <1>1, <1>3 DEF Way, Line
<1>5. s \in Seq(Nat)
    <2>1. PICK b \in Nat, c \in Nat : Len(wire[k]) = b /\ Len(queue[k]) = c
        BY <1>2, LenProperties
    <2>2. IsLine(s, shows[p], wire[k], queue[k], b, c)
        BY <1>2, <1>3, <2>1, LineShape
    <2> QED
        BY <2>2 DEF IsLine
<1>6. DOMAIN s = 1..Len(s)
    BY <1>5, LenProperties
<1>7. Ordered(s) /\ (since < MaxQueue => EndsIn(s, active, since))
    BY <1>1, <1>3 DEF WayInv, Lines, Ready
<1>8. \A i, j \in DOMAIN s : i < j /\ IsPattern(s[j]) => s[i] <= s[j]
    BY <1>6, <1>7 DEF Ordered, IsPattern
<1>9. since < MaxQueue => \E i \in DOMAIN s :
          /\ s[i] = active
          /\ \A j \in DOMAIN s : j > i => ~IsPattern(s[j])
    BY <1>6, <1>7 DEF EndsIn, IsPattern
<1> QED
    BY <1>4, <1>8, <1>9

\* One kiosk's line after a step that leaves its page, its socket and the active
\* pattern alone.
LEMMA LineKept ==
    ASSUME WayInv, NEW p \in Kiosk, conn'[p] # None, conn'[p] = conn[p],
           shows'[p] = shows[p], queue'[conn[p]] = queue[conn[p]],
           wire'[conn[p]] = wire[conn[p]], active' = active, since' = since
    PROVE  Ready(shows'[p], wire'[conn'[p]], queue'[conn'[p]], active', since')
PROOF
    BY DEF WayInv, Lines

\* Publishing reaches every open socket.
LEMMA PublishGoes ==
    ASSUME WayInv, NEW m \in Nat, Publish(m), NEW a \in Nat, NEW n \in Nat,
           \/ m = 0 /\ a = active /\ n = since + 1
           \/ m = active + 1 /\ a = active + 1 /\ n = 0
    PROVE  /\ \A k \in Socket : owner[k] = None => queue'[k] = <<>>
           /\ \A p \in Kiosk : conn[p] # None =>
                 Ready(shows[p], wire[conn[p]], queue'[conn[p]], a, n)
PROOF
<1>1. \A k \in Socket : owner[k] = None => queue'[k] = <<>>
    BY DEF Publish, Open, WayInv, Clean
<1>2. ASSUME NEW p \in Kiosk, conn[p] # None
      PROVE  Ready(shows[p], wire[conn[p]], queue'[conn[p]], a, n)
    <2>1. PICK k \in Socket : k = conn[p] /\ owner[k] = p /\ p # None
        BY <1>2, HubBounds DEF WayInv, Held
    <2>2. queue'[k] = Push(queue[k], m)
        BY <2>1 DEF Publish, Open
    <2>3. Ready(shows[p], wire[k], queue[k], active, since)
        BY <1>2, <2>1 DEF WayInv, Lines
    <2>4. /\ wire[k] \in Seq(Nat) /\ queue[k] \in Seq(Nat) /\ shows[p] \in Nat
          /\ active \in Nat /\ since \in Nat
        BY <2>1 DEF WayInv, TypeOK
    <2>5. /\ Ready(shows[p], wire[k], Push(queue[k], 0), active, since + 1)
          /\ Ready(shows[p], wire[k], Push(queue[k], active + 1), active + 1, 0)
        BY <2>3, <2>4, ReadyPushed
    <2> QED
        BY <2>1, <2>2, <2>5
<1> QED
    BY <1>1, <1>2

\* No step takes a kiosk's pattern out of its line, or puts it out of order.
LEMMA WayStep == WayInv /\ [Next]_vars => WayInv'
PROOF
<1> SUFFICES ASSUME WayInv, [Next]_vars PROVE WayInv'
    OBVIOUS
<1>t. TypeOK'
    BY TypeStep DEF WayInv
<1>a. active \in Nat /\ since \in Nat /\ active # 0
    BY DEF WayInv, TypeOK
<1>k. \A p \in Kiosk : p \in Page /\ p # None
    BY HubBounds
<1>1. CASE ActivatePattern
    <2>1. Publish(active + 1) /\ active' = active + 1 /\ since' = 0
          /\ UNCHANGED <<conn, shows, owner, wire>>
        BY <1>1 DEF ActivatePattern
    <2>2. /\ \A k \in Socket : owner[k] = None => queue'[k] = <<>>
          /\ \A p \in Kiosk : conn[p] # None =>
                Ready(shows[p], wire[conn[p]], queue'[conn[p]], active + 1, 0)
        BY <1>a, <2>1, PublishGoes
    <2>3. active' # 0 /\ Screens'
        BY <1>a, <2>1 DEF WayInv, Screens, TypeOK
    <2> QED
        BY <1>t, <2>1, <2>2, <2>3 DEF WayInv, Held, Clean, Lines
<1>2. CASE PublishOther
    <2>1. Publish(0) /\ since' = since + 1
          /\ UNCHANGED <<active, conn, shows, owner, wire>>
        BY <1>2 DEF PublishOther
    <2>2. /\ \A k \in Socket : owner[k] = None => queue'[k] = <<>>
          /\ \A p \in Kiosk : conn[p] # None =>
                Ready(shows[p], wire[conn[p]], queue'[conn[p]], active, since + 1)
        BY <1>a, <2>1, PublishGoes
    <2> QED
        BY <1>a, <1>t, <2>1, <2>2 DEF WayInv, Held, Clean, Screens, Lines
<1>3. CASE Restart
    <2>1. \A p \in Page : conn'[p] = None
        BY <1>3 DEF Restart
    <2>2. Clean'
        BY <1>3 DEF Restart, Free, Clean
    <2>3. active' # 0 /\ Screens'
        BY <1>3, <1>a DEF Restart, WayInv, Screens, TypeOK
    <2> QED
        BY <1>k, <1>t, <2>1, <2>2, <2>3 DEF WayInv, Held, Lines
<1>4. ASSUME NEW p \in Page, NEW k \in Socket, Connect(p, k) PROVE WayInv'
    <2>1. /\ conn[p] = None /\ owner[k] = None
          /\ conn' = [conn EXCEPT ![p] = k] /\ owner' = [owner EXCEPT ![k] = p]
          /\ wire' = [wire EXCEPT ![k] = <<active>>]
          /\ UNCHANGED <<active, since, shows, queue>>
        BY <1>4 DEF Connect
    <2>2. /\ conn \in [Page -> Socket \cup {None}]
          /\ owner \in [Socket -> Page \cup {None}]
          /\ wire \in [Socket -> Seq(Nat)]
        BY DEF WayInv, TypeOK
    <2>3. Held'
        BY <2>1, <2>2, HubBounds DEF WayInv, Held
    <2>4. Clean'
        BY <2>1, <2>2, HubBounds DEF WayInv, Clean
    <2>5. active' # 0 /\ Screens'
        BY <2>1 DEF WayInv, Screens
    <2>6. ASSUME NEW z \in Kiosk, conn'[z] # None
          PROVE  Ready(shows'[z], wire'[conn'[z]], queue'[conn'[z]], active', since')
        <3>1. CASE z = p
            <4>1. conn'[z] = k /\ wire'[k] = <<active>> /\ queue'[k] = <<>>
                BY <2>1, <2>2, <3>1, <1>k DEF WayInv, Clean
            <4>2. shows'[z] \in Nat /\ shows'[z] <= active
                BY <2>1 DEF WayInv, TypeOK, Screens
            <4> QED
                BY <1>a, <2>1, <4>1, <4>2, ReadyGreeted
        <3>2. CASE z # p
            <4>1. conn'[z] = conn[z] /\ conn[z] # None
                BY <1>k, <2>1, <2>2, <2>6, <3>2
            <4>2. conn[z] \in Socket /\ conn[z] # k
                BY <1>k, <2>1, <4>1 DEF WayInv, Held
            <4>3. wire'[conn[z]] = wire[conn[z]]
                BY <2>1, <2>2, <4>2
            <4> QED
                BY <2>1, <2>6, <4>1, <4>3, LineKept
        <3> QED
            BY <3>1, <3>2
    <2> QED
        BY <1>t, <2>3, <2>4, <2>5, <2>6 DEF WayInv, Lines
<1>5. ASSUME NEW p \in Page, Receive(p) PROVE WayInv'
    <2>1. PICK k \in Socket : k = conn[p] /\ wire[k] # <<>> /\ owner[k] = p
        BY <1>5 DEF Receive, WayInv, Held
    <2>2. /\ conn \in [Page -> Socket \cup {None}] /\ shows \in [Kiosk -> Nat]
          /\ wire \in [Socket -> Seq(Nat)] /\ queue \in [Socket -> Seq(Nat)]
        BY DEF WayInv, TypeOK
    <2>3. /\ wire' = [wire EXCEPT ![k] = Tail(wire[k])]
          /\ shows' = [z \in Kiosk |-> IF z = p /\ Head(wire[k]) # 0
                                       THEN Head(wire[k]) ELSE shows[z]]
          /\ UNCHANGED <<active, since, conn, owner, queue>>
        BY <1>5, <2>1, <2>2 DEF Receive
    <2>4. Held'
        BY <2>3 DEF WayInv, Held
    <2>5. Clean'
        BY <1>5, <2>1, <2>2, <2>3, HubBounds DEF WayInv, Clean
    <2>6. ASSUME NEW z \in Kiosk, conn'[z] # None
          PROVE  Ready(shows'[z], wire'[conn'[z]], queue'[conn'[z]], active', since')
        <3>1. CASE z = p
            <4>1. Ready(shows[z], wire[k], queue[k], active, since)
                BY <2>1, <2>3, <2>6, <3>1 DEF WayInv, Lines
            <4>2. Ready(IF Head(wire[k]) # 0 THEN Head(wire[k]) ELSE shows[z],
                        Tail(wire[k]), queue[k], active, since)
                BY <1>a, <2>1, <2>2, <4>1, ReadyReceived
            <4>3. shows'[z] = IF Head(wire[k]) # 0 THEN Head(wire[k]) ELSE shows[z]
                BY <2>3, <3>1
            <4>4. conn'[z] = k /\ wire'[k] = Tail(wire[k]) /\ queue'[k] = queue[k]
                BY <2>1, <2>2, <2>3, <3>1
            <4> QED
                BY <2>3, <4>2, <4>3, <4>4
        <3>2. CASE z # p
            <4>1. conn[z] # k /\ conn[z] \in Socket
                BY <1>k, <2>1, <2>3, <2>6, <3>2 DEF WayInv, Held
            <4>2. wire'[conn[z]] = wire[conn[z]] /\ shows'[z] = shows[z]
                BY <2>2, <2>3, <3>2, <4>1
            <4> QED
                BY <2>3, <2>6, <4>2, LineKept
        <3> QED
            BY <3>1, <3>2
    <2>7. ASSUME NEW z \in Kiosk PROVE shows'[z] <= active'
        <3>1. CASE z = p /\ Head(wire[k]) # 0
            <4>1. PICK s : s = Line(shows[z], wire[k], queue[k])
                OBVIOUS
            <4>2. UpTo(s, active)
                BY <1>5, <2>1, <3>1, <4>1 DEF WayInv, Lines, Ready, Receive
            <4>3. s[2] = Head(wire[k]) /\ 2 \in 1..Len(s)
                <5>1. PICK y, d : y = shows[z] /\ d = 2
                    OBVIOUS
                <5>2. y \in Nat /\ d \in {1, 2} /\ (d = 2 /\ y = shows[z])
                    BY <2>2, <5>1
                <5> QED
                    BY <2>1, <2>2, <4>1, <5>2, LineReceive, ZenonT(60)
            <4> QED
                BY <2>3, <3>1, <4>2, <4>3 DEF UpTo
        <3>2. CASE ~(z = p /\ Head(wire[k]) # 0)
            BY <2>3, <3>2 DEF WayInv, Screens
        <3> QED
            BY <3>1, <3>2
    <2> QED
        BY <1>a, <1>t, <2>3, <2>4, <2>5, <2>6, <2>7 DEF WayInv, Lines, Screens
<1>6. ASSUME NEW p \in Page, Disconnect(p) PROVE WayInv'
    <2>1. /\ conn' = [conn EXCEPT ![p] = None]
          /\ UNCHANGED <<active, since, owner, queue, wire>>
        BY <1>6 DEF Disconnect
    <2>2. conn \in [Page -> Socket \cup {None}] /\ shows \in [Kiosk -> Nat]
        BY DEF WayInv, TypeOK
    <2>3. \A z \in Kiosk : shows'[z] = shows[z] \/ (z = p /\ shows'[z] = 0)
        BY <1>6 DEF Disconnect
    <2>4. Held' /\ Clean'
        BY <2>1, <2>2 DEF WayInv, Held, Clean
    <2>5. Screens'
        BY <1>a, <2>1, <2>3 DEF WayInv, Screens
    <2>6. ASSUME NEW z \in Kiosk, conn'[z] # None
          PROVE  Ready(shows'[z], wire'[conn'[z]], queue'[conn'[z]], active', since')
        <3>1. z # p /\ conn'[z] = conn[z]
            BY <1>k, <2>1, <2>2, <2>6
        <3> QED
            BY <2>1, <2>3, <2>6, <3>1, LineKept
    <2> QED
        BY <1>a, <1>t, <2>1, <2>4, <2>5, <2>6 DEF WayInv, Lines
<1>7. ASSUME NEW k \in Socket, Send(k) PROVE WayInv'
    <2>1. /\ queue[k] # <<>>
          /\ wire' = [wire EXCEPT ![k] = Append(wire[k], Head(queue[k]))]
          /\ queue' = [queue EXCEPT ![k] = Tail(queue[k])]
          /\ UNCHANGED <<active, since, conn, shows, owner>>
        BY <1>7 DEF Send, WayInv, TypeOK
    <2>2. /\ wire \in [Socket -> Seq(Nat)] /\ queue \in [Socket -> Seq(Nat)]
          /\ shows \in [Kiosk -> Nat]
        BY DEF WayInv, TypeOK
    <2>3. Held' /\ Screens'
        BY <2>1 DEF WayInv, Held, Screens
    <2>4. Clean'
        BY <2>1, <2>2 DEF WayInv, Clean
    <2>5. ASSUME NEW z \in Kiosk, conn'[z] # None
          PROVE  Ready(shows'[z], wire'[conn'[z]], queue'[conn'[z]], active', since')
        <3>1. CASE conn[z] = k
            <4>1. Ready(shows[z], wire[k], queue[k], active, since)
                BY <2>1, <2>5, <3>1 DEF WayInv, Lines
            <4>2. Ready(shows[z], Append(wire[k], Head(queue[k])), Tail(queue[k]), active, since)
                BY <1>a, <2>1, <2>2, <4>1, ReadySent
            <4>3. wire'[k] = Append(wire[k], Head(queue[k])) /\ queue'[k] = Tail(queue[k])
                BY <2>1, <2>2
            <4> QED
                BY <2>1, <3>1, <4>2, <4>3
        <3>2. CASE conn[z] # k
            <4>1. conn[z] \in Socket
                BY <1>k, <2>1, <2>5 DEF WayInv, Held
            <4>2. wire'[conn[z]] = wire[conn[z]] /\ queue'[conn[z]] = queue[conn[z]]
                BY <2>1, <2>2, <3>2, <4>1
            <4> QED
                BY <2>1, <2>5, <4>2, LineKept
        <3> QED
            BY <3>1, <3>2
    <2> QED
        BY <1>a, <1>t, <2>1, <2>3, <2>4, <2>5 DEF WayInv, Lines
<1>8. ASSUME NEW k \in Socket, SocketClosed(k) PROVE WayInv'
    <2>1. /\ Free({k}) /\ conn[owner[k]] # k
          /\ UNCHANGED <<active, since, conn, shows>>
        BY <1>8 DEF SocketClosed
    <2>2. \A p \in Page : conn[p] # None => conn[p] # k
        BY <2>1, HubBounds DEF WayInv, Held, TypeOK
    <2>3. /\ \A j \in Socket : j # k => /\ owner'[j] = owner[j]
                                        /\ queue'[j] = queue[j] /\ wire'[j] = wire[j]
          /\ queue'[k] = <<>> /\ wire'[k] = <<>>
        BY <2>1 DEF Free
    <2>4. Held'
        BY <2>1, <2>2, <2>3 DEF WayInv, Held
    <2>5. Clean'
        BY <2>3 DEF WayInv, Clean
    <2>6. Screens'
        BY <2>1 DEF WayInv, Screens
    <2>7. ASSUME NEW z \in Kiosk, conn'[z] # None
          PROVE  Ready(shows'[z], wire'[conn'[z]], queue'[conn'[z]], active', since')
        <3>1. conn[z] \in Socket /\ conn[z] # k
            BY <1>k, <2>1, <2>2, <2>7 DEF WayInv, Held
        <3> QED
            BY <2>1, <2>3, <2>7, <3>1, LineKept
    <2> QED
        BY <1>a, <1>t, <2>1, <2>4, <2>5, <2>6, <2>7 DEF WayInv, Lines
<1>9. CASE UNCHANGED vars
    BY <1>9, <1>t DEF vars, WayInv, Held, Clean, Screens, Lines
<1> QED
    BY <1>1, <1>2, <1>3, <1>4, <1>5, <1>6, <1>7, <1>8, <1>9 DEF Next

\* A kiosk with a socket has the active pattern on its screen, on the wire or in
\* its queue, as the last pattern there, until as many other events came since as a
\* queue holds, and is never sent back to an older one: for any number of kiosks,
\* sockets and events, and any length of queue and wire.
THEOREM ActivePatternAlways == Spec => []ActivePatternOnItsWay
PROOF
    BY WayInit, WayStep, WayReady, PTL DEF Spec

=============================================================================
