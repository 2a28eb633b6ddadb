------------------------------ MODULE EventHub ------------------------------
(***************************************************************************)
(* The event hub (events.py), the sockets of /api/v1/events, and the pages *)
(* that listen: the kiosk page, which draws the active pattern, and pages  *)
(* of the control UI, which only take events as a reason to ask /status.   *)
(*                                                                         *)
(* publish never suspends, so that a change of pattern and its frame in    *)
(* every queue are one step; so are, on a new socket, the subscription and *)
(* the snapshot it is greeted with.  A pattern is the number of its        *)
(* activation; every other event is the message 0.                         *)
(***************************************************************************)
EXTENDS Naturals, Sequences

CONSTANTS
    Page,        \* pages that listen
    Kiosk,       \* those of them that connect with role=kiosk
    Socket,      \* places for sockets, used again when they are closed
    MaxQueue,    \* maxsize of a subscriber's queue
    MaxWire,     \* frames a socket buffers before send_text has to wait
    MaxPatterns, \* bound: activations
    MaxEvents,   \* bound: other events after an activation
    MaxBreaks    \* bound: pages reloaded, sockets broken, processes killed

\* No socket, no page.
None == "none"

ASSUME HubBounds ==
    /\ Kiosk \subseteq Page /\ None \notin Page
    /\ MaxQueue \in Nat \ {0} /\ MaxWire \in Nat \ {0}
    /\ MaxPatterns \in Nat /\ MaxEvents \in Nat /\ MaxBreaks \in Nat

VARIABLES
    active,     \* the active pattern
    since,      \* other events published since it was activated (history)
    conn,       \* conn[p]: the socket page p holds, or None
    shows,      \* shows[p]: the pattern kiosk p draws, 0 on a page just loaded
    owner,      \* owner[k]: the page that opened socket k, or None
    queue,      \* queue[k]: the subscriber's queue
    wire,       \* wire[k]: frames sent and not received
    connected,  \* kiosk_connected
    overlapped, \* two kiosk sockets were open and one may still be (history)
    breaks

vars == <<active, since, conn, shows, owner, queue, wire, connected,
          overlapped, breaks>>

Open == {k \in Socket : owner[k] # None}
OpenKiosk == {k \in Socket : owner[k] \in Kiosk}

Init ==
    /\ active = 1 /\ since = 0
    /\ conn = [p \in Page |-> None]
    /\ shows = [p \in Kiosk |-> 0]
    /\ owner = [k \in Socket |-> None]
    /\ queue = [k \in Socket |-> <<>>]
    /\ wire = [k \in Socket |-> <<>>]
    /\ connected = FALSE /\ overlapped = FALSE
    /\ breaks = 0

-----------------------------------------------------------------------------
(* Publishing.                                                             *)

\* Mutant: a message that finds the queue full is dropped itself.
PushOrDrop(q, m) == IF Len(q) < MaxQueue THEN Append(q, m) ELSE q

\* Mutant: subscribers get a queue without a maximum.
PushUnbounded(q, m) == Append(q, m)

\* A full queue loses its oldest message.
Push(q, m) == Append(IF Len(q) < MaxQueue THEN q ELSE Tail(q), m)

Publish(m) ==
    queue' = [k \in Socket |-> IF k \in Open THEN Push(queue[k], m) ELSE queue[k]]

ActivatePattern ==
    /\ active < MaxPatterns
    /\ active' = active + 1 /\ since' = 0
    /\ Publish(active + 1)
    /\ UNCHANGED <<conn, shows, owner, wire, connected, overlapped, breaks>>

\* Steps of a soak, attempts, sessions, output and audio changes, faults.
PublishOther ==
    /\ since < MaxEvents
    /\ since' = since + 1
    /\ Publish(0)
    /\ UNCHANGED <<active, conn, shows, owner, wire, connected, overlapped, breaks>>

-----------------------------------------------------------------------------
(* Sockets.                                                                *)

\* Mutant: a new socket is not greeted.
ConnectUngreeted(p, k) ==
    /\ conn[p] = None /\ owner[k] = None
    /\ conn' = [conn EXCEPT ![p] = k]
    /\ owner' = [owner EXCEPT ![k] = p]
    /\ connected' = (connected \/ p \in Kiosk)
    /\ overlapped' = (overlapped \/ (p \in Kiosk /\ OpenKiosk # {}))
    /\ UNCHANGED <<active, since, shows, queue, wire, breaks>>

\* events_ws up to its loop: the flag, the subscription and the hello frame.
Connect(p, k) ==
    /\ conn[p] = None /\ owner[k] = None
    /\ conn' = [conn EXCEPT ![p] = k]
    /\ owner' = [owner EXCEPT ![k] = p]
    /\ wire' = [wire EXCEPT ![k] = <<active>>]
    /\ connected' = (connected \/ p \in Kiosk)
    /\ overlapped' = (overlapped \/ (p \in Kiosk /\ OpenKiosk # {}))
    /\ UNCHANGED <<active, since, shows, queue, breaks>>

Send(k) ==
    /\ queue[k] # <<>> /\ Len(wire[k]) < MaxWire
    /\ wire' = [wire EXCEPT ![k] = Append(@, Head(queue[k]))]
    /\ queue' = [queue EXCEPT ![k] = Tail(@)]
    /\ UNCHANGED <<active, since, conn, shows, owner, connected, overlapped, breaks>>

\* onmessage: on a kiosk, hello and pattern frames change what is drawn.
Receive(p) ==
    /\ conn[p] # None /\ wire[conn[p]] # <<>>
    /\ LET m == Head(wire[conn[p]])
       IN  shows' = [q \in Kiosk |-> IF q = p /\ m # 0 THEN m ELSE shows[q]]
    /\ wire' = [wire EXCEPT ![conn[p]] = Tail(@)]
    /\ UNCHANGED <<active, since, conn, owner, queue, connected, overlapped, breaks>>

\* The page is reloaded, or its socket breaks: onclose.
Disconnect(p) ==
    /\ conn[p] # None /\ breaks < MaxBreaks
    /\ breaks' = breaks + 1
    /\ conn' = [conn EXCEPT ![p] = None]
    /\ shows' \in {shows, [q \in Kiosk |-> IF q = p THEN 0 ELSE shows[q]]}
    /\ UNCHANGED <<active, since, owner, queue, wire, connected, overlapped>>

Free(K) ==
    /\ owner' = [k \in Socket |-> IF k \in K THEN None ELSE owner[k]]
    /\ queue' = [k \in Socket |-> IF k \in K THEN <<>> ELSE queue[k]]
    /\ wire' = [k \in Socket |-> IF k \in K THEN <<>> ELSE wire[k]]

\* Mutant: the handler leaves kiosk_connected set.
SocketClosedKeepingFlag(k) ==
    /\ k \in Open /\ conn[owner[k]] # k
    /\ Free({k})
    /\ overlapped' = (overlapped /\ OpenKiosk \ {k} # {})
    /\ UNCHANGED <<active, since, conn, shows, connected, breaks>>

\* The handler notices, maybe after the page has connected again: unsubscribe,
\* and the kiosk counts as gone.
SocketClosed(k) ==
    /\ k \in Open /\ conn[owner[k]] # k
    /\ Free({k})
    /\ connected' = (connected /\ owner[k] \notin Kiosk)
    /\ overlapped' = (overlapped /\ OpenKiosk \ {k} # {})
    /\ UNCHANGED <<active, since, conn, shows, breaks>>

\* The process is killed and boots with its startup pattern.
Restart ==
    /\ active < MaxPatterns /\ breaks < MaxBreaks
    /\ breaks' = breaks + 1
    /\ active' = active + 1 /\ since' = 0
    /\ Free(Socket)
    /\ conn' = [p \in Page |-> None]
    /\ connected' = FALSE /\ overlapped' = FALSE
    /\ UNCHANGED shows

Next == \/ ActivatePattern \/ PublishOther \/ Restart
        \/ \E p \in Page, k \in Socket : Connect(p, k)
        \/ \E p \in Page : Receive(p) \/ Disconnect(p)
        \/ \E k \in Socket : Send(k) \/ SocketClosed(k)

Spec == Init /\ [][Next]_vars

\* Pages connect again and read their sockets; the server sends what it has and
\* notices a broken socket.
FairSpec ==
    /\ Spec
    /\ \A p \in Page : /\ WF_vars(\E k \in Socket : Connect(p, k))
                       /\ WF_vars(Receive(p))
    /\ \A k \in Socket : WF_vars(Send(k)) /\ WF_vars(SocketClosed(k))

-----------------------------------------------------------------------------
(* Properties                                                              *)

\* Every variable has its type, and no queue exceeds its maximum.
TypeOK ==
    /\ active \in Nat /\ since \in Nat /\ breaks \in 0..MaxBreaks
    /\ conn \in [Page -> Socket \cup {None}] /\ shows \in [Kiosk -> Nat]
    /\ owner \in [Socket -> Page \cup {None}]
    /\ queue \in [Socket -> Seq(Nat)] /\ wire \in [Socket -> Seq(Nat)]
    /\ \A k \in Socket : Len(queue[k]) <= MaxQueue /\ Len(wire[k]) <= MaxWire
    /\ connected \in BOOLEAN /\ overlapped \in BOOLEAN

\* What kiosk p draws, and what is on its way to it.
Way(p) == <<shows[p]>> \o wire[conn[p]] \o queue[conn[p]]
IsPattern(m) == m # 0

\* A kiosk with a socket has the active pattern on its screen, on the wire or in
\* its queue, and as the last of them, unless as many other events came since as
\* a queue holds: dropping the oldest message never costs a kiosk its pattern
\* earlier, and no event slips between the subscription and the snapshot.  Nor
\* is it ever sent back to an older pattern, a new socket included.
ActivePatternOnItsWay ==
    \A p \in Kiosk : conn[p] # None =>
        /\ since < MaxQueue => \E i \in DOMAIN Way(p) :
              /\ Way(p)[i] = active
              /\ \A j \in DOMAIN Way(p) : j > i => ~IsPattern(Way(p)[j])
        /\ \A i, j \in DOMAIN Way(p) :
              i < j /\ IsPattern(Way(p)[j]) => Way(p)[i] <= Way(p)[j]

\* The output_browser health check: a kiosk that is reported has a socket, and
\* one that has a socket is reported, unless an older kiosk socket was still
\* open when it connected, until the last of them is closed.
KioskReported ==
    /\ connected => OpenKiosk # {}
    /\ OpenKiosk # {} => connected \/ overlapped

\* In the end every kiosk shows the active pattern, whatever was reloaded, cut
\* or restarted, unless its frame was crowded out of the queue.
ShownInTheEnd ==
    \A p \in Kiosk : <>[](shows[p] = active \/ since >= MaxQueue)

=============================================================================
